-------------------------- MODULE ApplyPatchProofs --------------------------
(***************************************************************************)
(* Proofs about ApplyPatch, for any script, any number of interruptions    *)
(* and any number of failing calls.                                        *)
(***************************************************************************)
EXTENDS ApplyPatch, TLAPS

\* Directory changes are durable, and the script checks its partitions before it patches.
Careful == ~Volatile /\ (Checks \/ \A i \in Patches : Kind[i] # "emmc")

New(i) == sys[Target(i)] = "new"
Old(i) == sys[Source(i)] = "old"

Unpatched == {"space", "make_space", "save", "saving", "unlink", "patch", "commit", "writing"}

\* With durable directories the disks are what the file systems show.
Settled == sysDisk = sys /\ savedDisk = saved

\* What comes before the patch at work is in place; the patch at work is not; what comes after
\* a patch that is not in place has not been touched.
OrderInv ==
  /\ \A i \in Patches : i < cur => New(i)
  /\ pc \in Unpatched => ~New(cur)
  /\ pc = "cleanup" => New(cur)
  /\ \A i, j \in Patches : i < j /\ ~New(i) => Old(j) /\ ~New(j)

\* Past the checks a partition is good, except the one that is being written.
PartitionInv ==
  pc \notin {"start", "failed", "done"} =>
    \A i \in Patches : Kind[i] = "emmc" =>
      Old(i) \/ New(i) \/ (pc = "writing" /\ i = cur)

\* The source is in place until it has been saved, and then the copy is.
SourceInv ==
  /\ pc \in {"make_space", "save", "saving"} => use = "source"
  /\ pc = "space" /\ Kind[cur] = "emmc" => use = "source"
  /\ pc \in {"space", "make_space", "save", "saving"} /\ use = "source" => Old(cur)
  /\ pc \in {"make_space", "save", "saving", "unlink"} => retry = 0
  /\ pc = "patch" /\ retry = 1 /\ use = "source" => Old(cur)

CopyInv ==
  /\ pc \in {"space", "make_space", "save", "saving"} => made_copy = 0
  /\ pc \in {"unlink", "patch", "commit", "writing", "cleanup"} /\ made_copy = 1 =>
       saved = cur /\ retry = 0
  /\ pc = "unlink" => made_copy = 1 /\ Kind[cur] # "emmc"
  /\ pc = "writing" => Kind[cur] = "emmc"
  /\ pc \in {"patch", "commit", "writing"} /\ Kind[cur] = "emmc" => made_copy = 1

\* Recoverable, and what makes it inductive.
SafeInv == Settled /\ OrderInv /\ PartitionInv /\ SourceInv /\ CopyInv /\ Recoverable

-----------------------------------------------------------------------------
(* Facts about the operators *)

\* Sources and targets are locations, and those of different patches differ.
LEMMA Places ==
  /\ \A i \in Patches : Source(i) \in Locations /\ Target(i) \in Locations
  /\ \A i, j \in Patches : i # j =>
       Source(i) # Source(j) /\ Target(i) # Target(j) /\ Source(i) # Target(j)
  /\ \A i \in Patches : Kind[i] # "elsewhere" => Target(i) = Source(i)
BY DEF Locations, Source, Target

\* MakeFreeSpaceOnCache() leaves the saved copy alone.
LEMMA Eviction ==
  ASSUME TypeOK, NEW enough \in BOOLEAN, MakeFreeSpaceOnCache(enough)
  PROVE  UNCHANGED copy /\ others' \subseteq others /\ faults' \in Nat
<1>1. \A gone \in SUBSET Expendable(OpenFiles) :
        Evict(gone) => UNCHANGED copy /\ others' \subseteq others
  BY DEF Evict, Expendable
<1>2. {} \in SUBSET Expendable(OpenFiles)
  OBVIOUS
<1>3. faults' \in Nat
  BY DEF MakeFreeSpaceOnCache, Fault, TypeOK
<1> QED
  BY <1>1, <1>2, <1>3 DEF MakeFreeSpaceOnCache

\* A change of the files of one patch is none of another's.
LEMMA Elsewhere ==
  ASSUME TypeOK, NEW k \in Patches, NEW l \in {Source(k), Target(k)}, NEW c,
         sys' = [sys EXCEPT ![l] = c]
  PROVE  /\ \A i \in Patches : i # k => (New(i)' <=> New(i)) /\ (Old(i)' <=> Old(i))
         /\ sys'[l] = c
BY Places DEF TypeOK, New, Old

\* What the script patches next.
LEMMA Advance ==
  ASSUME cur \in Patches, NextPatch
  PROVE  /\ cur' = cur + 1 /\ cur' \in 1..(N + 1)
         /\ pc' \in {"done", "load"} /\ (pc' = "load" => cur' \in Patches)
BY NAssumption DEF NextPatch, Patches

-----------------------------------------------------------------------------
(* Type correctness *)

\* Every step keeps the types.
LEMMA TypeStep == TypeOK /\ [Next]_vars => TypeOK'
<1> SUFFICES ASSUME TypeOK, [Next]_vars PROVE TypeOK'
  OBVIOUS
<1> USE NAssumption
<1>0. /\ NoCopy \in Copies /\ BadCopy \in Copies /\ Patches \subseteq Copies
      /\ 1 \in 1..(N + 1) /\ (N # 0 => 1 \in Patches) /\ Patches \subseteq 1..(N + 1)
  BY DEF NoCopy, BadCopy, Copies, Patches
<1>s. \A l \in Locations, c \in Contents :
        /\ [sys EXCEPT ![l] = c] \in [Locations -> Contents]
        /\ [sysDisk EXCEPT ![l] = c] \in [Locations -> Contents]
  BY DEF TypeOK
<1>w. \A l \in Locations, c \in Contents :
        WriteSys(l, c) \/ ChangeSys(l, c) =>
          sys' \in [Locations -> Contents] /\ sysDisk' \in [Locations -> Contents]
  BY <1>s DEF WriteSys, ChangeSys, Durable, TypeOK
<1>f. Fault => faults' \in Nat
  BY DEF Fault, TypeOK
<1>1. CASE Start
  <2>1. /\ UNCHANGED copy /\ others' \subseteq others /\ faults' \in Nat
        /\ pc' \in {"failed", "done", "load"} /\ (pc' = "load" => N # 0)
    BY <1>1, Eviction DEF Start
  <2>2. cur = 1 /\ cur' = cur /\ (N # 0 => cur \in Patches)
    BY <1>1, <1>0 DEF Start, TypeOK
  <2> QED
    BY <1>1, <1>0, <2>1, <2>2 DEF Start, TypeOK, Points, files, local, copy
<1>2. CASE Load
  BY <1>2, Advance DEF Load, Fails, TypeOK, Points, files, local, copy
<1>3. CASE Space
  BY <1>3 DEF Space, TypeOK, Points, files, copy
<1>4. CASE MakeSpace
  <2>1. UNCHANGED copy /\ others' \subseteq others /\ faults' \in Nat
    BY <1>4, Eviction DEF MakeSpace
  <2>2. pc = "make_space" /\ pc' \in {"save", "failed"}
    BY <1>4 DEF MakeSpace
  <2> QED
    BY <1>4, <2>1, <2>2 DEF MakeSpace, TypeOK, Points, files, local, copy
<1>5. CASE SaveBegin
  BY <1>5, <1>0, <1>f DEF SaveBegin, Goto, WriteCopy, TypeOK, Points, files, local, copy
<1>6. CASE SaveEnd
  BY <1>6, <1>0, <1>f DEF SaveEnd, Goto, WriteCopy, TypeOK, Points, files, copy
<1>7. CASE UnlinkSource
  <2>1. cur \in Patches /\ pc' = "patch"
    BY <1>7 DEF UnlinkSource, Goto, TypeOK
  <2> QED
    BY <1>7, <2>1, <1>w, <1>f, Places
    DEF UnlinkSource, TypeOK, Points, Contents, files, local, copy
<1>8. CASE Patch
  BY <1>8, <1>f DEF Patch, Goto, TypeOK, Points, files, copy
<1>9. CASE Commit
  <2>1. cur \in Patches /\ pc' \in {"writing", "cleanup", "failed"}
    BY <1>9 DEF Commit, Goto, TypeOK
  <2> QED
    BY <1>9, <2>1, <1>w, <1>f, Places
    DEF Commit, TypeOK, Points, Contents, files, local, copy
<1>10. CASE WriteEnd
  <2>1. cur \in Patches /\ pc' \in {"cleanup", "failed"}
    BY <1>10 DEF WriteEnd, Goto, TypeOK
  <2> QED
    BY <1>10, <2>1, <1>w, <1>f, Places
    DEF WriteEnd, TypeOK, Points, Contents, files, local, copy
<1>11. CASE Cleanup
  BY <1>11, <1>0, Advance DEF Cleanup, Durable, TypeOK, Points, files, local, copy
<1>12. CASE Restart
  BY <1>12, <1>0 DEF Restart, TypeOK, Points, files, local, copy
<1>13. CASE Crash
  BY <1>13, <1>0 DEF Crash, TypeOK, Points, local
<1>14. CASE UNCHANGED vars
  BY <1>14 DEF vars, TypeOK, files, local, copy
<1> QED
  BY <1>1, <1>2, <1>3, <1>4, <1>5, <1>6, <1>7, <1>8, <1>9, <1>10, <1>11, <1>12, <1>13, <1>14
  DEF Next, Updater

\* Every variable keeps its type, in every run of any script.
THEOREM TypeCorrect == Spec => []TypeOK
<1>1. Init => TypeOK
  <2> SUFFICES ASSUME Init PROVE TypeOK
    OBVIOUS
  <2>1. sys \in [Locations -> Contents]
    BY DEF Init, Contents
  <2> QED
    BY <2>1, NAssumption DEF Init, TypeOK, Points, Copies, NoCopy
<1> QED
  BY <1>1, TypeStep, PTL DEF Spec

-----------------------------------------------------------------------------
(* Every patch stays recoverable *)

\* A step of a careful script keeps the invariant.
LEMMA SafeStep ==
  ASSUME Careful PROVE TypeOK /\ TypeOK' /\ SafeInv /\ [Next]_vars => SafeInv'
<1> SUFFICES ASSUME TypeOK, TypeOK', SafeInv, [Next]_vars PROVE SafeInv'
  OBVIOUS
<1> USE NAssumption
<1>n. Patches \subseteq Nat
  BY DEF Patches
<1>d. ~Volatile /\ \A disk, now, next : Durable(disk, now, next) = {next}
  BY DEF Careful, Durable
<1>c. ASSUME UNCHANGED <<files, copy>>, OrderInv', PartitionInv', SourceInv', CopyInv'
      PROVE  SafeInv'
  BY <1>c DEF SafeInv, Settled, Recoverable, files, copy
\* A step that changes the files of the patch at work and nothing else on the disks.
<1>f. ASSUME cur \in Patches, NEW l \in {Source(cur), Target(cur)}, NEW c \in Contents,
             WriteSys(l, c) \/ ChangeSys(l, c), UNCHANGED copy
      PROVE  /\ Settled' /\ sys'[l] = c
             /\ \A i \in Patches : i # cur => (New(i)' <=> New(i)) /\ (Old(i)' <=> Old(i))
             /\ \A i \in Patches : i # cur => (New(i) \/ Old(i) \/ saved = i)
  <2>1. sys' = [sys EXCEPT ![l] = c] /\ sysDisk' = sys' /\ savedDisk' = saved'
    BY <1>f, <1>d DEF WriteSys, ChangeSys, SafeInv, Settled, copy
  <2>2. /\ \A i \in Patches : i # cur => (New(i)' <=> New(i)) /\ (Old(i)' <=> Old(i))
        /\ sys'[l] = c
    BY <1>f, <2>1, Elsewhere, Zenon
  <2>3. \A i \in Patches : New(i) \/ Old(i) \/ saved = i
    BY DEF Settled, SafeInv, Recoverable, New, Old
  <2> QED
    BY <2>1, <2>2, <2>3 DEF Settled
<1>1. CASE Start
  <2>1. UNCHANGED <<files, copy, cur, use, retry, made_copy>> /\ pc' \in {"failed", "done", "load"}
    BY <1>1, Eviction DEF Start, local
  <2>2. pc' = "load" => \A i \in Patches : Kind[i] = "emmc" => CheckPasses(i)
    BY <1>1 DEF Start, Careful
  <2>3. PartitionInv'
    BY <2>1, <2>2, Places DEF PartitionInv, CheckPasses, New, Old, files
  <2> QED
    BY <2>1, <2>3, <1>c DEF SafeInv, OrderInv, SourceInv, CopyInv, Unpatched, New, Old, files
<1>2. CASE Load
  <2>1. UNCHANGED <<files, copy>> /\ pc = "load" /\ cur \in Patches
    BY <1>2 DEF Load, TypeOK
  <2>2. CASE New(cur)
    <3>1. UNCHANGED local /\ cur' = cur + 1 /\ pc' \in {"done", "load"}
      BY <1>2, <2>1, <2>2, Advance DEF Load, New
    <3>2. OrderInv'
      BY <2>1, <2>2, <3>1, <1>n DEF SafeInv, OrderInv, Unpatched, New, Old, files
    <3> QED
      BY <2>1, <3>1, <3>2, <1>c DEF SafeInv, PartitionInv, SourceInv, CopyInv, New, Old, files
  <2>3. CASE ~New(cur)
    <3>1. /\ cur' = cur /\ made_copy' = 0 /\ pc' \in {"space", "failed"}
          /\ (use' = "source" <=> Old(cur))
          /\ (Kind[cur] = "emmc" => Old(cur))
      BY <1>2, <2>1, <2>3 
      DEF Load, New, Old, Fails, SafeInv, PartitionInv
    <3> QED
      BY <2>1, <2>3, <3>1, <1>c
      DEF SafeInv, OrderInv, PartitionInv, SourceInv, CopyInv, Unpatched, New, Old, files
  <2> QED
    BY <2>2, <2>3
<1>3. CASE Space
  <2>1. /\ UNCHANGED <<files, copy, cur, use, made_copy>> /\ pc = "space" /\ cur \in Patches
        /\ pc' \in {"make_space", "patch"}
        /\ pc' = "make_space" => retry' = 0 /\ (Kind[cur] = "emmc" \/ use = "source")
        /\ pc' = "patch" => Kind[cur] # "emmc"
    BY <1>3 DEF Space, TypeOK
  <2>2. (Kind[cur] = "emmc" => use = "source") /\ (use = "source" => Old(cur))
    BY <2>1 DEF SafeInv, SourceInv
  <2> QED
    BY <2>1, <2>2, <1>c
    DEF SafeInv, OrderInv, PartitionInv, SourceInv, CopyInv, Unpatched, New, Old, files
<1>4. CASE MakeSpace
  <2>1. UNCHANGED <<files, copy, cur, use, retry, made_copy>> /\ pc' \in {"failed", "save"}
    BY <1>4, Eviction DEF MakeSpace, local
  <2>2. pc = "make_space"
    BY <1>4 DEF MakeSpace
  <2> QED
    BY <2>1, <2>2, <1>c
    DEF SafeInv, OrderInv, PartitionInv, SourceInv, CopyInv, Unpatched, New, Old, files
<1>5. CASE SaveBegin
  <2>1. /\ UNCHANGED <<files, cur, use, retry, made_copy>> /\ pc = "save" /\ cur \in Patches
        /\ pc' \in {"failed", "saving"} /\ savedDisk' = saved'
    BY <1>5 DEF SaveBegin, Goto, WriteCopy, TypeOK, local, copy, SafeInv, Settled
  <2>2. Old(cur) /\ ~New(cur)
    BY <2>1 DEF SafeInv, SourceInv, OrderInv, Unpatched
  <2>3. Recoverable'
    <3>1. \A i \in Patches : i < cur \/ i = cur \/ cur < i
      BY <2>1, <1>n
    <3> QED
      BY <2>1, <2>2, <3>1 DEF SafeInv, Settled, Recoverable, OrderInv, New, Old, files
  <2> QED
    BY <2>1, <2>2, <2>3
    DEF SafeInv, Settled, OrderInv, PartitionInv, SourceInv, CopyInv, Unpatched, New, Old, files
<1>6. CASE SaveEnd
  <2>1. /\ UNCHANGED <<files, cur, use, retry>> /\ pc = "saving" /\ cur \in Patches
        /\ savedDisk' = saved'
        /\ pc' \in {"failed", "patch", "unlink"}
        /\ pc' # "failed" => saved' = cur /\ made_copy' = 1
        /\ pc' = "unlink" => Kind[cur] # "emmc"
        /\ pc' = "patch" => Kind[cur] = "emmc"
    BY <1>6 DEF SaveEnd, Goto, WriteCopy, TypeOK, copy, SafeInv, Settled
  <2>2. Old(cur) /\ ~New(cur) /\ retry = 0 /\ use = "source"
    BY <2>1 DEF SafeInv, SourceInv, OrderInv, Unpatched
  <2>3. Recoverable'
    <3>1. \A i \in Patches : i < cur \/ i = cur \/ cur < i
      BY <2>1, <1>n
    <3> QED
      BY <2>1, <2>2, <3>1 DEF SafeInv, Settled, Recoverable, OrderInv, New, Old, files
  <2> QED
    BY <2>1, <2>2, <2>3
    DEF SafeInv, Settled, OrderInv, PartitionInv, SourceInv, CopyInv, Unpatched, New, Old, files
<1>7. CASE UnlinkSource
  <2>1. /\ UNCHANGED <<copy, cur, use, retry, made_copy>> /\ pc = "unlink" /\ pc' = "patch"
        /\ cur \in Patches
    BY <1>7 DEF UnlinkSource, Goto, TypeOK, local
  <2>2. saved = cur /\ retry = 0 /\ made_copy = 1 /\ Kind[cur] # "emmc" /\ ~New(cur)
    BY <2>1 DEF SafeInv, CopyInv, OrderInv, Unpatched
  <2>3. CASE UNCHANGED files
    BY <2>1, <2>2, <2>3, <1>c
    DEF SafeInv, OrderInv, PartitionInv, SourceInv, CopyInv, Unpatched, New, Old, files, copy
  <2>4. CASE ChangeSys(Source(cur), "none")
    <3>1. /\ Settled' /\ sys'[Source(cur)] = "none"
          /\ \A i \in Patches : i # cur => (New(i)' <=> New(i)) /\ (Old(i)' <=> Old(i))
          /\ \A i \in Patches : i # cur => (New(i) \/ Old(i) \/ saved = i)
      BY <2>1, <2>4, <1>f DEF Contents
    <3>2. ~New(cur)'
      BY <2>1, <2>2, <2>4, <3>1, Places DEF ChangeSys, New, TypeOK
    <3>3. OrderInv'
      BY <2>1, <2>2, <3>1, <3>2, <1>n DEF SafeInv, OrderInv, Unpatched
    <3>4. Recoverable'
      BY <2>1, <2>2, <3>1 DEF Settled, Recoverable, New, Old, copy
    <3>5. PartitionInv'
      BY <2>1, <2>2, <3>1 DEF SafeInv, PartitionInv
    <3> QED
      BY <2>1, <2>2, <3>1, <3>3, <3>4, <3>5 DEF SafeInv, SourceInv, CopyInv, copy
  <2> QED
    BY <1>7, <2>3, <2>4 DEF UnlinkSource
<1>8. CASE Patch
  <2>1. /\ UNCHANGED <<files, copy, cur, use, made_copy>> /\ pc = "patch" /\ cur \in Patches
        /\ pc' \in {"commit", "failed", "space"}
        /\ pc' = "space" => retry # 0
        /\ retry' \in {retry, 0}
    BY <1>8 DEF Patch, Goto, TypeOK
  <2>2. retry # 0 => retry = 1
    BY DEF TypeOK
  <2> QED
    BY <2>1, <2>2, <1>c
    DEF SafeInv, OrderInv, PartitionInv, SourceInv, CopyInv, Unpatched, New, Old, files, copy, TypeOK
<1>9. CASE Commit
  <2>1. /\ UNCHANGED <<copy, cur, use, retry, made_copy>> /\ pc = "commit" /\ cur \in Patches
    BY <1>9 DEF Commit, Goto, TypeOK, local
  <2>2. CASE UNCHANGED files /\ pc' = "failed"
    BY <2>1, <2>2, <1>c
    DEF SafeInv, OrderInv, PartitionInv, SourceInv, CopyInv, Unpatched, New, Old, files
  <2>3. CASE Kind[cur] = "emmc" /\ WriteSys(Target(cur), "bad") /\ pc' = "writing"
    <3>1. /\ Settled' /\ sys'[Target(cur)] = "bad"
          /\ \A i \in Patches : i # cur => (New(i)' <=> New(i)) /\ (Old(i)' <=> Old(i))
          /\ \A i \in Patches : i # cur => (New(i) \/ Old(i) \/ saved = i)
      BY <2>1, <2>3, <1>f DEF Contents
    <3>2. saved = cur /\ made_copy = 1 /\ retry = 0 /\ ~New(cur)
      BY <2>1, <2>3 DEF SafeInv, CopyInv, OrderInv, Unpatched
    <3>3. OrderInv'
      BY <2>1, <2>3, <3>1, <3>2, <1>n DEF SafeInv, OrderInv, Unpatched, New
    <3>4. Recoverable'
      BY <2>1, <3>1, <3>2 DEF Settled, Recoverable, New, Old, copy
    <3>5. PartitionInv'
      BY <2>1, <2>3, <3>1 DEF SafeInv, PartitionInv
    <3> QED
      BY <2>1, <2>3, <3>1, <3>2, <3>3, <3>4, <3>5 DEF SafeInv, SourceInv, CopyInv, copy
  <2>4. CASE Kind[cur] # "emmc" /\ ChangeSys(Target(cur), "new") /\ pc' = "cleanup"
    <3>1. /\ Settled' /\ sys'[Target(cur)] = "new"
          /\ \A i \in Patches : i # cur => (New(i)' <=> New(i)) /\ (Old(i)' <=> Old(i))
          /\ \A i \in Patches : i # cur => (New(i) \/ Old(i) \/ saved = i)
      BY <2>1, <2>4, <1>f DEF Contents
    <3>2. OrderInv'
      BY <2>1, <2>4, <3>1, <1>n DEF SafeInv, OrderInv, Unpatched, New
    <3>3. Recoverable'
      BY <2>1, <3>1 DEF Settled, Recoverable, New, Old, copy
    <3>4. PartitionInv'
      BY <2>1, <2>4, <3>1 DEF SafeInv, PartitionInv
    <3> QED
      BY <2>1, <2>4, <3>1, <3>2, <3>3, <3>4 DEF SafeInv, SourceInv, CopyInv, copy
  <2> QED
    BY <1>9, <2>2, <2>3, <2>4 DEF Commit, Goto
<1>10. CASE WriteEnd
  <2>1. /\ UNCHANGED <<copy, cur, use, retry, made_copy>> /\ pc = "writing" /\ cur \in Patches
    BY <1>10 DEF WriteEnd, Goto, TypeOK, local
  <2>2. CASE UNCHANGED files /\ pc' = "failed"
    BY <2>1, <2>2, <1>c
    DEF SafeInv, OrderInv, PartitionInv, SourceInv, CopyInv, Unpatched, New, Old, files
  <2>3. CASE WriteSys(Target(cur), "new") /\ pc' = "cleanup"
    <3>1. /\ Settled' /\ sys'[Target(cur)] = "new"
          /\ \A i \in Patches : i # cur => (New(i)' <=> New(i)) /\ (Old(i)' <=> Old(i))
          /\ \A i \in Patches : i # cur => (New(i) \/ Old(i) \/ saved = i)
      BY <2>1, <2>3, <1>f DEF Contents
    <3>2. OrderInv'
      BY <2>1, <2>3, <3>1, <1>n DEF SafeInv, OrderInv, Unpatched, New
    <3>3. Recoverable'
      BY <2>1, <3>1 DEF Settled, Recoverable, New, Old, copy
    <3>4. PartitionInv'
      BY <2>1, <2>3, <3>1 DEF SafeInv, PartitionInv, New
    <3> QED
      BY <2>1, <2>3, <3>1, <3>2, <3>3, <3>4 DEF SafeInv, SourceInv, CopyInv, copy
  <2> QED
    BY <1>10, <2>2, <2>3 DEF WriteEnd, Goto
<1>11. CASE Cleanup
  <2>1. /\ UNCHANGED <<files, use, retry, made_copy>> /\ pc = "cleanup" /\ cur \in Patches
        /\ cur' = cur + 1 /\ pc' \in {"done", "load"}
        /\ UNCHANGED copy \/ (made_copy = 1 /\ saved' = NoCopy /\ savedDisk' = NoCopy)
    BY <1>11, <1>d, Advance DEF Cleanup, TypeOK, local
  <2>2. New(cur) /\ (made_copy = 1 => saved = cur)
    BY <2>1 DEF SafeInv, OrderInv, CopyInv
  <2>3. OrderInv'
    BY <2>1, <2>2, <1>n DEF SafeInv, OrderInv, Unpatched, New, Old, files
  <2>4. Recoverable' /\ Settled'
    BY SMTT(20), <2>1, <2>2 DEF SafeInv, Settled, Recoverable, New, Old, files, copy
  <2> QED
    BY <2>1, <2>3, <2>4 DEF SafeInv, PartitionInv, SourceInv, CopyInv, New, Old, files
<1>12. CASE Restart
  <2>1. UNCHANGED <<files, copy>> /\ pc' = "start" /\ cur' = 1
    BY <1>12 DEF Restart
  <2>2. \A i \in Patches : ~(i < 1)
    BY DEF Patches
  <2> QED
    BY <2>1, <2>2, <1>c
    DEF SafeInv, OrderInv, PartitionInv, SourceInv, CopyInv, Unpatched, New, Old, files
<1>13. CASE Crash
  <2>1. UNCHANGED <<files, copy>> /\ pc' = "start" /\ cur' = 1
    BY <1>13 DEF Crash, SafeInv, Settled, files, copy
  <2>2. \A i \in Patches : ~(i < 1)
    BY DEF Patches
  <2> QED
    BY <2>1, <2>2, <1>c
    DEF SafeInv, OrderInv, PartitionInv, SourceInv, CopyInv, Unpatched, New, Old, files
<1>14. CASE UNCHANGED vars
  BY <1>14, <1>c
  DEF vars, local, files, copy, SafeInv, OrderInv, PartitionInv, SourceInv, CopyInv, Unpatched, New, Old
<1> QED
  BY <1>1, <1>2, <1>3, <1>4, <1>5, <1>6, <1>7, <1>8, <1>9, <1>10, <1>11, <1>12, <1>13, <1>14
  DEF Next, Updater

\* The invariant holds of a careful script.
LEMMA SafeCorrect == ASSUME Careful PROVE Spec => [](TypeOK /\ SafeInv)
<1>1. Init => SafeInv
  <2> SUFFICES ASSUME Init PROVE SafeInv
    OBVIOUS
  <2>1. \A l \in Locations : sys[l] # "new" /\ (l \in Patches \X {"src"} => sys[l] = "old")
    BY DEF Init
  <2>2. \A i \in Patches : Source(i) \in Patches \X {"src"} /\ ~(i < 1)
    BY DEF Source, Patches
  <2>3. \A i \in Patches : Old(i) /\ ~New(i) /\ ~(i < 1)
    BY <2>1, <2>2, Places DEF Old, New
  <2> QED
    BY <2>3
    DEF Init, SafeInv, Settled, OrderInv, PartitionInv, SourceInv, CopyInv, Recoverable,
        Unpatched, Old
<1>2. TypeOK /\ TypeOK' /\ SafeInv /\ [Next]_vars => SafeInv'
  BY SafeStep
<1> QED
  BY <1>1, <1>2, TypeCorrect, PTL DEF Spec

\* With durable directories, and partitions checked before they are patched, no interruption
\* and no failure of applypatch() ever loses the only contents a patch applies to.
THEOREM RecoverableCorrect == ASSUME Careful PROVE Spec => []Recoverable
<1>1. SafeInv => Recoverable
  BY DEF SafeInv
<1> QED
  BY <1>1, SafeCorrect, PTL

-----------------------------------------------------------------------------
(* The patches are installed in order *)

\* A step that changes none of the files installs nothing; one that makes the target of the
\* patch at work new installs that patch.
LEMMA InstallStep ==
  ASSUME Careful, TypeOK, SafeInv, [Next]_vars
  PROVE  [Ordered!Next]_Installed
<1> USE NAssumption
<1>1. CASE UNCHANGED sys
  BY <1>1 DEF Installed
<1>2. ASSUME cur \in Patches, NEW l \in {Source(cur), Target(cur)}, NEW c,
             c # "new", ~New(cur), sys' = [sys EXCEPT ![l] = c]
      PROVE  UNCHANGED Installed
  <2>0. Source(cur) \in Locations /\ Target(cur) \in Locations
    BY <1>2, Places
  <2>1. \A i \in Patches : i # cur => (New(i)' <=> New(i))
    BY <1>2, Elsewhere, Zenon
  <2>2. sys'[Target(cur)] # "new"
    <3>1. sys'[Target(cur)] = IF l = Target(cur) THEN c ELSE sys[Target(cur)]
      BY <1>2, <2>0 DEF TypeOK
    <3> QED
      BY <1>2, <3>1 DEF New
  <2>3. \A i \in Patches : New(i)' <=> New(i)
    BY <1>2, <2>1, <2>2 DEF New
  <2> QED
    BY <2>3 DEF Installed, New
<1>3. ASSUME cur \in Patches, ~New(cur), sys' = [sys EXCEPT ![Target(cur)] = "new"]
      PROVE  Ordered!Next
  <2>1. /\ \A i \in Patches : i # cur => (New(i)' <=> New(i))
        /\ sys'[Target(cur)] = "new"
    BY <1>3, Elsewhere, Zenon
  <2>2. \A i \in Patches : New(i) <=> i < cur
    <3>1. \A i \in Patches : i < cur \/ i = cur \/ cur < i
      BY <1>3 DEF Patches
    <3>2. \A i \in Patches : cur < i => ~New(i)
      BY <1>3 DEF SafeInv, OrderInv
    <3>3. \A i \in Patches : i < cur => New(i)
      BY DEF SafeInv, OrderInv
    <3> QED
      BY <1>3, <3>1, <3>2, <3>3
  <2>3. Installed = 1..(cur - 1)
    BY <1>3, <2>2 DEF Installed, New, Patches
  <2>4. \A i \in Patches : New(i)' <=> i < cur \/ i = cur
    BY <1>3, <2>1, <2>2 DEF New
  <2>5. Installed' = 1..cur
    BY <1>3, <2>4 DEF Installed, New, Patches
  <2> QED
    BY <1>3, <2>3, <2>5 DEF Ordered!Next, Ordered!Install, Patches
<1>4. CASE UnlinkSource
  <2>1. cur \in Patches /\ ~New(cur)
    BY <1>4 DEF UnlinkSource, Goto, TypeOK, SafeInv, OrderInv, Unpatched
  <2>2. UNCHANGED sys \/ sys' = [sys EXCEPT ![Source(cur)] = "none"]
    BY <1>4 DEF UnlinkSource, ChangeSys, files
  <2> QED
    BY <1>1, <1>2, <2>1, <2>2
<1>5. CASE Commit
  <2>1. cur \in Patches /\ ~New(cur)
    BY <1>5 DEF Commit, Goto, TypeOK, SafeInv, OrderInv, Unpatched
  <2>2. \/ UNCHANGED sys
        \/ sys' = [sys EXCEPT ![Target(cur)] = "bad"]
        \/ sys' = [sys EXCEPT ![Target(cur)] = "new"]
    BY <1>5 DEF Commit, ChangeSys, WriteSys, files
  <2> QED
    BY <1>1, <1>2, <1>3, <2>1, <2>2
<1>6. CASE WriteEnd
  <2>1. cur \in Patches /\ ~New(cur)
    BY <1>6 DEF WriteEnd, Goto, TypeOK, SafeInv, OrderInv, Unpatched
  <2>2. UNCHANGED sys \/ sys' = [sys EXCEPT ![Target(cur)] = "new"]
    BY <1>6 DEF WriteEnd, WriteSys, files
  <2> QED
    BY <1>1, <1>3, <2>1, <2>2
<1>7. CASE Crash
  BY <1>1, <1>7 DEF Crash, SafeInv, Settled
<1>8. CASE Start \/ Load \/ Space \/ MakeSpace \/ SaveBegin \/ SaveEnd \/ Patch \/ Cleanup
           \/ Restart \/ UNCHANGED vars
  <2>1. UNCHANGED sys
    BY <1>8
    DEF Start, Load, Space, MakeSpace, SaveBegin, SaveEnd, Patch, Cleanup, Restart, vars, files
  <2> QED
    BY <1>1, <2>1
<1> QED
  BY <1>4, <1>5, <1>6, <1>7, <1>8 DEF Next, Updater

\* A careful script implements the abstract update: whatever the interruptions, failures and
\* repetitions, the patches come into place in order, each in one step, and for good.
THEOREM InstallsInOrderCorrect == ASSUME Careful PROVE Spec => InstallsInOrder
<1>1. Init => Ordered!Init
  <2> SUFFICES ASSUME Init PROVE Installed = {}
    BY DEF Ordered!Init
  <2>1. \A i \in Patches : sys[Target(i)] # "new"
    BY Places DEF Init, Locations
  <2> QED
    BY <2>1 DEF Installed
<1>2. TypeOK /\ SafeInv /\ [Next]_vars => [Ordered!Next]_Installed
  BY InstallStep
<1> QED
  BY <1>1, <1>2, SafeCorrect, PTL DEF Spec, InstallsInOrder, Ordered!Spec
-----------------------------------------------------------------------------
(* Every run of the script ends *)

\* What is left of one attempt at a patch.
AttemptLeft ==
  [space |-> 9, make_space |-> 8, save |-> 7, saving |-> 6, unlink |-> 5, patch |-> 4,
   commit |-> 3, writing |-> 2, cleanup |-> 1]

\* How many steps the run has left at most: two attempts for each patch still to come.
StepsLeft ==
  IF pc \in {"done", "failed"} THEN 0
  ELSE IF pc = "start" THEN 20 * N + 1
  ELSE IF pc = "load" THEN 20 * (N + 1 - cur)
  ELSE 20 * (N - cur) + 10 * retry + AttemptLeft[pc]

\* Each step of the updater brings the run closer to its end.
RunShortens == [][Updater => StepsLeft' < StepsLeft]_vars

\* An attempt has at most nine steps.
LEMMA Attempts ==
  /\ AttemptLeft["space"] = 9 /\ AttemptLeft["make_space"] = 8 /\ AttemptLeft["save"] = 7
  /\ AttemptLeft["saving"] = 6 /\ AttemptLeft["unlink"] = 5 /\ AttemptLeft["patch"] = 4
  /\ AttemptLeft["commit"] = 3 /\ AttemptLeft["writing"] = 2 /\ AttemptLeft["cleanup"] = 1
BY DEF AttemptLeft

\* A patch is over: what is left is what the patches after it need.
LEMMA NextShortens ==
  ASSUME cur \in Patches, NextPatch
  PROVE  StepsLeft' = 20 * (N - cur)
<1>1. CASE cur = N
  BY <1>1, NAssumption DEF NextPatch, StepsLeft, Patches
<1>2. CASE cur # N
  BY <1>2, NAssumption DEF NextPatch, StepsLeft, Patches
<1> QED
  BY Zenon, <1>1, <1>2

\* A step within an attempt, or to the second attempt.
LEMMA AttemptShortens ==
  ASSUME TypeOK, cur \in Patches, pc \in DOMAIN AttemptLeft, cur' = cur, retry' \in {0, 1},
         \/ pc' = "failed"
         \/ /\ pc' \in DOMAIN AttemptLeft
            /\ 10 * retry' + AttemptLeft[pc'] < 10 * retry + AttemptLeft[pc]
  PROVE  StepsLeft' < StepsLeft
<1>1. DOMAIN AttemptLeft = {"space", "make_space", "save", "saving", "unlink", "patch", "commit",
                            "writing", "cleanup"}
  BY DEF AttemptLeft
<1>2. AttemptLeft[pc] \in 1..9 /\ (pc' # "failed" => AttemptLeft[pc'] \in 1..9)
  BY <1>1, Attempts
<1>3. retry \in {0, 1} /\ cur \in 1..N /\ N \in Nat
  BY Zenon, NAssumption DEF TypeOK, Patches
<1>4. StepsLeft = 20 * (N - cur) + 10 * retry + AttemptLeft[pc]
  BY <1>1 DEF StepsLeft
<1>5. CASE pc' = "failed"
  BY <1>2, <1>3, <1>4, <1>5 DEF StepsLeft
<1>6. CASE pc' # "failed"
  <2>1. StepsLeft' = 20 * (N - cur) + 10 * retry' + AttemptLeft[pc']
    BY <1>1, <1>6 DEF StepsLeft
  <2> QED
    BY <1>2, <1>3, <1>4, <1>6, <2>1
<1> QED
  BY Zenon, <1>5, <1>6

\* Whatever fails, whatever was interrupted before and whatever the disks hold, a run of a
\* script of N patches ends after at most 20 * N + 1 steps of the updater: a patch that fails
\* is tried a second time and not a third.
THEOREM RunsEnd == Spec => RunShortens /\ [](StepsLeft \in 0..(20 * N + 1))
<1> USE NAssumption
<1>1. TypeOK => StepsLeft \in 0..(20 * N + 1)
  <2> SUFFICES ASSUME TypeOK PROVE StepsLeft \in 0..(20 * N + 1)
    OBVIOUS
  <2>1. CASE pc \in {"start", "done", "failed"}
    BY <2>1 DEF StepsLeft
  <2>2. CASE pc \notin {"start", "done", "failed"}
    <3>1. cur \in 1..N /\ retry \in {0, 1}
      BY <2>2 DEF TypeOK, Patches
    <3>2. CASE pc = "load"
      BY <3>1, <3>2 DEF StepsLeft
    <3>3. CASE pc # "load"
      <4>1. AttemptLeft[pc] \in 1..9
        BY <2>2, <3>3, Attempts DEF TypeOK, Points
      <4> QED
        BY <2>2, <3>1, <3>3, <4>1 DEF StepsLeft
    <3> QED
      BY Zenon, <3>2, <3>3
  <2> QED
    BY Zenon, <2>1, <2>2
<1>2. TypeOK /\ Updater => StepsLeft' < StepsLeft
  <2> SUFFICES ASSUME TypeOK, Updater PROVE StepsLeft' < StepsLeft
    OBVIOUS
  <2>1. retry \in {0, 1} /\ (pc \notin {"start", "failed", "done"} => cur \in Patches)
    BY Zenon DEF TypeOK
  <2>2. DOMAIN AttemptLeft = {"space", "make_space", "save", "saving", "unlink", "patch", "commit",
                              "writing", "cleanup"}
    BY DEF AttemptLeft
  <2>3. CASE Start
    <3>1. cur = 1 /\ cur' = cur /\ pc = "start" /\ pc' \in {"failed", "done", "load"}
          /\ (pc' = "load" => N # 0)
      BY <2>3 DEF Start, TypeOK
    <3> QED
      BY <3>1 DEF StepsLeft
  <2>4. CASE Load
    <3>1. pc = "load" /\ cur \in 1..N
      BY <2>1, <2>4 DEF Load, Patches
    <3>2. CASE NextPatch
      BY <3>1, <3>2, NextShortens DEF StepsLeft, Patches
    <3>3. CASE cur' = cur /\ retry' = 1 /\ pc' \in {"space", "failed"}
      BY <3>1, <3>3, Attempts DEF StepsLeft
    <3> QED
      BY Zenon, <2>4, <3>2, <3>3 DEF Load, Fails
  <2>5. CASE Space \/ MakeSpace \/ SaveBegin \/ SaveEnd
    <3>1. /\ cur' = cur /\ retry' \in {0, retry}
          /\ \/ pc = "space" /\ pc' \in {"make_space", "patch"}
             \/ pc = "make_space" /\ pc' \in {"save", "failed"}
             \/ pc = "save" /\ pc' \in {"saving", "failed"}
             \/ pc = "saving" /\ pc' \in {"patch", "unlink", "failed"}
      BY <2>5 DEF Space, MakeSpace, SaveBegin, SaveEnd, Goto, local
    <3>2. \/ pc' = "failed"
          \/ 10 * retry' + AttemptLeft[pc'] < 10 * retry + AttemptLeft[pc]
      BY <2>1, <3>1, Attempts
    <3> QED
      BY Zenon, <2>1, <2>2, <3>1, <3>2, AttemptShortens
  <2>6. CASE UnlinkSource \/ Patch \/ Commit \/ WriteEnd
    <3>1. /\ cur' = cur /\ retry' \in {0, retry}
          /\ \/ pc = "unlink" /\ pc' = "patch"
             \/ pc = "patch" /\ pc' \in {"commit", "failed"}
             \/ pc = "patch" /\ pc' = "space" /\ retry # 0 /\ retry' = 0
             \/ pc = "commit" /\ pc' \in {"writing", "cleanup", "failed"}
             \/ pc = "writing" /\ pc' \in {"cleanup", "failed"}
      BY <2>6 DEF UnlinkSource, Patch, Commit, WriteEnd, Goto, local
    <3>2. \/ pc' = "failed"
          \/ 10 * retry' + AttemptLeft[pc'] < 10 * retry + AttemptLeft[pc]
      BY <2>1, <3>1, Attempts
    <3> QED
      BY Zenon, <2>1, <2>2, <3>1, <3>2, AttemptShortens
  <2>7. CASE Cleanup
    <3>1. pc = "cleanup" /\ cur \in 1..N /\ NextPatch
      BY <2>1, <2>7 DEF Cleanup, Patches
    <3> QED
      BY <2>1, <3>1, NextShortens, Attempts DEF StepsLeft, Patches
  <2> QED
    BY Zenon, <2>3, <2>4, <2>5, <2>6, <2>7 DEF Updater
<1> QED
  BY <1>1, <1>2, TypeCorrect, PTL DEF Spec, RunShortens

=============================================================================
