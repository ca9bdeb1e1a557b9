----------------------------- MODULE ApplyPatch -----------------------------
(***************************************************************************)
(* The patching of a system in place: applypatch(), applypatch_check() and *)
(* their helpers (applypatch.c), the eviction of files from /cache         *)
(* (freecache.c), and the edify functions apply_patch, apply_patch_check   *)
(* and apply_patch_space (updater/install.c), run by an update script that *)
(* checks first and then patches one thing after the other, aborting at    *)
(* the first failure.  The script may be killed, or the power lost,        *)
(* between any two writes; it is then run again from the start.            *)
(*                                                                         *)
(* A file is "old" (one of the contents a patch exists for), "new" (the    *)
(* contents wanted), "bad" (anything else) or "none".                      *)
(***************************************************************************)
EXTENDS Naturals

CONSTANTS
  N,           \* number of patches of the script
  Kind,        \* what each one patches: see Kinds
  Checks,      \* whether the script begins with apply_patch_check()
  Volatile,    \* whether rename() and unlink() may be lost at a power loss
  MaxCrashes,  \* bound: power losses or kills in a behaviour
  MaxFaults    \* bound: calls that fail in a behaviour

Patches == 1..N

\* "inplace": a file, target "-"; "elsewhere": a file, with another file as target; "emmc":
\* a partition, target "-".
Kinds == {"inplace", "elsewhere", "emmc"}

ASSUME NAssumption == N \in Nat
ASSUME KindAssumption == Kind \in [Patches -> Kinds]
ASSUME FlagsAssumption == Checks \in BOOLEAN /\ Volatile \in BOOLEAN
ASSUME BoundsAssumption == MaxCrashes \in Nat /\ MaxFaults \in Nat

VARIABLES
  sys,        \* contents of the files and partitions that are patched
  sysDisk,    \* the same, as a power loss would leave them
  saved,      \* CACHE_TEMP_SOURCE: the patch whose old contents it holds, NoCopy or BadCopy
  savedDisk,
  others,     \* the other files at the top of /cache: the "package", and what else there is
  pc,         \* control point of the script and of the running applypatch()
  cur,        \* the patch at work
  use,        \* which contents were loaded: source_file ("source") or copy_file ("copy")
  retry,
  made_copy,
  crashes, faults

files == <<sys, sysDisk>>
copy  == <<saved, savedDisk>>
local == <<use, retry, made_copy>>
vars  == <<files, copy, others, pc, cur, local, crashes, faults>>

-----------------------------------------------------------------------------
Locations == Patches \X {"src", "tgt"}

Contents == {"old", "new", "bad", "none"}

Source(i) == <<i, "src">>

\* target_filename "-" is the source.
Target(i) == IF Kind[i] = "elsewhere" THEN <<i, "tgt">> ELSE Source(i)

\* CACHE_TEMP_SOURCE: absent, or with contents no patch exists for, or with a source.
NoCopy  == 0
BadCopy == N + 1
Copies  == Patches \cup {NoCopy, BadCopy}

Points ==
  {"start", "load", "space", "make_space", "save", "saving", "unlink", "patch", "commit",
   "writing", "cleanup", "done", "failed"}

\* Every variable has its type.
TypeOK ==
  /\ sys \in [Locations -> Contents] /\ sysDisk \in [Locations -> Contents]
  /\ saved \in Copies /\ savedDisk \in Copies
  /\ others \subseteq {"package", "junk"}
  /\ pc \in Points
  /\ cur \in 1..(N + 1)
  /\ pc \notin {"start", "failed", "done"} => cur \in Patches
  /\ pc = "start" => cur = 1
  /\ use \in {"source", "copy"}
  /\ retry \in {0, 1}
  /\ made_copy \in {0, 1}
  /\ crashes \in Nat /\ faults \in Nat

Init ==
  /\ sys = [l \in Locations |-> IF l \in Patches \X {"src"} THEN "old" ELSE "none"]
  /\ sysDisk = sys
  /\ saved = NoCopy /\ savedDisk = NoCopy
  /\ others = {"package", "junk"}
  /\ pc = "start" /\ cur = 1
  /\ use = "source" /\ retry = 1 /\ made_copy = 0
  /\ crashes = 0 /\ faults = 0

-----------------------------------------------------------------------------
(* Helpers *)

Goto(from, to) == pc = from /\ pc' = to

\* A call that fails although its arguments are fine.
Fault == faults < MaxFaults /\ faults' = faults + 1

\* A directory is not synced when it changes: the kernel may have written it back before the
\* change, or after it, or not for a while.
Durable(disk, now, next) == IF Volatile THEN {disk, now, next} ELSE {next}

\* Writes that are synced (O_SYNC, fsync(), the close of a block device), and changes of a
\* directory.
WriteSys(loc, c) ==
  /\ sys' = [sys EXCEPT ![loc] = c]
  /\ sysDisk' = [sysDisk EXCEPT ![loc] = c]

ChangeSys(loc, c) ==
  /\ sys' = [sys EXCEPT ![loc] = c]
  /\ sysDisk' \in Durable(sysDisk, sys, sys')

WriteCopy(c) == saved' = c /\ savedDisk' = c

\* Mutant: the saved source is an ordinary file of /cache.
Expendable_All(open) == {"saved.file", "package", "junk"} \ open

\* FindExpendableFiles(): the regular files of /cache, without the open ones and without
\* CACHE_TEMP_SOURCE.
Expendable(open) == ({"saved.file", "package", "junk"} \ open) \ {"saved.file"}

\* The updater keeps the package open while it runs.
OpenFiles == {"package"}

\* MakeFreeSpaceOnCache(): there is room already, or files are deleted until there is; it
\* fails when nothing may be deleted, or when there is no room with all of them gone.
Evict(gone) ==
  /\ others' = others \ gone
  /\ IF "saved.file" \in gone THEN WriteCopy(NoCopy) ELSE UNCHANGED copy

MakeFreeSpaceOnCache(enough) ==
  \/ enough /\ (\E gone \in SUBSET Expendable(OpenFiles) : Evict(gone)) /\ UNCHANGED faults
  \/ ~enough /\ Fault /\ (\E gone \in {{}, Expendable(OpenFiles)} : Evict(gone))

\* applypatch() returns 1: the script aborts.
Fails == pc' = "failed"

\* applypatch() returns 0: the script goes on with the next patch.
NextPatch ==
  /\ cur' = cur + 1
  /\ pc' = IF cur = N THEN "done" ELSE "load"

-----------------------------------------------------------------------------
(* The script *)

\* Mutant: the check looks at the file alone.
CheckPasses_FileOnly(i) == sys[Source(i)] \in {"old", "new"}

\* applypatch_check(): the file has one of the sha1s, or the saved copy has.  A partition is
\* checked by its name alone, without sha1s, and then the copy matches nothing.
CheckPasses(i) ==
  \/ sys[Source(i)] \in {"old", "new"}
  \/ Kind[i] # "emmc" /\ saved = i

\* apply_patch_space() and apply_patch_check() for everything, then the patches.  A file
\* patched to another place is not checked: its source may be gone when the target is new.
Start ==
  /\ pc = "start"
  /\ "package" \in others
  /\ \E enough \in BOOLEAN :
       /\ MakeFreeSpaceOnCache(enough)
       /\ pc' = IF ~enough \/ (Checks /\ \E i \in Patches : Kind[i] # "elsewhere" /\ ~CheckPasses(i))
                THEN "failed"
                ELSE IF N = 0 THEN "done" ELSE "load"
  /\ UNCHANGED <<files, cur, local, crashes>>

\* The installation is tried again, after a failure or although it has succeeded.
Restart ==
  /\ pc \in {"failed", "done"}
  /\ pc' = "start"
  /\ cur' = 1
  /\ UNCHANGED <<files, copy, others, local, crashes, faults>>

\* The updater is killed or the power fails; what was not written back is lost.
Crash ==
  /\ pc \notin {"failed", "done"}
  /\ crashes < MaxCrashes
  /\ crashes' = crashes + 1
  /\ sys' \in {sys, sysDisk} /\ sysDisk' = sys'
  /\ saved' \in {saved, savedDisk} /\ savedDisk' = saved'
  /\ pc' = "start"
  /\ cur' = 1
  /\ UNCHANGED <<others, local, faults>>

-----------------------------------------------------------------------------
(* applypatch() *)

\* The target is loaded: it may be new already.  Else the source must be what a patch exists
\* for, or else the saved copy.
Load ==
  /\ pc = "load"
  /\ IF sys[Target(cur)] = "new"
     THEN NextPatch /\ UNCHANGED local
     ELSE /\ retry' = 1 /\ made_copy' = 0
          /\ use' = IF sys[Source(cur)] = "old" THEN "source" ELSE "copy"
          /\ IF use' = "source" \/ saved = cur THEN pc' = "space" ELSE Fails
          /\ UNCHANGED cur
  /\ UNCHANGED <<files, copy, others, crashes, faults>>

\* The source of a partition is always saved; that of a file only when the file system of the
\* target is short of space, or the patch has failed once, and the source is still in place.
Space ==
  /\ pc = "space"
  /\ \E enough_space \in BOOLEAN :
       /\ enough_space => retry > 0 /\ Kind[cur] # "emmc"
       /\ retry' = IF enough_space THEN retry ELSE 0
       /\ pc' = IF Kind[cur] = "emmc" \/ (~enough_space /\ use = "source")
                THEN "make_space"
                ELSE "patch"
  /\ UNCHANGED <<files, copy, others, cur, use, made_copy, crashes, faults>>

MakeSpace ==
  /\ pc = "make_space"
  /\ \E enough \in BOOLEAN :
       /\ MakeFreeSpaceOnCache(enough)
       /\ pc' = IF enough THEN "save" ELSE "failed"
  /\ UNCHANGED <<files, cur, local, crashes>>

\* SaveFileContents(CACHE_TEMP_SOURCE, source_file): O_TRUNC destroys what was there.
SaveBegin ==
  /\ \/ Goto("save", "saving") /\ WriteCopy(BadCopy) /\ UNCHANGED faults
     \/ Goto("save", "failed") /\ Fault /\ UNCHANGED copy
  /\ UNCHANGED <<files, others, cur, local, crashes>>

\* When the copy was loaded there is no data in source_file, and write() refuses it.  A
\* failure of chmod() or chown() comes after the data.
SaveEnd ==
  /\ \/ /\ Goto("saving", IF Kind[cur] = "emmc" THEN "patch" ELSE "unlink")
        /\ use = "source"
        /\ WriteCopy(cur)
        /\ made_copy' = 1
        /\ UNCHANGED faults
     \/ /\ Goto("saving", "failed")
        /\ \/ use = "copy" /\ UNCHANGED <<copy, faults>>
           \/ use = "source" /\ Fault /\ (WriteCopy(cur) \/ UNCHANGED copy)
        /\ UNCHANGED made_copy
  /\ UNCHANGED <<files, others, cur, use, retry, crashes>>

\* unlink(source_filename): its result is not looked at.
UnlinkSource ==
  /\ Goto("unlink", "patch")
  /\ \/ ChangeSys(Source(cur), "none") /\ UNCHANGED faults
     \/ Fault /\ UNCHANGED files
  /\ UNCHANGED <<copy, others, cur, local, crashes>>

\* The patch is applied into memory, or into the file <target>.patch.  When that fails it is
\* tried once more, with the source saved and out of the way.
Patch ==
  /\ \/ Goto("patch", "commit") /\ UNCHANGED <<retry, faults>>
     \/ Goto("patch", IF retry = 0 THEN "failed" ELSE "space") /\ Fault /\ retry' = 0
  /\ UNCHANGED <<files, copy, others, cur, use, made_copy, crashes>>

\* Mutant: the sha1 of what the patch has produced is not checked.
Commit_Unverified ==
  /\ \/ Goto("commit", "cleanup") /\ ChangeSys(Target(cur), "bad") /\ Fault
     \/ Goto("commit", "cleanup") /\ ChangeSys(Target(cur), "new") /\ UNCHANGED faults
  /\ UNCHANGED <<copy, others, cur, local, crashes>>

\* The result has the sha1 of the target, or the call fails.  <target>.patch is renamed, or
\* the write of the partition begins.
Commit ==
  /\ \/ /\ Goto("commit", IF Kind[cur] = "emmc" THEN "writing" ELSE "cleanup")
        /\ IF Kind[cur] = "emmc" THEN WriteSys(Target(cur), "bad") ELSE ChangeSys(Target(cur), "new")
        /\ UNCHANGED faults
     \/ Goto("commit", "failed") /\ Fault /\ UNCHANGED files
  /\ UNCHANGED <<copy, others, cur, local, crashes>>

\* WriteToPartition() ends.
WriteEnd ==
  /\ \/ Goto("writing", "cleanup") /\ WriteSys(Target(cur), "new") /\ UNCHANGED faults
     \/ Goto("writing", "failed") /\ Fault /\ UNCHANGED files
  /\ UNCHANGED <<copy, others, cur, local, crashes>>

\* The copy goes if this call has made it.
Cleanup ==
  /\ pc = "cleanup"
  /\ IF made_copy = 1
     THEN saved' = NoCopy /\ savedDisk' \in Durable(savedDisk, saved, NoCopy)
     ELSE UNCHANGED copy
  /\ NextPatch
  /\ UNCHANGED <<files, others, local, crashes, faults>>

-----------------------------------------------------------------------------
Updater ==
  \/ Start \/ Load \/ Space \/ MakeSpace \/ SaveBegin \/ SaveEnd
  \/ UnlinkSource \/ Patch \/ Commit \/ WriteEnd \/ Cleanup

Next == Updater \/ Restart \/ Crash

Spec == Init /\ [][Next]_vars

\* A running updater goes on, and an installation that has failed is tried again.
FairSpec == Spec /\ WF_vars(Updater) /\ WF_vars(Restart)

-----------------------------------------------------------------------------
(* Properties *)

\* Whatever is on the disks at a power loss, every patch is in place, or can still be made
\* from what it applies to: its source or the saved copy (the safety applypatch() promises,
\* and the reason CACHE_TEMP_SOURCE is made and never evicted).
Recoverable ==
  \A i \in Patches :
    sysDisk[Target(i)] = "new" \/ sysDisk[Source(i)] = "old" \/ savedDisk = i

\* With all interruptions and failures over, trying again installs everything, unless the
\* write of a partition was interrupted (apply_patch_check() then refuses every retry).
Completes ==
  <>(\/ \A i \in Patches : sys[Target(i)] = "new"
     \/ \E i \in Patches : Kind[i] = "emmc" /\ sys[Source(i)] = "bad" /\ pc = "failed")

\* The patches that are in place, as the abstract specification sees them.
Installed == {i \in Patches : sys[Target(i)] = "new"}

Ordered == INSTANCE OrderedUpdate WITH installed <- Installed

\* Interrupted, failed and repeated runs together install the patches in the order of the
\* script, each in one step, and never take one back.
InstallsInOrder == Ordered!Spec
=============================================================================
