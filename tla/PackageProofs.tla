--------------------------- MODULE PackageProofs ---------------------------
(***************************************************************************)
(* What recovery and the updater do with packages.                         *)
(*                                                                         *)
(* For any number of installs from any volumes: /cache is wiped only when  *)
(* the package at hand asked for it, and the volumes an update binary      *)
(* formats are free of recovery's own files.                               *)
(*                                                                         *)
(* For any list of libraries, any offsets they start from and any number   *)
(* of kills: no library is lost unless a call rewrites the saved file it   *)
(* has read, and a call that succeeds leaves one common offset.            *)
(*                                                                         *)
(* For any names with any hashes: the table in which a package's entries   *)
(* are looked up is the set of what was added and not removed.             *)
(***************************************************************************)
EXTENDS PackageInstall, Retouch, HashTable, WellFoundedInduction, FiniteSetTheorems, TLAPS

\* The flag of an earlier package may still be set until the fork; from the
\* fork on it is this package's, and a result other than success keeps the
\* callers from looking at it.
FlagInv ==
    /\ ipc = "run" /\ wipe_cache = 1 => requested = 1
    /\ ipc \in {"mount", "end"} /\ result = "success" /\ wipe_cache = 1 => requested = 1
    /\ ipc = "erase" => requested = 1

\* Only a package on /system or /data is copied; once a package is past the copying,
\* it is not on them.
Installing == {"unmount", "keep_cache", "open", "binary", "fork", "run"}

FilesInv ==
    /\ open_files \in [Roots -> Int]
    /\ ipc = "copy" => source \in {"system", "data"}
    /\ ipc \in Installing => path \notin {"system", "data"}
    /\ cut_short = 0 => open_files["system"] <= 0 /\ open_files["data"] <= 0

\* The commands of the update binary (try_update_binary) set the flag of the
\* package that sends them only.
THEOREM FlagInvariant == PackageSpec => []FlagInv
<1>1. PackageInit => FlagInv
  BY DEF PackageInit, FlagInv
<1>2. FlagInv /\ [PackageNext]_pkgVars => FlagInv'
  <2> SUFFICES ASSUME FlagInv, [PackageNext]_pkgVars PROVE FlagInv'
    OBVIOUS
  <2>1. CASE InstallBegin
    BY <2>1 DEF FlagInv, InstallBegin
  <2>2. CASE CopyPackage
    BY <2>2 DEF FlagInv, CopyPackage
  <2>3. CASE UnmountRoots \/ KeepCache
    BY <2>3 DEF FlagInv, UnmountRoots, KeepCache
  <2>4. CASE really_install_package
    BY <2>4 DEF FlagInv, really_install_package
  <2>5. CASE ExtractBinary
    BY <2>5 DEF FlagInv, ExtractBinary
  <2>6. CASE Fork
    BY <2>6 DEF FlagInv, Fork
  <2>7. CASE BinaryCommand \/ BinaryMounts
    BY <2>7 DEF FlagInv, BinaryCommand, BinaryMounts
  <2>8. CASE BinaryExits
    BY <2>8 DEF FlagInv, BinaryExits
  <2>9. CASE MountRoots
    BY <2>9 DEF FlagInv, MountRoots
  <2>10. CASE InstallReturns
    BY <2>10 DEF FlagInv, InstallReturns
  <2>11. CASE EraseCache \/ CardChanges
    BY <2>11 DEF FlagInv, EraseCache, CardChanges
  <2>12. CASE UNCHANGED pkgVars
    BY <2>12 DEF FlagInv, pkgVars
  <2> QED
    BY <2>1, <2>2, <2>3, <2>4, <2>5, <2>6, <2>7, <2>8, <2>9, <2>10, <2>11, <2>12
    DEF PackageNext
<1> QED
  BY <1>1, <1>2, PTL DEF PackageSpec

\* What is open of /system and /data stays at none as long as no copy is cut
\* short; the archive itself is never on them (copy_package).
THEOREM FilesInvariant == PackageSpec => []FilesInv
<1>1. PackageInit => FilesInv
  BY DEF PackageInit, FilesInv, Roots, Installing
<1>2. FilesInv /\ [PackageNext]_pkgVars => FilesInv'
  <2> SUFFICES ASSUME FilesInv, [PackageNext]_pkgVars PROVE FilesInv'
    OBVIOUS
  <2> USE DEF Roots, Installing
  <2>1. CASE InstallBegin
    BY <2>1, PackageAssumption DEF FilesInv, InstallBegin, NeedsCopy
  <2>2. CASE CopyPackage
    <3>1. CASE UNCHANGED <<open_files, cut_short>> /\ ipc' = "end"
      BY <3>1 DEF FilesInv
    <3>2. CASE UNCHANGED <<open_files, cut_short>> /\ path' = "install" /\ ipc' = "unmount"
      BY <3>2 DEF FilesInv
    <3>3. CASE open_files' = [open_files EXCEPT ![source] = @ + 1] /\ cut_short' = 1 /\ ipc' = "end"
      <4>1. source \in Roots
        BY <2>2 DEF FilesInv, CopyPackage
      <4>2. open_files[source] + 1 \in Int
        BY <4>1 DEF FilesInv
      <4>3. open_files' \in [Roots -> Int]
        BY Zenon, <3>3, <4>2 DEF FilesInv
      <4> QED
        BY <3>3, <4>3 DEF FilesInv
    <3> QED
      BY <2>2, <3>1, <3>2, <3>3 DEF CopyPackage
  <2>3. CASE UnmountRoots \/ KeepCache
    BY <2>3 DEF FilesInv, UnmountRoots, KeepCache
  <2>4. CASE really_install_package
    BY <2>4 DEF FilesInv, really_install_package, Opened
  <2>5. CASE ExtractBinary
    BY <2>5 DEF FilesInv, ExtractBinary, Opened
  <2>6. CASE Fork \/ BinaryCommand \/ BinaryMounts \/ BinaryExits
    BY <2>6 DEF FilesInv, Fork, BinaryCommand, BinaryMounts, BinaryExits
  <2>7. CASE MountRoots \/ InstallReturns \/ EraseCache \/ CardChanges
    BY <2>7 DEF FilesInv, MountRoots, InstallReturns, EraseCache, CardChanges
  <2>8. CASE UNCHANGED pkgVars
    BY <2>8 DEF FilesInv, pkgVars
  <2> QED
    BY <2>1, <2>2, <2>3, <2>4, <2>5, <2>6, <2>7, <2>8 DEF PackageNext
<1> QED
  BY <1>1, <1>2, PTL DEF PackageSpec

\* A package that asks for no wipe never causes one, whatever earlier packages
\* asked for and however they failed.
THEOREM WipeAskedCorrect == PackageSpec => []WipeAsked
<1>1. FlagInv => WipeAsked
  BY DEF FlagInv, WipeAsked
<1> QED
  BY <1>1, FlagInvariant, PTL

\* The update binary finds /system and /data free of recovery's files.
THEOREM RootsFreeCorrect == PackageSpec => []RootsFree
<1>1. FilesInv => RootsFree
  BY DEF FilesInv, RootsFree, Busy, Roots
<1> QED
  BY <1>1, FilesInvariant, PTL

-----------------------------------------------------------------------------
(***************************************************************************)
(* The libraries a package retouches.                                      *)
(***************************************************************************)
Offsets == {0, OldOffset} \cup RandomBases
Retouchable == Libraries \ NotRetouchable

Working == {"space", "room", "copy", "unlink", "write", "rename", "clean"}

RetouchTypeOK ==
  /\ offset_of \in [Libraries -> Offsets \cup {Removed}]
  /\ offset_disk \in [Libraries -> Offsets \cup {Removed}]
  /\ saved \in Int /\ saved_disk \in Int /\ lib \in Nat \ {0}
  /\ rt_pc \in Working \cup {"idle", "probe"}
  /\ random_base \in Offsets
  /\ undo \in BOOLEAN /\ override_set \in BOOLEAN /\ recovered \in BOOLEAN
  /\ made_copy \in BOOLEAN /\ succeeded \in BOOLEAN

\* The libraries below n are all at offset o.
Prefix(n, o) == \A i \in Retouchable : i < n => offset_of[i] = o

\* An undo moves to 0, a retouch to anything else.
Fits(o) == undo <=> o = 0

\* A running call has moved all libraries before lib to its offset, and has
\* given up the freedom to choose another one once there is such a library.
CallInv ==
  /\ rt_pc # "idle" =>
       /\ Fits(random_base) /\ Prefix(lib, random_base)
       /\ override_set <=> undo \/ \E i \in Retouchable : i < lib
  /\ rt_pc \in Working => lib \in Retouchable
  /\ rt_pc = "clean" => offset_of[lib] = random_base

DoneInv ==
  succeeded => /\ rt_pc = "idle"
               /\ \E o \in Offsets : Fits(o) /\ \A i \in Retouchable : offset_of[i] = o

\* A library that is not in place is the first that is not moved, and a call
\* that works on one library finds the others in place.
RemovedInv ==
  /\ \A j \in Libraries : offset_of[j] = Removed =>
       /\ j \in Retouchable
       /\ \E o \in Offsets : Fits(o) /\ Prefix(j, o)
       /\ rt_pc # "idle" => lib <= j
  /\ rt_pc \in Working => \A j \in Libraries \ {lib} : offset_of[j] # Removed

\* Where the only copy of the library at hand is.
CopyInv ==
  /\ rt_pc \in {"space", "room"} => ~made_copy
  /\ rt_pc \in {"space", "room", "write"} /\ ~made_copy =>
       (recovered <=> offset_of[lib] = Removed)
  /\ rt_pc = "copy" => lib \in recopied \/ offset_of[lib] # Removed
  /\ rt_pc = "unlink" => made_copy
  /\ rt_pc \in {"unlink", "write"} /\ made_copy => saved = lib

Synced == offset_disk = offset_of /\ saved_disk = saved

Somewhere == \A i \in Libraries : offset_of[i] # Removed \/ saved = i \/ i \in recopied

\* What keeps the libraries when directories are durable.
KeptInv == Synced /\ RemovedInv /\ CopyInv /\ Somewhere

RetouchInv == RetouchTypeOK /\ CallInv /\ DoneInv /\ (~Volatile => KeptInv)

\* Offsets are numbers, and the mark of a missing library is none of them.
LEMMA OffsetFacts == Offsets \subseteq Nat /\ 0 \in Offsets /\ Removed \notin Offsets
BY RetouchAssumption DEF Offsets, Removed

\* Libraries are numbered up to LibCount.
LEMMA LibraryFacts ==
  /\ Retouchable \subseteq Libraries
  /\ Libraries \subseteq Nat
  /\ \A i \in Libraries : i <= LibCount
BY RetouchAssumption DEF Retouchable, Libraries

\* At the start every library is in place.
LEMMA RetouchStarts == RetouchInit => RetouchInv
<1> SUFFICES ASSUME RetouchInit PROVE RetouchInv
  OBVIOUS
<1>1. RetouchTypeOK
  <2>1. offset_of \in [Libraries -> Offsets \cup {Removed}] /\ offset_disk = offset_of
    BY DEF RetouchInit, Offsets
  <2>2. /\ saved \in Int /\ saved_disk \in Int /\ lib \in Nat \ {0} /\ rt_pc = "idle"
        /\ random_base \in Offsets
    BY OffsetFacts DEF RetouchInit, Nothing
  <2>3. /\ undo \in BOOLEAN /\ override_set \in BOOLEAN /\ recovered \in BOOLEAN
        /\ made_copy \in BOOLEAN /\ succeeded \in BOOLEAN
    BY Zenon DEF RetouchInit
  <2> QED
    BY <2>1, <2>2, <2>3 DEF RetouchTypeOK
<1>2. \A i \in Libraries : offset_of[i] # Removed
  BY OffsetFacts DEF RetouchInit, Offsets
<1>3. rt_pc = "idle" /\ ~succeeded /\ Synced
  BY DEF RetouchInit, Synced
<1> QED
  BY <1>1, <1>2, <1>3 DEF RetouchInv, KeptInv, CallInv, RemovedInv, CopyInv, DoneInv, Somewhere,
     Working

\* Starting a call: nothing is before library 1.
LEMMA CallStarts ==
  ASSUME RetouchInv, RetouchBinariesFn \/ UndoRetouchBinariesFn
  PROVE  RetouchInv'
<1> USE OffsetFacts, LibraryFacts
<1>1. /\ ~succeeded /\ lib' = 1 /\ rt_pc' = "probe"
      /\ UNCHANGED <<offset_of, offset_disk, saved, saved_disk, undo, recovered, made_copy,
                     recopied, succeeded>>
  BY Zenon DEF RetouchBinariesFn, UndoRetouchBinariesFn, rtLibs, rtCopy
<1>2. random_base' \in Offsets /\ Fits(random_base)' /\ (override_set' <=> undo)
      /\ override_set' \in BOOLEAN
  <2>1. CASE RetouchBinariesFn
    BY Zenon, <2>1, RetouchAssumption DEF RetouchBinariesFn, Offsets, Fits
  <2>2. CASE UndoRetouchBinariesFn
    BY <2>2 DEF UndoRetouchBinariesFn, Fits
  <2> QED
    BY <2>1, <2>2
<1>3. RetouchTypeOK'
  BY <1>1, <1>2 DEF RetouchInv, RetouchTypeOK
<1>4. \A i \in Libraries : ~(i < 1)
  BY RetouchAssumption DEF Libraries
<1>5. CallInv' /\ DoneInv'
  BY <1>1, <1>2, <1>4 DEF CallInv, DoneInv, Prefix, Working
<1>6. ASSUME KeptInv PROVE KeptInv'
  <2>1. RemovedInv'
    BY <1>1, <1>4, <1>6 DEF KeptInv, RemovedInv, Prefix, Fits, Working
  <2> QED
    BY <1>1, <1>6, <2>1 DEF KeptInv, CopyInv, Synced, Somewhere
<1> QED
  BY <1>3, <1>5, <1>6 DEF RetouchInv

\* A call fails or returns: the files are as they were.
LEMMA CallEnds ==
  ASSUME RetouchInv, rt_pc' = "idle",
         UNCHANGED <<rtLibs, rtCopy, rtCall, undo>>,
         succeeded' \in BOOLEAN,
         succeeded' => succeeded \/ (rt_pc = "probe" /\ lib > LibCount)
  PROVE  RetouchInv'
<1> USE OffsetFacts, LibraryFacts
<1>0. UNCHANGED <<offset_of, offset_disk, saved, saved_disk, recopied, lib, random_base,
                  override_set, recovered, made_copy, undo>>
  BY Zenon DEF rtLibs, rtCopy, rtCall
<1>1. RetouchTypeOK'
  BY <1>0 DEF RetouchInv, RetouchTypeOK
<1>2. CallInv' /\ CopyInv'
  BY DEF CallInv, CopyInv, Working
<1>3. ASSUME KeptInv PROVE KeptInv'
  <2>1. RemovedInv'
    BY <1>0, <1>3 DEF KeptInv, RemovedInv, Prefix, Fits, Working
  <2> QED
    BY <1>0, <1>2, <1>3, <2>1 DEF KeptInv, Synced, Somewhere
<1>5. DoneInv'
  <2>1. CASE rt_pc = "probe" /\ lib > LibCount
    <3>1. \A i \in Retouchable : i < lib
      BY <2>1, RetouchAssumption DEF RetouchInv, RetouchTypeOK
    <3>2. random_base \in Offsets /\ Fits(random_base)
          /\ \A i \in Retouchable : offset_of[i] = random_base
      BY <2>1, <3>1 DEF RetouchInv, RetouchTypeOK, CallInv, Prefix
    <3> QED
      BY <1>0, <3>2 DEF DoneInv, Fits
  <2>2. CASE ~succeeded'
    BY <2>2 DEF DoneInv
  <2>3. CASE succeeded
    BY <1>0, <2>3 DEF RetouchInv, DoneInv, Fits
  <2> QED
    BY <2>1, <2>2, <2>3
<1> QED
  BY <1>1, <1>2, <1>3, <1>5 DEF RetouchInv

\* A kill leaves what is on flash; with durable directories that is everything.
LEMMA CallKilled == ASSUME RetouchInv, Killed PROVE RetouchInv'
<1> USE OffsetFacts, LibraryFacts
<1>1. /\ offset_of' \in {offset_of, offset_disk} /\ offset_disk' = offset_of'
      /\ saved' \in {saved, saved_disk} /\ saved_disk' = saved'
      /\ rt_pc' = "idle" /\ succeeded' = FALSE
      /\ UNCHANGED <<lib, random_base, override_set, recovered, made_copy, undo, recopied>>
  BY Zenon DEF Killed, rtCall
<1>2. RetouchTypeOK'
  <2>1. offset_of' \in [Libraries -> Offsets \cup {Removed}] /\ saved' \in Int
    BY <1>1 DEF RetouchInv, RetouchTypeOK
  <2>2. succeeded' \in BOOLEAN /\ rt_pc' \in Working \cup {"idle", "probe"}
    BY Zenon, <1>1
  <2>3. /\ lib \in Nat \ {0} /\ random_base \in Offsets
        /\ undo \in BOOLEAN /\ override_set \in BOOLEAN /\ recovered \in BOOLEAN
        /\ made_copy \in BOOLEAN
    BY Zenon DEF RetouchInv, RetouchTypeOK
  <2> QED
    BY Zenon, <1>1, <2>1, <2>2, <2>3 DEF RetouchTypeOK
<1>3. CallInv' /\ DoneInv' /\ CopyInv' /\ Synced'
  BY <1>1 DEF CallInv, DoneInv, CopyInv, Synced, Working
<1>4. ASSUME KeptInv PROVE KeptInv'
  <2>1. offset_of' = offset_of /\ saved' = saved
    BY <1>1, <1>4 DEF KeptInv, Synced
  <2>2. RemovedInv'
    BY <1>1, <1>4, <2>1 DEF KeptInv, RemovedInv, Prefix, Fits, Working
  <2> QED
    BY <1>1, <1>3, <1>4, <2>1, <2>2 DEF KeptInv, Somewhere
<1> QED
  BY <1>2, <1>3, <1>4 DEF RetouchInv

\* Going on to the next library keeps the common offset: a library that is
\* passed over is at it, or the first of all.
LEMMA LibrarySkipped == ASSUME RetouchInv, Skip PROVE RetouchInv'
<1> USE OffsetFacts, LibraryFacts
<1>1. /\ rt_pc = "probe" /\ rt_pc' = "probe" /\ lib \in Libraries /\ lib' = lib + 1
      /\ UNCHANGED <<offset_of, offset_disk, saved, saved_disk, undo, recovered, made_copy,
                     recopied, succeeded>>
  BY Zenon DEF Skip, NextLibrary, rtLibs, rtCopy
<1>a. DoneInv' /\ (CopyInv' /\ (Synced => Synced') /\ (Somewhere => Somewhere'))
  BY <1>1 DEF RetouchInv, DoneInv, CopyInv, Synced, Somewhere, Fits
<1>2. CASE lib \in NotRetouchable
  <2>1. UNCHANGED <<random_base, override_set>> /\ lib \notin Retouchable
    BY <1>2 DEF Skip, NextLibrary, Retouchable
  <2>2. RetouchTypeOK'
    BY <1>1, <2>1 DEF RetouchInv, RetouchTypeOK
  <2>3. \A i \in Retouchable : i < lib + 1 <=> i < lib
    BY <1>1, <2>1
  <2>4. CallInv'
    BY <1>1, <2>1, <2>3 DEF RetouchInv, CallInv, Prefix, Fits, Working
  <2>5. ASSUME KeptInv PROVE RemovedInv'
    BY <1>1, <2>1, <2>5 DEF KeptInv, RemovedInv, Prefix, Fits, Working
  <2> QED
    BY <1>a, <2>2, <2>4, <2>5 DEF RetouchInv, KeptInv
<1>3. CASE lib \in Retouchable /\ InPlace
  <2>1. NextLibrary(offset_of[lib])
    BY <1>3 DEF Skip, Retouchable
  <2>2. offset_of[lib] \in Offsets
    BY <1>1, <1>3 DEF RetouchInv, RetouchTypeOK, InPlace
  <2>3. Fits(random_base) /\ Prefix(lib, random_base)
        /\ (override_set <=> undo \/ \E i \in Retouchable : i < lib)
    BY <1>1 DEF RetouchInv, CallInv
  <2>4. random_base' = offset_of[lib] /\ Fits(random_base)'
    BY <1>1, <1>3, <2>1, <2>3 DEF NextLibrary, InPlace, Fits
  <2>5. override_set'
    BY <1>1, <1>3, <2>1, <2>3, <2>4 DEF NextLibrary, Fits
  <2>6. RetouchTypeOK'
    <3>1. override_set' \in BOOLEAN
      BY <2>1, Zenon DEF RetouchInv, RetouchTypeOK, NextLibrary
    <3> QED
      BY <1>1, <2>2, <2>4, <3>1 DEF RetouchInv, RetouchTypeOK
  <2>7. \A i \in Retouchable : i < lib + 1 <=> (i < lib \/ i = lib)
    BY <1>1
  <2>8. Prefix(lib, random_base)'
    BY <1>1, <1>3, <2>3, <2>4, <2>7 DEF Prefix, InPlace
  <2>9. CallInv'
    BY <1>1, <1>3, <2>4, <2>5, <2>7, <2>8 DEF CallInv, Working
  <2>10. ASSUME KeptInv PROVE RemovedInv'
    BY <1>1, <2>2, <2>10 DEF KeptInv, RemovedInv, Prefix, Fits, Working
  <2> QED
    BY <1>a, <2>6, <2>9, <2>10 DEF RetouchInv, KeptInv
<1> QED
  BY <1>1, <1>2, <1>3 DEF Skip, Retouchable

\* The call gives up before it has changed a file.
LEMMA CallFails ==
  ASSUME RetouchInv, Fails, UNCHANGED <<rtLibs, rtCopy>>
  PROVE  RetouchInv'
<1>1. rt_pc' = "idle" /\ UNCHANGED <<rtLibs, rtCopy, rtCall, undo, succeeded>>
  BY DEF Fails
<1>2. succeeded' \in BOOLEAN /\ (succeeded' => succeeded)
  BY <1>1 DEF RetouchInv, RetouchTypeOK
<1> QED
  BY <1>1, <1>2, CallEnds

\* If another library were missing, everything before it, this library
\* included, would be at the offset of this call: probing the libraries that
\* need nothing is what keeps the saved file from being written over.
LEMMA SourceLoaded == ASSUME RetouchInv, LoadSource PROVE RetouchInv'
<1> USE OffsetFacts, LibraryFacts
<1>1. CASE offset_of[lib] # Removed \/ saved = lib
  <2>1. /\ rt_pc = "probe" /\ rt_pc' = "space" /\ lib \in Retouchable /\ ~InPlace
        /\ UNCHANGED <<lib, random_base, override_set, undo, succeeded>>
        /\ UNCHANGED <<offset_of, offset_disk, saved, saved_disk, recopied>>
    BY Zenon, <1>1 DEF LoadSource, Retouchable, rtLibs, rtCopy
  <2>2. recovered' = (offset_of[lib] = Removed) /\ made_copy' = FALSE
    BY <1>1 DEF LoadSource
  <2>3. RetouchTypeOK'
    <3>1. recovered' \in BOOLEAN /\ made_copy' \in BOOLEAN
      BY Zenon, <2>2
    <3> QED
      BY <2>1, <3>1 DEF RetouchInv, RetouchTypeOK, Working
  <2>4. CallInv' /\ DoneInv'
    BY <2>1 DEF RetouchInv, CallInv, DoneInv, Prefix, Fits, Working
  <2>5. ASSUME KeptInv, NEW j \in Libraries \ {lib}, offset_of[j] = Removed PROVE FALSE
    <3>1. lib < j
      BY <2>1, <2>5 DEF KeptInv, RemovedInv, RetouchInv, RetouchTypeOK
    <3>2. PICK o \in Offsets : Fits(o) /\ Prefix(j, o)
      BY <2>5 DEF KeptInv, RemovedInv
    <3>3. offset_of[lib] = o
      BY <2>1, <3>1, <3>2 DEF Prefix
    <3>4. Fits(random_base) /\ Prefix(lib, random_base)
          /\ (override_set <=> undo \/ \E i \in Retouchable : i < lib)
      BY <2>1 DEF RetouchInv, CallInv
    <3>5. CASE undo
      BY <2>1, <3>2, <3>3, <3>4, <3>5 DEF Fits, InPlace
    <3>6. CASE ~undo
      <4>1. override_set
        BY <2>1, <3>2, <3>3, <3>4, <3>6 DEF Fits, InPlace
      <4>2. PICK i \in Retouchable : i < lib
        BY <3>4, <3>6, <4>1
      <4>3. i < j
        BY <2>1, <3>1, <4>2
      <4>4. offset_of[i] = random_base /\ offset_of[i] = o
        BY <3>2, <3>4, <4>2, <4>3 DEF Prefix
      <4> QED
        BY <2>1, <3>3, <4>4 DEF InPlace
    <3> QED
      BY <3>5, <3>6
  <2>6. ASSUME KeptInv PROVE KeptInv'
    <3>1. RemovedInv'
      BY <2>1, <2>5, <2>6 DEF KeptInv, RemovedInv, Prefix, Fits, Working
    <3>2. CopyInv'
      BY Zenon, <2>1, <2>2 DEF CopyInv
    <3>3. Synced' /\ Somewhere'
      BY <2>1, <2>6 DEF KeptInv, Synced, Somewhere
    <3> QED
      BY <3>1, <3>2, <3>3 DEF KeptInv
  <2> QED
    BY <2>3, <2>4, <2>6 DEF RetouchInv
<1>2. CASE ~(offset_of[lib] # Removed \/ saved = lib)
  BY <1>2, CallFails DEF LoadSource
<1> QED
  BY <1>1, <1>2

\* The steps that write CACHE_TEMP_SOURCE and the .atomic file: they leave the
\* libraries in place and the offset as they are.
LEMMA FilesWritten ==
  ASSUME RetouchInv, rt_pc \in Working, rt_pc' \in Working \ {"clean"},
         UNCHANGED <<offset_of, offset_disk, lib, random_base, override_set, undo, succeeded>>,
         saved' \in Int, recovered' \in BOOLEAN, made_copy' \in BOOLEAN, saved_disk' \in Int,
         saved_disk = saved => saved_disk' = saved', KeptInv => CopyInv' /\ Somewhere'
  PROVE  RetouchInv'
<1> USE OffsetFacts, LibraryFacts DEF Working
<1>1. RetouchTypeOK'
  BY DEF RetouchInv, RetouchTypeOK
<1>2. CallInv'
  BY DEF RetouchInv, CallInv, Prefix, Fits
<1>3. ASSUME KeptInv PROVE KeptInv'
  <2>1. RemovedInv'
    BY <1>3 DEF KeptInv, RemovedInv, Prefix, Fits
  <2> QED
    BY <1>3, <2>1 DEF KeptInv, Synced
<1>4. DoneInv'
  BY DEF RetouchInv, DoneInv, Fits
<1> QED
  BY <1>1, <1>2, <1>3, <1>4 DEF RetouchInv

\* Making room and writing: the saved file is written over only when no other
\* library is missing.
LEMMA RoomMade ==
  ASSUME RetouchInv, CheckSpace \/ MakeRoom \/ SaveCopy \/ WriteAtomic
  PROVE  RetouchInv'
<1> USE DEF Working
<1>1. CASE Fails /\ UNCHANGED <<rtLibs, rtCopy>>
  BY <1>1, CallFails
<1>2. lib \in Retouchable /\ lib \in Libraries
  BY Zenon, LibraryFacts DEF RetouchInv, CallInv, CheckSpace, MakeRoom, SaveCopy, WriteAtomic
<1>3. CASE \/ CheckSpace
           \/ WriteAtomic /\ Goto("rename")
           \/ WriteAtomic /\ ~made_copy /\ Goto("room")
  <2>1. /\ rt_pc \in Working /\ rt_pc' \in Working \ {"clean"}
        /\ UNCHANGED <<offset_of, offset_disk, lib, random_base, override_set, undo, succeeded,
                       saved, saved_disk, recovered, made_copy, recopied>>
    BY <1>3 DEF CheckSpace, WriteAtomic, Goto, rtCall, rtLibs, rtCopy
  <2>2. ASSUME KeptInv PROVE CopyInv' /\ Somewhere'
    <3>1. CopyInv'
      BY <1>3, <2>1, <2>2 DEF KeptInv, CopyInv, CheckSpace, WriteAtomic, Goto
    <3> QED
      BY <2>1, <2>2, <3>1 DEF KeptInv, Somewhere
  <2>4. saved' \in Int /\ saved_disk' \in Int /\ recovered' \in BOOLEAN /\ made_copy' \in BOOLEAN
    BY <2>1 DEF RetouchInv, RetouchTypeOK
  <2> QED
    BY <2>1, <2>2, <2>4, FilesWritten
<1>4. CASE /\ MakeRoom /\ Goto("copy") /\ WriteCopy(Partial)
           /\ recopied' = IF recovered THEN recopied \cup {lib} ELSE recopied
  <2>1. /\ rt_pc = "room" /\ rt_pc' = "copy"
        /\ UNCHANGED <<offset_of, offset_disk, lib, random_base, override_set, undo, succeeded,
                       recovered, made_copy>>
    BY Zenon, <1>4 DEF MakeRoom, Goto, rtCall, rtLibs
  <2>2. ASSUME KeptInv PROVE CopyInv' /\ Somewhere'
    <3>1. lib \in recopied' \/ offset_of[lib] # Removed
      BY Zenon, <1>4, <2>1, <2>2 DEF KeptInv, CopyInv
    <3>2. CopyInv'
      BY <2>1, <3>1 DEF CopyInv
    <3>3. \A j \in Libraries \ {lib} : offset_of[j] # Removed
      BY <2>1, <2>2 DEF KeptInv, RemovedInv
    <3> QED
      BY <2>1, <3>1, <3>2, <3>3 DEF Somewhere
  <2>5. /\ saved' \in Int /\ recovered' \in BOOLEAN /\ made_copy' \in BOOLEAN
        /\ saved_disk' = saved'
    BY <1>4, <2>1 DEF RetouchInv, RetouchTypeOK, Partial, WriteCopy
  <2> QED
    BY <2>1, <2>2, <2>5, FilesWritten
<1>5. CASE /\ SaveCopy /\ WriteCopy(lib) /\ made_copy' = TRUE /\ rt_pc' = "unlink"
           /\ UNCHANGED <<lib, random_base, override_set, recovered, undo, succeeded>>
  <2>1. rt_pc = "copy" /\ UNCHANGED <<offset_of, offset_disk>>
    BY Zenon, <1>5 DEF SaveCopy, rtLibs
  <2>2. saved' = lib /\ saved_disk' = lib
    BY <1>5 DEF WriteCopy
  <2>3. ASSUME KeptInv PROVE CopyInv' /\ Somewhere'
    <3>1. CopyInv'
      BY <1>5, <2>1, <2>2 DEF CopyInv
    <3>2. \A j \in Libraries \ {lib} : offset_of[j] # Removed
      BY <2>1, <2>3 DEF KeptInv, RemovedInv
    <3> QED
      BY <2>1, <2>2, <3>1, <3>2 DEF Somewhere
  <2>4. saved' \in Int /\ recovered' \in BOOLEAN
    BY <1>5, <2>2 DEF RetouchInv, RetouchTypeOK
  <2>5. made_copy' \in BOOLEAN
    BY <1>5
  <2> QED
    BY <1>5, <2>1, <2>2, <2>3, <2>4, <2>5, FilesWritten
<1> QED
  BY Zenon, <1>1, <1>3, <1>4, <1>5 DEF MakeRoom, SaveCopy, WriteAtomic

\* A directory changes: what a power loss leaves of it is a state it has been in.
LEMMA LibChanged ==
  ASSUME RetouchTypeOK, lib \in Libraries, NEW o \in Offsets \cup {Removed}, ChangeLib(o)
  PROVE  /\ offset_of' \in [Libraries -> Offsets \cup {Removed}]
         /\ offset_disk' \in [Libraries -> Offsets \cup {Removed}]
         /\ offset_of'[lib] = o
         /\ \A j \in Libraries \ {lib} : offset_of'[j] = offset_of[j]
         /\ ~Volatile => offset_disk' = offset_of'
<1>1. offset_of' = [offset_of EXCEPT ![lib] = o]
  BY DEF ChangeLib
<1>2. offset_of' \in [Libraries -> Offsets \cup {Removed}]
  BY <1>1 DEF RetouchTypeOK
<1>3. /\ offset_disk' \in {offset_disk, offset_of, offset_of'}
      /\ ~Volatile => offset_disk' = offset_of'
  BY DEF ChangeLib, Durable
<1>4. offset_disk' \in [Libraries -> Offsets \cup {Removed}]
  BY Zenon, <1>2, <1>3 DEF RetouchTypeOK
<1> QED
  BY <1>1, <1>2, <1>3, <1>4 DEF RetouchTypeOK

\* The library goes away only when the saved file is its own.
LEMMA LibraryUnlinked == ASSUME RetouchInv, UnlinkLibrary PROVE RetouchInv'
<1> USE OffsetFacts, LibraryFacts DEF Working
<1>1. /\ rt_pc = "unlink" /\ rt_pc' = "write" /\ ChangeLib(Removed)
      /\ UNCHANGED <<saved, saved_disk, recopied, lib, random_base, override_set, recovered,
                     made_copy, undo, succeeded>>
  BY Zenon DEF UnlinkLibrary, Goto, rtCall, rtCopy
<1>2. lib \in Retouchable /\ RetouchTypeOK
  BY <1>1 DEF RetouchInv, CallInv
<1>3. /\ offset_of' \in [Libraries -> Offsets \cup {Removed}]
      /\ offset_disk' \in [Libraries -> Offsets \cup {Removed}]
      /\ offset_of'[lib] = Removed
      /\ \A j \in Libraries \ {lib} : offset_of'[j] = offset_of[j]
      /\ ~Volatile => offset_disk' = offset_of'
  <2>1. lib \in Libraries /\ Removed \in Offsets \cup {Removed}
    BY <1>2
  <2> QED
    BY Zenon, <1>1, <1>2, <2>1, LibChanged
<1>4. RetouchTypeOK'
  BY <1>1, <1>2, <1>3 DEF RetouchTypeOK
<1>5. \A o : Prefix(lib, o)' <=> Prefix(lib, o)
  BY <1>1, <1>3 DEF Prefix
<1>6. CallInv' /\ DoneInv'
  BY <1>1, <1>5 DEF RetouchInv, CallInv, DoneInv, Fits
<1>7. ASSUME ~Volatile, KeptInv PROVE KeptInv'
  <2>1. random_base \in Offsets /\ Fits(random_base) /\ Prefix(lib, random_base)
    BY <1>1 DEF RetouchInv, RetouchTypeOK, CallInv
  <2>2. \A j \in Libraries \ {lib} : offset_of[j] # Removed
    BY <1>1, <1>7 DEF KeptInv, RemovedInv
  <2>3. RemovedInv'
    BY <1>1, <1>2, <1>3, <1>5, <2>1, <2>2 DEF RemovedInv, Fits
  <2>4. saved = lib /\ made_copy
    BY <1>1, <1>7 DEF KeptInv, CopyInv
  <2>5. CopyInv'
    BY <1>1, <2>4 DEF CopyInv
  <2>6. Synced' /\ Somewhere'
    BY <1>1, <1>3, <1>7, <2>2, <2>4 DEF KeptInv, Synced, Somewhere
  <2> QED
    BY <2>3, <2>5, <2>6 DEF KeptInv
<1> QED
  BY <1>4, <1>6, <1>7 DEF RetouchInv

\* The .atomic file replaces the library, which is then at the call's offset;
\* the others are in place already.
LEMMA LibraryRenamed == ASSUME RetouchInv, Rename PROVE RetouchInv'
<1> USE OffsetFacts, LibraryFacts DEF Working
<1>1. CASE Fails /\ UNCHANGED rtLibs
  BY <1>1, CallFails DEF Rename
<1>2. CASE ChangeLib(random_base) /\ Goto("clean")
  <2>1. /\ rt_pc = "rename" /\ rt_pc' = "clean"
        /\ UNCHANGED <<saved, saved_disk, recopied, lib, random_base, override_set, recovered,
                       made_copy, undo, succeeded>>
    BY Zenon, <1>2 DEF Rename, Goto, rtCall, rtCopy
  <2>2. lib \in Retouchable /\ random_base \in Offsets /\ RetouchTypeOK
    BY <2>1 DEF RetouchInv, CallInv, RetouchTypeOK
  <2>3. /\ offset_of' \in [Libraries -> Offsets \cup {Removed}]
        /\ offset_disk' \in [Libraries -> Offsets \cup {Removed}]
        /\ offset_of'[lib] = random_base
        /\ \A j \in Libraries \ {lib} : offset_of'[j] = offset_of[j]
        /\ ~Volatile => offset_disk' = offset_of'
    <3>1. lib \in Libraries /\ random_base \in Offsets \cup {Removed}
      BY <2>2
    <3> QED
      BY Zenon, <1>2, <2>2, <3>1, LibChanged
  <2>5. RetouchTypeOK'
    BY <2>1, <2>2, <2>3 DEF RetouchTypeOK
  <2>6. CallInv' /\ DoneInv'
    BY <2>1, <2>3 DEF RetouchInv, CallInv, DoneInv, Fits, Prefix
  <2>7. ASSUME ~Volatile, KeptInv PROVE KeptInv'
    <3>1. \A j \in Libraries : offset_of'[j] # Removed
      BY <2>1, <2>2, <2>3, <2>7 DEF KeptInv, RemovedInv
    <3>2. RemovedInv' /\ Somewhere' /\ CopyInv'
      BY <2>1, <3>1 DEF RemovedInv, Somewhere, CopyInv
    <3>3. Synced'
      BY <2>1, <2>3, <2>7 DEF KeptInv, Synced
    <3> QED
      BY <3>2, <3>3 DEF KeptInv
  <2> QED
    BY <2>5, <2>6, <2>7 DEF RetouchInv
<1> QED
  BY <1>1, <1>2 DEF Rename

\* The saved file is deleted when all libraries are in place.
LEMMA CleanedUp == ASSUME RetouchInv, CleanUp PROVE RetouchInv'
<1> USE OffsetFacts, LibraryFacts DEF Working
<1>1. /\ rt_pc = "clean" /\ rt_pc' = "probe" /\ lib' = lib + 1 /\ NextLibrary(random_base)
      /\ UNCHANGED <<offset_of, offset_disk, recopied, undo, recovered, made_copy, succeeded>>
  BY Zenon DEF CleanUp, NextLibrary, rtLibs
<1>2. lib \in Retouchable /\ offset_of[lib] = random_base /\ random_base \in Offsets
  BY <1>1 DEF RetouchInv, CallInv, RetouchTypeOK
<1>3. Fits(random_base) /\ Prefix(lib, random_base)
      /\ (override_set <=> undo \/ \E i \in Retouchable : i < lib)
  BY <1>1 DEF RetouchInv, CallInv
<1>4. random_base' = random_base
  BY <1>1 DEF NextLibrary
<1>5. override_set'
  BY <1>1, <1>3 DEF NextLibrary, Fits
<1>s. /\ saved' \in Int /\ saved_disk' \in Int
      /\ ~Volatile /\ saved_disk = saved => saved_disk' = saved'
  <2>1. CASE made_copy
    <3>1. saved' = Nothing /\ saved_disk' \in Durable(saved_disk, saved, Nothing)
      BY <2>1 DEF CleanUp
    <3>2. /\ saved_disk' \in {saved_disk, saved, Nothing}
          /\ ~Volatile => saved_disk' = Nothing
      BY <3>1 DEF Durable
    <3> QED
      BY <3>1, <3>2 DEF RetouchInv, RetouchTypeOK, Nothing
  <2>2. CASE ~made_copy
    BY <2>2 DEF CleanUp, RetouchInv, RetouchTypeOK
  <2> QED
    BY <2>1, <2>2
<1>6. RetouchTypeOK'
  <2>1. override_set' \in BOOLEAN
    BY <1>1, Zenon DEF RetouchInv, RetouchTypeOK, NextLibrary
  <2> QED
    BY <1>1, <1>4, <1>s, <2>1 DEF RetouchInv, RetouchTypeOK
<1>7. \A i \in Retouchable : i < lib + 1 <=> (i < lib \/ i = lib)
  BY <1>2
<1>8. CallInv'
  BY <1>1, <1>2, <1>3, <1>4, <1>5, <1>7 DEF CallInv, Prefix, Fits
<1>9. ASSUME ~Volatile, KeptInv PROVE KeptInv'
  <2>1. \A j \in Libraries : offset_of[j] # Removed
    BY <1>1, <1>2, <1>9 DEF KeptInv, RemovedInv
  <2>2. RemovedInv' /\ Somewhere' /\ CopyInv'
    BY <1>1, <2>1 DEF RemovedInv, Somewhere, CopyInv
  <2>3. Synced'
    BY <1>1, <1>s, <1>9 DEF KeptInv, Synced
  <2> QED
    BY <2>2, <2>3 DEF KeptInv
<1>10. DoneInv'
  BY <1>1 DEF RetouchInv, DoneInv
<1> QED
  BY <1>6, <1>8, <1>9, <1>10 DEF RetouchInv

\* The inductive invariant, over kills between any two steps.
THEOREM RetouchInvariant == RetouchSpec => []RetouchInv
<1>1. RetouchInv /\ [RetouchNext]_rtVars => RetouchInv'
  <2> SUFFICES ASSUME RetouchInv, [RetouchNext]_rtVars PROVE RetouchInv'
    OBVIOUS
  <2>1. CASE RetouchBinariesFn \/ UndoRetouchBinariesFn
    BY <2>1, CallStarts
  <2>2. CASE Returns
    <3>1. /\ rt_pc' = "idle" /\ UNCHANGED <<rtLibs, rtCopy, rtCall, undo>>
          /\ rt_pc = "probe" /\ lib > LibCount
      BY <2>2 DEF Returns
    <3>2. succeeded' \in BOOLEAN
      BY <2>2, Zenon DEF Returns
    <3> QED
      BY <3>1, <3>2, CallEnds
  <2>3. CASE Killed
    BY <2>3, CallKilled
  <2>4. CASE retouch_one_library
    BY SMTT(20), <2>4, LibrarySkipped, SourceLoaded, RoomMade, LibraryUnlinked, LibraryRenamed, CleanedUp
    DEF retouch_one_library
  <2>5. CASE UNCHANGED rtVars
    <3>1. UNCHANGED <<offset_of, offset_disk, saved, saved_disk, recopied, rt_pc, lib, undo,
                      random_base, override_set, recovered, made_copy, succeeded>>
      BY Zenon, <2>5 DEF rtVars, rtLibs, rtCopy, rtCall
    <3>2. RetouchTypeOK'
      BY <3>1 DEF RetouchInv, RetouchTypeOK
    <3>3. CallInv' /\ DoneInv'
      BY <3>1 DEF RetouchInv, CallInv, DoneInv, Prefix, Fits
    <3>4. ASSUME KeptInv PROVE KeptInv'
      BY <3>1, <3>4 DEF KeptInv, Synced, RemovedInv, CopyInv, Somewhere, Prefix, Fits
    <3> QED
      BY <3>2, <3>3, <3>4 DEF RetouchInv
  <2> QED
    BY <2>1, <2>2, <2>3, <2>4, <2>5 DEF RetouchNext
<1> QED
  BY RetouchStarts, <1>1, PTL DEF RetouchSpec

\* If rename() and unlink() are durable, retouch_one_library, killed or failing
\* anywhere, leaves each library in place or whole in CACHE_TEMP_SOURCE, unless
\* it was rewriting the copy it had read.
THEOREM LibraryKeptCorrect == ASSUME ~Volatile PROVE RetouchSpec => []LibraryKept
<1>1. RetouchInv => LibraryKept
  BY DEF RetouchInv, KeptInv, Synced, Somewhere, LibraryKept
<1> QED
  BY <1>1, RetouchInvariant, PTL

\* A call that returns "t" leaves all libraries at one offset.
THEOREM OneOffsetCorrect == RetouchSpec => []OneOffset
<1>1. RetouchInv => OneOffset
  BY DEF RetouchInv, DoneInv, OneOffset, Fits, Offsets, Retouchable
<1> QED
  BY <1>1, RetouchInvariant, PTL

-----------------------------------------------------------------------------
(***************************************************************************)
(* The hash table of a package's entries.                                  *)
(***************************************************************************)

SlotsOf(size) == 0..size - 1
TablesOf(size) == [SlotsOf(size) -> Items \cup {EmptySlot, Tombstone}]

\* The slot that the probe for an item looks at after d others.
Slot(item, d, size) == (HashOf[item] + d) % size

\* An item is in some slot.
Holds(t, size, item) == \E i \in SlotsOf(size) : t[i] = item

Used(t) == {i \in DOMAIN t : t[i] # EmptySlot}
Tombs(t) == {i \in DOMAIN t : t[i] = Tombstone}

\* The probe for an item gets to slot i: no slot before it is empty.
Reached(t, size, item, i) ==
  \E d \in SlotsOf(size) :
    Slot(item, d, size) = i /\ \A e \in 0..d - 1 : t[Slot(item, e, size)] # EmptySlot

\* No item is in two slots, and the probe for every item gets to its slot.
Sound(t, size) ==
  /\ t \in TablesOf(size)
  /\ \A i, j \in SlotsOf(size) : t[i] \in Items /\ t[i] = t[j] => i = j
  /\ \A i \in SlotsOf(size) : t[i] \in Items => Reached(t, size, t[i], i)

\* The inductive invariant.
HashInv ==
  /\ tableSize \in Nat \ {0} /\ stored \subseteq Items
  /\ Sound(entries, tableSize) /\ LiveEntries(entries) = stored
  /\ numEntries = Cardinality(stored) /\ numDeadEntries = countTombStones(entries)
  /\ Cardinality(Used(entries)) = numEntries + numDeadEntries
  /\ ~TooFull(numEntries + numDeadEntries, tableSize)

-----------------------------------------------------------------------------
(***************************************************************************)
(* Numbers.                                                                *)
(***************************************************************************)

\* A set of natural numbers has a least one.
LEMMA LeastNumber ==
    ASSUME NEW S, S \subseteq Nat, S # {}
    PROVE  \E i \in S : \A j \in S : i <= j
<1> DEFINE R == OpToRel(<, Nat)
<1>1. \E i \in S : \A j \in S : ~(<<j, i>> \in R)
  BY Zenon, NatLessThanWellFounded, WFMin
<1>2. \A i, j \in S : i \in Nat /\ j \in Nat
  BY Zenon
<1>3. \A i, j \in Nat : <<j, i>> \in R <=> j < i
  BY DEF OpToRel
<1>4. \A i, j \in Nat : ~(j < i) => i <= j
  OBVIOUS
<1> QED
  BY Zenon, <1>1, <1>2, <1>3, <1>4

\* A remainder is known by what it leaves.
LEMMA Remainder ==
    ASSUME NEW size \in Nat \ {0}, NEW q \in Nat, NEW r \in 0..size - 1
    PROVE  (q * size + r) % size = r
OBVIOUS

\* What the division leaves.
LEMMA Divided ==
    ASSUME NEW size \in Nat \ {0}, NEW a \in Nat
    PROVE  a % size \in 0..size - 1 /\ \E q \in Nat : a = q * size + (a % size)
<1>1. a % size \in 0..size - 1
  OBVIOUS
<1>2. a \div size \in Nat /\ a = (a \div size) * size + (a % size)
  OBVIOUS
<1> QED
  BY Zenon, <1>1, <1>2

\* The probe stays in the table and gets everywhere.
LEMMA SlotsReached ==
    ASSUME NEW item \in Items, NEW size \in Nat \ {0}
    PROVE  /\ \A d \in Nat : Slot(item, d, size) \in SlotsOf(size)
           /\ \A i \in SlotsOf(size) : \E d \in SlotsOf(size) : Slot(item, d, size) = i
<1> DEFINE h == HashOf[item]
<1>1. h \in Nat
  BY Zenon, HashAssumption
<1> HIDE DEF h
<1>2. \A d \in Nat : Slot(item, d, size) \in SlotsOf(size)
  <2> SUFFICES ASSUME NEW d \in Nat PROVE Slot(item, d, size) \in SlotsOf(size)
    BY Zenon
  <2>1. h + d \in Nat
    BY <1>1
  <2> QED
    BY Zenon, <2>1, Divided DEF Slot, SlotsOf, h
<1>3. ASSUME NEW i \in SlotsOf(size)
      PROVE  \E d \in SlotsOf(size) : Slot(item, d, size) = i
  <2> DEFINE r == h % size
  <2>1. PICK q \in Nat : h = q * size + r
    BY Zenon, <1>1, Divided
  <2>2. r \in 0..size - 1 /\ i \in 0..size - 1
    BY Zenon, <1>1, <1>3, Divided DEF SlotsOf
  <2>3. h = q * size + r
    BY ONLY <2>1
  <2> HIDE DEF r
  <2>4. CASE i >= r
    <3>1. i - r \in 0..size - 1 /\ h + (i - r) = q * size + i
      BY <1>1, <2>2, <2>3, <2>4
    <3>2. (q * size + i) % size = i
      BY Zenon, <2>2, Remainder
    <3> QED
      BY Zenon, <3>1, <3>2 DEF Slot, SlotsOf, h
  <2>5. CASE i < r
    <3>1. i - r + size \in 0..size - 1 /\ h + (i - r + size) = (q + 1) * size + i
      BY <1>1, <2>2, <2>3, <2>5
    <3>2. ((q + 1) * size + i) % size = i
      <4>1. q + 1 \in Nat
        OBVIOUS
      <4> QED BY Zenon, <2>2, <4>1, Remainder
    <3> QED
      BY Zenon, <3>1, <3>2 DEF Slot, SlotsOf, h
  <2> QED
    BY <2>2, <2>4, <2>5
<1> QED
  BY Zenon, <1>2, <1>3

\* Twice a power of 2 is one.
LEMMA Power2Doubles ==
    ASSUME NEW p \in Nat \ {0}, IsPower2(p)
    PROVE  IsPower2(2 * p)
<1> SUFFICES ASSUME NEW d \in 1..2 * p, NEW k \in 1..2 * p, d * k = 2 * p, d % 2 = 1
             PROVE  d = 1
  BY Zenon DEF IsPower2
<1>1. PICK a \in Nat : d = 2 * a + 1
  <2>1. d \in Nat /\ d = 2 * (d \div 2) + 1 /\ d \div 2 \in Nat
    OBVIOUS
  <2> QED BY Zenon, <2>1
<1>2. PICK b \in Nat : k = 2 * b
  <2>1. k % 2 \in {0, 1} /\ k \div 2 \in Nat
    OBVIOUS
  <2>2. CASE k % 2 = 1
    <3> DEFINE b == k \div 2
    <3>1. b \in Nat /\ k = 2 * b + 1
      BY <2>1, <2>2
    <3> HIDE DEF b
    <3>2. d * k = 2 * (2 * (a * b) + a + b) + 1 /\ a * b \in Nat
      BY <1>1, <3>1
    <3> QED
      BY <3>1, <3>2
  <2>3. CASE k % 2 = 0
    BY <2>1, <2>3
  <2> QED
    BY Zenon, <2>1, <2>2, <2>3
<1>3. d * b = p
  BY <1>2
<1>4. d \in 1..p /\ b \in 1..p
  <2>1. b \in Nat \ {0}
    BY <1>2
  <2>2. d <= d * b /\ b <= d * b
    BY <2>1
  <2> QED
    BY <1>3, <2>1, <2>2
<1> QED
  BY Zenon, <1>3, <1>4 DEF IsPower2

\* There is a power of 2 between a number and its double.
LEMMA Power2Found ==
    ASSUME NEW val \in Nat \ {0}
    PROVE  \E p \in val..2 * val : IsPower2(p)
<1> DEFINE T == {n \in Nat \ {0} : ~\E p \in n..2 * n : IsPower2(p)}
<1>1. SUFFICES ASSUME T # {}
               PROVE  FALSE
  BY Zenon
<1>2. PICK n \in T : \A j \in T : n <= j
  <2>1. T \subseteq Nat
    OBVIOUS
  <2> QED BY Zenon, <1>1, <2>1, LeastNumber
<1>3. n # 1
  <2>1. IsPower2(1)
    BY DEF IsPower2
  <2> QED
    BY <2>1
<1>4. n - 1 \in Nat \ {0} /\ n - 1 \notin T
  BY <1>2, <1>3
<1>5. PICK p \in n - 1 .. 2 * (n - 1) : IsPower2(p)
  BY Zenon, <1>4
<1>6. p \in Nat \ {0} /\ (p = n - 1 \/ p \in n..2 * n) /\ 2 * (n - 1) \in n..2 * n
  BY <1>4, <1>5
<1>7. CASE p \in n..2 * n
  BY Zenon, <1>5, <1>7
<1>8. CASE p = n - 1
  <2>1. IsPower2(2 * p)
    BY Zenon, <1>5, <1>6, Power2Doubles
  <2> QED
    BY Zenon, <1>6, <1>8, <2>1
<1> QED
  BY Zenon, <1>6, <1>7, <1>8

\* The size of a table is positive.
LEMMA PositiveSize ==
    ASSUME NEW val \in Nat \ {0}
    PROVE  roundUpPower2(val) \in Nat \ {0}
<1> DEFINE S == {p \in val..2 * val : IsPower2(p)}
<1>1. S # {} /\ S \subseteq Nat
  <2>1. val..2 * val \subseteq Nat
    OBVIOUS
  <2> QED BY Zenon, <2>1, Power2Found
<1>2. PICK p \in S : \A j \in S : p <= j
  BY Zenon, <1>1, LeastNumber
<1>3. \A q \in val..p - 1 : q \in val..2 * val /\ ~(p <= q)
  BY <1>2
<1>4. \A q \in val..p - 1 : ~IsPower2(q)
  BY Zenon, <1>2, <1>3
<1>5. roundUpPower2(val) \in val..2 * val
  BY Zenon, <1>2, <1>4 DEF roundUpPower2
<1> QED
  BY <1>5
-----------------------------------------------------------------------------
(***************************************************************************)
(* Probing.                                                                *)
(***************************************************************************)

\* The probe for an item stops at the first slot with something wanted.
LEMMA ProbeFinds ==
    ASSUME NEW size \in Nat \ {0}, NEW t, NEW item \in Items, NEW wanted,
           \E i \in SlotsOf(size) : t[i] \in wanted
    PROVE  /\ Probe(t, size, item, wanted) \in SlotsOf(size)
           /\ t[Probe(t, size, item, wanted)] \in wanted
           /\ \E d \in SlotsOf(size) :
                 /\ Slot(item, d, size) = Probe(t, size, item, wanted)
                 /\ \A e \in 0..d - 1 : t[Slot(item, e, size)] \notin wanted
<1> DEFINE found == {d \in 0..size - 1 : t[(HashOf[item] + d) % size] \in wanted}
           first == CHOOSE d \in found : \A e \in found : d <= e
<1>1. Probe(t, size, item, wanted) = Slot(item, first, size)
  BY Zenon DEF Probe, Slot
<1>2. found = {d \in SlotsOf(size) : t[Slot(item, d, size)] \in wanted}
  BY Zenon DEF Slot, SlotsOf
<1>3. found # {}
  <2>1. PICK i \in SlotsOf(size) : t[i] \in wanted
    BY Zenon
  <2>2. PICK d \in SlotsOf(size) : Slot(item, d, size) = i
    BY Zenon, SlotsReached
  <2> QED
    BY Zenon, <1>2, <2>1, <2>2
<1>4. found \subseteq Nat
  BY DEF SlotsOf
<1>5. first \in found /\ \A e \in found : first <= e
  BY Zenon, <1>3, <1>4, LeastNumber
<1> HIDE DEF found, first
<1>6. first \in SlotsOf(size) /\ t[Slot(item, first, size)] \in wanted
  BY Zenon, <1>2, <1>5
<1>7. Slot(item, first, size) \in SlotsOf(size)
  BY Zenon, <1>4, <1>5, SlotsReached
<1>8. \A e \in 0..first - 1 : e \in SlotsOf(size) /\ ~(first <= e)
  BY <1>6 DEF SlotsOf
<1>9. \A e \in 0..first - 1 : t[Slot(item, e, size)] \notin wanted
  BY Zenon, <1>2, <1>5, <1>8
<1> QED
  BY Zenon, <1>1, <1>6, <1>7, <1>9

\* Items, empty slots and tombstones are told apart.
LEMMA Apart ==
    /\ EmptySlot \notin Items /\ Tombstone \notin Items /\ EmptySlot # Tombstone
BY HashAssumption DEF EmptySlot, Tombstone

\* The live entries of a table are the items in it.
LEMMA LiveAre ==
    ASSUME NEW size, NEW t \in TablesOf(size)
    PROVE  \A x : x \in LiveEntries(t) <=> x \in Items /\ Holds(t, size, x)
<1>1. DOMAIN t = SlotsOf(size) /\ \A i \in SlotsOf(size) : t[i] \in Items \cup {EmptySlot, Tombstone}
  BY Zenon DEF TablesOf
<1> QED
  BY Zenon, <1>1, Apart DEF LiveEntries, Holds

\* In a sound table with an empty slot the probe ends, and finds an item
\* exactly if it is there.
LEMMA LookupFinds ==
    ASSUME NEW size \in Nat \ {0}, NEW t, Sound(t, size), NEW item \in Items,
           \E i \in SlotsOf(size) : t[i] = EmptySlot
    PROVE  LET at == Stop(t, size, item)
           IN  /\ at \in SlotsOf(size) /\ t[at] \in {item, EmptySlot}
               /\ t[at] = item <=> item \in LiveEntries(t)
               /\ \E d \in SlotsOf(size) :
                     /\ Slot(item, d, size) = at
                     /\ \A e \in 0..d - 1 : t[Slot(item, e, size)] # EmptySlot
<1> DEFINE at == Stop(t, size, item)
<1>1. t \in TablesOf(size)
  BY Zenon DEF Sound
<1>2. /\ at \in SlotsOf(size) /\ t[at] \in {item, EmptySlot}
      /\ \E d \in SlotsOf(size) :
            Slot(item, d, size) = at /\ \A e \in 0..d - 1 : t[Slot(item, e, size)] \notin {item, EmptySlot}
  <2>1. \E i \in SlotsOf(size) : t[i] \in {item, EmptySlot}
    BY Zenon
  <2> QED
    BY Zenon, <2>1, ProbeFinds DEF Stop
<1> HIDE DEF at
<1>3. ASSUME item \in LiveEntries(t)
      PROVE  t[at] = item
  <2>0. Holds(t, size, item)
    BY Zenon, <1>1, <1>3, LiveAre
  <2>1. PICK i \in SlotsOf(size) : t[i] = item
    BY Zenon, <2>0 DEF Holds
  <2>2. PICK d \in SlotsOf(size) :
            Slot(item, d, size) = i /\ \A e \in 0..d - 1 : t[Slot(item, e, size)] # EmptySlot
    BY Zenon, <2>1 DEF Sound, Reached
  <2>3. PICK f \in SlotsOf(size) :
            Slot(item, f, size) = at /\ \A e \in 0..f - 1 : t[Slot(item, e, size)] \notin {item, EmptySlot}
    BY Zenon, <1>2
  <2>4. f \in 0..d - 1 \/ f = d \/ d \in 0..f - 1
    BY DEF SlotsOf
  <2>5. CASE f \in 0..d - 1
    BY Zenon, <1>2, <2>2, <2>3, <2>5
  <2>6. CASE f = d
    BY Zenon, <2>1, <2>2, <2>3, <2>6
  <2>7. CASE d \in 0..f - 1
    BY Zenon, <2>1, <2>2, <2>3, <2>7
  <2> QED
    BY Zenon, <2>4, <2>5, <2>6, <2>7
<1>4. ASSUME t[at] = item
      PROVE  item \in LiveEntries(t)
  BY Zenon, <1>1, <1>2, <1>4, LiveAre DEF Holds
<1> QED
  BY Zenon, <1>2, <1>3, <1>4 DEF at

-----------------------------------------------------------------------------
(***************************************************************************)
(* Adding and removing.                                                    *)
(***************************************************************************)

\* u is the table t with an item more, in slot at.
Added(t, u, size, item, at) ==
  /\ Sound(u, size) /\ LiveEntries(u) = LiveEntries(t) \cup {item}
  /\ Used(u) = Used(t) \cup {at} /\ at \notin Used(t) /\ Tombs(u) = Tombs(t)

\* u is the table t without an item, which left a tombstone in slot at.
TakenOut(t, u, size, item, at) ==
  /\ Sound(u, size) /\ LiveEntries(u) = LiveEntries(t) \ {item}
  /\ Used(u) = Used(t) /\ Tombs(u) = Tombs(t) \cup {at} /\ at \notin Tombs(t)

\* An item that is put into the empty slot its probe stops at.
LEMMA PutSound ==
    ASSUME NEW size \in Nat \ {0}, NEW t, Sound(t, size), NEW item \in Items,
           item \notin LiveEntries(t), NEW at \in SlotsOf(size), t[at] = EmptySlot,
           Reached(t, size, item, at),
           NEW u, u = [t EXCEPT ![at] = item]
    PROVE  Added(t, u, size, item, at)
<1>1. /\ t \in TablesOf(size) /\ DOMAIN t = SlotsOf(size)
      /\ \A i \in SlotsOf(size) : t[i] \in Items \cup {EmptySlot, Tombstone}
  BY Zenon DEF Sound, TablesOf
<1>2. /\ u \in TablesOf(size) /\ DOMAIN u = SlotsOf(size) /\ u[at] = item
      /\ \A i \in SlotsOf(size) : i # at => u[i] = t[i]
  BY Zenon, <1>1 DEF TablesOf
<1>3. \A i \in SlotsOf(size) : t[i] # item
  BY Zenon, <1>1, LiveAre DEF Holds
<1>4. \A d \in Nat, x \in Items : t[Slot(x, d, size)] # EmptySlot => u[Slot(x, d, size)] # EmptySlot
  BY Zenon, <1>2, Apart, SlotsReached
<1>5. \A d \in SlotsOf(size) : \A e \in 0..d - 1 : e \in Nat
  BY DEF SlotsOf
<1>6. \A i \in SlotsOf(size), x \in Items : Reached(t, size, x, i) => Reached(u, size, x, i)
  BY Zenon, <1>4, <1>5 DEF Reached
<1>7. \A i, j \in SlotsOf(size) : u[i] \in Items /\ u[i] = u[j] => i = j
  BY Zenon, <1>2, <1>3 DEF Sound
<1>8. \A i \in SlotsOf(size) : u[i] \in Items => Reached(u, size, u[i], i)
  BY Zenon, <1>2, <1>6 DEF Sound
<1>9. Sound(u, size)
  BY Zenon, <1>2, <1>7, <1>8 DEF Sound
<1>10. LiveEntries(u) = LiveEntries(t) \cup {item}
  <2>1. \A x : x \in LiveEntries(u) <=> x \in Items /\ Holds(u, size, x)
    BY Zenon, <1>2, LiveAre
  <2>2. \A x : x \in LiveEntries(t) <=> x \in Items /\ Holds(t, size, x)
    BY Zenon, <1>1, LiveAre
  <2>3. \A x \in Items : Holds(u, size, x) <=> Holds(t, size, x) \/ x = item
    BY Zenon, <1>2, Apart DEF Holds
  <2> QED
    BY Zenon, <2>1, <2>2, <2>3
<1>11. Used(u) = Used(t) \cup {at} /\ at \notin Used(t)
  BY Zenon, <1>1, <1>2, Apart DEF Used
<1>12. Tombs(u) = Tombs(t)
  BY Zenon, <1>1, <1>2, Apart DEF Tombs
<1> QED
  BY Zenon, <1>9, <1>10, <1>11, <1>12 DEF Added

\* An item that is replaced by a tombstone, which the other probes pass.
LEMMA RemoveSound ==
    ASSUME NEW size \in Nat \ {0}, NEW t, Sound(t, size), NEW item \in Items,
           NEW at \in SlotsOf(size), t[at] = item,
           NEW u, u = [t EXCEPT ![at] = Tombstone]
    PROVE  TakenOut(t, u, size, item, at)
<1>1. /\ t \in TablesOf(size) /\ DOMAIN t = SlotsOf(size)
      /\ \A i \in SlotsOf(size) : t[i] \in Items \cup {EmptySlot, Tombstone}
  BY Zenon DEF Sound, TablesOf
<1>2. /\ u \in TablesOf(size) /\ DOMAIN u = SlotsOf(size) /\ u[at] = Tombstone
      /\ \A i \in SlotsOf(size) : i # at => u[i] = t[i]
  BY Zenon, <1>1 DEF TablesOf
<1>3. \A i \in SlotsOf(size) : t[i] = item => i = at
  BY Zenon DEF Sound
<1>4. \A d \in Nat, x \in Items : t[Slot(x, d, size)] # EmptySlot => u[Slot(x, d, size)] # EmptySlot
  BY Zenon, <1>2, Apart, SlotsReached
<1>5. \A d \in SlotsOf(size) : \A e \in 0..d - 1 : e \in Nat
  BY DEF SlotsOf
<1>6. \A i \in SlotsOf(size), x \in Items : Reached(t, size, x, i) => Reached(u, size, x, i)
  BY Zenon, <1>4, <1>5 DEF Reached
<1>7. \A i, j \in SlotsOf(size) : u[i] \in Items /\ u[i] = u[j] => i = j
  BY Zenon, <1>2, Apart DEF Sound
<1>8. \A i \in SlotsOf(size) : u[i] \in Items => Reached(u, size, u[i], i)
  BY Zenon, <1>2, <1>6, Apart DEF Sound
<1>9. Sound(u, size)
  BY Zenon, <1>2, <1>7, <1>8 DEF Sound
<1>10. LiveEntries(u) = LiveEntries(t) \ {item}
  <2>1. \A x : x \in LiveEntries(u) <=> x \in Items /\ Holds(u, size, x)
    BY Zenon, <1>2, LiveAre
  <2>2. \A x : x \in LiveEntries(t) <=> x \in Items /\ Holds(t, size, x)
    BY Zenon, <1>1, LiveAre
  <2>3. \A x \in Items : Holds(u, size, x) <=> Holds(t, size, x) /\ x # item
    BY Zenon, <1>2, <1>3, Apart DEF Holds
  <2> QED
    BY Zenon, <2>1, <2>2, <2>3
<1>11. Used(u) = Used(t)
  BY Zenon, <1>1, <1>2, Apart DEF Used
<1>12. Tombs(u) = Tombs(t) \cup {at} /\ at \notin Tombs(t)
  BY Zenon, <1>1, <1>2, Apart DEF Tombs
<1> QED
  BY Zenon, <1>9, <1>10, <1>11, <1>12 DEF TakenOut
-----------------------------------------------------------------------------
(***************************************************************************)
(* Counting, and the growth of the table.                                  *)
(***************************************************************************)

\* The slots of a table can be counted, and if fewer than all are used there is
\* an empty one.
LEMMA SlotsCounted ==
    ASSUME NEW size \in Nat \ {0}, NEW t \in TablesOf(size)
    PROVE  /\ IsFiniteSet(Used(t)) /\ IsFiniteSet(Tombs(t))
           /\ Cardinality(Used(t)) < size => Holds(t, size, EmptySlot)
<1>1. DOMAIN t = SlotsOf(size)
  BY Zenon DEF TablesOf
<1>2. IsFiniteSet(SlotsOf(size)) /\ Cardinality(SlotsOf(size)) = size
  <2>1. 0 \in Int /\ size - 1 \in Int /\ ~(0 > size - 1) /\ size - 1 - 0 + 1 = size
    OBVIOUS
  <2> QED
    BY Zenon, <2>1, FS_Interval DEF SlotsOf
<1>3. Used(t) \subseteq SlotsOf(size) /\ Tombs(t) \subseteq SlotsOf(size)
  BY Zenon, <1>1 DEF Used, Tombs
<1>4. IsFiniteSet(Used(t)) /\ IsFiniteSet(Tombs(t))
  BY Zenon, <1>2, <1>3, FS_Subset
<1>5. ASSUME ~Holds(t, size, EmptySlot)
      PROVE  ~(Cardinality(Used(t)) < size)
  <2>1. Used(t) = SlotsOf(size)
    BY Zenon, <1>1, <1>5 DEF Used, Holds
  <2>2. ~(size < size)
    OBVIOUS
  <2> QED
    BY Zenon, <1>2, <2>1, <2>2
<1> QED
  BY Zenon, <1>4, <1>5

\* An empty table.
LEMMA BlankSound ==
    ASSUME NEW size \in Nat \ {0}
    PROVE  /\ Sound(Blank(size), size) /\ LiveEntries(Blank(size)) = {}
           /\ Used(Blank(size)) = {} /\ Tombs(Blank(size)) = {}
<1> DEFINE t == Blank(size)
<1>1. DOMAIN t = SlotsOf(size) /\ t \in TablesOf(size) /\ \A i \in SlotsOf(size) : t[i] = EmptySlot
  BY Zenon DEF Blank, TablesOf, SlotsOf
<1> HIDE DEF t
<1>2. Sound(t, size)
  BY Zenon, <1>1, Apart DEF Sound
<1>3. LiveEntries(t) = {} /\ Used(t) = {} /\ Tombs(t) = {}
  BY Zenon, <1>1, Apart DEF LiveEntries, Used, Tombs
<1> QED
  BY Zenon, <1>2, <1>3 DEF t

\* The loop of resizeHash as the sequence of its new tables.
LEMMA Rounds ==
    ASSUME tableSize \in Nat, NEW t, NEW size
    PROVE  \E h : /\ h[0] = Blank(size)
                  /\ \A i \in 1..tableSize : h[i] = Moved(h[i - 1], size, t[i - 1])
                  /\ resizeHash(t, size) = h[tableSize]
<1> DEFINE n == tableSize
           F(g, k) == [i \in 0..k |-> IF i = 0 THEN Blank(size) ELSE Moved(g[i - 1], size, t[i - 1])]
           T == {k \in 0..n : ~\E g : g = F(g, k)}
           h == CHOOSE g : g = F(g, n)
<1>1. \E g : g = F(g, n)
  <2>1. SUFFICES ASSUME T # {}
                 PROVE  FALSE
    <3>1. n \in 0..n
      OBVIOUS
    <3> QED BY Zenon, <3>1
  <2>2. T \subseteq Nat
    OBVIOUS
  <2>3. PICK k \in T : \A j \in T : k <= j
    BY Zenon, <2>1, <2>2, LeastNumber
  <2>4. k \in 0..n /\ ~\E g : g = F(g, k)
    BY Zenon, <2>3
  <2>5. k # 0
    <3> DEFINE z == [i \in 0..0 |-> Blank(size)]
    <3>1. \A i \in 0..0 : i = 0
      OBVIOUS
    <3>2. z = F(z, 0)
      BY Zenon, <3>1
    <3> QED
      BY Zenon, <2>4, <3>2
  <2>6. k - 1 \in 0..n /\ ~(k <= k - 1)
    BY <2>4, <2>5
  <2>7. PICK g : g = F(g, k - 1)
    BY Zenon, <2>3, <2>6
  <2> DEFINE u == [i \in 0..k |-> IF i = k THEN Moved(g[k - 1], size, t[k - 1]) ELSE g[i]]
  <2>8. \A i \in 0..k : i # k => i \in 0..k - 1
    BY <2>4
  <2>9. \A i \in 0..k : i # 0 => i - 1 \in 0..k /\ i - 1 # k
    BY <2>4
  <2>10. \A i \in 0..k : u[i] = IF i = 0 THEN Blank(size) ELSE Moved(u[i - 1], size, t[i - 1])
    <3> SUFFICES ASSUME NEW i \in 0..k
                 PROVE  u[i] = IF i = 0 THEN Blank(size) ELSE Moved(u[i - 1], size, t[i - 1])
      BY Zenon
    <3>1. i # 0 => u[i - 1] = g[i - 1]
      BY Zenon, <2>9
    <3>2. CASE i = k
      BY Zenon, <2>5, <3>1, <3>2
    <3>3. CASE i # k
      <4>1. u[i] = g[i]
        BY Zenon, <3>3
      <4>2. g[i] = IF i = 0 THEN Blank(size) ELSE Moved(g[i - 1], size, t[i - 1])
        BY Zenon, <2>7, <2>8, <3>3
      <4> QED
        BY Zenon, <3>1, <4>1, <4>2
    <3> QED
      BY Zenon, <3>2, <3>3
  <2>11. u = F(u, k)
    BY Zenon, <2>10
  <2> QED
    BY Zenon, <2>4, <2>11
<1>2. h = F(h, n)
  BY Zenon, <1>1
<1>3. resizeHash(t, size) = h[n]
  BY Zenon DEF resizeHash
<1> HIDE DEF h
<1>4. 0 \in 0..n /\ \A i \in 1..n : i \in 0..n /\ i # 0
  OBVIOUS
<1>5. h[0] = Blank(size) /\ \A i \in 1..n : h[i] = Moved(h[i - 1], size, t[i - 1])
  BY Zenon, <1>2, <1>4
<1> QED
  BY Zenon, <1>3, <1>5

\* The items in the first i slots.
Done(t, i) == {x \in Items : \E j \in 0..i - 1 : t[j] = x}

\* The new table g after i rounds over the table t of size n.
LoopInv(g, t, n, i) ==
  /\ Sound(g, 2 * n) /\ LiveEntries(g) = Done(t, i) /\ Tombs(g) = {}
  /\ Cardinality(Used(g)) = Cardinality(Done(t, i)) /\ Cardinality(Used(g)) <= i

\* One round of the loop: there is an empty slot in the new table since only
\* the entries before have been moved to it, and an item is moved only once.
LEMMA RoundKeeps ==
    ASSUME NEW n \in Nat \ {0}, NEW t, Sound(t, n), NEW i \in 1..n, NEW g, LoopInv(g, t, n, i - 1)
    PROVE  LoopInv(Moved(g, 2 * n, t[i - 1]), t, n, i)
<1> DEFINE item == t[i - 1]
           size == 2 * n
<1>1. /\ size \in Nat \ {0} /\ i - 1 \in SlotsOf(n) /\ i - 1 < size
      /\ \A j \in 0..i - 1 : j \in SlotsOf(n) /\ (j = i - 1 \/ j \in 0..i - 1 - 1)
      /\ \A j \in 0..i - 1 - 1 : j \in SlotsOf(n) /\ j # i - 1 /\ j \in 0..i - 1
      /\ i - 1 \in 0..i - 1
  BY DEF SlotsOf
<1>2. item \in Items \cup {EmptySlot, Tombstone} /\ DOMAIN t = SlotsOf(n)
  BY Zenon, <1>1 DEF Sound, TablesOf
<1>3. /\ Sound(g, size) /\ LiveEntries(g) = Done(t, i - 1) /\ Tombs(g) = {}
      /\ Cardinality(Used(g)) = Cardinality(Done(t, i - 1)) /\ Cardinality(Used(g)) <= i - 1
  BY Zenon DEF LoopInv
<1>4. g \in TablesOf(size)
  BY Zenon, <1>3 DEF Sound
<1>5. IsFiniteSet(Used(g)) /\ Cardinality(Used(g)) \in Nat
  BY Zenon, <1>1, <1>4, SlotsCounted, FS_CardinalityType
<1> HIDE DEF size, item
<1>6. CASE item \in {EmptySlot, Tombstone}
  <2>1. Moved(g, size, item) = g
    BY Zenon, <1>6 DEF Moved
  <2>2. item \notin Items
    BY Zenon, <1>6, Apart
  <2>3. Done(t, i) = Done(t, i - 1)
    <3>1. \A x \in Items : (\E j \in 0..i - 1 : t[j] = x) <=> (\E j \in 0..i - 1 - 1 : t[j] = x)
      BY Zenon, <1>1, <2>2 DEF item
    <3> QED
      BY Zenon, <3>1 DEF Done
  <2>4. Cardinality(Used(g)) <= i
    BY <1>3, <1>5
  <2> QED
    BY Zenon, <1>3, <2>1, <2>3, <2>4 DEF LoopInv, size, item
<1>7. CASE item \in Items
  <2> DEFINE at == Probe(g, size, item, {EmptySlot})
             u == [g EXCEPT ![at] = item]
  <2>1. Moved(g, size, item) = u
    BY Zenon, <1>7, Apart DEF Moved
  <2>2. Holds(g, size, EmptySlot)
    <3>1. Cardinality(Used(g)) < size
      BY <1>1, <1>3, <1>5 DEF size
    <3> QED
      BY Zenon, <1>1, <1>4, <3>1, SlotsCounted
  <2>3. at \in SlotsOf(size) /\ g[at] = EmptySlot /\ Reached(g, size, item, at)
    <3>1. \E j \in SlotsOf(size) : g[j] \in {EmptySlot}
      BY Zenon, <2>2 DEF Holds
    <3>2. /\ at \in SlotsOf(size) /\ g[at] \in {EmptySlot}
          /\ \E d \in SlotsOf(size) :
                Slot(item, d, size) = at /\ \A e \in 0..d - 1 : g[Slot(item, e, size)] \notin {EmptySlot}
      BY Zenon, <1>1, <1>7, <3>1, ProbeFinds
    <3> HIDE DEF at
    <3> QED
      BY Zenon, <3>2 DEF Reached
  <2>4. item \notin Done(t, i - 1)
    BY Zenon, <1>1, <1>7 DEF Done, Sound, item
  <2>5. /\ Sound(u, size) /\ LiveEntries(u) = LiveEntries(g) \cup {item}
        /\ Used(u) = Used(g) \cup {at} /\ at \notin Used(g) /\ Tombs(u) = Tombs(g)
    <3>1. item \notin LiveEntries(g)
      BY Zenon, <1>3, <2>4
    <3>2. u = [g EXCEPT ![at] = item]
      BY Zenon
    <3> HIDE DEF at, u
    <3>3. Added(g, u, size, item, at)
      BY Zenon, <1>1, <1>3, <1>7, <2>3, <3>1, <3>2, PutSound
    <3> QED
      BY Zenon, <3>3 DEF Added
  <2> HIDE DEF u, at
  <2>6. Done(t, i) = Done(t, i - 1) \cup {item}
    <3>1. \A x \in Items : (\E j \in 0..i - 1 : t[j] = x)
                             <=> (\E j \in 0..i - 1 - 1 : t[j] = x) \/ x = item
      BY Zenon, <1>1 DEF item
    <3> QED
      BY Zenon, <1>7, <3>1 DEF Done
  <2>7. IsFiniteSet(Done(t, i - 1))
    <3>1. Done(t, i - 1) \subseteq Items
      BY Zenon DEF Done
    <3> QED
      BY Zenon, <3>1, FS_Subset, HashAssumption
  <2>8. Cardinality(Done(t, i)) = Cardinality(Done(t, i - 1)) + 1
    BY Zenon, <2>4, <2>6, <2>7, FS_AddElement
  <2>9. Cardinality(Used(u)) = Cardinality(Used(g)) + 1
    BY Zenon, <1>5, <2>5, FS_AddElement
  <2>10. Cardinality(Used(u)) = Cardinality(Done(t, i)) /\ Cardinality(Used(u)) <= i
    <3>1. Cardinality(Used(g)) + 1 <= i
      BY <1>3, <1>5
    <3> QED
      BY Zenon, <1>3, <2>8, <2>9, <3>1
  <2>11. LiveEntries(u) = Done(t, i) /\ Tombs(u) = {}
    BY Zenon, <1>3, <2>5, <2>6
  <2> QED
    BY Zenon, <2>1, <2>5, <2>10, <2>11 DEF LoopInv, size, item
<1> QED
  BY Zenon, <1>2, <1>6, <1>7

\* The new table has the items of the old one and no tombstone.
LEMMA ResizeSound ==
    ASSUME NEW n \in Nat \ {0}, n = tableSize, NEW t, Sound(t, n)
    PROVE  LET u == resizeHash(t, 2 * n)
           IN  /\ Sound(u, 2 * n) /\ LiveEntries(u) = LiveEntries(t) /\ Tombs(u) = {}
               /\ Cardinality(Used(u)) = Cardinality(LiveEntries(t))
<1> DEFINE size == 2 * n
<1>1. PICK h : /\ h[0] = Blank(size)
               /\ \A i \in 1..n : h[i] = Moved(h[i - 1], size, t[i - 1])
               /\ resizeHash(t, size) = h[n]
  <2> HIDE DEF size
  <2>1. tableSize \in Nat
    BY Zenon
  <2>2. \E h : /\ h[0] = Blank(size)
               /\ \A i \in 1..tableSize : h[i] = Moved(h[i - 1], size, t[i - 1])
               /\ resizeHash(t, size) = h[tableSize]
    BY Zenon, <2>1, Rounds
  <2> QED
    BY Zenon, <2>2
<1>2. size \in Nat \ {0}
  OBVIOUS
<1> DEFINE T == {i \in 0..n : ~LoopInv(h[i], t, n, i)}
<1>3. T = {}
  <2>1. SUFFICES ASSUME T # {}
                 PROVE  FALSE
    BY Zenon
  <2>2. T \subseteq Nat
    OBVIOUS
  <2>3. PICK k \in T : \A j \in T : k <= j
    BY Zenon, <2>1, <2>2, LeastNumber
  <2>4. k \in 0..n /\ ~LoopInv(h[k], t, n, k)
    BY Zenon, <2>3
  <2>5. LoopInv(h[0], t, n, 0)
    <3>1. Done(t, 0) = {}
      BY DEF Done
    <3>2. Cardinality({}) = 0 /\ 0 <= 0
      BY FS_EmptySet
    <3> DEFINE b == Blank(size)
    <3>3. Sound(b, size) /\ LiveEntries(b) = {} /\ Used(b) = {} /\ Tombs(b) = {}
      BY Zenon, <1>2, BlankSound
    <3>4. h[0] = b
      BY Zenon, <1>1
    <3> HIDE DEF b
    <3>5. LoopInv(b, t, n, 0)
      BY Zenon, <3>1, <3>2, <3>3 DEF LoopInv
    <3> QED
      BY Zenon, <3>4, <3>5
  <2>6. k # 0
    BY Zenon, <2>4, <2>5
  <2>7. k \in 1..n /\ k - 1 \in 0..n /\ ~(k <= k - 1)
    BY <2>4, <2>6
  <2>8. LoopInv(h[k - 1], t, n, k - 1)
    BY Zenon, <2>3, <2>7
  <2>9. h[k] = Moved(h[k - 1], size, t[k - 1])
    BY Zenon, <1>1, <2>7
  <2> QED
    BY Zenon, <2>4, <2>7, <2>8, <2>9, RoundKeeps
<1>4. n \in 0..n
  OBVIOUS
<1>5. LoopInv(h[n], t, n, n)
  BY Zenon, <1>3, <1>4
<1>6. Done(t, n) = LiveEntries(t)
  <2>1. t \in TablesOf(n)
    BY Zenon DEF Sound
  <2>2. \A x : x \in LiveEntries(t) <=> x \in Items /\ Holds(t, n, x)
    BY Zenon, <2>1, LiveAre
  <2>3. \A x \in Items : x \in Done(t, n) <=> Holds(t, n, x)
    BY Zenon DEF Done, Holds, SlotsOf
  <2>4. Done(t, n) \subseteq Items
    BY Zenon DEF Done
  <2> QED
    BY Zenon, <2>2, <2>3, <2>4
<1> QED
  BY Zenon, <1>1, <1>5, <1>6 DEF LoopInv
-----------------------------------------------------------------------------
(***************************************************************************)
(* The table as a set.                                                     *)
(***************************************************************************)

\* A table that is not too full has an empty slot.
LEMMA NeverFull ==
    ASSUME HashInv
    PROVE  Holds(entries, tableSize, EmptySlot)
<1>1. tableSize \in Nat \ {0} /\ entries \in TablesOf(tableSize)
  BY Zenon DEF HashInv, Sound
<1>2. Cardinality(Used(entries)) \in Nat
  BY Zenon, <1>1, SlotsCounted, FS_CardinalityType
<1>3. ~(Cardinality(Used(entries)) * 8 > tableSize * 5)
  BY Zenon DEF HashInv, TooFull
<1>4. Cardinality(Used(entries)) < tableSize
  BY <1>1, <1>2, <1>3
<1> QED
  BY Zenon, <1>1, <1>4, SlotsCounted

\* The counters are numbers.
LEMMA Counters ==
    ASSUME HashInv
    PROVE  /\ IsFiniteSet(stored) /\ numEntries \in Nat /\ numDeadEntries \in Nat
           /\ IsFiniteSet(Tombs(entries)) /\ numDeadEntries = Cardinality(Tombs(entries))
           /\ IsFiniteSet(Used(entries))
<1>1. IsFiniteSet(stored)
  BY Zenon, HashAssumption, FS_Subset DEF HashInv
<1>2. IsFiniteSet(Tombs(entries)) /\ IsFiniteSet(Used(entries))
  BY Zenon, SlotsCounted DEF HashInv, Sound
<1>3. countTombStones(entries) = Cardinality(Tombs(entries))
  BY Zenon DEF countTombStones, Tombs
<1> QED
  BY Zenon, <1>1, <1>2, <1>3, FS_CardinalityType DEF HashInv

\* An addition, with the growth of the table that it may lead to.
LEMMA AddKeeps ==
    ASSUME HashInv, NEW item \in Items, LookupAdd(item)
    PROVE  HashInv'
<1> DEFINE n == tableSize
           at == Stop(entries, n, item)
           added == [entries EXCEPT ![at] = item]
<1>1. /\ n \in Nat \ {0} /\ Sound(entries, n) /\ LiveEntries(entries) = stored
      /\ stored \subseteq Items /\ numEntries = Cardinality(stored)
      /\ Cardinality(Used(entries)) = numEntries + numDeadEntries
      /\ ~TooFull(numEntries + numDeadEntries, n)
  BY Zenon DEF HashInv
<1>2. /\ entries[at] = EmptySlot /\ numEntries' = numEntries + 1 /\ stored' = stored \cup {item}
      /\ IF TooFull(numEntries + 1 + numDeadEntries, n)
         THEN tableSize' = 2 * n /\ entries' = resizeHash(added, 2 * n) /\ numDeadEntries' = 0
         ELSE entries' = added /\ tableSize' = n /\ numDeadEntries' = numDeadEntries
  BY Zenon DEF LookupAdd
<1>3. \E i \in SlotsOf(n) : entries[i] = EmptySlot
  BY Zenon, NeverFull DEF Holds
<1>4. /\ at \in SlotsOf(n) /\ (entries[at] = item <=> item \in LiveEntries(entries))
      /\ \E d \in SlotsOf(n) :
            Slot(item, d, n) = at /\ \A e \in 0..d - 1 : entries[Slot(item, e, n)] # EmptySlot
  BY ZenonT(30), <1>1, <1>3, LookupFinds
<1> HIDE DEF at, n
<1>5. Reached(entries, n, item, at) /\ item \notin LiveEntries(entries)
  BY Zenon, <1>2, <1>4, Apart DEF Reached
<1> HIDE DEF added
<1>6. /\ Sound(added, n) /\ LiveEntries(added) = LiveEntries(entries) \cup {item}
      /\ Used(added) = Used(entries) \cup {at} /\ at \notin Used(entries)
      /\ Tombs(added) = Tombs(entries)
  <2>1. added = [entries EXCEPT ![at] = item]
    BY Zenon DEF added
  <2>2. Added(entries, added, n, item, at)
    BY Zenon, <1>1, <1>2, <1>4, <1>5, <2>1, PutSound
  <2> QED
    BY Zenon, <2>2 DEF Added
<1>7. /\ IsFiniteSet(stored) /\ numEntries \in Nat /\ numDeadEntries \in Nat
      /\ numDeadEntries = Cardinality(Tombs(entries)) /\ IsFiniteSet(Used(entries))
  BY Zenon, Counters
<1>8. Cardinality(Used(added)) = Cardinality(Used(entries)) + 1
  BY Zenon, <1>6, <1>7, FS_AddElement
<1>9. Cardinality(stored') = Cardinality(stored) + 1
  BY Zenon, <1>1, <1>2, <1>5, <1>7, FS_AddElement
<1>10. stored' \subseteq Items /\ LiveEntries(added) = stored'
  BY Zenon, <1>1, <1>2, <1>6
<1>11. CASE ~TooFull(numEntries + 1 + numDeadEntries, n)
  <2>1. entries' = added /\ tableSize' = n /\ numDeadEntries' = numDeadEntries
    BY Zenon, <1>2, <1>11
  <2>2. numEntries + numDeadEntries + 1 = numEntries + 1 + numDeadEntries
    BY <1>7
  <2>3. countTombStones(added) = numDeadEntries
    BY Zenon, <1>6, <1>7 DEF countTombStones, Tombs
  <2>4. Cardinality(Used(added)) = numEntries + 1 + numDeadEntries
    BY Zenon, <1>1, <1>8, <2>2
  <2>5. numEntries' = Cardinality(stored')
    BY Zenon, <1>1, <1>2, <1>9
  <2> QED
    BY Zenon, <1>1, <1>2, <1>6, <1>10, <1>11, <2>1, <2>3, <2>4, <2>5 DEF HashInv
<1>12. CASE TooFull(numEntries + 1 + numDeadEntries, n)
  <2> DEFINE u == resizeHash(added, 2 * n)
  <2>1. entries' = u /\ tableSize' = 2 * n /\ numDeadEntries' = 0
    BY Zenon, <1>2, <1>12
  <2>2. /\ Sound(u, 2 * n) /\ LiveEntries(u) = LiveEntries(added) /\ Tombs(u) = {}
        /\ Cardinality(Used(u)) = Cardinality(LiveEntries(added))
    BY Zenon, <1>1, <1>6, ResizeSound DEF n
  <2> HIDE DEF u
  <2>3. countTombStones(u) = 0
    BY Zenon, <2>2, FS_EmptySet DEF countTombStones, Tombs
  <2>4. numEntries' = Cardinality(stored') /\ Cardinality(Used(u)) = numEntries'
    BY Zenon, <1>1, <1>2, <1>9, <1>10, <2>2
  <2>5. numEntries' + 0 = numEntries' /\ 2 * n \in Nat \ {0}
    BY <1>1, <1>2, <1>7
  <2>6. ~TooFull(numEntries' + 0, 2 * n)
    <3>1. ~((numEntries + numDeadEntries) * 8 > n * 5)
      BY Zenon, <1>1 DEF TooFull
    <3>2. ~((numEntries + 1) * 8 > (2 * n) * 5)
      BY <1>1, <1>7, <3>1
    <3> QED
      BY Zenon, <1>2, <2>5, <3>2 DEF TooFull
  <2> QED
    BY Zenon, <1>10, <2>1, <2>2, <2>3, <2>4, <2>5, <2>6 DEF HashInv
<1> QED
  BY Zenon, <1>11, <1>12

\* A removal.
LEMMA RemoveKeeps ==
    ASSUME HashInv, NEW item \in Items, mzHashTableRemove(item)
    PROVE  HashInv'
<1> DEFINE n == tableSize
           at == Stop(entries, n, item)
           u == [entries EXCEPT ![at] = Tombstone]
<1>1. /\ n \in Nat \ {0} /\ Sound(entries, n) /\ LiveEntries(entries) = stored
      /\ stored \subseteq Items /\ numEntries = Cardinality(stored)
      /\ Cardinality(Used(entries)) = numEntries + numDeadEntries
      /\ ~TooFull(numEntries + numDeadEntries, n)
  BY Zenon DEF HashInv
<1>2. /\ entries[at] = item /\ entries' = u /\ numEntries' = numEntries - 1
      /\ numDeadEntries' = numDeadEntries + 1 /\ stored' = stored \ {item} /\ tableSize' = n
  BY Zenon DEF mzHashTableRemove
<1>3. \E i \in SlotsOf(n) : entries[i] = EmptySlot
  BY Zenon, NeverFull DEF Holds
<1>4. at \in SlotsOf(n) /\ (entries[at] = item <=> item \in LiveEntries(entries))
  BY Zenon, <1>1, <1>3, LookupFinds
<1> HIDE DEF at, n
<1> HIDE DEF u
<1>5. /\ Sound(u, n) /\ LiveEntries(u) = LiveEntries(entries) \ {item}
      /\ Used(u) = Used(entries) /\ Tombs(u) = Tombs(entries) \cup {at} /\ at \notin Tombs(entries)
  <2>1. u = [entries EXCEPT ![at] = Tombstone]
    BY Zenon DEF u
  <2>2. TakenOut(entries, u, n, item, at)
    BY Zenon, <1>1, <1>2, <1>4, <2>1, RemoveSound
  <2> QED
    BY Zenon, <2>2 DEF TakenOut
<1>6. /\ IsFiniteSet(stored) /\ numEntries \in Nat /\ numDeadEntries \in Nat
      /\ numDeadEntries = Cardinality(Tombs(entries)) /\ IsFiniteSet(Tombs(entries))
  BY Zenon, Counters
<1>7. Cardinality(Tombs(u)) = numDeadEntries + 1
  BY Zenon, <1>5, <1>6, FS_AddElement
<1>8. item \in stored
  BY Zenon, <1>1, <1>2, <1>4
<1>9. Cardinality(stored') = Cardinality(stored) - 1
  BY Zenon, <1>2, <1>6, <1>8, FS_RemoveElement
<1>10. numEntries - 1 + (numDeadEntries + 1) = numEntries + numDeadEntries
  BY <1>6
<1>11. stored' \subseteq Items /\ LiveEntries(u) = stored' /\ numEntries' = Cardinality(stored')
  BY Zenon, <1>1, <1>2, <1>5, <1>9
<1>12. countTombStones(u) = numDeadEntries'
  BY Zenon, <1>2, <1>7 DEF countTombStones, Tombs
<1>13. numEntries' + numDeadEntries' = numEntries + numDeadEntries
  BY Zenon, <1>2, <1>10
<1> QED
  BY Zenon, <1>1, <1>2, <1>5, <1>11, <1>12, <1>13 DEF HashInv

\* An empty table satisfies the invariant.
LEMMA BlankKeeps ==
    ASSUME NEW size \in Nat \ {0}
    PROVE  /\ {} \subseteq Items /\ Sound(Blank(size), size) /\ LiveEntries(Blank(size)) = {}
           /\ 0 = Cardinality({}) /\ 0 = countTombStones(Blank(size))
           /\ Cardinality(Used(Blank(size))) = 0 + 0 /\ ~TooFull(0 + 0, size)
<1>1. Cardinality({}) = 0 /\ 0 + 0 = 0
  BY FS_EmptySet
<1>2. /\ Sound(Blank(size), size) /\ LiveEntries(Blank(size)) = {}
      /\ Used(Blank(size)) = {} /\ Tombs(Blank(size)) = {}
  BY Zenon, BlankSound
<1>3. countTombStones(Blank(size)) = 0
  BY Zenon, <1>1, <1>2 DEF countTombStones, Tombs
<1>4. ~TooFull(0 + 0, size)
  BY DEF TooFull
<1> QED
  BY Zenon, <1>1, <1>2, <1>3, <1>4

\* The inductive invariant of the table: the probe for every item it holds
\* gets to it, and the counters count.
THEOREM HashInvariant == HashSpec => []HashInv
<1>1. HashInit => HashInv
  <2> SUFFICES ASSUME HashInit
               PROVE  HashInv
    BY Zenon
  <2>1. PICK initialSize \in InitialSizes :
            /\ tableSize = roundUpPower2(mzHashSize(initialSize)) /\ entries = Blank(tableSize)
            /\ numEntries = 0 /\ numDeadEntries = 0 /\ stored = {}
    BY Zenon DEF HashInit, mzHashTableCreate
  <2>2. mzHashSize(initialSize) \in Nat \ {0}
    BY HashAssumption DEF mzHashSize
  <2>3. tableSize \in Nat \ {0}
    BY Zenon, <2>1, <2>2, PositiveSize
  <2> QED
    BY Zenon, <2>1, <2>3, BlankKeeps DEF HashInv
<1>2. HashInv /\ [HashNext]_hashVars => HashInv'
  <2> SUFFICES ASSUME HashInv, [HashNext]_hashVars
               PROVE  HashInv'
    BY Zenon
  <2>1. CASE mzHashTableClear
    <3>1. tableSize \in Nat \ {0}
      BY Zenon DEF HashInv
    <3>2. /\ entries' = Blank(tableSize) /\ numEntries' = 0 /\ numDeadEntries' = 0
          /\ stored' = {} /\ tableSize' = tableSize
      BY Zenon, <2>1 DEF mzHashTableClear
    <3> QED
      BY Zenon, <3>1, <3>2, BlankKeeps DEF HashInv
  <2>2. CASE UNCHANGED hashVars
    BY Zenon, <2>2 DEF hashVars, HashInv
  <2> QED
    BY Zenon, <2>1, <2>2, AddKeeps, RemoveKeeps DEF HashNext
<1> QED
  BY <1>1, <1>2, PTL DEF HashSpec

\* For any items with any hashes, any first size and any sequence of additions,
\* removals and clearings: the table is the set of the items added and not
\* removed, every probe ends, and the counters are right.
THEOREM TableIsSetCorrect == HashSpec => []TableIsSet
<1>1. HashInv => TableIsSet
  <2> SUFFICES ASSUME HashInv
               PROVE  TableIsSet
    BY Zenon
  <2>1. tableSize \in Nat \ {0} /\ Sound(entries, tableSize) /\ LiveEntries(entries) = stored
    BY Zenon DEF HashInv
  <2>2. \E i \in SlotsOf(tableSize) : entries[i] = EmptySlot
    BY Zenon, NeverFull DEF Holds
  <2>3. DOMAIN entries = SlotsOf(tableSize)
    BY Zenon, <2>1 DEF Sound, TablesOf
  <2>4. ASSUME NEW item \in Items
        PROVE  entries[Stop(entries, tableSize, item)] = item <=> item \in stored
    BY Zenon, <2>1, <2>2, LookupFinds
  <2> QED
    BY Zenon, <2>1, <2>2, <2>3, <2>4 DEF TableIsSet, HashInv
<1> QED
  BY <1>1, HashInvariant, PTL

=============================================================================
