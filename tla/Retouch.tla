------------------------------ MODULE Retouch ------------------------------
(***************************************************************************)
(* Library retouching (minelf/Retouch.c and the edify functions            *)
(* retouch_binaries and undo_retouch_binaries of updater/install.c): each  *)
(* library of a list is moved to one common, page aligned offset, or back  *)
(* to offset 0.  A library is swapped for a file with the suffix ".atomic" *)
(* written beside it; without room for that, it is first saved to the one  *)
(* file CACHE_TEMP_SOURCE of /cache and removed.  The updater can be killed*)
(* or the power can fail between any two steps, and the script that calls  *)
(* the function is then run again from its start, with another random      *)
(* offset.  A power loss may also undo rename() and unlink(): the code     *)
(* syncs what it writes to a file, but no directory.                       *)
(***************************************************************************)
EXTENDS Integers

CONSTANTS
  LibCount,        \* the libraries are numbered in the order of the list
  NotRetouchable,  \* the libraries without retouch data
  OldOffset,       \* the offset an earlier update moved the libraries to
  RandomBases,     \* what the clock and /dev/random may give
  Volatile,        \* whether rename() and unlink() may be lost at a power loss
  MaxKills         \* bound: how often the updater is killed or the power fails

Libraries == 1..LibCount

ASSUME RetouchAssumption ==
  /\ LibCount \in Nat
  /\ NotRetouchable \subseteq Libraries
  /\ OldOffset \in Nat /\ RandomBases \subseteq Nat \ {0}
  /\ Volatile \in BOOLEAN /\ MaxKills \in Nat

Removed == -1   \* a library that is not in place
Nothing == 0    \* CACHE_TEMP_SOURCE does not exist
Partial == -1   \* CACHE_TEMP_SOURCE is cut short

VARIABLES
  offset_of,     \* the offset each library in place is retouched to, or Removed
  offset_disk,   \* the same after a power loss
  saved,         \* CACHE_TEMP_SOURCE: the library it holds, Nothing or Partial
  saved_disk,    \* the same after a power loss
  rt_pc,         \* the step of retouch_one_library, or "idle"
  lib,           \* the library being processed
  undo,          \* the script calls undo_retouch_binaries
  random_base,   \* the offset to apply
  override_set,  \* the offset may no longer be overridden
  recovered,     \* the contents in memory were read from CACHE_TEMP_SOURCE
  made_copy,     \* this call wrote CACHE_TEMP_SOURCE
  recopied,      \* history: libraries whose only copy a call began to rewrite and has not
                 \* finished
  succeeded,     \* the last call returned "t"
  kills

rtLibs == <<offset_of, offset_disk>>
rtCopy == <<saved, saved_disk, recopied>>
rtCall == <<lib, random_base, override_set, recovered, made_copy>>
rtVars == <<rtLibs, rtCopy, rt_pc, undo, rtCall, succeeded, kills>>

RetouchInit ==
  /\ offset_of \in [Libraries -> {0, OldOffset}]
  /\ offset_disk = offset_of
  /\ saved = Nothing /\ saved_disk = Nothing /\ rt_pc = "idle" /\ lib = 1 /\ undo \in BOOLEAN
  /\ random_base = 0 /\ override_set = FALSE /\ recovered = FALSE /\ made_copy = FALSE
  /\ recopied = {} /\ succeeded = FALSE /\ kills = 0

----------------------------------------------------------------------------
(* retouch_binaries() picks an offset other than 0 and lets the first       *)
(* library that is retouched already replace it.                            *)
RetouchBinariesFn ==
  /\ rt_pc = "idle" /\ ~succeeded /\ ~undo
  /\ random_base' \in RandomBases
  /\ override_set' = FALSE
  /\ rt_pc' = "probe" /\ lib' = 1
  /\ UNCHANGED <<rtLibs, rtCopy, undo, recovered, made_copy, succeeded, kills>>

\* undo_retouch_binaries(): offset 0, and no override.
UndoRetouchBinariesFn ==
  /\ rt_pc = "idle" /\ ~succeeded /\ undo
  /\ random_base' = 0
  /\ override_set' = TRUE
  /\ rt_pc' = "probe" /\ lib' = 1
  /\ UNCHANGED <<rtLibs, rtCopy, undo, recovered, made_copy, succeeded, kills>>

\* The call fails: the loop of the caller runs out without touching another library.
Fails == rt_pc' = "idle" /\ UNCHANGED <<rtCall, undo, succeeded, kills>>

\* The loop of the caller goes on to the next library with the offset that was applied;
\* 0 says that the library was skipped.
NextLibrary(applied) ==
  /\ IF applied # 0
     THEN random_base' = applied /\ override_set' = TRUE
     ELSE UNCHANGED <<random_base, override_set>>
  /\ lib' = lib + 1 /\ rt_pc' = "probe"
  /\ UNCHANGED <<undo, recovered, made_copy, succeeded, kills>>

Returns ==
  /\ rt_pc = "probe" /\ lib > LibCount
  /\ rt_pc' = "idle" /\ succeeded' = TRUE
  /\ UNCHANGED <<rtLibs, rtCopy, rtCall, undo, kills>>

\* "This file is OK already": at the right offset, or at another one that may be adopted.
InPlace_Mutant ==
  \/ offset_of[lib] = random_base
  \/ random_base # 0 /\ offset_of[lib] \notin {0, Removed}

InPlace ==
  \/ offset_of[lib] = random_base
  \/ random_base # 0 /\ offset_of[lib] \notin {0, Removed} /\ ~override_set

\* Libraries that need nothing are skipped, so that the saved file is not written over.
Skip ==
  /\ rt_pc = "probe" /\ lib \in Libraries
  /\ \/ lib \in NotRetouchable /\ NextLibrary(0)
     \/ lib \notin NotRetouchable /\ InPlace /\ NextLibrary(offset_of[lib])
  /\ UNCHANGED <<rtLibs, rtCopy>>

\* The library itself is the source, masked to offset 0; when it is not there the saved
\* file is, if that is the library's.
LoadSource ==
  /\ rt_pc = "probe" /\ lib \in Libraries \ NotRetouchable /\ ~InPlace
  /\ IF offset_of[lib] # Removed \/ saved = lib
     THEN /\ rt_pc' = "space"
          /\ recovered' = (offset_of[lib] = Removed)
          /\ made_copy' = FALSE
          /\ UNCHANGED <<lib, random_base, override_set, undo, succeeded, kills>>
     ELSE Fails
  /\ UNCHANGED <<rtLibs, rtCopy>>

Goto(label) == rt_pc' = label /\ UNCHANGED <<rtCall, undo, succeeded, kills>>

\* Half as much again as the library takes must be free beside it.
CheckSpace ==
  /\ rt_pc = "space"
  /\ Goto("write") \/ Goto("room")
  /\ UNCHANGED <<rtLibs, rtCopy>>

\* A directory is not synced when it changes: the kernel may have written it back before
\* the change, or after it, or not for a while.
Durable(disk, now, next) == IF Volatile THEN {disk, now, next} ELSE {next}

\* rename() and unlink() of the library, and the writes of CACHE_TEMP_SOURCE, which are
\* synced.
ChangeLib(o) ==
  /\ offset_of' = [offset_of EXCEPT ![lib] = o]
  /\ offset_disk' \in Durable(offset_disk, offset_of, offset_of')

WriteCopy(c) == saved' = c /\ saved_disk' = c

\* Mutant: the library is removed before it is saved.
MakeRoom_Mutant ==
  /\ rt_pc = "room"
  /\ \/ Goto("copy") /\ WriteCopy(Partial) /\ UNCHANGED recopied /\ ChangeLib(Removed)
     \/ Fails /\ UNCHANGED <<rtLibs, rtCopy>>

\* MakeFreeSpaceOnCache() never deletes the saved file; SaveFileContents() then truncates
\* it, whoever's it is.
MakeRoom ==
  /\ rt_pc = "room"
  /\ \/ /\ Goto("copy") /\ WriteCopy(Partial)
        /\ recopied' = IF recovered THEN recopied \cup {lib} ELSE recopied
     \/ Fails /\ UNCHANGED rtCopy
  /\ UNCHANGED rtLibs

SaveCopy ==
  /\ rt_pc = "copy"
  /\ \/ /\ WriteCopy(lib) /\ made_copy' = TRUE /\ rt_pc' = "unlink"
        /\ recopied' = recopied \ {lib}
        /\ UNCHANGED <<lib, random_base, override_set, recovered, undo, succeeded, kills>>
     \/ Fails /\ UNCHANGED rtCopy
  /\ UNCHANGED rtLibs

UnlinkLibrary ==
  /\ rt_pc = "unlink"
  /\ ChangeLib(Removed)
  /\ Goto("write")
  /\ UNCHANGED rtCopy

\* A failed write of the .atomic file is tried once more, with the library out of the way.
WriteAtomic ==
  /\ rt_pc = "write"
  /\ \/ Goto("rename")
     \/ ~made_copy /\ Goto("room")
     \/ made_copy /\ Fails
  /\ UNCHANGED <<rtLibs, rtCopy>>

\* chmod(), chown() and rename(), any of which may fail.
Rename ==
  /\ rt_pc = "rename"
  /\ \/ ChangeLib(random_base) /\ Goto("clean")
     \/ Fails /\ UNCHANGED rtLibs
  /\ UNCHANGED rtCopy

\* Only a copy made by this call is deleted.
CleanUp ==
  /\ rt_pc = "clean"
  /\ IF made_copy
     THEN saved' = Nothing /\ saved_disk' \in Durable(saved_disk, saved, Nothing)
     ELSE UNCHANGED <<saved, saved_disk>>
  /\ NextLibrary(random_base)
  /\ UNCHANGED <<rtLibs, recopied>>

\* The updater is killed or the power fails, and the script is run again.  What was not
\* written back is lost, on /system and on /cache each for itself.
Killed ==
  /\ kills < MaxKills /\ kills' = kills + 1
  /\ offset_of' \in {offset_of, offset_disk} /\ offset_disk' = offset_of'
  /\ saved' \in {saved, saved_disk} /\ saved_disk' = saved'
  /\ rt_pc' = "idle" /\ succeeded' = FALSE
  /\ UNCHANGED <<rtCall, undo, recopied>>

retouch_one_library ==
  \/ Skip \/ LoadSource \/ CheckSpace \/ MakeRoom \/ SaveCopy \/ UnlinkLibrary
  \/ WriteAtomic \/ Rename \/ CleanUp

RetouchNext ==
  \/ RetouchBinariesFn \/ UndoRetouchBinariesFn \/ retouch_one_library
  \/ Returns \/ Killed

RetouchSpec == RetouchInit /\ [][RetouchNext]_rtVars

----------------------------------------------------------------------------
\* Retouch.c 198-200 and 233-239: wherever the updater is killed, fails or loses power,
\* each library is on flash in its place or whole in the saved file.  The exception is a
\* call that rewrites the saved file it has just read (line 348): until the new copy is
\* complete the library is nowhere on flash.
LibraryKept ==
  \A i \in Libraries : offset_disk[i] # Removed \/ saved_disk = i \/ i \in recopied

\* Retouch.c 198-199: when the function has succeeded, however often it was killed before
\* and whatever the libraries were at, all of them have the same offset: 0 after an undo,
\* another one after a retouch.
OneOffset ==
  succeeded =>
    \E o \in {0, OldOffset} \cup RandomBases :
      /\ undo <=> o = 0
      /\ \A i \in Libraries \ NotRetouchable : offset_of[i] = o
=============================================================================
