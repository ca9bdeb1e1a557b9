---------------------------- MODULE RecoveryBoot ----------------------------
(***************************************************************************)
(* The restartable core of recovery: main(), get_args(), erase_volume()    *)
(* and finish_recovery() of recovery.c, with the bootloader control block  *)
(* (BCB) of bootloader.c and the install calls of install.c.               *)
(*                                                                         *)
(* The device may lose power between any two writes that reach storage, so *)
(* every such write is an action of its own.  What survives is the BCB     *)
(* (its block device is flushed when it is closed), the partitions, and    *)
(* what of /cache has been written back.                                   *)
(***************************************************************************)
EXTENDS Naturals

CONSTANTS
  Requests,    \* the argument sets the main system may ask recovery to run with
  Channels,    \* how it may ask: "file" (COMMAND_FILE) and "bcb"
  Faults,      \* what may go wrong besides power loss, see FaultKinds
  MaxCrashes,  \* bound: power losses in a behaviour
  MaxFaults,   \* bound: faults in a behaviour
  MaxMenu      \* bound: operations the user picks in one visit to the menu

\* The long options of OPTIONS[], without the letters they map to.
Options == {"send_intent", "update_package", "wipe_data", "wipe_cache", "show_text"}

\* bcb_read, bcb_write: get_/set_bootloader_message() returns -1.
\* data_format, cache_format: format_volume() returns -1.
\* data_mount: /data cannot be mounted, format_volume() does not look, and the erase script
\*   finds nothing to erase.
\* killed: the child doing the format dies on a signal, and run_shell_script() and
\*   run_command() return WEXITSTATUS() of its status, which is then 0.
FaultKinds ==
  {"bcb_read", "bcb_write", "data_format", "data_mount", "cache_format", "killed"}

ASSUME RequestsAssumption == Requests \subseteq SUBSET Options
ASSUME ChannelsAssumption == Channels \subseteq {"file", "bcb"}
ASSUME FaultsAssumption == Faults \subseteq FaultKinds
ASSUME BoundsAssumption ==
  /\ MaxCrashes \in Nat
  /\ MaxFaults \in Nat
  /\ MaxMenu \in Nat

VARIABLES
  \* storage
  bcb,       \* the bootloader message: its command and the arguments in recovery
  cache,     \* /cache as processes see it
  disk,      \* /cache as it would be found after a power loss
  data,      \* /data: "user" data, half erased "damaged", or "empty"
  system,    \* /system: "old", "partial"ly updated, or "new"
  \* the device and the running recovery process
  pc,        \* "off", "system" (the main system runs) or a point of main()
  ctx,       \* who called the running helper: "main" or "menu" (prompt_and_wait)
  args,      \* argv[1..]
  wipe_cache,
  status,    \* main's status: "ok" is INSTALL_SUCCESS
  tmplog,    \* number of lines in TEMPORARY_LOG_FILE
  tmplog_offset,
  \* bounds
  crashes, faults, menuOps,
  \* history
  logged,    \* lines of this run's temporary log that are in LOG_FILE
  promise,   \* what get_args() last committed to the BCB: a reboot must not lose it
  erase      \* the erase of user data asked for: "owed", "done" but the main system has
             \* not run since, or "no"

storage == <<bcb, cache, disk, data, system>>
run     == <<ctx, args, wipe_cache, status, tmplog, tmplog_offset, menuOps, logged>>
bounds  == <<crashes, faults>>
history == <<promise, erase>>
vars    == <<storage, pc, run, bounds, history>>

-----------------------------------------------------------------------------
\* An argument set as the BCB and the command file hold it; {} stands for an absent file,
\* an empty one and a message without arguments, which get_args() treats alike.
Args == SUBSET Options

\* `package' stands for the OTA package, and for anything else a cache wipe removes.
CacheState == [ok : BOOLEAN, command : Args, intent : BOOLEAN, package : BOOLEAN]

Formatted == [ok |-> TRUE, command |-> {}, intent |-> FALSE, package |-> FALSE]

\* make_ext4fs was interrupted: nothing can be mounted until the next format.
HalfFormatted == [Formatted EXCEPT !.ok = FALSE]

\* set_bootloader_message() with a zeroed message
NoMessage == [command |-> "cleared", recovery |-> {}]

\* Mutant: the arguments are left out of the message.
BootRecovery_NoArgs(recovery) == [command |-> "boot-recovery", recovery |-> {}]

BootRecovery(recovery) == [command |-> "boot-recovery", recovery |-> recovery]

\* The value of main()'s wipe_cache once the options are parsed.
\* Mutant: --wipe_data does not imply it.
WipeCacheOption_CacheOnly(a) == IF "wipe_cache" \in a THEN 1 ELSE 0

WipeCacheOption(a) == IF a \cap {"wipe_data", "wipe_cache"} # {} THEN 1 ELSE 0

\* The branch main() takes for an argument set.
CommandOf(a) ==
  IF "update_package" \in a THEN "ota"
  ELSE IF "wipe_data" \in a THEN "reset"
  ELSE IF "wipe_cache" \in a THEN "cache"
  ELSE "none"

Phases ==
  {"off", "system", "get_args", "set_args", "dispatch", "set_message", "install",
   "updating", "erase_data", "erasing_data", "erase_cache", "erasing_cache", "prompt",
   "menu", "finish_intent", "finish_log", "finish_bcb", "finish_unlink", "finish_sync",
   "reboot"}

\* Every variable has its type, and /cache is half formatted on flash when and only when
\* processes cannot mount it.
TypeOK ==
  /\ bcb \in [command : {"cleared", "boot-recovery"}, recovery : Args]
  /\ cache \in CacheState /\ disk \in CacheState /\ cache.ok = disk.ok
  /\ data \in {"user", "damaged", "empty"}
  /\ system \in {"old", "partial", "new"}
  /\ pc \in Phases
  /\ ctx \in {"main", "menu"}
  /\ args \in Args
  /\ wipe_cache \in {0, 1}
  /\ status \in {"ok", "error"}
  /\ tmplog \in Nat /\ tmplog_offset \in Nat
  /\ crashes \in Nat /\ faults \in Nat /\ menuOps \in Nat
  /\ logged \subseteq Nat
  /\ promise \in {"none", "ota", "reset", "cache"}
  /\ erase \in {"no", "owed", "done"}

-----------------------------------------------------------------------------
(* Helpers *)

Goto(from, to) == pc = from /\ pc' = to

Fault(kind) ==
  /\ kind \in Faults
  /\ faults < MaxFaults
  /\ faults' = faults + 1

\* set_bootloader_message(): callers ignore its result.
SetBootloaderMessage(message) ==
  \/ bcb' = message /\ UNCHANGED faults
  \/ Fault("bcb_write") /\ UNCHANGED bcb

\* The process's memory and the ramdisk with the temporary log are gone.
RunOver ==
  /\ ctx' = "main"
  /\ args' = {}
  /\ wipe_cache' = 0
  /\ status' = "ok"
  /\ tmplog' = 0
  /\ tmplog_offset' = 0
  /\ menuOps' = 0
  /\ logged' = {}

\* An operation has ended.  main() goes on to finish_recovery(), or to the menu when `ok'
\* is FALSE; an operation of the menu comes back to it, or, when it may (`leave') and the
\* log text is hidden, prompt_and_wait() returns to main().
JobDone(ok, leave) ==
  \/ ctx = "main" /\ UNCHANGED ctx /\ pc' = IF ok THEN "finish_intent" ELSE "prompt"
  \/ ctx = "menu" /\ UNCHANGED ctx /\ pc' = "menu"
  \/ ctx = "menu" /\ leave /\ ctx' = "main" /\ pc' = "finish_intent"

-----------------------------------------------------------------------------
(* The main system and the bootloader *)

Init ==
  /\ bcb = NoMessage
  /\ cache = Formatted /\ disk = Formatted
  /\ data = "user"
  /\ system = "old"
  /\ pc = "system"
  /\ ctx = "main" /\ args = {} /\ wipe_cache = 0 /\ status = "ok"
  /\ tmplog = 0 /\ tmplog_offset = 0 /\ logged = {}
  /\ crashes = 0 /\ faults = 0 /\ menuOps = 0
  /\ promise = "none" /\ erase = "no"

\* The main system asks: it stores the package if there is one, takes any older intent
\* away, and leaves the arguments where get_args() looks for them.
Request(a) ==
  /\ pc = "system" /\ cache.ok
  /\ \/ /\ "file" \in Channels
        /\ cache' = [cache EXCEPT !.command = a, !.intent = FALSE,
                                  !.package = @ \/ "update_package" \in a]
        /\ UNCHANGED bcb
     \/ /\ "bcb" \in Channels
        /\ cache' = [cache EXCEPT !.intent = FALSE,
                                  !.package = @ \/ "update_package" \in a]
        /\ bcb' = BootRecovery(a)
  /\ disk' = cache'
  /\ system' = IF "update_package" \in a THEN "old" ELSE system
  /\ promise' = "none"
  /\ erase' = IF "wipe_data" \in a THEN "owed" ELSE erase
  /\ UNCHANGED <<data, pc, run, bounds>>

\* The user fills an erased phone again.
UseSystem ==
  /\ pc = "system" /\ data = "empty"
  /\ data' = "user"
  /\ promise' = "none"
  /\ UNCHANGED <<bcb, cache, disk, system, pc, run, bounds, erase>>

LeaveSystem ==
  /\ Goto("system", "off")
  /\ UNCHANGED <<storage, run, bounds, history>>

\* The bootloader starts recovery when the BCB says so, or when the user (or the reboot
\* reason) asks for it.
BootIntoRecovery ==
  /\ Goto("off", "get_args")
  /\ UNCHANGED <<storage, run, bounds, history>>

BootSystem ==
  /\ Goto("off", "system")
  /\ bcb.command # "boot-recovery"
  /\ erase' = IF erase = "done" THEN "no" ELSE erase
  /\ UNCHANGED <<storage, run, bounds, promise>>

\* Power is lost while recovery runs: /cache falls back to what was written back.
Crash ==
  /\ pc \notin {"off", "system"}
  /\ crashes < MaxCrashes
  /\ crashes' = crashes + 1
  /\ pc' = "off"
  /\ cache' = disk
  /\ RunOver
  /\ UNCHANGED <<bcb, disk, data, system, faults, history>>

\* The kernel may write /cache back at any time.
Writeback ==
  /\ pc \notin {"off", "system"}
  /\ disk # cache
  /\ disk' = cache
  /\ UNCHANGED <<bcb, cache, data, system, pc, run, bounds, history>>

-----------------------------------------------------------------------------
(* get_args() *)

\* The arguments: from the BCB if it has any, else from COMMAND_FILE.  init starts
\* recovery with none of its own.
BootArgs(recovery) ==
  IF recovery # {} THEN recovery ELSE IF cache.ok THEN cache.command ELSE {}

ReadArgs ==
  /\ Goto("get_args", "set_args")
  /\ \/ args' = BootArgs(bcb.recovery) /\ UNCHANGED faults
     \/ Fault("bcb_read") /\ args' = BootArgs({})
  /\ tmplog' = 1
  /\ UNCHANGED <<storage, ctx, wipe_cache, status, tmplog_offset, menuOps, logged, crashes,
                 history>>

\* "always boot into recovery after this (until finish_recovery() is called)"
WriteArgs ==
  /\ Goto("set_args", "dispatch")
  /\ SetBootloaderMessage(BootRecovery(args))
  /\ promise' = IF bcb' = BootRecovery(args) /\ CommandOf(args) # "none"
                THEN CommandOf(args) ELSE promise
  /\ UNCHANGED <<cache, disk, data, system, run, crashes, erase>>

-----------------------------------------------------------------------------
(* main(): the command *)

\* The options are parsed and one command is picked; with none, status is INSTALL_ERROR.
Dispatch ==
  /\ pc = "dispatch"
  /\ wipe_cache' = WipeCacheOption(args)
  /\ \/ CommandOf(args) = "ota" /\ pc' = "set_message" /\ UNCHANGED status
     \/ CommandOf(args) = "reset" /\ pc' = "erase_data" /\ UNCHANGED status
     \/ CommandOf(args) = "cache" /\ pc' = "erase_cache" /\ UNCHANGED status
     \/ CommandOf(args) = "none" /\ pc' = "prompt" /\ status' = "error"
  /\ UNCHANGED <<storage, ctx, args, tmplog, tmplog_offset, menuOps, logged, bounds, history>>

\* Mutant: the BCB is cleared before the install instead of after it.
SetSdcardMessage_Clears ==
  /\ Goto("set_message", "install")
  /\ SetBootloaderMessage(NoMessage)
  /\ UNCHANGED <<cache, disk, data, system, run, crashes, history>>

\* set_sdcard_update_bootloader_message(): boot-recovery, with no arguments.
SetSdcardMessage ==
  /\ Goto("set_message", "install")
  /\ SetBootloaderMessage(BootRecovery({}))
  /\ UNCHANGED <<cache, disk, data, system, run, crashes, history>>

\* An install that fails ends the promise: the user is told, by the log and the menu.
Broken(kind) == promise' = IF promise = kind /\ ctx = "main" THEN "none" ELSE promise

\* install_package() up to fork() in try_update_binary(), which resets *wipe_cache.  The
\* package main() installs is the one on /cache; the menu's is on another volume.
InstallBegin ==
  /\ pc = "install"
  /\ tmplog' = tmplog + 1
  /\ \/ /\ ctx = "menu" \/ (cache.ok /\ cache.package)
        /\ system' = "partial"
        /\ wipe_cache' = 0
        /\ pc' = "updating"
        /\ UNCHANGED <<ctx, status, promise>>
     \/ /\ status' = "error"
        /\ JobDone(FALSE, FALSE)
        /\ Broken("ota")
        /\ UNCHANGED <<system, wipe_cache>>
  /\ UNCHANGED <<bcb, cache, disk, data, args, tmplog_offset, menuOps, logged, bounds,
                 erase>>

\* The update binary exits; it may have sent "wipe_cache" up the pipe before.
InstallEnd ==
  /\ pc = "updating"
  /\ \/ /\ system' = "new"
        /\ \/ wipe_cache' = 1 /\ pc' = "erase_cache" /\ UNCHANGED ctx
           \/ wipe_cache' = 0 /\ JobDone(TRUE, TRUE)
        /\ UNCHANGED <<status, promise>>
     \/ /\ status' = "error"
        /\ JobDone(FALSE, FALSE)
        /\ Broken("ota")
        /\ UNCHANGED <<system, wipe_cache>>
  /\ UNCHANGED <<bcb, cache, disk, data, args, tmplog, tmplog_offset, menuOps, logged,
                 bounds, erase>>

-----------------------------------------------------------------------------
(* erase_volume() *)

\* Where the erase of /data goes on, whatever came out: wipe_data() of the menu wipes /cache
\* as well, main() does if wipe_cache is set.
AfterEraseData ==
  pc' = IF ctx = "menu" \/ wipe_cache = 1 THEN "erase_cache"
        ELSE IF status' = "ok" THEN "finish_intent" ELSE "prompt"

\* erase_volume("/data") begins, or fails before it has touched anything.
EraseDataBegin ==
  /\ pc = "erase_data"
  /\ tmplog' = tmplog + 1
  /\ \/ /\ data' = "damaged"
        /\ pc' = "erasing_data"
        /\ UNCHANGED <<status, faults, promise>>
     \/ /\ Fault("data_format")
        /\ status' = "error"
        /\ AfterEraseData
        /\ Broken("reset")
        /\ UNCHANGED data
     \/ /\ Fault("data_mount")
        /\ UNCHANGED <<data, status, promise>>
        /\ AfterEraseData
  /\ UNCHANGED <<bcb, cache, disk, system, ctx, args, wipe_cache, tmplog_offset, menuOps,
                 logged, crashes, erase>>

EraseDataEnd ==
  /\ pc = "erasing_data"
  /\ \/ /\ data' = "empty"
        /\ erase' = IF ctx = "main" THEN "done" ELSE erase
        /\ UNCHANGED <<status, faults, promise>>
     \/ Fault("killed") /\ UNCHANGED <<data, status, history>>
     \/ /\ Fault("data_format")
        /\ status' = "error"
        /\ Broken("reset")
        /\ UNCHANGED <<data, erase>>
  /\ AfterEraseData
  /\ UNCHANGED <<bcb, cache, disk, system, ctx, args, wipe_cache, tmplog, tmplog_offset,
                 menuOps, logged, crashes>>

\* A cache wipe that failed: fatal to main()'s wipe commands, only logged after an install
\* and in the menu.
CacheWipeFailed ==
  LET fatal == ctx = "main" /\ CommandOf(args) # "ota"
  IN  /\ status' = IF fatal THEN "error" ELSE status
      /\ JobDone(~fatal, TRUE)
      /\ promise' = IF fatal THEN "none" ELSE promise

\* "Any part of the log we'd copied to cache is now gone."
\* Mutant: the pointer is not reset.
RestartLog_Forgotten == UNCHANGED tmplog_offset

RestartLog == tmplog_offset' = 0

\* mkfs writes the block device, not the page cache of a mounted volume.
WriteVolume(content) == cache' = content /\ disk' = content

\* erase_volume("/cache") begins: tmplog_offset is reset before the format, which unmounts
\* the volume and overwrites it, or fails before it has touched anything.
EraseCacheBegin ==
  /\ pc = "erase_cache"
  /\ tmplog' = tmplog + 1
  /\ RestartLog
  /\ \/ /\ WriteVolume(HalfFormatted)
        /\ logged' = {}
        /\ pc' = "erasing_cache"
        /\ UNCHANGED <<ctx, status, faults, promise>>
     \/ /\ Fault("cache_format")
        /\ CacheWipeFailed
        /\ UNCHANGED <<cache, disk, logged>>
  /\ UNCHANGED <<bcb, data, system, args, wipe_cache, menuOps, crashes, erase>>

EraseCacheEnd ==
  /\ pc = "erasing_cache"
  /\ \/ /\ WriteVolume(Formatted)
        /\ JobDone(status = "ok", TRUE)
        /\ UNCHANGED <<status, faults, promise>>
     \/ /\ Fault("killed")
        /\ JobDone(status = "ok", TRUE)
        /\ UNCHANGED <<cache, disk, status, promise>>
     \/ /\ Fault("cache_format")
        /\ CacheWipeFailed
        /\ UNCHANGED <<cache, disk>>
  /\ UNCHANGED <<bcb, data, system, args, wipe_cache, tmplog, tmplog_offset, menuOps,
                 logged, crashes, erase>>

-----------------------------------------------------------------------------
(* prompt_and_wait() *)

\* It begins with finish_recovery(NULL): "Unset the reboot to recovery message".
Prompt ==
  /\ Goto("prompt", "finish_intent")
  /\ ctx' = "menu"
  /\ UNCHANGED <<storage, args, wipe_cache, status, tmplog, tmplog_offset, menuOps, logged,
                 bounds, history>>

\* The user picks an operation (wipe data, wipe cache, a package): from here on the device
\* is in the user's hands and no earlier command is owed.
MenuOperation ==
  /\ pc = "menu"
  /\ menuOps < MaxMenu
  /\ menuOps' = menuOps + 1
  /\ pc' \in {"erase_data", "erase_cache", "install"}
  /\ promise' = "none"
  /\ UNCHANGED <<storage, ctx, args, wipe_cache, status, tmplog, tmplog_offset, logged,
                 bounds, erase>>

\* The user picks a reboot: prompt_and_wait() returns.
MenuReturn ==
  /\ Goto("menu", "finish_intent")
  /\ ctx' = "main"
  /\ UNCHANGED <<storage, args, wipe_cache, status, tmplog, tmplog_offset, menuOps, logged,
                 bounds, history>>

-----------------------------------------------------------------------------
(* finish_recovery() *)

\* prompt_and_wait() passes NULL for the intent.
FinishIntent ==
  /\ Goto("finish_intent", "finish_log")
  /\ cache' = IF ctx = "main" /\ "send_intent" \in args /\ cache.ok
              THEN [cache EXCEPT !.intent = TRUE] ELSE cache
  /\ UNCHANGED <<bcb, disk, data, system, run, bounds, history>>

\* copy_log_file(TEMPORARY_LOG_FILE, LOG_FILE, true)
FinishLog ==
  /\ Goto("finish_log", "finish_bcb")
  /\ IF cache.ok
     THEN /\ logged' = logged \cup (tmplog_offset + 1)..tmplog
          /\ tmplog_offset' = tmplog
     ELSE UNCHANGED <<logged, tmplog_offset>>
  /\ UNCHANGED <<storage, ctx, args, wipe_cache, status, tmplog, menuOps, bounds, history>>

\* Mutant: the BCB is left alone.
FinishBcb_Skipped ==
  /\ Goto("finish_bcb", "finish_unlink")
  /\ UNCHANGED <<storage, run, bounds, history>>

FinishBcb ==
  /\ Goto("finish_bcb", "finish_unlink")
  /\ SetBootloaderMessage(NoMessage)
  /\ UNCHANGED <<cache, disk, data, system, run, crashes, history>>

FinishUnlink ==
  /\ Goto("finish_unlink", "finish_sync")
  /\ cache' = [cache EXCEPT !.command = {}]
  /\ UNCHANGED <<bcb, disk, data, system, run, bounds, history>>

\* Mutant: /cache is neither unmounted nor synced.
FinishSync_Skipped ==
  /\ pc = "finish_sync"
  /\ pc' = IF ctx = "menu" THEN "menu" ELSE "reboot"
  /\ UNCHANGED <<storage, run, bounds, history>>

\* ensure_path_unmounted(CACHE_ROOT) and sync()
FinishSync ==
  /\ pc = "finish_sync"
  /\ disk' = cache
  /\ pc' = IF ctx = "menu" THEN "menu" ELSE "reboot"
  /\ UNCHANGED <<bcb, cache, data, system, run, bounds, history>>

\* android_reboot(), to whatever the user chose
Reboot ==
  /\ Goto("reboot", "off")
  /\ RunOver
  /\ UNCHANGED <<storage, bounds, history>>

-----------------------------------------------------------------------------
Device == \/ \E a \in Requests : Request(a)
          \/ UseSystem \/ LeaveSystem \/ MenuOperation \/ MenuReturn
          \/ Crash \/ Writeback

Boot == BootIntoRecovery \/ BootSystem

Recovery == \/ ReadArgs \/ WriteArgs \/ Dispatch
            \/ SetSdcardMessage \/ InstallBegin \/ InstallEnd
            \/ EraseDataBegin \/ EraseDataEnd \/ EraseCacheBegin \/ EraseCacheEnd
            \/ Prompt
            \/ FinishIntent \/ FinishLog \/ FinishBcb \/ FinishUnlink \/ FinishSync
            \/ Reboot

Next == Device \/ Boot \/ Recovery

Spec == Init /\ [][Next]_vars

\* The bootloader boots something, and the recovery process, which waits for nobody outside
\* its menu, keeps running.  Nothing obliges the user, the main system or the power supply.
FairSpec == Spec /\ WF_vars(Boot) /\ WF_vars(Recovery)

-----------------------------------------------------------------------------
(* Properties *)

\* What a wipe leaves on /cache: a mountable volume without the old content.
Wiped == cache.ok /\ ~cache.package

\* FACTORY RESET and the wipe of /cache are "safely restartable at any point": once
\* get_args() has put the command in the BCB, the main system does not run before the erase
\* is complete, whatever power losses and failing BCB writes come between, unless recovery
\* itself saw the erase fail.
WipeRestartable ==
  pc = "system" => /\ promise = "reset" => data = "empty" /\ Wiped
                   /\ promise = "cache" => Wiped

\* OTA INSTALL: once get_args() has put the command in the BCB, "rebooting will attempt to
\* reinstall the update": the main system does not run before the update is in place,
\* unless the install failed for recovery to see.
OtaRestartable ==
  pc = "system" /\ promise = "ota" => system = "new"

\* A factory reset is not repeated: main() touches /data only while an erase that somebody
\* asked for is still to be done, so a command that a power loss left behind never erases
\* the data of a phone that was reset and used again (as long as no BCB write or format
\* has failed: only the cache wipe removes the command file before the BCB is cleared).
NoStaleErase ==
  [][data' # data /\ pc \in {"erase_data", "erasing_data"} /\ ctx = "main" /\ faults = 0
       => erase # "no"]_vars

\* The menu is up or one of its operations runs, or the device is about to reboot.
Idle ==
  \/ pc \in {"menu", "reboot"}
  \/ /\ ctx = "menu"
     /\ pc \in {"install", "updating", "erase_data", "erasing_data", "erase_cache",
                "erasing_cache"}

\* "Reset to normal system boot so recovery won't cycle", "remove the command file, so
\* recovery won't repeat": once finish_recovery() is through, the menu and its operations
\* included, the next boot is a plain one even if the power fails, provided nothing has
\* failed so far.
NoCycle ==
  Idle /\ faults = 0 => bcb = NoMessage /\ disk.command = {}

\* The log of a run reaches the main system: at reboot every line printed before
\* finish_recovery() is in LOG_FILE, even though a wipe of /cache may have removed the part
\* that an earlier finish_recovery() had copied.
LogComplete ==
  pc = "reboot" /\ cache.ok => 1..tmplog \subseteq logged

\* The intent survives the wipes of the run that was asked to send it: when the device
\* reboots it is on flash, if /cache can be mounted at all.
IntentDelivered ==
  pc = "reboot" /\ "send_intent" \in args /\ disk.ok => disk.intent

\* Recovery ends: with finitely many power losses and failing operations the device gets
\* back to the main system or to the menu.
RecoveryEnds == pc # "system" ~> pc \in {"system", "menu"}

=============================================================================
