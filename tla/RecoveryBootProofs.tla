------------------------- MODULE RecoveryBootProofs -------------------------
(***************************************************************************)
(* Proofs about RecoveryBoot: its type invariant, and that a wipe and an   *)
(* OTA install that get_args() has committed to the BCB are carried out    *)
(* before the main system runs again, for any requests, any number of      *)
(* power losses and failures, and any use of the menu.                     *)
(***************************************************************************)
EXTENDS RecoveryBoot, TLAPS

USE RequestsAssumption, ChannelsAssumption, FaultsAssumption, BoundsAssumption

-----------------------------------------------------------------------------
(* The inductive invariants *)

\* Phases of a run between get_args()'s read of the BCB and finish_recovery()'s reset of it.
BeforeReset ==
  {"set_args", "dispatch", "set_message", "install", "updating", "erase_data",
   "erasing_data", "erase_cache", "erasing_cache", "prompt", "finish_intent", "finish_log",
   "finish_bcb"}

\* Phases in which nothing of a run's command is left to do.
Ending ==
  {"prompt", "menu", "finish_intent", "finish_log", "finish_bcb", "finish_unlink",
   "finish_sync", "reboot"}

\* A run begins with fresh locals, in main(); the menu belongs to prompt_and_wait().
FreshRun ==
  /\ pc \in {"off", "system", "get_args", "set_args", "dispatch", "set_message"} =>
       ctx = "main" /\ status = "ok"
  /\ pc = "menu" => ctx = "menu"

Clean(c) == c.ok /\ ~c.package /\ c.command = {}

\* The promised wipe has been carried out, and no power loss undoes it.
WipeDone ==
  /\ promise = "reset" => data = "empty"
  /\ Clean(cache)
  /\ Clean(disk)

\* While a wipe is promised, either the BCB still holds its command or it is done; the
\* running process works on what the BCB holds; and no step of finish_recovery() or of the
\* menu is reached before the wipe is done.
WipeInv ==
  promise \in {"reset", "cache"} =>
    /\ \/ bcb.command = "boot-recovery" /\ CommandOf(bcb.recovery) = promise
       \/ bcb.recovery = {} /\ WipeDone
    /\ pc \in {"system"} \cup Ending => WipeDone
    /\ pc \in BeforeReset \/ ctx = "menu" => args = bcb.recovery
    /\ pc = "prompt" \/ ctx = "menu" => args = {} /\ pc \in Ending
    /\ pc \in {"set_message", "install", "updating"} => FALSE
    /\ pc \in {"erase_data", "erasing_data"} =>
         status = "ok" /\ CommandOf(args) = "reset" /\ wipe_cache = 1
    /\ pc \in {"erase_cache", "erasing_cache"} =>
         /\ status = "ok" /\ CommandOf(args) \in {"reset", "cache"}
         /\ promise = "reset" => data = "empty"

\* Both copies of /cache hold the command file with an OTA install.
OtaInFile ==
  cache.ok /\ cache.command = disk.command /\ CommandOf(cache.command) = "ota"

\* While an OTA install is promised and the update is not in place, the BCB leads back to
\* recovery and the command file (or the BCB) back to the install.  An OTA command in the
\* BCB is always the one in the file.
OtaInv ==
  /\ pc = "system" => bcb = NoMessage
  /\ bcb.command # "boot-recovery" => bcb = NoMessage
  /\ CommandOf(bcb.recovery) = "ota" =>
       /\ OtaInFile
       /\ pc \in {"off", "system", "get_args", "set_args", "dispatch", "set_message"}
  /\ pc \in {"off", "system", "get_args", "reboot"} => cache = disk
  /\ ctx = "menu" /\ pc \in {"install", "updating"} => promise = "none"
  /\ ctx = "main" /\ pc \in {"set_args", "dispatch", "set_message", "install", "updating"}
       /\ CommandOf(args) = "ota" => OtaInFile
  /\ pc = "dispatch" => bcb = BootRecovery(args)
  /\ ctx = "main" /\ pc \in {"set_message", "install", "updating"} =>
       CommandOf(args) = "ota" /\ bcb.command = "boot-recovery"
  /\ ctx = "main" /\ pc \in {"install", "updating"} => bcb.recovery = {}
  /\ promise = "ota" /\ system # "new" =>
       /\ bcb.command = "boot-recovery"
       /\ OtaInFile
       /\ bcb.recovery # {} => CommandOf(bcb.recovery) = "ota"
       /\ pc \in {"off", "get_args", "set_args", "dispatch", "set_message", "install",
                  "updating"}
       /\ ctx = "main"
       /\ pc \in {"set_args", "dispatch"} => CommandOf(args) = "ota"

-----------------------------------------------------------------------------
(* Facts about the operators *)

\* The argument sets and messages recovery handles are of the right type.
LEMMA DataTypes ==
  /\ {} \in Args
  /\ Formatted \in CacheState /\ HalfFormatted \in CacheState
  /\ Formatted.ok /\ ~HalfFormatted.ok
  /\ NoMessage \in [command : {"cleared", "boot-recovery"}, recovery : Args]
  /\ \A a \in Args :
       /\ BootRecovery(a) \in [command : {"cleared", "boot-recovery"}, recovery : Args]
       /\ CommandOf(a) \in {"none", "ota", "reset", "cache"}
       /\ WipeCacheOption(a) \in {0, 1}
BY Zenon DEF Formatted, HalfFormatted, CacheState, NoMessage, BootRecovery, Args, CommandOf,
       WipeCacheOption

\* Storing a request and its package, writing the intent and unlinking the command file
\* keep /cache well-typed and as mountable as it was.
LEMMA FileTypes ==
  ASSUME cache \in CacheState, NEW a \in Args, Request(a) \/ FinishIntent \/ FinishUnlink
  PROVE  cache' \in CacheState /\ cache'.ok = cache.ok
<1>1. CASE Request(a)
  BY ZenonT(30), <1>1 DEF Request, CacheState
<1>2. CASE FinishIntent
  <2>1. CASE cache' = [cache EXCEPT !.intent = TRUE]
    BY <2>1, Zenon DEF CacheState
  <2> QED
    BY <1>2, <2>1 DEF FinishIntent
<1>3. CASE FinishUnlink
  BY <1>3, DataTypes, Zenon DEF FinishUnlink, CacheState
<1> QED
  BY <1>1, <1>2, <1>3

-----------------------------------------------------------------------------
(* The type invariant *)

\* Every step of the device, the bootloader and recovery keeps the types, and the mounted
\* /cache in step with the one on flash.
LEMMA TypeStep == TypeOK /\ [Next]_vars => TypeOK'
<1> SUFFICES ASSUME TypeOK, [Next]_vars PROVE TypeOK'
  OBVIOUS
<1> USE DataTypes DEF TypeOK, storage, run, bounds, history
<1>1. ASSUME NEW a \in Requests, Request(a) PROVE TypeOK'
  <2>1. a \in Args
    BY DEF Args
  <2>2. cache' \in CacheState /\ cache'.ok = cache.ok
    BY <1>1, <2>1, FileTypes
  <2>3. bcb' \in [command : {"cleared", "boot-recovery"}, recovery : Args]
    BY <1>1, <2>1 DEF Request
  <2> QED
    BY <1>1, <2>2, <2>3 DEF Request
<1>2. CASE UseSystem
  BY <1>2 DEF UseSystem, Goto, Phases
<1>3. CASE LeaveSystem
  BY <1>3 DEF LeaveSystem, Goto, Phases
<1>4. CASE MenuOperation
  BY <1>4 DEF MenuOperation, Goto, Phases
<1>5. CASE MenuReturn
  BY <1>5 DEF MenuReturn, Goto, Phases
<1>6. CASE Crash
  BY <1>6 DEF Crash, Goto, Phases, RunOver
<1>7. CASE Writeback
  BY <1>7 DEF Writeback, Goto, Phases
<1>8. CASE BootIntoRecovery
  BY <1>8 DEF BootIntoRecovery, Goto, Phases
<1>9. CASE BootSystem
  BY <1>9 DEF BootSystem, Goto, Phases
<1>10. CASE ReadArgs
  <2>1. args' \in Args
    BY <1>10, Zenon DEF ReadArgs, BootArgs, CacheState
  <2> QED
    BY <1>10, <2>1 DEF ReadArgs, Goto, Phases, Fault
<1>11. CASE WriteArgs
  BY <1>11 DEF WriteArgs, Goto, Phases, SetBootloaderMessage, Fault
<1>12. CASE Dispatch
  BY <1>12 DEF Dispatch, Goto, Phases
<1>13. CASE SetSdcardMessage
  BY <1>13 DEF SetSdcardMessage, Goto, Phases, SetBootloaderMessage, Fault
<1>14. CASE InstallBegin
  BY <1>14 DEF InstallBegin, Goto, Phases, JobDone, Broken
<1>15. CASE InstallEnd
  BY <1>15 DEF InstallEnd, Goto, Phases, JobDone, Broken
<1>16. CASE EraseDataBegin
  BY <1>16 DEF EraseDataBegin, Goto, Phases, Fault, Broken, AfterEraseData
<1>17. CASE EraseDataEnd
  BY <1>17 DEF EraseDataEnd, Goto, Phases, Fault, Broken, AfterEraseData
<1>18. CASE EraseCacheBegin
  <2>1. cache' \in CacheState /\ disk' \in CacheState /\ cache'.ok = disk'.ok
    BY <1>18 DEF EraseCacheBegin, WriteVolume
  <2>2. pc' \in Phases /\ ctx' \in {"main", "menu"} /\ status' \in {"ok", "error"}
    BY <1>18 DEF EraseCacheBegin, CacheWipeFailed, JobDone, Phases
  <2>3. logged' \subseteq Nat /\ promise' \in {"none", "ota", "reset", "cache"}
    BY <1>18, Zenon DEF EraseCacheBegin, CacheWipeFailed
  <2>4. tmplog' \in Nat /\ tmplog_offset' \in Nat /\ faults' \in Nat
    BY <1>18 DEF EraseCacheBegin, RestartLog, Fault
  <2> QED
    BY <1>18, <2>1, <2>2, <2>3, <2>4 DEF EraseCacheBegin
<1>19. CASE EraseCacheEnd
  BY <1>19 DEF EraseCacheEnd, Goto, Phases, Fault, WriteVolume, CacheWipeFailed, JobDone
<1>20. CASE Prompt
  BY <1>20 DEF Prompt, Goto, Phases
<1>21. CASE FinishIntent
  <2>1. cache' \in CacheState /\ cache'.ok = cache.ok
    BY <1>21, FileTypes
  <2> QED
    BY <1>21, <2>1 DEF FinishIntent, Goto, Phases
<1>22. CASE FinishLog
  <2>1. (tmplog_offset + 1)..tmplog \subseteq Nat
    OBVIOUS
  <2>2. logged' \subseteq Nat /\ tmplog_offset' \in Nat
    BY <1>22, <2>1, Zenon DEF FinishLog
  <2> QED
    BY <1>22, <2>2 DEF FinishLog, Goto, Phases
<1>23. CASE FinishBcb
  BY <1>23 DEF FinishBcb, Goto, Phases, SetBootloaderMessage, Fault
<1>24. CASE FinishUnlink
  <2>1. cache' \in CacheState /\ cache'.ok = cache.ok
    BY <1>24, FileTypes
  <2> QED
    BY <1>24, <2>1 DEF FinishUnlink, Goto, Phases
<1>25. CASE FinishSync
  BY <1>25 DEF FinishSync, Goto, Phases
<1>26. CASE Reboot
  BY <1>26 DEF Reboot, Goto, Phases, RunOver
<1>27. CASE UNCHANGED vars
  BY <1>27 DEF vars
<1> QED
  BY <1>1, <1>2, <1>3, <1>4, <1>5, <1>6, <1>7, <1>8, <1>9, <1>10, <1>11, <1>12, <1>13, <1>14, <1>15, <1>16, <1>17, <1>18, <1>19, <1>20, <1>21, <1>22, <1>23, <1>24, <1>25, <1>26, <1>27 DEF Next, Device, Boot, Recovery

\* TypeOK is an invariant of the specification.
THEOREM TypeCorrect == Spec => []TypeOK
<1>1. Init => TypeOK
  BY DataTypes DEF Init, TypeOK, Phases, Args
<1> QED
  BY <1>1, TypeStep, PTL DEF Spec

-----------------------------------------------------------------------------
(* Wipes *)

\* Every run of recovery begins in main() with status INSTALL_SUCCESS.
LEMMA FreshStep == TypeOK /\ FreshRun /\ [Next]_vars => FreshRun'
<1> SUFFICES ASSUME TypeOK, FreshRun, [Next]_vars PROVE FreshRun'
  OBVIOUS
<1> USE DEF FreshRun, run, Goto
<1>1. CASE \/ \E a \in Requests : Request(a)
           \/ UseSystem \/ LeaveSystem \/ MenuOperation \/ MenuReturn \/ Writeback
  BY <1>1, Zenon DEF Request, UseSystem, LeaveSystem, MenuOperation, MenuReturn, Writeback
<1>2. CASE Boot \/ ReadArgs \/ WriteArgs \/ Dispatch \/ SetSdcardMessage
  BY <1>2 DEF Boot, BootIntoRecovery, BootSystem, ReadArgs, WriteArgs, Dispatch,
              SetSdcardMessage
<1>3. CASE InstallBegin \/ InstallEnd
  BY <1>3 DEF InstallBegin, InstallEnd, JobDone
<1>4. CASE EraseDataBegin \/ EraseDataEnd
  BY <1>4 DEF EraseDataBegin, EraseDataEnd, AfterEraseData
<1>5. CASE EraseCacheBegin \/ EraseCacheEnd
  BY <1>5 DEF EraseCacheBegin, EraseCacheEnd, CacheWipeFailed, JobDone
<1>6. CASE Prompt \/ FinishIntent \/ FinishLog \/ FinishBcb \/ FinishUnlink \/ FinishSync
  BY <1>6 DEF Prompt, FinishIntent, FinishLog, FinishBcb, FinishUnlink, FinishSync
<1>7. CASE Crash \/ Reboot
  BY <1>7 DEF Crash, Reboot, RunOver
<1>8. CASE UNCHANGED vars
  BY <1>8 DEF vars
<1> HIDE DEF FreshRun
<1> QED
  BY <1>1, <1>2, <1>3, <1>4, <1>5, <1>6, <1>7, <1>8 DEF Next, Device, Recovery

\* What main() makes of its arguments, and what the messages and a formatted /cache hold.
LEMMA DataFacts ==
  /\ CommandOf({}) = "none"
  /\ \A a \in Args : CommandOf(a) = "reset" => WipeCacheOption(a) = 1
  /\ NoMessage.command # "boot-recovery" /\ NoMessage.recovery = {}
  /\ \A a \in Args : BootRecovery(a).command = "boot-recovery" /\ BootRecovery(a).recovery = a
  /\ Clean(Formatted)
BY DEF CommandOf, WipeCacheOption, NoMessage, BootRecovery, Clean, Formatted

\* finish_recovery() leaves a clean /cache clean.
LEMMA CleanWrites ==
  ASSUME cache \in CacheState, Clean(cache), FinishIntent \/ FinishUnlink
  PROVE  Clean(cache')
<1>1. CASE cache' = [cache EXCEPT !.intent = TRUE]
  BY <1>1 DEF Clean, CacheState
<1>2. CASE FinishUnlink
  BY <1>2 DEF Clean, CacheState, FinishUnlink
<1> QED
  BY <1>1, <1>2 DEF FinishIntent

\* No fault is silent: the BCB can be read, the format of a volume ends with an exit status
\* and /data can be mounted.
NoSilentFault == Faults \cap {"bcb_read", "killed", "data_mount"} = {}

\* Without silent faults every step keeps a committed wipe owed, in progress or complete.
LEMMA WipeStep ==
  ASSUME NoSilentFault, TypeOK, FreshRun, WipeInv, [Next]_vars
  PROVE  WipeInv'
<1> USE DataFacts DEF NoSilentFault, TypeOK, FreshRun, WipeInv, WipeDone, Ending, BeforeReset, storage, run, bounds, history
<1>1. ASSUME NEW a \in Requests, Request(a) PROVE WipeInv'
  BY <1>1 DEF Request
<1>2. CASE UseSystem
  BY <1>2 DEF UseSystem, Goto
<1>3. CASE LeaveSystem
  BY <1>3 DEF LeaveSystem, Goto
<1>4. CASE MenuOperation
  BY <1>4 DEF MenuOperation, Goto
<1>5. CASE MenuReturn
  BY <1>5 DEF MenuReturn, Goto
<1>6. CASE Crash
  BY <1>6 DEF Crash, Goto, RunOver
<1>7. CASE Writeback
  BY <1>7 DEF Writeback, Goto
<1>8. CASE BootIntoRecovery
  BY <1>8 DEF BootIntoRecovery, Goto
<1>9. CASE BootSystem
  BY <1>9 DEF BootSystem, Goto
<1>10. CASE ReadArgs
  BY <1>10, Zenon DEF ReadArgs, Goto, Fault, BootArgs, Clean
<1>11. CASE WriteArgs
  BY <1>11 DEF WriteArgs, Goto, SetBootloaderMessage
<1>12. CASE Dispatch
  BY <1>12, Zenon DEF Dispatch, Goto
<1>13. CASE SetSdcardMessage
  BY <1>13 DEF SetSdcardMessage, Goto, SetBootloaderMessage
<1>14. CASE InstallBegin
  BY <1>14 DEF InstallBegin, Goto, JobDone, Broken
<1>15. CASE InstallEnd
  BY <1>15 DEF InstallEnd, Goto, JobDone, Broken
<1>16. CASE EraseDataBegin
  BY <1>16, Zenon DEF EraseDataBegin, Goto, Fault, Broken, AfterEraseData
<1>17. CASE EraseDataEnd
  BY <1>17, Zenon DEF EraseDataEnd, Goto, Fault, Broken, AfterEraseData
<1>18. CASE EraseCacheBegin
  BY <1>18, Zenon DEF EraseCacheBegin, Goto, WriteVolume, CacheWipeFailed, JobDone
<1>19. CASE EraseCacheEnd
  BY <1>19 DEF EraseCacheEnd, Goto, Fault, WriteVolume, CacheWipeFailed, JobDone
<1>20. CASE Prompt
  BY <1>20 DEF Prompt, Goto
<1>21. CASE FinishIntent
  BY <1>21, CleanWrites DEF FinishIntent, Goto
<1>22. CASE FinishLog
  BY <1>22 DEF FinishLog, Goto
<1>23. CASE FinishBcb
  BY <1>23, Zenon DEF FinishBcb, Goto, SetBootloaderMessage
<1>24. CASE FinishUnlink
  BY <1>24, CleanWrites DEF FinishUnlink, Goto
<1>25. CASE FinishSync
  BY <1>25 DEF FinishSync, Goto
<1>26. CASE Reboot
  BY <1>26 DEF Reboot, Goto, RunOver
<1>27. CASE UNCHANGED vars
  BY <1>27 DEF vars
<1> HIDE DataFacts DEF NoSilentFault, TypeOK, FreshRun, WipeInv, WipeDone, Ending, BeforeReset
<1> QED
  BY <1>1, <1>2, <1>3, <1>4, <1>5, <1>6, <1>7, <1>8, <1>9, <1>10, <1>11, <1>12, <1>13, <1>14, <1>15, <1>16, <1>17, <1>18, <1>19, <1>20, <1>21, <1>22, <1>23, <1>24, <1>25, <1>26, <1>27 DEF Next, Device, Boot, Recovery

\* A factory reset or a wipe of /cache that get_args() has committed to the BCB is complete
\* before the main system runs again: for every set of requests, over both channels, any
\* number of power losses, BCB writes and formats that fail, and any use of the menu.
THEOREM WipeRestartableCorrect ==
  ASSUME NoSilentFault
  PROVE  Spec => []WipeRestartable
<1> DEFINE IInv == TypeOK /\ FreshRun /\ WipeInv
<1>1. Init => IInv
  <2>1. Init => FreshRun /\ WipeInv
    BY DEF Init, FreshRun, WipeInv
  <2>2. Init => TypeOK
    BY DataTypes DEF Init, TypeOK, Phases, Args
  <2> QED
    BY <2>1, <2>2
<1>2. IInv /\ [Next]_vars => IInv'
  BY TypeStep, FreshStep, WipeStep
<1>3. IInv => WipeRestartable
  BY DEF WipeInv, WipeDone, Clean, WipeRestartable, Wiped
<1> QED
  BY <1>1, <1>2, <1>3, PTL DEF Spec

-----------------------------------------------------------------------------
(* OTA installs *)

\* The update is asked for in the command file, and the BCB can be written.
FileOnly == Channels = {"file"} /\ "bcb_write" \notin Faults

\* Every step keeps a committed update in the command file until it is installed or has failed.
LEMMA OtaStep ==
  ASSUME FileOnly, TypeOK, FreshRun, OtaInv, [Next]_vars
  PROVE  OtaInv'
<1> USE DataTypes, DataFacts DEF FileOnly, TypeOK, FreshRun, OtaInv, OtaInFile, storage, run, bounds, history
<1>1. ASSUME NEW a \in Requests, Request(a) PROVE OtaInv'
  BY <1>1, Zenon DEF Request
<1>2. CASE UseSystem
  BY <1>2 DEF UseSystem, Goto
<1>3. CASE LeaveSystem
  BY SMTT(20), <1>3 DEF LeaveSystem, Goto
<1>4. CASE MenuOperation
  BY SMTT(20), <1>4 DEF MenuOperation, Goto
<1>5. CASE MenuReturn
  BY SMTT(20), <1>5 DEF MenuReturn, Goto
<1>6. CASE Crash
  BY SMTT(20), <1>6 DEF Crash, Goto, RunOver
<1>7. CASE Writeback
  BY SMTT(20), <1>7 DEF Writeback, Goto
<1>8. CASE BootIntoRecovery
  BY SMTT(20), <1>8 DEF BootIntoRecovery, Goto
<1>9. CASE BootSystem
  BY <1>9 DEF BootSystem, Goto
<1>10. CASE ReadArgs
  BY <1>10, Zenon DEF ReadArgs, Goto, Fault, BootArgs
<1>11. CASE WriteArgs
  BY SMTT(20), <1>11 DEF WriteArgs, Goto, SetBootloaderMessage, Fault
<1>12. CASE Dispatch
  BY SMTT(20), <1>12 DEF Dispatch, Goto
<1>13. CASE SetSdcardMessage
  <2>1. bcb' = BootRecovery({})
    BY <1>13 DEF SetSdcardMessage, SetBootloaderMessage, Fault
  <2>2. bcb'.command = "boot-recovery" /\ bcb'.recovery = {}
    BY SMTT(20), <2>1
  <2> QED
    BY SMTT(20), <1>13, <2>2 DEF SetSdcardMessage, Goto
<1>14. CASE InstallBegin
  BY SMTT(20), <1>14 DEF InstallBegin, Goto, JobDone, Broken
<1>15. CASE InstallEnd
  BY SMTT(20), <1>15 DEF InstallEnd, Goto, JobDone, Broken
<1>16. CASE EraseDataBegin
  BY SMTT(20), <1>16 DEF EraseDataBegin, Goto, Broken, AfterEraseData
<1>17. CASE EraseDataEnd
  BY SMTT(20), <1>17 DEF EraseDataEnd, Goto, Broken, AfterEraseData
<1>18. CASE EraseCacheBegin
  BY SMTT(20), <1>18 DEF EraseCacheBegin, Goto, WriteVolume, CacheWipeFailed, JobDone
<1>19. CASE EraseCacheEnd
  BY SMTT(20), <1>19 DEF EraseCacheEnd, Goto, WriteVolume, CacheWipeFailed, JobDone
<1>20. CASE Prompt
  BY <1>20 DEF Prompt, Goto
<1>21. CASE FinishIntent
  BY SMTT(20), <1>21 DEF FinishIntent, Goto
<1>22. CASE FinishLog
  BY <1>22 DEF FinishLog, Goto
<1>23. CASE FinishBcb
  BY <1>23, Zenon DEF FinishBcb, Goto, SetBootloaderMessage, Fault
<1>24. CASE FinishUnlink
  BY <1>24 DEF FinishUnlink, Goto
<1>25. CASE FinishSync
  BY SMTT(20), <1>25 DEF FinishSync, Goto
<1>26. CASE Reboot
  BY SMTT(20), <1>26 DEF Reboot, Goto, RunOver
<1>27. CASE UNCHANGED vars
  BY <1>27 DEF vars
<1> HIDE DataTypes, DataFacts DEF FileOnly, TypeOK, FreshRun, OtaInv, OtaInFile
<1> QED
  BY <1>1, <1>2, <1>3, <1>4, <1>5, <1>6, <1>7, <1>8, <1>9, <1>10, <1>11, <1>12, <1>13, <1>14, <1>15, <1>16, <1>17, <1>18, <1>19, <1>20, <1>21, <1>22, <1>23, <1>24, <1>25, <1>26, <1>27 DEF Next, Device, Boot, Recovery

\* An OTA install asked for in the command file and committed to the BCB by get_args() is
\* complete before the main system runs again, or recovery has seen it fail: for any number
\* of power losses and of faults other than in writing the BCB.
THEOREM OtaRestartableCorrect ==
  ASSUME FileOnly
  PROVE  Spec => []OtaRestartable
<1> DEFINE IInv == TypeOK /\ FreshRun /\ OtaInv
<1>1. Init => IInv
  <2>1. Init => FreshRun /\ OtaInv
    BY DataFacts, Zenon DEF Init, FreshRun, OtaInv
  <2>2. Init => TypeOK
    BY DataTypes DEF Init, TypeOK, Phases, Args
  <2> QED
    BY <2>1, <2>2
<1>2. IInv /\ [Next]_vars => IInv'
  BY TypeStep, FreshStep, OtaStep
<1>3. IInv => OtaRestartable
  BY DataFacts DEF OtaInv, OtaRestartable
<1> QED
  BY <1>1, <1>2, <1>3, PTL DEF Spec

-----------------------------------------------------------------------------
(* finish_recovery() *)

\* While nothing has failed: the BCB is clear once finish_recovery() has reset it, and the
\* command file is gone from /cache once it is unlinked, from flash once it is synced.
FinishInv ==
  faults = 0 =>
    /\ Idle \/ pc \in {"finish_unlink", "finish_sync"} => bcb = NoMessage
    /\ Idle \/ pc = "finish_sync" => cache.command = {}
    /\ Idle => disk.command = {}

\* A new file system has no command file.
LEMMA FormattedEmpty == Formatted.command = {} /\ HalfFormatted.command = {}
BY DEF Formatted, HalfFormatted

\* No step between the reset of the BCB and the reboot sets it again, and what the menu's
\* operations write to /cache has no command file.
LEMMA FinishStep ==
  ASSUME TypeOK, FreshRun, FinishInv, [Next]_vars
  PROVE  FinishInv'
<1> USE DEF TypeOK, FreshRun, FinishInv, Idle, storage, run, bounds, history, Goto
<1>1. ASSUME NEW a \in Requests, Request(a) PROVE FinishInv'
  BY SMTT(20), <1>1 DEF Request
<1>2. CASE UseSystem
  BY <1>2 DEF UseSystem
<1>3. CASE LeaveSystem
  BY <1>3 DEF LeaveSystem
<1>4. CASE MenuOperation
  BY <1>4 DEF MenuOperation
<1>5. CASE MenuReturn
  BY <1>5 DEF MenuReturn
<1>6. CASE Crash
  BY <1>6 DEF Crash, RunOver
<1>7. CASE Writeback
  BY <1>7 DEF Writeback
<1>8. CASE BootIntoRecovery
  BY <1>8 DEF BootIntoRecovery
<1>9. CASE BootSystem
  BY <1>9 DEF BootSystem
<1>10. CASE ReadArgs
  BY <1>10 DEF ReadArgs, Fault
<1>11. CASE WriteArgs
  BY <1>11 DEF WriteArgs, SetBootloaderMessage, Fault
<1>12. CASE Dispatch
  BY <1>12 DEF Dispatch
<1>13. CASE SetSdcardMessage
  BY <1>13 DEF SetSdcardMessage, SetBootloaderMessage, Fault
<1>14. CASE InstallBegin
  BY <1>14 DEF InstallBegin, JobDone
<1>15. CASE InstallEnd
  BY <1>15 DEF InstallEnd, JobDone
<1>16. CASE EraseDataBegin
  BY <1>16 DEF EraseDataBegin, Fault, AfterEraseData
<1>17. CASE EraseDataEnd
  BY <1>17 DEF EraseDataEnd, Fault, AfterEraseData
<1>18. CASE EraseCacheBegin
  <2>0. faults \in Nat
    OBVIOUS
  <2> HIDE DEF TypeOK, FreshRun, FinishInv, Idle
  <2>1. faults' = 0 => cache' = HalfFormatted /\ disk' = HalfFormatted /\ pc' = "erasing_cache" /\ ctx' = ctx
    BY <1>18, <2>0 DEF EraseCacheBegin, Fault, WriteVolume
  <2>2. faults' = 0 => faults = 0
    BY <1>18, <2>0 DEF EraseCacheBegin, Fault
  <2> QED
    BY <1>18, <2>1, <2>2, FormattedEmpty, Zenon DEF EraseCacheBegin, FinishInv, Idle
<1>19. CASE EraseCacheEnd
  <2>0. ASSUME NEW kind, Fault(kind) PROVE faults' # 0
    BY <2>0 DEF Fault
  <2> HIDE DEF TypeOK, FreshRun, FinishInv, Idle
  <2>1. faults' = 0 => cache' = Formatted /\ disk' = Formatted /\ JobDone(status = "ok", TRUE)
    BY <1>19, <2>0, Zenon DEF EraseCacheEnd, WriteVolume
  <2>2. faults' = 0 => faults = 0
    BY <1>19, <2>0, Zenon DEF EraseCacheEnd
  <2>3. JobDone(status = "ok", TRUE) /\ Idle' => Idle
    BY <1>19 DEF EraseCacheEnd, JobDone, Idle
  <2>4. JobDone(status = "ok", TRUE) => pc' \notin {"finish_unlink", "finish_sync"}
    BY DEF JobDone
  <2> QED
    BY <1>19, <2>1, <2>2, <2>3, <2>4, FormattedEmpty, Zenon DEF EraseCacheEnd, FinishInv, Idle
<1>20. CASE Prompt
  BY <1>20 DEF Prompt
<1>21. CASE FinishIntent
  BY <1>21 DEF FinishIntent
<1>22. CASE FinishLog
  BY <1>22 DEF FinishLog
<1>23. CASE FinishBcb
  BY <1>23 DEF FinishBcb, SetBootloaderMessage, Fault
<1>24. CASE FinishUnlink
  BY <1>24 DEF FinishUnlink
<1>25. CASE FinishSync
  BY <1>25 DEF FinishSync
<1>26. CASE Reboot
  BY <1>26 DEF Reboot, RunOver
<1>27. CASE UNCHANGED vars
  BY <1>27 DEF vars
<1> HIDE DEF TypeOK, FreshRun, FinishInv, Idle
<1> QED
  BY <1>1, <1>2, <1>3, <1>4, <1>5, <1>6, <1>7, <1>8, <1>9, <1>10, <1>11, <1>12, <1>13, <1>14, <1>15, <1>16, <1>17, <1>18, <1>19, <1>20, <1>21, <1>22, <1>23, <1>24, <1>25, <1>26, <1>27 DEF Next, Device, Boot, Recovery

\* Recovery does not cycle: from the end of finish_recovery() on, through the menu and its
\* operations, a power loss leads to a plain boot.
THEOREM NoCycleCorrect == Spec => []NoCycle
<1> DEFINE IInv == TypeOK /\ FreshRun /\ FinishInv
<1>1. Init => IInv
  <2>1. Init => FreshRun /\ FinishInv
    BY DEF Init, FreshRun, FinishInv, Idle
  <2>2. Init => TypeOK
    BY DataTypes DEF Init, TypeOK, Phases, Args
  <2> QED
    BY <2>1, <2>2
<1>2. IInv /\ [Next]_vars => IInv'
  BY TypeStep, FreshStep, FinishStep
<1>3. IInv => NoCycle
  BY DEF FinishInv, NoCycle
<1> QED
  BY <1>1, <1>2, <1>3, PTL DEF Spec

\* The pointer into the temporary log never runs ahead of what LOG_FILE holds, and from
\* copy_log_file() on nothing is missing.
LogInv ==
  /\ \A i \in 1..tmplog_offset : i \in logged
  /\ pc \in {"finish_bcb", "finish_unlink", "finish_sync", "reboot"} /\ cache.ok =>
       \A i \in 1..tmplog : i \in logged

\* A wipe of /cache takes the log with it and resets the pointer first; nothing is printed
\* between copy_log_file() and the reboot.
LEMMA LogStep ==
  ASSUME TypeOK, LogInv, [Next]_vars
  PROVE  LogInv'
<1> USE DEF TypeOK, LogInv, storage, run, bounds, history, Goto
<1>1. ASSUME NEW a \in Requests, Request(a) PROVE LogInv'
  BY <1>1 DEF Request
<1>2. CASE UseSystem
  BY <1>2 DEF UseSystem
<1>3. CASE LeaveSystem
  BY <1>3 DEF LeaveSystem
<1>4. CASE MenuOperation
  BY <1>4 DEF MenuOperation
<1>5. CASE MenuReturn
  BY <1>5 DEF MenuReturn
<1>6. CASE Crash
  BY <1>6 DEF Crash, RunOver
<1>7. CASE Writeback
  BY <1>7 DEF Writeback
<1>8. CASE BootIntoRecovery
  BY <1>8 DEF BootIntoRecovery
<1>9. CASE BootSystem
  BY <1>9 DEF BootSystem
<1>10. CASE ReadArgs
  BY <1>10 DEF ReadArgs, Fault
<1>11. CASE WriteArgs
  BY <1>11 DEF WriteArgs, SetBootloaderMessage, Fault
<1>12. CASE Dispatch
  BY <1>12 DEF Dispatch
<1>13. CASE SetSdcardMessage
  BY <1>13 DEF SetSdcardMessage, SetBootloaderMessage, Fault
<1>14. CASE InstallBegin
  BY <1>14 DEF InstallBegin, JobDone
<1>15. CASE InstallEnd
  BY <1>15 DEF InstallEnd, JobDone
<1>16. CASE EraseDataBegin
  BY <1>16 DEF EraseDataBegin, Fault, AfterEraseData
<1>17. CASE EraseDataEnd
  BY SMTT(20), <1>17 DEF EraseDataEnd, Fault, AfterEraseData
<1>18. CASE EraseCacheBegin
  BY SMTT(20), <1>18 DEF EraseCacheBegin, RestartLog, Fault, WriteVolume, CacheWipeFailed, JobDone
<1>19. CASE EraseCacheEnd
  BY <1>19 DEF EraseCacheEnd, Fault, WriteVolume, CacheWipeFailed, JobDone
<1>20. CASE Prompt
  BY <1>20 DEF Prompt
<1>21. CASE FinishIntent
  BY <1>21 DEF FinishIntent
<1>22. CASE FinishLog
  BY <1>22 DEF FinishLog
<1>23. CASE FinishBcb
  BY <1>23 DEF FinishBcb, SetBootloaderMessage, Fault
<1>24. CASE FinishUnlink
  BY <1>24 DEF FinishUnlink
<1>25. CASE FinishSync
  BY <1>25 DEF FinishSync
<1>26. CASE Reboot
  BY <1>26 DEF Reboot, RunOver
<1>27. CASE UNCHANGED vars
  BY <1>27 DEF vars
<1> HIDE DEF TypeOK, LogInv
<1> QED
  BY <1>1, <1>2, <1>3, <1>4, <1>5, <1>6, <1>7, <1>8, <1>9, <1>10, <1>11, <1>12, <1>13, <1>14, <1>15, <1>16, <1>17, <1>18, <1>19, <1>20, <1>21, <1>22, <1>23, <1>24, <1>25, <1>26, <1>27 DEF Next, Device, Boot, Recovery

\* The whole log of a run is in LOG_FILE when the device reboots, whatever was wiped.
THEOREM LogCompleteCorrect == Spec => []LogComplete
<1> DEFINE IInv == TypeOK /\ LogInv
<1>1. Init => IInv
  <2>1. Init => LogInv
    BY DEF Init, LogInv
  <2>2. Init => TypeOK
    BY DataTypes DEF Init, TypeOK, Phases, Args
  <2> QED
    BY <2>1, <2>2
<1>2. IInv /\ [Next]_vars => IInv'
  BY TypeStep, LogStep
<1>3. IInv => LogComplete
  BY DEF LogInv, LogComplete
<1> QED
  BY <1>1, <1>2, <1>3, PTL DEF Spec

\* From the end of FinishIntent on the intent is on /cache if main() was to send one, and at
\* the reboot flash holds what /cache does.
IntentInv ==
  /\ pc \in {"finish_log", "finish_bcb", "finish_unlink", "finish_sync"} /\ ctx = "main"
       /\ "send_intent" \in args /\ cache.ok => cache.intent
  /\ pc = "reboot" => cache = disk /\ ("send_intent" \in args /\ cache.ok => cache.intent)

\* Nothing writes /cache after the intent but the unlink of the command file.
LEMMA IntentStep ==
  ASSUME TypeOK, IntentInv, [Next]_vars
  PROVE  IntentInv'
<1> USE DEF TypeOK, IntentInv, storage, run, bounds, history, Goto
<1>1. ASSUME NEW a \in Requests, Request(a) PROVE IntentInv'
  BY <1>1 DEF Request
<1>2. CASE UseSystem
  BY <1>2 DEF UseSystem
<1>3. CASE LeaveSystem
  BY <1>3 DEF LeaveSystem
<1>4. CASE MenuOperation
  BY <1>4 DEF MenuOperation
<1>5. CASE MenuReturn
  BY <1>5 DEF MenuReturn
<1>6. CASE Crash
  BY <1>6 DEF Crash, RunOver
<1>7. CASE Writeback
  BY <1>7 DEF Writeback
<1>8. CASE BootIntoRecovery
  BY <1>8 DEF BootIntoRecovery
<1>9. CASE BootSystem
  BY <1>9 DEF BootSystem
<1>10. CASE ReadArgs
  BY <1>10 DEF ReadArgs, Fault
<1>11. CASE WriteArgs
  BY <1>11 DEF WriteArgs, SetBootloaderMessage, Fault
<1>12. CASE Dispatch
  BY <1>12 DEF Dispatch
<1>13. CASE SetSdcardMessage
  BY <1>13 DEF SetSdcardMessage, SetBootloaderMessage, Fault
<1>14. CASE InstallBegin
  BY <1>14 DEF InstallBegin, JobDone
<1>15. CASE InstallEnd
  BY <1>15 DEF InstallEnd, JobDone
<1>16. CASE EraseDataBegin
  BY <1>16 DEF EraseDataBegin, Fault, AfterEraseData
<1>17. CASE EraseDataEnd
  BY <1>17 DEF EraseDataEnd, Fault, AfterEraseData
<1>18. CASE EraseCacheBegin
  BY <1>18 DEF EraseCacheBegin, Fault, WriteVolume, CacheWipeFailed, JobDone
<1>19. CASE EraseCacheEnd
  BY <1>19 DEF EraseCacheEnd, Fault, WriteVolume, CacheWipeFailed, JobDone
<1>20. CASE Prompt
  BY <1>20 DEF Prompt
<1>21. CASE FinishIntent
  BY <1>21 DEF FinishIntent
<1>22. CASE FinishLog
  BY <1>22 DEF FinishLog
<1>23. CASE FinishBcb
  BY <1>23 DEF FinishBcb, SetBootloaderMessage, Fault
<1>24. CASE FinishUnlink
  BY <1>24 DEF FinishUnlink
<1>25. CASE FinishSync
  BY <1>25 DEF FinishSync
<1>26. CASE Reboot
  BY <1>26 DEF Reboot, RunOver
<1>27. CASE UNCHANGED vars
  BY <1>27 DEF vars
<1> HIDE DEF TypeOK, IntentInv
<1> QED
  BY <1>1, <1>2, <1>3, <1>4, <1>5, <1>6, <1>7, <1>8, <1>9, <1>10, <1>11, <1>12, <1>13, <1>14, <1>15, <1>16, <1>17, <1>18, <1>19, <1>20, <1>21, <1>22, <1>23, <1>24, <1>25, <1>26, <1>27 DEF Next, Device, Boot, Recovery

\* The intent is on flash when the device reboots.
THEOREM IntentDeliveredCorrect == Spec => []IntentDelivered
<1> DEFINE IInv == TypeOK /\ IntentInv
<1>1. Init => IInv
  <2>1. Init => IntentInv
    BY DEF Init, IntentInv
  <2>2. Init => TypeOK
    BY DataTypes DEF Init, TypeOK, Phases, Args
  <2> QED
    BY <2>1, <2>2
<1>2. IInv /\ [Next]_vars => IInv'
  BY TypeStep, IntentStep
<1>3. IInv => IntentDelivered
  BY DEF IntentInv, IntentDelivered
<1> QED
  BY <1>1, <1>2, <1>3, PTL DEF Spec

-----------------------------------------------------------------------------
(* Factory resets are not repeated *)

Reset(a) == CommandOf(a) = "reset"

Running == Phases \ {"off", "system", "get_args"}

\* Phases on the way from a reset in the BCB to the format of /cache.
Resetting ==
  {"off", "get_args", "set_args", "dispatch", "erase_data", "erasing_data", "erase_cache"}

\* A command to erase /data is found only where one was asked for.  From the erase on, the
\* BCB holds the command until /cache is formatted and the command file with it; the main
\* system is not started in between.
StaleInv ==
  faults = 0 =>
    /\ pc = "system" => erase # "done"
    /\ bcb.command # "boot-recovery" => bcb.recovery = {}
    /\ erase = "no" => /\ ~Reset(bcb.recovery) /\ ~Reset(cache.command) /\ ~Reset(disk.command)
                       /\ pc \in Running => ~Reset(args)
    /\ pc = "dispatch" => bcb = BootRecovery(args)
    /\ ctx = "main" /\ pc \in {"erase_data", "erasing_data"} =>
         bcb = BootRecovery(args) /\ Reset(args) /\ wipe_cache = 1
    /\ erase = "done" =>
         \/ ~Reset(cache.command) /\ ~Reset(disk.command)
         \/ /\ bcb.command = "boot-recovery" /\ Reset(bcb.recovery)
            /\ pc \in Resetting /\ ctx = "main"
            /\ pc \in Running => args = bcb.recovery

\* No step leaves a command to erase /data behind that nobody has asked for.
LEMMA StaleStep == TypeOK /\ FreshRun /\ StaleInv /\ [Next]_vars => StaleInv'
<1> SUFFICES ASSUME TypeOK, FreshRun, StaleInv, [Next]_vars PROVE StaleInv'
  OBVIOUS
<1>1. /\ ~Reset({}) /\ \A a \in Args : Reset(a) => "wipe_data" \in a /\ WipeCacheOption(a) = 1
      /\ NoMessage.recovery = {}
      /\ \A a \in Args : BootRecovery(a).command = "boot-recovery" /\ BootRecovery(a).recovery = a
  BY DataFacts DEF Reset, CommandOf
<1>2. Formatted.command = {} /\ HalfFormatted.command = {}
  BY DEF Formatted, HalfFormatted
<1>3. /\ bcb.recovery \in Args /\ cache.command \in Args /\ disk.command \in Args
      /\ args \in Args /\ {} \in Args /\ faults \in Nat
  BY DataTypes DEF TypeOK, CacheState
<1>4. \A kind : Fault(kind) => faults' # 0
  BY <1>3 DEF Fault
<1> USE <1>1 DEF StaleInv, Running, Resetting, Phases, storage, run, bounds, history, Goto
<1>5. ASSUME NEW a \in Requests, Request(a) PROVE StaleInv'
  <2>1. a \in Args /\ (Reset(a) => erase' = "owed") /\ (Reset(a) \/ erase' \in {erase, "owed"})
    BY Zenon, <1>5 DEF Request, Args
  <2>2. cache'.command \in {cache.command, a}
    <3> DEFINE p == cache.package \/ "update_package" \in a
    <3>1. \/ cache' = [cache EXCEPT !.command = a, !.intent = FALSE, !.package = p]
          \/ cache' = [cache EXCEPT !.intent = FALSE, !.package = p]
      BY Zenon, <1>5 DEF Request
    <3>2. cache \in [ok : BOOLEAN, command : Args, intent : BOOLEAN, package : BOOLEAN]
      BY Zenon DEF TypeOK, CacheState
    <3> HIDE DEF p
    <3>3. CASE cache' = [cache EXCEPT !.command = a, !.intent = FALSE, !.package = p]
      BY Zenon, <3>2, <3>3
    <3>4. CASE cache' = [cache EXCEPT !.intent = FALSE, !.package = p]
      BY Zenon, <3>2, <3>4
    <3> QED
      BY Zenon, <3>1, <3>3, <3>4
  <2> QED
    BY <1>5, <2>1, <2>2 DEF Request
<1>6. CASE UseSystem \/ LeaveSystem \/ Writeback \/ BootIntoRecovery
  BY Zenon, <1>6 DEF UseSystem, LeaveSystem, Writeback, BootIntoRecovery
<1>7. CASE BootSystem
  BY Zenon, <1>7 DEF BootSystem
<1>8. CASE Crash \/ Reboot
  BY Zenon, <1>8 DEF Crash, Reboot, RunOver
<1>9. CASE ReadArgs
  BY ZenonT(30), <1>3, <1>4, <1>9 DEF ReadArgs, BootArgs
<1>10. CASE WriteArgs
  <2>1. /\ pc = "set_args" /\ pc' = "dispatch"
        /\ UNCHANGED <<cache, disk, args, ctx, erase>>
        /\ faults' # 0 \/ (faults' = faults /\ bcb' = BootRecovery(args))
    BY Zenon, <1>4, <1>10 DEF WriteArgs, SetBootloaderMessage
  <2>2. CASE faults' # 0
    BY Zenon, <2>2
  <2>3. CASE faults' = 0 /\ faults = 0 /\ bcb' = BootRecovery(args)
    <3>1. bcb'.command = "boot-recovery" /\ bcb'.recovery = args
      BY Zenon, <1>3, <2>3
    <3>2. pc' # "system" /\ pc' \in Resetting /\ pc' \notin {"erase_data", "erasing_data"}
      BY Zenon, <2>1
    <3>3. erase = "no" => ~Reset(args)
      BY Zenon, <2>1, <2>3
    <3>4. erase = "done" => \/ ~Reset(cache.command) /\ ~Reset(disk.command)
                            \/ Reset(args) /\ ctx = "main"
      BY Zenon, <2>1, <2>3
    <3> HIDE DEF Resetting
    <3> QED
      BY Zenon, <2>1, <2>3, <3>1, <3>2, <3>3, <3>4
  <2> QED
    BY Zenon, <2>1, <2>2, <2>3
<1>11. CASE Dispatch
  BY Zenon, <1>3, <1>11 DEF Dispatch, Reset
<1>12. CASE SetSdcardMessage
  BY ZenonT(30), <1>3, <1>4, <1>12 DEF SetSdcardMessage, SetBootloaderMessage
<1>13. CASE InstallBegin \/ InstallEnd
  BY Zenon, <1>13 DEF InstallBegin, InstallEnd, JobDone
<1>14. CASE EraseDataBegin
  BY Zenon, <1>4, <1>14 DEF EraseDataBegin
<1>15. CASE EraseDataEnd
  BY ZenonT(30), <1>3, <1>4, <1>15 DEF EraseDataEnd, AfterEraseData
<1>16. CASE EraseCacheBegin
  <2>1. \/ faults' # 0
        \/ faults' = faults /\ cache'.command = {} /\ disk'.command = {} /\ pc' = "erasing_cache"
    BY Zenon, <1>2, <1>4, <1>16 DEF EraseCacheBegin, WriteVolume
  <2>2. UNCHANGED <<bcb, args, erase, wipe_cache>>
    BY Zenon, <1>16 DEF EraseCacheBegin
  <2> QED
    BY Zenon, <1>16, <2>1, <2>2 DEF EraseCacheBegin
<1>17. CASE EraseCacheEnd
  <2>1. \/ faults' # 0
        \/ /\ faults' = faults /\ cache'.command = {} /\ disk'.command = {}
           /\ pc' \in {"finish_intent", "prompt", "menu"}
    BY Zenon, <1>2, <1>4, <1>17 DEF EraseCacheEnd, WriteVolume, JobDone
  <2>2. UNCHANGED <<bcb, args, erase, wipe_cache>>
    BY Zenon, <1>17 DEF EraseCacheEnd
  <2> QED
    BY Zenon, <1>17, <2>1, <2>2 DEF EraseCacheEnd
<1>18. CASE Prompt \/ MenuOperation \/ MenuReturn
  BY Zenon, <1>18 DEF Prompt, MenuOperation, MenuReturn, FreshRun
<1>19. CASE FinishIntent
  <2>1. cache'.command = cache.command
    BY <1>19 DEF FinishIntent, TypeOK, CacheState
  <2> QED
    BY Zenon, <1>19, <2>1 DEF FinishIntent
<1>20. CASE FinishUnlink
  <2>1. cache'.command = {}
    BY <1>20 DEF FinishUnlink, TypeOK, CacheState
  <2> QED
    BY Zenon, <1>20, <2>1 DEF FinishUnlink
<1>21. CASE FinishBcb
  BY Zenon, <1>4, <1>21 DEF FinishBcb, SetBootloaderMessage
<1>22. CASE FinishLog \/ FinishSync
  BY Zenon, <1>22 DEF FinishLog, FinishSync
<1>23. CASE UNCHANGED vars
  BY Zenon, <1>23 DEF vars
<1> HIDE DEF StaleInv
<1> QED
  BY Zenon, <1>5, <1>6, <1>7, <1>8, <1>9, <1>10, <1>11, <1>12, <1>13, <1>14, <1>15, <1>16, <1>17,
     <1>18, <1>19, <1>20, <1>21, <1>22, <1>23 DEF Next, Device, Boot, Recovery

\* main() erases /data only for somebody who asked and has not got it yet, as long as no
\* BCB write or format has failed: after any number of power losses, over both channels
\* and with any faults still to come.
THEOREM NoStaleEraseCorrect == Spec => NoStaleErase
<1> DEFINE IInv == TypeOK /\ FreshRun /\ StaleInv
<1>1. Init => IInv
  <2>1. Init => TypeOK
    BY DataTypes DEF Init, TypeOK, Phases, Args
  <2>2. ~Reset({}) /\ NoMessage.recovery = {} /\ Formatted.command = {}
    BY Zenon, DataFacts DEF Reset, Formatted
  <2>3. Init => FreshRun /\ StaleInv
    BY Zenon, <2>2 DEF Init, FreshRun, StaleInv, Running
  <2> QED
    BY <2>1, <2>3
<1>2. IInv /\ [Next]_vars => IInv'
  BY TypeStep, FreshStep, StaleStep
<1>3. IInv => (pc \in {"erase_data", "erasing_data"} /\ ctx = "main" /\ faults = 0 => erase # "no")
  BY Zenon DEF StaleInv, Running, Phases
<1>4. IInv /\ [Next]_vars =>
        [data' # data /\ pc \in {"erase_data", "erasing_data"} /\ ctx = "main" /\ faults = 0
           => erase # "no"]_vars
  BY <1>3
<1> QED
  BY <1>1, <1>2, <1>4, PTL DEF Spec, NoStaleErase

=============================================================================
