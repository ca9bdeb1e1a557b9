# Verification of Open Recovery

Open Recovery is an Android recovery image: a small system the bootloader starts instead of
the main one, to install updates, erase data or offer a menu. This directory holds TLA+
models of it, the TLC configurations that check them on small instances, and proofs checked
by TLAPS. All source references are to `src/`.

## 1. Inventory

| Part | State it keeps | Operations | What is hard | What makes it correct |
|---|---|---|---|---|
| Boot and dispatch (`recovery.c`, `bootloader.c`) | BCB, command file, intent, log, `tmplog_offset` | `get_args`, the commands of `main`, `erase_volume`, `finish_recovery` | power loss between any two writes; ignored results | a committed command is carried out before the main system runs, and not repeated |
| Package installation (`install.c`) | the child process, its pipe, `wipe_cache` | `install_package`, `try_update_binary`, `run_shell_script`, `run_command`, `sideload_package` | mounts and copies that fail, a flag that outlives an install, exit status against signal | the result reported is what happened |
| Volumes (`roots.c`, `mounts.c`) | the volume table, the mounts | mount, unmount, format | formats that are cut short | nothing is used that is not mounted |
| Patching (`applypatch/applypatch.c`, `freecache.c`) | the files, the one saved copy on /cache | `applypatch`, `applypatch_check`, `MakeFreeSpaceOnCache` | interruption at any point, low space, retry | no source is lost; running again completes |
| Update script functions (`updater/`) | files and mounts of the new system | the edify functions | failing half way | abort at the first failure |
| Edify (`edify/`) | `State` with its error message | evaluation | abort and short circuit | evaluation order |
| Retouch (`minelf/Retouch.c`) | the library, the shared saved copy | `retouch_one_library` | crash between libraries | every library ends at one offset |
| Key queue (`ui.c`, `qwerty.c`) | `key_queue[256]`, `last_key_down`, `wait_key_break`, screen timer | input callback, repeat thread, `ui_wait_key`, `ui_cancel_wait_key` | four threads; clear against cancel | no key past the end; a cancel is seen |
| Menus (`recovery.c`) | menu items, menu stack, highlight | `create_menu`, `get_menu_selection`, `prompt_and_wait` | limits, failing reads, nothing to select | the stack matches the menu shown |
| Interactive scripts (`interactive/`, `install.c`) | a shared-memory page with two triggers | `imenu`, `iinput`, `run_shell_script` | two processes without locks | each question gets one answer |
| Sideload server (`sideloader/`) | fd events, transports, sockets | event loop, two threads per transport, socket close | reference counts, use after close | closed once, after its last user |
| Hash table and zip (`minzip/`) | table with tombstones; zip entries | add, look up, remove; extract | growth and tombstones | behaves as a set |
| Console and screen (`console.c`, `minui/`, `ui.c`) | cursor, text ring, progress | escape sequences, drawing | limits of the screen | cursor inside the screen |
| Patch formats, configuration, build tools | - | byte transformations | - | not modelled, see section 6 |

Interactions: the main system and the bootloader talk to `main()` through the BCB and
/cache. `main()` and the menu call install and erase. The update binary runs the script,
whose `apply_patch` calls `applypatch()`. The menu reads keys that other threads queue. A
sideload runs the server as a child and watches it from a thread that cancels the menu.

`PROJECT.json` lists the components, and the hazards at their lines.

## 2. Modules

| Module | Models |
|---|---|
| `RecoveryBoot` | `get_args`, the commands of `main`, `erase_volume`, `format_volume`, the install calls, the menu as a source of operations, `finish_recovery`; with the main system and the bootloader around them |
| `ApplyPatch` | `applypatch`, `applypatch_check`, `SaveFileContents`, `WriteToPartition`, `MakeFreeSpaceOnCache`, run by a script that checks, patches in order, and is run again |
| `OrderedUpdate` | the abstract update: patches take effect in order, each at once and for good |
| `KeyQueue` | the queue of key codes with the threads that append to it and the one that waits (`ui.c`) |
| `UserInterface` | the main thread at a menu, in a sideload, a text input and a console, composed with `KeyQueue` and the battery, sideload and read threads |
| `Menus` | `create_menu`, the menu stack, tags, the highlight, the directory browsers (`recovery.c`) |
| `Screen` | the log ring, the visible part of a menu, the progress bar, the LED (`ui.c`) |
| `ConsoleScreen` | the console's cursor, its shifts and its scrolling (`console.c`) |
| `Scripts` | `run_shell_script` with the pipe of a script and the page it shares with `imenu` and `iinput` |
| `Dialogue` | the abstract dialogue: a question, one answer to it, received once |
| `Sideloader` | transports, their threads, local sockets and the service of the sideload server |
| `FdEvents` | the server's event loop |
| `PackageInstall` | `install_package` with mounts, copies and the commands of the update binary, over several installs |
| `Retouch` | `retouch_one_library` and the two script functions that call it |
| `Edify` | evaluation of scripts with every function the updater registers |
| `HashTable` | `minzip/Hash.c` |
| `MC...` | instances for TLC |
| `RecoveryBootProofs`, `ApplyPatchProofs`, `SideloaderProofs`, `EdifyProofs` | theorems about the module of that name |
| `EventProofs` | theorems about `UserInterface` and `FdEvents` |
| `SideloadStreamProofs` | theorems about what a session of `Sideloader` transmits |
| `ScreensProofs` | theorems about `Scripts`, `ConsoleScreen`, `Screen` and `Menus` |
| `PackageProofs` | theorems about `PackageInstall`, `Retouch` and `HashTable` |

`MCScreens`, `MCSideload` and `MCPackages` hold several components that share no modelled
state. Their variable `part`, chosen at the start, says which one a behaviour exercises.

**RecoveryBoot.** `pc` is the point of `main()` (or "off", or "system"). Every write that
reaches storage is an action of its own, so that a power loss (`Crash`) fits between any
two. `bcb`, `data` and `system` are partitions and durable when written. /cache is a pair:
`cache` as processes see it, and `disk` as a power loss leaves it; they come together by
`Writeback`, by a format, and by the unmount and `sync()` at the end of
`finish_recovery()`. A format is two steps, so it can be cut short (`HalfFormatted`).
`promise`, `erase` and `logged` are history: what `get_args()` last committed, whether an
erase is owed, and which lines of this run's log are in the log file.

**ApplyPatch.** A file is "old", "new", "bad" or "none". `saved` is `CACHE_TEMP_SOURCE`, of
which there is one for all patches. `Kind` says for each patch whether it changes a file in
place, a file into another file, or a partition. Free space is a nondeterministic choice.
File data written with `O_SYNC` or `fsync()` is durable; with `Volatile`, `rename()` and
`unlink()` may reach flash late and in any order between two file systems.

**KeyQueue, UserInterface.** Each region under `key_queue_mutex` is one step; what the code
reads without it is a step of its own. `kbd_thread()` therefore tests `last_key_down` in one
step and appends in another. `pc` is the point of the main thread, `menu` the menu it is in.
The sideload server, its thread, the shell and one read thread per console run beside it. A
read thread is never joined, as in the code. `key_pressed` is a free choice where it is read.

**Menus, Screen, ConsoleScreen.** A menu file is a sequence of lines by kind. Scripts remove
and restore files, so opening a menu can fail at any level. The browsers are a stack of
directories, one per recursive call. `ConsoleScreen` keeps the cursor and the counters and
drops the characters. The read thread prints under the lock while the main thread computes
how far it may scroll without it, so a character is followed by the values the row and the
forced top row pass through (`stores`), and `ui_console_scroll_down()` is three unlocked reads
and a locked step. `lost` is history and marks the two cases in which the code loses count of
the scroll reserve (a backspace to the row above, and a shift that stops at row 0); `torn`
marks a scroll that has read a row past the matrix. A scope of the progress bar begins where
the one before it ends, past the end of the bar too.

**Scripts.** Both sides poll; each read or write of a trigger is a step. The abstract
`Dialogue` is instantiated with the question on the page and the answers given.

**Sideloader, FdEvents.** A session is one opening of the USB device; its transport, socket
and service have its number. `out` and `in` are the points of a transport's two threads. The
handle is shared by all sessions (`usb_fd` says whose device is open), and so is the file:
`file` has its blocks and `origin` the session that wrote each. `intruders` is history: the
services that wrote to the file after another had created it. `FdEvents` allows a
callback any sequence of `fdevent_*` calls up to a bound.

**PackageInstall, Retouch, Edify, HashTable.** `open_files` counts recovery's files on each
volume. A library is at an offset, or `Removed`; `saved` says which one
`CACHE_TEMP_SOURCE` holds. Both have a second view, what a power loss leaves of them
(`offset_disk`, `saved_disk`): written data is synced, and with `Volatile` a `rename()` or
`unlink()` may reach flash late. An edify function is a record of how it checks its arguments
(in which order, up to where before others are read, and of which type) and what it returns. A
script is the sequence `exprs` of its expressions, each with the numbers
of its operands, which come before it; the last is the root, and `Build` and `BuildCall` put a
call around it. A result has a log of what was done to the device, with a mark where a function
aborted. The table is its slots, with tombstones.

## 3. Runs

| Run | Result | Shows |
|---|---|---|
| `boot_restart` | holds | `WipeRestartable`, `OtaRestartable`: a command in the command file that `get_args()` has committed is complete before the main system runs, or recovery saw it fail. `NoCycle`, `NoStaleErase`: as long as nothing has failed, a finished command is not repeated |
| `boot_faults` | holds | `LogComplete`, `IntentDelivered`: log and intent are on a mountable /cache at reboot, after wipes too. `RecoveryEnds`: the device gets back to the main system or to the menu |
| `boot_ota_bcb` | violated | an OTA asked for through the BCB is lost at a power loss during the install (`recovery.c:501`) |
| `boot_killed` | violated | a format tool killed by a signal counts as successful (`install.c:440`) |
| `applypatch` | holds | `Recoverable`: no patch loses the contents it applies to. `InstallsInOrder`: the refinement of `OrderedUpdate`. `Completes`: retries install everything, unless a partition write was cut short |
| `applypatch_powerloss` | violated | in the low-space path the copy is unlinked while the rename may not be on flash (`applypatch.c:826`) |
| `ui_keys` | holds | The queue is overrun by the cancel entry only (`OverrunByCancelOnly`), which no other menu sees (`CancelConfined`). A released key is repeated once at most (`RepeatedOnceLate`). Nothing is acted on in the dark (`LitWhileActing`). `SideloadMenuEnds`, `ConsoleEnds`: a queued cancel ends the menu, a dead shell the console |
| `console_poke` | violated | the read thread of a console that was forced to quit ends the wait of the next (`console.c:856`) |
| `screens` | holds | `ShownIsCurrent`, `HighlightSelectable`, `TagBoxSound`, `BrowseDescends`, `MovesEnd` of the menus; `ScreenShows`, `LedGoesOff` of the screen; `ReserveExact`, `RowsInMatrix` of the console; `OutputPrinted` and the refinement `AsksImplemented` of scripts |
| `sideload` | holds | A kick closes its own device (`KicksOwnDevice`), a transport is freed after its last user (`FreedUnused`), only the main loop touches sockets (`CloseAllFindsNone`), the pending list is exact (`PendingSound`), and an unplugged transport is freed in the end (`UnplugFrees`) |
| `sideload_overlap` | holds | The file of a service that reports success is whole (`WholeFile`), also when the host opens the service in both sessions: the one that created the file last ends with every block in its place, each its own or one the other wrote after that |
| `packages` | holds | `WipeAsked`, `RootsFree` of installs; `LibraryKept`, `OneOffset` of retouching; `AbortStops`, `NullReturned` of scripts; `TableIsSet` of the hash table |

Each violation contradicts a comment or a log message of the source, quoted under
"findings" in `PROJECT.json`.

Some properties carry an exception because the code does:

- `Completes`: a partition is checked by a name that carries its sha1s, without further
  ones, so `applypatch_check()` never accepts the saved copy for it and refuses every retry
  (`applypatch.c:439`). The copy itself is still there (`Recoverable`).
- `ShownIsCurrent`: a ".." whose menu cannot be opened (`recovery.c:1667`).
- `BrowseDescends`: a name that sorts before "../" (`recovery.c:833`).
- `LibraryKept`: the saved file rewritten by a call that has read it (`Retouch.c:348`), until
  the new copy is complete.
- `WholeFile`: blocks the service of another session wrote into the same file
  (`services.c:54`).
- `AbortStops`: the two retouch functions (`updater/install.c:400`). An updater that dies
  stops too, so this property does not tell NULL from a crash; `NullReturned` does.
- `NullReturned`: the same two, and the later arguments of `delete()`, `apply_patch()` and
  `apply_patch_check()`, which are used although they could not be read
  (`updater/install.c:227`, `782`, `838`).
- `RootsFree`: a copy that was cut short leaves its original open (`install.c:544`).
- `ReserveExact`, `RowsInMatrix`: from the moment the count is lost, see above.
- `RowsInMatrix`: a scroll that reads the row while it is past the matrix, during the shift of
  a full matrix or an ESC[nB (`console.c:268`).

Of these, the exceptions of `ShownIsCurrent`, `BrowseDescends`, `LibraryKept`, `AbortStops` and
`NullReturned` contradict comments and are findings: without the exception TLC refutes the
property on the same instance. Four more findings have no run of their own:

- `OnlyWantedEvents` of `FdEvents` states a comment of `fdevent.c:642` and is refuted.
- `ExitedWhole` of `Sideloader` states the message of `services.c:77`, and is refuted when two
  sessions open the service: the file is truncated while the first service is about to exit.
- `Recoverable` is refuted with `Checks = FALSE` and one partition: run again after an
  interrupted write, `applypatch()` truncates the copy it needs (`applypatch.c:650`).
- `LibraryKept` is refuted with `Volatile = TRUE` and one power loss: the saved library is
  unlinked while the rename may not be on flash (`Retouch.c:398`).

**Bounds.** `boot_restart` has two power losses and one failing BCB write or format, so that
a restarted run can be interrupted or fail again; `boot_faults` has one power loss and one
fault of any kind. One menu operation per visit is enough to have the menu's operations run
after a command of `main()` has failed. There is one request for each branch of `main()`, and
one for none. `applypatch` has one patch of every kind, in the order file, partition,
other file, with two interruptions and two failing calls: one to leave a copy behind and one
to disturb the retry. The theorems need none of these bounds.

`ui_keys` has a queue of one key, so that it is full at once and the cancel entry goes past
it; one tick each for the key repeat and the screen timer; one console, with jobs.
`console_poke` needs a second console. `screens` has three menu files that lead to each
other over a stack of four levels, directories with names on both sides of "../", a console
of 7 rows that shifts by 3, scopes of progress that begin before and after the end of the bar
(`MaxStart`), and scripts with two questions and more output than one read
takes. `sideload` has two sessions, so that one winds down while the next starts, the first of which
opens the service, and two blocks; its loop has three descriptors and two calls
per callback. `sideload_overlap` opens it in both, each
with two blocks and a socket pair that holds one packet, so that either service writes before,
between and after the other's steps and waits while the other goes on. `packages` has two installs,
three libraries of which one cannot be retouched and three kills, scripts of up to two nested
calls, and five names of which three collide, in tables up to 16.

**Fairness.** `RecoveryBoot`: weak fairness of the bootloader and of the recovery process,
which outside its menu waits for nobody. The user, the main system and the power owe
nothing. `ApplyPatch`: weak fairness of the running updater and of trying again. The second
is an assumption about the device: `get_args()` leads back to the install after a power
loss, and after a failure the user has to ask again.
`UserInterface`: weak fairness of the main thread, of the wait once its break flag is set
(`ui_wait_key()` wakes at its timeout), of the thread that waits for the sideload server and
of the read threads; the user, the server and the shell owe nothing. `screens`: weak fairness
of the highlight loop, the LED thread, and both sides of a dialogue; the last includes that
the user answers. `sideload`: weak fairness of both threads of a transport and of the main
loop's handlers; none of the host.

## 4. Proofs

| Theorem | For | Assumes |
|---|---|---|
| `RecoveryBootProofs!TypeCorrect` | `TypeOK` | - |
| `RecoveryBootProofs!WipeRestartableCorrect` | `WipeRestartable` | `NoSilentFault`: the BCB can be read, no format is killed, /data mounts |
| `RecoveryBootProofs!OtaRestartableCorrect` | `OtaRestartable` | `FileOnly`: the command file is the channel, and BCB writes succeed |
| `RecoveryBootProofs!NoCycleCorrect`, `NoStaleEraseCorrect`, `LogCompleteCorrect`, `IntentDeliveredCorrect` | `NoCycle`, `NoStaleErase`, `LogComplete`, `IntentDelivered` | - |
| `ApplyPatchProofs!TypeCorrect` | `TypeOK` | - |
| `ApplyPatchProofs!RecoverableCorrect`, `InstallsInOrderCorrect` | `Recoverable`, `InstallsInOrder` | `Careful`: durable directories, and partitions are checked first |
| `ApplyPatchProofs!RunsEnd` | a run of N patches has at most 20 N + 1 steps (`RunShortens`) | - |
| `EventProofs!OverrunByCancelOnlyCorrect`, `CancelConfinedCorrect`, `RepeatedOnceLateCorrect`, `LitWhileActingCorrect` | the properties of these names | - |
| `EventProofs!CancelDeliveredCorrect` | a cancel entry is not lost or overtaken, and ends the menu (`CancelDelivered`) | - |
| `ScreensProofs!OutputPrintedCorrect` | `OutputPrinted` | - |
| `ScreensProofs!DialogueImplemented` | the safety part of `AsksImplemented` | - |
| `ScreensProofs!ReserveExactCorrect`, `RowsInMatrixCorrect` | the properties of these names | - |
| `ScreensProofs!ScreenShowsCorrect`, `ProgressForwardCorrect` | the properties of these names | - |
| `ScreensProofs!ShownIsCurrentCorrect`, `HighlightSelectableCorrect`, `BrowseDescendsCorrect` | the properties of these names | - |
| `ScreensProofs!MovesShorten` | each round of the highlight loop ends it or comes closer to every item that can be chosen (`MoveShortens`) | - |
| `ScreensProofs!TagBoxSoundCorrect` | `TagBoxSound` | `OneItemPerTag`: no menu has two items for one tag |
| `SideloaderProofs!KicksOwnDeviceCorrect`, `FreedUnusedCorrect` | the properties of these names | - |
| `SideloadStreamProofs!TransferInvariant` | the inductive invariant `TransferInv` | - |
| `SideloadStreamProofs!CloseAllFindsNoneCorrect`, `WholeFileCorrect` | the properties of these names | - |
| `EventProofs!FdInvariant`, `PendingSoundCorrect` | the inductive invariant `FdInv`, `PendingSound` | - |
| `PackageProofs!WipeAskedCorrect`, `RootsFreeCorrect` | the properties of these names | - |
| `PackageProofs!LibraryKeptCorrect` | `LibraryKept` | `~Volatile`: durable directories |
| `PackageProofs!OneOffsetCorrect` | `OneOffset` | - |
| `PackageProofs!HashInvariant`, `TableIsSetCorrect` | the inductive invariant `HashInv`, `TableIsSet` | - |
| `EdifyProofs!ScriptStops` | the same as `AbortStops`, of each expression of any script, also of those the run does not build | - |
| `EdifyProofs!AbortStopsCorrect`, `NullReturnedCorrect` | `AbortStops`, `NullReturned` | - |

They hold for all values of the constants that meet the named assumptions of the modules. The
assumptions in the table are needed: without `NoSilentFault` there is `boot_killed` (and a
failing mount of /data, `roots.c:333`), without `FileOnly` `boot_ota_bcb`, without durable
directories `applypatch_powerloss` and its counterpart of `Retouch`, and without the check the
interrupted partition write of section 3. `OneItemPerTag` is of another
kind: `prompt_and_wait` toggles the box of the item that was chosen and of no other
(`recovery.c:1605`), so a second item for the same tag keeps its old box. "-" is no further assumption; the
exceptions of section 3 are part of the properties proved.

*Wipes.* `WipeRestartable` speaks of the moment the main system runs. `WipeInv` adds what
leads there: while a wipe is promised the BCB holds its command, or the wipe is done on
both views of /cache; the running process works on what the BCB holds; and nothing of
`finish_recovery()` is reached before the wipe is done.

*OTA.* The message written before the install has no arguments, so the restart depends on
the command file. `OtaInv` says that while the update is owed the file is there, in both
views of /cache, and the BCB leads to recovery.

*Patching.* `SafeInv` adds to `Recoverable`: what precedes the patch at work is new and what
follows an uninstalled patch is untouched (`OrderInv`), so the one saved copy is never
needed by two patches; past the checks a partition is good unless it is being written
(`PartitionInv`); the source is in place until it is saved (`SourceInv`), and from then on
the copy is (`CopyInv`). `RunsEnd` needs none of it: the steps left are counted by the patches
to come and the attempts and points of the one at work. The second attempt does not lead to a
third since `retry` is 0 in it.

*The end of recovery.* `FinishInv` follows the BCB and the command file through
`finish_recovery()`: clear once reset, gone from /cache once unlinked, gone from flash once
synced. `LogInv` keeps `tmplog_offset` from running ahead of what the log file holds.
`IntentInv` says that the intent is on /cache from its write on, and on flash at the reboot.
`StaleInv`, for `NoStaleErase`, says that as long as nothing has failed a command to erase is
nowhere (BCB, command file, arguments of the run) unless an erase was asked for, and that from
the erase on the BCB holds it until the format of /cache has removed the command file.

*Keys.* `CancelInv` joins the queue to the sideload: a cancel entry exists only after the
thread has queued its only one and until the main thread has joined it and cleared the queue.
Hence one entry too many, and no menu but one to see it. `CancelDelivered` adds `WaiterInv`,
that the main thread does not wait while it has a key, so that a wait never replaces a cancel
that was taken; the other steps append behind the entry or take what is before it. `RepeatInv` says that after a late
repeat the key is no longer held or handled; `LitInv`, that the timer is stopped where the
menu loop is about to start it.

*Console.* `ConsoleInv` bounds the cursor within a print, where the reserve may be positive,
by lemmas on each movement of the cursor. What a scroll may read is bounded by lemmas on
`stores`: a forced top row passes through no value above the rows the screen can show, so only
the row itself can mislead a scroll, and `torn` says when it has.

*Screen.* `ScreenInv` says that the top of the log's ring is the row after the one written
(`TextInv`), that the items drawn exist, include the selected one and leave rows for the log
(`MenuInv`), and that no more than a whole scope of progress is filled (`BarInv`).

*Menus.* `ShownIsCurrent` with the types is inductive: every push that fails is popped, and
only a ".." that fails pops a level it had not pushed. `BoxInv` says that only tags have a box.
`BrowseDescends` needs that the sorted list of a directory has "../" at its head unless a
package sorts before it, and `DirsInv`, which ties the browsing calls to the point of
`prompt_and_wait`. The loops
of `get_menu_selection()` are described by the item they stop at, the least of those ahead
or else the least of all; that there is one is an induction, see below.

*Scripts.* `TurnInv` says whose turn it is by the two triggers; `TalkInv` adds what is on the
page: the question asked last, then its answer. Each step is then one of `Dialogue` or a
stutter.

*Sideload.* `DeviceInv`: the device of a session is open exactly until the thread that kicked
its transport has closed it. `LifeInv`: `ref_count` is the number of threads left, and the
message that removes a transport is sent when it is zero.

*Transfer.* The host and the server pass one turn between them (`TurnInv` of
`SideloadStreamProofs`): the host has it until it sends OPEN or a block, and gets it back with
the OKAY for that. On the way it is on the wire, in the queue of the main loop, in the backlog,
or on its way back, and in one place only. `OrderInv` adds which block it is: the one after
those that have arrived. `CloseInv` says that SYNC(0, 0) is the last packet a transport carries,
so that no socket is left when the input thread calls `close_all_sockets()`. `FileInv` says
that the service that created the file last finds there what it has written, or a block of the
same number that another service has written since.

*Event loop.* `FdInv` is `PendingSound` with the types: a descriptor leaves the list in the
step that clears its events, and a number used again starts without events.

*Packages.* `FlagInv`: the wipe flag is set by the package at work only. `FilesInv`: nothing
of /system or /data is open outside a copy. `RetouchInv`: a running call has moved all
libraries before the one at hand to its offset, which is what `OneOffset` needs; and with durable
directories (`KeptInv`) the two views agree, and a library that is not in place is the first
not moved and has its copy in the saved file.

*Hash table.* `HashInv` says that no item is in two slots, that no empty slot lies between the
slot an item hashes to and the one it is in, that the counters are exact, and that at most
5/8 of the slots are used. The second part is what a removal would break without tombstones,
and the last is why every probe ends. `resizeHash()` is proved by an invariant of its loop
(`LoopInv`): the new table has the entries of the slots passed, and room for the others.
`roundUpPower2()` yields a size above 0 since a power of 2 lies between a number and its
double.

*Scripts of a package.* A result is `Good` when its log says whether its value is NULL: without
a mark if it is not, and with nothing but marks from the first one on if it is. Lemmas show
that good operands give a good result: of the operators and `assert()`, `ifelse()`, `abort()`
one by one, and of a registered function from what `FnOk` says of its record (an argument that
aborts makes it abort, in either order of evaluation and on either side of the split, and an
argument it returns is one it has read as a string), which the two retouch functions do not
meet. `ScriptStops` follows: the first expression of a script whose
result is not good would have good operands. `ScriptInv`, that the parser has built a script, is
inductive and joins this to `AbortStops`. `NullReturned` needs only the last call: of arguments
none of which kills the updater, `ReadArgs()` of either part stops with NULL if it stops, and of
the part that has a NULL it does.

*Induction.* No step uses a schema of induction, which these provers cannot apply. Where one
is needed (the loop of `resizeHash()`, the evaluation of a script, the existence of a first
slot or item, of a sorted list, of a power of 2) the proof takes the least number at which the claim fails, from the
well-foundedness of the naturals, and refutes it.

Only proved: `ProgressForward`, that the bar never goes back while it is shown. Only model-checked: liveness (`RecoveryEnds`, `Completes`, `SideloadMenuEnds`, `ConsoleEnds`,
`MovesEnd`, `LedGoesOff`, `UnplugFrees`, that every question is answered), which rests on
fairness that this prover does not handle. Of three of them the part that is not about fairness
is proved for all constants: `RunsEnd`, `CancelDeliveredCorrect` and `MovesShorten` say that each
step of the loop in question gets closer to its end (for `SideloadMenuEnds`: that the entry which
ends it is not lost); that the step is taken is what TLC checks. Every safety property
of the passing runs is proved, under the assumptions of the table.

## 5. Limits of the models

- `RecoveryBoot`: argument lengths are left out (the BCB holds 1024 bytes, `recovery.c:489`).
  Of the menu, wiping data, wiping /cache and installing a package from the SD card are
  modelled. Opening and writing files on a mounted /cache succeeds.
- `ApplyPatch`: reads of intact files succeed. A target elsewhere that cannot be read for a
  moment would be patched again, and could replace the copy another patch needs. A partition
  as source with a file as target is not among the kinds. The script's form (space, checks,
  patches) is that of the packages these functions are made for. A file with another target
  is not checked first.
- `UserInterface`: a pid that is reused after the server was reaped (`install.c:632`) is not
  modelled. `ConsoleEnds` is checked for one console; `console_poke` shows what a second does.
- `Menus`: menu files have an item and fit the limit of items, and `MenuFiles` has every name
  an item leads to. `MovesEnd` is about menus with an item that can
  be chosen: without one the loop does not end (`recovery.c:709`).
- `Scripts`: a script runs one `imenu` or `iinput` at a time.
- `Sideloader`: a host opens one service in a session. The event loop is taken to call back
  for every wanted event, though `fdevent_set()` may drop one of a round: `select()` reports
  it again in the next.
- `Retouch`: the words that are patched are abstracted to one offset per library.
- `ConsoleScreen`: a console that has lost count, or scrolled by a torn row, prints no more (a
  bound), so nothing is said of what it draws from then on.
- `Edify`: the scripts TLC builds are chains of calls, in which the other arguments of a call
  are calls that leave an entry in the log. Of the argument counts a registered function does
  not accept only 0 is tried, and of those it accepts 3 and 5 are left out. `ScriptStops` is
  about all scripts and all argument counts up to `MaxArgs`. A string without contents, which
  a failed retouch returns, passes for a string where `apply_patch()` or `sha1_check()` takes a
  value; the code would read through its NULL there.

## 6. Not modelled

`bsdiff`, `imgdiff`, `bspatch` and `imgpatch` transform bytes, and what they compute is out of
reach of bounded checking; `ApplyPatch` takes them as a step that yields the target's sha1
or fails. Zip parsing, the edify lexer, the volume table, image files and drawing are
sequential input and output without state that threads or calls share. The character tables
of `qwerty.c` are constant data. `properties.c` reads settings once. The tools under `tools/`
and `make-overlay.py` do not run on the device.
