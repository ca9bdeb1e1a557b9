--------------------------- MODULE UserInterface ---------------------------
(***************************************************************************)
(* The main thread while it talks to the user, and the threads and         *)
(* processes it works with: the menu loop and the screen-off timer         *)
(* (recovery.c), the sideload menu and its server (install.c), the text    *)
(* input (ui.c) and the console with its shell (console.c).                *)
(*                                                                         *)
(* The items of a menu and what they do are in Menus; here a selected item *)
(* of the main menu is a choice of what the main thread does next.         *)
(***************************************************************************)
EXTENDS KeyQueue

CONSTANTS
    ScreenTimeout,  \* battery ticks before the screen goes dark, 15 in the code
    TextMax,        \* USER_INPUT_TEXT_MAX, 32 in the code
    ChordKeys,      \* the two keys that together kill the shell
    MaxConsoles,    \* bound: consoles opened in a behaviour
    Jobs            \* TRUE: the shell may leave background jobs behind

ASSUME UiAssumption ==
    /\ ScreenTimeout \in Nat \ {0} /\ TextMax \in Nat
    /\ ChordKeys \subseteq Keys
    /\ MaxConsoles \in Nat
    /\ Jobs \in BOOLEAN

TimerOff  == -1   \* SCREEN_TIMEOUT_TIMER_OFF
ScreenOff == -2   \* SCREEN_TIMEOUT_SCREEN_OFF

VARIABLES
    pc,               \* where the main thread is
    menu,             \* the menu that is up: "main" or "sideload"
    key_timeout,
    screen_off_timer,
    screen,           \* "on" or "off"
    result,           \* what get_menu_selection returned
    sideloader,       \* the server process
    sideload_thread,
    typed,            \* characters of a text input
    session,          \* number of consoles started; the current one
    bash,             \* per console: its shell
    job,              \* per console: 1 while a background job holds the terminal
    childfd,          \* the console whose terminal it is, 0 when closed
    reader,           \* per console: its read thread
    console_read_thread_terminated

timerVars    == <<screen_off_timer, screen>>
sideloadVars == <<sideloader, sideload_thread>>
consoleVars  == <<session, bash, job, childfd, reader, console_read_thread_terminated>>
menuVars     == <<menu, key_timeout, result>>
uiVars       == <<keyVars, pc, menuVars, timerVars, sideloadVars, typed, consoleVars>>

Consoles == 1 .. MaxConsoles
MenuPcs    == {"menu_clear", "menu_timer", "menu_wait", "menu_act"}
ConsolePcs == {"console_spawn", "console_wait", "console_quit", "console_reap", "console_close"}
WaitPcs    == {"menu_wait", "text_wait", "console_wait"}
OtherPcs   == {"menu_done", "sideload_join", "sideload_finish", "text_wait"}

\* The reader of console i: where it is, and whose terminal it sleeps on.
ReaderPcs == {"none", "top", "reading", "eof", "wake", "done"}

UiInit ==
    /\ KeyInit
    /\ pc = "menu_clear" /\ menu = "main" /\ key_timeout = 0 /\ result = "item"
    /\ screen_off_timer = TimerOff /\ screen = "on"
    /\ sideloader = "none" /\ sideload_thread = "none"
    /\ typed = 0
    /\ session = 0 /\ childfd = 0 /\ console_read_thread_terminated = 0
    /\ bash = [i \in Consoles |-> "none"] /\ job = [i \in Consoles |-> 0]
    /\ reader = [i \in Consoles |-> [pc |-> "none", on |-> 0]]

-----------------------------------------------------------------------------
(***************************************************************************)
(* get_menu_selection, with the screen-off timer it shares with            *)
(* battery_thread under screen_off_timer_mutex.                            *)
(***************************************************************************)
ui_screen_on  == screen' = "on"
ui_screen_off == screen' = "off"

MenuClear ==
    /\ pc = "menu_clear"
    /\ ui_clear_key_queue
    /\ key_timeout' = 0 /\ pc' = "menu_timer"
    /\ UNCHANGED <<wait_key_break, waiter, key, inputVars, kbdVars, menu, result,
                   timerVars, sideloadVars, typed, consoleVars>>

MenuTimer ==
    /\ pc = "menu_timer"
    /\ screen_off_timer' = IF key_timeout = 1 THEN screen_off_timer ELSE 0
    /\ key_timeout' = 0 /\ pc' = "menu_wait"
    /\ UNCHANGED <<keyVars, menu, result, screen, sideloadVars, typed, consoleVars>>

\* ui_wait_key, for whoever called it.
ui_wait_key ==
    /\ pc \in WaitPcs
    /\ WaitEnter \/ WaitWoken
    /\ UNCHANGED <<inputVars, kbdVars, pc, menuVars, timerVars, sideloadVars, typed, consoleVars>>

ui_wait_key_timeout ==
    /\ pc \in WaitPcs
    /\ WaitTimeout
    /\ UNCHANGED <<inputVars, kbdVars, pc, menuVars, timerVars, sideloadVars, typed, consoleVars>>

\* The key a wait returned is consumed.
GotKey == key # NoKey /\ key' = NoKey

\* Mutant: any negative key is a timeout.
MenuCancelled_Mutant ==
    /\ pc = "menu_wait" /\ key = Cancel /\ GotKey
    /\ key_timeout' = 1 /\ pc' = "menu_timer"
    /\ UNCHANGED <<key_queue, wait_key_break, waiter, inputVars, kbdVars, menu, result,
                   timerVars, sideloadVars, typed, consoleVars>>

\* The cancel entry ends the menu with -1.
MenuCancelled ==
    /\ pc = "menu_wait" /\ key = Cancel /\ GotKey
    /\ ui_screen_on /\ screen_off_timer' = TimerOff
    /\ result' = "cancel" /\ pc' = "menu_done"
    /\ UNCHANGED <<key_queue, wait_key_break, waiter, inputVars, kbdVars, menu, key_timeout,
                   sideloadVars, typed, consoleVars>>

MenuTimedOut ==
    /\ pc = "menu_wait" /\ key = TimedOut /\ GotKey
    /\ key_timeout' = 1 /\ pc' = "menu_timer"
    /\ UNCHANGED <<key_queue, wait_key_break, waiter, inputVars, kbdVars, menu, result,
                   timerVars, sideloadVars, typed, consoleVars>>

\* Mutant: the key that lights the screen is acted on as well.
MenuKey_Mutant ==
    /\ pc = "menu_wait" /\ key \in Keys
    /\ screen' = screen /\ screen_off_timer' = TimerOff /\ pc' = "menu_act"
    /\ UNCHANGED <<keyVars, menuVars, sideloadVars, typed, consoleVars>>

\* A key while the screen is dark lights it and is dropped; the timer keeps
\* its value until the loop starts it again.
MenuKey ==
    /\ pc = "menu_wait" /\ key \in Keys
    /\ \/ /\ screen_off_timer = ScreenOff
          /\ ui_screen_on /\ UNCHANGED screen_off_timer
          /\ GotKey /\ pc' = "menu_timer"
          /\ UNCHANGED <<key_queue, wait_key_break, waiter, inputVars, kbdVars>>
       \/ /\ screen_off_timer # ScreenOff
          /\ screen_off_timer' = TimerOff /\ UNCHANGED screen
          /\ pc' = "menu_act" /\ UNCHANGED keyVars
    /\ UNCHANGED <<menuVars, sideloadVars, typed, consoleVars>>

\* menu_handle_key: the highlight moves, or the highlighted item is chosen.
MenuAct ==
    /\ pc = "menu_act" /\ GotKey
    /\ \/ MenuAction[key] = "select" /\ result' = "item" /\ pc' = "menu_done"
       \/ MenuAction[key] # "select" /\ pc' = "menu_timer" /\ UNCHANGED result
    /\ UNCHANGED <<key_queue, wait_key_break, waiter, inputVars, kbdVars, menu, key_timeout,
                   timerVars, sideloadVars, typed, consoleVars>>

\* One round of battery_thread; it ends for good when a battery file cannot
\* be opened, that is, when this step is taken no more.
battery_thread ==
    /\ LET t == IF screen_off_timer >= 0 THEN screen_off_timer + 1 ELSE screen_off_timer
       IN  \/ t = ScreenTimeout /\ ui_screen_off /\ screen_off_timer' = ScreenOff
           \/ t # ScreenTimeout /\ screen_off_timer' = t /\ UNCHANGED screen
    /\ UNCHANGED <<keyVars, pc, menuVars, sideloadVars, typed, consoleVars>>

-----------------------------------------------------------------------------
(***************************************************************************)
(* The main menu's items that wait for the user themselves.                *)
(***************************************************************************)
\* Any other item: its work is done and the menu comes up again.
ChooseOther ==
    /\ pc = "menu_done" /\ menu = "main"
    /\ pc' = "menu_clear"
    /\ UNCHANGED <<keyVars, menuVars, timerVars, sideloadVars, typed, consoleVars>>

\* sideload_package up to its menu: adbd is stopped, the server forked, the
\* thread that waits for it created.
ChooseSideload ==
    /\ pc = "menu_done" /\ menu = "main"
    /\ sideloader' = "running" /\ sideload_thread' = "waitpid"
    /\ menu' = "sideload" /\ pc' = "menu_clear"
    /\ UNCHANGED <<keyVars, key_timeout, result, timerVars, typed, consoleVars>>

\* The server exits: after a complete package, or when it fails.
SideloadExits ==
    /\ sideloader = "running"
    /\ sideloader' = "exited"
    /\ UNCHANGED <<keyVars, pc, menuVars, timerVars, sideload_thread, typed, consoleVars>>

\* adb_sideload_thread: waitpid, then ui_cancel_wait_key.
SideloadReaped ==
    /\ sideload_thread = "waitpid" /\ sideloader = "exited"
    /\ sideloader' = "reaped" /\ sideload_thread' = "cancel"
    /\ UNCHANGED <<keyVars, pc, menuVars, timerVars, typed, consoleVars>>

SideloadCancelKey ==
    /\ sideload_thread = "cancel"
    /\ ui_cancel_wait_key
    /\ sideload_thread' = "done"
    /\ UNCHANGED <<pc, menuVars, timerVars, sideloader, typed, consoleVars>>

\* The sideload menu returned: kill the server.
SideloadKill ==
    /\ pc = "menu_done" /\ menu = "sideload"
    /\ sideloader' = IF sideloader = "running" THEN "exited" ELSE sideloader
    /\ pc' = "sideload_join"
    /\ UNCHANGED <<keyVars, menuVars, timerVars, sideload_thread, typed, consoleVars>>

\* Mutant: the thread is not waited for.
SideloadJoin_Mutant ==
    /\ pc = "sideload_join"
    /\ ui_clear_key_queue
    /\ pc' = "sideload_finish"
    /\ UNCHANGED <<wait_key_break, waiter, key, inputVars, kbdVars, menuVars, timerVars,
                   sideloadVars, typed, consoleVars>>

\* pthread_join, then the queue is cleared: a cancel entry the menu did not
\* take goes with it.
SideloadJoin ==
    /\ pc = "sideload_join" /\ sideload_thread = "done"
    /\ ui_clear_key_queue
    /\ pc' = "sideload_finish"
    /\ UNCHANGED <<wait_key_break, waiter, key, inputVars, kbdVars, menuVars, timerVars,
                   sideloadVars, typed, consoleVars>>

\* A result below zero installs the file if there is one (InstallPackage), the
\* file is removed either way and adbd started.
SideloadFinish ==
    /\ pc = "sideload_finish"
    /\ sideloader' = "none" /\ sideload_thread' = "none"
    /\ menu' = "main" /\ result' = "item" /\ pc' = "menu_clear"
    /\ UNCHANGED <<keyVars, key_timeout, timerVars, typed, consoleVars>>

\* A script asks for a text: ui_user_input.
ChooseText ==
    /\ pc = "menu_done" /\ menu = "main"
    /\ typed' = 0 /\ pc' = "text_wait"
    /\ UNCHANGED <<keyVars, menuVars, timerVars, sideloadVars, consoleVars>>

\* ui_user_input's loop: enter ends it, delete takes a character back, a
\* character is taken while there is room; anything else is ignored.
TextKey ==
    /\ pc = "text_wait" /\ GotKey
    /\ \/ /\ key \in Keys /\ MenuAction[key] = "select"
          /\ typed' = 0 /\ pc' = "menu_clear"
       \/ /\ key \in Keys /\ MenuAction[key] # "select"
          /\ typed' \in {typed, IF typed > 0 THEN typed - 1 ELSE 0,
                         IF typed < TextMax THEN typed + 1 ELSE typed}
          /\ UNCHANGED pc
       \/ key \notin Keys /\ UNCHANGED <<typed, pc>>
    /\ UNCHANGED <<key_queue, wait_key_break, waiter, inputVars, kbdVars, menuVars, timerVars,
                   sideloadVars, consoleVars>>

-----------------------------------------------------------------------------
(***************************************************************************)
(* The console: run_console, console_read_thread and the shell.            *)
(***************************************************************************)
\* run_console up to the keys being cleared; the shell runs from here on.
ChooseConsole ==
    /\ pc = "menu_done" /\ menu = "main" /\ session < MaxConsoles
    /\ session' = session + 1 /\ childfd' = session + 1
    /\ bash' = [bash EXCEPT ![session + 1] = "alive"]
    /\ ui_clear_key_queue
    /\ pc' = "console_spawn"
    /\ UNCHANGED <<wait_key_break, waiter, key, inputVars, kbdVars, menuVars, timerVars,
                   sideloadVars, typed, job, reader, console_read_thread_terminated>>

ConsoleSpawn ==
    /\ pc = "console_spawn"
    /\ console_read_thread_terminated' = 0
    /\ reader' = [reader EXCEPT ![session] = [pc |-> "top", on |-> 0]]
    /\ pc' = "console_wait"
    /\ UNCHANGED <<keyVars, menuVars, timerVars, sideloadVars, typed, session, bash, job, childfd>>

\* A wait returned: first whether the read thread has ended, then the key; the
\* chord kills the shell, any other key goes to it or scrolls.
ConsoleKey ==
    /\ pc = "console_wait" /\ GotKey
    /\ \/ console_read_thread_terminated = 1 /\ pc' = "console_reap"
       \/ /\ console_read_thread_terminated = 0
          /\ \/ key \in ChordKeys /\ pc' = "console_quit"
             \/ UNCHANGED pc
    /\ UNCHANGED <<key_queue, wait_key_break, waiter, inputVars, kbdVars, menuVars, timerVars,
                   sideloadVars, typed, consoleVars>>

\* kill(SIGKILL) and waitpid.
ConsoleQuit ==
    /\ pc = "console_quit"
    /\ bash' = [bash EXCEPT ![session] = "reaped"]
    /\ pc' = "console_close"
    /\ UNCHANGED <<keyVars, menuVars, timerVars, sideloadVars, typed, session, job, childfd,
                   reader, console_read_thread_terminated>>

\* waitpid of a shell that is expected to be dead.
ConsoleReap ==
    /\ pc = "console_reap" /\ bash[session] = "dead"
    /\ bash' = [bash EXCEPT ![session] = "reaped"]
    /\ pc' = "console_close"
    /\ UNCHANGED <<keyVars, menuVars, timerVars, sideloadVars, typed, session, job, childfd,
                   reader, console_read_thread_terminated>>

\* The terminal is closed; the read thread is not joined.
ConsoleClose ==
    /\ pc = "console_close"
    /\ childfd' = 0 /\ pc' = "menu_clear"
    /\ UNCHANGED <<keyVars, menuVars, timerVars, sideloadVars, typed, session, bash, job,
                   reader, console_read_thread_terminated>>

SetReader(i, r) ==
    /\ reader' = [reader EXCEPT ![i] = r]
    /\ UNCHANGED <<pc, menuVars, timerVars, sideloadVars, typed, session, bash, job, childfd>>

\* The read begins on whatever terminal childfd names now.
ReaderRead(i) ==
    /\ reader[i].pc = "top"
    /\ SetReader(i, IF childfd = 0 THEN [pc |-> "eof", on |-> 0]
                    ELSE [pc |-> "reading", on |-> childfd])
    /\ UNCHANGED <<keyVars, console_read_thread_terminated>>

\* Output of the shell or of its jobs is printed.
ReaderData(i) ==
    /\ reader[i].pc = "reading"
    /\ bash[reader[i].on] = "alive" \/ job[reader[i].on] = 1
    /\ SetReader(i, [pc |-> "top", on |-> 0])
    /\ UNCHANGED <<keyVars, console_read_thread_terminated>>

\* No process has the terminal open any more.
ReaderEof(i) ==
    /\ reader[i].pc = "reading"
    /\ bash[reader[i].on] # "alive" /\ job[reader[i].on] = 0
    /\ SetReader(i, [pc |-> "eof", on |-> 0])
    /\ UNCHANGED <<keyVars, console_read_thread_terminated>>

ReaderTerminated(i) ==
    /\ reader[i].pc = "eof"
    /\ console_read_thread_terminated' = 1
    /\ SetReader(i, [pc |-> "wake", on |-> 0])
    /\ UNCHANGED keyVars

ReaderWake(i) ==
    /\ reader[i].pc = "wake"
    /\ ui_wake_key_waiting_thread
    /\ SetReader(i, [pc |-> "done", on |-> 0])
    /\ UNCHANGED console_read_thread_terminated

\* console_read_thread: a step other than printing output.
ReaderStep(i) == ReaderRead(i) \/ ReaderEof(i) \/ ReaderTerminated(i) \/ ReaderWake(i)

\* The shell exits, or starts a job; a job ends.
ShellStep(i) ==
    /\ \/ bash[i] = "alive" /\ bash' = [bash EXCEPT ![i] = "dead"] /\ UNCHANGED job
       \/ bash[i] = "alive" /\ Jobs /\ job' = [job EXCEPT ![i] = 1] /\ UNCHANGED bash
       \/ job[i] = 1 /\ job' = [job EXCEPT ![i] = 0] /\ UNCHANGED bash
    /\ UNCHANGED <<keyVars, pc, menuVars, timerVars, sideloadVars, typed, session, childfd,
                   reader, console_read_thread_terminated>>

-----------------------------------------------------------------------------
\* The main thread: every step but the clock's.
MainStep ==
    \/ MenuClear \/ MenuTimer \/ MenuCancelled \/ MenuTimedOut \/ MenuKey \/ MenuAct
    \/ ui_wait_key
    \/ ChooseOther \/ ChooseSideload \/ SideloadKill \/ SideloadJoin \/ SideloadFinish
    \/ ChooseText \/ TextKey
    \/ ChooseConsole \/ ConsoleSpawn \/ ConsoleKey \/ ConsoleQuit \/ ConsoleReap \/ ConsoleClose

OtherUnchanged == UNCHANGED <<pc, menuVars, timerVars, sideloadVars, typed, consoleVars>>

UiNext ==
    \/ MainStep
    \/ ui_wait_key_timeout
    \/ input_callback /\ OtherUnchanged
    \/ kbd_thread /\ OtherUnchanged
    \/ battery_thread
    \/ SideloadExits
    \/ SideloadReaped
    \/ SideloadCancelKey
    \/ \E i \in Consoles : ReaderStep(i) \/ ReaderData(i) \/ ShellStep(i)

\* The scheduler runs every thread that can run, and the timed wait ends, if
\* only to see the break flag: with a cable plugged in it starts over.  Nothing
\* is assumed of the user, of the server or of the shell.
UiFairness ==
    /\ WF_uiVars(MainStep)
    /\ WF_uiVars(ui_wait_key_timeout /\ wait_key_break = 1)
    /\ WF_uiVars(SideloadReaped)
    /\ WF_uiVars(SideloadCancelKey)
    /\ \A i \in Consoles : WF_uiVars(ReaderStep(i))

UiSpec     == UiInit /\ [][UiNext]_uiVars
FairUiSpec == UiSpec /\ UiFairness

-----------------------------------------------------------------------------
\* ui_cancel_wait_key appends without looking at the length (ui.c:750).  The
\* array is overrun by one entry at most, and only by that entry: one cancel
\* entry at a time, and every other append keeps to the bound.
OverrunByCancelOnly ==
    /\ Len(key_queue) <= QueueMax + 1
    /\ Len(key_queue) = QueueMax + 1 => key_queue[QueueMax + 1] = Cancel

\* The cancel entry is seen by the sideload menu or by nobody: whichever way
\* that menu ended, sideload_package kills the server, joins the thread and
\* clears the queue, so no other menu ever returns -1.
CancelConfined ==
    key = Cancel \/ (\E i \in 1 .. Len(key_queue) : key_queue[i] = Cancel)
        => menu = "sideload" /\ pc # "sideload_finish"

\* kbd_thread tests last_key_down without the lock and appends under it: a key
\* released in between is repeated once more, and never twice.
RepeatedOnceLate == late <= 1

\* The screen goes dark only while a menu waits for a key, and the key that
\* lights it is not acted on: whatever battery_thread does in between, the
\* screen is lit and the timer stopped while a key is acted on and while the
\* main thread does anything else.
LitWhileActing ==
    /\ screen = "off" => screen_off_timer = ScreenOff
    /\ pc \notin {"menu_timer", "menu_wait"} => screen = "on" /\ screen_off_timer = TimerOff

\* A cancel entry queued while the sideload menu waits ends the menu: the keys
\* before it, a dark screen and timeouts do not keep it from being seen.
SideloadMenuEnds ==
    (/\ menu = "sideload" /\ pc \in MenuPcs \ {"menu_clear"}
     /\ \E i \in 1 .. Len(key_queue) : key_queue[i] = Cancel)
        ~> menu = "main"

\* A console whose shell has exited and left no job is closed, even when the
\* read thread's wake-up comes while the main thread is not asleep and is lost.
ConsoleEnds ==
    \A i \in Consoles :
        (session = i /\ pc \in ConsolePcs /\ bash[i] = "dead" /\ job[i] = 0)
            ~> (pc \notin ConsolePcs)

\* "poked from read thread that bash has stopped" (console.c:917): where
\* run_console waits for the shell because the flag is set, the shell has
\* stopped.
BashHasStopped == pc = "console_reap" => bash[session] = "dead"

=============================================================================
