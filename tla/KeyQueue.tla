------------------------------ MODULE KeyQueue ------------------------------
(***************************************************************************)
(* The key queue of the recovery's screen (ui.c).                          *)
(*                                                                         *)
(* Three threads append to one array of key codes: the input thread        *)
(* (input_callback), the key repeat thread (kbd_thread) and, while a       *)
(* sideload menu is up, the thread that waits for the sideload server      *)
(* (ui_cancel_wait_key).  One thread, the main one, takes keys out with    *)
(* ui_wait_key, which sleeps on a condition variable.  The array is        *)
(* guarded by key_queue_mutex, so each locked region is one step; what the *)
(* code reads outside the lock is a step of its own.                       *)
(*                                                                         *)
(* key_pressed is left out: code that reads it branches either way.        *)
(***************************************************************************)
EXTENDS Integers, Sequences, FiniteSets

CONSTANTS
    Keys,           \* key codes
    Modifiers,      \* shift, caps lock and alt: never repeated
    MenuAction,     \* what menu_handle_key makes of a key
    KeyUp, KeyDown, \* the codes faked for the trackball
    Motions,        \* the REL_Y values the trackball reports
    QueueMax,       \* sizeof(key_queue) / sizeof(key_queue[0]), 256 in the code
    AccumTicks      \* ticks before a held key repeats, 14 in the code

Cancel   == "cancel"     \* -2, put in by ui_cancel_wait_key
TimedOut == "timedout"   \* -1, what ui_wait_key returns without a key
NoKey    == "nokey"      \* no key: ui_wait_key has not returned, no key is down

MenuActions == {"up", "down", "select", "none"}

ASSUME KeysAssumption ==
    /\ Keys \cap {Cancel, TimedOut, NoKey} = {}
    /\ KeyUp \in Keys /\ KeyDown \in Keys /\ Modifiers \subseteq Keys
    /\ MenuAction \in [Keys -> MenuActions]
    /\ Motions \subseteq Int
    /\ QueueMax \in Nat \ {0} /\ AccumTicks \in Nat \ {0}

VARIABLES
    key_queue,       \* key_queue[0 .. key_queue_len - 1]
    wait_key_break,  \* 0 or 1
    waiter,          \* the main thread on the condition variable
    key,             \* what ui_wait_key returned
    last_key_down,
    rel_sum,
    kbd,             \* where kbd_thread is
    handling_key,
    no_accum_ticks,  \* first_accum is no_accum_ticks < AccumTicks
    late             \* history: repeats of a released key since a key was pressed

queueVars == <<key_queue, wait_key_break, waiter, key>>
inputVars == <<last_key_down, rel_sum>>
kbdVars   == <<kbd, handling_key, no_accum_ticks, late>>
keyVars   == <<queueVars, inputVars, kbdVars>>

KeyInit ==
    /\ key_queue = <<>> /\ wait_key_break = 0 /\ waiter = "none" /\ key = NoKey
    /\ last_key_down = NoKey /\ rel_sum = 0
    /\ kbd = "tick" /\ handling_key = NoKey /\ no_accum_ticks = 0 /\ late = 0

-----------------------------------------------------------------------------
(***************************************************************************)
(* Appending.                                                              *)
(***************************************************************************)
\* pthread_cond_signal: wakes the main thread if it sleeps, else is lost.
Signal == waiter' = IF waiter = "blocked" THEN "woken" ELSE waiter

\* Mutant: the bound is off by one.
PutKey_Mutant(k) ==
    \/ Len(key_queue) <= QueueMax /\ key_queue' = Append(key_queue, k) /\ Signal
    \/ Len(key_queue) > QueueMax /\ UNCHANGED <<key_queue, waiter>>

\* A full queue drops the key.
PutKey(k) ==
    \/ Len(key_queue) < QueueMax /\ key_queue' = Append(key_queue, k) /\ Signal
    \/ Len(key_queue) >= QueueMax /\ UNCHANGED <<key_queue, waiter>>

\* A key event of the keypad: 1 pressed, 0 released, 2 repeated by the kernel.
KeyEvent ==
    \E code \in Keys, value \in 0 .. 2 :
        /\ rel_sum' = 0
        /\ last_key_down' = IF value = 1 THEN code
                            ELSE IF value = 0 /\ code = last_key_down THEN NoKey
                            ELSE last_key_down
        /\ \/ value > 0 /\ PutKey(code)
           \/ value = 0 /\ UNCHANGED <<key_queue, waiter>>
        /\ late' = IF value = 1 THEN 0 ELSE late
        /\ UNCHANGED <<wait_key_break, key, kbd, handling_key, no_accum_ticks>>

\* The trackball: enough motion one way is a key that is pressed and never
\* released.
Trackball ==
    \E value \in Motions :
        LET sum == rel_sum + value
        IN  /\ \/ sum \in -3 .. 3 /\ rel_sum' = sum /\ UNCHANGED <<key_queue, waiter>>
               \/ sum > 3 /\ rel_sum' = 0 /\ PutKey(KeyDown)
               \/ sum < -3 /\ rel_sum' = 0 /\ PutKey(KeyUp)
            /\ UNCHANGED <<wait_key_break, key, last_key_down, kbdVars>>

input_callback == KeyEvent \/ Trackball

\* The cancel entry is appended whatever the length.
ui_cancel_wait_key ==
    /\ key_queue' = Append(key_queue, Cancel)
    /\ Signal
    /\ UNCHANGED <<wait_key_break, key, inputVars, kbdVars>>

\* Mutant: waking sets no flag, so the sleeper finds nothing and sleeps again.
ui_wake_key_waiting_thread_Mutant ==
    /\ Signal
    /\ UNCHANGED <<wait_key_break, key_queue, key, inputVars, kbdVars>>

ui_wake_key_waiting_thread ==
    /\ wait_key_break' = 1
    /\ Signal
    /\ UNCHANGED <<key_queue, key, inputVars, kbdVars>>

-----------------------------------------------------------------------------
(***************************************************************************)
(* kbd_thread: one tick every 50 ms.                                       *)
(***************************************************************************)
\* Mutant: a released key is still considered held.
KbdHandling_Mutant ==
    /\ kbd = "tick" /\ handling_key # NoKey
    /\ \/ /\ last_key_down # NoKey /\ last_key_down # handling_key
          /\ handling_key' = NoKey
          /\ UNCHANGED <<kbd, no_accum_ticks>>
       \/ /\ last_key_down \in {NoKey, handling_key} /\ no_accum_ticks < AccumTicks
          /\ no_accum_ticks' = no_accum_ticks + 1
          /\ UNCHANGED <<kbd, handling_key>>
       \/ /\ last_key_down \in {NoKey, handling_key} /\ no_accum_ticks = AccumTicks
          /\ kbd' = "repeat"
          /\ UNCHANGED <<handling_key, no_accum_ticks>>
    /\ UNCHANGED <<queueVars, inputVars, late>>

\* The unlocked test of last_key_down while a key is being handled.
KbdHandling ==
    /\ kbd = "tick" /\ handling_key # NoKey
    /\ \/ /\ last_key_down # handling_key
          /\ handling_key' = NoKey
          /\ UNCHANGED <<kbd, no_accum_ticks>>
       \/ /\ last_key_down = handling_key /\ no_accum_ticks < AccumTicks
          /\ no_accum_ticks' = no_accum_ticks + 1
          /\ UNCHANGED <<kbd, handling_key>>
       \/ /\ last_key_down = handling_key /\ no_accum_ticks = AccumTicks
          /\ kbd' = "repeat"
          /\ UNCHANGED <<handling_key, no_accum_ticks>>
    /\ UNCHANGED <<queueVars, inputVars, late>>

\* The repeat itself, under the lock, of the key tested before it.
KbdRepeat ==
    /\ kbd = "repeat"
    /\ PutKey(handling_key)
    /\ kbd' = "tick"
    /\ late' = IF last_key_down = handling_key THEN 0 ELSE late + 1
    /\ UNCHANGED <<wait_key_break, key, inputVars, handling_key, no_accum_ticks>>

\* The unlocked tests before a key is taken up.
KbdConsider ==
    /\ kbd = "tick" /\ handling_key = NoKey
    /\ last_key_down \in Keys \ Modifiers
    /\ MenuAction[last_key_down] # "select"
    /\ kbd' = "take"
    /\ UNCHANGED <<queueVars, inputVars, handling_key, no_accum_ticks, late>>

\* last_key_down is read again: it may be another key by now, or none.
KbdTake ==
    /\ kbd = "take"
    /\ handling_key' = last_key_down
    /\ kbd' = "tick" /\ no_accum_ticks' = 0 /\ late' = 0
    /\ UNCHANGED <<queueVars, inputVars>>

kbd_thread == KbdHandling \/ KbdRepeat \/ KbdConsider \/ KbdTake

-----------------------------------------------------------------------------
(***************************************************************************)
(* ui_wait_key, ui_clear_key_queue: the main thread.                       *)
(***************************************************************************)
TakeKey ==
    /\ key' = Head(key_queue) /\ key_queue' = Tail(key_queue)
    /\ waiter' = "none"
    /\ UNCHANGED wait_key_break

\* Entering: the break flag is not looked at before sleeping.
WaitEnter ==
    /\ waiter = "none" /\ key = NoKey
    /\ \/ key_queue # <<>> /\ TakeKey
       \/ key_queue = <<>> /\ waiter' = "blocked" /\ UNCHANGED <<key_queue, wait_key_break, key>>

\* Back from pthread_cond_timedwait: a break first, then a key, then, on a
\* timeout with no cable plugged in, -1.
WaitReturn(timeout) ==
    \/ /\ wait_key_break = 1
       /\ wait_key_break' = 0 /\ key' = TimedOut /\ waiter' = "none"
       /\ UNCHANGED key_queue
    \/ wait_key_break = 0 /\ key_queue # <<>> /\ TakeKey
    \/ /\ wait_key_break = 0 /\ key_queue = <<>>
       /\ \/ waiter' = "blocked" /\ UNCHANGED key
          \/ timeout /\ key' = TimedOut /\ waiter' = "none"
       /\ UNCHANGED <<key_queue, wait_key_break>>

WaitWoken   == waiter = "woken" /\ WaitReturn(FALSE)
WaitTimeout == waiter = "blocked" /\ WaitReturn(TRUE)

ui_clear_key_queue == key_queue' = <<>>
=============================================================================
