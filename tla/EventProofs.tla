---------------------------- MODULE EventProofs ----------------------------
(***************************************************************************)
(* The two places where recovery waits for events: the keys of its user    *)
(* interface and the descriptors of the sideload server.                   *)
(*                                                                         *)
(* For any keys, any queue length, any timeouts and any number of          *)
(* consoles: the screen is lit while a key is acted on, the cancel entry   *)
(* of a sideload stays in its menu and overruns the queue by one entry at  *)
(* most, and a released key is repeated at most once.                      *)
(*                                                                         *)
(* For any number of descriptors and of calls in a callback: the list of   *)
(* the event loop holds the open descriptors with undelivered events.      *)
(***************************************************************************)
EXTENDS UserInterface, FdEvents, FiniteSetTheorems, TLAPS

\* The timer is stopped, or waits for the loop to start it, whenever the loop
\* is about to start it: battery_thread cannot darken the screen there.
LitInv ==
    /\ screen \in {"on", "off"} /\ screen_off_timer \in Int /\ key_timeout \in {0, 1}
    /\ screen = "off" => screen_off_timer = ScreenOff
    /\ pc \notin {"menu_timer", "menu_wait"} => screen = "on" /\ screen_off_timer = TimerOff
    /\ pc = "menu_timer" /\ key_timeout = 0 => screen = "on" /\ screen_off_timer < 0

\* The main thread's steps and battery_thread's keep the timer and the screen
\* together.
THEOREM LitInvariant == UiSpec => []LitInv
<1>1. UiInit => LitInv
  BY DEF UiInit, LitInv, TimerOff, ScreenOff
<1>2. LitInv /\ [UiNext]_uiVars => LitInv'
  <2> SUFFICES ASSUME LitInv, [UiNext]_uiVars PROVE LitInv'
    OBVIOUS
  <2> USE DEF LitInv, TimerOff, ScreenOff
  <2>1. CASE MenuClear
    BY <2>1 DEF MenuClear, timerVars
  <2>2. CASE MenuTimer
    BY <2>2 DEF MenuTimer
  <2>3. CASE MenuCancelled
    BY <2>3 DEF MenuCancelled, ui_screen_on
  <2>4. CASE MenuTimedOut
    BY <2>4 DEF MenuTimedOut, timerVars
  <2>5. CASE MenuKey
    BY <2>5 DEF MenuKey, ui_screen_on, menuVars
  <2>6. CASE MenuAct
    BY <2>6 DEF MenuAct, timerVars
  <2>7. CASE ui_wait_key \/ ui_wait_key_timeout
    BY <2>7 DEF ui_wait_key, ui_wait_key_timeout, timerVars, menuVars
  <2>8. CASE ChooseOther \/ ChooseSideload \/ SideloadKill \/ SideloadJoin \/ SideloadFinish
    BY <2>8 DEF ChooseOther, ChooseSideload, SideloadKill, SideloadJoin, SideloadFinish,
       timerVars, menuVars
  <2>9. CASE ChooseText \/ TextKey
    BY <2>9 DEF ChooseText, TextKey, timerVars, menuVars
  <2>10. CASE ChooseConsole \/ ConsoleSpawn \/ ConsoleKey
    BY <2>10 DEF ChooseConsole, ConsoleSpawn, ConsoleKey, timerVars, menuVars
  <2>11. CASE ConsoleQuit \/ ConsoleReap \/ ConsoleClose
    BY <2>11 DEF ConsoleQuit, ConsoleReap, ConsoleClose, timerVars, menuVars
  <2>12. CASE OtherUnchanged
    BY <2>12 DEF OtherUnchanged, timerVars, menuVars
  <2>13. CASE battery_thread
    BY <2>13, UiAssumption DEF battery_thread, ui_screen_off, menuVars
  <2>14. CASE SideloadExits \/ SideloadReaped \/ SideloadCancelKey
    BY <2>14 DEF SideloadExits, SideloadReaped, SideloadCancelKey, timerVars, menuVars
  <2>15. ASSUME NEW i \in Consoles, ReaderStep(i) \/ ReaderData(i) \/ ShellStep(i)
         PROVE  LitInv'
    BY <2>15 DEF ReaderStep, ReaderRead, ReaderEof, ReaderTerminated, ReaderWake, ReaderData,
       ShellStep, SetReader, timerVars, menuVars
  <2>16. CASE UNCHANGED uiVars
    BY <2>16 DEF uiVars, timerVars, menuVars
  <2> QED
    BY <2>1, <2>2, <2>3, <2>4, <2>5, <2>6, <2>7, <2>8, <2>9, <2>10, <2>11, <2>12, <2>13, <2>14,
       <2>15, <2>16 DEF UiNext, MainStep
<1> QED
  BY <1>1, <1>2, PTL DEF UiSpec

\* No key is acted on in the dark, and the timer runs in a menu only.
THEOREM LitWhileActingCorrect == UiSpec => []LitWhileActing
<1>1. LitInv => LitWhileActing
  BY DEF LitInv, LitWhileActing
<1> QED
  BY <1>1, LitInvariant, PTL

\* After a late repeat the key is no longer held, or no longer handled.
RepeatInv ==
    /\ late \in {0, 1}
    /\ kbd = "repeat" => late = 0
    /\ kbd = "tick" /\ late = 1 => handling_key = NoKey \/ last_key_down # handling_key

\* Only input_callback and kbd_thread touch the variables of the key repeat.
LEMMA RepeatUntouched ==
    ASSUME UiNext, ~(input_callback \/ kbd_thread)
    PROVE  UNCHANGED <<inputVars, kbdVars>>
<1> USE DEF keyVars, inputVars, kbdVars
<1>1. CASE MenuClear \/ MenuTimer \/ MenuCancelled \/ MenuTimedOut \/ MenuKey \/ MenuAct
  BY <1>1 DEF MenuClear, MenuTimer, MenuCancelled, MenuTimedOut, MenuKey, MenuAct
<1>2. CASE ui_wait_key \/ ui_wait_key_timeout \/ battery_thread
  BY <1>2 DEF ui_wait_key, ui_wait_key_timeout, battery_thread
<1>3. CASE ChooseOther \/ ChooseSideload \/ SideloadKill \/ SideloadJoin \/ SideloadFinish
  BY <1>3 DEF ChooseOther, ChooseSideload, SideloadKill, SideloadJoin, SideloadFinish
<1>4. CASE ChooseText \/ TextKey \/ ChooseConsole \/ ConsoleSpawn \/ ConsoleKey
  BY <1>4 DEF ChooseText, TextKey, ChooseConsole, ConsoleSpawn, ConsoleKey
<1>5. CASE ConsoleQuit \/ ConsoleReap \/ ConsoleClose
  BY <1>5 DEF ConsoleQuit, ConsoleReap, ConsoleClose
<1>6. CASE SideloadExits \/ SideloadReaped \/ SideloadCancelKey
  BY <1>6 DEF SideloadExits, SideloadReaped, SideloadCancelKey, ui_cancel_wait_key
<1>7. ASSUME NEW i \in Consoles, ReaderStep(i) \/ ReaderData(i) \/ ShellStep(i)
      PROVE  UNCHANGED <<inputVars, kbdVars>>
  BY <1>7 DEF ReaderStep, ReaderRead, ReaderEof, ReaderTerminated, ReaderWake, ReaderData,
     ShellStep, ui_wake_key_waiting_thread
<1> QED
  BY <1>1, <1>2, <1>3, <1>4, <1>5, <1>6, <1>7 DEF UiNext, MainStep

\* The tests of kbd_thread without the lock and the events in between them.
THEOREM RepeatInvariant == UiSpec => []RepeatInv
<1>1. UiInit => RepeatInv
  BY DEF UiInit, KeyInit, RepeatInv
<1>2. RepeatInv /\ [UiNext]_uiVars => RepeatInv'
  <2> SUFFICES ASSUME RepeatInv, [UiNext]_uiVars PROVE RepeatInv'
    OBVIOUS
  <2>1. CASE KeyEvent
    BY <2>1 DEF RepeatInv, KeyEvent
  <2>2. CASE Trackball
    BY <2>2 DEF RepeatInv, Trackball, kbdVars
  <2>3. CASE kbd_thread
    BY <2>3 DEF RepeatInv, kbd_thread, KbdHandling, KbdRepeat, KbdConsider, KbdTake, inputVars
  <2>4. CASE UNCHANGED <<inputVars, kbdVars>>
    BY <2>4 DEF RepeatInv, inputVars, kbdVars
  <2>5. CASE UNCHANGED uiVars
    BY <2>5 DEF RepeatInv, uiVars, keyVars, inputVars, kbdVars
  <2> QED
    BY <2>1, <2>2, <2>3, <2>4, <2>5, RepeatUntouched DEF input_callback
<1> QED
  BY <1>1, <1>2, PTL DEF UiSpec

\* A released key is repeated at most once.
THEOREM RepeatedOnceLateCorrect == UiSpec => []RepeatedOnceLate
<1>1. RepeatInv => RepeatedOnceLate
  BY DEF RepeatInv, RepeatedOnceLate
<1> QED
  BY <1>1, RepeatInvariant, PTL

-----------------------------------------------------------------------------
HasCancel == \E i \in 1 .. Len(key_queue) : key_queue[i] = Cancel

\* The queue itself: one entry too many at most, and that one is the cancel.
QueueInv ==
    /\ key_queue \in Seq(Keys \cup {Cancel})
    /\ Len(key_queue) <= QueueMax + 1
    /\ Len(key_queue) = QueueMax + 1 => key_queue[QueueMax + 1] = Cancel

\* What the input and the key repeat threads may append.
HeldInv ==
    /\ last_key_down \in Keys \cup {NoKey} /\ handling_key \in Keys \cup {NoKey}
    /\ kbd = "repeat" => handling_key # NoKey

\* Where the main thread, the sideload menu and its thread can be together;
\* a cancel entry exists only after the thread has queued its only one, and
\* until the main thread has joined the thread and cleared the queue.
SideloadInv ==
    /\ key \in Keys \cup {Cancel, TimedOut, NoKey}
    /\ key # NoKey => pc \in WaitPcs \cup {"menu_act"}
    /\ pc = "menu_act" => key \in Keys
    /\ menu \in {"main", "sideload"}
    /\ menu = "main" => sideload_thread = "none" /\ pc \notin {"sideload_join", "sideload_finish"}
    /\ menu = "sideload" => pc \in MenuPcs \cup {"menu_done", "sideload_join", "sideload_finish"}
    /\ pc = "sideload_finish" => sideload_thread = "done"
    /\ HasCancel \/ key = Cancel => sideload_thread = "done" /\ pc # "sideload_finish"

CancelInv == QueueInv /\ HeldInv /\ SideloadInv

\* The special codes are no keys.
LEMMA KeyFacts == Cancel \notin Keys /\ TimedOut \notin Keys /\ NoKey \notin Keys
                  /\ Cancel # NoKey /\ Cancel # TimedOut
BY KeysAssumption DEF Cancel, TimedOut, NoKey

\* A key keeps to the bound and is no cancel entry.
LEMMA PutKeeps ==
    ASSUME QueueInv, NEW k \in Keys, PutKey(k)
    PROVE  QueueInv' /\ (HasCancel' => HasCancel)
<1> USE KeyFacts, KeysAssumption
<1>1. CASE UNCHANGED key_queue
  BY <1>1 DEF QueueInv, HasCancel
<1>2. CASE Len(key_queue) < QueueMax /\ key_queue' = Append(key_queue, k)
  <2>1. key_queue' \in Seq(Keys \cup {Cancel}) /\ Len(key_queue') = Len(key_queue) + 1
    BY <1>2 DEF QueueInv
  <2>2. \A i \in 1 .. Len(key_queue') :
            key_queue'[i] = IF i = Len(key_queue) + 1 THEN k ELSE key_queue[i]
    BY <1>2, <2>1 DEF QueueInv
  <2>3. HasCancel' => HasCancel
    BY <2>1, <2>2 DEF HasCancel, QueueInv
  <2>4. QueueInv'
    BY <1>2, <2>1 DEF QueueInv
  <2> QED
    BY <2>3, <2>4
<1> QED
  BY <1>1, <1>2 DEF PutKey

\* Taking a key leaves the rest of the queue.
LEMMA TakeKeeps ==
    ASSUME QueueInv, key_queue # <<>>, TakeKey
    PROVE  /\ QueueInv' /\ key' \in Keys \cup {Cancel}
           /\ (HasCancel' \/ key' = Cancel => HasCancel)
<1> USE KeyFacts, KeysAssumption
<1>1. key_queue \in Seq(Keys \cup {Cancel}) /\ Len(key_queue) \in Nat \ {0}
  BY DEF QueueInv
<1>2. key' = key_queue[1] /\ key_queue' = Tail(key_queue)
  BY <1>1 DEF TakeKey
<1>3. /\ key_queue' \in Seq(Keys \cup {Cancel}) /\ Len(key_queue') = Len(key_queue) - 1
      /\ \A i \in 1 .. Len(key_queue') : key_queue'[i] = key_queue[i + 1]
  BY <1>1, <1>2
<1>4. key' \in Keys \cup {Cancel} /\ (key' = Cancel => HasCancel)
  BY <1>1, <1>2 DEF HasCancel
<1>5. HasCancel' => HasCancel
  BY <1>1, <1>3 DEF HasCancel
<1>6. QueueInv'
  BY <1>1, <1>3 DEF QueueInv
<1> QED
  BY <1>4, <1>5, <1>6

\* An emptied queue has no cancel entry.
LEMMA ClearKeeps == ASSUME ui_clear_key_queue PROVE QueueInv' /\ ~HasCancel'
BY KeysAssumption DEF ui_clear_key_queue, QueueInv, HasCancel

\* Steps that leave the queue and the threads alone.
LEMMA QueueSame ==
    ASSUME QueueInv, HeldInv, UNCHANGED <<key_queue, inputVars, kbdVars>>
    PROVE  QueueInv' /\ HeldInv' /\ (HasCancel' <=> HasCancel)
BY DEF QueueInv, HeldInv, HasCancel, inputVars, kbdVars

\* ui_wait_key returns an entry of the queue, or no key at all.
LEMMA WaitKeeps ==
    ASSUME CancelInv, ui_wait_key \/ ui_wait_key_timeout
    PROVE  CancelInv'
<1> USE KeyFacts
<1>1. pc \in WaitPcs /\ UNCHANGED <<inputVars, kbdVars, pc, menu, sideload_thread>>
  BY DEF ui_wait_key, ui_wait_key_timeout, menuVars, sideloadVars
<1>2. HeldInv'
  BY <1>1 DEF CancelInv, HeldInv, inputVars, kbdVars
<1>3. /\ QueueInv' /\ key' \in Keys \cup {Cancel, TimedOut, NoKey}
      /\ HasCancel' \/ key' = Cancel => HasCancel \/ key = Cancel
  <2>1. CASE key_queue # <<>> /\ TakeKey
    BY <2>1, TakeKeeps DEF CancelInv
  <2>2. CASE UNCHANGED key_queue /\ key' \in {key, TimedOut}
    BY <2>2 DEF CancelInv, QueueInv, HasCancel, SideloadInv
  <2> QED
    BY <2>1, <2>2 DEF ui_wait_key, ui_wait_key_timeout, WaitEnter, WaitWoken, WaitTimeout,
       WaitReturn
<1>4. SideloadInv'
  BY <1>1, <1>3 DEF CancelInv, SideloadInv, WaitPcs
<1> QED
  BY <1>2, <1>3, <1>4 DEF CancelInv

\* One cancel entry is appended, to a queue that has none.
LEMMA CancelKeeps == ASSUME CancelInv, SideloadCancelKey PROVE CancelInv'
<1> USE KeyFacts, KeysAssumption
<1>1. /\ sideload_thread = "cancel" /\ sideload_thread' = "done"
      /\ key_queue' = Append(key_queue, Cancel)
      /\ UNCHANGED <<key, pc, menu, last_key_down, handling_key, kbd>>
  BY DEF SideloadCancelKey, ui_cancel_wait_key, menuVars, inputVars, kbdVars
<1>2. key_queue \in Seq(Keys \cup {Cancel}) /\ ~HasCancel
  BY <1>1 DEF CancelInv, QueueInv, SideloadInv
<1>3. Len(key_queue) <= QueueMax
  BY <1>2 DEF CancelInv, QueueInv, HasCancel
<1>4. /\ key_queue' \in Seq(Keys \cup {Cancel}) /\ Len(key_queue') = Len(key_queue) + 1
      /\ key_queue'[Len(key_queue) + 1] = Cancel
  BY <1>1, <1>2
<1>5. QueueInv'
  BY <1>2, <1>3, <1>4 DEF QueueInv
<1>6. HeldInv'
  BY <1>1 DEF CancelInv, HeldInv
<1>7. menu = "sideload" /\ pc # "sideload_finish"
  BY <1>1 DEF CancelInv, SideloadInv
<1>8. SideloadInv'
  BY <1>1, <1>7 DEF CancelInv, SideloadInv
<1> QED
  BY <1>5, <1>6, <1>8 DEF CancelInv

\* The inductive invariant, over the main thread, the input thread, the key
\* repeat and the thread that waits for the sideload server.
THEOREM CancelInvariant == UiSpec => []CancelInv
<1> USE KeyFacts
<1>1. UiInit => CancelInv
  <2> SUFFICES ASSUME UiInit PROVE CancelInv
    OBVIOUS
  <2>1. QueueInv /\ ~HasCancel
    BY KeysAssumption DEF UiInit, KeyInit, QueueInv, HasCancel
  <2>2. HeldInv
    BY DEF UiInit, KeyInit, HeldInv
  <2> QED
    BY <2>1, <2>2 DEF UiInit, KeyInit, CancelInv, SideloadInv
<1>2. CancelInv /\ [UiNext]_uiVars => CancelInv'
  <2> SUFFICES ASSUME CancelInv, [UiNext]_uiVars PROVE CancelInv'
    OBVIOUS
  <2> USE DEF WaitPcs, MenuPcs
  <2>0. QueueInv /\ HeldInv /\ SideloadInv
    BY DEF CancelInv
  <2>1. CASE MenuClear
    <3>1. QueueInv' /\ ~HasCancel'
      BY SMTT(20), <2>1, ClearKeeps DEF MenuClear
    <3> QED
      BY <2>0, <2>1, <3>1 DEF MenuClear, CancelInv, SideloadInv, HeldInv, inputVars, kbdVars,
         sideloadVars
  <2>2. CASE MenuTimer \/ MenuCancelled \/ MenuTimedOut
    <3>1. UNCHANGED <<key_queue, inputVars, kbdVars>>
      BY <2>2 DEF MenuTimer, MenuCancelled, MenuTimedOut, keyVars, queueVars
    <3>2. QueueInv' /\ HeldInv' /\ (HasCancel' <=> HasCancel)
      BY SMTT(20), <2>0, <3>1, QueueSame
    <3> QED
      BY <2>0, <2>2, <3>2 DEF MenuTimer, MenuCancelled, MenuTimedOut, GotKey, CancelInv,
         SideloadInv, keyVars, queueVars, menuVars, sideloadVars
  <2>3. CASE MenuKey \/ MenuAct
    <3>1. UNCHANGED <<key_queue, inputVars, kbdVars>>
      BY <2>3 DEF MenuKey, MenuAct, keyVars, queueVars
    <3>2. QueueInv' /\ HeldInv' /\ (HasCancel' <=> HasCancel)
      BY <2>0, <3>1, QueueSame
    <3> QED
      BY <2>0, <2>3, <3>2 DEF MenuKey, MenuAct, GotKey, CancelInv,
         SideloadInv, keyVars, queueVars, menuVars, sideloadVars
  <2>4. CASE ui_wait_key \/ ui_wait_key_timeout
    BY <2>4, WaitKeeps
  <2>5. CASE ChooseOther \/ ChooseSideload \/ SideloadKill \/ SideloadFinish
    <3>1. UNCHANGED <<key_queue, inputVars, kbdVars>>
      BY SMTT(20), <2>5 DEF ChooseOther, ChooseSideload, SideloadKill, SideloadFinish, keyVars, queueVars
    <3>2. QueueInv' /\ HeldInv' /\ (HasCancel' <=> HasCancel)
      BY <2>0, <3>1, QueueSame
    <3> QED
      BY <2>0, <2>5, <3>2 DEF ChooseOther, ChooseSideload, SideloadKill, SideloadFinish,
         CancelInv, SideloadInv, keyVars, queueVars, menuVars, sideloadVars
  <2>6. CASE SideloadJoin
    <3>1. QueueInv' /\ ~HasCancel'
      BY SMTT(20), <2>6, ClearKeeps DEF SideloadJoin
    <3> QED
      BY <2>0, <2>6, <3>1 DEF SideloadJoin, CancelInv, SideloadInv, HeldInv, inputVars, kbdVars,
         menuVars, sideloadVars
  <2>7. CASE ChooseText \/ TextKey \/ ConsoleSpawn \/ ConsoleKey
    <3>1. UNCHANGED <<key_queue, inputVars, kbdVars>>
      BY <2>7 DEF ChooseText, TextKey, ConsoleSpawn, ConsoleKey, keyVars, queueVars
    <3>2. QueueInv' /\ HeldInv' /\ (HasCancel' <=> HasCancel)
      BY <2>0, <3>1, QueueSame
    <3> QED
      BY Zenon, <2>0, <2>7, <3>2 DEF ChooseText, TextKey, ConsoleSpawn, ConsoleKey, GotKey,
         CancelInv, SideloadInv, keyVars, queueVars, menuVars, sideloadVars
  <2>8. CASE ChooseConsole
    <3>1. QueueInv' /\ ~HasCancel'
      BY SMTT(20), <2>8, ClearKeeps DEF ChooseConsole
    <3> QED
      BY <2>0, <2>8, <3>1 DEF ChooseConsole, CancelInv, SideloadInv, HeldInv, inputVars, kbdVars,
         menuVars, sideloadVars
  <2>9. CASE ConsoleQuit \/ ConsoleReap \/ ConsoleClose
    <3>1. UNCHANGED <<key_queue, inputVars, kbdVars>>
      BY <2>9 DEF ConsoleQuit, ConsoleReap, ConsoleClose, keyVars, queueVars
    <3>2. QueueInv' /\ HeldInv' /\ (HasCancel' <=> HasCancel)
      BY <2>0, <3>1, QueueSame
    <3> QED
      BY <2>0, <2>9, <3>2 DEF ConsoleQuit, ConsoleReap, ConsoleClose,
         CancelInv, SideloadInv, keyVars, queueVars, menuVars, sideloadVars
  <2>10. CASE input_callback /\ OtherUnchanged
    <3>1. QueueInv' /\ (HasCancel' => HasCancel)
      <4>1. CASE UNCHANGED key_queue
        BY <2>0, <4>1 DEF QueueInv, HasCancel
      <4>2. ASSUME NEW k \in Keys, PutKey(k) PROVE QueueInv' /\ (HasCancel' => HasCancel)
        BY <2>0, <4>2, PutKeeps
      <4> QED
        BY <2>10, <4>1, <4>2, KeysAssumption DEF input_callback, KeyEvent, Trackball
    <3>2. HeldInv'
      <4>1. CASE KeyEvent
        BY <2>0, <4>1 DEF KeyEvent, HeldInv
      <4>2. CASE Trackball
        BY <2>0, <4>2 DEF Trackball, HeldInv, kbdVars
      <4> QED
        BY <2>10, <4>1, <4>2 DEF input_callback
    <3>3. key' = key
      BY <2>10 DEF input_callback, KeyEvent, Trackball
    <3> QED
      BY <2>0, <2>10, <3>1, <3>2, <3>3 DEF OtherUnchanged, CancelInv, SideloadInv, menuVars,
         sideloadVars
  <2>11. CASE kbd_thread /\ OtherUnchanged
    <3>1. QueueInv' /\ (HasCancel' => HasCancel)
      <4>1. CASE UNCHANGED key_queue
        BY <2>0, <4>1 DEF QueueInv, HasCancel
      <4>2. CASE KbdRepeat
        BY SMTT(20), <2>0, <4>2, PutKeeps DEF KbdRepeat, HeldInv
      <4> QED
        BY <2>11, <4>1, <4>2 DEF kbd_thread, KbdHandling, KbdConsider, KbdTake, queueVars
    <3>2. HeldInv' /\ key' = key
      BY SMTT(20), <2>0, <2>11 DEF kbd_thread, KbdHandling, KbdRepeat, KbdConsider, KbdTake, queueVars,
         inputVars, HeldInv
    <3> QED
      BY SMTT(20), <2>0, <2>11, <3>1, <3>2 DEF OtherUnchanged, CancelInv, SideloadInv, menuVars,
         sideloadVars
  <2>12. CASE battery_thread \/ SideloadExits \/ SideloadReaped
    <3>1. UNCHANGED <<key_queue, inputVars, kbdVars>>
      BY <2>12 DEF battery_thread, SideloadExits, SideloadReaped, keyVars, queueVars
    <3>2. QueueInv' /\ HeldInv' /\ (HasCancel' <=> HasCancel)
      BY <2>0, <3>1, QueueSame
    <3> QED
      BY <2>0, <2>12, <3>2 DEF battery_thread, SideloadExits, SideloadReaped,
         CancelInv, SideloadInv, keyVars, queueVars, menuVars, sideloadVars
  <2>13. CASE SideloadCancelKey
    BY <2>13, CancelKeeps
  <2>14. ASSUME NEW i \in Consoles, ReaderStep(i) \/ ReaderData(i) \/ ShellStep(i)
         PROVE  CancelInv'
    <3>1. UNCHANGED <<key_queue, inputVars, kbdVars, key, pc, menu, sideload_thread>>
      BY <2>14 DEF ReaderStep, ReaderRead, ReaderEof, ReaderTerminated, ReaderWake, ReaderData,
         ShellStep, SetReader, ui_wake_key_waiting_thread, keyVars, queueVars, menuVars,
         sideloadVars
    <3>2. QueueInv' /\ HeldInv' /\ (HasCancel' <=> HasCancel)
      BY SMTT(20), <2>0, <3>1, QueueSame
    <3> QED
      BY SMTT(20), <2>0, <3>1, <3>2 DEF CancelInv, SideloadInv
  <2>15. CASE UNCHANGED uiVars
    BY Zenon, <2>0, <2>15 DEF uiVars, CancelInv, QueueInv, HeldInv, SideloadInv, HasCancel, keyVars,
       queueVars, inputVars, kbdVars, menuVars, sideloadVars
  <2> QED
    BY <2>1, <2>2, <2>3, <2>4, <2>5, <2>6, <2>7, <2>8, <2>9, <2>10, <2>11, <2>12, <2>13, <2>14,
       <2>15 DEF UiNext, MainStep
<1> QED
  BY <1>1, <1>2, PTL DEF UiSpec

\* The array of key codes is overrun by the cancel entry only.
THEOREM OverrunByCancelOnlyCorrect == UiSpec => []OverrunByCancelOnly
<1>1. CancelInv => OverrunByCancelOnly
  BY DEF CancelInv, QueueInv, OverrunByCancelOnly
<1> QED
  BY <1>1, CancelInvariant, PTL

\* No menu but the sideload menu sees the cancel entry.
THEOREM CancelConfinedCorrect == UiSpec => []CancelConfined
<1>1. CancelInv => CancelConfined
  BY DEF CancelInv, SideloadInv, HasCancel, CancelConfined
<1> QED
  BY <1>1, CancelInvariant, PTL

-----------------------------------------------------------------------------
\* A cancel entry is not lost on its way to the sideload menu: whatever keys are
\* pressed and repeated it stays where it is in the queue or moves to the front,
\* until the main thread takes it, and then the menu ends with the result cancel.
\* Only the start of a menu and the end of the sideload clear the queue over it.
CancelDelivered ==
    [][/\ \A i \in 1 .. Len(key_queue) : key_queue[i] = Cancel =>
              \/ pc \in {"menu_clear", "sideload_join"}
              \/ i = 1 /\ key' = Cancel
              \/ \E j \in 1 .. Len(key_queue') : j <= i /\ key_queue'[j] = Cancel
       /\ key = Cancel => \/ key' = Cancel
                          \/ menu = "sideload" /\ result' = "cancel" /\ pc' = "menu_done"]_uiVars

\* The main thread does not wait while it has a key.
WaiterInv == waiter # "none" => key = NoKey

\* What a step does to the queue.
QueueEffect ==
    \/ key_queue' = key_queue
    \/ \E k \in Keys \cup {Cancel} : key_queue' = Append(key_queue, k)
    \/ key_queue # <<>> /\ key' = Head(key_queue) /\ key_queue' = Tail(key_queue)
    \/ pc \in {"menu_clear", "sideload_join"}
    \/ ~HasCancel

\* What a step does to the key that the last wait returned.
KeyEffect ==
    \/ key' = key
    \/ key # Cancel
    \/ menu = "sideload" /\ result' = "cancel" /\ pc' = "menu_done"

\* A wait takes the first entry, if the main thread has no key.
LEMMA WaitEffect ==
    ASSUME WaiterInv, ui_wait_key \/ ui_wait_key_timeout
    PROVE  QueueEffect /\ KeyEffect /\ WaiterInv'
<1>1. key = NoKey /\ (WaitEnter \/ \E timeout \in BOOLEAN : WaitReturn(timeout))
  BY Zenon DEF ui_wait_key, ui_wait_key_timeout, WaitEnter, WaitWoken, WaitTimeout, WaiterInv
<1>2. \/ key_queue # <<>> /\ TakeKey
      \/ key_queue' = key_queue /\ key' = key
      \/ key_queue' = key_queue /\ waiter' = "none"
  BY Zenon, <1>1 DEF WaitEnter, WaitReturn
<1>3. QueueEffect /\ WaiterInv'
  BY Zenon, <1>1, <1>2 DEF TakeKey, QueueEffect, WaiterInv
<1> QED
  BY Zenon, <1>1, <1>3, KeyFacts DEF KeyEffect

\* A key is used up; the cancel key by the sideload menu only.
LEMMA UseEffect ==
    ASSUME CancelInv, WaiterInv,
           MenuCancelled \/ MenuTimedOut \/ MenuKey \/ MenuAct \/ TextKey \/ ConsoleKey
    PROVE  QueueEffect /\ KeyEffect /\ WaiterInv'
<1>1. UNCHANGED <<key_queue, waiter>> /\ key' \in {key, NoKey}
  BY Zenon DEF MenuCancelled, MenuTimedOut, MenuKey, MenuAct, TextKey, ConsoleKey, GotKey,
     keyVars, queueVars
<1>2. ASSUME key = Cancel PROVE menu = "sideload" /\ MenuCancelled
  <2>1. menu = "sideload" /\ pc \notin {"text_wait", "console_wait", "menu_act"}
    <3>1. sideload_thread = "done" /\ menu \in {"main", "sideload"}
      BY Zenon, <1>2 DEF CancelInv, SideloadInv
    <3>2. "done" # "none"
      OBVIOUS
    <3>3. menu = "sideload"
      BY Zenon, <3>1, <3>2 DEF CancelInv, SideloadInv
    <3>4. pc \in MenuPcs \cup {"menu_done", "sideload_join", "sideload_finish"}
      BY Zenon, <3>3 DEF CancelInv, SideloadInv
    <3>5. pc \notin {"text_wait", "console_wait"}
      BY <3>4 DEF MenuPcs
    <3>6. pc # "menu_act"
      BY Zenon, <1>2, KeyFacts DEF CancelInv, SideloadInv
    <3> QED
      BY Zenon, <3>3, <3>5, <3>6
  <2>2. ~MenuTimedOut /\ ~MenuKey
    BY Zenon, <1>2, KeyFacts DEF MenuTimedOut, MenuKey
  <2>3. ~MenuAct /\ ~TextKey /\ ~ConsoleKey
    BY Zenon, <2>1 DEF MenuAct, TextKey, ConsoleKey
  <2> QED
    BY Zenon, <2>1, <2>2, <2>3
<1>3. QueueEffect /\ WaiterInv'
  BY Zenon, <1>1 DEF QueueEffect, WaiterInv
<1>4. KeyEffect
  BY Zenon, <1>2 DEF KeyEffect, MenuCancelled
<1> QED
  BY Zenon, <1>3, <1>4

\* A key, or the cancel entry, is appended.
LEMMA PutEffect ==
    ASSUME CancelInv, WaiterInv, input_callback \/ kbd_thread \/ SideloadCancelKey
    PROVE  QueueEffect /\ KeyEffect /\ WaiterInv'
<1>1. /\ key' = key /\ (waiter' = waiter \/ Signal)
      /\ \/ key_queue' = key_queue
         \/ \E k \in Keys \cup {Cancel} : key_queue' = Append(key_queue, k)
  <2>1. CASE input_callback
    BY Zenon, <2>1, KeysAssumption DEF input_callback, KeyEvent, Trackball, PutKey
  <2>2. CASE KbdRepeat
    <3>1. handling_key \in Keys
      BY Zenon, <2>2 DEF KbdRepeat, CancelInv, HeldInv
    <3> QED
      BY Zenon, <2>2, <3>1 DEF KbdRepeat, PutKey
  <2>3. CASE KbdHandling \/ KbdConsider \/ KbdTake
    BY Zenon, <2>3 DEF KbdHandling, KbdConsider, KbdTake, queueVars
  <2>4. CASE SideloadCancelKey
    BY Zenon, <2>4 DEF SideloadCancelKey, ui_cancel_wait_key
  <2> QED
    BY Zenon, <2>1, <2>2, <2>3, <2>4 DEF kbd_thread
<1>2. waiter' # "none" => waiter # "none"
  BY Zenon, <1>1 DEF Signal
<1> QED
  BY Zenon, <1>1, <1>2 DEF QueueEffect, KeyEffect, WaiterInv

\* The main thread clears the queue: over a cancel entry only at these places.
LEMMA ClearEffect ==
    ASSUME CancelInv, WaiterInv, MenuClear \/ SideloadJoin \/ ChooseConsole
    PROVE  QueueEffect /\ KeyEffect /\ WaiterInv'
<1>1. UNCHANGED <<key, waiter>>
  BY Zenon DEF MenuClear, SideloadJoin, ChooseConsole
<1>2. CASE ChooseConsole
  <2>1. sideload_thread = "none" /\ "none" # "done"
    BY <1>2 DEF CancelInv, SideloadInv, ChooseConsole
  <2>2. ~HasCancel
    BY Zenon, <2>1 DEF CancelInv, SideloadInv
  <2> QED
    BY Zenon, <1>1, <2>2 DEF QueueEffect, KeyEffect, WaiterInv
<1>3. CASE MenuClear \/ SideloadJoin
  BY Zenon, <1>1, <1>3 DEF MenuClear, SideloadJoin, QueueEffect, KeyEffect, WaiterInv
<1> QED
  BY Zenon, <1>2, <1>3

\* Every step has one of these effects.
LEMMA StepEffect ==
    ASSUME CancelInv, WaiterInv, [UiNext]_uiVars
    PROVE  QueueEffect /\ KeyEffect /\ WaiterInv'
<1>1. ASSUME UNCHANGED <<key_queue, key>>, waiter' = waiter \/ Signal
      PROVE  QueueEffect /\ KeyEffect /\ WaiterInv'
  BY Zenon, <1>1 DEF QueueEffect, KeyEffect, WaiterInv, Signal
<1>2. CASE MenuTimer \/ ChooseOther \/ ChooseSideload \/ SideloadKill \/ SideloadFinish
  BY Zenon, <1>1, <1>2 DEF MenuTimer, ChooseOther, ChooseSideload, SideloadKill, SideloadFinish,
     keyVars, queueVars
<1>3. CASE ChooseText \/ ConsoleSpawn \/ ConsoleQuit \/ ConsoleReap \/ ConsoleClose
  BY Zenon, <1>1, <1>3 DEF ChooseText, ConsoleSpawn, ConsoleQuit, ConsoleReap, ConsoleClose,
     keyVars, queueVars
<1>4. CASE battery_thread \/ SideloadExits \/ SideloadReaped
  BY Zenon, <1>1, <1>4 DEF battery_thread, SideloadExits, SideloadReaped, keyVars, queueVars
<1>5. ASSUME NEW i \in Consoles, ReaderStep(i) \/ ReaderData(i) \/ ShellStep(i)
      PROVE  QueueEffect /\ KeyEffect /\ WaiterInv'
  BY Zenon, <1>1, <1>5 DEF ReaderStep, ReaderRead, ReaderEof, ReaderTerminated, ReaderWake,
     ReaderData, ShellStep, ui_wake_key_waiting_thread, keyVars, queueVars
<1>6. CASE UNCHANGED uiVars
  BY Zenon, <1>1, <1>6 DEF uiVars, keyVars, queueVars
<1> QED
  BY Zenon, <1>2, <1>3, <1>4, <1>5, <1>6, WaitEffect, UseEffect, PutEffect, ClearEffect
  DEF UiNext, MainStep

\* For any keys, any length of the queue and any timing of the threads, the cancel
\* entry of the sideload thread is neither dropped nor overtaken.
THEOREM CancelDeliveredCorrect == UiSpec => CancelDelivered
<1> DEFINE Delivers(i) ==
               \/ pc \in {"menu_clear", "sideload_join"}
               \/ i = 1 /\ key' = Cancel
               \/ \E j \in 1 .. Len(key_queue') : j <= i /\ key_queue'[j] = Cancel
<1>1. ASSUME QueueInv, QueueEffect, NEW i \in 1 .. Len(key_queue), key_queue[i] = Cancel
      PROVE  Delivers(i)
  <2>1. key_queue \in Seq(Keys \cup {Cancel}) /\ Len(key_queue) \in Nat \ {0}
    BY <1>1 DEF QueueInv
  <2>2. HasCancel
    BY Zenon, <1>1 DEF HasCancel
  <2>3. CASE key_queue' = key_queue
    <3>1. i \in 1 .. Len(key_queue') /\ i <= i /\ key_queue'[i] = Cancel
      BY <1>1, <2>1, <2>3
    <3> QED
      BY Zenon, <3>1
  <2>4. ASSUME NEW k \in Keys \cup {Cancel}, key_queue' = Append(key_queue, k)
        PROVE  Delivers(i)
    <3>1. i \in 1 .. Len(key_queue') /\ i <= i /\ key_queue'[i] = Cancel
      BY <1>1, <2>1, <2>4
    <3> QED
      BY Zenon, <3>1
  <2>5. CASE key' = Head(key_queue) /\ key_queue' = Tail(key_queue)
    <3>1. CASE i = 1
      BY <1>1, <2>1, <2>5, <3>1
    <3>2. CASE i # 1
      <4>1. i - 1 \in 1 .. Len(key_queue') /\ i - 1 <= i /\ key_queue'[i - 1] = Cancel
        BY <1>1, <2>1, <2>5, <3>2
      <4> QED
        BY Zenon, <4>1
    <3> QED
      BY Zenon, <3>1, <3>2
  <2> QED
    BY Zenon, <1>1, <2>2, <2>3, <2>4, <2>5 DEF QueueEffect
<1>2. CancelInv /\ WaiterInv /\ [UiNext]_uiVars =>
        [/\ \A i \in 1 .. Len(key_queue) : key_queue[i] = Cancel => Delivers(i)
         /\ key = Cancel => \/ key' = Cancel
                            \/ menu = "sideload" /\ result' = "cancel" /\ pc' = "menu_done"]_uiVars
  <2> SUFFICES ASSUME CancelInv, WaiterInv, [UiNext]_uiVars
               PROVE  /\ \A i \in 1 .. Len(key_queue) : key_queue[i] = Cancel => Delivers(i)
                      /\ key = Cancel =>
                            \/ key' = Cancel
                            \/ menu = "sideload" /\ result' = "cancel" /\ pc' = "menu_done"
    BY Zenon
  <2> HIDE DEF Delivers
  <2>1. QueueInv /\ QueueEffect /\ KeyEffect
    BY Zenon, StepEffect DEF CancelInv
  <2> QED
    BY Zenon, <1>1, <2>1 DEF KeyEffect
<1>3. UiInit => WaiterInv
  BY Zenon DEF UiInit, KeyInit, WaiterInv
<1>4. CancelInv /\ WaiterInv /\ [UiNext]_uiVars => WaiterInv'
  BY Zenon, StepEffect
<1> QED
  BY <1>2, <1>3, <1>4, CancelInvariant, PTL DEF UiSpec, CancelDelivered

-----------------------------------------------------------------------------
(***************************************************************************)
(* The event loop of the sideload server.                                  *)
(***************************************************************************)
FdTypeOK ==
    /\ active \subseteq Fds /\ list_pending \in Seq(Fds)
    /\ events \in [Fds -> SUBSET Events]

FdInv == FdTypeOK /\ PendingSound

\* What unlinking one of several different elements leaves.
LEMMA UnlinkedFacts ==
    ASSUME NEW s \in Seq(Fds), NEW i \in DOMAIN s, \A j, k \in DOMAIN s : s[j] = s[k] => j = k
    PROVE  LET r == Unlinked(s, i)
           IN  /\ r \in Seq(Fds)
               /\ \A j, k \in DOMAIN r : r[j] = r[k] => j = k
               /\ \A fd : (\E j \in DOMAIN r : r[j] = fd) <=>
                          (fd # s[i] /\ \E j \in DOMAIN s : s[j] = fd)
<1> DEFINE n == Len(s)
           r == Unlinked(s, i)
           from(j) == IF j < i THEN j ELSE j + 1
<1>1. n \in Nat /\ DOMAIN s = 1 .. n /\ i \in 1 .. n /\ s \in [1 .. n -> Fds]
  OBVIOUS
<1>2. r = [j \in 1 .. n - 1 |-> s[from(j)]] /\ n - 1 \in Nat
  BY <1>1 DEF Unlinked
<1> HIDE DEF n, r
<1>3. \A j \in 1 .. n - 1 : from(j) \in (1 .. n) \ {i}
  BY <1>1
<1>4. \A j, k \in 1 .. n - 1 : from(j) = from(k) => j = k
  BY <1>1
<1>5. \A k \in (1 .. n) \ {i} : \E j \in 1 .. n - 1 : from(j) = k
  <2> SUFFICES ASSUME NEW k \in (1 .. n) \ {i} PROVE \E j \in 1 .. n - 1 : from(j) = k
    OBVIOUS
  <2>1. CASE k < i
    BY <1>1, <2>1
  <2>2. CASE k > i
    <3>1. k - 1 \in 1 .. n - 1 /\ from(k - 1) = k
      BY <1>1, <2>2
    <3> QED
      BY Zenon, <3>1
  <2> QED
    BY <1>1, <2>1, <2>2
<1> HIDE DEF from
<1>6. DOMAIN r = 1 .. n - 1 /\ \A j \in 1 .. n - 1 : r[j] = s[from(j)]
  BY Zenon, <1>2
<1>7. r \in Seq(Fds)
  <2>1. r \in [1 .. n - 1 -> Fds]
    BY Zenon, <1>1, <1>2, <1>3
  <2> QED
    BY <1>2, <2>1
<1>8. \A j, k \in DOMAIN r : r[j] = r[k] => j = k
  BY Zenon, <1>1, <1>3, <1>4, <1>6
<1>9. \A fd : (\E j \in DOMAIN r : r[j] = fd) <=> (fd # s[i] /\ \E j \in DOMAIN s : s[j] = fd)
  BY Zenon, <1>1, <1>3, <1>5, <1>6
<1> QED
  BY Zenon, <1>7, <1>8, <1>9 DEF r

\* What fdevent_plist_remove does to the list.
LEMMA RemoveFacts ==
    ASSUME FdInv, NEW fd \in Fds, fdevent_plist_remove(fd)
    PROVE  /\ list_pending' \in Seq(Fds)
           /\ \A j, k \in DOMAIN list_pending' : list_pending'[j] = list_pending'[k] => j = k
           /\ \A g \in Fds : Pending(g)' <=> g # fd /\ Pending(g)
<1>1. PICK i \in DOMAIN list_pending :
         list_pending[i] = fd /\ list_pending' = Unlinked(list_pending, i)
  BY Zenon DEF fdevent_plist_remove
<1>2. /\ list_pending \in Seq(Fds)
      /\ \A j, k \in DOMAIN list_pending : list_pending[j] = list_pending[k] => j = k
  BY Zenon DEF FdInv, FdTypeOK, PendingSound
<1> DEFINE r == Unlinked(list_pending, i)
<1>3. /\ r \in Seq(Fds)
      /\ \A j, k \in DOMAIN r : r[j] = r[k] => j = k
      /\ \A g : (\E j \in DOMAIN r : r[j] = g) <=>
                (g # list_pending[i] /\ \E j \in DOMAIN list_pending : list_pending[j] = g)
  BY Zenon, <1>2, UnlinkedFacts
<1> HIDE DEF r
<1>4. list_pending' = r
  BY Zenon, <1>1 DEF r
<1> QED
  BY Zenon, <1>1, <1>3, <1>4 DEF Pending

\* The descriptors on the list, said of all elements at once.
LEMMA ListedActive ==
    ASSUME FdTypeOK
    PROVE  (\A i \in DOMAIN list_pending : list_pending[i] \in active) <=>
           (\A fd \in Fds : Pending(fd) => fd \in active)
<1>1. \A i \in DOMAIN list_pending : list_pending[i] \in Fds
  BY DEF FdTypeOK
<1> QED
  BY Zenon, <1>1 DEF Pending

\* fdevent_process fills the empty list with what select has reported.
LEMMA ListFilled == ASSUME FdInv, fdevent_process PROVE FdInv'
<1>1. PICK found \in Reports :
         /\ events' = [fd \in Fds |-> IF fd \in active THEN events[fd] \cup found[fd] ELSE events[fd]]
         /\ list_pending' \in InOrder({fd \in active : found[fd] # {}})
  BY Zenon DEF fdevent_process
<1> DEFINE S == {fd \in active : found[fd] # {}}
           c == Cardinality(S)
<1>2. S \subseteq Fds /\ c \in Nat
  BY Zenon, FdAssumption, FS_Subset, FS_CardinalityType DEF FdInv, FdTypeOK
<1> HIDE DEF c
<1>3. /\ list_pending' \in [1 .. c -> S] /\ DOMAIN list_pending' = 1 .. c
      /\ \A i, j \in 1 .. c : i < j => list_pending'[i] < list_pending'[j]
      /\ \A fd \in S : \E i \in 1 .. c : list_pending'[i] = fd
  BY Zenon, <1>1 DEF InOrder, c
<1> HIDE DEF S
<1>4. list_pending' \in Seq(Fds)
  BY <1>2, <1>3
<1>5. \A i, j \in DOMAIN list_pending' : list_pending'[i] = list_pending'[j] => i = j
  <2> SUFFICES ASSUME NEW i \in 1 .. c, NEW j \in 1 .. c, list_pending'[i] = list_pending'[j]
               PROVE  i = j
    BY Zenon, <1>3
  <2>1. list_pending'[i] \in Nat
    BY Zenon, <1>2, <1>3, FdAssumption
  <2> QED
    BY <1>2, <1>3, <2>1
<1>6. \A fd \in Fds : Pending(fd)' <=> fd \in S
  BY Zenon, <1>3 DEF Pending
<1>7. \A fd \in Fds : events[fd] = {}
  <2>1. \A fd \in Fds : ~Pending(fd)
    BY DEF fdevent_process, Pending
  <2> QED
    BY Zenon, <2>1 DEF FdInv, PendingSound
<1>8. \A fd \in Fds : events'[fd] # {} <=> fd \in S
  BY Zenon, <1>1, <1>7 DEF S
<1>9. FdTypeOK'
  <2>1. events' \in [Fds -> SUBSET Events]
    BY Zenon, <1>1 DEF FdInv, FdTypeOK, Reports
  <2> QED
    BY Zenon, <1>4, <2>1 DEF FdInv, FdTypeOK, fdevent_process
<1>10. \A i \in DOMAIN list_pending' : list_pending'[i] \in active'
  BY Zenon, <1>3 DEF fdevent_process, S
<1> QED
  BY Zenon, <1>5, <1>6, <1>8, <1>9, <1>10 DEF FdInv, PendingSound

\* The next descriptor of the list is taken off it with its events.
LEMMA NextCalled == ASSUME FdInv, fdevent_call_fdfunc PROVE FdInv'
<1> DEFINE fd == Head(list_pending)
           n == Len(list_pending)
<1>1. /\ list_pending \in Seq(Fds) /\ list_pending # <<>> /\ events \in [Fds -> SUBSET Events]
      /\ \A i, j \in DOMAIN list_pending : list_pending[i] = list_pending[j] => i = j
      /\ events' = [events EXCEPT ![fd] = {}] /\ list_pending' = Tail(list_pending)
      /\ active' = active
  BY Zenon DEF FdInv, FdTypeOK, PendingSound, fdevent_call_fdfunc
<1>2. /\ n \in Nat \ {0} /\ DOMAIN list_pending = 1 .. n /\ fd = list_pending[1]
      /\ list_pending' \in Seq(Fds) /\ DOMAIN list_pending' = 1 .. n - 1 /\ fd \in Fds
      /\ \A i \in 1 .. n - 1 : list_pending'[i] = list_pending[i + 1]
  BY <1>1
<1> HIDE DEF n, fd
<1>3. /\ \A i \in 1 .. n - 1 : i + 1 \in (1 .. n) \ {1}
      /\ \A i, j \in 1 .. n - 1 : i + 1 = j + 1 => i = j
      /\ \A i \in (1 .. n) \ {1} : i - 1 \in 1 .. n - 1 /\ (i - 1) + 1 = i
      /\ 1 \in 1 .. n
  BY <1>2
<1>4. \A i, j \in DOMAIN list_pending' : list_pending'[i] = list_pending'[j] => i = j
  BY <1>1, <1>2, <1>3
<1>5. \A g \in Fds : Pending(g)' <=> g # fd /\ Pending(g)
  <2> SUFFICES ASSUME NEW g \in Fds PROVE Pending(g)' <=> g # fd /\ Pending(g)
    OBVIOUS
  <2>1. ASSUME NEW i \in DOMAIN list_pending', list_pending'[i] = g
        PROVE  g # fd /\ Pending(g)
    <3>1. i + 1 \in DOMAIN list_pending /\ i + 1 # 1 /\ list_pending[i + 1] = g
      BY Zenon, <1>2, <1>3, <2>1
    <3> QED
      BY Zenon, <1>1, <1>2, <1>3, <3>1 DEF Pending
  <2>2. ASSUME g # fd, NEW i \in DOMAIN list_pending, list_pending[i] = g
        PROVE  Pending(g)'
    <3>1. i - 1 \in DOMAIN list_pending' /\ list_pending'[i - 1] = g
      BY Zenon, <1>2, <1>3, <2>2
    <3> QED
      BY Zenon, <3>1 DEF Pending
  <2> QED
    BY Zenon, <2>1, <2>2 DEF Pending
<1>6. /\ events' \in [Fds -> SUBSET Events]
      /\ \A g \in Fds : events'[g] = IF g = fd THEN {} ELSE events[g]
  BY Zenon, <1>1, <1>2
<1>7. FdTypeOK'
  BY Zenon, <1>1, <1>2, <1>6 DEF FdInv, FdTypeOK
<1>8. \A i \in DOMAIN list_pending' : list_pending'[i] \in active'
  BY Zenon, <1>1, <1>2, <1>3 DEF FdInv, PendingSound
<1> QED
  BY Zenon, <1>4, <1>5, <1>6, <1>7, <1>8 DEF FdInv, PendingSound

\* A descriptor keeps its place or leaves the list with the last of its events;
\* no other one is touched.
LEMMA OneChanged ==
    ASSUME FdInv, NEW fd \in Fds, NEW E \in SUBSET Events, NEW A \in SUBSET Fds,
           events' = [events EXCEPT ![fd] = E], active' = A,
           \A g \in Fds \ {fd} : g \in active => g \in A,
           \/ E = {} /\ Pending(fd) /\ fdevent_plist_remove(fd)
           \/ E # {} /\ Pending(fd) /\ fd \in A /\ UNCHANGED list_pending
           \/ E = {} /\ ~Pending(fd) /\ UNCHANGED list_pending
    PROVE  FdInv'
<1>1. events \in [Fds -> SUBSET Events] /\ FdTypeOK /\ PendingSound
  BY Zenon DEF FdInv, FdTypeOK
<1>2. /\ events' \in [Fds -> SUBSET Events]
      /\ \A g \in Fds : events'[g] = IF g = fd THEN E ELSE events[g]
  BY Zenon, <1>1
<1>3. /\ list_pending' \in Seq(Fds)
      /\ \A j, k \in DOMAIN list_pending' : list_pending'[j] = list_pending'[k] => j = k
      /\ \A g \in Fds : Pending(g)' <=> (Pending(g) /\ (g = fd => E # {}))
  <2>1. CASE fdevent_plist_remove(fd) /\ E = {}
    BY Zenon, <2>1, RemoveFacts
  <2>2. CASE UNCHANGED list_pending /\ (E # {} \/ ~Pending(fd))
    BY Zenon, <1>1, <2>2 DEF FdTypeOK, PendingSound, Pending
  <2> QED
    BY Zenon, <2>1, <2>2
<1>4. FdTypeOK'
  BY Zenon, <1>2, <1>3 DEF FdTypeOK
<1>5. \A g \in Fds : Pending(g)' <=> events'[g] # {}
  BY Zenon, <1>1, <1>2, <1>3 DEF PendingSound
<1>6. \A g \in Fds : Pending(g)' => g \in active'
  <2>1. \A g \in Fds : Pending(g) => g \in active
    BY Zenon, <1>1, ListedActive DEF PendingSound
  <2> QED
    BY Zenon, <1>3, <2>1
<1>7. \A i \in DOMAIN list_pending' : list_pending'[i] \in active'
  <2>1. \A i \in DOMAIN list_pending' : list_pending'[i] \in Fds
    BY <1>3
  <2> QED
    BY Zenon, <1>6, <2>1 DEF Pending
<1> QED
  BY Zenon, <1>3, <1>4, <1>5, <1>7 DEF FdInv, PendingSound

\* fdevent_process, fdevent_loop and what a callback may call: the list of the
\* event loop stays in step with the events of the descriptors.
THEOREM FdInvariant == FdSpec => []FdInv
<1>1. FdInit => FdInv
  <2> SUFFICES ASSUME FdInit PROVE FdInv
    OBVIOUS
  <2>1. list_pending = <<>> /\ <<>> \in Seq(Fds) /\ DOMAIN <<>> = {}
    BY DEF FdInit
  <2> QED
    BY Zenon, <2>1, FdAssumption DEF FdInit, FdInv, FdTypeOK, PendingSound, Pending
<1>2. FdInv /\ [FdNext]_fdVars => FdInv'
  <2> SUFFICES ASSUME FdInv, [FdNext]_fdVars PROVE FdInv'
    OBVIOUS
  <2>1. active \in SUBSET Fds /\ events \in [Fds -> SUBSET Events]
    BY Zenon DEF FdInv, FdTypeOK
  <2>2. \A g \in Fds : (Pending(g) <=> events[g] # {}) /\ (Pending(g) => g \in active)
    BY Zenon, ListedActive DEF FdInv, PendingSound
  <2>3. CASE fdevent_process
    BY Zenon, <2>3, ListFilled
  <2>4. CASE fdevent_call_fdfunc
    BY Zenon, <2>4, NextCalled
  <2>5. CASE CallbackReturns \/ UNCHANGED fdVars
    BY Zenon, <2>5 DEF CallbackReturns, fdVars, FdInv, FdTypeOK, PendingSound, Pending
  <2>6. ASSUME NEW fd \in Fds, NEW E \in SUBSET Events, fdevent_set(fd, E) PROVE FdInv'
    <3>1. CASE Pending(fd)
      <4>1. events' = [events EXCEPT ![fd] = events[fd] \ E] /\ events[fd] \ E \in SUBSET Events
        BY Zenon, <2>1, <2>6, <3>1 DEF fdevent_set
      <4>2. /\ active' = active /\ fd \in active
            /\ \/ events[fd] \ E = {} /\ fdevent_plist_remove(fd)
               \/ events[fd] \ E # {} /\ UNCHANGED list_pending
        BY Zenon, <2>6, <3>1 DEF fdevent_set
      <4> QED
        BY Zenon, <2>1, <3>1, <4>1, <4>2, OneChanged
    <3>2. CASE ~Pending(fd)
      BY Zenon, <2>6, <3>2 DEF fdevent_set, FdInv, FdTypeOK, PendingSound, Pending
    <3> QED
      BY Zenon, <3>1, <3>2
  <2>7. ASSUME NEW fd \in Fds, fdevent_remove(fd) PROVE FdInv'
    <3>1. /\ events' = [events EXCEPT ![fd] = {}] /\ active' = active \ {fd}
          /\ \/ Pending(fd) /\ fdevent_plist_remove(fd)
             \/ ~Pending(fd) /\ UNCHANGED list_pending
      BY Zenon, <2>7 DEF fdevent_remove
    <3>2. active \ {fd} \in SUBSET Fds /\ {} \in SUBSET Events
      BY Zenon, <2>1
    <3> QED
      BY Zenon, <3>1, <3>2, OneChanged
  <2>8. ASSUME NEW fd \in Fds, fdevent_install(fd) PROVE FdInv'
    <3>1. /\ events' = [events EXCEPT ![fd] = {}] /\ active' = active \cup {fd}
          /\ UNCHANGED list_pending /\ ~Pending(fd)
      BY Zenon, <2>2, <2>8 DEF fdevent_install
    <3>2. active \cup {fd} \in SUBSET Fds /\ {} \in SUBSET Events
      BY Zenon, <2>1
    <3> QED
      BY Zenon, <3>1, <3>2, OneChanged
  <2> QED
    BY Zenon, <2>3, <2>4, <2>5, <2>6, <2>7, <2>8 DEF FdNext
<1> QED
  BY <1>1, <1>2, PTL DEF FdSpec

\* fdevent_call_fdfunc: no callback is called for a descriptor that an earlier
\* callback has closed, nor twice for the same events.
THEOREM PendingSoundCorrect == FdSpec => []PendingSound
<1>1. FdInv => PendingSound
  BY Zenon DEF FdInv
<1> QED
  BY <1>1, FdInvariant, PTL

=============================================================================
