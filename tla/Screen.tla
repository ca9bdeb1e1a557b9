------------------------------- MODULE Screen -------------------------------
(***************************************************************************)
(* What the screen shows outside of the console (ui.c): the log text in a  *)
(* ring of rows, the part of the menu that is visible, the progress bar    *)
(* moved by the updater and by a timer thread, and the LED, which a thread *)
(* of its own switches.  All but the LED is guarded by ui_update_mutex, so *)
(* each call is one step.  Positions count from 0 as in the code.          *)
(***************************************************************************)
EXTENDS Integers

CONSTANTS
    TextRows,      \* text_rows
    TextCols,      \* text_cols
    MenuSizes,     \* menus: records of the number of header lines and of items
    Portions,      \* portions of the bar a scope may have, in pixels
    MaxStart,      \* bound on where a scope of the progress bar begins
    Fraction,      \* a fraction of 1 in ui_set_progress
    Requested      \* fractions asked for, outside of 0 .. Fraction too

ASSUME ScreenAssumption ==
    /\ TextRows \in Nat /\ TextRows > 5 /\ TextCols \in Nat \ {0}
    /\ \A m \in MenuSizes : m.headers \in 0 .. TextRows - 5 /\ m.items \in Nat \ {0}
    /\ Portions \subseteq Nat /\ MaxStart \in Nat /\ Fraction \in Nat \ {0}
    /\ Requested \subseteq Int

VARIABLES
    text_row, text_col, text_top,
    show_menu, menu_top, menu_items, menu_items_screen, menu_item_top, menu_sel,
    bar,           \* "none", "indeterminate" or "normal"
    scope,         \* start and size of the scope, and 1 if it has a duration
    gProgress,     \* in units of 1 / Fraction
    led_sts,       \* what the LED is asked to do
    led,           \* 1 if it is lit: the state of led_thread
    led_pc,        \* where led_thread is
    led_signal     \* 1 if led_cond was signalled since it began to wait

textVars   == <<text_row, text_col, text_top>>
menuVars   == <<show_menu, menu_top, menu_items, menu_items_screen, menu_item_top, menu_sel>>
barVars    == <<bar, scope, gProgress>>
ledVars    == <<led_sts, led, led_pc, led_signal>>
screenVars == <<textVars, menuVars, barVars, ledVars>>

-----------------------------------------------------------------------------
(***************************************************************************)
(* The log: ui_print and ui_print_raw, a character at a time.              *)
(***************************************************************************)
\* Mutant: the top row stays when the ring is full.
NextLine_Mutant ==
    /\ text_row' = (text_row + 1) % TextRows
    /\ UNCHANGED text_top

NextLine ==
    /\ text_row' = (text_row + 1) % TextRows
    /\ text_top' = IF text_row' = text_top THEN (text_top + 1) % TextRows ELSE text_top

ui_print ==
    /\ \/ /\ NextLine /\ text_col' = 0                       \* '\n'
       \/ /\ text_col >= TextCols /\ NextLine /\ text_col' = 1  \* a letter that wraps
       \/ /\ text_col < TextCols /\ text_col' = text_col + 1
          /\ UNCHANGED <<text_row, text_top>>
    /\ UNCHANGED <<menuVars, barVars, ledVars>>

-----------------------------------------------------------------------------
(***************************************************************************)
(* The menu.                                                               *)
(***************************************************************************)
\* ui_start_menu, which also takes the progress bar away.
ui_start_menu(m, start_sel) ==
    /\ menu_top' = m.headers /\ menu_items' = m.items
    /\ LET room == TextRows - 4 - m.headers
       IN  menu_items_screen' = IF m.items < room THEN m.items ELSE room
    /\ show_menu' = 1 /\ menu_sel' = start_sel
    /\ menu_item_top' = IF start_sel >= menu_items_screen'
                        THEN start_sel - menu_items_screen' + 1 ELSE 0
    /\ bar' = "none" /\ scope' = [start |-> 0, size |-> 0, timed |-> 0] /\ gProgress' = 0
    /\ UNCHANGED <<textVars, ledVars>>

\* Mutant: scrolling down is off by one.
Scroll_Mutant(sel) ==
    IF sel < menu_item_top THEN sel
    ELSE IF sel > menu_item_top + menu_items_screen THEN sel - menu_items_screen + 1
    ELSE menu_item_top

\* The first item drawn, so that the selected one is on the screen.
Scroll(sel) ==
    IF sel < menu_item_top THEN sel
    ELSE IF sel >= menu_item_top + menu_items_screen THEN sel - menu_items_screen + 1
    ELSE menu_item_top

ui_menu_select(sel) ==
    /\ show_menu = 1
    /\ menu_sel' = IF sel < 0 THEN 0 ELSE IF sel >= menu_items THEN menu_items - 1 ELSE sel
    /\ menu_item_top' = IF menu_sel' # menu_sel THEN Scroll(menu_sel') ELSE menu_item_top
    /\ UNCHANGED <<show_menu, menu_top, menu_items, menu_items_screen, textVars, barVars, ledVars>>

ui_end_menu ==
    /\ show_menu = 1 /\ show_menu' = 0
    /\ UNCHANGED <<menu_top, menu_items, menu_items_screen, menu_item_top, menu_sel,
                   textVars, barVars, ledVars>>

\* draw_screen_locked: what row i of the screen shows.  A rule separates the
\* menu from the log.
Row(i) ==
    LET below == menu_top + menu_items_screen
    IN  IF show_menu = 0 \/ i > below THEN <<"text", (i + text_top) % TextRows>>
        ELSE IF i < menu_top THEN <<"header", i>>
        ELSE IF i < below THEN <<"item", i - menu_top + menu_item_top>>
        ELSE <<"rule", 0>>

-----------------------------------------------------------------------------
(***************************************************************************)
(* The progress bar.                                                       *)
(***************************************************************************)
ui_show_indeterminate_progress ==
    /\ bar' = "indeterminate"
    /\ UNCHANGED <<scope, gProgress, textVars, menuVars, ledVars>>

\* A new scope begins where the one before it ends, even past the bar.
ui_show_progress(portion, timed) ==
    /\ bar' = "normal"
    /\ scope' = [start |-> scope.start + scope.size, size |-> portion, timed |-> timed]
    /\ scope'.start <= MaxStart
    /\ gProgress' = 0
    /\ UNCHANGED <<textVars, menuVars, ledVars>>

Forward(fraction) ==
    /\ bar = "normal" /\ fraction > gProgress /\ gProgress' = fraction
    /\ UNCHANGED <<bar, scope, textVars, menuVars, ledVars>>

\* Only a change of at least a pixel counts.
ui_set_progress(f) ==
    LET fraction == IF f < 0 THEN 0 ELSE IF f > Fraction THEN Fraction ELSE f
    IN  /\ (gProgress * scope.size) \div Fraction # (fraction * scope.size) \div Fraction
        /\ Forward(fraction)

\* progress_thread, after any time.
progress_thread ==
    /\ scope.timed = 1
    /\ \E elapsed \in 0 .. Fraction : Forward(elapsed)

ui_reset_progress ==
    /\ bar' = "none" /\ scope' = [start |-> 0, size |-> 0, timed |-> 0] /\ gProgress' = 0
    /\ UNCHANGED <<textVars, menuVars, ledVars>>

\* draw_progress_locked: how much is filled, in pixels times Fraction.
Filled == scope.start * Fraction + gProgress * scope.size

-----------------------------------------------------------------------------
(***************************************************************************)
(* The LED.                                                                *)
(***************************************************************************)
\* Mutant: the thread is not signalled.
LedRequest_Mutant(sts) ==
    /\ led_sts' = sts
    /\ UNCHANGED <<led, led_pc, led_signal, textVars, menuVars, barVars>>

\* ui_led_toggle and ui_led_blink.
LedRequest(sts) ==
    /\ led_sts' = sts
    /\ led_signal' = IF led_pc = "wait" THEN 1 ELSE led_signal
    /\ UNCHANGED <<led, led_pc, textVars, menuVars, barVars>>

\* One round of led_thread under led_mutex.
LedSwitch ==
    \/ /\ led_sts \in {"off", "on"}
       /\ led' = (IF led_sts = "on" THEN 1 ELSE 0)
       /\ led_pc' = "wait" /\ led_signal' = 0 /\ UNCHANGED led_sts
    \/ /\ led_sts = "blink_once"
       /\ led' = 1 /\ led_sts' = "off" /\ led_pc' = "sleep" /\ UNCHANGED led_signal
    \/ /\ led_sts = "blink"
       /\ led' = 1 - led /\ led_pc' = "sleep" /\ UNCHANGED <<led_sts, led_signal>>

\* Woken up while nothing has changed, it waits again.
led_thread ==
    /\ \/ led_pc = "run" /\ LedSwitch
       \/ led_pc = "sleep" /\ led_pc' = "run" /\ UNCHANGED <<led_sts, led, led_signal>>
       \/ /\ led_pc = "wait" /\ led_signal = 1
          /\ IF led_sts = (IF led = 1 THEN "on" ELSE "off")
             THEN led_signal' = 0 /\ UNCHANGED led_pc
             ELSE led_pc' = "run" /\ UNCHANGED led_signal
          /\ UNCHANGED <<led_sts, led>>
    /\ UNCHANGED <<textVars, menuVars, barVars>>

-----------------------------------------------------------------------------
\* ui_init.
ScreenInit ==
    /\ text_row = 0 /\ text_col = 0 /\ text_top = 1
    /\ show_menu = 0 /\ menu_top = 0 /\ menu_items = 0 /\ menu_items_screen = 0
    /\ menu_item_top = 0 /\ menu_sel = 0
    /\ bar = "none" /\ scope = [start |-> 0, size |-> 0, timed |-> 0] /\ gProgress = 0
    /\ led_sts = "off" /\ led = 0 /\ led_pc = "run" /\ led_signal = 0

MenuCall ==
    \/ \E m \in MenuSizes : \E sel \in 0 .. m.items - 1 : ui_start_menu(m, sel)
    \/ \E sel \in -1 .. menu_items : ui_menu_select(sel)
    \/ ui_end_menu

BarCall ==
    \/ ui_show_indeterminate_progress
    \/ \E portion \in Portions, timed \in {0, 1} : ui_show_progress(portion, timed)
    \/ \E f \in Requested : ui_set_progress(f)
    \/ ui_reset_progress

LedCall == \E sts \in {"off", "on", "blink", "blink_once"} : LedRequest(sts)

ScreenNext ==
    ui_print \/ MenuCall \/ BarCall \/ progress_thread \/ LedCall \/ led_thread

ScreenSpec == ScreenInit /\ [][ScreenNext]_screenVars

-----------------------------------------------------------------------------
(***************************************************************************)
(* Properties.                                                             *)
(***************************************************************************)

\* The selected item is on the screen, wherever the menu was scrolled to and
\* however the selection moved (a step, a wrap, an initial selection far down),
\* no row shows an item the menu does not have, and the rows the menu leaves
\* show the log up to its newest line, the one at the bottom.
ScreenShows ==
    /\ Row(TextRows - 1) = <<"text", text_row>>
    /\ show_menu = 1 =>
           /\ \E i \in 0 .. TextRows - 1 : Row(i) = <<"item", menu_sel>>
           /\ \A i \in 0 .. TextRows - 1 :
                  Row(i)[1] = "item" => Row(i)[2] \in 0 .. menu_items - 1

\* The bar never goes back while it is shown: not when a new scope begins, nor
\* when the updater reports less than the timer has already shown, nor when it
\* reports a fraction outside of 0 to 1.
ProgressForward == [][bar' # "none" => Filled' >= Filled]_screenVars

\* The LED does not stay lit for good when it has been asked to be off: a blink
\* that is still running ends, and no request is missed by the waiting thread.
LedGoesOff == ~<>[](led_sts = "off" /\ led = 1)

=============================================================================
