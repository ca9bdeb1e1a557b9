----------------------------- MODULE MCScreens -----------------------------
(***************************************************************************)
(* Instances of Menus, Screen, ConsoleScreen and Scripts for TLC.  They    *)
(* share no state, so a behaviour exercises one of them, chosen at the     *)
(* start; of the screen either the log with the menu, or the progress bar, *)
(* or the LED.                                                             *)
(***************************************************************************)
EXTENDS Menus, Screen, ConsoleScreen, Scripts, TLC

CONSTANTS Main, Tools, Made, Boot, Root, Card, Stuff

Line(k)        == [kind |-> k, target |-> NoFile]
LineTo(k, t)   == [kind |-> k, target |-> t]

\* Main has a label first, leads to Tools and to the scripted menu Made; Made
\* leads to Tools again, so the stack gets as deep as it can.
MCLines ==
    (Main  :> <<Line("comment"), Line("broken"), Line("label"), LineTo("new_menu", Tools),
                LineTo("new_menu_scripted", Made), Line("directory"), Line("exit")>>)
 @@ (Tools :> <<Line("label"), LineTo("tag", Boot), LineTo("new_menu", Made), Line("label"),
                Line("broken"), Line("script"), LineTo("new_menu", Up)>>)
 @@ (Made  :> <<Line("label"), LineTo("new_menu", Up), LineTo("new_menu", Tools), Line("stay")>>)

\* The name of Stuff, and in it that of a package, sort before "../".
MCParent   == (Root :> Root) @@ (Card :> Root) @@ (Stuff :> Card)
MCPackages == (Root :> {}) @@ (Card :> {"new.zip"}) @@ (Stuff :> {"(old).zip"})
MCRank     == (Stuff :> 0) @@ ("(old).zip" :> 1) @@ (DirUp :> 2) @@ ("new.zip" :> 3)
                 @@ (Card :> 4) @@ (Root :> 5)

MCRequested == {-1, 1, 2, 3, 5}
MCMenuSizes == {[headers |-> 1, items |-> 2], [headers |-> 2, items |-> 5]}

VARIABLE part

screensVars == <<part, menusVars, screenVars, consoleVars, scriptVars>>

ScreensInit ==
    /\ part \in {"menus", "log", "bar", "led", "console", "script"}
    /\ MenusInit /\ ScreenInit /\ ConsoleInit /\ ScriptsInit
    /\ part # "script" => ~has_qwerty

ScreenPart ==
    \/ part = "log" /\ (ui_print \/ MenuCall)
    \/ part = "bar" /\ (BarCall \/ progress_thread)
    \/ part = "led" /\ (LedCall \/ led_thread)

ScreensNext ==
    /\ UNCHANGED part
    /\ \/ part = "menus" /\ MenusNext /\ UNCHANGED <<screenVars, consoleVars, scriptVars>>
       \/ ScreenPart /\ UNCHANGED <<menusVars, consoleVars, scriptVars>>
       \/ part = "console" /\ ConsoleNext /\ UNCHANGED <<menusVars, screenVars, scriptVars>>
       \/ part = "script" /\ ScriptsNext /\ UNCHANGED <<menusVars, screenVars, consoleVars>>

ScreensSpec ==
    /\ ScreensInit /\ [][ScreensNext]_screensVars
    /\ WF_menusVars(part = "menus" /\ Move)
    /\ WF_ledVars(part = "led" /\ led_thread)
    /\ WF_scriptVars(part = "script" /\ imenu)
    /\ WF_scriptVars(part = "script" /\ run_shell_script)

=============================================================================
