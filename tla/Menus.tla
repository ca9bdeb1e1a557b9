------------------------------- MODULE Menus -------------------------------
(***************************************************************************)
(* The custom menus of the recovery (recovery.c): menu files are parsed by *)
(* create_menu into the items on the screen, and prompt_and_wait keeps a   *)
(* stack of the menus that led to the current one.  Scripts change menu    *)
(* files and tag files behind the menus' back, so opening a menu may fail  *)
(* at any level.  The directory browsers are recursive calls from an item. *)
(*                                                                         *)
(* Menu levels are numbered from 0 as in the code, items from 1.           *)
(***************************************************************************)
EXTENDS Integers, Sequences, FiniteSets

CONSTANTS
    MenuFiles,   \* names of menu files
    MainMenu,    \* MAIN_MENU_FILE
    Lines,       \* per menu file: its lines, see LineKinds
    Tags,        \* tag files
    MaxLevel,    \* MAX_MENU_LEVEL, 50 in the code
    MaxItems,    \* MAX_MENU_ITEMS, 50 in the code
    Top,         \* the directory of a browsing item
    Parent,      \* per directory: the directory above it
    Packages,    \* per directory: its packages or scripts
    Rank,        \* per name of a package or directory: its place for strcmp
    MaxDepth     \* bound on the browsing calls

NoFile == "nofile"   \* NULL
Up     == ".."       \* the target that leaves a menu
DirUp  == "../"      \* the entry that leaves a directory

\* What a line of a menu file can be: a comment, a line that has no colon or
\* lacks a field, or an item with its action and target.
Actions ==
    {"new_menu", "new_menu_scripted", "tag", "script", "directory", "label", "stay", "exit"}

ASSUME MenusAssumption ==
    /\ MainMenu \in MenuFiles /\ {NoFile, Up} \cap MenuFiles = {}
    /\ MaxLevel \in Nat \ {0} /\ MaxItems \in Nat \ {0} /\ MaxDepth \in Nat \ {0}
    /\ Parent \in [DOMAIN Parent -> DOMAIN Parent] /\ Top \in DOMAIN Parent
    /\ DirUp \notin DOMAIN Parent /\ IsFiniteSet(DOMAIN Parent)
    /\ DOMAIN Packages = DOMAIN Parent /\ \A d \in DOMAIN Packages : IsFiniteSet(Packages[d])
    /\ Rank \in [DOMAIN Rank -> Int] /\ \A a, b \in DOMAIN Rank : Rank[a] = Rank[b] => a = b
    /\ {DirUp} \cup DOMAIN Parent \cup UNION {Packages[d] : d \in DOMAIN Packages}
           \subseteq DOMAIN Rank
    /\ \A f \in MenuFiles : \A i \in 1 .. Len(Lines[f]) :
           Lines[f][i].kind \in {"comment", "broken"} \cup Actions

VARIABLES
    present,      \* menu files that exist
    tag_files,    \* tag files that exist
    menu_level,
    menu_files,   \* per level: the menu file, or NoFile
    menu_scripts, \* per level: the file whose script makes it, or NoFile
    sel_at,       \* menu_sel, per level: the item that led one level down
    shown,        \* the file MENU_ITEMS was made from
    tag_box,      \* per item: 1 or 0 for a tag, 255 otherwise
    selected,
    override,     \* override_initial_selection, 0 for none
    mpc,          \* where prompt_and_wait is
    dirs,         \* the directories of the browsing calls, the innermost last
    stale,        \* history: 1 if a script ran since the items were made
    up_failed     \* history: 1 from a ".." whose create_menu failed to one that did not

stackVars == <<menu_level, menu_files, menu_scripts, sel_at>>
worldVars == <<present, tag_files>>
shownVars == <<worldVars, shown, tag_box, stale, up_failed>>
menusVars == <<shownVars, stackVars, selected, override, mpc, dirs>>

Levels == 0 .. MaxLevel - 1

-----------------------------------------------------------------------------
(***************************************************************************)
(* create_menu.                                                            *)
(***************************************************************************)
IsItem(line)     == line.kind \in Actions
NotComment(line) == line.kind # "comment"

\* The first line that is not a comment is the title; of the others those with
\* three fields are items, up to MaxItems of them.
MenuItems(f) ==
    LET text  == SelectSeq(Lines[f], NotComment)
        items == IF text = <<>> THEN <<>> ELSE SelectSeq(Tail(text), IsItem)
    IN  IF Len(items) > MaxItems THEN SubSeq(items, 1, MaxItems) ELSE items

\* Menus without items, or so many that no NULL ends their list, are left out.
ASSUME MenusFit == \A f \in MenuFiles : Len(MenuItems(f)) \in 1 .. MaxItems - 1

\* MenuFiles has every name that an item leads to.
ASSUME MenusLead ==
    \A f \in MenuFiles : \A i \in 1 .. Len(MenuItems(f)) :
        /\ MenuItems(f)[i].kind = "new_menu" => MenuItems(f)[i].target \in MenuFiles \cup {Up}
        /\ MenuItems(f)[i].kind = "new_menu_scripted" => MenuItems(f)[i].target \in MenuFiles

Selectable(f, i) == MenuItems(f)[i].kind # "label"

Box(f, tags) ==
    [i \in 1 .. Len(MenuItems(f)) |->
        IF MenuItems(f)[i].kind # "tag" THEN 255
        ELSE IF MenuItems(f)[i].target \in tags THEN 1 ELSE 0]

\* A script may make or remove one menu file and one tag.
Changed(S, T) == {S} \cup {S \cup {x} : x \in T} \cup {S \ {x} : x \in T}

\* The script of the menu runs first; if then the file cannot be opened the
\* menu on the screen stays.  P and T are the menu files and tags before, up
\* says whether a ".." asks for the menu.
create_menu(f, script, P, T, up) ==
    /\ \/ script = NoFile /\ present' = P /\ tag_files' = T
       \/ /\ script # NoFile
          /\ present' \in Changed(P, MenuFiles) /\ tag_files' \in Changed(T, Tags)
    /\ \/ /\ f \in present'
          /\ shown' = f /\ tag_box' = Box(f, tag_files')
          /\ stale' = 0 /\ up_failed' = 0
       \/ /\ f \notin present'
          /\ UNCHANGED <<shown, tag_box>>
          /\ stale' = 1 /\ up_failed' = IF up THEN 1 ELSE up_failed

-----------------------------------------------------------------------------
(***************************************************************************)
(* get_menu_selection on the items shown.                                  *)
(***************************************************************************)
Item == MenuItems(shown)[selected]

Clamp(n, start) == IF start > n THEN n ELSE IF start < 1 THEN 1 ELSE start

\* Mutant: the initial selection is only clamped.
StartSelection_Mutant(f, start) == Clamp(Len(MenuItems(f)), start)

Least(S) == CHOOSE i \in S : \A j \in S : i <= j

\* The initial selection: clamped, then moved on to the next selectable item,
\* from the last item to the first.
StartSelection(f, start) ==
    LET n     == Len(MenuItems(f))
        first == Clamp(n, start)
        ok    == {i \in 1 .. n : Selectable(f, i)}
        ahead == {i \in ok : i >= first}
    IN  IF ok = {} THEN first ELSE Least(IF ahead # {} THEN ahead ELSE ok)

MenuOpen ==
    /\ mpc = "loop"
    /\ selected' = StartSelection(shown, override)
    /\ override' = 0 /\ mpc' = "menu"
    /\ UNCHANGED <<shownVars, stackVars, dirs>>

NextItem(n, s) == IF s + 1 > n THEN 1 ELSE s + 1
PrevItem(n, s) == IF s - 1 < 1 THEN n ELSE s - 1

\* Mutant: moving up does not wrap at the first item.
Highlight_Mutant(dir) ==
    /\ LET n == Len(MenuItems(shown))
           s == IF dir = "down" THEN NextItem(n, selected) ELSE Clamp(n, selected - 1)
       IN  /\ selected' = s
           /\ mpc' = IF Selectable(shown, s) THEN "menu" ELSE dir
    /\ UNCHANGED <<shownVars, stackVars, override, dirs>>

\* One round of the loop of HIGHLIGHT_UP or HIGHLIGHT_DOWN.
Highlight(dir) ==
    /\ LET n == Len(MenuItems(shown))
           s == IF dir = "down" THEN NextItem(n, selected) ELSE PrevItem(n, selected)
       IN  /\ selected' = s
           /\ mpc' = IF Selectable(shown, s) THEN "menu" ELSE dir
    /\ UNCHANGED <<shownVars, stackVars, override, dirs>>

Press == mpc = "menu" /\ \E dir \in {"up", "down"} : Highlight(dir)
Move  == mpc \in {"up", "down"} /\ Highlight(mpc)

-----------------------------------------------------------------------------
(***************************************************************************)
(* The items of prompt_and_wait.                                           *)
(***************************************************************************)
Choose(kinds) == mpc = "menu" /\ Item.kind \in kinds

\* Reboot, power off, reboot to the bootloader.
ItemExit ==
    /\ Choose({"exit"}) /\ mpc' = "exit"
    /\ UNCHANGED <<shownVars, stackVars, selected, override, dirs>>

\* A wipe, the installation of one package, an unknown command: the menu comes
\* up again at its first item.  A wipe or an installation that is done while the
\* text is not visible ends the recovery instead.
ItemStay ==
    /\ \/ Choose({"stay", "label"}) /\ mpc' = "loop"
       \/ Choose({"stay"}) /\ mpc' = "exit"
    /\ UNCHANGED <<shownVars, stackVars, selected, override, dirs>>

\* After a script, a console or a sideload the current menu is made again.
Refresh ==
    /\ \E P \in Changed(present, MenuFiles), T \in Changed(tag_files, Tags) :
           create_menu(menu_files[menu_level], menu_scripts[menu_level], P, T, FALSE)
    /\ override' = selected /\ mpc' = "loop"
    /\ UNCHANGED <<stackVars, selected>>

ItemScript == Choose({"script"}) /\ Refresh /\ UNCHANGED dirs

\* Mutant: the box is set even if the file cannot be made.
ItemTag_Mutant ==
    /\ Choose({"tag"}) /\ mpc' = "loop"
    /\ tag_box' = [tag_box EXCEPT ![selected] = 1 - tag_box[selected]]
    /\ tag_files' \in {tag_files, IF tag_box[selected] = 0 THEN tag_files \cup {Item.target}
                                  ELSE tag_files \ {Item.target}}
    /\ override' = selected
    /\ UNCHANGED <<present, shown, stale, up_failed, stackVars, selected, dirs>>

\* A tag is toggled in the file system and in the item.  Making the file and
\* removing it may both fail; only the first is looked at.
ItemTag ==
    /\ Choose({"tag"}) /\ mpc' = "loop"
    /\ \/ /\ tag_box[selected] = 0
          /\ \/ /\ tag_files' = tag_files \cup {Item.target}
                /\ tag_box' = [tag_box EXCEPT ![selected] = 1]
             \/ UNCHANGED <<tag_files, tag_box>>
       \/ /\ tag_box[selected] = 1
          /\ tag_files' \in {tag_files, tag_files \ {Item.target}}
          /\ tag_box' = [tag_box EXCEPT ![selected] = 0]
    /\ override' = selected
    /\ UNCHANGED <<present, shown, stale, up_failed, stackVars, selected, dirs>>

\* The stack one level down, at file f, made by the script of s.
Pushed(f, s) ==
    [level   |-> menu_level + 1,
     files   |-> [menu_files EXCEPT ![menu_level + 1] = f],
     scripts |-> [menu_scripts EXCEPT ![menu_level + 1] = s],
     sel     |-> [sel_at EXCEPT ![menu_level] = selected]]

\* The stack without its last level.
Popped(st) ==
    [level   |-> st.level - 1,
     files   |-> [st.files EXCEPT ![st.level] = NoFile],
     scripts |-> [st.scripts EXCEPT ![st.level] = NoFile],
     sel     |-> st.sel]

Stack == [level |-> menu_level, files |-> menu_files, scripts |-> menu_scripts, sel |-> sel_at]

SetStack(st) ==
    /\ menu_level' = st.level /\ menu_files' = st.files
    /\ menu_scripts' = st.scripts /\ sel_at' = st.sel

\* Mutant: a menu that cannot be opened stays on the stack.
OpenMenu_Mutant(st) ==
    /\ create_menu(st.files[st.level], st.scripts[st.level], present, tag_files,
                   st.level <= menu_level)
    /\ SetStack(st)

\* The menu of the new stack is made; if that fails the last level is removed,
\* whether it was pushed just now or not.
OpenMenu(st) ==
    /\ create_menu(st.files[st.level], st.scripts[st.level], present, tag_files,
                   st.level <= menu_level)
    /\ SetStack(IF st.files[st.level] \notin present' /\ st.level > 0 THEN Popped(st) ELSE st)

\* Too many menus: ignored, and so is "..".
ItemTooDeep ==
    /\ Choose({"new_menu", "new_menu_scripted"}) /\ mpc' = "loop"
    /\ menu_level + 1 >= MaxLevel
    /\ UNCHANGED <<shownVars, stackVars, selected, override, dirs>>

\* "..": the level above, or at level 0 the same menu again.
ItemUp ==
    /\ Choose({"new_menu"}) /\ mpc' = "loop"
    /\ Item.target = Up /\ menu_level + 1 < MaxLevel
    /\ \/ /\ menu_level > 0 /\ override' = sel_at[menu_level - 1]
          /\ OpenMenu(Popped([Stack EXCEPT !.sel[menu_level] = 1]))
       \/ menu_level = 0 /\ UNCHANGED override /\ OpenMenu(Stack)
    /\ UNCHANGED <<selected, dirs>>

\* The script of the new level is not touched.
ItemNewMenu ==
    /\ Choose({"new_menu"}) /\ mpc' = "loop"
    /\ Item.target # Up /\ menu_level + 1 < MaxLevel
    /\ OpenMenu(Pushed(Item.target, menu_scripts[menu_level + 1]))
    /\ UNCHANGED <<selected, override, dirs>>

\* A script is known by the menu file it makes.
ItemNewMenuScripted ==
    /\ Choose({"new_menu_scripted"}) /\ mpc' = "loop"
    /\ menu_level + 1 < MaxLevel
    /\ OpenMenu(Pushed(Item.target, Item.target))
    /\ UNCHANGED <<selected, override, dirs>>

-----------------------------------------------------------------------------
(***************************************************************************)
(* update_directory and script_directory.                                  *)
(***************************************************************************)
Before(a, b) == Rank[a] < Rank[b]
Subdirs(d)   == {e \in DOMAIN Parent : Parent[e] = d /\ e # d}

\* What qsort makes of the names in S.
Sorted(S) ==
    {s \in [1 .. Cardinality(S) -> S] :
        /\ \A i, j \in DOMAIN s : i < j => Before(s[i], s[j])
        /\ \A name \in S : \E i \in DOMAIN s : s[i] = name}

\* Mutant: one sort over the whole list.
Listing_Mutant(d) == Sorted(Packages[d] \cup {DirUp} \cup Subdirs(d))

\* The list of a directory: "../" is sorted with the packages; the
\* subdirectories follow.
Listing(d) == {l[1] \o l[2] : l \in Sorted(Packages[d] \cup {DirUp}) \X Sorted(Subdirs(d))}

Here == dirs[Len(dirs)]

\* A directory that cannot be opened returns to the caller.
EnterDirectory(d) == dirs' \in {dirs, Append(dirs, d)}

ItemDirectory ==
    /\ Choose({"directory"})
    /\ EnterDirectory(Top)
    /\ \/ /\ dirs' # dirs /\ mpc' = "browse"
          /\ UNCHANGED <<shownVars, stackVars, selected, override>>
       \/ dirs' = dirs /\ Refresh

\* Item 0 leaves the directory, whatever its name; the outermost call returns
\* to prompt_and_wait, which makes the menu again.
BrowseUp ==
    /\ mpc = "browse" /\ dirs' = SubSeq(dirs, 1, Len(dirs) - 1)
    /\ \/ /\ dirs' # <<>>
          /\ UNCHANGED <<shownVars, stackVars, selected, override, mpc>>
       \/ dirs' = <<>> /\ Refresh

\* A name that ends in a slash is browsed, "../" included.
BrowseDown ==
    /\ mpc = "browse" /\ Len(dirs) < MaxDepth
    /\ \E list \in Listing(Here) : \E i \in 2 .. Len(list) :
           LET name == list[i]
           IN  /\ name \notin Packages[Here]
               /\ EnterDirectory(IF name = DirUp THEN Parent[Here] ELSE name)
    /\ UNCHANGED <<shownVars, stackVars, selected, override, mpc>>

\* A package or script is installed or run once it is confirmed; a script may
\* change the menu files and tags.  The browser goes on.
BrowseRun ==
    /\ mpc = "browse"
    /\ \E list \in Listing(Here) : \E i \in 2 .. Len(list) : list[i] \in Packages[Here]
    /\ present' \in Changed(present, MenuFiles) /\ tag_files' \in Changed(tag_files, Tags)
    /\ stale' = 1
    /\ UNCHANGED <<shown, tag_box, up_failed, stackVars, selected, override, mpc, dirs>>

update_directory == BrowseUp \/ BrowseDown \/ BrowseRun

\* The same browser over ".sh" files: it differs in what it lists and runs.
script_directory == update_directory

-----------------------------------------------------------------------------
MenusInit ==
    /\ present = MenuFiles /\ tag_files = {}
    /\ menu_level = 0
    /\ menu_files = [l \in Levels |-> IF l = 0 THEN MainMenu ELSE NoFile]
    /\ menu_scripts = [l \in Levels |-> NoFile]
    /\ sel_at = [l \in Levels |-> 1]
    /\ shown = MainMenu /\ tag_box = Box(MainMenu, {})
    /\ selected = 1 /\ override = 0 /\ mpc = "loop"
    /\ dirs = <<>> /\ stale = 0 /\ up_failed = 0

MenusNext ==
    \/ MenuOpen \/ Press \/ Move
    \/ ItemExit \/ ItemStay \/ ItemScript \/ ItemTag
    \/ ItemTooDeep \/ ItemUp \/ ItemNewMenu \/ ItemNewMenuScripted
    \/ ItemDirectory \/ update_directory \/ script_directory

MenusSpec == MenusInit /\ [][MenusNext]_menusVars /\ WF_menusVars(Move)

-----------------------------------------------------------------------------
(***************************************************************************)
(* Properties.                                                             *)
(***************************************************************************)

\* The stack is what the user sees.  The items on the screen are those of the
\* menu on top of it, so that a refresh or a ".." is about that menu; the one
\* exception the code has is a ".." whose menu cannot be opened:
\* prompt_and_wait then takes a level away that was never pushed ("if fail,
\* remove the new menu").  And no level above the top has a file or a script
\* left: a plain menu opened there later would run the script of a menu that
\* was closed long ago.
ShownIsCurrent ==
    /\ shown = menu_files[menu_level] \/ up_failed = 1
    /\ \A l \in Levels :
           IF l <= menu_level THEN menu_files[l] \in MenuFiles
           ELSE menu_files[l] = NoFile /\ menu_scripts[l] = NoFile

\* While the user can act, the highlight is on an item that can be chosen,
\* unless the menu has none; the initial selection comes from another menu or
\* from an earlier form of this one, so it may be past the end or on a label.
HighlightSelectable ==
    mpc = "menu" =>
        \/ Selectable(shown, selected)
        \/ \A i \in 1 .. Len(MenuItems(shown)) : ~Selectable(shown, i)

\* A box that is checked stands for a tag file that exists, since create_menu
\* made the items; scripts are the only others who touch the files, and after
\* them the menu is made again unless that fails.
TagBoxSound ==
    stale = 0 => \A i \in 1 .. Len(tag_box) :
                    tag_box[i] = 1 => MenuItems(shown)[i].target \in tag_files

\* In a directory where no name sorts before "../", item 0 is the way up and
\* the only one: every browsing call below it is for one of its subdirectories.
BrowseDescends ==
    \A i \in 1 .. Len(dirs) - 1 :
        Parent[dirs[i + 1]] = dirs[i] \/ \E p \in Packages[dirs[i]] : Before(p, DirUp)

\* The loop that skips the items that cannot be chosen ends if there is one
\* that can.
MovesEnd ==
    (mpc \in {"up", "down"} /\ \E i \in 1 .. Len(MenuItems(shown)) : Selectable(shown, i))
        ~> (mpc = "menu")

=============================================================================
