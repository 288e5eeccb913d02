----------------------------- MODULE SwmDesktop -----------------------------
(***************************************************************************)
(* The built-in desktop of the compositor, libs/gui/swm/src/de/de.c: a     *)
(* taskbar with a launcher and one item per window, and the launcher menu. *)
(*                                                                         *)
(* The items are rebuilt from the surface table when a frame is painted,   *)
(* and clicks are resolved against the items of the last frame.  They are  *)
(* in id order, so the set of their ids is the whole list.  A mouse        *)
(* position is abstracted to the control it is on.                         *)
(***************************************************************************)
EXTENDS SwmSurfaces

CONSTANTS HasDE,          \* de_create succeeded
          MaxItems        \* DE_MAX_ITEMS

ASSUME DesktopAssumption == HasDE \in BOOLEAN /\ MaxItems \in Nat

VARIABLES
    items,             \* the surface_id of each item
    focusedItem,       \* the id of the item drawn as focused, 0 if none
    menuOpen,          \* menu_open
    launcherPressed,   \* launcher_pressed
    pressedItem        \* pressed_item, counted from 1, 0 for none

desktopVars == <<items, focusedItem, menuOpen, launcherPressed, pressedItem>>

\* de_surface_is_window
Windows == {s \in Slots : InUse(s) /\ surf[s].committed /\ surf[s].role = "toplevel"}
Shown == {s \in Windows : ~ surf[s].minimized}
Ids(S) == {surf[s].id : s \in S}

\* The n smallest numbers of S, and the position of a number in S.
Position(S, i) == Cardinality({j \in S : j <= i})
Smallest(n, S) == {i \in S : Position(S, i) <= n}

\* Mutant: the focused item is the newest window.
TickFocusNewest ==
    /\ items' = Smallest(MaxItems, Ids(Windows))
    /\ focusedItem' = IF Shown = {} THEN 0
                      ELSE CHOOSE i \in Ids(Shown) : \A j \in Ids(Shown) : j <= i
    /\ UNCHANGED <<menuOpen, launcherPressed, pressedItem>>

\* de_tick
Tick ==
    /\ items' = Smallest(MaxItems, Ids(Windows))
    /\ focusedItem' = IF Shown # {} /\ surf[Topmost(Shown)].id \in items'
                      THEN surf[Topmost(Shown)].id ELSE 0
    /\ UNCHANGED <<menuOpen, launcherPressed, pressedItem>>

-----------------------------------------------------------------------------
\* The controls a position can be on: an item, a menu entry while the menu is
\* open, the launcher, the rest of the taskbar, or none.
Entries == {"launch", "tile", "cascade", "minimize", "quit"}
Places == {<<"off", 0>>, <<"bar", 0>>, <<"launcher", 0>>}
            \cup {<<"item", i>> : i \in 1 .. Cardinality(items)}
            \cup (IF menuOpen THEN {<<e, 0>> : e \in Entries} ELSE {})

OnEntry(p) == p[1] \in Entries
InPanel(p) == p[1] # "off"

\* run_menu_action; "launch" stands for the two entries that start a program.
AfterEntry(e, s) ==
    IF e = "tile" /\ s \in Shown THEN [surf[s] EXCEPT !.maximized = FALSE]
    ELSE IF e = "cascade" THEN [surf[s] EXCEPT !.maximized = FALSE, !.minimized = FALSE]
    ELSE IF e = "minimize" THEN [surf[s] EXCEPT !.minimized = TRUE]
    ELSE surf[s]

RunEntry(e) ==
    /\ surf' = [s \in Slots |-> IF s \in Windows THEN AfterEntry(e, s) ELSE surf[s]]
    /\ phase' = IF e = "quit" THEN "quitting" ELSE phase
    /\ UNCHANGED <<lists, z>>

\* item_clicked
ItemClicked(i) ==
    /\ \/ /\ ~ \E s \in Windows : Position(items, surf[s].id) = i /\ surf[s].id \in items
          /\ UNCHANGED <<surf, z>>
       \/ \E s \in Windows :
             /\ surf[s].id \in items /\ Position(items, surf[s].id) = i
             /\ IF surf[s].minimized
                THEN surf' = [surf EXCEPT ![s].minimized = FALSE] /\ z' = Raised(s)
                ELSE IF s = Topmost(Shown)
                THEN surf' = [surf EXCEPT ![s].minimized = TRUE] /\ UNCHANGED z
                ELSE UNCHANGED surf /\ z' = Raised(s)
    /\ UNCHANGED <<lists, phase>>

-----------------------------------------------------------------------------
\* de_on_mouse_button: what a press and a release do.  A press is consumed when it
\* is on the panel; the left button in the frame around the menu counts as off.

DesktopPress(p, left) ==
    /\ IF left /\ OnEntry(p) THEN RunEntry(p[1]) ELSE UNCHANGED <<surfaceVars, phase>>
    /\ menuOpen' = (menuOpen /\ ~ left)
    /\ launcherPressed' = (launcherPressed \/ (left /\ p[1] = "launcher"))
    /\ pressedItem' = IF left /\ p[1] = "item" THEN p[2] ELSE pressedItem
    /\ UNCHANGED <<items, focusedItem>>

DesktopRelease(p, left) ==
    /\ IF left /\ ~ launcherPressed /\ pressedItem # 0 /\ p = <<"item", pressedItem>>
       THEN ItemClicked(pressedItem) ELSE UNCHANGED <<surfaceVars, phase>>
    /\ menuOpen' = IF left /\ launcherPressed /\ p[1] = "launcher" THEN ~ menuOpen
                   ELSE menuOpen
    /\ launcherPressed' = (launcherPressed /\ ~ left)
    /\ pressedItem' = IF left /\ ~ launcherPressed THEN 0 ELSE pressedItem
    /\ UNCHANGED <<items, focusedItem>>

\* de_toggle_menu
ToggleMenu == /\ menuOpen' = ~ menuOpen
              /\ UNCHANGED <<items, focusedItem, launcherPressed, pressedItem>>
=============================================================================
