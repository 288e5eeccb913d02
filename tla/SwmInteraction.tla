--------------------------- MODULE SwmInteraction ---------------------------
(***************************************************************************)
(* What an input event does to the compositor: swm_interaction_            *)
(* forward_input of libs/gui/swm/src/interaction/interaction.c.            *)
(*                                                                         *)
(* Where the surfaces are is not modelled: a hit test may find any visible *)
(* surface that is not a subsurface, in any region it has.  The events     *)
(* that are only passed on to a client change nothing here.                *)
(***************************************************************************)
EXTENDS SwmDesktop

CONSTANT Inputs           \* the kinds of input event of a run

ASSUME InputsAssumption ==
    Inputs \subseteq {"motion", "left", "right", "escape", "menu", "alt"}

inputVars == <<clients, nextId>>

\* hit_test
Hits == {<<"none", 0>>}
        \cup {<<"content", s>> : s \in {t \in Visible : surf[t].role # "subsurface"}}
        \cup {<<r, s>> : r \in {"titlebar", "min", "max", "close"},
                         s \in {t \in Visible : surf[t].role = "toplevel"}}

Content(hit) == IF hit[1] = "content" THEN hit[2] ELSE 0

\* Mutant: the old surface's cursor survives a change of hovered_surface.
MotionKeepsCursor ==
    /\ ~ (interaction = "move" /\ grab # 0)
    /\ \E hit \in Hits : hovered' = Content(hit)
    /\ UNCHANGED <<inputVars, surfaceVars, interaction, grab, cursor, desktopVars, phase>>

\* Unless a surface is being moved: over the panel nothing is hovered; else the
\* surface hit is, and the cursor is reset when that changes.
PointerMoves ==
    /\ ~ (interaction = "move" /\ grab # 0)
    /\ \/ /\ HasDE /\ TopmostPopup = 0
          /\ hovered' = 0 /\ cursor' = 0
       \/ \E hit \in Hits :
             /\ hovered' = Content(hit)
             /\ cursor' = IF hovered # Content(hit) \/ hit[1] # "content" THEN 0 ELSE cursor
    /\ UNCHANGED <<inputVars, surfaceVars, interaction, grab, desktopVars, phase>>

\* A motion during a move only changes the position of the grabbed surface.
GrabMoves ==
    /\ interaction = "move" /\ grab # 0
    /\ UNCHANGED <<inputVars, surfaceVars, pointerVars, cursor, desktopVars, phase>>

MouseMotion == "motion" \in Inputs /\ (PointerMoves \/ GrabMoves)

-----------------------------------------------------------------------------
\* A press that the desktop, or the popup that holds the pointer, did not take.
Pressed(hit, left, alt) ==
    /\ IF hit[2] # 0 THEN z' = RaisedAll(Subtree(hit[2])) ELSE UNCHANGED z
    /\ surf' = IF hit[1] = "min" THEN [surf EXCEPT ![hit[2]].minimized = TRUE]
               ELSE IF hit[1] = "max" THEN [surf EXCEPT ![hit[2]].maximized = ~ @]
               ELSE surf
    /\ IF /\ hit[1] = "titlebar" \/ (hit[1] = "content" /\ alt)
          /\ left /\ ~ IsChild(hit[2]) /\ ~ surf[hit[2]].maximized
       THEN interaction' = "move" /\ grab' = hit[2]
       ELSE UNCHANGED <<interaction, grab>>
    /\ UNCHANGED lists

\* While a popup is shown a press elsewhere only asks it to close.
ButtonDown(left) ==
    /\ \E p \in Places, hit \in Hits, alt \in BOOLEAN :
          /\ alt => "alt" \in Inputs
          /\ IF TopmostPopup # 0
             THEN /\ IF hit[2] = TopmostPopup THEN Pressed(hit, left, alt)
                     ELSE UNCHANGED <<surfaceVars, interaction, grab>>
                  /\ UNCHANGED <<desktopVars, phase>>
             ELSE IF HasDE /\ InPanel(p)
             THEN DesktopPress(p, left) /\ UNCHANGED <<interaction, grab>>
             ELSE /\ Pressed(hit, left, alt)
                  /\ menuOpen' = (menuOpen /\ ~ left)
                  /\ UNCHANGED <<items, focusedItem, launcherPressed, pressedItem, phase>>
    /\ UNCHANGED <<inputVars, hovered, cursor>>

\* Mutant: the release of any button ends the move, and the grabbed surface is
\* remembered.
ButtonUpKeepsGrab(left) ==
    /\ interaction' = "none"
    /\ UNCHANGED <<inputVars, surfaceVars, grab, hovered, cursor, desktopVars, phase>>

ButtonUp(left) ==
    /\ IF left /\ interaction = "move"
       THEN /\ interaction' = "none" /\ grab' = 0
            /\ UNCHANGED <<surfaceVars, desktopVars, phase>>
       ELSE /\ IF HasDE /\ TopmostPopup = 0
               THEN \E p \in Places : DesktopRelease(p, left)
               ELSE UNCHANGED <<surfaceVars, desktopVars, phase>>
            /\ UNCHANGED <<interaction, grab>>
    /\ UNCHANGED <<inputVars, hovered, cursor>>

MouseButton == \/ "left" \in Inputs /\ (ButtonDown(TRUE) \/ ButtonUp(TRUE))
               \/ "right" \in Inputs /\ (ButtonDown(FALSE) \/ ButtonUp(FALSE))

-----------------------------------------------------------------------------
\* Escape with Ctrl or Alt quits; without, it asks the topmost popup to close.
Escape ==
    /\ "escape" \in Inputs
    /\ \E modifiers \in SUBSET {"ctrl", "alt"} :
         phase' = IF modifiers # {} THEN "quitting" ELSE phase
    /\ UNCHANGED <<inputVars, surfaceVars, pointerVars, cursor, desktopVars>>

MenuKey ==
    /\ "menu" \in Inputs
    /\ IF HasDE THEN ToggleMenu ELSE UNCHANGED desktopVars
    /\ UNCHANGED <<inputVars, surfaceVars, pointerVars, cursor, phase>>

Input == MouseMotion \/ MouseButton \/ Escape \/ MenuKey
=============================================================================
