------------------------------- MODULE Ranal -------------------------------
(***************************************************************************)
(* The widgets of one application of the toolkit (libs/gui/ranal): their   *)
(* tree, and the pass over the events of a frame that moves focus, drag    *)
(* and cursor.  RanalFrame has the frames themselves.                      *)
(*                                                                         *)
(* The application's own code runs between two frames and inside a click   *)
(* (phase "callback"), and may call every operation at either place.  A    *)
(* position is abstracted to the widget that is there (under): the layout, *)
(* which moves them, happens at the end of the pass.                       *)
(***************************************************************************)
EXTENDS Naturals, FiniteSets

CONSTANTS Panels, Buttons, Checks, Textboxes, Sliders, Popups,
          Above,        \* Above[w]: w and the panels or the popup it is placed in
          Toggled, Switched,    \* bound: widgets the application hides, disables
          Dwell         \* passes a special cursor is kept for, 4 in the code

None == "none"
Widgets == Panels \cup Buttons \cup Checks \cup Textboxes \cup Sliders \cup Popups

VARIABLES
    phase,        \* "app", "pump", "callback", "drags"
    live,         \* the widgets that are allocated and linked
    hidden,       \* those that are not visible
    disabled,     \* those that are not enabled
    focused,      \* g_ranal->focused
    caret,        \* textboxes whose own flag focused is set
    dragging,     \* sliders whose flag dragging is set
    checked,      \* checkboxes that are on
    prev, curr,   \* prev_mouse_left, curr_mouse_left
    under,        \* the widget the pointer is on
    hot,          \* the widget the pass found; kept during the callback
    cursor, dwell,               \* last_cursor_sent, cursor_arrow_dwell
    adrift        \* ghost: the focused textbox was freed together with an ancestor

treeVars == <<live, hidden, disabled, checked>>
focusVars == <<focused, caret, adrift>>
vars == <<phase, treeVars, focusVars, dragging, prev, curr, under, hot, cursor, dwell>>

Below(w) == {x \in Widgets : w \in Above[x]}
\* What ranal_hit_test_ can return: all ancestors are visible.
Hittable(lv, hd) == {w \in lv : Above[w] \cap hd = {}} \cup {None}
Flip(S, w) == (S \ {w}) \cup ({w} \ S)

TypeOK ==
    /\ phase \in {"app", "pump", "callback", "drags"}
    /\ live \subseteq Widgets /\ hidden \subseteq live /\ disabled \subseteq live
    /\ focused \in Textboxes \cup {None} /\ caret \subseteq Textboxes \cap live
    /\ dragging \subseteq Sliders \cap live /\ checked \subseteq Checks \cap live
    /\ {prev, curr, adrift} \subseteq BOOLEAN
    /\ under \in Hittable(live, hidden) /\ hot \in Widgets \cup {None}
    /\ cursor \in 0..2 /\ dwell \in 0..Dwell

\* After ranal_init or ranal_init_swm.
Init ==
    /\ phase = "app" /\ live = {} /\ hidden = {} /\ disabled = {} /\ checked = {}
    /\ focused = None /\ caret = {} /\ adrift = FALSE /\ dragging = {}
    /\ prev = FALSE /\ curr = FALSE /\ under = None /\ hot = None /\ cursor = 0 /\ dwell = 0

(***************************************************************************)
(* Operations of the application                                           *)
(***************************************************************************)
AppRuns == phase \in {"app", "callback"}
AppKeeps == UNCHANGED <<phase, prev, curr, hot, cursor, dwell>>

\* The widgets W are freed: nothing of them remains but, maybe, the focus.
Freed(W) ==
    /\ live' = live \ W /\ hidden' = hidden \ W /\ disabled' = disabled \ W
    /\ caret' = caret \ W /\ dragging' = dragging \ W /\ checked' = checked \ W
    /\ under' \in IF under \in Hittable(live', hidden') THEN {under} ELSE Hittable(live', hidden')

\* ranal_panel, ranal_button, ..., ranal_popup: linked behind its siblings.
CreateWidget(w) ==
    /\ AppRuns /\ w \notin live \cup {hot} /\ Above[w] \subseteq live \cup {w}
    /\ live' = live \cup {w}
    /\ AppKeeps /\ UNCHANGED <<hidden, disabled, checked, focusVars, dragging, under>>

\* Mutant: the focus is left alone.
DestroyBlindly(w) ==
    /\ AppRuns /\ w \in live \ Popups /\ Freed(Below(w))
    /\ adrift' = (focused # w /\ (adrift \/ focused \in Below(w)))
    /\ AppKeeps /\ UNCHANGED focused

\* ranal_destroy_widget forgets the focus only when it is on w itself.
DestroyWidget(w) ==
    /\ AppRuns /\ w \in live \ Popups /\ Freed(Below(w))
    /\ focused' = IF focused = w THEN None ELSE focused
    /\ adrift' = (focused # w /\ (adrift \/ focused \in Below(w)))
    /\ AppKeeps

\* ranal_popup_close does not look at the focus.
PopupClose(m) ==
    /\ AppRuns /\ m \in Popups \cap live /\ Freed(Below(m))
    /\ adrift' = (adrift \/ focused \in Below(m))
    /\ AppKeeps /\ UNCHANGED focused

SetVisible(w) ==
    /\ AppRuns /\ w \in live \cap Toggled
    /\ hidden' = Flip(hidden, w) /\ under' \in Hittable(live, hidden')
    /\ AppKeeps /\ UNCHANGED <<live, disabled, checked, focusVars, dragging>>

SetEnabled(w) ==
    /\ AppRuns /\ w \in live \cap Switched /\ disabled' = Flip(disabled, w)
    /\ AppKeeps /\ UNCHANGED <<live, hidden, checked, focusVars, dragging, under>>

CheckboxSet(w) ==
    /\ AppRuns /\ w \in live \cap Checks /\ checked' = Flip(checked, w)
    /\ AppKeeps /\ UNCHANGED <<live, hidden, disabled, focusVars, dragging, under>>

AppStep ==
    \/ \E w \in Widgets : CreateWidget(w) \/ DestroyWidget(w) \/ SetVisible(w) \/ SetEnabled(w) \/ CheckboxSet(w)
    \/ \E m \in Popups : PopupClose(m)

(***************************************************************************)
(* The pass over the events of one frame                                   *)
(***************************************************************************)
PassBegin ==
    /\ phase = "app" /\ phase' = "pump" /\ prev' = curr
    /\ UNCHANGED <<treeVars, focusVars, dragging, curr, under, hot, cursor, dwell>>

PumpKeeps == UNCHANGED <<phase, treeVars, dragging, prev, hot, cursor, dwell>>

PointerMotion(w) ==
    /\ phase = "pump" /\ w # under /\ under' = w
    /\ PumpKeeps /\ UNCHANGED <<focusVars, curr>>

PointerButton ==
    /\ phase = "pump" /\ curr' = ~ curr
    /\ PumpKeeps /\ UNCHANGED <<focusVars, under>>

\* On the display, not on a window of swm, RETURN ends the focus of a textbox.
KeyReturn ==
    /\ phase = "pump" /\ focused # None
    /\ focused' = None /\ caret' = caret \ {focused} /\ adrift' = FALSE
    /\ PumpKeeps /\ UNCHANGED <<curr, under>>

Pressed == curr /\ ~ prev
Released == prev /\ ~ curr

\* Mutant: the textbox that had the focus is not told.
FocusTaken(h) ==
    CASE h \in Textboxes \ disabled -> focused' = h /\ caret' = caret \cup {h} /\ adrift' = FALSE
      [] h = None -> focused' = None /\ adrift' = FALSE /\ UNCHANGED caret
      [] OTHER -> UNCHANGED focusVars

\* A press moves the focus: to a textbox, or away when it hits nothing.  A focus
\* that is adrift is compared with what was freed, so it may stay.
Focus(h) ==
    CASE h \in Textboxes \ disabled -> focused' = h /\ caret' = {h} /\ adrift' = FALSE
      [] h = None -> /\ focused' \in IF adrift THEN {None, focused} ELSE {None}
                     /\ caret' = {} /\ adrift' = (focused' # None)
      [] OTHER -> UNCHANGED focusVars

\* ranal_event_pass_ up to the callback of the widget that was clicked.
Pass ==
    /\ phase = "pump" /\ hot' = under
    /\ IF Pressed THEN Focus(under) ELSE UNCHANGED focusVars
    /\ dragging' = dragging \cup IF Pressed THEN {under} \cap (Sliders \ disabled) ELSE {}
    /\ LET clicked == IF Released THEN {under} \cap ((Buttons \cup Checks) \ disabled) ELSE {}
       IN  /\ checked' = IF clicked \subseteq Checks /\ clicked # {} THEN Flip(checked, under) ELSE checked
           /\ phase' = IF clicked # {} THEN "callback" ELSE "drags"
    /\ UNCHANGED <<live, hidden, disabled, prev, curr, under, cursor, dwell>>

CallbackReturns ==
    /\ phase = "callback" /\ phase' = "drags"
    /\ UNCHANGED <<treeVars, focusVars, dragging, prev, curr, under, hot, cursor, dwell>>

\* The cursor for the widget.  One that its own callback freed is read again here.
CursorFor(h) ==
    CASE h = None \/ h \in live \cap disabled -> {0}
      [] h \in Widgets \ live -> 0..2
      [] h \in live \cap Textboxes -> {1}
      [] h \in live \cap (Buttons \cup Checks) -> {2}
      [] OTHER -> {0}

\* A special cursor is held for some passes after the widget was left.
Held(c) ==
    IF c = 0 /\ cursor # 0 /\ dwell < Dwell
    THEN dwell' = dwell + 1 /\ UNCHANGED cursor
    ELSE cursor' = c /\ dwell' = 0

\* Mutant: only the sliders of the window are let go.
DragsOfWindow == IF Released THEN {w \in dragging : Above[w] \cap Popups # {}} ELSE dragging
\* update_slider_drags on the root and on all popups
Drags == IF Released THEN {} ELSE dragging

\* The end of the pass; the layout of the frame moves what is under the pointer.
PassEnd ==
    /\ phase = "drags" /\ phase' = "app"
    /\ dragging' = Drags /\ hot' = None
    /\ \E c \in CursorFor(hot) : Held(c)
    /\ under' \in Hittable(live, hidden)
    /\ UNCHANGED <<treeVars, focusVars, prev, curr>>

PassStep == PassBegin \/ Pass \/ CallbackReturns \/ PassEnd
EventStep == (\E w \in Hittable(live, hidden) : PointerMotion(w)) \/ PointerButton \/ KeyReturn
Next == AppStep \/ EventStep \/ PassStep

\* ranal_run calls ranal_frame for ever, and callbacks return.
Fairness == WF_vars(PassStep)
Spec == Init /\ [][Next]_vars /\ Fairness

(***************************************************************************)
(* Properties                                                              *)
(***************************************************************************)
\* The focus is on a textbox that exists, unless that was freed together with
\* a panel or a popup around it: only the widget itself is compared (widget.c:242).
FocusExists == focused # None => focused \in live \/ adrift
\* Whatever is pressed, hidden or freed, there is one caret at most, and it is
\* where the keys go (app.c:569).
CaretIsFocus == ~ adrift => caret = {focused} \cap live
\* A slider follows the pointer only while the button is held, also when the
\* release came with other events in one pass, or on a popup (app.c:596).
DragsHeld == phase = "app" /\ dragging # {} => curr
\* A pointer that has left every widget gets its arrow back (app.c:617).
Waits == hot = None /\ cursor # 0
Settled == hot # None \/ cursor = 0
CursorSettles == Waits ~> Settled
=============================================================================
