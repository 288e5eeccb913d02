----------------------------- MODULE RanalFrame -----------------------------
(***************************************************************************)
(* The frames of an application of ranal (app.c, swm_client.c, context.c): *)
(* when it draws, what a resize does to its framebuffer, the surfaces of   *)
(* its popups, and its start and end.  Ranal has the widgets; here they    *)
(* are one version of a picture that the application changes.              *)
(*                                                                         *)
(* A "drm" application draws on the display, whose terminal the user may   *)
(* leave and come back to, and reads srapi's input; a "swm" one has a      *)
(* window of sprot.  The display is DrmDisplay; here are the two flags its *)
(* signal handlers set, and present as one step.  The wait for the frame event, 50 ms   *)
(* at most, is left out: it only delays the pass.                          *)
(***************************************************************************)
EXTENDS Naturals

CONSTANTS Popups,
          Modes,        \* subset of {"swm", "drm"}
          MaxSize       \* bound: sizes of the window, 0 .. MaxSize

NoFb == MaxSize + 1

VARIABLES
    stage,        \* "new", "app", "pump", "ended"
    mode,         \* targets_drm / sprot_conn
    render,       \* this frame draws
    dirty, presented, closing,   \* dirty, presented, should_close
    win,          \* width, height: the size of the window and its surface
    fb,           \* size of the framebuffer, or NoFb
    popups,       \* g_ranal->popups
    psurf,        \* popups that have a surface of sprot
    shown,        \* ghost: the last frame presented shows the present state
    silent,       \* ghost: widgets came or went and nothing was drawn since
    away,         \* another terminal is active
    paused, resume    \* paused and need_resume of the display

frameVars == <<render, dirty, presented, closing>>
vt == <<away, paused, resume>>
vars == <<stage, mode, frameVars, win, fb, popups, psurf, shown, silent, vt>>

TypeOK ==
    /\ stage \in {"new", "app", "pump", "ended"} /\ mode \in Modes \cup {"none"}
    /\ {render, dirty, closing, shown, silent, away, paused, resume} \subseteq BOOLEAN /\ presented \in 0..2
    /\ win \in 0..MaxSize /\ fb \in 0..NoFb /\ popups \subseteq Popups /\ psurf \subseteq Popups

Init ==
    /\ stage = "new" /\ mode = "none" /\ render = FALSE /\ dirty = TRUE /\ presented = 0 /\ closing = FALSE
    /\ win = 0 /\ fb = 0 /\ popups = {} /\ psurf = {} /\ shown = FALSE /\ silent = FALSE
    /\ away = FALSE /\ paused = FALSE /\ resume = FALSE

\* ranal_init, ranal_init_swm.  A step that fails undoes the ones before it.
Start ==
    /\ stage = "new" /\ stage' \in {"app", "ended"} /\ mode' \in Modes
    /\ UNCHANGED <<frameVars, win, fb, popups, psurf, shown, silent, vt>>

(***************************************************************************)
(* Operations of the application, between frames or in a callback          *)
(***************************************************************************)
AppRuns == stage \in {"app", "pump"}
Changed == dirty' = TRUE /\ shown' = FALSE
AppKeeps == UNCHANGED <<stage, mode, render, presented, win, fb, vt>>

\* The setters of widget.c, ranal_invalidate, and ranal_blit_surface.
SetWidget ==
    /\ AppRuns /\ Changed
    /\ AppKeeps /\ UNCHANGED <<closing, popups, psurf, silent>>

\* ranal_panel, ranal_button, ... and ranal_destroy_widget mark nothing.
CreateOrDestroy ==
    /\ AppRuns /\ silent' = TRUE /\ shown' = FALSE
    /\ AppKeeps /\ UNCHANGED <<dirty, closing, popups, psurf>>

Popup(m) ==
    /\ AppRuns /\ m \notin popups /\ popups' = popups \cup {m} /\ Changed
    /\ AppKeeps /\ UNCHANGED <<closing, psurf, silent>>

\* Mutant: the surface of the popup is forgotten.
PopupCloseKeeping(m) ==
    /\ AppRuns /\ m \in popups /\ popups' = popups \ {m} /\ Changed
    /\ AppKeeps /\ UNCHANGED <<closing, psurf, silent>>

PopupClose(m) ==
    /\ AppRuns /\ m \in popups /\ popups' = popups \ {m} /\ psurf' = psurf \ {m} /\ Changed
    /\ AppKeeps /\ UNCHANGED <<closing, silent>>

\* ranal_request_close, and in the pass SURFACE_CLOSE, DISCONNECT or ESCAPE
Close ==
    /\ AppRuns /\ closing' = TRUE
    /\ AppKeeps /\ UNCHANGED <<dirty, popups, psurf, shown, silent>>

(***************************************************************************)
(* The terminal of a "drm" application                                     *)
(***************************************************************************)
VtKeeps == UNCHANGED <<stage, mode, frameVars, win, fb, popups, psurf, silent>>

\* vt_sig_release, and another program shows itself.
SwitchAway ==
    /\ AppRuns /\ mode = "drm" /\ ~ away
    /\ away' = TRUE /\ paused' = TRUE /\ shown' = FALSE /\ UNCHANGED resume /\ VtKeeps

\* vt_sig_acquire: nothing is painted before the next present.
SwitchBack ==
    /\ AppRuns /\ away
    /\ away' = FALSE /\ resume' = TRUE /\ UNCHANGED <<paused, shown>> /\ VtKeeps

(***************************************************************************)
(* A frame                                                                 *)
(***************************************************************************)
\* ranal_frame decides whether to draw before it looks at the events.
FrameBegin ==
    /\ stage = "app" /\ stage' = "pump"
    /\ render' = (dirty \/ presented < 2)
    /\ UNCHANGED <<mode, dirty, presented, closing, win, fb, popups, psurf, shown, silent, vt>>

\* An event of pointer or keys, whatever the widgets make of it.
Event ==
    /\ stage = "pump" /\ Changed
    /\ UNCHANGED <<stage, mode, render, presented, closing, win, fb, popups, psurf, silent, vt>>

\* Mutant: without a new framebuffer the old one stays.
ConfigureKeeping(s) ==
    /\ stage = "pump" /\ mode = "swm" /\ s # win
    /\ win' = s /\ fb' \in {s, fb} /\ presented' = 0 /\ Changed
    /\ UNCHANGED <<stage, mode, render, closing, popups, psurf, silent, vt>>

\* SURFACE_CONFIGURE: the old framebuffer is gone before the new one is there.
Configure(s) ==
    /\ stage = "pump" /\ mode = "swm" /\ s # win
    /\ win' = s /\ fb' \in {s, NoFb} /\ presented' = 0 /\ Changed
    /\ UNCHANGED <<stage, mode, render, closing, popups, psurf, silent, vt>>

\* Mutant: the mark is reset at the end of every frame.
RestClearing ==
    /\ stage = "pump" /\ ~ render /\ stage' = (IF closing THEN "ended" ELSE "app") /\ dirty' = FALSE
    /\ UNCHANGED <<mode, render, presented, closing, win, fb, popups, psurf, shown, silent, vt>>

\* A frame that does not draw returns should_close after the pass.
Rest ==
    /\ stage = "pump" /\ ~ render /\ stage' = IF closing THEN "ended" ELSE "app"
    /\ UNCHANGED <<mode, frameVars, win, fb, popups, psurf, shown, silent, vt>>

\* ranal_render: layout, commands and submit.
Drawn == dirty' = FALSE /\ silent' = FALSE

\* srapi_drm_present when it succeeds: a display that is paused and not told to resume says
\* that all is well and shows nothing.
Flipped ==
    /\ paused' = (paused /\ ~ resume) /\ resume' = FALSE
    /\ shown' = (~ paused' /\ ~ away) /\ UNCHANGED away

\* Mutant: should_close is looked at only by frames that do not draw.
PresentedAnyway ==
    /\ presented' = IF presented < 2 THEN presented + 1 ELSE presented
    /\ psurf' \in IF mode = "swm" THEN {psurf \cup S : S \in SUBSET popups} ELSE {psurf}
    /\ IF mode = "swm" THEN shown' = TRUE /\ UNCHANGED vt ELSE Flipped
    /\ stage' = "app"

\* ranal_present.  On a window every popup without a surface may get one.
Presented ==
    /\ presented' = IF presented < 2 THEN presented + 1 ELSE presented
    /\ psurf' \in IF mode = "swm" THEN {psurf \cup S : S \in SUBSET popups} ELSE {psurf}
    /\ IF mode = "swm" THEN shown' = TRUE /\ UNCHANGED vt ELSE Flipped
    /\ stage' = IF closing THEN "ended" ELSE "app"

Draw ==
    /\ stage = "pump" /\ render /\ (mode = "swm" => fb # NoFb)
    /\ Drawn /\ Presented
    /\ UNCHANGED <<mode, render, closing, win, fb, popups>>

\* There is no framebuffer, or srapi_submit or the present failed: the loop ends with this frame.
DrawFails ==
    /\ stage = "pump" /\ render /\ stage' = "ended"
    /\ UNCHANGED <<mode, frameVars, win, fb, popups, psurf, shown, silent, vt>>

\* ranal_shutdown; the surfaces of popups go with the connection.
Shutdown ==
    /\ stage \in {"app", "ended"} /\ stage' = "new"
    /\ mode' = "none" /\ render' = FALSE /\ dirty' = TRUE /\ presented' = 0 /\ closing' = FALSE
    /\ win' = 0 /\ fb' = 0 /\ popups' = {} /\ psurf' = {} /\ shown' = FALSE /\ silent' = FALSE
    /\ away' = FALSE /\ paused' = FALSE /\ resume' = FALSE

FrameStep == FrameBegin \/ Rest \/ Draw \/ DrawFails
Next ==
    \/ Start \/ SetWidget \/ CreateOrDestroy \/ Close \/ Event \/ FrameStep \/ Shutdown \/ SwitchAway \/ SwitchBack
    \/ \E m \in Popups : Popup(m) \/ PopupClose(m)
    \/ \E s \in 0..MaxSize : Configure(s)

\* ranal_run calls ranal_frame until it says stop.
Fairness == WF_vars(FrameStep)
Spec == Init /\ [][Next]_vars /\ Fairness

(***************************************************************************)
(* Properties                                                              *)
(***************************************************************************)
\* What was presented since the last resize was copied to the window from a framebuffer
\* of its size, whatever the order of resizes and failures (swm_client.c:316).
WholeCopy == mode = "swm" /\ presented > 0 => fb = win
\* An application that draws nothing more shows its present state, widgets that came or went
\* without a mark aside (widget.c:225), and as long as its terminal was not left since it drew:
\* what is presented meanwhile is dropped, and coming back draws nothing (drm.c:709).
ShownWhenIdle ==
    stage = "app" /\ ~ dirty /\ presented = 2 /\ ~ silent => shown \/ away \/ paused \/ resume
\* No surface of a popup outlives it.
PopupSurfaces == psurf \subseteq popups
\* A program that was asked to close stops: no frame is left that goes on.
Waits == closing
Settled == stage \in {"new", "ended"}
CloseEnds == Waits ~> Settled
=============================================================================
