----------------------------- MODULE DrmDisplay -----------------------------
(***************************************************************************)
(* Presenting frames on the DRM backend (libs/srapi/src/backend/drm/drm.c) *)
(* while the user switches between virtual terminals.                      *)
(*                                                                         *)
(* The compositor draws into the back buffer and calls srapi_drm_present,  *)
(* which queues a page flip and waits for its event.  The signals of a VT  *)
(* switch interrupt it anywhere; both handlers only set flags and talk to  *)
(* the kernel, present acts on the flags later.  The kernel and the        *)
(* programs on the other terminals are modelled as far as the code depends *)
(* on them: who holds the DRM master, what the CRTC scans out, the flip    *)
(* that is queued and the events nobody has read.                          *)
(***************************************************************************)
EXTENDS Integers, TLAPS

CONSTANT MaxTimeouts      \* bound: page flips that take longer than 3 seconds

ASSUME DisplayAssumption == MaxTimeouts \in Nat

VARIABLES
    front,                \* display->front, 0 or 1
    paused, need_resume,  \* set by the signal handlers
    pc,                   \* where srapi_drm_present is
    shown,                \* the buffer that is scanned out, or Foreign
    pending,              \* the buffer of a queued flip, or NoFlip
    events,               \* completion events that were not read
    master,               \* who holds the DRM master
    vt,                   \* the terminal that is active
    leaving, arriving,    \* SIGUSR1 and SIGUSR2 are on their way
    timeouts              \* flips that were given up

flags == <<paused, need_resume>>
crtc == <<shown, pending, events>>
switch == <<vt, leaving, arriving>>
vars == <<front, flags, pc, crtc, master, switch, timeouts>>

Foreign == 2              \* not one of the two buffers
NoFlip == 2
Back == 1 - front         \* front ^ 1

\* srapi_drm_open_display: the CRTC shows the front buffer.
Init ==
    /\ front = 0 /\ paused = FALSE /\ need_resume = FALSE /\ pc = "idle"
    /\ shown = 0 /\ pending = NoFlip /\ events = 0 /\ master = "us"
    /\ vt = "ours" /\ leaving = FALSE /\ arriving = FALSE /\ timeouts = 0

-----------------------------------------------------------------------------
(* The signal handlers *)

\* vt_sig_release: the acknowledgement lets the kernel switch.
VtRelease ==
    /\ leaving
    /\ master' = IF master = "us" THEN "nobody" ELSE master
    /\ leaving' = FALSE /\ vt' = "other"
    /\ paused' = TRUE
    /\ UNCHANGED <<front, need_resume, pc, crtc, arriving, timeouts>>

\* vt_sig_acquire
VtAcquire ==
    /\ arriving /\ arriving' = FALSE
    /\ need_resume' = TRUE
    /\ UNCHANGED <<front, paused, pc, crtc, master, vt, leaving, timeouts>>

-----------------------------------------------------------------------------
(* srapi_drm_present.  A step lies between any two accesses that a signal  *)
(* handler can come between and be noticed.                                *)

\* MODE_SETCRTC needs the master, and completes a flip that is still queued.
SetCrtc(buffer) ==
    /\ master = "us"
    /\ shown' = buffer /\ pending' = NoFlip
    /\ events' = IF pending = NoFlip THEN events ELSE events + 1

Present ==
    /\ pc = "idle"
    /\ pc' = IF need_resume THEN "unpausing" ELSE "testing"
    /\ need_resume' = FALSE
    /\ UNCHANGED <<front, paused, crtc, master, switch, timeouts>>

Unpause ==
    /\ pc = "unpausing" /\ pc' = "mastering"
    /\ paused' = FALSE
    /\ UNCHANGED <<front, need_resume, crtc, master, switch, timeouts>>

SetMaster ==
    /\ pc = "mastering"
    /\ \/ master # "other" /\ master' = "us" /\ pc' = "restoring"
       \/ master = "other" /\ pc' = "idle" /\ UNCHANGED master
    /\ UNCHANGED <<front, flags, crtc, switch, timeouts>>

\* Mutant: need_resume is cleared when the resume is over.
RestoreAndClear ==
    /\ pc = "restoring"
    /\ \/ SetCrtc(front) /\ pc' = "testing"
       \/ master # "us" /\ pc' = "idle" /\ UNCHANGED crtc
    /\ need_resume' = FALSE
    /\ UNCHANGED <<front, paused, master, switch, timeouts>>

\* Mutant: the buffer that is drawn next is put on the screen.
RestoreBack ==
    /\ pc = "restoring"
    /\ \/ SetCrtc(Back) /\ pc' = "testing"
       \/ master # "us" /\ pc' = "idle" /\ UNCHANGED crtc
    /\ UNCHANGED <<front, flags, master, switch, timeouts>>

\* The end of vt_handle_resume.
Restore ==
    /\ pc = "restoring"
    /\ \/ SetCrtc(front) /\ pc' = "testing"
       \/ master # "us" /\ pc' = "idle" /\ UNCHANGED crtc
    /\ UNCHANGED <<front, flags, master, switch, timeouts>>

TestPaused ==
    /\ pc = "testing"
    /\ pc' = IF paused THEN "idle" ELSE "flipping"
    /\ UNCHANGED <<front, flags, crtc, master, switch, timeouts>>

\* The flip is queued; or it is refused, without the master, with another flip
\* in the queue or by a driver that cannot.
PageFlip ==
    /\ pc = "flipping"
    /\ \/ /\ master = "us" /\ pending = NoFlip
          /\ pending' = Back /\ pc' = "waiting"
       \/ pc' = "fallback" /\ UNCHANGED pending
    /\ UNCHANGED <<front, flags, shown, events, master, switch, timeouts>>

Fallback ==
    /\ pc = "fallback" /\ pc' = "idle"
    /\ \/ SetCrtc(Back) /\ front' = Back
       \/ master # "us" /\ UNCHANGED <<front, crtc>>
    /\ UNCHANGED <<flags, master, switch, timeouts>>

\* Mutant: the event stays in the queue.
FlipPeeked ==
    /\ pc = "waiting" /\ events > 0 /\ pc' = "idle"
    /\ front' = Back
    /\ UNCHANGED <<flags, crtc, master, switch, timeouts>>

\* wait_flip_event finds an event, reads all there are and ends at the first.
FlipDone ==
    /\ pc = "waiting" /\ events > 0 /\ pc' = "idle"
    /\ events' = 0 /\ front' = Back
    /\ UNCHANGED <<flags, shown, pending, master, switch, timeouts>>

\* Or the poll times out, and present fails.
FlipTimesOut ==
    /\ pc = "waiting" /\ events = 0 /\ timeouts < MaxTimeouts /\ pc' = "idle"
    /\ timeouts' = timeouts + 1
    /\ UNCHANGED <<front, flags, crtc, master, switch>>

-----------------------------------------------------------------------------
(* The kernel, the user and the other terminals *)

FlipCompletes ==
    /\ pending # NoFlip
    /\ shown' = pending /\ pending' = NoFlip /\ events' = events + 1
    /\ UNCHANGED <<front, flags, pc, master, switch, timeouts>>

\* The user asks for another terminal: SIGUSR1, and the switch waits.
SwitchAway ==
    /\ vt = "ours" /\ ~ leaving /\ leaving' = TRUE
    /\ UNCHANGED <<front, flags, pc, crtc, master, vt, arriving, timeouts>>

\* Ours becomes the active terminal: the other program has released the master,
\* as a program that takes part in switching does, and SIGUSR2 is sent.
SwitchBack ==
    /\ vt = "other" /\ vt' = "ours" /\ arriving' = TRUE
    /\ master' = IF master = "other" THEN "nobody" ELSE master
    /\ UNCHANGED <<front, flags, pc, crtc, leaving, timeouts>>

\* A graphical program or the text console shows itself.
OtherPaints ==
    /\ vt = "other" /\ master # "us" /\ pending = NoFlip
    /\ master' \in {master, "other"} /\ shown' = Foreign
    /\ UNCHANGED <<front, flags, pc, pending, events, switch, timeouts>>

-----------------------------------------------------------------------------
Signals == VtRelease \/ VtAcquire
Presenting == Present \/ Unpause \/ SetMaster \/ Restore \/ TestPaused
              \/ PageFlip \/ Fallback \/ FlipDone
Next == Signals \/ Presenting \/ FlipTimesOut \/ FlipCompletes
        \/ SwitchAway \/ SwitchBack \/ OtherPaints

Spec == Init /\ [][Next]_vars

\* Signals arrive, a queued flip completes, and the compositor keeps presenting:
\* its desktop repaints at an interval.
FairSpec ==
    /\ Spec /\ WF_vars(Presenting) /\ WF_vars(FlipCompletes)
    /\ WF_vars(VtRelease) /\ WF_vars(VtAcquire)

-----------------------------------------------------------------------------
TypeOK ==
    /\ front \in {0, 1} /\ paused \in BOOLEAN /\ need_resume \in BOOLEAN
    /\ pc \in {"idle", "unpausing", "mastering", "restoring", "testing",
               "flipping", "fallback", "waiting"}
    /\ shown \in {0, 1, Foreign} /\ pending \in {0, 1, NoFlip}
    /\ events \in 0 .. 2
    /\ master \in {"us", "other", "nobody"} /\ vt \in {"ours", "other"}
    /\ leaving \in BOOLEAN /\ arriving \in BOOLEAN
    /\ timeouts \in 0 .. MaxTimeouts

\* docs/srapi.html: "The front buffer is the one being scanned out.  Render to
\* the backbuffer, then present."  While the compositor draws, its target is
\* neither on the screen nor on its way there.
FrontIsScannedOut ==
    pc = "idle" => shown # Back /\ pending = NoFlip

\* The same as long as every flip has completed in time.
DrawnOffScreen == timeouts = 0 => FrontIsScannedOut

\* Flips that were given up leave events behind, but they do not pile up: the 256
\* bytes that one read of wait_flip_event takes hold eight.
OneRead == events + (IF pending = NoFlip THEN 0 ELSE 1) <= 2

\* When the user comes back to our terminal and stays, so does our picture,
\* however the signals fell into the steps of present.
ComesBack == <>[](vt = "ours" /\ ~ leaving) => <>[](shown # Foreign)

-----------------------------------------------------------------------------
(* Double buffering through any sequence of VT switches: as long as no     *)
(* page flip is given up, the compositor never draws on the screen, and    *)
(* the events of those that are do not pile up.                            *)

\* What the events come to.  Between two presents a flip is queued or at most
\* one event is left over.
Queue ==
    /\ pc = "waiting" /\ pending = NoFlip => events <= 2
    /\ pc = "waiting" /\ pending # NoFlip => events <= 1
    /\ pc # "waiting" /\ pending = NoFlip => events <= 1
    /\ pc # "waiting" /\ pending # NoFlip => events = 0

\* Without a flip that was given up: the one that present waits for is queued,
\* or done with its event unread, and outside of the wait there is none.
InTime ==
    timeouts = 0 =>
      /\ pc = "waiting" => \/ pending = Back /\ events = 0 /\ shown # Back
                           \/ pending = NoFlip /\ events = 1 /\ shown # front
      /\ pc # "waiting" => pending = NoFlip /\ events = 0 /\ shown # Back

DisplayInv == TypeOK /\ Queue /\ InTime

LEMMA DisplayInit == Init => DisplayInv
<1> SUFFICES ASSUME Init PROVE DisplayInv
  OBVIOUS
<1> USE DisplayAssumption DEF Init, Back, NoFlip, Foreign
<1>1. TypeOK
  <2>1. timeouts \in 0 .. MaxTimeouts /\ events \in 0 .. 2
    OBVIOUS
  <2>2. paused \in BOOLEAN /\ need_resume \in BOOLEAN
        /\ leaving \in BOOLEAN /\ arriving \in BOOLEAN
    OBVIOUS
  <2>. QED BY <2>1, <2>2 DEF TypeOK
<1>2. Queue /\ InTime
  BY DEF Queue, InTime
<1>. QED BY <1>1, <1>2 DEF DisplayInv

\* One step for each action; a step of the handlers, of the user or of the test
\* of a flag leaves the CRTC alone.
LEMMA DisplayNext == DisplayInv /\ [Next]_vars => DisplayInv'
<1> SUFFICES ASSUME DisplayInv, [Next]_vars PROVE DisplayInv'
  OBVIOUS
<1> USE DisplayAssumption DEF DisplayInv, Back, NoFlip, Foreign, flags, crtc, switch
<1>1. ASSUME Signals \/ Present \/ Unpause \/ SetMaster \/ TestPaused
             \/ SwitchAway \/ SwitchBack \/ UNCHANGED vars
      PROVE  DisplayInv'
  <2> USE <1>1 DEF Signals, VtRelease, VtAcquire, Present, Unpause, SetMaster, TestPaused,
          SwitchAway, SwitchBack, vars
  <2>1. UNCHANGED <<front, shown, pending, events, timeouts>>
    OBVIOUS
  <2>2. (pc # "waiting" /\ pc' # "waiting") \/ UNCHANGED pc
    OBVIOUS
  <2>3. paused' \in BOOLEAN /\ need_resume' \in BOOLEAN
        /\ leaving' \in BOOLEAN /\ arriving' \in BOOLEAN
    BY DEF TypeOK
  <2>4. /\ pc' \in {"idle", "unpausing", "mastering", "restoring", "testing",
                    "flipping", "fallback", "waiting"}
        /\ master' \in {"us", "other", "nobody"} /\ vt' \in {"ours", "other"}
    BY DEF TypeOK
  <2>5. TypeOK'
    BY <2>1, <2>3, <2>4 DEF TypeOK
  <2>6. Queue' /\ InTime'
    BY <2>1, <2>2 DEF Queue, InTime
  <2>. QED BY <2>5, <2>6
<1>2. CASE Restore \/ Fallback
  <2> USE <1>2 DEF Restore, Fallback, SetCrtc
  <2>1. TypeOK'
    BY DEF TypeOK, Queue
  <2>2. Queue'
    BY DEF Queue, TypeOK
  <2>3. InTime'
    BY DEF InTime, TypeOK
  <2>. QED BY <2>1, <2>2, <2>3
<1>3. CASE PageFlip
  BY <1>3 DEF PageFlip, TypeOK, Queue, InTime
<1>4. CASE FlipDone
  BY <1>4 DEF FlipDone, TypeOK, Queue, InTime
<1>5. CASE FlipTimesOut
  BY <1>5 DEF FlipTimesOut, TypeOK, Queue, InTime
<1>6. CASE FlipCompletes
  BY <1>6 DEF FlipCompletes, TypeOK, Queue, InTime
<1>7. CASE OtherPaints
  BY <1>7 DEF OtherPaints, TypeOK, Queue, InTime
<1>. QED
  BY <1>1, <1>2, <1>3, <1>4, <1>5, <1>6, <1>7 DEF Next, Presenting

\* The invariant, for any number of flips that are given up.
THEOREM DisplayHolds == Spec => []DisplayInv
BY DisplayInit, DisplayNext, PTL DEF Spec

\* Type correctness.
THEOREM DisplayTypes == Spec => []TypeOK
<1>1. DisplayInv => TypeOK
  BY DEF DisplayInv
<1>. QED BY <1>1, DisplayHolds, PTL

\* However many flips are given up, one read takes all the events there are.
THEOREM OneReadSuffices == Spec => []OneRead
<1>1. DisplayInv => OneRead
  BY DEF DisplayInv, Queue, OneRead, TypeOK, NoFlip
<1>. QED BY <1>1, DisplayHolds, PTL

\* docs/srapi.html, "The front buffer is the one being scanned out": true at
\* every moment the compositor draws, through any VT switches, until a flip is
\* given up.
THEOREM FrontStaysScannedOut == Spec => []DrawnOffScreen
<1>1. DisplayInv => DrawnOffScreen
  BY DEF DisplayInv, TypeOK, InTime, DrawnOffScreen, FrontIsScannedOut
<1>. QED BY <1>1, DisplayHolds, PTL
=============================================================================
