------------------------------ MODULE WlBridge ------------------------------
(***************************************************************************)
(* tools/gui/wlbridge: one Wayland client whose surfaces are passed on to  *)
(* swm over a connection of sprot.  The bridge has one thread; a step is   *)
(* one request of the client or one event of swm.                          *)
(*                                                                         *)
(* A surface of sprot has no id until its CREATED event was read, so a     *)
(* commit before that, or before the parent has its id, is put off.  swm   *)
(* is what its handlers do (SwmProtocol): a child goes with its parent, a  *)
(* request for a surface it does not have gets an ERROR.  Attaching is     *)
(* part of the commit; a surface keeps to one kind of buffer.              *)
(***************************************************************************)
EXTENDS Naturals, FiniteSets

CONSTANTS Tops, Pops, Subs,     \* surfaces, by the role the client gives them
          Framing               \* bound: surfaces with frame callbacks

None == "none"
Surfaces == Tops \cup Pops \cup Subs

VARIABLES
    joined,       \* the client and its connection to swm exist
    exists,       \* its wl_surfaces
    role,         \* those with a toplevel, popup or subsurface object
    parent,       \* popup_parent, subsurface_parent
    sprot,        \* sprot_surface: "none", "asked" (no id yet), "made"
    told,         \* role_sent with the parent of now
    put,          \* pending_commit: a commit is put off, its buffer is kept
    calls,        \* surfaces with frame callbacks
    freq,         \* frame_request_pending
    configured, unanswered,   \* configured; ghost: an object was committed and has no configure
    has, visible, owed,     \* in swm: surfaces it has, has committed, has to answer a frame for
    placed,       \* in swm: role and parent of a surface
    error,        \* an ERROR of swm is on its way
    again, orphaned       \* ghosts: surfaces that lost a role; a parent left children

requestVars == <<exists, role, parent>>
swmVars == <<has, visible, owed, placed, error>>
frameVars == <<calls, freq>>
ghosts == <<again, orphaned>>
vars == <<joined, requestVars, sprot, told, put, frameVars, configured, unanswered, swmVars, ghosts>>

Child(s) == s \in role /\ s \notin Tops
\* surface_parent_ready, when the surfaces of sprot are sp
Ready(s, sp) == Child(s) => parent[s] # None /\ sp[parent[s]] = "made"
\* What swm should know of s.
Place(s) == IF Child(s) THEN parent[s] ELSE "top"
\* In swm a surface goes with its parent: the least set around S that is closed under children.
Tree(S) == {x \in has : \A T \in SUBSET has :
    S \subseteq T /\ (\A y \in has : placed[y] \in T => y \in T) => x \in T}

TypeOK ==
    /\ joined \in BOOLEAN /\ role \subseteq exists /\ exists \subseteq Surfaces
    /\ parent \in [Surfaces -> Surfaces \cup {None}]
    /\ sprot \in [Surfaces -> {"none", "asked", "made"}]
    /\ told \subseteq Surfaces /\ put \subseteq exists
    /\ calls \subseteq exists /\ freq \subseteq exists
    /\ configured \subseteq exists /\ unanswered \subseteq role
    /\ visible \subseteq has /\ owed \subseteq has /\ has \subseteq Surfaces
    /\ placed \in [Surfaces -> Surfaces \cup {"top", None}]
    /\ error \in BOOLEAN /\ again \subseteq Surfaces /\ orphaned \in BOOLEAN

Init ==
    /\ joined = FALSE /\ exists = {} /\ role = {} /\ parent = [s \in Surfaces |-> None]
    /\ sprot = [s \in Surfaces |-> "none"] /\ told = {} /\ put = {} /\ calls = {} /\ freq = {}
    /\ configured = {} /\ unanswered = {}
    /\ has = {} /\ visible = {} /\ owed = {} /\ placed = [s \in Surfaces |-> None] /\ error = FALSE
    /\ again = {} /\ orphaned = FALSE

(***************************************************************************)
(* Calls that the handlers share                                           *)
(***************************************************************************)
\* s and its children: what was told of them named its id.
Around(s) == {s} \cup {c \in Surfaces : parent[c] = s}

\* sprot_destroy_surface on s: without an id nothing is sent.
SwmLoses(s) ==
    LET gone == IF sprot[s] = "made" THEN Tree({s} \cap has) ELSE {}
    IN  /\ has' = has \ (gone \cup {s}) /\ visible' = visible \ (gone \cup {s}) /\ owed' = owed \ (gone \cup {s})
        /\ placed' = [x \in Surfaces |-> IF x \in gone \cup {s} THEN None ELSE placed[x]]
        /\ orphaned' = (orphaned \/ gone \ {s} # {})
        /\ UNCHANGED error

\* Commits of the surfaces C reach swm, which asks for frames where callbacks wait.
Passed(C, wrong) ==
    LET ask == (C \cap calls) \ freq
    IN  /\ visible' = visible \cup (C \cap has) /\ error' = (error \/ wrong \/ ~ C \subseteq has)
        /\ freq' = freq \cup ask /\ owed' = owed \cup (ask \cap has)

\* Mutant: the role is sent only when a surface has none.
FlushOnce(F, sp) ==
    LET go == {s \in F : Ready(s, sp)}
        sent == {s \in go \ told : placed[s] = None /\ s \in Subs}
    IN  /\ told' = told \cup go
        /\ placed' = [s \in Surfaces |-> IF s \in sent \cap has THEN Place(s) ELSE placed[s]]
        /\ Passed(go \cap put, \E s \in sent \cap has : Child(s) /\ parent[s] \notin has)
        /\ put' = put \ go

\* flush_pending_surface_commit on the surfaces F, which have ids: the role, then the
\* commit that was put off, a request for a frame, and the release of the buffer.
Flush(F, sp) ==
    LET go == {s \in F : Ready(s, sp)}
        sent == go \ told
    IN  /\ told' = told \cup go
        /\ placed' = [s \in Surfaces |-> IF s \in sent \cap has THEN Place(s) ELSE placed[s]]
        /\ Passed(go \cap put, \E s \in sent \cap has : Child(s) /\ parent[s] \notin has)
        /\ put' = put \ go

(***************************************************************************)
(* Requests of the client                                                  *)
(***************************************************************************)
Quiet == joined /\ ~ error     \* bound: an ERROR is read before the next request

\* get_or_create_client: the first surface connects to swm.
Join == ~ joined /\ joined' = TRUE /\ UNCHANGED <<requestVars, sprot, told, put, frameVars, configured, unanswered, swmVars, ghosts>>

CreateSurface(s) ==
    /\ Quiet /\ s \notin exists /\ exists' = exists \cup {s} /\ again' = again \ {s}
    /\ UNCHANGED <<joined, role, parent, sprot, told, put, frameVars, configured, unanswered, swmVars, orphaned>>

\* destroy_bridge_surface.  Its children lose their parent.
DestroySurface(s) ==
    /\ Quiet /\ s \in exists /\ exists' = exists \ {s} /\ role' = role \ {s}
    /\ parent' = [x \in Surfaces |-> IF x = s \/ parent[x] = s THEN None ELSE parent[x]]
    /\ sprot' = [sprot EXCEPT ![s] = "none"] /\ told' = told \ Around(s) /\ put' = put \ {s}
    /\ calls' = calls \ {s} /\ freq' = freq \ {s} /\ configured' = configured \ {s} /\ unanswered' = unanswered \ {s}
    /\ SwmLoses(s) /\ UNCHANGED <<joined, again>>

\* get_toplevel, get_popup, get_subsurface.  A popup is configured at once.
GetRole(s, p) ==
    /\ Quiet /\ s \in exists \ role /\ role' = role \cup {s}
    /\ p \in IF s \in Tops THEN {None} ELSE IF s \in Pops THEN role \ Subs ELSE exists \ {s}
    /\ parent' = [parent EXCEPT ![s] = p]
    /\ configured' = IF s \in Pops THEN configured \cup {s} ELSE configured
    /\ UNCHANGED <<joined, exists, sprot, told, put, frameVars, unanswered, swmVars, ghosts>>

\* Mutant: the surface of sprot keeps its id.
DropRoleKeepingId(s) ==
    /\ Quiet /\ s \in role \ Tops /\ role' = role \ {s} /\ parent' = [parent EXCEPT ![s] = None]
    /\ again' = again \cup {s} /\ configured' = configured \ (Pops \cap {s})
    /\ SwmLoses(s)
    /\ UNCHANGED <<joined, exists, sprot, told, put, frameVars, unanswered>>

\* The popup or subsurface object goes.  A put off commit and a frame asked for stay.
DropRole(s) ==
    /\ Quiet /\ s \in role \ Tops /\ role' = role \ {s} /\ parent' = [parent EXCEPT ![s] = None]
    /\ again' = again \cup {s} /\ configured' = configured \ (Pops \cap {s})
    /\ sprot' = [sprot EXCEPT ![s] = "none"] /\ told' = told \ Around(s) /\ SwmLoses(s)
    /\ UNCHANGED <<joined, exists, put, frameVars, unanswered>>

\* The toplevel object goes: the window stays as it is.
DropToplevel(s) ==
    /\ Quiet /\ s \in role \cap Tops /\ role' = role \ {s} /\ again' = again \cup {s} /\ unanswered' = unanswered \ {s}
    /\ UNCHANGED <<joined, exists, parent, sprot, told, put, frameVars, configured, swmVars, orphaned>>

\* surface_frame
AskFrame(s) ==
    /\ Quiet /\ s \in exists \cap Framing /\ calls' = calls \cup {s}
    /\ UNCHANGED <<joined, requestVars, sprot, told, put, freq, configured, unanswered, swmVars, ghosts>>

CommitKeeps == UNCHANGED <<joined, requestVars, has, placed, told, ghosts>>

\* surface_commit of a surface without a role
CommitUnroled(s) ==
    /\ Quiet /\ s \in exists \ role /\ calls' = calls \ {s} /\ freq' = freq \ {s}
    /\ CommitKeeps /\ UNCHANGED <<sprot, put, configured, unanswered, visible, owed, error>>

\* Mutant: only the first commit of a client is answered.
CommitEmptyOnce(s) ==
    /\ Quiet /\ s \in role \ put
    /\ unanswered' = IF configured = {} \/ s \notin Tops THEN unanswered ELSE unanswered \cup {s}
    /\ configured' = IF s \in Subs THEN configured ELSE configured \cup {s}
    /\ IF s \in Subs THEN calls' = calls \ {s} /\ freq' = freq \ {s} ELSE UNCHANGED frameVars
    /\ CommitKeeps /\ UNCHANGED <<sprot, put, visible, owed, error>>

\* surface_commit without a buffer: the first is answered with a configure, which is
\* remembered for the surface and not for its toplevel object.
CommitEmpty(s) ==
    /\ Quiet /\ s \in role \ put
    /\ unanswered' = IF s \in configured /\ s \in again \cap Tops THEN unanswered \cup {s} ELSE unanswered
    /\ configured' = IF s \in Subs THEN configured ELSE configured \cup {s}
    /\ IF s \in Subs THEN calls' = calls \ {s} /\ freq' = freq \ {s} ELSE UNCHANGED frameVars
    /\ CommitKeeps /\ UNCHANGED <<sprot, put, visible, owed, error>>

\* surface_commit with a buffer: passed on, or put off until s and its parent have ids.
CommitBuffer(s) ==
    /\ Quiet /\ s \in role
    /\ sprot' = [sprot EXCEPT ![s] = IF @ = "none" THEN "asked" ELSE @]
    /\ has' = has \cup IF sprot[s] = "none" THEN {s} ELSE {}
    /\ placed' = [placed EXCEPT ![s] = IF sprot[s] = "none" THEN None ELSE @]
    /\ IF sprot[s] = "made" /\ Ready(s, sprot)
       THEN Passed({s}, FALSE) /\ UNCHANGED put
       ELSE put' = put \cup {s} /\ UNCHANGED <<visible, error, freq, owed>>
    /\ UNCHANGED <<joined, requestVars, told, calls, configured, unanswered, ghosts>>

\* subsurface_set_position, place_above, xdg_popup.reposition: send_sprot_role_for_surface.
Reposition(s) ==
    /\ Quiet /\ Child(s) /\ sprot[s] = "made" /\ Ready(s, sprot) /\ s \notin told
    /\ told' = told \cup {s}
    /\ placed' = [placed EXCEPT ![s] = IF s \in has THEN parent[s] ELSE @]
    /\ error' = (s \in has /\ parent[s] \notin has)
    /\ UNCHANGED <<joined, requestVars, sprot, put, frameVars, configured, unanswered, has, visible, owed, ghosts>>

(***************************************************************************)
(* Events of swm                                                           *)
(***************************************************************************)
\* Mutant: the children are not looked at.
Alone(s) == {s}
\* What SURFACE_CREATED flushes: the surface and the children that have their id.
Waiting(s) == {s} \cup {c \in role \ Tops : parent[c] = s /\ sprot[c] = "made"}

Created(s) ==
    /\ Quiet /\ sprot[s] = "asked" /\ sprot' = [sprot EXCEPT ![s] = "made"]
    /\ Flush(Waiting(s), sprot') /\ UNCHANGED has
    /\ UNCHANGED <<joined, requestVars, calls, configured, unanswered, ghosts>>

\* Mutant: the next request for a frame is taken for sent.
FrameKeeping(s) ==
    /\ Quiet /\ s \in owed /\ owed' = owed \ {s} /\ calls' = calls \ {s} /\ UNCHANGED freq
    /\ UNCHANGED <<joined, requestVars, sprot, told, put, configured, unanswered, has, visible, placed, error, ghosts>>

\* SURFACE_FRAME answers the callbacks.
Frame(s) ==
    /\ Quiet /\ s \in owed /\ owed' = owed \ {s} /\ calls' = calls \ {s} /\ freq' = freq \ {s}
    /\ UNCHANGED <<joined, requestVars, sprot, told, put, configured, unanswered, has, visible, placed, error, ghosts>>

\* SURFACE_CONFIGURE is passed on.
Configure(s) ==
    /\ Quiet /\ s \in unanswered /\ sprot[s] = "made" /\ s \in visible /\ unanswered' = unanswered \ {s}
    /\ UNCHANGED <<joined, requestVars, sprot, told, put, frameVars, configured, swmVars, ghosts>>

\* The client goes, or ERROR or DISCONNECT ends it: client_destroy_listener.
Leave ==
    /\ joined /\ joined' = FALSE
    /\ exists' = {} /\ role' = {} /\ parent' = [s \in Surfaces |-> None]
    /\ sprot' = [s \in Surfaces |-> "none"] /\ told' = {} /\ put' = {} /\ calls' = {} /\ freq' = {}
    /\ configured' = {} /\ unanswered' = {}
    /\ has' = {} /\ visible' = {} /\ owed' = {} /\ placed' = [s \in Surfaces |-> None] /\ error' = FALSE
    /\ again' = {} /\ orphaned' = FALSE

BridgeStep == (\E s \in Surfaces : Created(s)) \/ (error /\ Leave)
Next ==
    \/ Join \/ Leave \/ BridgeStep
    \/ \E s \in Surfaces :
        \/ CreateSurface(s) \/ DestroySurface(s) \/ DropRole(s) \/ DropToplevel(s) \/ AskFrame(s)
        \/ CommitUnroled(s) \/ CommitEmpty(s) \/ CommitBuffer(s) \/ Reposition(s)
        \/ Frame(s) \/ Configure(s)
        \/ \E p \in Surfaces \cup {None} : GetRole(s, p)

\* swm answers each creation, and the event loop reads what it sends.
Spec == Init /\ [][Next]_vars /\ WF_vars(BridgeStep)

(***************************************************************************)
(* Properties                                                              *)
(***************************************************************************)
\* A commit that was put off never outlasts its reason: a surface that has its id and
\* whose parent has one has nothing left to flush (surface.c:120).
DeferredMeansWaiting == \A s \in put \cap role : sprot[s] = "made" => ~ Ready(s, sprot)
\* What swm shows of a surface with a role is where the client put it: no popup is
\* ever painted as a window of its own, or over a former parent (xdg.c:234).
ShownInPlace == \A s \in visible \cap role : sprot[s] = "made" /\ Ready(s, sprot) => placed[s] = Place(s)
\* A frame the bridge waits for is one swm still has to deliver, except that a surface
\* which lost its role waits for that of its former self (surface.c:89).
FramesOwed == \A s \in freq \ again : s \in has => s \in owed
\* swm ends a client with an ERROR only when a popup with children was destroyed
\* before them: their ids are dead then, and the bridge does not know (xdg.c:451).
KilledAfterOrphans == error => orphaned
\* The empty commit of a new toplevel is answered with a configure, or its surface had
\* a toplevel before (surface.c:399).
InitialCommitAnswered == unanswered \subseteq again
\* Unless the surfaces change their roles, every commit that was put off gets to swm, but
\* for one of a former popup or subsurface, which waits for the next buffer.
Settled == role # Surfaces \/ \A s \in put : Ready(s, sprot) => sprot[s] = "none"
Waits == ~ Settled
DeferredFlushed == Waits ~> Settled
=============================================================================
