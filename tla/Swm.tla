-------------------------------- MODULE Swm --------------------------------
(***************************************************************************)
(* The compositor swm as a whole: the loop of libs/gui/swm/src/main.c over *)
(* the requests of its clients (SwmProtocol), the input (SwmInteraction,   *)
(* SwmDesktop) and the frames it paints.                                   *)
(*                                                                         *)
(* The loop is single-threaded.  An iteration takes at most one request of *)
(* each client, then all the input, then may paint; here any of the three  *)
(* may come next, which the ready sets of poll() allow but for the number  *)
(* of steps between two frames.  MenuKey without a desktop and a blocking  *)
(* send to a client that does not read are not distinguished from doing    *)
(* nothing.                                                                *)
(***************************************************************************)
EXTENDS SwmProtocol, SwmInteraction

VARIABLE needsRepaint     \* needs_repaint of main()

vars == <<clients, surfaceVars, nextId, pointerVars, cursor, phase, desktopVars,
          needsRepaint>>

Init ==
    /\ clients = [c \in Clients |-> "free"] /\ lists = [c \in Clients |-> {}]
    /\ surf = [s \in Slots |-> NoSurface] /\ z = [s \in Slots |-> 0]
    /\ nextId = 0 /\ hovered = 0 /\ interaction = "none" /\ grab = 0 /\ cursor = 0
    /\ items = {} /\ focusedItem = 0 /\ menuOpen = FALSE
    /\ launcherPressed = FALSE /\ pressedItem = 0
    /\ phase = "running" /\ needsRepaint = TRUE

\* The part of the loop that serves the sockets, and the part that reads input.
Serve ==
    /\ Accept \/ \E c \in Clients : Dropped(c) \/ Request(c)
    /\ needsRepaint' = TRUE
    /\ UNCHANGED desktopVars

ReadInput == Input /\ needsRepaint' = TRUE

Armed == {s \in Slots : surf[s].wantsFrame}

\* Mutant: a surface whose client could not be reached is not armed again.
DeliverOnce(D) == surf' = [s \in Slots |->
    IF s \in Armed THEN [surf[s] EXCEPT !.wantsFrame = FALSE, !.waiting = s \notin D]
    ELSE surf[s]]

\* deliver_frame_callbacks: the surfaces of D get their frame event; for the
\* others the client's socket is full, and they stay armed.
Deliver(D) == surf' = [s \in Slots |->
    IF s \in D THEN [surf[s] EXCEPT !.wantsFrame = FALSE, !.waiting = FALSE] ELSE surf[s]]

\* A frame, because something changed or the desktop's timer ran out.
Repaint ==
    /\ needsRepaint \/ HasDE
    /\ IF HasDE THEN Tick ELSE UNCHANGED desktopVars
    /\ \E D \in SUBSET Armed : Deliver(D)
    /\ needsRepaint' = FALSE
    /\ UNCHANGED <<clients, lists, z, nextId, pointerVars, cursor, phase>>

\* SIGINT or SIGTERM.
Signal ==
    /\ phase' = "quitting"
    /\ UNCHANGED <<clients, surfaceVars, nextId, pointerVars, cursor, desktopVars,
                   needsRepaint>>

\* After the loop every client is dropped.
Shutdown ==
    /\ phase = "quitting"
    /\ IF \E s \in Used : OnCycle(s)
       THEN phase' = "overflow" /\ UNCHANGED <<clients, surfaceVars, pointerVars>>
       ELSE /\ FreeAll(UNION {UNION {Subtree(s) : s \in lists[c]} : c \in Clients})
            /\ clients' = [c \in Clients |-> "free"] /\ phase' = "stopped"
    /\ UNCHANGED <<nextId, cursor, desktopVars, needsRepaint>>

Next ==
    \/ phase = "running" /\ (Serve \/ ReadInput \/ Repaint \/ Signal)
    \/ Shutdown

Spec == Init /\ [][Next]_vars

\* The loop comes round, and a client that reads its socket has room in it
\* again and again when the compositor has something to send.
Delivers(s) == phase = "running" /\ s \in Armed /\ Repaint /\ ~ surf'[s].waiting
Fairness == /\ WF_vars(phase = "running" /\ Repaint) /\ WF_vars(Shutdown)
            /\ \A s \in Slots : SF_vars(Delivers(s))
FairSpec == Spec /\ Fairness

-----------------------------------------------------------------------------
Surfaces == [id : 0 .. MaxId, owner : 0 .. NumClients, role : Roles, parent : 0 .. MaxId,
             buffer : BOOLEAN, committed : BOOLEAN, minimized : BOOLEAN,
             maximized : BOOLEAN, wantsFrame : BOOLEAN, waiting : BOOLEAN]

\* The types, and the limit on the surfaces of one client (swm.h: surfaces[8]).
TypeOK ==
    /\ clients \in [Clients -> {"free", "connected", "ready"}]
    /\ lists \in [Clients -> SUBSET Slots]
    /\ \A c \in Clients : Cardinality(lists[c]) <= PerClient
    /\ surf \in [Slots -> Surfaces] /\ z \in [Slots -> Int] /\ nextId \in 0 .. MaxId
    /\ hovered \in 0 .. NumSlots /\ grab \in 0 .. NumSlots
    /\ interaction \in {"none", "move"} /\ cursor \in 0 .. MaxId
    /\ items \subseteq 1 .. MaxId /\ focusedItem \in 0 .. MaxId
    /\ menuOpen \in BOOLEAN /\ launcherPressed \in BOOLEAN /\ pressedItem \in 0 .. MaxId
    /\ phase \in {"running", "quitting", "stopped", "overflow"}
    /\ needsRepaint \in BOOLEAN

\* A client's list holds exactly the surfaces it owns, and only a client that is
\* connected owns any: drop_client empties the list and so leaves nothing that
\* points to the client (surface_free, drop_client, SURFACE_CREATE).
OwnersAgree ==
    /\ \A c \in Clients : lists[c] = {s \in Slots : Owned(c, s)}
    /\ \A s \in Used : surf[s].owner \in Clients /\ clients[surf[s].owner] = "ready"

\* The surface that is moved and the one under the pointer exist, and a move
\* always has its surface (the pointers that surface_free must clear).
PointersAlive ==
    /\ grab # 0 => InUse(grab)
    /\ hovered # 0 => InUse(hovered)
    /\ (interaction = "move") <=> (grab # 0)

\* Ids are never shared, and a surface with a parent hangs below a living
\* surface of the same client (SET_ROLE, and the recursion of surface_free).
TreesOwned ==
    /\ \A s, t \in Used : surf[s].id = surf[t].id => s = t
    /\ \A s \in Used : surf[s].id <= nextId
    /\ \A s \in Used : surf[s].parent # 0 =>
          /\ IsChild(s)
          /\ \E p \in Used : surf[p].id = surf[s].parent /\ surf[p].owner = surf[s].owner

\* A cursor chosen by a client is that of the surface under the pointer, or of
\* one that is gone (SET_CURSOR, the motion handler; surface_free forgets it).
CursorFollowsPointer ==
    cursor # 0 => (hovered # 0 /\ surf[hovered].id = cursor) \/ Named(cursor) = {}

\* What is painted agrees with what the keyboard does: after a frame the
\* taskbar lists the windows, and the item drawn as focused is that of the
\* window that gets the keys (rebuild_items_from_swm and topmost_window).
TaskbarAgrees ==
    phase = "running" /\ HasDE /\ ~ needsRepaint =>
        /\ items = Smallest(MaxItems, Ids(Windows))
        /\ focusedItem # 0 => TopmostWindow # 0 /\ surf[TopmostWindow].id = focusedItem
        /\ Cardinality(Windows) <= MaxItems /\ TopmostWindow # 0 => focusedItem # 0

\* A request of a client, or its death, changes no surface of another client,
\* nor whether the pointer or a move is on it.
ClientIsolation ==
    [][\A c \in Clients :
          (\E d \in Clients \ {c} : Request(d) \/ Dropped(d)) =>
              /\ lists'[c] = lists[c]
              /\ \A s \in lists[c] : /\ surf'[s] = surf[s]
                                     /\ hovered = s => hovered' = s
                                     /\ grab = s => grab' = s]_vars

\* The slots, lists and pointers implement the clients' view of their surfaces:
\* each owns a forest that nobody else touches.
Holder(i) == CHOOSE s \in Named(i) : TRUE
owners == [i \in 1 .. MaxId |-> IF Named(i) = {} THEN 0 ELSE surf[Holder(i)].owner]
parents == [i \in 1 .. MaxId |-> IF Named(i) = {} THEN 0 ELSE surf[Holder(i)].parent]
Forest == INSTANCE SurfaceForest WITH owner <- owners, parent <- parents, born <- nextId
ImplementsForest == Forest!ForestSpec

\* A pointer to a slot never passes from one surface to another: the slot is not
\* used again while the pointer stands.
NoSilentHandoff ==
    [][/\ hovered # 0 /\ hovered' = hovered => surf'[hovered].id = surf[hovered].id
       /\ grab # 0 /\ grab' = grab => surf'[grab].id = surf[grab].id]_vars

\* A surface that asked for a frame event gets it (deliver_frame_callbacks:
\* "Re-arm so the client can pick up the frame next tick."), or is gone.
FrameDelivered == \A s \in Slots : surf[s].waiting ~> ~ surf[s].waiting
=============================================================================
