------------------------------- MODULE Sprot -------------------------------
(***************************************************************************)
(* The client library of sprot (libs/gui/sprot/src: client.c, vk_interop.c *)
(* and srapi_bridge.c) on one connection, composed with SprotServer.       *)
(*                                                                         *)
(* Each action is one call of the application, or one turn of the loop of  *)
(* a call that waits: mode is the call the application is in.  Requests on *)
(* a dead connection fail and change nothing, so they are left out.        *)
(*                                                                         *)
(* A commit and an attach carry, as a ghost, the buffer the application    *)
(* means to show: draw[h] is the last one it drew in, or NoBuffer when the *)
(* library cannot show that one.                                           *)
(***************************************************************************)
EXTENDS SprotServer

CONSTANTS MaxSerial,      \* bound: messages the client sends
          MaxResize,      \* bound: resizes of a surface
          Foreign,        \* the application's own buffers, positive numbers
          RingSize        \* pending[], 16 in the code

ASSUME ClientAssumption ==
    MaxSerial \in Nat \ {0} /\ MaxResize \in Nat /\ Foreign \subseteq Nat \ {0} /\ RingSize \in Nat \ {0}

VARIABLES
    mode,         \* "new", "connect", "idle", "await", "ready", "gone"
    serial,       \* conn->serial
    obj,          \* conn->surfaces, by client_handle
    nextHandle,   \* conn->next_handle
    pending,      \* conn->pending
    waitFor,      \* the surface that wait_surface_ready was called for
    draw,         \* ghost: the buffer the application drew in, by handle
    got,          \* ghost: number of the last event the application took
    early,        \* ghost: handles destroyed before the answer to their creation
    overlap,      \* ghost: handles created while an earlier creation was open
    ready         \* ghost: handles whose creation call has returned a surface

clientVars == <<mode, serial, obj, nextHandle, pending, waitFor, draw, got, early, overlap, ready>>
wireVars == <<alive, closed, toServer, toClient, srv, created, refused, eventNo, inputs>>
vars == <<clientVars, wireVars>>

NoObject == [live |-> FALSE, id |-> 0, resized |-> 0, attached |-> NoBuffer]
Live == {h \in Handles : obj[h].live}
Acked == {h \in Live : obj[h].id # 0}
Own(h) == <<h, obj[h].resized>>

Init ==
    /\ ServerInit
    /\ mode = "new" /\ serial = 1 /\ obj = [h \in Handles |-> NoObject] /\ nextHandle = 1
    /\ pending = <<>> /\ waitFor = 0 /\ draw = [h \in Handles |-> NoBuffer] /\ got = 0
    /\ early = {} /\ overlap = {} /\ ready = {}

\* Requests rs are sent, each with a serial of its own.
Sent(rs) ==
    /\ alive /\ serial + Len(rs) <= MaxSerial
    /\ serial' = serial + Len(rs)
    /\ toServer' = toServer \o rs
ServerIdle == UNCHANGED <<alive, closed, srv, created, refused, eventNo, inputs>>
ClientIdle == UNCHANGED <<pending, waitFor, got, early, overlap, ready>>

\* sprot_connect: HELLO, then the first message must be WELCOME.
Connect ==
    /\ mode = "new" /\ mode' = "connect"
    /\ Sent(<<Request("hello", 0, 0)>>)
    /\ ServerIdle /\ ClientIdle /\ UNCHANGED <<toClient, obj, nextHandle, draw>>

RecvWelcome ==
    /\ mode = "connect"
    /\ \/ /\ toClient # <<>> /\ toClient' = Tail(toClient)
          /\ mode' = IF Head(toClient).kind = "welcome" THEN "idle" ELSE "gone"
          /\ closed' = (mode' = "gone")
       \/ toClient = <<>> /\ ~ alive /\ mode' = "gone" /\ closed' = TRUE /\ UNCHANGED toClient
    /\ ClientIdle
    /\ UNCHANGED <<serial, obj, nextHandle, draw, alive, toServer, srv, created, refused, eventNo, inputs>>

\* An earlier creation is not answered, or its answer not read.
CreationOpen ==
    \/ \E i \in DOMAIN toServer : toServer[i].type = "create"
    \/ \E i \in DOMAIN toClient : toClient[i].kind = "created"
    \/ \E i \in DOMAIN pending : pending[i].kind = "created"

\* sprot_create_surface; for the two calls of the bridge, wait_surface_ready follows.
Create ==
    /\ mode = "idle" /\ nextHandle <= MaxHandle
    /\ Sent(<<Request("create", 0, nextHandle)>>)
    /\ obj' = [obj EXCEPT ![nextHandle].live = TRUE]
    /\ draw' = [draw EXCEPT ![nextHandle] = <<nextHandle, 0>>]
    /\ nextHandle' = nextHandle + 1
    /\ \/ mode' = "idle" /\ UNCHANGED <<waitFor, overlap>>
       \/ /\ mode' = "ready" /\ waitFor' = nextHandle
          /\ overlap' = IF CreationOpen THEN overlap \cup {nextHandle} ELSE overlap
    /\ ServerIdle /\ UNCHANGED <<toClient, pending, got, early, ready>>

\* Mutant: only a surface that was shown is destroyed on the other side.
DestroyedIfShown(h) ==
    /\ IF obj[h].id = 0
       THEN early' = early \cup {h} /\ UNCHANGED <<serial, toServer>>
       ELSE /\ Sent(IF obj[h].attached = NoBuffer THEN <<>> ELSE <<Request("destroy", obj[h].id, 0)>>)
            /\ UNCHANGED early
    /\ obj' = [obj EXCEPT ![h] = NoObject] /\ draw' = [draw EXCEPT ![h] = NoBuffer]
    /\ overlap' = overlap \ {h} /\ ready' = ready \ {h}

\* sprot_destroy_surface.  A surface without an id sends nothing.
Destroyed(h) ==
    /\ IF obj[h].id = 0
       THEN early' = early \cup {h} /\ UNCHANGED <<serial, toServer>>
       ELSE Sent(<<Request("destroy", obj[h].id, 0)>>) /\ UNCHANGED early
    /\ obj' = [obj EXCEPT ![h] = NoObject] /\ draw' = [draw EXCEPT ![h] = NoBuffer]
    /\ overlap' = overlap \ {h} /\ ready' = ready \ {h}

Destroy(h) ==
    /\ mode = "idle" /\ obj[h].live /\ Destroyed(h)
    /\ ServerIdle /\ UNCHANGED <<toClient, mode, nextHandle, pending, waitFor, got>>

\* Mutant: the attachment survives the new memfd.
ResizeKeeping(h) ==
    /\ mode = "idle" /\ obj[h].live /\ obj[h].resized < MaxResize
    /\ obj' = [obj EXCEPT ![h].resized = @ + 1]
    /\ draw' = [draw EXCEPT ![h] = <<h, obj[h].resized + 1>>]
    /\ ClientIdle /\ UNCHANGED <<wireVars, mode, serial, nextHandle>>

\* sprot_resize_surface: a new memfd, and surface_clear_attachment.
Resize(h) ==
    /\ mode = "idle" /\ obj[h].live /\ obj[h].resized < MaxResize
    /\ obj' = [obj EXCEPT ![h].resized = @ + 1, ![h].attached = NoBuffer]
    /\ draw' = [draw EXCEPT ![h] = <<h, obj[h].resized + 1>>]
    /\ ClientIdle /\ UNCHANGED <<wireVars, mode, serial, nextHandle>>

\* surface_attach_matches_fd and sprot_internal_surface_dmabuf_matches
Matches(h, b) == obj[h].attached = b

\* What sprot_attach_fd sends for buffer b: nothing when it is attached already.
AttachRequest(h, b) == IF Matches(h, b) THEN <<>> ELSE <<Request("attach", obj[h].id, b)>>

\* sprot_surface_attach_dmabuf; sprot_attach_fd does the same to the surface.
Attach(h, b) ==
    /\ mode = "idle" /\ h \in Acked
    /\ Sent(AttachRequest(h, b))
    /\ obj' = [obj EXCEPT ![h].attached = b] /\ draw' = [draw EXCEPT ![h] = b]
    /\ ServerIdle /\ ClientIdle /\ UNCHANGED <<toClient, mode, nextHandle>>

\* What sprot_commit sends: the surface's own memfd if nothing is attached.
CommitRequests(h, b) ==
    (IF Matches(h, NoBuffer) THEN AttachRequest(h, Own(h)) ELSE <<>>)
        \o <<Request("commit", obj[h].id, b)>>
Committed(h) == IF Matches(h, NoBuffer) THEN [obj EXCEPT ![h].attached = Own(h)] ELSE obj

Commit(h) ==
    /\ mode = "idle" /\ h \in Acked
    /\ Sent(CommitRequests(h, draw[h])) /\ obj' = Committed(h)
    /\ ServerIdle /\ ClientIdle /\ UNCHANGED <<toClient, mode, nextHandle, draw>>

\* present_dmabuf: the image is exported, attached and committed.
PresentDmabuf(h, b) ==
    /\ mode = "idle" /\ h \in Acked
    /\ Sent(AttachRequest(h, b) \o <<Request("commit", obj[h].id, b)>>)
    /\ obj' = [obj EXCEPT ![h].attached = b] /\ draw' = [draw EXCEPT ![h] = b]
    /\ ServerIdle /\ ClientIdle /\ UNCHANGED <<toClient, mode, nextHandle>>

\* sprot_present_framebuffer and sprot_present_image when the export fails: the
\* pixels are copied to the memfd and committed, whatever is attached.  With a
\* foreign buffer attached that shows the foreign buffer; NoBuffer: no claim.
PresentCopy(h) ==
    /\ mode = "idle" /\ h \in Acked
    /\ draw' = [draw EXCEPT ![h] = IF obj[h].attached \in {NoBuffer, Own(h)} THEN Own(h) ELSE NoBuffer]
    /\ Sent(CommitRequests(h, draw'[h])) /\ obj' = Committed(h)
    /\ ServerIdle /\ ClientIdle /\ UNCHANGED <<toClient, mode, nextHandle>>

\* sprot_request_frame, sprot_set_role and sprot_ping.  Damage, title and cursor are
\* sent the same way and change nothing here.
Ask(h) ==
    /\ mode = "idle" /\ h \in Acked
    /\ \E r \in {Request("frame", obj[h].id, 0), Request("ping", 0, 0)} \cup
                {Request("role", obj[h].id, obj[g].id) : g \in Acked} : Sent(<<r>>)
    /\ ServerIdle /\ ClientIdle /\ UNCHANGED <<toClient, mode, obj, nextHandle, draw>>

\* Mutant: the socket is read first.
FromRingLast == toClient = <<>>

\* sprot_poll_event returns what is in the ring before it looks at the socket.
FromRing == pending # <<>>
Available == pending # <<>> \/ toClient # <<>>
NextEvent == IF FromRing THEN Head(pending) ELSE Head(toClient)
Rest == IF FromRing THEN Tail(pending) ELSE pending

\* Mutant: the answer is for the newest surface without an id.
AppliedToNewest(e) ==
    IF e.kind = "created" /\ Live \ Acked # {}
    THEN [obj EXCEPT ![CHOOSE h \in Live \ Acked : \A g \in Live \ Acked : g <= h].id = e.id] ELSE obj

\* apply_surface_created
Applied(e) ==
    IF e.kind = "created" /\ obj[e.arg].live THEN [obj EXCEPT ![e.arg].id = e.id] ELSE obj

\* Taking it out; Rest is left in the ring.
Take ==
    /\ Available
    /\ IF FromRing THEN UNCHANGED <<toClient, obj>>
       ELSE toClient' = Tail(toClient) /\ obj' = Applied(Head(toClient))

\* The application polls; the end of the stream is SPROT_EVENT_DISCONNECT.
Poll ==
    /\ mode = "idle"
    /\ \/ Take /\ pending' = Rest /\ got' = NextEvent.no /\ UNCHANGED mode
       \/ ~ Available /\ ~ alive /\ mode' = "gone" /\ UNCHANGED <<pending, toClient, obj, got>>
    /\ UNCHANGED <<serial, nextHandle, waitFor, draw, early, overlap, ready, alive, closed, toServer,
                   srv, created, refused, eventNo, inputs>>

\* sprot_query_render_node
Query ==
    /\ mode = "idle" /\ mode' = "await"
    /\ Sent(<<Request("query", 0, 0)>>)
    /\ ServerIdle /\ ClientIdle /\ UNCHANGED <<toClient, obj, nextHandle, draw>>

\* sprot_internal_pending_push, and what await_event does when the ring is full.
Pushed(ring, e) == Append(IF Len(ring) < RingSize THEN ring ELSE Tail(ring), e)

\* await_event: an answer, an error and the end of the stream return; any other
\* event goes to the ring, and is what the next turn finds there.  The time may
\* be up at each turn.
AwaitTurn ==
    /\ mode = "await"
    /\ Take
    /\ IF NextEvent.kind \in {"render_node", "error"}
       THEN mode' = "idle" /\ pending' = Rest
       ELSE mode' = "await" /\ pending' = Pushed(Rest, NextEvent)
    /\ UNCHANGED <<serial, nextHandle, waitFor, draw, got, early, overlap, ready, alive, closed, toServer,
                   srv, created, refused, eventNo, inputs>>

AwaitTimeout ==
    /\ mode = "await" /\ mode' = "idle"
    /\ UNCHANGED <<wireVars, serial, obj, nextHandle, pending, waitFor, draw, got, early, overlap, ready>>

\* Mutant: the wait ends with any event.
ReadyAtAnything ==
    /\ mode = "ready" /\ Take /\ pending' = Rest
    /\ mode' = "idle" /\ ready' = ready \cup {waitFor} /\ waitFor' = 0
    /\ UNCHANGED <<serial, nextHandle, draw, got, early, overlap, alive, closed, toServer,
                   srv, created, refused, eventNo, inputs>>

\* wait_surface_ready: the first CREATED ends the wait, whatever surface it is
\* for; every other event is dropped.
ReadyTurn ==
    /\ mode = "ready" /\ Take /\ pending' = Rest
    /\ IF NextEvent.kind = "created" THEN mode' = "idle" /\ ready' = ready \cup {waitFor} /\ waitFor' = 0
       ELSE UNCHANGED <<mode, ready, waitFor>>
    /\ UNCHANGED <<serial, nextHandle, draw, got, early, overlap, alive, closed, toServer,
                   srv, created, refused, eventNo, inputs>>

\* After 80 polls, or at the end of the stream, the surface is destroyed.
ReadyTimeout ==
    /\ mode = "ready" /\ mode' = "idle" /\ Destroyed(waitFor) /\ waitFor' = 0
    /\ ServerIdle /\ UNCHANGED <<toClient, nextHandle, pending, got>>

\* sprot_disconnect destroys the surfaces and closes the socket.
Disconnect ==
    /\ mode = "idle" /\ mode' = "gone" /\ closed' = TRUE
    /\ toServer' = IF alive
                   THEN toServer \o [i \in 1 .. Cardinality(Acked) |->
                          Request("destroy", obj[CHOOSE h \in Acked :
                                    Cardinality({g \in Acked : g >= h}) = i].id, 0)]
                   ELSE toServer
    /\ obj' = [h \in Handles |-> NoObject] /\ draw' = [h \in Handles |-> NoBuffer]
    /\ pending' = <<>> /\ toClient' = <<>> /\ early' = {} /\ overlap' = {} /\ ready' = {}
    /\ UNCHANGED <<alive, srv, created, refused, eventNo, inputs, serial, nextHandle, waitFor, got>>

ClientNext ==
    \/ Connect \/ RecvWelcome \/ Create \/ Poll \/ Query \/ AwaitTurn \/ AwaitTimeout
    \/ ReadyTurn \/ ReadyTimeout \/ Disconnect
    \/ \E h \in Handles : 
          \/ Destroy(h) \/ Resize(h) \/ Commit(h) \/ PresentCopy(h) \/ Ask(h)
          \/ \E f \in Foreign : Attach(h, <<0, f>>) \/ PresentDmabuf(h, <<0, f>>)

Next == ClientNext \/ (ServerNext /\ UNCHANGED clientVars)

\* swm never stops reading a client that has something to say.
Fairness == WF_vars(Dispatch /\ UNCHANGED clientVars) /\ WF_vars(HangUp /\ UNCHANGED clientVars)

Spec == Init /\ [][Next]_vars /\ Fairness

-----------------------------------------------------------------------------
Buffers == ({0} \X Foreign) \cup (Handles \X (0 .. MaxResize)) \cup {NoBuffer}

\* Type correctness of both ends and of the stream between them.
TypeOK ==
    /\ alive \in BOOLEAN /\ closed \in BOOLEAN
    /\ mode \in {"new", "connect", "idle", "await", "ready", "gone"}
    /\ serial \in 1 .. MaxSerial /\ nextHandle \in 1 .. MaxHandle + 1
    /\ obj \in [Handles -> [live : BOOLEAN, id : Nat, resized : 0 .. MaxResize, attached : Buffers]]
    /\ DOMAIN srv \subseteq 1 .. created /\ created <= MaxHandle
    /\ \A i \in DOMAIN srv : srv[i].handle \in Handles /\ srv[i].buffer \in Buffers /\ srv[i].parent \in Nat
    /\ refused \cup early \cup overlap \cup ready \subseteq Handles /\ waitFor \in Handles \cup {0}
    /\ draw \in [Handles -> Buffers] /\ Cardinality(DOMAIN srv) <= Limit
    /\ Len(pending) <= RingSize /\ inputs \in 0 .. MaxInput

\* await_event reads the socket only when the ring is empty, so the ring never holds
\* more than one event and its overflow (vk_interop.c:54) never happens.  The price:
\* while that one event lies there, the answer that is awaited is not read.
RingHoldsOne == Len(pending) <= 1

\* The application gets the events in the order in which they were sent, although
\* await_event takes some out and puts them back.
EventsInOrder ==
    LET coming == pending \o toClient IN
    /\ \A i, j \in DOMAIN coming : i < j => coming[i].no < coming[j].no
    /\ \A i \in DOMAIN coming : got < coming[i].no /\ coming[i].no <= eventNo

\* The id a surface has got is that of the surface the compositor made for it: answers
\* are matched by client_handle, with any number of creations open.  The calls of the
\* bridge return a surface with an id, unless another creation was open, whose answer
\* they then take for theirs (srapi_bridge.c:14).
IdsAgree ==
    /\ \A h \in Acked : obj[h].id \in DOMAIN srv => srv[obj[h].id].handle = h
    /\ \A g, h \in Acked : obj[g].id = obj[h].id => g = h
    /\ \A h \in ready \cap Live : obj[h].id # 0 \/ h \in overlap

\* The buffer of surface id before the i-th request on its way is handled.
BufferBefore(i, id) ==
    LET attaches == {j \in 1 .. i - 1 : toServer[j].type = "attach" /\ toServer[j].id = id} IN
    IF attaches = {} THEN srv[id].buffer
    ELSE toServer[CHOOSE j \in attaches : \A k \in attaches : k <= j].arg

\* A commit shows what the application last drew in, through resizes and foreign
\* buffers and with repeated attaches left out, unless an attach of that surface
\* was refused: of that the library knows nothing (client.c:577).  The copy of a
\* present that finds a foreign buffer attached makes no claim.
CommitShowsDrawn ==
    \A i \in DOMAIN toServer :
        LET r == toServer[i] IN
        r.type = "commit" /\ r.arg # NoBuffer /\ Known(r) /\ srv[r.id].handle \notin refused
            => BufferBefore(i, r.id) = r.arg

\* The compositor keeps a surface its client has destroyed only if the client did
\* not know its id yet (client.c:411), and then until the client leaves.
NoOrphans ==
    \A i \in DOMAIN srv :
        \/ closed \/ srv[i].handle \in Live \cup early
        \/ \E j \in DOMAIN toServer : toServer[j].type = "destroy" /\ toServer[j].id = i

\* A client that has closed its socket leaves no surface behind, orphans included.
GoneLeavesNothing == closed ~> srv = <<>>
=============================================================================
