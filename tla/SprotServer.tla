---------------------------- MODULE SprotServer ----------------------------
(***************************************************************************)
(* One connection of the protocol sprot, and the compositor's end of it:   *)
(* what protocol.c of swm does with the requests of one client, seen from  *)
(* the stream.  (SwmProtocol has the same handlers seen from the surface   *)
(* table, with many clients and no streams.)                               *)
(*                                                                         *)
(* A stream socket keeps messages whole and in order: sprot_send_message   *)
(* gives header and body to one sendmsg, and a blocking sendmsg takes all  *)
(* of it.  toServer and toClient are what was sent and not yet read.       *)
(*                                                                         *)
(* A buffer is known by the key its client compares, the device and inode  *)
(* of its descriptor: <<h, g>> is the memfd that the surface with handle h *)
(* got after g resizes, <<0, b>> a buffer of the application.              *)
(***************************************************************************)
EXTENDS Integers, Sequences, FiniteSets

CONSTANTS MaxHandle,      \* bound: surfaces a client creates
          Limit,          \* surfaces[] of a client, 8 in the code
          MaxInput        \* bound: events nobody asked for

ASSUME WireAssumption == MaxHandle \in Nat \ {0} /\ Limit \in Nat /\ MaxInput \in Nat

VARIABLES
    alive,        \* the compositor runs and has not dropped the client
    closed,       \* the client has closed its socket
    toServer,     \* requests on their way
    toClient,     \* events on their way
    srv,          \* surfaces of the client: surface id -> record
    created,      \* ids given out
    refused,      \* ghost: handles of which an attach was answered with an error
    eventNo,      \* ghost: numbers the events
    inputs        \* events nobody asked for so far

serverVars == <<srv, created, refused>>

Handles == 1 .. MaxHandle
NoBuffer == <<0, 0>>

Request(type, id, arg) == [type |-> type, id |-> id, arg |-> arg]
Event(kind, id, arg) == [kind |-> kind, id |-> id, arg |-> arg, no |-> eventNo + 1]

\* An event, sent to a socket whose peer may have closed it.
Send(kind, id, arg) ==
    /\ eventNo' = eventNo + 1
    /\ toClient' = IF closed THEN toClient ELSE Append(toClient, Event(kind, id, arg))
Silent == UNCHANGED <<toClient, eventNo>>
Refuse == Send("error", 0, 0)

Known(r) == r.id \in DOMAIN srv
Keep == UNCHANGED serverVars

HandleHello(r) == Keep /\ Send("welcome", 0, 0)

\* Mutant: the limit is not tested.
CreateWithoutLimit(r) ==
    /\ created' = created + 1
    /\ srv' = [i \in DOMAIN srv \cup {created + 1} |->
                 IF i \in DOMAIN srv THEN srv[i]
                 ELSE [handle |-> r.arg, buffer |-> NoBuffer, wantsFrame |-> FALSE, parent |-> 0]]
    /\ Send("created", created + 1, r.arg)
    /\ UNCHANGED refused

\* The limit per client, the full table of the compositor, and dimensions it
\* does not take.
HandleCreate(r) ==
    \/ /\ Cardinality(DOMAIN srv) < Limit
       /\ created' = created + 1
       /\ srv' = [i \in DOMAIN srv \cup {created + 1} |->
                    IF i \in DOMAIN srv THEN srv[i]
                    ELSE [handle |-> r.arg, buffer |-> NoBuffer, wantsFrame |-> FALSE, parent |-> 0]]
       /\ Send("created", created + 1, r.arg)
       /\ UNCHANGED refused
    \/ Keep /\ Refuse

\* handle_surface_attach_buffer and handle_surface_attach_dmabuf: refused before
\* the old buffer is touched, or the import fails when it is already destroyed.
HandleAttach(r) ==
    IF Known(r)
    THEN LET h == srv[r.id].handle IN
         /\ UNCHANGED created
         /\ \/ srv' = [srv EXCEPT ![r.id].buffer = r.arg] /\ UNCHANGED refused /\ Silent
            \/ /\ srv' \in {srv, [srv EXCEPT ![r.id].buffer = NoBuffer]}
               /\ refused' = refused \cup {h} /\ Refuse
    ELSE Keep /\ Refuse

\* The buffer is on the screen from now on.
HandleCommit(r) == Keep /\ IF Known(r) /\ srv[r.id].buffer # NoBuffer THEN Silent ELSE Refuse

\* swm_surface_free takes the children with it.  (A client of one or two surfaces
\* has no deeper tree without a cycle, which SwmSurfaces shows.)
HandleDestroy(r) ==
    /\ srv' = [i \in {j \in DOMAIN srv : j # r.id /\ srv[j].parent # r.id} |-> srv[i]]
    /\ refused' = refused \cap {srv[i].handle : i \in DOMAIN srv'}
    /\ UNCHANGED created /\ Silent

HandleRole(r) ==
    IF Known(r)
    THEN IF r.arg \in DOMAIN srv \ {r.id} \/ r.arg = 0
         THEN srv' = [srv EXCEPT ![r.id].parent = r.arg] /\ UNCHANGED <<created, refused>> /\ Silent
         ELSE Keep /\ Refuse
    ELSE Keep /\ Silent

HandleFrame(r) ==
    /\ srv' = IF Known(r) THEN [srv EXCEPT ![r.id].wantsFrame = TRUE] ELSE srv
    /\ UNCHANGED <<created, refused>> /\ Silent

\* sprot_recv_message: header, body and descriptor of one message.
Incoming == Head(toServer)

\* swm_protocol_dispatch: one message of the client.
Dispatch ==
    /\ alive /\ toServer # <<>>
    /\ toServer' = Tail(toServer)
    /\ LET r == Incoming IN
          \/ r.type = "hello" /\ HandleHello(r)
          \/ r.type = "create" /\ HandleCreate(r)
          \/ r.type = "attach" /\ HandleAttach(r)
          \/ r.type = "commit" /\ HandleCommit(r)
          \/ r.type = "destroy" /\ HandleDestroy(r)
          \/ r.type = "role" /\ HandleRole(r)
          \/ r.type = "frame" /\ HandleFrame(r)
          \/ r.type = "query" /\ Keep /\ Send("render_node", 0, 0)
          \/ r.type = "ping" /\ Keep /\ Send("pong", 0, 0)
    /\ UNCHANGED <<alive, closed, inputs>>

\* deliver_frame_callbacks; when the socket is full the wish stays.
DeliverFrame ==
    /\ alive
    /\ \E i \in DOMAIN srv :
          /\ srv[i].wantsFrame
          /\ srv' = [srv EXCEPT ![i].wantsFrame = FALSE]
          /\ Send("frame", i, 0)
    /\ UNCHANGED <<alive, closed, toServer, created, refused, inputs>>

\* Pointer, key, configure and close events.
Input ==
    /\ alive /\ inputs < MaxInput
    /\ inputs' = inputs + 1
    /\ \E i \in DOMAIN srv : Send("input", i, 0)
    /\ UNCHANGED <<alive, closed, toServer, serverVars>>

\* Mutant: the slot of the client is freed and not its surfaces.
HangUpKeeping ==
    /\ alive /\ closed /\ toServer = <<>>
    /\ alive' = FALSE
    /\ UNCHANGED <<closed, toServer, toClient, serverVars, eventNo, inputs>>

\* The compositor reads the end of the stream, and drops the client.
HangUp ==
    /\ alive /\ closed /\ toServer = <<>>
    /\ alive' = FALSE /\ srv' = <<>> /\ refused' = {}
    /\ UNCHANGED <<closed, toServer, toClient, created, eventNo, inputs>>

\* The compositor quits, or cannot read the stream.
Quit ==
    /\ alive
    /\ alive' = FALSE /\ srv' = <<>> /\ refused' = {} /\ toServer' = <<>>
    /\ UNCHANGED <<closed, toClient, created, eventNo, inputs>>

ServerInit ==
    /\ alive = TRUE /\ closed = FALSE /\ toServer = <<>> /\ toClient = <<>>
    /\ srv = <<>> /\ created = 0 /\ refused = {} /\ eventNo = 0 /\ inputs = 0

ServerNext == Dispatch \/ DeliverFrame \/ Input \/ HangUp \/ Quit
=============================================================================
