------------------------------ MODULE WlDmabuf ------------------------------
(***************************************************************************)
(* Buffers of linux-dmabuf in wlbridge (dmabuf.c): a client collects       *)
(* planes, each with a file descriptor, in a params object and makes a     *)
(* buffer of them.  A request that breaks the rules posts an error, which  *)
(* ends the client and destroys its objects.                               *)
(*                                                                         *)
(* A descriptor is named by its params object, its plane and a number.     *)
(***************************************************************************)
EXTENDS Naturals, FiniteSets

CONSTANTS Params, Planes,
          MaxFds        \* bound: descriptors a client sends with one params object

Fds == Params \X Planes \X (1..MaxFds)
NoFd == <<>>

VARIABLES
    objects,      \* params objects
    used,         \* those that made a buffer, or tried to
    slot,         \* fds[] of each: [Params -> [Planes -> fd]]
    linear,       \* params whose modifier is 0
    buffer,       \* the wl_buffer made from a params object: its fd, or "none"
    open, sent,   \* descriptors the bridge has open; the number sent with each params object
    dead,         \* an error was posted
    node          \* g_render_node_info: "unknown", "no", "yes"
vars == <<objects, used, slot, linear, buffer, open, sent, dead, node>>

TypeOK ==
    /\ used \subseteq objects /\ objects \subseteq Params /\ linear \subseteq Params
    /\ slot \in [Params -> [Planes -> Fds \cup {NoFd}]]
    /\ buffer \in [Params -> Fds \cup {NoFd, <<"none">>}]
    /\ open \subseteq Fds /\ sent \in [Params -> 0..MaxFds] /\ dead \in BOOLEAN
    /\ node \in {"unknown", "no", "yes"}

NoBuffer == <<"none">>
Empty == [i \in Planes |-> NoFd]
Init ==
    /\ objects = {} /\ used = {} /\ slot = [p \in Params |-> Empty] /\ linear = {}
    /\ buffer = [p \in Params |-> NoBuffer] /\ open = {} /\ sent = [p \in Params |-> 0]
    /\ dead = FALSE /\ node = "unknown"

CreateParams(p) ==
    /\ ~ dead /\ p \notin objects /\ buffer[p] = NoBuffer
    /\ objects' = objects \cup {p} /\ slot' = [slot EXCEPT ![p] = Empty] /\ sent' = [sent EXCEPT ![p] = 0]
    /\ UNCHANGED <<used, linear, buffer, open, dead, node>>

Taken(p) == {i \in Planes : slot[p][i] # NoFd}

\* Each early return of params_add closes what came with the request.
Refused(fd) == open

\* params_add
Add(p, i, lin) ==
    /\ ~ dead /\ p \in objects /\ sent[p] < MaxFds /\ sent' = [sent EXCEPT ![p] = @ + 1]
    /\ LET fd == <<p, i, sent[p] + 1>>
           wrong == p \in used \/ i \in Taken(p) \/ (Taken(p) # {} /\ lin # (p \in linear))
       IN  IF wrong
           THEN dead' = TRUE /\ open' = Refused(fd) /\ UNCHANGED <<slot, linear>>
           ELSE /\ slot' = [slot EXCEPT ![p][i] = fd] /\ open' = open \cup {fd}
                /\ linear' = (IF lin THEN linear \cup {p} ELSE linear \ {p}) /\ UNCHANGED dead
    /\ UNCHANGED <<objects, used, buffer, node>>

\* Mutant: the params object keeps what the buffer got.
TakeShared(p) == slot
\* The buffer owns the descriptor of plane 0 from now on.
TakeFrom(p) == [slot EXCEPT ![p][0] = NoFd]

\* params_create, params_create_immed: one plane, linear, of a known format.  That the
\* plane is plane 0 is not looked at.
CreateBuffer(p, immed) ==
    /\ ~ dead /\ p \in objects
    /\ used' = used \cup {p}
    /\ IF p \in used \/ Cardinality(Taken(p)) # 1 \/ p \notin linear
       THEN dead' = TRUE /\ UNCHANGED <<slot, buffer, open>>
       ELSE \/ buffer' = [buffer EXCEPT ![p] = slot[p][0]] /\ slot' = TakeFrom(p) /\ UNCHANGED <<open, dead>>
            \/ \* no memory for the wl_buffer
               /\ open' = open \ {slot[p][0]} /\ slot' = TakeFrom(p) /\ dead' = immed /\ UNCHANGED buffer
    /\ UNCHANGED <<objects, linear, sent, node>>

\* params_destroy_handler
DestroyParams(p) ==
    /\ p \in objects /\ objects' = objects \ {p} /\ used' = used \ {p} /\ linear' = linear \ {p}
    /\ open' = open \ {slot[p][i] : i \in Planes} /\ slot' = [slot EXCEPT ![p] = Empty]
    /\ UNCHANGED <<buffer, sent, dead, node>>

\* dmabuf_buffer_destroy
DestroyBuffer(p) ==
    /\ buffer[p] # NoBuffer /\ buffer' = [buffer EXCEPT ![p] = NoBuffer] /\ open' = open \ {buffer[p]}
    /\ UNCHANGED <<objects, used, slot, linear, sent, dead, node>>

\* The feedback asks swm for its render node once in the life of the bridge.
GetFeedback ==
    /\ ~ dead /\ node' \in IF node = "unknown" THEN {"no", "yes"} ELSE {node}
    /\ UNCHANGED <<objects, used, slot, linear, buffer, open, sent, dead>>

\* The client is gone: the bridge serves the next one.
NextClient ==
    /\ objects = {} /\ \A p \in Params : buffer[p] = NoBuffer
    /\ dead' = FALSE /\ sent' = [p \in Params |-> 0]
    /\ UNCHANGED <<objects, used, slot, linear, buffer, open, node>>

Next ==
    \/ GetFeedback \/ NextClient
    \/ \E p \in Params :
        \/ CreateParams(p) \/ DestroyParams(p) \/ DestroyBuffer(p)
        \/ \E i \in Planes, lin \in BOOLEAN : Add(p, i, lin)
        \/ \E immed \in BOOLEAN : CreateBuffer(p, immed)
Spec == Init /\ [][Next]_vars

\* Every open descriptor has one owner that will close it: a slot of a params object or
\* a buffer, and never both, whatever failed (dmabuf.c:141).
FdsOwnedOnce ==
    \A fd \in Fds :
        Cardinality({pi \in Params \X Planes : slot[pi[1]][pi[2]] = fd} \cup {p \in Params : buffer[p] = fd})
            = IF fd \in open THEN 1 ELSE 0
=============================================================================
