---------------------------- MODULE SwmProtocol ----------------------------
(***************************************************************************)
(* The request handlers of the compositor, libs/gui/swm/src/protocol/      *)
(* protocol.c: what each message of a client does to the surface table.    *)
(*                                                                         *)
(* Each action is one call of swm_protocol_dispatch for client c.  A       *)
(* request that a handler rejects before it changes anything (short body,  *)
(* missing descriptor, bad dimensions, a full table, a surface of another  *)
(* client), and one that only answers, is Rejected.                        *)
(***************************************************************************)
EXTENDS SwmSurfaces

CONSTANT Requests         \* the kinds of request the clients of a run send

ASSUME RequestsAssumption ==
    Requests \subseteq {"attach", "badattach", "role", "badrole", "cursor", "frame", "destroy"}

Set(s, field, value) == surf' = [surf EXCEPT ![s][field] = value]

\* swm_protocol_alloc_client after accept4; with no free slot the connection is
\* closed again.
FreeClients == {c \in Clients : clients[c] = "free"}
Accept ==
    /\ IF FreeClients = {} THEN UNCHANGED clients
       ELSE \E c \in FreeClients : /\ \A d \in FreeClients : c <= d
                                   /\ clients' = [clients EXCEPT ![c] = "connected"]
    /\ UNCHANGED <<surfaceVars, pointerVars, nextId, cursor, phase>>

\* swm_protocol_drop_client frees from the end of the list until it is empty.
DropClient(c) ==
    /\ FreeTrees(lists[c])
    /\ clients' = IF phase' = "running" THEN [clients EXCEPT ![c] = "free"] ELSE clients
    /\ UNCHANGED <<nextId, cursor>>

\* The message cannot be read, the peer hung up, or it asked before HELLO.
Dropped(c) == clients[c] # "free" /\ DropClient(c)

Rejected(c) ==
    /\ clients[c] # "free"
    /\ UNCHANGED <<clients, surfaceVars, pointerVars, nextId, cursor, phase>>

Hello(c) ==
    /\ clients[c] # "free"
    /\ clients' = [clients EXCEPT ![c] = "ready"]
    /\ UNCHANGED <<surfaceVars, pointerVars, nextId, cursor, phase>>

\* Mutant: the limit is tested with > instead of >=.
CreateOverLimit(c) ==
    /\ clients[c] = "ready" /\ nextId < MaxId /\ Cardinality(lists[c]) <= PerClient
    /\ nextId' = nextId + 1
    /\ \E s \in Slots :
          /\ FirstFree(s)
          /\ surf' = [surf EXCEPT ![s] = NewSurface(nextId + 1, c)]
          /\ z' = [z EXCEPT ![s] = Cardinality(Used) + 1]
          /\ lists' = [lists EXCEPT ![c] = @ \cup {s}]
    /\ UNCHANGED <<clients, pointerVars, cursor, phase>>

SurfaceCreate(c) ==
    /\ clients[c] = "ready" /\ nextId < MaxId /\ Cardinality(lists[c]) < PerClient
    /\ nextId' = nextId + 1
    /\ \E s \in Slots :
          /\ FirstFree(s)
          /\ surf' = [surf EXCEPT ![s] = NewSurface(nextId + 1, c)]
          /\ z' = [z EXCEPT ![s] = Cardinality(Used) + 1]
          /\ lists' = [lists EXCEPT ![c] = @ \cup {s}]
    /\ UNCHANGED <<clients, pointerVars, cursor, phase>>

\* The three attach requests destroy the old buffer before they import the new
\* one; when the import fails the surface is left without.
SurfaceAttach(c) ==
    /\ clients[c] = "ready" /\ "attach" \in Requests
    /\ \E s \in Slots :
          /\ Owned(c, s)
          /\ \/ Set(s, "buffer", TRUE)
             \/ "badattach" \in Requests /\ Set(s, "buffer", FALSE)
    /\ UNCHANGED <<clients, lists, z, pointerVars, nextId, cursor, phase>>

SurfaceCommit(c) ==
    /\ clients[c] = "ready"
    /\ \E s \in Slots : Owned(c, s) /\ surf[s].buffer /\ Set(s, "committed", TRUE)
    /\ UNCHANGED <<clients, lists, z, pointerVars, nextId, cursor, phase>>

SurfaceDestroy(c) ==
    /\ clients[c] = "ready" /\ "destroy" \in Requests
    /\ \E s \in Slots : Owned(c, s) /\ FreeTrees({s})
    /\ UNCHANGED <<clients, nextId, cursor>>

SurfaceFrame(c) ==
    /\ clients[c] = "ready" /\ "frame" \in Requests
    /\ \E s \in Slots :
          /\ Owned(c, s)
          /\ surf' = [surf EXCEPT ![s].wantsFrame = TRUE, ![s].waiting = TRUE]
    /\ UNCHANGED <<clients, lists, z, pointerVars, nextId, cursor, phase>>

SetRoleTop(c) ==
    /\ clients[c] = "ready" /\ "role" \in Requests
    /\ \E s \in Slots :
          /\ Owned(c, s)
          /\ surf' = [surf EXCEPT ![s].role = "toplevel", ![s].parent = 0]
    /\ UNCHANGED <<clients, lists, z, pointerVars, nextId, cursor, phase>>

\* Mutant: the parent may belong to another client.
SetRoleAnyParent(c) ==
    /\ clients[c] = "ready" /\ "role" \in Requests
    /\ \E s, p \in Slots, role \in Roles \ {"toplevel"} :
          /\ Owned(c, s) /\ InUse(p) /\ p # s
          /\ surf' = [surf EXCEPT ![s].role = role, ![s].parent = surf[p].id,
                                  ![s].maximized = FALSE, ![s].minimized = FALSE]
          /\ z' = IF surf[s].role = role /\ surf[s].parent = surf[p].id THEN z ELSE Raised(s)
    /\ UNCHANGED <<clients, lists, pointerVars, nextId, cursor, phase>>

SetRoleChild(c) ==
    /\ clients[c] = "ready" /\ "role" \in Requests
    /\ \E s, p \in Slots, role \in Roles \ {"toplevel"} :
          /\ Owned(c, s) /\ Owned(c, p) /\ p # s
          /\ surf' = [surf EXCEPT ![s].role = role, ![s].parent = surf[p].id,
                                  ![s].maximized = FALSE, ![s].minimized = FALSE]
          /\ z' = IF surf[s].role = role /\ surf[s].parent = surf[p].id THEN z ELSE Raised(s)
    /\ UNCHANGED <<clients, lists, pointerVars, nextId, cursor, phase>>

\* The role is stored before the parent is looked up: a request with a bad
\* parent is answered with an error and changes the role.
SetRoleBadParent(c) ==
    /\ clients[c] = "ready" /\ "badrole" \in Requests
    /\ \E s \in Slots, role \in Roles \ {"toplevel"} : Owned(c, s) /\ Set(s, "role", role)
    /\ UNCHANGED <<clients, lists, z, pointerVars, nextId, cursor, phase>>

\* SET_CURSOR and a visible SET_CURSOR_IMAGE; an invisible one shows the arrow.
SetCursor(c) ==
    /\ clients[c] = "ready" /\ "cursor" \in Requests
    /\ hovered # 0 /\ Owned(c, hovered)
    /\ cursor' \in {surf[hovered].id, 0}
    /\ UNCHANGED <<clients, surfaceVars, pointerVars, nextId, phase>>

Request(c) ==
    \/ Hello(c) \/ Rejected(c) \/ SurfaceCreate(c) \/ SurfaceAttach(c) \/ SurfaceCommit(c)
    \/ SurfaceDestroy(c) \/ SurfaceFrame(c) \/ SetRoleTop(c) \/ SetRoleChild(c)
    \/ SetRoleBadParent(c) \/ SetCursor(c)
=============================================================================
