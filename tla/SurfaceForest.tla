---------------------------- MODULE SurfaceForest ----------------------------
(***************************************************************************)
(* What the compositor promises its clients about surfaces, without slots, *)
(* lists and pointers: a client owns a forest of surfaces, known by ids    *)
(* that are never given out twice; it arranges and destroys its own        *)
(* surfaces only; with a surface goes everything below it, and with a      *)
(* client everything it owns.                                              *)
(***************************************************************************)
EXTENDS Naturals

CONSTANTS Clients,     \* none of them is 0
          MaxId        \* bound on the surfaces ever made

VARIABLES owner,       \* the owner of each living surface, 0 for the others
          parent,      \* the surface that each one hangs below, 0 for none
          born         \* ids 1 .. born have been given out

Ids == 1 .. MaxId

ForestInit == owner = [i \in Ids |-> 0] /\ parent = [i \in Ids |-> 0] /\ born = 0

Create(c) ==
    /\ born < MaxId /\ born' = born + 1
    /\ owner' = [owner EXCEPT ![born + 1] = c]
    /\ UNCHANGED parent

Hang(i, p) ==
    /\ i # p /\ owner[i] # 0 /\ owner[p] = owner[i]
    /\ parent' = [parent EXCEPT ![i] = p]
    /\ UNCHANGED <<owner, born>>

Detach(i) == parent' = [parent EXCEPT ![i] = 0] /\ UNCHANGED <<owner, born>>

Closed(R) == \A i \in Ids : owner[i] # 0 /\ parent[i] \in R => i \in R

Remove(R) ==
    /\ owner' = [i \in Ids |-> IF i \in R THEN 0 ELSE owner[i]]
    /\ parent' = [i \in Ids |-> IF i \in R THEN 0 ELSE parent[i]]
    /\ UNCHANGED born

\* The surface i with all that hangs below it, and no more.
Destroy(i) ==
    \E R \in SUBSET Ids :
        /\ i \in R /\ Closed(R) /\ owner[i] # 0
        /\ \A S \in SUBSET Ids : i \in S /\ Closed(S) => R \subseteq S
        /\ Remove(R)

Leave(C) == Remove({i \in Ids : owner[i] \in C})

ForestNext ==
    \/ \E c \in Clients : Create(c)
    \/ \E i \in Ids : Detach(i) \/ Destroy(i) \/ \E p \in Ids : Hang(i, p)
    \/ \E C \in SUBSET Clients : Leave(C)

ForestSpec == ForestInit /\ [][ForestNext]_<<owner, parent, born>>
=============================================================================
