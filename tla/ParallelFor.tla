---------------------------- MODULE ParallelFor ----------------------------
(***************************************************************************)
(* What srapi_vm_threadpool_dispatch(tile_count, fn, user) promises its    *)
(* caller: between the call and the return, fn runs exactly once for every *)
(* tile, in any order and on any thread, and every run has ended when the  *)
(* call returns.  How the tiles reach the threads is ThreadPool's matter.  *)
(***************************************************************************)
EXTENDS Naturals

CONSTANT MaxTiles            \* the largest tile_count of a call

VARIABLES total,             \* tile_count of the call in progress, 0 if none
          calls,             \* calls[i]: how often fn(user, i) was entered
          ended              \* the tiles whose fn has returned

vars == <<total, calls, ended>>

Tiles == 0 .. MaxTiles - 1
NoCalls == [i \in Tiles |-> 0]

Init == total = 0 /\ calls = NoCalls /\ ended = {}

Call == /\ total = 0
        /\ total' \in 1 .. MaxTiles
        /\ calls' = NoCalls
        /\ ended' = {}

Enter(i) == /\ i < total
            /\ calls[i] = 0
            /\ calls' = [calls EXCEPT ![i] = 1]
            /\ UNCHANGED <<total, ended>>

Leave(i) == /\ calls[i] = 1
            /\ i \notin ended
            /\ ended' = ended \cup {i}
            /\ UNCHANGED <<total, calls>>

Return == /\ total > 0
          /\ ended = 0 .. total - 1
          /\ total' = 0
          /\ UNCHANGED <<calls, ended>>

Next == Call \/ Return \/ \E i \in Tiles : Enter(i) \/ Leave(i)

Spec == Init /\ [][Next]_vars
=============================================================================
