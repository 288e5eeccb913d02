----------------------------- MODULE ThreadPool -----------------------------
(***************************************************************************)
(* The tile pool of the shader VM (libs/srapi/src/vm/threadpool.c): one    *)
(* dispatcher hands a job that lives on its own stack to every worker,     *)
(* takes tiles from it like a worker, and returns when all workers have    *)
(* reported.                                                               *)
(*                                                                         *)
(* Each section between pthread_mutex_lock(&mu) and the unlock (or the     *)
(* wait that releases mu) is one action; the atomic_fetch_add on job->next *)
(* and each call of fn are actions of their own.  A thread blocked in      *)
(* pthread_cond_wait is at "wait"; it leaves that place when it is         *)
(* signalled, or spuriously, and then tests its condition again.           *)
(***************************************************************************)
EXTENDS Naturals, FiniteSets

CONSTANTS Workers,        \* the threads init_pool managed to create
          Dispatcher,     \* the thread that calls the pool
          MaxTiles,       \* bound: the largest tile_count of a call
          MaxJobs         \* bound: pooled calls of one behaviour

ASSUME PoolAssumption == /\ IsFiniteSet(Workers)
                         /\ Dispatcher \notin Workers
                         /\ MaxTiles \in Nat /\ MaxJobs \in Nat

VARIABLES
    pc,            \* where each thread is
    mine,          \* the job a thread works on: its copy of current_job, my_seq
    tile,          \* the tile a thread runs
    lastSeq,       \* last_seq of each worker
    currentJob,    \* current_job: the job's job_seq, 0 for NULL
    jobSeq,        \* job_seq
    workersDone,   \* workers_done
    frame,         \* the job on the dispatcher's stack, 0 when it has returned
    next,          \* job.next
    total,         \* tile_count of the call in progress, 0 if none
    calls,         \* ghost: how often fn was entered for each tile
    ended          \* ghost: the tiles whose fn has returned

vars == <<pc, mine, tile, lastSeq, currentJob, jobSeq, workersDone, frame,
          next, total, calls, ended>>
shared == <<currentJob, jobSeq, workersDone>>
ghosts == <<calls, ended>>

Threads == Workers \cup {Dispatcher}
NWorkers == Cardinality(Workers)
Tiles == 0 .. MaxTiles - 1
NoCalls == [i \in Tiles |-> 0]

Init ==
    /\ pc = [t \in Threads |-> IF t = Dispatcher THEN "out" ELSE "top"]
    /\ mine = [t \in Threads |-> 0]
    /\ tile = [t \in Threads |-> 0]
    /\ lastSeq = [w \in Workers |-> 0]
    /\ currentJob = 0 /\ jobSeq = 0 /\ workersDone = 0
    /\ frame = 0 /\ next = 0 /\ total = 0
    /\ calls = NoCalls /\ ended = {}

-----------------------------------------------------------------------------
\* The two loops that take tiles from the job are the same code.

\* Mutant: "i > job->total" ends the loop one tile late.
TakeOneTooMany(t) ==
    /\ pc[t] = "take"
    /\ next' = next + 1
    /\ IF next <= total
       THEN /\ tile' = [tile EXCEPT ![t] = next]
            /\ calls' = [i \in Tiles |-> IF i = next THEN calls[i] + 1 ELSE calls[i]]
            /\ pc' = [pc EXCEPT ![t] = "run"]
       ELSE /\ pc' = [pc EXCEPT ![t] = "report"]
            /\ UNCHANGED <<tile, calls>>
    /\ UNCHANGED <<mine, lastSeq, shared, frame, total, ended>>

TakeTile(t) ==
    /\ pc[t] = "take"
    /\ next' = next + 1
    /\ IF next < total
       THEN /\ tile' = [tile EXCEPT ![t] = next]
            /\ calls' = [calls EXCEPT ![next] = @ + 1]
            /\ pc' = [pc EXCEPT ![t] = "run"]
       ELSE /\ pc' = [pc EXCEPT ![t] = "report"]
            /\ UNCHANGED <<tile, calls>>
    /\ UNCHANGED <<mine, lastSeq, shared, frame, total, ended>>

TileReturns(t) ==
    /\ pc[t] = "run"
    /\ ended' = ended \cup {tile[t]}
    /\ pc' = [pc EXCEPT ![t] = "take"]
    /\ UNCHANGED <<mine, tile, lastSeq, shared, frame, next, total, calls>>

-----------------------------------------------------------------------------
\* worker_main

WorkerTop(w) ==
    /\ pc[w] = "top"
    /\ IF currentJob = 0 \/ jobSeq = lastSeq[w]
       THEN /\ pc' = [pc EXCEPT ![w] = "wait"]
            /\ UNCHANGED mine
       ELSE /\ pc' = [pc EXCEPT ![w] = "take"]
            /\ mine' = [mine EXCEPT ![w] = currentJob]
    /\ UNCHANGED <<tile, lastSeq, shared, frame, next, total, ghosts>>

\* Mutant: the last worker does not signal cv_done.
ReportSilently(w) ==
    /\ pc[w] = "report"
    /\ workersDone' = workersDone + 1
    /\ lastSeq' = [lastSeq EXCEPT ![w] = mine[w]]
    /\ pc' = [pc EXCEPT ![w] = "top"]
    /\ UNCHANGED <<mine, tile, currentJob, jobSeq, frame, next, total, ghosts>>

WorkerReport(w) ==
    /\ pc[w] = "report"
    /\ workersDone' = workersDone + 1
    /\ lastSeq' = [lastSeq EXCEPT ![w] = mine[w]]
    /\ pc' = [t \in Threads |->
                IF t = w THEN "top"
                ELSE IF t = Dispatcher /\ pc[t] = "wait" /\ workersDone' = NWorkers
                THEN "report" ELSE pc[t]]
    /\ UNCHANGED <<mine, tile, currentJob, jobSeq, frame, next, total, ghosts>>

-----------------------------------------------------------------------------
\* srapi_vm_threadpool_dispatch

CallSequential ==
    /\ pc[Dispatcher] = "out"
    /\ \E n \in 1 .. MaxTiles : /\ NWorkers = 0 \/ n = 1
                                /\ total' = n
    /\ next' = 0
    /\ calls' = NoCalls /\ ended' = {}
    /\ pc' = [pc EXCEPT ![Dispatcher] = "seq"]
    /\ UNCHANGED <<mine, tile, lastSeq, shared, frame>>

SequentialEnter ==
    /\ pc[Dispatcher] = "seq" /\ next < total
    /\ tile' = [tile EXCEPT ![Dispatcher] = next]
    /\ next' = next + 1
    /\ calls' = [calls EXCEPT ![next] = @ + 1]
    /\ pc' = [pc EXCEPT ![Dispatcher] = "seqrun"]
    /\ UNCHANGED <<mine, lastSeq, shared, frame, total, ended>>

SequentialLeave ==
    /\ pc[Dispatcher] = "seqrun"
    /\ ended' = ended \cup {tile[Dispatcher]}
    /\ pc' = [pc EXCEPT ![Dispatcher] = "seq"]
    /\ UNCHANGED <<mine, tile, lastSeq, shared, frame, next, total, calls>>

SequentialReturn ==
    /\ pc[Dispatcher] = "seq" /\ next = total
    /\ total' = 0
    /\ pc' = [pc EXCEPT ![Dispatcher] = "out"]
    /\ UNCHANGED <<mine, tile, lastSeq, shared, frame, next, ghosts>>

CallPooled ==
    /\ pc[Dispatcher] = "out"
    /\ NWorkers > 0 /\ jobSeq < MaxJobs
    /\ total' \in 2 .. MaxTiles
    /\ next' = 0
    /\ calls' = NoCalls /\ ended' = {}
    /\ jobSeq' = jobSeq + 1
    /\ frame' = jobSeq' /\ currentJob' = jobSeq'
    /\ workersDone' = 0
    /\ mine' = [mine EXCEPT ![Dispatcher] = jobSeq']
    /\ pc' = [t \in Threads |-> IF t = Dispatcher THEN "take"
                           ELSE IF pc[t] = "wait" THEN "top" ELSE pc[t]]
    /\ UNCHANGED <<tile, lastSeq>>

\* Mutant: dispatch returns when its own loop is over.
JoinNobody ==
    /\ pc[Dispatcher] = "report"
    /\ pc' = [pc EXCEPT ![Dispatcher] = "out"]
    /\ currentJob' = 0 /\ frame' = 0 /\ total' = 0
    /\ UNCHANGED <<mine, tile, lastSeq, jobSeq, workersDone, next, ghosts>>

Join ==
    /\ pc[Dispatcher] = "report"
    /\ IF workersDone < NWorkers
       THEN /\ pc' = [pc EXCEPT ![Dispatcher] = "wait"]
            /\ UNCHANGED <<currentJob, frame, total>>
       ELSE /\ pc' = [pc EXCEPT ![Dispatcher] = "out"]
            /\ currentJob' = 0 /\ frame' = 0 /\ total' = 0
    /\ UNCHANGED <<mine, tile, lastSeq, jobSeq, workersDone, next, ghosts>>

-----------------------------------------------------------------------------
\* pthread_cond_wait may return without a signal.

Spurious(t) ==
    /\ pc[t] = "wait"
    /\ pc' = [pc EXCEPT ![t] = IF t = Dispatcher THEN "report" ELSE "top"]
    /\ UNCHANGED <<mine, tile, lastSeq, shared, frame, next, total, ghosts>>

WorkerStep(w) == WorkerTop(w) \/ TakeTile(w) \/ TileReturns(w) \/ WorkerReport(w)

DispatchStep ==
    \/ TakeTile(Dispatcher) \/ TileReturns(Dispatcher) \/ Join
    \/ SequentialEnter \/ SequentialLeave \/ SequentialReturn

Next == \/ CallSequential \/ CallPooled \/ DispatchStep
        \/ \E w \in Workers : WorkerStep(w)
        \/ \E t \in Threads : Spurious(t)

\* The scheduler runs every runnable thread and fn returns.
Fairness == WF_vars(DispatchStep) /\ \A w \in Workers : WF_vars(WorkerStep(w))

Spec == Init /\ [][Next]_vars
FairSpec == Spec /\ Fairness

-----------------------------------------------------------------------------
TypeOK ==
    /\ pc \in [Threads -> {"out", "seq", "seqrun", "top", "wait", "take", "run",
                           "report"}]
    /\ mine \in [Threads -> Nat]
    /\ tile \in [Threads -> Nat]
    /\ lastSeq \in [Workers -> Nat]
    /\ currentJob \in Nat /\ jobSeq \in Nat /\ workersDone \in Nat
    /\ frame \in Nat /\ next \in Nat
    /\ total \in 0 .. MaxTiles
    /\ calls \in [Tiles -> Nat]
    /\ ended \in SUBSET Tiles

\* The job is a local variable of dispatch: no thread is between loading
\* current_job and its last access to the job unless that very call has not
\* returned yet.
NoStaleJob ==
    \A t \in Threads : pc[t] \in {"take", "run"} => mine[t] = frame /\ frame # 0

\* A worker that has not reported holds the dispatcher in its join: workers_done
\* counts the workers whose last_seq is the current job, so it never passes
\* n_workers and nobody reports twice for one job.
ReportsCounted ==
    currentJob # 0 =>
        workersDone = Cardinality({w \in Workers : lastSeq[w] = jobSeq})

\* dispatch keeps the promise of ParallelFor, whatever the interleaving.
Promise == INSTANCE ParallelFor
ImplementsParallelFor == Promise!Spec

\* Every call of dispatch returns: no wakeup on cv_go or cv_done is lost.
DispatchReturns == pc[Dispatcher] # "out" ~> pc[Dispatcher] = "out"
=============================================================================
