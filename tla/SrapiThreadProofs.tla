------------------------- MODULE SrapiThreadProofs -------------------------
(***************************************************************************)
(* The two parts of srapi that have threads of their own.                  *)
(*                                                                         *)
(* ThreadPool, for every number of workers, tiles and calls: the inductive *)
(* invariant has two halves; Handover says how far each worker is with the *)
(* current job, Claims which tiles have been taken.                        *)
(*                                                                         *)
(* DrmRecord, for any size of the ring and any number of frames: the two   *)
(* threads never meet in a slot, and the file is what Recording promises.  *)
(***************************************************************************)
EXTENDS ThreadPool, DrmRecord, FiniteSetTheorems, TLAPS

-----------------------------------------------------------------------------
(* The pool *)

Reported == {w \in Workers : lastSeq[w] = jobSeq}

Places ==
    /\ pc[Dispatcher] \in {"out", "seq", "seqrun", "take", "run", "report", "wait"}
    /\ \A w \in Workers : pc[w] \in {"top", "wait", "take", "run", "report"}

\* A pooled call is in progress exactly while its frame is live, and the pointer
\* the workers load is never older than the frame.
FrameLive ==
    /\ currentJob = frame
    /\ frame # 0 <=> pc[Dispatcher] \in {"take", "run", "report", "wait"}
    /\ frame # 0 => frame = jobSeq /\ mine[Dispatcher] = frame
    /\ total > 0 <=> pc[Dispatcher] # "out"

\* A worker inside a job works on the live one and has not reported for it;
\* between pooled calls every worker has reported for the last.
WorkersFollow ==
    \A w \in Workers :
        /\ lastSeq[w] <= jobSeq
        /\ pc[w] \in {"take", "run", "report"} =>
              frame # 0 /\ mine[w] = frame /\ lastSeq[w] # jobSeq
        /\ frame = 0 => lastSeq[w] = jobSeq

Counted == frame # 0 => workersDone = Cardinality(Reported)

Handover == Places /\ FrameLive /\ WorkersFollow /\ Counted

\* A tile being run is below next, not finished, and in no other thread's hands.
Busy(t) == pc[t] \in {"run", "seqrun"}
TilesOwned ==
    \A t \in Threads : Busy(t) =>
        /\ tile[t] < next /\ tile[t] < total
        /\ tile[t] \notin ended
        /\ \A u \in Threads : Busy(u) /\ tile[u] = tile[t] => u = t

\* The tiles below next have been entered once; each has ended or is being run.
TilesCounted ==
    pc[Dispatcher] # "out" =>
        /\ \A i \in Tiles : calls[i] = IF i < next /\ i < total THEN 1 ELSE 0
        /\ \A i \in ended : i < next /\ i < total
        /\ \A i \in Tiles : i < next /\ i < total /\ i \notin ended =>
              \E t \in Threads : Busy(t) /\ tile[t] = i

\* Whoever left the loop left it because next had passed the last tile.
LoopOver ==
    /\ pc[Dispatcher] \in {"report", "wait"} => total <= next
    /\ \A w \in Workers : pc[w] = "report" => total <= next
    /\ \A w \in Workers : frame # 0 /\ lastSeq[w] = jobSeq => total <= next
    /\ pc[Dispatcher] \in {"seq", "seqrun"} => next <= total

Claims == TilesOwned /\ TilesCounted /\ LoopOver

IInv == TypeOK /\ Handover /\ Claims

-----------------------------------------------------------------------------
LEMMA WorkersFinite == NWorkers \in Nat
  BY PoolAssumption, FS_CardinalityType DEF NWorkers

LEMMA InitIInv == Init => IInv
  BY PoolAssumption, SMT
  DEF Init, IInv, TypeOK, Handover, Places, FrameLive, WorkersFollow, Counted,
      Claims, TilesOwned, TilesCounted, LoopOver, Busy, Threads, Tiles, NoCalls

\* Every step keeps the types: a thread inside a call of fn holds a tile below
\* total, so that the ghosts stay about the tiles of the call.
LEMMA TypeStep == IInv /\ [Next]_vars => TypeOK'
<1> SUFFICES ASSUME IInv, [Next]_vars PROVE TypeOK'
  OBVIOUS
<1> USE PoolAssumption, WorkersFinite
<1>a. TypeOK /\ Dispatcher \in Threads /\ Workers \subseteq Threads
  BY DEF IInv, Threads
<1>b. \A t \in Threads : Busy(t) => tile[t] \in Tiles
  <2> TAKE t \in Threads
  <2> HAVE Busy(t)
  <2>1. tile[t] \in Nat /\ total \in 0 .. MaxTiles /\ tile[t] < total
    BY DEF IInv, Claims, TilesOwned, TypeOK
  <2> QED
    BY <2>1 DEF Tiles
<1>1. ASSUME NEW t \in Threads, TakeTile(t) PROVE TypeOK'
  <2>1. CASE next < total
    <3>1. next \in Tiles /\ next' \in Nat
      BY <1>a, <1>1, <2>1 DEF TypeOK, Tiles, TakeTile
    <3>2. calls' \in [Tiles -> Nat]
      BY <1>a, <1>1, <2>1, <3>1 DEF TypeOK, TakeTile
    <3>3. pc' \in [Threads -> {"out", "seq", "seqrun", "top", "wait", "take",
                               "run", "report"}] /\ tile' \in [Threads -> Nat]
      BY <1>a, <1>1, <2>1 DEF TypeOK, TakeTile
    <3> QED
      BY <1>a, <1>1, <3>1, <3>2, <3>3 DEF TypeOK, TakeTile, shared
  <2>2. CASE ~ (next < total)
    BY <1>a, <1>1, <2>2 DEF TypeOK, TakeTile, shared
  <2> QED
    BY <2>1, <2>2
<1>2. ASSUME NEW t \in Threads, TileReturns(t) PROVE TypeOK'
  <2>1. tile[t] \in Tiles
    BY <1>b, <1>2 DEF TileReturns, Busy
  <2>2. ended' \in SUBSET Tiles
    BY <1>a, <1>2, <2>1 DEF TypeOK, TileReturns
  <2> QED
    BY <1>a, <1>2, <2>2 DEF TypeOK, TileReturns, shared
<1>3. ASSUME NEW w \in Workers, WorkerTop(w) PROVE TypeOK'
  BY <1>a, <1>3 DEF TypeOK, WorkerTop, shared, ghosts
<1>4. ASSUME NEW w \in Workers, WorkerReport(w) PROVE TypeOK'
  BY <1>a, <1>4 DEF TypeOK, WorkerReport, ghosts
<1>5. ASSUME CallSequential \/ CallPooled PROVE TypeOK'
  <2>1. NoCalls \in [Tiles -> Nat]
    BY DEF NoCalls
  <2>2. CASE CallSequential
    BY <1>a, <2>1, <2>2 DEF TypeOK, CallSequential, shared
  <2>3. CASE CallPooled
    <3>1. /\ pc' \in [Threads -> {"out", "seq", "seqrun", "top", "wait", "take",
                                  "run", "report"}]
          /\ mine' \in [Threads -> Nat] /\ jobSeq' \in Nat
      BY <1>a, <2>3 DEF TypeOK, CallPooled
    <3> QED
      BY <1>a, <2>1, <2>3, <3>1 DEF TypeOK, CallPooled
  <2> QED
    BY <1>5, <2>2, <2>3
<1>6. ASSUME SequentialEnter PROVE TypeOK'
  <2>1. next \in Tiles
    BY <1>a, <1>6 DEF TypeOK, Tiles, SequentialEnter
  <2>2. calls' \in [Tiles -> Nat]
    BY <1>a, <1>6, <2>1 DEF TypeOK, SequentialEnter
  <2> QED
    BY <1>a, <1>6, <2>2 DEF TypeOK, SequentialEnter, shared
<1>7. ASSUME SequentialReturn \/ Join PROVE TypeOK'
  BY <1>a, <1>7 DEF TypeOK, SequentialReturn, Join, shared, ghosts
<1>8. ASSUME SequentialLeave PROVE TypeOK'
  <2>1. tile[Dispatcher] \in Tiles
    BY <1>a, <1>b, <1>8 DEF SequentialLeave, Busy
  <2>2. ended' \in SUBSET Tiles
    BY <1>a, <1>8, <2>1 DEF TypeOK, SequentialLeave
  <2> QED
    BY <1>a, <1>8, <2>2 DEF TypeOK, SequentialLeave, shared
<1>9. ASSUME NEW t \in Threads, Spurious(t) PROVE TypeOK'
  BY <1>a, <1>9 DEF TypeOK, Spurious, shared, ghosts
<1>10. CASE UNCHANGED vars
  BY <1>a, <1>10 DEF TypeOK, vars
<1> QED
  BY <1>a, <1>1, <1>2, <1>3, <1>4, <1>5, <1>6, <1>7, <1>8, <1>9, <1>10
  DEF Next, DispatchStep, WorkerStep

-----------------------------------------------------------------------------
\* A worker reports once per job and the dispatcher leaves only when all have.
LEMMA HandoverStep == IInv /\ [Next]_vars => Handover'
<1> SUFFICES ASSUME IInv, [Next]_vars PROVE Handover'
  OBVIOUS
<1> USE PoolAssumption, WorkersFinite
<1>a. /\ TypeOK /\ Handover
      /\ Dispatcher \in Threads /\ Workers \subseteq Threads
      /\ \A w \in Workers : w # Dispatcher
  BY DEF IInv, Threads
<1> USE <1>a
<1>1. ASSUME NEW t \in Threads, TakeTile(t) \/ TileReturns(t) PROVE Handover'
  <2>1. /\ UNCHANGED <<mine, lastSeq, currentJob, jobSeq, workersDone, frame, total>>
        /\ pc[t] \in {"take", "run"}
        /\ \E p \in {"take", "run", "report"} : pc' = [pc EXCEPT ![t] = p]
    BY <1>1 DEF TakeTile, TileReturns, shared
  <2>2. Places' /\ FrameLive'
    BY <2>1 DEF TypeOK, Handover, Places, FrameLive
  <2>3. WorkersFollow'
    BY <2>1 DEF TypeOK, Handover, WorkersFollow
  <2>4. Counted'
    BY <2>1 DEF Handover, Counted, Reported
  <2> QED
    BY <2>2, <2>3, <2>4 DEF Handover
<1>2. ASSUME NEW w \in Workers, WorkerTop(w) PROVE Handover'
  <2>1. Places' /\ FrameLive'
    BY <1>2 DEF TypeOK, Handover, Places, FrameLive, WorkerTop, shared
  <2>2. WorkersFollow'
    BY <1>2 DEF TypeOK, Handover, FrameLive, WorkersFollow, WorkerTop, shared
  <2>3. Counted'
    BY <1>2 DEF Handover, Counted, Reported, WorkerTop, shared
  <2> QED
    BY <2>1, <2>2, <2>3 DEF Handover
<1>3. ASSUME NEW w \in Workers, WorkerReport(w) PROVE Handover'
  <2>1. frame # 0 /\ mine[w] = frame /\ frame = jobSeq /\ lastSeq[w] # jobSeq
    BY <1>3 DEF WorkerReport, Handover, WorkersFollow, FrameLive
  <2>2. Places' /\ FrameLive'
    BY <1>3 DEF TypeOK, Handover, Places, FrameLive, WorkerReport
  <2>3. WorkersFollow'
    BY <1>3, <2>1 DEF TypeOK, Handover, WorkersFollow, WorkerReport
  <2>4. Reported' = Reported \cup {w} /\ w \notin Reported
    BY <1>3, <2>1 DEF TypeOK, Reported, WorkerReport
  <2>5. IsFiniteSet(Reported)
    BY FS_Subset DEF Reported, PoolAssumption
  <2>6. Cardinality(Reported') = Cardinality(Reported) + 1
    BY <2>4, <2>5, FS_AddElement
  <2>7. Counted'
    BY <1>3, <2>1, <2>6 DEF Handover, Counted, WorkerReport
  <2> QED
    BY <2>2, <2>3, <2>7 DEF Handover
<1>4. ASSUME CallSequential \/ SequentialEnter \/ SequentialLeave \/ SequentialReturn
      PROVE Handover'
  <2>1. PICK p \in {"out", "seq", "seqrun"} :
            pc' = [pc EXCEPT ![Dispatcher] = p] /\ (total' > 0 <=> p # "out")
    BY <1>4 DEF TypeOK, Handover, FrameLive, CallSequential, SequentialEnter,
                SequentialLeave, SequentialReturn
  <2>2. UNCHANGED <<mine, lastSeq, currentJob, jobSeq, workersDone, frame>>
    BY <1>4 DEF CallSequential, SequentialEnter, SequentialLeave, SequentialReturn,
                shared
  <2>3. frame = 0
    BY <1>4 DEF Handover, FrameLive, CallSequential, SequentialEnter,
                SequentialLeave, SequentialReturn
  <2>4. pc'[Dispatcher] = p /\ \A w \in Workers : pc'[w] = pc[w]
    BY <2>1 DEF TypeOK
  <2>5. Places' /\ FrameLive'
    BY <2>1, <2>2, <2>3, <2>4 DEF Handover, Places, FrameLive
  <2>6. WorkersFollow' /\ Counted'
    BY <2>2, <2>3, <2>4 DEF Handover, WorkersFollow, Counted
  <2> QED
    BY <2>5, <2>6 DEF Handover
<1>5. ASSUME CallPooled PROVE Handover'
  <2>1. frame = 0 /\ jobSeq' = jobSeq + 1 /\ jobSeq \in Nat /\ frame' = jobSeq'
    BY <1>5 DEF TypeOK, Handover, FrameLive, CallPooled
  <2>2. Places' /\ FrameLive'
    BY <1>5, <2>1 DEF TypeOK, Handover, Places, FrameLive, CallPooled
  <2>3. \A w \in Workers : pc[w] \in {"top", "wait"} /\ lastSeq[w] = jobSeq
    BY <2>1 DEF Handover, Places, WorkersFollow
  <2>4. WorkersFollow'
    BY <1>5, <2>1, <2>3 DEF TypeOK, WorkersFollow, CallPooled
  <2>5. \A w \in Workers : lastSeq'[w] # jobSeq'
    BY <1>5, <2>1, <2>3 DEF CallPooled
  <2>6. Reported' = {}
    BY <2>5 DEF Reported
  <2>7. workersDone' = 0 /\ Cardinality(Reported') = 0
    BY <1>5, <2>6, FS_EmptySet DEF CallPooled
  <2>8. Counted'
    BY <2>7 DEF Counted
  <2> QED
    BY <2>2, <2>4, <2>8 DEF Handover
<1>6. ASSUME Join PROVE Handover'
  <2>0. Places'
    BY <1>6 DEF TypeOK, Handover, Places, Join
  <2>1. CASE workersDone < NWorkers
    BY <1>6, <2>0, <2>1 DEF TypeOK, Handover, FrameLive, WorkersFollow, Counted,
                            Reported, Join
  <2>2. CASE ~ (workersDone < NWorkers)
    <3>1. frame # 0 /\ workersDone = Cardinality(Reported)
      BY <1>6 DEF Handover, FrameLive, Counted, Join
    <3>2. Reported = Workers
      <4>1. Reported \subseteq Workers /\ Cardinality(Reported) >= Cardinality(Workers)
        BY <2>2, <3>1 DEF TypeOK, Reported, NWorkers
      <4> QED
        BY <4>1, FS_Subset, FS_CardinalityType DEF PoolAssumption
    <3>3. FrameLive'
      BY <1>6, <2>2 DEF TypeOK, Handover, FrameLive, Join
    <3>4. \A w \in Workers : lastSeq[w] = jobSeq /\ pc[w] \in {"top", "wait"}
      BY <3>2 DEF Reported, Handover, Places, WorkersFollow
    <3>5. WorkersFollow' /\ Counted'
      BY <1>6, <2>2, <3>4 DEF TypeOK, WorkersFollow, Counted, Join
    <3> QED
      BY <2>0, <3>3, <3>5 DEF Handover
  <2> QED
    BY <2>1, <2>2
<1>7. ASSUME NEW t \in Threads, Spurious(t) PROVE Handover'
  BY <1>7 DEF TypeOK, Handover, Places, FrameLive, WorkersFollow, Counted, Reported,
              Spurious, shared, Threads
<1>8. CASE UNCHANGED vars
  BY <1>8 DEF Handover, Places, FrameLive, WorkersFollow, Counted, Reported, vars
<1> QED
  BY <1>1, <1>2, <1>3, <1>4, <1>5, <1>6, <1>7, <1>8 DEF Next, DispatchStep, WorkerStep

\* A tile is taken when it becomes the largest index below next, by one thread.
LEMMA ClaimsStep == IInv /\ [Next]_vars => Claims'
<1> SUFFICES ASSUME IInv, [Next]_vars PROVE Claims'
  OBVIOUS
<1> USE PoolAssumption, WorkersFinite
<1>a. /\ TypeOK /\ Handover /\ Claims
      /\ Dispatcher \in Threads /\ Workers \subseteq Threads
      /\ \A w \in Workers : w # Dispatcher
      /\ \A t \in Threads : t = Dispatcher \/ t \in Workers
  BY DEF IInv, Threads
<1>b. TypeOK' /\ Handover'
  BY TypeStep, HandoverStep
<1> USE <1>a
<1>c. \A t \in Threads : pc[t] \in {"take", "run"} => pc[Dispatcher] # "out" /\ frame # 0
  BY DEF Handover, Places, FrameLive, WorkersFollow
<1>d. \A t \in Threads : Busy(t) /\ frame = 0 => t = Dispatcher /\ pc[t] = "seqrun"
  BY DEF Handover, Places, FrameLive, WorkersFollow, Busy
<1>1. ASSUME NEW t \in Threads, TakeTile(t), next < total PROVE Claims'
  <2>1. /\ pc' = [pc EXCEPT ![t] = "run"] /\ tile' = [tile EXCEPT ![t] = next]
        /\ next' = next + 1 /\ pc[t] = "take" /\ pc[Dispatcher] # "out"
        /\ UNCHANGED <<total, ended, frame, lastSeq, jobSeq>>
    BY <1>1, <1>c DEF TakeTile, shared
  <2>2. next \in Tiles /\ calls' = [calls EXCEPT ![next] = @ + 1]
    BY <1>1 DEF TakeTile, TypeOK, Tiles
  <2>3. \A i \in ended : i < next
    BY <2>1 DEF Claims, TilesCounted
  <2>4. /\ Busy(t)' /\ tile'[t] = next
        /\ \A u \in Threads : u # t => (Busy(u)' <=> Busy(u)) /\ tile'[u] = tile[u]
        /\ ~ Busy(t)
    BY <2>1 DEF TypeOK, Busy
  <2>5. TilesOwned'
    BY <1>1, <2>1, <2>2, <2>3, <2>4 DEF TypeOK, Tiles, Claims, TilesOwned
  <2>6. \A i \in Tiles : calls'[i] = IF i < next' /\ i < total' THEN 1 ELSE 0
    BY <1>1, <2>1, <2>2 DEF TypeOK, Tiles, Claims, TilesCounted
  <2>7. \A i \in ended' : i < next' /\ i < total'
    BY <2>1 DEF TypeOK, Tiles, Claims, TilesCounted
  <2>8. \A i \in Tiles : i < next' /\ i < total' /\ i \notin ended' =>
              \E u \in Threads : Busy(u)' /\ tile'[u] = i
    BY <2>1, <2>4 DEF TypeOK, Tiles, Claims, TilesCounted
  <2>9. LoopOver'
    BY <1>1, <2>1 DEF TypeOK, Handover, Places, Claims, LoopOver
  <2> QED
    BY <2>5, <2>6, <2>7, <2>8, <2>9 DEF Claims, TilesCounted
<1>2. ASSUME NEW t \in Threads, TakeTile(t), ~ (next < total) PROVE Claims'
  <2>1. /\ pc' = [pc EXCEPT ![t] = "report"] /\ tile' = tile /\ next' = next + 1
        /\ UNCHANGED <<total, ended, frame, lastSeq, jobSeq, calls>> /\ pc[t] = "take"
    BY <1>2 DEF TakeTile, shared
  <2>2. \A u \in Threads : Busy(u)' <=> Busy(u)
    BY <2>1 DEF TypeOK, Busy
  <2>3. total \in Nat /\ next \in Nat /\ total <= next /\ pc[Dispatcher] # "out"
    BY <1>2, <1>c DEF TypeOK, TakeTile
  <2>4. \A i \in Tiles : i < next' /\ i < total' <=> i < next /\ i < total
    BY <2>1, <2>3 DEF Tiles
  <2>5. \A u \in Threads : Busy(u) => tile[u] < next'
    BY <2>1, <2>3 DEF TypeOK, Claims, TilesOwned
  <2>6. TilesOwned'
    BY <2>1, <2>2, <2>5 DEF Claims, TilesOwned
  <2>7. ended \in SUBSET Tiles
    BY DEF TypeOK
  <2>8. TilesCounted'
    BY <2>1, <2>2, <2>3, <2>4, <2>7 DEF Claims, TilesCounted
  <2>9. pc[Dispatcher] \notin {"seq", "seqrun"} /\ pc'[Dispatcher] \notin {"seq", "seqrun"}
    BY <1>c, <2>1 DEF TypeOK, Handover, FrameLive
  <2>10. total' <= next'
    BY <2>1, <2>3
  <2>11. LoopOver'
    BY <2>9, <2>10 DEF LoopOver
  <2> QED
    BY <2>6, <2>8, <2>11 DEF Claims
<1>3. ASSUME NEW t \in Threads, Busy(t), ended' = ended \cup {tile[t]},
             UNCHANGED <<tile, next, total, calls, frame, lastSeq, jobSeq>>,
             NEW p \in {"take", "seq"}, pc' = [pc EXCEPT ![t] = p],
             p = "seq" <=> pc[t] = "seqrun"
      PROVE Claims'
  <2>1. /\ ~ Busy(t)'
        /\ \A u \in Threads : u # t => (Busy(u)' <=> Busy(u))
    BY <1>3 DEF TypeOK, Busy
  <2>2. pc[Dispatcher] # "out"
    BY <1>3, <1>c DEF Busy, Handover, Places
  <2>3. TilesOwned'
    BY <1>3, <2>1 DEF TypeOK, Claims, TilesOwned
  <2>4. tile[t] < next /\ tile[t] < total
    BY <1>3 DEF Claims, TilesOwned
  <2>5. TilesCounted'
    BY <1>3, <2>1, <2>2, <2>4 DEF TypeOK, Claims, TilesCounted
  <2>6. LoopOver'
    BY <1>3 DEF TypeOK, Busy, Handover, Places, Claims, LoopOver
  <2> QED
    BY <2>3, <2>5, <2>6 DEF Claims
<1>4. ASSUME NEW t \in Threads, TileReturns(t) PROVE Claims'
  BY <1>3, <1>4 DEF TileReturns, Busy, shared
<1>5. ASSUME SequentialLeave PROVE Claims'
  BY <1>3, <1>5 DEF SequentialLeave, Busy, shared
<1>6. ASSUME NEW w \in Workers, WorkerTop(w) PROVE Claims'
  <2>a. /\ UNCHANGED <<tile, next, total, calls, ended, frame, lastSeq, jobSeq>>
        /\ pc[w] = "top" /\ \E p \in {"wait", "take"} : pc' = [pc EXCEPT ![w] = p]
    BY <1>6 DEF WorkerTop, shared, ghosts
  <2>1. /\ UNCHANGED <<tile, next, total, calls, ended, frame, lastSeq, jobSeq>>
        /\ pc[w] = "top" /\ pc'[w] \in {"wait", "take"}
        /\ \A u \in Threads : u # w => pc'[u] = pc[u]
        /\ pc'[Dispatcher] = pc[Dispatcher]
    BY <2>a DEF TypeOK
  <2>2. \A u \in Threads : Busy(u)' <=> Busy(u)
    BY <2>1 DEF Busy
  <2>3. TilesOwned' /\ TilesCounted'
    BY <2>1, <2>2 DEF Claims, TilesOwned, TilesCounted
  <2>4. LoopOver'
    BY <2>1 DEF Claims, LoopOver
  <2> QED
    BY <2>3, <2>4 DEF Claims
<1>7. ASSUME NEW w \in Workers, WorkerReport(w) PROVE Claims'
  <2>1. /\ UNCHANGED <<tile, next, total, calls, ended, frame, jobSeq>>
        /\ pc[w] = "report" /\ pc'[w] = "top"
        /\ \A u \in Workers : u # w => pc'[u] = pc[u]
        /\ \/ pc'[Dispatcher] = pc[Dispatcher]
           \/ pc[Dispatcher] = "wait" /\ pc'[Dispatcher] = "report"
        /\ \A u \in Workers : u # w => lastSeq'[u] = lastSeq[u]
    BY <1>7 DEF TypeOK, WorkerReport, ghosts
  <2>2. \A u \in Threads : Busy(u)' <=> Busy(u)
    BY <2>1 DEF Busy
  <2>3. TilesOwned' /\ TilesCounted'
    BY <2>1, <2>2 DEF Claims, TilesOwned, TilesCounted
  <2>4. LoopOver'
    BY <2>1 DEF Claims, LoopOver
  <2> QED
    BY <2>3, <2>4 DEF Claims
<1>8. ASSUME CallSequential \/ CallPooled PROVE Claims'
  <2>1. /\ next' = 0 /\ calls' = NoCalls /\ ended' = {} /\ tile' = tile /\ total' \in Nat
        /\ lastSeq' = lastSeq /\ frame = 0 /\ pc[Dispatcher] = "out"
        /\ pc'[Dispatcher] \in {"seq", "take"}
        /\ \A w \in Workers : pc'[w] \in {"top", "wait"}
    BY <1>8 DEF TypeOK, CallSequential, CallPooled, shared, Handover, FrameLive, Places,
                WorkersFollow
  <2>2. \A u \in Threads : ~ Busy(u)'
    BY <2>1 DEF Busy
  <2>3. TilesOwned' /\ TilesCounted'
    BY <2>1, <2>2 DEF TilesOwned, TilesCounted, NoCalls, Tiles
  <2>4. \A w \in Workers : frame' # 0 => lastSeq'[w] # jobSeq'
    BY <1>8, <2>1 DEF CallSequential, CallPooled, TypeOK, shared, Handover, WorkersFollow
  <2>5. LoopOver'
    BY <2>1, <2>4 DEF LoopOver
  <2> QED
    BY <2>3, <2>5 DEF Claims
<1>9. ASSUME SequentialEnter PROVE Claims'
  <2>1. /\ next \in Tiles /\ next < total /\ calls' = [calls EXCEPT ![next] = @ + 1]
        /\ next' = next + 1 /\ tile'[Dispatcher] = next /\ pc[Dispatcher] = "seq"
        /\ pc'[Dispatcher] = "seqrun" /\ \A w \in Workers : pc'[w] = pc[w]
        /\ UNCHANGED <<total, ended, frame, lastSeq, jobSeq>>
    BY <1>9 DEF SequentialEnter, TypeOK, Tiles, shared
  <2>2. frame = 0
    BY <2>1 DEF Handover, FrameLive
  <2>3. \A u \in Threads : Busy(u)' <=> u = Dispatcher
    BY <2>1, <2>2 DEF Busy, Handover, Places, WorkersFollow
  <2>4. \A u \in Threads : ~ Busy(u)
    BY <1>d, <2>1, <2>2
  <2>5. \A i \in Tiles : i < next => i \in ended
    BY <2>1, <2>4 DEF Claims, TilesCounted, TypeOK, Tiles
  <2>6. \A i \in ended : i < next
    BY <2>1 DEF Claims, TilesCounted
  <2>7. TilesOwned'
    BY <2>1, <2>3, <2>6 DEF TilesOwned, TypeOK, Tiles
  <2>8. \A i \in Tiles : calls'[i] = IF i < next' /\ i < total' THEN 1 ELSE 0
    BY <2>1 DEF TypeOK, Tiles, Claims, TilesCounted
  <2>9. TilesCounted'
    BY <2>1, <2>3, <2>5, <2>6, <2>8 DEF TilesCounted, TypeOK, Tiles
  <2>10. LoopOver'
    BY <2>1, <2>2 DEF LoopOver, TypeOK, Handover, WorkersFollow
  <2> QED
    BY <2>7, <2>9, <2>10 DEF Claims
<1>10. ASSUME pc'[Dispatcher] = "out", \A w \in Workers : pc'[w] = pc[w], frame' = 0
       PROVE Claims'
  <2>1. \A u \in Threads : ~ Busy(u)'
    BY <1>10, <1>b DEF Busy, Handover, Places, WorkersFollow
  <2>2. \A w \in Workers : pc'[w] # "report"
    BY <1>10, <1>b DEF Handover, WorkersFollow
  <2> QED
    BY <1>10, <2>1, <2>2 DEF Claims, TilesOwned, TilesCounted, LoopOver
<1>11. ASSUME SequentialReturn PROVE Claims'
  BY <1>10, <1>11 DEF SequentialReturn, TypeOK, shared, Handover, FrameLive
<1>12. ASSUME Join PROVE Claims'
  <2>1. CASE workersDone < NWorkers
    <3>1. /\ UNCHANGED <<tile, next, total, calls, ended, frame, lastSeq, jobSeq>>
          /\ pc' = [pc EXCEPT ![Dispatcher] = "wait"] /\ pc[Dispatcher] = "report"
      BY <1>12, <2>1 DEF Join, ghosts
    <3>2. \A u \in Threads : Busy(u)' <=> Busy(u)
      BY <3>1 DEF Busy, TypeOK
    <3> QED
      BY <3>1, <3>2 DEF TypeOK, Claims, TilesOwned, TilesCounted, LoopOver
  <2>2. CASE ~ (workersDone < NWorkers)
    BY <1>10, <1>12, <2>2 DEF Join, TypeOK
  <2> QED
    BY <2>1, <2>2
<1>13. ASSUME NEW t \in Threads, Spurious(t) PROVE Claims'
  <2>1. /\ UNCHANGED <<tile, next, total, calls, ended, frame, lastSeq, jobSeq>>
        /\ pc[t] = "wait" /\ pc' = [pc EXCEPT ![t] = IF t = Dispatcher THEN "report" ELSE "top"]
    BY <1>13 DEF Spurious, ghosts, shared
  <2>2. \A u \in Threads : Busy(u)' <=> Busy(u)
    BY <2>1 DEF Busy, TypeOK
  <2> QED
    BY <2>1, <2>2 DEF TypeOK, Claims, TilesOwned, TilesCounted, LoopOver
<1>14. CASE UNCHANGED vars
  BY <1>14 DEF vars, Claims, TilesOwned, TilesCounted, LoopOver, Busy
<1> QED
  BY <1>1, <1>2, <1>4, <1>5, <1>6, <1>7, <1>8, <1>9, <1>11, <1>12, <1>13, <1>14
  DEF Next, DispatchStep, WorkerStep

-----------------------------------------------------------------------------
LEMMA Invariance == Spec => []IInv
<1>1. IInv /\ [Next]_vars => IInv'
  BY TypeStep, HandoverStep, ClaimsStep DEF IInv
<1> QED
  BY InitIInv, <1>1, PTL DEF Spec

\* Every reachable state of the pool is well typed; in particular fn is only
\* ever called with the index of a tile of the call.
THEOREM TypeCorrect == Spec => []TypeOK
  BY Invariance, PTL DEF IInv

\* No worker reads or increments job->next, or calls job->fn, after the dispatch
\* that owns the job has returned.
THEOREM JobOutlivesItsReaders == Spec => []NoStaleJob
<1>1. IInv => NoStaleJob
  BY PoolAssumption DEF IInv, Handover, Places, FrameLive, WorkersFollow, NoStaleJob, Threads
<1> QED
  BY <1>1, Invariance, PTL

\* workers_done is the number of workers that have finished the current job, so
\* workers_done == n_workers means what the join takes it to mean.
THEOREM JoinCountsWorkers == Spec => []ReportsCounted
<1>1. IInv => ReportsCounted
  BY DEF IInv, Handover, FrameLive, Counted, Reported, ReportsCounted
<1> QED
  BY <1>1, Invariance, PTL

\* A step of the pool is a step of the parallel for, or leaves it alone.
LEMMA StepRefines == IInv /\ IInv' /\ [Next]_vars => [Promise!Next]_Promise!vars
<1> SUFFICES ASSUME IInv, IInv', [Next]_vars PROVE [Promise!Next]_Promise!vars
  OBVIOUS
<1> USE PoolAssumption
<1>a. /\ TypeOK /\ Handover /\ Claims /\ Dispatcher \in Threads /\ Workers \subseteq Threads
  BY DEF IInv, Threads
<1> USE <1>a
<1> DEFINE Mapped == <<total, calls, ended>>
<1>1. ASSUME NEW i \in Tiles, i = next, next < total, calls' = [calls EXCEPT ![next] = @ + 1],
             UNCHANGED <<total, ended>>, pc[Dispatcher] # "out"
      PROVE Promise!Next
  <2>0. calls[i] = 0
    BY <1>1 DEF Claims, TilesCounted, TypeOK, Tiles
  <2>1. calls[i] = 0 /\ calls' = [calls EXCEPT ![i] = 1]
    BY <1>1, <2>0
  <2>2. Promise!Enter(i)
    BY <1>1, <2>1 DEF Promise!Enter
  <2> QED
    BY <2>2 DEF Promise!Next, Promise!Tiles, Tiles
<1>2. ASSUME NEW t \in Threads, Busy(t), ended' = ended \cup {tile[t]},
             UNCHANGED <<total, calls>>, pc[Dispatcher] # "out"
      PROVE Promise!Next
  <2>1. tile[t] \in Tiles /\ calls[tile[t]] = 1 /\ tile[t] \notin ended
    BY <1>2 DEF Claims, TilesCounted, TilesOwned, TypeOK, Tiles
  <2>2. Promise!Leave(tile[t])
    BY <1>2, <2>1 DEF Promise!Leave
  <2> QED
    BY <2>1, <2>2 DEF Promise!Next, Promise!Tiles, Tiles
<1>3. ASSUME total' = 0, UNCHANGED <<calls, ended>>, total <= next, pc[Dispatcher] # "out",
             \A u \in Threads : ~ Busy(u)
      PROVE Promise!Next
  <2>a. /\ total \in 0 .. MaxTiles /\ MaxTiles \in Nat /\ next \in Nat
        /\ ended \subseteq 0 .. MaxTiles - 1
    BY DEF TypeOK, Tiles, PoolAssumption
  <2>b. \A i \in ended : i < total
    BY <1>3 DEF Claims, TilesCounted
  <2>c. \A i \in 0 .. MaxTiles - 1 : i < next /\ i < total => i \in ended
    BY <1>3 DEF Claims, TilesCounted, Tiles
  <2>d. \A i \in 0 .. total - 1 : i \in 0 .. MaxTiles - 1 /\ i < next /\ i < total
    BY <1>3, <2>a
  <2>1. ended = 0 .. total - 1
    <3>1. ASSUME NEW i, i \in ended PROVE i \in 0 .. total - 1
      <4>1. i \in 0 .. MaxTiles - 1 /\ i < total
        BY <3>1, <2>a, <2>b
      <4> QED
        BY <4>1, <2>a
    <3>2. ASSUME NEW i \in 0 .. total - 1 PROVE i \in ended
      BY <2>c, <2>d
    <3> QED
      BY <3>1, <3>2
  <2> QED
    BY <1>3, <2>1 DEF Promise!Next, Promise!Return, Handover, FrameLive
<1>4. ASSUME NEW t \in Threads, TakeTile(t) PROVE [Promise!Next]_Promise!vars
  <2>1. pc[Dispatcher] # "out"
    BY <1>4 DEF TakeTile, Handover, Places, FrameLive, WorkersFollow, Threads
  <2>2. CASE next < total
    <3>1. next \in Tiles
      BY <2>2 DEF TypeOK, Tiles
    <3> QED
      BY <1>1, <1>4, <2>1, <2>2, <3>1 DEF TakeTile
  <2>3. CASE ~ (next < total)
    BY <1>4, <2>3 DEF TakeTile, Promise!vars
  <2> QED
    BY <2>2, <2>3
<1>5. ASSUME NEW t \in Threads, TileReturns(t) PROVE Promise!Next
  <2>1. pc[Dispatcher] # "out"
    BY <1>5 DEF TileReturns, Handover, Places, FrameLive, WorkersFollow, Threads
  <2> QED
    BY <1>2, <1>5, <2>1 DEF TileReturns, Busy
<1>6. ASSUME SequentialLeave PROVE Promise!Next
  BY <1>2, <1>6 DEF SequentialLeave, Busy
<1>7. ASSUME SequentialEnter PROVE Promise!Next
  <2>1. next \in Tiles /\ next < total /\ pc[Dispatcher] # "out"
    BY <1>7 DEF SequentialEnter, TypeOK, Tiles
  <2> QED
    BY <1>1, <1>7, <2>1 DEF SequentialEnter
<1>8. ASSUME SequentialReturn PROVE Promise!Next
  <2>1. frame = 0 /\ pc[Dispatcher] = "seq"
    BY <1>8 DEF SequentialReturn, Handover, FrameLive
  <2>2. \A u \in Threads : ~ Busy(u)
    BY <2>1 DEF Handover, Places, WorkersFollow, Busy, Threads
  <2>3. total <= next /\ total' = 0 /\ UNCHANGED <<calls, ended>>
    BY <1>8 DEF SequentialReturn, TypeOK, ghosts
  <2>4. pc[Dispatcher] # "out"
    BY <2>1
  <2> QED
    BY <1>3, <2>2, <2>3, <2>4
<1>9. ASSUME Join PROVE [Promise!Next]_Promise!vars
  <2>1. CASE workersDone < NWorkers
    BY <1>9, <2>1 DEF Join, ghosts, Promise!vars
  <2>2. CASE ~ (workersDone < NWorkers)
    <3>1. frame' = 0 /\ pc' = [pc EXCEPT ![Dispatcher] = "out"] /\ pc[Dispatcher] = "report"
      BY <1>9, <2>2 DEF Join
    <3>2. \A w \in Workers : pc'[w] \in {"top", "wait"}
      <4>1. Places' /\ WorkersFollow'
        BY DEF IInv, Handover
      <4> QED
        BY <3>1, <4>1 DEF Places, WorkersFollow
    <3>3. \A w \in Workers : pc'[w] = pc[w]
      BY <3>1, \A w \in Workers : w # Dispatcher DEF TypeOK, PoolAssumption
    <3>a. \A u \in Threads : ~ Busy(u)
      BY <3>1, <3>2, <3>3 DEF Busy, Threads
    <3>4. total <= next
      BY <3>1 DEF Claims, LoopOver
    <3> QED
      BY <1>3, <1>9, <2>2, <3>1, <3>a, <3>4 DEF Join, ghosts
  <2> QED
    BY <2>1, <2>2
<1>10. ASSUME CallSequential \/ CallPooled PROVE Promise!Next
  <2>1. total = 0
    BY <1>10 DEF CallSequential, CallPooled, Handover, FrameLive, TypeOK
  <2>2. total' \in 1 .. MaxTiles
    BY <1>10 DEF CallSequential, CallPooled
  <2>3. Promise!Call
    BY <1>10, <2>1, <2>2 DEF CallSequential, CallPooled, Promise!Call, Promise!NoCalls, NoCalls,
                        Promise!Tiles, Tiles
  <2> QED
    BY <2>3 DEF Promise!Next
<1>11. ASSUME NEW w \in Workers, WorkerTop(w) \/ WorkerReport(w) PROVE UNCHANGED Promise!vars
  BY <1>11 DEF WorkerTop, WorkerReport, ghosts, Promise!vars
<1>12. ASSUME NEW t \in Threads, Spurious(t) PROVE UNCHANGED Promise!vars
  BY <1>12 DEF Spurious, ghosts, Promise!vars
<1>13. CASE UNCHANGED vars
  BY <1>13 DEF vars, Promise!vars
<1> QED
  BY <1>4, <1>5, <1>6, <1>7, <1>8, <1>9, <1>10, <1>11, <1>12, <1>13
  DEF Next, DispatchStep, WorkerStep

\* Each dispatch runs fn exactly once per tile and returns after the last call.
THEOREM PoolImplementsParallelFor == Spec => ImplementsParallelFor
<1>1. Init => Promise!Init
  BY DEF Init, Promise!Init, NoCalls, Promise!NoCalls, Tiles, Promise!Tiles
<1> QED
  BY <1>1, Invariance, StepRefines, PTL DEF Spec, ImplementsParallelFor, Promise!Spec

-----------------------------------------------------------------------------
(* The recorder *)

\* The ring is walked by less than one turn.
LEMMA Wrap ==
    ASSUME NEW a \in 0 .. 2 * NSlots - 1
    PROVE  a % NSlots = IF a < NSlots THEN a ELSE a - NSlots
BY RecordAssumption, SMT

\* Slots at different distances from the head are different.
LEMMA Distinct ==
    ASSUME NEW h \in Slots, NEW i \in 0 .. NSlots - 1, NEW j \in 0 .. NSlots - 1
    PROVE  /\ (h + i) % NSlots \in Slots
           /\ i # j => (h + i) % NSlots # (h + j) % NSlots
<1>1. h + i \in 0 .. 2 * NSlots - 1 /\ h + j \in 0 .. 2 * NSlots - 1
  BY RecordAssumption DEF Slots
<1>2. (h + i) % NSlots = IF h + i < NSlots THEN h + i ELSE h + i - NSlots
  BY <1>1, Wrap, RecordAssumption DEF Slots
<1>3. (h + j) % NSlots = IF h + j < NSlots THEN h + j ELSE h + j - NSlots
  BY <1>1, Wrap, RecordAssumption DEF Slots
<1>. QED BY <1>2, <1>3, RecordAssumption DEF Slots

\* The distance from the head is one less when the head has moved on.
LEMMA Advance ==
    ASSUME NEW h \in Slots, NEW k \in 0 .. NSlots - 1
    PROVE  /\ (h + 0) % NSlots = h
           /\ (h + 1) % NSlots \in Slots
           /\ (((h + 1) % NSlots) + k) % NSlots = (h + (k + 1)) % NSlots
<1>1. h + 0 \in 0 .. 2 * NSlots - 1 /\ h + 1 \in 0 .. 2 * NSlots
  BY RecordAssumption DEF Slots
<1>2. (h + 1) % NSlots = IF h + 1 < NSlots THEN h + 1 ELSE 0
  <2>1. CASE NSlots = 1
    <3>1. h = 0
      BY <2>1 DEF Slots
    <3>. QED BY <2>1, <3>1, SMT
  <2>2. CASE NSlots > 1
    <3>1. h + 1 \in 0 .. 2 * NSlots - 1
      BY <2>2, RecordAssumption DEF Slots
    <3>2. (h + 1) % NSlots = IF h + 1 < NSlots THEN h + 1 ELSE h + 1 - NSlots
      BY <2>1, <3>1, Wrap, RecordAssumption DEF Slots
    <3>. QED BY <3>2, RecordAssumption DEF Slots
  <2>. QED BY <2>1, <2>2, RecordAssumption
<1>3. (h + 0) % NSlots = h
  BY <1>1, Wrap, RecordAssumption DEF Slots
<1>4. (((h + 1) % NSlots) + k) % NSlots = (h + (k + 1)) % NSlots
  <2> DEFINE g == (h + 1) % NSlots
  <2>1. g \in Slots /\ g = IF h + 1 < NSlots THEN h + 1 ELSE 0
    BY <1>2, RecordAssumption DEF Slots
  <2> HIDE DEF g
  <2>2. (g + k) % NSlots = IF g + k < NSlots THEN g + k ELSE g + k - NSlots
    <3>1. g + k \in 0 .. 2 * NSlots - 1
      BY <2>1, RecordAssumption DEF Slots
    <3>. QED BY <2>1, <3>1, Wrap, RecordAssumption DEF Slots
  <2>3. CASE h + (k + 1) \in 0 .. 2 * NSlots - 1
    <3>1. (h + (k + 1)) % NSlots
            = IF h + (k + 1) < NSlots THEN h + (k + 1) ELSE h + (k + 1) - NSlots
      BY <2>3, Wrap, RecordAssumption DEF Slots
    <3>2. (g + k) % NSlots = (h + (k + 1)) % NSlots
      BY <2>1, <2>2, <3>1, RecordAssumption DEF Slots
    <3>. QED BY <3>2 DEF g
  <2>. QED BY <2>3, RecordAssumption DEF Slots
<1>. QED BY <1>2, <1>3, <1>4, RecordAssumption DEF Slots

-----------------------------------------------------------------------------
(* The inductive invariant *)

\* Who may be where.
RecordPlaces ==
    /\ main = "copying" => /\ recorder /\ count < NSlots /\ taken < MaxFrames
                           /\ slot = (head + count) % NSlots
    /\ main = "joining" => ~ recorder /\ stop
    /\ recorder \/ main = "joining" <=> worker # "none"
    /\ worker \in {"compressing", "finishing"} => count > 0

\* The flags: what makes the worker leave, and what it leaves behind.
Flags ==
    /\ failed => worker \in {"finishing", "done", "none"}
    /\ stop /\ ~ failed => ~ recorder
    /\ worker = "done" /\ ~ failed => stop /\ count = 0

\* The ring holds the newest frames in order, and the file all before them.
Contents ==
    ~ failed =>
      /\ Len(file) = taken - count + (IF worker = "finishing" THEN 1 ELSE 0)
      /\ \A k \in 0 .. count - 1 :
            slots[(head + k) % NSlots] = taken - count + k + 1

RingInv == RecordTypeOK /\ RecordPlaces /\ Flags /\ Contents /\ FileInOrder

LEMMA RingInit == RecordInit => RingInv
<1> SUFFICES ASSUME RecordInit PROVE RingInv
  OBVIOUS
<1> USE RecordAssumption DEF RecordInit
<1>1. RecordTypeOK
  BY DEF RecordTypeOK, Slots
<1>2. RecordPlaces /\ Flags
  BY DEF RecordPlaces, Flags
<1>3. Contents /\ FileInOrder
  BY DEF Contents, FileInOrder
<1>. QED BY <1>1, <1>2, <1>3 DEF RingInv

\* Starting to fill a slot leaves the frames in the ring alone.
LEMMA RingCapture == RingInv /\ Capture => RingInv'
<1> SUFFICES ASSUME RingInv, Capture PROVE RingInv'
  OBVIOUS
<1> USE RecordAssumption DEF RingInv, Capture, ring
<1>1. head \in Slots /\ count \in 0 .. NSlots - 1
  BY DEF RecordTypeOK
<1>2. slot' \in Slots
  BY <1>1, Distinct
<1>3. RecordTypeOK'
  BY <1>2 DEF RecordTypeOK, Torn
<1>4. RecordPlaces' /\ Flags' /\ FileInOrder'
  BY DEF RecordPlaces, Flags, FileInOrder
<1>5. ASSUME ~ failed, NEW k \in 0 .. count - 1
      PROVE  slots'[(head + k) % NSlots] = slots[(head + k) % NSlots]
  <2>1. k \in 0 .. NSlots - 1 /\ k # count
    BY <1>1
  <2>2. (head + k) % NSlots # (head + count) % NSlots
    BY <1>1, <2>1, Distinct
  <2>. QED BY <2>2 DEF RecordTypeOK
<1>6. Contents'
  BY <1>5 DEF Contents
<1>. QED BY <1>3, <1>4, <1>6

\* The frame is added behind those in the ring.
LEMMA RingCopied == RingInv /\ Copied => RingInv'
<1> SUFFICES ASSUME RingInv, Copied PROVE RingInv'
  OBVIOUS
<1> USE RecordAssumption DEF RingInv, Copied, ring
<1>1. head \in Slots /\ count \in 0 .. NSlots - 1
  BY DEF RecordTypeOK, RecordPlaces
<1>2. slot = (head + count) % NSlots /\ taken < MaxFrames /\ recorder
  BY DEF RecordPlaces
<1>3. RecordTypeOK'
  BY <1>1, <1>2 DEF RecordTypeOK
<1>4. RecordPlaces' /\ Flags' /\ FileInOrder'
  BY <1>2 DEF RecordPlaces, Flags, FileInOrder, RecordTypeOK
<1>5. ASSUME ~ failed, NEW k \in 0 .. count
      PROVE  slots'[(head + k) % NSlots] = taken' - count' + k + 1
  <2>1. k \in 0 .. NSlots - 1
    BY <1>1
  <2>2. CASE k = count
    BY <2>2, <1>2 DEF RecordTypeOK
  <2>3. CASE k # count
    <3>1. (head + k) % NSlots # slot
      BY <1>1, <1>2, <2>1, <2>3, Distinct
    <3>2. slots[(head + k) % NSlots] = taken - count + k + 1
      BY <1>5, <2>3 DEF Contents, RecordTypeOK
    <3>. QED BY <3>1, <3>2 DEF RecordTypeOK
  <2>. QED BY <2>2, <2>3
<1>6. ~ failed => Len(file) = taken' - count' + (IF worker' = "finishing" THEN 1 ELSE 0)
  BY DEF Contents, RecordTypeOK
<1>7. Contents'
  BY <1>5, <1>6, <1>3 DEF Contents, RecordTypeOK
<1>. QED BY <1>3, <1>4, <1>7

\* The frame written is the oldest in the ring, and next after those in the file.
LEMMA RingWrite == RingInv /\ WriteFrame => RingInv'
<1> SUFFICES ASSUME RingInv, WriteFrame PROVE RingInv'
  OBVIOUS
<1> USE RecordAssumption DEF RingInv, WriteFrame, ring
<1>1. count > 0 /\ ~ failed
  BY DEF RecordPlaces, Flags
<1>2. slots[head] = Len(file) + 1
  <2>1. (head + 0) % NSlots = head
    BY Advance DEF RecordTypeOK, Slots
  <2>2. 0 \in 0 .. count - 1
    BY <1>1 DEF RecordTypeOK
  <2>3. slots[(head + 0) % NSlots] = taken - count + 0 + 1
    BY <1>1, <2>2 DEF Contents
  <2>. QED BY <1>1, <2>1, <2>3 DEF Contents, RecordTypeOK
<1>3. CASE file' = Append(file, slots[head]) /\ UNCHANGED failed
  <2>1. slots[head] \in Nat /\ file \in Seq(Nat)
    BY <1>2 DEF RecordTypeOK
  <2>2. file' \in Seq(Nat) /\ Len(file') = Len(file) + 1
    BY <1>3, <2>1
  <2>3. FileInOrder'
    BY <1>2, <1>3, <2>1 DEF FileInOrder
  <2>4. RecordTypeOK'
    BY <1>3, <2>2 DEF RecordTypeOK
  <2>5. RecordPlaces' /\ Flags'
    BY <1>1, <1>3 DEF RecordPlaces, Flags
  <2>6. Contents'
    <3>1. Len(file') = taken' - count' + (IF worker' = "finishing" THEN 1 ELSE 0)
      BY <1>1, <2>2 DEF Contents, RecordTypeOK
    <3>2. UNCHANGED <<head, count, slots, taken>>
      OBVIOUS
    <3>. QED BY <1>1, <3>1, <3>2 DEF Contents
  <2>. QED BY <2>3, <2>4, <2>5, <2>6
<1>4. CASE failed' = TRUE /\ UNCHANGED file
  BY <1>1, <1>4 DEF RecordTypeOK, RecordPlaces, Flags, Contents, FileInOrder
<1>. QED BY <1>3, <1>4

\* The head moves on, and head + count stays where it is.
LEMMA RingFinish == RingInv /\ Finish => RingInv'
<1> SUFFICES ASSUME RingInv, Finish PROVE RingInv'
  OBVIOUS
<1> USE RecordAssumption DEF RingInv, Finish, ring
<1>1. count > 0 /\ count \in Nat /\ count' = count - 1 /\ head \in Slots
  BY DEF RecordPlaces, RecordTypeOK
<1>2. head' \in Slots
  <2>1. 0 \in 0 .. NSlots - 1
    OBVIOUS
  <2>. QED BY <1>1, <2>1, Advance
<1>3. RecordTypeOK'
  BY <1>1, <1>2 DEF RecordTypeOK
<1>4. ASSUME NEW k \in 0 .. NSlots - 1
      PROVE  (head' + k) % NSlots = (head + (k + 1)) % NSlots
  BY <1>1, Advance
<1>5. RecordPlaces'
  <2>1. main = "copying" => slot' = (head' + count') % NSlots
    <3>1. count' \in 0 .. NSlots - 1 /\ count' + 1 = count
      BY <1>1 DEF RecordTypeOK
    <3>2. (head' + count') % NSlots = (head + (count' + 1)) % NSlots
      BY <1>4, <3>1
    <3>. QED BY <3>1, <3>2 DEF RecordPlaces
  <2>. QED BY <1>1, <2>1 DEF RecordPlaces, RecordTypeOK
<1>6. Flags' /\ FileInOrder'
  BY DEF Flags, FileInOrder, RecordPlaces, RecordTypeOK
<1>7. ASSUME ~ failed, NEW k \in 0 .. count' - 1
      PROVE  slots'[(head' + k) % NSlots] = taken' - count' + k + 1
  <2>1. (head' + k) % NSlots = (head + (k + 1)) % NSlots
    BY <1>1, <1>4 DEF RecordTypeOK
  <2>2. slots[(head + (k + 1)) % NSlots] = taken - count + (k + 1) + 1
    BY <1>1, <1>7 DEF Contents
  <2>. QED BY <1>1, <2>1, <2>2 DEF RecordTypeOK
<1>8. Contents'
  BY <1>1, <1>7 DEF Contents, RecordTypeOK
<1>. QED BY <1>3, <1>5, <1>6, <1>8

LEMMA RingOthers ==
    RingInv /\ (Start \/ Close \/ Joined \/ RecordTop \/ RecordSpurious) => RingInv'
<1> SUFFICES ASSUME RingInv PROVE Start \/ Close \/ Joined \/ RecordTop \/ RecordSpurious => RingInv'
  OBVIOUS
<1> USE RecordAssumption DEF RingInv, ring
<1>1. ASSUME Start PROVE RingInv'
  <2>1. RecordTypeOK'
    BY <1>1 DEF Start, RecordTypeOK, Slots
  <2>2. RecordPlaces' /\ Flags'
    BY <1>1 DEF Start, RecordPlaces, Flags, RecordTypeOK
  <2>3. file' = <<>> /\ count' = 0 /\ taken' = 0 /\ worker' = "top"
    BY <1>1 DEF Start
  <2>4. Contents' /\ FileInOrder'
    BY <2>3 DEF Contents, FileInOrder
  <2>. QED BY <2>1, <2>2, <2>4
<1>2. ASSUME Close \/ Joined \/ RecordTop \/ RecordSpurious PROVE RingInv'
  <2> USE DEF Close, Joined, RecordTop, RecordSpurious
  <2>1. RecordTypeOK'
    BY <1>2 DEF RecordTypeOK
  <2>2. RecordPlaces'
    BY <1>2 DEF RecordTypeOK, RecordPlaces
  <2>3. Flags'
    BY <1>2 DEF RecordTypeOK, RecordPlaces, Flags
  <2>4. UNCHANGED <<failed, file, taken, count, head, slots>>
        /\ (worker' = "finishing" <=> worker = "finishing")
    BY <1>2
  <2>5. Contents' /\ FileInOrder'
    BY <2>4 DEF Contents, FileInOrder
  <2>. QED BY <2>1, <2>2, <2>3, <2>5
<1>. QED BY <1>1, <1>2

LEMMA RingNext == RingInv /\ [RecordNext]_recordVars => RingInv'
<1>1. RingInv /\ UNCHANGED recordVars => RingInv'
  BY DEF recordVars, ring, RingInv, RecordTypeOK, RecordPlaces, Flags, Contents, FileInOrder
<1>. QED BY <1>1, RingCapture, RingCopied, RingWrite, RingFinish, RingOthers DEF RecordNext, Worker

\* The ring is sound at all times.
THEOREM RingHolds == RecordSpec => []RingInv
BY RingInit, RingNext, PTL DEF RecordSpec

-----------------------------------------------------------------------------
(* What follows from it *)

\* Type correctness for every size of the ring.
THEOREM RecordTypes == RecordSpec => []RecordTypeOK
<1>1. RingInv => RecordTypeOK
  BY DEF RingInv
<1>. QED BY <1>1, RingHolds, PTL

\* The capture and the worker, both outside the mutex, are never in one slot.
THEOREM SlotsStayApart == RecordSpec => []SlotsApart
<1>1. RingInv => SlotsApart
  <2> SUFFICES ASSUME RingInv, main = "copying", worker = "compressing"
               PROVE  slot # head
    BY DEF SlotsApart
  <2>1. /\ head \in Slots /\ count \in 0 .. NSlots - 1 /\ 0 \in 0 .. NSlots - 1 /\ count # 0
        /\ slot = (head + count) % NSlots
    BY RecordAssumption DEF RingInv, RecordPlaces, RecordTypeOK
  <2>2. (head + 0) % NSlots = head
    BY <2>1, Advance
  <2>. QED BY <2>1, <2>2, Distinct
<1>. QED BY <1>1, RingHolds, PTL

\* The file holds the frames taken, each once and in order.
THEOREM FileStaysInOrder == RecordSpec => []FileInOrder
<1>1. RingInv => FileInOrder
  BY DEF RingInv
<1>. QED BY <1>1, RingHolds, PTL

-----------------------------------------------------------------------------
(* The refinement of Recording *)

\* What Recording may do, over the recorder's variables.
AbstractStep ==
    [\/ RecordPromise!Open \/ RecordPromise!Take \/ RecordPromise!Write \/ RecordPromise!Break
     \/ RecordPromise!Stop]_(RecordPromise!recVars)

LEMMA PromiseInit == RecordInit => RecordPromise!RecInit
BY DEF RecordInit, RecordPromise!RecInit

LEMMA PromiseNext == RingInv /\ RingInv' /\ [RecordNext]_recordVars => AbstractStep
<1> SUFFICES ASSUME RingInv, RingInv', [RecordNext]_recordVars PROVE AbstractStep
  OBVIOUS
<1> USE RecordAssumption DEF RingInv, AbstractStep, RecordPromise!recVars, ring
<1>1. CASE Start
  BY <1>1 DEF Start, RecordPromise!Open
<1>2. CASE Copied
  BY <1>2 DEF Copied, RecordPromise!Take, RecordPlaces
<1>3. CASE WriteFrame
  <2>1. count > 0 /\ ~ failed /\ (recorder \/ main = "joining")
    BY <1>3 DEF WriteFrame, RecordPlaces, Flags
  <2>. QED BY <1>3, <2>1 DEF WriteFrame, RecordPromise!Write, RecordPromise!Break, Contents, RecordTypeOK
<1>4. CASE Joined
  <2>1. failed \/ Len(file) = taken
    BY <1>4 DEF Joined, Flags, Contents, RecordTypeOK
  <2>. QED BY <1>4, <2>1 DEF Joined, RecordPromise!Stop, RecordPlaces
<1>5. CASE Capture \/ Close \/ RecordTop \/ RecordSpurious \/ Finish \/ UNCHANGED recordVars
  BY <1>5 DEF Capture, Close, RecordTop, RecordSpurious, Finish, RecordPlaces, recordVars
<1>. QED BY <1>1, <1>2, <1>3, <1>4, <1>5 DEF RecordNext, Worker

\* The recorder keeps the promise of srvid.md: stopping returns with everything
\* taken in the file, unless a write failed.
THEOREM RecorderImplementsRecording == RecordSpec => ImplementsRecording
BY RingHolds, PromiseInit, PromiseNext, PTL
   DEF RecordSpec, ImplementsRecording, RecordPromise!RecSpec, AbstractStep
=============================================================================
