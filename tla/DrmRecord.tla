------------------------------ MODULE DrmRecord ------------------------------
(***************************************************************************)
(* The screen recorder of the DRM backend (libs/srapi/src/backend/drm/     *)
(* record.c): the thread that presents frames copies some of them into a   *)
(* ring of slots, and a worker compresses them and writes them to a file.  *)
(*                                                                         *)
(* The mutex mtx is held only inside a step; copying a frame and           *)
(* compressing one happen outside it and take two steps each, so that they *)
(* can overlap.  The content of a frame is its number among the frames     *)
(* taken.  A capture that comes too early, or while the display is paused, *)
(* changes nothing; the counters for the log are left out.  Init, Next and *)
(* their like bear the name of the part, since SrapiThreadProofs is about  *)
(* this module and ThreadPool.                                             *)
(***************************************************************************)
EXTENDS Naturals, Sequences

CONSTANTS NSlots,         \* REC_SLOTS, 3 in the code
          MaxFrames       \* bound: frames taken in one recording

ASSUME RecordAssumption == NSlots \in Nat \ {0} /\ MaxFrames \in Nat

VARIABLES
    recorder,      \* display->recorder is set
    main,          \* where the presenting thread is
    worker,        \* where the worker is
    stop, failed,  \* the flags
    count, head,   \* the ring
    slots,         \* the frame in each slot, Torn while it is copied
    slot,          \* slot_idx of the capture in progress
    taken,         \* ghost: frames put into the ring
    file           \* the whole frames in the file

ring == <<count, head>>
recordVars == <<recorder, main, worker, stop, failed, ring, slots, slot, taken, file>>

Slots == 0 .. NSlots - 1
Torn == MaxFrames + 1     \* neither a frame nor empty

RecordInit ==
    /\ recorder = FALSE /\ main = "idle" /\ worker = "none"
    /\ stop = FALSE /\ failed = FALSE /\ count = 0 /\ head = 0
    /\ slots = [i \in Slots |-> 0] /\ slot = 0 /\ taken = 0 /\ file = <<>>

-----------------------------------------------------------------------------
(* The presenting thread *)

\* srapi_drm_record_start; one that fails leaves no recorder.
Start ==
    /\ main = "idle" /\ ~ recorder
    /\ recorder' = TRUE /\ worker' = "top"
    /\ stop' = FALSE /\ failed' = FALSE /\ count' = 0 /\ head' = 0
    /\ slots' = [i \in Slots |-> 0] /\ taken' = 0 /\ file' = <<>>
    /\ UNCHANGED <<main, slot>>

\* Mutant: a full ring is not noticed.
CaptureAlways ==
    /\ main = "idle" /\ recorder /\ ~ failed /\ taken < MaxFrames
    /\ slot' = (head + count) % NSlots
    /\ slots' = [slots EXCEPT ![slot'] = Torn]
    /\ main' = "copying"
    /\ UNCHANGED <<recorder, worker, stop, failed, ring, taken, file>>

\* Mutant: the slot is counted from the start of the ring.
CaptureAtCount ==
    /\ main = "idle" /\ recorder /\ ~ failed /\ count < NSlots /\ taken < MaxFrames
    /\ slot' = count % NSlots
    /\ slots' = [slots EXCEPT ![slot'] = Torn]
    /\ main' = "copying"
    /\ UNCHANGED <<recorder, worker, stop, failed, ring, taken, file>>

\* srapi_drm_record_capture up to the copy.  With a full ring the frame is
\* dropped.
Capture ==
    /\ main = "idle" /\ recorder /\ ~ failed /\ count < NSlots /\ taken < MaxFrames
    /\ slot' = (head + count) % NSlots
    /\ slots' = [slots EXCEPT ![slot'] = Torn]
    /\ main' = "copying"
    /\ UNCHANGED <<recorder, worker, stop, failed, ring, taken, file>>

\* The rest of it: the copy is complete, and the worker is signalled.
Copied ==
    /\ main = "copying"
    /\ taken' = taken + 1 /\ slots' = [slots EXCEPT ![slot] = taken']
    /\ count' = count + 1
    /\ worker' = IF worker = "asleep" THEN "top" ELSE worker
    /\ main' = "idle"
    /\ UNCHANGED <<recorder, stop, failed, head, slot, file>>

\* Mutant: the worker is not woken to see the flag.
CloseSilently ==
    /\ main = "idle" /\ recorder
    /\ recorder' = FALSE /\ stop' = TRUE /\ main' = "joining"
    /\ UNCHANGED <<worker, failed, ring, slots, slot, taken, file>>

\* srapi_drm_record_close up to the join: the user stops the recording, the
\* display is closed or changes its size, or a capture sees that a write failed.
Close ==
    /\ main = "idle" /\ recorder
    /\ recorder' = FALSE /\ stop' = TRUE
    /\ worker' = IF worker = "asleep" THEN "top" ELSE worker
    /\ main' = "joining"
    /\ UNCHANGED <<failed, ring, slots, slot, taken, file>>

Joined ==
    /\ main = "joining" /\ worker = "done"
    /\ main' = "idle" /\ worker' = "none"
    /\ UNCHANGED <<recorder, stop, failed, ring, slots, slot, taken, file>>

-----------------------------------------------------------------------------
(* record_worker *)

\* Mutant: the flag is tested first, and frames stay in the ring.
WorkerStopsAtOnce ==
    /\ worker = "top"
    /\ worker' = IF stop THEN "done" ELSE IF count = 0 THEN "asleep" ELSE "compressing"
    /\ UNCHANGED <<recorder, main, stop, failed, ring, slots, slot, taken, file>>

RecordTop ==
    /\ worker = "top"
    /\ worker' = IF count > 0 THEN "compressing" ELSE IF stop THEN "done" ELSE "asleep"
    /\ UNCHANGED <<recorder, main, stop, failed, ring, slots, slot, taken, file>>

\* pthread_cond_wait may return without a signal.
RecordSpurious ==
    /\ worker = "asleep" /\ worker' = "top"
    /\ UNCHANGED <<recorder, main, stop, failed, ring, slots, slot, taken, file>>

\* The frame is compressed and written; or it is not, and the file may end with
\* a part of it.
WriteFrame ==
    /\ worker = "compressing" /\ worker' = "finishing"
    /\ \/ file' = Append(file, slots[head]) /\ UNCHANGED failed
       \/ failed' = TRUE /\ UNCHANGED file
    /\ UNCHANGED <<recorder, main, stop, ring, slots, slot, taken>>

\* Mutant: the worker goes on after a failure.
FinishAnyway ==
    /\ worker = "finishing" /\ worker' = "top"
    /\ head' = (head + 1) % NSlots /\ count' = count - 1
    /\ UNCHANGED <<recorder, main, stop, failed, slots, slot, taken, file>>

Finish ==
    /\ worker = "finishing"
    /\ head' = (head + 1) % NSlots /\ count' = count - 1
    /\ stop' = (stop \/ failed)
    /\ worker' = IF failed THEN "done" ELSE "top"
    /\ UNCHANGED <<recorder, main, failed, slots, slot, taken, file>>

Worker == RecordTop \/ WriteFrame \/ Finish
RecordNext == Start \/ Capture \/ Copied \/ Close \/ Joined \/ Worker \/ RecordSpurious

RecordSpec == RecordInit /\ [][RecordNext]_recordVars

\* Both threads are scheduled, and a call to the recorder is carried to its end.
FairRecordSpec == RecordSpec /\ WF_recordVars(Worker) /\ WF_recordVars(Copied) /\ WF_recordVars(Joined)

-----------------------------------------------------------------------------
RecordTypeOK ==
    /\ recorder \in BOOLEAN /\ main \in {"idle", "copying", "joining"}
    /\ worker \in {"none", "top", "asleep", "compressing", "finishing", "done"}
    /\ stop \in BOOLEAN /\ failed \in BOOLEAN
    /\ count \in 0 .. NSlots /\ head \in Slots /\ slot \in Slots
    /\ slots \in [Slots -> 0 .. MaxFrames + 1]
    /\ taken \in 0 .. MaxFrames /\ file \in Seq(Nat)

\* The slot that is being filled is never the one that is being compressed,
\* although both happen outside the mutex: the sum of head and count stands
\* still when the worker moves on.
SlotsApart == main = "copying" /\ worker = "compressing" => slot # head

\* The file holds whole frames, each once and in the order they were taken.
FileInOrder == \A i \in 1 .. Len(file) : file[i] = i

\* srvid.md: "Stop flushes the queue and closes the file", and a failed write
\* ends the recording.
RecordPromise == INSTANCE Recording WITH
    open <- recorder \/ main = "joining", written <- Len(file), broken <- failed
ImplementsRecording == RecordPromise!RecSpec

\* Stopping a recording comes back: the worker is woken and leaves its loop.
StopReturns == main = "joining" ~> main = "idle"
=============================================================================
