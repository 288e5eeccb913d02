------------------------------ MODULE Recording ------------------------------
(***************************************************************************)
(* What a screen recording promises (libs/srapi/srvid.md): the frames that *)
(* were taken reach the file in the background, and stopping "flushes the  *)
(* queue and closes the file".  A write that fails breaks the recording:   *)
(* what is in the file stays valid, and nothing follows.                   *)
(***************************************************************************)
EXTENDS Naturals

VARIABLES
    open,          \* a recording is in progress
    taken,         \* frames taken since it was started
    written,       \* whole frames in the file
    broken         \* a write has failed

recVars == <<open, taken, written, broken>>

RecInit == ~ open /\ taken = 0 /\ written = 0 /\ ~ broken

Open == /\ ~ open /\ open' = TRUE
        /\ taken' = 0 /\ written' = 0 /\ broken' = FALSE

Take == /\ open /\ taken' = taken + 1
        /\ UNCHANGED <<open, written, broken>>

Write == /\ open /\ ~ broken /\ written < taken
         /\ written' = written + 1
         /\ UNCHANGED <<open, taken, broken>>

Break == /\ open /\ ~ broken /\ written < taken
         /\ broken' = TRUE
         /\ UNCHANGED <<open, taken, written>>

\* Stopping returns when everything taken is in the file, or the file broke.
Stop == /\ open /\ (written = taken \/ broken)
        /\ open' = FALSE
        /\ UNCHANGED <<taken, written, broken>>

RecSpec == RecInit /\ [][Open \/ Take \/ Write \/ Break \/ Stop]_recVars
=============================================================================
