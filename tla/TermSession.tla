---------------------------- MODULE TermSession ----------------------------
(***************************************************************************)
(* A session of term (tools/gui/term.c): the shell at the other end of a   *)
(* pseudo terminal, the turns of the main loop, the keys that are typed,   *)
(* and how title sequences and the rest of the output are told apart.      *)
(***************************************************************************)
EXTENDS Naturals, Sequences, FiniteSets

CONSTANTS
    MaxKeys,      \* bound: keys typed
    Buffer,       \* how many in_buf holds, and the pseudo terminal
    Output        \* bytes of the shell: "text", "esc", "open" (of a sequence), "digit", "final", "osc", "bel"

VARIABLES
    turn,         \* "start", "drain", "flush", "reap", "draw", "end", "done"
    shell,        \* "none", "runs", "zombie", "reaped"
    pty,          \* pty_fd: "none", "open", "closed"
    slave,        \* the other end is open
    asked,        \* should_close
    typed,        \* how many keys were typed
    waiting, taken,   \* in_buf; what the pseudo terminal took
    state, understood    \* of the parser; what the last byte was
sessionVars == <<turn, shell, pty, slave, asked, typed, waiting, taken, state, understood>>

TypeOK ==
    /\ turn \in {"start", "drain", "flush", "reap", "draw", "end", "done"}
    /\ shell \in {"none", "runs", "zombie", "reaped"} /\ pty \in {"none", "open", "closed"}
    /\ {slave, asked} \subseteq BOOLEAN /\ typed \in 0 .. MaxKeys
    /\ waiting \in Seq(1 .. MaxKeys) /\ taken \in Seq(1 .. MaxKeys) /\ Len(waiting) <= Buffer
    /\ state \in {"normal", "esc", "csi", "osc"} /\ understood \in {"none", "glyph", "sequence", "title"}

Init ==
    /\ turn = "start" /\ shell = "none" /\ pty = "none" /\ slave = FALSE /\ asked = FALSE /\ typed = 0
    /\ waiting = <<>> /\ taken = <<>> /\ state = "normal" /\ understood = "none"

KeysKept == UNCHANGED <<typed, waiting, taken>>
Parser == UNCHANGED <<state, understood>>

\* pty_spawn and what comes before it; a step that fails undoes the ones before and ends the
\* program.  When there is no surface, the shell that runs already is ended, but not waited for.
Spawn ==
    /\ turn = "start"
    /\ \/ turn' = "drain" /\ shell' = "runs" /\ pty' = "open" /\ slave' = TRUE
       \/ turn' = "done" /\ UNCHANGED <<shell, pty, slave>>
       \/ turn' = "done" /\ shell' = "zombie" /\ pty' = "closed" /\ UNCHANGED slave
    /\ UNCHANGED asked /\ KeysKept /\ Parser

\* feed_byte.  A title ends with BEL; escape ends no title, nor what comes after it.
Understood(b) ==
    CASE state = "normal" -> IF b = "esc" THEN <<"esc", "none">> ELSE <<"normal", IF b = "bel" THEN "none" ELSE "glyph">>
      [] state = "esc" -> IF b = "open" THEN <<"csi", "none">> ELSE IF b = "osc" THEN <<"osc", "none">> ELSE <<"normal", "sequence">>
      [] state = "csi" -> IF b \in {"final", "open", "osc", "text"} THEN <<"normal", "sequence">> ELSE <<"csi", "none">>
      [] OTHER -> IF b = "bel" THEN <<"normal", "title">> ELSE <<"osc", "none">>
\* One byte of what pty_drain reads until there is no more.
Read(b) ==
    /\ turn = "drain" /\ pty = "open" /\ slave
    /\ state' = Understood(b)[1] /\ understood' = Understood(b)[2]
    /\ UNCHANGED <<turn, shell, pty, slave, asked>> /\ KeysKept
\* The read ends: nothing there now, or nobody at the other end.
Drained ==
    /\ turn = "drain" /\ turn' = "flush"
    /\ pty' = (IF pty = "open" /\ ~slave THEN "closed" ELSE pty)
    /\ UNCHANGED <<shell, slave, asked>> /\ KeysKept /\ Parser

\* Mutant: what the terminal did not take comes after what is typed next.
FlushReversed ==
    /\ turn = "flush" /\ turn' = "reap"
    /\ taken' = waiting \o taken /\ waiting' = <<>>
    /\ UNCHANGED <<shell, pty, slave, asked, typed>> /\ Parser
\* flush_input: some of it is taken, and the buffer is empty in any case, unless there is no terminal.
Flush ==
    /\ turn = "flush" /\ turn' = "reap"
    /\ IF pty = "open"
       THEN waiting' = <<>> /\ \E n \in 0 .. Len(waiting) : taken' = taken \o SubSeq(waiting, 1, n)
       ELSE UNCHANGED <<waiting, taken>>
    /\ UNCHANGED <<shell, pty, slave, asked, typed>> /\ Parser

\* Mutant: only a terminal that was closed is looked at.
ReapLate ==
    /\ turn = "reap" /\ turn' = "draw"
    /\ shell' = shell /\ asked' = (asked \/ (pty = "closed" /\ shell = "reaped"))
    /\ UNCHANGED <<pty, slave>> /\ KeysKept /\ Parser
\* A shell that has ended is taken, and asks the window to close.
Reap ==
    /\ turn = "reap" /\ turn' = "draw"
    /\ shell' = (IF shell = "zombie" THEN "reaped" ELSE shell)
    /\ asked' = (asked \/ shell = "zombie" \/ (pty # "open" /\ shell = "reaped"))
    /\ UNCHANGED <<pty, slave>> /\ KeysKept /\ Parser

\* A frame, which may fail; keys come in while it waits for input, and the user may close
\* the window.
Draw(fails, closes) ==
    /\ turn = "draw" /\ asked' = (asked \/ closes)
    /\ turn' = (IF fails \/ asked \/ closes THEN "end" ELSE "drain")
    /\ UNCHANGED <<shell, pty, slave>> /\ KeysKept /\ Parser
\* key_hook; what does not fit into in_buf is lost.
Type ==
    /\ turn = "draw" /\ typed < MaxKeys /\ typed' = typed + 1
    /\ waiting' = (IF Len(waiting) < Buffer THEN Append(waiting, typed + 1) ELSE waiting)
    /\ UNCHANGED <<turn, shell, pty, slave, asked, taken>> /\ Parser

\* Mutant: it is not waited for.
EndAtOnce ==
    /\ turn = "end" /\ turn' = "done" /\ pty' = (IF pty = "open" THEN "closed" ELSE pty)
    /\ UNCHANGED <<shell, slave, asked>> /\ KeysKept /\ Parser
\* The end: SIGHUP to the shell, and then a wait for it; the terminal is closed afterwards.
End ==
    /\ turn = "end" /\ shell \in {"none", "reaped", "zombie"}
    /\ shell' = (IF shell = "zombie" THEN "reaped" ELSE shell)
    /\ pty' = (IF pty = "open" THEN "closed" ELSE pty) /\ turn' = "done"
    /\ UNCHANGED <<slave, asked>> /\ KeysKept /\ Parser

\* The shell: it ends, also because of SIGHUP, or closes its end and goes on.
ShellEnds == shell = "runs" /\ shell' = "zombie" /\ slave' = FALSE /\ UNCHANGED <<turn, pty, asked>> /\ KeysKept /\ Parser
ShellDetaches == shell = "runs" /\ slave /\ slave' = FALSE /\ UNCHANGED <<turn, shell, pty, asked>> /\ KeysKept /\ Parser

SessionStep == Spawn \/ Drained \/ Flush \/ Reap \/ (\E a, b \in BOOLEAN : Draw(a, b)) \/ End \/ (turn = "end" /\ ShellEnds)
Next == SessionStep \/ Type \/ (\E b \in Output : Read(b)) \/ ShellEnds \/ ShellDetaches
Spec == Init /\ [][Next]_sessionVars /\ WF_sessionVars(SessionStep)

(***************************************************************************)
(* Properties                                                              *)
(***************************************************************************)
\* No shell runs on and no terminal stays open, whichever of the two ended first (term.c:1113).
SessionClosed == turn = "done" => shell # "runs" /\ pty # "open"

\* Keys reach the shell in the order in which they were typed, though some may be lost
\* when the terminal takes no more (term.c:742).
KeysInOrder ==
    LET keys == taken \o waiting IN \A i, j \in 1 .. Len(keys) : i < j => keys[i] < keys[j]

\* The window of a shell that has ended closes.
Waits == shell = "zombie"
Settled == turn = "done"
=============================================================================
