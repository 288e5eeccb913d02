------------------------------ MODULE NetFetch ------------------------------
(***************************************************************************)
(* A download: down (tools/network/down) over libs/net.  The robots.txt of *)
(* the host is requested for first, over a connection of its own, and then *)
(* the page.  A server answers with a body in one of three framings, and   *)
(* may break off anywhere; what it sends comes in reads of any size.       *)
(*                                                                         *)
(* A head is one token, a byte its number, and all of an answer is under   *)
(* way when the request was sent.  Addresses that do not answer in time    *)
(* count as refused.  TLS is an exchange that may fail.                    *)
(*                                                                         *)
(* A byte of robots.txt stands for a line, and the lines that are judged   *)
(* are those that were written to the temporary file.  A line names an     *)
(* agent, which is us or another, allows or disallows what begins with so  *)
(* many characters of the path ("0": it begins otherwise), is blank, or is *)
(* of no interest.  A line that holds a comment only is blank; an empty    *)
(* line is of no interest, as strtok skips it.                             *)
(***************************************************************************)
EXTENDS Naturals, Sequences

CONSTANTS
    Sizes,        \* of bodies
    MaxAddresses, \* of a host
    Lengths       \* of the rules of robots.txt

VARIABLES
    doing,        \* of the program
    wants,        \* "robots" or "page"
    options,      \* ignore_robots, use_tls, to_file
    descriptors,  \* what is open: "out", "tmp", "conn"
    addresses,    \* still to be tried
    requested, verdict,   \* requests that were sent; what robots.txt says
    answer, wire, prefill,   \* of the server: its framing and size; what is not read; what came with the head
    remain, written, exitcode,
    lines,        \* of robots.txt, as it was written, that have been read
    came          \* ghost: how much came with the head
fetchVars == <<doing, wants, options, descriptors, addresses, requested, verdict, answer, wire, prefill, remain, written, exitcode, lines, came>>

Framings == {"length", "chunked", "close"}
Byte(i) == <<"byte", i>>
Body(n) == [i \in 1 .. n |-> Byte(i)]
LineKinds ==
    {<<"agent", n>> : n \in {0, 1}} \cup {<<"blank", 0>>, <<"junk", 0>>}
    \cup ({"allow", "deny"} \X Lengths)
TypeOK ==
    /\ doing \in {"args", "file", "robots", "resolve", "try", "handshake", "send", "head", "chunk", "rest", "drain", "answered", "rules", "end", "done"}
    /\ wants \in {"robots", "page"} /\ options \in [ignore : BOOLEAN, tls : BOOLEAN, file : BOOLEAN]
    /\ descriptors \subseteq {"out", "tmp", "conn"} /\ addresses \in 0 .. MaxAddresses
    /\ requested \subseteq {"robots", "page"} /\ verdict \in {"unknown", "allowed", "denied"}
    /\ answer \in [framing : Framings, size : Sizes] /\ remain \in Nat /\ exitcode \in {0, 1}
    /\ \A k \in 1 .. Len(written) : written[k][1] = "byte"
    /\ lines \in Seq(LineKinds) /\ Len(lines) <= Len(written) /\ came \in Nat

NoAnswer == [framing |-> "close", size |-> CHOOSE n \in Sizes : TRUE]
Init ==
    /\ doing = "args" /\ wants = "robots" /\ options = [ignore |-> FALSE, tls |-> FALSE, file |-> FALSE]
    /\ descriptors = {} /\ addresses = 0 /\ requested = {} /\ verdict = "unknown"
    /\ answer = NoAnswer /\ wire = <<>> /\ prefill = <<>>
    /\ remain = 0 /\ written = <<>> /\ exitcode = 0 /\ lines = <<>> /\ came = 0

Answer == UNCHANGED <<answer, wire, prefill, remain, written, came>>
Request == UNCHANGED <<options, requested, verdict, lines>>

(***************************************************************************)
(* Before the request                                                      *)
(***************************************************************************)
\* down_parse_cli and net_parse_http_url: help, an error, or a request
Args ==
    /\ doing = "args"
    /\ \/ doing' = "file" /\ options' \in [ignore : BOOLEAN, tls : BOOLEAN, file : BOOLEAN] /\ UNCHANGED exitcode
       \/ doing' = "done" /\ exitcode' \in {0, 1} /\ UNCHANGED options
    /\ UNCHANGED <<wants, descriptors, addresses, requested, verdict, lines>> /\ Answer
\* The file is emptied before anything is known of the answer.
OpenFile ==
    /\ doing = "file"
    /\ \/ /\ doing' = "robots" /\ UNCHANGED exitcode
          /\ descriptors' = (IF options.file THEN {"out"} ELSE {})
       \/ options.file /\ doing' = "done" /\ exitcode' = 1 /\ UNCHANGED descriptors
    /\ UNCHANGED <<wants, addresses>> /\ Request /\ Answer
\* down_check_robots, and the temporary file of fetch_robots
Robots ==
    /\ doing = "robots" /\ doing' = "resolve"
    /\ IF options.ignore THEN wants' = "page" /\ UNCHANGED descriptors
       ELSE \/ wants' = "robots" /\ descriptors' = descriptors \cup {"tmp"}
            \/ wants' = "page" /\ UNCHANGED descriptors
    /\ UNCHANGED <<addresses, exitcode>> /\ Request /\ Answer

\* Mutant: the connection stays open.
GiveUpLeaking ==
    IF wants = "robots"
    THEN wants' = "page" /\ doing' = "resolve" /\ descriptors' = descriptors \ {"tmp"} /\ UNCHANGED exitcode
    ELSE doing' = "end" /\ exitcode' = 1 /\ UNCHANGED <<wants, descriptors>>
\* A failure: without robots.txt the page is requested for all the same, without the page it is the end.
GiveUp ==
    IF wants = "robots"
    THEN wants' = "page" /\ doing' = "resolve" /\ descriptors' = descriptors \ {"tmp", "conn"} /\ UNCHANGED exitcode
    ELSE doing' = "end" /\ exitcode' = 1 /\ descriptors' = descriptors \ {"conn"} /\ UNCHANGED wants

\* tcp_connect: the addresses of the host, one after the other
Resolve ==
    /\ doing = "resolve" /\ \E n \in 0 .. MaxAddresses : addresses' = n
    /\ doing' = "try" /\ UNCHANGED <<wants, descriptors, exitcode>> /\ Request /\ Answer
TryAddress(connects) ==
    /\ doing = "try"
    /\ IF addresses = 0 THEN ~connects /\ GiveUp /\ UNCHANGED addresses
       ELSE IF connects
       THEN /\ descriptors' = descriptors \cup {"conn"} /\ doing' = (IF options.tls THEN "handshake" ELSE "send")
            /\ UNCHANGED <<wants, addresses, exitcode>>
       ELSE addresses' = addresses - 1 /\ UNCHANGED <<doing, wants, descriptors, exitcode>>
    /\ Request /\ Answer
Handshake(succeeds) ==
    /\ doing = "handshake"
    /\ IF succeeds THEN doing' = "send" /\ UNCHANGED <<wants, descriptors, exitcode>> ELSE GiveUp
    /\ UNCHANGED addresses /\ Request /\ Answer

(***************************************************************************)
(* The answer                                                              *)
(***************************************************************************)
\* The tokens of an answer: chunks of one or two bytes have their sizes before them.
Chunk(b) == <<<<"size", Len(b)>>>> \o b \o <<<<"line", 0>>>>
LastChunk == <<<<"size", 0>>, <<"line", 0>>>>
\* The last bytes of a body of n, in chunks
Chunked(n) ==
    LET Left[l \in 0 .. n] ==
            IF l = 0 THEN LastChunk
            ELSE LET p == IF l = 1 THEN 1 ELSE 2 IN Chunk(SubSeq(Body(n), n - l + 1, n - l + p)) \o Left[l - p]
    IN  Left
Encoded(a) == <<<<"head", 0>>>> \o (IF a.framing = "chunked" THEN Chunked(a.size)[a.size] ELSE Body(a.size))
\* The request is sent, or not; an answer may be cut short anywhere.
Send(a, cut) ==
    /\ doing = "send" /\ UNCHANGED <<options, addresses, verdict, lines>>
    /\ \/ /\ requested' = requested \cup {wants} /\ answer' = a /\ wire' = SubSeq(Encoded(a), 1, Len(Encoded(a)) - cut)
          /\ prefill' = <<>> /\ remain' = 0 /\ written' = <<>> /\ came' = 0 /\ doing' = "head"
          /\ UNCHANGED <<wants, descriptors, exitcode>>
       \/ GiveUp /\ UNCHANGED requested /\ Answer

\* The read that ends the head brings some of the body along.
ReadHead(k) ==
    /\ doing = "head" /\ k \in 1 .. Len(wire)
    /\ LET more == SubSeq(wire, 2, k)
           part == SubSeq(more, 1, IF Len(more) < answer.size THEN Len(more) ELSE answer.size)
       IN CASE answer.framing = "chunked" ->
                 doing' = "chunk" /\ prefill' = more /\ UNCHANGED <<remain, written, came>>
            [] answer.framing = "length" ->
                 /\ written' = part /\ remain' = answer.size - Len(part) /\ came' = Len(part)
                 /\ prefill' = more /\ doing' = "rest"
            [] OTHER -> written' = more /\ prefill' = <<>> /\ doing' = "drain" /\ UNCHANGED <<remain, came>>
    /\ wire' = SubSeq(wire, k + 1, Len(wire))
    /\ UNCHANGED <<wants, descriptors, addresses, exitcode, answer>> /\ Request
\* No head, or none that can be read
NoHead ==
    /\ doing = "head" /\ GiveUp /\ UNCHANGED addresses /\ Request /\ Answer

Succeeded == doing' = "answered" /\ UNCHANGED <<wants, descriptors, exitcode>>
Reading == UNCHANGED <<addresses, answer, came>> /\ Request
Stream == prefill \o wire
\* Mutant: the line behind a chunk is not read.
ReadChunkOnly ==
    /\ doing = "chunk" /\ Reading
    /\ LET n == IF Stream # <<>> THEN Stream[1][2] ELSE 0 IN
       IF Stream = <<>> \/ Len(Stream) < n + 2 THEN GiveUp /\ written' = (IF Len(Stream) > n THEN written \o SubSeq(Stream, 2, n + 1) ELSE written)
            /\ UNCHANGED <<wire, prefill, remain>>
       ELSE /\ written' = written \o SubSeq(Stream, 2, n + 1) /\ prefill' = <<>> /\ wire' = SubSeq(Stream, n + 2, Len(Stream))
            /\ UNCHANGED remain
            /\ IF n = 0 THEN Succeeded ELSE UNCHANGED <<doing, wants, descriptors, exitcode>>
\* read_chunked: a size, so many bytes, a line; the last one has size 0 and trailers.
ReadChunk ==
    /\ doing = "chunk" /\ Reading
    /\ LET n == IF Stream # <<>> THEN Stream[1][2] ELSE 0 IN
       IF Stream = <<>> \/ Len(Stream) < n + 2 THEN GiveUp /\ written' = (IF Len(Stream) > n THEN written \o SubSeq(Stream, 2, n + 1) ELSE written)
            /\ UNCHANGED <<wire, prefill, remain>>
       ELSE /\ written' = written \o SubSeq(Stream, 2, n + 1) /\ prefill' = <<>> /\ wire' = SubSeq(Stream, n + 3, Len(Stream))
            /\ UNCHANGED remain
            /\ IF n = 0 THEN Succeeded ELSE UNCHANGED <<doing, wants, descriptors, exitcode>>
\* The rest of a body whose length is known, through a stream whose prefill has been
\* written but not taken out: it comes first once more.
ReadRest(k) ==
    /\ doing = "rest" /\ Reading
    /\ IF remain = 0 THEN k = 1 /\ Succeeded /\ UNCHANGED <<written, wire, prefill, remain>>
       ELSE IF prefill # <<>>
       THEN LET n == IF Len(prefill) < remain THEN Len(prefill) ELSE remain IN
            /\ k = 1 /\ written' = written \o SubSeq(prefill, 1, n) /\ prefill' = SubSeq(prefill, n + 1, Len(prefill))
            /\ remain' = remain - n /\ UNCHANGED <<doing, wants, descriptors, exitcode, wire>>
       ELSE IF wire = <<>> THEN k = 1 /\ GiveUp /\ UNCHANGED <<written, wire, prefill, remain>>
       ELSE /\ k <= Len(wire) /\ k <= remain
            /\ written' = written \o SubSeq(wire, 1, k) /\ wire' = SubSeq(wire, k + 1, Len(wire)) /\ remain' = remain - k
            /\ UNCHANGED <<doing, wants, descriptors, exitcode, prefill>>
\* A body that ends with the connection, however that ends
ReadToEnd(k) ==
    /\ doing = "drain" /\ Reading /\ UNCHANGED <<prefill, remain>>
    /\ IF wire = <<>> THEN k = 1 /\ Succeeded /\ UNCHANGED <<written, wire>>
       ELSE /\ k <= Len(wire) /\ written' = written \o SubSeq(wire, 1, k) /\ wire' = SubSeq(wire, k + 1, Len(wire))
            /\ UNCHANGED <<doing, wants, descriptors, exitcode>>

NotRead == answer' = NoAnswer /\ written' = <<>> /\ came' = 0
\* The answer is there.  Whatever its status, a download of the page is done; robots.txt is
\* read from the file when it has a status of success, and its connection is closed first.
Answered(status) ==
    /\ doing = "answered" /\ descriptors' = descriptors \ {"tmp", "conn"} /\ addresses' = 0
    /\ doing' = (IF wants = "page" THEN "end" ELSE IF status = "ok" THEN "rules" ELSE "resolve")
    /\ IF wants = "page" THEN status = "ok" /\ UNCHANGED wants /\ Answer
       ELSE /\ wants' = (IF status = "ok" THEN wants ELSE "page")
            /\ IF status = "ok" THEN UNCHANGED <<answer, written, came>> ELSE NotRead
            /\ wire' = <<>> /\ prefill' = <<>> /\ remain' = 0
    /\ UNCHANGED exitcode /\ Request

(***************************************************************************)
(* robots.txt                                                              *)
(***************************************************************************)
\* The next line that was written: any, but the one it was if it was written before.
ReadLine(l) ==
    /\ doing = "rules" /\ Len(lines) < Len(written) /\ lines' = Append(lines, l)
    /\ \A j \in 1 .. Len(lines) : written[j] = written[Len(lines) + 1] => lines[j] = l
    /\ UNCHANGED <<doing, wants, options, descriptors, addresses, requested, verdict, exitcode>> /\ Answer

IsRule(l) == l[1] \in {"allow", "deny"}
\* Mutant: every line that names an agent begins a group.
AfterEach(acc, l) ==
    IF l[1] = "agent" THEN [acc EXCEPT !.match = (l[2] = 1), !.saw = TRUE]
    ELSE IF l[1] = "blank" THEN [acc EXCEPT !.match = FALSE, !.saw = FALSE]
    ELSE IF IsRule(l) /\ acc.match /\ l[2] > acc.best THEN [acc EXCEPT !.best = l[2], !.allow = (l[1] = "allow")]
    ELSE acc
\* current_group_match, saw_ua, best_len and best_allow after a line
After(acc, l) ==
    IF l[1] = "agent" THEN [acc EXCEPT !.match = (l[2] = 1 \/ (acc.saw /\ acc.match)), !.saw = TRUE]
    ELSE IF l[1] = "blank" THEN [acc EXCEPT !.match = FALSE, !.saw = FALSE]
    ELSE IF IsRule(l) /\ acc.match /\ l[2] > acc.best THEN [acc EXCEPT !.best = l[2], !.allow = (l[1] = "allow")]
    ELSE acc
NoRules == [match |-> FALSE, saw |-> FALSE, best |-> 0, allow |-> TRUE]
RulesTo[k \in 0 .. Len(lines)] == IF k = 0 THEN NoRules ELSE After(RulesTo[k - 1], lines[k])
Rules == RulesTo[Len(lines)]
Allowed == Rules.allow

\* Mutant: what is not allowed is only reported.
ObeyNot ==
    /\ doing = "rules" /\ Len(lines) = Len(written) /\ lines' = <<>> /\ NotRead
    /\ wants' = "page" /\ doing' = "resolve" /\ UNCHANGED exitcode
    /\ verdict' = (IF Allowed THEN "allowed" ELSE "denied")
    /\ UNCHANGED <<options, descriptors, addresses, requested, wire, prefill, remain>>
\* The page is requested for, or down ends.
Obey ==
    /\ doing = "rules" /\ Len(lines) = Len(written) /\ lines' = <<>> /\ NotRead
    /\ IF Allowed THEN verdict' = "allowed" /\ doing' = "resolve" /\ wants' = "page" /\ UNCHANGED exitcode
       ELSE verdict' = "denied" /\ doing' = "end" /\ exitcode' = 1 /\ UNCHANGED wants
    /\ UNCHANGED <<options, descriptors, addresses, requested, wire, prefill, remain>>
\* main closes the file.
End ==
    /\ doing = "end" /\ doing' = "done" /\ descriptors' = descriptors \ {"out"}
    /\ UNCHANGED <<wants, addresses, exitcode>> /\ Request /\ Answer

Reads == 1 .. Len(wire)
FetchStep ==
    \/ Args \/ OpenFile \/ Robots \/ Resolve \/ NoHead \/ ReadChunk \/ End
    \/ doing \in {"try", "handshake"} /\ \E b \in BOOLEAN : TryAddress(b) \/ Handshake(b)
    \/ doing = "send" /\ \E f \in Framings, n \in Sizes :
        LET a == [framing |-> f, size |-> n] IN \E cut \in 0 .. Len(Encoded(a)) : Send(a, cut)
    \/ doing = "head" /\ \E k \in Reads : ReadHead(k)
    \/ doing \in {"rest", "drain"} /\ \E k \in Reads \cup {1} : ReadRest(k) \/ ReadToEnd(k)
    \/ doing = "answered" /\ \E status \in {"ok", "other"} : Answered(status)
    \/ doing = "rules" /\ (Obey \/ \E l \in LineKinds : ReadLine(l))
Next == FetchStep
Spec == Init /\ [][Next]_fetchVars /\ WF_fetchVars(FetchStep)

(***************************************************************************)
(* Properties                                                              *)
(***************************************************************************)
Done == doing = "done" /\ exitcode = 0 /\ "page" \in requested
\* A body with a length of which the first came bytes came with the head: those are written,
\* then the first of them once more, then the others, less as many at the end.
Least(a, b) == IF a < b THEN a ELSE b
Again == Least(came, answer.size - came)
Doubled == Body(came) \o Body(Again) \o SubSeq(Body(answer.size), came + 1, answer.size - Again)
\* A body that was fetched, the page or robots.txt, is written as follows: all of one in
\* chunks, all or the beginning of one that ends with the connection, and one with a length
\* in that many bytes, with what came with the head doubled and as much missing at the end;
\* so it is right if all of it came with the head, or nothing (http.c:312).
BodyWritten ==
    Done \/ doing = "rules" =>
        CASE answer.framing = "chunked" -> written = Body(answer.size)
          [] answer.framing = "close" -> Len(written) <= answer.size /\ written = Body(Len(written))
          [] OTHER -> came <= answer.size /\ written = Doubled

\* A page that robots.txt keeps from us is not requested for, unless we are told to
\* (core/robots.c:5).
RobotsHonoured == "page" \in requested => options.ignore \/ verdict # "denied"

Between(i, j, P(_)) == \E k \in i + 1 .. j - 1 : P(lines[k])
Blank(l) == l[1] = "blank"
\* The rules of a group: those after its agents. Only a blank line ends it.
Ours(j) ==
    /\ IsRule(lines[j]) /\ lines[j][2] > 0
    /\ \E i \in 1 .. j - 1 : lines[i] = <<"agent", 1>> /\ ~Between(i, j, Blank)
\* Of the lines that were written, the longest rule of all the groups that name us decides,
\* or name all, the first of two that are as long; without one all is allowed (robots.c:88).
VerdictRight ==
    doing = "rules" =>
        \/ Allowed /\ ~\E j \in 1 .. Len(lines) : Ours(j)
        \/ \E j \in 1 .. Len(lines) :
            /\ Ours(j) /\ Allowed = (lines[j][1] = "allow")
            /\ \A k \in 1 .. Len(lines) : Ours(k) =>
                lines[k][2] < lines[j][2] \/ (lines[k][2] = lines[j][2] /\ j <= k)

\* One connection at a time, and whichever of the steps fails, all that was opened is
\* closed at the end (transport.c:296).
AllClosed ==
    /\ doing = "done" => descriptors = {}
    /\ doing \in {"robots", "resolve", "try"} => "conn" \notin descriptors
    /\ wants = "page" => "tmp" \notin descriptors

\* The bytes that came with the head are written once, and the others after them
\* (http.c:309).
BodyAsSent == Done /\ answer.framing = "length" => written = Body(answer.size)

\* A download ends when the server sends its answer or hangs up.
Waits == doing # "args"
Settled == doing = "done"
=============================================================================
