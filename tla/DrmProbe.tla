------------------------------ MODULE DrmProbe ------------------------------
(***************************************************************************)
(* What srapi tells of the cards of a machine before one is opened         *)
(* (display/drm_probe.c): the displays of a card, and the card it          *)
(* recommends.  The kernel is asked twice for the list and for each        *)
(* connector, for the length and then for the contents, and any call may   *)
(* fail.  Connectors that come between the two questions are left out.     *)
(***************************************************************************)
EXTENDS Integers, Sequences

CONSTANTS Cards,          \* how many are tried, 8 in the code
          MaxConnectors,  \* bound: of a card
          Room            \* displays that srapi_drm_recommend has room for, 16

VARIABLES
    card,         \* the card under way
    there,        \* its connectors: the connected ones are TRUE
    next,         \* the connector to be asked
    stage,        \* of the loops: "card", "list", "ask", "fill" or "score"
    counted,      \* displays counted
    display,      \* one of those in the caller's array is connected
    best,         \* what is recommended: card and score, card -1 before the first
    scores        \* ghost: what was given to each card, -1 to one that cannot be read

probing == <<card, there, next, stage, counted, display, best, scores>>
Lists == UNION {[1 .. n -> BOOLEAN] : n \in 0 .. MaxConnectors}

Init ==
    /\ card = 0 /\ there = <<>> /\ next = 1 /\ stage = "card"
    /\ counted = 0 /\ display = FALSE /\ best = [card |-> -1, score |-> -1] /\ scores = <<>>

\* access says no.
Unreadable ==
    /\ stage = "card" /\ card < Cards /\ card' = card + 1
    /\ scores' = Append(scores, [score |-> -1, display |-> FALSE])
    /\ UNCHANGED <<there, next, stage, counted, display, best>>

\* The first GETRESOURCES, and the arrays; a failure ends the probe of the card.
AskLength ==
    /\ stage = "card" /\ card < Cards
    /\ there' \in Lists /\ counted' = 0 /\ display' = FALSE /\ next' = 1
    /\ stage' \in {"list", "score"}
    /\ UNCHANGED <<card, best, scores>>

\* The second one.  When it fails, connectors alone are asked for again.
FillList ==
    /\ stage = "list" /\ stage' \in {"ask", "score"}
    /\ UNCHANGED <<card, there, next, counted, display, best, scores>>

\* The first GETCONNECTOR may fail, as may the allocations: it is left out then.
AskConnector ==
    /\ stage = "ask"
    /\ IF next > Len(there) THEN stage' = "score" /\ UNCHANGED next
       ELSE \/ stage' = "fill" /\ UNCHANGED next
            \/ next' = next + 1 /\ UNCHANGED stage
    /\ UNCHANGED <<card, there, counted, display, best, scores>>

\* Mutant: a connector whose second call fails is asked again.
FillConnectorAgain ==
    /\ stage = "fill" /\ stage' = "ask"
    /\ \/ /\ counted' = counted + 1 /\ next' = next + 1
          /\ display' = (display \/ (there[next] /\ counted < Room))
       \/ UNCHANGED <<next, counted, display>>
    /\ UNCHANGED <<card, there, best, scores>>

\* The second GETCONNECTOR: displays beyond the caller's array are counted only.
FillConnector ==
    /\ stage = "fill" /\ stage' = "ask" /\ next' = next + 1
    /\ \/ /\ counted' = counted + 1
          /\ display' = (display \/ (there[next] /\ counted < Room))
       \/ UNCHANGED <<counted, display>>
    /\ UNCHANGED <<card, there, best, scores>>

\* Mutant: of equal cards the last is taken.
BetterOrSame(score) == score >= best.score

Better(score) == score > best.score

\* srapi_probe_i915 says no, something, or that the card can do it all.
Score ==
    /\ stage = "score" /\ stage' = "card" /\ card' = card + 1
    /\ \E points \in {0, 2, 5} :
        LET score == 1 + (IF display THEN 10 ELSE 0) + points
        IN  /\ best' = IF Better(score) THEN [card |-> card, score |-> score] ELSE best
            /\ scores' = Append(scores, [score |-> score, display |-> display])
    /\ there' = <<>>
    /\ UNCHANGED <<next, counted, display>>

Next == Unreadable \/ AskLength \/ FillList \/ AskConnector \/ FillConnector \/ Score

ProbeStep == AskLength \/ FillList \/ AskConnector \/ FillConnector \/ Score
Spec == Init /\ [][Next]_probing /\ WF_probing(ProbeStep)

-----------------------------------------------------------------------------
TypeOK ==
    /\ card \in 0 .. Cards /\ there \in Lists /\ counted \in 0 .. MaxConnectors
    /\ stage \in {"card", "list", "ask", "fill", "score"}

\* The card that is recommended is the first of those with the most points,
\* and has a display when any card showed one, whatever its driver can do and
\* whichever calls failed for the others.
BestRecommended ==
    LET said == {i \in 1 .. Len(scores) : scores[i].score >= 0}
        first(i) == \A j \in said :
            scores[j].score < scores[i].score \/ (scores[j].score = scores[i].score /\ i <= j)
    IN  IF said = {} THEN best.card = -1
        ELSE /\ best.card + 1 \in said /\ first(best.card + 1)
             /\ (\E i \in said : scores[i].display) => scores[best.card + 1].display

\* A recommendation is given in the end, whichever calls fail.
Waits == card < Cards
Settled == card = Cards
=============================================================================
