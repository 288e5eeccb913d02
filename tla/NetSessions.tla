---------------------------- MODULE NetSessions ----------------------------
(***************************************************************************)
(* The TLS sessions of libs/net (transport.c): a table that connections of *)
(* any thread take a session from and put a new one into, each under a     *)
(* mutex.  A session is freed with its last reference.                     *)
(***************************************************************************)
EXTENDS Integers, FiniteSets

CONSTANTS
    Hosts,
    Threads,
    Slots,        \* TLS_SESS_CACHE_SLOTS
    MaxSessions,  \* bound: sessions at a time
    MaxClock      \* bound: uses of the table

VARIABLES
    table,        \* g_sess_cache: for each slot its host and session, and gen
    clock,        \* g_sess_gen
    references,   \* of each session
    connection,   \* of each thread: its host, and the sessions it refers to
    recent        \* ghost: when each host was used last, by the clock; 0: never
sessVars == <<table, clock, references, connection, recent>>

Sessions == 1 .. MaxSessions
Free == [host |-> "", session |-> 0, gen |-> 0]
Closed == [step |-> "closed", host |-> "", held |-> 0]
TypeOK ==
    /\ \A s \in 1 .. Slots : table[s].host \in Hosts \cup {""} /\ table[s].session \in 0 .. MaxSessions /\ table[s].gen \in Nat
    /\ clock \in Nat /\ references \in [Sessions -> Nat] /\ recent \in [Hosts -> Nat]
    /\ \A t \in Threads : connection[t].step \in {"closed", "open", "set", "shaken", "connected"} /\ connection[t].held \in 0 .. MaxSessions

Init ==
    /\ table = [s \in 1 .. Slots |-> Free] /\ clock = 0 /\ references = [x \in Sessions |-> 0]
    /\ connection = [t \in Threads |-> Closed] /\ recent = [h \in Hosts |-> 0]

Used(h) == recent' = [recent EXCEPT ![h] = clock + 1]
SlotOf(h) == {s \in 1 .. Slots : table[s].session # 0 /\ table[s].host = h}
Taking(x, n) == IF x = 0 THEN references ELSE [references EXCEPT ![x] = @ + n]

\* Mutant: the caller gets the table's reference.
GetBorrowed(t, h) ==
    /\ connection[t].step = "closed"
    /\ IF SlotOf(h) = {} THEN connection' = [connection EXCEPT ![t] = [step |-> "open", host |-> h, held |-> 0]] /\ UNCHANGED <<table, clock, references, recent>>
       ELSE LET s == CHOOSE s \in SlotOf(h) : TRUE IN
            /\ connection' = [connection EXCEPT ![t] = [step |-> "open", host |-> h, held |-> table[s].session]]
            /\ table' = [table EXCEPT ![s].gen = clock + 1] /\ clock' = clock + 1 /\ Used(h)
            /\ UNCHANGED references
\* sess_cache_get: one more reference, and the slot is the youngest.
Get(t, h) ==
    /\ connection[t].step = "closed"
    /\ IF SlotOf(h) = {} THEN connection' = [connection EXCEPT ![t] = [step |-> "open", host |-> h, held |-> 0]] /\ UNCHANGED <<table, clock, references, recent>>
       ELSE LET s == CHOOSE s \in SlotOf(h) : TRUE IN
            /\ connection' = [connection EXCEPT ![t] = [step |-> "open", host |-> h, held |-> table[s].session]]
            /\ table' = [table EXCEPT ![s].gen = clock + 1] /\ clock' = clock + 1 /\ Used(h)
            /\ references' = Taking(table[s].session, 1)
\* SSL_set_session takes a reference of its own; the caller gives its back.
Set(t) ==
    /\ connection[t].step = "open" /\ connection' = [connection EXCEPT ![t].step = "set"]
    /\ UNCHANGED <<table, clock, references, recent>>
\* The handshake fails, or there is a session: the old one again or, after a full one, another.
Shake(t, x) ==
    /\ connection[t].step = "set"
    /\ \/ connection' = [connection EXCEPT ![t] = Closed] /\ references' = Taking(connection[t].held, -1)
       \/ /\ x \in Sessions /\ x = connection[t].held
          /\ connection' = [connection EXCEPT ![t].step = "shaken"] /\ references' = Taking(x, 1)
       \/ /\ x \in Sessions /\ references[x] = 0 /\ \A y \in Sessions : references[y] = 0 => x <= y
          /\ connection' = [connection EXCEPT ![t] = [step |-> "shaken", host |-> connection[t].host, held |-> x]]
          /\ references' = [Taking(connection[t].held, -1) EXCEPT ![x] = 2]
    /\ UNCHANGED <<table, clock, recent>>

\* Mutant: without a free slot, the youngest gives way.
VictimYoungest ==
    LET free == {s \in 1 .. Slots : table[s].session = 0} IN
    IF free # {} THEN CHOOSE s \in free : \A o \in free : s <= o
    ELSE CHOOSE s \in 1 .. Slots : \A o \in 1 .. Slots : table[o].gen <= table[s].gen
\* The slot for a host that has none: a free one, or else the one that was used longest ago.
Victim ==
    LET free == {s \in 1 .. Slots : table[s].session = 0} IN
    IF free # {} THEN CHOOSE s \in free : \A o \in free : s <= o
    ELSE CHOOSE s \in 1 .. Slots : \A o \in 1 .. Slots : table[s].gen <= table[o].gen
\* sess_cache_put: the table takes the reference; what was in the slot loses its own.
Put(t) ==
    LET h == connection[t].host
        s == IF SlotOf(h) # {} THEN CHOOSE s \in SlotOf(h) : TRUE ELSE Victim IN
    /\ connection[t].step = "shaken" /\ connection' = [connection EXCEPT ![t].step = "connected"]
    /\ table' = [table EXCEPT ![s] = [host |-> h, session |-> connection[t].held, gen |-> clock + 1]] /\ clock' = clock + 1
    /\ references' = Taking(table[s].session, -1) /\ Used(h)
\* net_conn_close: the connection's own reference
Close(t) ==
    /\ connection[t].step = "connected" /\ connection' = [connection EXCEPT ![t] = Closed]
    /\ references' = Taking(connection[t].held, -1) /\ UNCHANGED <<table, clock, recent>>

Next == \E t \in Threads :
    \/ Set(t) \/ Close(t) \/ (\E x \in {0} \cup Sessions : Shake(t, x))
    \/ clock < MaxClock /\ (Put(t) \/ \E h \in Hosts : Get(t, h))
Spec == Init /\ [][Next]_sessVars

(***************************************************************************)
(* Properties                                                              *)
(***************************************************************************)
\* A session has as many references as there are slots and connections that refer to it,
\* so none is freed while it can be taken, and none is kept for ever (transport.c:79).
ReferencesExact ==
    \A x \in Sessions :
        references[x] = Cardinality({s \in 1 .. Slots : table[s].session = x})
                        + Cardinality({t \in Threads : connection[t].held = x})
                        + Cardinality({t \in Threads : connection[t].held = x /\ connection[t].step = "shaken"})

\* The table holds the hosts that were used last, each once, and lets go of one only for
\* want of a slot (transport.c:92).
LatestKept ==
    LET full == {s \in 1 .. Slots : table[s].session # 0} IN
    /\ \A s, o \in full : s # o => table[s].host # table[o].host
    /\ \A s \in full : recent[table[s].host] > 0
    /\ \A h \in Hosts : recent[h] > 0 =>
        \/ \E s \in full : table[s].host = h
        \/ full = 1 .. Slots /\ \A s \in full : recent[h] < recent[table[s].host]
=============================================================================
