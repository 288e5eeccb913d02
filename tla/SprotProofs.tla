---------------------------- MODULE SprotProofs ----------------------------
(***************************************************************************)
(* Proofs about a client of sprot and the compositor's end of its          *)
(* connection, for every bound, any size of the ring and any buffers.      *)
(*                                                                         *)
(* What makes the invariants inductive is proved in parts, each from the   *)
(* types and the parts before it.  A part is about one thing that is on    *)
(* its way from one end to the other: a number (Numbered), a handle        *)
(* (Fresh, Once), a wait (Waiting), a surface (Owned), a drawing and the   *)
(* buffer that shows it (Drawings, Painted).                               *)
(*                                                                         *)
(* The steps are sorted by what they do to the two streams, so that each   *)
(* part is proved for a few kinds of step and not for thirty actions:      *)
(* Talk, Forget, Turn, Pass and Create on the client's side, Calm and Made *)
(* on the compositor's.                                                    *)
(***************************************************************************)
EXTENDS Sprot, FiniteSetTheorems, SequenceTheorems, TLAPS

Modes == {"new", "connect", "idle", "await", "ready", "gone"}
RequestTypes == {"hello", "create", "attach", "commit", "destroy", "role", "frame", "query", "ping"}
Plain == [type : RequestTypes \ {"attach", "commit"}, id : Nat, arg : Nat]
Buffered == [type : {"attach", "commit"}, id : Nat \ {0}, arg : Buffers]
Requests == Plain \cup Buffered
Kinds == {"welcome", "created", "error", "render_node", "pong", "frame", "input"}
Events == [kind : Kinds, id : Nat, arg : Nat, no : Nat]
Objects == [live : BOOLEAN, id : Nat, resized : 0 .. MaxResize, attached : Buffers]
SrvSurfaces == [handle : Handles, buffer : Buffers, wantsFrame : BOOLEAN, parent : Nat]

\* A request names surfaces that the client has heard of, and so were made.
RequestOK(r) == r \in Requests /\ r.id <= created /\ (r.type = "create" => r.arg \in Handles)
EventOK(e) ==
    /\ e \in Events
    /\ e.kind = "created" => e.id \in 1 .. created /\ e.arg \in Handles

ClientTypes ==
    /\ closed \in BOOLEAN /\ mode \in Modes /\ (closed => mode = "gone")
    /\ serial \in 1 .. MaxSerial /\ nextHandle \in 1 .. MaxHandle + 1
    /\ obj \in [Handles -> Objects] /\ \A h \in Handles : obj[h].id <= created
    /\ refused \subseteq Handles /\ early \subseteq Handles
    /\ overlap \subseteq Handles /\ ready \subseteq Handles
    /\ waitFor \in Handles \cup {0} /\ (mode = "ready" <=> waitFor # 0)
    /\ (mode = "ready" => obj[waitFor].live)
    /\ draw \in [Handles -> Buffers] /\ got \in Nat
ServerTypes ==
    /\ alive \in BOOLEAN /\ inputs \in 0 .. MaxInput
    /\ created \in Nat /\ eventNo \in Nat
    /\ DOMAIN srv \subseteq 1 .. created /\ srv \in [DOMAIN srv -> SrvSurfaces]
    /\ Cardinality(DOMAIN srv) <= Limit
WireTypes ==
    /\ toServer \in Seq(Requests) /\ \A i \in DOMAIN toServer : RequestOK(toServer[i])
    /\ toClient \in Seq(Events) /\ \A i \in DOMAIN toClient : EventOK(toClient[i])
    /\ pending \in Seq(Events) /\ \A i \in DOMAIN pending : EventOK(pending[i])
    /\ pending = <<>> \/ \E e : pending = <<e>>
Types == ClientTypes /\ ServerTypes /\ WireTypes

-----------------------------------------------------------------------------
(* The kinds of steps *)

\* The streams keep no more than they had, in the same order.
ServerStreamKept ==
    \/ toServer' = toServer \/ toServer' = <<>>
    \/ toServer # <<>> /\ toServer' = Tail(toServer)
ClientStreamKept ==
    \/ toClient' = toClient \/ toClient' = <<>>
    \/ toClient # <<>> /\ toClient' = Tail(toClient)

\* Requests that make no surface.
Talk ==
    /\ \E rs \in Seq(Requests) :
          /\ toServer' = toServer \o rs
          /\ \A i \in DOMAIN rs : RequestOK(rs[i]) /\ rs[i].type # "create"
    /\ serial' \in 1 .. MaxSerial /\ mode' \in Modes \ {"ready"} /\ mode \notin {"ready", "gone"}
    /\ obj' \in [Handles -> Objects] /\ draw' \in [Handles -> Buffers]
    /\ \A h \in Handles : obj'[h].live = obj[h].live /\ obj'[h].id = obj[h].id
    /\ UNCHANGED <<alive, closed, srv, created, refused, eventNo, inputs, toClient, nextHandle,
                   pending, waitFor, got, early, overlap, ready>>

\* A surface of the client goes.
Forget(h) ==
    /\ mode \in {"idle", "ready"} /\ Destroyed(h) /\ obj[h].live /\ mode' = "idle" /\ waitFor' = 0
    /\ UNCHANGED <<alive, closed, srv, created, refused, eventNo, inputs, toClient, nextHandle,
                   pending, got>>

\* One event is taken, from the ring or from the stream, and may be put back.
Turn ==
    /\ Take
    /\ \/ pending' = <<>> /\ got' \in {got, NextEvent.no}
       \/ pending' = <<NextEvent>> /\ got' = got /\ mode # "ready"
    /\ \/ mode \notin {"ready", "gone"} /\ mode' \in {"idle", "await"} /\ UNCHANGED <<waitFor, ready>>
       \/ /\ mode = "ready" /\ NextEvent.kind = "created"
          /\ mode' = "idle" /\ waitFor' = 0 /\ ready' = ready \cup {waitFor}
       \/ mode = "ready" /\ NextEvent.kind # "created" /\ UNCHANGED <<mode, waitFor, ready>>
    /\ UNCHANGED <<serial, nextHandle, draw, early, overlap, alive, closed, toServer,
                   srv, created, refused, eventNo, inputs>>

\* The application waits no longer, or its connection has ended.
Pass ==
    /\ ClientStreamKept /\ (closed' = closed \/ (closed' = TRUE /\ mode' = "gone"))
    /\ mode \notin {"ready", "gone"} /\ mode' \in Modes \ {"ready"}
    /\ UNCHANGED <<serial, obj, nextHandle, pending, waitFor, draw, got, early, overlap, ready,
                   alive, toServer, srv, created, refused, eventNo, inputs>>

\* The compositor makes no surface.
Calm ==
    /\ ServerStreamKept
    /\ \/ UNCHANGED <<toClient, eventNo>>
       \/ \E kind \in Kinds \ {"created"}, id \in Nat, arg \in Nat : Send(kind, id, arg)
    /\ DOMAIN srv' \subseteq DOMAIN srv /\ srv' \in [DOMAIN srv' -> SrvSurfaces]
    /\ \A i \in DOMAIN srv' : srv'[i].handle = srv[i].handle
    /\ refused' \subseteq Handles /\ alive' \in BOOLEAN /\ inputs' \in 0 .. MaxInput
    /\ UNCHANGED <<clientVars, closed, created>>

\* The compositor makes a surface.
Made ==
    /\ toServer # <<>> /\ toServer' = Tail(toServer)
    /\ toServer[1].type = "create" /\ Cardinality(DOMAIN srv) < Limit
    /\ created' = created + 1
    /\ DOMAIN srv' = DOMAIN srv \cup {created + 1}
    /\ \A i \in DOMAIN srv : srv'[i] = srv[i]
    /\ srv'[created + 1] = [handle |-> toServer[1].arg, buffer |-> NoBuffer, wantsFrame |-> FALSE, parent |-> 0]
    /\ srv' \in [DOMAIN srv' -> SrvSurfaces]
    /\ Send("created", created + 1, toServer[1].arg)
    /\ UNCHANGED <<clientVars, alive, closed, refused, inputs>>

-----------------------------------------------------------------------------
(* Sequences and ranks *)

\* What a stream holds after something was added to it.
LEMMA Longer ==
    ASSUME NEW S, NEW q \in Seq(S), NEW rs \in Seq(S), NEW p, p = q \o rs
    PROVE  /\ p \in Seq(S) /\ Len(p) = Len(q) + Len(rs) /\ DOMAIN p = 1 .. Len(q) + Len(rs)
           /\ DOMAIN q = 1 .. Len(q) /\ DOMAIN rs = 1 .. Len(rs)
           /\ Len(q) \in Nat /\ Len(rs) \in Nat
           /\ \A i \in DOMAIN q : i \in DOMAIN p /\ p[i] = q[i]
           /\ \A i \in DOMAIN rs : Len(q) + i \in DOMAIN p /\ p[Len(q) + i] = rs[i]
           /\ \A i \in DOMAIN p : \/ i \in DOMAIN q /\ p[i] = q[i]
                                  \/ i - Len(q) \in DOMAIN rs /\ p[i] = rs[i - Len(q)]
<1>1. /\ p \in Seq(S) /\ Len(p) = Len(q) + Len(rs)
      /\ \A i \in 1 .. Len(q) + Len(rs) : p[i] = IF i <= Len(q) THEN q[i] ELSE rs[i - Len(q)]
    BY ConcatProperties
<1>2. /\ Len(q) \in Nat /\ Len(rs) \in Nat /\ DOMAIN q = 1 .. Len(q) /\ DOMAIN rs = 1 .. Len(rs)
      /\ DOMAIN p = 1 .. Len(p)
    BY <1>1, LenProperties
<1> QED BY <1>1, <1>2

\* And after its first was taken.
LEMMA Shorter ==
    ASSUME NEW S, NEW q \in Seq(S), q # <<>>, NEW p, p = Tail(q)
    PROVE  /\ p \in Seq(S) /\ Len(p) = Len(q) - 1 /\ DOMAIN p = 1 .. Len(q) - 1
           /\ Len(q) \in Nat \ {0} /\ DOMAIN q = 1 .. Len(q) /\ 1 \in DOMAIN q /\ Head(q) = q[1]
           /\ \A i \in DOMAIN p : i + 1 \in DOMAIN q /\ p[i] = q[i + 1]
           /\ \A i \in DOMAIN q : i # 1 => i - 1 \in DOMAIN p /\ p[i - 1] = q[i]
<1>1. /\ p \in Seq(S) /\ Len(p) = Len(q) - 1 /\ \A i \in 1 .. Len(p) : p[i] = q[i + 1]
    BY HeadTailProperties
<1>2. Len(q) \in Nat \ {0} /\ DOMAIN q = 1 .. Len(q) /\ DOMAIN p = 1 .. Len(p)
    BY <1>1, EmptySeq, LenProperties
<1>3. Head(q) = q[1]
    BY <1>2
<1> QED BY <1>1, <1>2, <1>3

\* The streams are kept: what is left was there before, in the same order.
LEMMA Kept ==
    ASSUME NEW S, NEW q \in Seq(S), NEW p, p = q \/ p = <<>> \/ (q # <<>> /\ p = Tail(q))
    PROVE  /\ p \in Seq(S)
           /\ \E d \in {0, 1} : \A i \in DOMAIN p : i + d \in DOMAIN q /\ p[i] = q[i + d]
<1>1. CASE p = q
  <2>1. \A i \in DOMAIN p : i + 0 \in DOMAIN q /\ p[i] = q[i + 0]
      BY <1>1, LenProperties
  <2> QED BY <1>1, <2>1
<1>2. CASE q # <<>> /\ p = Tail(q)
  <2>1. \A i \in DOMAIN p : i + 1 \in DOMAIN q /\ p[i] = q[i + 1]
      BY <1>2, Shorter
  <2> QED BY <1>2, <2>1, Shorter
<1>3. CASE p = <<>>
  <2>1. DOMAIN p = {}
      BY <1>3
  <2> QED BY <1>3, <2>1, EmptySeq
<1> QED BY <1>1, <1>2, <1>3

\* Every number up to the size of a finite set of naturals is the rank, counted
\* from the largest, of one of its members.
LEMMA Ranks ==
    ASSUME NEW S \in SUBSET Nat, IsFiniteSet(S), NEW i \in 1 .. Cardinality(S)
    PROVE  \E h \in S : Cardinality({g \in S : g >= h}) = i
<1> DEFINE n == Cardinality(S)
           rank == [h \in S |-> Cardinality({g \in S : g >= h})]
<1>1. n \in Nat
    BY FS_CardinalityType
<1>2. ASSUME NEW h \in S
      PROVE  /\ IsFiniteSet({g \in S : g >= h}) /\ rank[h] \in 1 .. n
  <2>1. {g \in S : g >= h} \in SUBSET S /\ {g \in S : g >= h} # {}
      OBVIOUS
  <2>2. IsFiniteSet({g \in S : g >= h}) /\ Cardinality({g \in S : g >= h}) <= n
      BY <2>1, FS_Subset
  <2>3. Cardinality({g \in S : g >= h}) \in Nat
      BY <2>2, FS_CardinalityType
  <2>4. Cardinality({g \in S : g >= h}) # 0
      BY <2>1, <2>2, FS_EmptySet
  <2> QED BY <1>1, <2>2, <2>3, <2>4
<1>3. ASSUME NEW a \in S, NEW b \in S, a < b
      PROVE  rank[a] # rank[b]
  <2>0. a \in Nat /\ b \in Nat /\ ~ a >= b /\ a >= a /\ \A g \in S : g >= b => g >= a
      BY <1>3
  <2>1. {g \in S : g >= b} \in SUBSET {g \in S : g >= a} /\ a \notin {g \in S : g >= b} /\ a \in {g \in S : g >= a}
      BY <2>0
  <2>2. {g \in S : g >= a} # {g \in S : g >= b}
      BY <2>1
  <2>3. Cardinality({g \in S : g >= a}) # Cardinality({g \in S : g >= b})
      BY <1>2, <2>1, <2>2, FS_Subset
  <2> QED BY <2>3
<1>4. rank \in [S -> 1 .. n]
    BY <1>2
<1>5. rank \in Injection(S, 1 .. n)
  <2>1. \A a, b \in S : rank[a] = rank[b] => a = b
      BY <1>3
  <2> QED BY <1>4, <2>1 DEF Injection, IsInjective
<1>6. IsFiniteSet(1 .. n) /\ Cardinality(1 .. n) = n
    BY <1>1, FS_Interval
<1>7. rank \in Surjection(S, 1 .. n)
    BY <1>5, <1>6, FS_Injection
<1> QED BY <1>7 DEF Surjection

-----------------------------------------------------------------------------
(* Each action is of one of the kinds *)

LEMMA Sorts ==
    /\ NoBuffer \in Buffers /\ \A f \in Foreign : <<0, f>> \in Buffers /\ <<0, f>> # NoBuffer
    /\ \A h \in Handles : /\ <<h, 0>> \in Buffers
                          /\ \A n \in 0 .. MaxResize : <<h, n>> \in Buffers /\ <<h, n>> # NoBuffer
BY ClientAssumption, WireAssumption DEF Buffers, NoBuffer, Handles

LEMMA OwnSort ==
    ASSUME Types, NEW h \in Handles
    PROVE  /\ Own(h) \in Buffers /\ Own(h) # NoBuffer
           /\ obj[h] \in Objects /\ obj[h].attached \in Buffers
BY Sorts DEF Types, ClientTypes, Objects, Own

LEMMA Acking ==
    ASSUME Types, NEW h \in Acked
    PROVE  /\ h \in Handles /\ obj[h].live
           /\ obj[h].id \in Nat \ {0} /\ obj[h].id <= created
           /\ \A b \in Buffers, t \in {"attach", "commit"} : RequestOK(Request(t, obj[h].id, b))
           /\ \A t \in RequestTypes \ {"attach", "commit", "create"}, n \in Nat :
                 RequestOK(Request(t, obj[h].id, n))
<1>1. /\ h \in Handles /\ obj[h].live /\ obj[h].id \in Nat \ {0} /\ obj[h].id <= created
    BY OwnSort DEF Acked, Live, Types, ClientTypes, Objects
<1>2. ASSUME NEW b \in Buffers, NEW t \in {"attach", "commit"}
      PROVE  RequestOK(Request(t, obj[h].id, b))
  <2>1. Request(t, obj[h].id, b) \in Buffered
      BY <1>1, <1>2 DEF Request, Buffered
  <2> QED BY <1>1, <2>1 DEF Request, Requests, RequestOK
<1>3. ASSUME NEW t \in RequestTypes \ {"attach", "commit", "create"}, NEW n \in Nat
      PROVE  RequestOK(Request(t, obj[h].id, n))
  <2>1. Request(t, obj[h].id, n) \in Plain
      BY <1>1, <1>3 DEF Request, Plain
  <2> QED BY <1>1, <2>1 DEF Request, Requests, RequestOK
<1> QED BY <1>1, <1>2, <1>3

\* Requests that are sent together.
LEMMA Bundle ==
    ASSUME NEW a, NEW b, RequestOK(a), RequestOK(b), a.type # "create", b.type # "create",
           NEW rs \in {<<>>, <<a>>, <<a, b>>}
    PROVE  rs \in Seq(Requests) /\ \A i \in DOMAIN rs : RequestOK(rs[i]) /\ rs[i].type # "create"
<1> DEFINE Good(s) == s \in Seq(Requests) /\ \A i \in DOMAIN s : RequestOK(s[i]) /\ s[i].type # "create"
<1>0. a \in Requests /\ b \in Requests
    BY DEF RequestOK
<1>1. Good(<<>>)
    OBVIOUS
<1>2. Good(<<a>>)
    BY <1>0
<1>3. Good(<<a, b>>)
    BY <1>0
<1> QED BY <1>1, <1>2, <1>3

LEMMA SentSerial ==
    ASSUME Types, NEW rs \in Seq(Requests), Sent(rs)
    PROVE  serial' \in 1 .. MaxSerial /\ toServer' = toServer \o rs
<1>1. Len(rs) \in Nat
    BY LenProperties
<1> QED BY <1>1, ClientAssumption DEF Types, ClientTypes, Sent

LEMMA PlainRequest ==
    ASSUME Types, NEW t \in RequestTypes \ {"attach", "commit"}, NEW n \in Nat, t = "create" => n \in Handles
    PROVE  RequestOK(Request(t, 0, n)) /\ Request(t, 0, n).type = t
<1>1. Request(t, 0, n) \in Plain
    BY DEF Request, Plain
<1> QED BY <1>1 DEF Request, Requests, RequestOK, Types, ServerTypes

LEMMA Pairs == \A x, y : <<x>> \o <<y>> = <<x, y>> /\ <<>> \o <<y>> = <<y>>
<1> SUFFICES ASSUME NEW x, NEW y PROVE <<x>> \o <<y>> = <<x, y>> /\ <<>> \o <<y>> = <<y>>
    OBVIOUS
<1> DEFINE S == {x, y}
<1>1. <<x>> \in Seq(S) /\ <<y>> \in Seq(S) /\ <<x, y>> \in Seq(S)
    OBVIOUS
<1>2. <<>> \o <<y>> = <<y>>
    BY <1>1, ConcatEmptySeq
<1>3. /\ <<x>> \o <<y>> \in Seq(S) /\ Len(<<x>> \o <<y>>) = 2
      /\ \A i \in 1 .. 2 : (<<x>> \o <<y>>)[i] = IF i <= 1 THEN x ELSE y
  <2>1. Len(<<x>>) = 1 /\ Len(<<y>>) = 1 /\ <<x>>[1] = x /\ <<y>>[1] = y
      OBVIOUS
  <2>2. /\ <<x>> \o <<y>> \in Seq(S) /\ Len(<<x>> \o <<y>>) = 1 + 1
        /\ \A i \in 1 .. 1 + 1 : (<<x>> \o <<y>>)[i] = IF i <= 1 THEN <<x>>[i] ELSE <<y>>[i - 1]
      BY <1>1, <2>1, ConcatProperties
  <2> QED BY <2>1, <2>2
<1>4. Len(<<x, y>>) = 2 /\ \A i \in 1 .. 2 : <<x, y>>[i] = IF i <= 1 THEN x ELSE y
    OBVIOUS
<1>5. <<x>> \o <<y>> = <<x, y>>
    BY <1>1, <1>3, <1>4, SeqEqual
<1> QED BY <1>2, <1>5

\* What Attach, Commit and the two ways to present send, and what they change.
LEMMA Attaching ==
    ASSUME Types, NEW h \in Acked, NEW b \in Buffers, NEW d \in Buffers
    PROVE  /\ AttachRequest(h, b) \in Seq(Requests)
           /\ \A i \in DOMAIN AttachRequest(h, b) :
                 RequestOK(AttachRequest(h, b)[i]) /\ AttachRequest(h, b)[i].type # "create"
           /\ CommitRequests(h, d) \in Seq(Requests)
           /\ \A i \in DOMAIN CommitRequests(h, d) :
                 RequestOK(CommitRequests(h, d)[i]) /\ CommitRequests(h, d)[i].type # "create"
           /\ LET both == AttachRequest(h, b) \o <<Request("commit", obj[h].id, d)>> IN
                 both \in Seq(Requests) /\ \A i \in DOMAIN both : RequestOK(both[i]) /\ both[i].type # "create"
           /\ [obj EXCEPT ![h].attached = b] \in [Handles -> Objects]
           /\ Committed(h) \in [Handles -> Objects]
<1> DEFINE A(x) == Request("attach", obj[h].id, x)
           C == Request("commit", obj[h].id, d)
<1>0. h \in Handles /\ Own(h) \in Buffers
    BY Acking, OwnSort
<1>1. \A x \in Buffers : RequestOK(A(x)) /\ A(x).type # "create"
    BY Acking DEF Request
<1>2. RequestOK(C) /\ C.type # "create"
    BY Acking DEF Request
<1>3. (\A x : <<x>> \o <<C>> = <<x, C>>) /\ <<>> \o <<C>> = <<C>>
    BY Pairs
<1>4. AttachRequest(h, b) \in {<<>>, <<A(b)>>} /\ AttachRequest(h, Own(h)) \in {<<>>, <<A(Own(h))>>}
    BY DEF AttachRequest
<1>5. CommitRequests(h, d) \in {<<C>>, <<A(Own(h)), C>>}
  <2>1. \A s \in {<<>>, <<A(Own(h))>>} : s \o <<C>> \in {<<C>>, <<A(Own(h)), C>>}
      BY <1>3
  <2>2. (IF Matches(h, NoBuffer) THEN AttachRequest(h, Own(h)) ELSE <<>>) \in {<<>>, <<A(Own(h))>>}
      BY <1>4
  <2>3. CommitRequests(h, d) = (IF Matches(h, NoBuffer) THEN AttachRequest(h, Own(h)) ELSE <<>>) \o <<C>>
      BY DEF CommitRequests
  <2> HIDE DEF A, C
  <2> QED BY <2>1, <2>2, <2>3
<1>6. AttachRequest(h, b) \o <<C>> \in {<<C>>, <<A(b), C>>}
    BY <1>3, <1>4
<1>7. /\ [obj EXCEPT ![h].attached = b] \in [Handles -> Objects]
      /\ Committed(h) \in [Handles -> Objects]
    BY <1>0 DEF Types, ClientTypes, Objects, Committed
<1>8. \A s \in {<<>>, <<A(b)>>, <<C>>, <<A(b), C>>, <<A(Own(h)), C>>} :
         s \in Seq(Requests) /\ \A i \in DOMAIN s : RequestOK(s[i]) /\ s[i].type # "create"
  <2> HIDE DEF A, C
  <2>1. ASSUME NEW a, NEW s, RequestOK(a), a.type # "create", s \in {<<>>, <<a>>, <<C>>, <<a, C>>}
        PROVE  s \in Seq(Requests) /\ \A i \in DOMAIN s : RequestOK(s[i]) /\ s[i].type # "create"
    <3>1. CASE s = <<C>>
        BY <1>2, <3>1, Bundle
    <3> QED BY <1>2, <2>1, <3>1, Bundle
  <2> QED BY <1>0, <1>1, <2>1
<1> QED BY <1>4, <1>5, <1>6, <1>7, <1>8

\* The actions that talk, those that show a surface apart.
Showing ==
    \E h \in Handles : \/ Commit(h) \/ PresentCopy(h)
                      \/ \E f \in Foreign : Attach(h, <<0, f>>) \/ PresentDmabuf(h, <<0, f>>)
Asking == Connect \/ Query \/ \E h \in Handles : Resize(h) \/ Ask(h)

LEMMA TalkKind ==
    ASSUME Types, Asking \/ Showing
    PROVE  Talk
<1> USE DEF Modes
<1>0. /\ obj \in [Handles -> Objects] /\ draw \in [Handles -> Buffers] /\ serial \in 1 .. MaxSerial
      /\ toServer \in Seq(Requests)
    BY DEF Types, ClientTypes, WireTypes
<1>1. ASSUME NEW h \in Handles, Resize(h)
      PROVE  Talk
  <2>1. toServer' = toServer \o <<>> /\ <<>> \in Seq(Requests) /\ DOMAIN <<>> = {}
      BY <1>0, <1>1, ConcatEmptySeq, EmptySeq DEF Resize, wireVars
  <2>2. /\ obj' \in [Handles -> Objects]
        /\ \A g \in Handles : obj'[g].live = obj[g].live /\ obj'[g].id = obj[g].id
    <3>1. obj[h].resized + 1 \in 0 .. MaxResize
        BY <1>0, <1>1, ClientAssumption DEF Resize, Objects
    <3> QED BY <1>0, <1>1, <3>1, Sorts DEF Resize, Objects
  <2>3. draw' \in [Handles -> Buffers]
    <3>1. <<h, obj[h].resized + 1>> \in Buffers
      <4>1. obj[h].resized + 1 \in 0 .. MaxResize
          BY <1>0, <1>1, ClientAssumption DEF Resize, Objects
      <4> QED BY <4>1, Sorts
    <3> QED BY <1>0, <1>1, <3>1 DEF Resize
  <2> QED BY <1>0, <1>1, <2>1, <2>2, <2>3 DEF Talk, Resize, ClientIdle, wireVars
<1>2. ASSUME NEW t \in {"hello", "query"}, Sent(<<Request(t, 0, 0)>>), ServerIdle, ClientIdle,
             UNCHANGED <<toClient, obj, nextHandle, draw>>,
             mode' \in Modes \ {"ready"}, mode \notin {"ready", "gone"}
      PROVE  Talk
  <2>1. RequestOK(Request(t, 0, 0)) /\ Request(t, 0, 0).type # "create"
      BY PlainRequest DEF RequestTypes
  <2>2. /\ <<Request(t, 0, 0)>> \in Seq(Requests)
        /\ \A i \in DOMAIN <<Request(t, 0, 0)>> :
              RequestOK(<<Request(t, 0, 0)>>[i]) /\ <<Request(t, 0, 0)>>[i].type # "create"
      BY <2>1, Bundle
  <2>3. serial' \in 1 .. MaxSerial /\ toServer' = toServer \o <<Request(t, 0, 0)>>
      BY <1>2, <2>2, SentSerial
  <2> QED BY <1>0, <1>2, <2>2, <2>3 DEF Talk, ServerIdle, ClientIdle, Sent
<1>3. CASE Connect
    BY <1>2, <1>3 DEF Connect
<1>4. CASE Query
    BY <1>2, <1>4 DEF Query
\* A call about a surface that is known: requests rs.
<1>5. ASSUME NEW rs \in Seq(Requests), \A i \in DOMAIN rs : RequestOK(rs[i]) /\ rs[i].type # "create",
             Sent(rs), mode = "idle", obj' \in [Handles -> Objects], draw' \in [Handles -> Buffers],
             \A g \in Handles : obj'[g].live = obj[g].live /\ obj'[g].id = obj[g].id,
             ServerIdle, ClientIdle, UNCHANGED <<toClient, mode, nextHandle>>
      PROVE  Talk
  <2>1. serial' \in 1 .. MaxSerial /\ toServer' = toServer \o rs
      BY <1>5, SentSerial
  <2> QED BY <1>5, <2>1 DEF Talk, ServerIdle, ClientIdle, Sent
<1>6. ASSUME NEW h \in Handles, NEW f \in Foreign, Attach(h, <<0, f>>)
      PROVE  Talk
  <2>1. h \in Acked /\ <<0, f>> \in Buffers
      BY <1>6, Sorts DEF Attach
  <2>2. /\ obj' = [obj EXCEPT ![h].attached = <<0, f>>]
        /\ draw' \in [Handles -> Buffers]
      BY <1>0, <1>6, <2>1 DEF Attach
  <2>3. \A g \in Handles : obj'[g].live = obj[g].live /\ obj'[g].id = obj[g].id
      BY <1>0, <2>2 DEF Objects
  <2>4. obj' \in [Handles -> Objects]
      BY <2>1, <2>2, Attaching
  <2>5. PICK rs \in Seq(Requests) : Sent(rs) /\ \A i \in DOMAIN rs : RequestOK(rs[i]) /\ rs[i].type # "create"
      BY <1>6, <2>1, Attaching DEF Attach
  <2> QED BY <1>5, <1>6, <2>2, <2>3, <2>4, <2>5 DEF Attach
<1>7. ASSUME NEW h \in Handles, NEW f \in Foreign, PresentDmabuf(h, <<0, f>>)
      PROVE  Talk
  <2>1. h \in Acked /\ <<0, f>> \in Buffers
      BY <1>7, Sorts DEF PresentDmabuf
  <2>2. /\ obj' = [obj EXCEPT ![h].attached = <<0, f>>]
        /\ draw' \in [Handles -> Buffers]
      BY <1>0, <1>7, <2>1 DEF PresentDmabuf
  <2>3. \A g \in Handles : obj'[g].live = obj[g].live /\ obj'[g].id = obj[g].id
      BY <1>0, <2>2 DEF Objects
  <2>4. obj' \in [Handles -> Objects]
      BY <2>1, <2>2, Attaching
  <2> DEFINE rs == AttachRequest(h, <<0, f>>) \o <<Request("commit", obj[h].id, <<0, f>>)>>
  <2>5. rs \in Seq(Requests) /\ \A i \in DOMAIN rs : RequestOK(rs[i]) /\ rs[i].type # "create"
      BY <2>1, Attaching
  <2>6. Sent(rs)
      BY <1>7 DEF PresentDmabuf
  <2> HIDE DEF rs
  <2> QED BY <1>5, <1>7, <2>2, <2>3, <2>4, <2>5, <2>6 DEF PresentDmabuf
<1>8. ASSUME NEW h \in Handles, Commit(h)
      PROVE  Talk
  <2>1. h \in Acked /\ draw[h] \in Buffers /\ NoBuffer \in Buffers
      BY <1>0, <1>8, Sorts DEF Commit
  <2>2. \A g \in Handles : obj'[g].live = obj[g].live /\ obj'[g].id = obj[g].id
      BY <1>0, <1>8 DEF Objects, Commit, Committed
  <2> QED BY <1>0, <1>5, <1>8, <2>1, <2>2, Attaching DEF Commit
<1>9. ASSUME NEW h \in Handles, PresentCopy(h)
      PROVE  Talk
  <2>1. h \in Acked /\ NoBuffer \in Buffers /\ Own(h) \in Buffers
      BY <1>0, <1>9, Sorts, OwnSort DEF PresentCopy
  <2>2. draw' \in [Handles -> Buffers] /\ draw'[h] \in Buffers
      BY <1>0, <1>9, <2>1 DEF PresentCopy
  <2>3. \A g \in Handles : obj'[g].live = obj[g].live /\ obj'[g].id = obj[g].id
      BY <1>0, <1>9 DEF Objects, PresentCopy, Committed
  <2>4. obj' \in [Handles -> Objects]
      BY <1>9, <2>1, Attaching DEF PresentCopy
  <2> DEFINE rs == CommitRequests(h, draw'[h])
  <2>5. rs \in Seq(Requests) /\ \A i \in DOMAIN rs : RequestOK(rs[i]) /\ rs[i].type # "create"
      BY <2>1, <2>2, Attaching
  <2>6. Sent(rs)
      BY <1>9 DEF PresentCopy
  <2> HIDE DEF rs
  <2> QED BY <1>5, <1>9, <2>2, <2>3, <2>4, <2>5, <2>6 DEF PresentCopy
<1>10. ASSUME NEW h \in Handles, Ask(h)
       PROVE  Talk
  <2>1. PICK r : /\ Sent(<<r>>)
                 /\ \/ r = Request("frame", obj[h].id, 0) \/ r = Request("ping", 0, 0)
                    \/ \E g \in Acked : r = Request("role", obj[h].id, obj[g].id)
      BY <1>10 DEF Ask
  <2>2. RequestOK(r) /\ r.type # "create"
    <3>1. h \in Acked
        BY <1>10 DEF Ask
    <3>2. \A g \in Acked : obj[g].id \in Nat
        BY Acking
    <3>3. RequestOK(Request("ping", 0, 0)) /\ RequestOK(Request("frame", obj[h].id, 0))
        BY <3>1, Acking, PlainRequest DEF RequestTypes
    <3>4. \A g \in Acked : RequestOK(Request("role", obj[h].id, obj[g].id))
        BY <3>1, <3>2, Acking DEF RequestTypes
    <3> QED BY <2>1, <3>3, <3>4 DEF Request
  <2>3. <<r>> \in Seq(Requests) /\ \A i \in DOMAIN <<r>> : RequestOK(<<r>>[i]) /\ <<r>>[i].type # "create"
      BY <2>2, Bundle
  <2> QED BY <1>0, <1>5, <1>10, <2>1, <2>3 DEF Ask
<1> QED BY <1>1, <1>3, <1>4, <1>6, <1>7, <1>8, <1>9, <1>10 DEF Asking, Showing

\* What Take finds and leaves.
LEMMA Taken ==
    ASSUME Types, Take
    PROVE  /\ Rest = <<>> /\ EventOK(NextEvent) /\ NextEvent \in Events
           /\ \/ pending # <<>> /\ NextEvent = pending[1] /\ pending = <<NextEvent>> /\ UNCHANGED <<toClient, obj>>
              \/ /\ pending = <<>> /\ toClient # <<>> /\ NextEvent = toClient[1]
                 /\ toClient' = Tail(toClient) /\ obj' = Applied(toClient[1])
<1>0. WireTypes
    BY DEF Types
<1>1. CASE pending # <<>>
  <2>1. PICK e : pending = <<e>>
      BY <1>0, <1>1 DEF WireTypes
  <2>2. 1 \in DOMAIN pending /\ pending[1] = e /\ Head(pending) = e /\ Tail(pending) = <<>>
      BY <2>1
  <2> QED BY <1>0, <1>1, <2>1, <2>2 DEF Take, Rest, NextEvent, FromRing, WireTypes, EventOK
<1>2. CASE pending = <<>>
  <2>1. toClient # <<>> /\ Rest = <<>> /\ NextEvent = Head(toClient)
        /\ toClient' = Tail(toClient) /\ obj' = Applied(Head(toClient))
      BY <1>2 DEF Take, Rest, NextEvent, FromRing, Available
  <2>2. Head(toClient) = toClient[1] /\ 1 \in DOMAIN toClient
      BY <1>0, <2>1, Shorter DEF WireTypes
  <2> QED BY <1>0, <1>2, <2>1, <2>2 DEF WireTypes, EventOK
<1> QED BY <1>1, <1>2

LEMMA PushedOnEmpty ==
    ASSUME NEW e
    PROVE  Pushed(<<>>, e) = <<e>>
<1>1. Len(<<>>) < RingSize
    BY ClientAssumption
<1> QED BY <1>1 DEF Pushed

LEMMA ClientKinds ==
    ASSUME Types, ClientNext
    PROVE  \/ Asking \/ Showing
           \/ Turn \/ Pass \/ Create \/ Disconnect \/ \E h \in Handles : Forget(h)
<1> USE DEF Modes
<1>1. ASSUME Poll PROVE Turn \/ Pass
  <2>1. CASE Take /\ pending' = Rest /\ got' = NextEvent.no /\ UNCHANGED mode
      BY <1>1, <2>1, Taken DEF Poll, Turn
  <2>2. CASE mode' = "gone" /\ UNCHANGED <<pending, toClient, obj, got>>
      BY <1>1, <2>2 DEF Poll, Pass, ClientStreamKept
  <2> QED BY <1>1, <2>1, <2>2 DEF Poll
<1>2. ASSUME AwaitTurn PROVE Turn
    BY <1>2, Taken, PushedOnEmpty DEF AwaitTurn, Turn
<1>3. ASSUME ReadyTurn PROVE Turn
    BY <1>3, Taken DEF ReadyTurn, Turn
<1>4. ASSUME RecvWelcome PROVE Pass
  <2>1. closed = FALSE
      BY <1>4 DEF RecvWelcome, Types, ClientTypes
  <2> QED BY <1>4, <2>1 DEF RecvWelcome, Pass, ClientStreamKept, ClientIdle
<1>5. ASSUME AwaitTimeout PROVE Pass
    BY <1>5 DEF AwaitTimeout, Pass, ClientStreamKept, wireVars
<1>6. ASSUME NEW h \in Handles, Destroy(h) PROVE Forget(h)
  <2>1. waitFor = 0
      BY <1>6 DEF Destroy, Types, ClientTypes
  <2> QED BY <1>6, <2>1 DEF Destroy, Forget, ServerIdle
<1>7. ASSUME ReadyTimeout PROVE waitFor \in Handles /\ Forget(waitFor)
    BY <1>7 DEF ReadyTimeout, Forget, ServerIdle, Types, ClientTypes
<1> QED BY <1>1, <1>2, <1>3, <1>4, <1>5, <1>6, <1>7 DEF ClientNext, Asking, Showing

LEMMA FirstRequest ==
    ASSUME Types, toServer # <<>>
    PROVE  /\ Incoming = toServer[1] /\ 1 \in DOMAIN toServer /\ RequestOK(Incoming)
           /\ Incoming.type \in RequestTypes /\ Incoming.id \in 0 .. created
           /\ Incoming.type = "attach" => Incoming.arg \in Buffers
           /\ Incoming.type \notin {"attach", "commit"} => Incoming.arg \in Nat
           /\ Incoming.type = "create" => Incoming.arg \in Handles
<1>1. Incoming = toServer[1] /\ 1 \in DOMAIN toServer
    BY Shorter DEF Incoming, Types, WireTypes
<1>2. RequestOK(Incoming)
    BY <1>1 DEF Types, WireTypes
<1> QED BY <1>1, <1>2 DEF RequestOK, Requests, Plain, Buffered, RequestTypes, Types, ServerTypes

LEMMA DispatchKind ==
    ASSUME Types, Dispatch, UNCHANGED clientVars
    PROVE  Calm \/ Made
<1> DEFINE r == Incoming
<1>0. /\ srv \in [DOMAIN srv -> SrvSurfaces] /\ DOMAIN srv \subseteq 1 .. created /\ refused \subseteq Handles
      /\ alive \in BOOLEAN /\ inputs \in 0 .. MaxInput /\ created \in Nat
    BY DEF Types, ClientTypes, ServerTypes
<1>1. /\ toServer # <<>> /\ toServer' = Tail(toServer) /\ UNCHANGED <<alive, closed, inputs>>
    BY DEF Dispatch
\* The message is answered or not, and the table keeps its surfaces.
<1>2. ASSUME \/ UNCHANGED <<toClient, eventNo>>
             \/ \E kind \in Kinds \ {"created"}, id \in Nat, arg \in Nat : Send(kind, id, arg),
             DOMAIN srv' \subseteq DOMAIN srv, srv' \in [DOMAIN srv' -> SrvSurfaces],
             \A i \in DOMAIN srv' : srv'[i].handle = srv[i].handle,
             refused' \subseteq Handles, created' = created
      PROVE  Calm
    BY <1>0, <1>1, <1>2 DEF Calm, ServerStreamKept
<1>3. ASSUME Keep,
             \/ UNCHANGED <<toClient, eventNo>>
             \/ \E kind \in Kinds \ {"created"}, id \in Nat, arg \in Nat : Send(kind, id, arg)
      PROVE  Calm
    BY <1>0, <1>2, <1>3 DEF Keep, serverVars
<1>4. \A kind \in Kinds \ {"created"} : Send(kind, 0, 0) =>
         \E k \in Kinds \ {"created"}, id \in Nat, arg \in Nat : Send(k, id, arg)
    OBVIOUS
<1>5. Silent <=> UNCHANGED <<toClient, eventNo>>
    BY DEF Silent
<1>6. Refuse => \E kind \in Kinds \ {"created"}, id \in Nat, arg \in Nat : Send(kind, id, arg)
    BY <1>4 DEF Refuse, Kinds
<1>7. CASE \/ HandleHello(r) \/ HandleCommit(r)
           \/ Keep /\ Send("render_node", 0, 0)
           \/ Keep /\ Send("pong", 0, 0)
    BY <1>3, <1>4, <1>5, <1>6, <1>7 DEF HandleHello, HandleCommit, Kinds
<1>8. CASE r.type = "create" /\ HandleCreate(r)
  <2>1. CASE Keep /\ Refuse
      BY <1>3, <1>6, <2>1
  <2>2. CASE /\ Cardinality(DOMAIN srv) < Limit
             /\ created' = created + 1
             /\ srv' = [i \in DOMAIN srv \cup {created + 1} |->
                          IF i \in DOMAIN srv THEN srv[i]
                          ELSE [handle |-> r.arg, buffer |-> NoBuffer, wantsFrame |-> FALSE, parent |-> 0]]
             /\ Send("created", created + 1, r.arg)
             /\ UNCHANGED refused
    <3>1. created + 1 \notin DOMAIN srv
        BY <1>0
    <3>2. [handle |-> r.arg, buffer |-> NoBuffer, wantsFrame |-> FALSE, parent |-> 0] \in SrvSurfaces
        BY <1>1, <1>8, FirstRequest, Sorts DEF SrvSurfaces
    <3>3. r = toServer[1]
        BY <1>1, FirstRequest
    <3> QED BY <1>0, <1>1, <1>8, <2>2, <3>1, <3>2, <3>3 DEF Made
  <2> QED BY <1>8, <2>1, <2>2 DEF HandleCreate
<1>9. CASE r.type = "attach" /\ HandleAttach(r)
  <2>1. CASE Keep /\ Refuse
      BY <1>3, <1>6, <2>1
  <2>2. CASE Known(r) /\ created' = created
             /\ srv' \in {srv, [srv EXCEPT ![r.id].buffer = NoBuffer], [srv EXCEPT ![r.id].buffer = r.arg]}
             /\ refused' \in {refused, refused \cup {srv[r.id].handle}} /\ (Silent \/ Refuse)
    <3>1. r.arg \in Buffers /\ NoBuffer \in Buffers /\ srv[r.id].handle \in Handles
        BY <1>0, <1>1, <1>9, <2>2, FirstRequest, Sorts DEF Known, SrvSurfaces
    <3>2. /\ DOMAIN srv' = DOMAIN srv /\ srv' \in [DOMAIN srv' -> SrvSurfaces]
          /\ \A i \in DOMAIN srv' : srv'[i].handle = srv[i].handle
        BY <1>0, <2>2, <3>1 DEF SrvSurfaces
    <3> QED BY <1>0, <1>2, <1>5, <1>6, <2>2, <3>1, <3>2
  <2> QED BY <1>9, <2>1, <2>2 DEF HandleAttach
<1>10. CASE r.type = "destroy" /\ HandleDestroy(r)
  <2>1. /\ DOMAIN srv' \subseteq DOMAIN srv /\ \A i \in DOMAIN srv' : srv'[i] = srv[i]
        /\ srv' \in [DOMAIN srv' -> SrvSurfaces]
      BY <1>0, <1>10 DEF HandleDestroy
  <2> QED BY <1>0, <1>2, <1>5, <1>10, <2>1 DEF HandleDestroy
<1>11. CASE r.type = "role" /\ HandleRole(r)
  <2>1. CASE Keep /\ (Refuse \/ Silent)
      BY <1>3, <1>5, <1>6, <2>1
  <2>2. CASE Known(r) /\ srv' = [srv EXCEPT ![r.id].parent = r.arg] /\ UNCHANGED <<created, refused>> /\ Silent
    <3>1. r.arg \in Nat
        BY <1>1, <1>11, FirstRequest
    <3>2. /\ DOMAIN srv' = DOMAIN srv /\ srv' \in [DOMAIN srv' -> SrvSurfaces]
          /\ \A i \in DOMAIN srv' : srv'[i].handle = srv[i].handle
        BY <1>0, <2>2, <3>1 DEF SrvSurfaces
    <3> QED BY <1>0, <1>2, <1>5, <2>2, <3>2
  <2> QED BY <1>11, <2>1, <2>2 DEF HandleRole
<1>12. CASE r.type = "frame" /\ HandleFrame(r)
  <2>1. /\ DOMAIN srv' = DOMAIN srv /\ srv' \in [DOMAIN srv' -> SrvSurfaces]
        /\ \A i \in DOMAIN srv' : srv'[i].handle = srv[i].handle
      BY <1>0, <1>12 DEF HandleFrame, SrvSurfaces
  <2> QED BY <1>0, <1>2, <1>5, <1>12, <2>1 DEF HandleFrame
<1> QED BY <1>7, <1>8, <1>9, <1>10, <1>11, <1>12 DEF Dispatch

LEMMA ServerKinds ==
    ASSUME Types, ServerNext, UNCHANGED clientVars
    PROVE  Calm \/ Made
<1>0. /\ srv \in [DOMAIN srv -> SrvSurfaces] /\ DOMAIN srv \subseteq 1 .. created /\ refused \subseteq Handles
      /\ alive \in BOOLEAN /\ inputs \in 0 .. MaxInput /\ created \in Nat
    BY DEF Types, ClientTypes, ServerTypes
<1>1. CASE DeliverFrame
  <2>1. PICK i \in DOMAIN srv : srv' = [srv EXCEPT ![i].wantsFrame = FALSE] /\ Send("frame", i, 0)
      BY <1>1 DEF DeliverFrame
  <2>2. /\ DOMAIN srv' = DOMAIN srv /\ srv' \in [DOMAIN srv' -> SrvSurfaces]
        /\ \A j \in DOMAIN srv' : srv'[j].handle = srv[j].handle
      BY <1>0, <2>1 DEF SrvSurfaces
  <2>3. \E kind \in Kinds \ {"created"}, id \in Nat, arg \in Nat : Send(kind, id, arg)
      BY <1>0, <2>1 DEF Kinds
  <2> QED BY <1>0, <1>1, <2>2, <2>3 DEF DeliverFrame, Calm, ServerStreamKept
<1>2. CASE Input
  <2>1. \E kind \in Kinds \ {"created"}, id \in Nat, arg \in Nat : Send(kind, id, arg)
      BY <1>0, <1>2 DEF Input, Kinds
  <2>2. inputs' \in 0 .. MaxInput
      BY <1>0, <1>2, WireAssumption DEF Input
  <2> QED BY <1>0, <1>2, <2>1, <2>2 DEF Input, Calm, ServerStreamKept, serverVars
<1>3. CASE HangUp \/ Quit
  <2>1. srv' = <<>> /\ refused' = {} /\ alive' = FALSE /\ DOMAIN srv' = {}
      BY <1>3 DEF HangUp, Quit
  <2>2. srv' \in [DOMAIN srv' -> SrvSurfaces]
    <3>1. <<>> \in [1 .. 0 -> SrvSurfaces] /\ 1 .. 0 = {}
        BY EmptySeq, LenProperties
    <3> QED BY <2>1, <3>1
  <2> QED BY <1>0, <1>3, <2>1, <2>2 DEF HangUp, Quit, Calm, ServerStreamKept
<1> QED BY <1>1, <1>2, <1>3, DispatchKind DEF ServerNext

-----------------------------------------------------------------------------
(* Types *)

LEMMA StillOK ==
    ASSUME created \in Nat, created' \in Nat, created <= created'
    PROVE  /\ \A r : RequestOK(r) => (RequestOK(r))'
           /\ \A e : EventOK(e) => (EventOK(e))'
<1>1. \A e : EventOK(e) => e \in Events /\ (e.kind = "created" => e.id \in Nat)
    BY DEF EventOK
<1> QED BY <1>1 DEF RequestOK, EventOK, Requests, Plain, Buffered, Events

LEMMA WireKept ==
    ASSUME Types, created' \in Nat, created <= created',
           UNCHANGED toServer \/ ServerStreamKept \/ Talk,
           UNCHANGED toClient \/ ClientStreamKept \/ UNCHANGED <<toClient, eventNo>>
              \/ \E kind \in Kinds, id \in Nat, arg \in Nat :
                    /\ Send(kind, id, arg)
                    /\ kind = "created" => id \in 1 .. created' /\ arg \in Handles,
           UNCHANGED pending \/ pending' = <<>> \/ \E e : EventOK(e) /\ pending' = <<e>>
    PROVE  WireTypes'
<1>0. WireTypes /\ eventNo \in Nat /\ created \in Nat
    BY DEF Types, ServerTypes
<1>1. /\ \A r : RequestOK(r) => (RequestOK(r))'
      /\ \A e : EventOK(e) => (EventOK(e))'
    BY <1>0, StillOK
<1>2. toServer' \in Seq(Requests) /\ \A i \in DOMAIN toServer' : (RequestOK(toServer[i]))'
  <2>1. CASE ServerStreamKept \/ UNCHANGED toServer
    <3>1. toServer \in Seq(Requests) /\ (toServer' = toServer \/ toServer' = <<>> \/ (toServer # <<>> /\ toServer' = Tail(toServer)))
        BY <1>0, <2>1 DEF WireTypes, ServerStreamKept
    <3>2. toServer' \in Seq(Requests)
        BY <3>1, Kept
    <3>3. PICK d \in {0, 1} : \A i \in DOMAIN toServer' : i + d \in DOMAIN toServer /\ toServer'[i] = toServer[i + d]
        BY <3>1, Kept
    <3> QED BY <1>0, <1>1, <3>2, <3>3 DEF WireTypes
  <2>2. CASE Talk
    <3>1. PICK rs \in Seq(Requests) : toServer' = toServer \o rs /\ \A i \in DOMAIN rs : RequestOK(rs[i])
        BY <2>2 DEF Talk
    <3> QED BY <1>0, <1>1, <3>1, Longer DEF WireTypes
  <2> QED BY <2>1, <2>2
<1>3. toClient' \in Seq(Events) /\ \A i \in DOMAIN toClient' : (EventOK(toClient[i]))'
  <2>1. CASE ClientStreamKept \/ UNCHANGED toClient
    <3>1. toClient \in Seq(Events) /\ (toClient' = toClient \/ toClient' = <<>> \/ (toClient # <<>> /\ toClient' = Tail(toClient)))
        BY <1>0, <2>1 DEF WireTypes, ClientStreamKept
    <3>2. toClient' \in Seq(Events)
        BY <3>1, Kept
    <3>3. PICK d \in {0, 1} : \A i \in DOMAIN toClient' : i + d \in DOMAIN toClient /\ toClient'[i] = toClient[i + d]
        BY <3>1, Kept
    <3> QED BY <1>0, <1>1, <3>2, <3>3 DEF WireTypes
  <2>2. ASSUME NEW kind \in Kinds, NEW id \in Nat, NEW arg \in Nat, Send(kind, id, arg),
               kind = "created" => id \in 1 .. created' /\ arg \in Handles
        PROVE  toClient' \in Seq(Events) /\ \A i \in DOMAIN toClient' : (EventOK(toClient[i]))'
    <3>0. PICK e : e = Event(kind, id, arg)
        OBVIOUS
    <3>1. CASE toClient' = toClient
        BY <2>1, <3>1
    <3>2. CASE toClient' = Append(toClient, e)
      <4>1. e \in Events /\ (EventOK(e))'
          BY <1>0, <2>2, <3>0 DEF Event, Events, EventOK
      <4>2. toClient' = toClient \o <<e>> /\ <<e>> \in Seq(Events) /\ \A i \in DOMAIN <<e>> : <<e>>[i] = e
          BY <1>0, <3>2, <4>1, AppendIsConcat DEF WireTypes
      <4> QED BY <1>0, <1>1, <4>1, <4>2, Longer DEF WireTypes
    <3> QED BY <2>2, <3>0, <3>1, <3>2 DEF Send
  <2> QED BY <2>1, <2>2
<1>4. /\ pending' \in Seq(Events) /\ \A i \in DOMAIN pending' : (EventOK(pending[i]))'
      /\ pending' = <<>> \/ \E e : pending' = <<e>>
  <2>1. CASE UNCHANGED pending
      BY <1>0, <1>1, <2>1 DEF WireTypes
  <2>2. CASE pending' = <<>>
      BY <2>2
  <2>3. ASSUME NEW e, EventOK(e), pending' = <<e>>
        PROVE  /\ pending' \in Seq(Events) /\ \A i \in DOMAIN pending' : (EventOK(pending[i]))'
               /\ pending' = <<>> \/ \E ee : pending' = <<ee>>
    <3>1. e \in Events /\ (EventOK(e))'
        BY <1>1, <2>3 DEF EventOK
    <3>2. <<e>> \in Seq(Events) /\ \A i \in DOMAIN <<e>> : <<e>>[i] = e
        BY <3>1
    <3> QED BY <2>3, <3>1, <3>2
  <2> QED BY <2>1, <2>2, <2>3
<1> QED BY <1>2, <1>3, <1>4 DEF WireTypes

LEMMA DestroyedSends ==
    ASSUME Types, NEW h \in Handles, Forget(h)
    PROVE  \E rs \in Seq(Requests) :
              /\ toServer' = toServer \o rs /\ serial' \in 1 .. MaxSerial
              /\ \A i \in DOMAIN rs : RequestOK(rs[i]) /\ rs[i].type = "destroy" /\ rs[i].id = obj[h].id
              /\ obj[h].id # 0 => rs = <<Request("destroy", obj[h].id, 0)>>
              /\ obj[h].id = 0 => early' = early \cup {h}
              /\ obj[h].id # 0 => early' = early
<1>1. CASE obj[h].id = 0
  <2>1. toServer' = toServer \o <<>> /\ <<>> \in Seq(Requests) /\ DOMAIN <<>> = {}
      BY <1>1, ConcatEmptySeq, EmptySeq DEF Forget, Destroyed, Types, WireTypes
  <2> QED BY <1>1, <2>1 DEF Forget, Destroyed, Types, ClientTypes
<1>2. CASE obj[h].id # 0
  <2> DEFINE r == Request("destroy", obj[h].id, 0)
  <2>1. h \in Acked
      BY <1>2 DEF Acked, Live, Forget
  <2>2. RequestOK(r) /\ r.type = "destroy" /\ r.id = obj[h].id
      BY <2>1, Acking DEF RequestTypes, Request
  <2>3. Sent(<<r>>) /\ early' = early
      BY <1>2 DEF Forget, Destroyed
  <2> HIDE DEF r
  <2>4. <<r>> \in Seq(Requests) /\ \A i \in DOMAIN <<r>> : <<r>>[i] = r
      BY <2>2 DEF RequestOK
  <2> QED BY <1>2, <2>2, <2>3, <2>4, SentSerial DEF r
<1> QED BY <1>1, <1>2

\* sprot_disconnect destroys every surface it knows, the newest first.
LEMMA DisconnectSends ==
    ASSUME Types, Disconnect
    PROVE  \/ toServer' = toServer
           \/ \E rs \in Seq(Requests) :
                 /\ toServer' = toServer \o rs
                 /\ \A i \in DOMAIN rs : RequestOK(rs[i]) /\ rs[i].type = "destroy"
<1> DEFINE n == Cardinality(Acked)
           At(i) == CHOOSE h \in Acked : Cardinality({g \in Acked : g >= h}) = i
           rs == [i \in 1 .. n |-> Request("destroy", obj[At(i)].id, 0)]
<1>1. Acked \in SUBSET Nat /\ IsFiniteSet(Acked) /\ n \in Nat
  <2>1. Acked \in SUBSET (1 .. MaxHandle) /\ IsFiniteSet(1 .. MaxHandle)
      BY WireAssumption, FS_Interval DEF Acked, Live, Handles
  <2>2. IsFiniteSet(Acked)
      BY <2>1, FS_Subset
  <2> QED BY <2>1, <2>2, FS_CardinalityType
<1>2. ASSUME NEW i \in 1 .. n
      PROVE  RequestOK(rs[i]) /\ rs[i].type = "destroy"
  <2>1. At(i) \in Acked
      BY <1>1, Ranks
  <2> QED BY <2>1, Acking DEF RequestTypes, Request
<1>3. rs \in Seq(Requests)
  <2>1. \A i \in 1 .. n : rs[i] \in Requests
      BY <1>2 DEF RequestOK
  <2>2. rs \in [1 .. n -> Requests]
      BY <2>1
  <2> HIDE DEF rs
  <2> QED BY <1>1, <2>2
<1>4. DOMAIN rs = 1 .. n
    OBVIOUS
<1>5. toServer' = toServer \/ toServer' = toServer \o rs
    BY DEF Disconnect
<1> QED BY <1>2, <1>3, <1>4, <1>5

\* What a new surface of the client sends.
LEMMA CreateSends ==
    ASSUME Types, Create
    PROVE  LET r == Request("create", 0, nextHandle) IN
           /\ RequestOK(r) /\ <<r>> \in Seq(Requests) /\ nextHandle \in Handles
           /\ toServer' = toServer \o <<r>> /\ serial' \in 1 .. MaxSerial
<1> DEFINE r == Request("create", 0, nextHandle)
<1>1. nextHandle \in Handles
    BY WireAssumption DEF Create, Types, ClientTypes, Handles
<1>2. RequestOK(r)
    BY <1>1, WireAssumption, PlainRequest DEF RequestTypes, Handles
<1>3. <<r>> \in Seq(Requests)
  <2> HIDE DEF r
  <2> QED BY <1>2 DEF RequestOK
<1>4. Sent(<<r>>)
    BY DEF Create
<1> HIDE DEF r
<1>5. toServer' = toServer \o <<r>> /\ serial' \in 1 .. MaxSerial
    BY <1>3, <1>4, SentSerial
<1> QED BY <1>1, <1>2, <1>3, <1>5 DEF r

LEMMA TalkTypes == ASSUME Types, Talk PROVE Types'
<1>1. WireTypes'
  <2>1. /\ created' = created /\ created \in Nat /\ created <= created' /\ UNCHANGED pending
        /\ UNCHANGED toClient
      BY DEF Talk, Types, ServerTypes
  <2> QED BY <2>1, WireKept
<1>2. ClientTypes' /\ ServerTypes'
    BY DEF Talk, Types, ClientTypes, ServerTypes
<1> QED BY <1>1, <1>2 DEF Types

LEMMA ForgetTypes == ASSUME Types, NEW h \in Handles, Forget(h) PROVE Types'
<1>1. PICK rs \in Seq(Requests) :
         /\ toServer' = toServer \o rs /\ serial' \in 1 .. MaxSerial
         /\ \A i \in DOMAIN rs : RequestOK(rs[i])
    BY DestroyedSends
<1>2. /\ early' \subseteq Handles /\ overlap' \subseteq Handles /\ ready' \subseteq Handles
      /\ obj' = [obj EXCEPT ![h] = NoObject] /\ draw' = [draw EXCEPT ![h] = NoBuffer]
      /\ obj \in [Handles -> Objects] /\ draw \in [Handles -> Buffers]
    BY DEF Forget, Destroyed, Types, ClientTypes
<1>3. NoObject \in Objects /\ NoObject.id = 0 /\ NoBuffer \in Buffers
    BY Sorts, ClientAssumption DEF NoObject, Objects
<1>4. obj' \in [Handles -> Objects] /\ draw' \in [Handles -> Buffers]
    BY <1>2, <1>3
<1>5. \A g \in Handles : obj'[g].id <= created'
    BY <1>2, <1>3 DEF Forget, Types, ClientTypes, ServerTypes
<1>6. ClientTypes'
  <2>1. closed = FALSE
      BY DEF Forget, Destroyed, Types, ClientTypes
  <2> QED BY <1>1, <1>2, <1>4, <1>5, <2>1 DEF Forget, Types, ClientTypes, Modes
<1>7. ServerTypes'
    BY DEF Forget, Types, ServerTypes
<1>8. WireTypes'
  <2>1. UNCHANGED <<toClient, pending, created>> /\ WireTypes /\ created \in Nat
      BY DEF Forget, Types, ServerTypes
  <2>2. /\ \A r : RequestOK(r) => (RequestOK(r))'
        /\ \A e : EventOK(e) => (EventOK(e))'
      BY <2>1, StillOK
  <2>3. toServer' \in Seq(Requests) /\ \A i \in DOMAIN toServer' : (RequestOK(toServer[i]))'
      BY <1>1, <2>1, <2>2, Longer DEF WireTypes
  <2> QED BY <2>1, <2>2, <2>3 DEF WireTypes
<1> QED BY <1>6, <1>7, <1>8 DEF Types

LEMMA AppliedFacts ==
    ASSUME Types, NEW e, EventOK(e)
    PROVE  /\ Applied(e) \in [Handles -> Objects]
           /\ \A h \in Handles : Applied(e)[h].id <= created
           /\ \A h \in Handles : /\ Applied(e)[h].live = obj[h].live
                                 /\ Applied(e)[h].resized = obj[h].resized
                                 /\ Applied(e)[h].attached = obj[h].attached
           /\ \A h \in Handles : Applied(e)[h].id =
                 IF e.kind = "created" /\ h = e.arg /\ obj[h].live THEN e.id ELSE obj[h].id
BY DEF Types, ClientTypes, ServerTypes, Applied, Objects, EventOK

LEMMA TurnObjects ==
    ASSUME Types, Turn
    PROVE  /\ obj' \in [Handles -> Objects] /\ \A h \in Handles : obj'[h].id <= created
           /\ \A h \in Handles : /\ obj'[h].live = obj[h].live
                                 /\ obj'[h].resized = obj[h].resized
                                 /\ obj'[h].attached = obj[h].attached
           /\ \A h \in Handles : \/ obj'[h].id = obj[h].id
                                 \/ /\ pending = <<>> /\ toClient # <<>> /\ obj[h].live
                                    /\ toClient' = Tail(toClient) /\ NextEvent = toClient[1]
                                    /\ toClient[1].kind = "created" /\ toClient[1].arg = h
                                    /\ obj'[h].id = toClient[1].id
           /\ ClientStreamKept
<1>1. Take
    BY DEF Turn
<1>2. CASE UNCHANGED <<toClient, obj>>
    BY <1>2 DEF Types, ClientTypes, ClientStreamKept
<1>3. CASE pending = <<>> /\ toClient # <<>> /\ toClient' = Tail(toClient) /\ obj' = Applied(toClient[1])
           /\ NextEvent = toClient[1]
  <2>1. EventOK(toClient[1])
      BY <1>3, Shorter DEF Types, WireTypes
  <2> QED BY <1>3, <2>1, AppliedFacts DEF ClientStreamKept
<1> QED BY <1>1, <1>2, <1>3, Taken

LEMMA TurnTypes == ASSUME Types, Turn PROVE Types'
<1>1. EventOK(NextEvent) /\ NextEvent \in Events
    BY Taken DEF Turn
<1>2. WireTypes'
    BY <1>1, TurnObjects, WireKept DEF Turn, Types, ServerTypes
<1>3. ServerTypes'
    BY DEF Turn, Types, ServerTypes
<1>4. ready' \subseteq Handles /\ got' \in Nat
    BY <1>1 DEF Turn, Types, ClientTypes, Events
<1>5. ClientTypes'
    BY <1>4, TurnObjects DEF Turn, Types, ClientTypes, Modes
<1> QED BY <1>2, <1>3, <1>5 DEF Types

LEMMA PassTypes == ASSUME Types, Pass PROVE Types'
<1>1. WireTypes'
  <2>1. /\ created' = created /\ created \in Nat /\ created <= created' /\ UNCHANGED pending
        /\ UNCHANGED toServer /\ ClientStreamKept
      BY DEF Pass, Types, ServerTypes
  <2> QED BY <2>1, WireKept
<1>2. ClientTypes' /\ ServerTypes'
  <2>1. closed = FALSE /\ (closed' = FALSE \/ (closed' = TRUE /\ mode' = "gone"))
      BY DEF Pass, Types, ClientTypes
  <2>2. closed' \in BOOLEAN /\ (closed' => mode' = "gone")
      BY <2>1
  <2> QED BY <2>2 DEF Pass, Types, ClientTypes, ServerTypes
<1> QED BY <1>1, <1>2 DEF Types

LEMMA CreateTypes == ASSUME Types, Create PROVE Types'
<1> DEFINE r == Request("create", 0, nextHandle)
<1>1. /\ RequestOK(r) /\ <<r>> \in Seq(Requests) /\ nextHandle \in Handles
      /\ toServer' = toServer \o <<r>> /\ serial' \in 1 .. MaxSerial
    BY CreateSends
<1>2. UNCHANGED <<alive, closed, srv, created, refused, eventNo, inputs, toClient, pending, got, early, ready>>
    BY DEF Create, ServerIdle
<1>3. /\ obj' \in [Handles -> Objects] /\ obj'[nextHandle].live
      /\ \A h \in Handles : obj'[h].id = obj[h].id
    BY <1>1 DEF Create, Types, ClientTypes, Objects
<1>4. draw' \in [Handles -> Buffers] /\ nextHandle' \in 1 .. MaxHandle + 1
    BY <1>1, Sorts, WireAssumption DEF Create, Types, ClientTypes, Handles
<1>5. /\ overlap' \subseteq Handles /\ waitFor' \in Handles \cup {0} /\ mode' \in Modes
      /\ (mode' = "ready" <=> waitFor' # 0) /\ (mode' = "ready" => obj'[waitFor'].live)
  <2>1. nextHandle # 0 /\ mode = "idle" /\ waitFor = 0
      BY <1>1, WireAssumption DEF Create, Types, ClientTypes, Handles
  <2> QED BY <1>1, <1>3, <2>1 DEF Create, Types, ClientTypes, Modes
<1>6. closed = FALSE
    BY DEF Create, Types, ClientTypes
<1>7. ClientTypes' /\ ServerTypes'
    BY <1>1, <1>2, <1>3, <1>4, <1>5, <1>6 DEF Types, ClientTypes, ServerTypes
<1>8. WireTypes'
  <2>1. WireTypes /\ created \in Nat
      BY DEF Types, ServerTypes
  <2>2. /\ \A q : RequestOK(q) => (RequestOK(q))'
        /\ \A e : EventOK(e) => (EventOK(e))'
      BY <1>2, <2>1, StillOK
  <2>3. PICK q : q = r
      OBVIOUS
  <2>4. toServer' \in Seq(Requests) /\ \A i \in DOMAIN toServer' : (RequestOK(toServer[i]))'
    <3>1. <<q>> \in Seq(Requests) /\ toServer' = toServer \o <<q>> /\ RequestOK(q)
          /\ \A i \in DOMAIN <<q>> : <<q>>[i] = q
        BY <1>1, <2>3
    <3> QED BY <2>1, <2>2, <3>1, Longer DEF WireTypes
  <2> QED BY <1>2, <2>1, <2>2, <2>4 DEF WireTypes
<1> QED BY <1>7, <1>8 DEF Types

LEMMA DisconnectTypes == ASSUME Types, Disconnect PROVE Types'
<1>0. /\ obj' \in [Handles -> Objects] /\ \A h \in Handles : obj'[h].id = 0
      /\ draw' \in [Handles -> Buffers] /\ waitFor = 0
      /\ UNCHANGED <<alive, srv, created, refused, eventNo, inputs, serial, nextHandle, waitFor, got>>
      /\ pending' = <<>> /\ toClient' = <<>> /\ early' = {} /\ overlap' = {} /\ ready' = {}
      /\ mode' = "gone" /\ closed' = TRUE
    BY Sorts, ClientAssumption DEF Disconnect, NoObject, Objects, Types, ClientTypes
<1>1. ClientTypes' /\ ServerTypes'
    BY <1>0 DEF Types, ClientTypes, ServerTypes, Modes
<1>2. WireTypes'
  <2>1. WireTypes /\ created \in Nat
      BY DEF Types, ServerTypes
  <2>2. \A r : RequestOK(r) => (RequestOK(r))'
      BY <1>0, <2>1, StillOK
  <2>3. toServer' \in Seq(Requests) /\ \A i \in DOMAIN toServer' : (RequestOK(toServer[i]))'
    <3>1. CASE toServer' = toServer
        BY <2>1, <2>2, <3>1 DEF WireTypes
    <3>2. ASSUME NEW rs \in Seq(Requests), toServer' = toServer \o rs, \A i \in DOMAIN rs : RequestOK(rs[i])
          PROVE  toServer' \in Seq(Requests) /\ \A i \in DOMAIN toServer' : (RequestOK(toServer[i]))'
        BY <2>1, <2>2, <3>2, Longer DEF WireTypes
    <3> QED BY <3>1, <3>2, DisconnectSends
  <2> QED BY <1>0, <2>3 DEF WireTypes
<1> QED BY <1>1, <1>2 DEF Types

LEMMA TableFinite == ASSUME Types PROVE IsFiniteSet(DOMAIN srv) /\ Cardinality(DOMAIN srv) \in Nat
<1>1. created \in Nat /\ DOMAIN srv \in SUBSET (1 .. created)
    BY DEF Types, ServerTypes
<1>2. IsFiniteSet(1 .. created)
    BY <1>1, FS_Interval
<1>3. IsFiniteSet(DOMAIN srv)
    BY <1>1, <1>2, FS_Subset
<1> QED BY <1>3, FS_CardinalityType

LEMMA CalmTypes == ASSUME Types, Calm PROVE Types'
<1>1. UNCHANGED <<clientVars, closed, created>> /\ ServerStreamKept /\ created \in Nat /\ created <= created
    BY DEF Calm, Types, ServerTypes
<1>2. \/ UNCHANGED <<toClient, eventNo>>
      \/ \E kind \in Kinds, id \in Nat, arg \in Nat :
            Send(kind, id, arg) /\ (kind = "created" => id \in 1 .. created' /\ arg \in Handles)
  <2>1. CASE UNCHANGED <<toClient, eventNo>>
      BY <2>1
  <2>2. ASSUME NEW kind \in Kinds \ {"created"}, NEW id \in Nat, NEW arg \in Nat, Send(kind, id, arg)
        PROVE  \E k \in Kinds, i \in Nat, a \in Nat :
                  Send(k, i, a) /\ (k = "created" => i \in 1 .. created' /\ a \in Handles)
    <3>1. Send(kind, id, arg) /\ (kind = "created" => id \in 1 .. created' /\ arg \in Handles)
        BY <2>2
    <3> QED BY <3>1
  <2> QED BY <2>1, <2>2 DEF Calm
<1>3. WireTypes'
    BY <1>1, <1>2, WireKept DEF clientVars
<1>4. ClientTypes'
    BY <1>1 DEF clientVars, Calm, Types, ClientTypes
<1>5. ServerTypes'
  <2>1. IsFiniteSet(DOMAIN srv) /\ Cardinality(DOMAIN srv) \in Nat
      BY TableFinite
  <2>2. DOMAIN srv' \in SUBSET DOMAIN srv
      BY DEF Calm
  <2>3. IsFiniteSet(DOMAIN srv') /\ Cardinality(DOMAIN srv') <= Cardinality(DOMAIN srv)
      BY <2>1, <2>2, FS_Subset
  <2>4. Cardinality(DOMAIN srv') \in Nat /\ Cardinality(DOMAIN srv') <= Limit
      BY <2>1, <2>3, FS_CardinalityType, WireAssumption DEF Types, ServerTypes
  <2>5. eventNo' \in Nat
      BY DEF Calm, Types, ServerTypes, Send
  <2> QED BY <1>1, <2>2, <2>4, <2>5 DEF Calm, Types, ServerTypes
<1> QED BY <1>3, <1>4, <1>5 DEF Types

LEMMA MadeTypes == ASSUME Types, Made PROVE Types'
<1>1. /\ UNCHANGED <<clientVars, alive, closed, refused, inputs>> /\ ServerStreamKept
      /\ created \in Nat /\ created' = created + 1 /\ created <= created' /\ created' \in Nat
    BY DEF Made, ServerStreamKept, Types, ServerTypes
<1>2. toServer[1].arg \in Handles /\ toServer[1].arg \in Nat
  <2>1. RequestOK(toServer[1])
      BY Shorter DEF Made, Types, WireTypes
  <2> QED BY <2>1, WireAssumption DEF Made, RequestOK, Handles
<1>3. \E k \in Kinds, i \in Nat, a \in Nat :
                  Send(k, i, a) /\ (k = "created" => i \in 1 .. created' /\ a \in Handles)
  <2>1. created + 1 \in 1 .. created' /\ created + 1 \in Nat /\ "created" \in Kinds
      BY <1>1 DEF Kinds
  <2> QED BY <1>2, <2>1 DEF Made
<1>4. WireTypes'
    BY <1>1, <1>3, WireKept DEF clientVars
<1>5. ClientTypes'
  <2>1. \A h \in Handles : obj[h].id <= created'
      BY <1>1 DEF Types, ClientTypes, Objects
  <2> QED BY <1>1, <2>1 DEF clientVars, Types, ClientTypes
<1>6. ServerTypes'
  <2>1. IsFiniteSet(DOMAIN srv) /\ Cardinality(DOMAIN srv) \in Nat
      BY TableFinite
  <2>2. created + 1 \notin DOMAIN srv
      BY <1>1 DEF Types, ServerTypes
  <2>3. Cardinality(DOMAIN srv') = Cardinality(DOMAIN srv) + 1
      BY <2>1, <2>2, FS_AddElement DEF Made
  <2>4. Cardinality(DOMAIN srv') <= Limit
      BY <2>1, <2>3, WireAssumption DEF Made
  <2>5. eventNo' \in Nat
      BY DEF Made, Types, ServerTypes, Send
  <2>6. DOMAIN srv' \subseteq 1 .. created'
      BY <1>1 DEF Made, Types, ServerTypes
  <2> QED BY <1>1, <2>4, <2>5, <2>6 DEF Made, Types, ServerTypes
<1> QED BY <1>4, <1>5, <1>6 DEF Types

\* What a step can be.
LEMMA Steps ==
    ASSUME Types, Next
    PROVE  Talk \/ Turn \/ Pass \/ Create \/ Disconnect \/ Calm \/ Made \/ \E h \in Handles : Forget(h)
BY ClientKinds, TalkKind, ServerKinds DEF Next

LEMMA TypesHold == Spec => []Types
<1>1. Init => Types
  <2> SUFFICES ASSUME Init PROVE Types
      OBVIOUS
  <2>1. ClientTypes
    <3>1. /\ obj \in [Handles -> Objects] /\ \A h \in Handles : obj[h].id <= created
          /\ draw \in [Handles -> Buffers]
        BY ClientAssumption, Sorts DEF Init, ServerInit, NoObject, Objects
    <3>2. serial \in 1 .. MaxSerial /\ nextHandle \in 1 .. MaxHandle + 1 /\ got \in Nat
        BY ClientAssumption, WireAssumption DEF Init
    <3> QED BY <3>1, <3>2 DEF Init, ServerInit, ClientTypes, Modes
  <2>2. ServerTypes
    <3>1. srv = <<>> /\ DOMAIN srv = {} /\ Cardinality(DOMAIN srv) = 0
        BY FS_EmptySet DEF Init, ServerInit
    <3>2. <<>> \in [1 .. 0 -> SrvSurfaces] /\ 1 .. 0 = {}
        BY EmptySeq, LenProperties
    <3> QED BY <3>1, <3>2, WireAssumption DEF Init, ServerInit, ServerTypes
  <2>3. WireTypes
      BY DEF Init, ServerInit, WireTypes
  <2> QED BY <2>1, <2>2, <2>3 DEF Types
<1>2. Types /\ [Next]_vars => Types'
  <2> SUFFICES ASSUME Types, [Next]_vars PROVE Types'
      OBVIOUS
  <2>1. CASE Next
      BY <2>1, Steps, TalkTypes, TurnTypes, PassTypes, CreateTypes, DisconnectTypes, CalmTypes,
         MadeTypes, ForgetTypes
  <2>2. CASE UNCHANGED vars
      BY <2>2 DEF vars, clientVars, wireVars, Types, ClientTypes, ServerTypes, WireTypes, RequestOK, EventOK
  <2> QED BY <2>1, <2>2
<1> QED BY <1>1, <1>2, PTL DEF Spec

-----------------------------------------------------------------------------
(* Numbers: the events come in the order in which they were sent *)

Numbered ==
    /\ got <= eventNo
    /\ \A i \in DOMAIN toClient : got < toClient[i].no /\ toClient[i].no <= eventNo
    /\ \A i, j \in DOMAIN toClient : i < j => toClient[i].no < toClient[j].no
    /\ \A i \in DOMAIN pending :
          /\ got < pending[i].no /\ pending[i].no <= eventNo
          /\ \A j \in DOMAIN toClient : pending[i].no < toClient[j].no

LEMMA ClientStreamFacts ==
    ASSUME Types, ClientStreamKept
    PROVE  \E d \in {0, 1} : \A i \in DOMAIN toClient' : i + d \in DOMAIN toClient /\ toClient'[i] = toClient[i + d]
<1>1. toClient \in Seq(Events) /\ (toClient' = toClient \/ toClient' = <<>> \/ (toClient # <<>> /\ toClient' = Tail(toClient)))
    BY DEF Types, WireTypes, ClientStreamKept
<1> QED BY <1>1, Kept

LEMMA ServerStreamFacts ==
    ASSUME Types, ServerStreamKept
    PROVE  \E d \in {0, 1} : \A i \in DOMAIN toServer' : i + d \in DOMAIN toServer /\ toServer'[i] = toServer[i + d]
<1>1. toServer \in Seq(Requests) /\ (toServer' = toServer \/ toServer' = <<>> \/ (toServer # <<>> /\ toServer' = Tail(toServer)))
    BY DEF Types, WireTypes, ServerStreamKept
<1> QED BY <1>1, Kept

\* What a stream holds after an event was sent.
LEMMA SentEvents ==
    ASSUME Types, NEW kind \in Kinds, NEW id \in Nat, NEW arg \in Nat, Send(kind, id, arg)
    PROVE  /\ eventNo' = eventNo + 1
           /\ \A i \in DOMAIN toClient : i \in DOMAIN toClient' /\ toClient'[i] = toClient[i]
           /\ \A i \in DOMAIN toClient' :
                 \/ i \in DOMAIN toClient /\ toClient'[i] = toClient[i]
                 \/ /\ i = Len(toClient) + 1
                    /\ toClient'[i] = [kind |-> kind, id |-> id, arg |-> arg, no |-> eventNo + 1]
           /\ DOMAIN toClient = 1 .. Len(toClient) /\ Len(toClient) \in Nat
<1>0. toClient \in Seq(Events) /\ eventNo \in Nat
    BY DEF Types, WireTypes, ServerTypes
<1>1. DOMAIN toClient = 1 .. Len(toClient) /\ Len(toClient) \in Nat
    BY <1>0, LenProperties
<1>2. PICK e : e = Event(kind, id, arg)
    OBVIOUS
<1>3. e \in Events
    BY <1>0, <1>2 DEF Event, Events
<1>4. CASE toClient' = toClient
    BY <1>1, <1>4 DEF Send
<1>5. CASE toClient' = Append(toClient, e)
  <2>1. /\ DOMAIN toClient' = 1 .. Len(toClient) + 1 /\ toClient'[Len(toClient) + 1] = e
        /\ \A i \in 1 .. Len(toClient) : toClient'[i] = toClient[i]
    <3>1. /\ toClient' \in Seq(Events) /\ Len(toClient') = Len(toClient) + 1
          /\ \A i \in 1 .. Len(toClient) : toClient'[i] = toClient[i]
          /\ toClient'[Len(toClient) + 1] = e
        BY <1>0, <1>3, <1>5, AppendProperties
    <3> QED BY <3>1, LenProperties
  <2> QED BY <1>1, <1>2, <2>1 DEF Send, Event
<1> QED BY <1>2, <1>4, <1>5 DEF Send

LEMMA NumberedKept ==
    ASSUME Types, Numbered, Next
    PROVE  Numbered'
<1>0. /\ eventNo \in Nat /\ got \in Nat /\ toClient \in Seq(Events) /\ pending \in Seq(Events)
      /\ \A i \in DOMAIN toClient : i \in Nat /\ toClient[i].no \in Nat
      /\ \A i \in DOMAIN pending : pending[i].no \in Nat
  <2>1. /\ \A i \in DOMAIN toClient : i \in Nat /\ toClient[i] \in Events
        /\ \A i \in DOMAIN pending : pending[i] \in Events
      BY LenProperties DEF Types, WireTypes, EventOK
  <2> QED BY <2>1 DEF Types, ClientTypes, ServerTypes, WireTypes, Events
\* The stream towards the client is kept, and what was put back goes.
<1>1. ASSUME ClientStreamKept, eventNo' = eventNo, got' = got, pending' = pending \/ pending' = <<>>
      PROVE  Numbered'
  <2>1. PICK d \in {0, 1} : \A i \in DOMAIN toClient' : i + d \in DOMAIN toClient /\ toClient'[i] = toClient[i + d]
      BY <1>1, ClientStreamFacts
  <2>2. \A i \in DOMAIN pending' : i \in DOMAIN pending /\ pending'[i] = pending[i]
      BY <1>1
  <2>3. \A i \in DOMAIN toClient' : i \in Nat
    <3>1. toClient' \in Seq(Events)
        BY <1>0, <1>1, Kept DEF ClientStreamKept
    <3> QED BY <3>1, LenProperties
  <2> QED BY <1>0, <1>1, <2>1, <2>2, <2>3 DEF Numbered
<1>2. ASSUME UNCHANGED <<got, pending>>,
             \E kind \in Kinds, id \in Nat, arg \in Nat : Send(kind, id, arg)
      PROVE  Numbered'
  <2>1. PICK kind \in Kinds, id \in Nat, arg \in Nat : Send(kind, id, arg)
      BY <1>2
  <2>2. /\ eventNo' = eventNo + 1
        /\ \A i \in DOMAIN toClient' :
                 \/ i \in DOMAIN toClient /\ toClient'[i] = toClient[i]
                 \/ i = Len(toClient) + 1 /\ toClient'[i].no = eventNo + 1
        /\ DOMAIN toClient = 1 .. Len(toClient) /\ Len(toClient) \in Nat
    <3>1. \A i \in DOMAIN toClient' :
                 \/ i \in DOMAIN toClient /\ toClient'[i] = toClient[i]
                 \/ /\ i = Len(toClient) + 1
                    /\ toClient'[i] = [kind |-> kind, id |-> id, arg |-> arg, no |-> eventNo + 1]
        BY <2>1, SentEvents
    <3> QED BY <2>1, <3>1, SentEvents
  <2>3. \A i \in DOMAIN toClient' : toClient'[i].no \in Nat /\ toClient'[i].no <= eventNo + 1
      BY <1>0, <2>2 DEF Numbered
  <2>4. got <= eventNo' /\ \A i \in DOMAIN toClient' : got < toClient'[i].no
      BY <1>0, <2>2 DEF Numbered
  <2>5. \A i, j \in DOMAIN toClient' : i < j => toClient'[i].no < toClient'[j].no
    <3>1. ASSUME NEW i \in DOMAIN toClient', NEW j \in DOMAIN toClient', i < j
          PROVE  toClient'[i].no < toClient'[j].no
      <4>1. i \in DOMAIN toClient /\ toClient'[i] = toClient[i]
          BY <2>2, <3>1
      <4> QED BY <1>0, <2>2, <3>1, <4>1 DEF Numbered
    <3> QED BY <3>1
  <2>6. \A i \in DOMAIN pending : /\ pending[i].no <= eventNo + 1
                                  /\ \A j \in DOMAIN toClient' : pending[i].no < toClient'[j].no
      BY <1>0, <2>2 DEF Numbered
  <2> QED BY <1>0, <1>2, <2>2, <2>3, <2>4, <2>5, <2>6 DEF Numbered
<1>3. CASE Talk
  <2>1. UNCHANGED <<toClient, eventNo, got, pending>>
      BY <1>3 DEF Talk
  <2> QED BY <1>1, <2>1 DEF ClientStreamKept
<1>4. CASE Pass
    BY <1>1, <1>4 DEF Pass
<1>5. CASE Create
    BY <1>1, <1>5 DEF Create, ServerIdle, ClientStreamKept
<1>6. CASE Disconnect
    BY <1>1, <1>6 DEF Disconnect, ClientStreamKept
<1>7. ASSUME NEW h \in Handles, Forget(h) PROVE Numbered'
    BY <1>1, <1>7 DEF Forget, ClientStreamKept
<1>8. CASE Calm
  <2>1. CASE UNCHANGED <<toClient, eventNo>>
      BY <1>1, <1>8, <2>1 DEF Calm, clientVars, ClientStreamKept
  <2>2. CASE \E kind \in Kinds, id \in Nat, arg \in Nat : Send(kind, id, arg)
      BY <1>2, <1>8, <2>2 DEF Calm, clientVars
  <2> QED BY <1>8, <2>1, <2>2 DEF Calm
<1>9. CASE Made
  <2>1. toServer[1].arg \in Nat /\ created + 1 \in Nat
    <3>1. RequestOK(toServer[1])
        BY <1>9, Shorter DEF Made, Types, WireTypes
    <3> QED BY <1>9, <3>1, WireAssumption DEF Made, RequestOK, Handles, Types, ServerTypes
  <2> QED BY <1>2, <1>9, <2>1 DEF Made, clientVars, Kinds
<1>10. CASE Turn
  <2>1. eventNo' = eventNo /\ Take
      BY <1>10 DEF Turn
  <2>2. CASE /\ pending # <<>> /\ NextEvent = pending[1] /\ pending = <<NextEvent>> /\ UNCHANGED <<toClient, obj>>
    <3>1. DOMAIN pending = {1} /\ NextEvent.no \in Nat
        BY <1>0, <2>2
    <3>2. CASE pending' = <<>> /\ got' \in {got, NextEvent.no}
      <4>1. DOMAIN pending' = {}
          BY <3>2
      <4> QED BY <1>0, <2>1, <2>2, <3>1, <3>2, <4>1 DEF Numbered
    <3>3. CASE pending' = <<NextEvent>> /\ got' = got
        BY <2>1, <2>2, <3>3 DEF Numbered
    <3> QED BY <1>10, <3>2, <3>3 DEF Turn
  <2>3. CASE /\ pending = <<>> /\ toClient # <<>> /\ NextEvent = toClient[1]
             /\ toClient' = Tail(toClient)
    <3>1. /\ 1 \in DOMAIN toClient
          /\ \A i \in DOMAIN toClient' : i \in Nat /\ i >= 1 /\ i + 1 \in DOMAIN toClient /\ toClient'[i] = toClient[i + 1]
      <4>1. /\ DOMAIN toClient' = 1 .. Len(toClient) - 1 /\ Len(toClient) \in Nat /\ 1 \in DOMAIN toClient
            /\ \A i \in DOMAIN toClient' : i + 1 \in DOMAIN toClient /\ toClient'[i] = toClient[i + 1]
          BY <1>0, <2>3, Shorter
      <4> QED BY <4>1
    <3>2. \A i \in DOMAIN toClient' : NextEvent.no < toClient'[i].no /\ toClient'[i].no <= eventNo
      <4>1. \A i \in DOMAIN toClient' : 1 < i + 1
          BY <3>1
      <4> QED BY <2>3, <3>1, <4>1 DEF Numbered
    <3>3. \A i, j \in DOMAIN toClient' : i < j => toClient'[i].no < toClient'[j].no
      <4>1. \A i, j \in DOMAIN toClient' : i < j => i + 1 < j + 1
          BY <3>1
      <4> QED BY <3>1, <4>1 DEF Numbered
    <3>4. got < NextEvent.no /\ NextEvent.no <= eventNo /\ NextEvent.no \in Nat
        BY <1>0, <2>3, <3>1 DEF Numbered
    <3>5. \A i \in DOMAIN toClient' : got < toClient'[i].no
        BY <3>1 DEF Numbered
    <3>6. CASE pending' = <<>> /\ got' \in {got, NextEvent.no}
      <4>1. DOMAIN pending' = {}
          BY <3>6
      <4> QED BY <1>0, <2>1, <3>2, <3>3, <3>4, <3>5, <3>6, <4>1 DEF Numbered
    <3>7. CASE pending' = <<NextEvent>> /\ got' = got
      <4>1. DOMAIN pending' = {1} /\ pending'[1] = NextEvent
          BY <3>7
      <4> QED BY <1>0, <2>1, <3>2, <3>3, <3>4, <3>5, <3>7, <4>1 DEF Numbered
    <3> QED BY <1>10, <3>6, <3>7 DEF Turn
  <2> QED BY <2>1, <2>2, <2>3, Taken
<1> QED BY <1>3, <1>4, <1>5, <1>6, <1>7, <1>8, <1>9, <1>10, Steps

LEMMA NumbersHold == Spec => []Numbered
<1>1. Init => Numbered
    BY DEF Init, ServerInit, Numbered
<1>2. Types /\ Numbered /\ [Next]_vars => Numbered'
  <2> SUFFICES ASSUME Types, Numbered, [Next]_vars PROVE Numbered'
      OBVIOUS
  <2>1. CASE UNCHANGED vars
      BY <2>1 DEF vars, clientVars, wireVars, Numbered
  <2> QED BY <2>1, NumberedKept
<1> QED BY <1>1, <1>2, TypesHold, PTL DEF Spec

LEMMA NumbersOrder ==
    ASSUME Types, Numbered
    PROVE  EventsInOrder
<1> DEFINE coming == pending \o toClient
<1>0. pending \in Seq(Events) /\ toClient \in Seq(Events)
    BY DEF Types, WireTypes
<1>1. PICK c : c = coming
    OBVIOUS
<1>2. /\ DOMAIN pending = 1 .. Len(pending) /\ Len(pending) \in Nat
      /\ DOMAIN toClient = 1 .. Len(toClient) /\ Len(toClient) \in Nat
      /\ \A i \in DOMAIN c : \/ i \in DOMAIN pending /\ c[i] = pending[i]
                             \/ i - Len(pending) \in DOMAIN toClient /\ c[i] = toClient[i - Len(pending)]
    BY <1>0, <1>1, Longer
<1>3. Len(pending) <= 1
  <2>1. ASSUME NEW e, pending = <<e>> PROVE Len(pending) = 1
      BY <2>1
  <2>2. ASSUME pending = <<>> PROVE Len(pending) = 0
      BY <2>2
  <2> QED BY <2>1, <2>2 DEF Types, WireTypes
<1>4. DOMAIN c = 1 .. Len(pending) + Len(toClient)
    BY <1>0, <1>1, Longer
<1>5. \A i \in DOMAIN c : got < c[i].no /\ c[i].no <= eventNo
    BY <1>2 DEF Numbered
<1>6. ASSUME NEW i \in DOMAIN c, NEW j \in DOMAIN c, i < j
      PROVE  c[i].no < c[j].no
  <2>1. j \notin DOMAIN pending
      BY <1>2, <1>3, <1>4, <1>6
  <2>2. j - Len(pending) \in DOMAIN toClient /\ c[j] = toClient[j - Len(pending)]
      BY <1>2, <2>1
  <2>3. CASE i \in DOMAIN pending /\ c[i] = pending[i]
      BY <2>2, <2>3 DEF Numbered
  <2>4. CASE i - Len(pending) \in DOMAIN toClient /\ c[i] = toClient[i - Len(pending)]
    <3>1. i - Len(pending) < j - Len(pending)
        BY <1>2, <1>4, <1>6
    <3> QED BY <2>2, <2>4, <3>1 DEF Numbered
  <2> QED BY <1>2, <2>3, <2>4
<1> QED BY <1>1, <1>5, <1>6 DEF EventsInOrder

-----------------------------------------------------------------------------
(* Names: a handle has one surface at each end, and one id for both *)

IsCreate(i) == toServer[i].type = "create"
IsAnswer(i) == toClient[i].kind = "created"

\* Handles and ids are given out in order, and no creation is asked for twice.
Fresh ==
    /\ created < nextHandle
    /\ \A i \in DOMAIN toServer : IsCreate(i) => created < toServer[i].arg /\ toServer[i].arg < nextHandle
    /\ \A i, j \in DOMAIN toServer : IsCreate(i) /\ IsCreate(j) /\ i < j => toServer[i].arg < toServer[j].arg
    /\ \A i \in DOMAIN toClient : IsAnswer(i) => toClient[i].arg < nextHandle
    /\ \A h \in early \cup overlap \cup ready : h < nextHandle
    /\ \A h \in Handles : obj[h].live => h < nextHandle
    /\ \A h \in Handles : ~ obj[h].live => obj[h].id = 0
    /\ \A i \in DOMAIN srv : srv[i].handle < nextHandle

\* A creation is on its way, or its answer is, or its surface has an id: not two of them.
Once ==
    /\ \A i \in DOMAIN toServer : IsCreate(i) =>
         /\ obj[toServer[i].arg].id = 0
         /\ \A k \in DOMAIN srv : srv[k].handle # toServer[i].arg
         /\ \A k \in DOMAIN toClient : IsAnswer(k) => toClient[k].arg # toServer[i].arg
    /\ \A i \in DOMAIN toClient : IsAnswer(i) =>
         /\ obj[toClient[i].arg].id = 0
         /\ \A h \in Handles : obj[h].id # toClient[i].id
         /\ \A k \in DOMAIN srv : srv[k].handle = toClient[i].arg <=> k = toClient[i].id
         /\ \A j \in DOMAIN toClient : IsAnswer(j) /\ i # j =>
               toClient[i].arg # toClient[j].arg /\ toClient[i].id # toClient[j].id
    /\ \A g, h \in Handles : obj[g].id # 0 /\ obj[g].id = obj[h].id => g = h
    /\ \A h \in Handles, k \in DOMAIN srv : obj[h].id # 0 => (srv[k].handle = h <=> k = obj[h].id)

\* What is left on its way was on its way, and in this order.
NoNewCreates ==
    \E d \in {0, 1} : \A i \in DOMAIN toServer' :
        toServer'[i].type = "create" => i + d \in DOMAIN toServer /\ toServer'[i] = toServer[i + d]
NoNewAnswers ==
    \E d \in {0, 1} : \A i \in DOMAIN toClient' :
        toClient'[i].kind = "created" => i + d \in DOMAIN toClient /\ toClient'[i] = toClient[i + d]

\* Requests at the end that make nothing.
LEMMA MoreRequests ==
    ASSUME Types, NEW rs \in Seq(Requests), toServer' = toServer \o rs,
           \A i \in DOMAIN rs : rs[i].type # "create"
    PROVE  NoNewCreates
<1>1. toServer \in Seq(Requests)
    BY DEF Types, WireTypes
<1>2. \A i \in DOMAIN toServer' : \/ i \in DOMAIN toServer /\ toServer'[i] = toServer[i]
                                  \/ toServer'[i].type # "create"
    BY <1>1, Longer
<1>3. \A i \in DOMAIN toServer : i + 0 = i
    BY <1>1, LenProperties
<1> QED BY <1>2, <1>3 DEF NoNewCreates

LEMMA FewerCreates ==
    ASSUME Types, Talk \/ Turn \/ Pass \/ Disconnect \/ Calm \/ Made \/ \E h \in Handles : Forget(h)
    PROVE  NoNewCreates
<1>1. CASE Talk
  <2>1. PICK rs \in Seq(Requests) : toServer' = toServer \o rs /\ \A i \in DOMAIN rs : rs[i].type # "create"
      BY <1>1 DEF Talk
  <2> QED BY <2>1, MoreRequests
<1>2. CASE ServerStreamKept
    BY <1>2, ServerStreamFacts DEF NoNewCreates
<1>3. CASE Turn \/ Pass \/ Calm \/ Made
    BY <1>2, <1>3 DEF Turn, Pass, Calm, Made, ServerStreamKept
<1>4. CASE Disconnect
  <2>1. ASSUME NEW rs \in Seq(Requests), toServer' = toServer \o rs, \A i \in DOMAIN rs : rs[i].type = "destroy"
        PROVE  NoNewCreates
    <3>1. \A i \in DOMAIN rs : rs[i].type # "create"
        BY <2>1
    <3> QED BY <2>1, <3>1, MoreRequests
  <2> QED BY <1>2, <1>4, <2>1, DisconnectSends DEF ServerStreamKept
<1>5. ASSUME NEW h \in Handles, Forget(h) PROVE NoNewCreates
  <2>1. PICK rs \in Seq(Requests) : toServer' = toServer \o rs /\ \A i \in DOMAIN rs : rs[i].type = "destroy"
      BY <1>5, DestroyedSends
  <2>2. \A i \in DOMAIN rs : rs[i].type # "create"
      BY <2>1
  <2> QED BY <2>1, <2>2, MoreRequests
<1> QED BY <1>1, <1>3, <1>4, <1>5

LEMMA FewerAnswers ==
    ASSUME Types, Talk \/ Turn \/ Pass \/ Create \/ Disconnect \/ Calm \/ \E h \in Handles : Forget(h)
    PROVE  NoNewAnswers
<1>1. CASE ClientStreamKept
    BY <1>1, ClientStreamFacts DEF NoNewAnswers
<1>2. CASE Talk \/ Create \/ Disconnect \/ \E h \in Handles : Forget(h)
    BY <1>1, <1>2 DEF Talk, Create, ServerIdle, Disconnect, Forget, ClientStreamKept
<1>3. CASE Turn \/ Pass
  <2>1. ClientStreamKept
    <3>1. CASE Turn
        BY <3>1, TurnObjects
    <3>2. CASE Pass
        BY <3>2 DEF Pass
    <3> QED BY <1>3, <3>1, <3>2
  <2> QED BY <1>1, <2>1
<1>4. CASE Calm
  <2>1. CASE UNCHANGED toClient
      BY <1>1, <2>1 DEF ClientStreamKept
  <2>2. ASSUME NEW kind \in Kinds \ {"created"}, NEW id \in Nat, NEW arg \in Nat, Send(kind, id, arg)
        PROVE  NoNewAnswers
    <3>1. \A i \in DOMAIN toClient' : \/ i \in DOMAIN toClient /\ toClient'[i] = toClient[i]
                                      \/ toClient'[i].kind # "created"
      <4>1. \A i \in DOMAIN toClient' :
                 \/ i \in DOMAIN toClient /\ toClient'[i] = toClient[i]
                 \/ /\ i = Len(toClient) + 1
                    /\ toClient'[i] = [kind |-> kind, id |-> id, arg |-> arg, no |-> eventNo + 1]
          BY <2>2, SentEvents
      <4> QED BY <2>2, <4>1
    <3>2. \A i \in DOMAIN toClient : i + 0 = i
        BY LenProperties DEF Types, WireTypes
    <3> QED BY <3>1, <3>2 DEF NoNewAnswers
  <2> QED BY <1>4, <2>1, <2>2 DEF Calm
<1> QED BY <1>2, <1>3, <1>4

\* The streams have numbers for places, and the creations name handles.
LEMMA Places ==
    ASSUME Types
    PROVE  /\ \A i \in DOMAIN toServer : i \in Nat /\ (IsCreate(i) => toServer[i].arg \in Handles)
           /\ \A i \in DOMAIN toClient : i \in Nat /\ (IsAnswer(i) =>
                 toClient[i].arg \in Handles /\ toClient[i].id \in 1 .. created)
           /\ Handles \subseteq Nat /\ nextHandle \in Nat /\ created \in Nat
           /\ \A h \in Handles : obj[h].id \in Nat /\ obj[h].id <= created
           /\ \A k \in DOMAIN srv : k \in 1 .. created /\ srv[k].handle \in Handles
<1>1. \A i \in DOMAIN toServer : i \in Nat /\ RequestOK(toServer[i])
    BY LenProperties DEF Types, WireTypes
<1>2. \A i \in DOMAIN toClient : i \in Nat /\ EventOK(toClient[i])
    BY LenProperties DEF Types, WireTypes
<1>3. \A h \in Handles : obj[h].id \in Nat /\ obj[h].id <= created
    BY DEF Types, ClientTypes, Objects
<1>4. \A k \in DOMAIN srv : k \in 1 .. created /\ srv[k].handle \in Handles
    BY DEF Types, ServerTypes, SrvSurfaces
<1> QED BY <1>1, <1>2, <1>3, <1>4, WireAssumption
        DEF RequestOK, EventOK, IsCreate, IsAnswer, Types, ClientTypes, ServerTypes, Handles

\* Names stay right as long as none is given.
LEMMA NamesKept ==
    ASSUME Types, Types', Fresh, Once, NoNewCreates, NoNewAnswers, UNCHANGED <<created, nextHandle>>,
           DOMAIN srv' \subseteq DOMAIN srv, \A k \in DOMAIN srv' : srv'[k].handle = srv[k].handle,
           \A h \in Handles : /\ obj'[h].id \in {0, obj[h].id} /\ (obj'[h].live => obj[h].live)
                              /\ (~ obj'[h].live => obj'[h].id = 0),
           \A h \in early' \cup overlap' \cup ready' :
               h \in early \cup overlap \cup ready \/ (h \in Handles /\ obj[h].live)
    PROVE  Fresh' /\ Once'
<1>1. PICK d \in {0, 1} : \A i \in DOMAIN toServer' : toServer'[i].type = "create" =>
          i + d \in DOMAIN toServer /\ toServer'[i] = toServer[i + d] /\ IsCreate(i + d)
    BY DEF NoNewCreates, IsCreate
<1>2. PICK c \in {0, 1} : \A i \in DOMAIN toClient' : toClient'[i].kind = "created" =>
          i + c \in DOMAIN toClient /\ toClient'[i] = toClient[i + c] /\ IsAnswer(i + c)
    BY DEF NoNewAnswers, IsAnswer
<1>3. /\ \A i \in DOMAIN toServer' : i \in Nat
      /\ \A i \in DOMAIN toClient' : i \in Nat
    BY LenProperties DEF Types, WireTypes
<1>4. \A i \in DOMAIN toServer' : toServer'[i].type = "create" => toServer'[i].arg \in Handles
    BY <1>1, Places
<1>5. \A i \in DOMAIN toClient' : toClient'[i].kind = "created" => toClient'[i].arg \in Handles
    BY <1>2, Places
<1>6. Fresh'
  <2>1. \A i \in DOMAIN toServer' : toServer'[i].type = "create" =>
            created < toServer'[i].arg /\ toServer'[i].arg < nextHandle
      BY <1>1 DEF Fresh
  <2>2. \A i, j \in DOMAIN toServer' : toServer'[i].type = "create" /\ toServer'[j].type = "create" /\ i < j =>
            toServer'[i].arg < toServer'[j].arg
    <3>1. ASSUME NEW i \in DOMAIN toServer', NEW j \in DOMAIN toServer',
                 toServer'[i].type = "create", toServer'[j].type = "create", i < j
          PROVE  toServer'[i].arg < toServer'[j].arg
      <4>1. i + d < j + d
          BY <1>3, <3>1
      <4> QED BY <1>1, <3>1, <4>1 DEF Fresh
    <3> QED BY <3>1
  <2>3. \A i \in DOMAIN toClient' : toClient'[i].kind = "created" => toClient'[i].arg < nextHandle
      BY <1>2 DEF Fresh
  <2>4. \A h \in early' \cup overlap' \cup ready' : h < nextHandle
      BY DEF Fresh
  <2> QED BY <2>1, <2>2, <2>3, <2>4 DEF Fresh, IsCreate, IsAnswer
<1>7. Once'
  <2>1. ASSUME NEW i \in DOMAIN toServer', toServer'[i].type = "create"
        PROVE  /\ obj'[toServer'[i].arg].id = 0
               /\ \A k \in DOMAIN srv' : srv'[k].handle # toServer'[i].arg
               /\ \A k \in DOMAIN toClient' : toClient'[k].kind = "created" => toClient'[k].arg # toServer'[i].arg
      BY <1>1, <1>2, <1>4, <2>1 DEF Once
  <2>2. ASSUME NEW i \in DOMAIN toClient', toClient'[i].kind = "created"
        PROVE  /\ obj'[toClient'[i].arg].id = 0
               /\ \A h \in Handles : obj'[h].id # toClient'[i].id
               /\ \A k \in DOMAIN srv' : srv'[k].handle = toClient'[i].arg <=> k = toClient'[i].id
               /\ \A j \in DOMAIN toClient' : toClient'[j].kind = "created" /\ i # j =>
                    toClient'[i].arg # toClient'[j].arg /\ toClient'[i].id # toClient'[j].id
    <3>1. toClient'[i].id # 0
        BY <1>2, <2>2, Places
    <3>2. \A j \in DOMAIN toClient' : i # j => i + c # j + c
        BY <1>3
    <3> QED BY <1>2, <1>5, <2>2, <3>1, <3>2 DEF Once
  <2>3. \A g, h \in Handles : obj'[g].id # 0 /\ obj'[g].id = obj'[h].id => g = h
      BY DEF Once
  <2>4. \A h \in Handles, k \in DOMAIN srv' : obj'[h].id # 0 => (srv'[k].handle = h <=> k = obj'[h].id)
      BY DEF Once
  <2> QED BY <2>1, <2>2, <2>3, <2>4 DEF Once, IsCreate, IsAnswer
<1> QED BY <1>6, <1>7

\* An answer is taken: the surface it is about gets its id.
LEMMA NamesTurn ==
    ASSUME Types, Types', Fresh, Once, Turn
    PROVE  Fresh' /\ Once'
<1>1. /\ UNCHANGED <<created, nextHandle, srv, toServer, early, overlap>>
      /\ ready' = ready \/ (ready' = ready \cup {waitFor} /\ mode = "ready")
    BY DEF Turn
<1>2. \A h \in early' \cup overlap' \cup ready' :
               h \in early \cup overlap \cup ready \/ (h \in Handles /\ obj[h].live)
    BY <1>1 DEF Types, ClientTypes
<1>3. NoNewCreates /\ NoNewAnswers
    BY FewerCreates, FewerAnswers
<1>4. CASE \A h \in Handles : obj'[h].id = obj[h].id
  <2>1. \A h \in Handles : /\ obj'[h].id \in {0, obj[h].id} /\ (obj'[h].live => obj[h].live)
                           /\ (~ obj'[h].live => obj'[h].id = 0)
      BY <1>4, TurnObjects DEF Fresh
  <2> QED BY <1>1, <1>2, <1>3, <2>1, NamesKept
<1>5. ASSUME NEW h \in Handles, obj'[h].id # obj[h].id
      PROVE  Fresh' /\ Once'
  <2>1. /\ toClient # <<>> /\ toClient' = Tail(toClient) /\ toClient[1].kind = "created"
        /\ toClient[1].arg = h /\ obj'[h].id = toClient[1].id /\ obj[h].live
        /\ \A g \in Handles : obj'[g].live = obj[g].live
      BY <1>5, TurnObjects
  <2>2. /\ 1 \in DOMAIN toClient /\ IsAnswer(1)
        /\ \A i \in DOMAIN toClient' : /\ i \in Nat /\ i # 0 /\ i + 1 \in DOMAIN toClient
                                       /\ toClient'[i] = toClient[i + 1]
    <3>1. /\ 1 \in DOMAIN toClient /\ Len(toClient) \in Nat /\ DOMAIN toClient' = 1 .. Len(toClient) - 1
          /\ \A i \in DOMAIN toClient' : i + 1 \in DOMAIN toClient /\ toClient'[i] = toClient[i + 1]
        BY <2>1, Shorter DEF Types, WireTypes
    <3> QED BY <2>1, <3>1 DEF IsAnswer
  <2>3. \A g \in Handles : g # h => obj'[g].id = obj[g].id
      BY <2>1, TurnObjects
  <2>4. Fresh'
    <3>1. \A i \in DOMAIN toClient' : toClient'[i].kind = "created" => toClient'[i].arg < nextHandle
        BY <2>2 DEF Fresh, IsAnswer
    <3>2. \A g \in Handles : ~ obj'[g].live => obj'[g].id = 0
        BY <2>1, <2>3 DEF Fresh
    <3>3. \A g \in early' \cup overlap' \cup ready' : g < nextHandle
        BY <1>2 DEF Fresh
    <3> QED BY <1>1, <2>1, <3>1, <3>2, <3>3 DEF Fresh, IsCreate, IsAnswer
  <2>5. Once'
    <3>0. toClient[1].id # 0 /\ obj[h].id = 0
        BY <2>1, <2>2, Places DEF Once
    <3>1. ASSUME NEW i \in DOMAIN toServer, IsCreate(i)
          PROVE  /\ obj'[toServer[i].arg].id = 0
                 /\ \A k \in DOMAIN toClient' : toClient'[k].kind = "created" => toClient'[k].arg # toServer[i].arg
      <4>1. toServer[i].arg \in Handles /\ toServer[i].arg # h /\ obj[toServer[i].arg].id = 0
          BY <2>1, <2>2, <3>1, Places DEF Once
      <4> QED BY <2>2, <2>3, <3>1, <4>1 DEF Once, IsAnswer
    <3>2. ASSUME NEW i \in DOMAIN toClient', toClient'[i].kind = "created"
          PROVE  /\ obj'[toClient'[i].arg].id = 0
                 /\ \A g \in Handles : obj'[g].id # toClient'[i].id
                 /\ \A k \in DOMAIN srv : srv[k].handle = toClient'[i].arg <=> k = toClient'[i].id
                 /\ \A j \in DOMAIN toClient' : toClient'[j].kind = "created" /\ i # j =>
                      toClient'[i].arg # toClient'[j].arg /\ toClient'[i].id # toClient'[j].id
      <4>1. /\ i + 1 \in DOMAIN toClient /\ IsAnswer(i + 1) /\ i + 1 # 1 /\ toClient'[i] = toClient[i + 1]
            /\ toClient[i + 1].arg \in Handles
          BY <2>2, <3>2, Places DEF IsAnswer
      <4>2. toClient[i + 1].arg # h /\ toClient[i + 1].id # toClient[1].id
          BY <2>1, <2>2, <4>1 DEF Once
      <4>3. \A j \in DOMAIN toClient' : i # j => i + 1 # j + 1
          BY <2>2
      <4>4. obj'[toClient'[i].arg].id = 0 /\ \A g \in Handles : obj'[g].id # toClient'[i].id
          BY <2>1, <2>3, <4>1, <4>2 DEF Once
      <4>5. \A k \in DOMAIN srv : srv[k].handle = toClient'[i].arg <=> k = toClient'[i].id
          BY <4>1 DEF Once
      <4>6. ASSUME NEW j \in DOMAIN toClient', toClient'[j].kind = "created", i # j
            PROVE  toClient'[i].arg # toClient'[j].arg /\ toClient'[i].id # toClient'[j].id
        <5>1. j + 1 \in DOMAIN toClient /\ IsAnswer(j + 1) /\ toClient'[j] = toClient[j + 1] /\ i + 1 # j + 1
            BY <2>2, <4>3, <4>6 DEF IsAnswer
        <5> QED BY <4>1, <5>1 DEF Once
      <4> QED BY <4>4, <4>5, <4>6
    <3>3. \A f, g \in Handles : obj'[f].id # 0 /\ obj'[f].id = obj'[g].id => f = g
        BY <2>1, <2>2, <2>3 DEF Once
    <3>4. \A g \in Handles, k \in DOMAIN srv : obj'[g].id # 0 => (srv[k].handle = g <=> k = obj'[g].id)
        BY <2>1, <2>2, <2>3 DEF Once
    <3> QED BY <1>1, <3>1, <3>2, <3>3, <3>4 DEF Once, IsCreate, IsAnswer
  <2> QED BY <2>4, <2>5
<1> QED BY <1>4, <1>5

\* A handle that nobody has heard of is asked for.
LEMMA NamesCreate ==
    ASSUME Types, Types', Fresh, Once, Create
    PROVE  Fresh' /\ Once'
<1>1. /\ UNCHANGED <<srv, created, toClient, early, ready>> /\ nextHandle' = nextHandle + 1
      /\ overlap' \subseteq overlap \cup {nextHandle}
      /\ nextHandle \in Handles /\ nextHandle \in Nat /\ created \in Nat
  <2>1. nextHandle \in Handles
      BY CreateSends
  <2> QED BY <2>1, Places DEF Create, ServerIdle
<1>2. /\ obj'[nextHandle].live
      /\ \A h \in Handles : obj'[h].id = obj[h].id /\ (h # nextHandle => obj'[h].live = obj[h].live)
  <2>1. obj' = [obj EXCEPT ![nextHandle].live = TRUE] /\ obj \in [Handles -> Objects]
      BY DEF Create, Types, ClientTypes
  <2>2. \A h \in Handles : obj[h] \in Objects /\ (h # nextHandle => obj'[h] = obj[h])
      BY <1>1, <2>1
  <2>3. obj'[nextHandle] = [obj[nextHandle] EXCEPT !.live = TRUE]
      BY <1>1, <2>1
  <2>4. obj'[nextHandle].live = TRUE /\ obj'[nextHandle].id = obj[nextHandle].id
      BY <1>1, <2>2, <2>3 DEF Objects
  <2> QED BY <1>1, <2>2, <2>4
<1>3. PICK r : r = Request("create", 0, nextHandle)
    OBVIOUS
<1>4. /\ r.type = "create" /\ r.arg = nextHandle
      /\ Len(toServer) \in Nat /\ DOMAIN toServer = 1 .. Len(toServer)
      /\ \A i \in DOMAIN toServer' : \/ i \in DOMAIN toServer /\ toServer'[i] = toServer[i]
                                     \/ i = Len(toServer) + 1 /\ toServer'[i] = r
  <2>1. <<r>> \in Seq(Requests) /\ toServer' = toServer \o <<r>> /\ toServer \in Seq(Requests)
      BY <1>3, CreateSends DEF Types, WireTypes
  <2>2. Len(<<r>>) = 1 /\ DOMAIN <<r>> = {1} /\ <<r>>[1] = r
      OBVIOUS
  <2>3. PICK q : q = <<r>>
      OBVIOUS
  <2>4. \A i \in DOMAIN toServer' : \/ i \in DOMAIN toServer /\ toServer'[i] = toServer[i]
                                    \/ i - Len(toServer) = 1 /\ toServer'[i] = r
      BY <2>1, <2>2, <2>3, Longer
  <2>5. /\ Len(toServer) \in Nat /\ DOMAIN toServer = 1 .. Len(toServer) /\ DOMAIN toServer' = 1 .. Len(toServer')
        /\ Len(toServer') \in Nat
      BY <2>1, LenProperties DEF Types, WireTypes
  <2>6. \A i \in DOMAIN toServer' : i \in Nat
      BY <2>5
  <2> QED BY <1>3, <2>4, <2>5, <2>6 DEF Request
<1>5. ~ obj[nextHandle].live /\ obj[nextHandle].id = 0
    BY <1>1 DEF Fresh
<1>6. Fresh'
  <2>1. \A i \in DOMAIN toServer' : toServer'[i].type = "create" =>
            created < toServer'[i].arg /\ toServer'[i].arg < nextHandle + 1
    <3>1. ASSUME NEW i \in DOMAIN toServer, IsCreate(i)
          PROVE  created < toServer[i].arg /\ toServer[i].arg < nextHandle + 1
      <4>1. toServer[i].arg \in Nat /\ created < toServer[i].arg /\ toServer[i].arg < nextHandle
          BY <3>1, Places DEF Fresh
      <4> QED BY <1>1, <4>1
    <3> QED BY <1>1, <1>4, <3>1 DEF Fresh, IsCreate
  <2>2. ASSUME NEW i \in DOMAIN toServer', NEW j \in DOMAIN toServer',
               toServer'[i].type = "create", toServer'[j].type = "create", i < j
        PROVE  toServer'[i].arg < toServer'[j].arg
    <3>1. i \in DOMAIN toServer /\ IsCreate(i) /\ toServer'[i] = toServer[i]
      <4>1. j \in Nat /\ j <= Len(toServer) + 1
          BY <1>4, <2>2
      <4> QED BY <1>4, <2>2, <4>1 DEF IsCreate
    <3> QED BY <1>4, <2>2, <3>1 DEF Fresh, IsCreate
  <2>3. ASSUME NEW i \in DOMAIN toClient, IsAnswer(i) PROVE toClient[i].arg < nextHandle + 1
    <3>1. toClient[i].arg \in Nat /\ toClient[i].arg < nextHandle
        BY <2>3, Places DEF Fresh
    <3> QED BY <1>1, <3>1
  <2>4. \A h \in early' \cup overlap' \cup ready' : h < nextHandle + 1
    <3>1. \A h \in early \cup overlap \cup ready : h \in Nat /\ h < nextHandle
        BY Places DEF Fresh, Types, ClientTypes
    <3> QED BY <1>1, <3>1
  <2>5. \A h \in Handles : obj'[h].live => h < nextHandle + 1
    <3>1. ASSUME NEW h \in Handles, obj'[h].live PROVE h < nextHandle + 1
      <4>1. h \in Nat /\ (h = nextHandle \/ obj[h].live)
          BY <1>2, <3>1, Places
      <4> QED BY <1>1, <4>1 DEF Fresh
    <3> QED BY <3>1
  <2>6. \A h \in Handles : ~ obj'[h].live => obj'[h].id = 0
      BY <1>2 DEF Fresh
  <2>7. ASSUME NEW k \in DOMAIN srv PROVE srv[k].handle < nextHandle + 1
    <3>1. srv[k].handle \in Nat /\ srv[k].handle < nextHandle
        BY Places DEF Fresh
    <3> QED BY <1>1, <3>1
  <2>8. created < nextHandle + 1
      BY <1>1 DEF Fresh
  <2> QED BY <1>1, <2>1, <2>2, <2>3, <2>4, <2>5, <2>6, <2>7, <2>8 DEF Fresh, IsCreate, IsAnswer
<1>7. Once'
  <2>1. ASSUME NEW i \in DOMAIN toServer', toServer'[i].type = "create"
        PROVE  /\ obj'[toServer'[i].arg].id = 0
               /\ \A k \in DOMAIN srv : srv[k].handle # toServer'[i].arg
               /\ \A k \in DOMAIN toClient : IsAnswer(k) => toClient[k].arg # toServer'[i].arg
    <3>1. CASE i \in DOMAIN toServer /\ toServer'[i] = toServer[i]
        BY <1>2, <2>1, <3>1, Places DEF Once, IsCreate
    <3>2. CASE toServer'[i] = r
      <4>1. \A k \in DOMAIN srv : srv[k].handle # nextHandle
          BY <1>1, Places DEF Fresh
      <4>2. \A k \in DOMAIN toClient : IsAnswer(k) => toClient[k].arg # nextHandle
          BY <1>1, Places DEF Fresh
      <4> QED BY <1>1, <1>2, <1>4, <1>5, <3>2, <4>1, <4>2
    <3> QED BY <1>4, <3>1, <3>2
  <2>2. ASSUME NEW i \in DOMAIN toClient, IsAnswer(i)
        PROVE  /\ obj'[toClient[i].arg].id = 0
               /\ \A h \in Handles : obj'[h].id # toClient[i].id
               /\ \A k \in DOMAIN srv : srv[k].handle = toClient[i].arg <=> k = toClient[i].id
               /\ \A j \in DOMAIN toClient : IsAnswer(j) /\ i # j =>
                    toClient[i].arg # toClient[j].arg /\ toClient[i].id # toClient[j].id
      BY <1>2, <2>2, Places DEF Once
  <2>3. \A g, h \in Handles : obj'[g].id # 0 /\ obj'[g].id = obj'[h].id => g = h
      BY <1>2 DEF Once
  <2>4. \A h \in Handles, k \in DOMAIN srv : obj'[h].id # 0 => (srv[k].handle = h <=> k = obj'[h].id)
      BY <1>2 DEF Once
  <2> QED BY <1>1, <2>1, <2>2, <2>3, <2>4 DEF Once, IsCreate, IsAnswer
<1> QED BY <1>6, <1>7

\* The compositor gives the surface an id, and says so to a client that still listens.
LEMMA NamesMade ==
    ASSUME Types, Types', Fresh, Once, Made
    PROVE  Fresh' /\ Once'
<1> DEFINE a == toServer[1].arg
<1>1. /\ UNCHANGED <<obj, nextHandle, early, overlap, ready>> /\ created' = created + 1
      /\ DOMAIN srv' = DOMAIN srv \cup {created + 1} /\ srv'[created + 1].handle = a
      /\ \A k \in DOMAIN srv : srv'[k] = srv[k]
    BY DEF Made, clientVars
<1>2. /\ 1 \in DOMAIN toServer /\ IsCreate(1) /\ a \in Handles
      /\ \A i \in DOMAIN toServer' : /\ i \in Nat /\ 1 < i + 1 /\ i + 1 \in DOMAIN toServer
                                     /\ toServer'[i] = toServer[i + 1]
  <2>1. /\ 1 \in DOMAIN toServer /\ Len(toServer) \in Nat /\ DOMAIN toServer' = 1 .. Len(toServer) - 1
        /\ \A i \in DOMAIN toServer' : i + 1 \in DOMAIN toServer /\ toServer'[i] = toServer[i + 1]
      BY Shorter DEF Made, Types, WireTypes
  <2>2. IsCreate(1)
      BY DEF Made, IsCreate
  <2> QED BY <2>1, <2>2, Places
<1>3. /\ a \in Nat /\ created \in Nat /\ nextHandle \in Nat /\ created + 1 \in Nat /\ created + 1 \notin DOMAIN srv
      /\ created < a /\ a < nextHandle
    BY <1>2, Places DEF Fresh
<1>4. \A i \in DOMAIN toClient' :
         \/ i \in DOMAIN toClient /\ toClient'[i] = toClient[i]
         \/ i = Len(toClient) + 1 /\ toClient'[i].arg = a /\ toClient'[i].id = created + 1
  <2>1. "created" \in Kinds /\ Send("created", created + 1, a)
      BY DEF Made, Kinds
  <2>2. \A i \in DOMAIN toClient' :
           \/ i \in DOMAIN toClient /\ toClient'[i] = toClient[i]
           \/ /\ i = Len(toClient) + 1
              /\ toClient'[i] = [kind |-> "created", id |-> created + 1, arg |-> a, no |-> eventNo + 1]
      BY <1>3, <2>1, SentEvents
  <2> QED BY <2>2
<1> HIDE DEF a
<1>5. ASSUME NEW i \in DOMAIN toServer', toServer'[i].type = "create"
      PROVE  /\ i + 1 \in DOMAIN toServer /\ IsCreate(i + 1) /\ toServer'[i] = toServer[i + 1]
             /\ toServer[i + 1].arg \in Handles /\ toServer[i + 1].arg \in Nat /\ a < toServer[i + 1].arg
  <2>1. i + 1 \in DOMAIN toServer /\ IsCreate(i + 1) /\ toServer'[i] = toServer[i + 1] /\ 1 < i + 1
      BY <1>2, <1>5 DEF IsCreate
  <2> QED BY <1>2, <2>1, Places DEF Fresh, a
<1>6. Fresh'
  <2>1. \A i \in DOMAIN toServer' : toServer'[i].type = "create" =>
            created + 1 < toServer'[i].arg /\ toServer'[i].arg < nextHandle
      BY <1>3, <1>5 DEF Fresh
  <2>2. ASSUME NEW i \in DOMAIN toServer', NEW j \in DOMAIN toServer',
               toServer'[i].type = "create", toServer'[j].type = "create", i < j
        PROVE  toServer'[i].arg < toServer'[j].arg
    <3>1. i + 1 < j + 1
        BY <1>2, <2>2
    <3> QED BY <1>5, <2>2, <3>1 DEF Fresh
  <2>3. \A i \in DOMAIN toClient' : toClient'[i].kind = "created" => toClient'[i].arg < nextHandle
      BY <1>3, <1>4 DEF Fresh, IsAnswer
  <2>4. \A k \in DOMAIN srv' : srv'[k].handle < nextHandle
      BY <1>1, <1>3 DEF Fresh
  <2>5. created + 1 < nextHandle
      BY <1>3
  <2> QED BY <1>1, <2>1, <2>2, <2>3, <2>4, <2>5 DEF Fresh, IsCreate, IsAnswer
<1>7. /\ obj[a].id = 0 /\ \A k \in DOMAIN srv : srv[k].handle # a
      /\ \A k \in DOMAIN toClient : IsAnswer(k) => toClient[k].arg # a
    BY <1>2 DEF Once, a
<1>8. Once'
  <2>1. ASSUME NEW i \in DOMAIN toServer', toServer'[i].type = "create"
        PROVE  /\ obj[toServer'[i].arg].id = 0
               /\ \A k \in DOMAIN srv' : srv'[k].handle # toServer'[i].arg
               /\ \A k \in DOMAIN toClient' : toClient'[k].kind = "created" => toClient'[k].arg # toServer'[i].arg
    <3>1. toServer'[i].arg # a
        BY <1>3, <1>5, <2>1
    <3>2. /\ obj[toServer'[i].arg].id = 0
          /\ \A k \in DOMAIN srv : srv[k].handle # toServer'[i].arg
          /\ \A k \in DOMAIN toClient : IsAnswer(k) => toClient[k].arg # toServer'[i].arg
        BY <1>5, <2>1 DEF Once
    <3> QED BY <1>1, <1>4, <3>1, <3>2 DEF IsAnswer
  <2>2. ASSUME NEW i \in DOMAIN toClient', toClient'[i].kind = "created"
        PROVE  /\ obj[toClient'[i].arg].id = 0
               /\ \A h \in Handles : obj[h].id # toClient'[i].id
               /\ \A k \in DOMAIN srv' : srv'[k].handle = toClient'[i].arg <=> k = toClient'[i].id
               /\ \A j \in DOMAIN toClient' : toClient'[j].kind = "created" /\ i # j =>
                    toClient'[i].arg # toClient'[j].arg /\ toClient'[i].id # toClient'[j].id
    <3>0. \A j \in DOMAIN toClient : IsAnswer(j) => toClient[j].id # created + 1 /\ toClient[j].arg # a
        BY <1>3, <1>7, Places
    <3>1. CASE i \in DOMAIN toClient /\ toClient'[i] = toClient[i]
      <4>1. IsAnswer(i)
          BY <2>2, <3>1 DEF IsAnswer
      <4>2. obj[toClient[i].arg].id = 0 /\ \A h \in Handles : obj[h].id # toClient[i].id
          BY <3>1, <4>1 DEF Once
      <4>3. \A k \in DOMAIN srv' : srv'[k].handle = toClient[i].arg <=> k = toClient[i].id
          BY <1>1, <3>0, <3>1, <4>1 DEF Once
      <4>4. ASSUME NEW j \in DOMAIN toClient', toClient'[j].kind = "created", i # j
            PROVE  toClient[i].arg # toClient'[j].arg /\ toClient[i].id # toClient'[j].id
        <5>1. CASE j \in DOMAIN toClient /\ toClient'[j] = toClient[j]
            BY <3>1, <4>1, <4>4, <5>1 DEF Once, IsAnswer
        <5>2. CASE toClient'[j].arg = a /\ toClient'[j].id = created + 1
            BY <3>0, <3>1, <4>1, <5>2
        <5> QED BY <1>4, <5>1, <5>2
      <4> QED BY <3>1, <4>2, <4>3, <4>4
    <3>2. CASE i = Len(toClient) + 1 /\ toClient'[i].arg = a /\ toClient'[i].id = created + 1
      <4>1. \A h \in Handles : obj[h].id # created + 1
          BY <1>3, Places
      <4>2. \A k \in DOMAIN srv' : srv'[k].handle = a <=> k = created + 1
          BY <1>1, <1>3, <1>7
      <4>3. ASSUME NEW j \in DOMAIN toClient', toClient'[j].kind = "created", i # j
            PROVE  a # toClient'[j].arg /\ created + 1 # toClient'[j].id
          BY <1>4, <3>0, <3>2, <4>3 DEF IsAnswer
      <4> QED BY <1>7, <3>2, <4>1, <4>2, <4>3
    <3> QED BY <1>4, <3>1, <3>2
  <2>3. \A g, h \in Handles : obj[g].id # 0 /\ obj[g].id = obj[h].id => g = h
      BY DEF Once
  <2>4. ASSUME NEW h \in Handles, NEW k \in DOMAIN srv', obj[h].id # 0
        PROVE  srv'[k].handle = h <=> k = obj[h].id
    <3>1. CASE k \in DOMAIN srv
        BY <1>1, <2>4, <3>1 DEF Once
    <3>2. CASE k = created + 1
      <4>1. obj[h].id # created + 1 /\ h # a
          BY <1>3, <1>7, <2>4, Places
      <4> QED BY <1>1, <3>2, <4>1
    <3> QED BY <1>1, <3>1, <3>2
  <2> QED BY <1>1, <2>1, <2>2, <2>3, <2>4 DEF Once, IsCreate, IsAnswer
<1> QED BY <1>6, <1>8

LEMMA NamesStep ==
    ASSUME Types, Types', Fresh, Once, Next
    PROVE  Fresh' /\ Once'
<1>0. \A h \in Handles : ~ obj[h].live => obj[h].id = 0
    BY DEF Fresh
<1>1. CASE Talk
  <2>1. NoNewCreates /\ NoNewAnswers
      BY <1>1, FewerCreates, FewerAnswers
  <2>2. /\ UNCHANGED <<srv, created, nextHandle, early, overlap, ready>>
        /\ \A h \in Handles : obj'[h].live = obj[h].live /\ obj'[h].id = obj[h].id
      BY <1>1 DEF Talk
  <2> QED BY <1>0, <2>1, <2>2, NamesKept
<1>2. CASE Pass
  <2>1. NoNewCreates /\ NoNewAnswers
      BY <1>2, FewerCreates, FewerAnswers
  <2>2. UNCHANGED <<srv, created, nextHandle, early, overlap, ready, obj>>
      BY <1>2 DEF Pass
  <2> QED BY <1>0, <2>1, <2>2, NamesKept
<1>3. CASE Disconnect
  <2>1. NoNewCreates /\ NoNewAnswers
      BY <1>3, FewerCreates, FewerAnswers
  <2>2. /\ UNCHANGED <<srv, created, nextHandle>> /\ early' = {} /\ overlap' = {} /\ ready' = {}
        /\ \A h \in Handles : obj'[h].live = FALSE /\ obj'[h].id = 0
      BY <1>3 DEF Disconnect, NoObject
  <2> QED BY <2>1, <2>2, NamesKept
<1>4. ASSUME NEW h \in Handles, Forget(h) PROVE Fresh' /\ Once'
  <2>1. NoNewCreates /\ NoNewAnswers
      BY <1>4, FewerCreates, FewerAnswers
  <2>2. /\ UNCHANGED <<srv, created, nextHandle>> /\ overlap' \subseteq overlap /\ ready' \subseteq ready
        /\ early' \subseteq early \cup {h} /\ obj[h].live
        /\ obj' = [obj EXCEPT ![h] = NoObject]
      BY <1>4 DEF Forget, Destroyed
  <2>3. \A g \in Handles : IF g = h THEN obj'[g].live = FALSE /\ obj'[g].id = 0 ELSE obj'[g] = obj[g]
      BY <2>2 DEF NoObject, Types, ClientTypes
  <2>4. \A g \in Handles : /\ obj'[g].id \in {0, obj[g].id} /\ (obj'[g].live => obj[g].live)
                           /\ (~ obj'[g].live => obj'[g].id = 0)
      BY <1>0, <2>3
  <2> QED BY <2>1, <2>2, <2>4, NamesKept
<1>5. CASE Calm
  <2>1. NoNewCreates /\ NoNewAnswers
      BY <1>5, FewerCreates, FewerAnswers
  <2>2. /\ UNCHANGED <<created, nextHandle, early, overlap, ready, obj>> /\ DOMAIN srv' \subseteq DOMAIN srv
        /\ \A k \in DOMAIN srv' : srv'[k].handle = srv[k].handle
      BY <1>5 DEF Calm, clientVars
  <2> QED BY <1>0, <2>1, <2>2, NamesKept
<1> QED BY <1>1, <1>2, <1>3, <1>4, <1>5, Steps, NamesTurn, NamesCreate, NamesMade

LEMMA NamesHold == Spec => [](Fresh /\ Once)
<1>1. Init => Fresh /\ Once
  <2> SUFFICES ASSUME Init PROVE Fresh /\ Once
      OBVIOUS
  <2>1. /\ DOMAIN toServer = {} /\ DOMAIN toClient = {} /\ DOMAIN srv = {} /\ created = 0 /\ nextHandle = 1
        /\ early = {} /\ overlap = {} /\ ready = {}
        /\ \A h \in Handles : obj[h].live = FALSE /\ obj[h].id = 0
      BY DEF Init, ServerInit, NoObject
  <2> QED BY <2>1 DEF Fresh, Once
<1>2. Types /\ Types' /\ Fresh /\ Once /\ [Next]_vars => Fresh' /\ Once'
  <2> SUFFICES ASSUME Types, Types', Fresh, Once, [Next]_vars PROVE Fresh' /\ Once'
      OBVIOUS
  <2>1. CASE UNCHANGED vars
      BY <2>1 DEF vars, clientVars, wireVars, Fresh, Once, IsCreate, IsAnswer
  <2> QED BY <2>1, NamesStep
<1> QED BY <1>1, <1>2, TypesHold, PTL DEF Spec

-----------------------------------------------------------------------------
(* The wait for a surface *)

\* A wait that began with no creation open finds no answer but its own.
Waiting ==
    /\ mode = "ready" /\ waitFor \notin overlap =>
          /\ \A i \in DOMAIN toServer : IsCreate(i) => toServer[i].arg = waitFor
          /\ \A i \in DOMAIN toClient : IsAnswer(i) => toClient[i].arg = waitFor
          /\ \A i \in DOMAIN pending : pending[i].kind # "created"
    /\ \A h \in ready : obj[h].live => obj[h].id # 0 \/ h \in overlap

\* The wait goes on: nothing is created meanwhile.
LEMMA StillWaiting ==
    ASSUME Types, Waiting, NoNewCreates, NoNewAnswers, UNCHANGED <<waitFor, overlap, ready>>,
           mode' = "ready" => mode = "ready", pending' \in {pending, <<>>},
           \A h \in Handles : obj'[h].live = obj[h].live /\ (obj[h].id # 0 => obj'[h].id # 0)
    PROVE  Waiting'
<1>1. /\ \A i \in DOMAIN toServer' : toServer'[i].type = "create" =>
            \E j \in DOMAIN toServer : IsCreate(j) /\ toServer'[i] = toServer[j]
      /\ \A i \in DOMAIN toClient' : toClient'[i].kind = "created" =>
            \E j \in DOMAIN toClient : IsAnswer(j) /\ toClient'[i] = toClient[j]
    BY DEF NoNewCreates, NoNewAnswers, IsCreate, IsAnswer
<1>2. \A i \in DOMAIN pending' : i \in DOMAIN pending /\ pending'[i] = pending[i]
    OBVIOUS
<1>3. \A h \in ready : h \in Handles
    BY DEF Types, ClientTypes
<1>4. mode' = "ready" /\ waitFor' \notin overlap' =>
          /\ \A i \in DOMAIN toServer' : toServer'[i].type = "create" => toServer'[i].arg = waitFor
          /\ \A i \in DOMAIN toClient' : toClient'[i].kind = "created" => toClient'[i].arg = waitFor
          /\ \A i \in DOMAIN pending' : pending'[i].kind # "created"
    BY <1>1, <1>2 DEF Waiting
<1>5. \A h \in ready : obj'[h].live => obj'[h].id # 0 \/ h \in overlap
    BY <1>3 DEF Waiting
<1> QED BY <1>4, <1>5 DEF Waiting, IsCreate, IsAnswer

LEMMA WaitingTurn ==
    ASSUME Types, Fresh, Waiting, Turn
    PROVE  Waiting'
<1>1. NoNewCreates /\ NoNewAnswers
    BY FewerCreates, FewerAnswers
<1>2. \A h \in Handles : obj'[h].live = obj[h].live /\ (obj[h].id # 0 => obj'[h].id # 0)
  <2>1. ASSUME NEW h \in Handles, obj'[h].id # obj[h].id PROVE obj'[h].id # 0
    <3>1. /\ toClient # <<>> /\ toClient[1].kind = "created" /\ obj'[h].id = toClient[1].id
        BY <2>1, TurnObjects
    <3>2. 1 \in DOMAIN toClient
        BY <3>1, Shorter DEF Types, WireTypes
    <3> QED BY <3>1, <3>2, Places DEF IsAnswer
  <2> QED BY <2>1, TurnObjects
<1>3. CASE mode \notin {"ready", "gone"}
  <2>1. mode' # "ready" /\ UNCHANGED <<overlap, ready>>
      BY <1>3 DEF Turn
  <2>2. \A h \in ready : h \in Handles
      BY DEF Types, ClientTypes
  <2> QED BY <1>2, <2>1, <2>2 DEF Waiting
<1>4. CASE mode = "ready" /\ NextEvent.kind # "created"
  <2>1. UNCHANGED <<mode, waitFor, ready, overlap>> /\ pending' = <<>>
      BY <1>4 DEF Turn
  <2> QED BY <1>1, <1>2, <1>4, <2>1, StillWaiting
<1>5. CASE mode = "ready" /\ NextEvent.kind = "created" /\ mode' = "idle" /\ ready' = ready \cup {waitFor}
  <2>1. overlap' = overlap /\ Take /\ waitFor \in Handles /\ obj[waitFor].live /\ \A h \in ready : h \in Handles
      BY <1>5 DEF Turn, Types, ClientTypes
  <2>2. ASSUME waitFor \notin overlap PROVE obj'[waitFor].id # 0
    <3>1. ~ (pending # <<>> /\ NextEvent = pending[1])
      <4>1. ASSUME pending # <<>> PROVE 1 \in DOMAIN pending
          BY <4>1 DEF Types, WireTypes
      <4> QED BY <1>5, <2>2, <4>1 DEF Waiting
    <3>2. /\ toClient # <<>> /\ NextEvent = toClient[1] /\ obj' = Applied(toClient[1])
        BY <2>1, <3>1, Taken
    <3>3. 1 \in DOMAIN toClient /\ IsAnswer(1) /\ toClient[1].kind = "created" /\ EventOK(toClient[1])
        BY <1>5, <3>2, Shorter DEF IsAnswer, Types, WireTypes
    <3>4. toClient[1].arg = waitFor /\ toClient[1].id \in 1 .. created /\ created \in Nat
        BY <1>5, <2>2, <3>3, Places DEF Waiting
    <3> QED BY <2>1, <3>2, <3>3, <3>4, AppliedFacts
  <2>3. \A h \in ready' : obj'[h].live => obj'[h].id # 0 \/ h \in overlap
      BY <1>2, <1>5, <2>1, <2>2 DEF Waiting
  <2> QED BY <1>5, <2>1, <2>3 DEF Waiting
<1> QED BY <1>3, <1>4, <1>5 DEF Turn

LEMMA WaitingCreate ==
    ASSUME Types, Fresh, Waiting, Create
    PROVE  Waiting'
<1>1. /\ UNCHANGED <<toClient, pending, ready>> /\ nextHandle \in Handles
      /\ overlap \subseteq overlap'
    BY CreateSends DEF Create
<1>2. \A h \in ready : h \in Handles /\ h # nextHandle /\ obj'[h] = obj[h]
  <2>1. \A h \in ready : h \in Handles /\ h \in Nat /\ h < nextHandle
      BY Places DEF Fresh, Types, ClientTypes
  <2>2. \A h \in ready : h \in Handles /\ h # nextHandle
      BY <2>1, Places
  <2> QED BY <1>1, <2>2 DEF Create, Types, ClientTypes
<1>3. \A h \in ready' : obj'[h].live => obj'[h].id # 0 \/ h \in overlap'
    BY <1>1, <1>2 DEF Waiting
<1>4. ASSUME mode' = "ready", waitFor' \notin overlap'
      PROVE  /\ \A i \in DOMAIN toServer' : toServer'[i].type = "create" => toServer'[i].arg = waitFor'
             /\ \A i \in DOMAIN toClient' : toClient'[i].kind # "created"
             /\ \A i \in DOMAIN pending' : pending'[i].kind # "created"
  <2>1. waitFor' = nextHandle /\ ~ CreationOpen
      BY <1>4 DEF Create
  <2>2. /\ \A i \in DOMAIN toServer : toServer[i].type # "create"
        /\ \A i \in DOMAIN toClient : toClient[i].kind # "created"
        /\ \A i \in DOMAIN pending : pending[i].kind # "created"
      BY <2>1 DEF CreationOpen
  <2>3. PICK r : r = Request("create", 0, nextHandle)
      OBVIOUS
  <2>4. \A i \in DOMAIN toServer' : toServer'[i].type = "create" => toServer'[i] = r
    <3>1. <<r>> \in Seq(Requests) /\ toServer' = toServer \o <<r>> /\ toServer \in Seq(Requests)
        BY <2>3, CreateSends DEF Types, WireTypes
    <3>2. DOMAIN <<r>> = {1} /\ <<r>>[1] = r
        OBVIOUS
    <3>3. PICK q : q = <<r>>
        OBVIOUS
    <3>4. \A i \in DOMAIN toServer' : \/ i \in DOMAIN toServer /\ toServer'[i] = toServer[i]
                                      \/ i - Len(toServer) = 1 /\ toServer'[i] = r
        BY <3>1, <3>2, <3>3, Longer
    <3> QED BY <2>2, <3>4
  <2> QED BY <1>1, <2>1, <2>2, <2>3, <2>4 DEF Request
<1> QED BY <1>3, <1>4 DEF Waiting, IsCreate, IsAnswer

LEMMA WaitingMade ==
    ASSUME Types, Waiting, Made
    PROVE  Waiting'
<1>1. UNCHANGED <<mode, waitFor, overlap, ready, obj, pending>>
    BY DEF Made, clientVars
<1>2. /\ 1 \in DOMAIN toServer /\ IsCreate(1)
      /\ \A i \in DOMAIN toServer' : i + 1 \in DOMAIN toServer /\ toServer'[i] = toServer[i + 1]
    BY Shorter DEF Made, Types, WireTypes, IsCreate
<1>3. \A i \in DOMAIN toClient' : toClient'[i].kind = "created" =>
         \/ i \in DOMAIN toClient /\ IsAnswer(i) /\ toClient'[i] = toClient[i]
         \/ toClient'[i].arg = toServer[1].arg
  <2>1. "created" \in Kinds /\ Send("created", created + 1, toServer[1].arg)
        /\ created + 1 \in Nat /\ toServer[1].arg \in Nat
      BY <1>2, Places DEF Made, Kinds
  <2>2. \A i \in DOMAIN toClient' :
           \/ i \in DOMAIN toClient /\ toClient'[i] = toClient[i]
           \/ /\ i = Len(toClient) + 1
              /\ toClient'[i] = [kind |-> "created", id |-> created + 1, arg |-> toServer[1].arg, no |-> eventNo + 1]
      BY <2>1, SentEvents
  <2> QED BY <2>2 DEF IsAnswer
<1>4. mode = "ready" /\ waitFor \notin overlap =>
          /\ \A i \in DOMAIN toServer' : toServer'[i].type = "create" => toServer'[i].arg = waitFor
          /\ \A i \in DOMAIN toClient' : toClient'[i].kind = "created" => toClient'[i].arg = waitFor
    BY <1>2, <1>3 DEF Waiting, IsCreate
<1> QED BY <1>1, <1>4 DEF Waiting, IsCreate, IsAnswer

LEMMA WaitingHolds == Spec => []Waiting
<1>1. Init => Waiting
    BY DEF Init, Waiting
<1>2. Types /\ Fresh /\ Waiting /\ [Next]_vars => Waiting'
  <2> SUFFICES ASSUME Types, Fresh, Waiting, [Next]_vars PROVE Waiting'
      OBVIOUS
  <2>1. CASE UNCHANGED vars
      BY <2>1 DEF vars, clientVars, wireVars, Waiting, IsCreate, IsAnswer
  <2>2. CASE Talk \/ Pass
    <3>1. /\ UNCHANGED <<overlap, ready>> /\ mode' # "ready"
          /\ \A h \in Handles : obj'[h].live = obj[h].live /\ obj'[h].id = obj[h].id
        BY <2>2 DEF Talk, Pass
    <3>2. \A h \in ready : h \in Handles
        BY DEF Types, ClientTypes
    <3> QED BY <3>1, <3>2 DEF Waiting
  <2>3. CASE Disconnect
      BY <2>3 DEF Disconnect, Waiting
  <2>4. ASSUME NEW h \in Handles, Forget(h) PROVE Waiting'
    <3>1. /\ mode' = "idle" /\ overlap' = overlap \ {h} /\ ready' = ready \ {h}
          /\ obj' = [obj EXCEPT ![h] = NoObject]
        BY <2>4 DEF Forget, Destroyed
    <3>2. \A g \in ready' : g \in Handles /\ g # h /\ obj'[g] = obj[g]
        BY <3>1 DEF Types, ClientTypes
    <3> QED BY <3>1, <3>2 DEF Waiting
  <2>5. CASE Calm
    <3>1. NoNewCreates /\ NoNewAnswers
        BY <2>5, FewerCreates, FewerAnswers
    <3>2. UNCHANGED <<mode, waitFor, overlap, ready, obj, pending>>
        BY <2>5 DEF Calm, clientVars
    <3> QED BY <3>1, <3>2, StillWaiting
  <2> QED BY <2>1, <2>2, <2>3, <2>4, <2>5, Steps, WaitingTurn, WaitingCreate, WaitingMade
<1> QED BY <1>1, <1>2, TypesHold, NamesHold, PTL DEF Spec

-----------------------------------------------------------------------------
(* What a message does when it is handled *)

IsAttach(r, k) == r.type = "attach" /\ r.id = k
Head1 == toServer[1]

\* The surface k after the first message was handled.
HandledSurface(k) ==
    /\ k \in DOMAIN srv /\ srv'[k].handle = srv[k].handle
    /\ Head1.type = "destroy" => Head1.id # k
    /\ srv[k].handle \in refused => srv[k].handle \in refused'
    /\ \/ srv[k].handle \in refused'
       \/ srv'[k].buffer = IF IsAttach(Head1, k) THEN Head1.arg ELSE srv[k].buffer
Handled ==
    /\ toServer # <<>> /\ toServer' = Tail(toServer)
    /\ \A k \in DOMAIN srv' : HandledSurface(k)

LEMMA DispatchHandles ==
    ASSUME Types, Dispatch, UNCHANGED clientVars
    PROVE  Handled \/ Made
<1> DEFINE r == Head1
<1>0. /\ toServer # <<>> /\ toServer' = Tail(toServer) /\ Incoming = Head1
      /\ UNCHANGED <<alive, closed, inputs>>
    BY FirstRequest DEF Dispatch, Head1
<1>1. srv \in [DOMAIN srv -> SrvSurfaces] /\ created \in Nat /\ DOMAIN srv \subseteq 1 .. created
    BY DEF Types, ServerTypes
<1>2. ASSUME UNCHANGED <<srv, refused>>, r.type # "destroy", r.type # "attach" PROVE Handled
    BY <1>0, <1>2 DEF Handled, HandledSurface, IsAttach
<1>3. CASE \/ r.type = "hello" /\ HandleHello(r)
           \/ r.type = "commit" /\ HandleCommit(r)
           \/ r.type = "query" /\ Keep
           \/ r.type = "ping" /\ Keep
    BY <1>2, <1>3 DEF HandleHello, HandleCommit, Keep, serverVars
<1>4. CASE r.type = "attach" /\ HandleAttach(r)
  <2>1. CASE Keep /\ ~ Known(r)
      BY <1>0, <1>4, <2>1 DEF Keep, serverVars, Known, Handled, HandledSurface, IsAttach
  <2>2. CASE Known(r) /\ srv' = [srv EXCEPT ![r.id].buffer = r.arg] /\ UNCHANGED refused
    <3>1. \A k \in DOMAIN srv' : /\ k \in DOMAIN srv /\ srv'[k].handle = srv[k].handle
                                 /\ srv'[k].buffer = IF k = r.id THEN r.arg ELSE srv[k].buffer
        BY <1>1, <2>2 DEF Known, SrvSurfaces
    <3> QED BY <1>0, <1>4, <2>2, <3>1 DEF Handled, HandledSurface, IsAttach
  <2>3. CASE /\ Known(r) /\ srv' \in {srv, [srv EXCEPT ![r.id].buffer = NoBuffer]}
             /\ refused' = refused \cup {srv[r.id].handle}
    <3>1. \A k \in DOMAIN srv' : /\ k \in DOMAIN srv /\ srv'[k].handle = srv[k].handle
                                 /\ k # r.id => srv'[k].buffer = srv[k].buffer
        BY <1>1, <2>3 DEF Known, SrvSurfaces
    <3> QED BY <1>0, <1>4, <2>3, <3>1 DEF Handled, HandledSurface, IsAttach
  <2> QED BY <1>4, <2>1, <2>2, <2>3 DEF HandleAttach
<1>5. CASE r.type = "destroy" /\ HandleDestroy(r)
  <2>1. \A k \in DOMAIN srv' : k \in DOMAIN srv /\ k # r.id /\ srv'[k] = srv[k]
      BY <1>5 DEF HandleDestroy
  <2>2. \A k \in DOMAIN srv' : srv[k].handle \in refused => srv[k].handle \in refused'
    <3>1. refused' = refused \cap {srv'[i].handle : i \in DOMAIN srv'}
        BY <1>5 DEF HandleDestroy
    <3> QED BY <2>1, <3>1
  <2> QED BY <1>0, <1>5, <2>1, <2>2 DEF Handled, HandledSurface, IsAttach
<1>6. CASE r.type = "role" /\ HandleRole(r)
  <2>1. CASE Keep
      BY <1>2, <1>6, <2>1 DEF Keep, serverVars
  <2>2. CASE Known(r) /\ srv' = [srv EXCEPT ![r.id].parent = r.arg] /\ UNCHANGED refused
    <3>1. \A k \in DOMAIN srv' : /\ k \in DOMAIN srv /\ srv'[k].handle = srv[k].handle
                                 /\ srv'[k].buffer = srv[k].buffer
        BY <1>1, <2>2 DEF Known, SrvSurfaces
    <3> QED BY <1>0, <1>6, <2>2, <3>1 DEF Handled, HandledSurface, IsAttach
  <2> QED BY <1>6, <2>1, <2>2 DEF HandleRole
<1>7. CASE r.type = "frame" /\ HandleFrame(r)
  <2>1. \A k \in DOMAIN srv' : /\ k \in DOMAIN srv /\ srv'[k].handle = srv[k].handle
                               /\ srv'[k].buffer = srv[k].buffer
      BY <1>1, <1>7 DEF HandleFrame, Known, SrvSurfaces
  <2> QED BY <1>0, <1>7, <2>1 DEF HandleFrame, Handled, HandledSurface, IsAttach
<1>8. CASE r.type = "create" /\ HandleCreate(r)
  <2>1. CASE Keep
      BY <1>2, <1>8, <2>1 DEF Keep, serverVars
  <2>2. CASE created' = created + 1
    <3>1. created' # created
        BY <1>1, <2>2
    <3> QED BY <3>1, DispatchKind DEF Calm
  <2> QED BY <1>8, <2>1, <2>2 DEF HandleCreate
<1> QED BY <1>0, <1>3, <1>4, <1>5, <1>6, <1>7, <1>8 DEF Dispatch

\* The first message is handled, or the compositor does something of its own.
LEMMA ServerSteps ==
    ASSUME Types, ServerNext, UNCHANGED clientVars
    PROVE  /\ closed' = closed
           /\ \/ Handled
              \/ Made
              \/ DOMAIN srv' = {}
              \/ /\ UNCHANGED <<toServer, refused>>
                 /\ \A k \in DOMAIN srv' : /\ k \in DOMAIN srv /\ srv'[k].handle = srv[k].handle
                                            /\ srv'[k].buffer = srv[k].buffer
<1>0. srv \in [DOMAIN srv -> SrvSurfaces]
    BY DEF Types, ServerTypes
<1>1. CASE DeliverFrame
    BY <1>0, <1>1 DEF DeliverFrame, SrvSurfaces
<1>2. CASE Input
    BY <1>2 DEF Input, serverVars
<1>3. CASE HangUp \/ Quit
    BY <1>3 DEF HangUp, Quit
<1>4. CASE Dispatch
    BY <1>4, DispatchHandles DEF Dispatch
<1> QED BY <1>1, <1>2, <1>3, <1>4 DEF ServerNext

-----------------------------------------------------------------------------
(* Owners: no surface is left behind *)

\* The compositor's surfaces are those of the client, or their end is on its way;
\* and so it will be with the surfaces asked for.
Owned ==
    /\ NoOrphans
    /\ \A i \in DOMAIN toServer : IsCreate(i) => closed \/ toServer[i].arg \in Live \cup early

\* The client gives nothing away: its surfaces and what it said stay.
LEMMA OwnedKept ==
    ASSUME Types, Owned, UNCHANGED srv, closed = TRUE => closed' = TRUE,
           Live \cup early \subseteq Live' \cup early',
           \A j \in DOMAIN toServer : j \in DOMAIN toServer' /\ toServer'[j] = toServer[j],
           \A i \in DOMAIN toServer' : toServer'[i].type = "create" =>
               \/ i \in DOMAIN toServer /\ toServer'[i] = toServer[i]
               \/ toServer'[i].arg \in Live'
    PROVE  Owned'
<1>1. closed \in BOOLEAN
    BY DEF Types, ClientTypes
<1>2. \A i \in DOMAIN srv : \/ closed' \/ srv[i].handle \in Live' \cup early'
                            \/ \E j \in DOMAIN toServer' : toServer'[j].type = "destroy" /\ toServer'[j].id = i
    BY <1>1 DEF Owned, NoOrphans
<1>3. \A i \in DOMAIN toServer' : toServer'[i].type = "create" => closed' \/ toServer'[i].arg \in Live' \cup early'
    BY <1>1 DEF Owned, IsCreate
<1> QED BY <1>2, <1>3 DEF Owned, NoOrphans, IsCreate

LEMMA Appended ==
    ASSUME Types, NEW rs \in Seq(Requests), toServer' = toServer \o rs
    PROVE  /\ \A j \in DOMAIN toServer : j \in DOMAIN toServer' /\ toServer'[j] = toServer[j]
           /\ \A i \in DOMAIN rs : Len(toServer) + i \in DOMAIN toServer' /\ toServer'[Len(toServer) + i] = rs[i]
           /\ \A i \in DOMAIN toServer' :
                 \/ i \in DOMAIN toServer /\ toServer'[i] = toServer[i]
                 \/ i - Len(toServer) \in DOMAIN rs /\ toServer'[i] = rs[i - Len(toServer)]
           /\ Len(toServer) \in Nat /\ Len(rs) \in Nat /\ DOMAIN toServer = 1 .. Len(toServer)
           /\ DOMAIN rs = 1 .. Len(rs) /\ DOMAIN toServer' = 1 .. Len(toServer) + Len(rs)
           /\ Len(toServer') = Len(toServer) + Len(rs)
<1>1. toServer \in Seq(Requests)
    BY DEF Types, WireTypes
<1> QED BY <1>1, Longer

LEMMA OwnedForget ==
    ASSUME Types, Fresh, Once, Owned, NEW h \in Handles, Forget(h)
    PROVE  Owned'
<1>1. PICK rs \in Seq(Requests) :
              /\ toServer' = toServer \o rs
              /\ \A i \in DOMAIN rs : rs[i].type = "destroy"
              /\ obj[h].id # 0 => rs = <<Request("destroy", obj[h].id, 0)>>
              /\ obj[h].id = 0 => early' = early \cup {h}
              /\ obj[h].id # 0 => early' = early
    BY DestroyedSends
<1>2. UNCHANGED <<srv, closed>> /\ Live' = Live \ {h}
  <2>1. obj' = [obj EXCEPT ![h] = NoObject] /\ obj \in [Handles -> Objects]
      BY DEF Forget, Destroyed, Types, ClientTypes
  <2>2. NoObject.live = FALSE
      BY DEF NoObject
  <2>3. \A g \in Handles : IF g = h THEN obj'[g].live = FALSE ELSE obj'[g].live = obj[g].live
      BY <2>1, <2>2
  <2> QED BY <2>3 DEF Forget, Live
<1>3. CASE obj[h].id = 0
  <2>1. Live \cup early \subseteq Live' \cup early'
      BY <1>1, <1>2, <1>3
  <2>2. /\ \A j \in DOMAIN toServer : j \in DOMAIN toServer' /\ toServer'[j] = toServer[j]
        /\ \A i \in DOMAIN toServer' : toServer'[i].type = "create" =>
               i \in DOMAIN toServer /\ toServer'[i] = toServer[i]
      BY <1>1, Appended
  <2> QED BY <1>2, <2>1, <2>2, OwnedKept
<1>4. CASE obj[h].id # 0
  <2>1. /\ \A j \in DOMAIN toServer : j \in DOMAIN toServer' /\ toServer'[j] = toServer[j]
        /\ \A i \in DOMAIN toServer' : toServer'[i].type = "create" =>
               i \in DOMAIN toServer /\ toServer'[i] = toServer[i]
      BY <1>1, Appended
  <2>2. \E j \in DOMAIN toServer' : toServer'[j].type = "destroy" /\ toServer'[j].id = obj[h].id
    <3>1. PICK r : r = Request("destroy", obj[h].id, 0)
        OBVIOUS
    <3>2. rs = <<r>>
        BY <1>1, <1>4, <3>1
    <3>3. 1 \in DOMAIN rs /\ rs[1] = r
        BY <3>2
    <3>4. r.type = "destroy" /\ r.id = obj[h].id
        BY <3>1 DEF Request
    <3>5. toServer' = toServer \o rs
        BY <1>1
    <3>6. Len(toServer) + 1 \in DOMAIN toServer' /\ toServer'[Len(toServer) + 1] = rs[1]
        BY <3>3, <3>5, Appended
    <3> QED BY <3>3, <3>4, <3>6
  <2>3. \A i \in DOMAIN srv : \/ closed \/ srv[i].handle \in Live' \cup early'
                              \/ \E j \in DOMAIN toServer' : toServer'[j].type = "destroy" /\ toServer'[j].id = i
    <3>1. ASSUME NEW i \in DOMAIN srv, srv[i].handle = h
          PROVE  \E j \in DOMAIN toServer' : toServer'[j].type = "destroy" /\ toServer'[j].id = i
      <4>1. i = obj[h].id
          BY <1>4, <3>1 DEF Once
      <4> QED BY <2>2, <4>1
    <3>2. ASSUME NEW i \in DOMAIN srv, srv[i].handle # h
          PROVE \/ closed \/ srv[i].handle \in Live' \cup early'
                \/ \E j \in DOMAIN toServer' : toServer'[j].type = "destroy" /\ toServer'[j].id = i
      <4>1. CASE closed \/ srv[i].handle \in Live \cup early
          BY <1>1, <1>2, <1>4, <3>2, <4>1
      <4>2. CASE \E j \in DOMAIN toServer : toServer[j].type = "destroy" /\ toServer[j].id = i
          BY <2>1, <4>2
      <4> QED BY <4>1, <4>2 DEF Owned, NoOrphans
    <3> QED BY <3>1, <3>2
  <2>4. ASSUME NEW i \in DOMAIN toServer', toServer'[i].type = "create"
        PROVE  closed \/ toServer'[i].arg \in Live' \cup early'
    <3>1. /\ i \in DOMAIN toServer /\ IsCreate(i) /\ toServer'[i] = toServer[i]
        BY <2>1, <2>4 DEF IsCreate
    <3>2. toServer[i].arg # h
        BY <1>4, <3>1 DEF Once
    <3> QED BY <1>1, <1>2, <1>4, <3>1, <3>2 DEF Owned
  <2> QED BY <1>2, <2>3, <2>4 DEF Owned, NoOrphans, IsCreate
<1> QED BY <1>3, <1>4

LEMMA OwnedServer ==
    ASSUME Types, Owned, ServerNext, UNCHANGED clientVars
    PROVE  Owned'
<1>0. UNCHANGED <<obj, early>> /\ Live' = Live /\ closed' = closed /\ closed \in BOOLEAN
    BY ServerSteps DEF clientVars, Live, Types, ClientTypes
<1>1. \A i \in DOMAIN toServer' : toServer'[i].type = "create" => closed' \/ toServer'[i].arg \in Live' \cup early'
  <2>1. NoNewCreates
      BY ServerKinds, FewerCreates
  <2>2. \A i \in DOMAIN toServer' : toServer'[i].type = "create" =>
            \E j \in DOMAIN toServer : IsCreate(j) /\ toServer'[i] = toServer[j]
      BY <2>1 DEF NoNewCreates, IsCreate
  <2> QED BY <1>0, <2>2 DEF Owned
<1>2. CASE Handled \/ Made
  <2>0. toServer # <<>> /\ toServer' = Tail(toServer)
      BY <1>2 DEF Handled, Made
  <2>1. /\ 1 \in DOMAIN toServer /\ Head1 = toServer[1]
        /\ \A j \in DOMAIN toServer : j # 1 => j - 1 \in DOMAIN toServer' /\ toServer'[j - 1] = toServer[j]
      BY <2>0, Shorter DEF Types, WireTypes, Head1
  <2>2. ASSUME NEW k \in DOMAIN srv', k \in DOMAIN srv, srv'[k].handle = srv[k].handle,
               Head1.type = "destroy" => Head1.id # k
        PROVE  \/ closed \/ srv'[k].handle \in Live \cup early
               \/ \E j \in DOMAIN toServer' : toServer'[j].type = "destroy" /\ toServer'[j].id = k
    <3>1. ASSUME NEW j \in DOMAIN toServer, toServer[j].type = "destroy", toServer[j].id = k
          PROVE \E i \in DOMAIN toServer' : toServer'[i].type = "destroy" /\ toServer'[i].id = k
      <4>1. j # 1
          BY <2>1, <2>2, <3>1
      <4> QED BY <2>1, <3>1, <4>1
    <3> QED BY <2>2, <3>1 DEF Owned, NoOrphans
  <2>3. CASE Handled
      BY <1>0, <1>1, <2>2, <2>3 DEF Handled, HandledSurface, Owned, NoOrphans, IsCreate
  <2>4. CASE Made
    <3>1. /\ Head1.type = "create" /\ DOMAIN srv' = DOMAIN srv \cup {created + 1}
          /\ \A k \in DOMAIN srv : srv'[k] = srv[k]
          /\ srv'[created + 1].handle = Head1.arg
        BY <2>4 DEF Made, Head1
    <3>2. closed \/ srv'[created + 1].handle \in Live \cup early
        BY <2>1, <3>1 DEF Owned, IsCreate
    <3>3. \A k \in DOMAIN srv' : \/ closed \/ srv'[k].handle \in Live \cup early
               \/ \E j \in DOMAIN toServer' : toServer'[j].type = "destroy" /\ toServer'[j].id = k
        BY <2>2, <3>1, <3>2
    <3> QED BY <1>0, <1>1, <3>3 DEF Owned, NoOrphans, IsCreate
  <2> QED BY <1>2, <2>3, <2>4
<1>3. CASE DOMAIN srv' = {}
    BY <1>1, <1>3 DEF Owned, NoOrphans, IsCreate
<1>4. CASE /\ UNCHANGED <<toServer, refused>>
           /\ \A k \in DOMAIN srv' : k \in DOMAIN srv /\ srv'[k].handle = srv[k].handle
    BY <1>0, <1>1, <1>4 DEF Owned, NoOrphans, IsCreate
<1> QED BY <1>2, <1>3, <1>4, ServerSteps

LEMMA OwnedHolds == Spec => []Owned
<1>1. Init => Owned
    BY DEF Init, ServerInit, Owned, NoOrphans
<1>2. Types /\ Fresh /\ Once /\ Owned /\ [Next]_vars => Owned'
  <2> SUFFICES ASSUME Types, Fresh, Once, Owned, [Next]_vars PROVE Owned'
      OBVIOUS
  <2>1. CASE UNCHANGED vars
      BY <2>1 DEF vars, clientVars, wireVars, Owned, NoOrphans, IsCreate, Live
  <2>2. CASE Talk
    <3>1. PICK rs \in Seq(Requests) : toServer' = toServer \o rs /\ \A i \in DOMAIN rs : rs[i].type # "create"
        BY <2>2 DEF Talk
    <3>2. Live' = Live /\ UNCHANGED <<srv, early, closed>>
        BY <2>2 DEF Talk, Live
    <3>3. /\ \A j \in DOMAIN toServer : j \in DOMAIN toServer' /\ toServer'[j] = toServer[j]
          /\ \A i \in DOMAIN toServer' : toServer'[i].type = "create" =>
               i \in DOMAIN toServer /\ toServer'[i] = toServer[i]
        BY <3>1, Appended
    <3> QED BY <3>2, <3>3, OwnedKept
  <2>3. CASE Turn \/ Pass
    <3>1. UNCHANGED <<srv, early, toServer>> /\ (closed' = closed \/ closed' = TRUE)
        BY <2>3 DEF Turn, Pass
    <3>2. Live' = Live
      <4>1. \A h \in Handles : obj'[h].live = obj[h].live
          BY <2>3, TurnObjects DEF Pass
      <4> QED BY <4>1 DEF Live
    <3> QED BY <3>1, <3>2, OwnedKept
  <2>4. CASE Create
    <3>1. PICK r : r = Request("create", 0, nextHandle)
        OBVIOUS
    <3>2. <<r>> \in Seq(Requests) /\ toServer' = toServer \o <<r>> /\ nextHandle \in Handles
          /\ r.arg = nextHandle
      <4>1. <<r>> \in Seq(Requests) /\ toServer' = toServer \o <<r>> /\ nextHandle \in Handles
          BY <2>4, <3>1, CreateSends
      <4> QED BY <3>1, <4>1 DEF Request
    <3>3. PICK q : q = <<r>>
        OBVIOUS
    <3>4. /\ \A j \in DOMAIN toServer : j \in DOMAIN toServer' /\ toServer'[j] = toServer[j]
          /\ \A i \in DOMAIN toServer' : \/ i \in DOMAIN toServer /\ toServer'[i] = toServer[i]
                                         \/ toServer'[i].arg = nextHandle
      <4>1. \A i \in DOMAIN q : q[i].arg = nextHandle
          BY <3>2, <3>3
      <4> QED BY <3>2, <3>3, <4>1, Appended
    <3>5. UNCHANGED <<srv, closed, early>> /\ Live \subseteq Live' /\ nextHandle \in Live'
      <4>1. obj' = [obj EXCEPT ![nextHandle].live = TRUE] /\ obj \in [Handles -> Objects]
          BY <2>4 DEF Create, Types, ClientTypes
      <4>2. \A h \in Handles : h # nextHandle => obj'[h] = obj[h]
          BY <3>2, <4>1
      <4>3. obj'[nextHandle].live = TRUE
          BY <3>2, <4>1 DEF Objects
      <4> QED BY <2>4, <3>2, <4>2, <4>3 DEF Create, ServerIdle, Live
    <3> QED BY <3>4, <3>5, OwnedKept
  <2>5. CASE Disconnect
      BY <2>5 DEF Disconnect, Owned, NoOrphans
  <2>6. ASSUME NEW h \in Handles, Forget(h) PROVE Owned'
      BY <2>6, OwnedForget
  <2>7. CASE ServerNext /\ UNCHANGED clientVars
      BY <2>7, OwnedServer
  <2> QED BY <2>1, <2>2, <2>3, <2>4, <2>5, <2>6, <2>7, ClientKinds, TalkKind DEF Next
<1> QED BY <1>1, <1>2, TypesHold, NamesHold, PTL DEF Spec

-----------------------------------------------------------------------------
(* Pictures: a commit shows what was drawn *)

\* What the application drew in is what the library shows with the next commit.
Drawn(h) ==
    draw[h] # NoBuffer => draw[h] = IF obj[h].attached = NoBuffer THEN Own(h) ELSE obj[h].attached
Drawings ==
    /\ \A h \in Handles : ~ obj[h].live => obj[h] = NoObject
    /\ \A h \in Handles : obj[h].live => Drawn(h)
    /\ \A h \in Handles : obj[h].attached # NoBuffer => obj[h].id # 0

\* The buffer of surface k is b when the i-th request of q is handled, if it is x now.
ShownIn(q, x, i, k, b) ==
    \/ x = b /\ \A j \in 1 .. i - 1 : ~ IsAttach(q[j], k)
    \/ \E j \in 1 .. i - 1 : /\ IsAttach(q[j], k) /\ q[j].arg = b
                             /\ \A n \in j + 1 .. i - 1 : ~ IsAttach(q[n], k)

\* A commit on its way, and the next one, find the buffer they mean, unless an
\* attach of their surface was refused.
CommitPainted(i) ==
    LET r == toServer[i] IN
    r.type = "commit" /\ r.arg # NoBuffer /\ r.id \in DOMAIN srv /\ srv[r.id].handle \notin refused
        => ShownIn(toServer, srv[r.id].buffer, i, r.id, r.arg)
NextPainted(h) ==
    LET k == obj[h].id IN
    obj[h].attached # NoBuffer /\ k \in DOMAIN srv /\ h \notin refused
        => ShownIn(toServer, srv[k].buffer, Len(toServer) + 1, k, obj[h].attached)
Painted ==
    /\ \A i \in DOMAIN toServer : CommitPainted(i)
    /\ \A h \in Handles : NextPainted(h)

\* Nothing is attached, and nothing shown.
Quiet ==
    /\ \E rs \in Seq(Requests) :
          toServer' = toServer \o rs /\ \A i \in DOMAIN rs : rs[i].type \notin {"attach", "commit"}
    /\ \A h \in Handles : /\ obj'[h].attached \in {NoBuffer, obj[h].attached}
                          /\ obj'[h].attached # NoBuffer => obj'[h].id = obj[h].id
\* Buffer b of surface h is attached if it is not, and may be shown.
Shows(h, b, c) ==
    /\ obj' = [obj EXCEPT ![h].attached = b] /\ draw' = [draw EXCEPT ![h] = c]
    /\ \/ toServer' = toServer \o AttachRequest(h, b)
       \/ toServer' = toServer \o (AttachRequest(h, b) \o <<Request("commit", obj[h].id, c)>>)
ShowsOne ==
    \E h \in Acked, b \in Buffers \ {NoBuffer} : \E c \in {b, NoBuffer} : Shows(h, b, c)

LEMMA NothingSent ==
    ASSUME Types, UNCHANGED toServer
    PROVE  /\ <<>> \in Seq(Requests) /\ toServer' = toServer \o <<>>
           /\ \A i \in DOMAIN <<>> : <<>>[i].type \notin {"attach", "commit"}
BY ConcatEmptySeq, EmptySeq DEF Types, WireTypes

LEMMA QuietUnsent ==
    ASSUME Types, UNCHANGED toServer,
           \A h \in Handles : /\ obj'[h].attached \in {NoBuffer, obj[h].attached}
                              /\ obj'[h].attached # NoBuffer => obj'[h].id = obj[h].id
    PROVE  Quiet
BY NothingSent DEF Quiet

\* One request that neither attaches nor shows.
LEMMA QuietRequest ==
    ASSUME Types, NEW r \in Requests, r.type \notin {"attach", "commit"}, toServer' = toServer \o <<r>>,
           \A h \in Handles : obj'[h].attached = obj[h].attached /\ obj'[h].id = obj[h].id
    PROVE  Quiet
<1>1. <<r>> \in Seq(Requests) /\ \A i \in DOMAIN <<r>> : <<r>>[i].type \notin {"attach", "commit"}
    OBVIOUS
<1> QED BY <1>1 DEF Quiet

LEMMA ShowsKinds ==
    ASSUME Types, Drawings, Showing
    PROVE  ShowsOne
<1> PICK h \in Handles : \/ Commit(h) \/ PresentCopy(h)
                        \/ \E f \in Foreign : Attach(h, <<0, f>>) \/ PresentDmabuf(h, <<0, f>>)
    BY DEF Showing
<1>0. /\ h \in Acked /\ obj \in [Handles -> Objects] /\ draw \in [Handles -> Buffers]
      /\ Own(h) \in Buffers \ {NoBuffer} /\ obj[h].attached \in Buffers /\ obj[h].live
  <2>1. h \in Acked
      BY DEF Commit, PresentCopy, Attach, PresentDmabuf
  <2> QED BY <2>1, OwnSort DEF Types, ClientTypes, Acked, Live
<1>1. ASSUME NEW f \in Foreign, Attach(h, <<0, f>>) \/ PresentDmabuf(h, <<0, f>>)
      PROVE  ShowsOne
  <2>1. PICK b : b = <<0, f>>
      OBVIOUS
  <2>2. b \in Buffers \ {NoBuffer}
      BY <2>1, Sorts
  <2>3. Shows(h, b, b)
      BY <1>1, <2>1 DEF Attach, PresentDmabuf, Sent, Shows
  <2> QED BY <1>0, <2>2, <2>3 DEF ShowsOne
<1>2. PICK b : b = IF obj[h].attached = NoBuffer THEN Own(h) ELSE obj[h].attached
    OBVIOUS
<1>3. b \in Buffers \ {NoBuffer} /\ (obj[h].attached # NoBuffer => b = obj[h].attached)
    BY <1>0, <1>2
<1>4. \A c : CommitRequests(h, c) = AttachRequest(h, b) \o <<Request("commit", obj[h].id, c)>>
    BY <1>2 DEF CommitRequests, AttachRequest, Matches
<1>5. Committed(h) = [obj EXCEPT ![h].attached = b]
  <2>1. CASE obj[h].attached = NoBuffer
      BY <1>2, <2>1 DEF Committed, Matches
  <2>2. CASE obj[h].attached # NoBuffer
    <3>1. [obj EXCEPT ![h].attached = b] = obj
        BY <1>0, <1>2, <2>2 DEF Objects
    <3> QED BY <2>2, <3>1 DEF Committed, Matches
  <2> QED BY <2>1, <2>2
<1>6. CASE Commit(h)
  <2>1. draw[h] \in {b, NoBuffer}
      BY <1>0, <1>2 DEF Drawings, Drawn
  <2>2. draw' = [draw EXCEPT ![h] = draw[h]]
      BY <1>0, <1>6 DEF Commit
  <2>3. Shows(h, b, draw[h])
      BY <1>4, <1>5, <1>6, <2>2 DEF Commit, Sent, Shows
  <2> QED BY <1>0, <1>3, <2>1, <2>3 DEF ShowsOne
<1>7. CASE PresentCopy(h)
  <2>1. PICK c : c = IF obj[h].attached \in {NoBuffer, Own(h)} THEN Own(h) ELSE NoBuffer
      OBVIOUS
  <2>2. c \in {b, NoBuffer} /\ draw' = [draw EXCEPT ![h] = c] /\ draw'[h] = c
      BY <1>0, <1>2, <1>7, <2>1 DEF PresentCopy
  <2>3. toServer' = toServer \o CommitRequests(h, c) /\ obj' = Committed(h)
      BY <1>7, <2>2 DEF PresentCopy, Sent
  <2>4. Shows(h, b, c)
      BY <1>4, <1>5, <2>2, <2>3 DEF Shows
  <2> QED BY <1>0, <1>3, <2>2, <2>4 DEF ShowsOne
<1> QED BY <1>1, <1>6, <1>7

LEMMA DrawingsShown ==
    ASSUME Types, Drawings, ShowsOne
    PROVE  Drawings'
<1>1. PICK h \in Acked, b \in Buffers \ {NoBuffer} : \E c \in {b, NoBuffer} : Shows(h, b, c)
    BY DEF ShowsOne
<1>2. PICK c \in {b, NoBuffer} : Shows(h, b, c)
    BY <1>1
<1>3. /\ h \in Handles /\ obj[h].id # 0 /\ obj[h].live
      /\ obj \in [Handles -> Objects] /\ draw \in [Handles -> Buffers]
    BY DEF Acked, Live, Types, ClientTypes
<1>4. /\ \A g \in Handles : g # h => obj'[g] = obj[g] /\ draw'[g] = draw[g]
      /\ obj'[h].attached = b /\ obj'[h].id # 0 /\ obj'[h].live = obj[h].live /\ draw'[h] = c
    BY <1>2, <1>3 DEF Shows, Objects
<1>5. \A g \in Handles : ~ obj'[g].live => obj'[g] = NoObject
    BY <1>3, <1>4 DEF Drawings
<1>6. \A g \in Handles : obj'[g].live /\ draw'[g] # NoBuffer => draw'[g] =
          IF obj'[g].attached = NoBuffer THEN <<g, obj'[g].resized>> ELSE obj'[g].attached
    BY <1>3, <1>4 DEF Drawings, Drawn, Own
<1>7. \A g \in Handles : obj'[g].attached # NoBuffer => obj'[g].id # 0
    BY <1>4 DEF Drawings
<1> QED BY <1>5, <1>6, <1>7 DEF Drawings, Drawn, Own

\* The actions that do not show anything.
LEMMA QuietKinds ==
    ASSUME Types, Fresh, Once, Drawings,
           Asking \/ Turn \/ Pass \/ Create \/ Disconnect \/ \E h \in Handles : Forget(h)
    PROVE  Quiet /\ Drawings'
<1>0. obj \in [Handles -> Objects] /\ draw \in [Handles -> Buffers]
    BY DEF Types, ClientTypes
<1>1. ASSUME UNCHANGED <<obj, draw>> PROVE Drawings'
    BY <1>1 DEF Drawings, Drawn, Own
<1>2. CASE Connect \/ Query
  <2>1. PICK r : (r = Request("hello", 0, 0) \/ r = Request("query", 0, 0)) /\ Sent(<<r>>)
      BY <1>2 DEF Connect, Query
  <2>2. RequestOK(r)
      BY <2>1, PlainRequest DEF RequestTypes
  <2>3. r \in Requests /\ r.type \notin {"attach", "commit"} /\ toServer' = toServer \o <<r>>
      BY <2>1, <2>2 DEF RequestOK, Request, Sent
  <2>4. UNCHANGED <<obj, draw>>
      BY <1>2 DEF Connect, Query
  <2> QED BY <1>1, <2>3, <2>4, QuietRequest
<1>3. ASSUME NEW h \in Handles, Ask(h) PROVE Quiet /\ Drawings'
  <2>1. PICK r : /\ Sent(<<r>>)
                 /\ \/ r = Request("frame", obj[h].id, 0) \/ r = Request("ping", 0, 0)
                    \/ \E g \in Acked : r = Request("role", obj[h].id, obj[g].id)
      BY <1>3 DEF Ask
  <2>2. RequestOK(r) /\ r.type \notin {"attach", "commit"}
    <3>1. h \in Acked
        BY <1>3 DEF Ask
    <3>2. \A g \in Acked : obj[g].id \in Nat
        BY Acking
    <3>3. RequestOK(Request("ping", 0, 0)) /\ RequestOK(Request("frame", obj[h].id, 0))
        BY <3>1, Acking, PlainRequest DEF RequestTypes
    <3>4. \A g \in Acked : RequestOK(Request("role", obj[h].id, obj[g].id))
        BY <3>1, <3>2, Acking DEF RequestTypes
    <3> QED BY <2>1, <3>3, <3>4 DEF Request
  <2>3. r \in Requests /\ toServer' = toServer \o <<r>> /\ UNCHANGED <<obj, draw>>
      BY <1>3, <2>1, <2>2 DEF RequestOK, Sent, Ask
  <2> QED BY <1>1, <2>2, <2>3, QuietRequest
<1>4. ASSUME NEW h \in Handles, Resize(h) PROVE Quiet /\ Drawings'
  <2>1. /\ UNCHANGED toServer /\ draw' = [draw EXCEPT ![h] = <<h, obj[h].resized + 1>>] /\ obj[h].live
        /\ obj' = [obj EXCEPT ![h].resized = @ + 1, ![h].attached = NoBuffer]
      BY <1>4 DEF Resize, wireVars
  <2>2. /\ \A g \in Handles : g # h => obj'[g] = obj[g] /\ draw'[g] = draw[g]
        /\ obj'[h].attached = NoBuffer /\ obj'[h].resized = obj[h].resized + 1
        /\ obj'[h].live = obj[h].live /\ draw'[h] = <<h, obj[h].resized + 1>>
      BY <1>0, <2>1 DEF Objects
  <2>3. Quiet
      BY <2>1, <2>2, QuietUnsent
  <2>4. Drawings'
    <3>1. \A g \in Handles : ~ obj'[g].live => obj'[g] = NoObject
        BY <2>1, <2>2 DEF Drawings
    <3>2. \A g \in Handles : obj'[g].live /\ draw'[g] # NoBuffer => draw'[g] =
              IF obj'[g].attached = NoBuffer THEN <<g, obj'[g].resized>> ELSE obj'[g].attached
        BY <2>2 DEF Drawings, Drawn, Own
    <3>3. \A g \in Handles : obj'[g].attached # NoBuffer => obj'[g].id # 0
        BY <2>2 DEF Drawings
    <3> QED BY <3>1, <3>2, <3>3 DEF Drawings, Drawn, Own
  <2> QED BY <2>3, <2>4
<1>5. CASE Create
  <2>1. PICK r : r = Request("create", 0, nextHandle)
      OBVIOUS
  <2>2. nextHandle \in Handles /\ toServer' = toServer \o <<r>> /\ RequestOK(r)
      BY <1>5, <2>1, CreateSends
  <2>3. r \in Requests /\ r.type \notin {"attach", "commit"}
    <3>1. r.type = "create"
        BY <2>1 DEF Request
    <3> QED BY <2>2, <3>1 DEF RequestOK
  <2>4. /\ obj' = [obj EXCEPT ![nextHandle].live = TRUE]
        /\ draw' = [draw EXCEPT ![nextHandle] = <<nextHandle, 0>>]
      BY <1>5 DEF Create
  <2>5. /\ \A g \in Handles : g # nextHandle => obj'[g] = obj[g] /\ draw'[g] = draw[g]
        /\ obj'[nextHandle].live = TRUE /\ draw'[nextHandle] = <<nextHandle, 0>>
        /\ obj'[nextHandle].resized = obj[nextHandle].resized
        /\ obj'[nextHandle].attached = obj[nextHandle].attached
        /\ obj'[nextHandle].id = obj[nextHandle].id
      BY <1>0, <2>2, <2>4 DEF Objects
  <2>6. Quiet
      BY <2>2, <2>3, <2>5, QuietRequest
  <2>7. Drawings'
    <3>1. \A g \in Handles : ~ obj'[g].live => obj'[g] = NoObject
        BY <2>2, <2>5 DEF Drawings
    <3>2. \A g \in Handles : g # nextHandle /\ obj'[g].live /\ draw'[g] # NoBuffer => draw'[g] =
              IF obj'[g].attached = NoBuffer THEN <<g, obj'[g].resized>> ELSE obj'[g].attached
        BY <2>5 DEF Drawings, Drawn, Own
    <3>3. obj[nextHandle].attached = NoBuffer /\ obj[nextHandle].resized = 0
      <4>1. ~ obj[nextHandle].live
          BY <2>2, Places DEF Fresh
      <4> QED BY <2>2, <4>1 DEF Drawings, NoObject
    <3>4. \A g \in Handles : obj'[g].attached # NoBuffer => obj'[g].id # 0
        BY <2>5 DEF Drawings
    <3> QED BY <2>5, <3>1, <3>2, <3>3, <3>4 DEF Drawings, Drawn, Own
  <2> QED BY <2>6, <2>7
<1>6. ASSUME NEW h \in Handles, Forget(h) PROVE Quiet /\ Drawings'
  <2>1. /\ obj' = [obj EXCEPT ![h] = NoObject] /\ draw' = [draw EXCEPT ![h] = NoBuffer]
      BY <1>6 DEF Forget, Destroyed
  <2>2. /\ \A g \in Handles : g # h => obj'[g] = obj[g] /\ draw'[g] = draw[g]
        /\ obj'[h] = NoObject
        /\ obj'[h].live = FALSE /\ obj'[h].attached = NoBuffer
      BY <1>0, <2>1 DEF NoObject
  <2>3. PICK rs \in Seq(Requests) : toServer' = toServer \o rs /\ \A i \in DOMAIN rs : rs[i].type = "destroy"
      BY <1>6, DestroyedSends
  <2>4. \A i \in DOMAIN rs : rs[i].type \notin {"attach", "commit"}
      BY <2>3
  <2>5. Quiet
      BY <2>2, <2>3, <2>4 DEF Quiet
  <2>6. Drawings'
      BY <2>2 DEF Drawings, Drawn, Own
  <2> QED BY <2>5, <2>6
<1>7. CASE Disconnect
  <2>1. \A g \in Handles : obj'[g] = NoObject
      BY <1>7 DEF Disconnect
  <2>2. NoObject.live = FALSE /\ NoObject.attached = NoBuffer
      BY DEF NoObject
  <2>3. Drawings'
      BY <2>1, <2>2 DEF Drawings
  <2>4. CASE toServer' = toServer
    <3>1. \A g \in Handles : obj'[g].attached = NoBuffer
        BY <2>1, <2>2
    <3> QED BY <2>3, <2>4, <3>1, QuietUnsent
  <2>5. ASSUME NEW rs \in Seq(Requests), toServer' = toServer \o rs, \A i \in DOMAIN rs : rs[i].type = "destroy"
        PROVE  Quiet
    <3>1. \A i \in DOMAIN rs : rs[i].type \notin {"attach", "commit"}
        BY <2>5
    <3> QED BY <2>1, <2>2, <2>5, <3>1 DEF Quiet
  <2> QED BY <1>7, <2>3, <2>4, <2>5, DisconnectSends
<1>8. CASE Turn
  <2>1. UNCHANGED <<toServer, draw>>
      BY <1>8 DEF Turn
  <2>2. \A h \in Handles : /\ obj'[h] \in Objects /\ obj[h] \in Objects
                           /\ obj'[h].live = obj[h].live
                           /\ obj'[h].resized = obj[h].resized /\ obj'[h].attached = obj[h].attached
      BY <1>0, <1>8, TurnObjects
  <2>3. ASSUME NEW h \in Handles, obj'[h].id # obj[h].id PROVE obj[h].live /\ obj[h].id = 0
    <3>1. /\ toClient # <<>> /\ toClient[1].kind = "created" /\ toClient[1].arg = h /\ obj[h].live
        BY <1>8, <2>3, TurnObjects
    <3>2. 1 \in DOMAIN toClient /\ IsAnswer(1)
        BY <3>1, Shorter DEF Types, WireTypes, IsAnswer
    <3> QED BY <3>1, <3>2 DEF Once
  <2>4. Quiet
    <3>1. \A h \in Handles : obj'[h].attached # NoBuffer => obj'[h].id = obj[h].id
        BY <2>2, <2>3 DEF Drawings
    <3> QED BY <2>1, <2>2, <3>1, QuietUnsent
  <2>5. \A h \in Handles : ~ obj'[h].live => obj'[h] = NoObject
    <3>1. ASSUME NEW h \in Handles, ~ obj'[h].live PROVE obj'[h] = obj[h] /\ ~ obj[h].live
      <4>1. ~ obj[h].live /\ obj'[h].id = obj[h].id
          BY <2>2, <2>3, <3>1
      <4> QED BY <2>2, <4>1 DEF Objects
    <3> QED BY <3>1 DEF Drawings
  <2>6. \A h \in Handles : obj'[h].live /\ draw'[h] # NoBuffer => draw'[h] =
            IF obj'[h].attached = NoBuffer THEN <<h, obj'[h].resized>> ELSE obj'[h].attached
      BY <2>1, <2>2 DEF Drawings, Drawn, Own
  <2>7. \A h \in Handles : obj'[h].attached # NoBuffer => obj'[h].id # 0
      BY <2>2, <2>3 DEF Drawings
  <2> QED BY <2>4, <2>5, <2>6, <2>7 DEF Drawings, Drawn, Own
<1>9. CASE Pass
  <2>1. UNCHANGED <<toServer, obj, draw>>
      BY <1>9 DEF Pass
  <2>2. Quiet
      BY <2>1, QuietUnsent
  <2> QED BY <1>1, <2>1, <2>2
<1> QED BY <1>2, <1>3, <1>4, <1>5, <1>6, <1>7, <1>8, <1>9 DEF Asking

\* Which buffer is shown: it depends on what comes before,
LEMMA ShownBefore ==
    ASSUME NEW q \in Seq(Requests), NEW rs \in Seq(Requests), NEW p, p = q \o rs,
           NEW i \in 1 .. Len(q) + 1, NEW x, NEW k, NEW b, ShownIn(q, x, i, k, b)
    PROVE  ShownIn(p, x, i, k, b)
<1>1. Len(q) \in Nat /\ \A j \in 1 .. i - 1 : p[j] = q[j]
  <2>1. Len(q) \in Nat /\ DOMAIN q = 1 .. Len(q) /\ \A j \in DOMAIN q : p[j] = q[j]
      BY Longer
  <2> QED BY <2>1
<1>2. CASE x = b /\ \A j \in 1 .. i - 1 : ~ IsAttach(q[j], k)
    BY <1>1, <1>2 DEF ShownIn
<1>3. ASSUME NEW j \in 1 .. i - 1, IsAttach(q[j], k), q[j].arg = b,
             \A n \in j + 1 .. i - 1 : ~ IsAttach(q[n], k)
      PROVE  ShownIn(p, x, i, k, b)
  <2>1. \A n \in j + 1 .. i - 1 : ~ IsAttach(p[n], k)
      BY <1>1, <1>3
  <2> QED BY <1>1, <1>3, <2>1 DEF ShownIn
<1> QED BY <1>2, <1>3 DEF ShownIn

\* it stays until the next attach,
LEMMA ShownLater ==
    ASSUME NEW q, NEW x, NEW k, NEW b, NEW i \in Nat \ {0}, NEW m \in Nat, i <= m,
           ShownIn(q, x, i, k, b), \A j \in i .. m - 1 : ~ IsAttach(q[j], k)
    PROVE  ShownIn(q, x, m, k, b)
<1>1. CASE x = b /\ \A j \in 1 .. i - 1 : ~ IsAttach(q[j], k)
  <2>1. \A j \in 1 .. m - 1 : j \in 1 .. i - 1 \/ j \in i .. m - 1
      OBVIOUS
  <2> QED BY <1>1, <2>1 DEF ShownIn
<1>2. ASSUME NEW j \in 1 .. i - 1, IsAttach(q[j], k), q[j].arg = b,
             \A n \in j + 1 .. i - 1 : ~ IsAttach(q[n], k)
      PROVE  ShownIn(q, x, m, k, b)
  <2>1. \A n \in j + 1 .. m - 1 : n \in j + 1 .. i - 1 \/ n \in i .. m - 1
      OBVIOUS
  <2>2. j \in 1 .. m - 1
      OBVIOUS
  <2> QED BY <1>2, <2>1, <2>2 DEF ShownIn
<1> QED BY <1>1, <1>2 DEF ShownIn

\* it is what an attach brings,
LEMMA ShownAfter ==
    ASSUME NEW q, NEW x, NEW k, NEW b, NEW i \in Nat \ {0}, IsAttach(q[i], k), q[i].arg = b
    PROVE  ShownIn(q, x, i + 1, k, b)
<1>1. i \in 1 .. i + 1 - 1 /\ i + 1 .. i + 1 - 1 = {}
    OBVIOUS
<1> QED BY <1>1 DEF ShownIn

\* and the first request is done when it is handled.
LEMMA ShownHandled ==
    ASSUME NEW q \in Seq(Requests), q # <<>>, NEW p, p = Tail(q),
           NEW i \in Nat \ {0}, i <= Len(q), NEW x, NEW k, NEW b, ShownIn(q, x, i + 1, k, b)
    PROVE  ShownIn(p, IF IsAttach(q[1], k) THEN q[1].arg ELSE x, i, k, b)
<1> PICK y : y = IF IsAttach(q[1], k) THEN q[1].arg ELSE x
    OBVIOUS
<1> SUFFICES ShownIn(p, y, i, k, b)
    OBVIOUS
<1>1. \A j \in 1 .. i - 1 : p[j] = q[j + 1]
  <2>1. Len(q) \in Nat /\ DOMAIN p = 1 .. Len(q) - 1 /\ \A j \in DOMAIN p : p[j] = q[j + 1]
      BY Shorter
  <2> QED BY <2>1
<1>2. CASE x = b /\ \A j \in 1 .. i : ~ IsAttach(q[j], k)
  <2>1. \A j \in 1 .. i - 1 : j + 1 \in 1 .. i
      OBVIOUS
  <2>2. 1 \in 1 .. i
      OBVIOUS
  <2> QED BY <1>1, <1>2, <2>1, <2>2 DEF ShownIn
<1>3. ASSUME NEW j \in 1 .. i, IsAttach(q[j], k), q[j].arg = b, \A n \in j + 1 .. i : ~ IsAttach(q[n], k)
      PROVE  ShownIn(p, y, i, k, b)
  <2>1. CASE j = 1
    <3>1. \A n \in 1 .. i - 1 : n + 1 \in j + 1 .. i
        BY <2>1
    <3> QED BY <1>1, <1>3, <2>1, <3>1 DEF ShownIn
  <2>2. CASE j # 1
    <3>1. j - 1 \in 1 .. i - 1 /\ p[j - 1] = q[j]
      <4>1. j - 1 \in 1 .. i - 1 /\ j - 1 + 1 = j
          BY <2>2
      <4> QED BY <1>1, <4>1
    <3>2. \A n \in j - 1 + 1 .. i - 1 : ~ IsAttach(p[n], k)
      <4>1. \A n \in j - 1 + 1 .. i - 1 : n + 1 \in j + 1 .. i /\ n \in 1 .. i - 1
          OBVIOUS
      <4> QED BY <1>1, <1>3, <4>1
    <3> QED BY <1>3, <3>1, <3>2 DEF ShownIn
  <2> QED BY <2>1, <2>2
<1>4. i + 1 - 1 = i
    OBVIOUS
<1> QED BY <1>2, <1>3, <1>4 DEF ShownIn

LEMMA PaintedQuiet ==
    ASSUME Types, Painted, Quiet, UNCHANGED <<srv, refused>>
    PROVE  Painted'
<1>1. PICK rs \in Seq(Requests) :
         toServer' = toServer \o rs /\ \A i \in DOMAIN rs : rs[i].type \notin {"attach", "commit"}
    BY DEF Quiet
<1>2. toServer \in Seq(Requests) /\ Len(toServer) \in Nat /\ Len(rs) \in Nat
      /\ Len(toServer') = Len(toServer) + Len(rs) /\ DOMAIN toServer = 1 .. Len(toServer)
      /\ DOMAIN rs = 1 .. Len(rs)
    BY <1>1, Appended DEF Types, WireTypes
<1> DEFINE Before(i, x, k, b) == ShownIn(toServer, x, i, k, b)
           Then(i, x, k, b) == ShownIn(toServer', x, i, k, b)
<1>5. \A i \in 1 .. Len(toServer) + 1 : \A x, k, b : Before(i, x, k, b) => Then(i, x, k, b)
  <2>1. PICK q, p : q = toServer /\ p = toServer'
      OBVIOUS
  <2>2. q \in Seq(Requests) /\ p = q \o rs
      BY <1>1, <1>2, <2>1
  <2>3. \A i \in 1 .. Len(q) + 1 : \A x, k, b : ShownIn(q, x, i, k, b) => ShownIn(p, x, i, k, b)
      BY <2>2, ShownBefore
  <2> QED BY <2>1, <2>3
<1>3. ASSUME NEW i \in DOMAIN toServer' PROVE CommitPainted(i)'
  <2>1. CASE i \in DOMAIN toServer /\ toServer'[i] = toServer[i]
    <3>1. i \in 1 .. Len(toServer) + 1 /\ CommitPainted(i)
        BY <1>2, <2>1 DEF Painted
    <3> QED BY <1>5, <2>1, <3>1 DEF CommitPainted
  <2>2. CASE toServer'[i].type \notin {"attach", "commit"}
      BY <2>2 DEF CommitPainted
  <2> QED BY <1>1, <2>1, <2>2, Appended
<1>4. ASSUME NEW h \in Handles PROVE NextPainted(h)'
  <2>1. CASE obj'[h].attached = NoBuffer
      BY <2>1 DEF NextPainted
  <2>2. CASE obj'[h].attached = obj[h].attached /\ obj'[h].id = obj[h].id
    <3> DEFINE k == obj[h].id
               b == obj[h].attached
               x == srv[k].buffer
               n == Len(toServer)
    <3>1. ASSUME ShownIn(toServer, x, n + 1, k, b)
          PROVE  ShownIn(toServer', x, Len(toServer') + 1, k, b)
      <4>1. ShownIn(toServer', x, n + 1, k, b)
        <5>1. n + 1 \in 1 .. Len(toServer) + 1
            BY <1>2
        <5> QED BY <1>5, <3>1, <5>1
      <4>2. \A j \in n + 1 .. Len(toServer') + 1 - 1 : ~ IsAttach(toServer'[j], k)
        <5>1. \A j \in n + 1 .. Len(toServer') : j - n \in DOMAIN rs /\ n + (j - n) = j
            BY <1>2
        <5>2. \A j \in DOMAIN rs : toServer'[n + j] = rs[j]
            BY <1>1, Appended
        <5>3. \A j \in n + 1 .. Len(toServer') : toServer'[j] = rs[j - n] /\ j - n \in DOMAIN rs
            BY <5>1, <5>2
        <5>4. Len(toServer') + 1 - 1 = Len(toServer')
            BY <1>2
        <5> QED BY <1>1, <5>3, <5>4 DEF IsAttach
      <4>3. n + 1 \in Nat \ {0} /\ Len(toServer') + 1 \in Nat /\ n + 1 <= Len(toServer') + 1
          BY <1>2
      <4> QED BY <4>1, <4>2, <4>3, ShownLater
    <3>2. NextPainted(h)
        BY DEF Painted
    <3> QED BY <2>2, <3>1, <3>2 DEF NextPainted
  <2> QED BY <2>1, <2>2 DEF Quiet
<1> QED BY <1>3, <1>4 DEF Painted

\* Steps of the compositor: the first request is handled, and a surface made has no
\* request on its way.
LEMMA PaintedServer ==
    ASSUME Types, Once, Drawings, Painted, ServerNext, UNCHANGED clientVars
    PROVE  Painted'
<1>0. UNCHANGED obj /\ toServer \in Seq(Requests) /\ \A h \in Handles : obj[h].id <= created /\ obj[h].id \in Nat
    BY Places DEF clientVars, Types, WireTypes
<1>1. \A i \in DOMAIN toServer : toServer[i].id \in Nat /\ toServer[i].id <= created
    BY DEF Types, WireTypes, RequestOK, Requests, Plain, Buffered
<1>2. CASE DOMAIN srv' = {}
    BY <1>2 DEF Painted, CommitPainted, NextPainted
<1>3. CASE /\ UNCHANGED <<toServer, refused>>
           /\ \A k \in DOMAIN srv' : /\ k \in DOMAIN srv /\ srv'[k].handle = srv[k].handle
                                     /\ srv'[k].buffer = srv[k].buffer
    BY <1>0, <1>3 DEF Painted, CommitPainted, NextPainted
<1>4. ASSUME toServer # <<>>, toServer' = Tail(toServer),
             \A k \in DOMAIN srv' : HandledSurface(k) \/ k > created
      PROVE  Painted'
  <2>1. /\ Len(toServer) \in Nat \ {0} /\ Len(toServer') = Len(toServer) - 1 /\ Head1 = toServer[1]
        /\ \A i \in DOMAIN toServer' : /\ i \in Nat \ {0} /\ i <= Len(toServer)
                                       /\ i + 1 \in DOMAIN toServer /\ toServer'[i] = toServer[i + 1]
    <3>1. /\ Len(toServer) \in Nat \ {0} /\ Len(toServer') = Len(toServer) - 1
          /\ DOMAIN toServer' = 1 .. Len(toServer) - 1
          /\ \A i \in DOMAIN toServer' : i + 1 \in DOMAIN toServer /\ toServer'[i] = toServer[i + 1]
        BY <1>0, <1>4, Shorter
    <3> QED BY <3>1 DEF Head1
  <2>2. ASSUME NEW k \in DOMAIN srv', HandledSurface(k), srv[k].handle \notin refused',
               NEW i \in Nat \ {0}, i <= Len(toServer), NEW b, ShownIn(toServer, srv[k].buffer, i + 1, k, b)
        PROVE  ShownIn(toServer', srv'[k].buffer, i, k, b)
    <3>1. srv'[k].buffer = IF IsAttach(toServer[1], k) THEN toServer[1].arg ELSE srv[k].buffer
        BY <2>1, <2>2 DEF HandledSurface
    <3>2. PICK q, p, x, y : q = toServer /\ p = toServer' /\ x = srv[k].buffer /\ y = srv'[k].buffer
        OBVIOUS
    <3>3. /\ q \in Seq(Requests) /\ q # <<>> /\ p = Tail(q) /\ i <= Len(q) /\ ShownIn(q, x, i + 1, k, b)
          /\ y = IF IsAttach(q[1], k) THEN q[1].arg ELSE x
        BY <1>0, <1>4, <2>2, <3>1, <3>2
    <3>4. ShownIn(p, IF IsAttach(q[1], k) THEN q[1].arg ELSE x, i, k, b)
        BY <3>3, ShownHandled
    <3> QED BY <3>2, <3>3, <3>4
  <2>3. ASSUME NEW i \in DOMAIN toServer' PROVE CommitPainted(i)'
    <3>1. PICK r : r = toServer'[i]
        OBVIOUS
    <3>2. ASSUME r.type = "commit", r.arg # NoBuffer, r.id \in DOMAIN srv', srv'[r.id].handle \notin refused'
          PROVE  ShownIn(toServer', srv'[r.id].buffer, i, r.id, r.arg)
      <4>1. i + 1 \in DOMAIN toServer /\ r = toServer[i + 1]
          BY <2>1, <3>1
      <4>2. HandledSurface(r.id)
        <5>1. r.id \in Nat /\ r.id <= created /\ created \in Nat
            BY <1>1, <4>1 DEF Types, ServerTypes
        <5> QED BY <1>4, <3>2, <5>1
      <4>3. srv[r.id].handle \notin refused' /\ srv[r.id].handle \notin refused /\ r.id \in DOMAIN srv
          BY <3>2, <4>2 DEF HandledSurface
      <4>4. ShownIn(toServer, srv[r.id].buffer, i + 1, r.id, r.arg)
          BY <3>2, <4>1, <4>3 DEF Painted, CommitPainted
      <4> QED BY <2>1, <2>2, <3>2, <4>2, <4>3, <4>4
    <3> QED BY <3>1, <3>2 DEF CommitPainted
  <2>4. ASSUME NEW h \in Handles PROVE NextPainted(h)'
    <3>1. PICK k : k = obj[h].id
        OBVIOUS
    <3>2. ASSUME obj[h].attached # NoBuffer, k \in DOMAIN srv', h \notin refused'
          PROVE  ShownIn(toServer', srv'[k].buffer, Len(toServer') + 1, k, obj[h].attached)
      <4>1. HandledSurface(k)
        <5>1. k \in Nat /\ k <= created /\ created \in Nat
            BY <1>0, <3>1 DEF Types, ServerTypes
        <5> QED BY <1>4, <3>2, <5>1
      <4>2. k \in DOMAIN srv /\ srv[k].handle = h
          BY <3>1, <3>2, <4>1 DEF Once, Drawings, HandledSurface
      <4>3. h \notin refused
          BY <3>2, <4>1, <4>2 DEF HandledSurface
      <4>4. ShownIn(toServer, srv[k].buffer, Len(toServer) + 1, k, obj[h].attached)
          BY <3>1, <3>2, <4>2, <4>3 DEF Painted, NextPainted
      <4>5. Len(toServer') + 1 = Len(toServer) /\ Len(toServer) <= Len(toServer)
          BY <2>1
      <4> QED BY <2>1, <2>2, <3>2, <4>1, <4>2, <4>4, <4>5
    <3> QED BY <1>0, <3>1, <3>2 DEF NextPainted
  <2> QED BY <2>3, <2>4 DEF Painted
<1>5. CASE Handled
    BY <1>4, <1>5 DEF Handled
<1>6. CASE Made
  <2>1. /\ DOMAIN srv' = DOMAIN srv \cup {created + 1} /\ Head1.type = "create" /\ refused' = refused
        /\ \A k \in DOMAIN srv : srv'[k] = srv[k]
        /\ created \in Nat /\ created + 1 > created
      BY <1>6 DEF Made, Head1, Types, ServerTypes
  <2>2. \A k \in DOMAIN srv' : HandledSurface(k) \/ k > created
      BY <2>1 DEF HandledSurface, IsAttach
  <2> QED BY <1>4, <1>6, <2>2 DEF Made
<1> QED BY <1>2, <1>3, <1>5, <1>6, ServerSteps

\* One surface is attached to, or was (at = 0), and may be shown.
ShowSent(h, b, c, at, rs) ==
    /\ toServer' = toServer \o rs /\ obj' = [obj EXCEPT ![h].attached = b]
    /\ Len(rs) = at \/ Len(rs) = at + 1
    /\ at = 0 => obj[h].attached = b
    /\ at = 1 => IsAttach(rs[1], obj[h].id) /\ rs[1].arg = b
    /\ Len(rs) = at + 1 => rs[at + 1].type = "commit" /\ rs[at + 1].id = obj[h].id /\ rs[at + 1].arg = c

LEMMA PaintedAppended ==
    ASSUME Types, Once, Drawings, Painted, UNCHANGED <<srv, refused>>,
           NEW h \in Acked, NEW b \in Buffers \ {NoBuffer}, NEW c \in {b, NoBuffer}, NEW at \in {0, 1},
           NEW rs \in Seq(Requests), ShowSent(h, b, c, at, rs)
    PROVE  Painted'
<1>0. /\ h \in Handles /\ obj[h].id # 0 /\ obj \in [Handles -> Objects]
      /\ \A g \in Handles : g # h => obj'[g] = obj[g]
      /\ obj'[h].attached = b /\ obj'[h].id = obj[h].id
  <2>1. h \in Handles /\ obj[h].id # 0 /\ obj \in [Handles -> Objects]
      BY DEF Acked, Live, Types, ClientTypes
  <2>2. obj' = [obj EXCEPT ![h].attached = b]
      BY DEF ShowSent
  <2> QED BY <2>1, <2>2 DEF Objects
<1>a. /\ toServer' = toServer \o rs
      /\ Len(rs) = at \/ Len(rs) = at + 1
      /\ at = 0 => obj[h].attached = b
      /\ at = 1 => IsAttach(rs[1], obj[h].id) /\ rs[1].arg = b
      /\ Len(rs) = at + 1 => rs[at + 1].type = "commit" /\ rs[at + 1].id = obj[h].id /\ rs[at + 1].arg = c
    BY DEF ShowSent
<1>1. PICK k, n, q, p : k = obj[h].id /\ n = Len(toServer) /\ q = toServer /\ p = toServer'
    OBVIOUS
<1>2. /\ q \in Seq(Requests) /\ p = q \o rs /\ n \in Nat /\ n = Len(q) /\ Len(p) = n + Len(rs)
      /\ DOMAIN q = 1 .. n /\ DOMAIN p = 1 .. n + Len(rs) /\ Len(rs) \in Nat
      /\ \A i \in 1 .. n : p[i] = q[i]
      /\ \A j \in 1 .. Len(rs) : p[n + j] = rs[j]
  <2>1. q \in Seq(Requests) /\ p = q \o rs /\ n = Len(q)
      BY <1>1, <1>a DEF Types, WireTypes
  <2> QED BY <2>1, Longer
<1>3. \A i \in 1 .. n + 1 : \A x, m, d : ShownIn(q, x, i, m, d) => ShownIn(p, x, i, m, d)
    BY <1>2, ShownBefore
\* Where the requests are.
<1>4. /\ \A j \in n + 1 .. Len(p) : j = n + at \/ j = n + at + 1
      /\ at = 1 => IsAttach(p[n + 1], k) /\ p[n + 1].arg = b
      /\ Len(p) = n + at + 1 => p[n + at + 1].type = "commit" /\ p[n + at + 1].id = k /\ p[n + at + 1].arg = c
      /\ Len(p) = n + at \/ Len(p) = n + at + 1
  <2>1. CASE at = 0
    <3>1. Len(p) = n \/ (Len(p) = n + 1 /\ p[n + 1] = rs[1])
        BY <1>2, <1>a, <2>1
    <3> QED BY <1>1, <1>2, <1>a, <2>1, <3>1
  <2>2. CASE at = 1
    <3>1. p[n + 1] = rs[1] /\ (Len(p) = n + 1 \/ (Len(p) = n + 1 + 1 /\ p[n + 1 + 1] = rs[1 + 1]))
      <4>1. \A j \in 1 .. Len(rs) : p[n + j] = rs[j]
          BY <1>2
      <4>2. Len(rs) = 1 \/ Len(rs) = 1 + 1
          BY <1>a, <2>2
      <4>3. n + (1 + 1) = n + 1 + 1 /\ (Len(rs) = 1 + 1 => 1 + 1 \in 1 .. Len(rs)) /\ 1 \in 1 .. Len(rs)
        <5>1. n \in Nat /\ Len(rs) \in Nat
            BY <1>2
        <5> QED BY <4>2, <5>1
      <4>4. p[n + 1] = rs[1] /\ (Len(rs) = 1 + 1 => p[n + 1 + 1] = rs[1 + 1])
          BY <4>1, <4>3
      <4>5. Len(p) = n + Len(rs)
          BY <1>2
      <4> QED BY <4>2, <4>3, <4>4, <4>5
    <3>2. IsAttach(p[n + 1], k) /\ p[n + 1].arg = b
        BY <1>1, <1>a, <2>2, <3>1
    <3>3. Len(p) = n + 1 + 1 => p[n + 1 + 1].type = "commit" /\ p[n + 1 + 1].id = k /\ p[n + 1 + 1].arg = c
      <4>1. Len(p) = n + 1 + 1 => Len(rs) = 1 + 1 /\ p[n + 1 + 1] = rs[1 + 1]
        <5>1. n \in Nat /\ Len(rs) \in Nat /\ Len(p) = n + Len(rs)
            BY <1>2
        <5>2. ASSUME Len(p) = n + 1 + 1 PROVE Len(rs) = 1 + 1
          <6>1. PICK m \in Nat : m = Len(rs)
              BY <5>1
          <6>2. n + m = n + 1 + 1
              BY <5>1, <5>2, <6>1
          <6> QED BY <5>1, <6>1, <6>2
        <5>3. Len(p) = n + 1 + 1 => Len(p) # n + 1
            BY <5>1
        <5> QED BY <3>1, <5>2, <5>3
      <4>2. Len(rs) = 1 + 1 => rs[1 + 1].type = "commit" /\ rs[1 + 1].id = obj[h].id /\ rs[1 + 1].arg = c
          BY <1>a, <2>2
      <4>3. k = obj[h].id
          BY <1>1
      <4> QED BY <4>1, <4>2, <4>3
    <3>4. \A j \in n + 1 .. Len(p) : j = n + 1 \/ j = n + 1 + 1
        BY <1>2, <3>1
    <3> QED BY <2>2, <3>1, <3>2, <3>3, <3>4
  <2> QED BY <2>1, <2>2
<1>5. ASSUME NEW m, m # k, NEW j \in n + 1 .. Len(p) PROVE ~ IsAttach(p[j], m)
  <2>1. CASE at = 1 /\ j = n + 1
      BY <1>4, <1>5, <2>1 DEF IsAttach
  <2>2. CASE Len(p) = n + at + 1 /\ j = n + at + 1
      BY <1>4, <2>2 DEF IsAttach
  <2>3. (at = 1 /\ j = n + 1) \/ (Len(p) = n + at + 1 /\ j = n + at + 1)
    <3>1. j >= n + 1 /\ j <= Len(p) /\ j \in Int
        BY <1>2, <1>5
    <3> QED BY <1>2, <1>4, <3>1
  <2> QED BY <2>1, <2>2, <2>3
\* After the attach the surface shows b.
<1>6. ASSUME k \in DOMAIN srv, h \notin refused PROVE ShownIn(p, srv[k].buffer, n + at + 1, k, b)
  <2>1. CASE at = 0
    <3>1. obj[h].attached = b /\ b # NoBuffer
        BY <1>a, <2>1
    <3>2. ShownIn(q, srv[k].buffer, n + 1, k, b)
        BY <1>0, <1>1, <1>6, <3>1 DEF Painted, NextPainted
    <3>3. n + 1 \in 1 .. n + 1 /\ n + at + 1 = n + 1
        BY <1>2, <2>1
    <3> QED BY <1>3, <3>2, <3>3
  <2>2. CASE at = 1
    <3>1. n + 1 \in Nat \ {0} /\ n + at + 1 = n + 1 + 1
        BY <1>2, <2>2
    <3>2. IsAttach(p[n + 1], k) /\ p[n + 1].arg = b
        BY <1>4, <2>2
    <3>3. \A x : ShownIn(p, x, n + 1 + 1, k, b)
        BY <3>1, <3>2, ShownAfter
    <3> QED BY <3>1, <3>3
  <2> QED BY <2>1, <2>2
<1>7. ASSUME k \in DOMAIN srv, h \notin refused PROVE ShownIn(p, srv[k].buffer, Len(p) + 1, k, b)
  <2>1. CASE Len(p) = n + at
      BY <1>6, <1>7, <2>1
  <2>2. CASE Len(p) = n + at + 1
    <3>1. \A j \in n + at + 1 .. Len(p) + 1 - 1 : ~ IsAttach(p[j], k)
      <4>1. \A j \in n + at + 1 .. Len(p) + 1 - 1 : j = n + at + 1
          BY <1>2, <2>2
      <4> QED BY <1>4, <2>2, <4>1 DEF IsAttach
    <3>2. n + at + 1 \in Nat \ {0} /\ Len(p) + 1 \in Nat /\ n + at + 1 <= Len(p) + 1
        BY <1>2, <2>2
    <3>3. \A x : ShownIn(p, x, n + at + 1, k, b) => ShownIn(p, x, Len(p) + 1, k, b)
        BY <3>1, <3>2, ShownLater
    <3> QED BY <1>6, <1>7, <3>3
  <2> QED BY <1>4, <2>1, <2>2
<1>8. ASSUME NEW i \in DOMAIN toServer' PROVE CommitPainted(i)'
  <2>1. CASE i \in 1 .. n
    <3>1. CommitPainted(i) /\ p[i] = q[i] /\ i \in 1 .. n + 1
        BY <1>1, <1>2, <2>1 DEF Painted
    <3> QED BY <1>1, <1>3, <3>1 DEF CommitPainted
  <2>2. CASE Len(p) = n + at + 1 /\ i = n + at + 1
    <3>1. ASSUME k \in DOMAIN srv, srv[k].handle \notin refused, c # NoBuffer
          PROVE  ShownIn(p, srv[k].buffer, i, k, c)
      <4>1. srv[k].handle = h
          BY <1>0, <1>1, <3>1 DEF Once
      <4> QED BY <1>6, <2>2, <3>1, <4>1
    <3>2. p[i].id = k /\ p[i].arg = c
        BY <1>4, <2>2
    <3> QED BY <1>1, <3>1, <3>2 DEF CommitPainted
  <2>3. CASE at = 1 /\ i = n + 1
      BY <1>1, <1>4, <2>3 DEF CommitPainted, IsAttach
  <2>4. i \in 1 .. n \/ i \in n + 1 .. Len(p)
      BY <1>1, <1>2
  <2>5. i \in 1 .. n \/ (at = 1 /\ i = n + 1) \/ (Len(p) = n + at + 1 /\ i = n + at + 1)
      BY <1>2, <1>4, <2>4
  <2> QED BY <2>1, <2>2, <2>3, <2>5
<1>9. ASSUME NEW g \in Handles PROVE NextPainted(g)'
  <2>1. CASE g = h
      BY <1>0, <1>1, <1>7, <2>1 DEF NextPainted
  <2>2. CASE g # h
    <3>1. PICK m, d : m = obj[g].id /\ d = obj[g].attached
        OBVIOUS
    <3>2. ASSUME d # NoBuffer, m \in DOMAIN srv, g \notin refused
          PROVE  ShownIn(p, srv[m].buffer, Len(p) + 1, m, d)
      <4>1. m # k
          BY <1>0, <1>1, <2>2, <3>1, <3>2 DEF Once, Drawings
      <4>2. ShownIn(q, srv[m].buffer, n + 1, m, d)
          BY <1>1, <3>1, <3>2 DEF Painted, NextPainted
      <4>3. n + 1 \in 1 .. n + 1 /\ n + 1 \in Nat \ {0} /\ Len(p) + 1 \in Nat /\ n + 1 <= Len(p) + 1
            /\ Len(p) + 1 - 1 = Len(p)
          BY <1>2
      <4>4. \A j \in n + 1 .. Len(p) + 1 - 1 : ~ IsAttach(p[j], m)
          BY <1>5, <4>1, <4>3
      <4>5. \A x : ShownIn(p, x, n + 1, m, d) => ShownIn(p, x, Len(p) + 1, m, d)
          BY <4>3, <4>4, ShownLater
      <4> QED BY <1>3, <4>2, <4>3, <4>5
    <3> QED BY <1>0, <1>1, <2>2, <3>1, <3>2 DEF NextPainted
  <2> QED BY <2>1, <2>2
<1> QED BY <1>8, <1>9 DEF Painted

LEMMA PaintedShows ==
    ASSUME Types, Once, Drawings, Painted, ShowsOne, UNCHANGED <<srv, refused>>
    PROVE  Painted'
<1>1. PICK h \in Acked, b \in Buffers \ {NoBuffer} : \E c \in {b, NoBuffer} : Shows(h, b, c)
    BY DEF ShowsOne
<1>2. PICK c \in {b, NoBuffer} : Shows(h, b, c)
    BY <1>1
<1>3. PICK a, m : a = Request("attach", obj[h].id, b) /\ m = Request("commit", obj[h].id, c)
    OBVIOUS
<1>4. a \in Requests /\ m \in Requests
  <2>1. c \in Buffers
      BY Sorts
  <2> QED BY <1>3, <2>1, Acking DEF RequestOK
<1>5. /\ IsAttach(a, obj[h].id) /\ a.arg = b
      /\ m.type = "commit" /\ m.id = obj[h].id /\ m.arg = c
    BY <1>3 DEF Request, IsAttach
<1>6. obj' = [obj EXCEPT ![h].attached = b]
    BY <1>2 DEF Shows
<1>7. CASE obj[h].attached = b
  <2>1. toServer' = toServer \o <<>> \/ toServer' = toServer \o (<<>> \o <<m>>)
      BY <1>2, <1>3, <1>7 DEF Shows, AttachRequest, Matches
  <2>2. toServer' = toServer \o <<>> \/ toServer' = toServer \o <<m>>
      BY <2>1, Pairs
  <2>3. CASE toServer' = toServer \o <<>>
    <3>1. <<>> \in Seq(Requests) /\ Len(<<>>) = 0
        OBVIOUS
    <3>2. ShowSent(h, b, c, 0, <<>>)
        BY <1>6, <1>7, <2>3, <3>1 DEF ShowSent
    <3> QED BY <3>1, <3>2, PaintedAppended
  <2>4. CASE toServer' = toServer \o <<m>>
    <3>1. PICK rs : rs = <<m>>
        OBVIOUS
    <3>2. rs \in Seq(Requests) /\ Len(rs) = 0 + 1 /\ rs[0 + 1] = m
        BY <1>4, <3>1
    <3>3. ShowSent(h, b, c, 0, rs)
        BY <1>5, <1>6, <1>7, <2>4, <3>1, <3>2 DEF ShowSent
    <3> QED BY <3>2, <3>3, PaintedAppended
  <2> QED BY <2>2, <2>3, <2>4
<1>8. CASE obj[h].attached # b
  <2>1. toServer' = toServer \o <<a>> \/ toServer' = toServer \o (<<a>> \o <<m>>)
      BY <1>2, <1>3, <1>8 DEF Shows, AttachRequest, Matches
  <2>2. PICK rs : rs \in {<<a>>, <<a, m>>} /\ toServer' = toServer \o rs
      BY <2>1, Pairs
  <2>3. /\ rs \in Seq(Requests) /\ rs[1] = a /\ (Len(rs) = 1 \/ (Len(rs) = 1 + 1 /\ rs[1 + 1] = m))
    <3>1. CASE rs = <<a>>
        BY <1>4, <3>1
    <3>2. CASE rs = <<a, m>>
        BY <1>4, <3>2
    <3> QED BY <2>2, <3>1, <3>2
  <2>4. ShowSent(h, b, c, 1, rs)
      BY <1>5, <1>6, <2>2, <2>3 DEF ShowSent
  <2> QED BY <2>3, <2>4, PaintedAppended
<1> QED BY <1>7, <1>8

LEMMA PaintedHolds == Spec => [](Drawings /\ Painted)
<1>1. Init => Drawings /\ Painted
  <2> SUFFICES ASSUME Init PROVE Drawings /\ Painted
      OBVIOUS
  <2>1. \A h \in Handles : obj[h] = NoObject /\ obj[h].attached = NoBuffer /\ obj[h].live = FALSE
      BY DEF Init, NoObject
  <2>2. DOMAIN toServer = {}
      BY DEF Init, ServerInit
  <2> QED BY <2>1, <2>2 DEF Drawings, Painted, NextPainted
<1>2. Types /\ Fresh /\ Once /\ Drawings /\ Painted /\ [Next]_vars => Drawings' /\ Painted'
  <2> SUFFICES ASSUME Types, Fresh, Once, Drawings, Painted, [Next]_vars PROVE Drawings' /\ Painted'
      OBVIOUS
  <2>1. CASE UNCHANGED vars
      BY <2>1 DEF vars, clientVars, wireVars, Drawings, Drawn, Own, Painted, CommitPainted, NextPainted
  <2>2. CASE ServerNext /\ UNCHANGED clientVars
    <3>1. Drawings'
        BY <2>2 DEF clientVars, Drawings, Drawn, Own
    <3> QED BY <2>2, <3>1, PaintedServer
  <2>3. CASE Showing
    <3>1. ShowsOne
        BY <2>3, ShowsKinds
    <3>2. UNCHANGED <<srv, refused>>
        BY <2>3, TalkKind DEF Talk
    <3> QED BY <3>1, <3>2, DrawingsShown, PaintedShows
  <2>4. CASE Asking \/ Turn \/ Pass \/ Create \/ Disconnect \/ \E h \in Handles : Forget(h)
    <3>1. Quiet /\ Drawings'
        BY <2>4, QuietKinds
    <3>2. UNCHANGED <<srv, refused>>
      <4>1. CASE Asking
          BY <4>1, TalkKind DEF Talk
      <4>2. CASE Turn \/ Pass \/ Create \/ Disconnect \/ \E h \in Handles : Forget(h)
          BY <4>2 DEF Turn, Pass, Create, ServerIdle, Disconnect, Forget
      <4> QED BY <2>4, <4>1, <4>2
    <3> QED BY <3>1, <3>2, PaintedQuiet
  <2> QED BY <2>1, <2>2, <2>3, <2>4, ClientKinds DEF Next
<1> QED BY <1>1, <1>2, TypesHold, NamesHold, PTL DEF Spec

-----------------------------------------------------------------------------
(* The theorems *)

\* Both ends and the stream between them keep their types: no handle beyond the
\* largest, no more surfaces than the limit (protocol.c:151), no ring overrun.
THEOREM SprotTypes == Spec => []TypeOK
<1>1. Types /\ Fresh => TypeOK
  <2> SUFFICES ASSUME Types, Fresh PROVE TypeOK
      OBVIOUS
  <2>1. created <= MaxHandle
      BY Places, WireAssumption DEF Fresh, Types, ClientTypes
  <2>2. \A i \in DOMAIN srv : srv[i].handle \in Handles /\ srv[i].buffer \in Buffers /\ srv[i].parent \in Nat
      BY DEF Types, ServerTypes, SrvSurfaces
  <2>3. Len(pending) <= RingSize
    <3>1. CASE pending = <<>>
      <4>1. Len(pending) = 0
          BY <3>1
      <4> QED BY <4>1, ClientAssumption
    <3>2. ASSUME NEW e, pending = <<e>> PROVE Len(pending) <= RingSize
      <4>1. Len(pending) = 1
          BY <3>2
      <4> QED BY <4>1, ClientAssumption
    <3> QED BY <3>1, <3>2 DEF Types, WireTypes
  <2>4. ClientTypes /\ ServerTypes
      BY DEF Types
  <2> QED BY <2>1, <2>2, <2>3, <2>4 DEF ClientTypes, ServerTypes, Objects, Modes, TypeOK
<1> QED BY <1>1, TypesHold, NamesHold, PTL

\* However events and answers interleave, the ring of pending events never holds
\* more than one, so nothing is ever dropped from it (vk_interop.c:50).
THEOREM RingNeverFills == Spec => []RingHoldsOne
<1>1. Types => RingHoldsOne
  <2>1. ASSUME pending = <<>> PROVE Len(pending) <= 1
    <3>1. Len(pending) = 0
        BY <2>1
    <3> QED BY <3>1
  <2>2. ASSUME NEW e, pending = <<e>> PROVE Len(pending) <= 1
    <3>1. Len(pending) = 1
        BY <2>2
    <3> QED BY <3>1
  <2> QED BY <2>1, <2>2 DEF Types, WireTypes, RingHoldsOne
<1> QED BY <1>1, TypesHold, PTL

\* The application sees the events in the order of the compositor, none twice,
\* those included that await_event put aside (vk_interop.c:49).
THEOREM SprotEvents == Spec => []EventsInOrder
<1>1. Types /\ Numbered => EventsInOrder
    BY NumbersOrder
<1> QED BY <1>1, TypesHold, NumbersHold, PTL

\* A surface's id is the one the compositor gave to its handle, no two surfaces share
\* one, and a call that waited for its surface alone returns with its id
\* (client.c:233, srapi_bridge.c:14).
THEOREM SprotIds == Spec => []IdsAgree
<1>1. Types /\ Once /\ Waiting => IdsAgree
  <2> SUFFICES ASSUME Types, Once, Waiting PROVE IdsAgree
      OBVIOUS
  <2>1. \A h \in Acked : h \in Handles /\ obj[h].id # 0
      BY DEF Acked, Live
  <2> QED BY <2>1 DEF Once, Waiting, IdsAgree, Live
<1> QED BY <1>1, TypesHold, NamesHold, WaitingHolds, PTL

\* The compositor keeps no surface that its client has destroyed, unless that client
\* did not know its id yet (client.c:411).
THEOREM SprotOrphans == Spec => []NoOrphans
<1>1. Owned => NoOrphans
    BY DEF Owned
<1> QED BY <1>1, OwnedHolds, PTL

\* A commit shows the buffer the application drew in last: no resize, attach left out
\* or other surface comes between them (client.c:577).
THEOREM SprotCommits == Spec => []CommitShowsDrawn
<1>1. Types /\ Painted => CommitShowsDrawn
  <2> SUFFICES ASSUME Types, Painted,
                      NEW i \in DOMAIN toServer,
                      toServer[i].type = "commit", toServer[i].arg # NoBuffer, Known(toServer[i]),
                      srv[toServer[i].id].handle \notin refused
               PROVE  BufferBefore(i, toServer[i].id) = toServer[i].arg
      BY DEF CommitShowsDrawn
  <2>1. PICK k, b : k = toServer[i].id /\ b = toServer[i].arg
      OBVIOUS
  <2>2. ShownIn(toServer, srv[k].buffer, i, k, b)
      BY <2>1 DEF Painted, CommitPainted, Known
  <2> DEFINE attaches == {j \in 1 .. i - 1 : toServer[j].type = "attach" /\ toServer[j].id = k}
  <2>3. CASE srv[k].buffer = b /\ \A j \in 1 .. i - 1 : ~ IsAttach(toServer[j], k)
    <3>1. attaches = {}
        BY <2>3 DEF IsAttach
    <3> QED BY <2>1, <2>3, <3>1 DEF BufferBefore
  <2>4. ASSUME NEW j \in 1 .. i - 1, IsAttach(toServer[j], k), toServer[j].arg = b,
               \A n \in j + 1 .. i - 1 : ~ IsAttach(toServer[n], k)
        PROVE  BufferBefore(i, toServer[i].id) = toServer[i].arg
    <3>1. j \in attaches
        BY <2>4 DEF IsAttach
    <3>2. i \in Nat
        BY Places
    <3>3. \A m \in attaches : m <= j
      <4>1. ASSUME NEW m \in attaches, ~ m <= j PROVE FALSE
        <5>1. m \in j + 1 .. i - 1
            BY <3>2, <4>1
        <5> QED BY <2>4, <4>1, <5>1 DEF IsAttach
      <4> QED BY <4>1
    <3>4. \A m \in attaches : (\A n \in attaches : n <= m) => m = j
      <4>1. ASSUME NEW m \in attaches, \A n \in attaches : n <= m PROVE m = j
        <5>1. m <= j /\ j <= m /\ m \in Int /\ j \in Int
            BY <3>1, <3>2, <3>3, <4>1
        <5> QED BY <5>1
      <4> QED BY <4>1
    <3>5. (CHOOSE m \in attaches : \A n \in attaches : n <= m) = j
      <4> HIDE DEF attaches
      <4> QED BY <3>1, <3>3, <3>4
    <3>6. attaches # {}
        BY <3>1
    <3>7. BufferBefore(i, k) = IF attaches = {} THEN srv[k].buffer
                               ELSE toServer[CHOOSE m \in attaches : \A n \in attaches : n <= m].arg
        BY DEF BufferBefore
    <3> HIDE DEF attaches
    <3> QED BY <2>1, <2>4, <3>5, <3>6, <3>7
  <2> QED BY <2>2, <2>3, <2>4 DEF ShownIn
<1> QED BY <1>1, TypesHold, PaintedHolds, PTL
=============================================================================
