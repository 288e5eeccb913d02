------------------------------- MODULE Nsetup -------------------------------
(***************************************************************************)
(* nsetup (tools/network/nsetup.c): an interface gets its address and      *)
(* routes by DHCP.  Several servers answer the broadcast; what is sent may *)
(* be lost, late, doubled and out of order; replies to others, and replies *)
(* with broken options, arrive among those for us.                         *)
(*                                                                         *)
(* The address that server s has for us is s, and 0 is no address.  A      *)
(* server that answers follows the protocol: it gives its address to a     *)
(* request that names it, and takes back its offer for one that names      *)
(* another.  Of the addresses and names in a list, one stands for all.     *)
(***************************************************************************)
EXTENDS Naturals, FiniteSets, Sequences

CONSTANTS
    Servers,      \* numbers above 0
    Gives,        \* for each server, the options it sends: of "id", "mask", "router", "dns"
    Noise         \* what else arrives: messages for others, and broken ones

VARIABLES
    reached,      \* of the program
    udp,          \* the socket is open
    lease,        \* what was read from the last reply
    packets,      \* what was broadcast: discovers and requests
    replies,      \* what was sent to port 68: any of it may arrive, at any time and again
    granted,      \* servers that have given their address to us
    kernel,       \* of the interface and of the system: what has been set
    outcome
dhcpVars == <<reached, udp, lease, packets, replies, granted, kernel, outcome>>

Settings == <<"up", "addr", "mask", "broadcast", "route", "gateway", "dns">>
Messages == [type : {"offer", "ack", "nak"}, from : Servers, addr : {0} \cup Servers, for : {"us", "others"}, ends : BOOLEAN]
NoLease == [addr |-> 0, id |-> 0, mask |-> 0, router |-> 0, dns |-> 0]

TypeOK ==
    /\ reached \in {"args", "mac", "up", "socket", "discover", "offer", "request", "ack", "done"} \cup {Settings[k] : k \in 2 .. Len(Settings)} \cup {"reup"}
    /\ udp \in BOOLEAN /\ lease \in [DOMAIN NoLease -> {0} \cup Servers] /\ outcome \in {0, 1}
    /\ packets \subseteq ([type : {"discover"}] \cup [type : {"request"}, addr : Servers, id : Servers])
    /\ replies \subseteq Messages /\ granted \subseteq Servers
    /\ kernel \in [{Settings[k] : k \in 1 .. Len(Settings)} -> {0} \cup Servers]

Init ==
    /\ reached = "args" /\ udp = FALSE /\ lease = NoLease /\ packets = {} /\ replies = Noise /\ granted = {}
    /\ kernel = [k \in {Settings[i] : i \in 1 .. Len(Settings)} |-> 0] /\ outcome = 0

Network == UNCHANGED <<packets, replies, granted>>
Fail == reached' = "done" /\ outcome' = 1 /\ udp' = FALSE
GoOn(next) == reached' = next /\ UNCHANGED <<udp, outcome>>

(***************************************************************************)
(* The program up to the request                                           *)
(***************************************************************************)
\* The arguments, the list of interfaces, the name: any may be wrong.
Args ==
    /\ reached = "args" /\ (GoOn("mac") \/ Fail)
    /\ UNCHANGED <<lease, kernel>> /\ Network
GetMac ==
    /\ reached = "mac" /\ (GoOn("up") \/ Fail)
    /\ UNCHANGED <<lease, kernel>> /\ Network
\* set_iface_up: the flags are read, and written when the interface is down.
SetUp(next) ==
    /\ \/ GoOn(next) /\ kernel' = [kernel EXCEPT !["up"] = CHOOSE s \in Servers : TRUE]
       \/ Fail /\ UNCHANGED kernel
    /\ UNCHANGED lease /\ Network
Up == reached = "up" /\ SetUp("socket")
OpenSocket ==
    /\ reached = "socket"
    /\ \/ reached' = "discover" /\ udp' = TRUE /\ UNCHANGED outcome
       \/ Fail
    /\ UNCHANGED <<lease, kernel>> /\ Network
Send(packet, next) ==
    /\ \/ GoOn(next) /\ packets' = packets \cup {packet}
       \/ Fail /\ UNCHANGED packets
    /\ UNCHANGED <<lease, kernel, replies, granted>>
Discover == reached = "discover" /\ Send([type |-> "discover"], "offer")

(***************************************************************************)
(* Replies                                                                 *)
(***************************************************************************)
\* Mutant: the lease keeps what the reply does not name.
ParsedOver(m) ==
    LET sent(o, old) == IF o \in Gives[m.from] THEN m.from ELSE old IN
    [addr |-> m.addr, id |-> sent("id", lease.id), mask |-> sent("mask", lease.mask), router |-> sent("router", lease.router), dns |-> sent("dns", lease.dns)]
\* init_lease and parse_dhcp_options: the lease is what this reply says, with a mask of its own
\* (0) when it names none.
Parsed(m) ==
    LET sent(o) == IF o \in Gives[m.from] THEN m.from ELSE 0 IN
    [addr |-> m.addr, id |-> sent("id"), mask |-> sent("mask"), router |-> sent("router"), dns |-> sent("dns")]

\* Mutant: whose hardware address is in the reply is not looked at.
WantedOfAll(m) == TRUE
\* A reply with our xid, our hardware address and the cookie
Wanted(m) == m.for = "us"

\* Mutant: an answer is taken for the one that is waited for.
IsOfAny(m, type) == TRUE
IsOf(m, type) == m.type = type

\* After an offer it must be known who made it, and of what.
Answered ==
    IF reached = "ack" THEN reached' = "reup" /\ udp' = FALSE /\ UNCHANGED outcome
    ELSE IF lease'.id = 0 \/ lease'.addr = 0 THEN Fail ELSE GoOn("request")
\* recv_dhcp_reply, one reply: what is not for us is passed over, of another type or broken,
\* too, but these have been written to the lease.
Receive(m) ==
    /\ reached \in {"offer", "ack"} /\ m \in replies /\ Wanted(m)
    /\ lease' = Parsed(m)
    /\ CASE m.ends /\ m.type = "nak" -> Fail
         [] m.ends /\ m.type # "nak" /\ IsOf(m, reached) -> Answered
         [] OTHER -> UNCHANGED <<reached, udp, outcome>>
    /\ UNCHANGED kernel /\ Network
\* Eight seconds are over, or the socket fails.
Timeout == reached \in {"offer", "ack"} /\ Fail /\ UNCHANGED <<lease, kernel>> /\ Network

\* The request names the address of the offer and the server it came from.
Request == reached = "request" /\ Send([type |-> "request", addr |-> lease.addr, id |-> lease.id], "ack")

(***************************************************************************)
(* apply_lease                                                             *)
(***************************************************************************)
Position(step) == CHOOSE k \in 1 .. Len(Settings) : Settings[k] = step
\* What a step sets; 0: it is left out.
Value(step) ==
    CASE step = "mask" -> lease.mask [] step = "gateway" -> lease.router [] step = "dns" -> lease.dns [] OTHER -> lease.addr
After(step) == IF step = "dns" THEN "done" ELSE Settings[Position(step) + 1]
\* One setting after the other; those before the one that fails stay.  Name servers that
\* cannot be written are not a failure.
Reup == reached = "reup" /\ SetUp("addr")
Apply ==
    /\ reached \in {Settings[k] : k \in 2 .. Len(Settings)}
    /\ \/ GoOn(After(reached)) /\ kernel' = [kernel EXCEPT ![reached] = Value(reached)]
       \/ reached = "dns" /\ GoOn("done") /\ UNCHANGED kernel
       \/ reached # "dns" /\ Fail /\ UNCHANGED kernel
    /\ UNCHANGED lease /\ Network

(***************************************************************************)
(* The servers                                                             *)
(***************************************************************************)
Reply(type, s) == [type |-> type, from |-> s, addr |-> s, for |-> "us", ends |-> TRUE]
Client == UNCHANGED <<reached, udp, lease, packets, kernel, outcome>>
Offer(s) ==
    /\ [type |-> "discover"] \in packets /\ replies' = replies \cup {Reply("offer", s)}
    /\ Client /\ UNCHANGED granted
\* A request for the server's own address is granted or refused.
Decide(s) ==
    /\ \E r \in packets : r.type = "request" /\ r.id = s
       /\ \/ /\ r.addr = s /\ Reply("nak", s) \notin replies
             /\ granted' = granted \cup {s} /\ replies' = replies \cup {Reply("ack", s)}
          \/ s \notin granted /\ replies' = replies \cup {Reply("nak", s)} /\ UNCHANGED granted
    /\ Client

NsetupStep ==
    \/ Args \/ GetMac \/ Up \/ OpenSocket \/ Discover \/ Timeout \/ Request \/ Reup \/ Apply
    \/ \E m \in replies : Receive(m)
\* The deadline of a wait is set once: replies that are passed over do not prolong it.
Progress == NsetupStep /\ reached' # reached
Next == NsetupStep \/ \E s \in Servers : Offer(s) \/ Decide(s)
Spec == Init /\ [][Next]_dhcpVars /\ WF_dhcpVars(Progress)

(***************************************************************************)
(* Properties                                                              *)
(***************************************************************************)
\* The interface never has an address that no server has given to us, whatever arrives in
\* between, and nothing is set before the server has agreed (nsetup.c:774).
AddressGranted ==
    /\ kernel["addr"] # 0 => kernel["addr"] \in granted
    /\ granted = {} => \A k \in 2 .. Len(Settings) : kernel[Settings[k]] = 0

\* At the end address, mask, routes and name servers are those of one server: nothing comes
\* from the replies of another that were read while waiting (nsetup.c:576).
OfOneServer ==
    reached = "done" /\ outcome = 0 =>
        /\ \A k \in {"mask", "gateway", "dns"} : kernel[k] \in {0, kernel["addr"]}
        /\ kernel["broadcast"] = kernel["addr"] /\ kernel["route"] = kernel["addr"]
        /\ "mask" \in Gives[kernel["addr"]] => kernel["mask"] # 0
        /\ "router" \in Gives[kernel["addr"]] => kernel["gateway"] # 0

\* The port is free for the next try, however this one ends (nsetup.c:742).
PortFree == reached = "done" \/ reached \in {Settings[k] : k \in 2 .. Len(Settings)} => ~udp

\* nsetup ends, with or without an answer.
Waits == reached # "args"
Settled == reached = "done"
=============================================================================
