-------------------------------- MODULE Icmp --------------------------------
(***************************************************************************)
(* Pings (net-modules/icmp.c): icmp_ping sends echo requests one by one    *)
(* and reads one packet from its raw socket after each.  Every raw socket  *)
(* gets every ICMP packet that arrives: answers to this process, late ones *)
(* for an earlier task, and those of other processes.                      *)
(*                                                                         *)
(* A request is its bytes, in the host's (little-endian) words.            *)
(***************************************************************************)
EXTENDS Integers, Sequences, FiniteSets

CONSTANTS
    NPackets,   \* the requests of a ping
    Idents,     \* getpid() & 0xFFFF
    Payloads,   \* the bytes behind the header: the time and a pattern
    MaxTasks,   \* bound: pings of the process
    MaxOthers,  \* bound: packets that answer none of its requests
    MaxFaults   \* bound: packets that are lost or cannot be sent or read

Byte == 0 .. 255
MaxUShort == 65535
UShort == 0 .. MaxUShort
MaxPayload == 56    \* datalen: 64 bytes less the header

ASSUME IcmpAssumption ==
    /\ NPackets \in Nat \ {0} /\ NPackets <= MaxUShort   \* icmp_seq; icmp_task: 4
    /\ MaxTasks \in Nat /\ MaxOthers \in Nat /\ MaxFaults \in Nat
    /\ Idents \subseteq UShort
    /\ \A p \in Payloads : p \in Seq(Byte) /\ Len(p) <= MaxPayload

VARIABLES
    pc,         \* what is done next
    ident,      \* of the process
    i,          \* the request
    n,          \* the ping: how many there were
    cksum,      \* the checksum field of pinger's static buffer
    flight,     \* requests on their way
    queue,      \* packets of the socket
    result,     \* of the last ping
    sockets,    \* history: sockets that are open
    sent,       \* history: requests of this ping that left
    got,        \* history: what pr_pack was given in this ping, and its answer
    others, faults

icmpVars == <<pc, ident, i, n, cksum, flight, queue, result, sockets, sent, got, others, faults>>

IcmpInit ==
    /\ pc = "task" /\ ident \in Idents
    /\ i = 0 /\ n = 0 /\ cksum = 0
    /\ flight = {} /\ queue = <<>> /\ result = 0
    /\ sockets = 0 /\ sent = {} /\ got = <<>> /\ others = 0 /\ faults = 0

Fault == faults < MaxFaults /\ faults' = faults + 1

-----------------------------------------------------------------------------
(* in_cksum.                                                               *)

Bytes(word) == <<word % 256, word \div 256>>

WordSum(bytes) ==
    LET sum[k \in 0 .. Len(bytes)] ==
            IF k = 0 THEN 0 ELSE sum[k - 1] + bytes[k] * (IF k % 2 = 1 THEN 1 ELSE 256)
    IN  sum[Len(bytes)]

InCksum(bytes) ==
    LET sum == WordSum(bytes)
        folded == (sum \div 65536) + (sum % 65536)
    IN  65535 - ((folded + (folded \div 65536)) % 65536)

\* An ICMP echo request.
Request(ck, seq, payload) == <<8, 0>> \o Bytes(ck) \o Bytes(ident) \o Bytes(seq) \o payload

\* The host's check: the words' sum in one's complement has all bits set.
Verifies(bytes) == WordSum(bytes) > 0 /\ WordSum(bytes) % 65535 = 0

-----------------------------------------------------------------------------
(* icmp_ping.                                                              *)

\* Unknown host, unknown protocol, no socket.
PingFails ==
    /\ pc = "task" /\ n < MaxTasks /\ Fault
    /\ n' = n + 1 /\ result' = -1 /\ sent' = {} /\ got' = <<>>
    /\ pc' = "returned"
    /\ UNCHANGED <<ident, i, cksum, flight, queue, sockets, others>>

\* The new socket has no packets yet; the one of the ping before is not closed.
IcmpPing ==
    /\ pc = "task" /\ n < MaxTasks
    /\ n' = n + 1 /\ i' = 0 /\ queue' = <<>> /\ sockets' = sockets + 1
    /\ sent' = {} /\ got' = <<>>
    /\ pc' = "pinger"
    /\ UNCHANGED <<ident, cksum, flight, result, others, faults>>

\* A packet that cannot be sent is only noted.
Pinger ==
    /\ pc = "pinger"
    /\ \E payload \in Payloads :
         LET ck == InCksum(Request(0, i, payload))
             packet == [ping |-> n, seq |-> i, bytes |-> Request(ck, i, payload)]
         IN  /\ cksum' = ck
             /\ \/ /\ flight' = flight \cup {packet} /\ sent' = sent \cup {i}
                   /\ UNCHANGED faults
                \/ Fault /\ UNCHANGED <<flight, sent>>
    /\ pc' = "recvfrom"
    /\ UNCHANGED <<ident, i, n, queue, result, sockets, got, others>>

\* pr_pack: 1 for a packet with our id, whatever it is, 0 for a short one too.
PrPack(packet) == IF ~packet.short /\ packet.id = ident THEN 1 ELSE 0

\* Mutant: the last request is left out.
NextRequestShort ==
    /\ i' = i + 1
    /\ pc' = IF i + 2 < NPackets THEN "pinger" ELSE "return"

NextRequest ==
    /\ i' = i + 1
    /\ pc' = IF i + 1 < NPackets THEN "pinger" ELSE "return"

\* recvfrom blocks until there is a packet; what pr_pack returns is not used.
Recvfrom ==
    /\ pc = "recvfrom" /\ queue # <<>>
    /\ queue' = Tail(queue)
    /\ got' = Append(got, [packet |-> Head(queue), r |-> PrPack(Head(queue))])
    /\ NextRequest
    /\ UNCHANGED <<ident, n, cksum, flight, result, sockets, sent, others, faults>>

\* Its failure, cc = -1, makes the packet short.
RecvfromFails ==
    /\ pc = "recvfrom" /\ Fault
    /\ NextRequest
    /\ UNCHANGED <<ident, n, cksum, flight, queue, result, sockets, sent, got, others>>

PingReturns ==
    /\ pc = "return"
    /\ result' = 0 /\ pc' = "returned"
    /\ UNCHANGED <<ident, i, n, cksum, flight, queue, sockets, sent, got, others, faults>>

\* The worker goes on; time passes before the next ping.
NextTask ==
    /\ pc = "returned" /\ pc' = "task"
    /\ UNCHANGED <<ident, i, n, cksum, flight, queue, result, sockets, sent, got, others, faults>>

-----------------------------------------------------------------------------
(* The network.                                                            *)

Listening == pc \in {"pinger", "recvfrom"}

Arrives(packet) == queue' = IF Listening THEN Append(queue, packet) ELSE queue

Reply(request) ==
    [id |-> ident, short |-> FALSE, ping |-> request.ping, seq |-> request.seq]

\* The host answers a request whose checksum is right.
HostAnswers ==
    /\ \E request \in flight :
         /\ flight' = flight \ {request}
         /\ IF Verifies(request.bytes) THEN Arrives(Reply(request)) ELSE UNCHANGED queue
    /\ UNCHANGED <<pc, ident, i, n, cksum, result, sockets, sent, got, others, faults>>

Lost ==
    /\ \E request \in flight : flight' = flight \ {request}
    /\ Fault
    /\ UNCHANGED <<pc, ident, i, n, cksum, queue, result, sockets, sent, got, others>>

\* A packet for another process, a short one, or, when the host pings itself, the
\* copy of a request.
OtherArrives ==
    /\ others < MaxOthers /\ others' = others + 1
    /\ \E id \in {ident, -1}, short \in BOOLEAN :
         Arrives([id |-> id, short |-> short, ping |-> 0, seq |-> 0])
    /\ UNCHANGED <<pc, ident, i, n, cksum, flight, result, sockets, sent, got, faults>>

Step == PingFails \/ IcmpPing \/ Pinger \/ Recvfrom \/ PingReturns \/ NextTask

IcmpNext == Step \/ RecvfromFails \/ HostAnswers \/ Lost \/ OtherArrives

\* The process runs and hosts answer what reaches them.
IcmpSpec == IcmpInit /\ [][IcmpNext]_icmpVars /\ WF_icmpVars(Step) /\ WF_icmpVars(HostAnswers)

-----------------------------------------------------------------------------
(* Properties.                                                             *)

Packet == [id : {ident, -1}, short : BOOLEAN, ping : 0 .. n, seq : 0 .. NPackets - 1]

\* Every variable is in its domain.
IcmpTypeOK ==
    /\ pc \in {"task", "pinger", "recvfrom", "return", "returned"}
    /\ i \in 0 .. NPackets /\ n \in 0 .. MaxTasks /\ cksum \in UShort
    /\ \A packet \in flight : packet.ping \in 1 .. n
    /\ \A k \in DOMAIN queue : queue[k] \in Packet
    /\ result \in {0, -1} /\ sockets \in 0 .. n
    /\ others \in 0 .. MaxOthers /\ faults \in 0 .. MaxFaults

\* Every request that leaves carries the checksum the host will compute, though
\* they are made in one static buffer.
ChecksumVerifies == \A packet \in flight : Verifies(packet.bytes)

Answers == {[ping |-> got[k].packet.ping, seq |-> got[k].packet.seq] : k \in DOMAIN got}

\* A packet of somebody else, or one that is lost, costs a ping one of its answers:
\* late answers and other packets push its own back, but no further.
LossesAreBounded ==
    (pc = "returned" /\ result = 0) =>
        Cardinality(Answers \cap [ping : {n}, seq : 0 .. NPackets - 1]) + others + faults
            >= NPackets

\* A packet of somebody else, or a lost one, costs a ping one answer; every
\* request carries the checksum the host computes (icmp_ping, pinger).
OnePacketCostsOneAnswer == IcmpTypeOK /\ ChecksumVerifies /\ LossesAreBounded

\* While nothing is lost, a ping that waits for an answer goes on.
AnsweredPingGoesOn == (pc = "recvfrom" /\ faults = 0) ~> (pc # "recvfrom" \/ faults > 0)

-----------------------------------------------------------------------------
(* What the documents say, and the code does not do.                       *)

\* "measure round-trip-delays and packet loss across network paths" (icmp.c:16):
\* a ping of which a packet is lost ends all the same.
LossIsMeasured == (pc = "recvfrom") ~> (pc # "recvfrom")

\* "returns the number of packets that made it back" (icmp.c:72)
Ours == {k \in DOMAIN got : got[k].r = 1}
ReturnsTheNumber == (pc = "returned" /\ result # -1) => result = Cardinality(Ours)

\* "This permits multiple copies of this program to be run without having
\* intermingled output (or statistics!)." (icmp.c:214): a ping reads as many
\* packets of its own as it would without the others.
OthersAreNotCounted ==
    (pc = "returned" /\ result = 0 /\ faults = 0) => Cardinality(Ours) = NPackets

=============================================================================
