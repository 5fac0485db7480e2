---------------------------- MODULE BonjourServer ----------------------------
(***************************************************************************)
(* The responder services::BonjourServer (BonjourServer.cpp) between its   *)
(* datagram exchange and the network: construction and destruction (join  *)
(* and leave the mDNS group), DataReceived (the counting pass, then a      *)
(* send-stream request or a drop) and SendStreamAvailable (the real pass   *)
(* into the granted buffer, which is then sent).  Each handler is one      *)
(* action; a whole QuestionParser pass in it is Plan (BonjourDns), which   *)
(* the stepwise parser of BonjourQuestionParser is checked against.        *)
(*                                                                         *)
(* The environment: datagrams arrive at any time from the mDNS port or     *)
(* another one; the exchange grants a requested send stream some time     *)
(* later; a destroyed server releases its exchange, and with it the        *)
(* pending request.                                                        *)
(***************************************************************************)
EXTENDS BonjourDns

CONSTANTS
    Names,         \* the question names a datagram may carry
    Packets,       \* the datagrams the network may deliver
    MaxDatagrams   \* how many datagrams the network delivers in a behaviour

MdnsPort == 5353
OtherPort == 1234
Ports == {MdnsPort, OtherPort}

ASSUME ServerAssumption ==
    /\ Packets \subseteq PacketType(Names)
    /\ Names \subseteq Seq(Label)
    /\ MaxDatagrams \in Nat

None == [none |-> "none"]

VARIABLES
    alive,          \* the BonjourServer object exists
    joined,         \* its exchange is a member of 224.0.0.251
    waitingReader,  \* None, or the retained reader: its datagram and
                    \* whether it is rewound to its start
    request,        \* None, or the pending RequestSendStream: the size asked
                    \* for, and (history) the counting pass it came from
    sent,           \* the replies handed to the exchange, in order
    received        \* datagrams delivered so far (bounded by MaxDatagrams)

vars == <<alive, joined, waitingReader, request, sent, received>>

Reader == [pkt : Packets, atStart : BOOLEAN]
PlanType == [header : BOOLEAN, answer : BOOLEAN, body : Seq(Record),
             ancount : Nat, arcount : Nat]
Reply == [id : QueryIds, ancount : Nat, arcount : Nat, body : Seq(Record),
          bytes : Nat, capacity : Nat, planned : PlanType]

ServerTypeOK ==
    /\ alive \in BOOLEAN
    /\ joined \in BOOLEAN
    /\ waitingReader \in Reader \cup {None}
    /\ request \in [size : Nat, planned : PlanType] \cup {None}
    /\ sent \in Seq(Reply)
    /\ received \in 0..MaxDatagrams

(* The first server has been constructed (constructor, lines 17-30). *)
Init ==
    /\ alive = TRUE
    /\ joined = TRUE
    /\ waitingReader = None
    /\ request = None
    /\ sent = <<>>
    /\ received = 0

(* BonjourServer::BonjourServer: Listen on the mDNS port, then             *)
(* JoinMulticastGroup.  A new server after the previous one was destroyed. *)
Construct ==
    /\ ~alive
    /\ alive' = TRUE
    /\ joined' = TRUE
    /\ UNCHANGED <<waitingReader, request, sent, received>>

\* Mutant: destruction leaves the exchange's pending request behind.
DestroyKeepsRequest ==
    /\ alive
    /\ alive' = FALSE
    /\ joined' = FALSE
    /\ waitingReader' = None
    /\ UNCHANGED <<request, sent, received>>

(* ~BonjourServer: LeaveMulticastGroup; the members go, the retained       *)
(* reader and the exchange (with its pending request) with them.           *)
Destroy ==
    /\ alive
    /\ alive' = FALSE
    /\ joined' = FALSE
    /\ waitingReader' = None
    /\ request' = None
    /\ UNCHANGED <<sent, received>>

\* Mutant: the counting pass does not rewind the reader to 0.
DataReceivedNoRewind(p, port) ==
    /\ alive
    /\ received < MaxDatagrams
    /\ received' = received + 1
    /\ \/ port # MdnsPort /\ UNCHANGED <<waitingReader, request>>
       \/ port = MdnsPort /\ waitingReader # None /\ UNCHANGED <<waitingReader, request>>
       \/ /\ port = MdnsPort /\ waitingReader = None
          /\ LET dry == Plan(p, TRUE)
             IN  IF HasAnswer(dry)
                 THEN /\ waitingReader' = [pkt |-> p, atStart |-> FALSE]
                      /\ request' = [size |-> Processed(dry), planned |-> dry]
                 ELSE UNCHANGED <<waitingReader, request>>
    /\ UNCHANGED <<alive, joined, sent>>

\* Mutant: without an answer the reader is not released.
DataReceivedKeepsReader(p, port) ==
    /\ alive
    /\ received < MaxDatagrams
    /\ received' = received + 1
    /\ \/ port # MdnsPort /\ UNCHANGED <<waitingReader, request>>
       \/ port = MdnsPort /\ waitingReader # None /\ UNCHANGED <<waitingReader, request>>
       \/ /\ port = MdnsPort /\ waitingReader = None
          /\ waitingReader' = [pkt |-> p, atStart |-> TRUE]
          /\ LET dry == Plan(p, TRUE)
             IN  IF HasAnswer(dry)
                 THEN request' = [size |-> Processed(dry), planned |-> dry]
                 ELSE UNCHANGED request
    /\ UNCHANGED <<alive, joined, sent>>

(* DataReceived(reader, from).  Datagrams not from port 5353, and          *)
(* datagrams while a reader is retained, are dropped.  Otherwise the       *)
(* reader is retained, the counting pass runs and rewinds it to 0; with an *)
(* answer a send stream of the counted size is requested for the mDNS      *)
(* group, without one the reader is released.                              *)
DataReceived(p, port) ==
    /\ alive
    /\ received < MaxDatagrams
    /\ received' = received + 1
    /\ \/ /\ port # MdnsPort
          /\ UNCHANGED <<waitingReader, request>>
       \/ /\ port = MdnsPort
          /\ waitingReader # None
          /\ UNCHANGED <<waitingReader, request>>
       \/ /\ port = MdnsPort
          /\ waitingReader = None
          /\ LET dry == Plan(p, TRUE)
             IN  IF HasAnswer(dry)
                 THEN /\ waitingReader' = [pkt |-> p, atStart |-> TRUE]
                      /\ request' = [size |-> Processed(dry), planned |-> dry]
                 ELSE UNCHANGED <<waitingReader, request>>
    /\ UNCHANGED <<alive, joined, sent>>

\* Mutant: the reply header carries id 0 instead of the query's id.
SendStreamAvailableZeroId ==
    /\ alive
    /\ request # None
    /\ LET real == Plan(waitingReader.pkt, waitingReader.atStart)
       IN  sent' = Append(sent,
                     [id |-> 0, ancount |-> IF real.answer THEN U16(real.ancount) ELSE 0,
                      arcount |-> IF real.answer THEN U16(real.arcount) ELSE 0,
                      body |-> real.body, bytes |-> Processed(real),
                      capacity |-> request.size, planned |-> request.planned])
    /\ waitingReader' = None
    /\ request' = None
    /\ UNCHANGED <<alive, joined, received>>

\* Mutant: the reader is not released after the reply is written.
SendStreamAvailableKeepsReader ==
    /\ alive
    /\ request # None
    /\ LET real == Plan(waitingReader.pkt, waitingReader.atStart)
       IN  sent' = Append(sent,
                     [id |-> waitingReader.pkt.id,
                      ancount |-> IF real.answer THEN U16(real.ancount) ELSE 0,
                      arcount |-> IF real.answer THEN U16(real.arcount) ELSE 0,
                      body |-> real.body, bytes |-> Processed(real),
                      capacity |-> request.size, planned |-> request.planned])
    /\ request' = None
    /\ UNCHANGED <<alive, joined, waitingReader, received>>

(* SendStreamAvailable(writer): the exchange grants the requested buffer.  *)
(* The real pass reads the retained reader into it, Finish patches the     *)
(* header (counts narrowed to 16 bits) when there is an answer, the reader *)
(* is released and the writer, released too, is sent.                     *)
SendStreamAvailable ==
    /\ alive
    /\ request # None
    /\ LET real == Plan(waitingReader.pkt, waitingReader.atStart)
       IN  sent' = Append(sent,
                     [id |-> waitingReader.pkt.id,
                      ancount |-> IF real.answer THEN U16(real.ancount) ELSE 0,
                      arcount |-> IF real.answer THEN U16(real.arcount) ELSE 0,
                      body |-> real.body,
                      bytes |-> Processed(real),
                      capacity |-> request.size,
                      planned |-> request.planned])
    /\ waitingReader' = None
    /\ request' = None
    /\ UNCHANGED <<alive, joined, received>>

Next ==
    \/ Construct
    \/ Destroy
    \/ \E p \in Packets, port \in Ports : DataReceived(p, port)
    \/ SendStreamAvailable

(* The exchange eventually grants a send stream it was asked for while the *)
(* server lives.  Arrivals and destruction are up to the environment.      *)
Spec == Init /\ [][Next]_vars /\ WF_vars(SendStreamAvailable)

-----------------------------------------------------------------------------
(***************************************************************************)
(* Properties.                                                             *)
(***************************************************************************)
CountOf(s, section) == Len(SelectSeq(s, LAMBDA r : r.section = section))

(* The single in-flight slot: a reader is retained exactly while a send    *)
(* stream is requested.  A reader kept without a request blocks every      *)
(* later query for ever; a request without a reader trips the assert in    *)
(* SendStreamAvailable.                                                    *)
SlotMatchesRequest == (waitingReader # None) <=> (request # None)

(* Pass equivalence: every reply fills exactly the buffer the counting     *)
(* pass sized, and carries the records that pass counted.                  *)
RepliesMatchDryRun ==
    \A k \in 1..Len(sent) :
        /\ sent[k].bytes = sent[k].capacity
        /\ sent[k].body = sent[k].planned.body

(* Every datagram the responder sends answers something, and its header    *)
(* counts the answer and additional records it carries.                    *)
RepliesAnswer ==
    \A k \in 1..Len(sent) :
        /\ sent[k].ancount >= 1
        /\ sent[k].ancount = CountOf(sent[k].body, "answer")
        /\ sent[k].arcount = CountOf(sent[k].body, "additional")

(* The reply a datagram of the responder is, seen from the network: the   *)
(* header's id and counts, the records written, and the size of the       *)
(* buffer it was written into.                                             *)
ReplyView(r) == [id |-> r.id, ancount |-> r.ancount, arcount |-> r.arcount,
                 body |-> r.body, size |-> r.capacity]

Responder == INSTANCE BonjourResponder WITH
    pending <- IF waitingReader = None THEN None ELSE waitingReader.pkt,
    replies <- [k \in 1..Len(sent) |-> ReplyView(sent[k])]

(* The responder keeps its promise (BonjourResponder): DataReceived takes  *)
(* a query exactly when the abstract responder would, and the reply        *)
(* SendStreamAvailable writes by its second pass, into the buffer its     *)
(* first pass sized, is the reply of one pass over that query, with its   *)
(* counts and its size.  A reader left unrewound, a reader kept without an *)
(* answer, or a request surviving the server would each break it.         *)
ImplementsResponder == Responder!Spec

(* A datagram the responder retained is answered, unless the server is     *)
(* destroyed first: the retained reader never blocks the responder.        *)
AcceptedQueryAnswered ==
    \A n \in 0..MaxDatagrams :
        (waitingReader # None /\ Len(sent) = n) ~> (Len(sent) > n \/ ~alive)

=============================================================================
