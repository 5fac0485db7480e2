--------------------------- MODULE BonjourResponder ---------------------------
(***************************************************************************)
(* What the mDNS responder (services::BonjourServer) promises to the       *)
(* network, without the mechanism that keeps the promise: it takes at most *)
(* one query at a time, only from the mDNS port and only when it has an    *)
(* answer for it, and later answers it in one step with the reply of a     *)
(* single CreateAnswer pass over it (Plan), in a datagram exactly as large *)
(* as that reply.  Destroying the responder forgets the pending query.     *)
(*                                                                         *)
(* BonjourServer implements it: there the reply is written by a second     *)
(* pass, into a buffer sized by a first (counting) pass, over a reader    *)
(* that must have been rewound in between.                                 *)
(***************************************************************************)
EXTENDS BonjourDns

CONSTANTS
    Names,         \* the question names a datagram may carry
    Packets,       \* the datagrams the network may deliver
    MaxDatagrams   \* how many datagrams the network delivers in a behaviour

MdnsPort == 5353
OtherPort == 1234
Ports == {MdnsPort, OtherPort}

None == [none |-> "none"]

VARIABLES
    alive,     \* the responder exists
    pending,   \* None, or the query taken and not yet answered
    replies,   \* the replies sent, in order
    received   \* datagrams delivered so far (bounded by MaxDatagrams)

avars == <<alive, pending, replies, received>>

(* The reply to query q: its transaction id, the 16-bit counts and the     *)
(* records of one pass over q, and the size of the datagram that holds    *)
(* the header and those records.                                           *)
ReplyTo(q) ==
    LET r == Plan(q, TRUE)
    IN  [id |-> q.id, ancount |-> U16(r.ancount), arcount |-> U16(r.arcount),
         body |-> r.body, size |-> Processed(r)]

(* A query is taken when nothing is pending and a pass over it answers.    *)
Takes(p, port) == port = MdnsPort /\ pending = None /\ HasAnswer(Plan(p, TRUE))

Init ==
    /\ alive = TRUE
    /\ pending = None
    /\ replies = <<>>
    /\ received = 0

Start ==
    /\ ~alive
    /\ alive' = TRUE
    /\ UNCHANGED <<pending, replies, received>>

Stop ==
    /\ alive
    /\ alive' = FALSE
    /\ pending' = None
    /\ UNCHANGED <<replies, received>>

Receive(p, port) ==
    /\ alive
    /\ received < MaxDatagrams
    /\ received' = received + 1
    /\ pending' = IF Takes(p, port) THEN p ELSE pending
    /\ UNCHANGED <<alive, replies>>

Answer ==
    /\ alive
    /\ pending # None
    /\ replies' = Append(replies, ReplyTo(pending))
    /\ pending' = None
    /\ UNCHANGED <<alive, received>>

Next ==
    \/ Start
    \/ Stop
    \/ \E p \in Packets, port \in Ports : Receive(p, port)
    \/ Answer

SafeSpec == Init /\ [][Next]_avars

(* A pending query is answered unless the responder is destroyed first.    *)
Spec == SafeSpec /\ WF_avars(Answer)

=============================================================================
