------------------------- MODULE BonjourServerProofs -------------------------
(***************************************************************************)
(* Proofs about the responder (BonjourServer): the single reader slot and *)
(* the pending send-stream request go together, and a pending request      *)
(* always comes from the counting pass over the reader that is retained,  *)
(* rewound to its start, for every configuration and every datagram.      *)
(***************************************************************************)
EXTENDS BonjourServer, SequenceTheorems, TLAPS

(* The state SendStreamAvailable relies on, a strengthening the proofs   *)
(* need: while a reader is retained it is rewound to its start, and the    *)
(* pending request carries the size and the records of the counting pass   *)
(* over that very reader.                                                  *)
RequestFromDryRun ==
    waitingReader # None =>
        /\ waitingReader.atStart = TRUE
        /\ request.planned = Plan(waitingReader.pkt, TRUE)
        /\ request.size = Processed(request.planned)

(* The inductive invariant: SlotMatchesRequest and that strengthening.   *)
(* Neither is inductive alone: RequestFromDryRun needs the slot to be     *)
(* empty when a new request is made, and the step that releases the       *)
(* reader must release the request too.                                   *)
ServerInv == SlotMatchesRequest /\ RequestFromDryRun

(* A retained reader is never None.                                       *)
LEMMA ReaderNotNone ==
    ASSUME NEW p, NEW b
    PROVE  [pkt |-> p, atStart |-> b] # None
BY DEF None

(* A pending request is never None.                                       *)
LEMMA RequestNotNone ==
    ASSUME NEW s, NEW pl
    PROVE  [size |-> s, planned |-> pl] # None
BY DEF None

LEMMA InitServerInv == Init => ServerInv
BY DEF Init, ServerInv, SlotMatchesRequest, RequestFromDryRun

LEMMA NextServerInv == ServerInv /\ [Next]_vars => ServerInv'
<1>. SUFFICES ASSUME ServerInv, [Next]_vars PROVE ServerInv'
  OBVIOUS
<1>1. CASE Construct
  BY <1>1 DEF Construct, ServerInv, SlotMatchesRequest, RequestFromDryRun
<1>2. CASE Destroy
  BY <1>2 DEF Destroy, ServerInv, SlotMatchesRequest, RequestFromDryRun
<1>3. ASSUME NEW p \in Packets, NEW port \in Ports, DataReceived(p, port)
      PROVE  ServerInv'
  <2>1. CASE port # MdnsPort \/ waitingReader # None
    <3>1. UNCHANGED <<waitingReader, request>>
      BY <1>3, <2>1 DEF DataReceived
    <3>. QED
      BY <3>1 DEF ServerInv, SlotMatchesRequest, RequestFromDryRun
  <2>2. CASE port = MdnsPort /\ waitingReader = None
    <3> DEFINE dry == Plan(p, TRUE)
    <3>1. request = None
      BY <2>2 DEF ServerInv, SlotMatchesRequest
    <3>2. CASE HasAnswer(dry)
      <4>1. /\ waitingReader' = [pkt |-> p, atStart |-> TRUE]
            /\ request' = [size |-> Processed(dry), planned |-> dry]
        BY <1>3, <2>2, <3>2 DEF DataReceived
      <4>2. waitingReader' # None /\ request' # None
        BY <4>1, ReaderNotNone, RequestNotNone
      <4>. QED
        BY <4>1, <4>2 DEF ServerInv, SlotMatchesRequest, RequestFromDryRun
    <3>3. CASE ~HasAnswer(dry)
      <4>1. UNCHANGED <<waitingReader, request>>
        BY <1>3, <2>2, <3>3 DEF DataReceived
      <4>. QED
        BY <4>1, <2>2, <3>1 DEF ServerInv, SlotMatchesRequest, RequestFromDryRun
    <3>. QED
      BY <3>2, <3>3
  <2>. QED
    BY <2>1, <2>2
<1>4. CASE SendStreamAvailable
  BY <1>4 DEF SendStreamAvailable, ServerInv, SlotMatchesRequest, RequestFromDryRun
<1>5. CASE UNCHANGED vars
  BY <1>5 DEF vars, ServerInv, SlotMatchesRequest, RequestFromDryRun
<1>. QED
  BY <1>1, <1>2, <1>3, <1>4, <1>5 DEF Next

(* The reader slot and the pending request go together in every reachable *)
(* state: BonjourServer::DataReceived retains a reader exactly when it     *)
(* requests a send stream, and SendStreamAvailable and the destructor     *)
(* release both.                                                          *)
THEOREM SlotInvariant == Spec => []SlotMatchesRequest
<1>1. Spec => []ServerInv
  BY InitServerInv, NextServerInv, PTL DEF Spec
<1>. QED
  BY <1>1, PTL DEF ServerInv

-----------------------------------------------------------------------------
(***************************************************************************)
(* Pass equivalence.  A reply is written by the real pass over the         *)
(* retained reader into the buffer the counting pass sized; by             *)
(* RequestFromDryRun the two passes read the same datagram from its start, *)
(* so they stream the same records and the same number of bytes.  Nothing *)
(* about what Plan computes is needed, only that both passes compute it on *)
(* the same arguments.                                                     *)
(***************************************************************************)

(* sent is a finite sequence (of whatever replies it holds).               *)
SentIsSeq == sent \in Seq(Range(sent))

(* The inductive invariant of pass equivalence.                            *)
ReplyInv == ServerInv /\ SentIsSeq /\ RepliesMatchDryRun

(* A sequence over any set is a sequence over its own range.               *)
LEMMA SeqInRange ==
    ASSUME NEW S, NEW t \in Seq(S)
    PROVE  t \in Seq(Range(t))
<1>1. \A k \in 1..Len(t) : t[k] \in Range(t)
  BY DEF Range
<1>. QED
  BY <1>1, IsASeq

(* Appending to a sequence keeps it a sequence, keeps its elements and     *)
(* puts the new one last.                                                  *)
LEMMA AppendSeq ==
    ASSUME NEW s, s \in Seq(Range(s)), NEW x
    PROVE  /\ Append(s, x) \in Seq(Range(Append(s, x)))
           /\ Len(Append(s, x)) = Len(s) + 1
           /\ \A k \in 1..Len(s) : Append(s, x)[k] = s[k]
           /\ Append(s, x)[Len(s) + 1] = x
<1>1. s \in Seq(Range(s) \cup {x})
  BY DEF Range
<1>2. Append(s, x) \in Seq(Range(s) \cup {x})
  BY <1>1
<1>3. Append(s, x) \in Seq(Range(Append(s, x)))
  BY <1>2, SeqInRange
<1>4. /\ Len(Append(s, x)) = Len(s) + 1
      /\ \A k \in 1..Len(s) : Append(s, x)[k] = s[k]
      /\ Append(s, x)[Len(s) + 1] = x
  BY <1>1
<1>. QED
  BY <1>3, <1>4

LEMMA InitReplyInv == Init => ReplyInv
<1>. SUFFICES ASSUME Init PROVE ReplyInv
  OBVIOUS
<1>1. ServerInv
  BY InitServerInv
<1>2. SentIsSeq /\ RepliesMatchDryRun
  BY DEF Init, SentIsSeq, RepliesMatchDryRun
<1>. QED
  BY <1>1, <1>2 DEF ReplyInv

(* What a grant step starts from: the retained reader is at its start and  *)
(* the request holds the counting pass over its datagram.                  *)
LEMMA GrantState ==
    ASSUME ServerInv, SendStreamAvailable
    PROVE  /\ waitingReader # None
           /\ waitingReader.atStart = TRUE
           /\ request.planned = Plan(waitingReader.pkt, TRUE)
           /\ request.size = Processed(request.planned)
<1>1. waitingReader # None
  BY DEF SendStreamAvailable, ServerInv, SlotMatchesRequest
<1>. QED
  BY <1>1 DEF ServerInv, RequestFromDryRun

(* The reply a grant step appends.                                         *)
LEMMA GrantReply ==
    ASSUME ServerInv, SendStreamAvailable
    PROVE  \E r : /\ sent' = Append(sent, r)
                  /\ r.id = waitingReader.pkt.id
                  /\ r.bytes = r.capacity
                  /\ r.body = r.planned.body
                  /\ r.planned = Plan(waitingReader.pkt, TRUE)
<1> DEFINE real == Plan(waitingReader.pkt, waitingReader.atStart)
           rec == [id |-> waitingReader.pkt.id,
                   ancount |-> IF real.answer THEN U16(real.ancount) ELSE 0,
                   arcount |-> IF real.answer THEN U16(real.arcount) ELSE 0,
                   body |-> real.body,
                   bytes |-> Processed(real),
                   capacity |-> request.size,
                   planned |-> request.planned]
<1>1. /\ waitingReader.atStart = TRUE
      /\ request.planned = Plan(waitingReader.pkt, TRUE)
      /\ request.size = Processed(request.planned)
  BY GrantState
<1>2. sent' = Append(sent, rec)
  BY DEF SendStreamAvailable
<1>3. real = Plan(waitingReader.pkt, TRUE)
  BY <1>1
<1>4. /\ rec.id = waitingReader.pkt.id
      /\ rec.bytes = rec.capacity
      /\ rec.body = rec.planned.body
      /\ rec.planned = Plan(waitingReader.pkt, TRUE)
  BY <1>1, <1>3
<1>. QED
  BY <1>2, <1>4

LEMMA NextReplyInv == ReplyInv /\ [Next]_vars => ReplyInv'
<1>. SUFFICES ASSUME ReplyInv, [Next]_vars PROVE ReplyInv'
  OBVIOUS
<1>1. ServerInv'
  BY NextServerInv DEF ReplyInv
<1>2. CASE SendStreamAvailable
  <2>1. PICK r : /\ sent' = Append(sent, r)
                 /\ r.bytes = r.capacity
                 /\ r.body = r.planned.body
    BY <1>2, GrantReply DEF ReplyInv
  <2>2. /\ sent' \in Seq(Range(sent'))
        /\ Len(sent') = Len(sent) + 1
        /\ \A k \in 1..Len(sent) : sent'[k] = sent[k]
        /\ sent'[Len(sent) + 1] = r
    BY <2>1, AppendSeq DEF ReplyInv, SentIsSeq
  <2>3. RepliesMatchDryRun'
    BY <2>1, <2>2 DEF ReplyInv, RepliesMatchDryRun
  <2>. QED
    BY <1>1, <2>2, <2>3 DEF ReplyInv, SentIsSeq
<1>3. CASE ~SendStreamAvailable
  <2>1. UNCHANGED sent
    BY <1>3 DEF Next, Construct, Destroy, DataReceived, vars
  <2>. QED
    BY <1>1, <2>1 DEF ReplyInv, SentIsSeq, RepliesMatchDryRun
<1>. QED
  BY <1>2, <1>3

(* Pass equivalence for every configuration and every set of datagrams:    *)
(* each reply SendStreamAvailable writes fills exactly the buffer that the *)
(* counting pass of DataReceived asked for, and carries the records that   *)
(* pass counted.                                                           *)
THEOREM PassEquivalence == Spec => []RepliesMatchDryRun
<1>1. Spec => []ReplyInv
  BY InitReplyInv, NextReplyInv, PTL DEF Spec
<1>. QED
  BY <1>1, PTL DEF ReplyInv

-----------------------------------------------------------------------------
(***************************************************************************)
(* Refinement: BonjourServer implements the abstract responder             *)
(* (BonjourResponder) under the mapping of BonjourServer.Responder.  Each  *)
(* handler is one abstract step: the constructor Start, the destructor     *)
(* Stop, DataReceived Receive and SendStreamAvailable Answer.  The last    *)
(* needs the reply of the real pass to be the one-pass reply of the        *)
(* retained query: ReplyInv gives the pass equivalence, and a retained     *)
(* query always had an answer, so the header counts are not zeroed.        *)
(* Only the safety part is proved; that WF on the grant implies WF on       *)
(* Answer rests on ENABLED and is checked by TLC (ImplementsResponder).    *)
(***************************************************************************)

(* A retained reader holds one of the datagrams and had an answer.         *)
AcceptedHasAnswer ==
    /\ waitingReader \in Reader \cup {None}
    /\ waitingReader # None => HasAnswer(request.planned)

RefInv == ReplyInv /\ AcceptedHasAnswer

LEMMA InitRefInv == Init => RefInv
BY InitReplyInv DEF Init, RefInv, AcceptedHasAnswer

LEMMA NextRefInv == RefInv /\ [Next]_vars => RefInv'
<1>. SUFFICES ASSUME RefInv, [Next]_vars PROVE RefInv'
  OBVIOUS
<1>1. ReplyInv'
  BY NextReplyInv DEF RefInv
<1>2. AcceptedHasAnswer'
  <2>1. CASE Construct \/ Destroy \/ SendStreamAvailable
    BY <2>1 DEF Construct, Destroy, SendStreamAvailable, RefInv, AcceptedHasAnswer
  <2>2. ASSUME NEW p \in Packets, NEW port \in Ports, DataReceived(p, port)
        PROVE  AcceptedHasAnswer'
    <3>1. CASE port # MdnsPort \/ waitingReader # None \/ ~HasAnswer(Plan(p, TRUE))
      <4>1. UNCHANGED <<waitingReader, request>>
        BY <2>2, <3>1 DEF DataReceived
      <4>. QED
        BY <4>1 DEF RefInv, AcceptedHasAnswer
    <3>2. CASE port = MdnsPort /\ waitingReader = None /\ HasAnswer(Plan(p, TRUE))
      <4>1. /\ waitingReader' = [pkt |-> p, atStart |-> TRUE]
            /\ request' = [size |-> Processed(Plan(p, TRUE)), planned |-> Plan(p, TRUE)]
        BY <2>2, <3>2 DEF DataReceived
      <4>. QED
        BY <3>2, <4>1 DEF AcceptedHasAnswer, Reader
    <3>. QED
      BY <3>1, <3>2
  <2>3. CASE UNCHANGED vars
    BY <2>3 DEF vars, RefInv, AcceptedHasAnswer
  <2>. QED
    BY <2>1, <2>2, <2>3 DEF Next
<1>. QED
  BY <1>1, <1>2 DEF RefInv

(* The mapped pending query is None exactly when no reader is retained.    *)
LEMMA PendingNone ==
    ASSUME AcceptedHasAnswer
    PROVE  (IF waitingReader = None THEN None ELSE waitingReader.pkt) = None
               <=> waitingReader = None
<1>1. ASSUME NEW r \in Reader PROVE r.pkt # None
  <2>1. r.pkt \in PacketType(Names)
    BY ServerAssumption DEF Reader
  <2>2. DOMAIN r.pkt # DOMAIN None
    BY <2>1 DEF PacketType, None
  <2>. QED
    BY <2>2
<1>. QED
  BY <1>1 DEF AcceptedHasAnswer

(* Viewing the replies of an appended sequence.                            *)
LEMMA ViewAppend ==
    ASSUME NEW s, s \in Seq(Range(s)), NEW x
    PROVE  [k \in 1..Len(Append(s, x)) |-> ReplyView(Append(s, x)[k])]
           = Append([k \in 1..Len(s) |-> ReplyView(s[k])], ReplyView(x))
<1>1. /\ Len(Append(s, x)) = Len(s) + 1
      /\ \A k \in 1..Len(s) : Append(s, x)[k] = s[k]
      /\ Append(s, x)[Len(s) + 1] = x
  BY AppendSeq
<1>. QED
  BY <1>1

(* The abstract responder's pass, counts and sizes are the responder's:   *)
(* the instance substitutes the same constants into the same definitions.  *)
LEMMA SameDns ==
    ASSUME NEW q, NEW b, NEW r, NEW n
    PROVE  /\ Responder!Plan(q, b) = Plan(q, b)
           /\ Responder!HasAnswer(r) = HasAnswer(r)
           /\ Responder!U16(n) = U16(n)
           /\ Responder!Processed(r) = Processed(r)
<1>1. Responder!Plan(q, b) = Plan(q, b)
  BY DEF Responder!Plan, Plan, Responder!IsValidQuestion, IsValidQuestion,
         Responder!IsFooterValid, IsFooterValid, Responder!AnswerRecords, AnswerRecords,
         Responder!AdditionalRecords, AdditionalRecords, Responder!IsQueryForMe, IsQueryForMe,
         Responder!MyShortInstanceName, MyShortInstanceName,
         Responder!MyFullInstanceName, MyFullInstanceName,
         Responder!MyServiceName, MyServiceName, Responder!HostNameIs, HostNameIs,
         Responder!ReconstructedParts, ReconstructedParts,
         Responder!ShortInstanceName, ShortInstanceName,
         Responder!FullInstanceName, FullInstanceName,
         Responder!ServiceFullName, ServiceFullName,
         Responder!IfAddress, IfAddress, Responder!Rec, Rec,
         Responder!DnsType, DnsType, Responder!FlattenSeq, FlattenSeq, Responder!Min, Min
<1>2. Responder!HasAnswer(r) = HasAnswer(r) /\ Responder!U16(n) = U16(n)
  BY DEF Responder!HasAnswer, HasAnswer, Responder!U16, U16
<1>3. Responder!Processed(r) = Processed(r)
  BY DEF Responder!Processed, Processed, Responder!HeaderBytes, HeaderBytes,
         Responder!BodyBytes, BodyBytes, Responder!SeqSum, SeqSum,
         Responder!RecordBytes, RecordBytes, Responder!NameBytes, NameBytes,
         Responder!StringBytes, StringBytes, Responder!PayloadBytes, PayloadBytes,
         Responder!ShortInstanceName, ShortInstanceName,
         Responder!FullInstanceName, FullInstanceName,
         Responder!ServiceFullName, ServiceFullName
<1>. QED
  BY <1>1, <1>2, <1>3

LEMMA InitRefines == Init => Responder!Init
BY DEF Init, Responder!Init, None, Responder!None

LEMMA NextRefines == RefInv /\ [Next]_vars => [Responder!Next]_Responder!avars
<1>. SUFFICES ASSUME RefInv, [Next]_vars PROVE [Responder!Next]_Responder!avars
  OBVIOUS
<1>. DEFINE pend == IF waitingReader = None THEN None ELSE waitingReader.pkt
<1>1. CASE Construct
  BY <1>1 DEF Construct, Responder!Next, Responder!Start, Responder!avars
<1>2. CASE Destroy
  BY <1>2 DEF Destroy, Responder!Next, Responder!Stop, None, Responder!None
<1>3. ASSUME NEW p \in Packets, NEW port \in Ports, DataReceived(p, port)
      PROVE  [Responder!Next]_Responder!avars
  <2>1. pend = None <=> waitingReader = None
    BY PendingNone DEF RefInv
  <2>2. Responder!HasAnswer(Responder!Plan(p, TRUE)) <=> HasAnswer(Plan(p, TRUE))
    BY SameDns
  <2>3. Responder!None = None /\ Responder!MdnsPort = MdnsPort
    BY DEF None, Responder!None, MdnsPort, Responder!MdnsPort
  <2>8. Responder!Takes(p, port)
        <=> port = MdnsPort /\ waitingReader = None /\ HasAnswer(Plan(p, TRUE))
    BY <2>1, <2>2, <2>3 DEF pend, Responder!Takes
  <2>4. /\ alive /\ received < MaxDatagrams /\ received' = received + 1
        /\ UNCHANGED <<alive, sent>>
    BY <1>3 DEF DataReceived
  <2>5. ASSUME Responder!Takes(p, port) PROVE Responder!Receive(p, port)
    <3>1. waitingReader' = [pkt |-> p, atStart |-> TRUE]
      BY <1>3, <2>8, <2>5 DEF DataReceived
    <3>2. pend' = p
      BY <3>1, ReaderNotNone DEF pend
    <3>. QED
      BY <2>4, <2>5, <3>2 DEF pend, Responder!Receive
  <2>6. ASSUME ~Responder!Takes(p, port) PROVE Responder!Receive(p, port)
    <3>1. UNCHANGED waitingReader
      BY <1>3, <2>8, <2>6 DEF DataReceived
    <3>. QED
      BY <2>4, <2>6, <3>1 DEF pend, Responder!Receive
  <2>7. Responder!Receive(p, port)
    BY <2>5, <2>6
  <2>. QED
    BY <2>7 DEF Responder!Next, Ports, Responder!Ports, MdnsPort, OtherPort, Responder!MdnsPort, Responder!OtherPort
<1>4. CASE SendStreamAvailable
  <2>1. /\ waitingReader # None
        /\ waitingReader.atStart = TRUE
        /\ request.planned = Plan(waitingReader.pkt, TRUE)
        /\ request.size = Processed(request.planned)
    BY <1>4, GrantState DEF RefInv, ReplyInv
  <2>2. pend # None
    BY <2>1, PendingNone DEF RefInv
  <2>3. HasAnswer(Plan(waitingReader.pkt, TRUE))
    BY <2>1 DEF RefInv, AcceptedHasAnswer
  <2> DEFINE real == Plan(waitingReader.pkt, waitingReader.atStart)
             rec == [id |-> waitingReader.pkt.id,
                     ancount |-> IF real.answer THEN U16(real.ancount) ELSE 0,
                     arcount |-> IF real.answer THEN U16(real.arcount) ELSE 0,
                     body |-> real.body,
                     bytes |-> Processed(real),
                     capacity |-> request.size,
                     planned |-> request.planned]
  <2>4. sent' = Append(sent, rec)
    BY <1>4 DEF SendStreamAvailable
  <2>5. ReplyView(rec) = Responder!ReplyTo(waitingReader.pkt)
    <3>1. real = Plan(waitingReader.pkt, TRUE) /\ real.answer
      BY <2>1, <2>3 DEF HasAnswer
    <3>2. Responder!ReplyTo(waitingReader.pkt)
          = [id |-> waitingReader.pkt.id,
             ancount |-> U16(Plan(waitingReader.pkt, TRUE).ancount),
             arcount |-> U16(Plan(waitingReader.pkt, TRUE).arcount),
             body |-> Plan(waitingReader.pkt, TRUE).body,
             size |-> Processed(Plan(waitingReader.pkt, TRUE))]
      BY SameDns DEF Responder!ReplyTo
    <3>. QED
      BY <3>1, <3>2, <2>1 DEF ReplyView
  <2>6. [k \in 1..Len(sent') |-> ReplyView(sent'[k])]
        = Append([k \in 1..Len(sent) |-> ReplyView(sent[k])],
                 Responder!ReplyTo(waitingReader.pkt))
    BY <2>4, <2>5, ViewAppend DEF RefInv, ReplyInv, SentIsSeq
  <2>7. Responder!Answer
    BY <1>4, <2>1, <2>2, <2>6 DEF SendStreamAvailable, Responder!Answer, None, Responder!None
  <2>. QED
    BY <2>7 DEF Responder!Next
<1>5. CASE UNCHANGED vars
  BY <1>5 DEF vars, Responder!avars
<1>. QED
  BY <1>1, <1>2, <1>3, <1>4, <1>5 DEF Next

(* The safety part of the refinement, for every configuration and every    *)
(* set of datagrams: every behaviour of the two-pass responder (counting   *)
(* pass, send-stream request, real pass into the granted buffer) is a      *)
(* behaviour of the responder that answers each query it takes in one      *)
(* pass, in a datagram exactly as large as that reply.                     *)
THEOREM RefinesResponder == Spec => Responder!SafeSpec
<1>1. Spec => []RefInv
  BY InitRefInv, NextRefInv, PTL DEF Spec
<1>. QED
  BY <1>1, InitRefines, NextRefines, PTL DEF Spec, Responder!SafeSpec

=============================================================================
