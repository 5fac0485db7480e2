----------------------------- MODULE BonjourDns -----------------------------
(***************************************************************************)
(* The data the mDNS responder (services::BonjourServer, BonjourServer.cpp,*)
(* src/unnamed/part_002) works on, and the pure decisions it takes on one  *)
(* query: header validation, the hostname matcher, the footer check, which *)
(* records a question contributes in each sub-pass, the byte size of every *)
(* record, and the result of one whole CreateAnswer pass (Plan).           *)
(*                                                                         *)
(* Data abstraction.  A configured string (instance, serviceName, type) is *)
(* the sequence of its dot-free fragments ("atoms"); a DNS label on the    *)
(* wire is a non-empty sequence of atoms too, because a label's bytes may  *)
(* contain '.'.  A question name is a sequence of labels.  Byte sizes are  *)
(* kept (AtomBytes) because the responder sizes its reply buffer from a    *)
(* counting pass.                                                          *)
(***************************************************************************)
EXTENDS Naturals, Sequences, SequencesExt

CONSTANTS
    Atoms,        \* dot-free fragments of labels and configured strings
    Local,        \* the atom "local"
    AtomBytes,    \* the length in bytes of every atom
    Instance,     \* BonjourServer::instance, split at its dots
    ServiceName,  \* BonjourServer::serviceName, split at its dots
    Type,         \* BonjourServer::type, split at its dots
    HasIPv4,      \* ipv4Address != infra::none
    HasIPv6,      \* ipv6Address != infra::none
    TextBytes,    \* text.StreamedSize() - 1, the TXT rdata length
    QueryIds,     \* the transaction ids a query may carry
    MaxQuestions  \* the largest questionsCount a header declares

ConfiguredString == Seq(Atoms) \ {<<>>}

ASSUME DnsAssumption ==
    /\ Local \in Atoms
    /\ AtomBytes \in [Atoms -> Nat \ {0}]
    /\ {Instance, ServiceName, Type} \subseteq ConfiguredString
    /\ HasIPv4 \in BOOLEAN /\ HasIPv6 \in BOOLEAN
    /\ TextBytes \in Nat
    /\ MaxQuestions \in Nat

(***************************************************************************)
(* Wire data.                                                              *)
(***************************************************************************)
DnsType == {"A", "AAAA", "PTR", "SRV", "TXT"}
\* footer.type and footer.class_ as read: the five types and one other
\* (ANY), the Internet class and the class with the unicast-response bit.
QuestionTypes == DnsType \cup {"ANY"}
QuestionClasses == {"IN", "IN_QU"}

Label == Seq(Atoms) \ {<<>>}
Question(names) == [name : names, type : QuestionTypes, class : QuestionClasses]

(* A datagram: the DnsRecordHeader fields (complete is FALSE when fewer    *)
(* than 12 bytes arrived) and the questions actually present in its bytes, *)
(* which may be fewer than the questionsCount the header declares.         *)
PacketType(names) ==
    [id : QueryIds, complete : BOOLEAN, opcode : {"QUERY", "STATUS"},
     qr : {"query", "response"}, qdcount : 0..MaxQuestions,
     ancount : 0..1, nscount : 0..1, arcount : 0..1,
     questions : Seq(Question(names))]

Sections == {"answer", "additional"}
Record == [section : Sections, rtype : DnsType]

(***************************************************************************)
(* Sizes of what Answer streams, in bytes.                                 *)
(***************************************************************************)
HeaderBytes == 12     \* sizeof(DnsRecordHeader)
PayloadBytes == 10    \* sizeof(DnsRecordPayload): type, class, ttl, rdlength

SeqSum(s) == LET f[k \in 0..Len(s)] == IF k = 0 THEN 0 ELSE f[k - 1] + s[k]
             IN f[Len(s)]

\* A configured string is streamed as one label, dots included.
StringBytes(s) == SeqSum([k \in DOMAIN s |-> AtomBytes[s[k]]]) + Len(s) - 1
\* DnsHostnameInParts(..)(..): length-prefixed labels and a terminating 0.
NameBytes(strings) == SeqSum([k \in DOMAIN strings |-> 1 + StringBytes(strings[k])]) + 1

ShortInstanceName == <<Instance, <<Local>>>>
FullInstanceName == <<Instance, ServiceName, Type, <<Local>>>>
ServiceFullName == <<ServiceName, Type, <<Local>>>>

RecordBytes(t) ==
    CASE t = "A"    -> NameBytes(ShortInstanceName) + PayloadBytes + 4
      [] t = "AAAA" -> NameBytes(ShortInstanceName) + PayloadBytes + 16
      [] t = "PTR"  -> NameBytes(ServiceFullName) + PayloadBytes + NameBytes(FullInstanceName)
      [] t = "SRV"  -> NameBytes(FullInstanceName) + PayloadBytes + 6 + NameBytes(ShortInstanceName)
      [] t = "TXT"  -> NameBytes(FullInstanceName) + PayloadBytes + TextBytes

BodyBytes(body) == SeqSum([k \in DOMAIN body |-> RecordBytes(body[k].rtype)])

(***************************************************************************)
(* Header validation (IsValidQuestion).                                    *)
(***************************************************************************)
IsValidQuestion(p) ==
    /\ p.complete
    /\ p.opcode = "QUERY"
    /\ p.qr = "query"
    /\ p.ancount = 0
    /\ p.nscount = 0
    /\ p.arcount = 0

(***************************************************************************)
(* The hostname matcher.  ReadHostname joins the labels with '.', and      *)
(* HostNameIs splits that string at every '.' again: the parts it compares *)
(* are the atoms of all labels in order, not the labels.  A part equals a  *)
(* configured string only when that string is that one atom.               *)
(***************************************************************************)
ReconstructedParts(name) == FlattenSeq(name)

HostNameIs(parts, components) ==
    /\ Len(parts) = Len(components)
    /\ \A k \in 1..Len(parts) : components[k] = <<parts[k]>>

MyShortInstanceName(q) == HostNameIs(ReconstructedParts(q.name), ShortInstanceName)
MyFullInstanceName(q) == HostNameIs(ReconstructedParts(q.name), FullInstanceName)
MyServiceName(q) == HostNameIs(ReconstructedParts(q.name), ServiceFullName)

IsFooterValid(q) == q.type \in DnsType /\ q.class = "IN"

IsQueryForMe(q) ==
    \/ q.type \in {"A", "AAAA"} /\ MyShortInstanceName(q)
    \/ q.type \in {"SRV", "TXT"} /\ MyFullInstanceName(q)
    \/ q.type = "PTR" /\ MyServiceName(q)

(***************************************************************************)
(* The records one question adds: in the first sub-pass (ReadQuestion and  *)
(* the Add..Answer operations) and in the second (ReadQuestionFor-         *)
(* AdditionalRecords and the Add..Additional operations).  A and AAAA are  *)
(* added only when that address is configured.                             *)
(***************************************************************************)
IfAddress(has, t, section) == IF has THEN <<[section |-> section, rtype |-> t]>> ELSE <<>>
Rec(t, section) == <<[section |-> section, rtype |-> t]>>

AnswerRecords(q) ==
    IF ~IsQueryForMe(q) THEN <<>>
    ELSE CASE q.type = "A"    -> IfAddress(HasIPv4, "A", "answer")
           [] q.type = "AAAA" -> IfAddress(HasIPv6, "AAAA", "answer")
           [] q.type \in {"PTR", "SRV", "TXT"} -> Rec(q.type, "answer")

AdditionalRecords(q) ==
    IF ~IsQueryForMe(q) THEN <<>>
    ELSE CASE q.type = "PTR" -> Rec("TXT", "additional") \o Rec("SRV", "additional")
                                  \o IfAddress(HasIPv4, "A", "additional")
                                  \o IfAddress(HasIPv6, "AAAA", "additional")
           [] q.type = "SRV" -> IfAddress(HasIPv4, "A", "additional")
                                  \o IfAddress(HasIPv6, "AAAA", "additional")
           [] OTHER -> <<>>

(***************************************************************************)
(* One whole CreateAnswer pass over a reader, as a function of the packet  *)
(* and of whether the reader is at its start.  header: the provisional     *)
(* header was streamed (answer.Emplace); answer: answer != none at the     *)
(* end; body: the records streamed, in order; ancount and arcount:         *)
(* answersCount and additionalRecordsCount.  A reader that is not at its   *)
(* start has consumed the whole datagram, so reading a header fails.       *)
(***************************************************************************)
Plan(p, atStart) ==
    LET hdrOk == atStart /\ IsValidQuestion(p)
        Q == p.questions
        Bad == {k \in 1..p.qdcount : k > Len(Q) \/ ~IsFooterValid(Q[k])}
        valid == Bad = {}
        stop == IF valid THEN p.qdcount ELSE Min(Bad) - 1
        answers == FlattenSeq([k \in 1..stop |-> AnswerRecords(Q[k])])
        additional == IF valid
                      THEN FlattenSeq([k \in 1..p.qdcount |-> AdditionalRecords(Q[k])])
                      ELSE <<>>
    IN [header |-> hdrOk,
        answer |-> hdrOk /\ valid,
        body |-> IF hdrOk THEN answers \o additional ELSE <<>>,
        ancount |-> IF hdrOk THEN Len(answers) ELSE 0,
        arcount |-> IF hdrOk THEN Len(additional) ELSE 0]

\* A count stored into a 16-bit header field (static_cast<uint16_t>, Finish).
U16(n) == n % 65536

\* Mutant: HasAnswer only asks whether an answer object exists.
HasAnswerIgnoringCount(r) == r.answer

\* QuestionParser::HasAnswer
HasAnswer(r) == r.answer /\ r.ancount # 0

\* countingWriter.Processed(): the bytes a pass streamed.
Processed(r) == IF r.header THEN HeaderBytes + BodyBytes(r.body) ELSE 0

=============================================================================
