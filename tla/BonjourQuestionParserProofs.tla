---------------------- MODULE BonjourQuestionParserProofs ----------------------
(***************************************************************************)
(* Proofs about the real pass of QuestionParser (BonjourQuestionParser):   *)
(* it keeps its variables in their types, and every reply it completes is *)
(* well framed, for every configuration and every datagram.               *)
(***************************************************************************)
EXTENDS BonjourQuestionParser, SequenceTheorems, TLAPS

(* The bound on questionsCount that the proofs rely on.                   *)
LEMMA MaxQuestionsBound == MaxQuestions \in Nat /\ MaxQuestions < QuestionsLimit
BY DnsAssumption, ParserAssumption

(* The counters Finish narrows to 16 bits fit: narrowing loses nothing.    *)
LEMMA CountsFit ==
    ASSUME NEW n \in Nat, n <= 4 * MaxQuestions
    PROVE  U16(n) = n
BY MaxQuestionsBound DEF U16, QuestionsLimit

(* Narrowing to 16 bits gives a natural number.                            *)
LEMMA U16Nat ==
    ASSUME NEW n \in Nat
    PROVE  U16(n) \in Nat
BY DEF U16

(* The address flags of the configuration are Booleans.                   *)
LEMMA AddressFlags == HasIPv4 \in BOOLEAN /\ HasIPv6 \in BOOLEAN
BY DnsAssumption

(***************************************************************************)
(* What one question adds: at most one record, an answer, in the first     *)
(* loop; at most four, all additional, in the second.                      *)
(***************************************************************************)
\* s holds at most n records, all of section sec.
RecordsIn(s, n, sec) ==
    /\ s \in Seq(Record)
    /\ Len(s) \in 0..n
    /\ \A k \in 1..Len(s) : s[k].section = sec

(* Appending runs of records of one section gives a run of that section.   *)
LEMMA ConcatRecordsIn ==
    ASSUME NEW s, NEW t, NEW n \in Nat, NEW m \in Nat, NEW sec,
           RecordsIn(s, n, sec), RecordsIn(t, m, sec)
    PROVE  RecordsIn(s \o t, n + m, sec)
<1>1. s \o t \in Seq(Record) /\ Len(s \o t) = Len(s) + Len(t)
  BY ConcatProperties DEF RecordsIn
<1>2. \A k \in 1..Len(s \o t) : (s \o t)[k] = IF k <= Len(s) THEN s[k] ELSE t[k - Len(s)]
  BY <1>1, ConcatProperties DEF RecordsIn
<1>. QED
  BY <1>1, <1>2 DEF RecordsIn

(* A single record, or an address record that is present only when the     *)
(* address is configured, is a run of at most one record.                 *)
LEMMA SingleRecordsIn ==
    ASSUME NEW t \in DnsType, NEW sec \in Sections, NEW has \in BOOLEAN
    PROVE  /\ RecordsIn(Rec(t, sec), 1, sec)
           /\ RecordsIn(IfAddress(has, t, sec), 1, sec)
<1>1. [section |-> sec, rtype |-> t] \in Record
  BY DEF Record
<1>2. RecordsIn(<<[section |-> sec, rtype |-> t]>>, 1, sec)
  BY <1>1 DEF RecordsIn
<1>3. RecordsIn(<<>>, 1, sec)
  BY DEF RecordsIn
<1>. QED
  BY <1>2, <1>3 DEF Rec, IfAddress

(* What one question adds in the first loop (the Add..Answer operations):  *)
(* at most one record, an answer.                                          *)
LEMMA AnswerRecordsFacts ==
    ASSUME NEW q
    PROVE  RecordsIn(AnswerRecords(q), 1, "answer")
<1>1. CASE ~IsQueryForMe(q)
  BY <1>1 DEF AnswerRecords, RecordsIn
<1>2. CASE IsQueryForMe(q)
  <2>1. q.type \in DnsType
    BY <1>2 DEF IsQueryForMe, DnsType
  <2>2. RecordsIn(Rec(q.type, "answer"), 1, "answer")
        /\ RecordsIn(IfAddress(HasIPv4, "A", "answer"), 1, "answer")
        /\ RecordsIn(IfAddress(HasIPv6, "AAAA", "answer"), 1, "answer")
    BY <2>1, SingleRecordsIn, AddressFlags DEF DnsType, Sections
  <2>. QED
    BY <1>2, <2>1, <2>2 DEF AnswerRecords, DnsType
<1>. QED
  BY <1>1, <1>2

(* What one question adds in the second loop (the Add..Additional          *)
(* operations): at most four records, all additional.                     *)
LEMMA AdditionalRecordsFacts ==
    ASSUME NEW q
    PROVE  RecordsIn(AdditionalRecords(q), 4, "additional")
<1>. DEFINE sec == "additional"
            TXT == Rec("TXT", sec)
            SRV == Rec("SRV", sec)
            A == IfAddress(HasIPv4, "A", sec)
            AAAA == IfAddress(HasIPv6, "AAAA", sec)
<1>1. /\ RecordsIn(TXT, 1, sec) /\ RecordsIn(SRV, 1, sec)
      /\ RecordsIn(A, 1, sec) /\ RecordsIn(AAAA, 1, sec)
  BY SingleRecordsIn, AddressFlags DEF DnsType, Sections
<1>2. RecordsIn(A \o AAAA, 2, sec)
  BY <1>1, ConcatRecordsIn
<1>3. RecordsIn(TXT \o SRV \o A \o AAAA, 4, sec)
  <2>1. RecordsIn(TXT \o SRV, 2, sec)
    BY <1>1, ConcatRecordsIn
  <2>2. RecordsIn(TXT \o SRV \o A, 3, sec)
    BY <1>1, <2>1, ConcatRecordsIn
  <2>. QED
    BY <1>1, <2>2, ConcatRecordsIn
<1>4. RecordsIn(<<>>, 4, sec)
  BY DEF RecordsIn
<1>5. RecordsIn(A \o AAAA, 4, sec)
  BY <1>2 DEF RecordsIn
<1>. QED
  BY <1>3, <1>4, <1>5 DEF AdditionalRecords

(* The first loop appends answers to a body holding only answers.         *)
LEMMA FramedAppendAnswers ==
    ASSUME NEW s \in Seq(Record), NEW an \in Nat, NEW t, NEW n \in Nat,
           Framed(s, an, 0), RecordsIn(t, n, "answer")
    PROVE  Framed(s \o t, an + Len(t), 0)
<1>1. Len(s) = an
  BY DEF Framed
<1>0. t \in Seq(Record)
  BY DEF RecordsIn
<1>2. s \o t \in Seq(Record) /\ Len(s \o t) = an + Len(t)
  <2>1. s \o t \in Seq(Record) /\ Len(s \o t) = Len(s) + Len(t)
    BY <1>0, ConcatProperties
  <2>. QED
    BY <1>1, <2>1
<1>3. \A k \in 1..Len(s \o t) : (s \o t)[k] = IF k <= Len(s) THEN s[k] ELSE t[k - Len(s)]
  BY <1>0, ConcatProperties
<1>4. ASSUME NEW k \in 1..Len(s \o t) PROVE (s \o t)[k].section = "answer"
  <2>1. CASE k <= an
    BY <1>1, <1>3, <2>1 DEF Framed
  <2>2. CASE ~(k <= an)
    BY <1>1, <1>2, <1>3, <2>2 DEF RecordsIn
  <2>. QED
    BY <2>1, <2>2
<1>. QED
  BY <1>2, <1>4 DEF Framed

(* The second loop appends additional records after the framed body.      *)
LEMMA FramedAppendAdditional ==
    ASSUME NEW s \in Seq(Record), NEW an \in Nat, NEW ar \in Nat, NEW t, NEW n \in Nat,
           Framed(s, an, ar), RecordsIn(t, n, "additional")
    PROVE  Framed(s \o t, an, ar + Len(t))
<1>1. Len(s) = an + ar
  BY DEF Framed
<1>0. t \in Seq(Record)
  BY DEF RecordsIn
<1>2. s \o t \in Seq(Record) /\ Len(s \o t) = an + ar + Len(t)
  BY <1>0, <1>1, ConcatProperties
<1>3. \A k \in 1..Len(s \o t) : (s \o t)[k] = IF k <= Len(s) THEN s[k] ELSE t[k - Len(s)]
  BY <1>0, ConcatProperties
<1>4. ASSUME NEW k \in 1..Len(s \o t)
      PROVE  (s \o t)[k].section = IF k <= an THEN "answer" ELSE "additional"
  <2>1. CASE k <= Len(s)
    BY <1>1, <1>3, <2>1 DEF Framed
  <2>2. CASE ~(k <= Len(s))
    BY <1>1, <1>2, <1>3, <2>2 DEF RecordsIn
  <2>. QED
    BY <2>1, <2>2
<1>. QED
  BY <1>2, <1>4 DEF Framed

-----------------------------------------------------------------------------
(***************************************************************************)
(* ParserInv is inductive.                                                 *)
(***************************************************************************)
(* A parser starts with a datagram of its type, counters at zero and an    *)
(* empty writer.                                                           *)
LEMMA InitParserInv == Init => ParserInv
<1>. SUFFICES ASSUME Init PROVE ParserInv
  OBVIOUS
<1>1. pkt \in PacketType(Names)
  BY ParserAssumption DEF Init
<1>2. pkt.qdcount \in 0..MaxQuestions
  BY <1>1 DEF PacketType
<1>3. Framed(<<>>, 0, 0)
  BY DEF Framed
<1>4. ParserTypeOK
  <2>1. i \in 0..MaxQuestions /\ answersCount \in Nat /\ additionalRecordsCount \in Nat
    BY MaxQuestionsBound DEF Init
  <2>2. header \in Counts \cup {None}
    BY DEF Init
  <2>3. body \in Seq(Record)
    BY DEF Init
  <2>4. pc \in {"header", "answers", "additional", "finish", "done"}
        /\ valid \in BOOLEAN /\ answer \in BOOLEAN
    BY DEF Init
  <2>. QED
    BY <1>1, <2>1, <2>2, <2>3, <2>4 DEF ParserTypeOK
<1>5. Framed(body, answersCount, additionalRecordsCount)
  BY <1>3 DEF Init
<1>. QED
  BY <1>2, <1>4, <1>5, MaxQuestionsBound DEF Init, ParserInv

(* Every step of CreateAnswer and Finish keeps ParserInv.                  *)
LEMMA NextParserInv == ParserInv /\ [Next]_vars => ParserInv'
<1>. SUFFICES ASSUME ParserInv, [Next]_vars PROVE ParserInv'
  OBVIOUS
<1>. USE MaxQuestionsBound DEF ParserInv, ParserTypeOK
<1>0. pkt.qdcount \in 0..MaxQuestions /\ Q \in Seq(Question(Names))
  BY DEF PacketType, Q
<1>1. CASE ReadHeader
  <2>1. [ancount |-> 0, arcount |-> 0] \in Counts
    BY DEF Counts
  <2>2. /\ pkt' = pkt /\ i' = i /\ valid' = valid /\ answersCount' = answersCount
        /\ additionalRecordsCount' = additionalRecordsCount /\ body' = body
    BY <1>1 DEF ReadHeader
  <2>3. CASE IsValidQuestion(pkt)
    <3>1. answer' = TRUE /\ header' = [ancount |-> 0, arcount |-> 0] /\ pc' = "answers"
          /\ pc = "header"
      BY <1>1, <2>3 DEF ReadHeader
    <3>. QED
      BY <1>0, <2>1, <2>2, <3>1
  <2>4. CASE ~IsValidQuestion(pkt)
    <3>1. pc' = "done" /\ answer' = answer /\ header' = header /\ pc = "header"
      BY <1>1, <2>4 DEF ReadHeader
    <3>. QED
      BY <1>0, <2>2, <3>1
  <2>. QED
    BY <2>3, <2>4
<1>2. CASE ReadQuestion
  <2>1. /\ pc = "answers" /\ additionalRecordsCount = 0
        /\ i + 1 <= pkt.qdcount /\ i' = i + 1
        /\ pkt' = pkt /\ pc' = pc /\ answer' = answer
        /\ additionalRecordsCount' = additionalRecordsCount /\ header' = header
    BY <1>0, <1>2 DEF ReadQuestion, LoopContinues
  <2>2. CASE i + 1 > Len(Q) \/ ~IsFooterValid(Q[i + 1])
    <3>1. valid' = FALSE /\ answersCount' = answersCount /\ body' = body
      BY <1>2, <2>2 DEF ReadQuestion
    <3>2. ParserTypeOK'
      <4>1. i' \in 0..MaxQuestions
        BY <1>0, <2>1, MaxQuestionsBound
      <4>2. valid' \in BOOLEAN
        BY <3>1
      <4>3. (pkt \in PacketType(Names) /\ header \in Counts \cup {None})'
        BY <2>1
      <4>4. (answersCount \in Nat /\ body \in Seq(Record))'
        BY <3>1
      <4>5. (pc \in {"header", "answers", "additional", "finish", "done"}
             /\ answer \in BOOLEAN /\ additionalRecordsCount \in Nat)'
        BY <2>1
      <4>. QED
        BY <4>1, <4>2, <4>3, <4>4, <4>5 DEF ParserTypeOK
    <3>3. Framed(body, answersCount, additionalRecordsCount)'
      BY <2>1, <3>1
    <3>4. (i <= pkt.qdcount /\ answersCount <= pkt.qdcount)'
      BY <1>0, <2>1, <3>1
    <3>. QED
      BY <1>0, <2>1, <3>1, <3>2, <3>3, <3>4
  <2>3. CASE ~(i + 1 > Len(Q) \/ ~IsFooterValid(Q[i + 1]))
    <3>. DEFINE t == AnswerRecords(Q[i + 1])
    <3>1. RecordsIn(t, 1, "answer")
      BY AnswerRecordsFacts
    <3>2. body' = body \o t /\ answersCount' = answersCount + Len(t) /\ valid' = valid
      BY <1>2, <2>3 DEF ReadQuestion
    <3>3. Framed(body \o t, answersCount + Len(t), 0)
      BY <2>1, <3>1, FramedAppendAnswers
    <3>4. body \o t \in Seq(Record) /\ Len(t) \in 0..1
      BY <3>1, ConcatProperties DEF RecordsIn
    <3>5. ParserTypeOK'
      BY <1>0, <2>1, <3>2, <3>4
    <3>6. Framed(body, answersCount, additionalRecordsCount)'
      BY <2>1, <3>2, <3>3
    <3>7. answersCount <= i
      BY <2>1
    <3>8. answersCount' <= answersCount + 1 /\ answersCount' \in Nat
      <4>1. answersCount \in Nat
        OBVIOUS
      <4>2. \A a \in Nat, l \in 0..1 : a + l <= a + 1 /\ a + l \in Nat
        OBVIOUS
      <4>. QED
        BY <3>2, <3>4, <4>1, <4>2, SMTT(30)
    <3>9. i' = i + 1 /\ i + 1 <= pkt.qdcount /\ pkt'.qdcount = pkt.qdcount
      BY <2>1
    <3>10. (i <= pkt.qdcount /\ answersCount <= i /\ answersCount <= pkt.qdcount)'
      BY <1>0, <3>7, <3>8, <3>9, SMTT(30)
    <3>. QED
      BY <2>1, <3>5, <3>6, <3>10
  <2>. QED
    BY <2>2, <2>3
<1>3. CASE RewindToQuestions
  BY <1>0, <1>3 DEF RewindToQuestions
<1>4. CASE ReadQuestionForAdditionalRecords
  <2>. DEFINE t == AdditionalRecords(Q[i + 1])
  <2>1. /\ pc = "additional" /\ i + 1 <= pkt.qdcount /\ i' = i + 1
        /\ body' = body \o t /\ additionalRecordsCount' = additionalRecordsCount + Len(t)
        /\ pkt' = pkt /\ pc' = pc /\ valid' = valid /\ answer' = answer
        /\ answersCount' = answersCount /\ header' = header
    BY <1>0, <1>4 DEF ReadQuestionForAdditionalRecords, LoopContinues
  <2>2. RecordsIn(t, 4, "additional")
    BY AdditionalRecordsFacts
  <2>3. Framed(body \o t, answersCount, additionalRecordsCount + Len(t))
    BY <2>2, FramedAppendAdditional
  <2>4. body \o t \in Seq(Record) /\ Len(t) \in 0..4
    BY <2>2, ConcatProperties DEF RecordsIn
  <2>5. ParserTypeOK'
    BY <1>0, <2>1, <2>4
  <2>6. Framed(body, answersCount, additionalRecordsCount)'
    BY <2>1, <2>3
  <2>7. additionalRecordsCount + Len(t) <= 4 * (i + 1)
    <3>1. additionalRecordsCount <= 4 * i /\ i \in Nat /\ additionalRecordsCount \in Nat
      BY <2>1
    <3>2. \A n \in 0..4 : additionalRecordsCount + n <= 4 * (i + 1)
      BY <3>1
    <3>. QED
      BY <3>2, <2>4
  <2>. QED
    BY <1>0, <2>1, <2>4, <2>5, <2>6, <2>7
<1>5. CASE EndCreateAnswer
  BY <1>5 DEF EndCreateAnswer
<1>6. CASE Finish
  <2>1. [ancount |-> U16(answersCount), arcount |-> U16(additionalRecordsCount)] \in Counts
    BY U16Nat DEF Counts
  <2>. QED
    BY <1>6, <2>1 DEF Finish
<1>7. CASE Terminated
  BY <1>7 DEF Terminated, vars
<1>8. CASE UNCHANGED vars
  BY <1>8 DEF vars
<1>. QED
  BY <1>1, <1>2, <1>3, <1>4, <1>5, <1>6, <1>7, <1>8 DEF Next

(* A completed reply is framed by its header: the counters fit in 16 bits, *)
(* so the header Finish wrote holds them exactly.                          *)
LEMMA ParserInvFramed == ParserInv => WellFramedReply
<1>. SUFFICES ASSUME ParserInv, pc = "done", answer
              PROVE  Framed(body, header.ancount, header.arcount)
  BY DEF WellFramedReply
<1>1. header = [ancount |-> U16(answersCount), arcount |-> U16(additionalRecordsCount)]
  BY DEF ParserInv
<1>2. /\ answersCount \in Nat /\ answersCount <= 4 * MaxQuestions
      /\ additionalRecordsCount \in Nat /\ additionalRecordsCount <= 4 * MaxQuestions
  <2>1. pkt.qdcount \in 0..MaxQuestions
    BY DEF ParserInv, ParserTypeOK, PacketType
  <2>. QED
    BY <2>1, MaxQuestionsBound DEF ParserInv, ParserTypeOK
<1>3. U16(answersCount) = answersCount /\ U16(additionalRecordsCount) = additionalRecordsCount
  BY <1>2, CountsFit
<1>. QED
  BY <1>1, <1>3 DEF ParserInv

(* The type invariant holds in every state the parser reaches.             *)
THEOREM TypeCorrect == Spec => []ParserTypeOK
<1>1. ParserInv => ParserTypeOK
  BY DEF ParserInv
<1>. QED
  BY <1>1, InitParserInv, NextParserInv, PTL DEF Spec

(* Every reply CreateAnswer and Finish complete is well framed: the header *)
(* counts the answer records, which come first, and the additional records *)
(* after them, for any configuration and any datagram.                     *)
THEOREM WellFramed == Spec => []WellFramedReply
BY ParserInvFramed, InitParserInv, NextParserInv, PTL DEF Spec

-----------------------------------------------------------------------------
(***************************************************************************)
(* A bad question drops the whole answer.  The first loop keeps valid only *)
(* while every question it read was present with a valid footer; the      *)
(* second loop does not touch valid; the end of CreateAnswer drops the     *)
(* answer unless valid.  WholeInv says so at each place of the parse.      *)
(***************************************************************************)
\* The first n questions are in the datagram, each with a valid footer.
ReadValid(n) == n <= Len(Q) /\ \A k \in 1..n : IsFooterValid(Q[k])

WholeInv ==
    /\ pc = "header" => i = 0
    /\ pc = "answers" /\ valid => ReadValid(i)
    /\ pc \in {"additional", "finish", "done"} /\ valid /\ answer => ReadValid(pkt.qdcount)
    /\ pc \in {"finish", "done"} /\ answer => valid

LEMMA InitWholeInv == Init => WholeInv
BY DEF Init, WholeInv

(* Every step of CreateAnswer and Finish keeps WholeInv.                   *)
LEMMA NextWholeInv == ParserInv /\ WholeInv /\ [Next]_vars => WholeInv'
<1>. SUFFICES ASSUME ParserInv, WholeInv, [Next]_vars PROVE WholeInv'
  OBVIOUS
<1>0. pkt.qdcount \in 0..MaxQuestions /\ Q \in Seq(Question(Names)) /\ i \in 0..MaxQuestions
  BY DEF ParserInv, ParserTypeOK, PacketType, Q
<1>1. CASE ReadHeader
  <2>1. pc = "header" /\ i = 0 /\ i' = 0 /\ pkt' = pkt /\ valid' = valid
    BY <1>1 DEF ReadHeader, WholeInv
  <2>2. ReadValid(0)
    BY <1>0 DEF ReadValid
  <2>3. pc' \in {"answers", "done"} /\ (pc' = "done" => answer' = answer)
    BY <1>1 DEF ReadHeader
  <2>4. ~answer
    BY <2>1 DEF ParserInv
  <2>. QED
    BY <2>1, <2>2, <2>3, <2>4 DEF WholeInv, ReadValid, Q
<1>2. CASE ReadQuestion
  <2>1. /\ pc = "answers" /\ pc' = "answers" /\ i' = i + 1 /\ pkt' = pkt
    BY <1>2 DEF ReadQuestion
  <2>2. CASE i + 1 > Len(Q) \/ ~IsFooterValid(Q[i + 1])
    <3>1. valid' = FALSE
      BY <1>2, <2>2 DEF ReadQuestion
    <3>. QED
      BY <2>1, <3>1 DEF WholeInv
  <2>3. CASE ~(i + 1 > Len(Q) \/ ~IsFooterValid(Q[i + 1]))
    <3>1. valid' = valid
      BY <1>2, <2>3 DEF ReadQuestion
    <3>2. valid => ReadValid(i)
      BY <2>1 DEF WholeInv
    <3>3. valid => ReadValid(i + 1)
      <4>1. i + 1 <= Len(Q) /\ IsFooterValid(Q[i + 1])
        BY <1>0, <2>3
      <4>. QED
        BY <1>0, <3>2, <4>1 DEF ReadValid
    <3>. QED
      BY <2>1, <3>1, <3>3 DEF WholeInv, ReadValid, Q
  <2>. QED
    BY <2>2, <2>3
<1>3. CASE RewindToQuestions
  <2>1. pc = "answers" /\ ~LoopContinues /\ pc' = "additional"
        /\ UNCHANGED <<pkt, valid, answer>>
    BY <1>3 DEF RewindToQuestions
  <2>2. valid => i = pkt.qdcount
    BY <2>1 DEF LoopContinues
  <2>. QED
    BY <2>1, <2>2 DEF WholeInv, ReadValid, Q
<1>4. CASE ReadQuestionForAdditionalRecords
  <2>1. pc = "additional" /\ pc' = "additional" /\ UNCHANGED <<pkt, valid, answer>>
    BY <1>4 DEF ReadQuestionForAdditionalRecords
  <2>. QED
    BY <2>1 DEF WholeInv, ReadValid, Q
<1>5. CASE EndCreateAnswer
  <2>1. pc = "additional" /\ pc' = "finish" /\ answer' = (answer /\ valid)
        /\ UNCHANGED <<pkt, valid>>
    BY <1>5 DEF EndCreateAnswer
  <2>. QED
    BY <2>1 DEF WholeInv, ReadValid, Q
<1>6. CASE Finish
  <2>1. pc = "finish" /\ pc' = "done" /\ UNCHANGED <<pkt, valid, answer>>
    BY <1>6 DEF Finish
  <2>. QED
    BY <2>1 DEF WholeInv, ReadValid, Q
<1>7. CASE Terminated \/ UNCHANGED vars
  BY <1>7 DEF Terminated, vars, WholeInv, ReadValid, Q
<1>. QED
  BY <1>1, <1>2, <1>3, <1>4, <1>5, <1>6, <1>7 DEF Next

(* For every configuration and every datagram, a reply the parser          *)
(* completes answers a datagram that holds every question its header       *)
(* declares, each with a valid footer: a truncated or invalid question     *)
(* after answers were already streamed drops the whole answer              *)
(* (BonjourServer.cpp, CreateAnswer's valid flag and answer = none).       *)
THEOREM WholeQueriesOnly == Spec => []AnswersOnlyWholeQueries
<1>1. ParserInv /\ WholeInv => AnswersOnlyWholeQueries
  BY DEF WholeInv, ReadValid, AnswersOnlyWholeQueries
<1>2. Init => ParserInv /\ WholeInv
  BY InitParserInv, InitWholeInv
<1>3. ParserInv /\ WholeInv /\ [Next]_vars => (ParserInv /\ WholeInv)'
  BY NextParserInv, NextWholeInv
<1>. QED
  BY <1>1, <1>2, <1>3, PTL DEF Spec

=============================================================================
