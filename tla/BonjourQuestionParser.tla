------------------------- MODULE BonjourQuestionParser -------------------------
(***************************************************************************)
(* One QuestionParser of the real pass (the constructor taking a writer,   *)
(* BonjourServer.cpp:209-217): CreateAnswer reads the header, runs the     *)
(* answer sub-pass over the questions, rewinds to the first question, runs *)
(* the additional-records sub-pass, and Finish patches the provisional     *)
(* header with the final counts.  Each loop iteration is a step; nothing   *)
(* else runs meanwhile (the responder is single threaded), so the steps    *)
(* are one handler seen at a finer grain.                                  *)
(***************************************************************************)
EXTENDS BonjourDns

CONSTANTS
    Names,    \* the question names a datagram may carry
    Packets   \* the datagrams the parser may be given

\* A UDP datagram holds at most 65507 bytes and a question at least 6
\* (a 2-byte name pointer and the footer), so at most 10917 questions;
\* each adds at most 4 additional records, which stays below 2^16.
QuestionsLimit == 16384

ASSUME ParserAssumption ==
    /\ Packets \subseteq PacketType(Names)
    /\ Names \subseteq Seq(Label)
    /\ MaxQuestions < QuestionsLimit

None == [none |-> "none"]
Counts == [ancount : Nat, arcount : Nat]

VARIABLES
    pkt,                     \* the datagram in the reader
    pc,                      \* where CreateAnswer/Finish is
    i,                       \* the loop counter of the current sub-pass
    valid,                   \* QuestionParser::valid
    answer,                  \* answer != infra::none
    answersCount,            \* Answer::answersCount
    additionalRecordsCount,  \* Answer::additionalRecordsCount
    header,                  \* the header bytes in the writer: None or its counts
    body                     \* the records streamed after the header, in order

vars == <<pkt, pc, i, valid, answer, answersCount, additionalRecordsCount, header, body>>

Q == pkt.questions

ParserTypeOK ==
    /\ pkt \in PacketType(Names)
    /\ pc \in {"header", "answers", "additional", "finish", "done"}
    /\ i \in 0..MaxQuestions
    /\ valid \in BOOLEAN
    /\ answer \in BOOLEAN
    /\ answersCount \in Nat
    /\ additionalRecordsCount \in Nat
    /\ header \in Counts \cup {None}
    /\ body \in Seq(Record)

Init ==
    /\ pkt \in Packets
    /\ pc = "header"
    /\ i = 0
    /\ valid = TRUE
    /\ answer = FALSE
    /\ answersCount = 0
    /\ additionalRecordsCount = 0
    /\ header = None
    /\ body = <<>>

(* stream >> header; IsValidQuestion; answer.Emplace streams a header with *)
(* all counts zero and remembers startOfQuestions.                         *)
ReadHeader ==
    /\ pc = "header"
    /\ IF IsValidQuestion(pkt)
       THEN /\ answer' = TRUE
            /\ header' = [ancount |-> 0, arcount |-> 0]
            /\ pc' = "answers"
       ELSE /\ pc' = "done"
            /\ UNCHANGED <<answer, header>>
    /\ UNCHANGED <<pkt, i, valid, answersCount, additionalRecordsCount, body>>

\* Mutant: the loops run while i <= questionsCount (off by one).
LoopContinuesPastCount == valid /\ i <= pkt.qdcount

\* The condition of both loops: valid && i != header.questionsCount.
LoopContinues == valid /\ i # pkt.qdcount

(* One iteration of the first loop: ReadHostname, stream >> footer; a      *)
(* failed stream (the question is not in the datagram) or an invalid       *)
(* footer clears valid, otherwise Add..Answer for a question for me.       *)
ReadQuestion ==
    /\ pc = "answers"
    /\ LoopContinues
    /\ i' = i + 1
    /\ IF i + 1 > Len(Q) \/ ~IsFooterValid(Q[i + 1])
       THEN /\ valid' = FALSE
            /\ UNCHANGED <<answersCount, body>>
       ELSE /\ body' = body \o AnswerRecords(Q[i + 1])
            /\ answersCount' = answersCount + Len(AnswerRecords(Q[i + 1]))
            /\ UNCHANGED valid
    /\ UNCHANGED <<pkt, pc, answer, additionalRecordsCount, header>>

\* Mutant: the second loop starts with the counter of the first.
RewindKeepingCounter ==
    /\ pc = "answers"
    /\ ~LoopContinues
    /\ pc' = "additional"
    /\ UNCHANGED <<pkt, i, valid, answer, answersCount, additionalRecordsCount, header, body>>

(* The first loop ends; reader.Rewind(startOfQuestions). *)
RewindToQuestions ==
    /\ pc = "answers"
    /\ ~LoopContinues
    /\ pc' = "additional"
    /\ i' = 0
    /\ UNCHANGED <<pkt, valid, answer, answersCount, additionalRecordsCount, header, body>>

(* One iteration of the second loop: a PTR question for me adds TXT, SRV,  *)
(* A and AAAA as additional records, an SRV question A and AAAA.           *)
ReadQuestionForAdditionalRecords ==
    /\ pc = "additional"
    /\ LoopContinues
    /\ i' = i + 1
    /\ body' = body \o AdditionalRecords(Q[i + 1])
    /\ additionalRecordsCount' = additionalRecordsCount + Len(AdditionalRecords(Q[i + 1]))
    /\ UNCHANGED <<pkt, pc, valid, answer, answersCount, header>>

\* Mutant: the answer is kept when a question was invalid.
EndCreateAnswerKeepingAnswer ==
    /\ pc = "additional"
    /\ ~LoopContinues
    /\ pc' = "finish"
    /\ UNCHANGED <<pkt, i, valid, answer, answersCount, additionalRecordsCount, header, body>>

(* The second loop ends; if (!valid) answer = infra::none. *)
EndCreateAnswer ==
    /\ pc = "additional"
    /\ ~LoopContinues
    /\ answer' = (answer /\ valid)
    /\ pc' = "finish"
    /\ UNCHANGED <<pkt, i, valid, answersCount, additionalRecordsCount, header, body>>

\* Mutant: Finish leaves the provisional header in place.
FinishWithoutPatch ==
    /\ pc = "finish"
    /\ pc' = "done"
    /\ UNCHANGED <<pkt, i, valid, answer, answersCount, additionalRecordsCount, header, body>>

(* if (answer != none) answer->Finish(): the header at startMarker is      *)
(* overwritten with the counts, narrowed to the 16-bit header fields.      *)
Finish ==
    /\ pc = "finish"
    /\ IF answer
       THEN header' = [ancount |-> U16(answersCount),
                       arcount |-> U16(additionalRecordsCount)]
       ELSE UNCHANGED header
    /\ pc' = "done"
    /\ UNCHANGED <<pkt, i, valid, answer, answersCount, additionalRecordsCount, body>>

\* The parse has ended; the constructor returns.
Terminated == pc = "done" /\ UNCHANGED vars

Next ==
    \/ ReadHeader
    \/ ReadQuestion
    \/ RewindToQuestions
    \/ ReadQuestionForAdditionalRecords
    \/ EndCreateAnswer
    \/ Finish
    \/ Terminated

Spec == Init /\ [][Next]_vars

-----------------------------------------------------------------------------
(***************************************************************************)
(* Properties.                                                             *)
(***************************************************************************)
\* The records s are an answer records followed by ar additional records.
Framed(s, an, ar) ==
    /\ Len(s) = an + ar
    /\ \A k \in 1..Len(s) : s[k].section = IF k <= an THEN "answer" ELSE "additional"

(* A reply the parser completes is framed as DNS requires: the header's    *)
(* answer count of records are answers, followed by its additional-records *)
(* count of additional records, and nothing else.  This is why            *)
(* CreateAnswer runs two sub-passes and Finish patches the header after    *)
(* both.                                                                   *)
WellFramedReply ==
    pc = "done" /\ answer => Framed(body, header.ancount, header.arcount)

(* The inductive invariant behind WellFramedReply: the body is framed by   *)
(* the two counters at every step, no additional record is written before  *)
(* the second loop, each question adds at most one answer and four         *)
(* additional records (so the 16-bit narrowing in Finish loses nothing),   *)
(* and a finished reply's header holds the counters.                       *)
ParserInv ==
    /\ ParserTypeOK
    /\ i <= pkt.qdcount
    /\ Framed(body, answersCount, additionalRecordsCount)
    /\ answersCount <= pkt.qdcount
    /\ additionalRecordsCount <= 4 * pkt.qdcount
    /\ pc = "header" => answersCount = 0 /\ ~answer
    /\ pc \in {"header", "answers"} => additionalRecordsCount = 0
    /\ pc = "answers" => answersCount <= i
    /\ pc = "additional" => additionalRecordsCount <= 4 * i
    /\ pc = "done" /\ answer =>
          header = [ancount |-> U16(answersCount), arcount |-> U16(additionalRecordsCount)]

(* The stepwise loops compute what the one-step Plan used by the server    *)
(* model says: same validity, same records in the same order, same counts. *)
MatchesPlan ==
    pc = "done" =>
        Plan(pkt, TRUE) = [header |-> header # None, answer |-> answer, body |-> body,
                           ancount |-> answersCount, arcount |-> additionalRecordsCount]

(* A question that is not in the datagram, or whose footer is invalid,    *)
(* drops the whole answer, even when earlier questions already streamed    *)
(* records (valid = false, then answer = infra::none after the second      *)
(* loop): a reply the parser completes answers a datagram that holds every *)
(* question its header declares, each with a valid type and class.         *)
AnswersOnlyWholeQueries ==
    pc = "done" /\ answer =>
        /\ pkt.qdcount <= Len(Q)
        /\ \A k \in 1..pkt.qdcount : IsFooterValid(Q[k])

=============================================================================
