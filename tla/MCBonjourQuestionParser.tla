----------------------- MODULE MCBonjourQuestionParser -----------------------
(***************************************************************************)
(* A small instance of BonjourQuestionParser: one service "inst" of type   *)
(* "_http._tcp" with an IPv4 address and no IPv6 address (so both the      *)
(* configured and the unconfigured address branches are taken), and every  *)
(* datagram of up to two questions over five names, the six footer types   *)
(* and both classes, with every declared count from 0 to 2, plus one       *)
(* datagram for each way a header is rejected.                             *)
(***************************************************************************)
EXTENDS BonjourQuestionParser

MCAtoms == {"inst", "_http", "_tcp", "local", "x"}
MCAtomBytes == [a \in MCAtoms |-> CASE a = "inst" -> 4 [] a = "_http" -> 5
                                    [] a = "_tcp" -> 4 [] a = "local" -> 5 [] a = "x" -> 1]

\* Question names: the three names of the service, a foreign host, and a
\* name that extends the short instance name by one label.
MCNames == { <<<<"inst">>, <<"local">>>>,
             <<<<"inst">>, <<"_http">>, <<"_tcp">>, <<"local">>>>,
             <<<<"_http">>, <<"_tcp">>, <<"local">>>>,
             <<<<"x">>, <<"local">>>>,
             <<<<"inst">>, <<"local">>, <<"x">>>> }

Pkt(n, b) == [id |-> 1, complete |-> TRUE, opcode |-> "QUERY", qr |-> "query",
              qdcount |-> n, ancount |-> 0, nscount |-> 0, arcount |-> 0, questions |-> b]

PacketsOver(names) ==
    LET QS == Question(names)
        Bodies == {<<>>} \cup {<<q>> : q \in QS} \cup {<<q, r>> : q, r \in QS}
    IN  { Pkt(n, b) : n \in 0..MaxQuestions, b \in Bodies }

\* One datagram per rejection reason of IsValidQuestion, each with one
\* question that would otherwise be answered.
RejectedHeaders ==
    LET ok == Pkt(1, <<[name |-> <<<<"inst">>, <<"local">>>>, type |-> "A", class |-> "IN"]>>)
    IN  { [ok EXCEPT !.complete = FALSE], [ok EXCEPT !.opcode = "STATUS"],
          [ok EXCEPT !.qr = "response"], [ok EXCEPT !.ancount = 1],
          [ok EXCEPT !.nscount = 1], [ok EXCEPT !.arcount = 1] }

MCInstance == <<"inst">>
MCServiceName == <<"_http">>
MCType == <<"_tcp">>

MCPackets == PacketsOver(MCNames) \cup RejectedHeaders

=============================================================================
