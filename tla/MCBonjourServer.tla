--------------------------- MODULE MCBonjourServer ---------------------------
(***************************************************************************)
(* A small instance of BonjourServer: the service "inst" of type           *)
(* "_http._tcp" with an IPv4 and no IPv6 address, two transaction ids, and *)
(* datagrams that are answered with glue (PTR), answered without glue (A), *)
(* accepted but unanswerable (AAAA without an IPv6 address), not for this  *)
(* host, truncated, and not a query.  Four arrivals let a second query    *)
(* land while the first is pending, and two more after it.                  *)
(***************************************************************************)
EXTENDS BonjourServer

MCAtoms == {"inst", "_http", "_tcp", "local", "x"}
MCAtomBytes == [a \in MCAtoms |-> CASE a = "inst" -> 4 [] a = "_http" -> 5
                                    [] a = "_tcp" -> 4 [] a = "local" -> 5 [] a = "x" -> 1]
MCInstance == <<"inst">>
MCServiceName == <<"_http">>
MCType == <<"_tcp">>

Short == <<<<"inst">>, <<"local">>>>
Service == <<<<"_http">>, <<"_tcp">>, <<"local">>>>
Foreign == <<<<"x">>, <<"local">>>>
MCNames == {Short, Service, Foreign}

Q(name, type) == [name |-> name, type |-> type, class |-> "IN"]
Pkt(id, qr, n, qs) == [id |-> id, complete |-> TRUE, opcode |-> "QUERY", qr |-> qr,
                       qdcount |-> n, ancount |-> 0, nscount |-> 0, arcount |-> 0,
                       questions |-> qs]

MCPackets ==
    { Pkt(1, "query", 1, <<Q(Service, "PTR")>>),
      Pkt(2, "query", 1, <<Q(Short, "A")>>),
      Pkt(2, "query", 1, <<Q(Short, "AAAA")>>),
      Pkt(1, "query", 1, <<Q(Foreign, "A")>>),
      Pkt(2, "query", 2, <<Q(Service, "PTR")>>),
      Pkt(1, "response", 1, <<Q(Short, "A")>>) }

=============================================================================
