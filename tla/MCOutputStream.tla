---------------------------- MODULE MCOutputStream ----------------------------
(***************************************************************************)
(* A small instance of OutputStream: a four-byte buffer, one- and two-byte *)
(* data, one reserved two-byte field (a 16-bit count), and joins of up to  *)
(* two elements, empty ranges included.  Three operations fill the buffer  *)
(* exactly, overflow it, or leave a reservation short.                     *)
(***************************************************************************)
EXTENDS OutputStream

MCBytes == {"a", "b", ",", "0"}
MCChunks == {<<"a">>, <<"a", "b">>}
MCTextOf == [e \in {"e1", "e2"} |-> IF e = "e1" THEN <<"a">> ELSE <<"b">>]
MCSeparators == {<<",">>}
MCJoinRanges == UNION {[1..n -> {"e1", "e2"}] : n \in 0..2}

=============================================================================
