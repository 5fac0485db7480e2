---------------------------- MODULE OutputStream ----------------------------
(***************************************************************************)
(* An infra output stream (src/infra/stream/OutputStream.hpp) over a       *)
(* writer with a fixed buffer, as the responder's Answer builder uses it:  *)
(* construction with an error policy (WithWriter, WithErrorPolicy), data   *)
(* streamed with DataOutputStream::operator<<, a reserved field patched    *)
(* later through a ReservedProxy, and a range of elements joined with a    *)
(* separator (Join, JoinHelper) on the text view of the same writer, one  *)
(* insert (an element's text or the separator) at a time.                  *)
(*                                                                         *)
(* The writer and the error policy are not in src/.  Following the design  *)
(* notes (a bounded sink with a "reserve-then-patch" capability), the      *)
(* writer appends what fits into its buffer and reports to the policy      *)
(* whether the whole range fitted; the policy aborts (the default, an      *)
(* assertion), records the failure (softFail) or ignores it (noFail).      *)
(*                                                                         *)
(* Data abstraction: a byte is a member of Bytes; a streamed value is the  *)
(* sequence of its bytes.  ideal is a history variable: what a writer of   *)
(* unbounded capacity would hold after the same calls.                     *)
(***************************************************************************)
EXTENDS Naturals, Sequences, SequencesExt

CONSTANTS
    Capacity,     \* the size of the writer's buffer
    Bytes,        \* byte values
    Zero,         \* the bytes a reservation holds until it is patched
    Chunks,       \* values streamed with operator<< or assigned to a proxy
    Sizes,        \* sizeof(T) of the types that are reserved
    ProxyIds,     \* the ReservedProxy objects of a behaviour
    Elements,     \* elements of a joined range
    TextOf,       \* TextOf[e]: the text the conversion function streams for e
    Separators,   \* the separator strings of Join
    JoinRanges,   \* the ranges (sequences of Elements) that are joined
    MaxOps        \* how many stream operations a behaviour performs

ASSUME StreamAssumption ==
    /\ Capacity \in Nat
    /\ Zero \in Bytes
    /\ Chunks \subseteq Seq(Bytes)
    /\ Sizes \subseteq Nat
    /\ TextOf \in [Elements -> Seq(Bytes)]
    /\ Separators \subseteq Seq(Bytes)
    /\ JoinRanges \subseteq Seq(Elements)
    /\ MaxOps \in Nat

FailureModes == {"assertion", "soft", "noFail"}
NoProxy == [none |-> "none"]
NoJoin == [none |-> "join"]

VARIABLES
    policy,    \* the failure mode of the stream's StreamErrorPolicy
    buffer,    \* the bytes in the writer's buffer
    failed,    \* the soft policy recorded a failure (OutputStream::Failed)
    aborted,   \* the assertion policy stopped the program
    proxies,   \* NoProxy, or a ReservedProxy: its range in the buffer
               \* (start marker, length), sizeof(T), and its place in ideal
    ideal,     \* history: the stream an unbounded writer would hold
    join,      \* NoJoin, or the last Join streamed: its separator and range,
               \* the elements the loop has not converted yet, whether the
               \* separator comes next, and (history) where in ideal its
               \* text starts and ends
    ops        \* stream operations so far (bounded by MaxOps)

vars == <<policy, buffer, failed, aborted, proxies, ideal, join, ops>>

Proxy == [start : Nat, len : Nat, size : Nat, at : Nat]
JoinState == [sep : Seq(Bytes), range : Seq(Elements), rest : Seq(Elements),
              sepNext : BOOLEAN, from : Nat, to : Nat]

(* The constructors of DataOutputStream::WithWriter and ::WithErrorPolicy, *)
(* and of their TextOutputStream twins: without a tag the StreamErrorPolicy *)
(* member is default-constructed, a SoftFail or NoFail tag selects softFail *)
(* or noFail.                                                              *)
ErrorPolicyOf == [default |-> "assertion", softFail |-> "soft", noFail |-> "noFail"]

(* OutputStream::Failed, SaveMarker and Available ask the policy and the   *)
(* writer.                                                                 *)
Failed == failed
SaveMarker == Len(buffer)
Available == Capacity - Len(buffer)

Zeros(n) == [i \in 1..n |-> Zero]

(* Copy(data, range): the bytes of v replace those after marker m.        *)
Patch(s, m, v) == [i \in DOMAIN s |-> IF m < i /\ i <= m + Len(v) THEN v[i - m] ELSE s[i]]

(* StreamErrorPolicy::ReportResult(ok).                                    *)
ReportResult(ok) ==
    /\ failed' = (failed \/ (~ok /\ policy = "soft"))
    /\ aborted' = (~ok /\ policy = "assertion")

\* Mutant: the writer does not clip the range to its buffer.
InsertUnclipped(range) ==
    /\ buffer' = buffer \o range
    /\ ReportResult(Len(range) <= Available)

(* StreamWriter::Insert(range, errorPolicy) of a writer with a fixed       *)
(* buffer: it takes the bytes that fit and reports whether all did.        *)
Insert(range) ==
    LET n == IF Len(range) <= Available THEN Len(range) ELSE Available
    IN  /\ buffer' = buffer \o SubSeq(range, 1, n)
        /\ ReportResult(Len(range) <= Available)

(* The conversion function of a JoinHelper: the caller's, or in            *)
(* Join(string, range) the default "stream << obj".                        *)
Conversion(e) == TextOf[e]

(* What a join is meant to produce: the elements' texts with the           *)
(* separator between every two neighbours.                                 *)
JoinReference(sep, s) ==
    FlattenSeq([i \in 1..(2 * Len(s) - 1) |->
                    IF i % 2 = 1 THEN Conversion(s[(i + 1) \div 2]) ELSE sep])

StreamTypeOK ==
    /\ policy \in FailureModes
    /\ buffer \in Seq(Bytes) /\ Len(buffer) <= Capacity
    /\ failed \in BOOLEAN /\ aborted \in BOOLEAN
    /\ proxies \in [ProxyIds -> Proxy \cup {NoProxy}]
    /\ ideal \in Seq(Bytes)
    /\ join \in JoinState \cup {NoJoin}
    /\ ops \in 0..MaxOps

(* DataOutputStream::WithWriter / ::WithErrorPolicy constructed with the   *)
(* tag c: the writer's buffer is empty, the policy has not failed.         *)
Init ==
    /\ \E c \in DOMAIN ErrorPolicyOf : policy = ErrorPolicyOf[c]
    /\ buffer = <<>>
    /\ failed = FALSE
    /\ aborted = FALSE
    /\ proxies = [p \in ProxyIds |-> NoProxy]
    /\ ideal = <<>>
    /\ join = NoJoin
    /\ ops = 0

(* The loop of a Join is running: the stream's owner is inside operator<<. *)
Joining == join # NoJoin /\ (join.rest # <<>> \/ join.sepNext)

(* A new call on the stream: the program has not stopped, no Join is       *)
(* running, and the bound on calls is not reached.                         *)
Live == ~aborted /\ ~Joining /\ ops < MaxOps /\ ops' = ops + 1

(* DataOutputStream::operator<<(const Data&) and (MemoryRange<Data>): the  *)
(* bytes of the data are inserted with the stream's error policy.          *)
StreamData(d) ==
    /\ Live
    /\ Insert(d)
    /\ ideal' = ideal \o d
    /\ UNCHANGED <<policy, proxies, join>>

\* Mutant: the proxy's range starts at the marker after the placeholders.
ReserveMarkerAfterInsert(p, size) ==
    /\ Live
    /\ proxies[p] = NoProxy
    /\ Insert(Zeros(size))
    /\ proxies' = [proxies EXCEPT ![p] =
                      [start |-> Len(buffer'),
                       len |-> IF size <= Available THEN size ELSE Available,
                       size |-> size, at |-> Len(ideal)]]
    /\ ideal' = ideal \o Zeros(size)
    /\ UNCHANGED <<policy, join>>

(* Reserving a T: its sizeof(T) bytes are streamed as placeholders at the  *)
(* save marker, and the ReservedProxy(range) is given the range the writer *)
(* actually holds from that marker, which is short if the buffer filled.   *)
Reserve(p, size) ==
    /\ Live
    /\ proxies[p] = NoProxy
    /\ Insert(Zeros(size))
    /\ proxies' = [proxies EXCEPT ![p] =
                      [start |-> SaveMarker,
                       len |-> IF size <= Available THEN size ELSE Available,
                       size |-> size, at |-> Len(ideal)]]
    /\ ideal' = ideal \o Zeros(size)
    /\ UNCHANGED <<policy, join>>

\* Mutant: the size check of operator= compares the wrong way round.
AssignProxyWrongSizeCheck(p, v) ==
    /\ Live
    /\ proxies[p] # NoProxy
    /\ Len(v) = proxies[p].size
    /\ buffer' = IF proxies[p].len < Len(v)
                 THEN Patch(buffer, proxies[p].start, v)
                 ELSE buffer
    /\ ideal' = Patch(ideal, proxies[p].at, v)
    /\ UNCHANGED <<policy, failed, aborted, proxies, join>>

(* ReservedProxy<T>::operator=(const T& data): the data is copied into the *)
(* reserved range only if the range has exactly sizeof(data) bytes;        *)
(* otherwise the assignment does nothing, and reports nothing.             *)
AssignProxy(p, v) ==
    /\ Live
    /\ proxies[p] # NoProxy
    /\ Len(v) = proxies[p].size
    /\ buffer' = IF proxies[p].len = Len(v)
                 THEN Patch(buffer, proxies[p].start, v)
                 ELSE buffer
    /\ ideal' = Patch(ideal, proxies[p].at, v)
    /\ UNCHANGED <<policy, failed, aborted, proxies, join>>

(* stream << infra::text << Join(sep, range): operator<< of the JoinHelper *)
(* starts its loop; an empty range writes nothing and the call is over.    *)
(* The text view shares the writer and the policy.                         *)
StreamJoin(sep, s) ==
    /\ Live
    /\ join' = [sep |-> sep, range |-> s, rest |-> s, sepNext |-> FALSE,
                from |-> Len(ideal), to |-> Len(ideal)]
    /\ UNCHANGED <<policy, buffer, failed, aborted, proxies, ideal>>

\* Mutant: every element is followed by the separator, the last one too.
JoinElementTrailingSeparator ==
    /\ Joining /\ ~aborted
    /\ ~join.sepNext
    /\ Insert(Conversion(Head(join.rest)))
    /\ ideal' = ideal \o Conversion(Head(join.rest))
    /\ join' = [join EXCEPT !.rest = Tail(join.rest), !.sepNext = TRUE,
                            !.to = Len(ideal')]
    /\ UNCHANGED <<policy, proxies, ops>>

(* One element of the loop: conversionFunction(stream, obj) for the        *)
(* elements of DiscardTail(range, 1), each followed by the separator, and  *)
(* at last for range.back(), after which the call is over.                 *)
JoinElement ==
    /\ Joining /\ ~aborted
    /\ ~join.sepNext
    /\ Insert(Conversion(Head(join.rest)))
    /\ ideal' = ideal \o Conversion(Head(join.rest))
    /\ join' = [join EXCEPT !.rest = Tail(join.rest), !.sepNext = Len(join.rest) > 1,
                            !.to = Len(ideal')]
    /\ UNCHANGED <<policy, proxies, ops>>

(* stream << joinHelper.string, after an element that is not the last.     *)
JoinSeparator ==
    /\ Joining /\ ~aborted
    /\ join.sepNext
    /\ Insert(join.sep)
    /\ ideal' = ideal \o join.sep
    /\ join' = [join EXCEPT !.sepNext = FALSE, !.to = Len(ideal')]
    /\ UNCHANGED <<policy, proxies, ops>>

Next ==
    \/ \E d \in Chunks : StreamData(d)
    \/ \E p \in ProxyIds, size \in Sizes : Reserve(p, size)
    \/ \E p \in ProxyIds, v \in Chunks : AssignProxy(p, v)
    \/ \E sep \in Separators, s \in JoinRanges : StreamJoin(sep, s)
    \/ JoinElement
    \/ JoinSeparator

Spec == Init /\ [][Next]_vars

-----------------------------------------------------------------------------
(***************************************************************************)
(* Properties.                                                             *)
(***************************************************************************)
Reported == failed \/ aborted

(* A stream whose policy reports failures (the default assertion or       *)
(* SoftFail) and that has reported none holds exactly what its callers     *)
(* streamed, every ReservedProxy assignment included.  So on such a stream *)
(* every reservation got its whole sizeof(T) range and the size check of   *)
(* operator= (OutputStream.hpp:512) copied every assignment: the silent    *)
(* no-op of a short range happens only after the insert that cut it short  *)
(* was reported.                                                           *)
UnreportedLossFree ==
    policy # "noFail" /\ ~Reported => buffer = ideal

(* The text a finished Join wrote is the elements' texts with the          *)
(* separator between every two neighbours and nowhere else: nothing for an *)
(* empty range, no separator after the last element (the loop over        *)
(* DiscardTail(range, 1), then range.back()).                              *)
JoinWritesReference ==
    join # NoJoin /\ ~Joining =>
        SubSeq(ideal, join.from + 1, join.to) = JoinReference(join.sep, join.range)

(* Position i of the buffer lies in the range of a reservation that the    *)
(* buffer cut short, so the reservation still holds placeholders there.    *)
InShortReservation(i) ==
    \E p \in ProxyIds :
        /\ proxies[p] # NoProxy
        /\ proxies[p].len < proxies[p].size
        /\ proxies[p].start < i /\ i <= proxies[p].start + proxies[p].len

(* Whatever the policy, NoFail included (OutputStream.hpp:422), the buffer *)
(* holds a prefix of what was streamed, every patched field included, but  *)
(* for the placeholder bytes of a reservation the buffer cut short, whose  *)
(* assignment ReservedProxy::operator= silently skips.                     *)
TruncatedPrefix ==
    /\ Len(buffer) <= Len(ideal)
    /\ \A i \in 1..Len(buffer) : buffer[i] # ideal[i] => InShortReservation(i)

====
