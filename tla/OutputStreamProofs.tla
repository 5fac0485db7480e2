-------------------------- MODULE OutputStreamProofs --------------------------
(***************************************************************************)
(* Proofs about the output stream (OutputStream): for every buffer size,   *)
(* every set of chunks, reserved sizes, elements and separators, the       *)
(* writer never holds more than its buffer, a stream whose policy reports  *)
(* failures and has reported none holds exactly what was streamed (every   *)
(* reserved field patched), and under every policy the buffer is a prefix  *)
(* of what was streamed but for the placeholders of short reservations.    *)
(* What a Join writes, compared with JoinReference (FlattenSeq), is an     *)
(* induction over the range and stays with TLC (JoinWritesReference).      *)
(***************************************************************************)
EXTENDS OutputStream, SequenceTheorems, TLAPS

(***************************************************************************)
(* Lemmas about the operators of the model.                                *)
(***************************************************************************)

(* The placeholders of a reservation are bytes.                            *)
LEMMA ZerosType ==
    ASSUME NEW n \in Nat
    PROVE  Zeros(n) \in Seq(Bytes) /\ Len(Zeros(n)) = n
BY StreamAssumption DEF Zeros

(* Copying v over the bytes after marker m keeps a sequence of bytes and   *)
(* its length.                                                             *)
LEMMA PatchType ==
    ASSUME NEW s \in Seq(Bytes), NEW m \in Nat, NEW v \in Seq(Bytes)
    PROVE  Patch(s, m, v) \in Seq(Bytes) /\ Len(Patch(s, m, v)) = Len(s)
<1>1. \A i \in 1..Len(s) : (m < i /\ i <= m + Len(v)) => i - m \in 1..Len(v)
  OBVIOUS
<1>2. Patch(s, m, v) = [i \in 1..Len(s) |-> IF m < i /\ i <= m + Len(v) THEN v[i - m] ELSE s[i]]
  BY DEF Patch
<1>. QED
  BY <1>1, <1>2

(* What an insert of a range of bytes does to the buffer: it appends the   *)
(* part that fits, all of it exactly when it fits, never past Capacity.    *)
LEMMA InsertBuffer ==
    ASSUME NEW r \in Seq(Bytes), buffer \in Seq(Bytes), Len(buffer) <= Capacity,
           Insert(r)
    PROVE  /\ buffer' \in Seq(Bytes)
           /\ Len(buffer') <= Capacity
           /\ Len(r) <= Available => buffer' = buffer \o r
<1>1. Capacity \in Nat
  BY StreamAssumption
<1> DEFINE n == IF Len(r) <= Available THEN Len(r) ELSE Available
<1>2. n \in 0..Len(r) /\ Len(buffer) + n <= Capacity
  BY <1>1 DEF Available
<1>3. buffer' = buffer \o SubSeq(r, 1, n)
  BY DEF Insert, Available
<1>4. SubSeq(r, 1, n) \in Seq(Bytes) /\ Len(SubSeq(r, 1, n)) = n
  BY <1>2
<1>5. Len(r) <= Available => SubSeq(r, 1, n) = r
  BY <1>2
<1>. QED
  BY <1>2, <1>3, <1>4, <1>5

(* What an insert reports.                                                 *)
LEMMA InsertReport ==
    ASSUME NEW r, Insert(r)
    PROVE  /\ failed' = (failed \/ (~(Len(r) <= Available) /\ policy = "soft"))
           /\ aborted' = (~(Len(r) <= Available) /\ policy = "assertion")
BY DEF Insert, ReportResult

-----------------------------------------------------------------------------
(***************************************************************************)
(* Type correctness.                                                       *)
(***************************************************************************)
LEMMA InitType == Init => StreamTypeOK
<1>. SUFFICES ASSUME Init PROVE StreamTypeOK
  OBVIOUS
<1>1. policy \in FailureModes
  <2>1. PICK c \in DOMAIN ErrorPolicyOf : policy = ErrorPolicyOf[c]
    BY DEF Init
  <2>2. c \in {"default", "softFail", "noFail"}
    BY DEF ErrorPolicyOf
  <2>. QED
    BY <2>1, <2>2 DEF ErrorPolicyOf, FailureModes
<1>2. ops \in 0..MaxOps
  BY StreamAssumption DEF Init
<1>3. /\ buffer = <<>> /\ failed = FALSE /\ aborted = FALSE
      /\ proxies = [p \in ProxyIds |-> NoProxy] /\ ideal = <<>> /\ join = NoJoin
  BY DEF Init
<1>4. Capacity \in Nat
  BY StreamAssumption
<1>5. buffer \in Seq(Bytes) /\ Len(buffer) <= Capacity
  BY <1>3, <1>4
<1>6. proxies \in [ProxyIds -> Proxy \cup {NoProxy}]
  BY <1>3
<1>7. join \in JoinState \cup {NoJoin} /\ ideal \in Seq(Bytes)
  BY <1>3
<1>8. failed \in BOOLEAN /\ aborted \in BOOLEAN
  BY <1>3
<1>. QED
  BY <1>1, <1>2, <1>5, <1>6, <1>7, <1>8 DEF StreamTypeOK

(* The bytes an insert of a running Join takes come from the element's     *)
(* text or from the separator.                                             *)
LEMMA JoinPieceType ==
    ASSUME StreamTypeOK, Joining
    PROVE  /\ ~join.sepNext => Conversion(Head(join.rest)) \in Seq(Bytes)
           /\ join.sep \in Seq(Bytes)
<1>1. join \in JoinState
  BY DEF StreamTypeOK, Joining
<1>2. ~join.sepNext => join.rest # <<>>
  BY DEF Joining
<1>. QED
  BY <1>1, <1>2, StreamAssumption DEF JoinState, Conversion

LEMMA NextType == StreamTypeOK /\ [Next]_vars => StreamTypeOK'
<1>. SUFFICES ASSUME StreamTypeOK, [Next]_vars PROVE StreamTypeOK'
  OBVIOUS
<1>. USE StreamAssumption
<1>1. ASSUME NEW d \in Chunks, StreamData(d) PROVE StreamTypeOK'
  <2>1. buffer' \in Seq(Bytes) /\ Len(buffer') <= Capacity
    BY <1>1, InsertBuffer DEF StreamData, StreamTypeOK
  <2>2. failed' \in BOOLEAN /\ aborted' \in BOOLEAN
    BY <1>1, InsertReport DEF StreamData
  <2>. QED
    BY <1>1, <2>1, <2>2 DEF StreamData, Live, StreamTypeOK
<1>2. ASSUME NEW p \in ProxyIds, NEW size \in Sizes, Reserve(p, size)
      PROVE  StreamTypeOK'
  <2>1. Zeros(size) \in Seq(Bytes)
    BY ZerosType
  <2>2. buffer' \in Seq(Bytes) /\ Len(buffer') <= Capacity
    BY <1>2, <2>1, InsertBuffer DEF Reserve, StreamTypeOK
  <2>3. failed' \in BOOLEAN /\ aborted' \in BOOLEAN
    BY <1>2, InsertReport DEF Reserve
  <2>4. proxies' \in [ProxyIds -> Proxy \cup {NoProxy}]
    BY <1>2 DEF Reserve, StreamTypeOK, Proxy, Available, SaveMarker
  <2>. QED
    BY <1>2, <2>1, <2>2, <2>3, <2>4 DEF Reserve, Live, StreamTypeOK
<1>3. ASSUME NEW p \in ProxyIds, NEW v \in Chunks, AssignProxy(p, v)
      PROVE  StreamTypeOK'
  <2>1. proxies[p] \in Proxy
    BY <1>3 DEF AssignProxy, StreamTypeOK
  <2>2. buffer' \in Seq(Bytes) /\ Len(buffer') = Len(buffer)
    BY <1>3, <2>1, PatchType DEF AssignProxy, StreamTypeOK, Proxy
  <2>3. ideal' \in Seq(Bytes)
    BY <1>3, <2>1, PatchType DEF AssignProxy, StreamTypeOK, Proxy
  <2>. QED
    BY <1>3, <2>2, <2>3 DEF AssignProxy, Live, StreamTypeOK
<1>4. ASSUME NEW sep \in Separators, NEW s \in JoinRanges, StreamJoin(sep, s)
      PROVE  StreamTypeOK'
  BY <1>4 DEF StreamJoin, Live, StreamTypeOK, JoinState
<1>5. CASE JoinElement
  <2>1. Conversion(Head(join.rest)) \in Seq(Bytes)
    BY <1>5, JoinPieceType DEF JoinElement
  <2>2. buffer' \in Seq(Bytes) /\ Len(buffer') <= Capacity
    BY <1>5, <2>1, InsertBuffer DEF JoinElement, StreamTypeOK
  <2>3. failed' \in BOOLEAN /\ aborted' \in BOOLEAN
    BY <1>5, InsertReport DEF JoinElement
  <2>4. join \in JoinState /\ join.rest # <<>>
    BY <1>5 DEF JoinElement, Joining, StreamTypeOK
  <2>5. ideal' \in Seq(Bytes)
    BY <1>5, <2>1 DEF JoinElement, StreamTypeOK
  <2>6. Tail(join.rest) \in Seq(Elements)
    BY <2>4 DEF JoinState
  <2>7. join' = [sep |-> join.sep, range |-> join.range, rest |-> Tail(join.rest),
                 sepNext |-> Len(join.rest) > 1, from |-> join.from, to |-> Len(ideal')]
    BY <1>5, <2>4 DEF JoinElement, JoinState
  <2>8. join' \in JoinState
    BY <2>4, <2>5, <2>6, <2>7 DEF JoinState
  <2>. QED
    BY <1>5, <2>2, <2>3, <2>5, <2>8 DEF JoinElement, StreamTypeOK
<1>6. CASE JoinSeparator
  <2>1. join.sep \in Seq(Bytes)
    BY <1>6, JoinPieceType DEF JoinSeparator
  <2>2. buffer' \in Seq(Bytes) /\ Len(buffer') <= Capacity
    BY <1>6, <2>1, InsertBuffer DEF JoinSeparator, StreamTypeOK
  <2>3. failed' \in BOOLEAN /\ aborted' \in BOOLEAN
    BY <1>6, InsertReport DEF JoinSeparator
  <2>4. ideal' \in Seq(Bytes)
    BY <1>6, <2>1 DEF JoinSeparator, StreamTypeOK
  <2>5. join \in JoinState
    BY <1>6 DEF JoinSeparator, Joining, StreamTypeOK
  <2>6. join' = [sep |-> join.sep, range |-> join.range, rest |-> join.rest,
                 sepNext |-> FALSE, from |-> join.from, to |-> Len(ideal')]
    BY <1>6, <2>5 DEF JoinSeparator, JoinState
  <2>7. join' \in JoinState
    BY <2>4, <2>5, <2>6 DEF JoinState
  <2>. QED
    BY <1>6, <2>2, <2>3, <2>4, <2>7 DEF JoinSeparator, StreamTypeOK
<1>7. CASE UNCHANGED vars
  BY <1>7 DEF vars, StreamTypeOK
<1>. QED
  BY <1>1, <1>2, <1>3, <1>4, <1>5, <1>6, <1>7 DEF Next

(* For every buffer size and every set of chunks, reserved sizes, elements *)
(* and separators, the stream's variables keep their types: in particular *)
(* the writer never holds more than Capacity bytes, however much is        *)
(* streamed (StreamWriter::Insert into a fixed buffer).                    *)
THEOREM TypeCorrect == Spec => []StreamTypeOK
BY InitType, NextType, PTL DEF Spec

-----------------------------------------------------------------------------
(***************************************************************************)
(* The stream's safety invariants.  UnreportedLossFree is not inductive:   *)
(* a reservation patched later must lie where its placeholders were        *)
(* streamed, and with the number of bytes its type has, or the assignment  *)
(* would write elsewhere or nowhere; and the failure flags must match the  *)
(* policy that can set them.                                               *)
(***************************************************************************)

(* Every live ReservedProxy of a stream that holds what was streamed sits  *)
(* at its place in ideal and spans all of its sizeof(T) bytes.            *)
ProxiesInPlace ==
    \A p \in ProxyIds : proxies[p] # NoProxy =>
        proxies[p].start = proxies[p].at /\ proxies[p].len = proxies[p].size

(* The failure flags record overflow: a policy that reports failures has  *)
(* reported one exactly when what was streamed outgrew the buffer.         *)
ReportedIffOverflow ==
    policy # "noFail" => (Reported <=> Len(ideal) > Capacity)

StreamInv ==
    /\ StreamTypeOK
    /\ policy # "soft" => ~failed
    /\ policy = "soft" => ~aborted
    /\ policy # "noFail" /\ ~Reported => buffer = ideal /\ ProxiesInPlace
    /\ ReportedIffOverflow

(* One insert of a range r that the ideal stream also takes: the failure   *)
(* flags still match the policy, failure is reported exactly when ideal    *)
(* outgrows the buffer, and a stream that reports nothing afterwards       *)
(* reported nothing before and took all of r.                              *)
LEMMA InsertStep ==
    ASSUME StreamInv, ~aborted, NEW r \in Seq(Bytes), Insert(r),
           ideal' = ideal \o r, policy' = policy
    PROVE  /\ policy' # "soft" => ~failed'
           /\ policy' = "soft" => ~aborted'
           /\ ReportedIffOverflow'
           /\ policy' # "noFail" /\ ~Reported' =>
                  /\ ~Reported /\ Len(r) <= Available
                  /\ buffer = ideal /\ buffer' = ideal'
<1>1. /\ failed' = (failed \/ (~(Len(r) <= Available) /\ policy = "soft"))
      /\ aborted' = (~(Len(r) <= Available) /\ policy = "assertion")
  BY InsertReport
<1>2. /\ Capacity \in Nat
      /\ buffer \in Seq(Bytes) /\ Len(buffer) <= Capacity
      /\ ideal \in Seq(Bytes)
      /\ policy \in FailureModes
  BY StreamAssumption DEF StreamInv, StreamTypeOK
<1>3. Len(r) <= Available => buffer' = buffer \o r
  BY <1>2, InsertBuffer
<1>4. Len(ideal') = Len(ideal) + Len(r)
  BY <1>2
<1>11. Len(ideal) <= Capacity /\ buffer = ideal =>
         (Len(r) <= Available <=> ~(Len(ideal') > Capacity))
  BY <1>2, <1>4 DEF Available
<1>5. policy # "noFail" /\ ~Reported => buffer = ideal
  BY DEF StreamInv
<1>6. policy # "noFail" => (Reported <=> Len(ideal) > Capacity)
  BY DEF StreamInv, ReportedIffOverflow
<1>7. /\ policy # "soft" => ~failed
      /\ policy = "soft" => ~aborted
  BY DEF StreamInv
<1>8. CASE policy = "noFail"
  BY <1>1, <1>7, <1>8 DEF ReportedIffOverflow
<1>9. CASE policy = "soft"
  <2>1. ~aborted' /\ (Reported' <=> failed')
    BY <1>1, <1>9 DEF Reported
  <2>2. CASE failed
    <3>1. Len(ideal) > Capacity
      BY <1>6, <1>9, <2>2 DEF Reported
    <3>2. Len(ideal') > Capacity
      BY <3>1, <1>2, <1>4
    <3>3. failed'
      BY <1>1, <2>2
    <3>. QED
      BY <2>1, <3>2, <3>3, <1>9 DEF ReportedIffOverflow
  <2>3. CASE ~failed
    <3>1. buffer = ideal /\ Len(ideal) <= Capacity
      BY <1>2, <1>5, <1>9, <2>3 DEF Reported
    <3>2. failed' = ~(Len(r) <= Available)
      BY <1>1, <1>9, <2>3
    <3>3. failed' <=> Len(ideal') > Capacity
      BY <3>1, <3>2, <1>11
    <3>. QED
      BY <1>1, <1>3, <1>9, <2>1, <2>3, <3>1, <3>3 DEF ReportedIffOverflow, Reported
  <2>. QED
    BY <2>2, <2>3
<1>10. CASE policy = "assertion"
  <2>1. ~failed' /\ ~failed /\ ~Reported
    BY <1>1, <1>7, <1>10 DEF Reported
  <2>2. buffer = ideal /\ Len(ideal) <= Capacity
    BY <1>2, <1>5, <1>10, <2>1
  <2>3. aborted' <=> Len(ideal') > Capacity
    <3>1. aborted' = ~(Len(r) <= Available)
      BY <1>1, <1>10
    <3>. QED
      BY <2>2, <3>1, <1>11
  <2>. QED
    BY <1>1, <1>3, <1>10, <2>1, <2>2, <2>3 DEF ReportedIffOverflow, Reported
<1>. QED
  BY <1>2, <1>8, <1>9, <1>10 DEF FailureModes

(* An insert that leaves the reservations alone keeps the invariant.       *)
LEMMA InsertKeepsInv ==
    ASSUME StreamInv, ~aborted, NEW r \in Seq(Bytes), Insert(r),
           ideal' = ideal \o r, policy' = policy, proxies' = proxies,
           StreamTypeOK'
    PROVE  StreamInv'
<1>1. /\ policy' # "soft" => ~failed'
      /\ policy' = "soft" => ~aborted'
      /\ ReportedIffOverflow'
      /\ policy' # "noFail" /\ ~Reported' =>
             /\ ~Reported /\ buffer = ideal /\ buffer' = ideal'
  BY InsertStep
<1>2. policy # "noFail" /\ ~Reported => ProxiesInPlace
  BY DEF StreamInv
<1>3. ProxiesInPlace' = ProxiesInPlace
  BY DEF ProxiesInPlace
<1>. QED
  BY <1>1, <1>2, <1>3 DEF StreamInv

LEMMA InitInv == Init => StreamInv
<1>. SUFFICES ASSUME Init PROVE StreamInv
  OBVIOUS
<1>1. StreamTypeOK
  BY InitType
<1>2. ~failed /\ ~aborted /\ buffer = ideal /\ ideal = <<>>
  BY DEF Init
<1>3. ProxiesInPlace
  BY DEF Init, ProxiesInPlace
<1>4. Capacity \in Nat
  BY StreamAssumption
<1>. QED
  BY <1>1, <1>2, <1>3, <1>4 DEF StreamInv, ReportedIffOverflow, Reported

LEMMA NextInv == StreamInv /\ [Next]_vars => StreamInv'
<1>. SUFFICES ASSUME StreamInv, [Next]_vars PROVE StreamInv'
  OBVIOUS
<1>0. StreamTypeOK'
  BY NextType DEF StreamInv
<1>. USE StreamAssumption
<1>1. ASSUME NEW d \in Chunks, StreamData(d) PROVE StreamInv'
  BY <1>0, <1>1, InsertKeepsInv DEF StreamData, Live
<1>2. ASSUME NEW p \in ProxyIds, NEW size \in Sizes, Reserve(p, size)
      PROVE  StreamInv'
  <2>1. Zeros(size) \in Seq(Bytes) /\ Len(Zeros(size)) = size
    BY ZerosType
  <2>2. /\ policy' # "soft" => ~failed'
        /\ policy' = "soft" => ~aborted'
        /\ ReportedIffOverflow'
        /\ policy' # "noFail" /\ ~Reported' =>
               /\ ~Reported /\ Len(Zeros(size)) <= Available
               /\ buffer = ideal /\ buffer' = ideal'
    BY <1>2, <2>1, InsertStep DEF Reserve, Live
  <2>3. ASSUME policy' # "noFail", ~Reported' PROVE ProxiesInPlace'
    <3>1. ProxiesInPlace /\ Len(buffer) = Len(ideal) /\ size <= Available
      BY <2>1, <2>2, <2>3, <1>2 DEF StreamInv, Reserve
    <3>2. proxies'[p] = [start |-> Len(buffer), len |-> size, size |-> size,
                         at |-> Len(ideal)]
      BY <1>2, <3>1 DEF Reserve, SaveMarker, StreamInv, StreamTypeOK
    <3>3. \A q \in ProxyIds \ {p} : proxies'[q] = proxies[q]
      BY <1>2 DEF Reserve, StreamInv, StreamTypeOK
    <3>. QED
      BY <3>1, <3>2, <3>3 DEF ProxiesInPlace
  <2>. QED
    BY <1>0, <2>2, <2>3 DEF StreamInv
<1>3. ASSUME NEW p \in ProxyIds, NEW v \in Chunks, AssignProxy(p, v)
      PROVE  StreamInv'
  <2>1. proxies[p] \in Proxy /\ ideal \in Seq(Bytes) /\ v \in Seq(Bytes)
    BY <1>3 DEF AssignProxy, StreamInv, StreamTypeOK
  <2>2. Len(ideal') = Len(ideal)
    BY <1>3, <2>1, PatchType DEF AssignProxy, Proxy
  <2>3. UNCHANGED <<policy, failed, aborted, proxies>>
    BY <1>3 DEF AssignProxy
  <2>4. ASSUME policy # "noFail", ~Reported PROVE buffer' = ideal'
    <3>1. buffer = ideal /\ proxies[p].start = proxies[p].at
          /\ proxies[p].len = Len(v)
      BY <1>3, <2>4 DEF StreamInv, ProxiesInPlace, AssignProxy
    <3>. QED
      BY <1>3, <3>1 DEF AssignProxy
  <2>. QED
    BY <1>0, <2>2, <2>3, <2>4
       DEF StreamInv, ReportedIffOverflow, Reported, ProxiesInPlace
<1>4. ASSUME NEW sep \in Separators, NEW s \in JoinRanges, StreamJoin(sep, s)
      PROVE  StreamInv'
  BY <1>0, <1>4 DEF StreamJoin, StreamInv, ReportedIffOverflow, Reported,
                    ProxiesInPlace
<1>5. CASE JoinElement
  <2>1. Conversion(Head(join.rest)) \in Seq(Bytes)
    BY <1>5, JoinPieceType DEF JoinElement, StreamInv
  <2>. QED
    BY <1>0, <1>5, <2>1, InsertKeepsInv DEF JoinElement
<1>6. CASE JoinSeparator
  <2>1. join.sep \in Seq(Bytes)
    BY <1>6, JoinPieceType DEF JoinSeparator, StreamInv
  <2>. QED
    BY <1>0, <1>6, <2>1, InsertKeepsInv DEF JoinSeparator
<1>7. CASE UNCHANGED vars
  BY <1>7 DEF vars, StreamInv, StreamTypeOK, ReportedIffOverflow, Reported,
              ProxiesInPlace
<1>. QED
  BY <1>1, <1>2, <1>3, <1>4, <1>5, <1>6, <1>7 DEF Next

(* For every buffer size and every set of chunks, reservations and joins, *)
(* a stream whose policy reports failures and has reported none holds      *)
(* exactly what was streamed: no ReservedProxy assignment is lost          *)
(* (OutputStream.hpp:512) and no insert is clipped silently.               *)
THEOREM LossFree == Spec => []UnreportedLossFree
<1>1. StreamInv => UnreportedLossFree
  BY DEF StreamInv, UnreportedLossFree
<1>. QED
  BY <1>1, InitInv, NextInv, PTL DEF Spec

-----------------------------------------------------------------------------
(***************************************************************************)
(* What the buffer holds under every policy.  TruncatedPrefix is not       *)
(* inductive: an assignment to a reservation must patch the buffer where   *)
(* it patches ideal, or skip bytes the buffer does not hold.  So every     *)
(* reservation lies inside the buffer; one cut short ends at the buffer's  *)
(* end, and the buffer is then full; one reserved after bytes were lost    *)
(* has its place in ideal past the buffer.  And bytes are lost only into a *)
(* full buffer.                                                            *)
(***************************************************************************)
ReservationFits(r, n) ==
    /\ r.len <= r.size
    /\ r.start + r.len <= n
    /\ r.len < r.size => r.start + r.len = n /\ n = Capacity
    /\ r.start # r.at => Capacity <= r.at /\ r.len = 0

PrefixInv ==
    /\ StreamTypeOK
    /\ TruncatedPrefix
    /\ Len(buffer) < Len(ideal) => Len(buffer) = Capacity
    /\ \A p \in ProxyIds : proxies[p] # NoProxy => ReservationFits(proxies[p], Len(buffer))

(* Byte by byte, what an insert does to the buffer: the bytes held stay,  *)
(* the range's first bytes follow them, and bytes are dropped only when    *)
(* the buffer is full.                                                     *)
LEMMA InsertFacts ==
    ASSUME NEW r \in Seq(Bytes), buffer \in Seq(Bytes), Len(buffer) <= Capacity,
           Insert(r)
    PROVE  /\ buffer' \in Seq(Bytes)
           /\ Len(buffer') = IF Len(r) <= Available THEN Len(buffer) + Len(r)
                                                  ELSE Capacity
           /\ \A i \in 1..Len(buffer) : buffer'[i] = buffer[i]
           /\ \A i \in (Len(buffer) + 1)..Len(buffer') : buffer'[i] = r[i - Len(buffer)]
<1>1. Capacity \in Nat
  BY StreamAssumption
<1> DEFINE n == IF Len(r) <= Available THEN Len(r) ELSE Available
<1>2. n \in 0..Len(r) /\ Len(buffer) + n <= Capacity
  BY <1>1 DEF Available
<1>3. buffer' = buffer \o SubSeq(r, 1, n)
  BY DEF Insert, Available
<1>4. SubSeq(r, 1, n) \in Seq(Bytes) /\ Len(SubSeq(r, 1, n)) = n
      /\ \A k \in 1..n : SubSeq(r, 1, n)[k] = r[k]
  BY <1>2
<1>. QED
  BY <1>1, <1>2, <1>3, <1>4 DEF Available

(* An insert that ideal also takes, reservations left alone, keeps what   *)
(* PrefixInv says of the buffer and of every reservation.                  *)
LEMMA InsertKeepsPrefix ==
    ASSUME PrefixInv, NEW r \in Seq(Bytes), Insert(r), ideal' = ideal \o r
    PROVE  /\ Len(buffer') <= Len(ideal')
           /\ \A i \in 1..Len(buffer') : buffer'[i] # ideal'[i] => InShortReservation(i)
           /\ Len(buffer') < Len(ideal') => Len(buffer') = Capacity
           /\ \A p \in ProxyIds : proxies[p] # NoProxy =>
                  ReservationFits(proxies[p], Len(buffer'))
<1>1. /\ Capacity \in Nat
      /\ buffer \in Seq(Bytes) /\ Len(buffer) <= Capacity /\ ideal \in Seq(Bytes)
      /\ Len(buffer) <= Len(ideal)
      /\ Len(buffer) < Len(ideal) => Len(buffer) = Capacity
  BY StreamAssumption DEF PrefixInv, StreamTypeOK, TruncatedPrefix
<1>2. /\ Len(buffer') = IF Len(r) <= Available THEN Len(buffer) + Len(r)
                                             ELSE Capacity
      /\ \A i \in 1..Len(buffer) : buffer'[i] = buffer[i]
      /\ \A i \in (Len(buffer) + 1)..Len(buffer') : buffer'[i] = r[i - Len(buffer)]
  BY <1>1, InsertFacts
<1>3. /\ Len(ideal') = Len(ideal) + Len(r)
      /\ \A i \in 1..Len(ideal) : ideal'[i] = ideal[i]
      /\ \A i \in (Len(ideal) + 1)..Len(ideal') : ideal'[i] = r[i - Len(ideal)]
  BY <1>1
<1>4. Len(buffer) <= Len(buffer') /\ Len(buffer') <= Capacity
  BY <1>1, <1>2 DEF Available
<1>5. Len(buffer') > Len(buffer) => Len(buffer) = Len(ideal)
  BY <1>1, <1>4
<1>6. Len(buffer') <= Len(ideal')
  BY <1>1, <1>2, <1>3, <1>5 DEF Available
<1>7. ASSUME NEW i \in 1..Len(buffer'), buffer'[i] # ideal'[i]
      PROVE  InShortReservation(i)
  <2>1. CASE i <= Len(buffer)
    <3>0. i \in 1..Len(buffer) /\ i \in 1..Len(ideal)
      BY <1>1, <2>1
    <3>1. buffer'[i] = buffer[i] /\ ideal'[i] = ideal[i]
      BY <1>2, <1>3, <3>0
    <3>. QED
      BY <1>7, <2>1, <3>1 DEF PrefixInv, TruncatedPrefix
  <2>2. CASE i > Len(buffer)
    <3>1. Len(buffer) = Len(ideal)
      BY <1>5, <2>2
    <3>2. buffer'[i] = r[i - Len(buffer)] /\ ideal'[i] = r[i - Len(ideal)]
      BY <1>1, <1>2, <1>3, <1>6, <2>2, <3>1
    <3>. QED
      BY <1>7, <3>1, <3>2
  <2>. QED
    BY <2>1, <2>2
<1>8. Len(buffer') < Len(ideal') => Len(buffer') = Capacity
  BY <1>1, <1>2, <1>3, <1>4 DEF Available
<1>9. ASSUME NEW p \in ProxyIds, proxies[p] # NoProxy
      PROVE  ReservationFits(proxies[p], Len(buffer'))
  <2>1. ReservationFits(proxies[p], Len(buffer)) /\ proxies[p] \in Proxy
    BY <1>9 DEF PrefixInv, StreamTypeOK
  <2>2. proxies[p].len < proxies[p].size => Len(buffer') = Len(buffer)
    BY <1>4, <2>1 DEF ReservationFits
  <2>. QED
    BY <1>4, <2>1, <2>2 DEF ReservationFits, Proxy
<1>. QED
  BY <1>6, <1>7, <1>8, <1>9

(* An insert that leaves the reservations alone keeps PrefixInv.          *)
LEMMA InsertKeepsPrefixInv ==
    ASSUME PrefixInv, NEW r \in Seq(Bytes), Insert(r), ideal' = ideal \o r,
           proxies' = proxies, StreamTypeOK'
    PROVE  PrefixInv'
<1>1. \A i \in 1..Len(buffer') : buffer'[i] # ideal'[i] => InShortReservation(i)
  BY InsertKeepsPrefix
<1>2. \A i \in 1..Len(buffer') : InShortReservation(i) => InShortReservation(i)'
  BY DEF InShortReservation
<1>. QED
  BY <1>1, <1>2, InsertKeepsPrefix DEF PrefixInv, TruncatedPrefix

LEMMA InitPrefixInv == Init => PrefixInv
<1>. SUFFICES ASSUME Init PROVE PrefixInv
  OBVIOUS
<1>1. StreamTypeOK
  BY InitType
<1>2. buffer = <<>> /\ ideal = <<>> /\ proxies = [p \in ProxyIds |-> NoProxy]
  BY DEF Init
<1>. QED
  BY <1>1, <1>2 DEF PrefixInv, TruncatedPrefix

(* Reserving a field keeps PrefixInv: the new reservation starts at the    *)
(* end of the buffer and holds what fitted of its placeholders.            *)
LEMMA ReserveKeepsPrefixInv ==
    ASSUME PrefixInv, NEW p \in ProxyIds, NEW size \in Sizes, Reserve(p, size),
           StreamTypeOK'
    PROVE  PrefixInv'
<1>1. /\ Capacity \in Nat /\ size \in Nat
      /\ buffer \in Seq(Bytes) /\ Len(buffer) <= Capacity /\ ideal \in Seq(Bytes)
      /\ Len(buffer) <= Len(ideal)
      /\ Len(buffer) < Len(ideal) => Len(buffer) = Capacity
      /\ proxies \in [ProxyIds -> Proxy \cup {NoProxy}]
  BY StreamAssumption DEF PrefixInv, StreamTypeOK, TruncatedPrefix
<1>2. Zeros(size) \in Seq(Bytes) /\ Len(Zeros(size)) = size
  BY <1>1, ZerosType
<1>3. /\ Len(buffer') <= Len(ideal')
      /\ \A i \in 1..Len(buffer') : buffer'[i] # ideal'[i] => InShortReservation(i)
      /\ Len(buffer') < Len(ideal') => Len(buffer') = Capacity
      /\ \A q \in ProxyIds : proxies[q] # NoProxy =>
             ReservationFits(proxies[q], Len(buffer'))
  BY <1>2, InsertKeepsPrefix DEF Reserve
<1>4. Len(buffer') = IF size <= Available THEN Len(buffer) + size ELSE Capacity
  BY <1>1, <1>2, InsertFacts DEF Reserve
<1> DEFINE R == [start |-> Len(buffer),
                 len |-> IF size <= Available THEN size ELSE Available,
                 size |-> size, at |-> Len(ideal)]
<1>5. proxies[p] = NoProxy /\ proxies' = [proxies EXCEPT ![p] = R]
  BY DEF Reserve, SaveMarker
<1>6. ReservationFits(R, Len(buffer'))
  BY <1>1, <1>4 DEF ReservationFits, Available
<1>7. \A q \in ProxyIds : proxies[q] # NoProxy => proxies'[q] = proxies[q]
  BY <1>1, <1>5
<1>8. \A i \in 1..Len(buffer') : InShortReservation(i) => InShortReservation(i)'
  BY <1>7 DEF InShortReservation
<1>9. \A q \in ProxyIds : proxies'[q] # NoProxy =>
          ReservationFits(proxies'[q], Len(buffer'))
  BY <1>1, <1>3, <1>5, <1>6, <1>7
<1>. QED
  BY <1>3, <1>8, <1>9 DEF PrefixInv, TruncatedPrefix

(* Assigning a reservation keeps PrefixInv: the copy into the buffer, when *)
(* it happens, writes the bytes ideal gets at the same place, and when the *)
(* reservation was cut short the bytes ideal gets in its stead lie in that *)
(* reservation's range or past the buffer.                                 *)
LEMMA AssignKeepsPrefixInv ==
    ASSUME PrefixInv, NEW p \in ProxyIds, NEW v \in Chunks, AssignProxy(p, v),
           StreamTypeOK'
    PROVE  PrefixInv'
<1> DEFINE r == proxies[p]
<1>1. /\ Capacity \in Nat
      /\ buffer \in Seq(Bytes) /\ Len(buffer) <= Capacity /\ ideal \in Seq(Bytes)
      /\ Len(buffer) <= Len(ideal)
      /\ v \in Seq(Bytes)
      /\ r \in Proxy /\ ReservationFits(r, Len(buffer))
      /\ Len(v) = r.size
  BY StreamAssumption DEF PrefixInv, StreamTypeOK, TruncatedPrefix, AssignProxy
<1>2. /\ ideal' = Patch(ideal, r.at, v)
      /\ buffer' = IF r.len = Len(v) THEN Patch(buffer, r.start, v) ELSE buffer
      /\ proxies' = proxies
  BY DEF AssignProxy
<1>3. Len(ideal') = Len(ideal) /\ Len(buffer') = Len(buffer)
  BY <1>1, <1>2, PatchType DEF Proxy
<1>4. ASSUME NEW i \in 1..Len(buffer), buffer'[i] # ideal'[i]
      PROVE  InShortReservation(i)
  <2>1. i \in DOMAIN buffer /\ i \in DOMAIN ideal
    BY <1>1
  <2>2. ideal'[i] = IF r.at < i /\ i <= r.at + Len(v) THEN v[i - r.at] ELSE ideal[i]
    BY <1>2, <2>1 DEF Patch
  <2>3. CASE r.len = Len(v) /\ r.start = r.at
    <3>1. buffer'[i] = IF r.start < i /\ i <= r.start + Len(v) THEN v[i - r.start]
                                                            ELSE buffer[i]
      BY <1>2, <2>1, <2>3 DEF Patch
    <3>2. buffer[i] # ideal[i]
      BY <2>2, <2>3, <3>1, <1>4
    <3>. QED
      BY <1>2, <3>2 DEF PrefixInv, TruncatedPrefix, InShortReservation
  <2>4. CASE r.len = Len(v) /\ r.start # r.at
    <3>1. Len(v) = 0
      BY <1>1, <2>4 DEF ReservationFits
    <3>2. buffer'[i] = buffer[i] /\ ideal'[i] = ideal[i]
      BY <1>1, <1>2, <2>1, <2>2, <3>1 DEF Patch, Proxy
    <3>. QED
      BY <1>4, <3>2 DEF PrefixInv, TruncatedPrefix, InShortReservation
  <2>5. CASE r.len # Len(v)
    <3>1. buffer' = buffer /\ r.len < r.size
      BY <1>1, <1>2, <2>5 DEF ReservationFits, Proxy
    <3>2. r.start + r.len = Len(buffer) /\ Len(buffer) = Capacity
      BY <1>1, <3>1 DEF ReservationFits
    <3>3. CASE r.at < i /\ i <= r.at + Len(v)
      <4>1. r.start = r.at
        BY <1>1, <3>2, <3>3 DEF ReservationFits, Proxy
      <4>2. r # NoProxy /\ r.len < r.size /\ r.start < i /\ i <= r.start + r.len
        BY <1>1, <3>1, <3>2, <3>3, <4>1 DEF Proxy, NoProxy
      <4>. QED
        BY <4>2 DEF InShortReservation
    <3>4. CASE ~(r.at < i /\ i <= r.at + Len(v))
      BY <1>4, <2>2, <3>1, <3>4 DEF PrefixInv, TruncatedPrefix, InShortReservation
    <3>. QED
      BY <3>3, <3>4
  <2>. QED
    BY <2>3, <2>4, <2>5
<1>5. \A i \in 1..Len(buffer') : InShortReservation(i) => InShortReservation(i)'
  BY <1>2 DEF InShortReservation
<1>. QED
  BY <1>1, <1>2, <1>3, <1>4, <1>5 DEF PrefixInv, TruncatedPrefix

LEMMA NextPrefixInv == PrefixInv /\ [Next]_vars => PrefixInv'
<1>. SUFFICES ASSUME PrefixInv, [Next]_vars PROVE PrefixInv'
  OBVIOUS
<1>0. StreamTypeOK'
  BY NextType DEF PrefixInv
<1>. USE StreamAssumption
<1>1. ASSUME NEW d \in Chunks, StreamData(d) PROVE PrefixInv'
  BY <1>0, <1>1, InsertKeepsPrefixInv DEF StreamData
<1>2. ASSUME NEW p \in ProxyIds, NEW size \in Sizes, Reserve(p, size)
      PROVE  PrefixInv'
  BY <1>0, <1>2, ReserveKeepsPrefixInv
<1>3. ASSUME NEW p \in ProxyIds, NEW v \in Chunks, AssignProxy(p, v)
      PROVE  PrefixInv'
  BY <1>0, <1>3, AssignKeepsPrefixInv
<1>4. ASSUME NEW sep \in Separators, NEW s \in JoinRanges, StreamJoin(sep, s)
      PROVE  PrefixInv'
  BY <1>0, <1>4 DEF StreamJoin, PrefixInv, TruncatedPrefix, InShortReservation
<1>5. CASE JoinElement
  <2>1. Conversion(Head(join.rest)) \in Seq(Bytes)
    BY <1>5, JoinPieceType DEF JoinElement, PrefixInv
  <2>. QED
    BY <1>0, <1>5, <2>1, InsertKeepsPrefixInv DEF JoinElement
<1>6. CASE JoinSeparator
  <2>1. join.sep \in Seq(Bytes)
    BY <1>6, JoinPieceType DEF JoinSeparator, PrefixInv
  <2>. QED
    BY <1>0, <1>6, <2>1, InsertKeepsPrefixInv DEF JoinSeparator
<1>7. CASE UNCHANGED vars
  BY <1>0, <1>7 DEF vars, PrefixInv, TruncatedPrefix, InShortReservation
<1>. QED
  BY <1>1, <1>2, <1>3, <1>4, <1>5, <1>6, <1>7 DEF Next

(* For every buffer size and every policy, NoFail included, the buffer    *)
(* holds a prefix of what was streamed, patched fields included, but for   *)
(* the placeholders of a reservation the buffer cut short                  *)
(* (OutputStream.hpp:422 and ReservedProxy::operator=, line 512).          *)
THEOREM TruncatedPrefixHolds == Spec => []TruncatedPrefix
<1>1. PrefixInv => TruncatedPrefix
  BY DEF PrefixInv
<1>. QED
  BY <1>1, InitPrefixInv, NextPrefixInv, PTL DEF Spec

=============================================================================
