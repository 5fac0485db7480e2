# TLA+ models of the mDNS responder (services::BonjourServer)

This directory holds TLA+ models of the mDNS/DNS-SD responder in
`src/unnamed/part_002` (BonjourServer.cpp). It also holds the TLC configurations
that check the models and the TLAPS proofs about them.

## The system

`BonjourServer` answers multicast DNS queries for one service instance. The parts
and how they interact:

* **The responder** (lines 17-60).
  * The constructor listens on UDP port 5353 and joins the group 224.0.0.251.
    The destructor leaves the group.
  * `DataReceived` drops a datagram that does not come from port 5353. It also
    drops a datagram while another reader is retained (`waitingReader`).
  * Otherwise `DataReceived` retains the reader and runs a *counting pass* of
    `QuestionParser`, which streams the answer into a `countingWriter` and rewinds
    the reader to 0.
  * If that pass found an answer, it requests a send stream of exactly the counted
    size, addressed to the multicast group. If not, it releases the reader.
  * `SendStreamAvailable` runs the *real pass* into the granted buffer and
    releases the reader.
* **QuestionParser::CreateAnswer** (229-250). It reads and checks the header
  (`IsValidQuestion`) and streams a provisional header (the `Answer` constructor).
  Then it runs two loops over the questions:
  * the first loop adds answers (`ReadQuestion`) and clears `valid` on a truncated
    question or an invalid footer;
  * after a rewind to the first question, the second loop adds additional records
    (`ReadQuestionForAdditionalRecords`).

  If a question was invalid, it drops the answer. In the real pass, `Answer::Finish`
  then overwrites the header with the two counters, narrowed to 16 bits.
* **The record builder** (`Add..Answer`, `Add..Additional`, `AddA` … `AddTxt`,
  76-199).
  * In the first loop, A and AAAA questions add an A or AAAA record, but only when
    that address is configured. PTR, SRV and TXT questions add one record of their
    own type.
  * In the second loop, a PTR question adds TXT, SRV, A and AAAA records, and an
    SRV question adds A and AAAA records.
* **The hostname matcher** (`ReadHostname`, `HostNameIs`, `My..Name`, 345-425).
  * `ReadHostname` joins the labels of the question name with `.`.
  * `HostNameIs` splits that string at every `.` and compares the parts with the
    configured strings (instance, serviceName, type, "local"). The spec (4.2)
    defines matching on this decoded dot-joined name.

The environment is the datagram exchange of an event dispatcher (declared in
`part_000`). It delivers datagrams and grants requested send streams, one
callback at a time.

## Inventory of src/

| source | what it is | modelled |
|---|---|---|
| `src/unnamed/part_002` (426 lines) | BonjourServer.cpp | yes: BonjourDns, BonjourQuestionParser, BonjourServer |
| `src/infra/stream/OutputStream.hpp` | stream templates and formatting helpers | partly: OutputStream, OutputStreamProofs |
| `src/infra/timer/Timer.hpp` | Timer declarations only | no: no behaviour under src/ |
| `src/unnamed/part_000` | EventDispatcherWithNetwork declaration | only as the responder's environment |
| `src/unnamed/part_001` | Cucumber parser unit tests | no: tests of code not in src/ |
| `src/unnamed/part_003`, `part_004`, `part_005`, `CHANGELOG.md` | CMake, CI, release notes | no: no behaviour |

The DNS wire codec (`DnsRecordHeader`, `DnsHostnameInParts`,
`DnsHostnamePartsStream`) is not under src/. Its formats are modelled from the DNS
format and marked `spec_modelled` in PROJECT.json.

## Modules

* **BonjourDns**: the data, and the pure decisions taken on one query.
  * A configured string, and a label on the wire, is a non-empty sequence of
    dot-free *atoms*. A label may therefore contain dots, as a wire label can.
    A question name is a sequence of labels.
  * `ReconstructedParts` flattens the labels into atoms: this is the join on `.`
    followed by the split on `.`. `HostNameIs` compares each part with one
    configured string, which must be a single atom to match.
  * `IsValidQuestion`, `IsFooterValid` and `IsQueryForMe` are the code's checks.
  * `AnswerRecords` and `AdditionalRecords` give what a question adds in each loop.
  * `RecordBytes` gives the byte size of every record, from `AddA` … `AddTxt` and
    the name encoding.
  * `Plan(p, atStart)` is the result of one whole `CreateAnswer` pass: the records,
    the counts and the validity. `HasAnswer` and `Processed` are the parser's
    queries.
  * `U16` is the narrowing to the 16-bit header fields.
* **BonjourQuestionParser**: one real-pass `QuestionParser`, step by step.
  * Variables: the datagram, a program counter, the loop counter `i`, `valid`,
    whether an answer exists, the two counters, the header in the writer, and the
    records written.
  * Actions: `ReadHeader`, `ReadQuestion`, `RewindToQuestions`,
    `ReadQuestionForAdditionalRecords`, `EndCreateAnswer`, `Finish`.
  * Every loop iteration is a step, and the loop condition is `LoopContinues`.
    Nothing else runs during a pass, so these are the handler's own steps.
* **BonjourServer**: the responder among arbitrary datagram arrivals, buffer
  grants, and destruction and reconstruction.
  * Variables: `alive`, `joined`, `waitingReader` (the datagram, and whether the
    reader is at its start), `request` (the size asked for), `sent` (the replies)
    and `received` (bounded by `MaxDatagrams`).
  * Actions: `Construct`, `Destroy`, `DataReceived(p, port)` and
    `SendStreamAvailable`. Each handler, with the whole parser pass it runs, is one
    action, because handlers run to completion on the event dispatcher.
* **BonjourResponder**: what the responder promises, without the two passes.
  It takes at most one query at a time, only from port 5353 and only when a
  pass over it answers (`Takes`, `Receive`). Later it answers that query in one
  step (`Answer`) with `ReplyTo`: the id, the 16-bit counts, the records of one
  pass, and a datagram exactly as large as that reply. `Stop` forgets the
  pending query. `BonjourServer` instantiates it as `Responder`, with `pending`
  the retained reader's datagram and `replies` the sent datagrams seen through
  `ReplyView`.
* **OutputStream**: an infra output stream (`OutputStream.hpp`) over a writer
  with a fixed buffer, as the `Answer` builder uses it.
  * Variables: the error policy's failure mode, the buffer, the `failed` flag of
    a soft policy, `aborted` (an assertion policy stopped the program), the
    `ReservedProxy` objects with their ranges, and the history variable `ideal`
    (what an unbounded writer would hold).
  * `Init` is a `WithWriter`/`WithErrorPolicy` constructor: no tag gives the
    default policy (an assertion), `SoftFail` and `NoFail` select the others
    (`ErrorPolicyOf`, lines 402-423; the TextOutputStream twins at 439-459 are
    the same).
  * Actions: `StreamData` (`DataOutputStream::operator<<`, 386-400), `Reserve`,
    `AssignProxy` (`ReservedProxy::operator=`, 504-516: it copies only when the
    range has exactly `sizeof(T)` bytes), and the join loop of
    `operator<<(TextOutputStream&, const JoinHelper&)` (518-537) as three
    actions: `StreamJoin` enters it, `JoinElement` converts one element and
    `JoinSeparator` streams the separator after an element that is not the last.
  * The variable `join` holds the running (or last) join: the elements left, whether
    the separator comes next, and where its text starts and ends in `ideal`.
    While `Joining` holds, the stream's owner is inside `operator<<`, so no other
    call on the stream can start.
  * `JoinReference` is the reference definition the loop is checked against:
    the texts with a separator between neighbours.
  * The writer's `Insert`, the policy's `ReportResult` and reserving a field
    are not under src/. They are modelled from the design notes (a bounded sink
    with a reserve-then-patch capability) and marked `spec_modelled`.
  * A join is a sequence of inserts on the text view of the same writer, one per
    element text and one per separator, each reported to the policy on its own,
    as the loop does.
* **MCBonjourQuestionParser**, **MCBonjourServer** and **MCOutputStream**: the
  small instances.
* **BonjourQuestionParserProofs**, **BonjourServerProofs** and
  **OutputStreamProofs**: the TLAPS proofs.

## Runs

| run | cfg | checks | result |
|---|---|---|---|
| parser_pass | MCBonjourQuestionParser.cfg | ParserTypeOK, WellFramedReply, MatchesPlan, AnswersOnlyWholeQueries | pass, 66549 states |
| server_pass | MCBonjourServer.cfg | ServerTypeOK, SlotMatchesRequest, RepliesMatchDryRun, RepliesAnswer, AcceptedQueryAnswered, ImplementsResponder | pass, 166 states |
| stream_pass | MCOutputStream.cfg | StreamTypeOK, UnreportedLossFree, JoinWritesReference, TruncatedPrefix | pass, 5098 states |

**parser_pass.** Instance "inst", service "_http", type "_tcp", IPv4 configured
and IPv6 not. The packets are every question section of length 0 to 2 over five
names: the short, full and service names, a foreign name, and a name one label too
long. Each question has every type (A, AAAA, PTR, SRV, TXT, and ANY, which is
invalid) and both classes (IN, and IN with the unicast bit, which is invalid).
`questionsCount` ranges over 0..2, so truncated sections occur. Six rejected headers
are added.

The checks:
* `WellFramedReply`: a finished reply holds `header.ancount` answers followed by
  `header.arcount` additional records.
* `MatchesPlan`: the stepwise loops compute exactly `Plan`, which the server model
  uses.
* `AnswersOnlyWholeQueries`: a completed reply answers a datagram that holds
  every question its header declares, each with a valid type and class. A
  truncated or invalid question after answers were already streamed must drop
  the whole answer (`valid`, then `answer = none` at the end of `CreateAnswer`).

Two questions are enough to reach every case: an answer followed by an invalid
question (a partial answer that is then dropped); PTR plus SRV (additional records
from both loops); and a count larger than the questions present.

**server_pass.** Six datagrams with ids 1 and 2:
* a PTR query for the service;
* A and AAAA queries for the short name (the AAAA one has no answer, because no
  IPv6 address is configured);
* a query for a foreign name;
* a truncated query;
* a response.

Each arrives on port 5353 or another port. At most four datagrams arrive in a
behaviour, which is enough for one to arrive while a reply is pending, and for
destruction while a request is pending.

The checks:
* `SlotMatchesRequest`: a reader is retained exactly while a send stream is
  requested.
* `RepliesMatchDryRun`: every reply fills exactly the buffer the counting pass
  sized.
* `RepliesAnswer`: every sent reply answers something, with header counts that
  match its records.
* `AcceptedQueryAnswered`: a retained query is answered unless the server is
  destroyed.
* `ImplementsResponder`: the server implements `BonjourResponder!Spec`,
  fairness included.

**stream_pass.** The instance:
* a four-byte buffer and one- and two-byte data;
* one two-byte reserved field (a 16-bit count);
* joins with the separator "," of every range of at most two elements, the
  empty range included;
* each of the three policies.

Three operations are enough to fill the buffer exactly, to overflow it, and to
cut a reservation short. The checks:
* `UnreportedLossFree`: a stream whose policy reports failures, and which has
  reported none, holds exactly what was streamed, every `ReservedProxy`
  assignment included. On such a stream every reservation got its whole range,
  so the size check of `operator=` (line 512) must copy every assignment: its
  silent no-op may happen only after the insert that cut the range short was
  reported.
* `JoinWritesReference`: a finished join wrote, in `ideal`, exactly the
  `JoinReference` text: nothing for an empty range, and no separator after the
  last element.
* `TruncatedPrefix`: under every policy, `NoFail` included, the buffer holds a
  prefix of what was streamed, patched fields included. The one exception is
  the placeholder bytes of a reservation that the buffer cut short: its
  assignment is silently skipped. The run reaches this case. Three bytes are
  streamed, a two-byte field is reserved and gets one byte, and its assignment
  patches `ideal` only.
The run has no deadlock check. A stream may stop: an assertion aborts the
program, and a stream's owner may stop using it at any point.

**Fairness.** `AcceptedQueryAnswered` assumes weak fairness of
`SendStreamAvailable` only. The exchange promises to call back once a stream it was
asked for is free. Arrivals and destruction are the environment's choice and get no
fairness. Without the fairness assumption the responder can wait for ever: there is
no timeout (listed as a hazard).

**Mutants.** Each property is broken by a plausible bug in the code it is about:
* a loop running to `i <= count`;
* `Finish` not patching the header;
* the second loop not restarting at 0;
* a reply id of 0;
* the reader kept after sending;
* no rewind after the counting pass;
* `HasAnswer` ignoring the count;
* the reader kept when there is no answer;
* destruction leaving the request pending;
* the answer kept at the end of `CreateAnswer` although a question was invalid;
* a writer that does not clip to its buffer;
* a join that writes a separator after the last element;
* the size check of `ReservedProxy::operator=` compared the wrong way round, so
  a whole range is never patched (it breaks `UnreportedLossFree`);
* a reservation whose range starts after its placeholders (it breaks
  `TruncatedPrefix`);
* the reader kept when there is no answer, which lets the server take a
  query the responder would not.

## Proofs (BonjourServerProofs)

* `SlotInvariant`: `Spec => []SlotMatchesRequest`.
* `PassEquivalence`: `Spec => []RepliesMatchDryRun`.
* `RefinesResponder`: `Spec => Responder!SafeSpec`.

They hold for every configuration and datagram set that satisfies
`ServerAssumption`. The inductive invariant `ServerInv` is `SlotMatchesRequest`
with the strengthening `RequestFromDryRun`: while a reader is retained it is
rewound to its start, and the pending request carries the size and records of
the counting pass over it. Neither is inductive alone: `DataReceived` makes a
new request only when the slot is empty, and that step needs `SlotMatchesRequest`
to know there is no earlier request. `Plan`, `Processed` and `HasAnswer` stay
opaque: the argument does not depend on what a pass computes, only on which
handler sets and clears the two variables.

`PassEquivalence` uses `ReplyInv`, which adds two things to `ServerInv`: `sent`
is a sequence (`sent \in Seq(Range(sent))`, since the records have no type the
provers can use), and the property itself. A send appends the real pass's reply
over a rewound reader. That pass equals the counting pass that `RequestFromDryRun`
recorded in the request, so the new reply's size equals the requested size.

`RefinesResponder` uses `RefInv == ReplyInv /\ AcceptedHasAnswer`: a retained
reader holds a query whose counting pass has an answer. The mapping is
`pending <- waitingReader.pkt` (or `None`) and `replies <- ReplyView` of every
sent record. The steps map as follows:
* `Construct` maps to `Start`, and `Destroy` to `Stop`.
* `DataReceived` maps to `Receive`. It takes the query exactly when the
  abstract `Takes` holds.
* `SendStreamAvailable` maps to `Answer`.

Lemma `SameDns` identifies the instance's `Plan`, `HasAnswer`, `U16` and
`Processed` with the server's. The fairness conjunct of `BonjourResponder!Spec`
stays with TLC (`ImplementsResponder`).

## Proofs (OutputStreamProofs)

* `TypeCorrect`: `Spec => []StreamTypeOK`.
* `LossFree`: `Spec => []UnreportedLossFree`.
* `TruncatedPrefixHolds`: `Spec => []TruncatedPrefix`.

These hold for every buffer size, every set of chunks, reserved sizes, elements
and separators, and every bound on the operations (`StreamAssumption`). They
rest on the inductive invariant `StreamInv`, which TLC checked on the
stream_pass instance and on a larger one (a five-byte buffer and five
operations, 254820 states). It is the type invariant together with:
* a failed flag only under the soft policy, and an abort never under it;
* when nothing has been reported, `buffer = ideal`, and every live reservation
  sits at its place in `ideal` with all of its `sizeof(T)` bytes
  (`ProxiesInPlace`);
* `ReportedIffOverflow`: a reporting policy has reported a failure exactly
  when `ideal` outgrew the buffer.

`UnreportedLossFree` alone is not inductive. An assignment to a reservation
preserves `buffer = ideal` only if the proxy's range is where `ideal` puts the
field and is not cut short. Without that, the copy would write elsewhere, or
nowhere (the `len = sizeof(T)` test, line 512).

The lemmas are:
* `InsertBuffer` and `InsertReport`: what the writer's insert does;
* `InsertStep`: one insert keeps the flags right. If nothing is reported
  afterwards, nothing was reported before and the whole range fitted;
* `ZerosType`, `PatchType` and `JoinPieceType`;
* `InitInv` and `NextInv`, with one step per action.

`TruncatedPrefixHolds` rests on a second inductive invariant, `PrefixInv`. TLC
checked it on the stream_pass instance and on a larger one: a five-byte
buffer, five operations, and reserved sizes 0 and 2, 351848 states.
`PrefixInv` is `StreamTypeOK` and `TruncatedPrefix`, together with:
* bytes are lost only into a full buffer;
* every reservation satisfies `ReservationFits`:
  * its range lies inside the buffer;
  * a reservation cut short ends at the buffer's end, and the buffer is then
    full;
  * a reservation whose place in `ideal` differs from its marker was made after
    bytes were lost, so it has length 0 and its place in `ideal` lies past
    `Capacity`.

Without these facts an assignment could patch the buffer somewhere other
than where it patches `ideal`. The lemmas `InsertFacts` (what an insert does,
byte by byte), `InsertKeepsPrefix`, `ReserveKeepsPrefixInv` and
`AssignKeepsPrefixInv` carry the argument, one case per outcome of
`operator=`.

## Proofs (BonjourQuestionParserProofs)

* `TypeCorrect`: `Spec => []ParserTypeOK`.
* `WellFramed`: `Spec => []WellFramedReply`.
* `WholeQueriesOnly`: `Spec => []AnswersOnlyWholeQueries`.

They hold for every configuration, every set of names and every set of packets
that satisfies `DnsAssumption` and `ParserAssumption`.

The argument runs through the inductive invariant `ParserInv`, which TLC also
checks on the parser_pass instance:
* the body is always `Framed` by the two counters;
* no additional record is written before the second loop;
* each question adds at most one answer and at most four additional records, so
  the counters are bounded by `questionsCount` and `4 * questionsCount`;
* a finished reply's header holds the narrowed counters.

`WellFramedReply` alone is not inductive. Among other things it says nothing about
the body while the loops are running.

The assumption `MaxQuestions < QuestionsLimit` (16384) carries the bound from the
UDP datagram size: a datagram holds at most about 10917 questions. Under this
assumption `4 * questionsCount < 2^16`, so the 16-bit narrowing in `Finish` loses
nothing (lemma `CountsFit`).

The proof rests on these lemmas:
* `AnswerRecordsFacts` and `AdditionalRecordsFacts` bound and classify what one
  question adds;
* `FramedAppendAnswers` and `FramedAppendAdditional` show that appending keeps the
  framing;
* `InitParserInv` and `NextParserInv`, the latter with one step per action.

`WholeQueriesOnly` rests on a second invariant, `WholeInv`, proved inductive
together with `ParserInv`. While the first loop runs with `valid` set, every
question read so far is present with a valid footer (`ReadValid(i)`). The
rewind happens with `valid` only when `i = questionsCount`, so in the second
loop and after it a valid answer covers all declared questions. After
`EndCreateAnswer` an answer implies `valid`. The loop counter is 0 before the
header is read.

## Only model-checked, and why

tlapm cannot use the definition of a recursive function such as `FlattenSeq`
or `SeqSum`, and it cannot do induction over data. Liveness and `ENABLED` are
out of its reach. So TLC alone checks:
* liveness: `AcceptedQueryAnswered`, and the fairness conjunct of
  `ImplementsResponder`;
* `MatchesPlan`, which compares the parser's steps with `Plan`, built on
  `FlattenSeq`;
* `ServerTypeOK` and `RepliesAnswer`, which need the type of what `Plan`
  returns;
* `JoinWritesReference`, which compares the loop's text with `JoinReference`,
  a `FlattenSeq`.

## Not modelled, and why

* The wire codec's compression pointers (`DnsHostnamePartsStream`, not in src/). A
  pointer loop is a hazard that cannot be checked from this code.
* Record payload contents (TTL, addresses, port), which are abstracted to their
  type and size.
* Empty labels or empty dot-separated parts. Atoms are non-empty.
* In `OutputStream.hpp`, these have only declarations under src/ (their bodies
  are in .cpp files that are not in the repository), so they cannot be modelled
  faithfully:
  * `Base64Encoder`, `AsBase64`, `AsHex` and `AsAscii`;
  * `Format` and `FormatArgs`;
  * the `Hex`/`Bin`/`Width` manipulators.

  The copy constructors of `WithWriter` copy the writer and the policy, so a
  copy behaves like the original. The `NoFail` policy is modelled. It
  truncates silently by design, so `UnreportedLossFree` excludes it. `TruncatedPrefix` states what such a
  stream holds.
* `Timer.hpp`: declarations only. The timer service is not in the repository, and
  neither the spec nor the responder uses timers.
* The dispatcher, the tests and the build files.

## Plan for later sittings

1. Compose the parser with `OutputStream`: write the header into the buffer at
   the start marker and patch it there, as `Finish` does through an overwrite
   stream.
2. Refine `OutputStream` under the soft and assertion policies to an
   abstract stream: an append-only text plus a failure flag.
3. Add a run that bounds the reply size against the UDP maximum, for the
   compression-free amplification hazard.
