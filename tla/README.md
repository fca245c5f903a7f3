# A TLA+ model of the deep packet analyzer

The program reads a capture, follows the conversations in it, finds out which
application each belongs to, and writes a capture of the packets its rules let
through. There are three engines in the repository: a single-threaded one
(`src/main_working.cpp`), a self-contained multi-threaded one (`src/dpi_mt.cpp`)
and a modular multi-threaded one (`src/dpi_engine.cpp` with the classes under
`include/`). The multi-threaded engines pass packets from a reader through load
balancers (LB) and fast paths (FP) to a writer:

    reader --> LB queue --> LB --> FP queue --> FP --> output queue --> writer --> file

Every queue is bounded and every stage is a thread. What is hard about the
program is in the concurrency: waiting on queues, stopping the stages in an order
that loses nothing and waits for nobody for ever, keeping a conversation on one
thread and in order, and rules that change while packets are judged by them.

## Inventory

| Component (source) | State | Operations | Interacts with | What is hard |
|---|---|---|---|---|
| `ThreadSafeQueue` (`include/thread_safe_queue.h`), `TSQueue` (`src/dpi_mt.cpp`) | the queue, `shutdown_`, two condition variables | `push`, `tryPush`, `pop`, `popWithTimeout`, `shutdown` | every thread of an engine | one `notify_one` per push; time-outs and spurious wake-ups; shutdown against blocked callers |
| Flow identity (`include/types.h`, `canonicalTuple`, `getLBForPacket`, `selectFP`) | none | hash, canonical key, choice of LB and FP | reader, LBs, tracker | both directions of a flow must meet; the same hash reduced twice |
| Load balancer (`src/load_balancer.cpp`) | queue, running flag, thread | run, start, stop | reader in front, FP queues behind | a packet in hand at the stop |
| Fast path (`src/fast_path.cpp`) | queue, flag, thread, its tracker | run, processPacket, stop | LB, rule manager, writer | blocked on a full output queue at the stop; TCP state that doubles as the verdict |
| Connection tracker (`src/connection_tracker.cpp`) | table of connections, counters | getOrCreate, update, classify, block, cleanup, evict | its fast path | eviction while a pointer into the table is in use; direction of a packet |
| Rule manager (`src/rule_manager.cpp`) | four rule sets, four locks | block, unblock, clearAll, shouldBlock, save, load | fast paths, callers of the engine | shouldBlock, clearAll and saveRules take four locks one after the other; a crash in the middle of a save |
| Modular engine (`src/dpi_engine.cpp`) | all of the above, writer, reader thread, file | processFile, start, stop, waitForCompletion | its caller | stop order; a second call; an input that does not open |
| Self-contained engine (`src/dpi_mt.cpp`) | the same, flow tables, `Rules`, `Stats` | process | `main` | stop order; equal results to one thread |
| Single-threaded engine (`src/main_working.cpp`) | flow table, rules | the loop over the packets | `main` | order of classification and rules |
| Extractors (`src/sni_extractor.cpp`) | none | find a name in a payload | the three engines, each with checks of its own | bounds of nested lengths; messages cut by the end of a segment |
| PCAP reader (`src/pcap_reader.cpp`) | file, global header, byte order | open, readNextPacket | reader thread, writer (the header) | cut files, the other byte order |
| Packet parser (`src/packet_parser.cpp`) | none | parse | reader thread | frames that end in a header; later code that relies on its checks |
| Application names (`src/types.cpp`) | none | substring tables | the three engines | entries that shadow later ones |
| Command lines, tests, scripts | - | - | - | not part of the system's logic |

What makes them correct:

* queue: no lost wake-up, nobody waits after shutdown, FIFO within its bound, and
  every call comes back once the queue is shut down;
* flow identity: the two directions of a conversation have one key, one LB and one FP;
* pipeline: a packet is in one place at any time, is never pushed into a queue that
  discards it, and leaves in the order of its flow; when the engine returns, every packet
  has been judged once and is in the file if it was let through, or was left in an input queue;
* verdicts: splitting the flow table over threads gives the verdicts and the
  application counts of the single-threaded engine;
* fast path: one record per conversation, the record in use is never evicted, both
  directions are counted right, a standing rule is enforced, blocked stays blocked, the first
  payload that tells something decides what a conversation is, nothing is counted twice;
* inspection: nothing is read behind a payload, a name is the one in the message or the part of
  it that is there, the engines agree, and a supported application is recognised;
* files: nothing is read behind a frame, all engines find one payload, no packet is
  made of a cut record, and the output reads back as what was forwarded; saved rules are
  the rules after a restart, and a save cut short loses only its end.

`PROJECT.json` lists the components, the hazards line by line with the properties
that guard against them, the source lines behind every definition, and the runs.

## The modules

    BoundedQueue  <== implemented by ==  ThreadSafeQueue  <-- ThreadSafeQueueProofs
                                                          <-- MCThreadSafeQueue

    FiveTuple <-- Pipeline <-- DPIEngine         <-- MCDPIEngine
        |            |  ^----- DPIMultiThreaded  == implements ==> PacketFilter
        |            |               ^-- DPIMultiThreadedFlows <-- MCDPIMultiThreadedFlows
        |            |                         '--> SingleThreaded --> FlowRules
        |            ^-- PipelineProofs <-- DPIEngineProofs, DPIMultiThreadedProofs
        |
        ^-- ConnectionTracker <-- FastPath <-- MCFastPath
                  RuleManager <--'    ^------- FastPathProofs
                       ^-- RuleFile <-- MCRuleFile, RuleFileProofs

    Bytes <-- SNIExtractor, DNSExtractor, AppNames  <-- Inspection <-- MCInspection
        ^---- HTTPHostExtractor <-- WireFormats <-------'      ^------ InspectionProofs

    Capture <-- CaptureProofs
        ^------ MCCapture

An arrow points from a module to what it extends.  `DPIEngineProofs` also extends
`DPIEngine`, and `DPIMultiThreadedProofs` also `DPIMultiThreadedFlows` (and has what is proved of the loop
of `SingleThreaded`).  What is proved of `FiveTuple` is at the head of `PipelineProofs` (hashes and
dispatch) and of `FastPathProofs` (canonical tuples).

**ThreadSafeQueue** models one critical section of the mutex per step. A thread is in
no call, in a call and awake (about to take the mutex), or in one of the wait sets
`not_empty`, `not_full`. `notify_one` moves any one waiter out of the set; a deadline
and a spurious wake-up may come at any time. `empty`, `size` and `isShutdown` change
nothing and are left out. **BoundedQueue** is what a caller may rely on: pending calls,
a FIFO within its bound, a `Close`, and progress. It knows neither wait sets nor wake-ups.

**FiveTuple** is the identity of flows. The bit mixing in `FiveTupleHash` is the
constant `Mix`: any function at all, since the only thing that matters for the two
directions is which endpoint is put first. `FPs` is the number of fast paths and
`fp_start` the slice of them a load balancer serves.

**Pipeline** has the threads: one step is one access to shared state (a read of a
running flag, a queue operation, a file write). Its queues are those of
`BoundedQueue` with the calls the engine makes. A job is the position of its frame in
the input. Whether a frame parses is part of the frame. The verdict of a fast path is
open here. `StartAll` starts the threads in one step: a thread that has been started
finds its own flag set and nothing a later start changes is read by it. **DPIEngine** and
**DPIMultiThreaded** add the thread that opens the files, starts, waits and stops; they
differ in who reads, when the header is written, and when the flag of the writer is
cleared (first in `DPIEngine::stop`, last in `dpi_mt.cpp`).

**PacketFilter** is what a caller of an engine relies on, with no thread and no queue in it: a
run takes the packets of the input in any interleaving of the conversations but in order within
each, passes or drops each once, and returns with every packet that was passed written; the last packets of
any conversation may then be left unjudged, since the engine does not wait for its queues to
empty. The call fails when a file cannot be opened. `DPIMultiThreaded` maps onto it (`Filter`): `PacketFilter!Spec` holds of the engine, its
promise to end included.

**FlowRules** and **SingleThreaded** are the flow entry and the loop of
`main_working.cpp`, as a recursive function over the input. **DPIMultiThreadedFlows** puts
the flow tables, `Rules::isBlocked`, `classifyFlow` and `recordApp` into the fast paths
of `DPIMultiThreaded`: a taken packet is then dropped or forwarded as the data says.

**ConnectionTracker**, **RuleManager** and **FastPath** are the modular fast path in
detail. `processPacket` is split where other threads can get in: the table and the
connection belong to the thread, so finding the connection and working on it are a
step each; `shouldBlock` takes four locks, so its checks are four steps, and
`ChangeRules` may come between any two of them. `clearAll` likewise clears one set at a
time. The names extractors find come with the packet. Domain matching works on
the labels of a name, with the wildcard case as in the code. `log` and `stood` are history
variables: the packets so far, and the kinds of rules that have matched at every moment
since the checks began.

**RuleFile** adds `saveRules` and `loadRules` to the rules: the file is truncated, then each
set is written under its own lock, in any order if it is unordered, while `ChangeRules`
goes on in between; a restart empties the rules and reads the file line by line (a recursive
function of the number of lines, with the current section). Lines are records with a kind; an empty name is
skipped and a name that begins with `[` is taken for a header, as the code does. Addresses
go through their four bytes. The program can also be restarted in the middle of a save: of the
text written so far any beginning is then on the disk (`Cuts`), since the stream flushes when it
likes, and the last line of it can be a shorter number, an address that lacks bytes, part of a name,
or another application's name (`HTTP` of `HTTPS`). `leftover` is the history of a `clearAll`: the rules that have
stood since it was called.

**SNIExtractor**, **HTTPHostExtractor** and **DNSExtractor** are the extractors as functions of a memory of
bytes and a length, with the code's positions and checks; what lies behind the payload
in memory can be anything, which is how a read too far would show. **AppNames** is the
table of `sniToAppType`. **WireFormats** says what the messages look like that the extractors are made for:
a message comes with the positions of its parts (session id, cipher suites, each extension; the `Host` line;
each label) and the name it was made for, and `IsHello`, `IsRequest` and `IsQuery` say which bytes stand
where. They are the reference the extractors are held against. `IsHello` and `IsQuery` take nothing from the
extractors but the reading of bytes and numbers. `IsRequest` does: it uses the extractor's own list of methods and its own test for
`host:` (`HostHeaderAt`), and a `Host` line is to it the first `host:` anywhere in the request with something behind it. What
`RequestNamedAsFarAsItGoes` holds against it is therefore where the name begins and ends (blanks, line end, port, the end of
the payload) and which of several `Host` lines is taken, not how such a line is recognised.
**Inspection** has, for each of the three engines, which
extractors it tries on which ports behind which checks of the length: its state is a message,
how much of it is in the payload, what lies behind, and what each engine has found.

**Capture** goes from file to file: `PcapReader` (limits, short reads, byte order), the
decisions of `PacketParser`, the two ways the engines locate the payload again, and the
writing of the output. A frame is its length and the fields the parser looks at; a number in a
file is what a read of its bytes gives on this machine, so that a file of the other
byte order has its numbers reversed. A packet is written before the next is read, since the
queues in between are `Pipeline`'s matter.

## The runs

| Run | What it shows | Instance | States |
|---|---|---|---|
| `queue` | types, no lost wake-up, nobody waits after shutdown, timed pops return, implements `BoundedQueue` | 2 producers, 2 consumers, 1 item, capacity 1 | 40,752 |
| `mt_engine` | packets in one place, nothing discarded, flows pinned, only input queues keep packets, verdicts and counts of the single-threaded engine, implements `PacketFilter`, its promise to return included | 2 LB x 1 FP, queues of 1, 6 frames, 5 rule sets | 199,790 |
| `modular_engine` | nothing discarded, flows in order, a well-formed file | 1 LB x 2 FP, queues of 1, 5 frames | 74,326 |
| `fastpath` | one record per flow, eviction, counting of directions and of connections, what a conversation is taken for, standing rules, blocked stays blocked | table for 2, 3 packets of 3 flows, rules of every kind | 772,840 |
| `capture` | reads within the frame, one payload, whole records, output reads back | 2,192 files | 9,756 |
| `rule_file` | a restart gives back the rules that stood, and no others; after a crash during the save all but its end, and one made-up rule at most; `clearAll` clears | 80 sets of rules, 2 changes by others, a crash at any character | 1,515,707 |
| `inspection` | nothing is read behind the payload, names are right as far as they are there, the engines agree | hellos, requests and queries cut anywhere, hellos split anywhere or with a byte changed | 18,432 |
| `modular_stop`, `modular_reuse`, `fastpath_blocked`, `capture_swapped`, `app_rule` | what the code does against its own documentation, see Findings | | |

*Why the bounds are enough.* With two threads on each side of a queue one of them can
overtake the thread another one has just woken, which is all that a lost wake-up
needs; capacity 1 makes full and empty adjacent, so pushers and poppers wait in
turn. One item suffices as no step looks at an item. In the pipelines a queue of one
slot with four or five packets to carry lets every push block and every stage hold one packet
while the stop passes by; the frames are two conversations, both directions of each,
and one frame that does not parse, and `MCMix` sends the two conversations
to different workers. The frames of `mt_engine` are one that does not parse, a TLS conversation whose
ClientHello is the second packet (so that the port fallback comes before it), packets after
it that ride on what was learnt, the answer in the other direction (a flow of its own in
both engines), and a DNS query; the rule sets block nothing, the
server, the generic HTTPS, two applications, and a name. In `fastpath` the packets are a
data packet, a ClientHello and, in the other direction, a FIN of a conversation between equal addresses, a RST of
another one and a query: the third conversation makes the table evict, and there is
one rule of each kind to come and go, of application and name against the first conversation, of address and
port against the query (the exact names are in `rule_file`). `capture` has every
frame whose length is at or next to a limit the parser compares with, for header lengths below,
at and above the least, alone in a file; and files of several records, cut in a header or
in data, with a record beyond 65535 bytes and one beyond the snaplen, in both byte orders. In
`rule_file` two changes of other threads are what a rule needs to go and another to come
during a save (a `clearAll` counts as one); the names are a plain one, a bracketed one, the empty one and
two patterns, the application is the one whose name begins with another's, and saves may be
repeated. In `inspection` the hellos have a session id or none, the name first, last, or not at all among
the extensions, two names, and the ports 80, 443 and another; the requests have the
host with a port, without one, with an empty `Host` line before it and with `host:` inside the path; the
queries a compression pointer, no name, no question and the response flag. Behind the payload lies
the rest of the message or bytes of 255, which make any length as large as it gets.

*Fairness.* Each worker thread, the reader and the thread in `process` are scheduled
(weak fairness of the thread's next step): the operating system promises that and the
code needs no more, since a thread's step stays enabled once it is, except for a
push into a full queue that others fill again; that the properties hold with weak
fairness shows that such starvation does not keep the engine from returning. In
`queue`, time passes (weak fairness of a deadline) and an awake thread gets the
mutex; nobody has to call, to shut down, or to wake up spuriously. Within a
thread nothing is assumed of which verdict or which error it meets.

*Deadlock* is checked except in the runs of the modular engine with one pool, because that
engine really can stop for ever (`modular_stop`); `Returned` lets a finished process rest.
In the pipelines the sleeps that "wait for queues to drain" may be over at once or
never enough: any number of steps fits into them.

## What is proved

`ThreadSafeQueueProofs` proves, for any finite sets of threads, any items and any
capacity (`QueueAssumption`: the thread sets are finite, the capacity a natural number
and `NoItem` not an item):

* `TypeCorrect` - `Spec => []TypeOK`, the capacity included;
* `NobodyWaitsAfterShutdown` - `Spec => []NoWaiterAfterShutdown`;
* `WakeupsAreNotLost` - `Spec => []NoLostWakeup`;
* `StepsOfABoundedQueue` - initial states and steps are those of `BoundedQueue`, or stutter: the
  safety part of `ImplementsBoundedQueue`. Types are all it needs; that the calls also
  return is left to TLC.

`NoLostWakeup` says: while a thread waits in pop there are at least as many awake
poppers as queued items, and while one waits in push at least as many awake pushers as
free slots. Together with `TypeOK` and `NoWaiterAfterShutdown` (`QueueInv`) it is
inductive. The argument is about numbers: a push that finds a waiter adds an
item and wakes a popper; a pop takes an item and uses up one awake popper; a thread
goes to wait only on an empty (or full) queue, where the bound is zero; a time-out
makes a waiter an awake popper. The lemmas `PoppersAwake` and `PushersAwake` do this
for the two sides with the cardinalities of the library.

Of `FiveTuple` it is proved, for any mixing function and any numbers of threads
(`DispatchAssumption`: there is at least one of each, and hashes are natural numbers), the canonical tuple
in `FastPathProofs`, the rest in `PipelineProofs`:

* `HashIsBidirectional` - the two directions of a flow hash alike, equal addresses included;
* `OneKeyPerFlow` - two five-tuples have one canonical tuple exactly when they are the
  two directions of one flow;
* `DirectionsMeet` - both directions get the same load balancer and the same fast path;
* `OneFPOfEachPool` - with as many load balancers as each has fast paths, a load balancer gives
  everything to one fast path of its pool, since both reduce the same hash by the same number.

`CaptureProofs` proves, for frames of every length and any file (`CapturesAssumption`: the
records are records; `RecordsAssumption`: the length a record claims, read in the file's byte order,
is the number of bytes behind it where they are all there, which is what it is to be whole):

* `TypeCorrect` - `Spec => []TypeOK`;
* `ReadsStayInBounds` - `Spec => []ReadsInBounds`;
* `OnePayload` - `Spec => []PayloadsAgree`;
* `PacketsAreTheRecords` - `Spec => []PacketsAreRecords`;
* `NativeOutputReads` - `Spec => []NativeOutputReadsBack`.

For the first two properties of frames the invariant (`CaptureInv`) is that a packet in hand has
passed the parser; what that means for its headers is `HeadersFit`, and the rest is arithmetic. For
the files `FileInv` adds that the output has the limits and the byte order the reader works with and
that every packet in it has passed those limits, so that a reader of the output refuses none of its
records and reads on to the last one. It says nothing of a swapped input, whose output cannot be read
(see Findings).

`PipelineProofs` has the lemmas on the steps the engines share; `DPIEngineProofs` and
`DPIMultiThreadedProofs` prove, for any numbers of threads, any queue size and any input
(`PipelineAssumption`: a queue has room for one job at least):

* `TypeCorrect` - types, and the bound of every queue;
* `FlowsArePinned` - `Spec => []FlowPinned`;
* `NothingIsDiscarded` - `Spec => []NoJobDiscarded`. Of the modular engine this is about
  one call: its `Spec` has no second one, for which the property is false;
* `OutputIsACapture` (modular engine) - `Spec => []WellFormedFile`, again of one call;
* `ConversationsStayInOrder` - `Spec => []FlowOrder`;
* `NoPacketIsLost` - `Spec => []EveryJobInOnePlace`;
* for the self-contained engine further
  * `OutputIsACapture` and `OnlyTheInputQueuesAreLeft` - `WellFormedFile` and
    `OnlyInputQueuesKeepPackets`;
  * `EngineFilters` - every behaviour of the engine is, with its state mapped, one of
    `PacketFilter`'s initial state and steps: the safety part of `ImplementsPacketFilter`;
  * `FlowsImplementPipeline` - `FlowSpec => Spec`: the engine with flow tables is an engine with open
    verdicts, so the theorems hold of it too;
  * `FlowsTypeCorrect`, `VerdictsAsSingleThreaded`, `ReportAsSingleThreaded` - `FlowsTypeOK`,
    `DecidesAsSingleThreaded` and `CountsAsSingleThreaded`, see below.

None of these is inductive. `PipelineInv` adds what they need: `Routed` says that every
job in a queue or in a thread's hands is on the way to the fast path the two hashes lead to;
`StopOrder` says which stages have been joined and which queues can be shut down, at each place
of the stopping thread; `NotStarted` that a start finds no thread at work. The engines differ
in where the writer's flag is cleared, so `StopOrder` has the places before and after the stop
of the workers as parameters. For the file `OutputInv` adds that only forwarded packets are on
their way to it, and that while it has no header no queue holds a packet: the reader thread
takes packets only after it has written the header, and the file it finds is open.

*Order.* That no packet of a conversation overtakes another cannot be seen from the file alone: it
depends on where the others are. `OrderInv` looks at the engine as one `Line` of nine stages, from the
unread input through the queues and hands of threads to the file, and says that of one
conversation what is at a later stage comes before what is at an earlier one (`Ordered`), that every queue is
sorted by conversation, and that a fast path has jobs of its own conversations only (`Home`, from
`Routed`: with two fast paths for one conversation the line would be no line). A step moves one job one stage
on, and it was the first of its conversation at its stage. That every packet is in one place
is then a matter of the stages being apart. For `EngineFilters` the mapping of `DPIMultiThreaded` is taken
as it is; when `process` returns, `OutputInv` says the output queue was emptied before the writer's flag was
cleared, so what passed is written.

*Verdicts.* `VerdictsAsSingleThreaded` compares the engine with `SingleThreaded`, a function defined by recursion over
the input. The prover has no rule that takes a predicate of natural numbers, but `WFMin` of the library
speaks of sets, so that any set of numbers has a least one (`LeastNumber`); with it `TablesExist` shows that the
recursive definition has a value for any input, and `FlowsAfterRuns` that `FlowsAfter` is it. The
entries are not equal: the loop of `main_working.cpp` inspects a flow again where the fast path has it
marked classified, and may have its name unset where the other has one. `SameEntry` says what the two entries agree
on and when they may differ, and `PacketSame` that a packet keeps it so. `FlowsMatch` then says: a fast path that has
processed the first packets of a flow, up to any place of the input, has the entry the loop has there. That those it has
processed are the first is `ConversationsStayInOrder`, that no other fast path has any is `FlowsArePinned`.
`FlowAssumption` is what `src/types.cpp` guarantees: a name that is not empty is taken for some application, `UNKNOWN`
excepted (lines 63-195 end in `HTTPS`), and the empty one for `UNKNOWN`. What is compared are the flows on which the
engines look at the same packets (`comparable`).

`FastPathProofs` proves, for any traffic and names, any table size and any limit on repeated
patterns (`DispatchAssumption`, `TrackerAssumption`: the table holds one record at least;
`PacketsAssumption`: packets are packets; `PatternsAssumption`):

* `TypeCorrect` - `Spec => []TypeOK`;
* `FlowsHaveOneRecord` - `Spec => []OneRecordPerFlow`;
* `EvictionSparesCurrent` - `Spec => []CurrentInTable`;
* `StandingRulesEnforced` - `Spec => []StandingRuleEnforced`;
* `BlockedStaysBlocked` - `Spec => BlockedUntilClosed`;
* `DirectionsAreCounted` - `Spec => []DirectionAccounting`;
* `ConnectionsAreCountedOnce` - `Spec => []CountedOncePerOpening`;
* `FirstPayloadsDecide` - `Spec => []FirstPayloadDecides`.

`TableInv` is about the table: every record is in the place of its flow, so by `OneKeyPerFlow` a
flow has no second one; and it was last seen by now, so the one just looked up is not among the
oldest. `VerdictInv` is about `shouldBlock`: once a kind of rule has been looked at without a
match, no rule of that kind has stood since the packet came, and a connection that is being judged
is not blocked. Both are inductive together. `CountInv` says of every record that its
counters are the numbers of the packets of its flow, by direction, up to the last one tracked; that the two
directions share nothing is arithmetic on cardinalities, equal addresses included. `OpenInv` makes room for what is
still to be counted: the connections counted so far and those in the table that can yet be counted are together no more than
those seen and the packets that closed one; a FIN on a record is a packet in the log, so that the
ACK behind it is a closing. `TakenInv` says of a record none of whose packets closed it what its state says of
the payloads so far: CLASSIFIED that the first telling one decided, NEW and ESTABLISHED that there was none, BLOCKED that
either may be.

`RuleFileProofs` proves, for any rules, names and number of changes by other threads
(`RuleFileAssumption`: addresses have four bytes, the names of the applications that can be blocked
are among those that are known, a pattern has a `*` and a name, and what is left of one, has none, and the rules at the
start are finitely many; `PatternsAssumption`):

* `TypeCorrect` - `Spec => []TypeOK`;
* `StandingRulesComeBack` - `Spec => []StandingRulesSaved`;
* `QuietSaveIsIdentity` - `Spec => []QuietSaveIsExact`;
* `CutSaveLosesOnlyTheEnd` - `Spec => []CutSaveLosesTheEnd`;
* `ClearAllEndsThem` - `Spec => []ClearAllClears`.

These are about what a restart finds, and what it finds was decided by many steps before it. `FileInv` says of the
file at any place of the save: every rule in it follows the header of its section with none but lines of its kind
between; before a rule come all rules of earlier kinds that stand since the call (`InOrder`); every line is
whole and its rule was in force at some moment, the last line of a file cut short excepted; the rules that stand and whose kind has been
written are there; and the patterns are in consecutive lines in their order. `RulesInv` says that what stood
throughout stands now and what stands now is remembered. Changes by others only shrink the former and grow the latter, which keeps
all of it, and so does cutting the file, where `PieceType` says that what is left of a line is no rule of a later
kind. `WholeFileRead` then goes through the lines: the section the reader is in
is that of the last header, so a rule line is taken (`RuleTaken`), and `ReadInv` says that the rules in
force after the restart are those of the lines. Addresses go through `FourBytes`. The reading is defined by recursion
and handled like the loop above. `ClearInv` says which kinds of rules `clearAll` has yet to reach.

`InspectionProofs` proves, for messages of any size, payloads that end anywhere in them, and anything in memory
behind (`MessagesAssumption`: hellos, requests and queries are as `WireFormats` says; of damaged and stray ones only that they
are made of bytes):

* `PayloadOnly` - `Spec => []ReadsOnlyThePayload`;
* `SameOpinion` - `Spec => []EnginesAgree`;
* `HelloNames` - `Spec => []HelloNeverMisnamed`;
* `RequestNames` - `Spec => []RequestNamedAsFarAsItGoes`;
* `QueryNames` - `Spec => []QueryNamedByWholeLabels`.

`InspectionInv` is simple: an opinion is the outcome of the payload and what lies behind it, and neither changes. The work is in the
extractors. Two memories `Agree` when they have the same bytes up to a length, and `SNIAgrees`, `HostsAgree` and
`QueriesAgree` say that an extractor called with that length returns the same of both: every position it decides by is
checked against the length before. That gives `PayloadOnly`, and lets the other theorems speak of the whole message cut at the
length instead of the payload. The loops over extensions and labels are recursive functions; `WalksExist` and
`SpellsExist` show that they come to an end wherever they begin, again with `LeastNumber`. `InHelloExtensions` and
`QuerySpelled` then go through the parts of a message from the last to the first: what the loop finds from an extension
on is the name or nothing, and what it spells from a label on is the rest of the name up to the last label that is
there as a whole. `RequestNamed` is about the first hit: an earlier `host:` has an empty line and gives nothing
(`BlankLine`), a later one cannot lie in the blanks before the host. `SameOpinion` needs that no name comes
out of a payload shorter than an engine's own limit: a `host:` cannot begin within the method (`HostBehindMethod`), so
a request that names a host has 11 bytes at least, which is what `classifyFlow` asks for.

## What is only model-checked

Liveness is beyond the prover, which has no rules for ENABLED and fairness: `TimedPopReturns`, the progress
`ImplementsBoundedQueue` promises, and that the call returns, which `ImplementsPacketFilter` adds to
`EngineFilters`. All invariants that the passing runs check are theorems. The properties of the violating
runs are false and have no proof. The table of `AppNames` is text, which the provers do not look into: that no entry is
called `UNKNOWN` is proved (`SomeApp`), which entry a name hits is left to TLC.

Facts about recursive functions over the input are proved by taking the least number for which they fail, as above;
the induction rules of the library, which take an operator as a parameter, cannot be used.

## Findings

* `modular_stop`: `DPIEngine::stop()` clears `running_`, which is what the writer polls,
  before it stops the other stages. The writer can leave at once on an empty queue. If
  what the fast paths then push fills the queue, a fast path blocks in push and the join
  never returns, for `output_queue_.shutdown()` comes after it; if it does not, it stays in the
  queue though it is counted as forwarded. `dpi_mt.cpp` clears its flag last, and `mt_engine`
  shows `ImplementsPacketFilter` to hold there.
* `modular_reuse`: a second `processFile` on the same engine pushes into queues that are
  still shut down; everything is discarded silently.
* `fastpath_blocked`: a RST or FIN overwrites the state BLOCKED before that is tested, so
  a packet of a blocked connection is judged by the rules again and can be forwarded.
* `capture_swapped`: `PcapReader::open` converts the header of a capture of the other byte
  order in place, but not its magic number, and the engines write this header out. The
  output says that its numbers are reversed and they are not: no record of it can be read.
* `app_rule`: the table of applications is searched in order for substrings anywhere in a name, and
  `x.com` and `t.co` come before the entries of Netflix and Microsoft: `www.netflix.com` and `www.microsoft.com` are
  Twitter to all three engines. They are the only sites of `generate_test_pcap.py` with this fate; likewise `yt3.ggpht` of
  YouTube is never reached, behind `ggpht` of Google.

Observations without a run, in the model all the same: the sleeps before the stop
may be too short, packets then stay in the queues and the totals of the report do not add up;
with as many load balancers as each has fast paths, one fast path of every pool gets all its packets
(`OneFPOfEachPool`), unlike the example in `include/load_balancer.h`;
a packet that at every moment of `shouldBlock` matched some rule is forwarded when the matching
rule is replaced by one of a kind already looked at; a save that ends early leaves a file
without the rules that were in it before; the padding of a short Ethernet frame counts as payload;
a payload on a CLOSED connection takes it to CLASSIFIED and counts it again; a pattern
blocked twice is still enforced after one unblock; the modular engine marks a connection
classified by its port, so a later ClientHello is not looked at (`FirstPayloadDecides`), where `dpi_mt.cpp`
says it must be; `host:` is found anywhere in a request, in its path too; a host name
cut by the end of a segment counts as the whole name; the modular engine takes any payload to or from
port 53 for a query if nothing else fits, and one of 50 bytes or more for a ClientHello on any port, a query
whose id and flags begin like a record (`16 03 01`) included (`QueryNamedByWholeLabels` and
`HelloNeverMisnamed` leave these out); the two older engines differ on names in UDP packets and on
empty names (`comparable` leaves those flows out of the comparison).

## Abstractions, and what is not modelled

* Outside `Inspection` extractors are represented by what they return, and outside `Capture` so is the parser.
* `sniToAppType` is a constant of `FastPath` and `FlowRules`; its table is in `AppNames`.
* The bytes of an address are a number, the hash's mixing a constant.
* Time in the tracker is a count of packets: later packets read a later clock. With
  a coarser clock two records can be equally old.
* Rule changes go through the engine's own calls. A file that `saveRules` did not write, and the exception
  of `std::stoi` on it, are not modelled.
* Statistics enter where a property needs them (forwarded, dropped, processed,
  application counts); the other counters and all reports are output only.
* `GlobalConnectionTable` only reads tables of joined threads. The QUIC extractor,
  `extractExtensions`, `closeConnection` and `clear` have no caller. Command lines, `main_simple.cpp`, the unit tests
  and the scripts carry no logic of the system.

## Plan

Order of the work, the most important behaviour first:

1. the queue, its abstraction and its proofs - done;
2. the pipeline and both engines around it - done;
3. verdicts against the single-threaded engine - done;
4. fast path, tracker and rules under concurrent changes - done;
5. persistence of rules, crashes during a save, PCAP reader and packet parser - done;
6. the extractors as pure algorithms over bytes, and the three engines compared on what they find - done;
7. what one engine promises its caller (`PacketFilter`), and the self-contained engine shown to
   implement it - done;
8. proofs of types, flow identity, `FlowPinned`, `NoJobDiscarded`, of the refinement of
   the pipeline by the engine with flow tables, of the fast path under changing rules, and of the steps of `ThreadSafeQueue` against `BoundedQueue` - done;
9. proofs of order and of packets in one place, of the steps of the self-contained engine against `PacketFilter`, of its verdicts and counts
   against the single-threaded loop, of the rest of the fast path, of the files of packets, and of saved rules - done;
10. proofs of the extractors for messages of any size: what they read, what they find in messages that are whole or
    cut, and that the engines agree - done.
