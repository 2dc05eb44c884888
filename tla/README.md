# Verification of AiCS NetOps: from an edge log line to the operator's screen

TLA+ models of the programs that turn a firewall log or a replayed data set into
facts, alerts, suggestions and the picture an operator sees, with TLC runs on
small instances and TLAPS proofs for every value of the constants. The
reference is the source: each definition stands for the lines `PROJECT.json`
names under `map`. Source paths below are relative to the repository root.

## 1. The system

```
 FortiGate log --> fortigate-ingest --\                                     /--> alerts_sink --> hourly JSONL
                                       >--> events-*.jsonl --> edge_forwarder --> raw topic --> correlator --> alert topic --+--> alerts_store --> ClickHouse
 LCORE-D rows  --> lcore_streamer  ---/                                     (gate, rules)   \--> aiops_agent --> suggestion topic
                                                                                 \--> dead letter topic     and suggestion JSONL
 JSONL + config --> runtime gateway --> event stream --> useRuntimeSnapshot --> operator console
```

Everything between programs is a file or a Kafka topic. Each program is one
process with one loop; concurrency comes from the processes, from the Kafka
client's sender thread, from rebalances, from crashes, and from whoever else
touches the files: the firewall and logrotate under the ingest, the migration
beside the agent. The gateway has a lock around its cache; the browser hook has
several timers and callbacks over shared state.

### Components, state, operations

| Component | State it keeps | Operations | Hard behaviour | What makes it correct |
| --- | --- | --- | --- | --- |
| Edge forwarder (`edge/edge_forwarder/main.py`, `common/infra/jsonl_checkpoint.py`) | `file_offsets` in memory and on disk, position in the open file, records queued in the producer | scan, open, read a line, send, flush, save, prune | the writer appends during the read; truncation and removal; asynchronous send; crash between send and save | a saved offset passes only facts whose fate is known; no fact twice in one life; every complete line settles |
| Consumer loop of the core programs (`_build_consumer`, `_commit_if_needed` in three files) | per partition position, committed offset | poll, commit of all positions, rebalance, reset policy | `commit()` covers every partition; failed commits are only logged | before a committed offset nothing is open; offsets never move back |
| Quality gate (`core/correlator/quality_gate.py`) | `_seen`, `_order` | accept or reject | bounded memory; lost on restart | the two structures agree; a duplicate within the window is rejected |
| Correlator loop (`core/correlator/main.py`) | gate, engine, record in hand | reject, alert, publish, dead letter, commit | partial publication; timeout with a late success | a committed record leaves a trace; remembered ids were handled; the topic drains |
| Rule engine (`core/correlator/rules.py`) | deny and bytes windows, last alert time per key, fault state per entity | process one event | event times in any order | alerts keep their distance; no burst is silent; windows are exact in order; one alert per fault episode |
| Alerts store (`core/alerts_store/main.py`) | ClickHouse rows | insert, commit | insert that fails or whose answer is lost; redelivery | committed alerts are stored or excused; rows repeat once per redelivery |
| Alerts sink (`core/alerts_sink/main.py`) | hourly file | append, dead letter, commit | half-written line; unsynced file and node loss | committed alerts are readable, dead letters, or in a named exception |
| AIOps agent (`core/aiops_agent/service.py` and its queue, worker, aggregator, sink) | cluster timeline, cooldowns, request queue, output file | reason over an alert, publish, append, observe, reason over a cluster, commit | commit after half a success; a request left in the queue; redelivery counted twice in a cluster | a suggestion answers its own request; committed alerts are advised or excused; no burst without a cluster, clusters a cooldown apart |
| Alert reasoning runtime (`core/aiops_agent/alert_reasoning_runtime/`) | none across calls | cut a batch into windows, score and label them, choose representatives, spend a budget; policy and gate for one alert | missing and unordered times, ties, learnt gaps, coverage of a greedy choice, several ladders over the same alert | windows partition the batch; a fault stays in evidence; the budget is kept; the ladders agree |
| Evidence, hypotheses and runbooks (`evidence_pack_v2.py`, `hypothesis_set.py`, `review_verdict.py`, `runbook_draft.py`) | none | build the parts of a suggestion from a bundle | thin evidence, empty answers, gate refusals | the approval boundary is in every record; verdict and draft agree |
| Legacy migration (`legacy_upgrade.py`, `migrate_legacy_runtime.py`) | the hourly files it rewrites | read, truncate, write | the agent appends meanwhile; torn lines; a kill | no suggestion is lost but in the two stated ways |
| FortiGate ingest (`edge/fortigate-ingest/bin/`) | inode and offset of the active log, completed files | list and read rotated files, tail, flush, stop | rotation, compression, deletion and inode reuse between any two system calls; crash between write and flush; failed writes | no line is forgotten, a line is repeated at most by the file of its one rotation and by that file's `.gz`, rotated files drain |
| LCORE streamer (`edge/lcore_streamer/main.py`), feature preparation (`common/data_features/adaptive.py`) | row checkpoint; a plan for the columns | plan, stream rows, passes, reset | kill between checkpoints; ambiguous columns and labels | a run of the replay is exact; it ends for a reason; faults are flagged |
| Runtime gateway (`frontend/gateway/app/`) | cached snapshot with a lock and an age | load, answer, stream a delta, heartbeat | alerts read before suggestions while both grow; torn lines; midnight; restart | the newest is first; the feed is complete |
| Snapshot hook (`frontend/src/hooks/useRuntimeSnapshot.ts`) | shown snapshot, connection, three timers | fetch, connect, retry, mount, unmount | slow fetch after a newer push; timers racing | one connection; the page catches up |

`PROJECT.json` lists the other parts (benchmarks, rendering of the console, GPU
gateway, configuration) with the reason each is left out, and under `hazards` what in this code is hard to test, each at
its line with the properties that watch it. Where a property excuses the worst
outcome, because the code has it, the hazard says so and what is left to catch.

## 2. Modules

| Module | Models | Used by |
| --- | --- | --- |
| `EdgeForwarder` | the forwarder, the writers of its files, its producer | `MCEdgeForwarder`, `EdgeForwarder_proofs` |
| `OffsetLedger` | abstract: what a core consumer promises about offsets | refined by `Correlator`, `AlertsStore`, `AlertsSink`, `AiopsAgent` |
| `ConsumerGroup` | the consumer as the programs use it (library and broker are external) | `Correlator`, `AlertsStore`, `AlertsSink`, `AiopsAgent`, `ConsumerGroup_proofs` |
| `QualityGate` | the duplicate gate | `Correlator` |
| `Correlator` | the correlator's loop | `MCCorrelator`, `Correlator_proofs` |
| `RuleEngine` | the three rules | `MCRuleEngine`, `Correlator_proofs` |
| `AlertTopic` | what the two consumers of the alert topic share | `AlertsStore`, `AlertsSink` |
| `AlertsStore` | the store's loop and its table | `MCAlertsStore`, `AlertConsumers_proofs` |
| `AlertsSink` | the sink's loop and its file | `MCAlertsSink`, `AlertConsumers_proofs` |
| `ClusterAggregator` | clusters of alerts | `AiopsAgent` |
| `AiopsAgent` | the agent's loop, its queue, topic and file | `MCAiopsAgent`, `AiopsAgent_proofs` |
| `EdgeIngest` | the ingest's loop, the firewall and logrotate | `MCEdgeSources`, `EdgeSources_proofs` |
| `AdaptivePlan` | the plan for an unknown table and the event of a row | `LcoreStreamer` |
| `LcoreStreamer` | the replay of a table | `MCEdgeSources`, `EdgeSources_proofs` |
| `SuggestionParts` | evidence pack, hypotheses, verdict, draft; upgrade of old records | `RuntimeReader` |
| `RuntimeReader` | snapshot of the runtime files, delta of two snapshots | `Console` |
| `Console` | files, migration, gateway, stream and hook together | `MCConsole`, `Console_proofs` |
| `Places` | parts of a sequence by their places (`At`, `Picked`), sorting by keys (`Ordered`) | `RuleEngine`, `SuggestionParts`, `Representatives` |
| `Representatives` | representative alerts of a window | `IncidentWindows`, `ServingGate` |
| `IncidentWindows` | keys, gaps, cuts, scores and labels of windows | `Admission` |
| `ServingGate` | topology gate and self-healing policy for one alert | `Admission` |
| `Admission` | from a batch of alerts to the windows a model is asked about | `MCAdmission`, `AiopsAgent_proofs` |

Modules that are proved about together, or run together, have actions with the
names of the module they come from: `RuleSpec` of the rule engine, `SinkSpec` of
the sink, `StreamerSpec` of the streamer, `AdmissionSpec` of the admission.

Definitions whose comment begins with *Mutant of* are not part of the models.
They are plausible bugs of the definition they precede; `PROJECT.json` pairs
each property with one under which TLC finds it violated.

### EdgeForwarder

`mem` is `file_offsets`, `saved` the checkpoint file, `cursor` is `fp.tell()`,
`sent` is `lines_sent`. One action per step of `main()`: `Scan`, `Pick` (size
check, reset, seek), five ways to read a line, `BatchSave`, `FlushFile`,
`SaveFile`, `Prune`, `Sleep`. `send` only queues (`inflight`); `Deliver` and
`Expire` are the sender thread, and `flush` waits until every record has an
answer, whichever it is. The writer of the files runs at any moment.

- A line is two units, head and tail. A reader that meets the head alone sees
  invalid JSON. A head that happens to be complete JSON is not modelled.
- Truncating or removing a file starts a *generation*. The code has none;
  `gen` inside an offset is history and lets a property say "an offset measured
  in an earlier incarnation".
- Read-ahead of the file object is not modelled: a truncation under an open
  file is seen by the next read.
- `PickVanished` stands for a path that goes between glob and open. `Crash`
  stands for the death of the process and for every exception out of the loop,
  a JSON value that is not an object and a failed save included.
- A checkpoint that cannot be read counts as an empty one, as `load_checkpoint`
  does.

### ConsumerGroup, OffsetLedger

Records are handed out one at a time; `position[p]` has already moved when a
record is handled, so a `commit()` without arguments covers it and, for the
other partitions, whatever has been taken there. A failing commit is logged and
changes nothing. `Rebalance` is met between two records, `Assign` after a crash
too; a partition resumes at its committed offset or, without one, where
`auto_offset_reset` says. The model has one member owning all partitions.

`OffsetLedger` says the same without any handling: take, settle, commit only
what is settled, give up, resume. `LedgerSpec` in the correlator, the store and
the agent instantiates it with `settled` = the locations whose handling has
ended; it is checked as a property and proved. `SinkLedgerSpec` says the same of
the sink and is proved only: its loop is that of the store with another outcome.

### QualityGate, Correlator

The gate's set and queue are both kept because they must agree. Its code evicts
after inserting; `Remember` is the net effect. The correlator's `pc` says what
is next for the record in hand: publish, dead letter, commit. In this module the
rule engine is any function of its history: it raises, or returns up to
`MaxAlerts` alerts. A failed publication may have delivered the alert, because
`get(timeout=30)` can give up before the producer does. A record that is JSON
but not an object ends the process and is met again; it is not modelled.

### RuleEngine

`Process(e)` is `process(event)`: the three rules in turn, none of which reads
what another writes. Both window rules share their definitions: an entry is
`<<time, weight>>`, with weight 1 for a deny. `Pruned` removes entries from the
old end only, so a late entry can outlive its window behind a newer head, as in
the code. `lastAlert` is shared by all rules under different keys. A fault may
be labelled with the name that also means healthy (`_normalize_scenario` maps an
empty label to it), so `Healthy` may be a scenario. An event whose time does not
parse changes nothing. `entered`, `marks` and `raised` are history. The module
is one life of the engine: a restart of the correlator begins at `Init`.

### AlertsStore, AlertsSink

`rows[loc]` counts the rows of the record at `loc`; a failed insert may have
stored it. The sink's file is a sequence of whole lines and fragments: an append
that raises may leave a fragment without newline, to which the next line is
glued. `WriteBack` and `NodeCrash` stand for the kernel: the append is not
synced. One hourly file is modelled.

### ClusterAggregator, AiopsAgent

`timeline`, `lastEmit` are the aggregator's two dictionaries; `Observed` is
`observe(alert)`. Times are the alerts' own and may run backwards; an alert
whose time does not parse is read at the wall clock, so `Stamps[a]` is the set
of times `observe` may find. The timeline is cut from the old end only, which is
why an entry that came late can stay in it, and why `ClustersAreSound` speaks of
the window only for members that came in order. `observed` and `triggers` are
history and end with the process, as the aggregator does.

The agent's `pc` follows an emission: `infer`, `publish`, `append`; then
`observe`, perhaps a second emission of cluster scope, then `commit`. The
request an emission is for (`request`), the queue and the request the provider
was asked (`answered`) are three variables, because the code has three: it
enqueues one request, asks about the oldest in the queue, and builds the
suggestion for the one it enqueued. A suggestion is the pair of the two, and
`AnswersMatch` says they agree.

- A publication that fails may have been delivered; an append that fails may
  leave a fragment (`torn`), to which the next line of the same hour is glued.
  The loss of a node is in `AlertsSink` and not repeated here.
- `should_commit` is true if either suggestion got through, so a cluster
  suggestion stands in for the failed suggestion of its last alert.
  `CommittedIsAdvised` therefore asks for a suggestion *of either scope*. An
  alert given up because both failed is `abandoned` by the loop and covered by
  its successor's commit.
- The aggregator sees an alert before the commit and knows nothing of offsets:
  a record handed out again after a rebalance is counted again, one handed out
  again after a crash meets an empty aggregator. `CountedOnce` says there is no
  third way.
- The context lookups return a default when ClickHouse fails and change no
  state. An exception that leaves the loop (a JSON value that is not an object)
  is a `Restart`.

### EdgeIngest

Lines are numbered as they are logged and are one unit long; an inode holds a
sequence of them. `dir` is the directory, `ck` and `saved` the checkpoint in
memory and on disk, `pc` the next system call of the loop. The firewall and
logrotate are external: logging, rename and reopen, or copy and truncate,
compression (a new inode under a new name), deletion of the oldest, and the
passing of a file's minimum age, each possible between any two calls of the
loop. A freed inode is the next to be given out, so an inode comes back.

- An event and a dead letter are treated alike by the loop, so `out` holds a
  line that is in either file. A failed write is only counted: the line is
  `lost` or on disk all the same.
- `lost` also holds lines deleted with their file unread and lines logged to a
  file that has already been read to its end (`AlreadyRead`), which rename
  rotation allows for a moment.
- A rotated file that vanishes between `stat` and `open` ends the process
  (`VanishedBeforeOpen`): the exception reaches `main`, which saves and exits.
- Repetition is normal: a line that was tailed is written again when the file of
  its rotation is read whole (`main.py:119`), since marks name files and not
  lines, and once more from that file's `.gz`. `ThreeCopiesAtMost` says that one
  life of the process adds nothing to that: a line has the file of one rotation,
  and no name gives it twice. A restart reads again from the saved checkpoint,
  so the bound counts anew with each life.
- The completed list is cut at its limit; an evicted file that is still present
  is read again on each pass. The property names that exception and does not
  bound what follows from it.
- A reused inode with a longer file keeps the old offset, and the tail skips
  what lies before it; the lines are not forgotten, because they are read when
  the file is rotated. `NothingForgotten` and `RotatedDrains` say so.
- A chunk read from the active file may be cut off: the tail stops after two
  seconds, or drops the rest when another file has taken the active name.

### AdaptivePlan, LcoreStreamer

A cell is a record of what the code looks for in it, a column of what its name
contains; scores are in thousandths. `AdaptivePlan` is the ranking of columns
for the roles of label, time, entity and metric, and the normalisation of
labels. `LcoreStreamer` is `main`: the plan is built once, rows become events
under it, `progress` is saved every `CheckpointEvery` rows.

- A generated run id is a time in whole seconds. A start within the second of an
  earlier one has the same id again, if nothing was saved in between:
  `ReplayIsExact` holds all the same, because without a saved id fewer than
  `CheckpointEvery` rows have been written (`Unsaved`).
- With `reset_output` each start truncates the output and starts at row 0, the
  starts after a kill included.
- A replay with `--loop` that starts behind the last row writes nothing in its
  first pass, takes that for an empty input and ends. `EndsForAReason` allows
  exactly this and the empty input.
- A row labelled with blocked ICMP, or with a text the substring rules do not
  know, is sent as healthy although its scenario is a fault; the first is
  stated as an exception of `FaultsAreFlagged`.

### SuggestionParts, RuntimeReader, Console

`SuggestionParts` takes a bundle as the set of its fields that carry a value,
with the counts and flags the builders branch on. As in the code, a number is a
value even when it is zero; the verdict "accepted" and the status "rollback
missing" exist and no input reaches them. The upgrade of a record rebuilds the
parts from what the old record kept, which is less: recent policy hits are gone.

The constants of `Console` say what the files may hold: `Written` is what the
agent writes today from a head, a bundle and an answer, `Legacy` what an older
one wrote, `Staged` adds what the migration makes of a legacy record, and every
scenario draws its lines from these, the alerts and `Torn`, which is no record.

`RuntimeReader` is the gateway's reading: the newest files of each directory,
line by line, the day shown, the record lists, the feed, the panels, and
`StreamDelta`, the delta the stream sends. A torn line ends the reading of its
file, and hides the lines behind it until the file is rewritten: that the next
line is glued to a fragment in the file and follows it in the model makes no
difference, to the reader or to the migration, which ends at the fragment. A line
read while it is being written is not modelled. The delta
compares some fields only; two snapshots that differ elsewhere count as equal.

`Console` puts them together with the appends of sink and agent, the migration
(read, truncate, write: three steps), the cache with its lock and age, the event
stream (one generator, with idle cycles and heartbeats), and the hook.

- The first fetch and the stream both set the snapshot. A slow answer replaces
  a newer streamed one, and the stream, which compares with what it sent, does
  not send it again: history variable `overtaken`, the exception of
  `ConsoleCatchesUp`.
- A failed fetch sets the state `fallback` even while the stream is live, until
  the next envelope.
- The handshake timer belongs to a connection; the model keeps the set of
  running timers and of open connections, so that a timer that outlives its
  connection can be seen. `OneConnection` counts open connections and retries.
- Three of the library's guarantees are external: an event source that breaks
  calls `onerror`, a closed one calls nothing, envelopes arrive in order.

### Representatives, IncidentWindows, ServingGate, Admission

`Admission` runs `build_incident_windows` as a loop with one action per alert
(join or split), then the ordering of the windows, then
`select_windows_under_budget`: the safety floor, and the greedy choice by uncovered
risk per call. The functions it calls are operators of the other three modules:
learnt gaps (quantiles as exact fractions), keys in all modes, risk score and
atoms, window and weak labels, evidence targets, representatives by greedy
coverage. `ServingGate` has the two decisions about a single alert.

`BuildWindow` is the code's `_build_window`: `Described` says what a window is
of its alerts, and `Risk` is joined to it as `window.update` does. Sorting and
filtering are those of `Places`, which name the element at a place and can be
reasoned about; `Weight` counts an atom as often as it weighs, which is a sum
without recursion.

- An alert without a path signature has a path made of its interfaces in the
  windows (`PathOf`) and none in the choice of representatives, as in the code.
- Windows are ordered by their buckets in the fixed mode and by their starts in
  the others. The order among equals (scenario, shape, text of the id) is left
  to the data. Gain per call is compared as a multiple of 27720, which every
  cost up to the twelve ids of a window divides.
- A group whose first alert has no parsable time has no length limit: its
  duration stays zero. `WindowsPartition` names the exception.
- The weak label may say the representatives suffice while they leave out every
  alert of high value; `FaultStaysInEvidence` therefore speaks of the targets
  and of admission, not of the representatives.
- The greedy loop stops when its best window does not fit, even if a cheaper one
  would. Calls beyond the budget come from the floor or from a first window
  larger than the whole budget, and the code counts both as extra calls of the
  floor.
- `HIGH_VALUE` is listed in several files with different members; each list is
  modelled where it stands, and `GatesAgree` says where they may not disagree.

## 3. Runs

| Run | Instance | Shows |
| --- | --- | --- |
| `forwarder` | two files of two lines, one malformed, one filtered; the second truncated or removed once; one crash; outage possible; batch of 1 | `CheckpointAccounted`: a saved offset never passes a fact that is only queued. `NoResendInOneLife`. `LossHasCause`: torn line, expired delivery, or truncation regrown past the offset. `EveryLineSettles` under `FairSpec` |
| `forwarder_torn` | one file, no fault at all | a violation, see 6 |
| `correlator` | one partition of three records out of two events, junk and an invalid event; memory of one id; two alerts; one rebalance or crash; reset to latest | duplicates far apart, committed records leave a trace, refinement of the ledger, `Drains` under weak fairness of the loop |
| `rules` | four events, six times, seven shapes of event (one or two rules met) and one without time; windows 2, thresholds 2 and 3, cooldown 3 | distance, completeness and exactness of the windows, one alert per episode |
| `rules_transitions` | the same, without the fault named healthy | a violation, see 6 |
| `store` | partitions of two and one records, two alerts and junk; two rebalances or crashes; reset to latest | rows per delivery, committed alerts stored or excused, refinement |
| `store_commit` | one partition of two records, both alerts, no rebalance and no crash | a violation, see 6 |
| `sink` | two partitions, one alert and junk; one fault | committed alerts kept or excused |
| `agent` | one partition of three records out of two alerts of one key with two possible times each, one alert of another key, a minor alert and junk; window, cooldown and minimum 2; one rebalance or crash; reset to latest | answers match requests, committed alerts advised or excused, clusters complete and sound, each alert counted once per delivery, refinement |
| `sources` | ingest: three inodes, two lines, two rotations of either kind, three moves, a completed list of one, one fault. Replay, apart from it: tables of at most three rows over sixteen labels, all kinds of arguments, checkpoint every two rows, two passes, three kills | no line forgotten, at most three copies of a line in a life, replay exact, ends for a reason, faults flagged, rotated files drain (674 000 states) |
| `console` | two files a day, one or two records to come, a torn line, a migration, a kill, midnight, two breaks or timeouts or restarts; records of every shape; feeds longer than their limits | one connection, newest first, guarded records, migration loses nothing, the page catches up (328 000 states) |
| `admission` | 5688 batches: all triples of six kinds of alert in six modes and four timings, stories of six alerts, several budgets, limits and strategies | windows partition, faults stay in evidence, budget kept, ladders agree (58 000 states) |

**Why the bounds are enough.** The forwarder needs a second line to have
something behind a mistake, a second file for the batch save of one file to
carry the offset of another, one generation change for an old offset to meet new
contents, and one crash to read the checkpoint back. Batch 1 makes the save fall
inside a file. A gate memory of 1
evicts at the second event, three records give duplicate, eviction and return;
the code's 10000 differs only in the length of the window. Two partitions are
what a commit that covers another partition needs. The rule engine needs two
events to cross a threshold, a third for a late or boundary entry and a fourth
for a second burst after a suppressed one; six times around a window of 2 and a
cooldown of 3 put events before, at and after both boundaries. The agent needs
two alerts for a cluster and a third for a suppressed one; a rebalance hands one
out again, which makes the fourth observation that a wrongly renewed cooldown
needs to show. One failed emission followed by another is what a request left in
the queue needs.

The ingest needs a second rotation to evict a mark from a list of one, a third
inode to compress a file while two others are in use, and a second line to have
something behind an offset; three moves allow rename, reopen and one
compression or deletion between them, which is what the reuse of an inode takes.
The replay needs a row behind a saved one and a row beyond (three), and a second
pass after which a third start meets a finished checkpoint. The console needs a
second file for the order of names, a suggestion appended during a fetch, a
migration or a reconnect, and two faults for a retry that fails; a window of
feeds above the limits makes every cut happen. Three alerts give a window with
two gaps or two windows and a boundary; the stories of six make the learnt gaps
differ from the given one and fill a window past its representatives.

`CHECK_DEADLOCK FALSE` appears where the bounded supply of records, events,
lines or scenario steps ends; the loops themselves never stop.

**Fairness.** `EdgeForwarder!FairSpec`: weak fairness of the loop (it sleeps but
never waits for an event that may not come), of the producer's answers (retries
end, each record is answered), of the restart (the pod is restarted by its
deployment). Nothing is assumed of the writer and nothing forbids crashes, whose
number is bounded. `Correlator!FairSpec`: weak fairness of handling, since every
send waits at most its timeout; new records, rebalances and crashes are not
assumed. `sources`: weak fairness of the ingest's loop, whose calls never block
and whose process is restarted by its supervisor, and of the passing of time
that makes a rotated file old enough; nothing of firewall and logrotate.
`Console!FairSpec`: weak fairness of what event loops and timers run once it is
ready: a load ends, a request takes the free lock, the stream is served and
wakes, the cache expires, an envelope on the wire arrives, a broken connection
calls its handler, the retry timer fires, the gateway is restarted. The answer
to the first fetch may be late for ever, and nothing is assumed of the writers,
the migration or the handshake timer.

## 4. What is proved

All theorems are checked by TLAPS with no bound on files, lines, partitions,
records, events, crashes. Each module states the inductive invariant as a
conjunction of named parts; the parts TLC can enumerate were checked on the
instances of section 3 before they were proved.

**EdgeForwarder_proofs**

- `TypeCorrect`, and `CheckpointSafe`: `Spec => []CheckpointAccounted`. The
  property is about the disk and is not inductive; what is saved comes from
  memory, memory from the position in the open file, and both run ahead of the
  broker. The invariant follows a line through the three places, counting a
  queued line as handled (`MemHandled`, `CursorHandled`), and adds that nothing
  is queued outside the reading of a file (`QuietBetween`), which is what the
  flush before each save gives, and that no offset comes from a generation to
  come (`Generations`).
- `LossesExplained`: `LossHasCause`, on top of that invariant and
  `LossGenerations`: a later truncation only makes an overrun line older.
- `SendsOnce`: `NoResendInOneLife`. What one process has sent of a file's
  present incarnation lies behind the offset in memory and behind the position
  (`SentIsBehind`). It stays so because offsets lie within the file
  (`OffsetsWithin`), so the size check does not reset them, and because a file
  that is read is present and listed (`OpenIsPresent`, `FromTheList`), so the
  pruning does not drop them.

**OffsetLedger_proofs, ConsumerGroup_proofs**

- `LedgerSafe`: only the record in hand is open behind a position, no position
  is behind a committed offset, everything before a committed offset is settled.
  `OffsetsNeverRetreat`: the action property `CommitsAdvance`. Both assume
  `None \notin Partitions`. The strengthening is that a record in hand has been
  taken.
- Lemmas on the consumer: each of its actions keeps `GroupInv` (types, no offset
  ahead of the log, the record in hand taken) whoever the client is.

**AlertConsumers_proofs**

- `TypeCorrect`; `ImplementsLedger`: the store refines the ledger, from an
  invariant saying that offsets lie in the log, that a handling which only has to
  commit has ended, and that "stored" implies a row; `StoredOrExcused`: `Spec =>
  []CommittedIsStored`, obtained by reading `LedgerSafe` through the refinement
  mapping instead of proving the offset argument again.
- `RowsBounded`: `RowsPerDelivery`. A record whose insert is still to come has at
  most one row per rebalance or restart so far (`RowsPerFault`), since only those
  take a position back.
- `KeptOrExcused`: `SinkSpec => []CommittedIsKept`. Every record taken has a fate
  on disk, as a dead letter, or as one of the named endings (`TakenHasFate`,
  `CommittedHasFate`); no step but the crash of a node takes a trace away, and
  that step names what it took.
- `SinkImplementsLedger`: `SinkSpec => SinkLedgerSpec`. A written line, a dead
  letter and a record given up settle the record in hand; the strengthening
  (`SinkPromise`) says that a handling which only has to commit has ended, and so
  has that of every whole line of the file. A crash of the node therefore names
  only lines that were settled before, and is a resumption to the ledger.

**AiopsAgent_proofs**

- `TypeCorrect`; `SuggestionsAnswerTheirRequest`: the strengthening is that the
  queue holds exactly the request under way until it is answered and nothing
  otherwise, on every path out of an emission; `ImplementsLedger` on top of the
  consumer's lemmas; `AdvisedOrExcused` through `LedgerSafe` as for the store.
- `ClustersSound`: the last trigger of a key is its latest and the timeline's
  head is never expired at its newest entry.
- `BurstsAreClustered`: `BurstsMakeClusters`. An observation that is not in the
  timeline of its key has been put out of the window by a later time
  (`TimelineIsRecent`), and every emit time is that of a trigger. The members of
  a window are then counted against the places of the timeline.
- `AlertsCountOnce`: `CountedOnce`. As long as no position has been taken back,
  no timeline and no trigger holds a location twice and none holds the alert in
  hand before it is observed (`CountInv`).

The admission of the agent's alerts is proved in the same module, for any batch,
mode, gap, length, limit, strategy and budget. `WalkTypes` says what the walk
over the alerts has in hand: groups of alerts of the batch, an open window, and
windows that are each `BuildWindow` of something. What a window says of itself
therefore follows from the definitions once (`WindowIs`), the orders and the
learnt gaps included.

- `CuttingKeepsAll`: `WindowsPartition`. The ids of windows count them, or are
  the key of a group that is done (`DistinctWindows`); alerts of a group, of the
  open window and of a window have the key it goes by (`KeysKept`); the places of
  an alert in the windows, in the open one and in what is left of its group add
  up to those in the batch (`PlacesKept`), through the sorts too, because
  `Ordered` only permutes; what is left of a group is in the order of its times
  and the open window comes before it (`TimesKept`); and the open window keeps to
  the gap and the length it will be built with, while the last closed one of the
  group had a reason to be cut (`CutsKept`). That a learnt or a dynamic gap is
  never below the least one is what makes that reason survive (`GapNumbers`).
- `FaultStays`: `FaultStaysInEvidence`. Label, tier, recommendation and targets
  follow from the definition of a window with an alert of high value; that it is
  admitted from the invariant of the budget, by which the floor is complete when
  it ends.
- `BudgetKept`: `BudgetIsKept`. What is covered is what the selected windows
  cover, and the calls counted are at least the representatives shown
  (`SpendTypes`); no window is selected twice and each adds an atom
  (`SpendOnce`); calls beyond the budget have a reason (`SpendReason`). The
  greedy choice needs that a best window exists (`BestIsLeft`).
- `LaddersAgree`: `GatesAgree`. That the gate never asks for more than the policy
  is proved for any counts of similar alerts and cluster members
  (`GateFollowsPolicy`); that the policy follows the window's label, rung by rung
  of the label's ladder (`LabelCases`, `PolicyFollowsLabel`).

**Correlator_proofs**

- The loop: `TypeCorrect`; `DuplicatesAreFarApart`: the gate's queue is the end
  of the history of acceptances (`LastOf`), so an id met again has left it;
  `ImplementsLedger`, from an invariant saying that each outcome explains itself
  and each accepted event has been traced or is in hand; `TraceOrReason` through
  `LedgerSafe` and the refinement mapping.
- The rule engine: `RuleTypesCorrect`; `CooldownSafe`: alerts of one key are a
  cooldown apart whatever the order of events, because the kept time is that of
  the last alert (`LastIsLatest`); `EpisodesSafe`: at most one annotated-fault
  alert per run of a scenario, because the kept state is that of the last
  annotation (`StateIsLastMark`).
- `WindowsExact`: `InOrderWindowsAreExact`. A window holds the end of what
  entered under its key, what it has dropped is too old to count, and as long as
  the entries came in order it holds nothing else too old (`HoldsTheEnd`).
- `BurstsReported`: `BurstsAreReported`, for events in any order. The weight of
  the recent entries, wherever they stand, is at most what the window adds up
  to, and a rule that fires or is in its cooldown has an alert that answers for
  the time (`Answered`). Sums over a sequence are a recursive function; that they
  grow by the entry appended and are monotone in the weights is shown by
  induction from the well-foundedness of `<` on the naturals (`LeastNumber`,
  `Induction`), because the library's induction theorem cannot be instantiated
  here. For this proof `BurstsAreReported` speaks of the indices of the recent
  entries (`RecentIndices`, `RecentWeight`), which says what it said before.

**EdgeSources_proofs**

- `NothingIsForgotten`: `Spec => []NothingForgotten`, for any number of inodes,
  lines, rotations, moves and faults. A mark is a name and an inode, in memory or
  on disk. The strengthening says: an inode has one name and the active name is
  the writer's (`OneName`); a name once given or marked is never given again, so
  no mark can come to mean another file (`NamesAreUsed`); a line not settled is
  under some name (`Present`); what a marked file holds is settled
  (`MarkedIsSettled`); so is what has been read of the open one, and the open one
  is not the active one (`ReadIsSettled`). Every operation of logrotate has its
  lemma.
- `WrittenThriceAtMost`: `ThreeCopiesAtMost`. That no name gives a line twice
  needs an account of what has been read. Lines stand in files in the order they
  were logged (`LinesInOrder`). What was written from a rotated name is marked, its
  mark was evicted, or it is being read (`RotatedIsMarked`); what was written
  from the active name and is in the active file is behind an offset within the
  file (`ActiveIsBehind`), while what the tail has buffered or has to read is new
  (`TailIsAhead`), also when another file has taken the name (`FollowsActive`).
  That no more than two names besides the active one give it follows from where
  a line comes from (`OriginInv`): it lies in files of one rotation, is read from
  one and has been written from one, and while it is in the active file there is
  none yet.
- `Replayed`: `ReplayIsExact`, three statements at once: the rows of a run are
  consecutive, a life writes no row twice, and a restart repeats at most
  `CheckpointEvery` rows. The strengthening names the run and row of every event
  (`RowsAreNamed`), keeps the checkpoint on disk within a checkpoint's reach of
  what has been written (`OnDisk`, `WithinReach`), the place in memory within
  reach of the checkpoint (`InMemory`), says between which places the rows of
  a life lie (`ThisLife`), and that no run has more than a checkpoint's rows as
  long as no id is saved (`Unsaved`), for a run id that comes back.
- `EndsWithReason`: `EndsForAReason`. The row a pass is at tells how many it has
  written, so a pass that wrote none began behind the last row.
- `FlagsAreRight`: `FaultsAreFlagged`. The ranks of the label columns fill `1..n`,
  so every place of the plan names a label column of the table (`LabelColumns`)
  and the cell that decides is one of its labels (`LabelDecides`). For such a cell
  the two ladders of the code, flag and scenario, agree case by case: the healthy
  values, the letters, the known scenarios, the first substring rule that fits
  (`RulesOfFaults`), and what fits none (`LabelAgrees`). The invariant (`FlagInv`)
  says that what is written of a row is what its own label says.

**Console_proofs**

- `OneConnectionKept`: `OneConnection`. There is one free number for an event
  source, only an open source has a timer and only the armed one, and a mounted
  page has one source or one retry (`ConnectionInv`).
- `MigrationLosesNone`: `MigrationKeeps`. While a file is rewritten, the
  suggestions it still shows are in the text kept for it, apart from those
  appended since it was read, and every suggestion written is in a file, in that
  text or among the spoiled (`MigrationOk`). The rewritten text keeps its
  suggestions because an upgrade keeps their ids.
- `BoundaryHolds`: `GuardedRecords`. Every record built by the agent or by an
  upgrade has the approval boundary (`StagesOk`), so the lines of the files do
  (`Lines`); what the reader loads of them are records of the files, in the order
  of ranks that fill `1..n` by the pigeonhole principle; the cache, an answer
  under way and each envelope on the wire hold only such records (`ShownOk`,
  `ShotOk`, `WireOk`), and the hook keeps what it is given.
- `NewestShown`: `NewestIsShown`. The cache holds what one load made of the files
  (`ShowsNewest`), so the property is one of `LoadSnapshot` for any alerts and
  suggestions; the invariant (`NewestInv`) only says that the alerts read by the
  holder of the lock are alerts, and that report and clock have times. The day
  shown is that of the latest time known, days follow times (`DaysFollow`), so a
  day that has a suggestion has the latest one (`DayHasLatest`). The feed is
  counted: the first place among the newest of a kind is preceded by items of the
  other kind and the raw sample only (`PlacesShown`), which are at most
  `PerKind + 1`, and its rank is therefore within the feed, also after the raw
  sample has taken the last place (`FeedHas`).

The assumptions are the named `ASSUME`s of the modules, which say what the
constants range over; TLC evaluates each of them. `StreamerAssumption` says
that the arguments are those the command line admits and that tables are finite;
`ConsoleAssumption`, `PartsAssumption` and `ScenarioAssumption` that limits are
positive and that a scenario starts from lines somebody has written;
`FeedAssumption` that times are seconds since 1970 or unknown, and that the feed
is at least two longer than what it takes of one kind: the code's 6 items for 4
of a kind are just enough, and 5 would lose the newest of one. `ColumnsAssumption` says
that no two columns have the same name, `LabelsAssumption` what the property is
restricted to: the labels of the data set (`Documented`). What a label contains
follows from what it says, which is not an assumption about the data, and one
that names an agent, a link or a node and is no healthy value also says what has
happened to it. A label such as `snmp_agent` alone would be sent as healthy under
the scenario `snmp_agent_failure`.

**Only model-checked.** Liveness (`EveryLineSettles`, `Drains`,
`RotatedDrains`, `ConsoleCatchesUp`): the prover does not handle fairness and
ENABLED. Every safety invariant and action property of the passing runs is
stated by a theorem.

## 5. What is not modelled

- Contents: event fields, alert documents, hashes, log lines, statistics,
  wording, the parsing of configuration and of a FortiGate line.
- The provider of the agent (its HTTP client and its routing), the look-ups in
  ClickHouse, the stage requests and the display of windows.
- Several members of one consumer group, and a commit racing a rebalance inside
  the client library. Several gateways, several pages.
- Growth without bound of the rule engine's dictionaries: nothing in the code
  bounds it, so there is nothing to state.
- A read that returns part of what is in a file; files that are not UTF-8.
- Rendering of the console, benchmarks, paper figures, the GPU gateway,
  deployment files: no state of the running system, or none of its own.

## 6. Where code and documents differ

- **A line read while it is written is lost** (`forwarder_torn`). The head is
  skipped as invalid JSON and the saved offset moves behind it
  (`edge/edge_forwarder/main.py:156,183`); the tail is skipped later. The edge
  guide promises that facts in the files are forwarded.
- **A failed insert is committed by its successor** (`store_commit`). The loop
  does not commit after a failed insert, but the next alert's `commit()` covers
  both (`core/alerts_store/main.py:163-181`). TLC's run has two alerts in one
  partition, and the answer to the first insert is an error. The core guide says offsets are
  committed after successful handling.
- **A transition within the cooldown is never reported** (`rules_transitions`).
  The fault state is stored before the cooldown is asked
  (`core/correlator/rules.py:62-68`), so a fault that ends and returns within
  the cooldown stays silent as long as it lasts. The feature guide says the rule
  emits on fault-state transitions.

Met on the way and not given a run of their own:

- labels of rows the LCORE documents call faults and the plan sends as healthy
  (see `FaultsAreFlagged`), unreachable verdicts and statuses, lists of
  high-value scenarios that differ from file to file (section 2);
- under the strategy "legacy", an alert that is critical and transient is a
  target of its window and can at once be excluded from it as
  "transient_context_not_primary" (`incident_window.py:714-756`): the carriers
  of evidence are not added to the representatives there. The proof of
  `FaultStays` failed at this case; the property now names it and the instance
  of `admission` contains it;
- the rungs of the window label exclude each other only because spread over
  devices implies topology pressure, which `_build_window` sees to and
  `_window_label` does not: the lemma on labels needed it as a hypothesis.

## 7. Plan

What is left, in this order.

1. A composition of forwarder, correlator and store over shared topics with an
   end-to-end statement, built on the abstract ledger instead of the loops.
2. The GPU gateway, if it ever keeps state.

## 8. Running

```
tlc -workers 2 -config MCEdgeForwarder.cfg MCEdgeForwarder.tla
tlapm EdgeForwarder_proofs.tla
```

The longest run (`console`) takes two to three minutes, the others less than
one. From nothing, `AiopsAgent_proofs` takes about seven minutes,
`EdgeSources_proofs` five, `Console_proofs` three to four, the others less.
