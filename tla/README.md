# A TLA+ verification of jälki

jälki is a node agent: eBPF programs report kernel events, the agent turns them
into evidence records and delivers those to a sink (Vartio), and it answers
questions about recent events over a local socket. This directory specifies the
parts of it where concurrency, failure and ordering decide whether evidence is
lost silently, checks them with TLC and proves the central ones with TLAPS.

The guiding promise is docs/jalki/product-boundaries.md 2.8, "No silent data
loss", with the flow contracts of ADR-0006: buffers are bounded, retries are
paced and driven by a timer, reliability evidence is given up before
attribution evidence, and every loss is reported as a `jalki.agent.gap`.

## Inventory

| component | state | operations | hard behaviour |
|---|---|---|---|
| reader→sink queue, `jalki/src/sink_queue.rs` | byte and message counters, pressure flag, pending loss reports, marker flag, channel | `try_send` (any reader thread), `recv`, `set_memory_pressure`, drop of either end | lock-free admission, an in-band marker that several threads share, closing races |
| retry buffer, `jalki-evidence/src/retry.rs` | FIFO of batches, counters | `enqueue`, `shed_to`, `drop_expired`, `pop_delivered` | three limits, class-aware shedding, expiry from the front only |
| sink loop, `jalki/src/runtime.rs` | buffer, pending gaps, retry deadline, backoff | receive arm, timer arm, drain pass, shutdown drain | state kept across awaits, retryable and terminal failures, pacing, quiet nodes |
| spool, `jalki-evidence/src/spool.rs` | a file of batches | `replay`, `compact` | kills between an answer and the rewrite, failing disk |
| drain pacer, `retry.rs` | two token buckets and a scale | `poll`, `on_backpressure`, `on_delivered` | oversized batches, negative balances |
| readers, `jalki/src/reader.rs` | ring buffers, drop counters, statistics | drain cycle, stop | drop counters that restart, a stopping reader's last drain |
| probe registry and deployment, `registry.rs`, `runtime.rs` | registered probes, attached programs | `deploy_probe`, `deploy_codegen`, `detach_probe`, list | concurrent requests for the same name, failure half way |
| event store, `jalki/src/store.rs` | a ring of occurrences per probe | `push`, `query`, `query_since` | the ring wraps under a slow reader; ids that do not grow |
| IPC server, `jalki/src/ipc.rs` | connections, subscriptions | one handler per method | disconnects in the middle of a stream |
| binding cache and Kubernetes watch, `jalki-enrich`, `kube_watch.rs` | pod and container entries | apply, delete, resync, lookup | watch restarts, events out of order, stale entries |
| self-observability and health, `runtime.rs`, `metrics.rs` | previous counter values, backlog age | periodic emission, `/healthz`, `/readyz` | counter resets, stale age |
| sinks, `jalki-evidence/src/sink.rs`, `jalki-vartio-sink` | connection, file | `append_batch` | partial acceptance, late commits, idempotency, status mapping, torn lines |
| evidence model, `event.rs`, `normalize.rs`, `evidence.rs`, `native.rs` | boot id and node identity | from an event's struct to the item on the wire | five conversions in a row, identity across pid reuse and reboots |
| probe code generation, `jalki-codegen`, `probes/generated.rs` | offsets in a map | BTF lookup, layout, instructions, ELF, decoding | jumps and offsets counted by hand, a reader that computes them again |
| sensitive paths, `sensitive_paths.rs` | patterns, kernel prefixes | prefix gate, glob match | two halves that must agree about a pattern, buffers that cut |
| eBPF programs, `jalki-ebpf` | per-CPU drop counters, pending opens | one program per hook | entry without exit, a full map |
| knowledge base, command line, MCP, SDKs, oracle | none that lives across calls | tables and thin clients | none |

Components talk through three things only: the queue (readers, the
self-observability task and deployed probes send; the sink loop receives), the
event store (readers push; IPC sessions query and subscribe), and the registry
(IPC requests change it; the self-observability task reads it).

## Modules

| module | models | role |
|---|---|---|
| `LossLedger` | ADR-0006's promise of one pipeline stage | abstract specification |
| `Weights`, `BaseTheorems` | sums of sizes without recursion; how they change, induction over sets of numbers, places in sequences | library and theorems used by the proofs |
| `SinkQueue` | `sink_queue.rs`, one action per access to shared state | component; implements `LossLedger` |
| `SinkQueueProofs` | | inductive invariant and theorems about `SinkQueue` |
| `RetryBuffer` | the retry buffer as operators on a sequence of batches | used by `SinkLoop` |
| `SinkLoop` | `run_sink_loop`, one action per stretch between two awaits | component with spool, kill and restart |
| `ProbeLifecycle` | `registry.rs`, `deploy_probe`, `deploy_codegen`, `detach_probe`, startup | component, several clients |
| `EventStore` | `store.rs` as operators on a ring buffer | used by `IpcConnection` |
| `IpcConnection` | one connection of `ipc.rs`: handler, writer and subscription tasks | component |
| `BindingCache` | the cache of `jalki-enrich` as operators | used by `RuntimeBinding` |
| `RuntimeBinding` | `kube_watch.rs` and `enrich.rs`: the watcher and the lookup of an event | component |
| `DrainPacer` | `DrainPacer` of `retry.rs` with its caller | component |
| `RingReader` | the programs of `jalki-ebpf`, `reader.rs`, `emit_self_observability` | component, one probe from attach to detach |
| `Btf`, `ProbeCodegen` | `btf.rs`, `insn.rs`, `program.rs`, `elf.rs` and the decoder of `generated.rs`, as operators | used by `GeneratedProbe` |
| `KernelTypes` | a kernel's C declarations, their BTF, and where C puts a field | reference for `Btf` (external) |
| `GeneratedProbe` | `file_offsets.rs`, `deploy_codegen`, the generated program on a BPF machine, its decoder | component |
| `SensitivePaths` | `sensitive_paths.rs`, the prefix gate of the programs, the reader's match | component |
| `Evidence` | struct, event, occurrence, record and wire item, as operators | used by `SinkDelivery` |
| `SinkDelivery` | `append_batch` of every sink and of the composite, with the receiver | component |
| `SinkLoopProofs` | | lemmas about the buffer's operators; invariant and theorems about `SinkLoop` |
| `ProbeLifecycleProofs`, `RingReaderProofs`, `DrainPacerProofs`, `RuntimeBindingProofs`, `SinkDeliveryProofs` | | invariant and theorems about the component |
| `MC...` | | instances for TLC |

### SinkQueue

A call of `try_send` handles one message, so the program counter is kept per
message. The steps of a call are `TrySend` (closed check and namespace scope),
`LoadPressure`, `Reserve` (the compare-and-swap loop, at the step that decides),
`Count`, `Send`, or, after a refusal, `Refuse` (under the `Lost` mutex),
`CountMarker` and `SendMarker`. The receiver's are `Pop`, `ReceiveRecords`,
`ReleaseMarker`, `TakeLost`, `ReceiveNone`. `SetMemoryPressure` is the sink
loop's call, between two receives. `DropReceiver` is the end of the sink loop
with senders alive. A message is a set of record shapes (agent, attribution or
reliability; in or out of the namespace scope) and a size; reports are the sets
of messages they cover, per cause. Metrics and the rate-limited warning are not
modelled.

### RetryBuffer and SinkLoop

A batch is the set of its records with its class and its age in ticks. The loop
is one task, so an action runs from one await to the next; the awaits are
`select!`, the inline append of fresh evidence or of loss reports, and the
appends inside a drain pass. Each append returns what the sink's current state
says: taken, a retryable error, or a terminal one. The environment chooses when
the sink changes state, when memory is at the watermark, when the pacer holds
back and when the disk fails; the process may be killed at every await and
started again, which replays the file.

The numbers of a gap report are functions of the records it covers, so a report
is a cause and a set of records. Where each record is (buffer, in flight,
queued report, delivered, reported, given up, gone with a process) is what the
properties are about.

### ProbeLifecycle

A call is one request of a client. It moves through the awaits and locks of
`deploy_probe` (`Deploy`, `LockShared`, `Generate`), of `registry.attach`
(`CheckName` under the read lock, `AttachCompiled` or `AttachGenerated`,
`SpawnReader`, `Register` under the write lock) and of the end of
`deploy_codegen` (`Keep`), or through the two halves of `detach_probe` (`Detach`
in the registry, `Unload` of `generated_probes`). The kernel may refuse at each
of its steps; `Refuse` is the `?` that drops a generated object. (As the generator
is now, it always refuses a generated object at its load: see GeneratedProbe. The
paths after it are what the registry and its callers do with a program that loads.) A probe's
instance, its reader and its object are named by the call that made them.

### EventStore and IpcConnection

An occurrence is its ULID: a millisecond and random bits, so ids of one
millisecond come in any order (`PerMs` > 1). The handler reads a request, acts
and sends its frames through the bounded channel; the writer moves frames to the
client; a subscription task starts, polls the store from its last id, sends the
batch event by event and rests. `abort` ends a parked task at once and a running
one at its next await that yields, as tokio does.

### BindingCache and RuntimeBinding

The cluster changes pods; a connected watch reports it, a broken one loses part
of what was under way and lists again. The watcher's six handlers are six
actions. A lookup reads `/proc/<pid>/cgroup`, falls back to the cgroup memo, and
reads the cache in a later step, so the cache may change in between.

### DrainPacer

The floating-point buckets become integers by choosing units: a rate has `One`
parts, a second `Hz` ticks, a token `One * Hz` units. The rounding of floats is
the only thing lost. A batch may have any size. One that a full bucket at the
present scale cannot pay for goes when a batch token is there, whatever the byte
bucket holds, and `byte_tokens` goes negative (`Affordable`, `Send`). `waits` counts
the waits in a row for one batch, from the first that `MaxWait` did not cut short.

### RingReader

One probe: a hook fires (`Hook`, or `handle_enter` and `handle_exit` for failed
opens), its program writes to the ring or counts a drop, the reader's cycle is
`Check`, `SampleOut`/`ParseError`/`admit` per item, `DrainEnds`, `ReadCounter`
and then `record_drop_poll` with the clock, `Send`. The reporting task takes its
snapshot (`observability_stats`) and reports (`Report`) in two steps, so that a
detach can fall in between. The seconds of the timers are not counted: a poll is
due, and a report made, at any time later. A program's failed output and its
counter are one step.

### GeneratedProbe

`Boot` reads BTF and fills `TASK_OFFSETS`; `Deploy` turns a request into a
program and its ELF object; `Attach` is the load by `registry.attach`; `Call` is a
call of the hooked function. Then one action per kind of instruction runs the encoded program on a machine that keeps
for every byte where it came from, so that "the evidence says the source port" is
a statement about bytes and not about numbers. The machine has no step for what
the kernel forbids: a register or stack byte read before it is written, an access
outside the stack, a jump out of the program. `CallProbeRead` may fail,
`CallOutput` may find the ring full. `Decode` is `GeneratedProbeReader`.

`generate` leaves one map load without a relocation in every program
(program.rs:272, below). aya does not fill it in and the kernel takes its number,
0, for a descriptor of the daemon. `Attach` has that outcome: the load is refused
unless descriptor 0, standard input, is a BPF map, which nothing makes it. The
constant `Stdins` says what it may be. With a file, the daemon as it is deployed,
every generated probe is refused and nothing else happens
(`MCGeneratedProbeDoubts`). The
program's own properties are about what it would do if it were loaded, which is
reached with a map: they check the rest of the generator, the layout and the decoder,
and nothing else would. What they say holds of no daemon that runs today.

`Btf` is checked against `KernelTypes`, which encodes declarations the way the kernel does
and computes offsets from C. Names of sections and symbols are left out.
Bit-field members are left out of the lookups compared: `btf.rs` takes the word
of a bit field for an offset, which no probe of the knowledge base asks for.

### SensitivePaths

A pattern and a path are sequences of characters. `populate_sensitive_prefixes`
fills the slots of the kernel's map with the bytes before each pattern's first
wildcard; an open (`file_open`, or `file_open_attempt` when it failed) is copied
into a buffer that cuts it and passes the program's gate or not, and `Read` is the
reader's match of the whole pattern. The reference, `Denotes`, is the usual meaning of `*` and `?`.

### Evidence and SinkDelivery

A happening is what took place in the kernel. `Evidence` has one operator per
probe and per layer: the struct the program writes (with the fields it gets
wrong or leaves zero), the typed event, the occurrence with its labels, the
record with its binding and runtime subject, the item. Labels are text: a number
is its digits and is parsed back where the code parses it. A name is its beginning,
as much as a buffer of the programs holds (255 bytes), and whether it is longer;
copying it keeps the beginning and ends it with a NUL, so that nothing later can
tell a cut one. The names of opened files that come from `bpf_d_path` are not
longer: that helper fails instead, and the program sends nothing. `owner` is the
process an observation is about and `tgid` the task that ran: they are one but for a
retransmission, which the kernel does in a softirq, in whatever task was interrupted.
`WireIsTrue` says what the code sends of this: the beginning of a name, the empty text for
one that is not UTF-8, an exec's filename as its `comm`, the interrupted task of a
retransmission, and so the pod of that task. Where the documentation says otherwise
is in the list below. Producer and probe
versions, kernel release, entity ids, human-readable texts and the envelope's
timestamps are left out.

`SinkDelivery` is the sink loop reduced to what a sink sees: `Collect`, `Send`,
the steps inside `append_batch` (`VartioStart`, `VartioAnswered`, `LineStart`,
`LineHead`, `LineTail`, `LineFlush`, `PipelinePost` and their failures), the composite that
asks the primary first and only logs a secondary's error, and `Restart`
with or without a new boot of the machine. The receiver (`Receive`, `Refuse`)
settles items one by one, may commit a request whose caller has given up
(`GiveUp`), and keeps one item per idempotency key. The records of a batch
and the items of a request are sets: their ids give the order.

Its assumptions: a configuration names sinks that exist and has a node identity
(`ConfigsAreDaemons`); ids and kernel times are positive, a return value is 0 or a
negated errno, and one boot of the kernel knows a thread group by its id and start
time (`ScenariosAreReal`); `None` is neither a word nor a number
(`NoneIsNoValue`).

## Runs

| run | what it shows | bounds |
|---|---|---|
| `sink_queue` | counters exact at every step, budgets hold, one marker per refusal episode, calls told the truth, refinement of `LossLedger`, every loss reported in the end | 2 readers, 4 messages of every kind, budget 4 (2 under pressure), one message larger than the budget |
| `sink_loop` | exactly one place answers for each record while the process lives, none vanishes across a kill and a restart, the file mirrors the buffer, shed order, a deadline is never moved back | 2 messages (one of both classes), 3 records / 2 batches / 3 bytes, all sink states, memory pressure, spool on a failing disk, one restart |
| `sink_loop_live` | everything settles once the sink stays up; shutdown ends | 2 messages, all sink states, fairness |
| `probe_lifecycle` | no generated object leaks, readers match the registry, one client alone keeps kernel and registry in agreement, every call is answered | 3 calls by 1 or 3 clients, 2 startup probes, one more compiled and one generated |
| `ipc_stream` | a stream loses the order, repeats or passes an event over only where an inverted id was sent; otherwise it misses only what left the store or the window; stored events reach a client that reads | two ids of one millisecond in any order, ring of 3, limit 2, window of 1 in 3 milliseconds, channel of 1; 1 stream with 4 events, a stream and another request with 2, 2 streams with 1 |
| `ring_reader` | every event counted somewhere, gap reports exact and in order, drops of an attached probe reported, failed opens named by their own path | ring of 1, one item per cycle, 3 events, sampling of every second, 3 clock values, 2 threads of one process, a map of 1; `file_open` is followed through its reader, the other programs up to the ring |
| `binding_watch` | the cache's structures agree, nothing stale or missing once the stream is read, deleted pods leave it, events are bound to their own pod | 2 pods, 3 containers, capacity 2 and 3, 3 changes, one break, memo of 1 |
| `pacer` | a batch that fits goes only when all debts are paid, one wait is enough | 8 bytes and 3 batches per second, scale in quarters, batches of 1, 2, 3 and 9 bytes (9 is above every bucket, 3 above one at the lowest scale), two seconds |
| `codegen` | BTF is read as C means it, offsets are true or absent; and, where descriptor 0 is a map, the program does nothing forbidden, evidence is what the kernel held, each call is filtered, sent or counted as dropped | 2 kernels (with and without the fields and types that move), 8 requests over 3 functions, descriptor 0 a file or a map, 2 calls, one failed read |
| `delivery` | items on the wire say what the kernel showed, name the right process lifetime, are held once, and an `Ok` means they are held | about 30 observations alone and 7 pairs in one or two batches, names of both lengths, a retransmission in another task, 7 configurations over all sinks, 3 calls, one crash with or without a reboot |
| `delivery_silent` | a statement the code does not keep (below) | one open of a file, default configuration |
| `sensitive_paths` | gate and matcher together keep exactly the opens that the patterns describe | every pattern of up to 4 characters over `/ a * ? [`, every path of up to 4 over `/ a b`, lists that overfill a map of 2 slots of 2 bytes, a buffer of 5 |

The bounds are chosen so that each limit is reached, exceeded by one message
and exceeded by two parts of one message; two refusal episodes fit in
`sink_queue`; a batch can expire while another is young; the backoff
ladder reaches its cap; deploy, detach and deploy again of one function fit in
`probe_lifecycle`; the ring of `ipc_stream` wraps between two polls of a
stream that is limited to less than it holds; three containers meet a cache of two, and
a deletion fits into a break; the pacer's scale falls to its floor, a full
bucket is used up twice and batches both fit and do not; a call of `delivery` can be
answered late, after its batch was split and sent again, and the third call belongs to
the next process; four characters hold two wildcards with a literal before and after.

Further configurations are run by hand. `MCRuntimeBindingDoubts` adds the types. The
other `Doubts` configurations list properties that do not hold, one disagreement
each (below). Definitions of properties that appear in no configuration (`IdsAreFresh`,
`CompiledOnce` and `MapsAreThere` of `ProbeLifecycle`, `OnlyTheNamedStreamEnds`
and `RingHoldsNewest` of `IpcConnection`, `NoAgentMessageRefused` of `SinkQueue`,
`BufferBounded` and `FrontIsOldest` of `SinkLoop`, `BatchRateHolds` of `DrainPacer`,
types) hold under the configurations of their module: they are simpler facts,
kept as statements for the proofs.

Deadlock is checked except in the connection, reader, binding, pacer, generated
probe and delivery instances, where a client may have left, no more events fire,
the cluster may rest, the clock stops at its bound, and what happens is finite.

Fairness. `SinkQueue!FairSpec`: a call that has begun returns and the sink loop
keeps receiving (threads are scheduled); nobody has to start a call, stop or
toggle the pressure. `SinkLoop!FairSpec`: the task is scheduled, time passes, a
killed process is started again (a DaemonSet); the timer is strongly fair because
`select!` without `biased` picks at random among ready arms, and an attempt is
strongly fair because the pacer's buckets refill. Nothing is assumed of the sink.
`ProbeLifecycle!FairSpec`: an accepted call goes on and a reader looks at its
flag. `IpcConnection!FairSpec`: the handler, the writer and each subscription
task are scheduled; no client has to ask for anything and no reader to push.
`RingReader!FairSpec`: the reader and the reporting task are scheduled, and a
counter that is polled again and again is read at last (strong fairness, since a
single read may fail).

## What disagrees with the repository's own words

In a listed run:

* `delivery_silent`: lib.rs:268 of the Vartio sink says of records it may not send
  "Drop with a visible, aggregated warning (never silent". The warning is a field
  of the `Ok`, and runtime.rs matches `Ok(_)` (731, 1218, 1252): with
  `JALKI_VARTIO_FILE_TYPES` unset, the default, an open of a sensitive file is
  acknowledged and gone, and no metric, log line or gap tells.

In the configurations that are run by hand, by property:

* `BacklogScheduled` (`MCSinkLoopDoubts`): runtime.rs:689 says a `None` deadline
  means there is no backlog; after a replay there is one, and no retry is
  scheduled until another message arrives.
* `SpoolNeverDrifts` (same): runtime.rs:941 calls "the file is exactly what is still
  undelivered" an invariant that cannot drift; it does after a failed
  compaction, which leaves the old file to be replayed.
* `GapsKeptUntilDelivered` (same): ADR-0006 says pending gap reports are kept until
  delivered; one that the sink rejects for good is dropped (runtime.rs:1242).
* `RegisteredIsHooked` (`MCProbeLifecycleDoubts`): runtime.rs:381 says "All methods
  are safe to call concurrently". The registry looks a name up and inserts it
  under different locks and `generated_probes` changes later under a third, so a
  deploy that overlaps with another deploy or a detach of the same function can
  leave a registered probe whose program has been unloaded.
* `DetachUnloads` (same): runtime.rs:447 says detach unloads the programs of a
  probe deployed at runtime; one that is part of the shared object stays
  attached, and cannot be deployed again.
* `ConnectionEnds` (`MCIpcConnectionDoubts`): when the client leaves, the handler
  waits for the writer, and the writer for the last sender, which the handler
  still owns (ipc.rs:181, 238): the connection never ends.
* `NothingLost` (same, ids of one millisecond in any order): store.rs:106 says the
  order of ULIDs is chronological; within a millisecond it is random, and a poll
  between two events of one millisecond makes the stream pass over the second, or
  send an event of the first poll again.
* `ResponseComesFirst` (same): ipc.rs:400 says "Send response first"; the spawned
  task may send STREAM_START before it.
* `EndIsTheEnd` (same): specs/protocol/subscribe.md:10 says the stream ends with
  STREAM_END; a task that runs while it is aborted can send an event after it.
* `EventsById` (same): get_events and subscribe are documented to take the id
  that deploy returned; the store knows only probe names.
* `DropsOutliveDetach` (`MCRingReaderDoubts`): local-agent-state.md:260 says of ring
  buffer overflow "Emit gap; do not silently drop"; a detach stops the reader
  before its last poll, and drops since then are never reported.
* `GapCoversItsDrops` (same): probe-definitions.md:201 says the gap covers the lost
  window; drops between the attach and the reader's start, and between the reads
  of counter and clock, are reported in a window that begins after them.
* `AttemptNamesItsPath` (same, with exits the program does not see):
  file_open_attempt.rs:62 says the path is the one "stashed at enter" of "this
  open"; after a missed exit the entry is taken for the thread's next open.
* `BoundToItsPod` (`MCRuntimeBindingDoubts`, with reused pids): procfs is read for
  the pid when the event is drained and not compared with the event's cgroup, so a
  reused pid binds the event to another pod.
* `WatchedExactly` (`MCSensitivePathsDoubts`, with a `*` in a path): `glob_match`
  compares `pattern[p] == value[v]` before it looks for `*`, so a `*` in a file's
  name uses up the wildcard and the rest must match literally.
* `TruncatedIsKept` (same): runtime-evidence-model.md:267 says a cut path of a
  failed open is marked as cut and kept. It is if the buffer has no NUL, and the kernel's
  helpers always end it with one: a cut path looks complete and is matched, or not, by
  what is left of it.
* `GeneratedProbesLoad` (`MCGeneratedProbeDoubts`): lib.rs:4 of jalki-codegen says it
  generates "an ELF loadable by aya" and insn.rs:212 that a map load is resolved
  through its relocation. `program.rs`:272 takes back four instructions of the self
  filter, writes it again and clears the relocations; the first load is before those
  four and stays, without one. The kernel refuses the program, whatever was asked for.
* `AverageRateHolds` (`MCDrainPacerDoubts`): retry.rs:340 says that after an oversized
  batch the bucket "goes negative and the next batch simply waits longer, so the
  average rate still holds". A next batch that is oversized too does not wait for the
  debt of the one before (retry.rs:344): a backlog of them drains at the rate of
  batches, whatever their size.
* `CutIsMarked` (`MCSinkDeliveryDoubts`): runtime-evidence-model.md:265 and 267 say a cut
  path is marked with `path_truncated=true`. events.rs:217 takes a buffer without a NUL
  for a cut one, and `bpf_probe_read_user_str` always ends with a NUL: a cut path is
  sent as a whole one.
* `UnknownIsOmitted` (same): runtime-evidence-model.md:406 says fields with unresolved
  values must be omitted; a name that is not UTF-8 becomes an empty text, and is sent.
* `CommandIsTheTasks` (same): runtime-evidence-model.md:44 names task->comm as the
  source of `comm`; that of an exec is the filename.
* `OwnerIsNamed` (same): runtime-evidence-model.md:220 allows for a retransmission
  without a pid; the programs always send that of the interrupted task, and the
  record is bound to that task's pod.
* `LinesAreRecords` (`MCSinkDelivery` with `FileConfig` and `TwoExecs`): the file sink
  writes "newline-delimited JSON"; a write that fails half way leaves a torn line, and
  the retry, or the next process, glues its first record to it.

Met while modelling, and built into the models as the code has them: the source
port of a closed connection is always 0; kernel_time is CLOCK_MONOTONIC where
runtime-evidence-model.md:15 says CLOCK_BOOTTIME; a node identity with a blank
around it silently turns the runtime subject off; a batch that is accepted in part
and then fails for good is reported as a gap of all its records; generated events
report ports only with an address, a failed read as zero, and every return value
but 0 as a failure; nothing in the daemon asks a sink for its `health()`.

## Proofs

Every theorem holds for all values of the constants that satisfy the named
assumptions of its module: any number of readers, messages, clients, threads, pods,
breaks and restarts, and all limits and rates. The inductive invariants were
checked by TLC on the runs' instances before they were proved.

| property of a run | theorem | beyond the module's assumptions |
|---|---|---|
| `TypeOK`, `CountersMatch`, `CallsAreAccounted`, `OneMarkerPerEpisode`, `HeldBytesBounded` | `SinkQueueProofs`: `TypeCorrect`, `CountersAreExact`, `CallsAreAlwaysAccounted`, `OneMarker`, `BudgetHolds` | |
| `ImplementsLedger` | `QueueImplementsLedger` | |
| `NothingVanishes`, `AnsweredForOnce`, `SpoolMirrorsBuffer` | `SinkLoopProofs`: `NothingIsLost`, `EveryRecordOnce`, `FileMirrorsBuffer` | |
| `DeadlineNotPostponed`, `ReliabilityShedFirst` | `DeadlineIsKept`, `ReliabilityGoesFirst` | |
| `ObjectsAreOwned`, `ReadersMatchRegistry`, `SoundForOneClient` | `ProbeLifecycleProofs`: `NoObjectLeaks`, `ReadersFollowRegistry`, `OneClientIsSound` | |
| `EveryEventCounted`, `GapsAreExact` | `RingReaderProofs`: `EventsAreCounted`, `GapReportsAreExact` | |
| `AttemptNamesItsPath` | `AttemptsNameTheirPaths` | `~MissedExits` |
| `DebtIsPaidFirst`, `WaitIsEnough` | `DrainPacerProofs`: `DebtsArePaidFirst`, `OneWaitSuffices` | |
| `CacheConsistent`, `CacheFollowsCluster` | `RuntimeBindingProofs`: `CacheAgrees`, `CacheIsCurrent` | |
| `BoundToItsPod` | `BindingIsTrue` | `~PidReuse` |
| `WireIsTrue`, `SubjectNamesLifetime`, `SettledIsStored`, `StoredOnce` | `SinkDeliveryProofs`: `DeliveredWireIsTrue`, `DeliveredSubjectNamesLifetime`, `DeliveredSettledIsStored`, `DeliveredStoredOnce` | |

Further theorems without a run of their own: `AgentMessagesAreTaken` and
`NothingIsStranded` (`SinkQueue`), `BufferStaysBounded`, `FrontStaysOldest`,
`BacklogIsScheduled` and `ReplayIsExact` (`SinkLoop`), `SharedObjectIsSafe` and
`IdsNeverReturn` (`ProbeLifecycle`), `BatchesAreBounded` (`DrainPacer`), `AlwaysHonest`
(`SinkDelivery`), and the type invariants.

The two extra assumptions are where the property is false without them, and the
runs' configurations satisfy them: see the section above.

### SinkQueue

None of the properties is inductive alone. The inductive invariant `IInv` is built
in layers, each proved with the ones below it:

1. `Types`: the types with integer counters. That the counters are natural
   numbers is not inductive: it needs to be known what is still to be released.
2. `Accounting`: `CallsAreAccounted`, that no message is in the channel twice
   (else a receive could leave a copy behind) and that a closed queue is empty.
3. `BytesMatch`, `MessagesMatch`: the counters are the weight of the reserved
   messages and the number of counted ones, both finite. Each release needs
   layer 2 to know that what it releases is still reserved.
4. `OneMarkerPerEpisode`: the set of markers, wherever they are, is a singleton
   exactly while the flag is set. A receive moves all channel positions by one.
5. `HeldBytesBounded`: only `Reserve` adds, and what it compares with the limit
   is the weight by layer 3; a zero counter means nothing is reserved because
   every message has a size.

The refinement maps each step to a step of `LossLedger` or to a stutter; that a
hand-over or a report of the ledger is enabled is layer 2, and the end is
`NothingIsStranded`.

### SinkLoop

`IInv` says where the loop can be (`Control`), when a retry is scheduled (`Timer`),
that the buffer is within its limits and in the order of its ages (`Limits`), that the file
holds the frames of some buffer that was within the limits (`Filed`: this is why a
replay sheds nothing), that every record taken is held or answered for (`Kept`), and
that in the process that took it it is so once (`Exact`). Shedding is a
recursive function of the number of batches shed; the first part of the module shows,
by induction over that number, what each step of it keeps: records move from the batch in hand and the buffer into gap
reports, none twice, reliability before attribution.

### ProbeLifecycle

The invariant says who owns what: an entry of the registry belongs to the call that
made it, which is past its registration; an object in `generated_probes` to a call
that was answered; the mutex of the shared object has one holder, and nobody else
can register its name. `SoundForOneClient` needs in addition that one client keeps
the two tables, each under its own lock, in step (`InStep`).

### RingReader

`Counting` is the balance of events, `Polling` relates the counter that was read to
the drops and their times (every drop counted before the clock is read happened
before it), `Looking` the last look of the reporting task to what has been
reported. `PathsKept` says that an entry in the map of opens belongs to the open that
its thread is in.

### DrainPacer

The invariant is the account of each bucket: tokens held and tokens spent are
together at most one bucket and what the full rate has paid in since the start,
also when the tokens held are a debt. Adapting the scale can only pay in less. A batch
that fits leaves the bucket at zero or above, so that what was spent is within the
account: that is `DebtIsPaidFirst`. Batch tokens never go below zero, which gives
`BatchRateHolds`. `WaitIsEnough` needs `Patient`: at the end of a wait that was not cut
short, at the present rates, both buckets will hold the cost.

### RuntimeBinding

The cache: `Sound` relates the map, the index and the order, and each operation keeps
it; that eviction stops at the first fit is `EvictCount`. The watcher: while the
stream is connected, of each pod one of three things is true (`Follows`). `Announced`:
the last word on it is on its way and says what the cluster lists. `Unlisted`: a list is on
its way or half read that does not have it, and neither has the cluster. `Applied`:
all was read, and the cache has of it what the cluster lists. A break ends all three
and the next list begins them again. The lookup: a container
resolved is that of the event's own cgroup, and the cache binds a container to its pod
whenever it binds it, so no change between the two steps can mislead the lookup.

### SinkDelivery

The items are in many places at once: in the batch in hand, in requests whose caller
has given up, in the receiver's store, in the lines of a file. The last three outlive
the call, the process and the boot. The inductive invariant `Honest` says of each place
that what lies there under an id is what the code makes of what was observed under that
id in that boot: what was seen (`SeenIsReal`), the batch and its calls (`HeldIsHonest`,
`CallIsHonest`), the requests (`NetworkIsHonest`), the store (`StoreIsHonest`) and the lines
and posts (`LogsAreHonest`). Of an answer `Ok`, and of a call on its way, it says what
each sink before has kept (`ResultsAreHonest`). `StoredOnce` and
`SettledIsStored` need all of it: a request that arrives late carries
the same key and the same item as its retry, and an `Ok` counts on what an earlier attempt
committed.

What the item says is then a matter of the operators of `Evidence`. `KernelRecord` and its
fellows give the record of each kind of event; `LayersAreDisjoint` and `ProjectedLabels`
show that event, binding, subject and projection write different labels, so that
none overwrites another; `ItemParts` and `LabelParts` take the item apart.
`WireIsTrue` compares each part with the happening; `TextOnlyIf` is about the names that
an item may leave out. `SubjectNamesLifetime` follows since
a subject is written only from a proper start time, and thread group, start time and boot
determine the lifetime.

### Base

`BaseTheorems` has what is needed of sums (a member adds and removes its size,
subsets weigh less, only the empty set weighs nothing), of sequences by place, and
induction stated over sets of numbers (`NatSetInduction`): recursive functions on
natural numbers are reasoned about with it.

### Model-checked only

Liveness (`LedgerDischarged`, `EvidenceSettles`, `ShutdownTerminates`,
`CallsAreAnswered`, `EventsReachTheClient`, `DropsAreReported`) and
`NoIllegalInstruction`, which says ENABLED, are out of the prover's reach; so is what
the recursive functions of `Btf`, `ProbeCodegen` and `SensitivePaths` compute for every
input, short of an induction over each of them, and with it the other properties of
`GeneratedProbe` and `WatchedExactly`. `StreamsInOrder` and `NothingSkipped`
of `IpcConnection` compare what a client has received with selections from the
store by a filter; a selection is a recursion over the sequence with an operator as its
parameter, and what it does with a longer sequence cannot be stated to the prover.

## Plan

Modelled: everything planned but the composition of `RingReader`, `SinkQueue` and
`SinkLoop`, whose product is out of TLC's reach; the contracts meet in
`LossLedger` and in `SinkDelivery`, which keeps of the loop what a sink sees. What is
left are theorems:

1. `StreamsInOrder` and `NothingSkipped` of `IpcConnection`, with the selections of its
   streams written as sets of positions.
2. `OffsetsTrueOrAbsent` and `EveryCallAccounted` of `GeneratedProbe`, as far as they do not
   rest on what its recursive functions compute.

## Not modelled

gRPC and the generated protobuf code, the frames of JSON-RPC and the read-only IPC
methods, metrics and logs, the health endpoints (stateless comparisons of published
numbers; after a replay nothing is published until the first message, so `/readyz`
answers ok until then), the reading of the cgroup's memory files (`SinkLoop` lets the
environment choose the outcome), the command line, the MCP server and the SDKs, the
tables of the knowledge base, and the evaluation oracle, which is not part of the
running system: conversions, tables and thin clients without state of their own.
The spool's frame encoding and its `append`, which only tests call, and the parsing
of pod objects and cgroup paths are left out of modelled components.
