---------------------------- MODULE SinkDelivery ----------------------------
(***************************************************************************)
(* Evidence on its way out: append_batch of the sinks                      *)
(* (jalki-evidence/src/sink.rs, jalki-vartio-sink/src/lib.rs) as the sink  *)
(* loop drives it, against a receiver that commits, answers late or not at *)
(* all, and a process and a machine that restart.  Evidence.tla says what  *)
(* a record becomes; SinkLoop.tla models the loop's own bookkeeping, of    *)
(* which only this is kept: a batch that fails retryably is split by class *)
(* and sent again, one that fails for good is given up as a gap, and what  *)
(* the spool holds is sent again by the next process.                      *)
(*                                                                         *)
(* The receiver, Vartio, is external: it keeps one item for each           *)
(* idempotency key and settles every item of a batch.                      *)
(***************************************************************************)
EXTENDS Evidence

CONSTANTS
  Configs,        \* how the daemon may be configured
  Scenarios,      \* what may happen: sequences of batches of observations
  MaxCalls,       \* bound: calls of append_batch
  MaxCrashes      \* bound: how often the process ends

ASSUME BoundsAreNat == MaxCalls \in Nat /\ MaxCrashes \in Nat

SinkKinds == {"vartio", "file", "stdout", "pipeline"}
Tcp == {"TcpConnect", "TcpClose", "TcpRetransmit"}
Kernel == Tcp \cup {"ProcessExec", "FileOpen", "FileOpenAttempt"}

ASSUME ConfigsAreDaemons ==
  \A c \in Configs : /\ c.primary \in [kind : SinkKinds]
                     /\ c.secondaries \in Seq([kind : SinkKinds])
                     /\ c.node_identity # None

\* A binding names a container or a pod, or says why not.
IsBinding(b) ==
  b # None => /\ b.bound \in BOOLEAN
              /\ IF b.bound THEN b.container_id # None ELSE b.reason # None

Ports == 0..65535

\* What the kernel can show: ids and times are positive, a return is 0 or a negated
\* errno, of a probe that sees only successes, or no return at all, it is 0, and
\* only a failed attempt is reported.  Of an opened file only a path that fits the
\* buffer is seen, and only a retransmission is seen in a task of another process.
IsHappening(o) ==
  /\ {o.tgid, o.start} \subseteq Nat \ {0} /\ {o.time, o.ppid, o.uid} \subseteq Nat
  /\ o.dst_port \in Ports /\ o.offsets \in BOOLEAN
  /\ o.ret \in Int /\ o.ret =< 0
  /\ o.kind \in {"ProcessExec", "TcpClose", "TcpRetransmit"} => o.ret = 0
  /\ o.kind = "FileOpenAttempt" => o.ret # 0
  /\ o.kind = "FileOpen" => ~o.path.long
  /\ o.kind # "TcpRetransmit" => o.owner = o.tgid
  /\ IsBinding(o.binding)

IsObservation(o) ==
  \/ o.kind \in Kernel /\ IsHappening(o)
  \/ o.kind = "Gap" /\ \A key \in {"dropped_records", "dropped_reliability",
                       "dropped_attribution", "gap_start_ns", "gap_end_ns"} : o.gap[key] \in Nat
  \/ o.kind = "ParseErrors"

Observations(scenario) ==
  UNION {{scenario[i][j] : j \in DOMAIN scenario[i]} : i \in DOMAIN scenario}

\* Within a boot a thread group is known by its id and its start.
ASSUME ScenariosAreReal ==
  \A s \in Scenarios :
    /\ s \in Seq(Seq(Observations(s)))
    /\ \A o \in Observations(s) : IsObservation(o)
    /\ \A o, p \in Observations(s) : o.kind = "ProcessExec" /\ p.kind = "ProcessExec" =>
         (o.life = p.life <=> o.tgid = p.tgid /\ o.start = p.start)

VARIABLES
  config,     \* the sinks, the identity and the flags of the daemon
  todo,       \* batches of observations still to come
  boot,       \* the running boot of the machine
  seen,       \* what was observed: occurrence id to observation and boot
  held,       \* batches the sink loop has, the front one being sent
  call,       \* the append_batch under way, or Idle
  network,    \* requests on their way to the receiver
  store,      \* the receiver: idempotency key to item
  logs,       \* what each sink has written: fragments of lines, or sets of lines posted
  results,    \* what append_batch has returned, of batches that left the loop
  calls, crashes

vars == <<config, todo, boot, seen, held, call, network, store, logs, results,
          calls, crashes>>

\* An append_batch at the sink with this number, which has yet to start.
Call(at, batch, dropped, failed) ==
  [at |-> at, stage |-> "start", batch |-> batch, dropped |-> dropped, failed |-> failed,
   left |-> 0, status |-> "Ok", retryable |-> FALSE, rejected |-> FALSE, rest |-> {}]

Idle == Call(0, None, 0, {})
Sinks == <<config.primary>> \o config.secondaries

Retryable == {"Unavailable", "Timeout", "Backpressure"}
should_retry(error) == error \in Retryable

\* producer_metadata, read when the process starts.
producer_metadata ==
  [cluster |-> config.cluster, node_id |-> config.node_id,
   node_identity |-> IF config.node_identity = "" THEN None ELSE config.node_identity,
   boot_id |-> boot]

Init ==
  /\ config \in Configs
  /\ todo \in Scenarios
  /\ boot = 1
  /\ seen = <<>>
  /\ held = <<>>
  /\ call = Idle
  /\ network = {}
  /\ store = <<>>
  /\ logs = [i \in DOMAIN Sinks |-> <<>>]
  /\ results = {}
  /\ calls = 0
  /\ crashes = 0

-----------------------------------------------------------------------------
(* A batch of observations is normalised, bound and handed to the sink loop. *)

RecordOf(o, id) ==
  CASE o.kind = "Gap" -> GapRecord(o.gap, id, config.cluster)
    [] o.kind = "ParseErrors" -> self_observability_record(id, config.cluster)
    [] OTHER -> with_runtime_binding(
                  normalize(o.kind, decode_event(o.kind, Raw(o)), id, config.cluster), o.binding)

Collect ==
  /\ todo # <<>>
  /\ LET first == Len(seen)
         new == Head(todo)
     IN /\ seen' = seen \o [i \in DOMAIN new |-> [o |-> new[i], boot |-> boot]]
        /\ held' = Append(held, EvidenceBatch(producer_metadata,
                     {RecordOf(new[i], first + i) : i \in DOMAIN new}))
  /\ todo' = Tail(todo)
  /\ UNCHANGED <<config, boot, call, network, store, logs, results, calls, crashes>>

\* The loop sends its first batch; the call is at the primary.
Send ==
  /\ held # <<>> /\ call.at = 0 /\ calls < MaxCalls
  /\ call' = Call(1, Head(held), 0, {})
  /\ calls' = calls + 1
  /\ UNCHANGED <<config, todo, boot, seen, held, network, store, logs, results, crashes>>

At(kinds, stage) == call.at # 0 /\ Sinks[call.at].kind \in kinds /\ call.stage = stage

Result(answer, dropped, failed) ==
  [as |-> answer, ids |-> {r.occurrence.id : r \in call.batch.records},
   dropped |-> dropped, failed |-> failed]

\* CompositeSink::append_batch and the loop behind it, when a sink has answered
\* with "Ok" or an error and the number of records it left out.  The primary
\* decides: it is asked first, and its error ends the call.  Of a secondary only
\* an error is noted, as a warning.
Returns(answer, dropped) ==
  LET failed == IF answer = "Ok" THEN call.failed ELSE call.failed \cup {call.at}
      left == IF call.at = 1 THEN dropped ELSE call.dropped
  IN IF call.at = 1 /\ should_retry(answer)
     THEN /\ call' = Idle
          /\ held' = split_by_class(call.batch) \o Tail(held)
          /\ UNCHANGED results
     ELSE IF call.at < Len(Sinks) /\ 1 \notin failed
     THEN /\ call' = Call(call.at + 1, call.batch, left, failed)
          /\ UNCHANGED <<held, results>>
     ELSE /\ call' = Idle
          /\ held' = Tail(held)
          /\ results' = results \cup {Result(IF 1 \in failed THEN answer ELSE "Ok", left, failed)}

-----------------------------------------------------------------------------
(* VartioSink. *)

VARTIO_FILE_TYPES == {"kernel.file.open", "kernel.file.open_attempt"}
VARTIO_SUPPORTED_TYPES ==
  {"jalki.agent.gap", "kernel.process.exec", "kernel.tcp.connect", "kernel.tcp.close",
   "kernel.tcp.retransmit"} \cup VARTIO_FILE_TYPES

Sendable(occ) ==
  /\ occ.type \in VARTIO_SUPPORTED_TYPES
  /\ occ.type \in VARTIO_FILE_TYPES => config.file_types

\* Mutant: a key for each call.
idempotency_key_of_call(producer, id) == <<"jalki", producer.cluster, producer.node_id, id, calls>>

idempotency_key(producer, id) == <<"jalki", producer.cluster, producer.node_id, id>>

\* The occurrences of a batch that may be sent, and the items they become.
ToSend(batch) == {occ \in into_plane_b_projection(batch) : Sendable(occ)}
ItemsOf(batch) ==
  {[key |-> idempotency_key(batch.producer, occ.id), item |-> native_runtime_item(occ)] :
     occ \in ToSend(batch)}

\* Up to the request: what is not sent is counted in warnings, and nothing to
\* send is no request at all.
VartioStart ==
  /\ At({"vartio"}, "start")
  /\ LET producer == call.batch.producer
         dropped == Cardinality(call.batch.records) - Cardinality(ToSend(call.batch))
     IN IF "" \in {producer.cluster, producer.node_id}
        THEN Returns("Misconfigured", 0) /\ UNCHANGED network
        ELSE IF ToSend(call.batch) = {}
        THEN Returns("Ok", dropped) /\ UNCHANGED network
        ELSE IF config.token = "invalid"
        THEN Returns("Misconfigured", 0) /\ UNCHANGED network
        ELSE /\ network' = network \cup {[id |-> calls, items |-> ItemsOf(call.batch)]}
             /\ call' = [call EXCEPT !.stage = "wire", !.left = dropped]
             /\ UNCHANGED <<held, results>>
  /\ UNCHANGED <<config, todo, boot, seen, store, logs, calls, crashes>>

\* The receiver settles each item: one it has is a duplicate, others it keeps,
\* rejects for good, or cannot take now.  Nobody may be waiting any more.
Receive(request, verdicts) ==
  LET fresh == {x \in request.items : x.key \notin DOMAIN store}
      Of(v) == {x \in fresh : verdicts[x] = v}
      kept == Of("keep")
  IN /\ store' = With(store, [k \in {x.key : x \in kept} |-> (CHOOSE x \in kept : x.key = k).item])
     /\ network' = network \ {request}
     /\ call' = IF At({"vartio"}, "wire") /\ request.id = calls
                THEN [call EXCEPT !.stage = "answered", !.status = "Ok",
                                  !.retryable = Of("later") # {}, !.rejected = Of("reject") # {}]
                ELSE call
     /\ UNCHANGED <<config, todo, boot, seen, held, logs, results, calls, crashes>>

\* The receiver, or what is in front of it, answers the request with a status.
Refuse(status) ==
  /\ At({"vartio"}, "wire")
  /\ call' = [call EXCEPT !.stage = "answered", !.status = status]
  /\ network' = {r \in network : r.id # calls}
  /\ UNCHANGED <<config, todo, boot, seen, held, store, logs, results, calls, crashes>>

\* The deadline passes or the connection breaks; the request may still arrive.
GiveUp(status) ==
  /\ At({"vartio"}, "wire")
  /\ call' = [call EXCEPT !.stage = "answered", !.status = status]
  /\ UNCHANGED <<config, todo, boot, seen, held, network, store, logs, results, calls, crashes>>

\* A request nobody waits for is lost.
Lose(request) ==
  /\ request.id = calls => ~At({"vartio"}, "wire")
  /\ network' = network \ {request}
  /\ UNCHANGED <<config, todo, boot, seen, held, call, store, logs, results, calls, crashes>>

classify_status(status) ==
  CASE status \in {"Unauthenticated", "PermissionDenied"} -> "Unauthorized"
    [] status \in {"InvalidArgument", "FailedPrecondition"} -> "Rejected"
    [] status = "ResourceExhausted" -> "Backpressure"
    [] status = "DeadlineExceeded" -> "Timeout"
    [] OTHER -> "Unavailable"

\* Mutant: rejected items do not fail the batch.
Answer_ignoring_rejects ==
  IF call.status # "Ok" THEN classify_status(call.status)
  ELSE IF call.retryable THEN "Unavailable" ELSE "Ok"

\* All or retry: one item that cannot be taken now sends the whole batch again;
\* one that never can fails it.
Answer ==
  IF call.status # "Ok" THEN classify_status(call.status)
  ELSE IF call.retryable THEN "Unavailable"
  ELSE IF call.rejected THEN "PartialFailure"
  ELSE "Ok"

VartioAnswered ==
  /\ At({"vartio"}, "answered")
  /\ Returns(Answer, call.left)
  /\ UNCHANGED <<config, todo, boot, seen, network, store, logs, calls, crashes>>

-----------------------------------------------------------------------------
(* FileSink and StdoutSink: every occurrence is a line.  A line is written in *)
(* two fragments, the second with the newline, so that a write may stop in it. *)

\* The lines of a batch, by the occurrences they hold.
encode_ndjson(batch) == {occ.id : occ \in into_occurrences(batch)}

LineStart ==
  /\ At({"file", "stdout"}, "start")
  /\ call' = [call EXCEPT !.stage = "write", !.rest = encode_ndjson(call.batch)]
  /\ UNCHANGED <<config, todo, boot, seen, held, network, store, logs, results, calls, crashes>>

\* The line that comes next.
FirstOf(lines, id) == id \in lines /\ \A other \in lines : id =< other

LineHead(id) ==
  /\ At({"file", "stdout"}, "write") /\ FirstOf(call.rest, id)
  /\ logs' = [logs EXCEPT ![call.at] = Append(@, [id |-> id, part |-> "head"])]
  /\ call' = [call EXCEPT !.stage = "line"]
  /\ UNCHANGED <<config, todo, boot, seen, held, network, store, results, calls, crashes>>

LineTail(id) ==
  /\ At({"file", "stdout"}, "line") /\ FirstOf(call.rest, id)
  /\ logs' = [logs EXCEPT ![call.at] = Append(@, [id |-> id, part |-> "tail"])]
  /\ call' = [call EXCEPT !.stage = "write", !.rest = @ \ {id}]
  /\ UNCHANGED <<config, todo, boot, seen, held, network, store, results, calls, crashes>>

LineFlush ==
  /\ At({"file", "stdout"}, "write") /\ call.rest = {}
  /\ Returns("Ok", 0)
  /\ UNCHANGED <<config, todo, boot, seen, network, store, logs, calls, crashes>>

\* The file cannot be opened, or a write or the flush fails.
LineFails ==
  /\ At({"file", "stdout"}, "write") \/ At({"file", "stdout"}, "line")
  /\ Returns("Unavailable", 0)
  /\ UNCHANGED <<config, todo, boot, seen, network, store, logs, calls, crashes>>

-----------------------------------------------------------------------------
(* PipelineSink: the Plane B projection as lines to an injected client, which *)
(* takes them all, rejects some, or fails.                                    *)

PipelineErrors ==
  {"Unavailable", "Timeout", "Backpressure", "Unauthorized", "Rejected", "InvalidRecord",
   "Misconfigured"}

PipelinePost ==
  /\ At({"pipeline"}, "start")
  /\ LET projected == into_plane_b_projection(call.batch)
     IN \E rejected \in SUBSET projected :
          /\ logs' = [logs EXCEPT ![call.at] = Append(@, {occ.id : occ \in projected \ rejected})]
          /\ Returns(IF rejected # {} THEN "PartialFailure" ELSE "Ok",
                     Cardinality(call.batch.records) - Cardinality(projected))
  /\ UNCHANGED <<config, todo, boot, seen, network, store, calls, crashes>>

PipelineFails(error) ==
  /\ At({"pipeline"}, "start")
  /\ Returns(error, 0)
  /\ UNCHANGED <<config, todo, boot, seen, network, store, logs, calls, crashes>>

-----------------------------------------------------------------------------
\* The process ends, and perhaps the machine with it; the next one replays the
\* batches the spool has, which carry the producer they were made under.
Restart ==
  /\ crashes < MaxCrashes
  /\ crashes' = crashes + 1
  /\ held' \in {held, <<>>}
  /\ call' = Idle
  /\ boot' \in {boot, boot + 1}
  /\ UNCHANGED <<config, todo, seen, network, store, logs, results, calls>>

Verdicts == {"keep", "reject", "later"}
Refusals == {"Unauthenticated", "InvalidArgument", "ResourceExhausted"}

Next ==
  \/ Collect \/ Send \/ VartioStart \/ VartioAnswered
  \/ \E r \in network : Lose(r) \/ \E v \in [r.items -> Verdicts] : Receive(r, v)
  \/ \E status \in Refusals : Refuse(status)
  \/ \E status \in {"DeadlineExceeded", "Unavailable"} : GiveUp(status)
  \/ LineStart \/ LineFlush \/ LineFails
  \/ \E id \in call.rest : LineHead(id) \/ LineTail(id)
  \/ PipelinePost
  \/ \E error \in PipelineErrors : PipelineFails(error)
  \/ Restart

Spec == Init /\ [][Next]_vars
-----------------------------------------------------------------------------
(* What really happened, and what may be said of it. *)

Items == {store[k] : k \in DOMAIN store}
Has(item, key, value) == key \in DOMAIN item /\ item[key] = value
HasOnlyIf(item, key, p, value) == (key \in DOMAIN item <=> p) /\ (p => item[key] = value)

\* A text of the kernel: itself, or the empty text where it is not UTF-8.
HasTextOnlyIf(item, key, p, text) ==
  /\ key \in DOMAIN item <=> p
  /\ p /\ text # NotUtf8 => item[key] = text
  /\ p /\ text = NotUtf8 => item[key] = ""

TrueGap(item, g) ==
  /\ \A key \in {"cause", "affected_probes", "dropped_records", "dropped_reliability",
                 "dropped_attribution", "gap_start_ns", "gap_end_ns"} : Has(item, key, g[key])
  /\ {"pid", "uid", "destination_ip"} \cap DOMAIN item = {}

TrueProcess(item, o) ==
  /\ Has(item, "pid", o.tgid)
  /\ HasTextOnlyIf(item, "comm", TRUE, IF o.kind = "ProcessExec" THEN o.path.head ELSE o.comm)
  /\ HasOnlyIf(item, "uid", o.kind \notin Tcp, o.uid)
  /\ HasOnlyIf(item, "ppid", o.kind = "ProcessExec" /\ o.offsets /\ o.ppid # 0, o.ppid)

TrueFile(item, o) ==
  /\ HasTextOnlyIf(item, "path", o.kind = "FileOpen", o.path.head)
  /\ HasTextOnlyIf(item, "requested_path", o.kind = "FileOpenAttempt", o.path.head)
  /\ HasTextOnlyIf(item, "exe", o.kind = "ProcessExec", o.path.head)

\* The source port of a closed connection is gone, and is sent as 0.
TrueNetwork(item, o) ==
  o.kind \in Tcp =>
    /\ Has(item, "destination_ip", IF o.family = AF_INET6 THEN o.dst ELSE <<o.dst[1]>>)
    /\ Has(item, "source_ip", IF o.family = AF_INET6 THEN o.src ELSE <<o.src[1]>>)
    /\ Has(item, "destination_port", o.dst_port)
    /\ o.kind # "TcpClose" => Has(item, "source_port", o.src_port)

TrueOutcome(item, o) ==
  /\ HasOnlyIf(item, "errno", o.ret < 0, -o.ret)
  /\ Has(item, "state", IF o.ret < 0 \/ o.kind = "TcpRetransmit" THEN "failure" ELSE "success")

TrueBinding(item, b) ==
  /\ b # None /\ b.bound /\ Has(item, "evidence_level", b.provenance)
  /\ \A key \in {"container_id", "pod_uid", "pod_name", "service_account", "owner_kind",
                 "owner_name", "owner_uid"} :
       HasOnlyIf(item, key, b[key] \notin {None, ""}, b[key])
  /\ {"container_id", "pod_uid"} \cap DOMAIN item # {}

\* An item Vartio holds says what the kernel showed and nothing else: the task
\* that ran when the program was called, the file or the peer, a uid only where
\* the kernel gave one, a resolved path only for a file that was opened, an errno
\* only for a failure, and the pod the record was bound to.  A name is said by its
\* first 255 bytes, as the empty text where these are not UTF-8, and an exec has
\* it as its command; a retransmission names the task the timer interrupted,
\* which CutIsMarked, UnknownIsOmitted, CommandIsTheTasks and OwnerIsNamed compare
\* with the documentation.  The kernel's struct, the decoder, the normaliser, the
\* projection and the wire shape each rename and convert, and batches are split,
\* resent and replayed in between (native.rs, "fields are re-homed, never
\* invented").
WireIsTrue ==
  \A item \in Items :
    LET o == seen[item.event_id].o
    IN /\ o.kind \in Kernel \cup {"Gap"}
       /\ o.kind = "Gap" => TrueGap(item, o.gap)
       /\ o.kind \in Kernel =>
            /\ Has(item, "kernel_time_ns", o.time)
            /\ TrueProcess(item, o) /\ TrueFile(item, o) /\ TrueNetwork(item, o)
            /\ TrueOutcome(item, o) /\ TrueBinding(item, o.binding)

\* A runtime subject names one process lifetime: two items have the same subject
\* exactly if one process, from its fork to its end, did both, over execs, reuse
\* of its pid, a reboot that repeats both the pid and the start time, and replay
\* of an older boot's evidence by a later process (runtime_subject.rs, "A Linux
\* thread-group lifetime").  Evidence with all the parts of an identity has one.
SubjectNamesLifetime ==
  LET subjects == {i \in Items : "runtime_subject_id" \in DOMAIN i}
      LifetimeOf(i) == <<seen[i.event_id].boot, seen[i.event_id].o.life>>
  IN /\ \A i, j \in subjects :
          i.runtime_subject_id = j.runtime_subject_id <=> LifetimeOf(i) = LifetimeOf(j)
     /\ \A i \in Items :
          (i \in subjects) <=> /\ seen[i.event_id].o.kind = "ProcessExec"
                               /\ seen[i.event_id].o.offsets
                               /\ config.node_identity \notin Untrimmed \cup {""}

\* Where a sink keeps a record: in Vartio's store, or whole in what was written.
KeptBy(i, id) ==
  CASE Sinks[i].kind = "vartio" -> \E item \in Items : item.event_id = id
    [] Sinks[i].kind = "pipeline" -> \E n \in DOMAIN logs[i] : id \in logs[i][n]
    [] OTHER -> \E n \in 1..Len(logs[i]) - 1 : /\ logs[i][n] = [id |-> id, part |-> "head"]
                                               /\ logs[i][n + 1] = [id |-> id, part |-> "tail"]

\* An Ok is earned: when append_batch returns Ok, the primary keeps every record
\* of the batch but the number its warnings own up to, and so does each file or
\* stdout sink among the secondaries that is not named as failed.  It holds
\* whatever was committed by earlier attempts, lost, answered late or rejected
\* item by item (lib.rs, "an `Ok` here would be silent loss").
SettledIsStored ==
  \A r \in results : r.as = "Ok" =>
    /\ Cardinality({id \in r.ids : KeptBy(1, id)}) + r.dropped = Cardinality(r.ids)
    /\ \A i \in 2..Len(Sinks) : i \notin r.failed /\ Sinks[i].kind \in {"file", "stdout"} =>
         \A id \in r.ids : KeptBy(i, id)

\* Vartio never holds a record twice, however often its batch is split, sent
\* again, answered too late or replayed by the next process (lib.rs,
\* "accepted/duplicate items replay safely because the per-item idempotency_key is
\* stable").
StoredOnce ==
  \A k, l \in DOMAIN store : store[k].event_id = store[l].event_id => k = l

\* lib.rs, "Drop with a visible, aggregated warning (never silent": of a record
\* that is gone after an Ok, a metric, a log line or a gap tells.  The queue counts
\* records without a strong binding; the loop ignores the warnings of an Ok.
DropsAreVisible ==
  \A r \in results : r.as = "Ok" =>
    \A id \in r.ids : KeptBy(1, id) \/ plane_b_drop_reason(RecordOf(seen[id].o, id)) # None

\* runtime-evidence-model.md, 2.7, "Truncated paths are labeled with
\* `path_truncated=true`": an item that has only the beginning of a path says so.
CutIsMarked ==
  \A item \in Items :
    LET o == seen[item.event_id].o
    IN  o.kind \in {"FileOpen", "FileOpenAttempt"} /\ o.path.long =>
          Has(item, "path_truncated", TRUE)

\* runtime-evidence-model.md, 6.1, "Fields with unresolved values MUST be omitted":
\* no item has an empty path.
UnknownIsOmitted ==
  \A item \in Items : \A key \in {"path", "requested_path", "exe", "comm"} : ~Has(item, key, "")

\* runtime-evidence-model.md, 2.1, "task->comm": the comm of an exec is the task's.
CommandIsTheTasks ==
  \A item \in Items :
    LET o == seen[item.event_id].o
    IN  o.kind \in Kernel /\ o.comm # NotUtf8 => Has(item, "comm", o.comm)

\* The process an item names is the one it is about, also in a retransmission.
OwnerIsNamed ==
  \A item \in Items :
    LET o == seen[item.event_id].o IN o.kind \in Kernel => Has(item, "pid", o.owner)

\* sink.rs, "Emits batches as newline-delimited JSON to a file": a line holds one
\* record, also after a write that failed half way.
LinesAreRecords ==
  \A i \in DOMAIN Sinks : Sinks[i].kind = "file" =>
    \A n \in 2..Len(logs[i]) : logs[i][n].part = "head" => logs[i][n - 1].part = "tail"
=============================================================================
