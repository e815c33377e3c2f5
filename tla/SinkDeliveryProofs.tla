------------------------- MODULE SinkDeliveryProofs -------------------------
(***************************************************************************)
(* Proofs about SinkDelivery, for every set of configurations, every set   *)
(* of scenarios and all bounds.                                            *)
(*                                                                         *)
(* First what Evidence makes of an observation: the record of each kind,   *)
(* what the projection leaves as it is, the parts of an item.  Then the    *)
(* inductive invariant Honest with one lemma per action, and what follows  *)
(* from it at once.  Last what an item says: the labels of each layer,     *)
(* none of which writes over another, and the item part by part.           *)
(***************************************************************************)
EXTENDS SinkDelivery, BaseTheorems

-----------------------------------------------------------------------------
(* Functions put together from parts. *)

LEMMA WithDomain ==
  ASSUME NEW f, NEW g
  PROVE  DOMAIN With(f, g) = DOMAIN f \cup DOMAIN g
BY DEF With

LEMMA WithSecond ==
  ASSUME NEW f, NEW g, NEW x \in DOMAIN g
  PROVE  With(f, g)[x] = g[x]
BY DEF With

LEMMA WithFirst ==
  ASSUME NEW f, NEW g, NEW x \in DOMAIN f, x \notin DOMAIN g
  PROVE  With(f, g)[x] = f[x]
BY DEF With

LEMMA OnlyDomain ==
  ASSUME NEW f, NEW p \in BOOLEAN
  PROVE  /\ p => Only(p, f) = f
         /\ ~p => DOMAIN Only(p, f) = {}
BY DEF Only

-----------------------------------------------------------------------------
(* What projection leaves as it is. *)

OccFields ==
  {"id", "type", "cluster", "severity", "outcome", "namespace", "error", "correlation_keys",
   "labels", "process", "network", "duration_us"}

IsOccurrence(occ) == DOMAIN occ = OccFields

\* Two occurrences that agree but for labels and what Plane B takes away.
SameCore(occ, other) ==
  /\ IsOccurrence(occ)
  /\ occ.id = other.id /\ occ.type = other.type /\ occ.outcome = other.outcome
  /\ occ.process = other.process /\ occ.network = other.network

LEMMA BindingKeepsCore ==
  ASSUME NEW occ, IsOccurrence(occ), NEW binding
  PROVE  SameCore(apply_runtime_binding(occ, binding), occ)
BY DEF apply_runtime_binding, SameCore, IsOccurrence, OccFields

LEMMA SubjectKeepsCore ==
  ASSUME NEW occ, IsOccurrence(occ), NEW producer
  PROVE  SameCore(apply_runtime_subject(occ, producer), occ)
BY DEF apply_runtime_subject, SameCore, IsOccurrence, OccFields

LEMMA MetadataKeepsCore ==
  ASSUME NEW record, NEW producer, IsOccurrence(record.occurrence)
  PROVE  SameCore(into_occurrence_with_metadata(record, producer), record.occurrence)
<1> DEFINE bound == apply_runtime_binding(record.occurrence, record.binding)
           named == apply_runtime_subject(bound, producer)
<1>1. SameCore(bound, record.occurrence)
  BY BindingKeepsCore
<1>2. SameCore(named, bound)
  BY <1>1, SubjectKeepsCore DEF SameCore
<1>3. PICK meta : into_occurrence_with_metadata(record, producer) =
        [named EXCEPT !.labels = With(named.labels, meta)]
  BY Zenon DEF into_occurrence_with_metadata
<1> HIDE DEF bound, named
<1>4. QED
  BY <1>1, <1>2, <1>3 DEF SameCore, IsOccurrence, OccFields

LEMMA PlaneBKeepsCore ==
  ASSUME NEW record, NEW producer, IsOccurrence(record.occurrence)
  PROVE  SameCore(into_plane_b_occurrence(record, producer), record.occurrence)
<1> DEFINE occ == into_occurrence_with_metadata(record, producer)
<1>1. SameCore(occ, record.occurrence)
  BY MetadataKeepsCore
<1>2. SameCore(neutralize_for_plane_b(occ), occ)
  <2> HIDE DEF occ
  <2>1. QED
    BY <1>1 DEF neutralize_for_plane_b, SameCore, IsOccurrence, OccFields
<1>3. QED
  BY <1>1, <1>2 DEF into_plane_b_occurrence, SameCore

-----------------------------------------------------------------------------
(* The record each observation becomes. *)

ProbeFields == {"probe_id", "probe_family", "hook_kind", "kernel_function"}

IsRecord(r, id, type, time, binding) ==
  /\ IsOccurrence(r.occurrence)
  /\ r.occurrence.id = id /\ r.occurrence.type = type
  /\ r.observed_at_ns = time /\ r.binding = binding
  /\ DOMAIN r.probe = ProbeFields

LEMMA ReturnFacts ==
  ASSUME NEW o, IsHappening(o)
  PROVE  /\ o.ret \in Int /\ (o.ret < 0 <=> o.ret # 0)
         /\ o.kind \in {"ProcessExec", "TcpClose", "TcpRetransmit"} => o.ret = 0
         /\ o.kind = "FileOpenAttempt" => o.ret # 0
<1>1. o.ret \in Int /\ o.ret =< 0
  BY Zenon DEF IsHappening
<1>2. o.kind \in {"ProcessExec", "TcpClose", "TcpRetransmit"} => o.ret = 0
  BY Zenon DEF IsHappening
<1>3. o.kind = "FileOpenAttempt" => o.ret # 0
  BY Zenon DEF IsHappening
<1>4. PICK ret : ret = o.ret
  OBVIOUS
<1>5. QED
  BY <1>1, <1>2, <1>3, <1>4

LEMMA GapShape ==
  ASSUME NEW o, o.kind = "Gap", NEW id
  PROVE  LET r == RecordOf(o, id)
         IN  /\ IsRecord(r, id, "jalki.agent.gap", o.gap.gap_end_ns, None)
             /\ r.occurrence.process = Unset /\ r.occurrence.network = Unset
             /\ r.occurrence.outcome = None
             /\ r.occurrence.labels =
                  [cause |-> o.gap.cause, affected_probes |-> [json |-> o.gap.affected_probes],
                   dropped_records |-> Dec(o.gap.dropped_records),
                   dropped_reliability |-> Dec(o.gap.dropped_reliability),
                   dropped_attribution |-> Dec(o.gap.dropped_attribution),
                   gap_start_ns |-> Dec(o.gap.gap_start_ns), gap_end_ns |-> Dec(o.gap.gap_end_ns)]
<1>1. RecordOf(o, id) = GapRecord(o.gap, id, config.cluster)
  BY DEF RecordOf
<1> DEFINE labels == [cause |-> o.gap.cause, affected_probes |-> [json |-> o.gap.affected_probes],
                   dropped_records |-> Dec(o.gap.dropped_records),
                   dropped_reliability |-> Dec(o.gap.dropped_reliability),
                   dropped_attribution |-> Dec(o.gap.dropped_attribution),
                   gap_start_ns |-> Dec(o.gap.gap_start_ns), gap_end_ns |-> Dec(o.gap.gap_end_ns)]
           x == [Occurrence(id, "jalki.agent.gap", config.cluster) EXCEPT
                   !.severity = "Warning", !.labels = labels]
           probe == Probe("jalki_agent", "agent", "fentry", "jalki_agent_gap")
<1>2. RecordOf(o, id) = EvidenceRecord(o.gap.gap_end_ns, probe, x)
  BY <1>1 DEF GapRecord
<1>3. /\ IsOccurrence(x) /\ x.id = id /\ x.type = "jalki.agent.gap" /\ x.labels = labels
      /\ x.process = Unset /\ x.network = Unset /\ x.outcome = None
  <2> HIDE DEF labels
  <2>1. QED
    BY DEF Occurrence, IsOccurrence, OccFields
<1>4. DOMAIN probe = ProbeFields
  BY DEF Probe, ProbeFields
<1> HIDE DEF x, probe
<1>5. QED
  BY <1>2, <1>3, <1>4 DEF EvidenceRecord, IsRecord

LEMMA ParseErrorsShape ==
  ASSUME NEW o, o.kind = "ParseErrors", NEW id
  PROVE  IsRecord(RecordOf(o, id), id, "jalki.probe.parse_errors", 0, None)
<1>1. RecordOf(o, id) = self_observability_record(id, config.cluster)
  BY DEF RecordOf
<1>2. QED
  BY <1>1 DEF self_observability_record, EvidenceRecord, Occurrence, Probe, IsRecord, IsOccurrence,
              OccFields, ProbeFields

\* A kernel observation, once its event and its occurrence are known.
LEMMA KernelShape ==
  ASSUME NEW o, o.kind \in Kernel, NEW id, NEW e, NEW occ,
         decode_event(o.kind, Raw(o)) = e, to_occurrence(o.kind, e, id, config.cluster) = occ
  PROVE  /\ RecordOf(o, id).occurrence = occ /\ RecordOf(o, id).binding = o.binding
         /\ RecordOf(o, id).observed_at_ns = e.observed_at_ns
         /\ DOMAIN RecordOf(o, id).probe = ProbeFields
<1>1. o.kind # "Gap" /\ o.kind # "ParseErrors"
  BY DEF Kernel, Tcp
<1>2. RecordOf(o, id) = with_runtime_binding(normalize(o.kind, e, id, config.cluster), o.binding)
  BY <1>1 DEF RecordOf
<1>3. DOMAIN probe_metadata(o.kind) = ProbeFields
  BY DEF probe_metadata, Kernel, Tcp, ProbeFields, Probe, ProcessExec, FileOpen, FileOpenAttempt,
         TcpConnect, TcpClose, TcpRetransmit
<1>4. PICK probe : probe = probe_metadata(o.kind)
  OBVIOUS
<1>5. normalize(o.kind, e, id, config.cluster) = EvidenceRecord(e.observed_at_ns, probe, occ)
  BY <1>4 DEF normalize
<1>6. QED
  BY <1>2, <1>3, <1>4, <1>5 DEF with_runtime_binding, EvidenceRecord

LEMMA FileEvent ==
  ASSUME NEW o, NEW flags
  PROVE  FileOpenEvent(FileRaw(o, flags)) =
           [observed_at_ns |-> o.time, pid |-> o.tgid, uid |-> o.uid, cgroup_id |-> o.cgroup,
            comm |-> Str(o.comm), ret |-> o.ret, flags |-> flags, path |-> Str(o.path.head),
            path_truncated |-> FALSE]
BY DEF FileOpenEvent, FileRaw, path_truncated

LEMMA FileOpenShape ==
  ASSUME NEW o, o.kind = "FileOpen", IsHappening(o), NEW id
  PROVE  LET r == RecordOf(o, id)
             x == r.occurrence
         IN  /\ IsRecord(r, id, "kernel.file.open", o.time, o.binding)
             /\ x.process = [pid |-> o.tgid, ppid |-> None, command |-> Str(o.comm), uid |-> o.uid]
             /\ x.network = Unset
             /\ x.outcome = IF o.ret < 0 THEN "failure" ELSE "success"
             /\ DOMAIN x.labels = {"result", "flags", "cgroup_id", "coverage", "resource_ref_kind",
                                   "resource_ref_id"}
                                  \cup (IF o.ret < 0 THEN {"errno", "errno_num"} ELSE {})
             /\ x.labels.resource_ref_kind = "file" /\ x.labels.resource_ref_id = Str(o.path.head)
             /\ o.ret < 0 => x.labels.errno_num = Dec(o.ret)
<1> DEFINE e == FileOpenEvent(FileRaw(o, o.flags))
           x == FileOpenOccurrence(e, id, config.cluster)
<1>1. e = [observed_at_ns |-> o.time, pid |-> o.tgid, uid |-> o.uid, cgroup_id |-> o.cgroup,
           comm |-> Str(o.comm), ret |-> o.ret, flags |-> o.flags, path |-> Str(o.path.head),
           path_truncated |-> FALSE]
  BY FileEvent
<1>2. Raw(o) = FileRaw(o, o.flags)
  BY DEF Raw
<1>3. decode_event(o.kind, Raw(o)) = e
  BY <1>2 DEF decode_event
<1> HIDE DEF e
<1>4. to_occurrence(o.kind, e, id, config.cluster) = x
  BY DEF to_occurrence
<1>5. /\ RecordOf(o, id).occurrence = x /\ RecordOf(o, id).binding = o.binding
      /\ RecordOf(o, id).observed_at_ns = o.time /\ DOMAIN RecordOf(o, id).probe = ProbeFields
  <2>1. o.kind \in Kernel
    BY DEF Kernel
  <2>2. e.observed_at_ns = o.time
    BY <1>1
  <2> HIDE DEF x
  <2>3. QED
    BY <2>1, <2>2, <1>3, <1>4, KernelShape
<1>6. o.ret \in Int /\ (o.ret < 0 <=> o.ret # 0)
  BY ReturnFacts
<1>7. succeeded(e) <=> ~(o.ret < 0)
  BY <1>1, <1>6 DEF succeeded
<1> DEFINE base == [result |-> IF succeeded(e) THEN "allowed" ELSE "denied",
                    flags |-> Dec(e.flags), cgroup_id |-> Dec(e.cgroup_id),
                    coverage |-> "lsm_gated", resource_ref_kind |-> "file",
                    resource_ref_id |-> e.path]
<1>8. x.labels = With(With(base, Only(~succeeded(e), ErrnoLabels(e))), TruncatedLabel(e))
  BY DEF FileOpenOccurrence, Occurrence
<1>9. TruncatedLabel(e) = <<>>
  BY <1>1 DEF TruncatedLabel, Only
<1>10. Only(~succeeded(e), ErrnoLabels(e)) =
         IF o.ret < 0 THEN [errno |-> errno_name(e.ret), errno_num |-> Dec(o.ret)] ELSE <<>>
  BY <1>1, <1>7 DEF Only, ErrnoLabels
<1>11. /\ DOMAIN base = {"result", "flags", "cgroup_id", "coverage", "resource_ref_kind",
                        "resource_ref_id"}
       /\ base.resource_ref_kind = "file" /\ base.resource_ref_id = Str(o.path.head)
  BY <1>1
<1> HIDE DEF base
<1>12. /\ DOMAIN x.labels = DOMAIN base \cup (IF o.ret < 0 THEN {"errno", "errno_num"} ELSE {})
       /\ x.labels.resource_ref_kind = "file" /\ x.labels.resource_ref_id = Str(o.path.head)
       /\ o.ret < 0 => x.labels.errno_num = Dec(o.ret)
  BY <1>8, <1>9, <1>10, <1>11 DEF With
<1>13. /\ IsOccurrence(x) /\ x.id = id /\ x.type = "kernel.file.open"
       /\ x.process = [pid |-> o.tgid, ppid |-> None, command |-> Str(o.comm), uid |-> o.uid]
       /\ x.network = Unset
       /\ x.outcome = IF o.ret < 0 THEN "failure" ELSE "success"
  BY <1>1, <1>7 DEF FileOpenOccurrence, Occurrence, ProcessData, OutcomeOf, IsOccurrence, OccFields
<1> HIDE DEF x
<1>14. QED
  BY <1>5, <1>11, <1>12, <1>13 DEF IsRecord

LEMMA AttemptShape ==
  ASSUME NEW o, o.kind = "FileOpenAttempt", IsHappening(o), NEW id
  PROVE  LET r == RecordOf(o, id)
             x == r.occurrence
         IN  /\ IsRecord(r, id, "kernel.file.open_attempt", o.time, o.binding)
             /\ x.process = [pid |-> o.tgid, ppid |-> None, command |-> Str(o.comm), uid |-> o.uid]
             /\ x.network = Unset /\ x.outcome = "failure"
             /\ DOMAIN x.labels = {"result", "cgroup_id", "requested_path", "path_resolution",
                                   "errno", "errno_num"}
             /\ x.labels.requested_path = Str(o.path.head) /\ x.labels.errno_num = Dec(o.ret)
<1> DEFINE e == FileOpenEvent(FileRaw(o, 0))
           x == to_open_attempt_occurrence(e, id, config.cluster)
<1>1. e = [observed_at_ns |-> o.time, pid |-> o.tgid, uid |-> o.uid, cgroup_id |-> o.cgroup,
           comm |-> Str(o.comm), ret |-> o.ret, flags |-> 0, path |-> Str(o.path.head),
           path_truncated |-> FALSE]
  BY FileEvent
<1>2. Raw(o) = FileRaw(o, 0)
  BY DEF Raw
<1>3. decode_event(o.kind, Raw(o)) = e
  BY <1>2 DEF decode_event
<1> HIDE DEF e
<1>4. to_occurrence(o.kind, e, id, config.cluster) = x
  BY DEF to_occurrence
<1>5. /\ RecordOf(o, id).occurrence = x /\ RecordOf(o, id).binding = o.binding
      /\ RecordOf(o, id).observed_at_ns = o.time /\ DOMAIN RecordOf(o, id).probe = ProbeFields
  <2>1. o.kind \in Kernel
    BY DEF Kernel
  <2>2. e.observed_at_ns = o.time
    BY <1>1
  <2> HIDE DEF x
  <2>3. QED
    BY <2>1, <2>2, <1>3, <1>4, KernelShape
<1> DEFINE base == [result |-> "failed", cgroup_id |-> Dec(e.cgroup_id),
                    requested_path |-> e.path, path_resolution |-> "unresolved"]
<1>8. x.labels = With(With(base, ErrnoLabels(e)), TruncatedLabel(e))
  BY DEF to_open_attempt_occurrence, Occurrence
<1>9. TruncatedLabel(e) = <<>>
  BY <1>1 DEF TruncatedLabel, Only
<1>10. ErrnoLabels(e) = [errno |-> errno_name(e.ret), errno_num |-> Dec(o.ret)]
  BY <1>1 DEF ErrnoLabels
<1>11. /\ DOMAIN base = {"result", "cgroup_id", "requested_path", "path_resolution"}
       /\ base.requested_path = Str(o.path.head)
  BY <1>1
<1> HIDE DEF base
<1>12. /\ DOMAIN x.labels = DOMAIN base \cup {"errno", "errno_num"}
       /\ x.labels.requested_path = Str(o.path.head) /\ x.labels.errno_num = Dec(o.ret)
  BY <1>8, <1>9, <1>10, <1>11 DEF With
<1>13. /\ IsOccurrence(x) /\ x.id = id /\ x.type = "kernel.file.open_attempt"
       /\ x.process = [pid |-> o.tgid, ppid |-> None, command |-> Str(o.comm), uid |-> o.uid]
       /\ x.network = Unset /\ x.outcome = "failure"
  BY <1>1 DEF to_open_attempt_occurrence, Occurrence, ProcessData, IsOccurrence, OccFields
<1> HIDE DEF x
<1>14. QED
  BY <1>5, <1>11, <1>12, <1>13 DEF IsRecord

LEMMA ExecEvent ==
  ASSUME NEW o
  PROVE  LET e == ProcessExecEvent(ProcessExecRaw(o))
         IN  /\ e.observed_at_ns = o.time /\ e.pid = o.tgid /\ e.tid = o.tid /\ e.uid = o.uid
             /\ e.ppid = read_ppid(o) /\ e.ret = 0 /\ e.filename = Str(o.path.head)
             /\ e.leader_start_boottime_ns = read_leader_start_boottime_ns(o)
BY DEF ProcessExecEvent, ProcessExecRaw, With

ExecLabels == {"cgroup_id", "gid", "host_tgid", "host_tid", "resource_ref_kind", "resource_ref_id",
               "argv_hash"}
LifetimeLabels == {"leader_start_boottime_ns", "runtime_identity_method"}

LEMMA ExecShape ==
  ASSUME NEW o, o.kind = "ProcessExec", IsHappening(o), NEW id
  PROVE  LET r == RecordOf(o, id)
             x == r.occurrence
         IN  /\ IsRecord(r, id, "kernel.process.exec", o.time, o.binding)
             /\ x.process = [pid |-> o.tgid,
                             ppid |-> IF o.offsets /\ o.ppid # 0 THEN o.ppid ELSE None,
                             command |-> Str(o.path.head), uid |-> o.uid]
             /\ x.network = Unset /\ x.outcome = "success"
             /\ DOMAIN x.labels = ExecLabels \cup (IF o.offsets THEN LifetimeLabels ELSE {})
             /\ x.labels.resource_ref_kind = "executable" /\ x.labels.resource_ref_id = Str(o.path.head)
             /\ x.labels.host_tgid = Dec(o.tgid)
             /\ o.offsets => /\ x.labels.leader_start_boottime_ns = Dec(o.start)
                             /\ x.labels.runtime_identity_method = "task_start_boottime_btf_v1"
<1> DEFINE e == ProcessExecEvent(ProcessExecRaw(o))
           x == ProcessExecOccurrence(e, id, config.cluster)
<1>1. /\ e.observed_at_ns = o.time /\ e.pid = o.tgid /\ e.tid = o.tid /\ e.uid = o.uid
      /\ e.ppid = read_ppid(o) /\ e.ret = 0 /\ e.filename = Str(o.path.head)
      /\ e.leader_start_boottime_ns = read_leader_start_boottime_ns(o)
  BY ExecEvent
<1>2. Raw(o) = ProcessExecRaw(o)
  BY DEF Raw
<1>3. decode_event(o.kind, Raw(o)) = e
  BY <1>2 DEF decode_event
<1> HIDE DEF e
<1>4. to_occurrence(o.kind, e, id, config.cluster) = x
  BY DEF to_occurrence
<1>5. /\ RecordOf(o, id).occurrence = x /\ RecordOf(o, id).binding = o.binding
      /\ RecordOf(o, id).observed_at_ns = o.time /\ DOMAIN RecordOf(o, id).probe = ProbeFields
  <2>1. o.kind \in Kernel
    BY DEF Kernel
  <2> HIDE DEF x
  <2>3. QED
    BY <2>1, <1>1, <1>3, <1>4, KernelShape
<1>6. o.offsets \in BOOLEAN /\ o.start \in Nat /\ o.start # 0
  BY DEF IsHappening
<1>7. /\ e.leader_start_boottime_ns # 0 <=> o.offsets
      /\ o.offsets => e.leader_start_boottime_ns = o.start
  BY <1>1, <1>6 DEF read_leader_start_boottime_ns
<1> DEFINE base == [cgroup_id |-> Dec(e.cgroup_id), gid |-> Dec(e.gid), host_tgid |-> Dec(e.pid),
                    host_tid |-> Dec(e.tid), resource_ref_kind |-> "executable",
                    resource_ref_id |-> e.filename, argv_hash |-> Dec(e.argv_hash)]
           life == [leader_start_boottime_ns |-> Dec(e.leader_start_boottime_ns),
                    runtime_identity_method |-> "task_start_boottime_btf_v1"]
<1>8. x.labels = With(base, Only(e.leader_start_boottime_ns # 0, life))
  BY DEF ProcessExecOccurrence, Occurrence
<1>9. /\ DOMAIN life = LifetimeLabels
      /\ o.offsets => life.leader_start_boottime_ns = Dec(o.start)
      /\ life.runtime_identity_method = "task_start_boottime_btf_v1"
  BY <1>7 DEF LifetimeLabels
<1>11. /\ DOMAIN base = ExecLabels /\ base.host_tgid = Dec(o.tgid)
       /\ base.resource_ref_kind = "executable" /\ base.resource_ref_id = Str(o.path.head)
  BY <1>1 DEF ExecLabels
<1> HIDE DEF base, life
<1>12. /\ DOMAIN x.labels = ExecLabels \cup (IF o.offsets THEN LifetimeLabels ELSE {})
       /\ x.labels.resource_ref_kind = "executable" /\ x.labels.resource_ref_id = Str(o.path.head)
       /\ x.labels.host_tgid = Dec(o.tgid)
       /\ o.offsets => /\ x.labels.leader_start_boottime_ns = Dec(o.start)
                       /\ x.labels.runtime_identity_method = "task_start_boottime_btf_v1"
  <2> HIDE DEF x
  <2>1. CASE o.offsets
    <3>1. x.labels = With(base, life)
      BY <2>1, <1>7, <1>8 DEF Only
    <3>2. QED
      BY <2>1, <3>1, <1>9, <1>11 DEF With, ExecLabels, LifetimeLabels
  <2>2. CASE ~o.offsets
    <3>1. x.labels = With(base, <<>>)
      BY <2>2, <1>7, <1>8 DEF Only
    <3>2. QED
      BY <2>2, <3>1, <1>11 DEF With, ExecLabels
  <2>3. QED
    BY <2>1, <2>2
<1>13. /\ IsOccurrence(x) /\ x.id = id /\ x.type = "kernel.process.exec"
       /\ x.process = [pid |-> e.pid, ppid |-> IF e.ppid = 0 THEN None ELSE e.ppid,
                       command |-> e.filename, uid |-> e.uid]
       /\ x.network = Unset /\ x.outcome = "success"
  BY <1>1 DEF ProcessExecOccurrence, Occurrence, ProcessData, OutcomeOf, succeeded, IsOccurrence,
              OccFields
<1> HIDE DEF x
<1>14. (IF e.ppid = 0 THEN None ELSE e.ppid) = IF o.offsets /\ o.ppid # 0 THEN o.ppid ELSE None
  BY <1>1, <1>6 DEF read_ppid
<1>15. QED
  BY <1>1, <1>5, <1>12, <1>13, <1>14 DEF IsRecord

\* The port is swapped once by the kernel's byte order and once by the decoder.
LEMMA SwappedTwice ==
  ASSUME NEW port \in Ports
  PROVE  Swap16(Swap16(port)) = port
<1> DEFINE low == port % 256
           high == port \div 256
<1>1. /\ low \in Int /\ high \in Int /\ 0 =< low /\ low < 256 /\ port = 256 * high + low
      /\ 0 =< high /\ high < 256
  <2>1. port \in Int /\ 0 =< port /\ port < 65536
    BY DEF Ports
  <2>2. low \in Int /\ high \in Int /\ 0 =< low /\ low < 256 /\ port = 256 * high + low
    BY <2>1
  <2> HIDE DEF low, high
  <2>3. QED
    BY <2>1, <2>2
<1>2. Swap16(port) = 256 * low + high
  BY <1>1 DEF Swap16
<1> HIDE DEF low, high
<1>3. (256 * low + high) % 256 = high /\ (256 * low + high) \div 256 = low
  BY <1>1
<1>4. QED
  BY <1>1, <1>2, <1>3 DEF Swap16

Address(words, family) == IF family = AF_INET6 THEN words ELSE <<words[1]>>

\* The event of a connection, as far as the three probes agree.
IsTcpEvent(e, o, source_port) ==
  /\ e.observed_at_ns = o.time /\ e.pid = o.tgid /\ e.comm = Str(o.comm)
  /\ e.src_ip = Address(o.src, o.family) /\ e.dst_ip = Address(o.dst, o.family)
  /\ e.src_port = source_port /\ e.dst_port = o.dst_port

TcpEventFields == {"observed_at_ns", "pid", "tid", "cgroup_id", "comm", "src_ip", "dst_ip",
                   "src_port", "dst_port", "netns"}

LEMMA TcpDecoded ==
  ASSUME NEW o, o.dst_port \in Ports, NEW raw, NEW source_port,
         raw.timestamp_ns = o.time, raw.pid = o.tgid, raw.comm = o.comm,
         raw.src_addr = read_addrs(o).src, raw.dst_addr = read_addrs(o).dst,
         raw.addr_family = o.family, raw.src_port = source_port,
         raw.dst_port = Swap16(o.dst_port)
  PROVE  IsTcpEvent(TcpEvent(raw), o, source_port) /\ DOMAIN TcpEvent(raw) = TcpEventFields
<1>1. Swap16(raw.dst_port) = o.dst_port
  BY SwappedTwice
<1>2. ip_from(raw.src_addr, raw.addr_family) = Address(o.src, o.family)
  BY DEF ip_from, read_addrs, Address
<1>3. ip_from(raw.dst_addr, raw.addr_family) = Address(o.dst, o.family)
  BY DEF ip_from, read_addrs, Address
<1>4. QED
  BY <1>1, <1>2, <1>3 DEF TcpEvent, IsTcpEvent, TcpEventFields

\* The occurrence the three normalisers start from.
TcpBase(x, o, id, type, source_port) ==
  /\ IsOccurrence(x) /\ x.id = id /\ x.type = type
  /\ x.process = [pid |-> o.tgid, ppid |-> None, command |-> Str(o.comm), uid |-> None]
  /\ x.network # Unset
  /\ x.network.src_ip = Address(o.src, o.family) /\ x.network.dst_ip = Address(o.dst, o.family)
  /\ x.network.src_port = source_port /\ x.network.dst_port = o.dst_port

LEMMA TcpNormalised ==
  ASSUME NEW o, NEW e, NEW source_port, IsTcpEvent(e, o, source_port), NEW id, NEW type, NEW cluster
  PROVE  /\ TcpBase(TcpOccurrence(e, id, type, cluster), o, id, type, source_port)
         /\ DOMAIN TcpOccurrence(e, id, type, cluster).network =
              {"src_ip", "dst_ip", "src_port", "dst_port", "bytes"}
         /\ DOMAIN TcpOccurrence(e, id, type, cluster).labels = {"cgroup_id", "netns"}
         /\ TcpOccurrence(e, id, type, cluster).error = None
<1> DEFINE net == [src_ip |-> e.src_ip, dst_ip |-> e.dst_ip, src_port |-> e.src_port,
                   dst_port |-> e.dst_port, bytes |-> None]
           x == TcpOccurrence(e, id, type, cluster)
<1>1. x.network = net
  BY DEF TcpOccurrence, Occurrence
<1>2. /\ DOMAIN net = {"src_ip", "dst_ip", "src_port", "dst_port", "bytes"}
      /\ net.src_ip = e.src_ip /\ net.dst_ip = e.dst_ip /\ net.src_port = e.src_port
      /\ net.dst_port = e.dst_port
  OBVIOUS
<1>3. net # Unset
  <2>1. DOMAIN Unset = {}
    BY DEF Unset
  <2>2. "bytes" \in DOMAIN net
    BY <1>2
  <2> HIDE DEF net
  <2>3. QED
    BY <2>1, <2>2
<1>4. /\ IsOccurrence(x) /\ x.id = id /\ x.type = type /\ x.error = None
      /\ x.process = [pid |-> e.pid, ppid |-> None, command |-> e.comm, uid |-> None]
      /\ x.labels = [cgroup_id |-> Dec(e.cgroup_id), netns |-> Dec(e.netns)]
  BY DEF TcpOccurrence, Occurrence, IsOccurrence, OccFields, ProcessData
<1>5. DOMAIN x.labels = {"cgroup_id", "netns"}
  <2> HIDE DEF x
  <2>1. QED
    BY <1>4
<1> HIDE DEF x, net
<1>6. QED
  <2>1. TcpBase(x, o, id, type, source_port)
    BY <1>1, <1>2, <1>3, <1>4 DEF TcpBase, IsTcpEvent
  <2>2. QED
    BY <2>1, <1>1, <1>2, <1>4, <1>5 DEF x

LEMMA ConnectShape ==
  ASSUME NEW o, o.kind = "TcpConnect", IsHappening(o), NEW id
  PROVE  LET r == RecordOf(o, id)
             x == r.occurrence
         IN  /\ IsRecord(r, id, "kernel.tcp.connect", o.time, o.binding)
             /\ TcpBase(x, o, id, "kernel.tcp.connect", o.src_port)
             /\ x.outcome = IF o.ret < 0 THEN "failure" ELSE "success"
             /\ DOMAIN x.labels = {"cgroup_id", "netns"}
                                  \cup (IF o.ret < 0 THEN {"errno_num"} ELSE {})
             /\ o.ret < 0 => x.labels.errno_num = Dec(o.ret)
<1> DEFINE raw == TcpConnectRaw(o)
           event == TcpEvent(raw)
           e == TcpConnectEvent(raw)
           x == TcpConnectOccurrence(e, id, config.cluster)
<1>1. /\ raw.timestamp_ns = o.time /\ raw.pid = o.tgid /\ raw.comm = o.comm
      /\ raw.src_addr = read_addrs(o).src /\ raw.dst_addr = read_addrs(o).dst
      /\ raw.addr_family = o.family /\ raw.src_port = o.src_port
      /\ raw.dst_port = Swap16(o.dst_port) /\ raw.ret = o.ret
  BY DEF TcpConnectRaw, TcpRaw, With
<1>2. Raw(o) = raw
  BY DEF Raw
<1>3. decode_event(o.kind, Raw(o)) = e
  BY <1>2 DEF decode_event, Tcp
<1>4. o.dst_port \in Ports
  BY DEF IsHappening
<1> HIDE DEF raw
<1>5. IsTcpEvent(event, o, o.src_port) /\ DOMAIN event = TcpEventFields
  BY <1>1, <1>4, TcpDecoded
<1> HIDE DEF event
<1>6. e = With(event, [ret |-> o.ret])
  BY <1>1 DEF TcpConnectEvent, event
<1> HIDE DEF e
<1>7. IsTcpEvent(e, o, o.src_port) /\ e.ret = o.ret
  BY <1>5, <1>6 DEF IsTcpEvent, TcpEventFields, With
<1> DEFINE t == TcpOccurrence(e, id, "kernel.tcp.connect", config.cluster)
<1>8. /\ TcpBase(t, o, id, "kernel.tcp.connect", o.src_port)
      /\ DOMAIN t.labels = {"cgroup_id", "netns"}
  BY <1>7, TcpNormalised
<1>9. o.ret \in Int /\ (o.ret < 0 <=> o.ret # 0) /\ (succeeded(e) <=> o.ret = 0)
  BY <1>7, ReturnFacts DEF succeeded
<1> HIDE DEF t
<1>10. /\ TcpBase(x, o, id, "kernel.tcp.connect", o.src_port)
       /\ x.outcome = OutcomeOf(e)
       /\ x.labels = With(t.labels, Only(~succeeded(e), [errno_num |-> Dec(e.ret)]))
  BY <1>8 DEF TcpConnectOccurrence, TcpBase, IsOccurrence, OccFields, t
<1>11. /\ DOMAIN x.labels = {"cgroup_id", "netns"} \cup (IF o.ret < 0 THEN {"errno_num"} ELSE {})
       /\ o.ret < 0 => x.labels.errno_num = Dec(o.ret)
  <2> HIDE DEF x
  <2>1. CASE o.ret = 0
    <3>1. x.labels = With(t.labels, <<>>)
      BY <2>1, <1>9, <1>10 DEF Only
    <3>2. QED
      BY <3>1, <2>1, <1>8, <1>9 DEF With
  <2>2. CASE o.ret # 0
    <3>1. x.labels = With(t.labels, [errno_num |-> Dec(o.ret)])
      BY <2>2, <1>7, <1>9, <1>10 DEF Only
    <3>2. QED
      BY <3>1, <2>2, <1>8, <1>9 DEF With
  <2>3. QED
    BY <2>1, <2>2
<1>12. to_occurrence(o.kind, e, id, config.cluster) = x
  BY DEF to_occurrence
<1> HIDE DEF x
<1>13. /\ RecordOf(o, id).occurrence = x /\ RecordOf(o, id).binding = o.binding
       /\ RecordOf(o, id).observed_at_ns = o.time /\ DOMAIN RecordOf(o, id).probe = ProbeFields
  <2>1. o.kind \in Kernel
    BY DEF Kernel, Tcp
  <2>2. e.observed_at_ns = o.time
    BY <1>7 DEF IsTcpEvent
  <2>3. QED
    BY <2>1, <2>2, <1>3, <1>12, KernelShape
<1>14. x.outcome = IF o.ret < 0 THEN "failure" ELSE "success"
  BY <1>9, <1>10 DEF OutcomeOf
<1>15. QED
  BY <1>10, <1>11, <1>13, <1>14 DEF IsRecord, TcpBase

LEMMA CloseShape ==
  ASSUME NEW o, o.kind = "TcpClose", IsHappening(o), NEW id
  PROVE  LET r == RecordOf(o, id)
             x == r.occurrence
         IN  /\ IsRecord(r, id, "kernel.tcp.close", o.time, o.binding)
             /\ TcpBase(x, o, id, "kernel.tcp.close", 0)
             /\ x.outcome = "success" /\ DOMAIN x.labels = {"cgroup_id", "netns"}
<1> DEFINE raw == TcpCloseRaw(o)
           event == TcpEvent(raw)
           e == TcpCloseEvent(raw)
           x == TcpCloseOccurrence(e, id, config.cluster)
<1>1. /\ raw.timestamp_ns = o.time /\ raw.pid = o.tgid /\ raw.comm = o.comm
      /\ raw.src_addr = read_addrs(o).src /\ raw.dst_addr = read_addrs(o).dst
      /\ raw.addr_family = o.family /\ raw.src_port = 0
      /\ raw.dst_port = Swap16(o.dst_port)
  BY DEF TcpCloseRaw, TcpRaw, With
<1>2. Raw(o) = raw
  BY DEF Raw
<1>3. decode_event(o.kind, Raw(o)) = e
  BY <1>2 DEF decode_event, Tcp
<1>4. o.dst_port \in Ports
  BY DEF IsHappening
<1> HIDE DEF raw
<1>5. IsTcpEvent(event, o, 0) /\ DOMAIN event = TcpEventFields
  BY <1>1, <1>4, TcpDecoded
<1> HIDE DEF event
<1>6. e = With(event, [bytes |-> raw.bytes, duration_ns |-> raw.duration_ns])
  BY DEF TcpCloseEvent, event
<1> HIDE DEF e
<1>7. IsTcpEvent(e, o, 0)
  BY <1>5, <1>6 DEF IsTcpEvent, TcpEventFields, With
<1> DEFINE t == TcpOccurrence(e, id, "kernel.tcp.close", config.cluster)
<1>8. /\ TcpBase(t, o, id, "kernel.tcp.close", 0)
      /\ DOMAIN t.network = {"src_ip", "dst_ip", "src_port", "dst_port", "bytes"}
      /\ DOMAIN t.labels = {"cgroup_id", "netns"}
  BY <1>7, TcpNormalised
<1> HIDE DEF t
<1>9. PICK duration : x = [t EXCEPT !.outcome = "success", !.network.bytes = e.bytes,
                                    !.duration_us = duration]
  BY Zenon DEF TcpCloseOccurrence, t
<1> HIDE DEF x
<1>10. /\ IsOccurrence(x) /\ x.id = t.id /\ x.type = t.type /\ x.outcome = "success"
       /\ x.process = t.process /\ x.labels = t.labels
       /\ x.network = [t.network EXCEPT !.bytes = e.bytes]
  BY <1>8, <1>9 DEF TcpBase, IsOccurrence, OccFields
<1>11. /\ DOMAIN x.network = DOMAIN t.network
       /\ x.network.src_ip = t.network.src_ip /\ x.network.dst_ip = t.network.dst_ip
       /\ x.network.src_port = t.network.src_port /\ x.network.dst_port = t.network.dst_port
  BY <1>8, <1>10
<1>12. x.network # Unset
  <2>1. DOMAIN Unset = {}
    BY DEF Unset
  <2>2. "bytes" \in DOMAIN x.network
    BY <1>8, <1>11
  <2>3. QED
    BY <2>1, <2>2
<1>13. TcpBase(x, o, id, "kernel.tcp.close", 0) /\ DOMAIN x.labels = {"cgroup_id", "netns"}
  BY <1>8, <1>10, <1>11, <1>12 DEF TcpBase
<1>14. to_occurrence(o.kind, e, id, config.cluster) = x
  BY DEF to_occurrence, x
<1>15. /\ RecordOf(o, id).occurrence = x /\ RecordOf(o, id).binding = o.binding
       /\ RecordOf(o, id).observed_at_ns = o.time /\ DOMAIN RecordOf(o, id).probe = ProbeFields
  <2>1. o.kind \in Kernel
    BY DEF Kernel, Tcp
  <2>2. e.observed_at_ns = o.time
    BY <1>7 DEF IsTcpEvent
  <2>3. QED
    BY <2>1, <2>2, <1>3, <1>14, KernelShape
<1>16. QED
  BY <1>10, <1>13, <1>15 DEF IsRecord, TcpBase

LEMMA RetransmitShape ==
  ASSUME NEW o, o.kind = "TcpRetransmit", IsHappening(o), NEW id
  PROVE  LET r == RecordOf(o, id)
             x == r.occurrence
         IN  /\ IsRecord(r, id, "kernel.tcp.retransmit", o.time, o.binding)
             /\ TcpBase(x, o, id, "kernel.tcp.retransmit", o.src_port)
             /\ x.outcome = "failure" /\ DOMAIN x.labels = {"cgroup_id", "netns", "tcp_state"}
<1> DEFINE raw == TcpRetransmitRaw(o)
           event == TcpEvent(raw)
           e == TcpRetransmitEvent(raw)
           x == TcpRetransmitOccurrence(e, id, config.cluster)
<1>1. /\ raw.timestamp_ns = o.time /\ raw.pid = o.tgid /\ raw.comm = o.comm
      /\ raw.src_addr = read_addrs(o).src /\ raw.dst_addr = read_addrs(o).dst
      /\ raw.addr_family = o.family /\ raw.src_port = o.src_port
      /\ raw.dst_port = Swap16(o.dst_port)
  BY DEF TcpRetransmitRaw, TcpRaw, With
<1>2. Raw(o) = raw
  BY DEF Raw
<1>3. decode_event(o.kind, Raw(o)) = e
  BY <1>2 DEF decode_event, Tcp
<1>4. o.dst_port \in Ports
  BY DEF IsHappening
<1> HIDE DEF raw
<1>5. IsTcpEvent(event, o, o.src_port) /\ DOMAIN event = TcpEventFields
  BY <1>1, <1>4, TcpDecoded
<1> HIDE DEF event
<1>6. e = With(event, [state |-> TcpState(raw.state)])
  BY DEF TcpRetransmitEvent, event
<1> HIDE DEF e
<1>7. IsTcpEvent(e, o, o.src_port)
  BY <1>5, <1>6 DEF IsTcpEvent, TcpEventFields, With
<1> DEFINE t == TcpOccurrence(e, id, "kernel.tcp.retransmit", config.cluster)
<1>8. /\ TcpBase(t, o, id, "kernel.tcp.retransmit", o.src_port)
      /\ DOMAIN t.labels = {"cgroup_id", "netns"}
  BY <1>7, TcpNormalised
<1> HIDE DEF t
<1>9. x = [t EXCEPT !.severity = "Warning", !.outcome = "failure",
                    !.labels = With(t.labels, [tcp_state |-> e.state])]
  BY Zenon DEF TcpRetransmitOccurrence, t
<1> HIDE DEF x
<1>10. /\ TcpBase(x, o, id, "kernel.tcp.retransmit", o.src_port) /\ x.outcome = "failure"
       /\ x.labels = With(t.labels, [tcp_state |-> e.state])
  BY <1>8, <1>9 DEF TcpBase, IsOccurrence, OccFields
<1>11. DOMAIN x.labels = {"cgroup_id", "netns", "tcp_state"}
  BY <1>8, <1>10 DEF With
<1>14. to_occurrence(o.kind, e, id, config.cluster) = x
  BY DEF to_occurrence, x
<1>15. /\ RecordOf(o, id).occurrence = x /\ RecordOf(o, id).binding = o.binding
       /\ RecordOf(o, id).observed_at_ns = o.time /\ DOMAIN RecordOf(o, id).probe = ProbeFields
  <2>1. o.kind \in Kernel
    BY DEF Kernel, Tcp
  <2>2. e.observed_at_ns = o.time
    BY <1>7 DEF IsTcpEvent
  <2>3. QED
    BY <2>1, <2>2, <1>3, <1>14, KernelShape
<1>16. QED
  BY <1>10, <1>11, <1>15 DEF IsRecord, TcpBase

\* Every observation has a record under its own id.
LEMMA RecordShape ==
  ASSUME NEW o, IsObservation(o), NEW id
  PROVE  \E type, time, binding : IsRecord(RecordOf(o, id), id, type, time, binding)
<1>1. CASE o.kind = "Gap"
  BY <1>1, GapShape
<1>2. CASE o.kind = "ParseErrors"
  BY <1>2, ParseErrorsShape
<1>3. CASE o.kind \in Kernel /\ IsHappening(o)
  <2>1. CASE o.kind = "ProcessExec"
    BY <1>3, <2>1, ExecShape
  <2>2. CASE o.kind = "FileOpen"
    BY <1>3, <2>2, FileOpenShape
  <2>3. CASE o.kind = "FileOpenAttempt"
    BY <1>3, <2>3, AttemptShape
  <2>4. CASE o.kind = "TcpConnect"
    BY <1>3, <2>4, ConnectShape
  <2>5. CASE o.kind = "TcpClose"
    BY <1>3, <2>5, CloseShape
  <2>6. CASE o.kind = "TcpRetransmit"
    BY <1>3, <2>6, RetransmitShape
  <2>7. QED
    BY <1>3, <2>1, <2>2, <2>3, <2>4, <2>5, <2>6 DEF Kernel, Tcp
<1>4. QED
  BY <1>1, <1>2, <1>3 DEF IsObservation

-----------------------------------------------------------------------------
(* The keys of an item come from parts that share no key. *)

Agrees(f, g, k) == (k \in DOMAIN f <=> k \in DOMAIN g) /\ (k \in DOMAIN f => f[k] = g[k])

LEMMA AgreesFirst ==
  ASSUME NEW f, NEW g, NEW k, k \notin DOMAIN g
  PROVE  Agrees(With(f, g), f, k)
BY DEF Agrees, With

LEMMA AgreesSecond ==
  ASSUME NEW f, NEW g, NEW k, k \notin DOMAIN f
  PROVE  Agrees(With(f, g), g, k)
BY DEF Agrees, With

LEMMA AgreesOver ==
  ASSUME NEW f, NEW g, NEW k, k \in DOMAIN g
  PROVE  Agrees(With(f, g), g, k)
BY DEF Agrees, With

LEMMA AgreesTransitive ==
  ASSUME NEW f, NEW g, NEW h, NEW k, Agrees(f, g, k), Agrees(g, h, k)
  PROVE  Agrees(f, h, k)
BY DEF Agrees

BaseNames == {"occurrence_type", "event_id", "kernel_time_ns"}
CopiedNames ==
  {"node_id", "pod_uid", "pod_name", "container_id", "k8s_namespace", "service_account",
   "owner_kind", "owner_name", "owner_uid", "cgroup_id", "argv_hash", "tcp_state", "cluster_id",
   "runtime_subject_id", "node_identity", "boot_id", "runtime_identity_method", "evidence_level",
   "cause", "requested_path", "path_resolution", "coverage", "flags"}
OtherLabelNames == {"affected_probes", "exe", "path", "path_truncated", "errno"}
LabelNames == (CopiedNames \cup NUMBER_KEYS) \cup OtherLabelNames
ProcessNames == {"pid", "comm", "ppid", "uid"}
NetworkNames == {"protocol", "source_ip", "source_port", "destination_ip", "destination_port"}

LEMMA CopiedDomain ==
  ASSUME NEW labels
  PROVE  DOMAIN CopiedLabels(labels) \subseteq CopiedNames
<1>1. \A l \in DOMAIN LABEL_KEYS : LABEL_KEYS[l] \in CopiedNames
  BY DEF LABEL_KEYS, CopiedNames
<1>2. QED
  BY <1>1 DEF CopiedLabels

LEMMA NumberDomain ==
  ASSUME NEW labels
  PROVE  DOMAIN NumberLabels(labels) \subseteq NUMBER_KEYS
BY DEF NumberLabels

\* The parts taken from labels, but for the copies and the numbers.
Probes(labels) ==
  Only("affected_probes" \in DOMAIN labels, [affected_probes |-> labels["affected_probes"].json])
References(labels) == With(Reference(labels, "executable", "exe"), Reference(labels, "file", "path"))
Truncated(labels) == Only("path_truncated" \in DOMAIN labels, [path_truncated |-> TRUE])

LEMMA OtherDomains ==
  ASSUME NEW labels
  PROVE  /\ DOMAIN Probes(labels) \subseteq {"affected_probes"}
         /\ DOMAIN Reference(labels, "executable", "exe") \subseteq {"exe"}
         /\ DOMAIN Reference(labels, "file", "path") \subseteq {"path"}
         /\ DOMAIN References(labels) \subseteq {"exe", "path"}
         /\ DOMAIN Truncated(labels) \subseteq {"path_truncated"}
         /\ DOMAIN WireErrno(labels) \subseteq {"errno"}
<1>1. DOMAIN Probes(labels) \subseteq {"affected_probes"}
  BY DEF Probes, Only
<1>2. DOMAIN Reference(labels, "executable", "exe") \subseteq {"exe"}
  BY DEF Reference, Only, Entry
<1>3. DOMAIN Reference(labels, "file", "path") \subseteq {"path"}
  BY DEF Reference, Only, Entry
<1>4. DOMAIN References(labels) \subseteq {"exe", "path"}
  BY <1>2, <1>3 DEF References, With
<1>5. DOMAIN Truncated(labels) \subseteq {"path_truncated"}
  BY DEF Truncated, Only
<1>6. DOMAIN WireErrno(labels) \subseteq {"errno"}
  BY DEF WireErrno, Only
<1>7. QED
  BY <1>1, <1>2, <1>3, <1>4, <1>5, <1>6

LEMMA LabelParts ==
  ASSUME NEW labels
  PROVE  /\ DOMAIN LabelKeys(labels) \subseteq LabelNames
         /\ \A k \in CopiedNames : Agrees(LabelKeys(labels), CopiedLabels(labels), k)
         /\ \A k \in NUMBER_KEYS : Agrees(LabelKeys(labels), NumberLabels(labels), k)
         /\ Agrees(LabelKeys(labels), Probes(labels), "affected_probes")
         /\ Agrees(LabelKeys(labels), Reference(labels, "executable", "exe"), "exe")
         /\ Agrees(LabelKeys(labels), Reference(labels, "file", "path"), "path")
         /\ Agrees(LabelKeys(labels), WireErrno(labels), "errno")
<1> DEFINE c == CopiedLabels(labels)
           n == NumberLabels(labels)
           p == Probes(labels)
           x == Reference(labels, "executable", "exe")
           f == Reference(labels, "file", "path")
           r == References(labels)
           t == Truncated(labels)
           e == WireErrno(labels)
<1>1. LabelKeys(labels) = With(With(c, n), With(p, With(r, With(t, e))))
  BY Zenon DEF LabelKeys, Probes, References, Truncated
<1>2. /\ DOMAIN c \subseteq CopiedNames /\ DOMAIN n \subseteq NUMBER_KEYS
      /\ DOMAIN p \subseteq {"affected_probes"} /\ DOMAIN x \subseteq {"exe"}
      /\ DOMAIN f \subseteq {"path"} /\ DOMAIN r \subseteq {"exe", "path"}
      /\ DOMAIN t \subseteq {"path_truncated"} /\ DOMAIN e \subseteq {"errno"}
  BY CopiedDomain, NumberDomain, OtherDomains
<1>3. r = With(x, f)
  BY Zenon DEF References
<1>4. CopiedNames \cap NUMBER_KEYS = {}
  BY DEF CopiedNames, NUMBER_KEYS
<1>5. /\ OtherLabelNames \cap CopiedNames = {} /\ OtherLabelNames \cap NUMBER_KEYS = {}
  BY DEF CopiedNames, NUMBER_KEYS, OtherLabelNames
<1> HIDE DEF c, n, p, x, f, r, t, e
<1>6. DOMAIN With(p, With(r, With(t, e))) \subseteq OtherLabelNames
  BY <1>2 DEF OtherLabelNames, With
<1>7. DOMAIN With(c, n) \subseteq CopiedNames \cup NUMBER_KEYS
  BY <1>2, WithDomain
<1>8. DOMAIN LabelKeys(labels) \subseteq LabelNames
  BY <1>1, <1>6, <1>7 DEF LabelNames, With
<1>9. ASSUME NEW k \in CopiedNames
      PROVE  Agrees(LabelKeys(labels), c, k)
  <2>1. Agrees(LabelKeys(labels), With(c, n), k)
    BY <1>1, <1>5, <1>6, AgreesFirst
  <2>2. Agrees(With(c, n), c, k)
    BY <1>2, <1>4, AgreesFirst
  <2>3. QED
    BY <2>1, <2>2, AgreesTransitive
<1>10. ASSUME NEW k \in NUMBER_KEYS
       PROVE  Agrees(LabelKeys(labels), n, k)
  <2>1. Agrees(LabelKeys(labels), With(c, n), k)
    BY <1>1, <1>5, <1>6, AgreesFirst
  <2>2. Agrees(With(c, n), n, k)
    BY <1>2, <1>4, AgreesSecond
  <2>3. QED
    BY <2>1, <2>2, AgreesTransitive
<1>11. ASSUME NEW k \in OtherLabelNames
       PROVE  Agrees(LabelKeys(labels), With(p, With(r, With(t, e))), k)
  BY <1>1, <1>5, <1>7, AgreesSecond
<1>12. Agrees(LabelKeys(labels), p, "affected_probes")
  <2>1. "affected_probes" \notin DOMAIN With(r, With(t, e))
    BY <1>2 DEF With
  <2>2. Agrees(With(p, With(r, With(t, e))), p, "affected_probes")
    BY <2>1, AgreesFirst
  <2>3. QED
    BY <2>2, <1>11, AgreesTransitive DEF OtherLabelNames
<1>13. ASSUME NEW k \in {"exe", "path"}
       PROVE  Agrees(LabelKeys(labels), r, k)
  <2>1. k \notin DOMAIN p /\ k \notin DOMAIN With(t, e)
    BY <1>2, WithDomain
  <2>2. Agrees(With(p, With(r, With(t, e))), With(r, With(t, e)), k)
    BY <2>1, AgreesSecond
  <2>3. Agrees(With(r, With(t, e)), r, k)
    BY <2>1, AgreesFirst
  <2>4. k \in OtherLabelNames
    BY DEF OtherLabelNames
  <2>5. QED
    BY <2>2, <2>3, <2>4, <1>11, AgreesTransitive
<1>14. Agrees(LabelKeys(labels), x, "exe")
  <2>1. Agrees(r, x, "exe")
    BY <1>2, <1>3, AgreesFirst
  <2>2. QED
    BY <2>1, <1>13, AgreesTransitive
<1>15. Agrees(LabelKeys(labels), f, "path")
  <2>1. Agrees(r, f, "path")
    BY <1>2, <1>3, AgreesSecond
  <2>2. QED
    BY <2>1, <1>13, AgreesTransitive
<1>16. Agrees(LabelKeys(labels), e, "errno")
  <2>1. "errno" \notin DOMAIN p /\ "errno" \notin DOMAIN r /\ "errno" \notin DOMAIN t
    BY <1>2
  <2>2. Agrees(With(t, e), e, "errno")
    BY <2>1, AgreesSecond
  <2>3. Agrees(With(r, With(t, e)), With(t, e), "errno")
    BY <2>1, AgreesSecond
  <2>4. Agrees(With(p, With(r, With(t, e))), With(r, With(t, e)), "errno")
    BY <2>1, AgreesSecond
  <2>5. "errno" \in OtherLabelNames
    BY DEF OtherLabelNames
  <2>6. Agrees(LabelKeys(labels), With(r, With(t, e)), "errno")
    BY <2>4, <2>5, <1>11, AgreesTransitive
  <2>7. QED
    BY <2>2, <2>3, <2>6, AgreesTransitive
<1>17. QED
  BY <1>8, <1>9, <1>10, <1>12, <1>14, <1>15, <1>16 DEF c, n, p, x, f, e

ProcessPart(occ) == Only(occ.process # Unset, ProcessKeys(occ.process))
NetworkPart(occ) == Only(occ.network # Unset, NetworkKeys(occ.network))
OutcomePart(occ) == Only(occ.outcome # None, [state |-> occ.outcome])

LEMMA ItemParts ==
  ASSUME NEW occ
  PROVE  /\ \A k \in BaseNames : Agrees(native_runtime_item(occ), BaseKeys(occ), k)
         /\ \A k \in LabelNames : Agrees(native_runtime_item(occ), LabelKeys(occ.labels), k)
         /\ \A k \in ProcessNames : Agrees(native_runtime_item(occ), ProcessPart(occ), k)
         /\ \A k \in NetworkNames : Agrees(native_runtime_item(occ), NetworkPart(occ), k)
         /\ Agrees(native_runtime_item(occ), OutcomePart(occ), "state")
<1> DEFINE item == native_runtime_item(occ)
           b == BaseKeys(occ)
           l == LabelKeys(occ.labels)
           p == ProcessPart(occ)
           n == NetworkPart(occ)
           s == OutcomePart(occ)
<1>1. item = With(With(b, l), With(p, With(n, s)))
  BY Zenon DEF native_runtime_item, ProcessPart, NetworkPart, OutcomePart
<1>2. DOMAIN b = BaseNames
  BY DEF BaseKeys, BaseNames
<1>3. DOMAIN l \subseteq LabelNames
  BY LabelParts
<1>4. DOMAIN p \subseteq ProcessNames
  <2>1. DOMAIN ProcessKeys(occ.process) \subseteq ProcessNames
    BY DEF ProcessKeys, With, Only, ProcessNames
  <2>2. QED
    BY <2>1 DEF ProcessPart, Only
<1>5. DOMAIN n \subseteq NetworkNames
  <2>1. DOMAIN NetworkKeys(occ.network) \subseteq NetworkNames
    BY DEF NetworkKeys, NetworkNames
  <2>2. QED
    BY <2>1 DEF NetworkPart, Only
<1>6. DOMAIN s \subseteq {"state"}
  BY DEF OutcomePart, Only
<1>7. /\ BaseNames \cap LabelNames = {} /\ BaseNames \cap ProcessNames = {}
      /\ BaseNames \cap NetworkNames = {} /\ "state" \notin BaseNames
  BY DEF BaseNames, LabelNames, CopiedNames, NUMBER_KEYS, OtherLabelNames, ProcessNames, NetworkNames
<1>8. LabelNames \cap ProcessNames = {} /\ LabelNames \cap NetworkNames = {} /\ "state" \notin LabelNames
  BY DEF LabelNames, CopiedNames, NUMBER_KEYS, OtherLabelNames, ProcessNames, NetworkNames
<1>9. ProcessNames \cap NetworkNames = {} /\ "state" \notin ProcessNames \cup NetworkNames
  BY DEF ProcessNames, NetworkNames
<1> HIDE DEF item, b, l, p, n, s
<1>10. DOMAIN With(p, With(n, s)) \subseteq ProcessNames \cup NetworkNames \cup {"state"}
  BY <1>4, <1>5, <1>6 DEF With
<1>11. DOMAIN With(b, l) \subseteq BaseNames \cup LabelNames
  BY <1>2, <1>3, WithDomain
<1>12. ASSUME NEW k \in BaseNames \cup LabelNames
       PROVE  Agrees(item, With(b, l), k)
  BY <1>1, <1>7, <1>8, <1>10, AgreesFirst
<1>13. ASSUME NEW k \in ProcessNames \cup NetworkNames \cup {"state"}
       PROVE  Agrees(item, With(p, With(n, s)), k)
  BY <1>1, <1>7, <1>8, <1>11, AgreesSecond
<1>14. ASSUME NEW k \in BaseNames
       PROVE  Agrees(item, b, k)
  <2>1. Agrees(With(b, l), b, k)
    BY <1>3, <1>7, AgreesFirst
  <2>2. QED
    BY <2>1, <1>12, AgreesTransitive
<1>15. ASSUME NEW k \in LabelNames
       PROVE  Agrees(item, l, k)
  <2>1. Agrees(With(b, l), l, k)
    BY <1>2, <1>7, AgreesSecond
  <2>2. QED
    BY <2>1, <1>12, AgreesTransitive
<1>16. ASSUME NEW k \in ProcessNames
       PROVE  Agrees(item, p, k)
  <2>1. k \notin DOMAIN With(n, s)
    BY <1>5, <1>6, <1>9 DEF With
  <2>2. Agrees(With(p, With(n, s)), p, k)
    BY <2>1, AgreesFirst
  <2>3. QED
    BY <2>2, <1>13, AgreesTransitive
<1>17. ASSUME NEW k \in NetworkNames \cup {"state"}
       PROVE  Agrees(item, With(n, s), k)
  <2>1. k \notin DOMAIN p
    BY <1>4, <1>9
  <2>2. Agrees(With(p, With(n, s)), With(n, s), k)
    BY <2>1, AgreesSecond
  <2>3. QED
    BY <2>2, <1>13, AgreesTransitive
<1>18. ASSUME NEW k \in NetworkNames
       PROVE  Agrees(item, n, k)
  <2>1. Agrees(With(n, s), n, k)
    BY <1>6, <1>9, AgreesFirst
  <2>2. QED
    BY <2>1, <1>17, AgreesTransitive
<1>19. Agrees(item, s, "state")
  <2>1. Agrees(With(n, s), s, "state")
    BY <1>5, <1>9, AgreesSecond
  <2>2. QED
    BY <2>1, <1>17, AgreesTransitive
<1>20. QED
  BY <1>14, <1>15, <1>16, <1>18, <1>19 DEF item, b, l, p, n, s

\* The id of an occurrence is the id of its item.
LEMMA EventId ==
  ASSUME NEW occ
  PROVE  native_runtime_item(occ).event_id = occ.id
<1>1. Agrees(native_runtime_item(occ), BaseKeys(occ), "event_id")
  BY ItemParts DEF BaseNames
<1>2. "event_id" \in DOMAIN BaseKeys(occ) /\ BaseKeys(occ).event_id = occ.id
  BY DEF BaseKeys
<1>3. QED
  BY <1>1, <1>2 DEF Agrees

-----------------------------------------------------------------------------
(* The inductive invariant.  What was seen under an id decides all that may be *)
(* made of it: its record, its occurrence on the wire, its key and its item.   *)

Producer(b) ==
  [cluster |-> config.cluster, node_id |-> config.node_id,
   node_identity |-> IF config.node_identity = "" THEN None ELSE config.node_identity,
   boot_id |-> b]

Ids == DOMAIN seen
ProducerOf(id) == Producer(seen[id].boot)
TheRecord(id) == RecordOf(seen[id].o, id)
TheOccurrence(id) == into_plane_b_occurrence(TheRecord(id), ProducerOf(id))
TheKey(id) == <<"jalki", config.cluster, config.node_id, id>>
TheItem(id) == native_runtime_item(TheOccurrence(id))

Projected(id) == plane_b_drop_reason(TheRecord(id)) = None
Sent(id) == Projected(id) /\ Sendable(TheOccurrence(id))

\* The ids a sink takes of a batch that it settles.
Passes(i, id) ==
  CASE Sinks[i].kind = "vartio" -> Sent(id)
    [] Sinks[i].kind = "pipeline" -> Projected(id)
    [] OTHER -> TRUE

\* A batch holds records of what was seen, all under the producer of its boot.
HonestBatches ==
  {b \in [producer : {Producer(n) : n \in Nat}, records : SUBSET {TheRecord(id) : id \in Ids}] :
     \A r \in b.records : b.producer = ProducerOf(r.occurrence.id)}

IdsOf(b) == {r.occurrence.id : r \in b.records}

SeenIsReal ==
  /\ config \in Configs /\ boot \in Nat /\ calls \in Nat
  /\ \E s \in Scenarios : /\ todo \in Seq(Seq(Observations(s)))
                          /\ seen \in Seq([o : Observations(s), boot : Nat])

HeldIsHonest == held \in Seq(HonestBatches)

NetworkIsHonest ==
  \A r \in network :
    /\ r.id \in Nat /\ r.id =< calls
    /\ \A x \in r.items : \E id \in Ids : Sent(id) /\ x = [key |-> TheKey(id), item |-> TheItem(id)]
    /\ call.at # 0 /\ r.id = calls => r.items = ItemsOf(call.batch)

StoreIsHonest ==
  \A k \in DOMAIN store : \E id \in Ids : Sent(id) /\ k = TheKey(id) /\ store[k] = TheItem(id)

\* A pipeline has only been posted what may leave the node.
LogsAreHonest ==
  /\ DOMAIN logs = DOMAIN Sinks
  /\ \A i \in DOMAIN Sinks :
       IF Sinks[i].kind = "pipeline" THEN logs[i] \in Seq(SUBSET {id \in Ids : Projected(id)})
       ELSE logs[i] \in Seq([id : Ids, part : {"head", "tail"}])

\* What the first sinks have done with a batch, by the number the primary left out
\* and the secondaries that failed.
PrimaryDone(ids, dropped) ==
  /\ dropped \in Int /\ Cardinality({id \in ids : Passes(1, id)}) + dropped = Cardinality(ids)
  /\ \A id \in ids : Passes(1, id) => KeptBy(1, id)

SecondaryDone(j, ids) == Sinks[j].kind \in {"file", "stdout"} => \A id \in ids : KeptBy(j, id)

Done(ids, dropped, failed, upto) ==
  /\ PrimaryDone(ids, dropped)
  /\ \A j \in 2..upto : j \notin failed => SecondaryDone(j, ids)

\* The call at a Vartio sink knows what it leaves out, and an answer that will be Ok
\* has stored the rest.
AtVartio ==
  /\ call.stage \in {"start", "wire", "answered"}
  /\ call.stage # "start" =>
       call.left = Cardinality(call.batch.records) - Cardinality(ToSend(call.batch))
  /\ call.stage = "answered" /\ Answer = "Ok" =>
       \A id \in IdsOf(call.batch) : Sent(id) => TheKey(id) \in DOMAIN store

\* The call at a line sink has written every line but the rest, and in the middle
\* of a line its head came last.
AtLines ==
  /\ call.stage \in {"start", "write", "line"}
  /\ call.stage # "start" =>
       /\ call.rest \subseteq IdsOf(call.batch)
       /\ \A id \in IdsOf(call.batch) \ call.rest : KeptBy(call.at, id)
  /\ call.stage = "line" =>
       \E id \in call.rest :
         /\ FirstOf(call.rest, id) /\ logs[call.at] # <<>>
         /\ logs[call.at][Len(logs[call.at])] = [id |-> id, part |-> "head"]

CallFields == {"at", "stage", "batch", "dropped", "failed", "left", "status", "retryable",
               "rejected", "rest"}

CallIsHonest ==
  /\ DOMAIN call = CallFields /\ call.at \in Nat
  /\ call.at # 0 =>
       /\ call.at =< Len(Sinks) /\ held # <<>> /\ call.batch \in HonestBatches
       /\ 1 \notin call.failed
       /\ call.at > 1 => Done(IdsOf(call.batch), call.dropped, call.failed, call.at - 1)
       /\ Sinks[call.at].kind = "vartio" => AtVartio
       /\ Sinks[call.at].kind \in {"file", "stdout"} => AtLines

ResultsAreHonest ==
  \A r \in results : r.as = "Ok" => r.ids \subseteq Ids /\ Done(r.ids, r.dropped, r.failed, Len(Sinks))

Honest ==
  /\ SeenIsReal /\ HeldIsHonest /\ NetworkIsHonest /\ StoreIsHonest /\ LogsAreHonest
  /\ CallIsHonest /\ ResultsAreHonest

-----------------------------------------------------------------------------
(* What a state with a real history has. *)

LEMMA SeenFacts ==
  ASSUME SeenIsReal
  PROVE  /\ Len(seen) \in Nat /\ Ids = 1..Len(seen) /\ Ids \subseteq Nat /\ IsFiniteSet(Ids)
         /\ \A id \in Ids : IsObservation(seen[id].o) /\ seen[id].boot \in Nat
<1>1. PICK s \in Scenarios : seen \in Seq([o : Observations(s), boot : Nat])
  BY DEF SeenIsReal
<1>2. \A o \in Observations(s) : IsObservation(o)
  BY ScenariosAreReal
<1>3. /\ Len(seen) \in Nat /\ DOMAIN seen = 1..Len(seen)
      /\ \A i \in 1..Len(seen) : seen[i] \in [o : Observations(s), boot : Nat]
  BY <1>1, SequenceFacts
<1>4. IsFiniteSet(1..Len(seen))
  BY <1>3, FS_Interval
<1>5. QED
  BY <1>2, <1>3, <1>4 DEF Ids

LEMMA IdFacts ==
  ASSUME SeenIsReal, NEW id \in Ids
  PROVE  /\ TheRecord(id).occurrence.id = id
         /\ TheOccurrence(id).id = id
         /\ \A producer : into_occurrence_with_metadata(TheRecord(id), producer).id = id
         /\ TheItem(id).event_id = id
<1>1. IsObservation(seen[id].o)
  BY SeenFacts
<1>2. IsOccurrence(TheRecord(id).occurrence) /\ TheRecord(id).occurrence.id = id
  BY <1>1, RecordShape DEF IsRecord, TheRecord
<1>3. TheOccurrence(id).id = id
  BY <1>2, PlaneBKeepsCore DEF TheOccurrence, SameCore
<1>4. ASSUME NEW producer
      PROVE  into_occurrence_with_metadata(TheRecord(id), producer).id = id
  BY <1>2, MetadataKeepsCore DEF SameCore
<1>5. TheItem(id).event_id = id
  BY <1>3, EventId DEF TheItem
<1>6. QED
  BY <1>2, <1>3, <1>4, <1>5

\* Ids count what is made of them, one for each.
LEMMA OneForEach ==
  ASSUME NEW S, IsFiniteSet(S), NEW f, DOMAIN f = S, \A x, y \in S : f[x] = f[y] => x = y
  PROVE  /\ IsFiniteSet({f[x] : x \in S})
         /\ Cardinality({f[x] : x \in S}) = Cardinality(S)
<1> DEFINE T == {f[x] : x \in S}
           g == [x \in S |-> f[x]]
<1>1. g \in [S -> T] /\ \A x \in S : g[x] = f[x]
  OBVIOUS
<1>2. \A t \in T : \E x \in S : g[x] = t
  OBVIOUS
<1> HIDE DEF g
<1>3. g \in Bijection(S, T)
  BY <1>1, <1>2 DEF Bijection, Injection, Surjection, IsInjective
<1>4. ExistsBijection(S, T)
  BY <1>3 DEF ExistsBijection
<1> HIDE DEF T
<1>5. IsFiniteSet(T) /\ Cardinality(T) = Cardinality(S)
  BY <1>4, FS_Bijection
<1>6. QED
  BY <1>5 DEF T

LEMMA HonestFacts ==
  ASSUME SeenIsReal, NEW b \in HonestBatches
  PROVE  /\ IdsOf(b) \subseteq Ids /\ IsFiniteSet(IdsOf(b))
         /\ b.records = {TheRecord(id) : id \in IdsOf(b)}
         /\ \A id \in IdsOf(b) : b.producer = ProducerOf(id)
<1>1. b.records \subseteq {TheRecord(id) : id \in Ids}
  BY DEF HonestBatches
<1>2. \A r \in b.records : b.producer = ProducerOf(r.occurrence.id)
  BY DEF HonestBatches
<1>3. ASSUME NEW r \in b.records
      PROVE  r.occurrence.id \in Ids /\ r = TheRecord(r.occurrence.id)
  <2>1. PICK id \in Ids : r = TheRecord(id)
    BY <1>1
  <2>2. r.occurrence.id = id
    BY <2>1, IdFacts
  <2>3. QED
    BY <2>1, <2>2
<1>4. IdsOf(b) \subseteq Ids
  BY <1>3 DEF IdsOf
<1>5. IsFiniteSet(IdsOf(b))
  BY <1>4, SeenFacts, FS_Subset
<1>6. b.records = {TheRecord(id) : id \in IdsOf(b)}
  BY <1>3 DEF IdsOf
<1>7. QED
  BY <1>2, <1>4, <1>5, <1>6 DEF IdsOf

LEMMA HonestCounts ==
  ASSUME SeenIsReal, NEW b \in HonestBatches
  PROVE  /\ Cardinality(b.records) = Cardinality(IdsOf(b))
         /\ into_plane_b_projection(b) =
              {TheOccurrence(id) : id \in {x \in IdsOf(b) : Projected(x)}}
         /\ Cardinality(into_plane_b_projection(b)) =
              Cardinality({x \in IdsOf(b) : Projected(x)})
         /\ ToSend(b) = {TheOccurrence(id) : id \in {x \in IdsOf(b) : Sent(x)}}
         /\ Cardinality(ToSend(b)) = Cardinality({x \in IdsOf(b) : Sent(x)})
         /\ encode_ndjson(b) = IdsOf(b)
<1> DEFINE ids == IdsOf(b)
           projected == {x \in ids : Projected(x)}
           sent == {x \in ids : Sent(x)}
<1>1. /\ ids \subseteq Ids /\ IsFiniteSet(ids) /\ b.records = {TheRecord(id) : id \in ids}
      /\ \A id \in ids : b.producer = ProducerOf(id)
  BY HonestFacts
<1>2. \A id \in ids : TheRecord(id).occurrence.id = id /\ TheOccurrence(id).id = id
  BY <1>1, IdFacts
<1> HIDE DEF ids
<1>3. Cardinality(b.records) = Cardinality(ids)
  <2> DEFINE f == [id \in ids |-> TheRecord(id)]
  <2>1. DOMAIN f = ids /\ \A x, y \in ids : f[x] = f[y] => x = y
    BY <1>2
  <2>2. {f[x] : x \in ids} = b.records
    BY <1>1
  <2> HIDE DEF f
  <2>3. QED
    BY <1>1, <2>1, <2>2, OneForEach
<1>4. into_plane_b_projection(b) = {TheOccurrence(id) : id \in projected}
  <2>1. \A id \in ids : into_plane_b_occurrence(TheRecord(id), b.producer) = TheOccurrence(id)
    BY <1>1 DEF TheOccurrence
  <2>2. {x \in b.records : plane_b_drop_reason(x) = None} = {TheRecord(id) : id \in projected}
    BY <1>1 DEF Projected
  <2>3. QED
    BY <2>1, <2>2 DEF into_plane_b_projection
<1>5. ToSend(b) = {TheOccurrence(id) : id \in sent}
  BY <1>4 DEF ToSend, Sent
<1>6. ASSUME NEW S \in SUBSET ids
      PROVE  Cardinality({TheOccurrence(id) : id \in S}) = Cardinality(S)
  <2> DEFINE f == [id \in S |-> TheOccurrence(id)]
  <2>1. DOMAIN f = S /\ \A x, y \in S : f[x] = f[y] => x = y
    BY <1>2
  <2>2. {f[x] : x \in S} = {TheOccurrence(id) : id \in S}
    OBVIOUS
  <2>3. IsFiniteSet(S)
    BY <1>1, FS_Subset
  <2> HIDE DEF f
  <2>4. Cardinality({f[x] : x \in S}) = Cardinality(S)
    BY <2>1, <2>3, OneForEach
  <2>5. QED
    BY <2>2, <2>4
<1>7. projected \in SUBSET ids /\ sent \in SUBSET ids
  OBVIOUS
<1>8. encode_ndjson(b) = ids
  <2>1. \A id \in ids : into_occurrence_with_metadata(TheRecord(id), b.producer).id = id
    BY <1>1, IdFacts
  <2>2. into_occurrences(b) =
          {into_occurrence_with_metadata(TheRecord(id), b.producer) : id \in ids}
    BY <1>1 DEF into_occurrences
  <2>3. QED
    BY <2>1, <2>2 DEF encode_ndjson
<1>9. /\ Cardinality(into_plane_b_projection(b)) = Cardinality(projected)
      /\ Cardinality(ToSend(b)) = Cardinality(sent)
  <2> HIDE DEF projected, sent
  <2>1. QED
    BY <1>4, <1>5, <1>6, <1>7
<1>10. QED
  BY <1>3, <1>4, <1>5, <1>8, <1>9 DEF ids

\* The items of an honest batch, and the part of a class of it.
LEMMA HonestItems ==
  ASSUME SeenIsReal, NEW b \in HonestBatches
  PROVE  ItemsOf(b) = {[key |-> TheKey(id), item |-> TheItem(id)] : id \in {x \in IdsOf(b) : Sent(x)}}
<1> DEFINE sent == {x \in IdsOf(b) : Sent(x)}
<1>1. ToSend(b) = {TheOccurrence(id) : id \in sent}
  BY HonestCounts
<1>2. ASSUME NEW id \in sent
      PROVE  /\ idempotency_key(b.producer, TheOccurrence(id).id) = TheKey(id)
             /\ native_runtime_item(TheOccurrence(id)) = TheItem(id)
  <2>1. id \in Ids /\ b.producer = ProducerOf(id)
    BY HonestFacts
  <2>2. TheOccurrence(id).id = id
    BY <2>1, IdFacts
  <2>3. b.producer.cluster = config.cluster /\ b.producer.node_id = config.node_id
    <3>1. PICK p : p = b.producer
      OBVIOUS
    <3>2. PICK n : p = Producer(n)
      BY <2>1, <3>1 DEF ProducerOf
    <3>3. p.cluster = config.cluster /\ p.node_id = config.node_id
      BY <3>2 DEF Producer
    <3>4. QED
      BY <3>1, <3>3
  <2>4. idempotency_key(b.producer, id) = TheKey(id)
    BY <2>3 DEF idempotency_key, TheKey
  <2>5. QED
    BY <2>2, <2>4 DEF TheItem
<1> HIDE DEF sent
<1>3. ItemsOf(b) = {[key |-> TheKey(id), item |-> TheItem(id)] : id \in sent}
  BY <1>1, <1>2 DEF ItemsOf
<1>4. QED
  BY <1>3 DEF sent

LEMMA PartsAreHonest ==
  ASSUME SeenIsReal, NEW b \in HonestBatches
  PROVE  split_by_class(b) \in Seq(HonestBatches)
<1>1. ASSUME NEW class
      PROVE  OfClass(b, class) \in HonestBatches
  BY DEF OfClass, EvidenceBatch, HonestBatches
<1>2. ASSUME NEW class
      PROVE  UnlessEmpty(OfClass(b, class)) \in Seq(HonestBatches)
  <2>1. <<>> \in Seq(HonestBatches) /\ <<OfClass(b, class)>> \in Seq(HonestBatches)
    BY <1>1
  <2>2. QED
    BY <2>1 DEF UnlessEmpty
<1>3. QED
  BY <1>2, ConcatProperties DEF split_by_class

-----------------------------------------------------------------------------
(* History grows, and so does what is kept; nothing of either is ever changed. *)

Grows == config' = config /\ \A id \in DOMAIN seen : id \in DOMAIN seen' /\ seen'[id] = seen[id]

LEMMA SameHistory ==
  ASSUME UNCHANGED <<config, seen>>
  PROVE  Grows
BY DEF Grows

LEMMA GrowsSinks ==
  ASSUME Grows
  PROVE  Sinks' = Sinks /\ Ids \subseteq Ids'
BY DEF Grows, Sinks, Ids

LEMMA GrowsIds ==
  ASSUME Grows, NEW id \in Ids
  PROVE  /\ id \in Ids' /\ TheRecord(id)' = TheRecord(id) /\ ProducerOf(id)' = ProducerOf(id)
         /\ TheOccurrence(id)' = TheOccurrence(id)
         /\ TheKey(id)' = TheKey(id) /\ TheItem(id)' = TheItem(id)
         /\ Projected(id)' <=> Projected(id)
         /\ Sent(id)' <=> Sent(id)
<1>1. id \in DOMAIN seen' /\ seen'[id] = seen[id] /\ config' = config
  BY DEF Grows, Ids
<1>2. TheRecord(id)' = TheRecord(id)
  BY <1>1 DEF TheRecord, RecordOf
<1>3. ProducerOf(id)' = ProducerOf(id)
  BY <1>1 DEF ProducerOf, Producer
<1>4. TheOccurrence(id)' = TheOccurrence(id)
  BY <1>2, <1>3 DEF TheOccurrence
<1>5. TheKey(id)' = TheKey(id) /\ TheItem(id)' = TheItem(id)
  BY <1>1, <1>4 DEF TheKey, TheItem
<1>6. Projected(id)' <=> Projected(id)
  BY <1>2 DEF Projected
<1>7. Sent(id)' <=> Sent(id)
  BY <1>1, <1>4, <1>6 DEF Sent, Sendable
<1>8. QED
  BY <1>1, <1>2, <1>3, <1>4, <1>5, <1>6, <1>7 DEF Ids

LEMMA GrowsPasses ==
  ASSUME Grows, NEW id \in Ids, NEW i
  PROVE  Passes(i, id)' <=> Passes(i, id)
<1>1. Sinks' = Sinks /\ (Projected(id)' <=> Projected(id)) /\ (Sent(id)' <=> Sent(id))
  BY GrowsIds, GrowsSinks
<1>2. QED
  BY <1>1 DEF Passes

LEMMA GrowsBatches ==
  ASSUME SeenIsReal, Grows
  PROVE  /\ HonestBatches \subseteq HonestBatches'
         /\ \A b : ToSend(b)' = ToSend(b) /\ ItemsOf(b)' = ItemsOf(b)
<1>1. ASSUME NEW b \in HonestBatches
      PROVE  b \in HonestBatches'
  <2>1. b \in [producer : {Producer(n) : n \in Nat}, records : SUBSET {TheRecord(id) : id \in Ids}]
    BY DEF HonestBatches
  <2>2. ASSUME NEW n
        PROVE  Producer(n)' = Producer(n)
    BY DEF Grows, Producer
  <2>3. {TheRecord(id) : id \in Ids} \subseteq {TheRecord(id) : id \in Ids}'
    BY GrowsIds
  <2>4. {Producer(n) : n \in Nat}' = {Producer(n) : n \in Nat}
    BY <2>2
  <2>5. ASSUME NEW r \in b.records
        PROVE  b.producer = ProducerOf(r.occurrence.id)'
    <3>1. r.occurrence.id \in Ids
      BY HonestFacts DEF IdsOf
    <3>2. b.producer = ProducerOf(r.occurrence.id)
      BY DEF HonestBatches
    <3>3. QED
      BY <3>1, <3>2, GrowsIds
  <2>6. b \in [producer : {Producer(n) : n \in Nat}, records : SUBSET {TheRecord(id) : id \in Ids}]'
    BY <2>1, <2>3, <2>4
  <2>7. QED
    BY <2>5, <2>6 DEF HonestBatches
<1>2. ASSUME NEW b
      PROVE  ToSend(b)' = ToSend(b) /\ ItemsOf(b)' = ItemsOf(b)
  <2>1. ToSend(b)' = ToSend(b)
    BY DEF ToSend, Sendable, Grows
  <2>2. QED
    BY <2>1 DEF ItemsOf, idempotency_key
<1>3. QED
  BY <1>1, <1>2

\* Nothing is taken out of the store or of a log.
Accumulates ==
  /\ \A k \in DOMAIN store : k \in DOMAIN store' /\ store'[k] = store[k]
  /\ \A i \in DOMAIN Sinks : /\ Len(logs[i]) =< Len(logs'[i])
                             /\ \A n \in DOMAIN logs[i] : n \in DOMAIN logs'[i] /\ logs'[i][n] = logs[i][n]

LEMMA LogFacts ==
  ASSUME LogsAreHonest, NEW i \in DOMAIN Sinks
  PROVE  /\ Len(logs[i]) \in Nat /\ DOMAIN logs[i] = 1..Len(logs[i])
         /\ \E S : logs[i] \in Seq(S)
<1>1. PICK S : logs[i] \in Seq(S)
  BY DEF LogsAreHonest
<1>2. QED
  BY <1>1, SequenceFacts

LEMMA SameKept ==
  ASSUME LogsAreHonest, UNCHANGED <<store, logs>>
  PROVE  Accumulates
BY LogFacts DEF Accumulates

LEMMA KeptGrows ==
  ASSUME Grows, Accumulates, LogsAreHonest, LogsAreHonest', NEW i \in DOMAIN Sinks, NEW id, KeptBy(i, id)
  PROVE  KeptBy(i, id)'
<1>1. Sinks' = Sinks
  BY GrowsSinks
<1>2. CASE Sinks[i].kind = "vartio"
  <2>1. PICK k \in DOMAIN store : store[k].event_id = id
    BY <1>2 DEF KeptBy, Items
  <2>2. k \in DOMAIN store' /\ store'[k].event_id = id
    BY <2>1 DEF Accumulates
  <2>3. QED
    BY <1>1, <1>2, <2>2 DEF KeptBy, Items
<1>3. CASE Sinks[i].kind = "pipeline"
  <2>1. PICK n \in DOMAIN logs[i] : id \in logs[i][n]
    BY <1>3 DEF KeptBy
  <2>2. n \in DOMAIN logs'[i] /\ id \in logs'[i][n]
    BY <2>1 DEF Accumulates
  <2>3. QED
    BY <1>1, <1>3, <2>2 DEF KeptBy
<1>4. CASE Sinks[i].kind # "vartio" /\ Sinks[i].kind # "pipeline"
  <2>1. PICK n \in 1..Len(logs[i]) - 1 : /\ logs[i][n] = [id |-> id, part |-> "head"]
                                         /\ logs[i][n + 1] = [id |-> id, part |-> "tail"]
    BY <1>4 DEF KeptBy
  <2>2. Len(logs[i]) \in Nat /\ DOMAIN logs[i] = 1..Len(logs[i])
    BY LogFacts
  <2>3. Len(logs'[i]) \in Nat
    BY <1>1, LogFacts DEF LogsAreHonest
  <2>4. n \in DOMAIN logs[i] /\ n + 1 \in DOMAIN logs[i]
    BY <2>2
  <2>5. /\ n \in 1..Len(logs'[i]) - 1
        /\ logs'[i][n] = logs[i][n] /\ logs'[i][n + 1] = logs[i][n + 1]
    BY <2>2, <2>3, <2>4 DEF Accumulates
  <2>6. QED
    BY <1>1, <1>4, <2>1, <2>5 DEF KeptBy
<1>5. QED
  BY <1>2, <1>3, <1>4

LEMMA SinkFacts ==
  ASSUME SeenIsReal
  PROVE  /\ Len(Sinks) \in Nat /\ Len(Sinks) >= 1 /\ DOMAIN Sinks = 1..Len(Sinks)
         /\ \A i \in DOMAIN Sinks : Sinks[i].kind \in SinkKinds
<1>1. config.primary \in [kind : SinkKinds] /\ config.secondaries \in Seq([kind : SinkKinds])
  BY ConfigsAreDaemons DEF SeenIsReal
<1> DEFINE first == <<config.primary>>
<1>2. first \in Seq([kind : SinkKinds]) /\ Len(first) = 1
  BY <1>1
<1> HIDE DEF first
<1>3. /\ first \o config.secondaries \in Seq([kind : SinkKinds])
      /\ Len(first \o config.secondaries) = Len(first) + Len(config.secondaries)
  BY <1>1, <1>2, ConcatProperties
<1>4. Len(config.secondaries) \in Nat
  BY <1>1, SequenceFacts
<1>5. Sinks \in Seq([kind : SinkKinds]) /\ Len(Sinks) = 1 + Len(config.secondaries)
  BY <1>2, <1>3 DEF Sinks, first
<1>6. PICK s : s = Sinks
  OBVIOUS
<1>7. Len(s) \in Nat /\ DOMAIN s = 1..Len(s) /\ \A i \in DOMAIN s : s[i] \in [kind : SinkKinds]
  BY <1>5, <1>6, SequenceFacts
<1>8. \A i \in DOMAIN s : s[i].kind \in SinkKinds
  BY <1>7
<1>9. Len(s) >= 1
  BY <1>4, <1>5, <1>6
<1>10. QED
  BY <1>6, <1>7, <1>8, <1>9

LEMMA DoneGrows ==
  ASSUME SeenIsReal, Grows, Accumulates, LogsAreHonest, LogsAreHonest',
         NEW ids \in SUBSET Ids, NEW dropped, NEW failed, NEW upto \in Nat, upto =< Len(Sinks),
         Done(ids, dropped, failed, upto)
  PROVE  Done(ids, dropped, failed, upto)'
<1>1. Sinks' = Sinks /\ DOMAIN Sinks = 1..Len(Sinks) /\ Len(Sinks) \in Nat /\ 1 \in DOMAIN Sinks
  BY GrowsSinks, SinkFacts
<1>2. {id \in ids : Passes(1, id)}' = {id \in ids : Passes(1, id)}
  BY GrowsPasses
<1>3. ASSUME NEW id \in ids, Passes(1, id)'
      PROVE  KeptBy(1, id)'
  <2>1. KeptBy(1, id)
    BY <1>3, GrowsPasses DEF Done, PrimaryDone
  <2>2. QED
    BY <1>1, <2>1, KeptGrows
<1>4. PrimaryDone(ids, dropped)'
  BY <1>2, <1>3 DEF Done, PrimaryDone
<1>5. ASSUME NEW j \in 2..upto, j \notin failed
      PROVE  SecondaryDone(j, ids)'
  <2>1. SecondaryDone(j, ids) /\ j \in DOMAIN Sinks
    BY <1>1, <1>5 DEF Done
  <2>2. QED
    BY <1>1, <2>1, KeptGrows DEF SecondaryDone
<1>6. QED
  BY <1>4, <1>5 DEF Done

-----------------------------------------------------------------------------
(* What a step that does not touch a part leaves of it. *)

LEMMA SeqMonotone ==
  ASSUME NEW S, NEW T, S \subseteq T, NEW s \in Seq(S)
  PROVE  s \in Seq(T)
OBVIOUS

LEMMA ConcatFacts ==
  ASSUME NEW S, NEW s \in Seq(S), NEW t \in Seq(S), NEW u, u = s \o t
  PROVE  /\ u \in Seq(S) /\ Len(s) \in Nat /\ Len(t) \in Nat /\ Len(u) = Len(s) + Len(t)
         /\ DOMAIN s = 1..Len(s) /\ DOMAIN t = 1..Len(t) /\ DOMAIN u = 1..Len(u)
         /\ \A n \in DOMAIN s : n \in DOMAIN u /\ u[n] = s[n]
         /\ \A n \in DOMAIN t : Len(s) + n \in DOMAIN u /\ u[Len(s) + n] = t[n]
<1>1. /\ u \in Seq(S) /\ Len(u) = Len(s) + Len(t)
      /\ \A i \in 1..Len(s) + Len(t) : u[i] = IF i <= Len(s) THEN s[i] ELSE t[i - Len(s)]
  BY ConcatProperties
<1>2. /\ Len(s) \in Nat /\ DOMAIN s = 1..Len(s) /\ Len(t) \in Nat /\ DOMAIN t = 1..Len(t)
      /\ DOMAIN u = 1..Len(u)
  BY <1>1, SequenceFacts
<1>3. PICK l, m : l = Len(s) /\ m = Len(t)
  OBVIOUS
<1>4. ASSUME NEW n \in 1..m
      PROVE  l + n \in 1..l + m /\ ~(l + n <= l) /\ (l + n) - l = n
  BY <1>2, <1>3
<1>5. \A n \in DOMAIN t : Len(s) + n \in DOMAIN u /\ u[Len(s) + n] = t[n]
  BY <1>1, <1>2, <1>3, <1>4
<1>6. \A n \in DOMAIN s : n \in DOMAIN u /\ u[n] = s[n]
  BY <1>1, <1>2
<1>7. QED
  BY <1>1, <1>2, <1>5, <1>6

LEMMA LogsStay ==
  ASSUME Grows, LogsAreHonest, logs' = logs
  PROVE  LogsAreHonest'
<1>1. Sinks' = Sinks /\ Ids \subseteq Ids'
  BY GrowsSinks
<1>2. {id \in Ids : Projected(id)} \subseteq {id \in Ids : Projected(id)}'
  BY GrowsIds
<1>3. ASSUME NEW i \in DOMAIN Sinks, Sinks[i].kind = "pipeline"
      PROVE  logs[i] \in Seq(SUBSET {id \in Ids : Projected(id)}')
  <2>1. logs[i] \in Seq(SUBSET {id \in Ids : Projected(id)})
    BY <1>3 DEF LogsAreHonest
  <2>2. SUBSET {id \in Ids : Projected(id)} \subseteq SUBSET {id \in Ids : Projected(id)}'
    BY <1>2
  <2>3. QED
    BY <2>1, <2>2
<1>4. ASSUME NEW i \in DOMAIN Sinks, Sinks[i].kind # "pipeline"
      PROVE  logs[i] \in Seq([id : Ids', part : {"head", "tail"}])
  <2>1. logs[i] \in Seq([id : Ids, part : {"head", "tail"}])
    BY <1>4 DEF LogsAreHonest
  <2>2. [id : Ids, part : {"head", "tail"}] \subseteq [id : Ids', part : {"head", "tail"}]
    BY <1>1
  <2>3. PICK S, T : S = [id : Ids, part : {"head", "tail"}] /\ T = [id : Ids', part : {"head", "tail"}]
    OBVIOUS
  <2>4. logs[i] \in Seq(T)
    BY <2>1, <2>2, <2>3, SeqMonotone
  <2>5. QED
    BY <2>3, <2>4
<1>5. DOMAIN logs = DOMAIN Sinks
  BY DEF LogsAreHonest
<1>6. QED
  BY <1>1, <1>3, <1>4, <1>5 DEF LogsAreHonest

LEMMA StoreStays ==
  ASSUME Grows, StoreIsHonest, store' = store
  PROVE  StoreIsHonest'
BY GrowsIds DEF StoreIsHonest

HonestItem(x) == \E id \in Ids : Sent(id) /\ x = [key |-> TheKey(id), item |-> TheItem(id)]

LEMMA HonestItemGrows ==
  ASSUME Grows, NEW x, HonestItem(x)
  PROVE  HonestItem(x)'
BY GrowsIds DEF HonestItem

LEMMA NetworkFacts ==
  NetworkIsHonest <=>
    \A r \in network : /\ r.id \in Nat /\ r.id =< calls
                       /\ \A x \in r.items : HonestItem(x)
                       /\ call.at # 0 /\ r.id = calls => r.items = ItemsOf(call.batch)
BY DEF NetworkIsHonest, HonestItem

\* A step that sends nothing and keeps the call, or ends it, or counts a new one.
LEMMA NetworkStays ==
  ASSUME SeenIsReal, Grows, NetworkIsHonest, network' \subseteq network,
         \/ calls' = calls /\ (call'.at # 0 => call.at # 0 /\ call'.batch = call.batch)
         \/ calls' = calls + 1
  PROVE  NetworkIsHonest'
<1>1. calls \in Nat
  BY DEF SeenIsReal
<1>2. ASSUME NEW r \in network'
      PROVE  /\ r.id \in Nat /\ r.id =< calls'
             /\ \A x \in r.items : HonestItem(x)'
             /\ call'.at # 0 /\ r.id = calls' => r.items = ItemsOf(call.batch)'
  <2>1. /\ r.id \in Nat /\ r.id =< calls /\ \A x \in r.items : HonestItem(x)
        /\ call.at # 0 /\ r.id = calls => r.items = ItemsOf(call.batch)
    BY NetworkFacts
  <2>2. \A x \in r.items : HonestItem(x)'
    BY <2>1, HonestItemGrows
  <2>3. CASE calls' = calls + 1
    BY <1>1, <2>1, <2>2, <2>3
  <2>4. CASE calls' = calls /\ (call'.at # 0 => call.at # 0 /\ call'.batch = call.batch)
    <3>1. ASSUME call'.at # 0, r.id = calls'
          PROVE  r.items = ItemsOf(call.batch)'
      <4>1. r.items = ItemsOf(call.batch) /\ call'.batch = call.batch
        BY <2>1, <2>4, <3>1
      <4>2. PICK b : b = call.batch
        OBVIOUS
      <4>3. ItemsOf(b)' = ItemsOf(b)
        BY GrowsBatches
      <4>4. QED
        BY <4>1, <4>2, <4>3
    <3>2. QED
      BY <2>1, <2>2, <2>4, <3>1
  <2>5. QED
    BY <2>3, <2>4
<1>3. QED
  BY <1>2 DEF NetworkIsHonest, HonestItem

LEMMA ResultsStay ==
  ASSUME SeenIsReal, Grows, Accumulates, LogsAreHonest, LogsAreHonest', ResultsAreHonest,
         results' = results
  PROVE  ResultsAreHonest'
<1>1. ASSUME NEW r \in results, r.as = "Ok"
      PROVE  (r.ids \subseteq Ids /\ Done(r.ids, r.dropped, r.failed, Len(Sinks)))'
  <2>1. r.ids \subseteq Ids /\ Done(r.ids, r.dropped, r.failed, Len(Sinks))
    BY <1>1 DEF ResultsAreHonest
  <2>2. Sinks' = Sinks /\ Ids \subseteq Ids' /\ Len(Sinks) \in Nat
    BY GrowsSinks, SinkFacts
  <2>3. PICK ids, dropped, failed, n : ids = r.ids /\ dropped = r.dropped /\ failed = r.failed /\ n = Len(Sinks)
    OBVIOUS
  <2>4. Done(ids, dropped, failed, n)'
    BY <2>1, <2>2, <2>3, DoneGrows
  <2>5. QED
    BY <2>1, <2>2, <2>3, <2>4
<1>2. QED
  BY <1>1 DEF ResultsAreHonest

LEMMA HeldStays ==
  ASSUME SeenIsReal, Grows, HeldIsHonest
  PROVE  held \in Seq(HonestBatches')
BY GrowsBatches DEF HeldIsHonest

LEMMA CallStays ==
  ASSUME SeenIsReal, Grows, Accumulates, LogsAreHonest, LogsAreHonest', CallIsHonest,
         call' = call, logs' = logs, call.at # 0 => held' # <<>>
  PROVE  CallIsHonest'
<1>1. Sinks' = Sinks /\ DOMAIN Sinks = 1..Len(Sinks) /\ Len(Sinks) \in Nat
  BY GrowsSinks, SinkFacts
<1>2. DOMAIN call = CallFields /\ call.at \in Nat
  BY DEF CallIsHonest
<1>3. CASE call.at = 0
  BY <1>2, <1>3 DEF CallIsHonest
<1>4. CASE call.at # 0
  <2>1. /\ call.at =< Len(Sinks) /\ call.batch \in HonestBatches
        /\ 1 \notin call.failed
        /\ call.at > 1 => Done(IdsOf(call.batch), call.dropped, call.failed, call.at - 1)
        /\ Sinks[call.at].kind = "vartio" => AtVartio
        /\ Sinks[call.at].kind \in {"file", "stdout"} => AtLines
    BY <1>4 DEF CallIsHonest
  <2>2. call.at \in DOMAIN Sinks
    BY <1>1, <1>2, <1>4, <2>1
  <2>3. PICK b, ids, dropped, failed, at :
          /\ b = call.batch /\ ids = IdsOf(b) /\ dropped = call.dropped /\ failed = call.failed
          /\ at = call.at
    OBVIOUS
  <2>4. b \in HonestBatches' /\ ids \subseteq Ids
    BY <2>1, <2>3, GrowsBatches, HonestFacts
  <2>5. at > 1 => Done(ids, dropped, failed, at - 1)'
    <3>1. SUFFICES ASSUME at > 1 PROVE Done(ids, dropped, failed, at - 1)'
      OBVIOUS
    <3>2. PICK upto : upto = at - 1
      OBVIOUS
    <3>3. upto \in Nat /\ upto =< Len(Sinks) /\ Done(ids, dropped, failed, upto)
      BY <1>1, <1>2, <2>1, <2>3, <3>1, <3>2
    <3>4. Done(ids, dropped, failed, upto)'
      BY <2>4, <3>3, DoneGrows
    <3>5. QED
      BY <3>2, <3>4
  <2>6. \A id : KeptBy(at, id) => KeptBy(at, id)'
    BY <2>2, <2>3, KeptGrows
  <2>7. Sinks[at].kind = "vartio" => AtVartio'
    <3>1. SUFFICES ASSUME AtVartio PROVE AtVartio'
      BY <2>1, <2>3
    <3>2. Answer' = Answer
      BY DEF Answer
    <3>3. ToSend(b)' = ToSend(b)
      BY GrowsBatches
    <3>4. ASSUME Answer = "Ok", call.stage = "answered", NEW id \in ids, Sent(id)'
          PROVE  TheKey(id)' \in DOMAIN store'
      <4>1. Sent(id) /\ TheKey(id)' = TheKey(id)
        BY <2>4, <3>4, GrowsIds
      <4>2. TheKey(id) \in DOMAIN store
        BY <2>3, <3>1, <3>4, <4>1 DEF AtVartio
      <4>3. QED
        BY <4>1, <4>2 DEF Accumulates
    <3>5. IdsOf(call.batch)' = ids
      BY <2>3 DEF IdsOf
    <3>6. QED
      BY <2>3, <3>1, <3>2, <3>3, <3>4, <3>5 DEF AtVartio
  <2>8. Sinks[at].kind \in {"file", "stdout"} => AtLines'
    <3>1. SUFFICES ASSUME AtLines PROVE AtLines'
      BY <2>1, <2>3
    <3>2. IdsOf(call.batch)' = ids
      BY <2>3 DEF IdsOf
    <3>3. \A id : KeptBy(call.at, id) => KeptBy(call.at, id)'
      BY <2>3, <2>6
    <3>4. QED
      BY <2>3, <3>1, <3>2, <3>3 DEF AtLines
  <2>9. IdsOf(call.batch)' = ids
    BY <2>3 DEF IdsOf
  <2>10. QED
    BY <1>1, <1>2, <1>4, <2>1, <2>3, <2>4, <2>5, <2>7, <2>8, <2>9 DEF CallIsHonest
<1>5. QED
  BY <1>3, <1>4

-----------------------------------------------------------------------------
(* A sink answers. *)

\* What the Ok of the sink with number i means.
Earned(i, ids, dropped) ==
  /\ i = 1 => PrimaryDone(ids, dropped)
  /\ i # 1 => SecondaryDone(i, ids)

LEMMA CallBegins ==
  ASSUME NEW at \in Nat, at # 0, at =< Len(Sinks'), NEW b \in HonestBatches',
         NEW dropped, NEW failed, 1 \notin failed, call' = Call(at, b, dropped, failed), held' # <<>>,
         at > 1 => Done(IdsOf(b), dropped, failed, at - 1)'
  PROVE  CallIsHonest' /\ call'.batch = b
<1>1. /\ DOMAIN call' = CallFields /\ call'.at = at /\ call'.batch = b /\ call'.dropped = dropped
      /\ call'.failed = failed /\ call'.stage = "start"
  BY DEF Call, CallFields
<1>2. AtVartio' /\ AtLines'
  BY <1>1 DEF AtVartio, AtLines
<1>3. at > 1 => Done(IdsOf(call.batch), call.dropped, call.failed, call.at - 1)'
  BY <1>1
<1>4. QED
  BY <1>1, <1>2, <1>3 DEF CallIsHonest

LEMMA CallEnds ==
  ASSUME call' = Idle
  PROVE  CallIsHonest' /\ call'.at = 0
<1>1. DOMAIN call' = CallFields /\ call'.at = 0
  BY DEF Idle, Call, CallFields
<1>2. QED
  BY <1>1 DEF CallIsHonest

LEMMA SinkAnswers ==
  ASSUME SeenIsReal, SeenIsReal', UNCHANGED <<config, seen>>, Accumulates, HeldIsHonest, LogsAreHonest,
         LogsAreHonest', CallIsHonest, ResultsAreHonest, call.at # 0, NEW answer, NEW dropped,
         Returns(answer, dropped), NEW at, at = call.at, NEW b, b = call.batch,
         answer = "Ok" => Earned(at, IdsOf(b), dropped)'
  PROVE  /\ HeldIsHonest' /\ CallIsHonest' /\ ResultsAreHonest'
         /\ call'.at # 0 => call'.batch = b
<1> DEFINE ids == IdsOf(b)
<1>0. PICK failed, left, earlier, dropt :
        /\ failed = IF answer = "Ok" THEN earlier ELSE earlier \cup {at}
        /\ left = IF at = 1 THEN dropped ELSE dropt
        /\ earlier = call.failed /\ dropt = call.dropped
  OBVIOUS
<1>1. /\ at \in Nat /\ at # 0 /\ at =< Len(Sinks) /\ b \in HonestBatches /\ held # <<>>
      /\ 1 \notin earlier
      /\ at > 1 => Done(ids, dropt, earlier, at - 1)
  BY <1>0 DEF CallIsHonest
<1>2. Grows
  BY SameHistory
<1>3. /\ Sinks' = Sinks /\ Len(Sinks) \in Nat /\ ids \subseteq Ids /\ Ids' = Ids
      /\ b \in HonestBatches' /\ HonestBatches \subseteq HonestBatches'
  BY <1>1, <1>2, GrowsSinks, GrowsBatches, SinkFacts, HonestFacts DEF Ids
<1>4. held \in Seq(HonestBatches') /\ Tail(held) \in Seq(HonestBatches')
  <2>1. held \in Seq(HonestBatches')
    BY <1>2, HeldStays
  <2>2. QED
    BY <2>1, <1>1, HeadTailProperties
<1>5. ASSUME 1 \notin failed
      PROVE  Done(ids, left, failed, at)'
  <2>1. CASE at = 1
    <3>1. answer = "Ok"
      BY <1>0, <1>1, <1>5, <2>1
    <3>2. PrimaryDone(ids, dropped)'
      BY <2>1, <3>1 DEF Earned
    <3>3. 2..at = {}
      BY <2>1
    <3>4. QED
      BY <1>0, <2>1, <3>2, <3>3 DEF Done
  <2>2. CASE at # 1
    <3>1. at > 1 /\ at - 1 \in Nat /\ at - 1 =< Len(Sinks)
      BY <1>1, <1>3, <2>2
    <3>2. PICK upto : upto = at - 1
      OBVIOUS
    <3>3. Done(ids, dropt, earlier, upto)'
      BY <1>1, <1>2, <1>3, <3>1, <3>2, DoneGrows
    <3>4. ASSUME NEW j \in 2..at, j \notin failed
          PROVE  SecondaryDone(j, ids)'
      <4>1. CASE j = at
        <5>1. answer = "Ok"
          BY <1>0, <3>4, <4>1
        <5>2. QED
          BY <2>2, <4>1, <5>1 DEF Earned
      <4>2. CASE j # at
        <5>1. j \in 2..upto /\ j \notin earlier
          BY <1>0, <1>1, <3>2, <3>4, <4>2
        <5>2. QED
          BY <3>3, <5>1 DEF Done
      <4>3. QED
        BY <4>1, <4>2
    <3>5. left = dropt
      BY <1>0, <2>2
    <3>6. PrimaryDone(ids, left)'
      BY <3>3, <3>5 DEF Done
    <3>7. QED
      BY <3>4, <3>6 DEF Done
  <2>3. QED
    BY <2>1, <2>2
<1> HIDE DEF ids
<1>6. CASE at = 1 /\ should_retry(answer)
  <2>1. /\ call' = Idle /\ held' = split_by_class(b) \o Tail(held) /\ results' = results
    BY <1>0, <1>6 DEF Returns
  <2>2. split_by_class(b) \in Seq(HonestBatches')
    <3>1. split_by_class(b) \in Seq(HonestBatches)
      BY <1>1, PartsAreHonest
    <3>2. QED
      BY <1>3, <3>1, SeqMonotone
  <2>3. HeldIsHonest'
    BY <1>4, <2>1, <2>2, ConcatProperties DEF HeldIsHonest
  <2>4. CallIsHonest' /\ call'.at = 0
    BY <2>1, CallEnds
  <2>5. ResultsAreHonest'
    BY <1>2, <2>1, ResultsStay
  <2>6. QED
    BY <2>3, <2>4, <2>5
<1>7. CASE ~(at = 1 /\ should_retry(answer)) /\ at < Len(Sinks) /\ 1 \notin failed
  <2>1. call' = Call(at + 1, b, left, failed) /\ UNCHANGED <<held, results>>
    BY <1>0, <1>7 DEF Returns
  <2>2. HeldIsHonest'
    BY <1>4, <2>1 DEF HeldIsHonest
  <2>3. ResultsAreHonest'
    BY <1>2, <2>1, ResultsStay
  <2>4. Done(ids, left, failed, at)'
    BY <1>5, <1>7
  <2>5. PICK next : next = at + 1
    OBVIOUS
  <2>6. /\ next \in Nat /\ next # 0 /\ next =< Len(Sinks) /\ next - 1 = at
    BY <1>1, <1>3, <1>7, <2>5
  <2>7. Done(IdsOf(b), left, failed, next - 1)'
    BY <2>4, <2>6 DEF ids
  <2>8. call' = Call(next, b, left, failed) /\ held' # <<>> /\ next =< Len(Sinks')
    BY <1>1, <1>3, <2>1, <2>5, <2>6
  <2>9. CallIsHonest' /\ call'.batch = b
    BY <1>3, <1>7, <2>6, <2>7, <2>8, CallBegins
  <2>10. QED
    BY <2>2, <2>3, <2>9
<1>8. CASE ~(at = 1 /\ should_retry(answer)) /\ ~(at < Len(Sinks) /\ 1 \notin failed)
  <2> DEFINE as == IF 1 \in failed THEN answer ELSE "Ok"
  <2>1. /\ call' = Idle /\ held' = Tail(held)
        /\ results' = results \cup {Result(as, left, failed)}
    BY <1>0, <1>8 DEF Returns
  <2>2. HeldIsHonest' /\ CallIsHonest' /\ call'.at = 0
    BY <1>4, <2>1, CallEnds DEF HeldIsHonest
  <2>3. ASSUME NEW r \in results', r.as = "Ok"
        PROVE  r.ids \subseteq Ids' /\ Done(r.ids, r.dropped, r.failed, Len(Sinks))'
    <3>1. CASE r \in results
      <4>1. r.ids \subseteq Ids /\ Done(r.ids, r.dropped, r.failed, Len(Sinks))
        BY <2>3, <3>1 DEF ResultsAreHonest
      <4>2. PICK i, d, f, n : i = r.ids /\ d = r.dropped /\ f = r.failed /\ n = Len(Sinks)
        OBVIOUS
      <4>3. Done(i, d, f, n)'
        BY <1>2, <1>3, <4>1, <4>2, DoneGrows
      <4>4. QED
        BY <1>3, <4>1, <4>2, <4>3
    <3>2. CASE r = Result(as, left, failed)
      <4>1. r.as = as /\ r.ids = ids /\ r.dropped = left /\ r.failed = failed
        BY <3>2 DEF Result, IdsOf, ids
      <4>2. 1 \notin failed
        <5>1. SUFFICES ASSUME 1 \in failed PROVE FALSE
          OBVIOUS
        <5>2. answer # "Ok"
          BY <1>0, <1>1, <5>1
        <5>3. QED
          BY <2>3, <4>1, <5>1, <5>2
      <4>3. at = Len(Sinks)
        BY <1>1, <1>3, <1>8, <4>2
      <4>4. Done(ids, left, failed, at)'
        BY <1>5, <4>2
      <4>5. Done(ids, left, failed, Len(Sinks))'
        BY <1>3, <4>3, <4>4
      <4>6. QED
        BY <1>3, <4>1, <4>5
    <3>3. QED
      BY <2>1, <3>1, <3>2
  <2>4. ResultsAreHonest'
    BY <2>3 DEF ResultsAreHonest
  <2>5. QED
    BY <2>2, <2>4
<1>9. QED
  BY <1>6, <1>7, <1>8

-----------------------------------------------------------------------------
(* The invariant holds at the start and over each step. *)

LEMMA HonestInit ==
  ASSUME Init
  PROVE  Honest
<1>1. SeenIsReal
  <2>1. todo \in Seq(Seq(Observations(todo))) /\ todo \in Scenarios
    BY ScenariosAreReal DEF Init
  <2>2. seen \in Seq([o : Observations(todo), boot : Nat])
    BY DEF Init
  <2>3. config \in Configs /\ boot \in Nat /\ calls \in Nat
    BY DEF Init
  <2>4. QED
    BY <2>1, <2>2, <2>3 DEF SeenIsReal
<1>2. HeldIsHonest /\ NetworkIsHonest /\ StoreIsHonest /\ ResultsAreHonest
  BY DEF Init, HeldIsHonest, NetworkIsHonest, StoreIsHonest, ResultsAreHonest
<1>3. LogsAreHonest
  BY DEF Init, LogsAreHonest
<1>4. CallIsHonest
  <2>1. DOMAIN call = CallFields /\ call.at = 0
    BY DEF Init, Idle, Call, CallFields
  <2>2. QED
    BY <2>1 DEF CallIsHonest
<1>5. QED
  BY <1>1, <1>2, <1>3, <1>4 DEF Honest

LEMMA SeenStays ==
  ASSUME SeenIsReal, UNCHANGED <<config, boot, seen, todo>>, calls' \in Nat
  PROVE  SeenIsReal'
BY DEF SeenIsReal

LEMMA CollectHonest ==
  ASSUME Honest, Collect
  PROVE  Honest'
<1>1. /\ SeenIsReal /\ HeldIsHonest /\ NetworkIsHonest /\ StoreIsHonest /\ LogsAreHonest
      /\ CallIsHonest /\ ResultsAreHonest
  BY DEF Honest
<1>2. PICK s \in Scenarios : /\ todo \in Seq(Seq(Observations(s)))
                             /\ seen \in Seq([o : Observations(s), boot : Nat])
  BY <1>1 DEF SeenIsReal
<1> DEFINE more == [i \in DOMAIN Head(todo) |-> [o |-> Head(todo)[i], boot |-> boot]]
           batch == EvidenceBatch(producer_metadata,
                      {RecordOf(Head(todo)[i], Len(seen) + i) : i \in DOMAIN Head(todo)})
<1>3. /\ todo # <<>> /\ seen' = seen \o more /\ held' = Append(held, batch) /\ todo' = Tail(todo)
      /\ UNCHANGED <<config, boot, call, network, store, logs, results, calls, crashes>>
  BY DEF Collect
<1>4. PICK new : new = Head(todo)
  OBVIOUS
<1>5. /\ new \in Seq(Observations(s)) /\ Tail(todo) \in Seq(Seq(Observations(s)))
      /\ Len(new) \in Nat /\ DOMAIN new = 1..Len(new)
      /\ \A i \in DOMAIN new : new[i] \in Observations(s)
  <2>1. new \in Seq(Observations(s)) /\ Tail(todo) \in Seq(Seq(Observations(s)))
    BY <1>2, <1>3, <1>4, HeadTailProperties
  <2>2. QED
    BY <2>1, SequenceFacts
<1>6. Len(seen) \in Nat /\ DOMAIN seen = 1..Len(seen) /\ boot \in Nat /\ config \in Configs
  BY <1>1, <1>2, SequenceFacts DEF SeenIsReal
<1>7. /\ more \in Seq([o : Observations(s), boot : Nat]) /\ Len(more) = Len(new)
      /\ \A i \in DOMAIN new : more[i] = [o |-> new[i], boot |-> boot]
  <2>1. more = [i \in 1..Len(new) |-> [o |-> new[i], boot |-> boot]]
    BY <1>4, <1>5
  <2>2. \A i \in 1..Len(new) : [o |-> new[i], boot |-> boot] \in [o : Observations(s), boot : Nat]
    BY <1>5, <1>6
  <2> HIDE DEF more
  <2>3. QED
    BY <1>5, <2>1, <2>2
<1> HIDE DEF more
<1>8. /\ seen' \in Seq([o : Observations(s), boot : Nat])
      /\ \A id \in DOMAIN seen : id \in DOMAIN seen' /\ seen'[id] = seen[id]
      /\ \A i \in DOMAIN new : Len(seen) + i \in DOMAIN seen' /\ seen'[Len(seen) + i] = more[i]
  <2>1. PICK S, old, u : S = [o : Observations(s), boot : Nat] /\ old = seen /\ u = seen'
    OBVIOUS
  <2>2. DOMAIN more = DOMAIN new
    BY <1>5, <1>7, SequenceFacts
  <2>3. old \in Seq(S) /\ more \in Seq(S) /\ u = old \o more
    BY <1>2, <1>3, <1>7, <2>1
  <2>4. /\ u \in Seq(S) /\ \A n \in DOMAIN old : n \in DOMAIN u /\ u[n] = old[n]
        /\ \A n \in DOMAIN more : Len(old) + n \in DOMAIN u /\ u[Len(old) + n] = more[n]
    BY <2>3, ConcatFacts
  <2>5. QED
    BY <2>1, <2>2, <2>4
<1>9. Grows
  BY <1>3, <1>5, <1>6, <1>8 DEF Grows
<1>10. SeenIsReal'
  BY <1>1, <1>3, <1>5, <1>8 DEF SeenIsReal
<1>11. LogsAreHonest' /\ Accumulates
  BY <1>1, <1>3, <1>9, LogsStay, SameKept
<1>12. ASSUME NEW i \in DOMAIN new, NEW id, id = Len(seen) + i
       PROVE  /\ id \in Ids' /\ RecordOf(new[i], id) = TheRecord(id)'
              /\ RecordOf(new[i], id).occurrence.id = id
              /\ ProducerOf(id)' = producer_metadata
  <2>2. id \in DOMAIN seen' /\ seen'[id] = [o |-> new[i], boot |-> boot]
    BY <1>7, <1>8, <1>12
  <2>3. PICK o : o = new[i]
    OBVIOUS
  <2>4. seen'[id].o = o /\ seen'[id].boot = boot
    BY <2>2, <2>3
  <2>5. RecordOf(o, id)' = RecordOf(o, id)
    BY <1>3 DEF RecordOf
  <2>6. TheRecord(id)' = RecordOf(o, id)
    BY <2>4, <2>5 DEF TheRecord
  <2>7. ProducerOf(id)' = producer_metadata
    BY <1>3, <2>4 DEF ProducerOf, Producer, producer_metadata
  <2>8. IsObservation(o)
    BY <1>5, <2>3, ScenariosAreReal
  <2>9. RecordOf(o, id).occurrence.id = id
    BY <2>8, RecordShape DEF IsRecord
  <2>10. QED
    BY <2>2, <2>3, <2>6, <2>7, <2>9 DEF Ids
<1>13. batch \in HonestBatches'
  <2>1. PICK records : records = {RecordOf(new[i], Len(seen) + i) : i \in DOMAIN new}
    OBVIOUS
  <2>2. batch = [producer |-> producer_metadata, records |-> records]
    BY <1>4, <2>1 DEF EvidenceBatch
  <2>3. records \subseteq {TheRecord(id) : id \in Ids}'
    <3>1. SUFFICES ASSUME NEW r \in records PROVE r \in {TheRecord(id) : id \in Ids}'
      OBVIOUS
    <3>2. PICK i \in DOMAIN new : r = RecordOf(new[i], Len(seen) + i)
      BY <2>1
    <3>3. PICK id : id = Len(seen) + i
      OBVIOUS
    <3>4. QED
      BY <1>12, <3>2, <3>3
  <2>4. producer_metadata \in {Producer(n) : n \in Nat}'
    <3>1. producer_metadata = Producer(boot)'
      BY <1>3 DEF producer_metadata, Producer
    <3>2. QED
      BY <1>3, <1>6, <3>1
  <2>5. ASSUME NEW r \in records
        PROVE  producer_metadata = ProducerOf(r.occurrence.id)'
    <3>1. PICK i \in DOMAIN new : r = RecordOf(new[i], Len(seen) + i)
      BY <2>1
    <3>2. PICK id : id = Len(seen) + i
      OBVIOUS
    <3>3. r.occurrence.id = id /\ ProducerOf(id)' = producer_metadata
      BY <1>12, <3>1, <3>2
    <3>4. QED
      BY <3>3
  <2> HIDE DEF batch
  <2>6. batch.producer = producer_metadata /\ batch.records = records
    BY <2>2
  <2>7. batch \in [producer : {Producer(n) : n \in Nat}, records : SUBSET {TheRecord(id) : id \in Ids}]'
    BY <2>2, <2>3, <2>4
  <2>8. QED
    BY <2>5, <2>6, <2>7 DEF HonestBatches
<1> HIDE DEF batch
<1>14. HeldIsHonest' /\ held' # <<>>
  <2>1. held \in Seq(HonestBatches')
    BY <1>1, <1>9, HeldStays
  <2>2. QED
    BY <1>3, <1>13, <2>1, AppendProperties DEF HeldIsHonest
<1>15. NetworkIsHonest'
  BY <1>1, <1>3, <1>9, NetworkStays
<1>16. StoreIsHonest'
  BY <1>1, <1>3, <1>9, StoreStays
<1>17. ResultsAreHonest'
  BY <1>1, <1>3, <1>9, <1>11, ResultsStay
<1>18. CallIsHonest'
  BY <1>1, <1>3, <1>9, <1>11, <1>14, CallStays
<1>19. QED
  BY <1>10, <1>11, <1>14, <1>15, <1>16, <1>17, <1>18 DEF Honest

LEMMA SendHonest ==
  ASSUME Honest, Send
  PROVE  Honest'
<1>1. /\ SeenIsReal /\ HeldIsHonest /\ NetworkIsHonest /\ StoreIsHonest /\ LogsAreHonest
      /\ CallIsHonest /\ ResultsAreHonest
  BY DEF Honest
<1>2. /\ held # <<>> /\ call' = Call(1, Head(held), 0, {}) /\ calls' = calls + 1
      /\ UNCHANGED <<config, todo, boot, seen, held, network, store, logs, results, crashes>>
  BY DEF Send
<1>3. Grows
  BY <1>2, SameHistory
<1>4. SeenIsReal'
  <2>1. calls' \in Nat
    BY <1>1, <1>2 DEF SeenIsReal
  <2>2. QED
    BY <1>1, <1>2, <2>1, SeenStays
<1>5. LogsAreHonest' /\ Accumulates
  BY <1>1, <1>2, <1>3, LogsStay, SameKept
<1>6. held \in Seq(HonestBatches')
  BY <1>1, <1>3, HeldStays
<1>7. CallIsHonest'
  <2>1. PICK b : b = Head(held)
    OBVIOUS
  <2>2. b \in HonestBatches'
    BY <1>2, <1>6, <2>1, HeadTailProperties
  <2>3. 1 =< Len(Sinks')
    BY <1>1, <1>3, GrowsSinks, SinkFacts
  <2>4. call' = Call(1, b, 0, {}) /\ held' # <<>>
    BY <1>2, <2>1
  <2>5. QED
    BY <2>2, <2>3, <2>4, CallBegins
<1>8. NetworkIsHonest' /\ StoreIsHonest' /\ ResultsAreHonest'
  BY <1>1, <1>2, <1>3, <1>5, NetworkStays, StoreStays, ResultsStay
<1>9. QED
  BY <1>2, <1>4, <1>5, <1>6, <1>7, <1>8 DEF Honest, HeldIsHonest

LEMMA RestartHonest ==
  ASSUME Honest, Restart
  PROVE  Honest'
<1>1. /\ SeenIsReal /\ HeldIsHonest /\ NetworkIsHonest /\ StoreIsHonest /\ LogsAreHonest
      /\ CallIsHonest /\ ResultsAreHonest
  BY DEF Honest
<1>2. /\ held' \in {held, <<>>} /\ call' = Idle /\ boot' \in {boot, boot + 1}
      /\ UNCHANGED <<config, todo, seen, network, store, logs, results, calls>>
  BY DEF Restart
<1>3. Grows
  BY <1>2, SameHistory
<1>4. SeenIsReal'
  <2>1. boot' \in Nat
    BY <1>1, <1>2 DEF SeenIsReal
  <2>2. config' \in Configs /\ calls' \in Nat
    BY <1>1, <1>2 DEF SeenIsReal
  <2>3. PICK s \in Scenarios : /\ todo \in Seq(Seq(Observations(s)))
                               /\ seen \in Seq([o : Observations(s), boot : Nat])
    BY <1>1 DEF SeenIsReal
  <2>4. /\ todo' \in Seq(Seq(Observations(s)))
        /\ seen' \in Seq([o : Observations(s), boot : Nat])
    BY <1>2, <2>3
  <2>5. QED
    BY <2>1, <2>2, <2>4 DEF SeenIsReal
<1>5. LogsAreHonest' /\ Accumulates
  BY <1>1, <1>2, <1>3, LogsStay, SameKept
<1>6. held' \in Seq(HonestBatches')
  <2>1. held \in Seq(HonestBatches') /\ <<>> \in Seq(HonestBatches')
    BY <1>1, <1>3, HeldStays
  <2>2. QED
    BY <1>2, <2>1
<1>7. CallIsHonest' /\ call'.at = 0
  BY <1>2, CallEnds
<1>8. NetworkIsHonest' /\ StoreIsHonest' /\ ResultsAreHonest'
  BY <1>1, <1>2, <1>3, <1>5, <1>7, NetworkStays, StoreStays, ResultsStay
<1>9. QED
  BY <1>4, <1>5, <1>6, <1>7, <1>8 DEF Honest, HeldIsHonest

LEMMA EarnedGrows ==
  ASSUME SeenIsReal, Grows, Accumulates, LogsAreHonest, LogsAreHonest', NEW ids \in SUBSET Ids,
         NEW i \in DOMAIN Sinks, NEW dropped, Earned(i, ids, dropped)
  PROVE  Earned(i, ids, dropped)'
<1>1. CASE i = 1
  <2>1. PrimaryDone(ids, dropped)
    BY <1>1 DEF Earned
  <2>2. Done(ids, dropped, {}, 1)
    BY <2>1 DEF Done
  <2>3. 1 \in Nat /\ 1 =< Len(Sinks)
    BY SinkFacts
  <2>4. Done(ids, dropped, {}, 1)'
    BY <2>2, <2>3, DoneGrows
  <2>5. QED
    BY <1>1, <2>4 DEF Done, Earned
<1>2. CASE i # 1
  <2>1. SecondaryDone(i, ids)
    BY <1>2 DEF Earned
  <2>2. SecondaryDone(i, ids)'
    BY <2>1, GrowsSinks, KeptGrows DEF SecondaryDone
  <2>3. QED
    BY <1>2, <2>2 DEF Earned
<1>3. QED
  BY <1>1, <1>2

\* A key belongs to one id.
LEMMA KeyNamesId ==
  ASSUME NEW id, NEW other, TheKey(id) = TheKey(other)
  PROVE  id = other
BY DEF TheKey

LEMMA VartioEarned ==
  ASSUME SeenIsReal, StoreIsHonest, NEW b \in HonestBatches, NEW i \in DOMAIN Sinks,
         Sinks[i].kind = "vartio",
         \A id \in IdsOf(b) : Sent(id) => TheKey(id) \in DOMAIN store
  PROVE  Earned(i, IdsOf(b), Cardinality(b.records) - Cardinality(ToSend(b)))
<1> DEFINE ids == IdsOf(b)
           dropped == Cardinality(b.records) - Cardinality(ToSend(b))
<1>1. SecondaryDone(i, ids)
  BY DEF SecondaryDone
<1>2. ASSUME i = 1
      PROVE  PrimaryDone(ids, dropped)
  <2>1. \A id : Passes(1, id) <=> Sent(id)
    BY <1>2 DEF Passes
  <2>2. {id \in ids : Passes(1, id)} = {id \in ids : Sent(id)}
    BY <2>1
  <2>3. IsFiniteSet(ids) /\ ids \subseteq Ids
    BY HonestFacts
  <2>4. IsFiniteSet({id \in ids : Sent(id)})
    BY <2>3, FS_Subset
  <2>5. Cardinality(ids) \in Nat /\ Cardinality({id \in ids : Sent(id)}) \in Nat
    BY <2>3, <2>4, FS_CardinalityType
  <2>6. /\ Cardinality(b.records) = Cardinality(ids)
        /\ Cardinality(ToSend(b)) = Cardinality({id \in ids : Sent(id)})
    BY HonestCounts
  <2>7. ASSUME NEW id \in ids, Passes(1, id)
        PROVE  KeptBy(1, id)
    <3>1. TheKey(id) \in DOMAIN store
      BY <2>1, <2>7
    <3>2. PICK other \in Ids : TheKey(id) = TheKey(other) /\ store[TheKey(id)] = TheItem(other)
      BY <3>1 DEF StoreIsHonest
    <3>3. other = id
      BY <3>2, KeyNamesId
    <3>4. TheItem(id).event_id = id
      BY <2>3, IdFacts
    <3>5. \E item \in Items : item.event_id = id
      BY <3>1, <3>2, <3>3, <3>4 DEF Items
    <3>6. QED
      BY <1>2, <3>5 DEF KeptBy
  <2> HIDE DEF ids
  <2>8. dropped \in Int /\ Cardinality({id \in ids : Passes(1, id)}) + dropped = Cardinality(ids)
    <3>1. PICK n, m : n = Cardinality(ids) /\ m = Cardinality({id \in ids : Sent(id)})
      OBVIOUS
    <3>2. dropped = n - m /\ Cardinality({id \in ids : Passes(1, id)}) = m
      BY <2>2, <2>6, <3>1
    <3>3. QED
      BY <2>5, <3>1, <3>2
  <2>9. QED
    BY <2>7, <2>8 DEF PrimaryDone
<1>3. QED
  BY <1>1, <1>2 DEF Earned

LEMMA LinesEarned ==
  ASSUME SeenIsReal, NEW b \in HonestBatches, NEW i \in DOMAIN Sinks,
         Sinks[i].kind \in {"file", "stdout"}, \A id \in IdsOf(b) : KeptBy(i, id)
  PROVE  Earned(i, IdsOf(b), 0)
<1>1. SecondaryDone(i, IdsOf(b))
  BY DEF SecondaryDone
<1>2. ASSUME i = 1
      PROVE  PrimaryDone(IdsOf(b), 0)
  <2>1. \A id : Passes(1, id)
    BY <1>2 DEF Passes
  <2>2. {id \in IdsOf(b) : Passes(1, id)} = IdsOf(b)
    BY <2>1
  <2>3. Cardinality(IdsOf(b)) \in Nat
    BY HonestFacts, FS_CardinalityType
  <2>4. QED
    BY <1>2, <2>2, <2>3 DEF PrimaryDone
<1>3. QED
  BY <1>1, <1>2 DEF Earned

\* A sink that answers without a change of what is kept.
LEMMA AnswerHonest ==
  ASSUME Honest, UNCHANGED <<config, todo, boot, seen, network, store, logs, calls>>,
         call.at # 0, NEW answer, NEW dropped, Returns(answer, dropped),
         answer = "Ok" => Earned(call.at, IdsOf(call.batch), dropped)
  PROVE  Honest'
<1>1. /\ SeenIsReal /\ HeldIsHonest /\ NetworkIsHonest /\ StoreIsHonest /\ LogsAreHonest
      /\ CallIsHonest /\ ResultsAreHonest
  BY DEF Honest
<1>2. Grows
  BY SameHistory
<1>3. SeenIsReal'
  <2>1. calls' \in Nat
    BY <1>1 DEF SeenIsReal
  <2>2. QED
    BY <1>1, <2>1, SeenStays
<1>4. LogsAreHonest' /\ Accumulates
  BY <1>1, <1>2, LogsStay, SameKept
<1>5. PICK at, b : at = call.at /\ b = call.batch
  OBVIOUS
<1>6. at \in DOMAIN Sinks /\ b \in HonestBatches /\ IdsOf(b) \subseteq Ids
  <2>1. b \in HonestBatches /\ at \in Nat /\ at # 0 /\ at =< Len(Sinks)
    BY <1>1, <1>5 DEF CallIsHonest
  <2>2. QED
    BY <1>1, <2>1, SinkFacts, HonestFacts
<1>7. answer = "Ok" => Earned(at, IdsOf(b), dropped)'
  BY <1>1, <1>2, <1>4, <1>5, <1>6, EarnedGrows
<1>8. /\ HeldIsHonest' /\ CallIsHonest' /\ ResultsAreHonest' /\ (call'.at # 0 => call'.batch = b)
  BY <1>1, <1>3, <1>4, <1>5, <1>7, SinkAnswers
<1>9. NetworkIsHonest' /\ StoreIsHonest'
  BY <1>1, <1>2, <1>5, <1>8, NetworkStays, StoreStays
<1>10. QED
  BY <1>3, <1>4, <1>8, <1>9 DEF Honest

\* The call under way, and the batch it has.
LEMMA CallFacts ==
  ASSUME Honest, call.at # 0
  PROVE  /\ DOMAIN call = CallFields /\ call.at \in DOMAIN Sinks /\ call.at \in Nat
         /\ held # <<>> /\ call.batch \in HonestBatches /\ IdsOf(call.batch) \subseteq Ids
         /\ Sinks[call.at].kind = "vartio" => AtVartio
         /\ Sinks[call.at].kind \in {"file", "stdout"} => AtLines
<1>1. SeenIsReal /\ CallIsHonest
  BY DEF Honest
<1>2. /\ DOMAIN call = CallFields /\ call.at \in Nat /\ call.at =< Len(Sinks)
      /\ held # <<>> /\ call.batch \in HonestBatches
      /\ Sinks[call.at].kind = "vartio" => AtVartio
      /\ Sinks[call.at].kind \in {"file", "stdout"} => AtLines
  BY <1>1 DEF CallIsHonest
<1>3. QED
  BY <1>1, <1>2, SinkFacts, HonestFacts

\* A step of a call that stays at its sink, by what it must still show.
LEMMA CallGoesOn ==
  ASSUME Honest, UNCHANGED <<config, seen, held>>, Accumulates, LogsAreHonest', call.at # 0,
         DOMAIN call' = DOMAIN call, call'.at = call.at, call'.batch = call.batch,
         call'.dropped = call.dropped, call'.failed = call.failed,
         Sinks[call.at].kind = "vartio" => AtVartio',
         Sinks[call.at].kind \in {"file", "stdout"} => AtLines'
  PROVE  CallIsHonest'
<1>1. SeenIsReal /\ LogsAreHonest /\ CallIsHonest /\ Grows
  BY SameHistory DEF Honest
<1>2. /\ call.at \in DOMAIN Sinks /\ call.at \in Nat /\ DOMAIN call = CallFields /\ held # <<>>
      /\ call.batch \in HonestBatches /\ IdsOf(call.batch) \subseteq Ids
  BY CallFacts
<1>3. /\ call.at =< Len(Sinks) /\ 1 \notin call.failed
      /\ call.at > 1 => Done(IdsOf(call.batch), call.dropped, call.failed, call.at - 1)
  BY <1>1 DEF CallIsHonest
<1>4. Sinks' = Sinks /\ Len(Sinks) \in Nat /\ HonestBatches \subseteq HonestBatches'
  BY <1>1, GrowsSinks, GrowsBatches, SinkFacts
<1>5. call.at > 1 => Done(IdsOf(call.batch), call.dropped, call.failed, call.at - 1)'
  <2>1. SUFFICES ASSUME call.at > 1
                 PROVE  Done(IdsOf(call.batch), call.dropped, call.failed, call.at - 1)'
    OBVIOUS
  <2>2. PICK ids, dropped, failed, upto :
          /\ ids = IdsOf(call.batch) /\ dropped = call.dropped /\ failed = call.failed
          /\ upto = call.at - 1
    OBVIOUS
  <2>3. upto \in Nat /\ upto =< Len(Sinks) /\ Done(ids, dropped, failed, upto)
    BY <1>2, <1>3, <1>4, <2>1, <2>2
  <2>4. Done(ids, dropped, failed, upto)'
    BY <1>1, <1>2, <2>2, <2>3, DoneGrows
  <2>5. IdsOf(call.batch)' = ids
    BY <2>2 DEF IdsOf
  <2>6. QED
    BY <2>2, <2>4, <2>5
<1>6. QED
  BY <1>2, <1>3, <1>4, <1>5 DEF CallIsHonest

\* A step that leaves the log and the history, and keeps what the store has.
LEMMA RestStays ==
  ASSUME Honest, UNCHANGED <<config, todo, boot, seen, held, logs, results, calls>>, Accumulates
  PROVE  SeenIsReal' /\ HeldIsHonest' /\ LogsAreHonest' /\ ResultsAreHonest' /\ Grows
<1>1. SeenIsReal /\ HeldIsHonest /\ LogsAreHonest /\ ResultsAreHonest /\ Grows
  BY SameHistory DEF Honest
<1>2. calls' \in Nat
  BY <1>1 DEF SeenIsReal
<1>3. SeenIsReal' /\ LogsAreHonest'
  BY <1>1, <1>2, SeenStays, LogsStay
<1>4. held' \in Seq(HonestBatches')
  BY <1>1, HeldStays
<1>5. ResultsAreHonest'
  BY <1>1, <1>3, ResultsStay
<1>6. QED
  BY <1>1, <1>3, <1>4, <1>5 DEF HeldIsHonest

LEMMA VartioStartHonest ==
  ASSUME Honest, VartioStart
  PROVE  Honest'
<1>1. /\ SeenIsReal /\ NetworkIsHonest /\ StoreIsHonest /\ LogsAreHonest
  BY DEF Honest
<1>2. call.at # 0 /\ Sinks[call.at].kind = "vartio" /\ call.stage = "start"
  <2>1. At({"vartio"}, "start")
    BY Zenon DEF VartioStart
  <2>2. QED
    BY <2>1 DEF At
<1>3. /\ DOMAIN call = CallFields /\ call.at \in DOMAIN Sinks /\ call.at \in Nat
      /\ held # <<>> /\ call.batch \in HonestBatches /\ IdsOf(call.batch) \subseteq Ids
  BY <1>2, CallFacts
<1>4. PICK dropped : dropped = Cardinality(call.batch.records) - Cardinality(ToSend(call.batch))
  OBVIOUS
<1>5. /\ \/ Returns("Misconfigured", 0) /\ UNCHANGED network
         \/ ToSend(call.batch) = {} /\ Returns("Ok", dropped) /\ UNCHANGED network
         \/ /\ network' = network \cup {[id |-> calls, items |-> ItemsOf(call.batch)]}
            /\ call' = [call EXCEPT !.stage = "wire", !.left = dropped]
            /\ UNCHANGED <<held, results>>
      /\ UNCHANGED <<config, todo, boot, seen, store, logs, calls, crashes>>
  <2>1. IF "" \in {call.batch.producer.cluster, call.batch.producer.node_id}
        THEN Returns("Misconfigured", 0) /\ UNCHANGED network
        ELSE IF ToSend(call.batch) = {}
        THEN Returns("Ok", dropped) /\ UNCHANGED network
        ELSE IF config.token = "invalid"
        THEN Returns("Misconfigured", 0) /\ UNCHANGED network
        ELSE /\ network' = network \cup {[id |-> calls, items |-> ItemsOf(call.batch)]}
             /\ call' = [call EXCEPT !.stage = "wire", !.left = dropped]
             /\ UNCHANGED <<held, results>>
    BY <1>4, Zenon DEF VartioStart
  <2>2. UNCHANGED <<config, todo, boot, seen, store, logs, calls, crashes>>
    BY Zenon DEF VartioStart
  <2>3. QED
    BY <2>1, <2>2, Zenon
<1>6. CASE Returns("Misconfigured", 0) /\ UNCHANGED network
  BY <1>2, <1>5, <1>6, AnswerHonest
<1>7. CASE ToSend(call.batch) = {} /\ Returns("Ok", dropped) /\ UNCHANGED network
  <2>1. PICK b, at : b = call.batch /\ at = call.at
    OBVIOUS
  <2>2. ToSend(b) = {TheOccurrence(id) : id \in {x \in IdsOf(b) : Sent(x)}}
    BY <1>1, <1>3, <2>1, HonestCounts
  <2>3. \A id \in IdsOf(b) : ~Sent(id)
    BY <1>7, <2>1, <2>2
  <2>4. Earned(at, IdsOf(b), dropped)
    BY <1>1, <1>2, <1>3, <1>4, <2>1, <2>3, VartioEarned
  <2>5. QED
    BY <1>2, <1>5, <1>7, <2>1, <2>4, AnswerHonest
<1>8. CASE /\ network' = network \cup {[id |-> calls, items |-> ItemsOf(call.batch)]}
           /\ call' = [call EXCEPT !.stage = "wire", !.left = dropped]
           /\ UNCHANGED <<held, results>>
  <2>1. Accumulates
    BY <1>1, <1>5, SameKept
  <2>2. SeenIsReal' /\ HeldIsHonest' /\ LogsAreHonest' /\ ResultsAreHonest' /\ Grows
    BY <1>5, <1>8, <2>1, RestStays
  <2>3. StoreIsHonest'
    BY <1>1, <1>5, <2>2, StoreStays
  <2>4. /\ DOMAIN call' = CallFields /\ call'.at = call.at /\ call'.batch = call.batch
        /\ call'.dropped = call.dropped /\ call'.failed = call.failed
        /\ call'.stage = "wire" /\ call'.left = dropped
    BY <1>3, <1>8 DEF CallFields
  <2>5. PICK b : b = call.batch
    OBVIOUS
  <2>6. ToSend(b)' = ToSend(b) /\ ItemsOf(b)' = ItemsOf(b)
    BY <1>1, <2>2, GrowsBatches
  <2>7. AtVartio'
    BY <1>4, <2>4, <2>5, <2>6 DEF AtVartio
  <2>8. CallIsHonest'
    BY <1>2, <1>3, <1>5, <1>8, <2>1, <2>2, <2>4, <2>7, CallGoesOn
  <2>9. ASSUME NEW r \in network'
        PROVE  /\ r.id \in Nat /\ r.id =< calls'
               /\ \A x \in r.items : HonestItem(x)'
               /\ call'.at # 0 /\ r.id = calls' => r.items = ItemsOf(call.batch)'
    <3>1. calls \in Nat
      BY <1>1 DEF SeenIsReal
    <3>2. CASE r \in network
      <4>1. /\ r.id \in Nat /\ r.id =< calls /\ \A x \in r.items : HonestItem(x)
            /\ r.id = calls => r.items = ItemsOf(b)
        BY <1>1, <1>2, <2>5, <3>2, NetworkFacts
      <4>2. \A x \in r.items : HonestItem(x)'
        BY <2>2, <4>1, HonestItemGrows
      <4>3. QED
        BY <1>5, <2>4, <2>5, <2>6, <4>1, <4>2
    <3>3. CASE r = [id |-> calls, items |-> ItemsOf(b)]
      <4>1. r.id = calls /\ r.items = ItemsOf(b)
        BY <3>3
      <4>2. \A x \in ItemsOf(b) : HonestItem(x)
        <5>1. ItemsOf(b) = {[key |-> TheKey(id), item |-> TheItem(id)] : id \in {x \in IdsOf(b) : Sent(x)}}
          BY <1>1, <1>3, <2>5, HonestItems
        <5>2. IdsOf(b) \subseteq Ids
          BY <1>3, <2>5
        <5>3. QED
          BY <5>1, <5>2 DEF HonestItem
      <4>3. \A x \in r.items : HonestItem(x)'
        BY <2>2, <4>1, <4>2, HonestItemGrows
      <4>4. QED
        BY <1>5, <2>4, <2>5, <2>6, <3>1, <4>1, <4>3
    <3>4. QED
      BY <1>8, <2>5, <3>2, <3>3
  <2>10. NetworkIsHonest'
    BY <2>9 DEF NetworkIsHonest, HonestItem
  <2>11. QED
    BY <2>2, <2>3, <2>8, <2>10 DEF Honest
<1>9. QED
  BY <1>5, <1>6, <1>7, <1>8

LEMMA VartioAnsweredHonest ==
  ASSUME Honest, VartioAnswered
  PROVE  Honest'
<1>1. SeenIsReal /\ StoreIsHonest
  BY DEF Honest
<1>2. /\ call.at # 0 /\ Sinks[call.at].kind = "vartio" /\ call.stage = "answered"
      /\ Returns(Answer, call.left)
      /\ UNCHANGED <<config, todo, boot, seen, network, store, logs, calls, crashes>>
  BY DEF VartioAnswered, At
<1>3. call.at \in DOMAIN Sinks /\ call.batch \in HonestBatches /\ AtVartio
  BY <1>2, CallFacts
<1>4. PICK b, at, dropped : b = call.batch /\ at = call.at /\ dropped = call.left
  OBVIOUS
<1>5. ASSUME Answer = "Ok"
      PROVE  Earned(at, IdsOf(b), dropped)
  <2>1. dropped = Cardinality(b.records) - Cardinality(ToSend(b))
    BY <1>2, <1>3, <1>4 DEF AtVartio
  <2>2. \A id \in IdsOf(b) : Sent(id) => TheKey(id) \in DOMAIN store
    BY <1>2, <1>3, <1>4, <1>5 DEF AtVartio
  <2>3. QED
    BY <1>1, <1>2, <1>3, <1>4, <2>1, <2>2, VartioEarned
<1>6. PICK answer : answer = Answer
  OBVIOUS
<1>7. Returns(answer, dropped) /\ (answer = "Ok" => Earned(call.at, IdsOf(call.batch), dropped))
  BY <1>2, <1>4, <1>5, <1>6
<1>8. QED
  BY <1>2, <1>7, AnswerHonest

\* A status that is not Ok is an error.
LEMMA StatusIsError ==
  ASSUME call'.stage = "answered", call'.status # "Ok"
  PROVE  Answer' # "Ok"
BY DEF Answer, classify_status

\* What the receiver has after a request, by the items it kept.
Holds(more, kept) ==
  /\ \A x \in kept : x.key \in DOMAIN more
  /\ \A k \in DOMAIN more : \E x \in kept : x.key = k /\ more[k] = x.item

Extends(new, old, kept) ==
  /\ \A k \in DOMAIN old : k \in DOMAIN new /\ new[k] = old[k]
  /\ \A x \in kept : x.key \in DOMAIN new
  /\ \A k \in DOMAIN new \ DOMAIN old : \E x \in kept : x.key = k /\ new[k] = x.item

LEMMA Kept ==
  ASSUME NEW old, NEW kept, NEW more, Holds(more, kept), DOMAIN old \cap DOMAIN more = {}
  PROVE  Extends(With(old, more), old, kept)
<1>1. PICK new : new = With(old, more)
  OBVIOUS
<1>2. DOMAIN new = DOMAIN old \cup DOMAIN more
  BY <1>1, WithDomain
<1>3. ASSUME NEW k \in DOMAIN old
      PROVE  new[k] = old[k]
  <2>1. k \notin DOMAIN more
    OBVIOUS
  <2>2. QED
    BY <1>1, <2>1, WithFirst
<1>4. ASSUME NEW k \in DOMAIN more
      PROVE  new[k] = more[k]
  BY <1>1, WithSecond
<1>5. Extends(new, old, kept)
  BY <1>2, <1>3, <1>4 DEF Holds, Extends
<1>6. QED
  BY <1>1, <1>5

LEMMA Chosen ==
  ASSUME NEW kept, NEW k, NEW x \in kept, x.key = k
  PROVE  \E y \in kept : y.key = k /\ (CHOOSE z \in kept : z.key = k) = y
OBVIOUS

LEMMA ReceiveHonest ==
  ASSUME Honest, NEW r \in network, NEW v \in [r.items -> Verdicts], Receive(r, v)
  PROVE  Honest'
<1>1. SeenIsReal /\ NetworkIsHonest /\ StoreIsHonest /\ LogsAreHonest /\ CallIsHonest
  BY DEF Honest
<1>2. PICK fresh : fresh = {x \in r.items : x.key \notin DOMAIN store}
  OBVIOUS
<1>3. PICK kept, later, rejected : /\ kept = {x \in fresh : v[x] = "keep"}
                                   /\ later = {x \in fresh : v[x] = "later"}
                                   /\ rejected = {x \in fresh : v[x] = "reject"}
  OBVIOUS
<1>4. /\ store' = With(store, [k \in {x.key : x \in kept} |-> (CHOOSE x \in kept : x.key = k).item])
      /\ network' = network \ {r}
      /\ call' = IF At({"vartio"}, "wire") /\ r.id = calls
                 THEN [call EXCEPT !.stage = "answered", !.status = "Ok",
                                   !.retryable = later # {}, !.rejected = rejected # {}]
                 ELSE call
      /\ UNCHANGED <<config, todo, boot, seen, held, logs, results, calls, crashes>>
  BY <1>2, <1>3 DEF Receive
<1>5. /\ \A k \in DOMAIN store : k \in DOMAIN store' /\ store'[k] = store[k]
      /\ \A x \in kept : x.key \in DOMAIN store'
      /\ \A k \in DOMAIN store' \ DOMAIN store : \E x \in kept : x.key = k /\ store'[k] = x.item
  <2>1. PICK old, new, more :
          /\ old = store /\ new = store'
          /\ more = [k \in {x.key : x \in kept} |-> (CHOOSE x \in kept : x.key = k).item]
    OBVIOUS
  <2>2. new = With(old, more)
    BY <1>4, <2>1, Zenon
  <2>3. DOMAIN more = {x.key : x \in kept}
    BY <2>1
  <2>4. \A k \in DOMAIN more : \E x \in kept : x.key = k /\ more[k] = x.item
    <3> SUFFICES ASSUME NEW k \in DOMAIN more
                 PROVE  \E x \in kept : x.key = k /\ more[k] = x.item
      OBVIOUS
    <3>1. \E x \in kept : x.key = k
      BY <2>3
    <3>2. PICK y \in kept : y.key = k /\ (CHOOSE z \in kept : z.key = k) = y
      BY <3>1, Chosen
    <3>3. more[k] = (CHOOSE x \in kept : x.key = k).item
      BY <2>1
    <3>4. QED
      BY <3>2, <3>3
  <2>5. Holds(more, kept)
    BY <2>3, <2>4 DEF Holds
  <2>6. DOMAIN old \cap DOMAIN more = {}
    BY <1>2, <1>3, <2>1, <2>3
  <2>7. Extends(With(old, more), old, kept)
    BY <2>5, <2>6, Kept
  <2>8. Extends(store', store, kept)
    BY <2>1, <2>2, <2>7
  <2>9. QED
    BY <2>8 DEF Extends
<1>6. Accumulates
  BY <1>1, <1>4, <1>5, LogFacts DEF Accumulates
<1>7. SeenIsReal' /\ HeldIsHonest' /\ LogsAreHonest' /\ ResultsAreHonest' /\ Grows
  BY <1>4, <1>6, RestStays
<1>8. \A x \in r.items : HonestItem(x)
  BY <1>1, NetworkFacts
<1>9. StoreIsHonest'
  <2>1. SUFFICES ASSUME NEW k \in DOMAIN store'
                 PROVE  (\E id \in Ids : Sent(id) /\ k = TheKey(id) /\ store[k] = TheItem(id))'
    BY DEF StoreIsHonest
  <2>2. CASE k \in DOMAIN store
    <3>1. PICK id \in Ids : Sent(id) /\ k = TheKey(id) /\ store[k] = TheItem(id)
      BY <1>1, <2>2 DEF StoreIsHonest
    <3>2. id \in Ids' /\ Sent(id)' /\ k = TheKey(id)' /\ store'[k] = TheItem(id)'
      BY <1>5, <1>7, <2>2, <3>1, GrowsIds
    <3>3. QED
      BY <3>2
  <2>3. CASE k \notin DOMAIN store
    <3>1. PICK x \in kept : x.key = k /\ store'[k] = x.item
      BY <1>5, <2>1, <2>3
    <3>2. HonestItem(x)'
      BY <1>2, <1>3, <1>7, <1>8, HonestItemGrows
    <3>3. PICK id \in Ids' : Sent(id)' /\ x = [key |-> TheKey(id)', item |-> TheItem(id)']
      BY <3>2 DEF HonestItem
    <3>4. k = TheKey(id)' /\ store'[k] = TheItem(id)'
      BY <3>1, <3>3
    <3>5. QED
      BY <3>3, <3>4
  <2>4. QED
    BY <2>2, <2>3
<1>10. CASE ~(At({"vartio"}, "wire") /\ r.id = calls)
  <2>1. call' = call
    BY <1>4, <1>10
  <2>2. NetworkIsHonest'
    BY <1>1, <1>4, <1>7, <2>1, NetworkStays
  <2>3. call.at # 0 => held' # <<>>
    BY <1>1, <1>4 DEF CallIsHonest
  <2>4. CallIsHonest'
    BY <1>1, <1>4, <1>6, <1>7, <2>1, <2>3, CallStays
  <2>5. QED
    BY <1>7, <1>9, <2>2, <2>4 DEF Honest
<1>11. CASE At({"vartio"}, "wire") /\ r.id = calls
  <2>1. call.at # 0 /\ Sinks[call.at].kind = "vartio" /\ call.stage = "wire"
    BY <1>11 DEF At
  <2>2. /\ DOMAIN call = CallFields /\ call.at \in DOMAIN Sinks /\ call.at \in Nat
        /\ call.batch \in HonestBatches /\ IdsOf(call.batch) \subseteq Ids /\ AtVartio
    BY <2>1, CallFacts
  <2>3. call' = [call EXCEPT !.stage = "answered", !.status = "Ok",
                             !.retryable = later # {}, !.rejected = rejected # {}]
    BY <1>4, <1>11
  <2>4. /\ DOMAIN call' = CallFields /\ call'.at = call.at /\ call'.batch = call.batch
        /\ call'.dropped = call.dropped /\ call'.failed = call.failed
        /\ call'.stage = "answered" /\ call'.left = call.left /\ call'.status = "Ok"
        /\ call'.retryable = (later # {}) /\ call'.rejected = (rejected # {})
    BY <2>2, <2>3 DEF CallFields
  <2>5. PICK b : b = call.batch
    OBVIOUS
  <2>6. ToSend(b)' = ToSend(b) /\ r.items = ItemsOf(b)
    BY <1>1, <1>7, <1>11, <2>1, <2>5, GrowsBatches, NetworkFacts
  <2>7. ASSUME Answer' = "Ok", NEW id \in IdsOf(b), Sent(id)'
        PROVE  TheKey(id)' \in DOMAIN store'
    <3>1. later = {} /\ rejected = {}
      BY <2>4, <2>7 DEF Answer
    <3>2. id \in Ids /\ Sent(id) /\ TheKey(id)' = TheKey(id)
      BY <1>7, <2>2, <2>5, <2>7, GrowsIds
    <3>3. PICK x : x = [key |-> TheKey(id), item |-> TheItem(id)]
      OBVIOUS
    <3>4. x \in r.items /\ x.key = TheKey(id)
      BY <1>1, <2>2, <2>5, <2>6, <3>2, <3>3, HonestItems
    <3>5. v[x] \in Verdicts
      BY <3>4
    <3>6. x \notin fresh \/ x \in kept
      BY <1>3, <3>1, <3>5 DEF Verdicts
    <3>7. QED
      BY <1>2, <1>5, <3>2, <3>4, <3>6
  <2>8. AtVartio'
    <3>1. call'.left = Cardinality(b.records) - Cardinality(ToSend(b))
      BY <2>1, <2>2, <2>4, <2>5 DEF AtVartio
    <3>2. IdsOf(call.batch)' = IdsOf(b) /\ ToSend(call.batch)' = ToSend(b)
      BY <2>4, <2>5, <2>6 DEF IdsOf
    <3>3. QED
      BY <2>4, <2>5, <2>7, <3>1, <3>2 DEF AtVartio
  <2>9. CallIsHonest'
    BY <1>4, <1>6, <1>7, <2>1, <2>2, <2>4, <2>8, CallGoesOn
  <2>10. NetworkIsHonest'
    BY <1>1, <1>4, <1>7, <2>1, <2>4, NetworkStays
  <2>11. QED
    BY <1>7, <1>9, <2>9, <2>10 DEF Honest
<1>12. QED
  BY <1>10, <1>11

\* The request is answered with a status, or given up: nothing is earned.
LEMMA StatusHonest ==
  ASSUME Honest, At({"vartio"}, "wire"), NEW status, status # "Ok",
         call' = [call EXCEPT !.stage = "answered", !.status = status], network' \subseteq network,
         UNCHANGED <<config, todo, boot, seen, held, store, logs, results, calls, crashes>>
  PROVE  Honest'
<1>1. SeenIsReal /\ NetworkIsHonest /\ StoreIsHonest /\ LogsAreHonest /\ CallIsHonest
  BY DEF Honest
<1>2. Accumulates
  BY <1>1, SameKept
<1>3. SeenIsReal' /\ HeldIsHonest' /\ LogsAreHonest' /\ ResultsAreHonest' /\ Grows
  BY <1>2, RestStays
<1>4. call.at # 0 /\ Sinks[call.at].kind = "vartio" /\ call.stage = "wire"
  BY DEF At
<1>5. DOMAIN call = CallFields /\ AtVartio
  BY <1>4, CallFacts
<1>6. /\ DOMAIN call' = CallFields /\ call'.at = call.at /\ call'.batch = call.batch
      /\ call'.dropped = call.dropped /\ call'.failed = call.failed
      /\ call'.stage = "answered" /\ call'.left = call.left /\ call'.status = status
  BY <1>5 DEF CallFields
<1>7. AtVartio'
  <2>1. Answer' # "Ok"
    BY <1>6, StatusIsError
  <2>2. PICK b : b = call.batch
    OBVIOUS
  <2>3. ToSend(b)' = ToSend(b)
    BY <1>1, <1>3, GrowsBatches
  <2>4. QED
    BY <1>4, <1>5, <1>6, <2>1, <2>2, <2>3 DEF AtVartio
<1>8. CallIsHonest'
  BY <1>2, <1>3, <1>4, <1>5, <1>6, <1>7, CallGoesOn
<1>9. NetworkIsHonest' /\ StoreIsHonest'
  BY <1>1, <1>3, <1>4, <1>6, NetworkStays, StoreStays
<1>10. QED
  BY <1>3, <1>8, <1>9 DEF Honest

LEMMA RefuseHonest ==
  ASSUME Honest, NEW status \in Refusals, Refuse(status)
  PROVE  Honest'
<1>1. status # "Ok" /\ At({"vartio"}, "wire")
  BY DEF Refusals, Refuse
<1>2. network' \subseteq network
  BY DEF Refuse
<1>3. /\ call' = [call EXCEPT !.stage = "answered", !.status = status]
      /\ UNCHANGED <<config, todo, boot, seen, held, store, logs, results, calls, crashes>>
  BY DEF Refuse
<1>4. QED
  BY <1>1, <1>2, <1>3, StatusHonest, Zenon

LEMMA GiveUpHonest ==
  ASSUME Honest, NEW status \in {"DeadlineExceeded", "Unavailable"}, GiveUp(status)
  PROVE  Honest'
<1>1. status # "Ok" /\ At({"vartio"}, "wire")
  BY DEF GiveUp
<1>2. network' \subseteq network
  BY DEF GiveUp
<1>3. /\ call' = [call EXCEPT !.stage = "answered", !.status = status]
      /\ UNCHANGED <<config, todo, boot, seen, held, store, logs, results, calls, crashes>>
  BY DEF GiveUp
<1>4. QED
  BY <1>1, <1>2, <1>3, StatusHonest, Zenon

LEMMA LoseHonest ==
  ASSUME Honest, NEW r \in network, Lose(r)
  PROVE  Honest'
<1>1. SeenIsReal /\ NetworkIsHonest /\ StoreIsHonest /\ LogsAreHonest /\ CallIsHonest
  BY DEF Honest
<1>2. /\ network' \subseteq network
      /\ UNCHANGED <<config, todo, boot, seen, held, call, store, logs, results, calls, crashes>>
  BY DEF Lose
<1>3. Accumulates
  BY <1>1, <1>2, SameKept
<1>4. SeenIsReal' /\ HeldIsHonest' /\ LogsAreHonest' /\ ResultsAreHonest' /\ Grows
  BY <1>2, <1>3, RestStays
<1>5. call.at # 0 => held' # <<>>
  BY <1>1, <1>2 DEF CallIsHonest
<1>6. CallIsHonest'
  BY <1>1, <1>2, <1>3, <1>4, <1>5, CallStays
<1>7. NetworkIsHonest' /\ StoreIsHonest'
  BY <1>1, <1>2, <1>4, NetworkStays, StoreStays
<1>8. QED
  BY <1>4, <1>6, <1>7 DEF Honest

LEMMA RestGoesOn ==
  ASSUME Honest, UNCHANGED <<config, todo, boot, seen, held, results, calls>>, Accumulates,
         LogsAreHonest'
  PROVE  SeenIsReal' /\ HeldIsHonest' /\ ResultsAreHonest' /\ Grows
<1>1. SeenIsReal /\ HeldIsHonest /\ LogsAreHonest /\ ResultsAreHonest /\ Grows
  BY SameHistory DEF Honest
<1>2. calls' \in Nat
  BY <1>1 DEF SeenIsReal
<1>3. SeenIsReal'
  BY <1>1, <1>2, SeenStays
<1>4. held' \in Seq(HonestBatches')
  BY <1>1, HeldStays
<1>5. ResultsAreHonest'
  BY <1>1, ResultsStay
<1>6. QED
  BY <1>1, <1>3, <1>4, <1>5 DEF HeldIsHonest

\* What a sequence has after an entry is appended.
LEMMA AppendFacts ==
  ASSUME NEW S, NEW s \in Seq(S), NEW e \in S
  PROVE  /\ Len(s) \in Nat /\ DOMAIN s = 1..Len(s)
         /\ Append(s, e) \in Seq(S) /\ Len(Append(s, e)) = Len(s) + 1
         /\ DOMAIN Append(s, e) = 1..Len(s) + 1
         /\ Append(s, e)[Len(s) + 1] = e
         /\ \A n \in DOMAIN s : n \in DOMAIN Append(s, e) /\ Append(s, e)[n] = s[n]
<1>1. Len(s) \in Nat /\ DOMAIN s = 1..Len(s)
  BY SequenceFacts
<1>2. /\ Append(s, e) \in Seq(S) /\ Len(Append(s, e)) = Len(s) + 1
      /\ \A n \in 1..Len(s) : Append(s, e)[n] = s[n]
      /\ Append(s, e)[Len(s) + 1] = e
  BY AppendProperties
<1>3. DOMAIN Append(s, e) = 1..Len(s) + 1
  BY <1>2, SequenceFacts
<1>4. \A n \in 1..Len(s) : n \in 1..Len(s) + 1
  BY <1>1
<1>5. QED
  BY <1>1, <1>2, <1>3, <1>4

\* The entries a sink may write.
EntriesOf(i) ==
  IF Sinks[i].kind = "pipeline" THEN SUBSET {id \in Ids : Projected(id)}
  ELSE [id : Ids, part : {"head", "tail"}]

LEMMA EntriesGrow ==
  ASSUME UNCHANGED <<config, seen>>, NEW i
  PROVE  EntriesOf(i)' = EntriesOf(i)
<1>1. Grows /\ Ids' = Ids /\ Sinks' = Sinks
  BY SameHistory, GrowsSinks DEF Ids
<1>2. {id \in Ids : Projected(id)}' = {id \in Ids : Projected(id)}
  BY <1>1, GrowsIds
<1>3. QED
  BY <1>1, <1>2 DEF EntriesOf

LEMMA LogsAreEntries ==
  LogsAreHonest <=> DOMAIN logs = DOMAIN Sinks /\ \A i \in DOMAIN Sinks : logs[i] \in Seq(EntriesOf(i))
BY DEF LogsAreHonest, EntriesOf

LEMMA LogGrows ==
  ASSUME Honest, UNCHANGED <<config, seen, store>>, NEW at \in DOMAIN Sinks, NEW e \in EntriesOf(at),
         logs' = [logs EXCEPT ![at] = Append(@, e)]
  PROVE  /\ Accumulates /\ LogsAreHonest'
         /\ Len(logs[at]) \in Nat /\ Len(logs'[at]) = Len(logs[at]) + 1
         /\ DOMAIN logs[at] = 1..Len(logs[at]) /\ DOMAIN logs'[at] = 1..Len(logs[at]) + 1
         /\ logs'[at][Len(logs[at]) + 1] = e
         /\ \A n \in DOMAIN logs[at] : logs'[at][n] = logs[at][n]
<1>1. /\ LogsAreHonest /\ DOMAIN logs = DOMAIN Sinks
      /\ \A i \in DOMAIN Sinks : logs[i] \in Seq(EntriesOf(i))
  BY LogsAreEntries DEF Honest
<1>2. Sinks' = Sinks
  BY SameHistory, GrowsSinks
<1>3. /\ DOMAIN logs' = DOMAIN logs /\ logs'[at] = Append(logs[at], e)
      /\ \A i \in DOMAIN Sinks \ {at} : logs'[i] = logs[i]
  BY <1>1
<1>4. PICK s, t, S : s = logs[at] /\ t = logs'[at] /\ S = EntriesOf(at)
  OBVIOUS
<1>5. /\ Len(s) \in Nat /\ DOMAIN s = 1..Len(s) /\ t \in Seq(S) /\ Len(t) = Len(s) + 1
      /\ DOMAIN t = 1..Len(s) + 1 /\ t[Len(s) + 1] = e
      /\ \A n \in DOMAIN s : n \in DOMAIN t /\ t[n] = s[n]
  <2>1. s \in Seq(S) /\ e \in S /\ t = Append(s, e)
    BY <1>1, <1>3, <1>4
  <2>2. QED
    BY <2>1, AppendFacts
<1>6. LogsAreHonest'
  <2>1. ASSUME NEW i \in DOMAIN Sinks
        PROVE  logs'[i] \in Seq(EntriesOf(i)')
    <3>1. EntriesOf(i)' = EntriesOf(i)
      BY EntriesGrow
    <3>2. CASE i = at
      BY <1>4, <1>5, <3>1, <3>2
    <3>3. CASE i # at
      <4>1. logs'[i] = logs[i] /\ logs[i] \in Seq(EntriesOf(i))
        BY <1>1, <1>3, <3>3
      <4>2. QED
        BY <3>1, <4>1
    <3>4. QED
      BY <3>2, <3>3
  <2>2. (DOMAIN logs = DOMAIN Sinks /\ \A i \in DOMAIN Sinks : logs[i] \in Seq(EntriesOf(i)))'
    BY <1>1, <1>2, <1>3, <2>1
  <2>3. QED
    BY <2>2 DEF LogsAreHonest, EntriesOf
<1>7. Accumulates
  <2>1. ASSUME NEW i \in DOMAIN Sinks
        PROVE  /\ Len(logs[i]) =< Len(logs'[i])
               /\ \A n \in DOMAIN logs[i] : n \in DOMAIN logs'[i] /\ logs'[i][n] = logs[i][n]
    <3>1. CASE i = at
      <4>1. Len(s) =< Len(t)
        BY <1>5
      <4>2. QED
        BY <1>4, <1>5, <3>1, <4>1
    <3>2. CASE i # at
      <4>1. logs'[i] = logs[i] /\ Len(logs[i]) \in Nat
        BY <1>1, <1>3, <3>2, LogFacts
      <4>2. QED
        BY <4>1
    <3>3. QED
      BY <3>1, <3>2
  <2>2. QED
    BY <2>1 DEF Accumulates
<1>8. QED
  BY <1>4, <1>5, <1>6, <1>7

\* A step at a line sink, by what it must still show.
LEMMA LineHonest ==
  ASSUME Honest, call.at # 0, Sinks[call.at].kind \in {"file", "stdout"}, Accumulates, LogsAreHonest',
         UNCHANGED <<config, todo, boot, seen, held, network, store, results, calls, crashes>>,
         DOMAIN call' = DOMAIN call, call'.at = call.at, call'.batch = call.batch,
         call'.dropped = call.dropped, call'.failed = call.failed, AtLines'
  PROVE  Honest'
<1>1. SeenIsReal /\ NetworkIsHonest /\ StoreIsHonest
  BY DEF Honest
<1>2. SeenIsReal' /\ HeldIsHonest' /\ ResultsAreHonest' /\ Grows
  BY RestGoesOn
<1>3. Sinks[call.at].kind # "vartio"
  OBVIOUS
<1>4. CallIsHonest'
  BY <1>3, CallGoesOn
<1>5. NetworkIsHonest' /\ StoreIsHonest'
  BY <1>1, <1>2, NetworkStays, StoreStays
<1>6. QED
  BY <1>2, <1>4, <1>5 DEF Honest

LEMMA LineStartHonest ==
  ASSUME Honest, LineStart
  PROVE  Honest'
<1>1. SeenIsReal /\ LogsAreHonest
  BY DEF Honest
<1>2. call.at # 0 /\ Sinks[call.at].kind \in {"file", "stdout"}
  BY DEF LineStart, At
<1>3. call.batch \in HonestBatches /\ DOMAIN call = CallFields
  BY <1>2, CallFacts
<1>4. PICK b : b = call.batch
  OBVIOUS
<1>5. encode_ndjson(b) = IdsOf(b)
  BY <1>1, <1>3, <1>4, HonestCounts
<1>6. call' = [call EXCEPT !.stage = "write", !.rest = encode_ndjson(call.batch)]
  BY DEF LineStart
<1>7. /\ DOMAIN call' = DOMAIN call /\ call'.at = call.at /\ call'.batch = b
      /\ call'.dropped = call.dropped /\ call'.failed = call.failed
      /\ call'.stage = "write" /\ call'.rest = IdsOf(b)
  BY <1>3, <1>4, <1>5, <1>6 DEF CallFields
<1>8. AtLines'
  <2>1. IdsOf(call.batch)' = IdsOf(b)
    BY <1>7 DEF IdsOf
  <2>2. QED
    BY <1>7, <2>1 DEF AtLines
<1>9. UNCHANGED <<config, todo, boot, seen, held, network, store, logs, results, calls, crashes>>
  BY DEF LineStart
<1>10. Accumulates /\ LogsAreHonest'
  BY <1>1, <1>9, SameHistory, SameKept, LogsStay
<1>11. QED
  BY <1>2, <1>4, <1>7, <1>8, <1>9, <1>10, LineHonest

LEMMA LineHeadHonest ==
  ASSUME Honest, NEW id, LineHead(id)
  PROVE  Honest'
<1>1. /\ call.at # 0 /\ Sinks[call.at].kind \in {"file", "stdout"} /\ call.stage = "write"
      /\ FirstOf(call.rest, id)
  BY DEF LineHead, At
<1>2. /\ DOMAIN call = CallFields /\ call.at \in DOMAIN Sinks /\ IdsOf(call.batch) \subseteq Ids
      /\ AtLines
  BY <1>1, CallFacts
<1>3. PICK at, b, rest, e : /\ at = call.at /\ b = call.batch /\ rest = call.rest
                            /\ e = [id |-> id, part |-> "head"]
  OBVIOUS
<1>4. /\ call' = [call EXCEPT !.stage = "line"]
      /\ logs' = [logs EXCEPT ![at] = Append(@, e)]
      /\ UNCHANGED <<config, todo, boot, seen, held, network, store, results, calls, crashes>>
  BY <1>3 DEF LineHead
<1>5. /\ DOMAIN call' = DOMAIN call /\ call'.at = at /\ call'.batch = b
      /\ call'.dropped = call.dropped /\ call'.failed = call.failed
      /\ call'.stage = "line" /\ call'.rest = rest
  BY <1>2, <1>3, <1>4 DEF CallFields
<1>6. /\ rest \subseteq IdsOf(b) /\ id \in rest /\ FirstOf(rest, id)
      /\ \A other \in IdsOf(b) \ rest : KeptBy(at, other)
  BY <1>1, <1>2, <1>3 DEF AtLines, FirstOf
<1>7. e \in EntriesOf(at)
  BY <1>1, <1>2, <1>3, <1>6 DEF EntriesOf
<1>8. /\ Accumulates /\ LogsAreHonest' /\ Len(logs[at]) \in Nat /\ Len(logs'[at]) = Len(logs[at]) + 1
      /\ DOMAIN logs'[at] = 1..Len(logs[at]) + 1
      /\ logs'[at][Len(logs[at]) + 1] = e
  <2>1. at \in DOMAIN Sinks /\ UNCHANGED <<config, seen, store>>
    BY <1>2, <1>3, <1>4
  <2>2. logs' = [logs EXCEPT ![at] = Append(@, e)]
    BY <1>4
  <2>3. QED
    BY <1>7, <2>1, <2>2, LogGrows, Zenon
<1>9. AtLines'
  <2>1. IdsOf(call.batch)' = IdsOf(b)
    BY <1>5 DEF IdsOf
  <2>2. LogsAreHonest /\ Grows
    BY <1>4, SameHistory DEF Honest
  <2>3. \A other \in IdsOf(b) \ rest : KeptBy(at, other)'
    BY <1>2, <1>3, <1>6, <1>8, <2>2, KeptGrows
  <2>4. logs'[at] # <<>> /\ logs'[at][Len(logs'[at])] = [id |-> id, part |-> "head"]
    BY <1>3, <1>8
  <2>5. \A other \in IdsOf(call.batch)' \ call'.rest : KeptBy(call.at, other)'
    BY <1>5, <2>1, <2>3
  <2>6. QED
    BY <1>5, <1>6, <2>1, <2>4, <2>5 DEF AtLines
<1>10. QED
  BY <1>1, <1>3, <1>4, <1>5, <1>8, <1>9, LineHonest

LEMMA LineTailHonest ==
  ASSUME Honest, NEW id, LineTail(id)
  PROVE  Honest'
<1>1. /\ call.at # 0 /\ Sinks[call.at].kind \in {"file", "stdout"} /\ call.stage = "line"
      /\ FirstOf(call.rest, id)
  BY DEF LineTail, At
<1>2. /\ DOMAIN call = CallFields /\ call.at \in DOMAIN Sinks /\ IdsOf(call.batch) \subseteq Ids
      /\ AtLines
  BY <1>1, CallFacts
<1>3. PICK at, b, rest, e : /\ at = call.at /\ b = call.batch /\ rest = call.rest
                            /\ e = [id |-> id, part |-> "tail"]
  OBVIOUS
<1>4. /\ call' = [call EXCEPT !.stage = "write", !.rest = @ \ {id}]
      /\ logs' = [logs EXCEPT ![at] = Append(@, e)]
      /\ UNCHANGED <<config, todo, boot, seen, held, network, store, results, calls, crashes>>
  BY <1>3 DEF LineTail
<1>5. /\ DOMAIN call' = DOMAIN call /\ call'.at = at /\ call'.batch = b
      /\ call'.dropped = call.dropped /\ call'.failed = call.failed
      /\ call'.stage = "write" /\ call'.rest = rest \ {id}
  BY <1>2, <1>3, <1>4 DEF CallFields
<1>6. /\ rest \subseteq IdsOf(b) /\ id \in rest /\ FirstOf(rest, id)
      /\ \A other \in IdsOf(b) \ rest : KeptBy(at, other)
  BY <1>1, <1>2, <1>3 DEF AtLines, FirstOf
<1>7. e \in EntriesOf(at)
  BY <1>1, <1>2, <1>3, <1>6 DEF EntriesOf
<1>8. /\ Accumulates /\ LogsAreHonest' /\ Len(logs[at]) \in Nat /\ Len(logs'[at]) = Len(logs[at]) + 1
      /\ DOMAIN logs[at] = 1..Len(logs[at])
      /\ logs'[at][Len(logs[at]) + 1] = e
      /\ \A n \in DOMAIN logs[at] : logs'[at][n] = logs[at][n]
  <2>1. at \in DOMAIN Sinks /\ UNCHANGED <<config, seen, store>>
    BY <1>2, <1>3, <1>4
  <2>2. logs' = [logs EXCEPT ![at] = Append(@, e)]
    BY <1>4
  <2>3. QED
    BY <1>7, <2>1, <2>2, LogGrows, Zenon
<1>9. SeenIsReal /\ LogsAreHonest /\ Grows
  BY <1>4, SameHistory DEF Honest
\* The head of this line was written last, so the line is whole.
<1>10. logs[at] # <<>> /\ logs[at][Len(logs[at])] = [id |-> id, part |-> "head"]
  <2>1. PICK first \in rest : /\ FirstOf(rest, first) /\ logs[at] # <<>>
                              /\ logs[at][Len(logs[at])] = [id |-> first, part |-> "head"]
    BY <1>1, <1>2, <1>3 DEF AtLines
  <2>2. rest \subseteq Nat
    BY <1>2, <1>3, <1>6, <1>9, SeenFacts
  <2>3. first =< id /\ id =< first
    BY <1>6, <2>1 DEF FirstOf
  <2>4. first = id
    BY <1>6, <2>1, <2>2, <2>3
  <2>5. QED
    BY <2>1, <2>4
<1>11. KeptBy(at, id)'
  <2>1. PICK n, s, t : n = Len(logs[at]) /\ s = logs[at] /\ t = logs'[at]
    OBVIOUS
  <2>2. PICK S : s \in Seq(S)
    BY <1>2, <1>3, <1>9, <2>1, LogFacts
  <2>3. Len(s) # 0
    BY <1>10, <2>1, <2>2, EmptySeq
  <2>4. n \in Nat /\ n # 0 /\ Len(t) = n + 1 /\ n \in DOMAIN s
    BY <1>8, <2>1, <2>3
  <2>5. n \in 1..Len(t) - 1
    BY <2>4
  <2>6. t[n] = [id |-> id, part |-> "head"] /\ t[n + 1] = [id |-> id, part |-> "tail"]
    BY <1>3, <1>8, <1>10, <2>1, <2>4
  <2>7. Sinks'[at].kind \in {"file", "stdout"}
    BY <1>1, <1>3, <1>9, GrowsSinks
  <2>8. \E m \in 1..Len(logs'[at]) - 1 : /\ logs'[at][m] = [id |-> id, part |-> "head"]
                                         /\ logs'[at][m + 1] = [id |-> id, part |-> "tail"]
    BY <2>1, <2>5, <2>6
  <2>9. QED
    BY <2>7, <2>8 DEF KeptBy
<1>12. AtLines'
  <2>1. IdsOf(call.batch)' = IdsOf(b)
    BY <1>5 DEF IdsOf
  <2>2. \A other \in IdsOf(b) \ rest : KeptBy(at, other)'
    BY <1>2, <1>3, <1>6, <1>8, <1>9, KeptGrows
  <2>3. \A other \in IdsOf(call.batch)' \ call'.rest : KeptBy(call.at, other)'
    BY <1>5, <1>11, <2>1, <2>2
  <2>4. QED
    BY <1>5, <1>6, <2>1, <2>3 DEF AtLines
<1>13. QED
  BY <1>1, <1>3, <1>4, <1>5, <1>8, <1>12, LineHonest

LEMMA LineFlushHonest ==
  ASSUME Honest, LineFlush
  PROVE  Honest'
<1>1. /\ call.at # 0 /\ Sinks[call.at].kind \in {"file", "stdout"} /\ call.stage = "write"
      /\ call.rest = {} /\ Returns("Ok", 0)
      /\ UNCHANGED <<config, todo, boot, seen, network, store, logs, calls, crashes>>
  BY DEF LineFlush, At
<1>2. call.at \in DOMAIN Sinks /\ call.batch \in HonestBatches /\ AtLines /\ SeenIsReal
  BY <1>1, CallFacts DEF Honest
<1>3. PICK at, b : at = call.at /\ b = call.batch
  OBVIOUS
<1>4. \A id \in IdsOf(b) : KeptBy(at, id)
  BY <1>1, <1>2, <1>3 DEF AtLines
<1>5. Earned(at, IdsOf(b), 0)
  BY <1>1, <1>2, <1>3, <1>4, LinesEarned
<1>6. QED
  BY <1>1, <1>3, <1>5, AnswerHonest

LEMMA LineFailsHonest ==
  ASSUME Honest, LineFails
  PROVE  Honest'
<1>1. /\ call.at # 0 /\ Returns("Unavailable", 0)
      /\ UNCHANGED <<config, todo, boot, seen, network, store, logs, calls, crashes>>
  BY DEF LineFails, At
<1>2. QED
  BY <1>1, AnswerHonest

LEMMA PipelineFailsHonest ==
  ASSUME Honest, NEW error \in PipelineErrors, PipelineFails(error)
  PROVE  Honest'
<1>1. /\ call.at # 0 /\ Returns(error, 0) /\ error # "Ok"
      /\ UNCHANGED <<config, todo, boot, seen, network, store, logs, calls, crashes>>
  BY DEF PipelineFails, At, PipelineErrors
<1>2. QED
  BY <1>1, AnswerHonest

LEMMA PipelinePostHonest ==
  ASSUME Honest, PipelinePost
  PROVE  Honest'
<1>1. call.at # 0 /\ Sinks[call.at].kind = "pipeline"
  BY DEF PipelinePost, At
<1>2. /\ SeenIsReal /\ HeldIsHonest /\ NetworkIsHonest /\ StoreIsHonest /\ LogsAreHonest
      /\ CallIsHonest /\ ResultsAreHonest
  BY DEF Honest
<1>3. /\ call.at \in DOMAIN Sinks /\ call.batch \in HonestBatches /\ IdsOf(call.batch) \subseteq Ids
  BY <1>1, CallFacts
<1>4. PICK at, b, projected, dropped :
        /\ at = call.at /\ b = call.batch /\ projected = into_plane_b_projection(b)
        /\ dropped = Cardinality(b.records) - Cardinality(projected)
  OBVIOUS
<1>5. PICK rejected \in SUBSET projected :
        /\ logs' = [logs EXCEPT ![at] = Append(@, {occ.id : occ \in projected \ rejected})]
        /\ Returns(IF rejected # {} THEN "PartialFailure" ELSE "Ok", dropped)
  BY <1>4, Zenon DEF PipelinePost
<1>6. UNCHANGED <<config, todo, boot, seen, network, store, calls, crashes>>
  BY Zenon DEF PipelinePost
<1>7. PICK answer, e : /\ answer = IF rejected # {} THEN "PartialFailure" ELSE "Ok"
                       /\ e = {occ.id : occ \in projected \ rejected}
  OBVIOUS
<1>8. Returns(answer, dropped)
  BY <1>5, <1>7, Zenon
<1>9. PICK ids : ids = IdsOf(b)
  OBVIOUS
<1>10. /\ projected = {TheOccurrence(id) : id \in {x \in ids : Projected(x)}}
       /\ Cardinality(projected) = Cardinality({x \in ids : Projected(x)})
       /\ Cardinality(b.records) = Cardinality(ids)
       /\ ids \subseteq Ids /\ IsFiniteSet(ids)
  BY <1>2, <1>3, <1>4, <1>9, HonestCounts, HonestFacts
<1>11. \A id \in ids : TheOccurrence(id).id = id
  BY <1>2, <1>10, IdFacts
<1>12. /\ e \subseteq {x \in Ids : Projected(x)}
       /\ rejected = {} => e = {x \in ids : Projected(x)}
  BY <1>7, <1>10, <1>11
<1>13. e \in EntriesOf(at)
  BY <1>1, <1>4, <1>12 DEF EntriesOf
<1>14. /\ Accumulates /\ LogsAreHonest' /\ Len(logs[at]) \in Nat
       /\ DOMAIN logs'[at] = 1..Len(logs[at]) + 1
       /\ logs'[at][Len(logs[at]) + 1] = e
  <2>1. at \in DOMAIN Sinks /\ UNCHANGED <<config, seen, store>>
    BY <1>3, <1>4, <1>6
  <2>2. logs' = [logs EXCEPT ![at] = Append(@, e)]
    BY <1>5, <1>7, Zenon
  <2>3. QED
    BY <1>13, <2>1, <2>2, LogGrows, Zenon
<1>15. SeenIsReal' /\ Grows
  <2>1. calls' \in Nat
    BY <1>2, <1>6 DEF SeenIsReal
  <2>2. QED
    BY <1>2, <1>6, <2>1, SeenStays, SameHistory
<1>16. Sinks' = Sinks
  BY <1>15, GrowsSinks
<1>17. ASSUME answer = "Ok"
       PROVE  Earned(at, ids, dropped)'
  <2>1. e = {x \in ids : Projected(x)}
    BY <1>7, <1>12, <1>17
  <2>2. SecondaryDone(at, ids)'
    BY <1>1, <1>4, <1>16 DEF SecondaryDone
  <2>3. ASSUME at = 1
        PROVE  PrimaryDone(ids, dropped)'
    <3>1. \A id \in ids : Passes(1, id)' <=> Projected(id)
      <4>1. \A id \in ids : Passes(1, id)' <=> Passes(1, id)
        BY <1>10, <1>15, GrowsPasses
      <4>2. \A id \in ids : Passes(1, id) <=> Projected(id)
        BY <1>1, <1>4, <2>3 DEF Passes
      <4>3. QED
        BY <4>1, <4>2
    <3>2. {id \in ids : Passes(1, id)'} = {x \in ids : Projected(x)}
      BY <3>1
    <3>3. PICK p : p = {x \in ids : Projected(x)}
      OBVIOUS
    <3>4. p \subseteq ids /\ dropped = Cardinality(ids) - Cardinality(p)
      BY <1>4, <1>10, <3>3
    <3>5. Cardinality(ids) \in Nat /\ Cardinality(p) \in Nat
      BY <1>10, <3>4, FS_Subset, FS_CardinalityType
    <3>6. dropped \in Int /\ Cardinality(p) + dropped = Cardinality(ids)
      BY <3>4, <3>5
    <3>7. ASSUME NEW id \in ids, Passes(1, id)'
          PROVE  KeptBy(1, id)'
      <4>1. PICK n : n = Len(logs[at]) + 1
        OBVIOUS
      <4>2. n \in DOMAIN logs'[at] /\ id \in logs'[at][n]
        BY <1>14, <2>1, <3>1, <3>7, <4>1
      <4>3. Sinks'[1].kind = "pipeline"
        BY <1>1, <1>4, <1>16, <2>3
      <4>4. QED
        BY <2>3, <4>2, <4>3 DEF KeptBy
    <3>8. QED
      BY <3>2, <3>3, <3>6, <3>7 DEF PrimaryDone
  <2>4. QED
    BY <2>2, <2>3 DEF Earned
<1>18. answer = "Ok" => Earned(at, IdsOf(b), dropped)'
  BY <1>9, <1>17 DEF IdsOf
<1>19. HeldIsHonest' /\ CallIsHonest' /\ ResultsAreHonest' /\ (call'.at # 0 => call'.batch = b)
  BY <1>1, <1>2, <1>4, <1>6, <1>8, <1>14, <1>15, <1>18, SinkAnswers
<1>20. NetworkIsHonest' /\ StoreIsHonest'
  BY <1>1, <1>2, <1>4, <1>6, <1>15, <1>19, NetworkStays, StoreStays
<1>21. QED
  BY <1>14, <1>15, <1>19, <1>20 DEF Honest

LEMMA StutterHonest ==
  ASSUME Honest, UNCHANGED vars
  PROVE  Honest'
<1>1. SeenIsReal /\ NetworkIsHonest /\ StoreIsHonest /\ LogsAreHonest /\ CallIsHonest
  BY DEF Honest
<1>2. /\ network' \subseteq network
      /\ UNCHANGED <<config, todo, boot, seen, held, call, store, logs, results, calls, crashes>>
  BY DEF vars
<1>3. Accumulates
  BY <1>1, <1>2, SameKept
<1>4. SeenIsReal' /\ HeldIsHonest' /\ LogsAreHonest' /\ ResultsAreHonest' /\ Grows
  BY <1>2, <1>3, RestStays
<1>5. call.at # 0 => held' # <<>>
  BY <1>1, <1>2 DEF CallIsHonest
<1>6. CallIsHonest' /\ NetworkIsHonest' /\ StoreIsHonest'
  BY <1>1, <1>2, <1>3, <1>4, <1>5, CallStays, NetworkStays, StoreStays
<1>7. QED
  BY <1>4, <1>6 DEF Honest

\* Every batch the loop holds, every request on the wire, every item Vartio keeps
\* and every line written is what the normaliser, the projection and the wire shape
\* make of one observation, under the boot it was seen in; and a call under way, or
\* one that returned Ok, has put where the sink keeps it all that it did not count
\* as left out (append_batch of VartioSink, FileSink, StdoutSink, PipelineSink and
\* CompositeSink, over splits, resends, late answers and restarts).
THEOREM AlwaysHonest == Spec => []Honest
<1>1. Init => Honest
  BY HonestInit
<1>2. Honest /\ [Next]_vars => Honest'
  <2>1. SUFFICES ASSUME Honest, [Next]_vars PROVE Honest'
    OBVIOUS
  <2>2. CASE UNCHANGED vars
    BY <2>1, <2>2, StutterHonest
  <2>3. CASE Collect
    BY <2>1, <2>3, CollectHonest
  <2>4. CASE Send
    BY <2>1, <2>4, SendHonest
  <2>5. CASE VartioStart
    BY <2>1, <2>5, VartioStartHonest
  <2>6. CASE VartioAnswered
    BY <2>1, <2>6, VartioAnsweredHonest
  <2>7. ASSUME NEW r \in network, Lose(r) PROVE Honest'
    BY <2>1, <2>7, LoseHonest
  <2>8. ASSUME NEW r \in network, NEW v \in [r.items -> Verdicts], Receive(r, v) PROVE Honest'
    BY <2>1, <2>8, ReceiveHonest
  <2>9. ASSUME NEW status \in Refusals, Refuse(status) PROVE Honest'
    BY <2>1, <2>9, RefuseHonest
  <2>10. ASSUME NEW status \in {"DeadlineExceeded", "Unavailable"}, GiveUp(status) PROVE Honest'
    BY <2>1, <2>10, GiveUpHonest
  <2>11. CASE LineStart
    BY <2>1, <2>11, LineStartHonest
  <2>12. CASE LineFlush
    BY <2>1, <2>12, LineFlushHonest
  <2>13. CASE LineFails
    BY <2>1, <2>13, LineFailsHonest
  <2>14. ASSUME NEW id \in call.rest, LineHead(id) PROVE Honest'
    BY <2>1, <2>14, LineHeadHonest
  <2>15. ASSUME NEW id \in call.rest, LineTail(id) PROVE Honest'
    BY <2>1, <2>15, LineTailHonest
  <2>16. CASE PipelinePost
    BY <2>1, <2>16, PipelinePostHonest
  <2>17. ASSUME NEW error \in PipelineErrors, PipelineFails(error) PROVE Honest'
    BY <2>1, <2>17, PipelineFailsHonest
  <2>18. CASE Restart
    BY <2>1, <2>18, RestartHonest
  <2>19. QED
    BY <2>1, <2>2, <2>3, <2>4, <2>5, <2>6, <2>7, <2>8, <2>9, <2>10, <2>11, <2>12, <2>13, <2>14,
       <2>15, <2>16, <2>17, <2>18, Zenon DEF Next
<1>3. QED
  BY <1>1, <1>2, PTL DEF Spec

\* A record is kept under the one key its id has, whatever call, process or boot
\* sent it: idempotency_key names no attempt.
THEOREM DeliveredStoredOnce == Spec => []StoredOnce
<1>1. ASSUME Honest
      PROVE  StoredOnce
  <2>1. SeenIsReal /\ StoreIsHonest
    BY <1>1 DEF Honest
  <2>2. ASSUME NEW k \in DOMAIN store, NEW l \in DOMAIN store, store[k].event_id = store[l].event_id
        PROVE  k = l
    <3>1. PICK id \in Ids : k = TheKey(id) /\ store[k] = TheItem(id)
      BY <2>1 DEF StoreIsHonest
    <3>2. PICK other \in Ids : l = TheKey(other) /\ store[l] = TheItem(other)
      BY <2>1 DEF StoreIsHonest
    <3>3. store[k].event_id = id /\ store[l].event_id = other
      BY <2>1, <3>1, <3>2, IdFacts
    <3>4. QED
      BY <2>2, <3>1, <3>2, <3>3
  <2>3. QED
    BY <2>2 DEF StoredOnce
<1>2. QED
  BY <1>1, AlwaysHonest, PTL

\* What a sink keeps is what it may take.
LEMMA KeptPasses ==
  ASSUME SeenIsReal, StoreIsHonest, LogsAreHonest, NEW i \in DOMAIN Sinks, NEW id, KeptBy(i, id)
  PROVE  Passes(i, id)
<1>1. CASE Sinks[i].kind = "vartio"
  <2>1. PICK k \in DOMAIN store : store[k].event_id = id
    BY <1>1 DEF KeptBy, Items
  <2>2. PICK other \in Ids : Sent(other) /\ store[k] = TheItem(other)
    BY <2>1 DEF StoreIsHonest
  <2>3. other = id
    BY <2>1, <2>2, IdFacts
  <2>4. QED
    BY <1>1, <2>2, <2>3 DEF Passes
<1>2. CASE Sinks[i].kind = "pipeline"
  <2>1. PICK n \in DOMAIN logs[i] : id \in logs[i][n]
    BY <1>2 DEF KeptBy
  <2>2. PICK S : S = {x \in Ids : Projected(x)}
    OBVIOUS
  <2>3. logs[i] \in Seq(SUBSET S)
    BY <1>2, <2>2 DEF LogsAreHonest
  <2>4. logs[i][n] \in SUBSET S
    BY <2>1, <2>3, SequenceFacts
  <2>5. Projected(id)
    BY <2>1, <2>2, <2>4
  <2>6. QED
    BY <1>2, <2>5 DEF Passes
<1>3. CASE Sinks[i].kind # "vartio" /\ Sinks[i].kind # "pipeline"
  BY <1>3 DEF Passes
<1>4. QED
  BY <1>1, <1>2, <1>3

\* An Ok of append_batch is earned: the primary keeps every record of the batch but
\* the number its warnings own up to, and each file or stdout secondary that is not
\* named as failed keeps them all.
THEOREM DeliveredSettledIsStored == Spec => []SettledIsStored
<1>1. ASSUME Honest
      PROVE  SettledIsStored
  <2>1. SeenIsReal /\ StoreIsHonest /\ LogsAreHonest /\ ResultsAreHonest
    BY <1>1 DEF Honest
  <2>2. 1 \in DOMAIN Sinks /\ Len(Sinks) \in Nat
    BY <2>1, SinkFacts
  <2>3. ASSUME NEW r \in results, r.as = "Ok"
        PROVE  /\ Cardinality({id \in r.ids : KeptBy(1, id)}) + r.dropped = Cardinality(r.ids)
               /\ \A i \in 2..Len(Sinks) : i \notin r.failed /\ Sinks[i].kind \in {"file", "stdout"} =>
                    \A id \in r.ids : KeptBy(i, id)
    <3>1. r.ids \subseteq Ids /\ Done(r.ids, r.dropped, r.failed, Len(Sinks))
      BY <2>1, <2>3 DEF ResultsAreHonest
    <3>2. PICK ids, dropped, failed : ids = r.ids /\ dropped = r.dropped /\ failed = r.failed
      OBVIOUS
    <3>3. /\ PrimaryDone(ids, dropped)
          /\ \A j \in 2..Len(Sinks) : j \notin failed => SecondaryDone(j, ids)
      BY <3>1, <3>2 DEF Done
    <3>4. {id \in ids : KeptBy(1, id)} = {id \in ids : Passes(1, id)}
      BY <2>1, <2>2, <3>3, KeptPasses DEF PrimaryDone
    <3>5. Cardinality({id \in ids : KeptBy(1, id)}) + dropped = Cardinality(ids)
      BY <3>3, <3>4 DEF PrimaryDone
    <3>6. QED
      BY <3>2, <3>3, <3>5 DEF SecondaryDone
  <2>4. QED
    BY <2>3 DEF SettledIsStored
<1>2. QED
  BY <1>1, AlwaysHonest, PTL

-----------------------------------------------------------------------------
(* What the record of a kernel observation says, whatever its kind. *)

KernelProcess(x, o) ==
  x.process = [pid |-> o.tgid,
               ppid |-> IF o.kind = "ProcessExec" /\ o.offsets /\ o.ppid # 0 THEN o.ppid ELSE None,
               command |-> Str(IF o.kind = "ProcessExec" THEN o.path.head ELSE o.comm),
               uid |-> IF o.kind \in Tcp THEN None ELSE o.uid]

KernelNetwork(x, o) ==
  /\ x.network = Unset <=> o.kind \notin Tcp
  /\ o.kind \in Tcp =>
       /\ x.network.src_ip = Address(o.src, o.family) /\ x.network.dst_ip = Address(o.dst, o.family)
       /\ x.network.dst_port = o.dst_port
       /\ o.kind # "TcpClose" => x.network.src_port = o.src_port

KernelOutcome(x, o) ==
  x.outcome = IF o.ret < 0 \/ o.kind = "TcpRetransmit" THEN "failure" ELSE "success"

\* The labels the normalisers write.
KernelLabelNames ==
  {"result", "flags", "cgroup_id", "coverage", "resource_ref_kind", "resource_ref_id", "errno",
   "errno_num", "requested_path", "path_resolution", "netns", "tcp_state"}
    \cup ExecLabels \cup LifetimeLabels

KernelLabels(l, o) ==
  /\ DOMAIN l \subseteq KernelLabelNames
  /\ "errno_num" \in DOMAIN l <=> o.ret < 0
  /\ o.ret < 0 => l.errno_num = Dec(o.ret)
  /\ "requested_path" \in DOMAIN l <=> o.kind = "FileOpenAttempt"
  /\ o.kind = "FileOpenAttempt" => l.requested_path = Str(o.path.head)

KernelReference(l, o) ==
  /\ "resource_ref_kind" \in DOMAIN l <=> o.kind \in {"FileOpen", "ProcessExec"}
  /\ o.kind = "FileOpen" => l.resource_ref_kind = "file"
  /\ o.kind = "ProcessExec" => l.resource_ref_kind = "executable"
  /\ o.kind \in {"FileOpen", "ProcessExec"} =>
       "resource_ref_id" \in DOMAIN l /\ l.resource_ref_id = Str(o.path.head)

KernelLifetime(l, o) ==
  /\ "runtime_identity_method" \in DOMAIN l <=> o.kind = "ProcessExec" /\ o.offsets
  /\ o.kind = "ProcessExec" /\ o.offsets =>
       /\ {"host_tgid", "leader_start_boottime_ns"} \subseteq DOMAIN l
       /\ l.runtime_identity_method = "task_start_boottime_btf_v1"
       /\ l.host_tgid = Dec(o.tgid) /\ l.leader_start_boottime_ns = Dec(o.start)

KernelRecord(r, o, id) ==
  /\ IsOccurrence(r.occurrence) /\ r.occurrence.id = id /\ r.occurrence.type \notin AgentTypes
  /\ r.observed_at_ns = o.time /\ r.binding = o.binding /\ DOMAIN r.probe = ProbeFields
  /\ KernelProcess(r.occurrence, o) /\ KernelNetwork(r.occurrence, o)
  /\ KernelOutcome(r.occurrence, o)
  /\ KernelLabels(r.occurrence.labels, o) /\ KernelReference(r.occurrence.labels, o)
  /\ KernelLifetime(r.occurrence.labels, o)

LEMMA FileOpenFacts ==
  ASSUME NEW o, o.kind = "FileOpen", IsHappening(o), NEW id
  PROVE  KernelRecord(RecordOf(o, id), o, id)
<1>1. PICK r, x, l : r = RecordOf(o, id) /\ x = r.occurrence /\ l = x.labels
  OBVIOUS
<1>2. /\ IsRecord(r, id, "kernel.file.open", o.time, o.binding)
      /\ x.process = [pid |-> o.tgid, ppid |-> None, command |-> Str(o.comm), uid |-> o.uid]
      /\ x.network = Unset
      /\ x.outcome = IF o.ret < 0 THEN "failure" ELSE "success"
      /\ DOMAIN l = {"result", "flags", "cgroup_id", "coverage", "resource_ref_kind",
                     "resource_ref_id"} \cup (IF o.ret < 0 THEN {"errno", "errno_num"} ELSE {})
      /\ l.resource_ref_kind = "file" /\ l.resource_ref_id = Str(o.path.head)
      /\ o.ret < 0 => l.errno_num = Dec(o.ret)
  BY <1>1, FileOpenShape
<1>3. o.kind \notin Tcp /\ o.kind # "ProcessExec"
  BY DEF Tcp
<1>4. KernelProcess(x, o) /\ KernelNetwork(x, o) /\ KernelOutcome(x, o)
  BY <1>2, <1>3 DEF KernelProcess, KernelNetwork, KernelOutcome
<1>5. KernelLabels(l, o)
  BY <1>2 DEF KernelLabels, KernelLabelNames
<1>6. KernelReference(l, o)
  BY <1>2 DEF KernelReference
<1>7. KernelLifetime(l, o)
  BY <1>2 DEF KernelLifetime
<1>8. QED
  BY <1>1, <1>2, <1>4, <1>5, <1>6, <1>7 DEF KernelRecord, IsRecord, AgentTypes

LEMMA AttemptFacts ==
  ASSUME NEW o, o.kind = "FileOpenAttempt", IsHappening(o), NEW id
  PROVE  KernelRecord(RecordOf(o, id), o, id)
<1>1. PICK r, x, l : r = RecordOf(o, id) /\ x = r.occurrence /\ l = x.labels
  OBVIOUS
<1>2. /\ IsRecord(r, id, "kernel.file.open_attempt", o.time, o.binding)
      /\ x.process = [pid |-> o.tgid, ppid |-> None, command |-> Str(o.comm), uid |-> o.uid]
      /\ x.network = Unset /\ x.outcome = "failure"
      /\ DOMAIN l = {"result", "cgroup_id", "requested_path", "path_resolution", "errno", "errno_num"}
      /\ l.requested_path = Str(o.path.head) /\ l.errno_num = Dec(o.ret)
  BY <1>1, AttemptShape
<1>3. o.kind \notin Tcp /\ o.kind # "ProcessExec" /\ o.ret < 0
  BY ReturnFacts DEF Tcp
<1>4. KernelProcess(x, o) /\ KernelNetwork(x, o) /\ KernelOutcome(x, o)
  BY <1>2, <1>3 DEF KernelProcess, KernelNetwork, KernelOutcome
<1>5. KernelLabels(l, o)
  BY <1>2, <1>3 DEF KernelLabels, KernelLabelNames
<1>6. KernelReference(l, o)
  BY <1>2 DEF KernelReference
<1>7. KernelLifetime(l, o)
  BY <1>2 DEF KernelLifetime
<1>8. QED
  BY <1>1, <1>2, <1>4, <1>5, <1>6, <1>7 DEF KernelRecord, IsRecord, AgentTypes

LEMMA ExecFacts ==
  ASSUME NEW o, o.kind = "ProcessExec", IsHappening(o), NEW id
  PROVE  KernelRecord(RecordOf(o, id), o, id)
<1>1. PICK r, x, l : r = RecordOf(o, id) /\ x = r.occurrence /\ l = x.labels
  OBVIOUS
<1>2. /\ IsRecord(r, id, "kernel.process.exec", o.time, o.binding)
      /\ x.process = [pid |-> o.tgid,
                      ppid |-> IF o.offsets /\ o.ppid # 0 THEN o.ppid ELSE None,
                      command |-> Str(o.path.head), uid |-> o.uid]
      /\ x.network = Unset /\ x.outcome = "success"
      /\ DOMAIN l = ExecLabels \cup (IF o.offsets THEN LifetimeLabels ELSE {})
      /\ l.resource_ref_kind = "executable" /\ l.resource_ref_id = Str(o.path.head)
      /\ l.host_tgid = Dec(o.tgid)
      /\ o.offsets => /\ l.leader_start_boottime_ns = Dec(o.start)
                      /\ l.runtime_identity_method = "task_start_boottime_btf_v1"
  BY <1>1, ExecShape
<1>3. o.kind \notin Tcp /\ ~(o.ret < 0)
  BY ReturnFacts DEF Tcp
<1>4. KernelProcess(x, o) /\ KernelNetwork(x, o) /\ KernelOutcome(x, o)
  BY <1>2, <1>3 DEF KernelProcess, KernelNetwork, KernelOutcome
<1>5. KernelLabels(l, o)
  BY <1>2, <1>3 DEF KernelLabels, KernelLabelNames, ExecLabels, LifetimeLabels
<1>6. KernelReference(l, o)
  BY <1>2 DEF KernelReference, ExecLabels
<1>7. KernelLifetime(l, o)
  <2>1. CASE o.offsets
    BY <1>2, <2>1 DEF KernelLifetime, ExecLabels, LifetimeLabels
  <2>2. CASE ~o.offsets
    <3>1. "runtime_identity_method" \notin DOMAIN l
      BY <1>2, <2>2 DEF ExecLabels
    <3>2. QED
      BY <2>2, <3>1 DEF KernelLifetime
  <2>3. QED
    BY <2>1, <2>2
<1>8. QED
  BY <1>1, <1>2, <1>4, <1>5, <1>6, <1>7 DEF KernelRecord, IsRecord, AgentTypes

LEMMA TcpFacts ==
  ASSUME NEW o, o.kind \in Tcp, IsHappening(o), NEW id
  PROVE  KernelRecord(RecordOf(o, id), o, id)
<1>1. PICK r, x, l : r = RecordOf(o, id) /\ x = r.occurrence /\ l = x.labels
  OBVIOUS
<1>2. \E type \in {"kernel.tcp.connect", "kernel.tcp.close", "kernel.tcp.retransmit"}, port \in {0, o.src_port} :
        /\ IsRecord(r, id, type, o.time, o.binding) /\ TcpBase(x, o, id, type, port)
        /\ o.kind # "TcpClose" => port = o.src_port
        /\ x.outcome = IF o.ret < 0 \/ o.kind = "TcpRetransmit" THEN "failure" ELSE "success"
        /\ DOMAIN l \subseteq {"cgroup_id", "netns", "errno_num", "tcp_state"}
        /\ "errno_num" \in DOMAIN l <=> o.ret < 0
        /\ o.ret < 0 => l.errno_num = Dec(o.ret)
  <2>1. CASE o.kind = "TcpConnect"
    <3>1. /\ IsRecord(r, id, "kernel.tcp.connect", o.time, o.binding)
          /\ TcpBase(x, o, id, "kernel.tcp.connect", o.src_port)
          /\ x.outcome = IF o.ret < 0 THEN "failure" ELSE "success"
          /\ DOMAIN l = {"cgroup_id", "netns"} \cup (IF o.ret < 0 THEN {"errno_num"} ELSE {})
          /\ o.ret < 0 => l.errno_num = Dec(o.ret)
      BY <1>1, <2>1, ConnectShape
    <3>2. QED
      BY <2>1, <3>1
  <2>2. CASE o.kind = "TcpClose"
    <3>1. /\ IsRecord(r, id, "kernel.tcp.close", o.time, o.binding)
          /\ TcpBase(x, o, id, "kernel.tcp.close", 0)
          /\ x.outcome = "success" /\ DOMAIN l = {"cgroup_id", "netns"}
      BY <1>1, <2>2, CloseShape
    <3>2. ~(o.ret < 0)
      BY <2>2, ReturnFacts
    <3>3. QED
      BY <2>2, <3>1, <3>2
  <2>3. CASE o.kind = "TcpRetransmit"
    <3>1. /\ IsRecord(r, id, "kernel.tcp.retransmit", o.time, o.binding)
          /\ TcpBase(x, o, id, "kernel.tcp.retransmit", o.src_port)
          /\ x.outcome = "failure" /\ DOMAIN l = {"cgroup_id", "netns", "tcp_state"}
      BY <1>1, <2>3, RetransmitShape
    <3>2. ~(o.ret < 0)
      BY <2>3, ReturnFacts
    <3>3. QED
      BY <2>3, <3>1, <3>2
  <2>4. QED
    BY <2>1, <2>2, <2>3 DEF Tcp
<1>3. PICK type \in {"kernel.tcp.connect", "kernel.tcp.close", "kernel.tcp.retransmit"}, port \in {0, o.src_port} :
        /\ IsRecord(r, id, type, o.time, o.binding) /\ TcpBase(x, o, id, type, port)
        /\ o.kind # "TcpClose" => port = o.src_port
        /\ x.outcome = IF o.ret < 0 \/ o.kind = "TcpRetransmit" THEN "failure" ELSE "success"
        /\ DOMAIN l \subseteq {"cgroup_id", "netns", "errno_num", "tcp_state"}
        /\ "errno_num" \in DOMAIN l <=> o.ret < 0
        /\ o.ret < 0 => l.errno_num = Dec(o.ret)
  BY <1>2
<1>4. o.kind \notin {"ProcessExec", "FileOpen", "FileOpenAttempt"}
  BY DEF Tcp
<1>5. KernelProcess(x, o)
  BY <1>3, <1>4 DEF KernelProcess, TcpBase
<1>6. KernelNetwork(x, o)
  BY <1>3 DEF KernelNetwork, TcpBase
<1>7. KernelLabels(l, o)
  BY <1>3, <1>4 DEF KernelLabels, KernelLabelNames
<1>8. KernelReference(l, o) /\ KernelLifetime(l, o)
  BY <1>3, <1>4 DEF KernelReference, KernelLifetime
<1>9. KernelOutcome(x, o)
  BY <1>3 DEF KernelOutcome
<1>10. type \notin AgentTypes
  BY DEF AgentTypes
<1>11. QED
  BY <1>1, <1>3, <1>5, <1>6, <1>7, <1>8, <1>9, <1>10 DEF KernelRecord, IsRecord

LEMMA KernelFacts ==
  ASSUME NEW o, o.kind \in Kernel, IsHappening(o), NEW id
  PROVE  KernelRecord(RecordOf(o, id), o, id)
<1>1. o.kind \in Tcp \/ o.kind = "ProcessExec" \/ o.kind = "FileOpen" \/ o.kind = "FileOpenAttempt"
  BY DEF Kernel
<1>2. QED
  BY <1>1, TcpFacts, ExecFacts, FileOpenFacts, AttemptFacts

-----------------------------------------------------------------------------
(* The labels of a projected occurrence: each layer writes names of its own. *)

BindingLabelNames ==
  {"evidence_level", "k8s_container_id", "k8s_pod_uid", "k8s_pod_name", "k8s_namespace",
   "k8s_service_account", "k8s_owner_kind", "k8s_owner_name", "k8s_owner_uid", "runtime_binding",
   "unbound_reason"}
SubjectNames == {"runtime_subject_id", "node_identity", "boot_id", "runtime_canonicalization_version"}
MetadataNames == ProbeFields \cup {"cluster_id", "node_id", "observed_at_ns", "schema_version"}
ReferenceNames == {"resource_ref_kind", "resource_ref_id"}

LEMMA LayersAreDisjoint ==
  /\ BindingLabelNames \cap SubjectNames = {} /\ BindingLabelNames \cap MetadataNames = {}
  /\ BindingLabelNames \cap ReferenceNames = {} /\ SubjectNames \cap MetadataNames = {}
  /\ SubjectNames \cap ReferenceNames = {} /\ MetadataNames \cap ReferenceNames = {}
  /\ KernelLabelNames \cap BindingLabelNames = {} /\ KernelLabelNames \cap SubjectNames = {}
  /\ KernelLabelNames \cap MetadataNames = {}
BY DEF BindingLabelNames, SubjectNames, MetadataNames, ReferenceNames, ProbeFields, KernelLabelNames,
       ExecLabels, LifetimeLabels

\* The layers, from the record's occurrence to the one that is projected.
Bound(record) == apply_runtime_binding(record.occurrence, record.binding)
Named(record, producer) == apply_runtime_subject(Bound(record), producer)
Metadata(record, producer) ==
  With(record.probe,
       [cluster_id |-> producer.cluster, node_id |-> producer.node_id,
        observed_at_ns |-> Dec(record.observed_at_ns), schema_version |-> "1"])

LEMMA BindingLayer ==
  ASSUME NEW record, IsOccurrence(record.occurrence), NEW k, k \notin BindingLabelNames
  PROVE  Agrees(Bound(record).labels, record.occurrence.labels, k)
<1>1. PICK x, b : x = record.occurrence /\ b = record.binding
  OBVIOUS
<1>2. \A part \in DOMAIN BindingNames : BindingNames[part] \in BindingLabelNames
  BY DEF BindingNames, BindingLabelNames
<1>3. DOMAIN BindingLabels(b) \subseteq BindingLabelNames
  <2>1. \A l \in {BindingNames[part] : part \in Known(b)} : l \in BindingLabelNames
    <3>1. Known(b) \subseteq DOMAIN BindingNames
      BY Zenon DEF Known
    <3>2. QED
      BY <1>2, <3>1
  <2>2. "evidence_level" \in BindingLabelNames
    BY DEF BindingLabelNames
  <2>3. PICK f : f = [label \in {BindingNames[part] : part \in Known(b)} |->
                        b[CHOOSE part \in Known(b) : BindingNames[part] = label]]
    OBVIOUS
  <2>4. DOMAIN f = {BindingNames[part] : part \in Known(b)}
    BY <2>3
  <2>5. BindingLabels(b) = With([evidence_level |-> b.provenance], f)
    BY <2>3, Zenon DEF BindingLabels
  <2>6. DOMAIN BindingLabels(b) = {"evidence_level"} \cup {BindingNames[part] : part \in Known(b)}
    BY <2>4, <2>5, WithDomain
  <2>7. QED
    BY <2>1, <2>2, <2>6
<1>4. CASE b = None
  BY <1>1, <1>4 DEF Bound, apply_runtime_binding, Agrees
<1>5. CASE b # None /\ ~b.bound
  <2>1. PICK f : f = [runtime_binding |-> "unbound", unbound_reason |-> b.reason]
    OBVIOUS
  <2>2. k \notin DOMAIN f
    BY <2>1 DEF BindingLabelNames
  <2>3. Bound(record) = [x EXCEPT !.labels = With(x.labels, f)]
    BY <1>1, <1>5, <2>1, Zenon DEF Bound, apply_runtime_binding
  <2>4. Bound(record).labels = With(x.labels, f)
    BY <1>1, <2>3 DEF IsOccurrence, OccFields
  <2>5. QED
    BY <1>1, <2>2, <2>4, AgreesFirst
<1>6. CASE b # None /\ b.bound
  <2>1. PICK f : f = BindingLabels(b)
    OBVIOUS
  <2>2. PICK n, c : Bound(record) = [x EXCEPT !.labels = With(x.labels, f), !.namespace = n,
                                              !.correlation_keys = c]
    BY <1>1, <1>6, <2>1, Zenon DEF Bound, apply_runtime_binding
  <2>3. Bound(record).labels = With(x.labels, f)
    BY <1>1, <2>2 DEF IsOccurrence, OccFields
  <2>4. k \notin DOMAIN f
    BY <1>3, <2>1
  <2>5. QED
    BY <1>1, <2>3, <2>4, AgreesFirst
<1>7. QED
  BY <1>4, <1>5, <1>6

\* The labels of a binding that names a container or a pod.
LEMMA BoundLabels ==
  ASSUME NEW record, IsOccurrence(record.occurrence), record.binding # None, record.binding.bound
  PROVE  Bound(record).labels = With(record.occurrence.labels, BindingLabels(record.binding))
<1>1. PICK x, b, f : x = record.occurrence /\ b = record.binding /\ f = BindingLabels(b)
  OBVIOUS
<1>2. PICK n, c : Bound(record) = [x EXCEPT !.labels = With(x.labels, f), !.namespace = n,
                                            !.correlation_keys = c]
  BY <1>1, Zenon DEF Bound, apply_runtime_binding
<1>3. Bound(record).labels = With(x.labels, f)
  BY <1>1, <1>2 DEF IsOccurrence, OccFields
<1>4. QED
  BY <1>1, <1>3

LEMMA SubjectLayer ==
  ASSUME NEW record, IsOccurrence(record.occurrence), NEW producer, NEW k, k \notin SubjectNames
  PROVE  Agrees(Named(record, producer).labels, Bound(record).labels, k)
<1>1. PICK x : x = Bound(record)
  OBVIOUS
<1>2. IsOccurrence(x)
  BY <1>1, BindingKeepsCore DEF Bound, SameCore
<1>3. CASE Named(record, producer) = x
  BY <1>1, <1>3 DEF Agrees
<1>4. CASE Named(record, producer) # x
  <2>1. PICK subject, f : /\ f = [runtime_subject_id |-> subject,
                                  node_identity |-> producer.node_identity,
                                  boot_id |-> producer.boot_id,
                                  runtime_canonicalization_version |-> Dec(1)]
                          /\ Named(record, producer) = [x EXCEPT !.labels = With(x.labels, f)]
    BY <1>1, <1>4, Zenon DEF Named, apply_runtime_subject
  <2>2. k \notin DOMAIN f
    BY <2>1 DEF SubjectNames
  <2>3. Named(record, producer).labels = With(x.labels, f)
    BY <1>2, <2>1 DEF IsOccurrence, OccFields
  <2>4. QED
    BY <1>1, <2>2, <2>3, AgreesFirst
<1>5. QED
  BY <1>3, <1>4

LEMMA MetadataLayer ==
  ASSUME NEW record, NEW producer, DOMAIN record.probe = ProbeFields
  PROVE  /\ DOMAIN Metadata(record, producer) = MetadataNames
         /\ Metadata(record, producer).observed_at_ns = Dec(record.observed_at_ns)
<1>1. PICK p, f : /\ p = record.probe
                  /\ f = [cluster_id |-> producer.cluster, node_id |-> producer.node_id,
                          observed_at_ns |-> Dec(record.observed_at_ns), schema_version |-> "1"]
  OBVIOUS
<1>2. Metadata(record, producer) = With(p, f)
  BY <1>1, Zenon DEF Metadata
<1>3. /\ DOMAIN f = {"cluster_id", "node_id", "observed_at_ns", "schema_version"}
      /\ f.observed_at_ns = Dec(record.observed_at_ns)
  BY <1>1
<1>4. DOMAIN With(p, f) = MetadataNames
  BY <1>1, <1>3, WithDomain DEF MetadataNames
<1>5. With(p, f)["observed_at_ns"] = f["observed_at_ns"]
  BY <1>3, WithSecond
<1>6. QED
  BY <1>2, <1>3, <1>4, <1>5

\* What the projection keeps of each layer.
LEMMA ProjectedLabels ==
  ASSUME NEW record, IsOccurrence(record.occurrence), DOMAIN record.probe = ProbeFields,
         NEW producer, NEW l, l = into_plane_b_occurrence(record, producer).labels
  PROVE  /\ "observed_at_ns" \in DOMAIN l /\ l.observed_at_ns = Dec(record.observed_at_ns)
         /\ \A k : k \notin MetadataNames \cup ReferenceNames =>
                     Agrees(l, Named(record, producer).labels, k)
         /\ record.occurrence.network = Unset =>
              \A k \in ReferenceNames : Agrees(l, Named(record, producer).labels, k)
         /\ record.occurrence.network # Unset =>
              "resource_ref_kind" \in DOMAIN l /\ l.resource_ref_kind = "network_endpoint"
<1>1. PICK x, n, m, y : /\ x = record.occurrence /\ n = Named(record, producer)
                        /\ m = Metadata(record, producer)
                        /\ y = into_occurrence_with_metadata(record, producer)
  OBVIOUS
<1>2. SameCore(y, x)
  BY <1>1, MetadataKeepsCore
<1>3. IsOccurrence(n)
  <2>1. IsOccurrence(Bound(record))
    BY BindingKeepsCore DEF Bound, SameCore
  <2>2. QED
    BY <1>1, <2>1, SubjectKeepsCore DEF Named, SameCore
<1>4. y = [n EXCEPT !.labels = With(n.labels, m)]
  BY <1>1, Zenon DEF into_occurrence_with_metadata, Named, Bound, Metadata
<1>5. y.labels = With(n.labels, m)
  BY <1>3, <1>4 DEF IsOccurrence, OccFields
<1>6. DOMAIN m = MetadataNames /\ m.observed_at_ns = Dec(record.observed_at_ns)
  BY <1>1, MetadataLayer
<1>7. PICK f : f = [resource_ref_kind |-> "network_endpoint",
                    resource_ref_id |-> <<y.network.dst_ip, y.network.dst_port>>]
  OBVIOUS
<1>8. DOMAIN f = ReferenceNames /\ f.resource_ref_kind = "network_endpoint"
  BY <1>7 DEF ReferenceNames
<1>9. PICK g : g = Only(y.network # Unset, f)
  OBVIOUS
<1>10. l = With(y.labels, g)
  <2>1. neutralize_for_plane_b(y) =
          [y EXCEPT !.severity = "Info", !.error = None, !.labels = With(y.labels, g)]
    BY <1>7, <1>9, Zenon DEF neutralize_for_plane_b
  <2>2. neutralize_for_plane_b(y).labels = With(y.labels, g)
    BY <1>2, <2>1 DEF SameCore, IsOccurrence, OccFields
  <2>3. l = neutralize_for_plane_b(y).labels
    BY <1>1, Zenon DEF into_plane_b_occurrence
  <2>4. QED
    BY <2>2, <2>3
<1>11. /\ x.network = Unset => DOMAIN g = {}
       /\ x.network # Unset => g = f
  BY <1>2, <1>9 DEF SameCore, Only
<1>12. DOMAIN g \subseteq ReferenceNames
  BY <1>8, <1>11
<1>13. ASSUME NEW k, k \notin MetadataNames, k \notin DOMAIN g
       PROVE  Agrees(l, n.labels, k)
  <2>1. Agrees(l, y.labels, k)
    BY <1>10, <1>13, AgreesFirst
  <2>2. Agrees(y.labels, n.labels, k)
    BY <1>5, <1>6, <1>13, AgreesFirst
  <2>3. QED
    BY <2>1, <2>2, AgreesTransitive
<1>14. "observed_at_ns" \in DOMAIN l /\ l.observed_at_ns = Dec(record.observed_at_ns)
  <2>1. "observed_at_ns" \in MetadataNames /\ "observed_at_ns" \notin ReferenceNames
    BY DEF MetadataNames, ReferenceNames
  <2>2. Agrees(y.labels, m, "observed_at_ns")
    BY <1>5, <1>6, <2>1, AgreesOver
  <2>3. Agrees(l, y.labels, "observed_at_ns")
    BY <1>10, <1>12, <2>1, AgreesFirst
  <2>4. QED
    BY <1>6, <2>1, <2>2, <2>3 DEF Agrees
<1>15. x.network # Unset => "resource_ref_kind" \in DOMAIN l /\ l.resource_ref_kind = "network_endpoint"
  <2>1. SUFFICES ASSUME x.network # Unset
                 PROVE  "resource_ref_kind" \in DOMAIN l /\ l.resource_ref_kind = "network_endpoint"
    OBVIOUS
  <2>2. l = With(y.labels, f) /\ "resource_ref_kind" \in DOMAIN f
    BY <1>8, <1>10, <1>11, <2>1 DEF ReferenceNames
  <2>3. Agrees(l, f, "resource_ref_kind")
    BY <2>2, AgreesOver
  <2>4. QED
    BY <1>8, <2>2, <2>3 DEF Agrees
<1>16. MetadataNames \cap ReferenceNames = {}
  BY LayersAreDisjoint
<1>17. \A k : k \notin MetadataNames \cup ReferenceNames => Agrees(l, n.labels, k)
  BY <1>12, <1>13
<1>18. x.network = Unset => \A k \in ReferenceNames : Agrees(l, n.labels, k)
  BY <1>11, <1>13, <1>16
<1>19. QED
  BY <1>1, <1>14, <1>15, <1>17, <1>18

\* What a copied label becomes: a key of its own, present with it.
LabelOf ==
  [node_id |-> "node_id", pod_uid |-> "k8s_pod_uid", pod_name |-> "k8s_pod_name",
   container_id |-> "k8s_container_id", k8s_namespace |-> "k8s_namespace",
   service_account |-> "k8s_service_account", owner_kind |-> "k8s_owner_kind",
   owner_name |-> "k8s_owner_name", owner_uid |-> "k8s_owner_uid", cgroup_id |-> "cgroup_id",
   argv_hash |-> "argv_hash", tcp_state |-> "tcp_state", cluster_id |-> "cluster_id",
   runtime_subject_id |-> "runtime_subject_id", node_identity |-> "node_identity",
   boot_id |-> "boot_id", runtime_identity_method |-> "runtime_identity_method",
   evidence_level |-> "evidence_level", cause |-> "cause", requested_path |-> "requested_path",
   path_resolution |-> "path_resolution", coverage |-> "coverage", flags |-> "flags"]

LEMMA CopiedLabel ==
  ASSUME NEW labels, NEW name, name \in DOMAIN LABEL_KEYS, NEW key, key = LABEL_KEYS[name]
  PROVE  /\ key \in DOMAIN CopiedLabels(labels) <=> name \in DOMAIN labels
         /\ name \in DOMAIN labels => CopiedLabels(labels)[key] = labels[name]
<1>1. \A n \in DOMAIN LABEL_KEYS : LabelOf[LABEL_KEYS[n]] = n
  BY DEF LABEL_KEYS, LabelOf
<1> DEFINE present == DOMAIN labels \cap DOMAIN LABEL_KEYS
<1>2. PICK f : f = CopiedLabels(labels)
  OBVIOUS
<1>3. f = [k \in {LABEL_KEYS[n] : n \in present} |-> labels[CHOOSE n \in present : LABEL_KEYS[n] = k]]
  BY <1>2 DEF CopiedLabels
<1>4. \A n \in DOMAIN LABEL_KEYS : LABEL_KEYS[n] = key => n = name
  BY <1>1
<1>5. DOMAIN f = {LABEL_KEYS[n] : n \in present}
  BY <1>3
<1>6. key \in DOMAIN f <=> name \in DOMAIN labels
  BY <1>2, <1>4, <1>5
<1>7. ASSUME name \in DOMAIN labels
      PROVE  f[key] = labels[name]
  <2>1. name \in present /\ key \in DOMAIN f
    BY <1>2, <1>6, <1>7
  <2>2. PICK c : c = CHOOSE n \in present : LABEL_KEYS[n] = key
    OBVIOUS
  <2>3. c \in present /\ LABEL_KEYS[c] = key
    BY <2>1, <2>2
  <2>4. c = name
    BY <1>2, <1>4, <2>3
  <2>5. f[key] = labels[c]
    BY <1>3, <1>5, <2>1, <2>2
  <2>6. QED
    BY <2>4, <2>5
<1>8. QED
  BY <1>2, <1>6, <1>7

LEMMA CopiedKey ==
  ASSUME NEW occ, NEW name, name \in DOMAIN LABEL_KEYS, NEW key, key = LABEL_KEYS[name]
  PROVE  /\ key \in DOMAIN native_runtime_item(occ) <=> name \in DOMAIN occ.labels
         /\ name \in DOMAIN occ.labels => native_runtime_item(occ)[key] = occ.labels[name]
<1>1. PICK labels, item, l, c : /\ labels = occ.labels /\ item = native_runtime_item(occ)
                                /\ l = LabelKeys(labels) /\ c = CopiedLabels(labels)
  OBVIOUS
<1>2. \A n \in DOMAIN LABEL_KEYS : LABEL_KEYS[n] \in CopiedNames
  BY DEF LABEL_KEYS, CopiedNames
<1>3. key \in CopiedNames /\ key \in LabelNames
  BY <1>2 DEF LabelNames
<1>4. Agrees(item, l, key) /\ Agrees(l, c, key)
  BY <1>1, <1>3, LabelParts, ItemParts
<1>5. Agrees(item, c, key)
  BY <1>4, AgreesTransitive
<1>6. /\ key \in DOMAIN c <=> name \in DOMAIN labels
      /\ name \in DOMAIN labels => c[key] = labels[name]
  BY <1>1, CopiedLabel
<1>7. QED
  BY <1>1, <1>5, <1>6 DEF Agrees

LEMMA NumberKey ==
  ASSUME NEW occ, NEW key \in NUMBER_KEYS, key \in DOMAIN occ.labels, NEW n \in Nat,
         occ.labels[key] = Dec(n)
  PROVE  key \in DOMAIN native_runtime_item(occ) /\ native_runtime_item(occ)[key] = n
<1>1. PICK labels, item, l, c : /\ labels = occ.labels /\ item = native_runtime_item(occ)
                                /\ l = LabelKeys(labels) /\ c = NumberLabels(labels)
  OBVIOUS
<1>2. key \in LabelNames
  BY DEF LabelNames
<1>3. Agrees(item, l, key) /\ Agrees(l, c, key)
  BY <1>1, <1>2, LabelParts, ItemParts
<1>4. Agrees(item, c, key)
  BY <1>3, AgreesTransitive
<1>5. ParseU64(labels[key]) = n /\ n # None
  <2>1. labels[key] = [dec |-> n]
    BY <1>1 DEF Dec
  <2>2. labels[key].dec = n
    BY <2>1
  <2>3. QED
    BY <2>2, NoneIsNoValue DEF ParseU64
<1>6. key \in DOMAIN c /\ c[key] = n
  BY <1>1, <1>5 DEF NumberLabels
<1>7. QED
  BY <1>1, <1>4, <1>6 DEF Agrees

\* A part of a binding is a label of its own, present if it is known.
PartOf ==
  [k8s_container_id |-> "container_id", k8s_pod_uid |-> "pod_uid", k8s_pod_name |-> "pod_name",
   k8s_namespace |-> "namespace", k8s_service_account |-> "service_account",
   k8s_owner_kind |-> "owner_kind", k8s_owner_name |-> "owner_name", k8s_owner_uid |-> "owner_uid"]

Given(value) == value \notin {None, ""}

LEMMA KnownParts ==
  ASSUME NEW b, NEW part \in DOMAIN BindingNames
  PROVE  part \in Known(b) <=> Given(b[part])
BY Zenon DEF Known, Given

LEMMA BindingLabel ==
  ASSUME NEW b, NEW part \in DOMAIN BindingNames, NEW label, label = BindingNames[part]
  PROVE  /\ label \in DOMAIN BindingLabels(b) <=> part \in Known(b)
         /\ part \in Known(b) => BindingLabels(b)[label] = b[part]
         /\ Agrees(BindingLabels(b), [evidence_level |-> b.provenance], "evidence_level")
<1>1. /\ \A p \in DOMAIN BindingNames : PartOf[BindingNames[p]] = p
      /\ \A p \in DOMAIN BindingNames : BindingNames[p] # "evidence_level"
  BY DEF BindingNames, PartOf
<1> DEFINE known == Known(b)
<1>3. known \subseteq DOMAIN BindingNames
  BY Zenon DEF Known
<1>4. PICK f, first : /\ f = [name \in {BindingNames[p] : p \in known} |->
                                b[CHOOSE p \in known : BindingNames[p] = name]]
                      /\ first = [evidence_level |-> b.provenance]
  OBVIOUS
<1>5. BindingLabels(b) = With(first, f)
  BY <1>4, Zenon DEF BindingLabels
<1> HIDE DEF known
<1>6. DOMAIN f = {BindingNames[p] : p \in known}
  BY <1>4
<1>7. \A p \in DOMAIN BindingNames : BindingNames[p] = label => p = part
  BY <1>1
<1>8. label \in DOMAIN f <=> part \in known
  BY <1>3, <1>6, <1>7
<1>9. ASSUME part \in known
      PROVE  f[label] = b[part]
  <2>1. PICK c : c = CHOOSE p \in known : BindingNames[p] = label
    OBVIOUS
  <2>2. c \in known /\ BindingNames[c] = label
    BY <1>9, <2>1
  <2>3. c = part
    BY <1>3, <1>7, <2>2
  <2>4. f[label] = b[c]
    BY <1>4, <1>6, <1>8, <1>9, <2>1
  <2>5. QED
    BY <2>3, <2>4
<1>10. DOMAIN first = {"evidence_level"} /\ label # "evidence_level"
  BY <1>1, <1>4
<1>11. Agrees(With(first, f), f, label)
  BY <1>10, AgreesSecond
<1>12. "evidence_level" \notin DOMAIN f
  BY <1>1, <1>3, <1>6
<1>13. Agrees(With(first, f), first, "evidence_level")
  BY <1>12, AgreesFirst
<1>14. /\ label \in DOMAIN BindingLabels(b) <=> part \in known
       /\ part \in known => BindingLabels(b)[label] = b[part]
  BY <1>5, <1>8, <1>9, <1>11 DEF Agrees
<1>15. QED
  BY <1>4, <1>5, <1>13, <1>14 DEF known

\* A label of a kernel record is on the wire as it was written.
LEMMA KernelLabelKept ==
  ASSUME NEW r, NEW o, NEW id, KernelRecord(r, o, id), NEW producer,
         NEW l, l = into_plane_b_occurrence(r, producer).labels, NEW k \in KernelLabelNames,
         k \in ReferenceNames => o.kind \notin Tcp
  PROVE  Agrees(l, r.occurrence.labels, k)
<1>1. /\ IsOccurrence(r.occurrence) /\ DOMAIN r.probe = ProbeFields
      /\ r.occurrence.network = Unset <=> o.kind \notin Tcp
  BY DEF KernelRecord, KernelNetwork
<1>2. PICK n, b, x : n = Named(r, producer).labels /\ b = Bound(r).labels /\ x = r.occurrence.labels
  OBVIOUS
<1>3. k \notin BindingLabelNames /\ k \notin SubjectNames /\ k \notin MetadataNames
  BY LayersAreDisjoint
<1>4. Agrees(l, n, k)
  BY <1>1, <1>2, <1>3, ProjectedLabels
<1>5. Agrees(n, b, k)
  BY <1>1, <1>2, <1>3, SubjectLayer
<1>6. Agrees(b, x, k)
  BY <1>1, <1>2, <1>3, BindingLayer
<1>7. Agrees(l, x, k)
  BY <1>4, <1>5, <1>6, AgreesTransitive
<1>8. QED
  BY <1>2, <1>7

\* So is a label of the binding of a record that may leave the node.
LEMMA BindingLabelKept ==
  ASSUME NEW r, NEW o, NEW id, KernelRecord(r, o, id), NEW producer,
         r.binding # None, r.binding.bound,
         NEW l, l = into_plane_b_occurrence(r, producer).labels, NEW k \in BindingLabelNames
  PROVE  Agrees(l, BindingLabels(r.binding), k)
<1>1. /\ IsOccurrence(r.occurrence) /\ DOMAIN r.probe = ProbeFields
      /\ DOMAIN r.occurrence.labels \subseteq KernelLabelNames
  BY DEF KernelRecord, KernelLabels
<1>2. PICK n, b, x, y : /\ n = Named(r, producer).labels /\ b = Bound(r).labels
                        /\ x = r.occurrence.labels /\ y = BindingLabels(r.binding)
  OBVIOUS
<1>3. /\ k \notin SubjectNames /\ k \notin MetadataNames /\ k \notin ReferenceNames
      /\ k \notin KernelLabelNames
  BY LayersAreDisjoint
<1>4. Agrees(l, n, k)
  BY <1>1, <1>2, <1>3, ProjectedLabels
<1>5. Agrees(n, b, k)
  BY <1>1, <1>2, <1>3, SubjectLayer
<1>6. Agrees(b, y, k)
  <2>1. b = With(x, y)
    BY <1>1, <1>2, BoundLabels
  <2>2. k \notin DOMAIN x
    BY <1>1, <1>2, <1>3
  <2>3. QED
    BY <2>1, <2>2, AgreesSecond
<1>7. Agrees(l, y, k)
  BY <1>4, <1>5, <1>6, AgreesTransitive
<1>8. QED
  BY <1>2, <1>7

-----------------------------------------------------------------------------
(* What the item of a kernel observation says. *)

LEMMA ItemTime ==
  ASSUME NEW r, NEW o, NEW id, KernelRecord(r, o, id), o.time \in Nat, NEW producer,
         NEW occ, occ = into_plane_b_occurrence(r, producer), NEW item, item = native_runtime_item(occ)
  PROVE  Has(item, "kernel_time_ns", o.time)
<1>1. PICK l, t : l = occ.labels /\ t = o.time
  OBVIOUS
<1>2. IsOccurrence(r.occurrence) /\ DOMAIN r.probe = ProbeFields /\ r.observed_at_ns = t
  BY <1>1 DEF KernelRecord
<1>3. l.observed_at_ns = Dec(t)
  BY <1>1, <1>2, ProjectedLabels
<1>4. ParseU64(Dec(t)) = t
  <2>1. Dec(t).dec = t
    BY DEF Dec
  <2>2. QED
    BY <1>1, <2>1 DEF ParseU64
<1>5. PICK b : b = BaseKeys(occ)
  OBVIOUS
<1>6. "kernel_time_ns" \in DOMAIN b /\ b["kernel_time_ns"] = ParseU64(l.observed_at_ns)
  BY <1>1, <1>5 DEF BaseKeys
<1>7. Agrees(item, b, "kernel_time_ns")
  BY <1>5, ItemParts DEF BaseNames
<1>8. QED
  BY <1>1, <1>3, <1>4, <1>6, <1>7 DEF Agrees, Has

\* The entries of a process.
LEMMA ProcessEntries ==
  ASSUME NEW p
  PROVE  /\ Has(ProcessKeys(p), "pid", p.pid) /\ Has(ProcessKeys(p), "comm", p.command)
         /\ HasOnlyIf(ProcessKeys(p), "ppid", p.ppid # None, p.ppid)
         /\ HasOnlyIf(ProcessKeys(p), "uid", p.uid # None, p.uid)
<1>1. PICK f, g, h : /\ f = [pid |-> p.pid, comm |-> p.command]
                     /\ g = Only(p.ppid # None, [ppid |-> p.ppid])
                     /\ h = Only(p.uid # None, [uid |-> p.uid])
  OBVIOUS
<1>2. ProcessKeys(p) = With(f, With(g, h))
  BY <1>1, Zenon DEF ProcessKeys
<1>3. DOMAIN f = {"pid", "comm"} /\ f["pid"] = p.pid /\ f["comm"] = p.command
  BY <1>1
<1>4. DOMAIN g \subseteq {"ppid"} /\ HasOnlyIf(g, "ppid", p.ppid # None, p.ppid)
  BY <1>1 DEF Only, HasOnlyIf
<1>5. DOMAIN h \subseteq {"uid"} /\ HasOnlyIf(h, "uid", p.uid # None, p.uid)
  BY <1>1 DEF Only, HasOnlyIf
<1>6. DOMAIN With(g, h) \subseteq {"ppid", "uid"}
  BY <1>4, <1>5, WithDomain
<1>7. /\ Agrees(With(f, With(g, h)), f, "pid") /\ Agrees(With(f, With(g, h)), f, "comm")
  BY <1>6, AgreesFirst
<1>8. Agrees(With(f, With(g, h)), g, "ppid")
  <2>1. Agrees(With(f, With(g, h)), With(g, h), "ppid")
    BY <1>3, AgreesSecond
  <2>2. Agrees(With(g, h), g, "ppid")
    BY <1>5, AgreesFirst
  <2>3. QED
    BY <2>1, <2>2, AgreesTransitive
<1>9. Agrees(With(f, With(g, h)), h, "uid")
  <2>1. Agrees(With(f, With(g, h)), With(g, h), "uid")
    BY <1>3, AgreesSecond
  <2>2. Agrees(With(g, h), h, "uid")
    BY <1>4, AgreesSecond
  <2>3. QED
    BY <2>1, <2>2, AgreesTransitive
<1>10. QED
  BY <1>2, <1>3, <1>4, <1>5, <1>7, <1>8, <1>9 DEF Agrees, Has, HasOnlyIf

\* Two functions that agree on a key say the same under it.
LEMMA AgreesHas ==
  ASSUME NEW f, NEW g, NEW k, Agrees(f, g, k), NEW v, NEW p
  PROVE  /\ Has(g, k, v) => Has(f, k, v)
         /\ HasOnlyIf(g, k, p, v) => HasOnlyIf(f, k, p, v)
BY DEF Agrees, Has, HasOnlyIf

\* What the decoder makes of a text is what an item may say for it.
LEMMA TextOnlyIf ==
  ASSUME NEW f, NEW k, NEW p, NEW text, HasOnlyIf(f, k, p, Str(text))
  PROVE  HasTextOnlyIf(f, k, p, text)
BY DEF HasOnlyIf, HasTextOnlyIf, Str

LEMMA ItemProcess ==
  ASSUME NEW r, NEW o, NEW id, KernelRecord(r, o, id), {o.ppid, o.uid} \subseteq Nat, NEW producer,
         NEW occ, occ = into_plane_b_occurrence(r, producer), NEW item, item = native_runtime_item(occ)
  PROVE  TrueProcess(item, o)
<1>1. IsOccurrence(r.occurrence) /\ KernelProcess(r.occurrence, o)
  BY DEF KernelRecord
<1>2. occ.process = r.occurrence.process
  BY <1>1, PlaneBKeepsCore DEF SameCore
<1>3. PICK p, f : p = occ.process /\ f = ProcessKeys(p)
  OBVIOUS
<1>4. /\ p.pid = o.tgid
      /\ p.ppid = IF o.kind = "ProcessExec" /\ o.offsets /\ o.ppid # 0 THEN o.ppid ELSE None
      /\ p.command = Str(IF o.kind = "ProcessExec" THEN o.path.head ELSE o.comm)
      /\ p.uid = IF o.kind \in Tcp THEN None ELSE o.uid
      /\ "pid" \in DOMAIN p
  BY <1>1, <1>2, <1>3 DEF KernelProcess
<1>5. p # Unset
  BY <1>4 DEF Unset
<1>6. ProcessPart(occ) = f
  BY <1>3, <1>5 DEF ProcessPart, Only
<1>7. \A k \in ProcessNames : Agrees(item, f, k)
  BY <1>6, ItemParts
<1>8. /\ Agrees(item, f, "pid") /\ Agrees(item, f, "comm") /\ Agrees(item, f, "ppid")
      /\ Agrees(item, f, "uid")
  BY <1>7 DEF ProcessNames
<1>9. o.ppid # None /\ o.uid # None
  BY NoneIsNoValue
<1>10. /\ p.ppid # None <=> o.kind = "ProcessExec" /\ o.offsets /\ o.ppid # 0
       /\ p.uid # None <=> o.kind \notin Tcp
  BY <1>4, <1>9
<1>11. Has(item, "pid", p.pid) /\ Has(item, "comm", p.command)
  BY <1>3, <1>8, ProcessEntries, AgreesHas
<1>12. HasOnlyIf(item, "ppid", p.ppid # None, p.ppid) /\ HasOnlyIf(item, "uid", p.uid # None, p.uid)
  BY <1>3, <1>8, ProcessEntries, AgreesHas
<1>13. HasOnlyIf(item, "ppid", o.kind = "ProcessExec" /\ o.offsets /\ o.ppid # 0, o.ppid)
  BY <1>4, <1>10, <1>12 DEF HasOnlyIf
<1>14. HasOnlyIf(item, "uid", o.kind \notin Tcp, o.uid)
  BY <1>4, <1>10, <1>12 DEF HasOnlyIf
<1>15. HasTextOnlyIf(item, "comm", TRUE, IF o.kind = "ProcessExec" THEN o.path.head ELSE o.comm)
  <2>1. PICK text : text = IF o.kind = "ProcessExec" THEN o.path.head ELSE o.comm
    OBVIOUS
  <2>2. HasOnlyIf(item, "comm", TRUE, Str(text))
    BY <1>4, <1>11, <2>1 DEF Has, HasOnlyIf
  <2>3. QED
    BY <2>1, <2>2, TextOnlyIf
<1>16. QED
  BY <1>4, <1>11, <1>13, <1>14, <1>15 DEF TrueProcess

LEMMA ItemNetwork ==
  ASSUME NEW r, NEW o, NEW id, KernelRecord(r, o, id), NEW producer,
         NEW occ, occ = into_plane_b_occurrence(r, producer), NEW item, item = native_runtime_item(occ)
  PROVE  TrueNetwork(item, o)
<1>1. SUFFICES ASSUME o.kind \in Tcp
               PROVE  /\ Has(item, "destination_ip", Address(o.dst, o.family))
                      /\ Has(item, "source_ip", Address(o.src, o.family))
                      /\ Has(item, "destination_port", o.dst_port)
                      /\ o.kind # "TcpClose" => Has(item, "source_port", o.src_port)
  BY DEF TrueNetwork, Address
<1>2. IsOccurrence(r.occurrence) /\ KernelNetwork(r.occurrence, o)
  BY DEF KernelRecord
<1>3. occ.network = r.occurrence.network
  BY <1>2, PlaneBKeepsCore DEF SameCore
<1>4. PICK n, f : n = occ.network /\ f = NetworkKeys(n)
  OBVIOUS
<1>5. /\ n # Unset /\ n.src_ip = Address(o.src, o.family) /\ n.dst_ip = Address(o.dst, o.family)
      /\ n.dst_port = o.dst_port
      /\ o.kind # "TcpClose" => n.src_port = o.src_port
  BY <1>1, <1>2, <1>3, <1>4 DEF KernelNetwork
<1>6. NetworkPart(occ) = f
  BY <1>4, <1>5 DEF NetworkPart, Only
<1>7. \A k \in NetworkNames : Agrees(item, f, k)
  BY <1>6, ItemParts
<1>8. /\ Agrees(item, f, "source_ip") /\ Agrees(item, f, "destination_ip")
      /\ Agrees(item, f, "source_port") /\ Agrees(item, f, "destination_port")
  BY <1>7 DEF NetworkNames
<1>9. /\ Has(f, "source_ip", n.src_ip) /\ Has(f, "destination_ip", n.dst_ip)
      /\ Has(f, "source_port", n.src_port) /\ Has(f, "destination_port", n.dst_port)
  BY <1>4 DEF NetworkKeys, Has
<1>10. QED
  BY <1>5, <1>8, <1>9 DEF Agrees, Has

LEMMA ItemOutcome ==
  ASSUME NEW r, NEW o, NEW id, KernelRecord(r, o, id), o.ret \in Int, NEW producer,
         NEW occ, occ = into_plane_b_occurrence(r, producer), NEW item, item = native_runtime_item(occ)
  PROVE  TrueOutcome(item, o)
<1>1. /\ IsOccurrence(r.occurrence) /\ KernelOutcome(r.occurrence, o)
      /\ KernelLabels(r.occurrence.labels, o)
  BY DEF KernelRecord
<1>2. PICK x, l, ret : x = r.occurrence.labels /\ l = occ.labels /\ ret = o.ret
  OBVIOUS
<1>3. Has(item, "state", IF o.ret < 0 \/ o.kind = "TcpRetransmit" THEN "failure" ELSE "success")
  <2>1. occ.outcome = r.occurrence.outcome
    BY <1>1, PlaneBKeepsCore DEF SameCore
  <2>2. PICK s : s = occ.outcome
    OBVIOUS
  <2>3. s = IF o.ret < 0 \/ o.kind = "TcpRetransmit" THEN "failure" ELSE "success"
    BY <1>1, <2>1, <2>2 DEF KernelOutcome
  <2>4. s # None
    BY <2>3, NoneIsNoValue DEF Words
  <2>5. OutcomePart(occ) = [state |-> s]
    BY <2>2, <2>4 DEF OutcomePart, Only
  <2>6. Agrees(item, [state |-> s], "state")
    BY <2>5, ItemParts
  <2>7. Has([state |-> s], "state", s)
    BY DEF Has
  <2>8. Has(item, "state", s)
    BY <2>6, <2>7 DEF Agrees, Has
  <2>9. QED
    BY <2>3, <2>8
<1>4. Agrees(l, x, "errno_num")
  <2>1. "errno_num" \in KernelLabelNames /\ "errno_num" \notin ReferenceNames
    BY DEF KernelLabelNames, ReferenceNames
  <2>2. QED
    BY <1>2, <2>1, KernelLabelKept
<1>5. /\ "errno_num" \in DOMAIN l <=> ret < 0
      /\ ret < 0 => l["errno_num"] = Dec(ret)
  BY <1>1, <1>2, <1>4 DEF KernelLabels, Agrees
<1>6. HasOnlyIf(WireErrno(l), "errno", ret < 0, -ret)
  <2>1. CASE ret < 0
    <3>1. ParseI64(l["errno_num"]) = ret
      BY <1>5, <2>1 DEF ParseI64, Dec
    <3>2. WireErrno(l) = [errno |-> -ret]
      BY <1>5, <2>1, <3>1 DEF WireErrno, Only
    <3>3. QED
      BY <2>1, <3>2 DEF HasOnlyIf
  <2>2. CASE ~(ret < 0)
    <3>1. DOMAIN WireErrno(l) = {}
      BY <1>5, <2>2 DEF WireErrno, Only
    <3>2. QED
      BY <2>2, <3>1 DEF HasOnlyIf
  <2>3. QED
    BY <2>1, <2>2
<1>7. Agrees(item, WireErrno(l), "errno")
  <2>1. "errno" \in LabelNames
    BY DEF LabelNames, OtherLabelNames
  <2>2. Agrees(item, LabelKeys(l), "errno")
    BY <1>2, <2>1, ItemParts
  <2>3. Agrees(LabelKeys(l), WireErrno(l), "errno")
    BY LabelParts
  <2>4. QED
    BY <2>2, <2>3, AgreesTransitive
<1>8. HasOnlyIf(item, "errno", ret < 0, -ret)
  BY <1>6, <1>7 DEF Agrees, HasOnlyIf
<1>9. QED
  BY <1>2, <1>3, <1>8 DEF TrueOutcome

\* A reference is under the key of its kind, and under no other.
LEMMA ItemReference ==
  ASSUME NEW occ, NEW item, item = native_runtime_item(occ), NEW l, l = occ.labels, NEW name, NEW p \in BOOLEAN,
         NEW ref, p => l["resource_ref_id"] = ref /\ "resource_ref_id" \in DOMAIN l,
         NEW key \in {"exe", "path"}, name = IF key = "exe" THEN "executable" ELSE "file",
         p <=> "resource_ref_kind" \in DOMAIN l /\ l["resource_ref_kind"] = name
  PROVE  HasOnlyIf(item, key, p, ref)
<1>1. name # None
  BY NoneIsNoValue DEF Words
<1>2. Label(l, "resource_ref_kind") = name <=> p
  BY <1>1 DEF Label
<1>3. p => Label(l, "resource_ref_id") = ref
  BY DEF Label
<1>4. HasOnlyIf(Reference(l, name, key), key, p, ref)
  <2>1. CASE p
    <3>1. Reference(l, name, key) = Entry(key, ref)
      BY <1>2, <1>3, <2>1 DEF Reference, Only
    <3>2. QED
      BY <2>1, <3>1 DEF HasOnlyIf, Entry
  <2>2. CASE ~p
    <3>1. DOMAIN Reference(l, name, key) = {}
      BY <1>2, <2>2 DEF Reference, Only
    <3>2. QED
      BY <2>2, <3>1 DEF HasOnlyIf
  <2>3. QED
    BY <2>1, <2>2
<1>5. Agrees(item, Reference(l, name, key), key)
  <2>1. key \in LabelNames
    BY DEF LabelNames, OtherLabelNames
  <2>2. Agrees(item, LabelKeys(l), key)
    BY <2>1, ItemParts
  <2>3. Agrees(LabelKeys(l), Reference(l, name, key), key)
    BY LabelParts
  <2>4. QED
    BY <2>2, <2>3, AgreesTransitive
<1>6. QED
  BY <1>4, <1>5, AgreesHas

LEMMA ItemFile ==
  ASSUME NEW r, NEW o, NEW id, KernelRecord(r, o, id), NEW producer,
         NEW occ, occ = into_plane_b_occurrence(r, producer), NEW item, item = native_runtime_item(occ)
  PROVE  TrueFile(item, o)
<1>1. /\ IsOccurrence(r.occurrence) /\ DOMAIN r.probe = ProbeFields
      /\ KernelNetwork(r.occurrence, o)
      /\ KernelLabels(r.occurrence.labels, o) /\ KernelReference(r.occurrence.labels, o)
  BY DEF KernelRecord
<1>2. PICK x, l, path : x = r.occurrence.labels /\ l = occ.labels /\ path = Str(o.path.head)
  OBVIOUS
<1>3. HasOnlyIf(item, "requested_path", o.kind = "FileOpenAttempt", path)
  <2>1. "requested_path" \in KernelLabelNames /\ "requested_path" \notin ReferenceNames
    BY DEF KernelLabelNames, ReferenceNames
  <2>2. Agrees(l, x, "requested_path")
    BY <1>2, <2>1, KernelLabelKept
  <2>3. "requested_path" \in DOMAIN LABEL_KEYS /\ LABEL_KEYS["requested_path"] = "requested_path"
    BY DEF LABEL_KEYS
  <2>4. /\ "requested_path" \in DOMAIN item <=> "requested_path" \in DOMAIN l
        /\ "requested_path" \in DOMAIN l => item["requested_path"] = l["requested_path"]
    BY <1>2, <2>3, CopiedKey
  <2>5. /\ "requested_path" \in DOMAIN x <=> o.kind = "FileOpenAttempt"
        /\ o.kind = "FileOpenAttempt" => x["requested_path"] = path
    BY <1>1, <1>2 DEF KernelLabels
  <2>6. QED
    BY <2>2, <2>4, <2>5 DEF Agrees, HasOnlyIf
<1>4. /\ "resource_ref_kind" \in DOMAIN l /\ l["resource_ref_kind"] = "file" <=> o.kind = "FileOpen"
      /\ "resource_ref_kind" \in DOMAIN l /\ l["resource_ref_kind"] = "executable" <=> o.kind = "ProcessExec"
      /\ o.kind \in {"FileOpen", "ProcessExec"} =>
           "resource_ref_id" \in DOMAIN l /\ l["resource_ref_id"] = path
  <2>1. CASE o.kind \in Tcp
    <3>1. "resource_ref_kind" \in DOMAIN l /\ l["resource_ref_kind"] = "network_endpoint"
      BY <1>1, <1>2, <2>1, ProjectedLabels DEF KernelNetwork
    <3>2. o.kind \notin {"FileOpen", "ProcessExec"}
      BY <2>1 DEF Tcp
    <3>3. QED
      BY <3>1, <3>2
  <2>2. CASE o.kind \notin Tcp
    <3>1. \A k \in ReferenceNames : k \in KernelLabelNames
      BY DEF KernelLabelNames, ReferenceNames
    <3>2. \A k \in ReferenceNames : Agrees(l, x, k)
      BY <1>2, <2>2, <3>1, KernelLabelKept
    <3>3. Agrees(l, x, "resource_ref_kind") /\ Agrees(l, x, "resource_ref_id")
      BY <3>2 DEF ReferenceNames
    <3>4. QED
      BY <1>1, <1>2, <3>3 DEF KernelReference, Agrees
  <2>3. QED
    BY <2>1, <2>2
<1>5. HasOnlyIf(item, "path", o.kind = "FileOpen", path)
  BY <1>2, <1>4, ItemReference
<1>6. HasOnlyIf(item, "exe", o.kind = "ProcessExec", path)
  <2>1. PICK p \in BOOLEAN : p <=> o.kind = "ProcessExec"
    OBVIOUS
  <2>2. /\ p => l["resource_ref_id"] = path /\ "resource_ref_id" \in DOMAIN l
        /\ p <=> "resource_ref_kind" \in DOMAIN l /\ l["resource_ref_kind"] = "executable"
    BY <1>4, <2>1
  <2>3. HasOnlyIf(item, "exe", p, path)
    BY <1>2, <2>2, ItemReference
  <2>4. QED
    BY <2>1, <2>3 DEF HasOnlyIf
<1>7. QED
  BY <1>2, <1>3, <1>5, <1>6, TextOnlyIf DEF TrueFile

\* A record of the kernel leaves the node only under a binding to a container or a pod.
LEMMA StronglyBound ==
  ASSUME NEW r, NEW o, NEW id, KernelRecord(r, o, id), IsBinding(o.binding),
         plane_b_drop_reason(r) = None, NEW b, b = r.binding
  PROVE  /\ b # None /\ b.bound
         /\ \E part \in {"container_id", "pod_uid"} : Given(b[part])
<1>1. ~is_agent_record(r) /\ IsBinding(b)
  BY DEF KernelRecord, is_agent_record
<1>2. "unknown" # None
  BY NoneIsNoValue DEF Words
<1>3. b # None
  BY <1>1, <1>2 DEF plane_b_drop_reason
<1>4. ~b.bound => b.reason # None
  BY <1>1, <1>3 DEF IsBinding
<1>5. strong_binding(b)
  <2>1. CASE strong_binding(b)
    BY <2>1
  <2>2. CASE ~strong_binding(b)
    BY <1>1, <1>2, <1>3, <1>4, <2>2 DEF plane_b_drop_reason
  <2>3. QED
    BY <2>1, <2>2
<1>6. b.bound
  BY <1>5, Zenon DEF strong_binding
<1>7. b.container_id # None
  BY <1>1, <1>3, <1>6 DEF IsBinding
<1>8. Given(b.container_id) \/ Given(b.pod_uid)
  BY <1>5, <1>7, Zenon DEF strong_binding, Given
<1>9. QED
  BY <1>3, <1>6, <1>8, Zenon

LEMMA ItemBinding ==
  ASSUME NEW r, NEW o, NEW id, KernelRecord(r, o, id), IsBinding(o.binding),
         plane_b_drop_reason(r) = None, NEW producer,
         NEW occ, occ = into_plane_b_occurrence(r, producer), NEW item, item = native_runtime_item(occ)
  PROVE  TrueBinding(item, o.binding)
<1> DEFINE keys == {"container_id", "pod_uid", "pod_name", "service_account", "owner_kind",
                    "owner_name", "owner_uid"}
<1>1. PICK b, l, y : b = r.binding /\ l = occ.labels /\ y = BindingLabels(b)
  OBVIOUS
<1>2. b = o.binding
  BY <1>1 DEF KernelRecord
<1>3. b # None /\ b.bound /\ \E part \in {"container_id", "pod_uid"} : Given(b[part])
  BY <1>1, StronglyBound
<1>4. \A k \in BindingLabelNames : Agrees(l, y, k)
  BY <1>1, <1>3, BindingLabelKept
<1>5. /\ \A key \in keys : key \in DOMAIN BindingNames
      /\ \A key \in keys : BindingNames[key] \in DOMAIN LABEL_KEYS
      /\ \A key \in keys : LABEL_KEYS[BindingNames[key]] = key
  BY DEF BindingNames, LABEL_KEYS
<1>6. \A key \in keys : BindingNames[key] \in BindingLabelNames
  BY DEF BindingNames, BindingLabelNames
<1>7. Has(item, "evidence_level", b.provenance)
  <2>1. "evidence_level" \in DOMAIN LABEL_KEYS /\ LABEL_KEYS["evidence_level"] = "evidence_level"
    BY DEF LABEL_KEYS
  <2>2. Agrees(l, y, "evidence_level")
    BY <1>4 DEF BindingLabelNames
  <2>3. "container_id" \in DOMAIN BindingNames
    BY DEF BindingNames
  <2>4. Agrees(y, [evidence_level |-> b.provenance], "evidence_level")
    BY <1>1, <2>3, BindingLabel
  <2>5. "evidence_level" \in DOMAIN l /\ l["evidence_level"] = b.provenance
    BY <2>2, <2>4 DEF Agrees
  <2>6. "evidence_level" \in DOMAIN item /\ item["evidence_level"] = l["evidence_level"]
    BY <1>1, <2>1, <2>5, CopiedKey
  <2>7. QED
    BY <2>5, <2>6 DEF Has
<1>8. ASSUME NEW key \in keys
      PROVE  /\ key \in DOMAIN item <=> Given(b[key])
             /\ key \in DOMAIN item => item[key] = b[key]
  <2>1. PICK label : label = BindingNames[key]
    OBVIOUS
  <2>2. /\ label \in BindingLabelNames /\ label \in DOMAIN LABEL_KEYS /\ key = LABEL_KEYS[label]
        /\ key \in DOMAIN BindingNames
    BY <1>5, <1>6, <2>1
  <2>3. /\ key \in DOMAIN item <=> label \in DOMAIN l
        /\ label \in DOMAIN l => item[key] = l[label]
    BY <1>1, <2>2, CopiedKey
  <2>4. /\ label \in DOMAIN y <=> key \in Known(b)
        /\ key \in Known(b) => y[label] = b[key]
    BY <1>1, <2>1, <2>2, BindingLabel
  <2>5. key \in Known(b) <=> Given(b[key])
    BY <2>2, KnownParts
  <2>6. Agrees(l, y, label)
    BY <1>4, <2>2
  <2>7. QED
    BY <2>3, <2>4, <2>5, <2>6, Zenon DEF Agrees
<1>9. \A key \in keys : HasOnlyIf(item, key, b[key] \notin {None, ""}, b[key])
  <2>1. ASSUME NEW key \in keys
        PROVE  HasOnlyIf(item, key, b[key] \notin {None, ""}, b[key])
    BY <1>8, <2>1, Zenon DEF HasOnlyIf, Given
  <2>2. QED
    BY <2>1, Zenon
<1>10. {"container_id", "pod_uid"} \cap DOMAIN item # {}
  <2>1. PICK part \in {"container_id", "pod_uid"} : Given(b[part])
    BY <1>3, Zenon
  <2>2. part \in keys
    OBVIOUS
  <2>3. part \in DOMAIN item
    BY <1>8, <2>1, <2>2, Zenon
  <2>4. QED
    BY <2>3
<1>11. QED
  BY <1>2, <1>3, <1>7, <1>9, <1>10, Zenon DEF TrueBinding

LEMMA KernelItem ==
  ASSUME NEW o, o.kind \in Kernel, IsHappening(o), NEW id, NEW r, r = RecordOf(o, id),
         plane_b_drop_reason(r) = None, NEW producer,
         NEW occ, occ = into_plane_b_occurrence(r, producer), NEW item, item = native_runtime_item(occ)
  PROVE  /\ Has(item, "kernel_time_ns", o.time)
         /\ TrueProcess(item, o) /\ TrueFile(item, o) /\ TrueNetwork(item, o)
         /\ TrueOutcome(item, o) /\ TrueBinding(item, o.binding)
<1>1. KernelRecord(r, o, id)
  BY KernelFacts
<1>2. /\ o.time \in Nat /\ {o.ppid, o.uid} \subseteq Nat /\ o.ret \in Int /\ IsBinding(o.binding)
  BY DEF IsHappening
<1>3. Has(item, "kernel_time_ns", o.time)
  BY <1>1, <1>2, ItemTime
<1>4. TrueProcess(item, o)
  BY <1>1, <1>2, ItemProcess
<1>5. TrueFile(item, o) /\ TrueNetwork(item, o)
  BY <1>1, ItemFile, ItemNetwork
<1>6. TrueOutcome(item, o)
  BY <1>1, <1>2, ItemOutcome
<1>7. TrueBinding(item, o.binding)
  BY <1>1, <1>2, ItemBinding
<1>8. QED
  BY <1>3, <1>4, <1>5, <1>6, <1>7

GapNumbers == {"dropped_records", "dropped_reliability", "dropped_attribution", "gap_start_ns",
               "gap_end_ns"}
GapNames == GapNumbers \cup {"cause", "affected_probes"}

\* The item of a loss report.
LEMMA GapItem ==
  ASSUME NEW o, o.kind = "Gap", IsObservation(o), NEW id, NEW r, r = RecordOf(o, id), NEW producer,
         NEW occ, occ = into_plane_b_occurrence(r, producer), NEW item, item = native_runtime_item(occ)
  PROVE  TrueGap(item, o.gap)
<1>1. PICK g, x, l : g = o.gap /\ x = r.occurrence.labels /\ l = occ.labels
  OBVIOUS
<1>2. \A key \in GapNumbers : g[key] \in Nat
  <2>1. o.kind \notin Kernel /\ o.kind # "ParseErrors"
    BY DEF Kernel, Tcp
  <2>2. QED
    BY <1>1, <2>1 DEF IsObservation, GapNumbers
<1>3. /\ IsOccurrence(r.occurrence) /\ DOMAIN r.probe = ProbeFields
      /\ r.occurrence.process = Unset /\ r.occurrence.network = Unset
  <2>1. /\ IsRecord(r, id, "jalki.agent.gap", o.gap.gap_end_ns, None)
        /\ r.occurrence.process = Unset /\ r.occurrence.network = Unset
    BY GapShape
  <2>2. QED
    BY <2>1 DEF IsRecord
<1>4. x = [cause |-> g.cause, affected_probes |-> [json |-> g.affected_probes],
           dropped_records |-> Dec(g.dropped_records),
           dropped_reliability |-> Dec(g.dropped_reliability),
           dropped_attribution |-> Dec(g.dropped_attribution),
           gap_start_ns |-> Dec(g.gap_start_ns), gap_end_ns |-> Dec(g.gap_end_ns)]
  BY <1>1, GapShape
<1>5. /\ DOMAIN x = GapNames /\ x["cause"] = g["cause"]
      /\ x["affected_probes"] = [json |-> g["affected_probes"]]
  BY <1>4 DEF GapNames, GapNumbers
<1>6. \A key \in GapNumbers : x[key] = Dec(g[key])
  BY <1>4 DEF GapNumbers
<1>7. \A k \in GapNames : /\ k \notin BindingLabelNames /\ k \notin SubjectNames
                          /\ k \notin MetadataNames /\ k \notin ReferenceNames
  BY DEF GapNames, GapNumbers, BindingLabelNames, SubjectNames, MetadataNames, ReferenceNames,
         ProbeFields
<1>8. ASSUME NEW k \in GapNames
      PROVE  k \in DOMAIN l /\ l[k] = x[k]
  <2>1. PICK n, b : n = Named(r, producer).labels /\ b = Bound(r).labels
    OBVIOUS
  <2>2. Agrees(l, n, k)
    BY <1>1, <1>3, <1>7, <2>1, ProjectedLabels
  <2>3. Agrees(n, b, k)
    BY <1>3, <1>7, <2>1, SubjectLayer
  <2>4. Agrees(b, x, k)
    BY <1>1, <1>3, <1>7, <2>1, BindingLayer
  <2>5. QED
    BY <1>5, <2>2, <2>3, <2>4 DEF Agrees
<1>9. Has(item, "cause", g["cause"])
  <2>1. "cause" \in DOMAIN LABEL_KEYS /\ LABEL_KEYS["cause"] = "cause"
    BY DEF LABEL_KEYS
  <2>2. "cause" \in DOMAIN l /\ l["cause"] = g["cause"]
    BY <1>5, <1>8 DEF GapNames
  <2>3. QED
    BY <1>1, <2>1, <2>2, CopiedKey DEF Has
<1>10. Has(item, "affected_probes", g["affected_probes"])
  <2>1. "affected_probes" \in DOMAIN l /\ l["affected_probes"] = [json |-> g["affected_probes"]]
    BY <1>5, <1>8 DEF GapNames
  <2>2. l["affected_probes"].json = g["affected_probes"]
    BY <2>1
  <2>3. Probes(l) = [affected_probes |-> g["affected_probes"]]
    BY <2>1, <2>2 DEF Probes, Only
  <2>4. "affected_probes" \in LabelNames
    BY DEF LabelNames, OtherLabelNames
  <2>5. Agrees(item, LabelKeys(l), "affected_probes") /\ Agrees(LabelKeys(l), Probes(l), "affected_probes")
    BY <1>1, <2>4, ItemParts, LabelParts
  <2>6. QED
    BY <2>3, <2>5 DEF Agrees, Has
<1>11. ASSUME NEW key \in GapNumbers
       PROVE  Has(item, key, g[key])
  <2>1. key \in NUMBER_KEYS /\ key \in GapNames
    BY DEF GapNumbers, GapNames, NUMBER_KEYS
  <2>2. key \in DOMAIN l /\ l[key] = Dec(g[key]) /\ g[key] \in Nat
    BY <1>2, <1>6, <1>8, <2>1
  <2>3. PICK n \in Nat : n = g[key]
    BY <2>2
  <2>4. key \in DOMAIN item /\ item[key] = n
    BY <1>1, <2>1, <2>2, <2>3, NumberKey
  <2>5. QED
    BY <2>3, <2>4 DEF Has
<1>12. {"pid", "uid", "destination_ip"} \cap DOMAIN item = {}
  <2>1. occ.process = Unset /\ occ.network = Unset
    BY <1>3, PlaneBKeepsCore DEF SameCore
  <2>2. DOMAIN ProcessPart(occ) = {} /\ DOMAIN NetworkPart(occ) = {}
    BY <2>1 DEF ProcessPart, NetworkPart, Only
  <2>3. /\ \A k \in ProcessNames : Agrees(item, ProcessPart(occ), k)
        /\ \A k \in NetworkNames : Agrees(item, NetworkPart(occ), k)
    BY ItemParts
  <2>4. \A k \in ProcessNames \cup NetworkNames : k \notin DOMAIN item
    BY <2>2, <2>3 DEF Agrees
  <2>5. QED
    BY <2>4 DEF ProcessNames, NetworkNames
<1>13. QED
  BY <1>1, <1>9, <1>10, <1>11, <1>12 DEF TrueGap, GapNumbers

\* The report of parse errors stays on the node.
LEMMA ParseErrorsStay ==
  ASSUME NEW o, o.kind = "ParseErrors", NEW id
  PROVE  plane_b_drop_reason(RecordOf(o, id)) # None
<1>1. PICK r : r = RecordOf(o, id)
  OBVIOUS
<1>2. r.occurrence.type = "jalki.probe.parse_errors" /\ r.binding = None
  BY <1>1, ParseErrorsShape DEF IsRecord
<1>3. ~is_agent_record(r)
  BY <1>2 DEF is_agent_record, AgentTypes
<1>4. plane_b_drop_reason(r) = "unknown"
  BY <1>2, <1>3 DEF plane_b_drop_reason
<1>5. QED
  BY <1>1, <1>4, NoneIsNoValue DEF Words

\* What an item of the store was made of.
LEMMA StoredItem ==
  ASSUME SeenIsReal, StoreIsHonest, NEW item \in Items
  PROVE  \E id \in Ids : Projected(id) /\ item = TheItem(id) /\ item.event_id = id
<1>1. PICK k \in DOMAIN store : item = store[k]
  BY DEF Items
<1>2. PICK id \in Ids : Sent(id) /\ item = TheItem(id)
  BY <1>1 DEF StoreIsHonest
<1>3. QED
  BY <1>2, IdFacts DEF Sent

\* An item Vartio holds says what happened and nothing else, however often its batch
\* was split, resent or replayed: struct, decoder, normaliser, projection and wire
\* shape only rename and convert.
THEOREM DeliveredWireIsTrue == Spec => []WireIsTrue
<1>1. ASSUME Honest
      PROVE  WireIsTrue
  <2>1. SeenIsReal /\ StoreIsHonest
    BY <1>1 DEF Honest
  <2>2. ASSUME NEW item \in Items, NEW o, o = seen[item.event_id].o
        PROVE  /\ o.kind \in Kernel \cup {"Gap"}
               /\ o.kind = "Gap" => TrueGap(item, o.gap)
               /\ o.kind \in Kernel =>
                    /\ Has(item, "kernel_time_ns", o.time)
                    /\ TrueProcess(item, o) /\ TrueFile(item, o) /\ TrueNetwork(item, o)
                    /\ TrueOutcome(item, o) /\ TrueBinding(item, o.binding)
    <3>1. PICK id \in Ids : Projected(id) /\ item = TheItem(id) /\ item.event_id = id
      BY <2>1, <2>2, StoredItem
    <3>2. o = seen[id].o /\ IsObservation(o)
      BY <2>1, <2>2, <3>1, SeenFacts
    <3>3. PICK r, producer, occ : /\ r = RecordOf(o, id) /\ producer = ProducerOf(id)
                                  /\ occ = into_plane_b_occurrence(r, producer)
      OBVIOUS
    <3>4. plane_b_drop_reason(r) = None /\ item = native_runtime_item(occ)
      BY <3>1, <3>2, <3>3 DEF Projected, TheItem, TheOccurrence, TheRecord
    <3>5. o.kind # "ParseErrors"
      BY <3>3, <3>4, ParseErrorsStay
    <3>6. o.kind = "Gap" => TrueGap(item, o.gap)
      BY <3>2, <3>3, <3>4, GapItem
    <3>7. o.kind \in Kernel => IsHappening(o)
      BY <3>2 DEF IsObservation, Kernel, Tcp
    <3>8. o.kind \in Kernel =>
            /\ Has(item, "kernel_time_ns", o.time)
            /\ TrueProcess(item, o) /\ TrueFile(item, o) /\ TrueNetwork(item, o)
            /\ TrueOutcome(item, o) /\ TrueBinding(item, o.binding)
      BY <3>3, <3>4, <3>7, KernelItem
    <3>9. o.kind \in Kernel \cup {"Gap"}
      BY <3>2, <3>5 DEF IsObservation
    <3>10. QED
      BY <3>6, <3>8, <3>9
  <2>3. QED
    BY <2>2 DEF WireIsTrue
<1>2. QED
  BY <1>1, AlwaysHonest, PTL

-----------------------------------------------------------------------------
(* The runtime subject of an item. *)

\* A node identity that can be part of a subject.
Proper(identity) == identity \notin Untrimmed \cup {""}

\* What apply_runtime_subject decides on.
HasIdentity(occ, producer) ==
  /\ Label(occ.labels, "runtime_identity_method") = "task_start_boottime_btf_v1"
  /\ None \notin {producer.node_identity, producer.boot_id}

SubjectOf(occ, producer) ==
  RuntimeSubjectV1(producer.node_identity, producer.boot_id, ParseU64(occ.labels.host_tgid),
                   ParseU64(occ.labels.leader_start_boottime_ns))

LEMMA SubjectMissing ==
  ASSUME NEW occ, NEW producer, ~HasIdentity(occ, producer) \/ SubjectOf(occ, producer) = Unset
  PROVE  apply_runtime_subject(occ, producer) = occ
BY Zenon DEF apply_runtime_subject, HasIdentity, SubjectOf

LEMMA SubjectWritten ==
  ASSUME NEW occ, IsOccurrence(occ), NEW producer, HasIdentity(occ, producer),
         NEW subject, subject = SubjectOf(occ, producer), subject # Unset
  PROVE  Has(apply_runtime_subject(occ, producer).labels, "runtime_subject_id", subject)
<1>1. PICK f : f = [runtime_subject_id |-> subject, node_identity |-> producer.node_identity,
                    boot_id |-> producer.boot_id, runtime_canonicalization_version |-> Dec(1)]
  OBVIOUS
<1>2. apply_runtime_subject(occ, producer) = [occ EXCEPT !.labels = With(occ.labels, f)]
  BY <1>1, Zenon DEF apply_runtime_subject, HasIdentity, SubjectOf
<1>3. apply_runtime_subject(occ, producer).labels = With(occ.labels, f)
  BY <1>2 DEF IsOccurrence, OccFields
<1>4. "runtime_subject_id" \in DOMAIN f /\ f["runtime_subject_id"] = subject
  BY <1>1
<1>5. Agrees(With(occ.labels, f), f, "runtime_subject_id")
  BY <1>4, AgreesOver
<1>6. QED
  BY <1>3, <1>4, <1>5 DEF Agrees, Has

LEMMA SubjectTuple ==
  ASSUME NEW node, NEW b, NEW tgid \in Nat \ {0}, NEW start \in Nat \ {0}
  PROVE  /\ Proper(node) => RuntimeSubjectV1(node, b, tgid, start) = <<node, b, tgid, start, 1>>
         /\ Proper(node) => RuntimeSubjectV1(node, b, tgid, start) # Unset
         /\ ~Proper(node) => RuntimeSubjectV1(node, b, tgid, start) = Unset
<1>1. tgid # 0 /\ start # 0
  OBVIOUS
<1>2. Proper(node) => RuntimeSubjectV1(node, b, tgid, start) = <<node, b, tgid, start, 1>>
  BY <1>1, Zenon DEF Proper, RuntimeSubjectV1
<1>3. ~Proper(node) => RuntimeSubjectV1(node, b, tgid, start) = Unset
  BY Zenon DEF Proper, RuntimeSubjectV1
<1>4. <<node, b, tgid, start, 1>> # Unset
  BY DEF Unset
<1>5. QED
  BY <1>2, <1>3, <1>4

\* A label no layer but the subject's writes is on the wire as that layer left it.
LEMMA SubjectKey ==
  ASSUME NEW r, IsOccurrence(r.occurrence), DOMAIN r.probe = ProbeFields, NEW producer,
         NEW occ, occ = into_plane_b_occurrence(r, producer), NEW item, item = native_runtime_item(occ),
         NEW p, NEW value, HasOnlyIf(Named(r, producer).labels, "runtime_subject_id", p, value)
  PROVE  HasOnlyIf(item, "runtime_subject_id", p, value)
<1>1. PICK l, n : l = occ.labels /\ n = Named(r, producer).labels
  OBVIOUS
<1>2. "runtime_subject_id" \notin MetadataNames \cup ReferenceNames
  BY LayersAreDisjoint DEF SubjectNames
<1>3. Agrees(l, n, "runtime_subject_id")
  BY <1>1, <1>2, ProjectedLabels
<1>4. "runtime_subject_id" \in DOMAIN LABEL_KEYS /\ LABEL_KEYS["runtime_subject_id"] = "runtime_subject_id"
  BY DEF LABEL_KEYS
<1>5. /\ "runtime_subject_id" \in DOMAIN item <=> "runtime_subject_id" \in DOMAIN l
      /\ "runtime_subject_id" \in DOMAIN l => item["runtime_subject_id"] = l["runtime_subject_id"]
  BY <1>1, <1>4, CopiedKey
<1>6. QED
  BY <1>1, <1>3, <1>5 DEF Agrees, HasOnlyIf

\* Evidence without a method of identity gets no subject.
LEMMA NoSubject ==
  ASSUME NEW r, IsOccurrence(r.occurrence), NEW producer,
         {"runtime_identity_method", "runtime_subject_id"} \cap DOMAIN r.occurrence.labels = {}
  PROVE  "runtime_subject_id" \notin DOMAIN Named(r, producer).labels
<1>1. PICK x, b : x = r.occurrence.labels /\ b = Bound(r)
  OBVIOUS
<1>2. "runtime_identity_method" \notin BindingLabelNames /\ "runtime_subject_id" \notin BindingLabelNames
  BY DEF BindingLabelNames
<1>3. Agrees(b.labels, x, "runtime_identity_method") /\ Agrees(b.labels, x, "runtime_subject_id")
  BY <1>1, <1>2, BindingLayer
<1>4. "runtime_identity_method" \notin DOMAIN b.labels /\ "runtime_subject_id" \notin DOMAIN b.labels
  BY <1>1, <1>3 DEF Agrees
<1>5. Label(b.labels, "runtime_identity_method") = None
  BY <1>4 DEF Label
<1>6. ~HasIdentity(b, producer)
  BY <1>5, NoneIsNoValue DEF HasIdentity, Words
<1>7. Named(r, producer) = b
  BY <1>1, <1>6, SubjectMissing DEF Named
<1>8. QED
  BY <1>4, <1>7

\* The producer's identity, which is not there if it is empty.
Identity(node) == IF node = "" THEN None ELSE node

LEMMA IdentityFacts ==
  ASSUME NEW node
  PROVE  /\ Proper(node) => Identity(node) = node
         /\ Identity(node) = None \/ Identity(node) = node
BY Zenon DEF Identity, Proper

\* An exec whose task offsets are known names its lifetime, under a proper identity.
LEMMA KernelSubject ==
  ASSUME NEW o, NEW r, NEW id, KernelRecord(r, o, id), {o.tgid, o.start} \subseteq Nat \ {0},
         NEW node, node # None, NEW time \in Nat, NEW producer,
         producer.node_identity = Identity(node), producer.boot_id = time
  PROVE  HasOnlyIf(Named(r, producer).labels, "runtime_subject_id",
                   o.kind = "ProcessExec" /\ o.offsets /\ Proper(node),
                   <<node, time, o.tgid, o.start, 1>>)
<1>1. /\ IsOccurrence(r.occurrence) /\ KernelLifetime(r.occurrence.labels, o)
      /\ DOMAIN r.occurrence.labels \subseteq KernelLabelNames
  BY DEF KernelRecord, KernelLabels
<1>2. PICK x, b, tgid, start : /\ x = r.occurrence.labels /\ b = Bound(r)
                               /\ tgid = o.tgid /\ start = o.start
  OBVIOUS
<1>3. "runtime_subject_id" \notin DOMAIN x
  BY <1>1, <1>2, LayersAreDisjoint DEF SubjectNames
<1>4. CASE ~(o.kind = "ProcessExec" /\ o.offsets)
  <2>1. "runtime_identity_method" \notin DOMAIN x
    BY <1>1, <1>2, <1>4 DEF KernelLifetime
  <2>2. "runtime_subject_id" \notin DOMAIN Named(r, producer).labels
    BY <1>1, <1>2, <1>3, <2>1, NoSubject
  <2>3. QED
    BY <1>4, <2>2 DEF HasOnlyIf
<1>5. CASE o.kind = "ProcessExec" /\ o.offsets
  <2>1. /\ {"runtime_identity_method", "host_tgid", "leader_start_boottime_ns"} \subseteq DOMAIN x
        /\ x["runtime_identity_method"] = "task_start_boottime_btf_v1"
        /\ x["host_tgid"] = Dec(tgid) /\ x["leader_start_boottime_ns"] = Dec(start)
    BY <1>1, <1>2, <1>5 DEF KernelLifetime
  <2>2. \A k \in {"runtime_identity_method", "host_tgid", "leader_start_boottime_ns",
                  "runtime_subject_id"} : k \notin BindingLabelNames
    BY DEF BindingLabelNames
  <2>3. \A k \in {"runtime_identity_method", "host_tgid", "leader_start_boottime_ns",
                  "runtime_subject_id"} : Agrees(b.labels, x, k)
    BY <1>1, <1>2, <2>2, BindingLayer
  <2>4. /\ "runtime_identity_method" \in DOMAIN b.labels
        /\ b.labels["runtime_identity_method"] = "task_start_boottime_btf_v1"
        /\ b.labels["host_tgid"] = Dec(tgid) /\ b.labels["leader_start_boottime_ns"] = Dec(start)
        /\ "runtime_subject_id" \notin DOMAIN b.labels
    BY <1>3, <2>1, <2>3 DEF Agrees
  <2>5. Label(b.labels, "runtime_identity_method") = "task_start_boottime_btf_v1"
    BY <2>4 DEF Label
  <2>6. tgid \in Nat \ {0} /\ start \in Nat \ {0}
    BY <1>2
  <2>7. \A n \in Nat : ParseU64(Dec(n)) = n
    BY DEF ParseU64, Dec
  <2>8. SubjectOf(b, producer) = RuntimeSubjectV1(producer.node_identity, time, tgid, start)
    BY <2>4, <2>6, <2>7 DEF SubjectOf
  <2>9. CASE Proper(node)
    <3>1. producer.node_identity = node
      BY <2>9, IdentityFacts
    <3>2. time # None
      BY NoneIsNoValue
    <3>3. HasIdentity(b, producer)
      BY <2>5, <3>1, <3>2 DEF HasIdentity
    <3>4. PICK subject : subject = SubjectOf(b, producer)
      OBVIOUS
    <3>5. subject = <<node, time, tgid, start, 1>> /\ subject # Unset
      <4>1. subject = RuntimeSubjectV1(node, time, tgid, start)
        BY <2>8, <3>1, <3>4
      <4>2. /\ RuntimeSubjectV1(node, time, tgid, start) = <<node, time, tgid, start, 1>>
            /\ RuntimeSubjectV1(node, time, tgid, start) # Unset
        BY <2>6, <2>9, SubjectTuple, Zenon
      <4>3. QED
        BY <4>1, <4>2, Zenon
    <3>6. IsOccurrence(b)
      BY <1>1, <1>2, BindingKeepsCore DEF Bound, SameCore
    <3>7. Has(Named(r, producer).labels, "runtime_subject_id", subject)
      BY <1>2, <3>3, <3>4, <3>5, <3>6, SubjectWritten DEF Named
    <3>8. QED
      BY <1>2, <1>5, <2>9, <3>5, <3>7 DEF Has, HasOnlyIf
  <2>10. CASE ~Proper(node)
    <3>1. ~HasIdentity(b, producer) \/ SubjectOf(b, producer) = Unset
      <4>1. CASE producer.node_identity = None
        BY <4>1 DEF HasIdentity
      <4>2. CASE producer.node_identity = node
        BY <2>6, <2>8, <2>10, <4>2, SubjectTuple
      <4>3. QED
        BY <4>1, <4>2, IdentityFacts
    <3>2. Named(r, producer) = b
      BY <1>2, <3>1, SubjectMissing DEF Named
    <3>3. QED
      BY <2>4, <2>10, <3>2 DEF HasOnlyIf
  <2>11. QED
    BY <2>9, <2>10
<1>6. QED
  BY <1>4, <1>5

LEMMA ItemSubject ==
  ASSUME SeenIsReal, NEW id \in Ids, Projected(id), NEW o, o = seen[id].o, NEW time, time = seen[id].boot
  PROVE  HasOnlyIf(TheItem(id), "runtime_subject_id",
                   o.kind = "ProcessExec" /\ o.offsets /\ Proper(config.node_identity),
                   <<config.node_identity, time, o.tgid, o.start, 1>>)
<1>1. IsObservation(o) /\ time \in Nat
  BY SeenFacts
<1>2. PICK node, r, producer, occ, item :
        /\ node = config.node_identity /\ r = RecordOf(o, id) /\ producer = ProducerOf(id)
        /\ occ = into_plane_b_occurrence(r, producer) /\ item = native_runtime_item(occ)
  OBVIOUS
<1>3. plane_b_drop_reason(r) = None /\ item = TheItem(id)
  BY <1>2 DEF Projected, TheItem, TheOccurrence, TheRecord
<1>4. node # None
  BY <1>2, ConfigsAreDaemons DEF SeenIsReal
<1>5. producer.node_identity = Identity(node) /\ producer.boot_id = time
  BY <1>2, Zenon DEF ProducerOf, Producer, Identity
<1>6. CASE o.kind \in Kernel /\ IsHappening(o)
  <2>1. KernelRecord(r, o, id)
    BY <1>2, <1>6, KernelFacts
  <2>2. {o.tgid, o.start} \subseteq Nat \ {0}
    BY <1>6 DEF IsHappening
  <2>3. IsOccurrence(r.occurrence) /\ DOMAIN r.probe = ProbeFields
    BY <2>1 DEF KernelRecord
  <2>4. HasOnlyIf(Named(r, producer).labels, "runtime_subject_id",
                  o.kind = "ProcessExec" /\ o.offsets /\ Proper(node),
                  <<node, time, o.tgid, o.start, 1>>)
    BY <1>1, <1>4, <1>5, <2>1, <2>2, KernelSubject
  <2>5. HasOnlyIf(item, "runtime_subject_id", o.kind = "ProcessExec" /\ o.offsets /\ Proper(node),
                  <<node, time, o.tgid, o.start, 1>>)
    BY <1>2, <2>3, <2>4, SubjectKey
  <2>6. QED
    BY <1>2, <1>3, <2>5
<1>7. CASE o.kind = "Gap"
  <2>1. /\ IsRecord(r, id, "jalki.agent.gap", o.gap.gap_end_ns, None)
        /\ DOMAIN r.occurrence.labels = GapNames
    <3>1. PICK g, x : g = o.gap /\ x = r.occurrence.labels
      OBVIOUS
    <3>2. x = [cause |-> g.cause, affected_probes |-> [json |-> g.affected_probes],
               dropped_records |-> Dec(g.dropped_records),
               dropped_reliability |-> Dec(g.dropped_reliability),
               dropped_attribution |-> Dec(g.dropped_attribution),
               gap_start_ns |-> Dec(g.gap_start_ns), gap_end_ns |-> Dec(g.gap_end_ns)]
      BY <1>2, <1>7, <3>1, GapShape
    <3>3. DOMAIN x = GapNames
      BY <3>2 DEF GapNames, GapNumbers
    <3>4. IsRecord(r, id, "jalki.agent.gap", o.gap.gap_end_ns, None)
      BY <1>2, <1>7, GapShape
    <3>5. QED
      BY <3>1, <3>3, <3>4
  <2>2. IsOccurrence(r.occurrence) /\ DOMAIN r.probe = ProbeFields
    BY <2>1 DEF IsRecord
  <2>3. {"runtime_identity_method", "runtime_subject_id"} \cap DOMAIN r.occurrence.labels = {}
    BY <2>1 DEF GapNames, GapNumbers
  <2>4. "runtime_subject_id" \notin DOMAIN Named(r, producer).labels
    BY <2>2, <2>3, NoSubject
  <2>5. HasOnlyIf(Named(r, producer).labels, "runtime_subject_id", FALSE, None)
    BY <2>4 DEF HasOnlyIf
  <2>6. HasOnlyIf(item, "runtime_subject_id", FALSE, None)
    BY <1>2, <2>2, <2>5, SubjectKey
  <2>7. QED
    BY <1>3, <1>7, <2>6 DEF HasOnlyIf
<1>8. o.kind # "ParseErrors"
  BY <1>2, <1>3, ParseErrorsStay
<1>9. QED
  BY <1>1, <1>6, <1>7, <1>8 DEF IsObservation

\* A runtime subject names one process lifetime, over execs, reuse of a pid, a
\* reboot that repeats pid and start time, and replay of an older boot's evidence;
\* and evidence with all the parts of an identity has one.
THEOREM DeliveredSubjectNamesLifetime == Spec => []SubjectNamesLifetime
<1>1. ASSUME Honest
      PROVE  SubjectNamesLifetime
  <2> DEFINE Carries(i) == "runtime_subject_id" \in DOMAIN i
             Observed(i) == seen[i.event_id].o
             BootOf(i) == seen[i.event_id].boot
  <2>1. SeenIsReal /\ StoreIsHonest
    BY <1>1 DEF Honest
  <2>2. PICK s \in Scenarios : seen \in Seq([o : Observations(s), boot : Nat])
    BY <2>1 DEF SeenIsReal
  <2>3. ASSUME NEW i \in Items
        PROVE  /\ Observed(i) \in Observations(s)
               /\ HasOnlyIf(i, "runtime_subject_id",
                            /\ Observed(i).kind = "ProcessExec" /\ Observed(i).offsets
                            /\ Proper(config.node_identity),
                            <<config.node_identity, BootOf(i), Observed(i).tgid, Observed(i).start, 1>>)
    <3>1. PICK id \in Ids : Projected(id) /\ i = TheItem(id) /\ i.event_id = id
      BY <2>1, StoredItem
    <3>2. PICK o, time : o = seen[id].o /\ time = seen[id].boot
      OBVIOUS
    <3>3. Observed(i) = o /\ BootOf(i) = time
      BY <3>1, <3>2
    <3>4. seen[id] \in [o : Observations(s), boot : Nat]
      BY <2>2, SequenceFacts DEF Ids
    <3>5. o \in Observations(s)
      BY <3>2, <3>4
    <3>6. HasOnlyIf(TheItem(id), "runtime_subject_id",
                    o.kind = "ProcessExec" /\ o.offsets /\ Proper(config.node_identity),
                    <<config.node_identity, time, o.tgid, o.start, 1>>)
      BY <2>1, <3>1, <3>2, ItemSubject
    <3> HIDE DEF Observed, BootOf
    <3>7. QED
      BY <3>1, <3>3, <3>5, <3>6
  <2>4. ASSUME NEW i \in Items, NEW j \in Items, Carries(i), Carries(j)
        PROVE  i.runtime_subject_id = j.runtime_subject_id <=>
                 BootOf(i) = BootOf(j) /\ Observed(i).life = Observed(j).life
    <3>1. PICK o, p, m, n, node : /\ o = Observed(i) /\ p = Observed(j) /\ m = BootOf(i) /\ n = BootOf(j)
                                  /\ node = config.node_identity
      OBVIOUS
    <3>2. /\ o.kind = "ProcessExec" /\ o \in Observations(s)
          /\ i["runtime_subject_id"] = <<node, m, o.tgid, o.start, 1>>
      BY <2>3, <2>4, <3>1 DEF HasOnlyIf
    <3>3. /\ p.kind = "ProcessExec" /\ p \in Observations(s)
          /\ j["runtime_subject_id"] = <<node, n, p.tgid, p.start, 1>>
      BY <2>3, <2>4, <3>1 DEF HasOnlyIf
    <3>4. o.life = p.life <=> o.tgid = p.tgid /\ o.start = p.start
      BY <3>2, <3>3, ScenariosAreReal
    <3>5. <<node, m, o.tgid, o.start, 1>> = <<node, n, p.tgid, p.start, 1>> <=>
            m = n /\ o.tgid = p.tgid /\ o.start = p.start
      OBVIOUS
    <3> HIDE DEF Observed, BootOf
    <3>6. QED
      BY <3>1, <3>2, <3>3, <3>4, <3>5
  <2>5. ASSUME NEW i \in Items
        PROVE  Carries(i) <=> /\ Observed(i).kind = "ProcessExec" /\ Observed(i).offsets
                              /\ config.node_identity \notin Untrimmed \cup {""}
    BY <2>3, Zenon DEF HasOnlyIf, Proper
  <2>6. QED
    BY <2>4, <2>5, Zenon DEF SubjectNamesLifetime
<1>2. QED
  BY <1>1, AlwaysHonest, PTL
=============================================================================
