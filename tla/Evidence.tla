------------------------------ MODULE Evidence ------------------------------
(***************************************************************************)
(* What a thing the kernel saw is turned into on its way to a sink: the    *)
(* struct an eBPF program writes (jalki-ebpf, jalki-common), the typed     *)
(* event (jalki-evidence/src/event.rs), the occurrence (normalize.rs), the *)
(* record with its binding and the producer's metadata (evidence.rs), and  *)
(* the item on the wire (jalki-vartio-sink/src/native.rs).                 *)
(*                                                                         *)
(* A happening is what really took place.  The name of a file or of an     *)
(* executable is [head, long]: its first 255 bytes, and whether it goes on *)
(* behind them.  tgid, tid, comm, uid and cgroup are those of the task     *)
(* that runs when the program is called, owner is the process the event is *)
(* about: a retransmission comes from a timer, in whatever task the timer  *)
(* interrupted, and its owner is the process of the socket.  Labels and items are functions  *)
(* from the names present to their values.  A label is text: Dec(n) stands *)
(* for the digits of n, and is parsed back where the code parses it.  An   *)
(* address is a sequence of four words; an IPv4 address is one word.       *)
(***************************************************************************)
EXTENDS Integers, Sequences, FiniteSets

CONSTANTS
  None,       \* an Option's None, or no value
  NotUtf8     \* bytes of a name or a command that are not UTF-8, also when only
              \* a character of several bytes was cut

\* What is written where there may be nothing: outcomes, kinds of references, the
\* method behind an identity and the reason for dropping a record.
Words == {"success", "failure", "file", "executable", "task_start_boottime_btf_v1", "unknown"}

ASSUME NoneIsNoValue == None \notin Words \cup Int

With(f, g) == [x \in DOMAIN f \cup DOMAIN g |-> IF x \in DOMAIN g THEN g[x] ELSE f[x]]
Only(p, f) == IF p THEN f ELSE <<>>     \* entries inserted under a condition
Entry(key, value) == [k \in {key} |-> value]
Unset == <<>>       \* an Option of a record or of a tuple that is None
-----------------------------------------------------------------------------
(* The structs the programs write. *)

AF_INET == 2
AF_INET6 == 10

\* The bytes of a port in memory, read as a little-endian u16: skc_dport is kept
\* in network order.
Swap16(port) == (port % 256) * 256 + port \div 256

\* The sock's addresses in a zeroed buffer of 16 bytes.
read_addrs(h) ==
  [src |-> IF h.family = AF_INET6 THEN h.src ELSE <<h.src[1], 0, 0, 0>>,
   dst |-> IF h.family = AF_INET6 THEN h.dst ELSE <<h.dst[1], 0, 0, 0>>]

\* Offsets of task_struct that BTF did not give are 0: the program reads nothing.
read_ppid(h) == IF h.offsets THEN h.ppid ELSE 0
read_leader_start_boottime_ns(h) == IF h.offsets THEN h.start ELSE 0

TcpRaw(h) ==
  [timestamp_ns |-> h.time, pid |-> h.tgid, tid |-> h.tid, cgroup_id |-> h.cgroup,
   comm |-> h.comm, src_addr |-> read_addrs(h).src, dst_addr |-> read_addrs(h).dst,
   src_port |-> h.src_port, dst_port |-> Swap16(h.dst_port), addr_family |-> h.family, netns |-> h.netns]

\* A path has 256 bytes.  bpf_d_path writes nothing where a path does not fit, and
\* then nothing is emitted; bpf_probe_read_user_str cuts a requested path.  Both
\* end what they write with a NUL.
FileRaw(h, flags) ==
  [timestamp_ns |-> h.time, pid |-> h.tgid, uid |-> h.uid, cgroup_id |-> h.cgroup,
   comm |-> h.comm, ret |-> h.ret, flags |-> flags, path |-> [text |-> h.path.head, nul |-> TRUE]]

\* sched_process_exec fires after a successful exec; argv is never read, and the
\* name is cut by bpf_probe_read_kernel_str to a buffer of 256 bytes.
ProcessExecRaw(h) ==
  [timestamp_ns |-> h.time, pid |-> h.tgid, tid |-> h.tid, ppid |-> read_ppid(h),
   uid |-> h.uid, gid |-> h.gid, cgroup_id |-> h.cgroup, ret |-> 0,
   comm |-> h.comm, filename |-> h.path.head, argv_hash |-> 0,
   leader_start_boottime_ns |-> read_leader_start_boottime_ns(h)]

TcpConnectRaw(h) == With(TcpRaw(h), [ret |-> h.ret])

\* skc_num is cleared before tcp_close returns, and the duration is not measured.
TcpCloseRaw(h) == With(TcpRaw(h), [src_port |-> 0, bytes |-> h.bytes, duration_ns |-> 0])

\* The process is that of the interrupted task.
TcpRetransmitRaw(h) == With(TcpRaw(h), [state |-> h.state])

Raw(h) ==
  CASE h.kind = "ProcessExec" -> ProcessExecRaw(h)
    [] h.kind = "FileOpen" -> FileRaw(h, h.flags)
    [] h.kind = "FileOpenAttempt" -> FileRaw(h, 0)
    [] h.kind = "TcpConnect" -> TcpConnectRaw(h)
    [] h.kind = "TcpClose" -> TcpCloseRaw(h)
    [] h.kind = "TcpRetransmit" -> TcpRetransmitRaw(h)

-----------------------------------------------------------------------------
(* Decoding. *)

\* nul_terminated_str: what is not UTF-8 reads as the empty string.
Str(name) == IF name = NotUtf8 THEN "" ELSE name

path_truncated(buffer) == ~buffer.nul

ip_from(addr, family) == IF family = AF_INET6 THEN addr ELSE <<addr[1]>>

\* Mutant: the port is taken as it lies in memory.
TcpEvent_hostorder(raw) ==
  [observed_at_ns |-> raw.timestamp_ns, pid |-> raw.pid, tid |-> raw.tid,
   cgroup_id |-> raw.cgroup_id, comm |-> Str(raw.comm),
   src_ip |-> ip_from(raw.src_addr, raw.addr_family),
   dst_ip |-> ip_from(raw.dst_addr, raw.addr_family),
   src_port |-> raw.src_port, dst_port |-> raw.dst_port, netns |-> raw.netns]

TcpEvent(raw) ==
  [observed_at_ns |-> raw.timestamp_ns, pid |-> raw.pid, tid |-> raw.tid,
   cgroup_id |-> raw.cgroup_id, comm |-> Str(raw.comm),
   src_ip |-> ip_from(raw.src_addr, raw.addr_family),
   dst_ip |-> ip_from(raw.dst_addr, raw.addr_family),
   src_port |-> raw.src_port, dst_port |-> Swap16(raw.dst_port), netns |-> raw.netns]

TcpStates == <<"ESTABLISHED", "SYN_SENT", "SYN_RECV", "FIN_WAIT1", "FIN_WAIT2", "TIME_WAIT",
               "CLOSE", "CLOSE_WAIT", "LAST_ACK", "LISTEN", "CLOSING">>
TcpState(byte) == IF byte \in DOMAIN TcpStates THEN TcpStates[byte] ELSE "UNKNOWN"

FileOpenEvent(raw) ==
  [observed_at_ns |-> raw.timestamp_ns, pid |-> raw.pid, uid |-> raw.uid,
   cgroup_id |-> raw.cgroup_id, comm |-> Str(raw.comm), ret |-> raw.ret, flags |-> raw.flags,
   path |-> Str(raw.path.text), path_truncated |-> path_truncated(raw.path)]

ProcessExecEvent(raw) ==
  With(raw, [observed_at_ns |-> raw.timestamp_ns, comm |-> Str(raw.comm),
             filename |-> Str(raw.filename)])

TcpConnectEvent(raw) == With(TcpEvent(raw), [ret |-> raw.ret])
TcpCloseEvent(raw) == With(TcpEvent(raw), [bytes |-> raw.bytes, duration_ns |-> raw.duration_ns])
TcpRetransmitEvent(raw) == With(TcpEvent(raw), [state |-> TcpState(raw.state)])

decode_event(kind, raw) ==
  CASE kind = "ProcessExec" -> ProcessExecEvent(raw)
    [] kind \in {"FileOpen", "FileOpenAttempt"} -> FileOpenEvent(raw)
    [] kind = "TcpConnect" -> TcpConnectEvent(raw)
    [] kind = "TcpClose" -> TcpCloseEvent(raw)
    [] kind = "TcpRetransmit" -> TcpRetransmitEvent(raw)

-----------------------------------------------------------------------------
(* Normalisation. *)

Dec(n) == [dec |-> n]
ParseU64(text) == IF text.dec >= 0 THEN text.dec ELSE None
ParseI64(text) == text.dec
Label(labels, name) == IF name \in DOMAIN labels THEN labels[name] ELSE None

\* An occurrence, with what its builders leave unset.  The source, the entities
\* and the blocks no probe fills are left out; correlation keys are a set.
Occurrence(id, type, cluster) ==
  [id |-> id, type |-> type, cluster |-> cluster, severity |-> "Info", outcome |-> None,
   namespace |-> None, error |-> None, correlation_keys |-> {}, labels |-> <<>>,
   process |-> Unset, network |-> Unset, duration_us |-> None]

succeeded(e) == e.ret = 0
OutcomeOf(e) == IF succeeded(e) THEN "success" ELSE "failure"

\* errno_name: a number for each name, so the number stands for the name.
errno_name(ret) == Dec(-ret)

ProcessData(e, ppid, command, uid) ==
  [pid |-> e.pid, ppid |-> ppid, command |-> command, uid |-> uid]

ErrnoLabels(e) == [errno |-> errno_name(e.ret), errno_num |-> Dec(e.ret)]
TruncatedLabel(e) == Only(e.path_truncated, [path_truncated |-> "true"])

FileOpenOccurrence(e, id, cluster) ==
  [Occurrence(id, "kernel.file.open", cluster) EXCEPT
     !.outcome = OutcomeOf(e),
     !.process = ProcessData(e, None, e.comm, e.uid),
     !.correlation_keys = {<<"process", e.pid>>},
     !.labels =
       With(With([result |-> IF succeeded(e) THEN "allowed" ELSE "denied",
                  flags |-> Dec(e.flags), cgroup_id |-> Dec(e.cgroup_id),
                  coverage |-> "lsm_gated", resource_ref_kind |-> "file",
                  resource_ref_id |-> e.path],
                 Only(~succeeded(e), ErrnoLabels(e))),
            TruncatedLabel(e))]

\* The string a failed open asked for is not the name of a file.
to_open_attempt_occurrence(e, id, cluster) ==
  [Occurrence(id, "kernel.file.open_attempt", cluster) EXCEPT
     !.outcome = "failure",
     !.process = ProcessData(e, None, e.comm, e.uid),
     !.correlation_keys = {<<"process", e.pid>>},
     !.labels =
       With(With([result |-> "failed", cgroup_id |-> Dec(e.cgroup_id),
                  requested_path |-> e.path, path_resolution |-> "unresolved"],
                 ErrnoLabels(e)),
            TruncatedLabel(e))]

ProcessExecOccurrence(e, id, cluster) ==
  [Occurrence(id, "kernel.process.exec", cluster) EXCEPT
     !.outcome = OutcomeOf(e),
     !.process = ProcessData(e, IF e.ppid = 0 THEN None ELSE e.ppid, e.filename, e.uid),
     !.correlation_keys = {<<"process", e.pid>>},
     !.labels =
       With([cgroup_id |-> Dec(e.cgroup_id), gid |-> Dec(e.gid), host_tgid |-> Dec(e.pid),
             host_tid |-> Dec(e.tid), resource_ref_kind |-> "executable",
             resource_ref_id |-> e.filename, argv_hash |-> Dec(e.argv_hash)],
            Only(e.leader_start_boottime_ns # 0,
                 [leader_start_boottime_ns |-> Dec(e.leader_start_boottime_ns),
                  runtime_identity_method |-> "task_start_boottime_btf_v1"]))]

\* What the three TCP probes share.  Their events carry no uid; `bytes` is what
\* was sent and received.
TcpOccurrence(e, id, type, cluster) ==
  [Occurrence(id, type, cluster) EXCEPT
     !.process = ProcessData(e, None, e.comm, None),
     !.network = [src_ip |-> e.src_ip, dst_ip |-> e.dst_ip, src_port |-> e.src_port,
                  dst_port |-> e.dst_port, bytes |-> None],
     !.correlation_keys = {<<"connection", e.src_ip, e.src_port, e.dst_ip, e.dst_port>>},
     !.labels = [cgroup_id |-> Dec(e.cgroup_id), netns |-> Dec(e.netns)]]

TcpConnectOccurrence(e, id, cluster) ==
  [TcpOccurrence(e, id, "kernel.tcp.connect", cluster) EXCEPT
     !.severity = IF succeeded(e) THEN "Info" ELSE "Warning",
     !.outcome = OutcomeOf(e),
     !.labels = With(@, Only(~succeeded(e), [errno_num |-> Dec(e.ret)])),
     !.error = IF succeeded(e) THEN None ELSE errno_name(e.ret)]

TcpCloseOccurrence(e, id, cluster) ==
  [TcpOccurrence(e, id, "kernel.tcp.close", cluster) EXCEPT
     !.outcome = "success",
     !.network.bytes = e.bytes,
     !.duration_us = IF e.duration_ns > 0 THEN e.duration_ns \div 1000 ELSE None]

TcpRetransmitOccurrence(e, id, cluster) ==
  [TcpOccurrence(e, id, "kernel.tcp.retransmit", cluster) EXCEPT
     !.severity = "Warning", !.outcome = "failure",
     !.labels = With(@, [tcp_state |-> e.state])]

to_occurrence(kind, e, id, cluster) ==
  CASE kind = "ProcessExec" -> ProcessExecOccurrence(e, id, cluster)
    [] kind = "FileOpen" -> FileOpenOccurrence(e, id, cluster)
    [] kind = "FileOpenAttempt" -> to_open_attempt_occurrence(e, id, cluster)
    [] kind = "TcpConnect" -> TcpConnectOccurrence(e, id, cluster)
    [] kind = "TcpClose" -> TcpCloseOccurrence(e, id, cluster)
    [] kind = "TcpRetransmit" -> TcpRetransmitOccurrence(e, id, cluster)

-----------------------------------------------------------------------------
(* Records. *)

Probe(name, family, hook, function) ==
  [probe_id |-> name, probe_family |-> family, hook_kind |-> hook, kernel_function |-> function]

\* Each probe by the first of its attachments; the family is the first part of
\* its name.
ProcessExec == Probe("process_exec", "process", "tracepoint", "sched_process_exec")
FileOpen == Probe("file_open", "file", "fexit", "security_file_open")
FileOpenAttempt == Probe("file_open_attempt", "file", "tracepoint", "sys_enter_openat")
TcpConnect == Probe("tcp_connect", "tcp", "fexit", "tcp_connect")
TcpClose == Probe("tcp_close", "tcp", "fexit", "tcp_close")
TcpRetransmit == Probe("tcp_retransmit", "tcp", "fentry", "tcp_retransmit_skb")

probe_metadata(kind) ==
  CASE kind = "ProcessExec" -> ProcessExec
    [] kind = "FileOpen" -> FileOpen
    [] kind = "FileOpenAttempt" -> FileOpenAttempt
    [] kind = "TcpConnect" -> TcpConnect
    [] kind = "TcpClose" -> TcpClose
    [] kind = "TcpRetransmit" -> TcpRetransmit

EvidenceRecord(time, probe, occurrence) ==
  [observed_at_ns |-> time, probe |-> probe, occurrence |-> occurrence, binding |-> None]

normalize(kind, e, id, cluster) ==
  EvidenceRecord(e.observed_at_ns, probe_metadata(kind), to_occurrence(kind, e, id, cluster))

with_runtime_binding(record, binding) == [record EXCEPT !.binding = binding]

\* GapReport::into_batch: the record of a loss report.
GapRecord(g, id, cluster) ==
  EvidenceRecord(g.gap_end_ns, Probe("jalki_agent", "agent", "fentry", "jalki_agent_gap"),
    [Occurrence(id, "jalki.agent.gap", cluster) EXCEPT
       !.severity = "Warning",
       !.labels = [cause |-> g.cause, affected_probes |-> [json |-> g.affected_probes],
                   dropped_records |-> Dec(g.dropped_records),
                   dropped_reliability |-> Dec(g.dropped_reliability),
                   dropped_attribution |-> Dec(g.dropped_attribution),
                   gap_start_ns |-> Dec(g.gap_start_ns), gap_end_ns |-> Dec(g.gap_end_ns)]])

\* The report of parse errors, which no type prefix makes an agent record.
self_observability_record(id, cluster) ==
  EvidenceRecord(0, Probe("jalki_self", "agent", "fentry", "jalki_self_observability"),
    [Occurrence(id, "jalki.probe.parse_errors", cluster) EXCEPT !.severity = "Warning"])

AgentTypes == {"jalki.agent.gap"}
is_agent_record(record) == record.occurrence.type \in AgentTypes

strong_binding(binding) ==
  /\ binding.bound
  /\ binding.container_id # "" \/ binding.pod_uid \notin {None, ""}

\* None if the record may leave the node on Plane B.
plane_b_drop_reason(record) ==
  IF is_agent_record(record) THEN None
  ELSE IF record.binding = None THEN "unknown"
  ELSE IF strong_binding(record.binding) THEN None
  ELSE IF record.binding.bound THEN "unknown"
  ELSE record.binding.reason

EvidenceClass(type) ==
  IF type \in {"kernel.tcp.close", "kernel.tcp.retransmit"} THEN "reliability" ELSE "attribution"

\* A batch is sent under the identity its records were observed under.  Its records
\* are a set: they stand in the order of their occurrence ids.
EvidenceBatch(producer, records) == [producer |-> producer, records |-> records]

OfClass(batch, class) ==
  EvidenceBatch(batch.producer,
                {r \in batch.records : EvidenceClass(r.occurrence.type) = class})

UnlessEmpty(batch) == IF batch.records = {} THEN <<>> ELSE <<batch>>

\* Reliability first; an empty part is left out.
split_by_class(batch) ==
  UnlessEmpty(OfClass(batch, "reliability")) \o UnlessEmpty(OfClass(batch, "attribution"))
-----------------------------------------------------------------------------
(* Projection: the binding, the process lifetime and the producer go onto the *)
(* occurrence.                                                                *)

Untrimmed == {" node"}

\* Mutant: a lifetime is named by its process id and start alone.
RuntimeSubjectV1_no_boot(node_identity, boot_id, tgid, start) ==
  IF node_identity \in Untrimmed \cup {""} \/ tgid = 0 \/ start = 0 THEN Unset
  ELSE <<node_identity, tgid, start, 1>>

\* SHA-256 over length-prefixed fields: one id for each tuple.  procfs writes a
\* boot id in the canonical form.
RuntimeSubjectV1(node_identity, boot_id, tgid, start) ==
  IF node_identity \in Untrimmed \cup {""} \/ tgid = 0 \/ start = 0 THEN Unset
  ELSE <<node_identity, boot_id, tgid, start, 1>>

\* An occurrence without any of the parts of an identity gets none.
apply_runtime_subject(occ, producer) ==
  LET subject == RuntimeSubjectV1(producer.node_identity, producer.boot_id,
                                  ParseU64(occ.labels.host_tgid),
                                  ParseU64(occ.labels.leader_start_boottime_ns))
  IN IF \/ Label(occ.labels, "runtime_identity_method") # "task_start_boottime_btf_v1"
        \/ None \in {producer.node_identity, producer.boot_id}
        \/ subject = Unset
     THEN occ
     ELSE [occ EXCEPT !.labels = With(@, [runtime_subject_id |-> subject,
                                          node_identity |-> producer.node_identity,
                                          boot_id |-> producer.boot_id,
                                          runtime_canonicalization_version |-> Dec(1)])]

\* A part of the binding is a label if it is known; four are correlation keys.
BindingNames ==
  [container_id |-> "k8s_container_id", pod_uid |-> "k8s_pod_uid", pod_name |-> "k8s_pod_name",
   namespace |-> "k8s_namespace", service_account |-> "k8s_service_account",
   owner_kind |-> "k8s_owner_kind", owner_name |-> "k8s_owner_name",
   owner_uid |-> "k8s_owner_uid"]
Joinable == {"container_id", "pod_uid", "namespace", "owner_uid"}

Known(b) == {part \in DOMAIN BindingNames : b[part] \notin {None, ""}}

BindingLabels(b) ==
  With([evidence_level |-> b.provenance],
       [label \in {BindingNames[part] : part \in Known(b)} |->
          b[CHOOSE part \in Known(b) : BindingNames[part] = label]])

apply_runtime_binding(occ, binding) ==
  IF binding = None THEN occ
  ELSE IF ~binding.bound
  THEN [occ EXCEPT !.labels = With(@, [runtime_binding |-> "unbound",
                                       unbound_reason |-> binding.reason])]
  ELSE [occ EXCEPT
          !.labels = With(@, BindingLabels(binding)),
          !.namespace = IF binding.namespace \in {None, ""} THEN @ ELSE binding.namespace,
          !.correlation_keys = @ \cup
            {<<BindingNames[part], binding[part]>> : part \in Known(binding) \cap Joinable}]

into_occurrence_with_metadata(record, producer) ==
  [apply_runtime_subject(apply_runtime_binding(record.occurrence, record.binding), producer)
     EXCEPT !.labels = With(@, With(record.probe,
       [cluster_id |-> producer.cluster, node_id |-> producer.node_id,
        observed_at_ns |-> Dec(record.observed_at_ns), schema_version |-> "1"]))]

neutralize_for_plane_b(occ) ==
  [occ EXCEPT !.severity = "Info", !.error = None,
              !.labels = With(@, Only(occ.network # Unset,
                                 [resource_ref_kind |-> "network_endpoint",
                                  resource_ref_id |-> <<occ.network.dst_ip, occ.network.dst_port>>]))]

into_plane_b_occurrence(record, producer) ==
  neutralize_for_plane_b(into_occurrence_with_metadata(record, producer))

\* What may leave the node; of the rest only a warning is left.
into_plane_b_projection(batch) ==
  {into_plane_b_occurrence(r, batch.producer) :
     r \in {x \in batch.records : plane_b_drop_reason(x) = None}}

into_occurrences(batch) ==
  {into_occurrence_with_metadata(r, batch.producer) : r \in batch.records}

-----------------------------------------------------------------------------
(* The wire. *)

\* Label to key, where the two are copied as text.
LABEL_KEYS ==
  [node_id |-> "node_id", k8s_pod_uid |-> "pod_uid", k8s_pod_name |-> "pod_name",
   k8s_container_id |-> "container_id", k8s_namespace |-> "k8s_namespace",
   k8s_service_account |-> "service_account", k8s_owner_kind |-> "owner_kind",
   k8s_owner_name |-> "owner_name", k8s_owner_uid |-> "owner_uid", cgroup_id |-> "cgroup_id",
   argv_hash |-> "argv_hash", tcp_state |-> "tcp_state", cluster_id |-> "cluster_id",
   runtime_subject_id |-> "runtime_subject_id", node_identity |-> "node_identity",
   boot_id |-> "boot_id", runtime_identity_method |-> "runtime_identity_method",
   evidence_level |-> "evidence_level", cause |-> "cause", requested_path |-> "requested_path",
   path_resolution |-> "path_resolution", coverage |-> "coverage", flags |-> "flags"]

\* Labels that become numbers, under their own name.
NUMBER_KEYS ==
  {"dropped_records", "dropped_reliability", "dropped_attribution", "gap_start_ns", "gap_end_ns",
   "host_tgid", "host_tid", "leader_start_boottime_ns", "runtime_canonicalization_version", "gid"}

CopiedLabels(labels) ==
  LET present == DOMAIN labels \cap DOMAIN LABEL_KEYS
  IN [key \in {LABEL_KEYS[l] : l \in present} |->
        labels[CHOOSE l \in present : LABEL_KEYS[l] = key]]

NumberLabels(labels) ==
  [key \in {k \in DOMAIN labels \cap NUMBER_KEYS : ParseU64(labels[k]) # None} |->
     ParseU64(labels[key])]

\* A reference of some kind is copied under the key of that kind.
Reference(labels, kind, key) ==
  Only(Label(labels, "resource_ref_kind") = kind, Entry(key, Label(labels, "resource_ref_id")))

\* The label holds the kernel's negative return, the wire the positive number.
WireErrno(labels) ==
  Only("errno_num" \in DOMAIN labels /\ ParseI64(labels["errno_num"]) < 0,
       [errno |-> -ParseI64(labels["errno_num"])])

ProcessKeys(p) ==
  With([pid |-> p.pid, comm |-> p.command],
       With(Only(p.ppid # None, [ppid |-> p.ppid]), Only(p.uid # None, [uid |-> p.uid])))

NetworkKeys(n) ==
  [protocol |-> "tcp", source_ip |-> n.src_ip, source_port |-> n.src_port,
   destination_ip |-> n.dst_ip, destination_port |-> n.dst_port]

BaseKeys(occ) ==
  [occurrence_type |-> occ.type, event_id |-> occ.id,
   kernel_time_ns |-> ParseU64(occ.labels.observed_at_ns)]

LabelKeys(labels) ==
  With(With(CopiedLabels(labels), NumberLabels(labels)),
       With(Only("affected_probes" \in DOMAIN labels,
                 [affected_probes |-> labels["affected_probes"].json]),
            With(With(Reference(labels, "executable", "exe"), Reference(labels, "file", "path")),
                 With(Only("path_truncated" \in DOMAIN labels, [path_truncated |-> TRUE]),
                      WireErrno(labels)))))

native_runtime_item(occ) ==
  With(With(BaseKeys(occ), LabelKeys(occ.labels)),
       With(Only(occ.process # Unset, ProcessKeys(occ.process)),
            With(Only(occ.network # Unset, NetworkKeys(occ.network)),
                 Only(occ.outcome # None, [state |-> occ.outcome]))))
=============================================================================
