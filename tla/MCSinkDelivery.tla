--------------------------- MODULE MCSinkDelivery ---------------------------
(***************************************************************************)
(* Instances of SinkDelivery for TLC: every kind of observation alone, and *)
(* chosen pairs in one batch or in two.                                    *)
(***************************************************************************)
EXTENDS SinkDelivery

Pod == [bound |-> TRUE, container_id |-> "c1", pod_uid |-> "p1", namespace |-> "ns",
        pod_name |-> "pod", service_account |-> "sa", owner_kind |-> "ReplicaSet",
        owner_name |-> "rs", owner_uid |-> "o1", provenance |-> "derived"]
ContainerOnly == [Pod EXCEPT !.pod_uid = None, !.owner_uid = None, !.namespace = "",
                             !.pod_name = "", !.service_account = None]
NameOnly == [Pod EXCEPT !.container_id = "", !.pod_uid = ""]
Host == [bound |-> FALSE, reason |-> "host_process"]

Name(text) == [head |-> text, long |-> FALSE]
Long(head) == [head |-> head, long |-> TRUE]
Broken == Name(NotUtf8)

\* No two numbers are equal, and port 443 has two bytes that differ.
Base ==
  [kind |-> "ProcessExec", life |-> 1, tgid |-> 300, tid |-> 301, start |-> 7, ppid |-> 1,
   uid |-> 1000, gid |-> 5, cgroup |-> 9, comm |-> "sh", owner |-> 300,
   path |-> Name("/bin/x"), time |-> 20, ret |-> 0,
   flags |-> 3, offsets |-> TRUE, family |-> AF_INET, src |-> <<10, 11, 12, 13>>,
   dst |-> <<20, 21, 22, 23>>, src_port |-> 5000, dst_port |-> 443, bytes |-> <<4, 6>>,
   netns |-> 99, state |-> 4,
   binding |-> Pod]

Exec == Base
File == [Base EXCEPT !.kind = "FileOpen", !.path = Name("/run/secrets/t")]
Attempt == [File EXCEPT !.kind = "FileOpenAttempt", !.ret = -2]
Connect == [Base EXCEPT !.kind = "TcpConnect"]
Close == [Base EXCEPT !.kind = "TcpClose"]
Retransmit == [Base EXCEPT !.kind = "TcpRetransmit"]
ParseErrors == [kind |-> "ParseErrors"]
Gap == [kind |-> "Gap",
        gap |-> [cause |-> "ringbuffer_overflow", affected_probes |-> <<"kernel.tcp.close">>,
                 dropped_records |-> 3, dropped_reliability |-> 3, dropped_attribution |-> 0,
                 gap_start_ns |-> 10, gap_end_ns |-> 20]]

Singles ==
  {Exec, [Exec EXCEPT !.offsets = FALSE], [Exec EXCEPT !.ppid = 0, !.uid = 0],
   [Exec EXCEPT !.path = Broken], [Exec EXCEPT !.path = Long("/bin/x..")], File, [File EXCEPT !.ret = -13],
   Attempt, [Attempt EXCEPT !.path = Broken],
   [Attempt EXCEPT !.path = Long("/run/secrets/..")], [Attempt EXCEPT !.path = Long(NotUtf8)], Connect, [Connect EXCEPT !.ret = -111],
   [Connect EXCEPT !.family = AF_INET6], [Connect EXCEPT !.comm = NotUtf8],
   Close, [Close EXCEPT !.family = AF_INET6], Retransmit, [Retransmit EXCEPT !.state = 12, !.owner = 302],
   Gap, ParseErrors}
  \cup {[o EXCEPT !.binding = b] : o \in {Exec, Attempt, Connect},
                                   b \in {ContainerOnly, NameOnly, Host, None}}

\* The same process again, its pid reused, and a process of another pid.
Again == {[Exec EXCEPT !.path = Name("/bin/y")], [Exec EXCEPT !.life = 2, !.start = 8],
          [Exec EXCEPT !.life = 3, !.tgid = 301, !.owner = 301]}
Pairs ==
  {<<Exec, o>> : o \in Again} \cup
  {<<Exec, Close>>, <<Attempt, [Connect EXCEPT !.binding = Host]>>, <<Exec, ParseErrors>>,
   <<Retransmit, Gap>>}

AllScenarios ==
  {<<<<o>>>> : o \in Singles} \cup {<<p>> : p \in Pairs}
  \cup {<<<<p[1]>>, <<p[2]>>>> : p \in {q \in Pairs : q[2] \in Again \cup {Close}}}

Sink(kind) == [kind |-> kind]
Daemon ==
  [primary |-> Sink("vartio"), secondaries |-> <<>>, cluster |-> "c", node_id |-> "n",
   node_identity |-> "node", token |-> "valid", file_types |-> TRUE]

AllConfigs ==
  {Daemon, [Daemon EXCEPT !.file_types = FALSE, !.secondaries = <<Sink("file")>>],
   [Daemon EXCEPT !.cluster = ""], [Daemon EXCEPT !.token = "invalid"],
   [Daemon EXCEPT !.node_identity = " node"],
   [Daemon EXCEPT !.primary = Sink("stdout"), !.secondaries = <<Sink("vartio")>>],
   [Daemon EXCEPT !.primary = Sink("pipeline")]}

\* For the violations, which need one configuration each.
OneDaemon == {Daemon}
DefaultConfig == {[Daemon EXCEPT !.file_types = FALSE]}
FileConfig == {[Daemon EXCEPT !.primary = Sink("file")]}
TwoExecs == {<<<<Exec>>, <<Exec>>>>}
OneFile == {<<<<File>>>>}
Doubtful ==
  {<<<<o>>>> : o \in {[Attempt EXCEPT !.path = Long("/run/secrets/..")],
                     [Attempt EXCEPT !.path = Broken], Exec, [Retransmit EXCEPT !.owner = 302]}}
=============================================================================
