---------------------------- MODULE MCRingReader ----------------------------
(***************************************************************************)
(* Instances of RingReader for TLC.                                        *)
(***************************************************************************)
EXTENDS RingReader

FileOpen == [prog |-> "file_open", sample_every |-> 2]
MCProbes ==
  {FileOpen} \cup [prog : Sockets \cup {"process_exec", "open_attempt"},
                   sample_every : {1}]

MCThreads == {"t1", "t2"}
MCProcessOf == [t \in MCThreads |-> "process"]

\* A bound: readers hardly tell programs apart, so one of them is followed
\* through its reader and the others as far as the ring.
OneIsRead == probe # FileOpen => pc = "new" /\ now = 0 /\ ~closed
=============================================================================
