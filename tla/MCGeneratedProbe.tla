-------------------------- MODULE MCGeneratedProbe --------------------------
(***************************************************************************)
(* Instances of GeneratedProbe for TLC: small kernels whose sockets, tasks *)
(* and files are declared the way Linux declares them.                     *)
(***************************************************************************)
EXTENDS GeneratedProbe

\* Entries the daemon has no use for, in front of all others: one of each kind
\* that has data of its own.
Fillers ==
  <<Decl(BTF_KIND_ARRAY, "", 4), Counted(BTF_KIND_ENUM, 2), Counted(BTF_KIND_ENUM64, 2),
    Counted(BTF_KIND_DATASEC, 1), Decl(BTF_KIND_DECL_TAG, "tag", 4),
    Decl(BTF_KIND_VAR, "v", 4), Decl(BTF_KIND_FLOAT, "double", 8)>>

\* The number of the i-th declaration after them.
T(i) == Len(Fillers) + i

\* shift moves the members of a socket behind another one, flagged adds a bit
\* field, bare leaves out what RuntimeSubjectV1 needs.
Kernel(shift, flagged, bare) ==
  Fillers \o
  <<IntType("u8", 1), IntType("u16", 2), IntType("u32", 4), IntType("u64", 8),
    Decl(BTF_KIND_VOLATILE, "", T(1)),
    Decl(BTF_KIND_TYPEDEF, "be32", T(3)),
    Aggregate(BTF_KIND_STRUCT, "", 8,
              <<Member("skc_daddr", T(6), 0), Member("skc_rcv_saddr", T(6), 4)>>),
    Aggregate(BTF_KIND_UNION, "", 8, <<Member("skc_addrpair", T(4), 0), Member("", T(7), 0)>>),
    Aggregate(BTF_KIND_STRUCT, "", 4,
              <<Member("skc_dport", T(2), 0), Member("skc_num", T(2), 2)>>),
    Aggregate(BTF_KIND_UNION, "", 4, <<Member("skc_portpair", T(3), 0), Member("", T(9), 0)>>),
    Aggregate(BTF_KIND_STRUCT, "sock_common", 24 + shift,
              <<Member("", T(8), shift), Member("", T(10), shift + 12),
                Member("skc_state", T(5), shift + 18)>>
              \o IF flagged THEN <<BitField("skc_reuse", T(1), 8 * (shift + 19), 4)>> ELSE <<>>),
    Aggregate(BTF_KIND_STRUCT, "sock", 32 + shift,
              <<Member("__sk_common", T(11), 0), Member("sk_err", T(3), 24 + shift)>>),
    Decl(BTF_KIND_CONST, "", T(12)),
    Ptr(T(13)),
    Proto(<<Param("sk", T(14))>>),
    Decl(BTF_KIND_FUNC, "tcp_connect", T(15)),
    Aggregate(BTF_KIND_STRUCT, "path", 16, <<Member("mnt", T(14), 0)>>),
    Aggregate(BTF_KIND_STRUCT, "file", 32 + shift,
              <<Member("f_flags", T(3), 8 + shift), Member("f_path", T(17), 16 + shift)>>),
    Aggregate(BTF_KIND_STRUCT, "task_struct", 64,
              <<Member("tgid", T(3), 8), Member("real_parent", T(14), 16)>>
              \o IF bare THEN <<Member("group_leader", T(14), 24)>>
                 ELSE <<Member("group_leader", T(14), 24), Member("start_boottime", T(4), 32)>>),
    Ptr(T(18)),
    Proto(<<Param("file", T(20)), Param("count", T(4)), Param("whence", T(2))>>),
    Decl(BTF_KIND_FUNC, "vfs_llseek", T(21))>>

MCKernels == <<Kernel(0, FALSE, FALSE), Kernel(8, TRUE, TRUE)>>

Want(field) == [field |-> field, important |-> TRUE]
Spare(field) == [field |-> field, important |-> FALSE]

MCRequests ==
  {[function |-> "tcp_connect", known |-> TRUE, attachment |-> "fexit",
    fields |-> <<Want(Plain("src_port")), Want(Plain("tcp_state")), Want(Plain("dst_ip")),
                 Want(Plain("dst_port")), Want(Plain("ret")), Spare(Plain("src_ip"))>>],
   [function |-> "tcp_connect", known |-> TRUE, attachment |-> "fentry",
    fields |-> <<Want(Plain("command")), Want(Plain("src_ip")), Want(Plain("pid"))>>],
   [function |-> "tcp_connect", known |-> TRUE, attachment |-> "fentry",
    fields |-> <<Want(Plain("ret"))>>],
   [function |-> "tcp_connect", known |-> TRUE, attachment |-> "fentry",
    fields |-> <<Want(Plain("dst_port"))>>],
   [function |-> "vfs_llseek", known |-> FALSE, attachment |-> "fentry", fields |-> <<>>],
   [function |-> "vfs_llseek", known |-> TRUE, attachment |-> "fexit",
    fields |-> <<Want(Field("file", <<"f_flags">>)), Want(Plain("ret"))>>],
   [function |-> "vfs_llseek", known |-> TRUE, attachment |-> "fentry",
    fields |-> <<Want(Field("file", <<"f_path">>))>>],
   [function |-> "no_such_function", known |-> FALSE, attachment |-> "fentry",
    fields |-> <<>>]}
=============================================================================
