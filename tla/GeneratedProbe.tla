--------------------------- MODULE GeneratedProbe ---------------------------
(***************************************************************************)
(* From a kernel's type information to evidence: the daemon reads BTF at   *)
(* startup (loader.rs, file_offsets.rs), generates a probe for a request   *)
(* (deploy_codegen), the kernel runs the generated program, one            *)
(* instruction at a time, whenever a process calls the function, and the   *)
(* reader decodes what the program put in its ring buffer.                 *)
(*                                                                         *)
(* The machine is external.  It keeps for every byte where it came from:   *)
(* a byte is [from, i, k], byte k of a value of the event, of argument i,  *)
(* or of the memory argument i points to.  A register holds such a value,  *)
(* a number, or a pointer.  The machine refuses what the kernel forbids: a *)
(* register or a stack byte read before it is written, an access outside   *)
(* the stack or the context, a jump out of the program.                    *)
(*                                                                         *)
(* Every program is left with one map load that no relocation fills in     *)
(* (SelfFilter).  When the program is loaded the kernel takes the number   *)
(* in it, 0, for a descriptor of the daemon: standard input.  Nothing      *)
(* makes that a BPF map, so the kernel refuses the program, and what it    *)
(* would do when it runs is reached only where standard input is a map.    *)
(***************************************************************************)
EXTENDS KernelTypes, ProbeCodegen

CONSTANTS
  Kernels,   \* the kernels considered, each a sequence of declarations
  Requests,  \* requests, as [function, known, attachment, fields]
  MaxEvents, \* bound: calls of the function that the kernel makes
  MaxFailures, \* bound: failed memory reads
  Stdins,    \* what descriptor 0 of the daemon may be: "file" or "map"
  FILE_F_PATH_OFFSET, FILE_F_FLAGS_OFFSET  \* compiled into the file.open probe

VARIABLES
  kernel,   \* the kernel this daemon runs on, by its number
  stdin,    \* what descriptor 0 is, for the whole run
  phase,    \* "boot", "ready", "generated", "idle", "running", "refused", "dead"
  offsets,  \* TASK_OFFSETS: real_parent, tgid, group_leader, start_boottime
  warned,   \* the file.open offsets were reported as wrong or unknown
  request,  \* the request deployed
  probe,    \* the GeneratedProbe
  event,    \* the call being traced, [own, failed]
  unread,   \* the memory reads that failed in it
  pc, regs, stack,  \* the machine: program counter, registers, stack
  ring,     \* the ring buffer, as [raw, event, unread]
  evidence, \* the last decoded event, as [said, event, unread]
  drops,    \* the drop counter
  tally     \* [calls, own, sent, lost, failures], what happened so far

machine == <<pc, regs, stack>>
vars == <<kernel, stdin, phase, offsets, warned, request, probe, event, unread, machine,
          ring, evidence, drops, tally>>

NoEvent == [own |-> FALSE, failed |-> FALSE]
NoRequest == [function |-> "", known |-> FALSE, attachment |-> "fentry", fields |-> <<>>]

-----------------------------------------------------------------------------
\* Values of the machine.
Val(t, i, o) == [t |-> t, i |-> i, o |-> o]
Undef == Val("undef", 0, 0)
Num(n) == Val("num", n, 0)
FP(o) == Val("fp", 0, o)

ByteFrom(v, k) ==
  IF v.t = "num" /\ v.i = 0 THEN [from |-> "zero", i |-> 0, k |-> 0]
                            ELSE [from |-> v.t, i |-> v.i, k |-> v.o + k]
BytesOf(v, n) == [k \in 1..n |-> ByteFrom(v, k - 1)]
Zero == ByteFrom(Num(0), 0)

StartRegs == [r \in 0..10 |-> CASE r = 1 -> Val("ctx", 0, 0)
                                [] r = 10 -> FP(0)
                                [] OTHER -> Undef]

Decls == Kernels[kernel]
BtfNow == parse(Encode(Decls))

\* The parameters of a function, as the kernel declares them.
ParamsOf(function) ==
  LET fn == CHOOSE i \in DOMAIN Decls : /\ Decls[i].kind = BTF_KIND_FUNC
                                       /\ Decls[i].name = function
  IN  Decls[Decls[fn].ref].params

-----------------------------------------------------------------------------
Init ==
  /\ kernel \in DOMAIN Kernels
  /\ stdin \in Stdins
  /\ request = NoRequest
  /\ phase = "boot"
  /\ offsets = <<0, 0, 0, 0>>
  /\ warned = FALSE
  /\ probe = Err
  /\ event = NoEvent
  /\ unread = {}
  /\ pc = 0
  /\ regs = StartRegs
  /\ stack = <<>>
  /\ ring = <<>>
  /\ evidence = {}
  /\ drops = 0
  /\ tally = [calls |-> 0, own |-> 0, sent |-> 0, lost |-> 0, failures |-> 0]

\* resolve, resolve_task_offsets and resolve_runtime_subject_offsets look two
\* fields of one struct up.
FieldOf(btf, struct, name) ==
  IF struct_by_name(btf, struct) = 0 THEN Err
  ELSE field_offset(btf, struct_by_name(btf, struct), <<name>>)

\* Mutant: each offset that is found is written.
OffsetPair_single(first, second) ==
  [ok |-> TRUE, pair |-> <<IF first.ok THEN first.offset ELSE 0,
                           IF second.ok THEN second.offset ELSE 0>>]

\* Both or none.
OffsetPair(first, second) ==
  IF first.ok /\ second.ok THEN [ok |-> TRUE, pair |-> <<first.offset, second.offset>>]
                           ELSE Err

\* populate_task_offsets: the map stays zero where a pair is not resolved.
TaskOffsets(found) == IF found.ok THEN found.pair ELSE <<0, 0>>

\* check_file_offsets
FileOffsetsVerified(found) ==
  found.ok /\ found.pair = <<FILE_F_PATH_OFFSET, FILE_F_FLAGS_OFFSET>>

\* The loader at startup.  Without BTF the guard warns, the map stays zero, and
\* the daemon does not start.
BootWith(btf) ==
  LET Pair(struct, first, second) ==
        OffsetPair(FieldOf(btf, struct, first), FieldOf(btf, struct, second))
  IN  /\ warned' = ~FileOffsetsVerified(Pair("file", "f_path", "f_flags"))
      /\ offsets' = TaskOffsets(Pair("task_struct", "real_parent", "tgid"))
                     \o TaskOffsets(Pair("task_struct", "group_leader", "start_boottime"))
      /\ phase' = "ready"

Boot(readable) ==
  /\ phase = "boot"
  /\ IF readable THEN \E btf \in {BtfNow} : BootWith(btf)
     ELSE /\ warned' = TRUE
          /\ offsets' = <<0, 0, 0, 0>>
          /\ phase' = "dead"
  /\ UNCHANGED <<kernel, stdin, request, probe, event, unread, machine, ring, evidence, drops, tally>>

\* deploy_codegen up to the generated object, with the BtfData that the runtime
\* parsed at startup.
Deploy(r) ==
  /\ phase = "ready"
  /\ request' = r
  /\ \E btf \in {BtfNow} :
       \E spec \in {ProbeSpec(btf, r)} : probe' = GeneratedProbe(btf, spec)
  /\ phase' = IF probe'.ok THEN "generated" ELSE "refused"
  /\ UNCHANGED <<kernel, stdin, offsets, warned, event, unread, machine, ring, evidence, drops, tally>>

\* The map that a relocation puts into the load in a slot (external: aya).
Slots == Len(probe.elf.text) \div 8
MapLoads == {slot \in 0..(Slots - 1) : Fetch(probe.elf.text, slot).code = 24}
MapsAt(slot) == {r[2] : r \in {x \in probe.elf.relocations : x[1] = 8 * slot}}

\* registry.attach loads the program.  The kernel takes the number left in a
\* load without a relocation, always 0, for descriptor 0 of the daemon, and
\* refuses the program when that is not a map.
Attach ==
  /\ phase = "generated"
  /\ phase' = IF (\A slot \in MapLoads : MapsAt(slot) # {}) \/ stdin = "map"
              THEN "idle" ELSE "refused"
  /\ UNCHANGED <<kernel, stdin, offsets, warned, request, probe, event, unread, machine,
                 ring, evidence, drops, tally>>

\* A process calls the function: one of jalki's own threads, or another.
Call(e) ==
  /\ phase = "idle"
  /\ tally.calls < MaxEvents
  /\ phase' = "running"
  /\ event' = e
  /\ unread' = {}
  /\ evidence' = {}
  /\ pc' = 0
  /\ regs' = StartRegs
  /\ stack' = <<>>
  /\ tally' = [tally EXCEPT !.calls = @ + 1, !.own = @ + IF e.own THEN 1 ELSE 0]
  /\ UNCHANGED <<kernel, stdin, offsets, warned, request, probe, ring, drops>>

-----------------------------------------------------------------------------
\* One instruction (external).  An instruction is taken only when the kernel
\* allows it; the machine is stuck at one that it forbids.
Quiet == UNCHANGED <<kernel, stdin, phase, offsets, warned, request, probe, event>>
Keep == Quiet /\ UNCHANGED <<ring, evidence, drops, tally, unread>>

\* Offsets o..o+n-1 from the frame pointer.
InStack(o, n) == o >= -MAX_STACK /\ o + n <= 0
Written(o, n) == InStack(o, n) /\ o..(o + n - 1) \subseteq DOMAIN stack
StackBytes(o, n) == [k \in 1..n |-> stack[o + k - 1]]
WriteStack(o, n, v) ==
  /\ InStack(o, n)
  /\ stack' = [x \in DOMAIN stack \cup o..(o + n - 1) |->
                 IF x \in o..(o + n - 1) THEN ByteFrom(v, x - o) ELSE stack[x]]

\* Moves, additions to numbers and pointers, and the two halves of pid_tgid.
AluResult(insn, v) ==
  CASE insn.code = 183 -> Num(insn.imm)
    [] insn.code = 191 -> regs[insn.src]
    [] insn.code = 7 /\ v.t \in {"num", "count"} -> [v EXCEPT !.i = @ + insn.imm]
    [] insn.code = 7 /\ v.t \in {"fp", "arg"} -> [v EXCEPT !.o = @ + insn.imm]
    [] insn.code = 119 /\ v.t = "pid_tgid" /\ insn.imm = 32 -> Val("tgid", 0, 0)
    [] insn.code = 84 /\ v.t = "pid_tgid" /\ insn.imm = -1 -> Val("tid", 0, 0)
    [] OTHER -> Undef

Alu(insn) ==
  /\ insn.code \in {183, 191, 7, 119, 84}
  /\ insn.dst # 10
  /\ AluResult(insn, regs[insn.dst]) # Undef
  /\ regs' = [regs EXCEPT ![insn.dst] = AluResult(insn, regs[insn.dst])]
  /\ pc' = pc + 1
  /\ UNCHANGED stack
  /\ Keep

\* A map load: the map of its relocation, else the one that is descriptor 0.
LoadMap(insn) ==
  /\ insn.code = 24
  /\ regs' = [regs EXCEPT ![insn.dst] =
                IF MapsAt(pc) # {} THEN Val("map", Max(MapsAt(pc)), 0) ELSE Val("stdin", 0, 0)]
  /\ pc' = pc + 2
  /\ UNCHANGED stack
  /\ Keep

\* ctx holds the arguments and, at the exit of a function, what it returned.
LoadResult(insn, v) ==
  LET n == Len(ParamsOf(probe.spec.function))
      arg == insn.off \div 8
  IN  CASE v.t = "count_ptr" -> Val("count", drops, 0)
        [] v.t = "ctx" /\ arg < n -> Val("arg", arg, 0)
        [] v.t = "ctx" /\ arg = n /\ probe.spec.attachment = "fexit" ->
             IF event.failed THEN Val("ret", 0, 0) ELSE Num(0)
        [] OTHER -> Undef

Load(insn) ==
  /\ insn.code = 121
  /\ LoadResult(insn, regs[insn.src]) # Undef
  /\ regs' = [regs EXCEPT ![insn.dst] = LoadResult(insn, regs[insn.src])]
  /\ pc' = pc + 1
  /\ UNCHANGED stack
  /\ Keep

StoreSize(insn) ==
  CASE insn.code \in {123, 122} -> 8 [] insn.code \in {99, 98} -> 4
    [] insn.code = 107 -> 2 [] insn.code = 115 -> 1 [] OTHER -> 0
Stored(insn) == IF insn.code \in {122, 98} THEN Num(insn.imm) ELSE regs[insn.src]

StoreStack(insn) ==
  /\ StoreSize(insn) > 0
  /\ regs[insn.dst].t = "fp"
  /\ Stored(insn) # Undef
  /\ WriteStack(regs[insn.dst].o + insn.off, StoreSize(insn), Stored(insn))
  /\ pc' = pc + 1
  /\ UNCHANGED regs
  /\ Keep

StoreCounter(insn) ==
  /\ StoreSize(insn) = 8
  /\ regs[insn.dst].t = "count_ptr"
  /\ Stored(insn).t = "count"
  /\ drops' = Stored(insn).i
  /\ pc' = pc + 1
  /\ UNCHANGED <<regs, stack, ring, evidence, tally, unread>>
  /\ Quiet

Jump(insn) ==
  LET isImm == regs[insn.dst] = Num(insn.imm)
      taken == CASE insn.code = 21 -> isImm [] insn.code = 85 -> ~isImm [] OTHER -> TRUE
  IN  /\ insn.code \in {21, 85, 5}
      /\ regs[insn.dst] # Undef
      /\ pc' = pc + 1 + IF taken THEN insn.off ELSE 0
      /\ UNCHANGED <<regs, stack>>
      /\ Keep

\* The helpers.  A call leaves r1 to r5 unreadable.
Return(v) ==
  /\ regs' = [r \in 0..10 |-> CASE r = 0 -> v [] r \in 1..5 -> Undef [] OTHER -> regs[r]]
  /\ pc' = pc + 1
Calls(insn, helper) == insn.code = 133 /\ insn.imm = helper

CallClock(insn) ==
  /\ Calls(insn, BPF_FUNC_KTIME_GET_NS) \/ Calls(insn, BPF_FUNC_GET_CURRENT_PID_TGID)
  /\ Return(Val(IF insn.imm = BPF_FUNC_KTIME_GET_NS THEN "time" ELSE "pid_tgid", 0, 0))
  /\ UNCHANGED stack
  /\ Keep

\* The destination and the size of a copy onto the stack.
CopiesTo(dst, size) == dst.t = "fp" /\ size.t = "num" /\ size.i > 0

CallComm(insn) ==
  /\ Calls(insn, BPF_FUNC_GET_CURRENT_COMM)
  /\ CopiesTo(regs[1], regs[2])
  /\ WriteStack(regs[1].o, regs[2].i, Val("comm", 0, 0))
  /\ Return(Num(0))
  /\ Keep

\* A read that fails leaves zeroes, and the program does not look at the result.
CallProbeRead(insn, fails) ==
  LET src == regs[3] IN
  /\ Calls(insn, BPF_FUNC_PROBE_READ_KERNEL)
  /\ CopiesTo(regs[1], regs[2])
  /\ src.t = "arg"
  /\ fails => tally.failures < MaxFailures
  /\ WriteStack(regs[1].o, regs[2].i,
                IF fails THEN Num(0) ELSE Val("mem", src.i, src.o))
  /\ Return(IF fails THEN Num(-14) ELSE Num(0))
  /\ unread' = IF fails THEN unread \cup {<<src.i, src.o>>} ELSE unread
  /\ tally' = [tally EXCEPT !.failures = @ + IF fails THEN 1 ELSE 0]
  /\ UNCHANGED <<ring, evidence, drops>>
  /\ Quiet

\* PID_FILTER holds jalki's own pid (populate_pid_filter); the drop counter has
\* the one key 0.
Lookup(map, key) ==
  CASE map = MAP_IDX_PID_FILTER ->
         IF event.own /\ key = BytesOf(Val("tgid", 0, 0), 4)
         THEN Val("filter_ptr", 0, 0) ELSE Num(0)
    [] map = MAP_IDX_RINGBUF_DROPS ->
         IF key = BytesOf(Num(0), 4) THEN Val("count_ptr", 0, 0) ELSE Num(0)

CallLookup(insn) ==
  /\ Calls(insn, BPF_FUNC_MAP_LOOKUP_ELEM)
  /\ regs[1].t = "map" /\ regs[1].i # MAP_IDX_RINGBUF /\ regs[2].t = "fp"
  /\ LET n == probe.elf.maps[regs[1].i].key_size IN
     /\ Written(regs[2].o, n)
     /\ Return(Lookup(regs[1].i, StackBytes(regs[2].o, n)))
  /\ UNCHANGED stack
  /\ Keep

\* The ring buffer takes the event or is full.
CallOutput(insn, full) ==
  /\ Calls(insn, BPF_FUNC_RINGBUF_OUTPUT)
  /\ regs[1] = Val("map", MAP_IDX_RINGBUF, 0) /\ regs[4] = Num(0)
  /\ CopiesTo(regs[2], regs[3])
  /\ Written(regs[2].o, regs[3].i)
  /\ ring' = IF full THEN ring
             ELSE Append(ring, [raw |-> StackBytes(regs[2].o, regs[3].i),
                                event |-> event, unread |-> unread])
  /\ tally' = [tally EXCEPT !.lost = @ + IF full THEN 1 ELSE 0,
                            !.sent = @ + IF full THEN 0 ELSE 1]
  /\ Return(IF full THEN Num(-11) ELSE Num(0))
  /\ UNCHANGED <<stack, evidence, drops, unread>>
  /\ Quiet

ExitProgram(insn) ==
  /\ insn.code = 149
  /\ regs[0] = Num(0)
  /\ phase' = "idle"
  /\ event' = NoEvent
  /\ unread' = {}
  /\ pc' = 0
  /\ regs' = StartRegs
  /\ stack' = <<>>
  /\ UNCHANGED <<kernel, stdin, offsets, warned, request, probe, ring, evidence, drops, tally>>

\* The reader takes the oldest event; one that is too short is a parse error.
Decode ==
  /\ ring # <<>>
  /\ Len(Head(ring).raw) >= probe.event_size
  /\ evidence' = {[said |-> to_evidence(probe, Head(ring).raw, Zero),
                   event |-> Head(ring).event, unread |-> Head(ring).unread]}
  /\ ring' = Tail(ring)
  /\ UNCHANGED <<kernel, stdin, phase, offsets, warned, request, probe, event, unread,
                 machine, drops, tally>>

Step(insn) ==
  \/ Alu(insn) \/ LoadMap(insn) \/ Load(insn)
  \/ StoreStack(insn) \/ StoreCounter(insn) \/ Jump(insn)
  \/ CallClock(insn) \/ CallComm(insn) \/ CallLookup(insn)
  \/ \E fails \in BOOLEAN : CallProbeRead(insn, fails)
  \/ \E full \in BOOLEAN : CallOutput(insn, full)
  \/ ExitProgram(insn)

\* The instruction at pc, as long as pc is inside the program.
Machine ==
  /\ phase = "running"
  /\ pc < Slots
  /\ \E insn \in {Fetch(probe.elf.text, pc)} : Step(insn)

Next ==
  \/ \E readable \in BOOLEAN : Boot(readable)
  \/ \E r \in Requests : Deploy(r)
  \/ Attach
  \/ \E own, failed \in BOOLEAN : Call([own |-> own, failed |-> failed])
  \/ Machine
  \/ Decode

Spec == Init /\ [][Next]_vars
-----------------------------------------------------------------------------
(***************************************************************************)
(* Properties                                                              *)
(***************************************************************************)
Ids == DOMAIN Decls
StructsOf == {i \in Ids : Decls[i].kind \in {BTF_KIND_STRUCT, BTF_KIND_UNION}}
MemberNames == UNION {{m.name : m \in ToSet(Decls[i].members)} : i \in Ids} \ {""}

Resolved(btf, meant, found) ==
  \/ meant = {} /\ ~found.ok
  \/ \E m \in meant :
       \/ m.width > 0
       \/ /\ found.ok
          /\ 8 * found.offset = m.at
          /\ type_size(btf, found.type_id) = SizeOf(Decls, m.type)

AllResolved(btf) ==
  \A id \in StructsOf, a \in MemberNames, b \in MemberNames \cup {""} :
    LET path == IF b = "" THEN <<a>> ELSE <<a, b>>
    IN  Resolved(btf, Denotes(Decls, id, path), field_offset(btf, id, path))

\* BTF is read as C means it: in every struct of the kernel every path of one or
\* two names is found exactly when C can name it, at C's offset and with C's
\* size, whatever entries come before it in the section, however deep the
\* anonymous structs and unions, and through typedefs and qualifiers (parse_types,
\* find_member_recursive, type_size).  Bit fields are left out: their offset
\* word also holds their width, which the parser does not separate.
ResolvesLikeC == phase = "ready" => \A btf \in {BtfNow} : AllResolved(btf)

\* What the loader writes to TASK_OFFSETS is both true offsets of a pair or none
\* of them, and it is silent about the file.open constants only when they are
\* the kernel's (check_file_offsets, populate_task_offsets): a probe never
\* follows a guessed offset.
OffsetsTrueOrAbsent ==
  LET At(struct, name) ==
        {m.at \div 8 : m \in UNION {Denotes(Decls, i, <<name>>) :
                                    i \in {j \in StructsOf : Decls[j].name = struct}}}
      Pair(k, first, second) ==
        \/ offsets[k] = 0 /\ offsets[k + 1] = 0
        \/ /\ offsets[k] \in At("task_struct", first)
           /\ offsets[k + 1] \in At("task_struct", second)
  IN  phase = "ready" =>
        /\ Pair(1, "real_parent", "tgid")
        /\ Pair(3, "group_leader", "start_boottime")
        /\ ~warned => /\ FILE_F_PATH_OFFSET \in At("file", "f_path")
                      /\ FILE_F_FLAGS_OFFSET \in At("file", "f_flags")

\* Apart from the map load at which Attach refuses it, a generated program holds
\* nothing that the kernel forbids: on every path registers and stack bytes are
\* written before they are read (a call clobbers r1 to r5, ctx was saved in r7),
\* accesses stay in the stack and in ctx, only the maps of the program reach a
\* helper, and the counted jumps land inside (program::generate).
NoIllegalInstruction == phase = "running" => ENABLED Machine

\* What C reads for a field that lies at m in the memory of an argument, most
\* significant byte first.
NetworkOrder == {"skc_daddr", "skc_rcv_saddr", "skc_dport"}

Held(e, arg, m, leaf) ==
  LET bytes == BytesOf(IF <<arg, m.at \div 8>> \in e.unread THEN Num(0)
                       ELSE Val("mem", arg, m.at \div 8), SizeOf(Decls, m.type))
  IN  IF leaf \in NetworkOrder THEN bytes ELSE Reverse(bytes)

\* What C reads for a field [param, path] of the function.
Expected(e, f) ==
  LET params == ParamsOf(request.function) IN
  UNION {{Held(e, i - 1, m, Last(f.path)) :
            m \in Denotes(Decls, Unqualified(Decls, Decls[params[i].type].ref), f.path)} :
           i \in {j \in DOMAIN params : params[j].name = f.param}}

\* The fields of a socket that the names of the knowledge base mean, given a
\* socket as the first parameter.
Means ==
  [name \in {"src_ip", "dst_ip", "src_port", "dst_port", "tcp_state"} |->
     Field("sk", <<"__sk_common",
       CASE name = "src_ip" -> "skc_rcv_saddr" [] name = "dst_ip" -> "skc_daddr"
         [] name = "src_port" -> "skc_num" [] name = "dst_port" -> "skc_dport"
         [] name = "tcp_state" -> "skc_state">>)]

\* The important fields of the request.
Asked ==
  IF request.known
  THEN {request.fields[i].field : i \in {j \in DOMAIN request.fields :
                                           request.fields[j].important}}
  ELSE {}
SocketNames(names) ==
  IF ParamsOf(request.function)[1].name = "sk"
  THEN {name \in names : Plain(name) \in Asked} ELSE {}
ByPath == {f \in Asked : f.path # <<>>}

EventBytes(t, n) == BytesOf(Val(t, 0, 0), n)


\* Each call of a function that is traced is accounted for once the program has
\* returned: a call of jalki's own threads leaves nothing in the ring buffer,
\* any other is delivered or counted as a drop, once (self-filter and drop
\* counter of program::generate).
EveryCallAccounted ==
  /\ \A i \in DOMAIN ring : ~ring[i].event.own
  /\ \A e \in evidence : ~e.event.own
  /\ phase = "idle" => /\ drops = tally.lost
                       /\ tally.calls = tally.own + tally.sent + tally.lost

\* The documentation's claim (lib.rs): a generated probe is an object that aya
\* loads, so the kernel never refuses one that was generated.
GeneratedProbesLoad == phase = "refused" => ~probe.ok
=============================================================================
