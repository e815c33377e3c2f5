---------------------------- MODULE ProbeCodegen ----------------------------
(***************************************************************************)
(* Probes generated at runtime: the request from the knowledge base        *)
(* (runtime.rs map_kb_fields_to_btf), the program for it (jalki-codegen    *)
(* program.rs), its ELF object (elf.rs), and the decoder of its events     *)
(* (jalki/src/probes/generated.rs).                                        *)
(*                                                                         *)
(* A field request is [param, path]: "sk.__sk_common.skc_num" is param     *)
(* "sk" with a path of two names; a special name or a plain parameter has  *)
(* the empty path.                                                         *)
(***************************************************************************)
EXTENDS Btf

-----------------------------------------------------------------------------
\* BPF instructions as jalki-codegen/src/insn.rs builds and encodes them.
\* Opcodes are sums of disjoint bit fields, so | is written +.
BPF_LD == 0
BPF_LDX == 1
BPF_ST == 2
BPF_STX == 3
BPF_ALU == 4
BPF_JMP == 5
BPF_ALU64 == 7

BPF_W == 0
BPF_H == 8
BPF_B == 16
BPF_DW == 24

BPF_IMM == 0
BPF_MEM == 96

BPF_MOV == 176
BPF_ADD == 0
BPF_RSH == 112
BPF_AND == 80

BPF_K == 0
BPF_X == 8

BPF_JA == 0
BPF_JEQ == 16
BPF_JNE == 80
BPF_EXIT == 144
BPF_CALL == 128

BPF_PSEUDO_MAP_FD == 1

BPF_FUNC_MAP_LOOKUP_ELEM == 1
BPF_FUNC_KTIME_GET_NS == 5
BPF_FUNC_GET_CURRENT_PID_TGID == 14
BPF_FUNC_GET_CURRENT_COMM == 16
BPF_FUNC_PROBE_READ_KERNEL == 113
BPF_FUNC_RINGBUF_OUTPUT == 130

-----------------------------------------------------------------------------
\* BpfInsn::new
Insn(code, dst, src, off, imm) ==
  [code |-> code, regs |-> (src * 16) + (dst % 16), off |-> off, imm |-> imm]

mov64_imm(dst, imm) == Insn(BPF_ALU64 + BPF_MOV + BPF_K, dst, 0, 0, imm)
mov64_reg(dst, src) == Insn(BPF_ALU64 + BPF_MOV + BPF_X, dst, src, 0, 0)
add64_imm(dst, imm) == Insn(BPF_ALU64 + BPF_ADD + BPF_K, dst, 0, 0, imm)
rsh64_imm(dst, imm) == Insn(BPF_ALU64 + BPF_RSH + BPF_K, dst, 0, 0, imm)
and32_imm(dst, imm) == Insn(BPF_ALU + BPF_AND + BPF_K, dst, 0, 0, imm)

ldx_dw(dst, src, off) == Insn(BPF_LDX + BPF_MEM + BPF_DW, dst, src, off, 0)

\* stx_dw, stx_w, stx_h and stx_b, by the number of bytes they store.
stx(size, dst, src, off) ==
  Insn(BPF_STX + BPF_MEM + CASE size = 8 -> BPF_DW [] size = 4 -> BPF_W
                             [] size = 2 -> BPF_H [] size = 1 -> BPF_B,
       dst, src, off, 0)

st_w(dst, off, imm) == Insn(BPF_ST + BPF_MEM + BPF_W, dst, 0, off, imm)
st_dw(dst, off, imm) == Insn(BPF_ST + BPF_MEM + BPF_DW, dst, 0, off, imm)

call(helper_id) == Insn(BPF_JMP + BPF_CALL, 0, 0, 0, helper_id)
ja(off) == Insn(BPF_JMP + BPF_JA, 0, 0, off, 0)
jeq_imm(dst, imm, off) == Insn(BPF_JMP + BPF_JEQ + BPF_K, dst, 0, off, imm)
jne_imm(dst, imm, off) == Insn(BPF_JMP + BPF_JNE + BPF_K, dst, 0, off, imm)
exit == Insn(BPF_JMP + BPF_EXIT, 0, 0, 0, 0)

\* Two slots; the map is filled in through a relocation of the first.
ld_map_fd(dst) ==
  <<Insn(BPF_LD + BPF_DW + BPF_IMM, dst, BPF_PSEUDO_MAP_FD, 0, 0), Insn(0, 0, 0, 0, 0)>>

-----------------------------------------------------------------------------
\* Byte k of a number in two's complement, little-endian.
ByteOf(n, k) == (n \div 256^k) % 256

to_bytes(insn) ==
  <<insn.code, insn.regs, ByteOf(insn.off, 0), ByteOf(insn.off, 1),
    ByteOf(insn.imm, 0), ByteOf(insn.imm, 1), ByteOf(insn.imm, 2), ByteOf(insn.imm, 3)>>

encode(insns) == FlattenSeq([i \in DOMAIN insns |-> to_bytes(insns[i])])

-----------------------------------------------------------------------------
\* The kernel's reading of slot pc of a program text (external).
Signed(high, low, unit) == (IF high >= 128 THEN high - 256 ELSE high) * unit + low

Fetch(text, pc) ==
  LET b(k) == text[8 * pc + k + 1] IN
  [code |-> b(0), dst |-> b(1) % 16, src |-> b(1) \div 16,
   off |-> Signed(b(3), b(2), 256),
   imm |-> Signed(b(7), b(4) + 256 * b(5) + 65536 * b(6), 16777216)]

-----------------------------------------------------------------------------

MAX_STACK == 512
MAX_INSNS == 4096
MAP_IDX_PID_FILTER == 0
MAP_IDX_RINGBUF == 1
MAP_IDX_RINGBUF_DROPS == 2

Field(param, path) == [param |-> param, path |-> path]
Plain(param) == Field(param, <<>>)

HeaderFields == {Plain("timestamp_ns"), Plain("pid"), Plain("tid")}

-----------------------------------------------------------------------------
\* map_kb_fields_to_btf: the names of the knowledge base that stand for fields
\* of a socket do so only when the first parameter is called sk.
SockField(name) ==
  CASE name = "src_ip" -> <<"skc_rcv_saddr">>
    [] name = "dst_ip" -> <<"skc_daddr">>
    [] name = "src_port" -> <<"skc_num">>
    [] name = "dst_port" -> <<"skc_dport">>
    [] name = "tcp_state" -> <<"skc_state">>
    [] OTHER -> <<>>

has_sock(btf, function) ==
  LET sig == resolve_function(btf, function) IN
  sig.ok /\ sig.params # <<>> /\ sig.params[1].name = "sk"

map_kb_fields_to_btf(btf, function, kb_fields) ==
  LET Mapped(f) ==
        CASE f.path # <<>> -> <<f>>
          [] f.path = <<>> /\ has_sock(btf, function) /\ SockField(f.param) # <<>> ->
               <<Field("sk", <<"__sk_common">> \o SockField(f.param))>>
          [] f \in {Plain("command"), Plain("comm")} -> <<Plain("comm")>>
          [] f = Plain("ret") -> <<Plain("ret")>>
          [] OTHER -> <<>>
      result == FlattenSeq([i \in DOMAIN kb_fields |-> Mapped(kb_fields[i])])
  IN  IF Contains(result, Plain("comm")) THEN result ELSE Append(result, Plain("comm"))

\* deploy_codegen: what is generated for a function, with its entry of the
\* knowledge base or without one.
ProbeSpec(btf, request) ==
  LET important == SelectSeq(request.fields, LAMBDA f : f.important)
      fields == [i \in DOMAIN important |-> important[i].field]
  IN  IF request.known
      THEN [function |-> request.function,
            attachment |-> IF request.attachment = "fexit" THEN "fexit" ELSE "fentry",
            fields |-> map_kb_fields_to_btf(btf, request.function, fields)]
      ELSE [function |-> request.function, attachment |-> "fentry",
            fields |-> map_kb_fields_to_btf(btf, request.function, <<Plain("comm")>>)]

-----------------------------------------------------------------------------
\* The layout of the event: 16 bytes of header, then one field after the other.
Header ==
  [ok |-> TRUE, offset |-> 16, reads |-> <<>>,
   layout |-> <<[name |-> Plain("timestamp_ns"), offset |-> 0, size |-> 8],
                [name |-> Plain("pid"), offset |-> 8, size |-> 4],
                [name |-> Plain("tid"), offset |-> 12, size |-> 4]>>]

Place(plan, f, size, read) ==
  [ok |-> TRUE, offset |-> plan.offset + size,
   layout |-> Append(plan.layout, [name |-> f, offset |-> plan.offset, size |-> size]),
   reads |-> Append(plan.reads, [read EXCEPT !.event_offset = plan.offset])]

\* FieldRead
Read(kind, arg, struct_offset, size) ==
  [kind |-> kind, event_offset |-> 0, arg_index |-> arg,
   struct_offset |-> struct_offset, size |-> size]

\* One requested field.  Parameters are numbered from 0, as in ctx->args.
PlanField(btf, spec, sig, plan, f) ==
  LET named == {i \in DOMAIN sig.params : sig.params[i].name = f.param}
      param == sig.params[Min(named)]
      struct == pointer_pointee(btf, param.type_id)
      field == resolve_field_offset(btf, struct, f.path)
      size  == type_size(btf, param.type_id)
  IN  CASE ~plan.ok -> Err
        [] plan.ok /\ f \in HeaderFields -> plan
        [] plan.ok /\ f = Plain("comm") -> Place(plan, f, 16, Read("comm", 0, 0, 16))
        [] plan.ok /\ f = Plain("ret") ->
             IF spec.attachment = "fexit"
             THEN Place(plan, f, 4, Read("ret", Len(sig.params), 0, 4))
             ELSE Err
        [] OTHER ->
             IF named = {} THEN Err
             ELSE IF f.path # <<>>
             THEN IF struct # 0 /\ field.ok
                  THEN Place(plan, f, field.size,
                             Read("probe_read", Min(named) - 1, field.offset, field.size))
                  ELSE Err
             ELSE IF size \in ScalarSizes
                  THEN Place(plan, f, size, Read("direct", Min(named) - 1, 0, size))
                  ELSE Err

Plan(btf, spec) ==
  LET sig == resolve_function(btf, spec.function) IN
  IF ~sig.ok THEN Err
  ELSE FoldLeft(LAMBDA plan, f : PlanField(btf, spec, sig, plan, f), Header, spec.fields)

AlignedSize(offset) == ((offset + 7) \div 8) * 8

-----------------------------------------------------------------------------
\* The stack: the key of a map lookup on top, the event below it.
pid_key_off == -4
EventBase(event_size) == -(4 + event_size)

\* The self-filter is written twice: four instructions of the first attempt are
\* truncated, and the relocation of the first map load is cleared.
SelfFilterDraft ==
  <<call(BPF_FUNC_GET_CURRENT_PID_TGID), mov64_reg(6, 0),
    mov64_reg(1, 6), rsh64_imm(1, 32), stx(4, 10, 1, pid_key_off)>>
  \o ld_map_fd(1)
  \o <<mov64_reg(2, 10), add64_imm(2, pid_key_off), call(BPF_FUNC_MAP_LOOKUP_ELEM),
       jne_imm(0, 0, 2), ja(1), mov64_imm(0, 0)>>

SelfFilterKept == SubSeq(SelfFilterDraft, 1, Len(SelfFilterDraft) - 4)

SelfFilter ==
  SelfFilterKept \o ld_map_fd(1)
  \o <<mov64_reg(2, 10), add64_imm(2, pid_key_off), call(BPF_FUNC_MAP_LOOKUP_ELEM),
       jeq_imm(0, 0, 2), mov64_imm(0, 0), exit>>

ZeroInit(event_size) ==
  [i \in 1..(event_size \div 8) |->
     st_dw(10, EventBase(event_size) + 8 * (i - 1), 0)]

FillHeader(base) ==
  <<call(BPF_FUNC_KTIME_GET_NS), stx(8, 10, 0, base),
    mov64_reg(1, 6), rsh64_imm(1, 32), stx(4, 10, 1, base + 8),
    mov64_reg(1, 6), and32_imm(1, -1), stx(4, 10, 1, base + 12)>>

\* One field: from ctx->args, or copied by a helper.
FieldInsns(base, read) ==
  LET dst == base + read.event_offset
      arg == 8 * read.arg_index
  IN  CASE read.kind = "comm" ->
             <<mov64_reg(1, 10), add64_imm(1, dst), mov64_imm(2, 16),
               call(BPF_FUNC_GET_CURRENT_COMM)>>
        [] read.kind \in {"ret", "direct"} ->
             <<ldx_dw(1, 7, arg), stx(read.size, 10, 1, dst)>>
        [] read.kind = "probe_read" ->
             <<mov64_reg(1, 10), add64_imm(1, dst), mov64_imm(2, read.size),
               ldx_dw(3, 7, arg), add64_imm(3, read.struct_offset),
               call(BPF_FUNC_PROBE_READ_KERNEL)>>

FillFields(base, reads) ==
  FlattenSeq([i \in DOMAIN reads |-> FieldInsns(base, reads[i])])

Output(base, event_size) ==
  ld_map_fd(1)
  \o <<mov64_reg(2, 10), add64_imm(2, base), mov64_imm(3, event_size), mov64_imm(4, 0),
       call(BPF_FUNC_RINGBUF_OUTPUT)>>

\* Mutant: the jump over the counting is one slot short.
CountDrop_skewed ==
  <<jeq_imm(0, 0, 9), st_w(10, pid_key_off, 0)>>
  \o ld_map_fd(1)
  \o <<mov64_reg(2, 10), add64_imm(2, pid_key_off), call(BPF_FUNC_MAP_LOOKUP_ELEM),
       jeq_imm(0, 0, 3), ldx_dw(1, 0, 0), add64_imm(1, 1), stx(8, 0, 1, 0)>>

\* Mutant: the counter is looked up at index 1 of an array of one.
CountDrop_beyond ==
  <<jeq_imm(0, 0, 10), st_w(10, pid_key_off, 1)>>
  \o ld_map_fd(1)
  \o <<mov64_reg(2, 10), add64_imm(2, pid_key_off), call(BPF_FUNC_MAP_LOOKUP_ELEM),
       jeq_imm(0, 0, 3), ldx_dw(1, 0, 0), add64_imm(1, 1), stx(8, 0, 1, 0)>>

\* A failed output is counted on this CPU; the key slot is used again.
CountDrop ==
  <<jeq_imm(0, 0, 10), st_w(10, pid_key_off, 0)>>
  \o ld_map_fd(1)
  \o <<mov64_reg(2, 10), add64_imm(2, pid_key_off), call(BPF_FUNC_MAP_LOOKUP_ELEM),
       jeq_imm(0, 0, 3), ldx_dw(1, 0, 0), add64_imm(1, 1), stx(8, 0, 1, 0)>>

Exit == <<mov64_imm(0, 0), exit>>

\* program::generate, for a layout that could be planned.  ctx is saved in r7 by
\* an instruction put in front of the others, and the relocations noted so far
\* move by one slot.
Linked(layout, event_size, before, output, after) ==
  IF event_size + 4 > MAX_STACK \/ Len(before \o output \o after) > MAX_INSNS THEN Err
  ELSE [ok |-> TRUE, insns |-> before \o output \o after, layout |-> layout,
        event_size |-> event_size,
        relocations |->
          {<<1 + Len(SelfFilterKept), MAP_IDX_PID_FILTER>>,
           <<Len(before), MAP_IDX_RINGBUF>>,
           <<Len(before) + Len(output) + 2, MAP_IDX_RINGBUF_DROPS>>}]

Emit(plan, event_size, base) ==
  Linked(plan.layout, event_size,
         <<mov64_reg(7, 1)>> \o SelfFilter \o ZeroInit(event_size)
           \o FillHeader(base) \o FillFields(base, plan.reads),
         Output(base, event_size),
         CountDrop \o Exit)

GenerateProgram(plan) ==
  IF ~plan.ok THEN Err
  ELSE Emit(plan, AlignedSize(plan.offset), EventBase(AlignedSize(plan.offset)))

-----------------------------------------------------------------------------
\* generate_elf: the program text, the maps with their sizes, and relocations
\* by byte offset.
MapDef(idx) ==
  CASE idx = MAP_IDX_PID_FILTER -> [type |-> "hash", key_size |-> 4, value_size |-> 1]
    [] idx = MAP_IDX_RINGBUF -> [type |-> "ringbuf", key_size |-> 0, value_size |-> 0]
    [] idx = MAP_IDX_RINGBUF_DROPS ->
         [type |-> "percpu_array", key_size |-> 4, value_size |-> 8]

generate_elf(program) ==
  [text |-> encode(program.insns),
   maps |-> [idx \in 0..2 |-> MapDef(idx)],
   relocations |-> {<<8 * r[1], r[2]>> : r \in program.relocations}]

\* jalki_codegen::generate
Packaged(program, spec) ==
  IF ~program.ok THEN Err
  ELSE [ok |-> TRUE, elf |-> generate_elf(program), layout |-> program.layout,
        event_size |-> program.event_size, spec |-> spec]

GeneratedProbe(btf, spec) == Packaged(GenerateProgram(Plan(btf, spec)), spec)

-----------------------------------------------------------------------------
\* GeneratedProbeReader::to_evidence.  A number is its bytes, most significant
\* first: a little-endian read reverses them, from_be puts them back.  A read
\* that goes beyond the event gives zeroes.
Bytes(raw, offset, n, zero) ==
  IF offset + n <= Len(raw) THEN SubSeq(raw, offset + 1, offset + n)
                            ELSE [k \in 1..n |-> zero]
LittleEndian(raw, offset, n, zero) == Reverse(Bytes(raw, offset, n, zero))

\* String::contains, for a part without a dot: it lies within one of the names.
HasPart(f, part) ==
  \E name \in {f.param} \cup ToSet(f.path) :
    \E i \in 1..(Len(name) - Len(part) + 1) : SubSeq(name, i, i + Len(part) - 1) = part

\* The parts by which a field is recognised, in the order they are tried.
NameParts ==
  <<[what |-> "src_ip", parts |-> {"skc_rcv_saddr", "src_addr"}],
    [what |-> "dst_ip", parts |-> {"skc_daddr", "dst_addr"}],
    [what |-> "src_port", parts |-> {"skc_num", "src_port"}],
    [what |-> "dst_port", parts |-> {"skc_dport", "dst_port"}]>>

Pattern(f) ==
  LET fitting == {i \in DOMAIN NameParts : \E part \in NameParts[i].parts : HasPart(f, part)}
  IN  CASE f \in HeaderFields -> "header"
        [] f \in {Plain("comm"), Plain("ret")} -> f.param
        [] OTHER -> IF fitting = {} THEN "entity" ELSE NameParts[Min(fitting)].what


FieldValue(raw, field, zero) ==
  LET what == Pattern(field.name) IN
  CASE what = "comm" -> Bytes(raw, field.offset, 16, zero)
    [] what = "ret" -> LittleEndian(raw, field.offset, 4, zero)
    [] what \in {"src_ip", "dst_ip"} -> Bytes(raw, field.offset, 4, zero)
    [] what = "src_port" -> LittleEndian(raw, field.offset, 2, zero)
    [] what = "dst_port" -> Bytes(raw, field.offset, 2, zero)
    [] what = "entity" -> LittleEndian(raw, field.offset, field.size, zero)

\* What the evidence says: [pid, observed_at, network, process, entities,
\* outcome], the last four as sets of pairs; an address or port that is not
\* among the pairs is empty or 0 in the record.  Of two fields with one meaning
\* the later counts, and ports appear with an address only.  zero is a byte
\* that is 0.
to_evidence(probe, raw, zero) ==
  LET layout == probe.layout
      With(what) == {i \in DOMAIN layout : Pattern(layout[i].name) = what}
      Value(what) ==
        IF With(what) = {} THEN {}
        ELSE {<<what, FieldValue(raw, layout[Max(With(what))], zero)>>}
      addresses == Value("src_ip") \cup Value("dst_ip")
  IN  [observed_at |-> LittleEndian(raw, 0, 8, zero),
       pid |-> LittleEndian(raw, 8, 4, zero),
       network |-> IF addresses = {} THEN {}
                   ELSE addresses \cup Value("src_port") \cup Value("dst_port"),
       process |-> Value("comm"),
       entities |-> {<<layout[i].name, FieldValue(raw, layout[i], zero)>> : i \in With("entity")},
       outcome |-> {IF ToSet(r[2]) = {zero} THEN "success" ELSE "failure" : r \in Value("ret")}]
=============================================================================
