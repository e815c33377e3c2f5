-------------------------------- MODULE Btf --------------------------------
(***************************************************************************)
(* Kernel type information as jalki reads it: jalki-codegen/src/btf.rs.    *)
(* A BTF section is a flat sequence of 32-bit words, so a reader that gets *)
(* the length of one entry wrong misreads all the entries after it.        *)
(*                                                                         *)
(* A word is a number, except that the info word is kept as its three bit  *)
(* fields [kflag, kind, vlen].  The string section maps offsets to names.  *)
(* A lookup returns a record whose field ok says whether it is Ok or Err.  *)
(***************************************************************************)
EXTENDS Integers, Sequences, SequencesExt, FiniteSetsExt

BTF_KIND_INT == 1
BTF_KIND_PTR == 2
BTF_KIND_ARRAY == 3
BTF_KIND_STRUCT == 4
BTF_KIND_UNION == 5
BTF_KIND_ENUM == 6
BTF_KIND_TYPEDEF == 8
BTF_KIND_VOLATILE == 9
BTF_KIND_CONST == 10
BTF_KIND_RESTRICT == 11
BTF_KIND_FUNC == 12
BTF_KIND_FUNC_PROTO == 13
BTF_KIND_VAR == 14
BTF_KIND_DATASEC == 15
BTF_KIND_FLOAT == 16
BTF_KIND_DECL_TAG == 17
BTF_KIND_TYPE_TAG == 18
BTF_KIND_ENUM64 == 19

Modifiers == {BTF_KIND_TYPEDEF, BTF_KIND_VOLATILE, BTF_KIND_CONST,
              BTF_KIND_RESTRICT, BTF_KIND_TYPE_TAG}

Err == [ok |-> FALSE]

-----------------------------------------------------------------------------
\* How many words follow the three-word header of an entry.
ExtraWords(kind, vlen) ==
  CASE kind \in {BTF_KIND_INT, BTF_KIND_VAR, BTF_KIND_DECL_TAG} -> 1
    [] kind = BTF_KIND_ARRAY -> 3
    [] kind \in {BTF_KIND_STRUCT, BTF_KIND_UNION,
                 BTF_KIND_DATASEC, BTF_KIND_ENUM64} -> 3 * vlen
    [] kind \in {BTF_KIND_ENUM, BTF_KIND_FUNC_PROTO} -> 2 * vlen
    [] OTHER -> 0

EndOf(words, at) == at + 3 + ExtraWords(words[at + 1].kind, words[at + 1].vlen)

\* Where the entries start: the loop stops when no whole header is left.
TypeStarts(words) ==
  LET From[at \in Nat] ==
        IF at + 2 > Len(words) THEN <<>> ELSE <<at>> \o From[EndOf(words, at)]
  IN  From[1]

\* Only entries whose data is kept are checked against the end of the section.
Truncated(words, at) ==
  /\ words[at + 1].kind \in {BTF_KIND_INT, BTF_KIND_STRUCT, BTF_KIND_UNION,
                             BTF_KIND_FUNC_PROTO}
  /\ EndOf(words, at) > Len(words) + 1

\* BtfMember and BtfParam.  The kind_flag of the info word is not looked at.
Members(words, at) ==
  [j \in 1..words[at + 1].vlen |->
     [name_off |-> words[at + 3 * j], type_id |-> words[at + 3 * j + 1],
      offset_bits |-> words[at + 3 * j + 2]]]

Params(words, at) ==
  [j \in 1..words[at + 1].vlen |->
     [name_off |-> words[at + 2 * j + 1], type_id |-> words[at + 2 * j + 2]]]

TypeEntry(words, at) ==
  LET kind == words[at + 1].kind IN
  [name_off |-> words[at], kind |-> kind, size_or_type |-> words[at + 2],
   int_data |-> IF kind = BTF_KIND_INT THEN words[at + 3] ELSE 0,
   members |-> IF kind \in {BTF_KIND_STRUCT, BTF_KIND_UNION}
               THEN Members(words, at) ELSE <<>>,
   params |-> IF kind = BTF_KIND_FUNC_PROTO THEN Params(words, at) ELSE <<>>]

parse_types(words) ==
  LET starts == TypeStarts(words) IN
  IF \E i \in DOMAIN starts : Truncated(words, starts[i])
  THEN Err
  ELSE [ok |-> TRUE, types |-> [i \in DOMAIN starts |-> TypeEntry(words, starts[i])]]

\* BtfData::parse of [words, strings, magic]: a section that is too short or
\* has another magic number is refused.
parse(data) ==
  LET parsed == parse_types(data.words) IN
  IF data.magic /\ parsed.ok
  THEN [ok |-> TRUE, types |-> parsed.types, strings |-> data.strings]
  ELSE Err

-----------------------------------------------------------------------------
string_at(btf, offset) ==
  IF offset \in DOMAIN btf.strings THEN btf.strings[offset] ELSE ""

\* get_type: type ids start at 1, and 0 is void.
HasType(btf, id) == id \in DOMAIN btf.types

\* func_index and struct_index: of several types with one name the last stays.
IdsNamed(btf, kind, name) ==
  {id \in DOMAIN btf.types : /\ btf.types[id].kind = kind
                             /\ name # ""
                             /\ string_at(btf, btf.types[id].name_off) = name}

lookup(btf, kind, name) ==
  IF IdsNamed(btf, kind, name) = {} THEN 0 ELSE Max(IdsNamed(btf, kind, name))

struct_by_name(btf, name) == lookup(btf, BTF_KIND_STRUCT, name)

\* The parameters of a function, as [name, type_id].
resolve_function(btf, function) ==
  LET id    == lookup(btf, BTF_KIND_FUNC, function)
      proto == btf.types[id].size_or_type
  IN  IF /\ HasType(btf, id)
         /\ HasType(btf, proto)
         /\ btf.types[proto].kind = BTF_KIND_FUNC_PROTO
      THEN [ok |-> TRUE,
            params |-> [i \in DOMAIN btf.types[proto].params |->
                          LET p == btf.types[proto].params[i] IN
                          [name |-> string_at(btf, p.name_off), type_id |-> p.type_id]]]
      ELSE Err

MODIFIER_DEPTH == 32

\* The type behind typedefs and qualifiers, at most MODIFIER_DEPTH of them.
resolve_through_modifiers(btf, type_id) ==
  LET Strip[id \in Nat, depth \in 0..MODIFIER_DEPTH] ==
        IF depth > 0 /\ HasType(btf, id) /\ btf.types[id].kind \in Modifiers
        THEN Strip[btf.types[id].size_or_type, depth - 1]
        ELSE id
  IN  Strip[type_id, MODIFIER_DEPTH]

\* Bytes of a type; 0 for those without a scalar or aggregate size.
type_size(btf, type_id) ==
  LET Size[id \in Nat] ==
        IF ~HasType(btf, id) THEN 0
        ELSE LET ty == btf.types[id] IN
             CASE ty.kind = BTF_KIND_INT -> (ty.int_data % 256) \div 8
               [] ty.kind \in {BTF_KIND_STRUCT, BTF_KIND_UNION, BTF_KIND_ENUM,
                               BTF_KIND_ENUM64, BTF_KIND_FLOAT} -> ty.size_or_type
               [] ty.kind = BTF_KIND_PTR -> 8
               [] ty.kind \in Modifiers -> Size[ty.size_or_type]
               [] OTHER -> 0
  IN  Size[type_id]

\* The struct a pointer points to, or 0 (PointeeKind::Other).
pointer_pointee(btf, type_id) ==
  IF HasType(btf, type_id) /\ btf.types[type_id].kind = BTF_KIND_PTR
  THEN LET pointee == resolve_through_modifiers(btf, btf.types[type_id].size_or_type)
       IN  IF HasType(btf, pointee) /\ btf.types[pointee].kind = BTF_KIND_STRUCT
           THEN pointee ELSE 0
  ELSE 0

-----------------------------------------------------------------------------
\* Mutant: the offset of the anonymous member itself is forgotten.
ThroughAnonymous_flat(member, inner) ==
  [ok |-> TRUE, type_id |-> inner.type_id, offset |-> inner.offset]

\* A member found inside an anonymous one lies at the sum of the two offsets.
ThroughAnonymous(member, inner) ==
  [ok |-> TRUE, type_id |-> inner.type_id,
   offset |-> member.offset_bits \div 8 + inner.offset]

\* A member by name: the named members first, then the anonymous ones, in
\* order and into any depth.
find_member_recursive(btf, type_id, field_name) ==
  LET Find[id \in Nat] ==
        LET resolved == resolve_through_modifiers(btf, id) IN
        IF ~HasType(btf, resolved) THEN Err
        ELSE
        LET members == btf.types[resolved].members
            name(j) == string_at(btf, members[j].name_off)
            direct  == {j \in DOMAIN members : name(j) = field_name}
            inside  == {j \in DOMAIN members :
                          name(j) = "" /\ Find[members[j].type_id].ok}
        IN  CASE direct # {} ->
                   [ok |-> TRUE, type_id |-> members[Min(direct)].type_id,
                    offset |-> members[Min(direct)].offset_bits \div 8]
              [] direct = {} /\ inside # {} ->
                   ThroughAnonymous(members[Min(inside)],
                                    Find[members[Min(inside)].type_id])
              [] OTHER -> Err
  IN  Find[type_id]

\* field_offset: one step of the path after the other, the offsets added up.
field_offset(btf, struct_id, path) ==
  FoldLeft(LAMBDA acc, part :
             IF ~acc.ok THEN Err
             ELSE LET found == find_member_recursive(btf, acc.type_id, part) IN
                  IF found.ok
                  THEN [ok |-> TRUE, type_id |-> found.type_id,
                        offset |-> acc.offset + found.offset]
                  ELSE Err,
           [ok |-> TRUE, type_id |-> struct_id, offset |-> 0], path)

\* size_to_field_type: the sizes a scalar may have.
ScalarSizes == {1, 2, 4, 8}

\* resolve_field_offset: as field_offset, for a leaf that is a scalar.
resolve_field_offset(btf, struct_id, path) ==
  LET found == field_offset(btf, struct_id, path) IN
  IF found.ok /\ type_size(btf, found.type_id) \in ScalarSizes
  THEN [ok |-> TRUE, offset |-> found.offset, size |-> type_size(btf, found.type_id)]
  ELSE Err
=============================================================================
