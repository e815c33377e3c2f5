---------------------------- MODULE KernelTypes ----------------------------
(***************************************************************************)
(* The kernel's side of BTF, external to jalki: the C declarations of a    *)
(* kernel, the words it publishes for them in /sys/kernel/btf/vmlinux, and *)
(* what C says about where a field is.  The last is the reference that     *)
(* Btf is checked against.                                                 *)
(*                                                                         *)
(* A declaration is [kind, name, ref, bits, members, params, n]: ref is    *)
(* the size or the type it refers to, bits the width of an integer, n the  *)
(* number of values of an enumeration or of variables of a section.  A     *)
(* member is [name, type, at, width], at in bits, width 0 when it is not a *)
(* bit field.                                                              *)
(***************************************************************************)
EXTENDS Btf

Decl(kind, name, ref) ==
  [kind |-> kind, name |-> name, ref |-> ref, bits |-> 0, members |-> <<>>,
   params |-> <<>>, n |-> 0]
IntType(name, bytes) == [Decl(BTF_KIND_INT, name, bytes) EXCEPT !.bits = 8 * bytes]
Ptr(to) == Decl(BTF_KIND_PTR, "", to)
Aggregate(kind, name, bytes, members) ==
  [Decl(kind, name, bytes) EXCEPT !.members = members]
Member(name, type, byte) == [name |-> name, type |-> type, at |-> 8 * byte, width |-> 0]
BitField(name, type, bit, width) ==
  [name |-> name, type |-> type, at |-> bit, width |-> width]
Counted(kind, n) == [Decl(kind, "", 4) EXCEPT !.n = n]
Proto(params) == [Decl(BTF_KIND_FUNC_PROTO, "", 0) EXCEPT !.params = params]
Param(name, type) == [name |-> name, type |-> type]

-----------------------------------------------------------------------------
\* Every name in the order of the declarations.
NamesOf(decls) ==
  FlattenSeq([i \in DOMAIN decls |->
    LET d == decls[i] IN
    <<d.name>> \o [j \in DOMAIN d.members |-> d.members[j].name]
               \o [j \in DOMAIN d.params |-> d.params[j].name]])

Encode(decls) ==
  LET names   == NamesOf(decls)
      Off(nm) == IF nm = "" THEN 0 ELSE Min({i \in DOMAIN names : names[i] = nm})
      KFlag(d) == \E m \in ToSet(d.members) : m.width > 0
      Vlen(d) == Max({Len(d.members), Len(d.params), d.n})
      Zeros(n) == [i \in 1..n |-> 0]
      Extra(d) ==
        CASE d.kind \in {BTF_KIND_INT} -> <<d.bits>>
          [] d.kind \in {BTF_KIND_VAR, BTF_KIND_DECL_TAG} -> <<1>>
          [] d.kind = BTF_KIND_ARRAY -> <<1, 1, 4>>
          [] d.kind \in {BTF_KIND_STRUCT, BTF_KIND_UNION} ->
               FlattenSeq([j \in DOMAIN d.members |->
                 LET m == d.members[j] IN
                 <<Off(m.name), m.type, m.width * 2^24 + m.at>>])
          [] d.kind = BTF_KIND_FUNC_PROTO ->
               FlattenSeq([j \in DOMAIN d.params |->
                 <<Off(d.params[j].name), d.params[j].type>>])
          [] d.kind = BTF_KIND_ENUM -> Zeros(2 * d.n)
          [] d.kind \in {BTF_KIND_ENUM64, BTF_KIND_DATASEC} -> Zeros(3 * d.n)
          [] OTHER -> <<>>
      Words(d) ==
        <<Off(d.name), [kflag |-> KFlag(d), kind |-> d.kind, vlen |-> Vlen(d)], d.ref>>
          \o Extra(d)
  IN  [words |-> FlattenSeq([i \in DOMAIN decls |-> Words(decls[i])]),
       strings |-> names,
       magic |-> TRUE]

-----------------------------------------------------------------------------
\* The type behind typedefs and qualifiers.
Unqualified(decls, type) ==
  LET To[t \in Nat] ==
        IF t \in DOMAIN decls /\ decls[t].kind \in Modifiers THEN To[decls[t].ref] ELSE t
  IN  To[type]

\* The members C code can name in an object of a type: its own ones and those
\* of its anonymous members, which are part of the enclosing name space.
Visible(decls, type) ==
  LET In[t \in Nat] ==
        LET u == Unqualified(decls, t)
            own == IF u \in DOMAIN decls THEN ToSet(decls[u].members) ELSE {}
        IN  {m \in own : m.name # ""} \cup
            UNION {{[i EXCEPT !.at = @ + m.at] : i \in In[m.type]} :
                     m \in {x \in own : x.name = ""}}
  IN  In[type]

\* Where C finds x.path: the set of [type, at, width] it can denote.
Denotes(decls, type, path) ==
  LET Step(objs, part) ==
        UNION {{[type |-> m.type, at |-> o.at + m.at, width |-> m.width] :
                  m \in {v \in Visible(decls, o.type) : v.name = part}} : o \in objs}
  IN  FoldLeft(Step, {[type |-> type, at |-> 0, width |-> 0]}, path)

\* sizeof
SizeOf(decls, type) ==
  LET u == Unqualified(decls, type) IN
  CASE u \notin DOMAIN decls -> 0
    [] u \in DOMAIN decls /\ decls[u].kind = BTF_KIND_PTR -> 8
    [] u \in DOMAIN decls /\ decls[u].kind \in {BTF_KIND_INT, BTF_KIND_STRUCT,
         BTF_KIND_UNION, BTF_KIND_ENUM, BTF_KIND_ENUM64, BTF_KIND_FLOAT} -> decls[u].ref
    [] OTHER -> 0
=============================================================================
