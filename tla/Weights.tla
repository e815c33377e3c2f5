------------------------------ MODULE Weights ------------------------------
(***************************************************************************)
(* The total size of a set of sized things, without recursion: one unit    *)
(* per thing and byte, counted.  resident_bytes and approx_bytes are sums  *)
(* over records of this kind.                                              *)
(***************************************************************************)
EXTENDS Naturals, FiniteSets

Units(S, size) == UNION {{x} \X (1..size[x]) : x \in S}

Weight(S, size) == Cardinality(Units(S, size))
=============================================================================
