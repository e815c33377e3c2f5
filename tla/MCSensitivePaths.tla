-------------------------- MODULE MCSensitivePaths --------------------------
(***************************************************************************)
(* Instances of SensitivePaths for TLC: every pattern and every path up to *)
(* a length, and lists that fill and overfill the kernel's map.            *)
(***************************************************************************)
EXTENDS SensitivePaths

Words(alphabet, n) == UNION {[1..k -> alphabet] : k \in 1..n}

\* Four characters hold two wildcards with a literal before and after.
Patterns == Words({"/", "a", "*", "?", "["}, 4)
Lists == {<<p>> : p \in Patterns}
  \union {<<<<"/", "a", "/">>, p>> : p \in Words({"/", "b", "*"}, 2)}
  \union {<<<<"/", "a">>, <<"*", "b">>, p>> : p \in Words({"/", "b", "*"}, 2)}

Absolute(alphabet, n) == {<<"/">> \o w : w \in {<<>>} \union Words(alphabet, n)}
PlainPaths ==
  Absolute({"/", "a", "b"}, 3)
  \union {<<"/", "[">>, <<"/", "a", "[", "b">>, <<"/", "a", "/", "b", "a">>}

\* A file may have any byte but `/` and NUL in its name, a wildcard too; and of
\* `/*b/` the part of the path that decides may lie behind the cut.
DoubtfulPaths == PlainPaths \union Absolute({"a", "*"}, 2)
DoubtfulLists == {<<p>> : p \in Words({"/", "*"}, 2)} \union {<<<<"/", "*", "b", "/">>>>}
=============================================================================
