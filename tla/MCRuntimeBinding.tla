-------------------------- MODULE MCRuntimeBinding --------------------------
(* Instances of RuntimeBinding for TLC. *)
EXTENDS RuntimeBinding

MCPods == {"p1", "p2"}
MCContainers == {"a", "b", "c"}
MCPodOf == [c \in MCContainers |-> IF c = "c" THEN "p2" ELSE "p1"]
MCTwo == {"a", "c"}
MCPodOfTwo == [c \in MCTwo |-> IF c = "c" THEN "p2" ELSE "p1"]
=============================================================================
