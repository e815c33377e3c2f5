-------------------------- MODULE MCIpcConnection --------------------------
(* Instances of IpcConnection for TLC. *)
EXTENDS IpcConnection

CONSTANTS s1, s2

MCProbes == {"tcp_connect"}
MCHandles == MCProbes \cup {"probe_001"}
MCIdOf == [p \in MCProbes |-> "probe_001"]

\* Bounds: two streams share the channel with one event in the store, a stream
\* that is stopped, or asked for beside another request, meets two, and a stream
\* alone a ring that wraps.  The streams are interchangeable.
FewerForMore ==
  /\ requests = 2 => Cardinality(Made) <= 2
  /\ phase[s2] # "none" => phase[s1] # "none" /\ Cardinality(Made) <= 1

\* A bound: no occurrence is made in the last millisecond, so that all of the
\* first one leave the window while those of the next stay.
NoneAtTheEnd == \A id \in Made : MsOf(id) < MaxClock
=============================================================================
