---------------------------- MODULE MCSinkQueue ----------------------------
(***************************************************************************)
(* Instances of SinkQueue for TLC.                                         *)
(***************************************************************************)
EXTENDS SinkQueue, TLC

CONSTANTS r1, r2, a, b, c, d

shape(k, s) == [kind |-> k, inScope |-> s]
agent == shape("agent", FALSE)
attribution == shape("attribution", TRUE)
reliability == shape("reliability", TRUE)
foreign == shape("attribution", FALSE)

\* Two readers with two messages each: one larger than the whole budget, one of
\* the reliability class, an agent record drained together with out-of-scope
\* evidence, and a message that is out of scope altogether.
TwoReaders == {r1, r2}
MixedMsgs == {a, b, c, d}
MixedReaders == a :> r1 @@ b :> r2 @@ c :> r1 @@ d :> r2
MixedRecords == a :> {attribution, reliability} @@ b :> {reliability}
                @@ c :> {agent, foreign} @@ d :> {foreign}
MixedSizes == a :> 5 @@ b :> 3 @@ c :> 1 @@ d :> 1
=============================================================================
