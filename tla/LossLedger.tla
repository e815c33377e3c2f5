----------------------------- MODULE LossLedger -----------------------------
(***************************************************************************)
(* What a stage of the evidence pipeline promises about every message      *)
(* handed to it, whatever queues and buffers it is made of (ADR-0006): a   *)
(* message it takes is passed on, and one it cannot take is reported as    *)
(* lost, each exactly once.  Only the disappearance of the consumer        *)
(* excuses it from that.                                                   *)
(*                                                                         *)
(* Losses are reported together: a report covers every loss known when it  *)
(* is taken.                                                               *)
(***************************************************************************)
CONSTANT Msgs       \* the messages offered to the stage

VARIABLES
  status,           \* what became of each message
  gone              \* the consumer has gone away

Init == /\ status = [m \in Msgs |-> "offered"]
        /\ gone = FALSE

With(s) == {m \in Msgs : status[m] = s}

Move(S, s) == status' = [m \in Msgs |-> IF m \in S THEN s ELSE status[m]]

\* The stage takes responsibility for m ...
Hold(m) == ~gone /\ m \in With("offered") /\ Move({m}, "held") /\ UNCHANGED gone

\* ... or refuses it, and owes a report of the loss.
Lose(m) == ~gone /\ m \in With("offered") /\ Move({m}, "lost") /\ UNCHANGED gone

\* m is not the stage's to deliver.
Exclude(m) == m \in With("offered") /\ Move({m}, "excluded") /\ UNCHANGED gone

Deliver(m) == ~gone /\ m \in With("held") /\ Move({m}, "delivered") /\ UNCHANGED gone

Report == ~gone /\ Move(With("lost"), "reported") /\ UNCHANGED gone

\* The consumer goes away: what it had not taken is gone with it, and so is
\* whatever is offered afterwards.
Leave == ~gone /\ gone' = TRUE /\ Move(With("held") \cup With("lost"), "abandoned")

Abandon(m) == gone /\ m \in With("offered") /\ Move({m}, "abandoned") /\ UNCHANGED gone

Next == \/ \E m \in Msgs : Hold(m) \/ Lose(m) \/ Exclude(m) \/ Deliver(m) \/ Abandon(m)
        \/ Report
        \/ Leave

Spec == Init /\ [][Next]_<<status, gone>>

\* Responsibility, once taken, is discharged.
Discharged ==
  \A m \in Msgs : status[m] \in {"held", "lost"}
                    ~> status[m] \in {"delivered", "reported", "abandoned"}
=============================================================================
