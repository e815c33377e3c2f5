----------------------------- MODULE SinkQueue -----------------------------
(***************************************************************************)
(* The reader->sink queue, jalki/src/sink_queue.rs.  Reader threads call   *)
(* try_send, which never blocks: it admits a message against a byte budget *)
(* or refuses it and reports the loss in-band, through one GapMarker per   *)
(* refusal episode.  The sink loop calls recv.                             *)
(*                                                                         *)
(* A call of try_send handles one message, so the program counter of a     *)
(* call is kept per message: pc[m].  Every access to shared state (an      *)
(* atomic, the Lost mutex, the channel) is a step of its own, with two     *)
(* exceptions that no other thread can tell: the compare-and-swap loop of  *)
(* reserve takes effect at its last read or its successful exchange, and   *)
(* release's two decrements are one step.                                  *)
(***************************************************************************)
EXTENDS Integers, Sequences, FiniteSets, Weights

CONSTANTS
  Readers,      \* the threads that hold a SinkQueueSender
  Msgs,         \* the messages they send
  ReaderOf,     \* the sender of each message
  Records,      \* the records of each message, as [kind, inScope]
  Size,         \* resident_bytes of a message after scoping
  MaxBytes,     \* SinkQueueConfig::max_bytes
  PressureMax   \* SinkQueueConfig::pressure_max_bytes

Kinds == {"agent", "attribution", "reliability"}

ASSUME MsgsAssumption ==
  /\ ReaderOf \in [Msgs -> Readers]
  /\ Records \in [Msgs -> SUBSET [kind : Kinds, inScope : BOOLEAN]]
  /\ Size \in [Msgs -> Nat \ {0}]

ASSUME BudgetAssumption ==
  /\ MaxBytes \in Nat
  /\ PressureMax \in 0..MaxBytes

Marker == "GapMarker"
Taking == "taking"        \* the receiver between release_marker and take_lost
Nothing == "nothing"

ASSUME TagsAreNotMessages == {Marker, Taking, Nothing} \cap Msgs = {}

VARIABLES
  pc,             \* where each message's try_send stands, or what it returned
  pressured,      \* the call's local: under_pressure as reserve read it
  bytes,          \* Shared::bytes
  messages,       \* Shared::messages
  underPressure,  \* Shared::under_pressure
  reports,        \* Lost::reports: per cause, the refused messages it covers
  markerQueued,   \* Lost::marker_queued
  queue,          \* the unbounded channel
  closed,         \* the receiver has been dropped
  hand,           \* what recv has popped and not yet returned
  stopped,        \* the readers that dropped their sender
  ended,          \* recv returned None
  delivered,      \* messages recv returned as Received::Records
  reported,       \* messages covered by a Received::Gaps recv returned
  discarded       \* the channel's content when the receiver was dropped

callVars == <<pc, pressured>>
lostVars == <<reports, markerQueued>>
outVars == <<delivered, reported, discarded>>
vars == <<pc, pressured, bytes, messages, underPressure, reports, markerQueued,
          queue, closed, hand, stopped, ended, delivered, reported, discarded>>

Causes == {"overflow", "pressure"}

\* Every value of pc.  The first set is a call in progress, the second a result.
Active == {"measured", "reserving", "reserved", "counted",
           "refusing", "marking", "marked"}
Results == {"Admitted", "OutOfScope", "Refused", "QueueClosed"}

Goto(m, label) == pc' = [pc EXCEPT ![m] = label]

-----------------------------------------------------------------------------
(* Admission *)

\* What is left of a message once the namespace scope applied.
Kept(m) == {r \in Records[m] : r.kind = "agent" \/ r.inScope}

admit_class(m) ==
  CASE \A r \in Kept(m) : r.kind = "agent"       -> "Agent"
    [] \A r \in Kept(m) : r.kind = "reliability" -> "Reliability"
    [] OTHER                                     -> "Attribution"

Budget(pressure) == IF pressure THEN PressureMax ELSE MaxBytes

\* Mutant: the budget is compared before the message is added.
Fits_before_adding(m) == bytes = 0 \/ bytes < Budget(pressured[m])

\* reserve's limit check; an empty queue takes one message whatever its size.
\* Admit::Agent is usize::MAX, which no sum reaches.
Fits(m) ==
  \/ bytes = 0
  \/ admit_class(m) = "Agent"
  \/ LET budget == Budget(pressured[m])
         limit  == IF admit_class(m) = "Reliability"
                     THEN budget - budget \div 4 ELSE budget
     IN  bytes + Size[m] <= limit

Cause(m) == IF pressured[m] THEN "pressure" ELSE "overflow"

Unreported == UNION {reports[c] : c \in Causes}

-----------------------------------------------------------------------------
Init ==
  /\ pc = [m \in Msgs |-> "unsent"]
  /\ pressured = [m \in Msgs |-> FALSE]
  /\ bytes = 0
  /\ messages = 0
  /\ underPressure = FALSE
  /\ reports = [c \in Causes |-> {}]
  /\ markerQueued = FALSE
  /\ queue = <<>>
  /\ closed = FALSE
  /\ hand = Nothing
  /\ stopped = {}
  /\ ended = FALSE
  /\ delivered = {}
  /\ reported = {}
  /\ discarded = <<>>

\* A reader makes one call at a time.
Ready(r) == /\ r \notin stopped
            /\ \A m \in Msgs : ReaderOf[m] = r => pc[m] \notin Active

\* try_send up to the measurement: is_closed, then the namespace scope.
TrySend(m) ==
  /\ pc[m] = "unsent"
  /\ Ready(ReaderOf[m])
  /\ Goto(m, IF closed THEN "QueueClosed"
             ELSE IF Kept(m) = {} THEN "OutOfScope" ELSE "measured")
  /\ UNCHANGED <<pressured, bytes, messages, underPressure, lostVars, queue,
                 closed, hand, stopped, ended, outVars>>

\* reserve reads under_pressure once, before its loop.
LoadPressure(m) ==
  /\ pc[m] = "measured"
  /\ pressured' = [pressured EXCEPT ![m] = underPressure]
  /\ Goto(m, "reserving")
  /\ UNCHANGED <<bytes, messages, underPressure, lostVars, queue, closed,
                 hand, stopped, ended, outVars>>

\* The compare-and-swap loop of reserve.
Reserve(m) ==
  /\ pc[m] = "reserving"
  /\ \/ Fits(m) /\ bytes' = bytes + Size[m] /\ Goto(m, "reserved")
     \/ ~Fits(m) /\ UNCHANGED bytes /\ Goto(m, "refusing")
  /\ UNCHANGED <<pressured, messages, underPressure, lostVars, queue, closed,
                 hand, stopped, ended, outVars>>

\* Mutant: the message is not counted.
Count_missing(m) ==
  /\ pc[m] = "reserved"
  /\ Goto(m, "counted")
  /\ UNCHANGED <<pressured, messages, bytes, underPressure, lostVars, queue, closed,
                 hand, stopped, ended, outVars>>

\* "Counted before the send, so the receiver can never decrement first."
Count(m) ==
  /\ pc[m] = "reserved"
  /\ messages' = messages + 1
  /\ Goto(m, "counted")
  /\ UNCHANGED <<pressured, bytes, underPressure, lostVars, queue, closed,
                 hand, stopped, ended, outVars>>

\* Mutant: the reservation is kept when the channel is closed.
Send_keeps_reservation(m) ==
  /\ pc[m] = "counted"
  /\ queue' = IF closed THEN queue ELSE Append(queue, m)
  /\ Goto(m, IF closed THEN "QueueClosed" ELSE "Admitted")
  /\ UNCHANGED <<pressured, bytes, messages, underPressure, lostVars, closed,
                 hand, stopped, ended, outVars>>

\* tx.send; on a closed channel the reservation is released again.
Send(m) ==
  /\ pc[m] = "counted"
  /\ \/ /\ ~closed
        /\ queue' = Append(queue, m)
        /\ Goto(m, "Admitted")
        /\ UNCHANGED <<bytes, messages>>
     \/ /\ closed
        /\ bytes' = bytes - Size[m]
        /\ messages' = messages - 1
        /\ Goto(m, "QueueClosed")
        /\ UNCHANGED queue
  /\ UNCHANGED <<pressured, underPressure, lostVars, closed, hand, stopped,
                 ended, outVars>>

\* Mutants: a second report of a cause replaces the first; a marker per refusal.
Refuse_replacing(m) ==
  /\ pc[m] = "refusing"
  /\ reports' = [reports EXCEPT ![Cause(m)] = {m}]
  /\ markerQueued' = TRUE
  /\ Goto(m, IF markerQueued THEN "Refused" ELSE "marking")
  /\ UNCHANGED <<pressured, bytes, messages, underPressure, queue, closed,
                 hand, stopped, ended, outVars>>

Refuse_always_marking(m) ==
  /\ pc[m] = "refusing"
  /\ reports' = [reports EXCEPT ![Cause(m)] = @ \cup {m}]
  /\ markerQueued' = TRUE
  /\ Goto(m, "marking")
  /\ UNCHANGED <<pressured, bytes, messages, underPressure, queue, closed,
                 hand, stopped, ended, outVars>>

\* refuse, under the Lost mutex: merge_by_cause, then claim the marker.
Refuse(m) ==
  /\ pc[m] = "refusing"
  /\ reports' = [reports EXCEPT ![Cause(m)] = @ \cup {m}]
  /\ markerQueued' = TRUE
  /\ Goto(m, IF markerQueued THEN "Refused" ELSE "marking")
  /\ UNCHANGED <<pressured, bytes, messages, underPressure, queue, closed,
                 hand, stopped, ended, outVars>>

\* The refuser that opened the episode counts and sends its marker.
CountMarker(m) ==
  /\ pc[m] = "marking"
  /\ messages' = messages + 1
  /\ Goto(m, "marked")
  /\ UNCHANGED <<pressured, bytes, underPressure, lostVars, queue, closed,
                 hand, stopped, ended, outVars>>

SendMarker(m) ==
  /\ pc[m] = "marked"
  /\ \/ ~closed /\ queue' = Append(queue, Marker) /\ UNCHANGED messages
     \/ closed /\ messages' = messages - 1 /\ UNCHANGED queue
  /\ Goto(m, "Refused")
  /\ UNCHANGED <<pressured, bytes, underPressure, lostVars, closed, hand,
                 stopped, ended, outVars>>

\* A reader task returns and drops its clone of the sender.
StopReader(r) ==
  /\ Ready(r)
  /\ stopped' = stopped \cup {r}
  /\ UNCHANGED <<callVars, bytes, messages, underPressure, lostVars, queue,
                 closed, hand, ended, outVars>>

-----------------------------------------------------------------------------
(* The receiver *)

Receiving == ~closed /\ ~ended

\* rx.recv().await yields the head of the channel.
Pop ==
  /\ Receiving /\ hand = Nothing /\ queue # <<>>
  /\ hand' = Head(queue)
  /\ queue' = Tail(queue)
  /\ UNCHANGED <<callVars, bytes, messages, underPressure, lostVars, closed,
                 stopped, ended, outVars>>

\* release, and recv returns the records.
ReceiveRecords ==
  /\ Receiving /\ hand \in Msgs
  /\ bytes' = bytes - Size[hand]
  /\ messages' = messages - 1
  /\ delivered' = delivered \cup {hand}
  /\ hand' = Nothing
  /\ UNCHANGED <<callVars, underPressure, lostVars, queue, closed, stopped,
                 ended, reported, discarded>>

ReleaseMarker ==
  /\ Receiving /\ hand = Marker
  /\ messages' = messages - 1
  /\ hand' = Taking
  /\ UNCHANGED <<callVars, bytes, underPressure, lostVars, queue, closed,
                 stopped, ended, outVars>>

\* Mutants: only one cause's report is taken; the marker flag stays set.
TakeLost_one_cause ==
  /\ Receiving /\ hand = Taking
  /\ \E c \in Causes : /\ reports[c] # {}
                       /\ reports' = [reports EXCEPT ![c] = {}]
                       /\ reported' = reported \cup reports[c]
  /\ markerQueued' = FALSE
  /\ hand' = Nothing
  /\ UNCHANGED <<callVars, bytes, messages, underPressure, queue, closed,
                 stopped, ended, delivered, discarded>>

TakeLost_keeping_flag ==
  /\ Receiving /\ hand = Taking
  /\ reports' = [c \in Causes |-> {}]
  /\ reported' = reported \cup Unreported
  /\ hand' = Nothing
  /\ UNCHANGED <<callVars, bytes, messages, underPressure, markerQueued, queue,
                 closed, stopped, ended, delivered, discarded>>

\* take_lost: clear the flag and take the reports under one lock.  Reports, if
\* any, are returned as Received::Gaps; either way recv is back at the channel.
TakeLost ==
  /\ Receiving /\ hand = Taking
  /\ markerQueued' = FALSE
  /\ reports' = [c \in Causes |-> {}]
  /\ reported' = reported \cup Unreported
  /\ hand' = Nothing
  /\ UNCHANGED <<callVars, bytes, messages, underPressure, queue, closed,
                 stopped, ended, delivered, discarded>>

\* set_memory_pressure: the sink loop calls it between two receives.
SetMemoryPressure(on) ==
  /\ Receiving /\ hand = Nothing
  /\ underPressure' = on
  /\ UNCHANGED <<callVars, bytes, messages, lostVars, queue, closed, hand,
                 stopped, ended, outVars>>

\* Every sender is gone and the channel is empty: recv returns None.
ReceiveNone ==
  /\ Receiving /\ hand = Nothing /\ queue = <<>> /\ stopped = Readers
  /\ ended' = TRUE
  /\ UNCHANGED <<callVars, bytes, messages, underPressure, lostVars, queue,
                 closed, hand, stopped, outVars>>

\* The sink loop goes away with senders alive; the channel's content is dropped.
DropReceiver ==
  /\ Receiving /\ hand = Nothing
  /\ closed' = TRUE
  /\ discarded' = queue
  /\ queue' = <<>>
  /\ UNCHANGED <<callVars, bytes, messages, underPressure, lostVars, hand,
                 stopped, ended, delivered, reported>>

\* Nothing is left to do: not a deadlock.
Finished == /\ ended \/ (closed /\ stopped = Readers)
            /\ UNCHANGED vars

-----------------------------------------------------------------------------
Call(m) == \/ TrySend(m) \/ LoadPressure(m) \/ Reserve(m) \/ Count(m) \/ Send(m)
           \/ Refuse(m) \/ CountMarker(m) \/ SendMarker(m)

Receive == Pop \/ ReceiveRecords \/ ReleaseMarker \/ TakeLost

Next == \/ \E m \in Msgs : Call(m)
        \/ \E r \in Readers : StopReader(r)
        \/ Receive
        \/ \E on \in BOOLEAN : SetMemoryPressure(on)
        \/ ReceiveNone
        \/ DropReceiver
        \/ Finished

Spec == Init /\ [][Next]_vars

\* The threads are scheduled: a call that was begun runs to its return, and the
\* sink loop keeps receiving.  Nobody has to start a call, stop or toggle.
FairSpec ==
  /\ Spec
  /\ \A m \in Msgs : WF_vars(pc[m] \in Active /\ Call(m))
  /\ WF_vars(Receive)

-----------------------------------------------------------------------------
(* Accounting *)

\* Messages whose bytes are reserved: from the exchange to the release.  A
\* discarded message is never released.
Reserved == {m \in Msgs : \/ pc[m] \in {"reserved", "counted"}
                          \/ pc[m] = "Admitted" /\ m \notin delivered}

\* Calls that have counted what they are about to send.
Sending == {m \in Msgs : pc[m] \in {"counted", "marked"}}

\* The markers of the refusal episode: about to be sent by the refuser that
\* opened it, in the channel, or popped with its reports not yet taken.
Markers == {<<"call", m>> : m \in {n \in Msgs : pc[n] \in {"marking", "marked"}}}
             \cup {<<"queue", i>> : i \in {j \in DOMAIN queue : queue[j] = Marker}}
             \cup {<<"hand", h>> : h \in {hand} \cap {Marker, Taking}}

OccursIn(m, s) == \E i \in DOMAIN s : s[i] = m

-----------------------------------------------------------------------------
TypeOK ==
  /\ pc \in [Msgs -> {"unsent"} \cup Active \cup Results]
  /\ pressured \in [Msgs -> BOOLEAN]
  /\ bytes \in Nat
  /\ messages \in Nat
  /\ underPressure \in BOOLEAN
  /\ reports \in [Causes -> SUBSET Msgs]
  /\ markerQueued \in BOOLEAN
  /\ queue \in Seq(Msgs \cup {Marker})
  /\ closed \in BOOLEAN
  /\ hand \in Msgs \cup {Marker, Taking, Nothing}
  /\ stopped \subseteq Readers
  /\ ended \in BOOLEAN
  /\ delivered \subseteq Msgs
  /\ reported \subseteq Msgs
  /\ discarded \in Seq(Msgs \cup {Marker})

\* The two usize counters that admission and the gauges read are exact at every
\* step of every thread: bytes is what the reserved messages weigh, messages is
\* what was counted and not yet released.  fetch_sub wraps, so in particular
\* neither counter is ever taken below zero, even on the closed-channel paths.
CountersMatch ==
  /\ bytes = Weight(Reserved, Size)
  /\ messages = Cardinality(Sending) + Len(queue) + Len(discarded)
                  + (IF hand \in Msgs \cup {Marker} THEN 1 ELSE 0)

\* sink_queue.rs:44: "The queue therefore holds at most max_bytes plus one
\* message, plus agent records."  In fact either bound alone holds, and the
\* reliability class stays out of the last quarter in the same way, however
\* many readers race for the budget and however stale their pressure reading.
ReservedOf(classes) == {m \in Reserved : admit_class(m) \in classes}
WithinOrAlone(S, limit) == Weight(S, Size) <= limit \/ \E m \in S : S = {m}
HeldBytesBounded ==
  /\ WithinOrAlone(ReservedOf({"Attribution", "Reliability"}), MaxBytes)
  /\ WithinOrAlone(ReservedOf({"Reliability"}), MaxBytes - MaxBytes \div 4)

\* The comment in refuse: a marker is always on its way when reports wait, so
\* "its report cannot be stranded", and an episode has exactly one marker.
OneMarkerPerEpisode ==
  ~closed => /\ markerQueued => \E k \in Markers : Markers = {k}
             /\ ~markerQueued => Markers = {} /\ Unreported = {}

\* What try_send told its caller is what happened: an admitted message is in
\* exactly one of the channel, recv's hands, the sink loop and the discarded
\* channel; a refused one is covered by exactly one report, pending or taken,
\* under one cause; nothing else is ever delivered or reported.
Refused(m) == pc[m] \in {"marking", "marked", "Refused"}
AccountedFor(m) ==
  /\ pc[m] = "Admitted" <=>
       OccursIn(m, queue) \/ hand = m \/ m \in delivered \/ OccursIn(m, discarded)
  /\ OccursIn(m, queue) => hand # m /\ m \notin delivered
  /\ hand = m => m \notin delivered
  /\ OccursIn(m, discarded) => m \notin delivered
  /\ Refused(m) <=> m \in Unreported \cup reported
  /\ m \in Unreported => m \notin reported
  /\ ~(m \in reports["overflow"] /\ m \in reports["pressure"])
CallsAreAccounted == \A m \in Msgs : AccountedFor(m)

\* sink_queue.rs:41: "Agent records ... are never refused".  What decides is the
\* message after scoping, not the one the reader drained.
NoAgentMessageRefused ==
  \A m \in Msgs : Refused(m) => \E r \in Kept(m) : r.kind # "agent"

\* When recv returns None everything any reader sent was handed over: admitted
\* messages as records, refused ones in a report, and the counters are zero.
NothingStrandedAtEnd ==
  ended =>
    /\ bytes = 0 /\ messages = 0 /\ ~markerQueued
    /\ \A m \in Msgs : pc[m] = "Admitted" => m \in delivered
    /\ \A m \in Msgs : Refused(m) => m \in reported

-----------------------------------------------------------------------------
(* Refinement of LossLedger *)

\* What became of a message: try_send's result, until recv overtakes it.
Fate(m) ==
  CASE m \in delivered                                 -> "delivered"
    [] m \in reported                                  -> "reported"
    [] OccursIn(m, discarded) \/ pc[m] = "QueueClosed" -> "abandoned"
    [] m \in Unreported /\ closed                      -> "abandoned"
    [] m \in Unreported /\ ~closed                     -> "lost"
    [] OccursIn(m, queue) \/ hand = m                  -> "held"
    [] pc[m] = "OutOfScope"                            -> "excluded"
    [] OTHER                                           -> "offered"

Ledger == INSTANCE LossLedger WITH status <- [m \in Msgs |-> Fate(m)], gone <- closed

\* The queue implements the ledger: try_send takes effect at the channel send or
\* under the Lost mutex, recv at the release or at take_lost, which reports all
\* the losses there are.
ImplementsLedger == Ledger!Spec

\* Every admitted message is received and every refusal reported unless the sink
\* loop goes away, although a refuser that finds the marker flag set returns
\* relying on another thread's marker.
LedgerDischarged == Ledger!Discharged
=============================================================================
