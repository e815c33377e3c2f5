------------------------------ MODULE SinkLoop ------------------------------
(***************************************************************************)
(* The sink loop, run_sink_loop of jalki/src/runtime.rs: the task that     *)
(* takes evidence off the reader->sink queue and gets it, or a report of   *)
(* its loss, to the sink.  It owns the retry buffer, the pending gaps, the *)
(* retry timer and the spool file.                                         *)
(*                                                                         *)
(* The loop is one task: between two awaits nothing else touches its       *)
(* state, so an action runs from one await to the next.  The awaits are    *)
(* select! ("select"), the inline append_batch of fresh evidence           *)
(* ("inline") or of loss reports ("inlineGaps"), and the append_batch      *)
(* calls of flush_retry_buffer ("flush").  The process may be killed at    *)
(* any of them.  An append that fails retryably may have been committed by *)
(* the sink; the loop cannot know and keeps the batch either way.          *)
(*                                                                         *)
(* The queue, the sink, the memory reading, the disk and the drain pacer   *)
(* are the environment: they choose.  Time passes in ticks.                *)
(***************************************************************************)
EXTENDS RetryBuffer

CONSTANTS
  Messages,       \* the record sets the queue hands over, as records or as a gap
  BaseDelay,      \* RetryBackoffConfig::base_ms, in ticks
  MaxDelay,       \* RetryBackoffConfig::max_ms, in ticks
  SpoolConfigured,\* JALKI_SPOOL_PATH is set
  DiskMayFail,    \* a compaction may fail
  MemoryLimited,  \* a cgroup limit was detected
  SinkStates,     \* what the sink can be: "up", "down", "rejecting"
  MaxWait,        \* bound: the longest wait the pacer asks for, in ticks
  MaxRestarts,    \* bound: how often the process is started again
  None

ASSUME SinkLoopAssumption ==
  /\ Messages \subseteq (SUBSET Recs) \ {{}}
  /\ \A m, n \in Messages : m # n => m \cap n = {}
  /\ BaseDelay \in Nat \ {0} /\ MaxDelay \in Nat /\ BaseDelay <= MaxDelay
  /\ {SpoolConfigured, DiskMayFail, MemoryLimited} \subseteq BOOLEAN
  /\ SinkStates \subseteq {"up", "down", "rejecting"} /\ "up" \in SinkStates
  /\ MaxWait \in Nat \ {0} /\ MaxRestarts \in Nat
  /\ None \notin Nat

VARIABLES
  mode,        \* "running", "draining" (the queue closed), "exited" or "killed"
  step,        \* the await the loop is at
  pending,     \* messages the queue has not handed over yet
  hand,        \* the records, or the reports, of the inline append
  handAge,     \* ticks since the arm read now_ms
  buffer,      \* retry_buffer
  inFlight,    \* PendingGaps::in_flight: its reports, <<>> for None
  queued,      \* PendingGaps::queued
  nextRetry,   \* next_retry: ticks to the deadline, or None
  attempt,     \* RetryBackoff::attempt
  before,      \* batches and gaps when the drain pass started
  file,        \* the spool file: the record sets of its frames
  spool,       \* "off", "on" or "disabled"
  sink,        \* the state of the sink
  restarts,    \* how often the process was started again
  acked,       \* records of batches whose append returned Ok
  reported,    \* records covered by gap batches whose append returned Ok
  unreported,  \* records whose gap report the loop itself gave up
  perished     \* records that went with a process: not in the file

gapVars == <<inFlight, queued>>
timerVars == <<nextRetry, attempt>>
diskVars == <<file, spool>>
outVars == <<acked, reported, unreported, perished>>
vars == <<mode, step, pending, hand, handAge, buffer, inFlight, queued,
          nextRetry, attempt, before, file, spool, sink, restarts,
          acked, reported, unreported, perished>>

Alive == mode \in {"running", "draining"}

-----------------------------------------------------------------------------
(* Gap reports: the cause and the records it covers.  The counts, classes and
   window of a GapReport are functions of those records.                     *)

Causes == {"retry_buffer_overflow", "retry_buffer_expired", "memory_pressure",
           "sink_rejected", "sink_queue_overflow"}

Report(cause, recs) == [cause |-> cause, recs |-> recs]
Covered(reports) == UNION {reports[i].recs : i \in DOMAIN reports}

\* Mutant: a second report of a cause replaces the first.
merge_by_cause_replacing(reports, cause, recs) ==
  IF recs = {} THEN reports
  ELSE Append(SelectSeq(reports, LAMBDA g : g.cause # cause), Report(cause, recs))

merge_by_cause(reports, cause, recs) ==
  LET i == SelectInSeq(reports, LAMBDA g : g.cause = cause)
  IN  IF recs = {} THEN reports
      ELSE IF i = 0 THEN Append(reports, Report(cause, recs))
      ELSE [reports EXCEPT ![i].recs = @ \cup recs]

-----------------------------------------------------------------------------
(* The backlog: the buffer and the queued reports, as one value.             *)

Backlog == [buffer |-> buffer, queued |-> queued]

\* The backlog with a smaller buffer, the difference reported under cause.
Reduced(b, buf, all, cause) ==
  [buffer |-> buf, queued |-> merge_by_cause(b.queued, cause, all \ RecsIn(buf))]

Expire(b) ==
  Reduced(b, drop_expired(b.buffer), RecsIn(b.buffer), "retry_buffer_expired")

Enqueue(b, recs, age) ==
  Reduced(b, enqueue(b.buffer, recs, age), RecsIn(b.buffer) \cup recs,
          "retry_buffer_overflow")

\* shed_under_memory_pressure, given whether the ratio is at the watermark:
\* half of the buffered bytes go.  An empty buffer has nothing to shed.
Shed(b, high) ==
  IF high
    THEN Reduced(b, shed_to(b.buffer, len_bytes(b.buffer) \div 2),
                 RecsIn(b.buffer), "memory_pressure")
    ELSE b

has_backlog(b, inflight) == b.buffer # <<>> \/ b.queued # <<>> \/ inflight # <<>>

\* Batches in the buffer and gap reports pending.
backlog_len(b, inflight) ==
  <<Len(b.buffer), Len(b.queued) + (IF inflight = <<>> THEN 0 ELSE 1)>>

-----------------------------------------------------------------------------
(* The retry timer *)

\* RetryBackoff::ceiling_ms, base doubled n times up to the cap; jitter draws
\* from its upper half.
ceiling_ms(n) ==
  LET doubled[k \in 0..n] == IF k = 0 THEN BaseDelay ELSE 2 * doubled[k - 1]
  IN  IF doubled[n] > MaxDelay THEN MaxDelay ELSE doubled[n]

\* attempt saturates; beyond MaxDelay doublings the ceiling no longer moves.
NextAttempt(n) == IF n >= MaxDelay THEN n ELSE n + 1

\* Mutant: an armed deadline is drawn anew.
schedule_retry_postponing(current, n, backlog) ==
  IF ~backlog THEN nextRetry' = None /\ attempt' = 0
  ELSE /\ nextRetry' \in ceiling_ms(n) \div 2 .. ceiling_ms(n)
       /\ attempt' = NextAttempt(n)

schedule_retry(current, n, backlog) ==
  \/ /\ ~backlog
     /\ nextRetry' = None /\ attempt' = 0
  \/ /\ backlog /\ current # None
     /\ nextRetry' = current /\ attempt' = n
  \/ /\ backlog /\ current = None
     /\ nextRetry' \in ceiling_ms(n) \div 2 .. ceiling_ms(n)
     /\ attempt' = NextAttempt(n)

-----------------------------------------------------------------------------
(* The spool *)

Frames(buf) == [i \in DOMAIN buf |-> buf[i].recs]

\* Mutant: the file is only rewritten while something is buffered.
sync_spool_when_buffered(buf) ==
  IF spool = "on" /\ buf # <<>> THEN file' = Frames(buf) /\ UNCHANGED spool
                                ELSE UNCHANGED diskVars

\* compact is all or nothing (temporary file, fsync, rename); a failure turns
\* the spool off for good and leaves the old file.
sync_spool(buf) ==
  \/ spool = "on" /\ file' = Frames(buf) /\ UNCHANGED spool
  \/ spool = "on" /\ DiskMayFail /\ spool' = "disabled" /\ UNCHANGED file
  \/ spool # "on" /\ UNCHANGED diskVars

-----------------------------------------------------------------------------
Init ==
  /\ mode = "running" /\ step = "select"
  /\ pending = Messages
  /\ hand = {} /\ handAge = 0
  /\ buffer = <<>> /\ inFlight = <<>> /\ queued = <<>>
  /\ nextRetry = None /\ attempt = 0 /\ before = <<0, 0>>
  /\ file = <<>> /\ spool = IF SpoolConfigured THEN "on" ELSE "off"
  /\ sink \in SinkStates
  /\ restarts = 0
  /\ acked = {} /\ reported = {} /\ unreported = {} /\ perished = {}

\* The end of an arm: shed, sync the spool, schedule, back to select!.
Settle(b, inflight, current, n) ==
  \E high \in IF MemoryLimited THEN BOOLEAN ELSE {FALSE} :
    LET c == Shed(b, high) IN
      /\ buffer' = c.buffer /\ queued' = c.queued /\ inFlight' = inflight
      /\ sync_spool(c.buffer)
      /\ schedule_retry(current, n, has_backlog(c, inflight))
      /\ step' = "select" /\ hand' = {} /\ handAge' = 0 /\ before' = <<0, 0>>

-----------------------------------------------------------------------------
(* The receive arm *)

Selecting == mode = "running" /\ step = "select"

\* Records while there is a backlog queue behind it.
ReceiveBehindBacklog(m) ==
  LET b == Expire(Backlog) IN
    /\ Selecting /\ m \in pending
    /\ has_backlog(b, inFlight)
    /\ pending' = pending \ {m}
    /\ Settle(Enqueue(b, m, 0), inFlight, nextRetry, attempt)
    /\ UNCHANGED <<mode, sink, restarts, outVars>>

\* Without a backlog they go to the sink inline.
ReceiveInline(m) ==
  /\ Selecting /\ m \in pending
  /\ ~has_backlog(Expire(Backlog), inFlight)
  /\ pending' = pending \ {m}
  /\ hand' = m /\ handAge' = 0
  /\ step' = "inline"
  /\ UNCHANGED <<mode, buffer, gapVars, timerVars, before, diskVars, sink,
                 restarts, outVars>>

\* The inline append returns.  now_ms is the one read on receipt.
InlineAppend ==
  /\ Alive /\ step = "inline"
  /\ \/ /\ sink = "up"
        /\ acked' = acked \cup hand
        /\ Settle(Backlog, inFlight, nextRetry, 0)
     \/ /\ sink = "down"
        /\ Settle(Enqueue(Backlog, hand, handAge), inFlight, nextRetry, attempt)
        /\ UNCHANGED acked
     \/ /\ sink = "rejecting"
        /\ Settle([Backlog EXCEPT !.queued = merge_by_cause(@, "sink_rejected", hand)],
                  inFlight, nextRetry, attempt)
        /\ UNCHANGED acked
  /\ UNCHANGED <<mode, pending, sink, restarts, reported, unreported, perished>>

\* Loss reports from the queue join the pending gaps, or go out inline.
ReceiveGapsBehindBacklog(m) ==
  LET b == Expire(Backlog) IN
    /\ Selecting /\ m \in pending
    /\ has_backlog(b, inFlight)
    /\ pending' = pending \ {m}
    /\ Settle([b EXCEPT !.queued = merge_by_cause(@, "sink_queue_overflow", m)],
              inFlight, nextRetry, attempt)
    /\ UNCHANGED <<mode, sink, restarts, outVars>>

ReceiveGapsInline(m) ==
  /\ Selecting /\ m \in pending
  /\ ~has_backlog(Expire(Backlog), inFlight)
  /\ pending' = pending \ {m}
  /\ hand' = m /\ handAge' = 0
  /\ step' = "inlineGaps"
  /\ UNCHANGED <<mode, buffer, gapVars, timerVars, before, diskVars, sink,
                 restarts, outVars>>

\* Any failure, terminal ones too, puts the very batch in flight.
InlineGapsAppend ==
  /\ Alive /\ step = "inlineGaps"
  /\ \/ /\ sink = "up"
        /\ reported' = reported \cup hand
        /\ Settle(Backlog, inFlight, nextRetry, 0)
     \/ /\ sink # "up"
        /\ Settle(Backlog, <<Report("sink_queue_overflow", hand)>>, nextRetry, attempt)
        /\ UNCHANGED reported
  /\ UNCHANGED <<mode, pending, sink, restarts, acked, unreported, perished>>

-----------------------------------------------------------------------------
(* The timer arm and flush_retry_buffer *)

TimerFires ==
  LET b == Expire(Backlog) IN
    /\ Selecting /\ nextRetry = 0
    /\ buffer' = b.buffer /\ queued' = b.queued
    /\ before' = backlog_len(b, inFlight)
    /\ step' = "flush"
    /\ UNCHANGED <<mode, pending, hand, handAge, inFlight, timerVars, diskVars,
                   sink, restarts, outVars>>

\* What PendingGaps::front leaves behind.
FrontGap == IF inFlight = <<>> /\ queued # <<>> THEN <<queued[1]>> ELSE inFlight
RestOfGaps == IF inFlight = <<>> /\ queued # <<>> THEN Tail(queued) ELSE queued
FrontBacklog == [buffer |-> buffer, queued |-> RestOfGaps]

\* A drain pass ends.  On the timer: anything taken resets the ladder; a pass
\* the pacer stopped comes back after its wait, one the sink stopped after the
\* backoff delay.
EndPass(b, inflight, paced) ==
  LET now == backlog_len(b, inflight)
      n == IF now[1] + now[2] < before[1] + before[2] THEN 0 ELSE attempt
  IN  IF paced
        THEN \E high \in IF MemoryLimited THEN BOOLEAN ELSE {FALSE},
                wait \in 1..MaxWait :
               LET c == Shed(b, high) IN
                 /\ buffer' = c.buffer /\ queued' = c.queued /\ inFlight' = inflight
                 /\ sync_spool(c.buffer)
                 /\ nextRetry' = wait /\ attempt' = n
                 /\ step' = "select" /\ hand' = {} /\ handAge' = 0 /\ before' = <<0, 0>>
        ELSE Settle(b, inflight, None, n)

\* Mutant: the drain goes on as long as anything is left.
EndDrain_persisting(b, inflight, paced) ==
  /\ buffer' = b.buffer /\ queued' = b.queued /\ inFlight' = inflight
  /\ step' = IF paced \/ has_backlog(b, inflight) THEN "flush" ELSE "exit"
  /\ before' = backlog_len(b, inflight)
  /\ UNCHANGED <<hand, handAge, timerVars, diskVars>>

\* In shutdown: a paced pass is tried again, another ends the drain if nothing
\* moved or nothing is left.
EndDrain(b, inflight, paced) ==
  LET now == backlog_len(b, inflight) IN
    /\ buffer' = b.buffer /\ queued' = b.queued /\ inFlight' = inflight
    /\ step' = IF paced \/ (has_backlog(b, inflight) /\ now # before)
                 THEN "flush" ELSE "exit"
    /\ before' = now
    /\ UNCHANGED <<hand, handAge, timerVars, diskVars>>

PassEnds(b, inflight, paced) ==
  IF mode = "running" THEN EndPass(b, inflight, paced) ELSE EndDrain(b, inflight, paced)

\* Still inside the pass.
PassGoesOn(b, inflight) ==
  /\ buffer' = b.buffer /\ queued' = b.queued /\ inFlight' = inflight
  /\ UNCHANGED <<step, hand, handAge, timerVars, before, diskVars>>

Flushing == Alive /\ step = "flush"

\* Mutant: a report is popped whatever the sink answers.
FlushGap_swallowing ==
  /\ Flushing /\ FrontGap # <<>>
  /\ PassGoesOn(FrontBacklog, <<>>)
  /\ UNCHANGED <<mode, pending, sink, restarts, outVars>>

\* Pending gaps first.  A report the sink rejects for good is given up.
FlushGap ==
  /\ Flushing /\ FrontGap # <<>>
  /\ \/ /\ sink = "up"
        /\ reported' = reported \cup Covered(FrontGap)
        /\ PassGoesOn(FrontBacklog, <<>>)
        /\ UNCHANGED unreported
     \/ /\ sink = "down"
        /\ PassEnds(FrontBacklog, FrontGap, FALSE)
        /\ UNCHANGED <<reported, unreported>>
     \/ /\ sink = "rejecting"
        /\ unreported' = unreported \cup Covered(FrontGap)
        /\ PassGoesOn(FrontBacklog, <<>>)
        /\ UNCHANGED reported
  /\ UNCHANGED <<mode, pending, sink, restarts, acked, perished>>

\* Mutant: a batch is popped before the sink answers.
FlushBatch_popping_first ==
  /\ Flushing /\ FrontGap = <<>> /\ buffer # <<>>
  /\ LET b == [Backlog EXCEPT !.buffer = Tail(@)] IN
       \/ sink = "up" /\ acked' = acked \cup Head(buffer).recs /\ PassGoesOn(b, inFlight)
       \/ sink # "up" /\ PassEnds(b, inFlight, FALSE) /\ UNCHANGED acked
  /\ UNCHANGED <<mode, pending, sink, restarts, reported, unreported, perished>>

\* Then the buffer, oldest batch first.
FlushBatch ==
  /\ Flushing /\ FrontGap = <<>> /\ buffer # <<>>
  /\ \/ /\ sink = "up"
        /\ acked' = acked \cup Head(buffer).recs
        /\ PassGoesOn([buffer |-> Tail(buffer), queued |-> queued], inFlight)
     \/ /\ sink = "down"
        /\ PassEnds(Backlog, inFlight, FALSE)
        /\ UNCHANGED acked
     \/ /\ sink = "rejecting"
        /\ PassEnds([buffer |-> Tail(buffer),
                     queued |-> merge_by_cause(queued, "sink_rejected", Head(buffer).recs)],
                    inFlight, FALSE)
        /\ UNCHANGED acked
  /\ UNCHANGED <<mode, pending, sink, restarts, reported, unreported, perished>>

\* The pacer says wait.  The front gap has become the one in flight by then.
FlushPaced ==
  /\ Flushing /\ (FrontGap # <<>> \/ buffer # <<>>)
  /\ PassEnds(FrontBacklog, FrontGap, TRUE)
  /\ UNCHANGED <<mode, pending, sink, restarts, outVars>>

FlushEmpty ==
  /\ Flushing /\ FrontGap = <<>> /\ buffer = <<>>
  /\ PassEnds(Backlog, inFlight, FALSE)
  /\ UNCHANGED <<mode, pending, sink, restarts, outVars>>

-----------------------------------------------------------------------------
(* Shutdown, kill and restart *)

\* recv returned None: drain what is left.
QueueClosed ==
  /\ Selecting
  /\ mode' = "draining"
  /\ step' = IF has_backlog(Backlog, inFlight) THEN "flush" ELSE "exit"
  /\ before' = backlog_len(Backlog, inFlight)
  /\ UNCHANGED <<pending, hand, handAge, buffer, gapVars, timerVars, diskVars,
                 sink, restarts, outVars>>

\* What is in memory goes with the process; the file stays.
InFile == UNION {file[i] : i \in DOMAIN file}
InMemory == hand \cup RecsIn(buffer) \cup Covered(inFlight) \cup Covered(queued)
Forget ==
  /\ step' = "select" /\ hand' = {} /\ handAge' = 0
  /\ buffer' = <<>> /\ inFlight' = <<>> /\ queued' = <<>>
  /\ nextRetry' = None /\ attempt' = 0 /\ before' = <<0, 0>>

Exit ==
  /\ mode = "draining" /\ step = "exit"
  /\ mode' = "exited"
  /\ sync_spool(buffer)
  /\ perished' = perished \cup
       (InMemory \ UNION {file'[i] : i \in DOMAIN file'})
  /\ Forget
  /\ UNCHANGED <<pending, sink, restarts, acked, reported, unreported>>

Crash ==
  /\ Alive /\ restarts < MaxRestarts
  /\ mode' = "killed"
  /\ perished' = perished \cup (InMemory \ InFile)
  /\ Forget
  /\ UNCHANGED <<pending, diskVars, sink, restarts, acked, reported, unreported>>

\* The backlog after the first k frames of a spool file are replayed, for every k.
Replays(frames) ==
  LET after[k \in 0..Len(frames)] ==
        IF k = 0 THEN [buffer |-> <<>>, queued |-> <<>>]
        ELSE Enqueue(after[k - 1], frames[k], 0)
  IN  after

\* A new process replays the file into its buffer, oldest first, on a new
\* clock, and compacts.  next_retry starts as None.
Restart ==
  /\ mode \in {"killed", "exited"} /\ restarts < MaxRestarts
  /\ restarts' = restarts + 1
  /\ LET b == Replays(file)[Len(file)]
     IN  /\ buffer' = b.buffer /\ queued' = b.queued
         /\ IF SpoolConfigured
              THEN \/ file' = Frames(b.buffer) /\ spool' = "on"
                   \/ DiskMayFail /\ spool' = "disabled" /\ UNCHANGED file
              ELSE UNCHANGED diskVars
  /\ mode' = "running"
  /\ UNCHANGED <<step, pending, hand, handAge, inFlight, timerVars, before,
                 sink, outVars>>

-----------------------------------------------------------------------------
(* The environment *)

Tick ==
  /\ Alive
  /\ buffer' = Aged(buffer)
  /\ handAge' = IF step = "inline" THEN Older(handAge) ELSE handAge
  /\ nextRetry' = IF nextRetry \in {None, 0} THEN nextRetry ELSE nextRetry - 1
  /\ UNCHANGED <<mode, step, pending, hand, gapVars, attempt, before, diskVars,
                 sink, restarts, outVars>>

SinkChanges ==
  /\ sink' \in SinkStates \ {sink}
  /\ UNCHANGED <<mode, step, pending, hand, handAge, buffer, gapVars, timerVars,
                 before, diskVars, restarts, outVars>>

Finished == mode = "exited" /\ UNCHANGED vars

-----------------------------------------------------------------------------
Receive == \E m \in Messages : \/ ReceiveBehindBacklog(m) \/ ReceiveInline(m)
                               \/ ReceiveGapsBehindBacklog(m) \/ ReceiveGapsInline(m)
Attempt == FlushGap \/ FlushBatch
Proceed == InlineAppend \/ InlineGapsAppend \/ Attempt \/ FlushPaced \/ FlushEmpty \/ Exit

Next == Receive \/ Proceed \/ TimerFires \/ QueueClosed \/ Crash \/ Restart
          \/ Tick \/ SinkChanges \/ Finished

Spec == Init /\ [][Next]_vars

\* The task is scheduled, time passes and a killed process is started again.
\* select! picks at random among ready arms, so a timer that keeps being due
\* fires; the pacer's buckets refill, so an attempt that keeps being held back
\* is made.
FairSpec ==
  /\ Spec
  /\ WF_vars(Proceed) /\ WF_vars(Tick) /\ WF_vars(Restart)
  /\ SF_vars(TimerFires) /\ SF_vars(Attempt)
-----------------------------------------------------------------------------
TypeOK ==
  /\ mode \in {"running", "draining", "exited", "killed"}
  /\ step \in {"select", "inline", "inlineGaps", "flush", "exit"}
  /\ pending \subseteq Messages
  /\ hand \subseteq Recs /\ handAge \in 0..MaxAge + 1
  /\ buffer \in Seq(Buffered)
  /\ inFlight \in Seq([cause : Causes, recs : SUBSET Recs])
  /\ queued \in Seq([cause : Causes, recs : SUBSET Recs])
  /\ nextRetry \in Nat \cup {None} /\ attempt \in 0..MaxDelay
  /\ before \in Nat \X Nat
  /\ file \in Seq(SUBSET Recs) /\ spool \in {"off", "on", "disabled"}
  /\ sink \in SinkStates /\ restarts \in 0..MaxRestarts
  /\ {acked, reported, unreported, perished} \subseteq SUBSET Recs

\* The places that answer for record r.
Holders(r) ==
  {<<"batch", i>> : i \in {j \in DOMAIN buffer : r \in buffer[j].recs}}
    \cup {<<"gap", i>> : i \in {j \in DOMAIN queued : r \in queued[j].recs}}
    \cup {<<"inflight", i>> : i \in {j \in DOMAIN inFlight : r \in inFlight[j].recs}}
    \cup {<<p[1], 0>> : p \in {q \in {<<"hand", hand>>, <<"acked", acked>>,
                                    <<"reported", reported>>, <<"unreported", unreported>>,
                                    <<"perished", perished>>} : r \in q[2]}}

Taken == UNION (Messages \ pending)

\* product-boundaries.md 2.8, "No silent data loss": every record taken off the
\* queue is, in every state, in exactly one place that answers for it: awaiting
\* delivery, delivered, or counted in exactly one gap report.  Over-counting
\* matters as much: dropped_records is what consumers add up.  It holds of the
\* process that took the record, as long as it lives.
AnsweredForOnce == restarts = 0 /\ Alive => \A r \in Taken : Cardinality(Holders(r)) = 1

\* Across kills and restarts a record may be answered for twice (acked, and
\* replayed from a file written before the answer), but never nowhere: if it
\* was neither in the file nor reported, it went with the process.
NothingVanishes ==
  \A r \in Taken : Holders(r) # {} \/ (~Alive /\ r \in InFile)

\* The retry buffer respects all three of its limits at every await, including
\* right after a replay.
BufferBounded ==
  /\ Cardinality(RecsIn(buffer)) <= MaxRecords
  /\ Len(buffer) <= MaxBatches
  /\ Weight(RecsIn(buffer), SizeOf) <= MaxBytes

\* drop_expired looks at the front only, which is enough because the front is
\* always the oldest: a batch enqueued after a slow inline append carries the
\* time of its receipt, read before the await.
FrontIsOldest ==
  \A i, j \in DOMAIN buffer : i <= j => buffer[i].age >= buffer[j].age

\* ADR-0006 contract 5: attribution evidence is only given up to a limit or to
\* memory pressure when no reliability evidence is left to give up instead.
ShedReports(reports) ==
  UNION {reports[i].recs : i \in {j \in DOMAIN reports :
           reports[j].cause \in {"retry_buffer_overflow", "memory_pressure"}}}
ReliabilityShedFirst ==
  [][\A r \in ShedReports(queued') \ ShedReports(queued) :
       ClassOf[r] = "attribution" => OfClass(RecsIn(buffer'), "reliability") = {}]_vars

\* runtime.rs:689: "`None` means there is no backlog": whatever the loop holds,
\* a retry is scheduled, so a quiet node retries (jalki #39).
BacklogScheduled ==
  Selecting /\ (buffer # <<>> \/ queued # <<>> \/ inFlight # <<>>) => nextRetry # None

\* schedule_retry's contract: arriving evidence neither postpones nor cancels
\* the attempt it queues behind; only a drain pass sets a new deadline.
DeadlineNotPostponed ==
  [][step # "flush" /\ nextRetry # None /\ mode' = "running"
       => nextRetry' # None /\ nextRetry' <= nextRetry]_vars

\* runtime.rs:941: the file mirrors the buffer whenever the loop is not inside a
\* drain pass, so a kill there loses nothing that was buffered.
SpoolMirrorsBuffer ==
  spool = "on" /\ Alive /\ step \in {"select", "inline", "inlineGaps"}
    => file = Frames(buffer)

\* Once the sink stays up, everything taken off the queue is delivered or its
\* loss reported, with no further traffic to drive the loop.
EvidenceSettles ==
  <>[](sink = "up") =>
    \A r \in UNION Messages : r \in Taken ~> r \in acked \cup reported \cup unreported \cup perished

\* The shutdown drain ends whatever the sink does, or the daemon hangs on exit.
ShutdownTerminates == mode = "draining" ~> ~Alive

\* runtime.rs:941: "the file is exactly what is still undelivered" is an
\* invariant that cannot drift.
SpoolNeverDrifts == spool # "off" /\ Selecting => file = Frames(buffer)

\* ADR-0006: "Pending gap reports are kept per cause until delivered".
GapsKeptUntilDelivered == unreported = {}
=============================================================================
