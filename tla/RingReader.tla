----------------------------- MODULE RingReader -----------------------------
(***************************************************************************)
(* How a kernel event becomes a record, or a counted loss: the programs of *)
(* jalki-ebpf write to a ring buffer and count what does not fit, the      *)
(* reader of jalki/src/reader.rs drains the buffer and polls the counter,  *)
(* and emit_self_observability of runtime.rs turns the polls into gap      *)
(* reports.  One probe, from the attach of its program to its detach; the  *)
(* ring buffer is the kernel's.                                            *)
(*                                                                         *)
(* Readers are threads, the reporting task another, and the kernel goes on *)
(* meanwhile, so an action is a step between two looks at shared state.    *)
(* The counter per CPU is the number of its drops; their sum is what is    *)
(* read.  An event yields one record.                                      *)
(***************************************************************************)
EXTENDS Integers, Sequences, FiniteSets, Weights

CONSTANTS
  Probes,        \* programs and sampling the probe may have
  Threads,       \* threads that open files
  ProcessOf,     \* their processes
  RingMax,       \* what the ring buffer holds
  InFlightMax,   \* what IN_FLIGHT_OPENS holds
  MaxDrain,      \* MAX_DRAIN_ITEMS
  MissedExits,   \* whether the kernel may skip the program of a syscall's exit
  \* Bounds on what is explored
  MaxFired,
  MaxTime

Sockets == {"tcp_connect", "tcp_close", "tcp_retransmit"}
Files == {"file_open", "open_attempt"}

ASSUME ReaderAssumption ==
  /\ Probes \subseteq [prog : Sockets \cup Files \cup {"process_exec"},
                       sample_every : Nat \ {0}]
  /\ {RingMax, InFlightMax, MaxDrain} \subseteq Nat \ {0}
  /\ {MaxFired, MaxTime} \subseteq Nat
  /\ MissedExits \in BOOLEAN

VARIABLES
  probe,        \* its program, and sample_every: 1 for no sampling
  now,          \* the monotonic clock
  hooked,       \* the program is attached in the kernel
  ring,         \* the ring buffer
  lost,         \* when events were dropped, in order: the drop counter
  fired,        \* events the program has output
  open,         \* the path each thread is opening, if any
  in_flight,    \* IN_FLIGHT_OPENS, its keys: the path is a watched one
  counter,      \* for sampling
  pc,           \* of the reader
  drained,
  records,      \* how many the drain cycle has
  total,        \* the counter as read, before the clock is read
  due,          \* a second has passed since the last poll
  stats,        \* ProbeStats
  stored,       \* occurrences pushed to the event store
  offered,      \* records handed to the sink queue
  attached,     \* the registry has the probe
  stop,         \* ReaderStop
  closed,       \* the sink queue is closed
  task,         \* of emit_self_observability
  previous,     \* its counters, a set of at most one
  gaps          \* gap reports sent

kernelVars == <<hooked, ring, lost, fired, open, in_flight>>
readerVars == <<counter, pc, drained, records, total, due, stats, stored,
                offered>>
registryVars == <<attached, stop, closed>>
taskVars == <<task, previous, gaps>>
vars == <<probe, now, kernelVars, readerVars, registryVars, taskVars>>

prog == probe.prog
sample_every == probe.sample_every

Event(path, actual) == [path |-> path, actual |-> actual]

-----------------------------------------------------------------------------
\* The program has been attached, by registry.attach or the loader; events may
\* come before the reader is there, and opens may be under way.
Init ==
  /\ probe \in Probes
  /\ now = 0
  /\ hooked = TRUE
  /\ ring = <<>>
  /\ lost = <<>>
  /\ fired = 0
  /\ open \in [Threads -> {"none", "watched"}]
  /\ prog # "open_attempt" => \A t \in Threads : open[t] = "none"
  /\ in_flight = {}
  /\ counter = 0
  /\ pc = "new"
  /\ drained = 0
  /\ records = 0
  /\ total = 0
  /\ due = FALSE
  /\ stats = [emitted |-> 0, sampled_out |-> 0, parse_errors |-> 0,
              drops |-> 0, started |-> 0, polled |-> 0]
  /\ stored = 0
  /\ offered = 0
  /\ attached = FALSE
  /\ stop = FALSE
  /\ closed = FALSE
  /\ task = "waiting"
  /\ previous = {}
  /\ gaps = <<>>

Tick ==
  /\ now < MaxTime
  /\ now' = now + 1
  /\ UNCHANGED <<probe, kernelVars, readerVars, registryVars, taskVars>>

-----------------------------------------------------------------------------
(* The programs.  What a hook sees: whether the process is jalki's own,      *)
(* whether the kernel memory the program needs can be read, and the path.    *)

Hits == [self : BOOLEAN, readable : BOOLEAN, path : {"watched", "other"}]

is_self_filtered(hit) == hit.self
matches_sensitive_prefix(path) == path = "watched"

tcp_connect(hit) == ~is_self_filtered(hit) /\ hit.readable
tcp_close(hit) == ~is_self_filtered(hit) /\ hit.readable
tcp_retransmit(hit) == ~is_self_filtered(hit) /\ hit.readable
process_exec(hit) == ~is_self_filtered(hit)
file_open(hit) ==
  ~is_self_filtered(hit) /\ hit.readable /\ matches_sensitive_prefix(hit.path)

Emits(hit) ==
  CASE prog = "tcp_connect" -> tcp_connect(hit)
    [] prog = "tcp_close" -> tcp_close(hit)
    [] prog = "tcp_retransmit" -> tcp_retransmit(hit)
    [] prog = "process_exec" -> process_exec(hit)
    [] prog = "file_open" -> file_open(hit)
    [] OTHER -> FALSE

count_ring_buffer_drop == lost' = Append(lost, now)

\* RingBuf::output.
output(e) ==
  /\ fired < MaxFired
  /\ fired' = fired + 1
  /\ \/ Len(ring) < RingMax /\ ring' = Append(ring, e) /\ UNCHANGED lost
     \/ Len(ring) = RingMax /\ count_ring_buffer_drop /\ UNCHANGED ring

Kernel == UNCHANGED <<probe, now, hooked, readerVars, registryVars, taskVars>>

Hook(hit) ==
  /\ hooked
  /\ Emits(hit)
  /\ output(Event(hit.path, hit.path))
  /\ UNCHANGED <<open, in_flight>>
  /\ Kernel

\* Mutant: the key is the process, shared by its threads.
Key_process(t) == ProcessOf[t]

\* The key of IN_FLIGHT_OPENS: bpf_get_current_pid_tgid, a thread.
Key(t) == t

\* LruHashMap::insert: a full map gives up another entry.
Inserted(keys, k) ==
  IF k \in keys \/ Cardinality(keys) < InFlightMax THEN {keys \cup {k}}
  ELSE {(keys \ {v}) \cup {k} : v \in keys}

handle_enter(t, hit) ==
  /\ prog = "open_attempt"
  /\ open[t] = "none"
  /\ open' = [open EXCEPT ![t] = hit.path]
  /\ IF hooked /\ ~is_self_filtered(hit) /\ hit.readable
               /\ matches_sensitive_prefix(hit.path)
     THEN in_flight' \in Inserted(in_flight, Key(t))
     ELSE UNCHANGED in_flight
  /\ UNCHANGED <<ring, lost, fired>>
  /\ Kernel

\* The kernel may skip the program of an exit: then it is not seen.
handle_exit(t, failed, seen) ==
  /\ open[t] # "none"
  /\ open' = [open EXCEPT ![t] = "none"]
  /\ \/ /\ seen /\ hooked /\ Key(t) \in in_flight
        /\ IF failed THEN output(Event("watched", open[t]))
                     ELSE UNCHANGED <<ring, lost, fired>>
        /\ in_flight' = in_flight \ {Key(t)}
     \/ /\ ~seen \/ ~hooked \/ Key(t) \notin in_flight
        /\ UNCHANGED <<ring, lost, fired, in_flight>>
  /\ Kernel

-----------------------------------------------------------------------------
(* The reader *)

Reader(label) ==
  /\ pc = label
  /\ UNCHANGED <<probe, now, hooked, lost, fired, open, in_flight, closed,
                 taskVars>>

\* spawn_reader, and the entry in the registry.
spawn_reader ==
  /\ Reader("new")
  /\ stats' = [stats EXCEPT !.started = now, !.polled = now]
  /\ attached' = TRUE
  /\ pc' = "check"
  /\ UNCHANGED <<ring, counter, drained, records, total, due, stored, offered, stop>>

\* drain_loop, from the top.  What a reader that stops leaves in the ring is gone.
Check ==
  /\ Reader("check")
  /\ pc' = IF stop THEN "gone" ELSE "drain"
  /\ drained' = 0
  /\ records' = 0
  /\ UNCHANGED <<ring, counter, total, due, stats, stored, offered, attached, stop>>

Take ==
  /\ Reader("drain")
  /\ drained < MaxDrain
  /\ ring # <<>>
  /\ ring' = Tail(ring)
  /\ drained' = drained + 1
  /\ UNCHANGED <<pc, total, due, offered, attached, stop>>

Count(field) == stats' = [stats EXCEPT ![field] = @ + 1]

Sampled == sample_every > 1 /\ (counter + 1) % sample_every # 0
NextCounter == IF sample_every > 1 THEN (counter + 1) % sample_every ELSE counter

SampleOut ==
  /\ Take
  /\ Sampled
  /\ counter' = NextCounter
  /\ Count("sampled_out")
  /\ UNCHANGED <<records, stored>>

\* Mutant: a parse error is only logged.
ParseError_logged ==
  /\ Take
  /\ ~Sampled
  /\ counter' = NextCounter
  /\ UNCHANGED <<stats, records, stored>>

ParseError ==
  /\ Take
  /\ ~Sampled
  /\ counter' = NextCounter
  /\ Count("parse_errors")
  /\ UNCHANGED <<records, stored>>

\* The pattern behind a prefix, which only records of files meet.
record_matches_sensitive_paths(matches) == prog \notin Files \/ matches

\* RecordIntake::admit.
admit(matches) ==
  /\ Take
  /\ ~Sampled
  /\ counter' = NextCounter
  /\ \/ /\ record_matches_sensitive_paths(matches)
        /\ stored' = stored + 1
        /\ records' = records + 1
        /\ Count("emitted")
     \/ /\ ~record_matches_sensitive_paths(matches)
        /\ Count("sampled_out")
        /\ UNCHANGED <<stored, records>>

DrainEnds ==
  /\ Reader("drain")
  /\ drained = MaxDrain \/ ring = <<>>
  /\ pc' = IF due THEN "poll" ELSE "send"
  /\ drained' = 0
  /\ UNCHANGED <<ring, counter, records, total, due, stats, stored,
                 offered, attached, stop>>

ReadCounter ==
  /\ Reader("poll")
  /\ total' = Len(lost)
  /\ pc' = "clock"
  /\ UNCHANGED <<ring, counter, drained, records, due, stats, stored, offered,
                 attached, stop>>

CounterFails ==
  /\ Reader("poll")
  /\ due' = FALSE
  /\ pc' = "send"
  /\ UNCHANGED <<ring, counter, drained, records, total, stats, stored, offered,
                 attached, stop>>

record_drop_poll ==
  /\ Reader("clock")
  /\ stats' = [stats EXCEPT !.drops = total, !.polled = now]
  /\ due' = FALSE
  /\ total' = 0
  /\ pc' = "send"
  /\ UNCHANGED <<ring, counter, drained, records, stored, offered, attached, stop>>

\* monotonic_now_ns fails: the reader returns, with the records in its hands.
ClockFails ==
  /\ Reader("clock")
  /\ pc' = "gone"
  /\ UNCHANGED <<ring, counter, drained, records, total, due, stats, stored,
                 offered, attached, stop>>

\* The queue accounts for what it refuses; a closed one ends the reader.
Send ==
  /\ Reader("send")
  /\ \/ /\ records = 0 \/ ~closed
        /\ offered' = offered + records
        /\ records' = 0
        /\ pc' = "check"
     \/ /\ records > 0 /\ closed
        /\ pc' = "gone"
        /\ UNCHANGED <<records, offered>>
  /\ UNCHANGED <<ring, counter, drained, total, due, stats, stored, attached, stop>>

Drain == SampleOut \/ ParseError \/ (\E matches \in BOOLEAN : admit(matches))

\* A second passes since last_drop_poll.
Elapse ==
  /\ ~due /\ pc \notin {"new", "gone"}
  /\ due' = TRUE
  /\ UNCHANGED <<probe, now, kernelVars, counter, pc, drained, records, total,
                 stats, stored, offered, registryVars, taskVars>>

-----------------------------------------------------------------------------
(* Detach, and the end of the sink loop *)

detach ==
  /\ attached
  /\ attached' = FALSE
  /\ stop' = TRUE
  /\ UNCHANGED <<probe, now, kernelVars, readerVars, closed, taskVars>>

\* The generated object is dropped.
Unload ==
  /\ stop /\ hooked
  /\ hooked' = FALSE
  /\ UNCHANGED <<probe, now, ring, lost, fired, open, in_flight, readerVars,
                 registryVars, taskVars>>

Close ==
  /\ ~closed
  /\ closed' = TRUE
  /\ UNCHANGED <<probe, now, kernelVars, readerVars, attached, stop, taskVars>>

-----------------------------------------------------------------------------
(* emit_self_observability *)

Task(label) ==
  /\ task = label
  /\ UNCHANGED <<probe, now, kernelVars, readerVars, registryVars>>

\* A tick of the interval: the probes that are attached now are looked at, also
\* when they are detached meanwhile.
observability_stats ==
  /\ Task("waiting")
  /\ task' = IF attached THEN "reporting" ELSE "waiting"
  /\ previous' = IF attached THEN previous ELSE {}
  /\ UNCHANGED gaps

counter_delta(current, before) == IF current >= before THEN current - before ELSE current

\* Before its first report a probe counts from nothing, and from its start.
Previous == IF previous # {} THEN CHOOSE p \in previous : TRUE
            ELSE [drops |-> 0, errors |-> 0, polled |-> stats.started]

\* Mutant: the first look is only the base of the next.
update_probe_counters_base ==
  LET before == IF previous # {} THEN Previous
                ELSE [drops |-> stats.drops, errors |-> 0, polled |-> stats.started]
  IN  [drops |-> counter_delta(stats.drops, before.drops),
       errors |-> counter_delta(stats.parse_errors, before.errors),
       start |-> before.polled]

update_probe_counters ==
  [drops |-> counter_delta(stats.drops, Previous.drops),
   errors |-> counter_delta(stats.parse_errors, Previous.errors),
   start |-> Previous.polled]

\* Mutant: the counters of the first look are kept.
Remember_first ==
  previous' = IF previous # {} THEN previous
              ELSE {[drops |-> stats.drops, errors |-> stats.parse_errors,
                     polled |-> stats.polled]}

Remember ==
  previous' = {[drops |-> stats.drops, errors |-> stats.parse_errors,
                polled |-> stats.polled]}

ring_buffer_gap_records(new) ==
  [dropped |-> new.drops, start |-> new.start, end |-> stats.polled]

\* Gap reports are agent records: an open queue takes them.  The record of parse
\* errors is evidence like other, and only whether it finds the queue closed
\* matters here.
Report ==
  LET new == update_probe_counters
      fails == closed /\ (new.drops > 0 \/ new.errors > 0)
  IN  /\ Task("reporting")
      /\ Remember
      /\ task' = IF fails THEN "ended" ELSE "waiting"
      /\ gaps' = IF new.drops > 0 /\ ~closed
                 THEN Append(gaps, ring_buffer_gap_records(new)) ELSE gaps

-----------------------------------------------------------------------------
Next ==
  \/ Tick
  \/ \E hit \in Hits : Hook(hit) \/ \E t \in Threads : handle_enter(t, hit)
  \/ \E t \in Threads, failed \in BOOLEAN, seen \in {TRUE, ~MissedExits} :
       handle_exit(t, failed, seen)
  \/ spawn_reader \/ Check \/ Drain \/ DrainEnds
  \/ ReadCounter \/ CounterFails \/ record_drop_poll \/ ClockFails \/ Send \/ Elapse
  \/ detach \/ Unload \/ Close
  \/ observability_stats \/ Report

Spec == Init /\ [][Next]_vars

\* Threads and tasks are scheduled and time passes.  A counter that is read
\* again and again is read at last.
FairSpec ==
  /\ Spec
  /\ WF_vars(spawn_reader) /\ WF_vars(Check) /\ WF_vars(Drain) /\ WF_vars(DrainEnds)
  /\ SF_vars(ReadCounter) /\ WF_vars(record_drop_poll) /\ WF_vars(Send)
  /\ WF_vars(Elapse)
  /\ WF_vars(observability_stats) /\ WF_vars(Report)

-----------------------------------------------------------------------------
(* Properties *)

TypeOK ==
  /\ probe \in Probes
  /\ now \in 0..MaxTime
  /\ Len(ring) <= RingMax
  /\ Len(lost) <= fired
  /\ Cardinality(in_flight) <= InFlightMax
  /\ pc \in {"new", "check", "drain", "poll", "clock", "send", "gone"}
  /\ drained \in 0..MaxDrain
  /\ records \in 0..MaxDrain
  /\ task \in {"waiting", "reporting", "ended"}
  /\ Cardinality(previous) <= 1

\* No event vanishes between the kernel and the queue without a counter that
\* says so: what a program output is in the ring, counted as dropped, or counted
\* by the reader as emitted, sampled out or unparsable; and what is emitted is
\* stored and, unless the reader died with it, handed to the queue ("the metric
\* and `jalki status` agree").
EveryEventCounted ==
  /\ fired = Len(ring) + Len(lost) + stats.emitted + stats.sampled_out
                       + stats.parse_errors
  /\ stats.emitted = stored
  /\ stats.emitted = offered + records

\* The drops that the first n gap reports are about.
Reported(n) == Weight(1..n, [k \in 1..Len(gaps) |-> gaps[k].dropped])

\* Gap reports are exact: they add up to drops that were polled, none is
\* reported twice, their windows follow one another, and no drop is later than
\* the end of the window it is reported in, whatever the kernel drops while the
\* counter and the clock are read.
GapsAreExact ==
  /\ Reported(Len(gaps)) <= stats.drops /\ stats.drops <= Len(lost)
  /\ ~closed /\ previous # {} => Reported(Len(gaps)) = Previous.drops
  /\ \A k \in 1..Len(gaps) :
       /\ gaps[k].start <= gaps[k].end
       /\ k > 1 => gaps[k].start >= gaps[k - 1].end
       /\ \A i \in Reported(k - 1) + 1..Reported(k) : lost[i] <= gaps[k].end

\* Every event the kernel drops is reported at last, as long as the probe stays
\* attached and its reader and the sink loop run.
DropsAreReported ==
  \A n \in 1..MaxFired :
    Len(lost) >= n
      ~> Reported(Len(gaps)) >= n \/ stop \/ closed \/ pc = "gone"

\* A failed open is reported with the path that was asked for, although the path
\* is kept from the syscall's entry to its exit in a map that threads share and
\* that evicts.  It needs exits that are all seen.
AttemptNamesItsPath == \A i \in 1..Len(ring) : ring[i].path = ring[i].actual

\* docs/jalki/probe-definitions.md: on overflow "emit a `jalki.agent.gap`
\* occurrence covering the lost window".
GapCoversItsDrops ==
  \A k \in 1..Len(gaps) :
    \A i \in Reported(k - 1) + 1..Reported(k) : gaps[k].start <= lost[i]

\* docs/jalki/local-agent-state.md, of ring buffer overflow: "Emit gap; do
\* **not** silently drop".  Also for a probe that is detached.
DropsOutliveDetach ==
  \A n \in 1..MaxFired :
    Len(lost) >= n ~> Reported(Len(gaps)) >= n \/ closed \/ (pc = "gone" /\ ~stop)
=============================================================================
