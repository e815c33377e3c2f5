-------------------------- MODULE RingReaderProofs --------------------------
(***************************************************************************)
(* Theorems about RingReader, for any number of threads and events and any *)
(* size of the ring buffer, of the map of opens and of a drain cycle.      *)
(***************************************************************************)
EXTENDS RingReader, BaseTheorems

Paths == {"watched", "other"}
Events == [path : Paths, actual : Paths \cup {"none"}]
Stats == [emitted : Nat, sampled_out : Nat, parse_errors : Nat, drops : Nat,
          started : Nat, polled : Nat]
Gaps == [dropped : Nat, start : Nat, end : Nat]
Looks == [drops : Nat, errors : Nat, polled : Nat]

\* TypeOK but for its bounds, and the types that it leaves out.
Types ==
  /\ probe \in Probes
  /\ now \in Nat
  /\ ring \in Seq(Events)
  /\ lost \in Seq(Nat)
  /\ fired \in Nat
  /\ open \in [Threads -> Paths \cup {"none"}]
  /\ in_flight \subseteq Threads
  /\ pc \in {"new", "check", "drain", "poll", "clock", "send", "gone"}
  /\ drained \in Nat
  /\ records \in Nat
  /\ total \in Nat
  /\ stats \in Stats
  /\ stored \in Nat
  /\ offered \in Nat
  /\ task \in {"waiting", "reporting", "ended"}
  /\ previous \in SUBSET Looks
  /\ gaps \in Seq(Gaps)

\* The reader takes an event.
Taken == SampleOut \/ ParseError \/ \E matches \in BOOLEAN : admit(matches)

\* A case for each kind of step.
LEMMA StepCases ==
  ASSUME [Next]_vars
  PROVE  \/ Tick
         \/ \E hit \in Hits : Hook(hit)
         \/ \E hit \in Hits, t \in Threads : handle_enter(t, hit)
         \/ \E t \in Threads, failed \in BOOLEAN, seen \in {TRUE, ~MissedExits} :
              handle_exit(t, failed, seen)
         \/ spawn_reader
         \/ Taken
         \/ Check \/ DrainEnds \/ ReadCounter \/ CounterFails \/ record_drop_poll
         \/ ClockFails \/ Send \/ Elapse
         \/ detach \/ Unload \/ Close
         \/ observability_stats \/ Report
         \/ UNCHANGED vars
BY DEF Next, Drain, Taken

LEMMA TypesInit == Init => Types
BY DEF Init, Types, Paths, Stats

\* An event that is output goes to the ring or to the drop counter.
LEMMA OutputEffect ==
  ASSUME Types, NEW e \in Events, output(e)
  PROVE  /\ fired' = fired + 1
         /\ \/ Len(ring) < RingMax /\ ring' = Append(ring, e) /\ lost' = lost
            \/ Len(ring) = RingMax /\ ring' = ring /\ lost' = Append(lost, now)
         /\ ring' \in Seq(Events) /\ lost' \in Seq(Nat) /\ fired' \in Nat
<1>1. ring \in Seq(Events) /\ lost \in Seq(Nat) /\ fired \in Nat /\ now \in Nat
  BY DEF Types
<1>2. Append(ring, e) \in Seq(Events) /\ Append(lost, now) \in Seq(Nat)
  BY <1>1
<1>3. /\ fired' = fired + 1
      /\ \/ Len(ring) < RingMax /\ ring' = Append(ring, e) /\ lost' = lost
         \/ Len(ring) = RingMax /\ ring' = ring /\ lost' = Append(lost, now)
  BY DEF output, count_ring_buffer_drop
<1>4. ring' \in Seq(Events) /\ lost' \in Seq(Nat)
  BY <1>1, <1>2, <1>3, Zenon
<1>5. fired' \in Nat
  BY <1>1, <1>3
<1>6. QED
  BY <1>3, <1>4, <1>5, Zenon

\* What the reader has counted in some way.
Seen(s) == s.emitted + s.sampled_out + s.parse_errors

\* A reader that takes an event counts it once.
CountedOnce ==
  /\ pc = "drain" /\ drained < MaxDrain /\ drained' = drained + 1
  /\ ring # <<>> /\ ring' = Tail(ring)
  /\ UNCHANGED <<probe, now, hooked, lost, fired, open, in_flight, pc, total,
                 due, offered, attached, stop, closed, task, previous, gaps>>
  /\ stats' \in Stats
  /\ stats'.drops = stats.drops /\ stats'.started = stats.started
  /\ stats'.polled = stats.polled
  /\ stats'.parse_errors >= stats.parse_errors
  /\ Seen(stats) \in Nat /\ Seen(stats') = Seen(stats) + 1
  /\ \E n \in 0..1 : /\ stats'.emitted = stats.emitted + n
                       /\ stored' = stored + n /\ records' = records + n

LEMMA TakenIsCounted == ASSUME Types, Taken PROVE CountedOnce
<1> stats \in Stats /\ stored \in Nat /\ records \in Nat
  BY DEF Types
<1>1. Take
  BY DEF Taken, SampleOut, ParseError, admit
<1>2. /\ pc = "drain" /\ drained < MaxDrain /\ drained' = drained + 1
      /\ ring # <<>> /\ ring' = Tail(ring)
      /\ UNCHANGED <<probe, now, hooked, lost, fired, open, in_flight, pc, total,
                     due, offered, attached, stop, closed, task, previous, gaps>>
  BY <1>1 DEF Take, Reader, taskVars
<1>3. \/ Count("sampled_out") /\ UNCHANGED <<records, stored>>
      \/ Count("parse_errors") /\ UNCHANGED <<records, stored>>
      \/ Count("emitted") /\ stored' = stored + 1 /\ records' = records + 1
  BY DEF Taken, SampleOut, ParseError, admit
<1>4. /\ stats' \in Stats
      /\ stats'.drops = stats.drops /\ stats'.started = stats.started
      /\ stats'.polled = stats.polled
      /\ stats'.parse_errors >= stats.parse_errors
      /\ Seen(stats) \in Nat /\ Seen(stats') = Seen(stats) + 1
      /\ \E n \in 0..1 : /\ stats'.emitted = stats.emitted + n
                           /\ stored' = stored + n /\ records' = records + n
  <2>1. CASE Count("sampled_out") /\ UNCHANGED <<records, stored>>
    BY <2>1 DEF Count, Stats, Seen
  <2>2. CASE Count("parse_errors") /\ UNCHANGED <<records, stored>>
    BY <2>2 DEF Count, Stats, Seen
  <2>3. CASE Count("emitted") /\ stored' = stored + 1 /\ records' = records + 1
    BY <2>3 DEF Count, Stats, Seen
  <2>4. QED
    BY <1>3, <2>1, <2>2, <2>3
<1>5. QED
  BY <1>2, <1>4 DEF CountedOnce

\* The start of a reader and a poll of the drop counter leave the other counts.
LEMMA PollEffect ==
  ASSUME Types, spawn_reader \/ record_drop_poll
  PROVE  /\ stats' \in Stats /\ stats'.polled = now
         /\ stats'.emitted = stats.emitted /\ stats'.sampled_out = stats.sampled_out
         /\ stats'.parse_errors = stats.parse_errors
         /\ spawn_reader => stats'.started = now /\ stats'.drops = stats.drops
         /\ record_drop_poll => stats'.started = stats.started /\ stats'.drops = total
<1> stats \in Stats /\ now \in Nat /\ total \in Nat
  BY DEF Types
<1>1. CASE spawn_reader
  <2>1. stats' = [stats EXCEPT !.started = now, !.polled = now]
    BY <1>1 DEF spawn_reader
  <2>2. /\ stats' \in Stats /\ stats'.polled = now /\ stats'.started = now
        /\ stats'.emitted = stats.emitted /\ stats'.sampled_out = stats.sampled_out
        /\ stats'.parse_errors = stats.parse_errors /\ stats'.drops = stats.drops
    BY <2>1 DEF Stats
  <2>3. ~record_drop_poll
    BY <1>1 DEF spawn_reader, record_drop_poll, Reader
  <2>4. QED
    BY <2>2, <2>3
<1>2. CASE record_drop_poll
  <2>1. stats' = [stats EXCEPT !.drops = total, !.polled = now]
    BY <1>2 DEF record_drop_poll
  <2>2. /\ stats' \in Stats /\ stats'.polled = now /\ stats'.drops = total
        /\ stats'.emitted = stats.emitted /\ stats'.sampled_out = stats.sampled_out
        /\ stats'.parse_errors = stats.parse_errors /\ stats'.started = stats.started
    BY <2>1 DEF Stats
  <2>3. ~spawn_reader
    BY <1>2 DEF spawn_reader, record_drop_poll, Reader
  <2>4. QED
    BY <2>2, <2>3
<1>3. QED
  BY <1>1, <1>2

LEMMA LookTypes ==
  ASSUME Types
  PROVE  /\ Previous \in Looks
         /\ update_probe_counters \in [drops : Nat, errors : Nat, start : Nat]
<1>1. Previous \in Looks
  <2>1. CASE previous = {}
    BY <2>1 DEF Previous, Types, Stats, Looks
  <2>2. CASE previous # {}
    <3>1. (CHOOSE p \in previous : TRUE) \in previous
      BY <2>2
    <3>2. QED
      BY <2>2, <3>1 DEF Previous, Types
  <2>3. QED
    BY <2>1, <2>2
<1>2. QED
  BY <1>1 DEF update_probe_counters, counter_delta, Types, Stats, Looks

LEMMA TypesStep == Types /\ [Next]_vars => Types'
<1> SUFFICES ASSUME Types, [Next]_vars PROVE Types'
  OBVIOUS
<1> USE DEF kernelVars, readerVars, registryVars, taskVars
<1>1. ASSUME Tick PROVE Types'
  BY <1>1 DEF Tick, Types
<1>2. ASSUME NEW hit \in Hits, Hook(hit) PROVE Types'
  <2>1. Event(hit.path, hit.path) \in Events
    BY DEF Hits, Event, Events, Paths
  <2>2. ring' \in Seq(Events) /\ lost' \in Seq(Nat) /\ fired' \in Nat
    BY <1>2, <2>1, OutputEffect DEF Hook
  <2>3. QED
    BY <1>2, <2>2 DEF Hook, Kernel, Types
<1>3. ASSUME NEW hit \in Hits, NEW t \in Threads, handle_enter(t, hit) PROVE Types'
  <2>1. open' \in [Threads -> Paths \cup {"none"}]
    BY <1>3 DEF handle_enter, Hits, Paths, Types
  <2>2. in_flight' \subseteq Threads
    BY <1>3 DEF handle_enter, Inserted, Key, Types
  <2>3. QED
    BY <1>3, <2>1, <2>2 DEF handle_enter, Kernel, Types
<1>4. ASSUME NEW t \in Threads, NEW failed \in BOOLEAN, NEW seen \in {TRUE, ~MissedExits},
             handle_exit(t, failed, seen)
      PROVE  Types'
  <2>1. Event("watched", open[t]) \in Events
    BY DEF Types, Event, Events, Paths
  <2>2. ring' \in Seq(Events) /\ lost' \in Seq(Nat) /\ fired' \in Nat
    BY <1>4, <2>1, OutputEffect DEF handle_exit, Types
  <2>3. QED
    BY <1>4, <2>2 DEF handle_exit, Kernel, Types
<1>5. ASSUME spawn_reader \/ record_drop_poll PROVE Types'
  <2>1. stats' \in Stats
    BY <1>5, PollEffect
  <2>2. QED
    BY <1>5, <2>1 DEF spawn_reader, record_drop_poll, Reader, Types
<1>6. ASSUME Check \/ DrainEnds \/ ReadCounter \/ CounterFails \/ ClockFails \/ Send
      PROVE  Types'
  BY <1>6 DEF Check, DrainEnds, ReadCounter, CounterFails, ClockFails, Send, Reader,
              Types
<1>7. ASSUME Taken PROVE Types'
  <2>1. CountedOnce
    BY <1>7, TakenIsCounted
  <2>2. ring' \in Seq(Events)
    BY <2>1 DEF CountedOnce, Types
  <2>3. drained' \in Nat /\ records' \in Nat /\ stored' \in Nat
    BY <2>1 DEF CountedOnce, Types
  <2>4. QED
    BY <2>1, <2>2, <2>3 DEF CountedOnce, Types
<1>8. ASSUME Elapse \/ detach \/ Unload \/ Close \/ observability_stats \/ UNCHANGED vars
      PROVE  Types'
  BY <1>8 DEF Elapse, detach, Unload, Close, observability_stats, Task, vars, Types
<1>9. ASSUME Report PROVE Types'
  <2>1. previous' \in SUBSET Looks
    BY <1>9 DEF Report, Remember, Types, Stats, Looks
  <2>2. ring_buffer_gap_records(update_probe_counters) \in Gaps
    BY LookTypes DEF ring_buffer_gap_records, Types, Stats, Gaps
  <2>3. gaps' \in Seq(Gaps)
    BY <1>9, <2>2 DEF Report, Types
  <2>4. QED
    BY <1>9, <2>1, <2>3 DEF Report, Task, Types
<1>10. QED
  BY <1>1, <1>2, <1>3, <1>4, <1>5, <1>6, <1>7, <1>8, <1>9, StepCases

-----------------------------------------------------------------------------
\* Where an event is, and that a new cycle starts with no records.
Counting ==
  /\ fired = Len(ring) + Len(lost) + Seen(stats)
  /\ stats.emitted = stored
  /\ stats.emitted = offered + records
  /\ pc \in {"new", "check"} => records = 0

LEMMA CountingInit == Init => Counting
BY DEF Init, Counting, Seen

LEMMA CountingCounts == Types /\ Counting => EveryEventCounted
<1> SUFFICES ASSUME Types, Counting PROVE EveryEventCounted
  OBVIOUS
<1>1. PICK e \in Nat, s \in Nat, p \in Nat :
        stats.emitted = e /\ stats.sampled_out = s /\ stats.parse_errors = p
  BY DEF Types, Stats
<1>2. Len(ring) \in Nat /\ Len(lost) \in Nat /\ fired \in Nat
  BY DEF Types
<1>3. fired = Len(ring) + Len(lost) + stats.emitted + stats.sampled_out
                + stats.parse_errors
  BY <1>1, <1>2 DEF Counting, Seen
<1>4. QED
  BY <1>3 DEF Counting, EveryEventCounted

\* A step that neither outputs nor takes an event.
LEMMA CountingFrame ==
  ASSUME Types, Counting, UNCHANGED <<ring, lost, fired, stored>>,
         stats'.emitted = stats.emitted, stats'.sampled_out = stats.sampled_out,
         stats'.parse_errors = stats.parse_errors,
         offered' + records' = offered + records,
         pc' \in {"new", "check"} => records' = 0
  PROVE  Counting'
BY DEF Counting, Seen, Types, Stats

LEMMA OutputCounts ==
  ASSUME Types, Counting, NEW e \in Events, output(e),
         UNCHANGED <<stats, stored, offered, records, pc>>
  PROVE  Counting'
<1>1. Len(ring') + Len(lost') = Len(ring) + Len(lost) + 1 /\ fired' = fired + 1
  <2>1. /\ \/ ring' = Append(ring, e) /\ lost' = lost
           \/ ring' = ring /\ lost' = Append(lost, now)
        /\ fired' = fired + 1
    BY OutputEffect
  <2>2. /\ Len(Append(ring, e)) = Len(ring) + 1
        /\ Len(Append(lost, now)) = Len(lost) + 1
        /\ Len(ring) \in Nat /\ Len(lost) \in Nat
    BY DEF Types
  <2>3. CASE ring' = Append(ring, e) /\ lost' = lost
    BY <2>1, <2>2, <2>3
  <2>4. CASE ring' = ring /\ lost' = Append(lost, now)
    BY <2>1, <2>2, <2>4
  <2>5. QED
    BY <2>1, <2>3, <2>4
<1>2. Len(ring) \in Nat /\ Len(lost) \in Nat /\ Len(ring') \in Nat /\ Len(lost') \in Nat
  BY OutputEffect DEF Types
<1>3. fired \in Nat /\ Seen(stats) \in Nat
  BY DEF Types, Stats, Seen
<1>4. fired' = Len(ring') + Len(lost') + Seen(stats)
  BY <1>1, <1>2, <1>3 DEF Counting
<1>5. QED
  BY <1>4 DEF Counting

LEMMA CountingStep == Types /\ Counting /\ [Next]_vars => Counting'
<1> SUFFICES ASSUME Types, Counting, [Next]_vars PROVE Counting'
  OBVIOUS
<1> USE DEF kernelVars, readerVars, registryVars, taskVars
<1>1. ASSUME NEW hit \in Hits, Hook(hit) PROVE Counting'
  <2>1. Event(hit.path, hit.path) \in Events
    BY DEF Hits, Event, Events, Paths
  <2>2. QED
    BY <1>1, <2>1, OutputCounts DEF Hook, Kernel
<1>2. ASSUME NEW t \in Threads, NEW failed \in BOOLEAN, NEW seen \in {TRUE, ~MissedExits},
             handle_exit(t, failed, seen)
      PROVE  Counting'
  <2>1. Event("watched", open[t]) \in Events
    BY DEF Types, Event, Events, Paths
  <2>2. UNCHANGED <<stats, stored, offered, records, pc>>
    BY <1>2 DEF handle_exit, Kernel
  <2>3. output(Event("watched", open[t])) \/ UNCHANGED <<ring, lost, fired>>
    BY <1>2 DEF handle_exit
  <2>4. CASE output(Event("watched", open[t]))
    BY <2>1, <2>2, <2>4, OutputCounts
  <2>5. CASE UNCHANGED <<ring, lost, fired>>
    BY <2>2, <2>5 DEF Counting
  <2>6. QED
    BY <2>3, <2>4, <2>5
<1>3. ASSUME Taken PROVE Counting'
  <2>1. CountedOnce
    BY <1>3, TakenIsCounted
  <2>2. Len(ring) \in Nat /\ Len(ring') = Len(ring) - 1
    BY <2>1 DEF CountedOnce, Types
  <2>3. Len(lost) \in Nat /\ lost' = lost /\ fired' = fired
    BY <2>1 DEF CountedOnce, Types
  <2>4. fired' = Len(ring') + Len(lost') + Seen(stats')
    BY <2>1, <2>2, <2>3 DEF CountedOnce, Counting, Types
  <2>5. stored \in Nat /\ offered \in Nat /\ records \in Nat /\ offered' = offered
    BY <2>1 DEF CountedOnce, Types
  <2>6. stats'.emitted = stored' /\ stats'.emitted = offered' + records'
    <3>1. PICK n \in 0..1 : /\ stats'.emitted = stats.emitted + n
                              /\ stored' = stored + n /\ records' = records + n
      BY <2>1 DEF CountedOnce
    <3>2. PICK o \in Nat, r \in Nat : offered = o /\ offered' = o /\ records = r
      BY <2>5
    <3>3. stats.emitted = stored /\ stats.emitted = o + r /\ n \in Nat
      BY <3>2 DEF Counting
    <3>4. stats'.emitted = o + r + n /\ records' = r + n
      BY <3>1, <3>2, <3>3
    <3>5. o + (r + n) = o + r + n
      BY <3>3
    <3>6. QED
      BY <2>5, <3>1, <3>2, <3>3, <3>4, <3>5
  <2>7. pc' \notin {"new", "check"}
    BY <2>1 DEF CountedOnce
  <2>8. QED
    BY <2>4, <2>6, <2>7 DEF Counting
<1>4. ASSUME spawn_reader \/ record_drop_poll PROVE Counting'
  <2>1. /\ UNCHANGED <<ring, lost, fired, stored, offered, records>>
        /\ pc' = "check" => pc = "new"
        /\ pc' # "new"
    BY <1>4 DEF spawn_reader, record_drop_poll, Reader
  <2>2. /\ stats'.emitted = stats.emitted /\ stats'.sampled_out = stats.sampled_out
        /\ stats'.parse_errors = stats.parse_errors
    BY <1>4, PollEffect
  <2>3. pc' \in {"new", "check"} => records' = 0
    BY <2>1 DEF Counting
  <2>4. offered' + records' = offered + records
    BY <2>1
  <2>5. QED
    BY <2>1, <2>2, <2>3, <2>4, CountingFrame
<1>5. ASSUME Check \/ DrainEnds \/ ReadCounter \/ CounterFails \/ ClockFails \/ Send
      PROVE  Counting'
  <2>1. /\ UNCHANGED <<ring, lost, fired, stored, stats>>
        /\ offered' + records' = offered + records
        /\ pc' \in {"new", "check"} => records' = 0
    <3>1. records \in Nat /\ offered \in Nat
      BY DEF Types
    <3>2. CASE Check \/ DrainEnds
      BY <3>1, <3>2 DEF Check, DrainEnds, Reader, Counting
    <3>3. CASE ReadCounter \/ CounterFails \/ ClockFails
      BY <3>1, <3>3 DEF ReadCounter, CounterFails, ClockFails, Reader
    <3>4. CASE Send
      BY <3>1, <3>4 DEF Send, Reader
    <3>5. QED
      BY <1>5, <3>2, <3>3, <3>4
  <2>2. QED
    BY <2>1, CountingFrame
<1>6. ASSUME \/ Tick \/ \E hit \in Hits, t \in Threads : handle_enter(t, hit)
             \/ Elapse \/ detach \/ Unload \/ Close \/ observability_stats \/ Report
             \/ UNCHANGED vars
      PROVE  Counting'
  BY <1>6 DEF Tick, handle_enter, Kernel, Elapse, detach, Unload, Close,
       observability_stats, Report, Task, vars, Counting
<1>7. QED
  BY <1>1, <1>2, <1>3, <1>4, <1>5, <1>6, StepCases

-----------------------------------------------------------------------------
\* While the programs are attached, an entry of IN_FLIGHT_OPENS is of a thread
\* that is opening a watched path.  (An exit after the detach leaves its entry
\* behind, and nobody looks at it any more.)
PathsKept ==
  /\ hooked => \A t \in in_flight : open[t] = "watched"
  /\ AttemptNamesItsPath

LEMMA PathsInit == Init => PathsKept
BY DEF Init, PathsKept, AttemptNamesItsPath

LEMMA OutputKeepsPaths ==
  ASSUME Types, AttemptNamesItsPath, NEW e \in Events, e.path = e.actual,
         output(e) \/ UNCHANGED ring
  PROVE  AttemptNamesItsPath'
<1>1. ring \in Seq(Events)
  BY DEF Types
<1>2. ring' = ring \/ ring' = Append(ring, e)
  BY OutputEffect
<1>3. CASE ring' = ring
  BY <1>3 DEF AttemptNamesItsPath
<1>4. CASE ring' = Append(ring, e)
  <2>1. ASSUME NEW i \in 1..Len(ring') PROVE ring'[i].path = ring'[i].actual
    <3>1. Len(ring') = Len(ring) + 1 /\ Len(ring) \in Nat
      BY <1>1, <1>4
    <3>2. ring'[i] = IF i <= Len(ring) THEN ring[i] ELSE e
      BY <1>1, <1>4, <3>1
    <3>3. QED
      BY <3>1, <3>2 DEF AttemptNamesItsPath
  <2>2. QED
    BY <2>1 DEF AttemptNamesItsPath
<1>5. QED
  BY <1>2, <1>3, <1>4

LEMMA PathsStep ==
  ASSUME ~MissedExits, Types, PathsKept, [Next]_vars
  PROVE  PathsKept'
<1> USE DEF kernelVars, readerVars, registryVars, taskVars
<1>1. ASSUME NEW hit \in Hits, Hook(hit) PROVE PathsKept'
  <2>1. /\ Event(hit.path, hit.path) \in Events
        /\ Event(hit.path, hit.path).path = Event(hit.path, hit.path).actual
    BY DEF Hits, Event, Events, Paths
  <2>2. AttemptNamesItsPath'
    BY <1>1, <2>1, OutputKeepsPaths DEF Hook, PathsKept
  <2>3. QED
    BY <1>1, <2>2 DEF Hook, Kernel, PathsKept
<1>2. ASSUME NEW hit \in Hits, NEW t \in Threads, handle_enter(t, hit) PROVE PathsKept'
  <2>1. AttemptNamesItsPath'
    BY <1>2 DEF handle_enter, PathsKept, AttemptNamesItsPath
  <2>2. ASSUME hooked, NEW u \in in_flight' PROVE open'[u] = "watched"
    <3>1. CASE in_flight' = in_flight
      <4>1. open[u] = "watched" /\ u \in Threads
        BY <2>2, <3>1 DEF PathsKept, Types
      <4>2. u # t
        BY <1>2, <4>1 DEF handle_enter
      <4>3. QED
        BY <1>2, <4>1, <4>2 DEF handle_enter, Types
    <3>2. CASE in_flight' # in_flight
      <4>1. hit.path = "watched" /\ in_flight' \in Inserted(in_flight, t)
        BY <1>2, <3>2 DEF handle_enter, matches_sensitive_prefix, Key
      <4>2. u \in in_flight \/ u = t
        BY <2>2, <4>1 DEF Inserted
      <4>3. QED
        BY <1>2, <2>2, <4>1, <4>2 DEF handle_enter, PathsKept, Types
    <3>3. QED
      BY <3>1, <3>2
  <2>3. QED
    BY <1>2, <2>1, <2>2 DEF handle_enter, Kernel, PathsKept
<1>3. ASSUME NEW t \in Threads, NEW failed \in BOOLEAN, NEW seen \in {TRUE, ~MissedExits},
             handle_exit(t, failed, seen)
      PROVE  PathsKept'
  <2>1. CASE hooked /\ t \in in_flight
    <3>1. open[t] = "watched"
      BY <2>1 DEF PathsKept
    <3>2. /\ Event("watched", open[t]) \in Events
          /\ Event("watched", open[t]).path = Event("watched", open[t]).actual
      BY <3>1 DEF Event, Events, Paths
    <3>3. AttemptNamesItsPath'
      BY <1>3, <3>2, OutputKeepsPaths DEF handle_exit, PathsKept
    <3>4. in_flight' = in_flight \ {t} /\ hooked' = hooked
      BY <1>3, <2>1 DEF handle_exit, Kernel, Key
    <3>5. QED
      BY <1>3, <3>3, <3>4 DEF handle_exit, PathsKept, Types
  <2>2. CASE ~(hooked /\ t \in in_flight)
    <3>1. UNCHANGED <<ring, in_flight, hooked>>
      BY <1>3, <2>2 DEF handle_exit, Kernel, Key
    <3>2. QED
      BY <1>3, <2>2, <3>1 DEF handle_exit, PathsKept, AttemptNamesItsPath, Types
  <2>3. QED
    BY <2>1, <2>2
<1>4. ASSUME Taken PROVE PathsKept'
  <2>1. ring \in Seq(Events) /\ ring # <<>> /\ ring' = Tail(ring)
        /\ UNCHANGED <<hooked, in_flight, open>>
    BY <1>4, TakenIsCounted DEF CountedOnce, Types
  <2>2. ASSUME NEW i \in 1..Len(ring') PROVE ring'[i].path = ring'[i].actual
    <3>1. ring'[i] = ring[i + 1] /\ i + 1 \in 1..Len(ring)
      BY <2>1
    <3>2. QED
      BY <3>1 DEF PathsKept, AttemptNamesItsPath
  <2>3. QED
    BY <2>1, <2>2 DEF PathsKept, AttemptNamesItsPath
<1>5. ASSUME Unload PROVE PathsKept'
  BY <1>5 DEF Unload, PathsKept, AttemptNamesItsPath
<1>6. ASSUME \/ Tick \/ spawn_reader \/ Check \/ DrainEnds \/ ReadCounter \/ CounterFails
             \/ record_drop_poll \/ ClockFails \/ Send \/ Elapse \/ detach \/ Close
             \/ observability_stats \/ Report \/ UNCHANGED vars
      PROVE  PathsKept'
  <2>1. UNCHANGED <<ring, hooked, in_flight, open>>
    BY <1>6 DEF Tick, spawn_reader, Check, DrainEnds, ReadCounter, CounterFails,
         record_drop_poll, ClockFails, Send, Elapse, detach, Close, Reader,
         observability_stats, Report, Task, vars
  <2>2. QED
    BY <2>1 DEF PathsKept, AttemptNamesItsPath
<1>7. QED
  BY <1>1, <1>2, <1>3, <1>4, <1>5, <1>6, StepCases

-----------------------------------------------------------------------------
(* Gap reports.  Reported and GapsAreExact for given reports and drops.    *)

Dropped(g) == [k \in 1..Len(g) |-> g[k].dropped]
ReportedBy(g, n) == Weight(1..n, Dropped(g))

LEMMA ReportedIs == \A n : Reported(n) = ReportedBy(gaps, n)
BY DEF Reported, ReportedBy, Dropped

\* What a number of reports is about is a number that grows with them.
LEMMA ReportedGrows ==
  ASSUME NEW g \in Seq(Gaps), NEW m \in 0..Len(g), NEW n \in 0..m
  PROVE  /\ IsFiniteSet(Units(1..m, Dropped(g)))
         /\ ReportedBy(g, m) \in Nat /\ ReportedBy(g, n) \in Nat
         /\ ReportedBy(g, n) <= ReportedBy(g, m)
<1>1. IsFiniteSet(1..m)
  BY FS_Interval
<1>2. ASSUME NEW k \in 1..m PROVE Dropped(g)[k] \in Nat
  <2>1. k \in 1..Len(g)
    OBVIOUS
  <2>2. g[k] \in Gaps
    BY <2>1
  <2>3. QED
    BY <2>1, <2>2 DEF Dropped, Gaps
<1>3. IsFiniteSet(Units(1..m, Dropped(g)))
  BY <1>1, <1>2, WeightFinite
<1>4. 1..n \subseteq 1..m
  OBVIOUS
<1>5. /\ IsFiniteSet(Units(1..n, Dropped(g)))
      /\ Weight(1..n, Dropped(g)) <= Weight(1..m, Dropped(g))
  BY <1>3, <1>4, WeightOfSubset
<1>6. Weight(1..n, Dropped(g)) \in Nat /\ Weight(1..m, Dropped(g)) \in Nat
  BY <1>3, <1>5, WeightType
<1>7. QED
  BY <1>3, <1>5, <1>6 DEF ReportedBy

\* A new report adds its drops and leaves the sums before it.
LEMMA ReportedAppend ==
  ASSUME NEW g \in Seq(Gaps), NEW x \in Gaps
  PROVE  /\ \A n \in 0..Len(g) : ReportedBy(Append(g, x), n) = ReportedBy(g, n)
         /\ ReportedBy(Append(g, x), Len(g) + 1) = ReportedBy(g, Len(g)) + x.dropped
<1> DEFINE h == Append(g, x)
<1>1. /\ h \in Seq(Gaps) /\ Len(g) \in Nat /\ Len(h) = Len(g) + 1
      /\ \A k \in 1..Len(g) : h[k] = g[k]
      /\ h[Len(g) + 1] = x
  OBVIOUS
<1> HIDE DEF h
<1>2. ASSUME NEW n \in 0..Len(g) PROVE ReportedBy(h, n) = ReportedBy(g, n)
  <2>1. \A k \in 1..n : Dropped(h)[k] = Dropped(g)[k]
    BY <1>1 DEF Dropped
  <2>2. QED
    BY <2>1, WeightOfSame DEF ReportedBy
<1>3. Dropped(h)[Len(g) + 1] = x.dropped /\ x.dropped \in Nat
  BY <1>1 DEF Dropped, Gaps
<1>4. Len(g) \in 0..Len(h)
  BY <1>1
<1>5. IsFiniteSet(Units(1..Len(g), Dropped(h)))
  BY <1>1, <1>4, ReportedGrows
<1>6. /\ 1..Len(g) + 1 = (1..Len(g)) \cup {Len(g) + 1}
      /\ Len(g) + 1 \notin 1..Len(g)
  BY <1>1
<1>7. ReportedBy(h, Len(g) + 1) = ReportedBy(h, Len(g)) + x.dropped
  <2> DEFINE S == 1..Len(g)
             last == Len(g) + 1
             size == Dropped(h)
  <2>1. last \notin S /\ size[last] \in Nat /\ IsFiniteSet(Units(S, size))
    BY <1>3, <1>5, <1>6
  <2> HIDE DEF S, last, size
  <2>2. Weight(S \cup {last}, size) = Weight(S, size) + size[last]
    BY <2>1, WeightOfMore
  <2>3. QED
    BY <1>3, <1>6, <2>2 DEF ReportedBy, S, last, size
<1>8. ReportedBy(h, Len(g)) = ReportedBy(g, Len(g))
  BY <1>1, <1>2
<1>9. QED
  BY <1>2, <1>7, <1>8 DEF h

\* The windows of reports g of drops at the times l.
WindowsHold(g, l) ==
  \A k \in 1..Len(g) :
    /\ g[k].start <= g[k].end
    /\ k > 1 => g[k].start >= g[k - 1].end
    /\ \A i \in ReportedBy(g, k - 1) + 1..ReportedBy(g, k) : l[i] <= g[k].end

\* A drop later than those reported changes no window.
LEMMA WindowsAfterDrop ==
  ASSUME NEW g \in Seq(Gaps), NEW l \in Seq(Nat), NEW x \in Nat,
         ReportedBy(g, Len(g)) <= Len(l), WindowsHold(g, l)
  PROVE  WindowsHold(g, Append(l, x))
<1> SUFFICES ASSUME NEW k \in 1..Len(g),
                    NEW i \in ReportedBy(g, k - 1) + 1..ReportedBy(g, k)
             PROVE  Append(l, x)[i] <= g[k].end
  BY DEF WindowsHold
<1>1. Len(g) \in Nat /\ k \in 0..Len(g) /\ k - 1 \in 0..k
  OBVIOUS
<1>2. /\ ReportedBy(g, k) \in Nat /\ ReportedBy(g, k - 1) \in Nat
      /\ ReportedBy(g, k) <= ReportedBy(g, Len(g)) /\ ReportedBy(g, Len(g)) \in Nat
  <2>1. Len(g) \in 0..Len(g)
    BY <1>1
  <2>2. ReportedBy(g, k) \in Nat /\ ReportedBy(g, k - 1) \in Nat
    BY <1>1, ReportedGrows
  <2>3. ReportedBy(g, k) <= ReportedBy(g, Len(g)) /\ ReportedBy(g, Len(g)) \in Nat
    BY <1>1, <2>1, ReportedGrows
  <2>4. QED
    BY <2>2, <2>3
<1>3. i \in 1..Len(l)
  BY <1>2
<1>4. Append(l, x)[i] = l[i]
  BY <1>3
<1>5. QED
  BY <1>4 DEF WindowsHold

\* A new report keeps the windows in order and covers its drops.
LEMMA WindowsAfterReport ==
  ASSUME NEW g \in Seq(Gaps), NEW l \in Seq(Nat), NEW x \in Gaps, WindowsHold(g, l),
         x.start <= x.end,
         g # <<>> => x.start >= g[Len(g)].end,
         \A i \in 1..ReportedBy(g, Len(g)) + x.dropped : l[i] <= x.end
  PROVE  WindowsHold(Append(g, x), l)
<1> DEFINE h == Append(g, x)
<1>1. /\ h \in Seq(Gaps) /\ Len(g) \in Nat /\ Len(h) = Len(g) + 1
      /\ \A k \in 1..Len(g) : h[k] = g[k]
      /\ h[Len(g) + 1] = x
  OBVIOUS
<1>2. /\ \A n \in 0..Len(g) : ReportedBy(h, n) = ReportedBy(g, n)
      /\ ReportedBy(h, Len(g) + 1) = ReportedBy(g, Len(g)) + x.dropped
  BY ReportedAppend
<1>3. ReportedBy(g, Len(g)) \in Nat
  BY <1>1, ReportedGrows
<1> HIDE DEF h
<1>4. ASSUME NEW k \in 1..Len(h)
      PROVE  /\ h[k].start <= h[k].end
             /\ k > 1 => h[k].start >= h[k - 1].end
             /\ \A i \in ReportedBy(h, k - 1) + 1..ReportedBy(h, k) : l[i] <= h[k].end
  <2>1. CASE k \in 1..Len(g)
    <3>1. /\ h[k] = g[k]
          /\ ReportedBy(h, k) = ReportedBy(g, k)
          /\ ReportedBy(h, k - 1) = ReportedBy(g, k - 1)
      BY <1>1, <1>2, <2>1
    <3>2. k > 1 => h[k - 1] = g[k - 1]
      <4>1. k > 1 => k - 1 \in 1..Len(g)
        BY <1>1, <2>1
      <4>2. QED
        BY <1>1, <4>1
    <3>3. QED
      BY <2>1, <3>1, <3>2 DEF WindowsHold
  <2>2. CASE k = Len(g) + 1
    <3>1. /\ h[k] = x /\ k - 1 = Len(g)
          /\ ReportedBy(h, k) = ReportedBy(g, Len(g)) + x.dropped
          /\ ReportedBy(h, k - 1) = ReportedBy(g, Len(g))
      BY <1>1, <1>2, <2>2
    <3>2. k > 1 => h[k - 1] = g[Len(g)] /\ g # <<>>
      BY <1>1, <2>2
    <3>3. \A i \in ReportedBy(h, k - 1) + 1..ReportedBy(h, k) : l[i] <= h[k].end
      BY <1>3, <3>1 DEF Gaps
    <3>4. QED
      BY <3>1, <3>2, <3>3
  <2>3. QED
    BY <1>1, <2>1, <2>2
<1>5. QED
  BY <1>4 DEF WindowsHold, h

-----------------------------------------------------------------------------
\* A poll knows of no drop later than its time, although the counter is read
\* before the clock: what is dropped in between is left to the next poll.
Polling ==
  /\ total <= Len(lost)
  /\ pc = "clock" => stats.drops <= total
  /\ stats.drops <= Len(lost)
  /\ \A i \in 1..Len(lost) : lost[i] <= now
  /\ \A i \in 1..stats.drops : lost[i] <= stats.polled
  /\ stats.started <= stats.polled
  /\ stats.polled <= now

LEMMA PollingInit == Init => Polling
BY DEF Init, Polling

\* A step that may drop events but polls nothing.
LEMMA PollingFrame ==
  ASSUME Types, Polling, lost' \in {lost, Append(lost, now)}, now' \in Nat, now' >= now,
         total' = total, pc' = "clock" => pc = "clock",
         stats'.drops = stats.drops, stats'.polled = stats.polled,
         stats'.started = stats.started
  PROVE  Polling'
<1>1. /\ lost \in Seq(Nat) /\ now \in Nat /\ total \in Nat /\ Len(lost) \in Nat
      /\ stats.drops \in Nat /\ stats.polled \in Nat /\ stats.started \in Nat
  BY DEF Types, Stats
<1>2. /\ Len(lost') \in Nat /\ Len(lost) <= Len(lost')
      /\ \A i \in 1..Len(lost') : lost'[i] = IF i <= Len(lost) THEN lost[i] ELSE now
      /\ \A i \in 1..Len(lost) : lost[i] \in Nat
  <2>1. CASE lost' = lost
    BY <1>1, <2>1
  <2>2. CASE lost' = Append(lost, now)
    BY <1>1, <2>2
  <2>3. QED
    BY <2>1, <2>2
<1>3. \A i \in 1..Len(lost') : lost'[i] <= now'
  BY <1>1, <1>2 DEF Polling
<1>4. ASSUME NEW i \in 1..stats.drops PROVE lost'[i] <= stats.polled
  <2>1. stats.drops <= Len(lost) /\ lost[i] <= stats.polled
    BY DEF Polling
  <2>2. i \in 1..Len(lost') /\ i <= Len(lost)
    BY <1>1, <1>2, <2>1
  <2>3. QED
    BY <1>2, <2>1, <2>2
<1>5. total <= Len(lost') /\ stats.drops <= Len(lost') /\ stats.polled <= now'
  BY <1>1, <1>2 DEF Polling
<1>6. QED
  BY <1>3, <1>4, <1>5 DEF Polling

LEMMA PollingStep == Types /\ Polling /\ [Next]_vars => Polling'
<1> SUFFICES ASSUME Types, Polling, [Next]_vars PROVE Polling'
  OBVIOUS
<1> USE DEF kernelVars, readerVars, registryVars, taskVars
<1>1. now \in Nat /\ now >= now
  BY DEF Types
<1>2. ASSUME NEW hit \in Hits, Hook(hit) PROVE Polling'
  <2>1. lost' \in {lost, Append(lost, now)}
    BY <1>2 DEF Hook, output, count_ring_buffer_drop
  <2>2. UNCHANGED <<now, total, pc, stats>>
    BY <1>2 DEF Hook, Kernel
  <2>3. QED
    BY <1>1, <2>1, <2>2, PollingFrame
<1>3. ASSUME NEW t \in Threads, NEW failed \in BOOLEAN, NEW seen \in {TRUE, ~MissedExits},
             handle_exit(t, failed, seen)
      PROVE  Polling'
  <2>1. lost' \in {lost, Append(lost, now)}
    BY <1>3 DEF handle_exit, output, count_ring_buffer_drop
  <2>2. UNCHANGED <<now, total, pc, stats>>
    BY <1>3 DEF handle_exit, Kernel
  <2>3. QED
    BY <1>1, <2>1, <2>2, PollingFrame
<1>4. ASSUME Tick PROVE Polling'
  BY <1>1, <1>4, PollingFrame DEF Tick
<1>5. ASSUME Taken PROVE Polling'
  <2>1. CountedOnce
    BY <1>5, TakenIsCounted
  <2>2. QED
    BY <1>1, <2>1, PollingFrame DEF CountedOnce
<1>6. ASSUME spawn_reader \/ record_drop_poll PROVE Polling'
  <2>1. /\ lost \in Seq(Nat) /\ now \in Nat /\ total \in Nat /\ Len(lost) \in Nat
        /\ stats.drops \in Nat /\ stats.polled \in Nat /\ stats.started \in Nat
    BY DEF Types, Stats
  <2>2. lost' = lost /\ now' = now /\ stats'.polled = now /\ pc' # "clock"
    BY <1>6, PollEffect DEF spawn_reader, record_drop_poll, Reader
  <2>3. /\ stats'.drops \in {stats.drops, total} /\ total' \in {0, total}
        /\ stats'.started \in {stats.started, now}
    BY <1>6, PollEffect DEF spawn_reader, record_drop_poll
  <2>4. stats'.drops \in Nat /\ stats'.drops <= Len(lost) /\ total' <= Len(lost)
    BY <2>1, <2>3 DEF Polling
  <2>5. stats'.started <= now
    BY <2>1, <2>3 DEF Polling
  <2>6. \A i \in 1..stats'.drops : lost[i] <= now
    BY <2>1, <2>4 DEF Polling
  <2>7. QED
    BY <1>1, <2>2, <2>4, <2>5, <2>6 DEF Polling
<1>7. ASSUME ReadCounter PROVE Polling'
  <2>1. /\ total' = Len(lost) /\ UNCHANGED <<lost, now, stats>>
        /\ Len(lost) \in Nat
    BY <1>7 DEF ReadCounter, Reader, Types
  <2>2. QED
    BY <2>1 DEF Polling
<1>8. ASSUME \/ \E hit \in Hits, t \in Threads : handle_enter(t, hit)
             \/ Check \/ DrainEnds \/ CounterFails \/ ClockFails \/ Send \/ Elapse
             \/ detach \/ Unload \/ Close \/ observability_stats \/ Report
             \/ UNCHANGED vars
      PROVE  Polling'
  <2>1. /\ UNCHANGED <<lost, now, total, stats>>
        /\ pc' = "clock" => pc = "clock"
    BY <1>8 DEF handle_enter, Kernel, Check, DrainEnds, CounterFails, ClockFails, Send,
         Elapse, Reader, detach, Unload, Close, observability_stats, Report, Task, vars
  <2>2. QED
    BY <1>1, <2>1, PollingFrame
<1>9. QED
  BY <1>2, <1>3, <1>4, <1>5, <1>6, <1>7, <1>8, StepCases

\* The counters the task remembers are those of its last look.  Without them it
\* starts from nothing, which is right as long as nothing was reported: they are
\* forgotten only when the probe has gone for good.
Looking ==
  /\ \A p, q \in previous : p = q
  /\ \A p \in previous :
       /\ p.drops <= stats.drops /\ p.polled <= stats.polled
       /\ ReportedBy(gaps, Len(gaps)) <= p.drops
       /\ ~closed => ReportedBy(gaps, Len(gaps)) = p.drops
       /\ gaps # <<>> => gaps[Len(gaps)].end <= p.polled
  /\ ReportedBy(gaps, Len(gaps)) <= stats.drops
  /\ previous = {} /\ gaps # <<>> => ~attached /\ task # "reporting"
  /\ pc = "new" => ~attached /\ gaps = <<>> /\ task # "reporting"
  /\ WindowsHold(gaps, lost)

LEMMA LookingInit == Init => Looking
<1> SUFFICES ASSUME Init PROVE Looking
  OBVIOUS
<1>1. gaps = <<>> /\ Len(gaps) = 0 /\ 1..0 = {}
  BY DEF Init
<1>2. ReportedBy(gaps, 0) = 0
  BY <1>1, WeightOfEmpty DEF ReportedBy
<1>3. QED
  BY <1>1, <1>2 DEF Init, Looking, WindowsHold

\* What the task relies on while others move.
LEMMA LookingFrame ==
  ASSUME Types, Types', Looking, UNCHANGED <<gaps, previous, task>>,
         closed => closed',
         attached' => attached \/ gaps = <<>>,
         pc' = "new" => pc = "new" /\ ~attached',
         stats'.drops >= stats.drops, stats'.polled >= stats.polled,
         WindowsHold(gaps, lost')
  PROVE  Looking'
<1>1. /\ stats.drops \in Nat /\ stats.polled \in Nat
      /\ stats'.drops \in Nat /\ stats'.polled \in Nat
      /\ \A p \in previous : p.drops \in Nat /\ p.polled \in Nat
      /\ Len(gaps) \in Nat
  <2>1. stats \in Stats /\ stats' \in Stats /\ gaps \in Seq(Gaps)
    BY DEF Types
  <2>2. \A p \in previous : p \in Looks
    BY DEF Types
  <2>3. QED
    BY <2>1, <2>2 DEF Stats, Looks
<1>2. ReportedBy(gaps, Len(gaps)) \in Nat
  <2>1. gaps \in Seq(Gaps) /\ Len(gaps) \in 0..Len(gaps)
    BY <1>1 DEF Types
  <2>2. QED
    BY <2>1, ReportedGrows
<1>3. ASSUME NEW p \in previous
      PROVE  p.drops <= stats'.drops /\ p.polled <= stats'.polled
  BY <1>1 DEF Looking
<1>4. ReportedBy(gaps, Len(gaps)) <= stats'.drops
  BY <1>1, <1>2 DEF Looking
<1>5. QED
  BY <1>3, <1>4 DEF Looking

LEMMA Typed ==
  ASSUME Types
  PROVE  /\ stats.drops \in Nat /\ stats.polled \in Nat /\ now \in Nat /\ total \in Nat
         /\ gaps \in Seq(Gaps) /\ Len(gaps) \in Nat
         /\ lost \in Seq(Nat) /\ Len(lost) \in Nat
         /\ gaps # <<>> => gaps[Len(gaps)].end \in Nat
         /\ ReportedBy(gaps, Len(gaps)) \in Nat
<1>1. /\ stats.drops \in Nat /\ stats.polled \in Nat /\ now \in Nat /\ total \in Nat
      /\ gaps \in Seq(Gaps) /\ Len(gaps) \in Nat
      /\ lost \in Seq(Nat) /\ Len(lost) \in Nat
  BY DEF Types, Stats
<1>2. gaps # <<>> => Len(gaps) \in 1..Len(gaps)
  BY <1>1
<1>3. gaps # <<>> => gaps[Len(gaps)] \in Gaps
  BY <1>1, <1>2, ElementOfSeq
<1>4. gaps # <<>> => gaps[Len(gaps)].end \in Nat
  BY <1>3 DEF Gaps
<1>5. ReportedBy(gaps, Len(gaps)) \in Nat
  BY <1>1, ReportedGrows
<1>6. QED
  BY <1>1, <1>4, <1>5

\* What a report starts from.
LEMMA ReportBase ==
  ASSUME Types, Polling, Looking, task = "reporting"
  PROVE  /\ Previous \in Looks
         /\ Previous.drops <= stats.drops /\ Previous.polled <= stats.polled
         /\ ReportedBy(gaps, Len(gaps)) <= Previous.drops
         /\ ~closed => ReportedBy(gaps, Len(gaps)) = Previous.drops
         /\ gaps # <<>> => gaps[Len(gaps)].end <= Previous.polled
<1>1. Previous \in Looks
  BY LookTypes
<1>2. CASE previous = {}
  <2>1. gaps = <<>> /\ Len(gaps) = 0 /\ 1..0 = {}
    BY <1>2 DEF Looking
  <2>2. ReportedBy(gaps, Len(gaps)) = 0
    BY <2>1, WeightOfEmpty DEF ReportedBy
  <2>3. Previous.drops = 0 /\ Previous.polled = stats.started
    BY <1>2 DEF Previous
  <2>4. stats \in Stats /\ stats.started <= stats.polled
    BY DEF Types, Polling
  <2>5. QED
    BY <1>1, <2>1, <2>2, <2>3, <2>4 DEF Stats
<1>3. CASE previous # {}
  <2>1. Previous \in previous
    BY <1>3 DEF Previous
  <2>2. QED
    BY <1>1, <2>1 DEF Looking
<1>4. QED
  BY <1>2, <1>3

LEMMA ReportIsExact ==
  ASSUME Types, Polling, Looking, Report
  PROVE  Looking'
<1> DEFINE new == update_probe_counters
           x == ring_buffer_gap_records(new)
           sum == ReportedBy(gaps, Len(gaps))
<1>1. /\ task = "reporting" /\ UNCHANGED <<stats, closed, attached, pc, lost>>
      /\ task' # "reporting"
      /\ gaps' = IF new.drops > 0 /\ ~closed THEN Append(gaps, x) ELSE gaps
      /\ previous' = {[drops |-> stats.drops, errors |-> stats.parse_errors,
                       polled |-> stats.polled]}
  BY DEF Report, Remember, Task, readerVars, kernelVars, registryVars
<1>2. /\ Previous \in Looks
      /\ Previous.drops <= stats.drops /\ Previous.polled <= stats.polled
      /\ sum <= Previous.drops
      /\ ~closed => sum = Previous.drops
      /\ gaps # <<>> => gaps[Len(gaps)].end <= Previous.polled
  BY <1>1, ReportBase
<1>3. /\ stats.drops \in Nat /\ stats.polled \in Nat /\ gaps \in Seq(Gaps)
      /\ Previous.drops \in Nat /\ Previous.polled \in Nat /\ lost \in Seq(Nat)
      /\ Len(gaps) \in Nat
  BY <1>2 DEF Types, Stats, Looks
<1>4. sum \in Nat
  BY <1>3, ReportedGrows
<1>5. /\ new.drops = stats.drops - Previous.drops /\ new.start = Previous.polled
      /\ new.drops \in Nat
  BY <1>2, <1>3 DEF update_probe_counters, counter_delta
<1>6. /\ x.dropped = new.drops /\ x.start = Previous.polled /\ x.end = stats.polled
      /\ x \in Gaps
  BY <1>3, <1>5 DEF ring_buffer_gap_records, Gaps
<1> HIDE DEF new, x, sum
<1>7. /\ \A p, q \in previous' : p = q
      /\ previous' # {}
      /\ \A p \in previous' : p.drops = stats.drops /\ p.polled = stats.polled
  BY <1>1
<1>8. CASE new.drops > 0 /\ ~closed
  <2>1. gaps' = Append(gaps, x) /\ Len(gaps') = Len(gaps) + 1 /\ gaps'[Len(gaps')] = x
    BY <1>1, <1>3, <1>6, <1>8
  <2>2. ReportedBy(gaps', Len(gaps')) = stats.drops /\ sum + x.dropped = stats.drops
    <3>1. ReportedBy(Append(gaps, x), Len(gaps) + 1) = sum + x.dropped
      BY <1>3, <1>6, ReportedAppend DEF sum
    <3>2. sum + x.dropped = stats.drops
      BY <1>2, <1>3, <1>5, <1>6, <1>8
    <3>3. QED
      BY <2>1, <3>1, <3>2
  <2>3. WindowsHold(gaps', lost)
    <3>1. WindowsHold(gaps, lost) /\ \A i \in 1..stats.drops : lost[i] <= stats.polled
      BY DEF Looking, Polling
    <3>2. \A i \in 1..sum + x.dropped : lost[i] <= x.end
      BY <1>6, <2>2, <3>1
    <3>3. x.start <= x.end /\ (gaps # <<>> => x.start >= gaps[Len(gaps)].end)
      <4>1. gaps # <<>> => gaps[Len(gaps)].end \in Nat
        BY Typed
      <4>2. QED
        BY <1>2, <1>3, <1>6, <4>1
    <3>4. WindowsHold(Append(gaps, x), lost)
      BY <1>3, <1>6, <3>1, <3>2, <3>3, WindowsAfterReport DEF sum
    <3>5. QED
      BY <2>1, <3>4
  <2>4. gaps'[Len(gaps')].end = stats.polled
    BY <1>6, <2>1
  <2>5. pc # "new"
    BY <1>1 DEF Looking
  <2>6. \A p \in previous' :
          /\ p.drops <= stats'.drops /\ p.polled <= stats'.polled
          /\ ReportedBy(gaps', Len(gaps')) <= p.drops
          /\ ReportedBy(gaps', Len(gaps')) = p.drops
          /\ gaps'[Len(gaps')].end <= p.polled
    BY <1>1, <1>3, <1>7, <2>2, <2>4
  <2>7. ReportedBy(gaps', Len(gaps')) <= stats'.drops
    BY <1>1, <1>3, <2>2
  <2>8. WindowsHold(gaps', lost') /\ pc' # "new"
    BY <1>1, <2>3, <2>5
  <2>9. QED
    BY <1>7, <2>6, <2>7, <2>8 DEF Looking
<1>9. CASE ~(new.drops > 0 /\ ~closed)
  <2>1. gaps' = gaps
    BY <1>1, <1>9
  <2>2. sum <= stats.drops /\ (~closed => sum = stats.drops)
    BY <1>2, <1>3, <1>4, <1>5, <1>9
  <2>3. gaps # <<>> => gaps[Len(gaps)].end <= stats.polled
    <3>1. gaps # <<>> => gaps[Len(gaps)].end \in Nat
      BY Typed
    <3>2. QED
      BY <1>2, <1>3, <3>1
  <2>4. pc # "new" /\ WindowsHold(gaps, lost)
    BY <1>1 DEF Looking
  <2>5. \A p \in previous' :
          /\ p.drops <= stats'.drops /\ p.polled <= stats'.polled
          /\ ReportedBy(gaps', Len(gaps')) <= p.drops
          /\ ~closed' => ReportedBy(gaps', Len(gaps')) = p.drops
          /\ gaps' # <<>> => gaps'[Len(gaps')].end <= p.polled
    BY <1>1, <1>3, <1>7, <2>1, <2>2, <2>3 DEF sum
  <2>6. ReportedBy(gaps', Len(gaps')) <= stats'.drops
    BY <1>1, <1>3, <2>1, <2>2 DEF sum
  <2>7. WindowsHold(gaps', lost') /\ pc' # "new"
    BY <1>1, <2>1, <2>4
  <2>8. QED
    BY <1>7, <2>5, <2>6, <2>7 DEF Looking
<1>10. QED
  BY <1>8, <1>9

LEMMA LookingStep ==
  Types /\ Types' /\ Polling /\ Looking /\ [Next]_vars => Looking'
<1> SUFFICES ASSUME Types, Types', Polling, Looking, [Next]_vars PROVE Looking'
  OBVIOUS
<1> USE DEF kernelVars, readerVars, registryVars, taskVars
<1>1. /\ stats.drops >= stats.drops /\ stats.polled >= stats.polled
      /\ WindowsHold(gaps, lost)
  BY Typed DEF Looking
<1>2. WindowsHold(gaps, Append(lost, now))
  <2>1. ReportedBy(gaps, Len(gaps)) <= Len(lost)
    BY Typed DEF Looking, Polling
  <2>2. QED
    BY <1>1, <2>1, Typed, WindowsAfterDrop
<1>3. ASSUME NEW hit \in Hits, Hook(hit) PROVE Looking'
  <2>1. lost' \in {lost, Append(lost, now)}
    BY <1>3 DEF Hook, output, count_ring_buffer_drop
  <2>2. UNCHANGED <<gaps, previous, task, closed, attached, pc, stats>>
    BY <1>3 DEF Hook, Kernel
  <2>3. QED
    BY <1>1, <1>2, <2>1, <2>2, LookingFrame DEF Looking
<1>4. ASSUME NEW t \in Threads, NEW failed \in BOOLEAN, NEW seen \in {TRUE, ~MissedExits},
             handle_exit(t, failed, seen)
      PROVE  Looking'
  <2>1. lost' \in {lost, Append(lost, now)}
    BY <1>4 DEF handle_exit, output, count_ring_buffer_drop
  <2>2. UNCHANGED <<gaps, previous, task, closed, attached, pc, stats>>
    BY <1>4 DEF handle_exit, Kernel
  <2>3. QED
    BY <1>1, <1>2, <2>1, <2>2, LookingFrame DEF Looking
<1>5. ASSUME Taken PROVE Looking'
  <2>1. CountedOnce
    BY <1>5, TakenIsCounted
  <2>2. QED
    BY <1>1, <2>1, LookingFrame DEF CountedOnce
<1>6. ASSUME spawn_reader \/ record_drop_poll PROVE Looking'
  <2>1. /\ UNCHANGED <<gaps, previous, task, closed, lost>>
        /\ pc' # "new" /\ (attached' => attached \/ pc = "new")
    BY <1>6 DEF spawn_reader, record_drop_poll, Reader
  <2>2. stats'.polled >= stats.polled
    <3>1. stats'.polled = now /\ stats.polled <= now /\ stats.polled \in Nat /\ now \in Nat
      BY <1>6, PollEffect DEF Polling, Types, Stats
    <3>2. QED
      BY <3>1
  <2>3. stats'.drops >= stats.drops
    <3>1. CASE spawn_reader
      BY <1>1, <3>1, PollEffect
    <3>2. CASE record_drop_poll
      <4>1. stats'.drops = total /\ stats.drops <= total
        BY <3>2, PollEffect DEF record_drop_poll, Reader, Polling
      <4>2. stats.drops \in Nat /\ total \in Nat
        BY DEF Types, Stats
      <4>3. QED
        BY <4>1, <4>2
    <3>3. QED
      BY <1>6, <3>1, <3>2
  <2>4. attached' => attached \/ gaps = <<>>
    BY <2>1 DEF Looking
  <2>5. QED
    BY <1>1, <2>1, <2>2, <2>3, <2>4, LookingFrame
<1>7. ASSUME Close PROVE Looking'
  <2>1. /\ UNCHANGED <<gaps, previous, task, attached, pc, stats, lost>>
        /\ closed => closed'
    BY <1>7 DEF Close
  <2>2. QED
    BY <1>1, <2>1, LookingFrame DEF Looking
<1>8. ASSUME \/ Tick \/ \E hit \in Hits, t \in Threads : handle_enter(t, hit)
             \/ Check \/ DrainEnds \/ ReadCounter \/ CounterFails \/ ClockFails \/ Send
             \/ Elapse \/ detach \/ Unload \/ UNCHANGED vars
      PROVE  Looking'
  <2>1. /\ UNCHANGED <<gaps, previous, task, closed, stats, lost>>
        /\ pc' = "new" => pc = "new"
        /\ attached' => attached
    BY <1>8 DEF Tick, handle_enter, Kernel, Check, DrainEnds, ReadCounter, CounterFails,
         ClockFails, Send, Elapse, Reader, detach, Unload, vars
  <2>2. pc' = "new" => pc = "new" /\ ~attached'
    BY <2>1 DEF Looking
  <2>3. QED
    BY <1>1, <2>1, <2>2, LookingFrame
<1>9. ASSUME observability_stats PROVE Looking'
  BY <1>9 DEF observability_stats, Task, Looking
<1>10. QED
  BY <1>3, <1>4, <1>5, <1>6, <1>7, <1>8, <1>9, ReportIsExact, StepCases

-----------------------------------------------------------------------------
\* The bounds of TypeOK.  A cycle's records are among the items it drained.
Bounds ==
  /\ now <= MaxTime
  /\ Len(ring) <= RingMax
  /\ IsFiniteSet(in_flight) /\ Cardinality(in_flight) <= InFlightMax
  /\ drained <= MaxDrain /\ records <= MaxDrain
  /\ pc = "drain" => records <= drained

LEMMA BoundsInit == Init => Bounds
<1> SUFFICES ASSUME Init PROVE Bounds
  OBVIOUS
<1>1. IsFiniteSet({}) /\ Cardinality({}) = 0
  BY FS_EmptySet
<1>2. MaxTime \in Nat /\ RingMax \in Nat /\ InFlightMax \in Nat /\ MaxDrain \in Nat
  BY ReaderAssumption
<1>3. QED
  BY <1>1, <1>2 DEF Init, Bounds

\* A full map of opens stays as full as it is.
LEMMA InsertedBound ==
  ASSUME NEW keys, NEW k, IsFiniteSet(keys), Cardinality(keys) <= InFlightMax,
         NEW more \in Inserted(keys, k)
  PROVE  IsFiniteSet(more) /\ Cardinality(more) <= InFlightMax
<1>1. InFlightMax \in Nat /\ Cardinality(keys) \in Nat
  BY ReaderAssumption, FS_CardinalityType
<1>2. CASE k \in keys
  <2>1. more = keys
    BY <1>2 DEF Inserted
  <2>2. QED
    BY <2>1
<1>3. CASE k \notin keys /\ Cardinality(keys) < InFlightMax
  <2>1. more = keys \cup {k}
    BY <1>3 DEF Inserted
  <2>2. IsFiniteSet(more) /\ Cardinality(more) = Cardinality(keys) + 1
    BY <1>3, <2>1, FS_AddElement
  <2>3. QED
    BY <1>1, <1>3, <2>2
<1>4. CASE k \notin keys /\ ~(Cardinality(keys) < InFlightMax)
  <2>1. PICK v \in keys : more = (keys \ {v}) \cup {k}
    BY <1>4 DEF Inserted
  <2>2. IsFiniteSet(keys \ {v}) /\ Cardinality(keys \ {v}) = Cardinality(keys) - 1
    BY FS_RemoveElement
  <2>3. k \notin keys \ {v}
    BY <1>4
  <2>4. IsFiniteSet(more) /\ Cardinality(more) = Cardinality(keys \ {v}) + 1
    BY <2>1, <2>2, <2>3, FS_AddElement
  <2>5. QED
    BY <1>1, <2>2, <2>4
<1>5. QED
  BY <1>2, <1>3, <1>4

LEMMA BoundsStep == Types /\ Bounds /\ [Next]_vars => Bounds'
<1> SUFFICES ASSUME Types, Bounds, [Next]_vars PROVE Bounds'
  OBVIOUS
<1> USE DEF kernelVars, readerVars, registryVars, taskVars
<1>0. /\ MaxTime \in Nat /\ RingMax \in Nat /\ InFlightMax \in Nat /\ MaxDrain \in Nat
      /\ now \in Nat /\ drained \in Nat /\ records \in Nat
      /\ ring \in Seq(Events) /\ Len(ring) \in Nat
  BY ReaderAssumption DEF Types
<1>1. ASSUME NEW hit \in Hits, Hook(hit) PROVE Bounds'
  <2>1. Len(ring') <= RingMax
    BY <1>0, <1>1 DEF Hook, output, Bounds
  <2>2. QED
    BY <1>1, <2>1 DEF Hook, Kernel, Bounds
<1>2. ASSUME NEW hit \in Hits, NEW t \in Threads, handle_enter(t, hit) PROVE Bounds'
  <2>1. IsFiniteSet(in_flight') /\ Cardinality(in_flight') <= InFlightMax
    BY <1>2, InsertedBound DEF handle_enter, Bounds
  <2>2. QED
    BY <1>2, <2>1 DEF handle_enter, Kernel, Bounds
<1>3. ASSUME NEW t \in Threads, NEW failed \in BOOLEAN, NEW seen \in {TRUE, ~MissedExits},
             handle_exit(t, failed, seen)
      PROVE  Bounds'
  <2>1. Len(ring') <= RingMax
    BY <1>0, <1>3 DEF handle_exit, output, Bounds
  <2>2. in_flight' \in SUBSET in_flight
    BY <1>3 DEF handle_exit
  <2>3. IsFiniteSet(in_flight') /\ Cardinality(in_flight') <= Cardinality(in_flight)
        /\ Cardinality(in_flight) \in Nat /\ Cardinality(in_flight') \in Nat
    BY <2>2, FS_Subset, FS_CardinalityType DEF Bounds
  <2>4. Cardinality(in_flight') <= InFlightMax
    BY <1>0, <2>3 DEF Bounds
  <2>5. QED
    BY <1>3, <2>1, <2>3, <2>4 DEF handle_exit, Kernel, Bounds
<1>4. ASSUME Tick PROVE Bounds'
  BY <1>0, <1>4 DEF Tick, Bounds
<1>5. ASSUME Taken PROVE Bounds'
  <2>1. CountedOnce
    BY <1>5, TakenIsCounted
  <2>2. Len(ring') <= RingMax
    BY <1>0, <2>1 DEF CountedOnce, Bounds
  <2>3. PICK n \in 0..1 : records' = records + n
    BY <2>1 DEF CountedOnce
  <2>4. drained' = drained + 1 /\ drained < MaxDrain /\ records <= drained
    BY <2>1 DEF CountedOnce, Bounds
  <2>5. drained' <= MaxDrain /\ records' <= drained' /\ records' <= MaxDrain
    BY <1>0, <2>3, <2>4
  <2>6. QED
    BY <2>1, <2>2, <2>5 DEF CountedOnce, Bounds
<1>6. ASSUME Check \/ DrainEnds \/ Send PROVE Bounds'
  BY <1>0, <1>6 DEF Check, DrainEnds, Send, Reader, Bounds
<1>7. ASSUME \/ spawn_reader \/ ReadCounter \/ CounterFails \/ record_drop_poll
             \/ ClockFails \/ Elapse \/ detach \/ Unload \/ Close
             \/ observability_stats \/ Report \/ UNCHANGED vars
      PROVE  Bounds'
  BY <1>7 DEF spawn_reader, ReadCounter, CounterFails, record_drop_poll, ClockFails,
       Elapse, Reader, detach, Unload, Close, observability_stats, Report, Task, vars,
       Bounds
<1>8. QED
  BY <1>1, <1>2, <1>3, <1>4, <1>5, <1>6, <1>7, StepCases

-----------------------------------------------------------------------------
(* Theorems *)

\* The inductive invariant.
Inv == Types /\ Bounds /\ Counting /\ Polling /\ Looking

LEMMA Invariance == Spec => []Inv
<1>1. Init => Inv
  BY TypesInit, BoundsInit, CountingInit, PollingInit, LookingInit DEF Inv
<1>2. Inv /\ [Next]_vars => Inv'
  BY TypesStep, BoundsStep, CountingStep, PollingStep, LookingStep DEF Inv
<1>3. QED
  BY <1>1, <1>2, PTL DEF Spec

\* The ring, the map of opens in flight and a drain cycle stay within their
\* bounds, and the reporting task remembers one look.
THEOREM TypeCorrect == Spec => []TypeOK
<1>1. Inv => TypeOK
  <2> SUFFICES ASSUME Inv PROVE TypeOK
    OBVIOUS
  <2>1. now \in 0..MaxTime /\ drained \in 0..MaxDrain /\ records \in 0..MaxDrain
    BY ReaderAssumption DEF Inv, Types, Bounds
  <2>2. Len(lost) <= fired
    <3>1. Len(ring) \in Nat /\ Len(lost) \in Nat
      BY DEF Inv, Types
    <3>2. Seen(stats) \in Nat
      BY DEF Inv, Types, Stats, Seen
    <3>3. fired = Len(ring) + Len(lost) + Seen(stats)
      BY DEF Inv, Counting
    <3>4. QED
      BY <3>1, <3>2, <3>3
  <2>3. Cardinality(previous) <= 1
    <3>1. CASE previous = {}
      BY <3>1, FS_EmptySet
    <3>2. ASSUME NEW p \in previous PROVE Cardinality(previous) <= 1
      <4>1. previous = {p} /\ Cardinality({p}) = 1
        BY FS_Singleton DEF Inv, Looking
      <4>2. QED
        BY <4>1
    <3>3. QED
      BY <3>1, <3>2
  <2>4. QED
    BY <2>1, <2>2, <2>3 DEF Inv, Types, Bounds, TypeOK
<1>2. QED
  BY <1>1, Invariance, PTL

\* Every event a program outputs is in the ring, counted as dropped or counted
\* by the reader, and the reader's records are stored and handed over.
THEOREM EventsAreCounted == Spec => []EveryEventCounted
<1>1. Inv => EveryEventCounted
  BY CountingCounts DEF Inv
<1>2. QED
  BY <1>1, Invariance, PTL

\* Gap reports add up to polled drops, follow one another, and end after every
\* drop they are about, whatever happens between counter, clock and report.
THEOREM GapReportsAreExact == Spec => []GapsAreExact
<1>1. Inv => GapsAreExact
  <2> SUFFICES ASSUME Inv PROVE GapsAreExact
    OBVIOUS
  <2>1. /\ ReportedBy(gaps, Len(gaps)) <= stats.drops /\ stats.drops <= Len(lost)
        /\ WindowsHold(gaps, lost)
    BY DEF Inv, Looking, Polling
  <2>2. ASSUME ~closed, previous # {}
        PROVE  ReportedBy(gaps, Len(gaps)) = Previous.drops
    <3>1. Previous \in previous
      BY <2>2 DEF Previous
    <3>2. QED
      BY <2>2, <3>1 DEF Inv, Looking
  <2>3. QED
    BY <2>1, <2>2, ReportedIs DEF GapsAreExact, WindowsHold
<1>2. QED
  BY <1>1, Invariance, PTL

\* A failed open is reported with its own path, for any number of threads and
\* any size of the map they share, as long as the kernel runs the program of
\* every exit.
THEOREM AttemptsNameTheirPaths ==
  ASSUME ~MissedExits
  PROVE  Spec => []AttemptNamesItsPath
<1>1. Init => Types /\ PathsKept
  BY TypesInit, PathsInit
<1>2. Types /\ PathsKept /\ [Next]_vars => (Types /\ PathsKept)'
  BY TypesStep, PathsStep
<1>3. PathsKept => AttemptNamesItsPath
  BY DEF PathsKept
<1>4. QED
  BY <1>1, <1>2, <1>3, PTL DEF Spec
=============================================================================
