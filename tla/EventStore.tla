----------------------------- MODULE EventStore -----------------------------
(***************************************************************************)
(* The local store of recent occurrences, jalki/src/store.rs: one ring     *)
(* buffer per probe name, and the queries over it.  Operators on the       *)
(* buffer value; IpcConnection is their user.                              *)
(*                                                                         *)
(* An occurrence is its id.  The id is a ULID: the millisecond it was made *)
(* in, then random bits, compared as a whole.  Of the filter only the time *)
(* window and the limit are kept; the others select by fields.             *)
(***************************************************************************)
EXTENDS Integers, Sequences, SequencesExt

CONSTANTS
  Capacity,   \* of a probe's ring buffer
  PerMs,      \* the values that the random bits of an id can have
  Window,     \* EventFilter::last_seconds, in clock units
  Limit       \* EventFilter::limit

ASSUME StoreAssumption ==
  /\ {Capacity, PerMs, Limit} \subseteq Nat \ {0}
  /\ Window \in Nat

Id(ms, random) == ms * PerMs + random
MsOf(id) == id \div PerMs

EmptyBuffer == [events |-> <<>>, head |-> 0, count |-> 0]

\* ProbeBuffer::push.  Sequences count from 1, the code from 0.
push(b, id) ==
  IF Len(b.events) < Capacity
  THEN [b EXCEPT !.events = Append(@, id), !.count = @ + 1]
  ELSE [events |-> [b.events EXCEPT ![b.head + 1] = id],
        head |-> (b.head + 1) % Capacity,
        count |-> b.count + 1]

\* ProbeBuffer::iter, oldest first.
iter(b) ==
  LET cap == Len(b.events)
      start == IF b.count >= cap THEN b.head ELSE 0
  IN  [i \in 1..cap |-> b.events[((start + i - 1) % cap) + 1]]

\* Mutant: the newest ones are kept.
filter_events_newest(ids, now) ==
  LET kept == SelectSeq(ids, LAMBDA id : MsOf(id) + Window >= now)
  IN  IF Len(kept) <= Limit THEN kept
      ELSE SubSeq(kept, Len(kept) - Limit + 1, Len(kept))

\* filter_events: the oldest Limit of those in the window.
filter_events(ids, now) ==
  LET kept == SelectSeq(ids, LAMBDA id : MsOf(id) + Window >= now)
  IN  SubSeq(kept, 1, IF Len(kept) < Limit THEN Len(kept) ELSE Limit)

query(b, now) == filter_events(iter(b), now)

\* query_since: last is -1 before the first event.
query_since(b, last, now) ==
  filter_events(SelectSeq(iter(b), LAMBDA id : id > last), now)
=============================================================================
