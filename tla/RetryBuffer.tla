----------------------------- MODULE RetryBuffer -----------------------------
(***************************************************************************)
(* RetryBuffer of jalki-evidence/src/retry.rs: a bounded FIFO of batches   *)
(* the sink has not taken yet.  Pure operators on the buffer value; the    *)
(* sink loop (SinkLoop) owns the buffer and is its only user.              *)
(*                                                                         *)
(* A batch is the set of its records.  The counters `records` and `bytes`  *)
(* are what the batches add up to: each batch leaves with the amounts it   *)
(* came with.  Time is kept as the age of each batch, capped one past the  *)
(* expiry limit: older ages are not told apart.                            *)
(***************************************************************************)
EXTENDS Naturals, Sequences, FiniteSets, SequencesExt, Weights

CONSTANTS
  Recs,         \* evidence records
  ClassOf,      \* EvidenceClass::of the record
  SizeOf,       \* its share of approx_bytes
  MaxRecords,   \* RetryBufferConfig
  MaxBatches,
  MaxBytes,
  MaxAge        \* max_age_ms, in ticks

Classes == {"reliability", "attribution"}

ASSUME RetryBufferAssumption ==
  /\ IsFiniteSet(Recs)
  /\ ClassOf \in [Recs -> Classes]
  /\ SizeOf \in [Recs -> Nat \ {0}]
  /\ {MaxRecords, MaxBatches, MaxBytes, MaxAge} \subseteq Nat

\* BufferedBatch.
Buffered == [recs : SUBSET Recs, class : Classes, age : 0..MaxAge + 1]

RecsIn(buf) == UNION {buf[i].recs : i \in DOMAIN buf}

len_records(buf) == Cardinality(RecsIn(buf))
len_bytes(buf) == Weight(RecsIn(buf), SizeOf)

OfClass(recs, class) == {r \in recs : ClassOf[r] = class}

\* The parts of a batch in the order they are buffered, empty ones left out.
split_by_class(recs, age) ==
  LET part(class) ==
        IF OfClass(recs, class) = {} THEN <<>>
        ELSE <<[recs |-> OfClass(recs, class), class |-> class, age |-> age]>>
  IN  part("reliability") \o part("attribution")

-----------------------------------------------------------------------------
(* Shedding *)

\* Mutant: the oldest batch goes first, whatever its class.
Victim_oldest(buf) == 1

\* The batch shed_one gives up: the oldest reliability batch, or the oldest.
Victim(buf) ==
  LET i == SelectInSeq(buf, LAMBDA b : b.class = "reliability")
  IN  IF i = 0 THEN 1 ELSE i

\* The buffer after k calls of shed_one, for every k.
Sheddings(buf) ==
  LET after[k \in 0..Len(buf)] ==
        IF k = 0 THEN buf ELSE RemoveAt(after[k - 1], Victim(after[k - 1]))
  IN  after

\* The loop of enqueue and shed_to: shed one by one until it fits, or empty.
\* fits holds the numbers of calls after which the buffer fits.
ShedUntil(after, fits) == after[Min(fits \cup {Len(after[0])})]

WithinLimits(buf) ==
  /\ len_records(buf) <= MaxRecords
  /\ Len(buf) <= MaxBatches
  /\ len_bytes(buf) <= MaxBytes

\* enqueue: split, push back, then shed down to the limits.  What was shed is
\* RecsIn of the argument and recs less RecsIn of the result.
enqueue(buf, recs, age) ==
  LET after == Sheddings(buf \o split_by_class(recs, age))
  IN  ShedUntil(after, {k \in DOMAIN after : WithinLimits(after[k])})

shed_to(buf, target) ==
  LET after == Sheddings(buf)
  IN  ShedUntil(after, {k \in DOMAIN after : len_bytes(after[k]) <= target})

-----------------------------------------------------------------------------
(* Expiry *)

\* drop_expired pops from the front while the front is too old.
drop_expired(buf) ==
  LET fresh == SelectInSeq(buf, LAMBDA b : b.age <= MaxAge)
  IN  IF fresh = 0 THEN <<>> ELSE SubSeq(buf, fresh, Len(buf))

\* One tick of the retry clock.
Older(age) == IF age > MaxAge THEN age ELSE age + 1
Aged(buf) == [i \in DOMAIN buf |-> [buf[i] EXCEPT !.age = Older(@)]]
=============================================================================
