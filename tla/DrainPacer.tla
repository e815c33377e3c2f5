----------------------------- MODULE DrainPacer -----------------------------
(***************************************************************************)
(* The rate limit of a draining backlog, jalki-evidence/src/retry.rs: two  *)
(* token buckets, of bytes and of batches, whose rates backpressure halves *)
(* and delivery wins back, and the flush of jalki/src/runtime.rs that asks *)
(* it before every batch.                                                  *)
(*                                                                         *)
(* The code counts in floating point.  Here a full rate is One parts, a    *)
(* second Hz ticks and a token One * Hz units, so that every quantity is   *)
(* an integer.  There is always more to send.                              *)
(***************************************************************************)
EXTENDS Integers

CONSTANTS
  max_bytes_per_sec,
  max_batches_per_sec,
  recovery_increase,    \* in parts
  min_scale,            \* in parts
  One,
  Hz,
  MaxWait,              \* the longest wait that poll asks for, in ticks
  Sizes,                \* of batches, in bytes
  MaxTime               \* bound on what is explored

ASSUME PacerAssumption ==
  /\ {max_bytes_per_sec, max_batches_per_sec, min_scale, One, Hz, MaxWait}
       \subseteq Nat \ {0}
  /\ {recovery_increase, MaxTime} \subseteq Nat
  /\ Sizes \subseteq Nat
  /\ min_scale <= One

VARIABLES
  now,
  scale,
  byte_tokens,
  batch_tokens,
  last_refill,
  front,        \* the size of the batch at the head of the backlog
  phase,        \* "ready" to ask, or "sent" and not yet answered
  until,        \* the loop does not ask before this time
  waits,        \* waits in a row for one batch, since one that was not cut short
  sent,         \* bytes sent
  batches,      \* batches sent
  burst         \* bytes sent at this instant

bucketVars == <<scale, byte_tokens, batch_tokens, last_refill>>
counters == <<sent, batches, burst>>
vars == <<now, scale, byte_tokens, batch_tokens, last_refill, front, phase,
          until, waits, sent, batches, burst>>

Token == One * Hz
Larger(a, b) == IF a > b THEN a ELSE b
Smaller(a, b) == IF a < b THEN a ELSE b
Ceil(a, b) == (a + b - 1) \div b

\* rates, in units per tick.
byte_rate == max_bytes_per_sec * scale
batch_rate == max_batches_per_sec * scale

\* One second's worth, and at least one token.
Bucket(rate) == Larger(rate * Hz, Token)

Refilled(tokens, rate) ==
  Smaller(tokens + (now - last_refill) * rate, Bucket(rate))

-----------------------------------------------------------------------------
Init ==
  /\ now = 0
  /\ scale = One
  /\ byte_tokens = max_bytes_per_sec * Token
  /\ batch_tokens = max_batches_per_sec * Token
  /\ last_refill = 0
  /\ front \in Sizes
  /\ phase = "ready"
  /\ until = 0
  /\ waits = 0
  /\ sent = 0
  /\ batches = 0
  /\ burst = 0

Tick ==
  /\ now < MaxTime
  /\ now' = now + 1
  /\ burst' = 0
  /\ UNCHANGED <<bucketVars, front, phase, until, waits, sent, batches>>

\* A batch that a full bucket cannot pay for goes when a batch token is there.
Affordable(cost) == cost <= Bucket(byte_rate)

\* Mutant: what the batch costs is not taken from the bucket.
Send_free(bytes, batch, cost) ==
  /\ batch >= Token
  /\ bytes >= cost \/ ~Affordable(cost)
  /\ batch_tokens' = batch - Token
  /\ byte_tokens' = bytes
  /\ phase' = "sent"
  /\ sent' = sent + front
  /\ batches' = batches + 1
  /\ burst' = burst + front
  /\ UNCHANGED <<until, waits>>

Send(bytes, batch, cost) ==
  /\ batch >= Token
  /\ bytes >= cost \/ ~Affordable(cost)
  /\ batch_tokens' = batch - Token
  /\ byte_tokens' = bytes - cost
  /\ phase' = "sent"
  /\ sent' = sent + front
  /\ batches' = batches + 1
  /\ burst' = burst + front
  /\ UNCHANGED <<until, waits>>

WaitFor(tokens, cost, rate) == IF tokens >= cost THEN 0 ELSE Ceil(cost - tokens, rate)

\* A wait longer than MaxWait is cut short, and poll asked again after it: it
\* counts only if an earlier one was to be enough.
Counted(wait) == IF wait > MaxWait /\ waits = 0 THEN 0 ELSE waits + 1

\* Mutant: only the bytes are waited for.
Wait_bytes(bytes, batch, cost) ==
  /\ batch < Token \/ (bytes < cost /\ Affordable(cost))
  /\ LET wait == Larger(WaitFor(bytes, cost, byte_rate), 1)
     IN  /\ until' = now + Smaller(wait, MaxWait)
         /\ waits' = Counted(wait)
  /\ batch_tokens' = batch
  /\ byte_tokens' = bytes
  /\ UNCHANGED <<phase, counters>>

Wait(bytes, batch, cost) ==
  /\ batch < Token \/ (bytes < cost /\ Affordable(cost))
  /\ LET wait == Larger(Larger(WaitFor(bytes, cost, byte_rate),
                               WaitFor(batch, Token, batch_rate)), 1)
     IN  /\ until' = now + Smaller(wait, MaxWait)
         /\ waits' = Counted(wait)
  /\ batch_tokens' = batch
  /\ byte_tokens' = bytes
  /\ UNCHANGED <<phase, counters>>

\* poll, for the batch at the head.
poll ==
  /\ phase = "ready"
  /\ now >= until
  /\ last_refill' = now
  /\ LET bytes == Refilled(byte_tokens, byte_rate)
         batch == Refilled(batch_tokens, batch_rate)
         cost == front * Token
     IN  Send(bytes, batch, cost) \/ Wait(bytes, batch, cost)
  /\ UNCHANGED <<now, scale, front>>

Answered ==
  /\ phase = "sent"
  /\ phase' = "ready"
  /\ until' = now
  /\ waits' = 0
  /\ UNCHANGED <<now, byte_tokens, batch_tokens, last_refill, counters>>

on_delivered ==
  /\ Answered
  /\ scale' = Smaller(scale + recovery_increase, One)
  /\ front' \in Sizes

\* The batch stays and is sent again.
on_backpressure ==
  /\ Answered
  /\ scale' = Larger(scale \div 2, min_scale)
  /\ UNCHANGED front

\* Other failures: the batch is kept, or dropped for good.
Failed ==
  /\ Answered
  /\ front' \in Sizes
  /\ UNCHANGED scale

Next == Tick \/ poll \/ on_delivered \/ on_backpressure \/ Failed

Spec == Init /\ [][Next]_vars

-----------------------------------------------------------------------------
(* Properties *)

TypeOK ==
  /\ now \in 0..MaxTime
  /\ scale \in min_scale..One
  /\ byte_tokens \in Int /\ batch_tokens \in Nat
  /\ last_refill \in 0..now
  /\ front \in Sizes
  /\ phase \in {"ready", "sent"}

\* A batch that the bucket can pay for, at the present scale, pays for every
\* batch before it, the oversized ones included: with it no more bytes have been
\* sent than one second's burst and the rate since the start, and at one instant
\* no more than a second's worth, however long the pacer was idle (poll: "the
\* bucket goes negative and the next batch simply waits longer"; refill: "not so
\* much that a long idle period banks a flood").
DebtIsPaidFirst ==
  [][phase = "ready" /\ phase' = "sent" /\ Affordable(front * Token) =>
       /\ burst' <= max_bytes_per_sec
       /\ sent' * Hz <= max_bytes_per_sec * (Hz + now)]_vars

\* However small or large the batches are and whatever the sink answers, no more
\* of them go than one second's burst and the rate since the start: poll lets an
\* oversized batch pass the bytes but never the batches.
BatchRateHolds == batches * Hz <= max_batches_per_sec * (Hz + now)

\* Who has waited as long as poll asked may send: after a wait that was not cut
\* short at MaxWait, the next answer for the same batch is Send.
WaitIsEnough == waits <= 1

Largest == CHOOSE s \in Sizes : \A t \in Sizes : t <= s

\* retry.rs, of a batch "larger than a whole second of budget": "the bucket goes
\* negative and the next batch simply waits longer, so the average rate still
\* holds": never more than one batch beyond the rate.
AverageRateHolds ==
  sent * Hz <= max_bytes_per_sec * (Hz + now) + Largest * Hz
=============================================================================
