-------------------------- MODULE DrainPacerProofs --------------------------
(***************************************************************************)
(* What the pacer bounds, proved for every rate, scale, clock and wait:    *)
(* the argument is the bucket's account, tokens held plus tokens spent     *)
(* never exceed a full bucket and what the full rate has paid in.          *)
(***************************************************************************)
EXTENDS DrainPacer, TLAPS

-----------------------------------------------------------------------------
(* Arithmetic *)

LEMMA ProductNat ==
  ASSUME NEW a \in Nat, NEW b \in Nat
  PROVE  a * b \in Nat /\ a * b = b * a
OBVIOUS

LEMMA ProductMonotone ==
  ASSUME NEW a \in Int, NEW b \in Int, NEW c \in Nat, a <= b
  PROVE  a * c <= b * c /\ c * a <= c * b /\ a * c \in Int /\ b * c \in Int
OBVIOUS

LEMMA Distributes ==
  ASSUME NEW a \in Int, NEW b \in Int, NEW c \in Int
  PROVE  /\ (a + b) * c = a * c + b * c /\ (a - b) * c = a * c - b * c
         /\ a * (b * c) = (a * b) * c /\ a * c = c * a
OBVIOUS

\* Waiting for the rounded-up quotient pays the whole sum.
LEMMA CeilEnough ==
  ASSUME NEW a \in Nat, NEW b \in Nat \ {0}
  PROVE  Ceil(a, b) \in Nat /\ Ceil(a, b) * b >= a
BY DEF Ceil

LEMMA WaitForEnough ==
  ASSUME NEW tokens \in Int, NEW cost \in Nat, NEW rate \in Nat \ {0}
  PROVE  /\ WaitFor(tokens, cost, rate) \in Nat
         /\ tokens + WaitFor(tokens, cost, rate) * rate >= cost
<1>1. CASE tokens >= cost
  BY <1>1 DEF WaitFor
<1>2. CASE ~(tokens >= cost)
  <2>1. PICK a \in Nat : a = cost - tokens
    BY <1>2
  <2>2. PICK w : w = Ceil(a, rate)
    OBVIOUS
  <2>3. w \in Nat /\ w * rate >= a /\ w * rate \in Nat
    BY <2>2, CeilEnough, ProductNat
  <2>4. WaitFor(tokens, cost, rate) = w
    BY <1>2, <2>1, <2>2 DEF WaitFor
  <2>5. tokens + w * rate >= cost
    BY <2>1, <2>3
  <2>6. QED
    BY <2>3, <2>4, <2>5
<1>3. QED
  BY <1>1, <1>2

\* A positive factor cancels.
LEMMA Cancels ==
  ASSUME NEW a \in Int, NEW b \in Int, NEW c \in Nat \ {0}, a * c <= b * c
  PROVE  a <= b
OBVIOUS

LEMMA Numbers ==
  /\ max_bytes_per_sec \in Nat \ {0} /\ max_batches_per_sec \in Nat \ {0}
  /\ min_scale \in Nat \ {0} /\ One \in Nat \ {0} /\ Hz \in Nat \ {0}
  /\ MaxWait \in Nat \ {0} /\ recovery_increase \in Nat /\ MaxTime \in Nat
  /\ Sizes \subseteq Nat /\ min_scale <= One
  /\ Token \in Nat \ {0}
<1>1. Token \in Nat \ {0}
  BY PacerAssumption DEF Token
<1>2. QED
  BY <1>1, PacerAssumption

-----------------------------------------------------------------------------
(* Buckets *)

\* A rate between the slowest and the full one, for a maximum of max per second.
LEMMA BucketBounds ==
  ASSUME NEW max \in Nat \ {0}, NEW s \in Nat, min_scale <= s, s <= One
  PROVE  /\ max * s \in Nat \ {0} /\ max * s <= max * One
         /\ Bucket(max * s) \in Nat
         /\ Token <= Bucket(max * s) /\ Bucket(max * s) <= max * Token
         /\ Larger(max * min_scale * Hz, Token) <= Bucket(max * s)
<1> USE Numbers
<1>1. PICK rate : rate = max * s
  OBVIOUS
<1>2. PICK low : low = max * min_scale
  OBVIOUS
<1>3. PICK full : full = max * One
  OBVIOUS
<1>4. rate \in Nat \ {0} /\ low \in Nat /\ full \in Nat /\ low <= rate /\ rate <= full
  BY <1>1, <1>2, <1>3, ProductMonotone
<1>5. low * Hz <= rate * Hz /\ rate * Hz <= full * Hz /\ rate * Hz \in Nat /\ low * Hz \in Nat
  BY <1>4, ProductMonotone
<1>6. full * Hz = max * Token
  BY <1>3, Distributes DEF Token
<1>7. Token <= max * Token /\ max * Token \in Nat
  BY ProductMonotone
<1>8. QED
  BY <1>1, <1>2, <1>3, <1>4, <1>5, <1>6, <1>7 DEF Bucket, Larger

\* A refill adds at most the rate for the time passed, and no less than that
\* or a full bucket.
LEMMA RefillBounds ==
  ASSUME NEW tokens \in Int, NEW rate \in Nat, Bucket(rate) \in Nat,
         now \in Nat, last_refill \in Nat, last_refill <= now
  PROVE  LET earned == (now - last_refill) * rate
         IN  /\ earned \in Nat
             /\ Refilled(tokens, rate) \in Int
             /\ Refilled(tokens, rate) <= Bucket(rate)
             /\ Refilled(tokens, rate) <= tokens + earned
             /\ \/ Refilled(tokens, rate) = tokens + earned
                \/ Refilled(tokens, rate) = Bucket(rate)
<1>1. now - last_refill \in Nat
  OBVIOUS
<1>2. PICK earned : earned = (now - last_refill) * rate
  OBVIOUS
<1>3. earned \in Nat
  BY <1>1, <1>2, ProductNat
<1>4. QED
  BY <1>2, <1>3 DEF Refilled, Smaller

-----------------------------------------------------------------------------
(* The inductive invariant *)

Types ==
  /\ now \in Nat /\ now <= MaxTime
  /\ scale \in Nat /\ min_scale <= scale /\ scale <= One
  /\ byte_tokens \in Int /\ batch_tokens \in Nat
  /\ last_refill \in Nat /\ last_refill <= now
  /\ front \in Sizes
  /\ phase \in {"ready", "sent"}
  /\ until \in Nat /\ waits \in Nat
  /\ sent \in Nat /\ batches \in Nat /\ burst \in Nat

\* Held and spent is at most a full bucket and the full rate since the start.
Account(max, tokens, spent) ==
  tokens + spent * Token <= max * Token + last_refill * (max * One)

\* What is sent at this instant came out of one full bucket.
Instant ==
  /\ burst * Token + byte_tokens <= max_bytes_per_sec * Token
  /\ burst # 0 => last_refill = now

Inv ==
  /\ Types
  /\ Account(max_bytes_per_sec, byte_tokens, sent)
  /\ Account(max_batches_per_sec, batch_tokens, batches)
  /\ Instant

LEMMA RateFacts ==
  ASSUME Types
  PROVE  /\ byte_rate \in Nat \ {0} /\ byte_rate <= max_bytes_per_sec * One
         /\ Bucket(byte_rate) \in Nat /\ Token <= Bucket(byte_rate)
         /\ Bucket(byte_rate) <= max_bytes_per_sec * Token
         /\ Larger(max_bytes_per_sec * min_scale * Hz, Token) <= Bucket(byte_rate)
         /\ batch_rate \in Nat \ {0} /\ batch_rate <= max_batches_per_sec * One
         /\ Bucket(batch_rate) \in Nat /\ Token <= Bucket(batch_rate)
         /\ Bucket(batch_rate) <= max_batches_per_sec * Token
BY Numbers, BucketBounds DEF Types, byte_rate, batch_rate

\* The account after a refill, before anything is spent.
LEMMA RefillAccount ==
  ASSUME Types, NEW max \in Nat \ {0}, NEW rate \in Nat, rate <= max * One,
         Bucket(rate) \in Nat, NEW tokens \in Int, NEW spent \in Nat,
         Account(max, tokens, spent)
  PROVE  Refilled(tokens, rate) + spent * Token <= max * Token + now * (max * One)
<1> USE Numbers DEF Types
<1>1. PICK full \in Nat : full = max * One
  BY ProductNat
<1>2. PICK d \in Nat : d = now - last_refill
  OBVIOUS
<1>3. d * rate \in Nat /\ d * rate <= d * full /\ d * full \in Nat
  BY <1>1, <1>2, ProductMonotone, ProductNat
<1>4. now * full = last_refill * full + d * full /\ last_refill * full \in Nat
  BY <1>1, <1>2, Distributes, ProductNat
<1>5. Refilled(tokens, rate) \in Int /\ Refilled(tokens, rate) <= tokens + d * rate
  BY <1>2, RefillBounds
<1>6. PICK s \in Nat : s = spent * Token
  BY ProductNat
<1>7. PICK m \in Nat : m = max * Token
  BY ProductNat
<1>8. tokens + s <= m + last_refill * full
  BY <1>1, <1>6, <1>7 DEF Account
<1>9. Refilled(tokens, rate) + s <= m + now * full
  BY <1>3, <1>4, <1>5, <1>8
<1>10. QED
  BY <1>1, <1>6, <1>7, <1>9

LEMMA InitInv == Init => Inv
<1> SUFFICES ASSUME Init PROVE Inv
  OBVIOUS
<1> USE Numbers DEF Init
<1>1. max_bytes_per_sec * Token \in Nat /\ max_batches_per_sec * Token \in Nat
  BY ProductNat
<1>2. max_bytes_per_sec * One \in Nat /\ max_batches_per_sec * One \in Nat
  BY ProductNat
<1>3. Types
  BY <1>1 DEF Types
<1>4. QED
  BY <1>1, <1>2, <1>3 DEF Inv, Account, Instant

-----------------------------------------------------------------------------
(* poll *)

\* The refilled buckets, as poll finds them.
LEMMA PollFacts ==
  ASSUME Inv
  PROVE  LET bytes == Refilled(byte_tokens, byte_rate)
             batch == Refilled(batch_tokens, batch_rate)
             cost == front * Token
         IN  /\ bytes \in Int /\ batch \in Nat /\ cost \in Nat
             /\ bytes + sent * Token
                  <= max_bytes_per_sec * Token + now * (max_bytes_per_sec * One)
             /\ batch + batches * Token
                  <= max_batches_per_sec * Token + now * (max_batches_per_sec * One)
             /\ bytes + burst * Token <= max_bytes_per_sec * Token
             /\ byte_tokens >= 0 => bytes >= 0
             /\ sent * Token \in Nat /\ batches * Token \in Nat /\ burst * Token \in Nat
<1> USE Numbers
<1>1. /\ Types /\ Instant
      /\ Account(max_bytes_per_sec, byte_tokens, sent)
      /\ Account(max_batches_per_sec, batch_tokens, batches)
  BY DEF Inv
<1>2. /\ byte_rate \in Nat /\ byte_rate <= max_bytes_per_sec * One /\ Bucket(byte_rate) \in Nat
      /\ Bucket(byte_rate) <= max_bytes_per_sec * Token
      /\ batch_rate \in Nat /\ batch_rate <= max_batches_per_sec * One
      /\ Bucket(batch_rate) \in Nat
  BY <1>1, RateFacts
<1>3. PICK bytes : bytes = Refilled(byte_tokens, byte_rate)
  OBVIOUS
<1>4. PICK batch : batch = Refilled(batch_tokens, batch_rate)
  OBVIOUS
<1>5. PICK earned : earned = (now - last_refill) * byte_rate
  OBVIOUS
<1>6. /\ earned \in Nat /\ bytes \in Int
      /\ bytes <= Bucket(byte_rate) /\ bytes <= byte_tokens + earned
      /\ bytes = byte_tokens + earned \/ bytes = Bucket(byte_rate)
  BY <1>1, <1>2, <1>3, <1>5, RefillBounds DEF Types
<1>7. batch \in Nat
  <2>1. PICK e \in Nat : e = (now - last_refill) * batch_rate
    BY <1>1, <1>2, RefillBounds DEF Types
  <2>2. batch = batch_tokens + e \/ batch = Bucket(batch_rate)
    BY <1>1, <1>2, <1>4, <2>1, RefillBounds DEF Types
  <2>3. QED
    BY <1>1, <1>2, <2>1, <2>2 DEF Types
<1>8. front \in Nat /\ front * Token \in Nat /\ sent * Token \in Nat
      /\ batches * Token \in Nat /\ burst * Token \in Nat
  BY <1>1, ProductNat DEF Types
<1>9. bytes + sent * Token <= max_bytes_per_sec * Token + now * (max_bytes_per_sec * One)
  BY <1>1, <1>2, <1>3, RefillAccount DEF Types
<1>10. batch + batches * Token
         <= max_batches_per_sec * Token + now * (max_batches_per_sec * One)
  <2>1. batch_tokens \in Int /\ batches \in Nat
    BY <1>1 DEF Types
  <2>2. QED
    BY <1>1, <1>2, <1>4, <2>1, RefillAccount
<1>11. bytes + burst * Token <= max_bytes_per_sec * Token
  <2>1. PICK m \in Nat : m = max_bytes_per_sec * Token
    BY ProductNat
  <2>2. CASE burst = 0
    BY <1>2, <1>6, <2>1, <2>2
  <2>3. CASE burst # 0
    <3>1. earned = 0
      BY <1>1, <1>2, <1>5, <2>3 DEF Instant, Types
    <3>2. byte_tokens \in Int /\ burst * Token + byte_tokens <= m
      BY <1>1, <2>1 DEF Instant, Types
    <3>3. QED
      BY <1>6, <1>8, <2>1, <3>1, <3>2
  <2>4. QED
    BY <2>2, <2>3
<1>12. byte_tokens >= 0 => bytes >= 0
  BY <1>1, <1>2, <1>6 DEF Types
<1>13. QED
  BY <1>3, <1>4, <1>6, <1>7, <1>8, <1>9, <1>10, <1>11, <1>12

LEMMA SendKeeps ==
  ASSUME Inv, last_refill' = now, UNCHANGED <<now, scale, front>>,
         Send(Refilled(byte_tokens, byte_rate), Refilled(batch_tokens, batch_rate),
              front * Token)
  PROVE  Inv'
<1> USE Numbers
<1>1. Types
  BY DEF Inv
<1>2. PICK bytes : bytes = Refilled(byte_tokens, byte_rate)
  OBVIOUS
<1>3. PICK batch : batch = Refilled(batch_tokens, batch_rate)
  OBVIOUS
<1>4. PICK cost : cost = front * Token
  OBVIOUS
<1>5. PICK m : m = max_bytes_per_sec * Token
  OBVIOUS
<1>6. PICK n : n = max_batches_per_sec * Token
  OBVIOUS
<1>7. PICK M : M = now * (max_bytes_per_sec * One)
  OBVIOUS
<1>8. PICK N : N = now * (max_batches_per_sec * One)
  OBVIOUS
<1>9. m \in Nat /\ n \in Nat /\ M \in Nat /\ N \in Nat
  BY <1>1, <1>5, <1>6, <1>7, <1>8, ProductNat DEF Types
<1>10. /\ bytes \in Int /\ batch \in Nat /\ cost \in Nat
       /\ bytes + sent * Token <= m + M /\ batch + batches * Token <= n + N
       /\ bytes + burst * Token <= m
       /\ sent * Token \in Nat /\ batches * Token \in Nat /\ burst * Token \in Nat
  BY <1>2, <1>3, <1>4, <1>5, <1>6, <1>7, <1>8, PollFacts
<1>11. /\ batch >= Token /\ batch_tokens' = batch - Token /\ byte_tokens' = bytes - cost
       /\ phase' = "sent" /\ sent' = sent + front /\ batches' = batches + 1
       /\ burst' = burst + front /\ UNCHANGED <<until, waits>>
  BY <1>2, <1>3, <1>4 DEF Send
<1>12. front \in Nat
  BY <1>1 DEF Types
<1>13. Types'
  BY <1>1, <1>10, <1>11, <1>12 DEF Types
<1>14. /\ sent' * Token = sent * Token + cost
       /\ burst' * Token = burst * Token + cost
       /\ batches' * Token = batches * Token + Token
  BY <1>1, <1>4, <1>11, <1>12, Distributes DEF Types
<1>15. byte_tokens' + sent' * Token <= m + M /\ batch_tokens' + batches' * Token <= n + N
  BY <1>9, <1>10, <1>11, <1>14
<1>16. Account(max_bytes_per_sec, byte_tokens, sent)'
       /\ Account(max_batches_per_sec, batch_tokens, batches)'
  BY <1>5, <1>6, <1>7, <1>8, <1>15 DEF Account
<1>17. Instant'
  BY <1>5, <1>9, <1>10, <1>11, <1>14 DEF Instant
<1>18. QED
  BY <1>13, <1>16, <1>17 DEF Inv

LEMMA WaitKeeps ==
  ASSUME Inv, last_refill' = now, UNCHANGED <<now, scale, front>>,
         Wait(Refilled(byte_tokens, byte_rate), Refilled(batch_tokens, batch_rate),
              front * Token)
  PROVE  Inv'
<1> USE Numbers
<1>1. Types
  BY DEF Inv
<1>2. PICK bytes : bytes = Refilled(byte_tokens, byte_rate)
  OBVIOUS
<1>3. PICK batch : batch = Refilled(batch_tokens, batch_rate)
  OBVIOUS
<1>4. PICK cost : cost = front * Token
  OBVIOUS
<1>5. /\ bytes \in Int /\ batch \in Nat /\ cost \in Nat
      /\ bytes + sent * Token <= max_bytes_per_sec * Token + now * (max_bytes_per_sec * One)
      /\ batch + batches * Token
           <= max_batches_per_sec * Token + now * (max_batches_per_sec * One)
      /\ bytes + burst * Token <= max_bytes_per_sec * Token /\ burst * Token \in Nat
  BY <1>2, <1>3, <1>4, PollFacts
<1>6. /\ batch_tokens' = batch /\ byte_tokens' = bytes
      /\ UNCHANGED <<phase, sent, batches, burst>>
  BY <1>2, <1>3, <1>4 DEF Wait, counters
<1>7. until' \in Nat /\ waits' \in Nat
  <2>1. PICK w : /\ until' = now + Smaller(w, MaxWait)
                 /\ waits' = Counted(w)
                 /\ w = Larger(Larger(WaitFor(bytes, cost, byte_rate),
                                      WaitFor(batch, Token, batch_rate)), 1)
    BY <1>2, <1>3, <1>4 DEF Wait
  <2>2. byte_rate \in Nat \ {0} /\ batch_rate \in Nat \ {0}
    BY <1>1, RateFacts
  <2>3. WaitFor(bytes, cost, byte_rate) \in Nat /\ WaitFor(batch, Token, batch_rate) \in Nat
    <3>1. batch \in Int
      BY <1>5
    <3>2. QED
      BY <1>5, <2>2, <3>1, WaitForEnough
  <2>4. w \in Nat
    BY <2>1, <2>3 DEF Larger
  <2>5. QED
    BY <1>1, <2>1, <2>4 DEF Smaller, Counted, Types
<1>8. Types'
  BY <1>1, <1>5, <1>6, <1>7 DEF Types
<1>9. Account(max_bytes_per_sec, byte_tokens, sent)'
      /\ Account(max_batches_per_sec, batch_tokens, batches)'
  BY <1>5, <1>6 DEF Account
<1>10. burst * Token + bytes <= max_bytes_per_sec * Token
  <2>1. PICK m \in Nat : m = max_bytes_per_sec * Token
    BY ProductNat
  <2>2. QED
    BY <1>5, <2>1
<1>11. Instant'
  BY <1>6, <1>10 DEF Instant
<1>12. QED
  BY <1>8, <1>9, <1>11 DEF Inv

-----------------------------------------------------------------------------
(* Every step *)

LEMMA PollCases ==
  ASSUME poll
  PROVE  /\ last_refill' = now /\ UNCHANGED <<now, scale, front>>
         /\ phase = "ready" /\ now >= until
         /\ \/ Send(Refilled(byte_tokens, byte_rate), Refilled(batch_tokens, batch_rate),
                    front * Token)
            \/ Wait(Refilled(byte_tokens, byte_rate), Refilled(batch_tokens, batch_rate),
                    front * Token)
BY DEF poll

\* An answer changes the scale within its range and perhaps the batch.
LEMMA AnswerCases ==
  ASSUME Types, on_delivered \/ on_backpressure \/ Failed
  PROVE  /\ Answered /\ front' \in Sizes
         /\ scale' \in Nat /\ min_scale <= scale' /\ scale' <= One
<1> USE Numbers DEF Types
<1>1. CASE on_delivered
  BY <1>1 DEF on_delivered, Smaller
<1>2. CASE on_backpressure
  BY <1>2 DEF on_backpressure, Larger
<1>3. CASE Failed
  BY <1>3 DEF Failed
<1>4. QED
  BY <1>1, <1>2, <1>3

LEMMA StepKeeps == Inv /\ [Next]_vars => Inv'
<1> SUFFICES ASSUME Inv, [Next]_vars PROVE Inv'
  OBVIOUS
<1> USE Numbers
<1>1. CASE Tick
  <2>1. Types'
    BY <1>1 DEF Inv, Types, Tick, bucketVars
  <2>2. 0 * Token + byte_tokens <= max_bytes_per_sec * Token
    <3>1. /\ burst * Token + byte_tokens <= max_bytes_per_sec * Token /\ burst * Token \in Nat
          /\ max_bytes_per_sec * Token \in Nat /\ byte_tokens \in Int
      BY ProductNat DEF Inv, Instant, Types
    <3>2. QED
      BY <3>1
  <2>3. Instant'
    BY <1>1, <2>2 DEF Instant, Tick, bucketVars
  <2>4. QED
    BY <1>1, <2>1, <2>3 DEF Inv, Account, Tick, bucketVars
<1>2. CASE poll
  BY <1>2, PollCases, SendKeeps, WaitKeeps
<1>3. CASE on_delivered \/ on_backpressure \/ Failed
  <2>1. /\ Answered /\ front' \in Sizes
        /\ scale' \in Nat /\ min_scale <= scale' /\ scale' <= One
    BY <1>3, AnswerCases DEF Inv
  <2>2. /\ UNCHANGED <<now, byte_tokens, batch_tokens, last_refill, sent, batches, burst>>
        /\ phase' = "ready" /\ until' = now /\ waits' = 0
    BY <2>1 DEF Answered, counters
  <2>3. Types'
    BY <2>1, <2>2 DEF Inv, Types
  <2>4. QED
    BY <2>2, <2>3 DEF Inv, Account, Instant
<1>4. CASE UNCHANGED vars
  BY <1>4 DEF vars, Inv, Types, Account, Instant
<1>5. QED
  BY <1>1, <1>2, <1>3, <1>4 DEF Next

LEMMA Invariance == Spec => []Inv
BY InitInv, StepKeeps, PTL DEF Spec

-----------------------------------------------------------------------------
(* The theorems on rates *)

\* The pacer's numbers stay in their ranges, for all configurations: poll takes
\* no batch token that is not there, and the scale stays between its floor and 1.
THEOREM TypeCorrect == Spec => []TypeOK
<1>1. Inv => TypeOK
  BY Numbers DEF Inv, Types, TypeOK
<1>2. QED
  BY <1>1, Invariance, PTL

\* What an account that was paid into until time t says about the amount spent.
LEMMA Spent ==
  ASSUME NEW max \in Nat \ {0}, NEW tokens \in Nat, NEW spent \in Nat, NEW t \in Nat,
         tokens + spent * Token <= max * Token + t * (max * One)
  PROVE  spent * Hz <= max * (Hz + t)
<1> USE Numbers
<1>1. spent * Token \in Nat /\ max * Token \in Nat /\ max * One \in Nat
  BY ProductNat
<1>2. t * (max * One) \in Nat
  BY <1>1, ProductNat
<1>3. spent * Token <= max * Token + t * (max * One)
  BY <1>1, <1>2
<1>4. spent * Token = (spent * Hz) * One /\ max * Token = (max * Hz) * One
      /\ t * (max * One) = (max * t) * One
  BY Distributes DEF Token
<1>5. spent * Hz \in Nat /\ max * Hz \in Nat /\ max * t \in Nat
  BY ProductNat
<1>6. (max * Hz) * One + (max * t) * One = (max * Hz + max * t) * One
  BY <1>5, Distributes
<1>7. (spent * Hz) * One <= (max * Hz + max * t) * One
  BY <1>3, <1>4, <1>6
<1>8. spent * Hz <= max * Hz + max * t
  BY <1>5, <1>7, Cancels
<1>9. max * (Hz + t) = max * Hz + max * t
  BY Distributes
<1>10. QED
  BY <1>8, <1>9

\* Whatever the sizes of the batches and the answers of the sink, no more batches
\* are sent than the configured rate allows, oversized ones included: a batch
\* token is always paid (poll).
THEOREM BatchesAreBounded == Spec => []BatchRateHolds
<1>1. Inv => BatchRateHolds
  <2> SUFFICES ASSUME Inv PROVE BatchRateHolds
    OBVIOUS
  <2> USE Numbers
  <2>1. Types
    BY DEF Inv
  <2>2. PICK full \in Nat : full = max_batches_per_sec * One
    BY ProductNat
  <2>3. last_refill * full <= now * full /\ last_refill * full \in Nat /\ now * full \in Nat
    BY <2>1, ProductMonotone, ProductNat DEF Types
  <2>4. batches * Token \in Nat /\ max_batches_per_sec * Token \in Nat
    BY <2>1, ProductNat DEF Types
  <2>5. batch_tokens + batches * Token <= max_batches_per_sec * Token + now * full
    BY <2>1, <2>2, <2>3, <2>4 DEF Inv, Account, Types
  <2>6. QED
    BY <2>1, <2>2, <2>5, Spent DEF BatchRateHolds, Types
<1>2. QED
  BY <1>1, Invariance, PTL

\* What is sent at an instant out of a bucket that is not overdrawn.
LEMMA InstantBound ==
  ASSUME NEW b \in Nat, NEW tokens \in Nat, NEW max \in Nat \ {0},
         b * Token + tokens <= max * Token
  PROVE  b <= max
<1> USE Numbers
<1>1. b * Token \in Nat /\ max * Token \in Nat
  BY ProductNat
<1>2. b * Token <= max * Token
  BY <1>1
<1>3. QED
  BY <1>2, Cancels

\* For all sizes of batches, rates and answers: when a batch goes that the bucket
\* can pay for, every debt has been paid, and what has been sent with it is within
\* the configured rate of bytes, and within one second's worth at that instant.
THEOREM DebtsArePaidFirst == Spec => DebtIsPaidFirst
<1> DEFINE Within ==
      phase = "ready" /\ phase' = "sent" /\ Affordable(front * Token) =>
        /\ burst' <= max_bytes_per_sec
        /\ sent' * Hz <= max_bytes_per_sec * (Hz + now)
<1>1. ASSUME Inv, [Next]_vars PROVE Within
  <2> SUFFICES ASSUME phase = "ready", phase' = "sent", Affordable(front * Token)
               PROVE  /\ burst' <= max_bytes_per_sec
                      /\ sent' * Hz <= max_bytes_per_sec * (Hz + now)
    OBVIOUS
  <2> USE Numbers
  <2>1. poll
    BY <1>1 DEF Next, Tick, on_delivered, on_backpressure, Failed, Answered, vars
  <2>2. last_refill' = now /\ now' = now
        /\ Send(Refilled(byte_tokens, byte_rate), Refilled(batch_tokens, batch_rate),
                front * Token)
    BY <2>1, PollCases DEF Wait
  <2>3. PICK bytes : bytes = Refilled(byte_tokens, byte_rate)
    OBVIOUS
  <2>4. PICK cost : cost = front * Token
    OBVIOUS
  <2>5. bytes \in Int /\ cost \in Nat
    BY <1>1, <2>3, <2>4, PollFacts
  <2>6. byte_tokens' = bytes - cost /\ bytes >= cost
    BY <2>2, <2>3, <2>4 DEF Send
  <2>7. byte_tokens' \in Nat
    BY <2>5, <2>6
  <2>8. Inv'
    BY <1>1, StepKeeps
  <2>9. sent' \in Nat /\ burst' \in Nat /\ now \in Nat
    BY <2>2, <2>8 DEF Inv, Types
  <2>10. byte_tokens' + sent' * Token
           <= max_bytes_per_sec * Token + now * (max_bytes_per_sec * One)
    BY <2>2, <2>8 DEF Inv, Account
  <2>11. sent' * Hz <= max_bytes_per_sec * (Hz + now)
    BY <2>7, <2>9, <2>10, Spent
  <2>12. burst' * Token + byte_tokens' <= max_bytes_per_sec * Token
    BY <2>8 DEF Inv, Instant
  <2>13. burst' <= max_bytes_per_sec
    BY <2>7, <2>9, <2>12, InstantBound
  <2>14. QED
    BY <2>11, <2>13
<1>2. Inv /\ [Next]_vars => [Within]_vars
  BY <1>1
<1>3. QED
  BY <1>2, Invariance, PTL DEF Spec, DebtIsPaidFirst

-----------------------------------------------------------------------------
(* Waiting *)

\* One who waits will find what the batch costs in both buckets; of an oversized
\* batch, in that of batches.
Patient ==
  /\ waits <= 1
  /\ waits # 0 /\ phase = "ready" =>
       /\ last_refill <= until
       /\ Affordable(front * Token) =>
            front * Token <= byte_tokens + (until - last_refill) * byte_rate
       /\ Token <= batch_tokens + (until - last_refill) * batch_rate

\* A wait as long as the sum is missing pays for it.
LEMMA WaitPays ==
  ASSUME NEW tokens \in Int, NEW cost \in Nat, NEW rate \in Nat \ {0},
         NEW w \in Nat, WaitFor(tokens, cost, rate) <= w
  PROVE  cost <= tokens + w * rate
<1>1. PICK f : f = WaitFor(tokens, cost, rate)
  OBVIOUS
<1>2. f \in Nat /\ tokens + f * rate >= cost /\ f <= w
  BY <1>1, WaitForEnough
<1>3. f * rate <= w * rate /\ f * rate \in Nat /\ w * rate \in Nat
  BY <1>2, ProductMonotone, ProductNat
<1>4. QED
  BY <1>2, <1>3

LEMMA PatientWait ==
  ASSUME Inv, waits = 0, last_refill' = now, UNCHANGED <<now, scale, front>>,
         Wait(Refilled(byte_tokens, byte_rate), Refilled(batch_tokens, batch_rate),
              front * Token)
  PROVE  Patient'
<1> USE Numbers
<1>1. Types
  BY DEF Inv
<1>2. PICK bytes : bytes = Refilled(byte_tokens, byte_rate)
  OBVIOUS
<1>3. PICK batch : batch = Refilled(batch_tokens, batch_rate)
  OBVIOUS
<1>4. PICK cost : cost = front * Token
  OBVIOUS
<1>5. bytes \in Int /\ batch \in Int /\ cost \in Nat
  BY <1>2, <1>3, <1>4, PollFacts
<1>6. PICK w : /\ until' = now + Smaller(w, MaxWait)
               /\ waits' = Counted(w)
               /\ w = Larger(Larger(WaitFor(bytes, cost, byte_rate),
                                    WaitFor(batch, Token, batch_rate)), 1)
  BY <1>2, <1>3, <1>4 DEF Wait
<1>7. batch_tokens' = batch /\ byte_tokens' = bytes
  BY <1>2, <1>3, <1>4 DEF Wait
<1>8. byte_rate \in Nat \ {0} /\ batch_rate \in Nat \ {0}
  BY <1>1, RateFacts
<1>9. WaitFor(bytes, cost, byte_rate) \in Nat /\ WaitFor(batch, Token, batch_rate) \in Nat
  BY <1>5, <1>8, WaitForEnough
<1>10. /\ w \in Nat /\ WaitFor(bytes, cost, byte_rate) <= w
       /\ WaitFor(batch, Token, batch_rate) <= w
  BY <1>6, <1>9 DEF Larger
<1>11. CASE w > MaxWait
  BY <1>6, <1>11 DEF Counted, Patient
<1>12. CASE ~(w > MaxWait)
  <2>1. until' = now + w /\ waits' = 1 /\ now \in Nat
    BY <1>1, <1>6, <1>10, <1>12 DEF Smaller, Counted, Types
  <2>2. until' - last_refill' = w /\ last_refill' <= until'
    BY <1>10, <2>1
  <2>3. cost <= bytes + w * byte_rate
    BY <1>5, <1>8, <1>10, WaitPays
  <2>4. Token <= batch + w * batch_rate
    BY <1>5, <1>8, <1>10, WaitPays
  <2>5. byte_rate' = byte_rate /\ batch_rate' = batch_rate
    BY DEF byte_rate, batch_rate
  <2>6. QED
    BY <1>4, <1>7, <2>1, <2>2, <2>3, <2>4, <2>5 DEF Patient
<1>13. QED
  BY <1>11, <1>12

\* One who has waited is not told to wait again.
LEMMA PatientPays ==
  ASSUME Inv, Patient, waits # 0, phase = "ready", now >= until
  PROVE  /\ Affordable(front * Token) =>
              Refilled(byte_tokens, byte_rate) >= front * Token
         /\ Refilled(batch_tokens, batch_rate) >= Token
<1> USE Numbers
<1>1. Types
  BY DEF Inv
<1>2. /\ byte_rate \in Nat \ {0} /\ batch_rate \in Nat \ {0}
      /\ Token <= Bucket(batch_rate) /\ Bucket(batch_rate) \in Nat /\ Bucket(byte_rate) \in Nat
  BY <1>1, RateFacts
<1>3. front * Token \in Nat
  BY <1>1, ProductNat DEF Types
<1>4. PICK d : d = until - last_refill
  OBVIOUS
<1>5. PICK e : e = now - last_refill
  OBVIOUS
<1>6. d \in Nat /\ e \in Nat /\ d <= e
  BY <1>1, <1>4, <1>5 DEF Types, Patient
<1>7. /\ Affordable(front * Token) => front * Token <= byte_tokens + d * byte_rate
      /\ Token <= batch_tokens + d * batch_rate
  BY <1>4 DEF Patient
<1>8. /\ d * byte_rate <= e * byte_rate /\ d * byte_rate \in Nat /\ e * byte_rate \in Nat
      /\ d * batch_rate <= e * batch_rate /\ d * batch_rate \in Nat /\ e * batch_rate \in Nat
  BY <1>2, <1>6, ProductMonotone, ProductNat
<1>9. byte_tokens \in Int /\ batch_tokens \in Int
  BY <1>1 DEF Types
<1>10. \/ Refilled(byte_tokens, byte_rate) = byte_tokens + e * byte_rate
       \/ Refilled(byte_tokens, byte_rate) = Bucket(byte_rate)
  BY <1>1, <1>2, <1>5, <1>9, RefillBounds DEF Types
<1>11. \/ Refilled(batch_tokens, batch_rate) = batch_tokens + e * batch_rate
       \/ Refilled(batch_tokens, batch_rate) = Bucket(batch_rate)
  BY <1>1, <1>2, <1>5, <1>9, RefillBounds DEF Types
<1>12. ASSUME Affordable(front * Token)
       PROVE  Refilled(byte_tokens, byte_rate) >= front * Token
  <2>1. front * Token <= Bucket(byte_rate)
    BY <1>12 DEF Affordable
  <2>2. byte_tokens + e * byte_rate >= front * Token
    BY <1>3, <1>7, <1>8, <1>9, <1>12
  <2>3. QED
    BY <1>2, <1>3, <1>10, <2>1, <2>2
<1>13. batch_tokens + e * batch_rate >= Token
  BY <1>7, <1>8, <1>9
<1>14. Refilled(batch_tokens, batch_rate) >= Token
  BY <1>2, <1>11, <1>13
<1>15. QED
  BY <1>12, <1>14

LEMMA PatientStep ==
  ASSUME Inv, Patient, [Next]_vars
  PROVE  Patient'
<1>1. Types /\ waits \in Nat /\ waits <= 1
  BY DEF Inv, Types, Patient
<1>2. CASE poll
  <2>1. CASE Wait(Refilled(byte_tokens, byte_rate), Refilled(batch_tokens, batch_rate),
                  front * Token)
    <3>1. PICK bytes : bytes = Refilled(byte_tokens, byte_rate)
      OBVIOUS
    <3>2. PICK batch : batch = Refilled(batch_tokens, batch_rate)
      OBVIOUS
    <3>3. bytes \in Int /\ batch \in Nat /\ front * Token \in Nat
      BY <3>1, <3>2, PollFacts
    <3>4. batch < Token \/ (bytes < front * Token /\ Affordable(front * Token))
      BY <2>1, <3>1, <3>2 DEF Wait
    <3>5. waits = 0
      <4> SUFFICES ASSUME waits # 0 PROVE FALSE
        OBVIOUS
      <4>1. /\ Affordable(front * Token) => bytes >= front * Token
            /\ batch >= Token
        BY <1>2, <3>1, <3>2, PollCases, PatientPays
      <4>2. QED
        BY <3>3, <3>4, <4>1, Numbers
    <3>6. QED
      BY <1>2, <2>1, <3>5, PollCases, PatientWait
  <2>2. CASE Send(Refilled(byte_tokens, byte_rate), Refilled(batch_tokens, batch_rate),
                  front * Token)
    BY <1>1, <2>2 DEF Send, Patient
  <2>3. QED
    BY <1>2, <2>1, <2>2, PollCases
<1>3. CASE on_delivered \/ on_backpressure \/ Failed
  BY <1>3 DEF on_delivered, on_backpressure, Failed, Answered, Patient
<1>4. CASE Tick \/ UNCHANGED vars
  <2>1. UNCHANGED <<waits, phase, until, last_refill, front, byte_tokens, batch_tokens, scale>>
    BY <1>4 DEF Tick, bucketVars, vars
  <2>2. QED
    BY <2>1 DEF Patient, byte_rate, batch_rate, Affordable
<1>5. QED
  BY <1>2, <1>3, <1>4 DEF Next

\* Pace::Wait tells the truth, for batches of every size, after debts of every
\* depth, for every rate, scale and rounding of the wait to ticks: one who has
\* slept as long as poll asked may send, unless the wait was cut short.
THEOREM OneWaitSuffices == Spec => []WaitIsEnough
<1>1. Init => Patient
  BY DEF Init, Patient
<1>2. Inv /\ Patient /\ [Next]_vars => Patient'
  BY PatientStep
<1>3. Patient => WaitIsEnough
  BY DEF Patient, WaitIsEnough
<1>4. QED
  BY <1>1, <1>2, <1>3, InitInv, StepKeeps, PTL DEF Spec
=============================================================================
