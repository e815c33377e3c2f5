-------------------------- MODULE SinkQueueProofs --------------------------
(***************************************************************************)
(* Proofs about SinkQueue, for every set of readers and messages, all      *)
(* sizes and every budget.                                                 *)
(***************************************************************************)
EXTENDS SinkQueue, BaseTheorems

-----------------------------------------------------------------------------
(* The channel as a sequence *)

Queued == Msgs \cup {Marker}

\* Sending adds one element at the end of the channel and disturbs no other.
LEMMA ChannelSend ==
  ASSUME NEW q \in Seq(Queued), NEW e \in Queued
  PROVE  /\ Append(q, e) \in Seq(Queued)
         /\ Len(Append(q, e)) = Len(q) + 1
         /\ Append(q, e)[Len(q) + 1] = e
         /\ \A i \in 1..Len(q) : Append(q, e)[i] = q[i]
         /\ DOMAIN q = 1..Len(q) /\ DOMAIN Append(q, e) = 1..(Len(q) + 1)
OBVIOUS

\* Receiving takes the first element; the others move up by one.
LEMMA ChannelReceive ==
  ASSUME NEW q \in Seq(Queued), q # <<>>
  PROVE  /\ Head(q) \in Queued /\ Head(q) = q[1]
         /\ Tail(q) \in Seq(Queued)
         /\ Len(Tail(q)) = Len(q) - 1 /\ Len(q) \in Nat \ {0}
         /\ \A i \in 1..(Len(q) - 1) : Tail(q)[i] = q[i + 1]
         /\ DOMAIN q = 1..Len(q) /\ DOMAIN Tail(q) = 1..(Len(q) - 1)
OBVIOUS

\* What the channel holds after a send, and after a receive.
LEMMA OccursAfterSend ==
  ASSUME NEW q \in Seq(Queued), NEW e \in Queued, NEW x
  PROVE  OccursIn(x, Append(q, e)) <=> OccursIn(x, q) \/ x = e
BY ChannelSend DEF OccursIn

LEMMA OccursAfterReceive ==
  ASSUME NEW q \in Seq(Queued), q # <<>>, NEW x
  PROVE  OccursIn(x, q) <=> OccursIn(x, Tail(q)) \/ x = Head(q)
<1>1. ASSUME NEW i \in DOMAIN q, q[i] = x PROVE OccursIn(x, Tail(q)) \/ x = Head(q)
  <2>1. CASE i = 1
    BY <1>1, <2>1, ChannelReceive
  <2>2. CASE i # 1
    <3>1. i - 1 \in DOMAIN Tail(q) /\ Tail(q)[i - 1] = x
      BY <1>1, <2>2, ChannelReceive
    <3>2. QED
      BY <3>1 DEF OccursIn
  <2>3. QED
    BY <2>1, <2>2
<1>2. ASSUME NEW i \in DOMAIN Tail(q), Tail(q)[i] = x PROVE OccursIn(x, q)
  <2>1. i + 1 \in DOMAIN q /\ q[i + 1] = x
    BY <1>2, ChannelReceive
  <2>2. QED
    BY <2>1 DEF OccursIn
<1>3. ASSUME x = Head(q) PROVE OccursIn(x, q)
  <2>1. 1 \in DOMAIN q /\ q[1] = x
    BY <1>3, ChannelReceive
  <2>2. QED
    BY <2>1 DEF OccursIn
<1>4. QED
  BY <1>1, <1>2, <1>3 DEF OccursIn

-----------------------------------------------------------------------------
(* Types *)

\* The types alone are inductive when the counters are just integers: that they
\* never go below zero follows from the accounting.
Types ==
  /\ pc \in [Msgs -> {"unsent"} \cup Active \cup Results]
  /\ pressured \in [Msgs -> BOOLEAN]
  /\ bytes \in Int
  /\ messages \in Int
  /\ underPressure \in BOOLEAN
  /\ reports \in [Causes -> SUBSET Msgs]
  /\ markerQueued \in BOOLEAN
  /\ queue \in Seq(Queued)
  /\ closed \in BOOLEAN
  /\ hand \in Msgs \cup {Marker, Taking, Nothing}
  /\ stopped \subseteq Readers
  /\ ended \in BOOLEAN
  /\ delivered \subseteq Msgs
  /\ reported \subseteq Msgs
  /\ discarded \in Seq(Queued)

\* The initial state has its types.
LEMMA TypesInit == Init => Types
<1> SUFFICES ASSUME Init PROVE Types
  OBVIOUS
<1>1. pc \in [Msgs -> {"unsent"} \cup Active \cup Results]
  BY DEF Init
<1>2. pressured \in [Msgs -> BOOLEAN]
  BY DEF Init
<1>3. reports \in [Causes -> SUBSET Msgs]
  BY DEF Init
<1>4. queue \in Seq(Queued) /\ discarded \in Seq(Queued)
  BY DEF Init
<1>5. bytes \in Int /\ messages \in Int
  BY DEF Init
<1>6. QED
  BY <1>1, <1>2, <1>3, <1>4, <1>5, Zenon DEF Init, Types

\* Every step of every thread keeps them.
LEMMA TypesStep == Types /\ [Next]_vars => Types'
<1> SUFFICES ASSUME Types, [Next]_vars PROVE Types'
  OBVIOUS
<1> USE MsgsAssumption DEF Types, Active, Results, Goto, callVars, lostVars, outVars
<1>1. ASSUME NEW m \in Msgs, TrySend(m) PROVE Types'
  BY <1>1 DEF TrySend
<1>2. ASSUME NEW m \in Msgs, LoadPressure(m) PROVE Types'
  BY <1>2, Zenon DEF LoadPressure
<1>3. ASSUME NEW m \in Msgs, Reserve(m) PROVE Types'
  <2>1. bytes' \in Int
    BY <1>3 DEF Reserve
  <2>2. pc' \in [Msgs -> {"unsent"} \cup Active \cup Results]
    BY <1>3 DEF Reserve
  <2>3. QED
    BY <1>3, <2>1, <2>2 DEF Reserve
<1>4. ASSUME NEW m \in Msgs, Count(m) PROVE Types'
  BY <1>4 DEF Count
<1>5. ASSUME NEW m \in Msgs, Send(m) PROVE Types'
  <2>1. queue' \in Seq(Queued)
    <3>1. m \in Queued
      BY DEF Queued
    <3>2. queue' = Append(queue, m) \/ queue' = queue
      BY <1>5 DEF Send
    <3>3. QED
      BY <3>1, <3>2, ChannelSend
  <2>2. pc' \in [Msgs -> {"unsent"} \cup Active \cup Results]
    BY <1>5 DEF Send
  <2>3. bytes' \in Int /\ messages' \in Int
    BY <1>5 DEF Send
  <2>4. QED
    BY <1>5, <2>1, <2>2, <2>3 DEF Send
<1>6. ASSUME NEW m \in Msgs, Refuse(m) PROVE Types'
  <2>1. reports' \in [Causes -> SUBSET Msgs]
    BY <1>6 DEF Refuse
  <2>2. pc' \in [Msgs -> {"unsent"} \cup Active \cup Results]
    BY <1>6 DEF Refuse
  <2>3. QED
    BY <1>6, <2>1, <2>2 DEF Refuse
<1>7. ASSUME NEW m \in Msgs, CountMarker(m) PROVE Types'
  BY <1>7 DEF CountMarker
<1>8. ASSUME NEW m \in Msgs, SendMarker(m) PROVE Types'
  <2>1. queue' \in Seq(Queued)
    <3>1. Marker \in Queued
      BY DEF Queued
    <3>2. queue' = Append(queue, Marker) \/ queue' = queue
      BY <1>8 DEF SendMarker
    <3>3. QED
      BY <3>1, <3>2, ChannelSend
  <2>2. pc' \in [Msgs -> {"unsent"} \cup Active \cup Results]
    BY <1>8 DEF SendMarker
  <2>3. messages' \in Int
    BY <1>8 DEF SendMarker
  <2>4. QED
    BY <1>8, <2>1, <2>2, <2>3 DEF SendMarker
<1>9. ASSUME NEW r \in Readers, StopReader(r) PROVE Types'
  BY <1>9 DEF StopReader
<1>10. ASSUME Pop PROVE Types'
  <2>1. hand' \in Queued /\ queue' \in Seq(Queued)
    BY <1>10, ChannelReceive DEF Pop
  <2>2. QED
    BY <1>10, <2>1 DEF Pop, Queued
<1>11. ASSUME ReceiveRecords PROVE Types'
  BY <1>11 DEF ReceiveRecords
<1>12. ASSUME ReleaseMarker PROVE Types'
  BY <1>12 DEF ReleaseMarker
<1>13. ASSUME TakeLost PROVE Types'
  <2>1. reports' \in [Causes -> SUBSET Msgs]
    BY <1>13 DEF TakeLost
  <2>2. reported' \subseteq Msgs
    BY <1>13 DEF TakeLost, Unreported
  <2>3. QED
    BY <1>13, <2>1, <2>2 DEF TakeLost
<1>14. ASSUME NEW on \in BOOLEAN, SetMemoryPressure(on) PROVE Types'
  BY <1>14 DEF SetMemoryPressure
<1>15. ASSUME ReceiveNone PROVE Types'
  BY <1>15 DEF ReceiveNone
<1>16. ASSUME DropReceiver PROVE Types'
  BY <1>16 DEF DropReceiver
<1>17. ASSUME UNCHANGED vars PROVE Types'
  BY <1>17 DEF vars
<1>18. QED
  BY <1>1, <1>2, <1>3, <1>4, <1>5, <1>6, <1>7, <1>8, <1>9, <1>10, <1>11, <1>12,
     <1>13, <1>14, <1>15, <1>16, <1>17 DEF Next, Call, Receive, Finished

-----------------------------------------------------------------------------
(* Accounting *)

\* No message is in the channel twice.
NoRepeats ==
  \A i, j \in DOMAIN queue : queue[i] \in Msgs /\ queue[i] = queue[j] => i = j

\* The receiver goes away between two receives and takes the channel with it.
ClosedShape ==
  /\ closed => queue = <<>> /\ hand = Nothing
  /\ ~closed => discarded = <<>>

Accounting == CallsAreAccounted /\ NoRepeats /\ ClosedShape

\* Unreported, by cause, now and after the step.
LEMMA UnreportedIs ==
  /\ \A x : x \in Unreported <=> x \in reports["overflow"] \/ x \in reports["pressure"]
  /\ \A x : x \in Unreported' <=> x \in reports'["overflow"] \/ x \in reports'["pressure"]
BY DEF Unreported, Causes

\* The tags of the channel and of recv's hands are not messages.
LEMMA Tags == Marker \notin Msgs /\ Taking \notin Msgs /\ Nothing \notin Msgs
BY TagsAreNotMessages

\* Most steps move no message and no report: the accounting stands if no call
\* becomes admitted or refused by them.
LEMMA AccountingFrame ==
  ASSUME Accounting,
         UNCHANGED <<queue, delivered, discarded, reports, reported, closed>>,
         hand' = hand \/ (hand \notin Msgs /\ hand' \notin Msgs /\ ~closed),
         \A m \in Msgs : /\ pc'[m] = "Admitted" <=> pc[m] = "Admitted"
                         /\ Refused(m)' <=> Refused(m)
  PROVE  Accounting'
<1>1. ASSUME NEW m \in Msgs PROVE AccountedFor(m)'
  BY UnreportedIs DEF Accounting, CallsAreAccounted, AccountedFor, OccursIn
<1>2. NoRepeats' /\ ClosedShape'
  BY DEF Accounting, NoRepeats, ClosedShape
<1>3. QED
  BY <1>1, <1>2 DEF Accounting, CallsAreAccounted

\* Initially there is nothing to account for.
LEMMA AccountingInit == Init => Accounting
<1> SUFFICES ASSUME Init PROVE Accounting
  OBVIOUS
<1>1. ASSUME NEW m \in Msgs PROVE AccountedFor(m)
  BY UnreportedIs, Tags DEF Init, AccountedFor, OccursIn, Refused, Causes
<1>2. NoRepeats /\ ClosedShape
  BY DEF Init, NoRepeats, ClosedShape
<1>3. QED
  BY <1>1, <1>2 DEF Accounting, CallsAreAccounted

\* Every step keeps the accounting.
LEMMA AccountingStep == Types /\ Accounting /\ [Next]_vars => Accounting'
<1> SUFFICES ASSUME Types, Accounting, [Next]_vars PROVE Accounting'
  OBVIOUS
<1>0. /\ \A m \in Msgs : AccountedFor(m)
      /\ NoRepeats /\ ClosedShape
  BY DEF Accounting, CallsAreAccounted
<1>1. ASSUME NEW m \in Msgs, TrySend(m) PROVE Accounting'
  <2>1. \A n \in Msgs : /\ pc'[n] = "Admitted" <=> pc[n] = "Admitted"
                        /\ Refused(n)' <=> Refused(n)
    BY <1>1 DEF TrySend, Types, Refused, Goto, callVars
  <2>2. QED
    BY <1>1, <2>1, AccountingFrame DEF TrySend, outVars, lostVars
<1>2. ASSUME NEW m \in Msgs, LoadPressure(m) PROVE Accounting'
  <2>1. \A n \in Msgs : /\ pc'[n] = "Admitted" <=> pc[n] = "Admitted"
                        /\ Refused(n)' <=> Refused(n)
    BY <1>2 DEF LoadPressure, Types, Refused, Goto, callVars
  <2>2. QED
    BY <1>2, <2>1, AccountingFrame DEF LoadPressure, outVars, lostVars
<1>3. ASSUME NEW m \in Msgs, Reserve(m) PROVE Accounting'
  <2>1. \A n \in Msgs : /\ pc'[n] = "Admitted" <=> pc[n] = "Admitted"
                        /\ Refused(n)' <=> Refused(n)
    BY <1>3 DEF Reserve, Types, Refused, Goto, callVars
  <2>2. QED
    BY <1>3, <2>1, AccountingFrame DEF Reserve, outVars, lostVars
<1>4. ASSUME NEW m \in Msgs, Count(m) PROVE Accounting'
  <2>1. \A n \in Msgs : /\ pc'[n] = "Admitted" <=> pc[n] = "Admitted"
                        /\ Refused(n)' <=> Refused(n)
    BY <1>4 DEF Count, Types, Refused, Goto, callVars
  <2>2. QED
    BY <1>4, <2>1, AccountingFrame DEF Count, outVars, lostVars
<1>5. ASSUME NEW m \in Msgs, Send(m) PROVE Accounting'
  <2> m \in Queued /\ queue \in Seq(Queued)
    BY DEF Queued, Types
  <2>1. CASE closed
    <3>1. \A n \in Msgs : /\ pc'[n] = "Admitted" <=> pc[n] = "Admitted"
                          /\ Refused(n)' <=> Refused(n)
      BY <1>5, <2>1 DEF Send, Types, Refused, Goto
    <3>2. QED
      BY <1>5, <2>1, <3>1, AccountingFrame DEF Send, outVars, lostVars
  <2>2. CASE ~closed
    <3>1. /\ queue' = Append(queue, m) /\ pc' = [pc EXCEPT ![m] = "Admitted"]
          /\ UNCHANGED <<hand, delivered, discarded, reports, reported, closed>>
      BY <1>5, <2>2 DEF Send, Goto, outVars, lostVars
    <3>2. pc[m] = "counted"
      BY <1>5 DEF Send
    <3>3. ~OccursIn(m, queue) /\ hand # m /\ m \notin delivered /\ ~OccursIn(m, discarded)
      BY <1>0, <3>2 DEF AccountedFor
    <3>4. ASSUME NEW n \in Msgs PROVE AccountedFor(n)'
      <4>1. OccursIn(n, queue)' <=> OccursIn(n, queue) \/ n = m
        BY <3>1, OccursAfterSend DEF OccursIn
      <4>2. pc'[n] = IF n = m THEN "Admitted" ELSE pc[n]
        BY <3>1 DEF Types
      <4>3. OccursIn(n, discarded)' <=> OccursIn(n, discarded)
        BY <3>1 DEF OccursIn
      <4>4. QED
        BY <1>0, <3>1, <3>2, <3>3, <4>1, <4>2, <4>3, UnreportedIs DEF AccountedFor, Refused
    <3>5. NoRepeats'
      BY <1>0, <3>1, <3>3, ChannelSend DEF NoRepeats, OccursIn
    <3>6. ClosedShape'
      BY <1>0, <2>2, <3>1 DEF ClosedShape
    <3>7. QED
      BY <3>4, <3>5, <3>6 DEF Accounting, CallsAreAccounted
  <2>3. QED
    BY <2>1, <2>2
<1>6. ASSUME NEW m \in Msgs, Refuse(m) PROVE Accounting'
  <2>1. /\ pc[m] = "refusing" /\ pc'[m] \in {"marking", "Refused"}
        /\ \A n \in Msgs \ {m} : pc'[n] = pc[n]
        /\ UNCHANGED <<queue, hand, delivered, discarded, reported, closed>>
    BY <1>6 DEF Refuse, Goto, outVars, Types
  <2>2. m \notin Unreported /\ m \notin reported
    BY <1>0, <2>1 DEF AccountedFor, Refused
  <2>3. /\ Cause(m) \in Causes
        /\ reports' = [reports EXCEPT ![Cause(m)] = @ \cup {m}]
    BY <1>6 DEF Refuse, Cause, Causes
  <2>4. ASSUME NEW n \in Msgs PROVE AccountedFor(n)'
    <3>1. CASE n = m
      <4>1. m \in Unreported' /\ ~(m \in reports'["overflow"] /\ m \in reports'["pressure"])
        BY <2>2, <2>3, UnreportedIs DEF Types, Causes
      <4>2. QED
        BY <1>0, <2>1, <2>2, <3>1, <4>1 DEF AccountedFor, Refused, OccursIn
    <3>2. CASE n # m
      <4>1. \A c \in Causes : n \in reports'[c] <=> n \in reports[c]
        BY <2>3, <3>2 DEF Types
      <4>2. QED
        BY <1>0, <2>1, <3>2, <4>1, UnreportedIs DEF AccountedFor, Refused, OccursIn, Causes
    <3>3. QED
      BY <3>1, <3>2
  <2>5. NoRepeats' /\ ClosedShape'
    BY <1>0, <2>1 DEF NoRepeats, ClosedShape
  <2>6. QED
    BY <2>4, <2>5 DEF Accounting, CallsAreAccounted
<1>7. ASSUME NEW m \in Msgs, CountMarker(m) PROVE Accounting'
  <2>1. \A n \in Msgs : /\ pc'[n] = "Admitted" <=> pc[n] = "Admitted"
                        /\ Refused(n)' <=> Refused(n)
    BY <1>7 DEF CountMarker, Types, Refused, Goto, callVars
  <2>2. QED
    BY <1>7, <2>1, AccountingFrame DEF CountMarker, outVars, lostVars
<1>8. ASSUME NEW m \in Msgs, SendMarker(m) PROVE Accounting'
  <2> Marker \in Queued /\ queue \in Seq(Queued)
    BY DEF Queued, Types
  <2>1. \A n \in Msgs : /\ pc'[n] = "Admitted" <=> pc[n] = "Admitted"
                        /\ Refused(n)' <=> Refused(n)
    BY <1>8 DEF SendMarker, Types, Refused, Goto
  <2>2. CASE closed
    BY <1>8, <2>1, <2>2, AccountingFrame DEF SendMarker, outVars, lostVars
  <2>3. CASE ~closed
    <3>1. /\ queue' = Append(queue, Marker)
          /\ UNCHANGED <<hand, delivered, discarded, reports, reported, closed>>
      BY <1>8, <2>3 DEF SendMarker, outVars, lostVars
    <3>2. ASSUME NEW n \in Msgs PROVE AccountedFor(n)'
      <4>1. OccursIn(n, queue)' <=> OccursIn(n, queue)
        BY <3>1, OccursAfterSend, Tags DEF OccursIn
      <4>2. OccursIn(n, discarded)' <=> OccursIn(n, discarded)
        BY <3>1 DEF OccursIn
      <4>3. QED
        BY <1>0, <2>1, <3>1, <4>1, <4>2, UnreportedIs DEF AccountedFor
    <3>3. NoRepeats'
      BY <1>0, <3>1, ChannelSend, Tags DEF NoRepeats
    <3>4. ClosedShape'
      BY <1>0, <2>3, <3>1 DEF ClosedShape
    <3>5. QED
      BY <3>2, <3>3, <3>4 DEF Accounting, CallsAreAccounted
  <2>4. QED
    BY <2>2, <2>3
<1>9. ASSUME NEW r \in Readers, StopReader(r) PROVE Accounting'
  <2>1. \A n \in Msgs : /\ pc'[n] = "Admitted" <=> pc[n] = "Admitted"
                        /\ Refused(n)' <=> Refused(n)
    BY <1>9 DEF StopReader, Types, Refused, Goto, callVars
  <2>2. QED
    BY <1>9, <2>1, AccountingFrame DEF StopReader, outVars, lostVars
<1>10. ASSUME Pop PROVE Accounting'
  <2>1. /\ ~closed /\ hand = Nothing /\ queue # <<>> /\ queue \in Seq(Queued)
        /\ hand' = Head(queue) /\ queue' = Tail(queue)
        /\ UNCHANGED <<pc, delivered, discarded, reports, reported, closed>>
    BY <1>10 DEF Pop, Receiving, callVars, outVars, lostVars, Types
  <2>2. ASSUME NEW n \in Msgs PROVE AccountedFor(n)'
    <3>1. OccursIn(n, queue) <=> OccursIn(n, queue)' \/ n = hand'
      BY <2>1, OccursAfterReceive DEF OccursIn
    <3>2. ASSUME n = hand', OccursIn(n, queue)' PROVE FALSE
      <4>1. PICK i \in DOMAIN Tail(queue) : Tail(queue)[i] = n
        BY <2>1, <3>2 DEF OccursIn
      <4>2. i + 1 \in DOMAIN queue /\ 1 \in DOMAIN queue /\ queue[i + 1] = queue[1]
              /\ queue[1] = n /\ i + 1 # 1
        BY <2>1, <3>2, <4>1, ChannelReceive
      <4>3. QED
        BY <1>0, <4>2 DEF NoRepeats
    <3>3. OccursIn(n, discarded)' <=> OccursIn(n, discarded)
      BY <2>1 DEF OccursIn
    <3>4. QED
      BY <1>0, <2>1, <3>1, <3>2, <3>3, UnreportedIs, Tags DEF AccountedFor, Refused
  <2>3. NoRepeats'
    <3>1. ASSUME NEW i \in DOMAIN Tail(queue), NEW j \in DOMAIN Tail(queue),
                 Tail(queue)[i] \in Msgs, Tail(queue)[i] = Tail(queue)[j]
          PROVE  i = j
      <4>1. /\ i + 1 \in DOMAIN queue /\ j + 1 \in DOMAIN queue
            /\ queue[i + 1] \in Msgs /\ queue[i + 1] = queue[j + 1]
        BY <2>1, <3>1, ChannelReceive
      <4>2. i + 1 = j + 1
        BY <1>0, <4>1 DEF NoRepeats
      <4>3. QED
        BY <2>1, <4>2, ChannelReceive
    <3>2. QED
      BY <2>1, <3>1 DEF NoRepeats
  <2>4. ClosedShape'
    BY <1>0, <2>1 DEF ClosedShape
  <2>5. QED
    BY <2>2, <2>3, <2>4 DEF Accounting, CallsAreAccounted
<1>11. ASSUME ReceiveRecords PROVE Accounting'
  <2>1. /\ ~closed /\ hand \in Msgs /\ hand' = Nothing
        /\ delivered' = delivered \cup {hand}
        /\ UNCHANGED <<pc, queue, discarded, reports, reported, closed>>
    BY <1>11 DEF ReceiveRecords, Receiving, callVars, lostVars
  <2>2. ASSUME NEW n \in Msgs PROVE AccountedFor(n)'
    <3>1. /\ OccursIn(n, queue)' <=> OccursIn(n, queue)
          /\ ~OccursIn(n, discarded) /\ ~OccursIn(n, discarded)'
      BY <1>0, <2>1 DEF OccursIn, ClosedShape
    <3>2. QED
      BY <1>0, <2>1, <3>1, UnreportedIs, Tags DEF AccountedFor, Refused
  <2>3. NoRepeats' /\ ClosedShape'
    BY <1>0, <2>1 DEF NoRepeats, ClosedShape
  <2>4. QED
    BY <2>2, <2>3 DEF Accounting, CallsAreAccounted
<1>12. ASSUME ReleaseMarker PROVE Accounting'
  <2>1. hand \notin Msgs /\ hand' \notin Msgs /\ ~closed
    BY <1>12, Tags DEF ReleaseMarker, Receiving
  <2>2. \A n \in Msgs : /\ pc'[n] = "Admitted" <=> pc[n] = "Admitted"
                        /\ Refused(n)' <=> Refused(n)
    BY <1>12 DEF ReleaseMarker, callVars, Refused
  <2>3. QED
    BY <1>12, <2>1, <2>2, AccountingFrame DEF ReleaseMarker, outVars, lostVars
<1>13. ASSUME TakeLost PROVE Accounting'
  <2>1. /\ ~closed /\ hand \notin Msgs /\ hand' \notin Msgs
        /\ reports' = [c \in Causes |-> {}] /\ reported' = reported \cup Unreported
        /\ UNCHANGED <<pc, queue, delivered, discarded, closed>>
    BY <1>13, Tags DEF TakeLost, Receiving, callVars
  <2>2. ASSUME NEW n \in Msgs PROVE AccountedFor(n)'
    <3>1. n \notin reports'["overflow"] /\ n \notin reports'["pressure"] /\ n \notin Unreported'
      BY <2>1, UnreportedIs DEF Causes
    <3>2. QED
      BY <1>0, <2>1, <3>1 DEF AccountedFor, Refused, OccursIn
  <2>3. NoRepeats' /\ ClosedShape'
    BY <1>0, <2>1 DEF NoRepeats, ClosedShape
  <2>4. QED
    BY <2>2, <2>3 DEF Accounting, CallsAreAccounted
<1>14. ASSUME NEW on \in BOOLEAN, SetMemoryPressure(on) PROVE Accounting'
  <2>1. \A n \in Msgs : /\ pc'[n] = "Admitted" <=> pc[n] = "Admitted"
                        /\ Refused(n)' <=> Refused(n)
    BY <1>14 DEF SetMemoryPressure, Types, Refused, Goto, callVars
  <2>2. QED
    BY <1>14, <2>1, AccountingFrame DEF SetMemoryPressure, outVars, lostVars
<1>15. ASSUME ReceiveNone PROVE Accounting'
  <2>1. \A n \in Msgs : /\ pc'[n] = "Admitted" <=> pc[n] = "Admitted"
                        /\ Refused(n)' <=> Refused(n)
    BY <1>15 DEF ReceiveNone, Types, Refused, Goto, callVars
  <2>2. QED
    BY <1>15, <2>1, AccountingFrame DEF ReceiveNone, outVars, lostVars
<1>16. ASSUME DropReceiver PROVE Accounting'
  <2>1. /\ ~closed /\ closed' /\ hand = Nothing /\ discarded' = queue /\ queue' = <<>>
        /\ discarded = <<>>
        /\ UNCHANGED <<pc, hand, delivered, reports, reported>>
    BY <1>0, <1>16 DEF DropReceiver, Receiving, callVars, lostVars, ClosedShape
  <2>2. ASSUME NEW n \in Msgs PROVE AccountedFor(n)'
    <3>1. /\ ~OccursIn(n, queue)' /\ ~OccursIn(n, discarded)
          /\ OccursIn(n, discarded)' <=> OccursIn(n, queue)
      BY <2>1 DEF OccursIn
    <3>2. QED
      BY <1>0, <2>1, <3>1, UnreportedIs DEF AccountedFor, Refused
  <2>3. NoRepeats' /\ ClosedShape'
    BY <1>0, <2>1 DEF NoRepeats, ClosedShape
  <2>4. QED
    BY <2>2, <2>3 DEF Accounting, CallsAreAccounted
<1>17. ASSUME UNCHANGED vars PROVE Accounting'
  BY <1>17, AccountingFrame DEF vars, Refused
<1>18. QED
  BY <1>1, <1>2, <1>3, <1>4, <1>5, <1>6, <1>7, <1>8, <1>9, <1>10, <1>11, <1>12,
     <1>13, <1>14, <1>15, <1>16, <1>17 DEF Next, Call, Receive, Finished

-----------------------------------------------------------------------------
(* The byte counter *)

BytesMatch == IsFiniteSet(Units(Reserved, Size)) /\ bytes = Weight(Reserved, Size)

\* Nothing is reserved initially.
LEMMA BytesInit == Init => BytesMatch
<1> SUFFICES ASSUME Init PROVE BytesMatch
  OBVIOUS
<1>1. Reserved = {}
  BY DEF Init, Reserved
<1>2. QED
  BY <1>1, WeightOfEmpty DEF Init, BytesMatch

\* A step that changes neither the counter nor the reservations.
LEMMA BytesFrame ==
  ASSUME BytesMatch, bytes' = bytes, Reserved' = Reserved
  PROVE  BytesMatch'
BY DEF BytesMatch

\* A step that takes one reservation off, and its size.
LEMMA BytesRelease ==
  ASSUME BytesMatch, NEW m \in Reserved, m \in Msgs,
         bytes' = bytes - Size[m], Reserved' = Reserved \ {m}
  PROVE  BytesMatch'
<1>1. Size[m] \in Nat
  BY MsgsAssumption
<1>2. QED
  BY <1>1, WeightOfLess DEF BytesMatch

\* Every step keeps the byte counter exact.
LEMMA BytesStep == Types /\ Accounting /\ BytesMatch /\ [Next]_vars => BytesMatch'
<1> SUFFICES ASSUME Types, Accounting, BytesMatch, [Next]_vars PROVE BytesMatch'
  OBVIOUS
<1>0. \A m \in Msgs : AccountedFor(m)
  BY DEF Accounting, CallsAreAccounted
<1>1. ASSUME NEW m \in Msgs, TrySend(m) PROVE BytesMatch'
  <2>1. Reserved' = Reserved
    BY <1>1 DEF TrySend, Reserved, Goto, Types, callVars, outVars
  <2>2. QED
    BY <1>1, <2>1, BytesFrame DEF TrySend
<1>2. ASSUME NEW m \in Msgs, LoadPressure(m) PROVE BytesMatch'
  <2>1. Reserved' = Reserved
    BY <1>2 DEF LoadPressure, Reserved, Goto, Types, callVars, outVars
  <2>2. QED
    BY <1>2, <2>1, BytesFrame DEF LoadPressure
<1>3. ASSUME NEW m \in Msgs, Reserve(m) PROVE BytesMatch'
  <2>1. CASE Fits(m)
    <3>1. m \notin Reserved /\ Reserved' = Reserved \cup {m} /\ bytes' = bytes + Size[m]
      BY <1>3, <2>1 DEF Reserve, Reserved, Goto, Types, outVars
    <3>2. Size[m] \in Nat
      BY MsgsAssumption
    <3>3. QED
      BY <3>1, <3>2, WeightOfMore DEF BytesMatch
  <2>2. CASE ~Fits(m)
    <3>1. Reserved' = Reserved /\ bytes' = bytes
      BY <1>3, <2>2 DEF Reserve, Reserved, Goto, Types, outVars
    <3>2. QED
      BY <3>1, BytesFrame
  <2>3. QED
    BY <2>1, <2>2
<1>4. ASSUME NEW m \in Msgs, Count(m) PROVE BytesMatch'
  <2>1. Reserved' = Reserved
    BY <1>4 DEF Count, Reserved, Goto, Types, callVars, outVars
  <2>2. QED
    BY <1>4, <2>1, BytesFrame DEF Count
<1>5. ASSUME NEW m \in Msgs, Send(m) PROVE BytesMatch'
  <2>1. m \in Reserved /\ m \notin delivered
    BY <1>0, <1>5 DEF Send, Reserved, AccountedFor
  <2>2. CASE closed
    <3>1. Reserved' = Reserved \ {m} /\ bytes' = bytes - Size[m]
      BY <1>5, <2>2 DEF Send, Reserved, Goto, Types, outVars
    <3>2. QED
      BY <2>1, <3>1, BytesRelease
  <2>3. CASE ~closed
    <3>1. Reserved' = Reserved /\ bytes' = bytes
      BY <1>5, <2>1, <2>3 DEF Send, Reserved, Goto, Types, outVars
    <3>2. QED
      BY <3>1, BytesFrame
  <2>4. QED
    BY <2>2, <2>3
<1>6. ASSUME NEW m \in Msgs, Refuse(m) PROVE BytesMatch'
  <2>1. Reserved' = Reserved
    BY <1>6 DEF Refuse, Reserved, Goto, Types, callVars, outVars
  <2>2. QED
    BY <1>6, <2>1, BytesFrame DEF Refuse
<1>7. ASSUME NEW m \in Msgs, CountMarker(m) PROVE BytesMatch'
  <2>1. Reserved' = Reserved
    BY <1>7 DEF CountMarker, Reserved, Goto, Types, callVars, outVars
  <2>2. QED
    BY <1>7, <2>1, BytesFrame DEF CountMarker
<1>8. ASSUME NEW m \in Msgs, SendMarker(m) PROVE BytesMatch'
  <2>1. Reserved' = Reserved
    BY <1>8 DEF SendMarker, Reserved, Goto, Types, callVars, outVars
  <2>2. QED
    BY <1>8, <2>1, BytesFrame DEF SendMarker
<1>9. ASSUME NEW r \in Readers, StopReader(r) PROVE BytesMatch'
  <2>1. Reserved' = Reserved
    BY <1>9 DEF StopReader, Reserved, Goto, Types, callVars, outVars
  <2>2. QED
    BY <1>9, <2>1, BytesFrame DEF StopReader
<1>10. ASSUME Pop PROVE BytesMatch'
  <2>1. Reserved' = Reserved
    BY <1>10 DEF Pop, Reserved, Goto, Types, callVars, outVars
  <2>2. QED
    BY <1>10, <2>1, BytesFrame DEF Pop
<1>11. ASSUME ReceiveRecords PROVE BytesMatch'
  <2>1. hand \in Msgs /\ hand \in Reserved /\ pc[hand] = "Admitted"
    BY <1>0, <1>11 DEF ReceiveRecords, Reserved, AccountedFor
  <2>2. Reserved' = Reserved \ {hand} /\ bytes' = bytes - Size[hand]
    BY <1>11, <2>1 DEF ReceiveRecords, Reserved, callVars
  <2>3. QED
    BY <2>1, <2>2, BytesRelease
<1>12. ASSUME ReleaseMarker PROVE BytesMatch'
  <2>1. Reserved' = Reserved
    BY <1>12 DEF ReleaseMarker, Reserved, Goto, Types, callVars, outVars
  <2>2. QED
    BY <1>12, <2>1, BytesFrame DEF ReleaseMarker
<1>13. ASSUME TakeLost PROVE BytesMatch'
  <2>1. Reserved' = Reserved
    BY <1>13 DEF TakeLost, Reserved, Goto, Types, callVars, outVars
  <2>2. QED
    BY <1>13, <2>1, BytesFrame DEF TakeLost
<1>14. ASSUME NEW on \in BOOLEAN, SetMemoryPressure(on) PROVE BytesMatch'
  <2>1. Reserved' = Reserved
    BY <1>14 DEF SetMemoryPressure, Reserved, Goto, Types, callVars, outVars
  <2>2. QED
    BY <1>14, <2>1, BytesFrame DEF SetMemoryPressure
<1>15. ASSUME ReceiveNone PROVE BytesMatch'
  <2>1. Reserved' = Reserved
    BY <1>15 DEF ReceiveNone, Reserved, Goto, Types, callVars, outVars
  <2>2. QED
    BY <1>15, <2>1, BytesFrame DEF ReceiveNone
<1>16. ASSUME DropReceiver PROVE BytesMatch'
  <2>1. Reserved' = Reserved
    BY <1>16 DEF DropReceiver, Reserved, Goto, Types, callVars, outVars
  <2>2. QED
    BY <1>16, <2>1, BytesFrame DEF DropReceiver
<1>17. ASSUME UNCHANGED vars PROVE BytesMatch'
  <2>1. Reserved' = Reserved
    BY <1>17 DEF vars, Reserved, Goto, Types, callVars, outVars
  <2>2. QED
    BY <1>17, <2>1, BytesFrame DEF vars
<1>18. QED
  BY <1>1, <1>2, <1>3, <1>4, <1>5, <1>6, <1>7, <1>8, <1>9, <1>10, <1>11, <1>12,
     <1>13, <1>14, <1>15, <1>16, <1>17 DEF Next, Call, Receive, Finished

-----------------------------------------------------------------------------
(* The message counter *)

InHand == IF hand \in Queued THEN 1 ELSE 0

MessagesMatch ==
  /\ IsFiniteSet(Sending)
  /\ messages = Cardinality(Sending) + Len(queue) + Len(discarded) + InHand

\* Nothing is counted initially.
LEMMA MessagesInit == Init => MessagesMatch
<1> SUFFICES ASSUME Init PROVE MessagesMatch
  OBVIOUS
<1>1. Sending = {} /\ Nothing \notin Queued
  BY Tags DEF Init, Sending, Queued, Nothing, Marker
<1>2. Len(queue) = 0 /\ Len(discarded) = 0 /\ InHand = 0
  BY <1>1 DEF Init, InHand
<1>3. QED
  BY <1>1, <1>2, FS_EmptySet DEF Init, MessagesMatch

\* A step that moves none of what is counted.
LEMMA MessagesFrame ==
  ASSUME MessagesMatch, UNCHANGED <<messages, queue, discarded>>, InHand' = InHand,
         Sending' = Sending
  PROVE  MessagesMatch'
BY DEF MessagesMatch

\* Every step keeps the message counter exact.
LEMMA MessagesStep == Types /\ Accounting /\ MessagesMatch /\ [Next]_vars => MessagesMatch'
<1> SUFFICES ASSUME Types, Accounting, MessagesMatch, [Next]_vars PROVE MessagesMatch'
  OBVIOUS
<1>0. /\ messages \in Int /\ Len(queue) \in Nat /\ Len(discarded) \in Nat
      /\ InHand \in Nat /\ Cardinality(Sending) \in Nat /\ IsFiniteSet(Sending)
      /\ messages = Cardinality(Sending) + Len(queue) + Len(discarded) + InHand
  BY FS_CardinalityType DEF Types, MessagesMatch, InHand
<1>a. /\ \A n \in Msgs : n \in Queued
      /\ Marker \in Queued /\ Taking \notin Queued /\ Nothing \notin Queued
  BY Tags DEF Queued, Marker, Taking, Nothing
<1>1. ASSUME NEW m \in Msgs, TrySend(m) PROVE MessagesMatch'
  <2>1. Sending' = Sending
    BY <1>1 DEF TrySend, Sending, Goto, Types, callVars
  <2>2. QED
    BY <1>1, <2>1, MessagesFrame DEF TrySend, InHand, outVars
<1>2. ASSUME NEW m \in Msgs, LoadPressure(m) PROVE MessagesMatch'
  <2>1. Sending' = Sending
    BY <1>2 DEF LoadPressure, Sending, Goto, Types, callVars
  <2>2. QED
    BY <1>2, <2>1, MessagesFrame DEF LoadPressure, InHand, outVars
<1>3. ASSUME NEW m \in Msgs, Reserve(m) PROVE MessagesMatch'
  <2>1. Sending' = Sending
    BY <1>3 DEF Reserve, Sending, Goto, Types, callVars
  <2>2. QED
    BY <1>3, <2>1, MessagesFrame DEF Reserve, InHand, outVars
<1>4. ASSUME NEW m \in Msgs, Count(m) PROVE MessagesMatch'
  <2>1. m \notin Sending /\ Sending' = Sending \cup {m}
    BY <1>4 DEF Count, Sending, Goto, Types
  <2>2. IsFiniteSet(Sending') /\ Cardinality(Sending') = Cardinality(Sending) + 1
    BY <1>0, <2>1, FS_AddElement
  <2>3. UNCHANGED <<queue, discarded>> /\ InHand' = InHand /\ messages' = messages + 1
    BY <1>4 DEF Count, InHand, outVars
  <2>4. QED
    BY <1>0, <2>2, <2>3 DEF MessagesMatch
<1>5. ASSUME NEW m \in Msgs, Send(m) PROVE MessagesMatch'
  <2>1. m \in Sending /\ Sending' = Sending \ {m}
    BY <1>5 DEF Send, Sending, Goto, Types
  <2>2. IsFiniteSet(Sending') /\ Cardinality(Sending') = Cardinality(Sending) - 1
    BY <1>0, <2>1, FS_RemoveElement
  <2>3. discarded' = discarded /\ InHand' = InHand
    BY <1>5 DEF Send, InHand, outVars
  <2>4. CASE closed
    <3>1. queue' = queue /\ messages' = messages - 1
      BY <1>5, <2>4 DEF Send
    <3>2. QED
      BY <1>0, <2>2, <2>3, <3>1 DEF MessagesMatch
  <2>5. CASE ~closed
    <3>1. queue' = Append(queue, m) /\ messages' = messages /\ queue \in Seq(Queued)
      BY <1>5, <2>5 DEF Send, Types
    <3>2. Len(queue') = Len(queue) + 1
      BY <1>a, <3>1, ChannelSend
    <3>3. QED
      BY <1>0, <2>2, <2>3, <3>1, <3>2 DEF MessagesMatch
  <2>6. QED
    BY <2>4, <2>5
<1>6. ASSUME NEW m \in Msgs, Refuse(m) PROVE MessagesMatch'
  <2>1. Sending' = Sending
    BY <1>6 DEF Refuse, Sending, Goto, Types, callVars
  <2>2. QED
    BY <1>6, <2>1, MessagesFrame DEF Refuse, InHand, outVars
<1>7. ASSUME NEW m \in Msgs, CountMarker(m) PROVE MessagesMatch'
  <2>1. m \notin Sending /\ Sending' = Sending \cup {m}
    BY <1>7 DEF CountMarker, Sending, Goto, Types
  <2>2. IsFiniteSet(Sending') /\ Cardinality(Sending') = Cardinality(Sending) + 1
    BY <1>0, <2>1, FS_AddElement
  <2>3. UNCHANGED <<queue, discarded>> /\ InHand' = InHand /\ messages' = messages + 1
    BY <1>7 DEF CountMarker, InHand, outVars
  <2>4. QED
    BY <1>0, <2>2, <2>3 DEF MessagesMatch
<1>8. ASSUME NEW m \in Msgs, SendMarker(m) PROVE MessagesMatch'
  <2>1. m \in Sending /\ Sending' = Sending \ {m}
    BY <1>8 DEF SendMarker, Sending, Goto, Types
  <2>2. IsFiniteSet(Sending') /\ Cardinality(Sending') = Cardinality(Sending) - 1
    BY <1>0, <2>1, FS_RemoveElement
  <2>3. discarded' = discarded /\ InHand' = InHand
    BY <1>8 DEF SendMarker, InHand, outVars
  <2>4. CASE closed
    <3>1. queue' = queue /\ messages' = messages - 1
      BY <1>8, <2>4 DEF SendMarker
    <3>2. QED
      BY <1>0, <2>2, <2>3, <3>1 DEF MessagesMatch
  <2>5. CASE ~closed
    <3>1. queue' = Append(queue, Marker) /\ messages' = messages /\ queue \in Seq(Queued)
      BY <1>8, <2>5 DEF SendMarker, Types
    <3>2. Len(queue') = Len(queue) + 1
      BY <1>a, <3>1, ChannelSend
    <3>3. QED
      BY <1>0, <2>2, <2>3, <3>1, <3>2 DEF MessagesMatch
  <2>6. QED
    BY <2>4, <2>5
<1>9. ASSUME NEW r \in Readers, StopReader(r) PROVE MessagesMatch'
  <2>1. Sending' = Sending
    BY <1>9 DEF StopReader, Sending, Goto, Types, callVars
  <2>2. QED
    BY <1>9, <2>1, MessagesFrame DEF StopReader, InHand, outVars
<1>10. ASSUME Pop PROVE MessagesMatch'
  <2>1. /\ Sending' = Sending /\ messages' = messages /\ discarded' = discarded
        /\ queue \in Seq(Queued) /\ queue # <<>> /\ queue' = Tail(queue)
        /\ hand = Nothing /\ hand' = Head(queue)
    BY <1>10 DEF Pop, Sending, callVars, outVars, Types
  <2>2. Len(queue') = Len(queue) - 1 /\ InHand = 0 /\ InHand' = 1
    BY <1>a, <2>1, ChannelReceive DEF InHand
  <2>3. QED
    BY <1>0, <2>1, <2>2 DEF MessagesMatch
<1>11. ASSUME ReceiveRecords PROVE MessagesMatch'
  <2>1. /\ Sending' = Sending /\ messages' = messages - 1 /\ UNCHANGED <<queue, discarded>>
        /\ InHand = 1 /\ InHand' = 0
    BY <1>a, <1>11 DEF ReceiveRecords, Sending, callVars, InHand
  <2>2. QED
    BY <1>0, <2>1 DEF MessagesMatch
<1>12. ASSUME ReleaseMarker PROVE MessagesMatch'
  <2>1. /\ Sending' = Sending /\ messages' = messages - 1 /\ UNCHANGED <<queue, discarded>>
        /\ InHand = 1 /\ InHand' = 0
    BY <1>a, <1>12 DEF ReleaseMarker, Sending, callVars, outVars, InHand
  <2>2. QED
    BY <1>0, <2>1 DEF MessagesMatch
<1>13. ASSUME TakeLost PROVE MessagesMatch'
  <2>1. Sending' = Sending /\ InHand = 0 /\ InHand' = 0
    BY <1>a, <1>13 DEF TakeLost, Sending, callVars, InHand
  <2>2. QED
    BY <1>13, <2>1, MessagesFrame DEF TakeLost
<1>14. ASSUME NEW on \in BOOLEAN, SetMemoryPressure(on) PROVE MessagesMatch'
  <2>1. Sending' = Sending
    BY <1>14 DEF SetMemoryPressure, Sending, Goto, Types, callVars
  <2>2. QED
    BY <1>14, <2>1, MessagesFrame DEF SetMemoryPressure, InHand, outVars
<1>15. ASSUME ReceiveNone PROVE MessagesMatch'
  <2>1. Sending' = Sending
    BY <1>15 DEF ReceiveNone, Sending, Goto, Types, callVars
  <2>2. QED
    BY <1>15, <2>1, MessagesFrame DEF ReceiveNone, InHand, outVars
<1>16. ASSUME DropReceiver PROVE MessagesMatch'
  <2>1. /\ Sending' = Sending /\ messages' = messages /\ InHand' = InHand
        /\ discarded = <<>> /\ discarded' = queue /\ queue' = <<>>
    BY <1>16 DEF DropReceiver, Receiving, Sending, callVars, InHand, Accounting, ClosedShape
  <2>2. Len(discarded) = 0 /\ Len(queue') = 0 /\ Len(discarded') = Len(queue)
    BY <2>1
  <2>3. QED
    BY <1>0, <2>1, <2>2 DEF MessagesMatch
<1>17. ASSUME UNCHANGED vars PROVE MessagesMatch'
  <2>1. Sending' = Sending
    BY <1>17 DEF vars, Sending, Goto, Types, callVars
  <2>2. QED
    BY <1>17, <2>1, MessagesFrame DEF vars, InHand, outVars
<1>18. QED
  BY <1>1, <1>2, <1>3, <1>4, <1>5, <1>6, <1>7, <1>8, <1>9, <1>10, <1>11, <1>12,
     <1>13, <1>14, <1>15, <1>16, <1>17 DEF Next, Call, Receive, Finished

-----------------------------------------------------------------------------
(* The gap marker *)

\* The markers there are, now and after the step, by where they are.
LEMMA MarkersAre ==
  /\ \A x : x \in Markers <=>
       \/ \E m \in Msgs : x = <<"call", m>> /\ pc[m] \in {"marking", "marked"}
       \/ \E i \in DOMAIN queue : x = <<"queue", i>> /\ queue[i] = Marker
       \/ x = <<"hand", hand>> /\ hand \in {Marker, Taking}
  /\ \A x : x \in Markers' <=>
       \/ \E m \in Msgs : x = <<"call", m>> /\ pc'[m] \in {"marking", "marked"}
       \/ \E i \in DOMAIN queue' : x = <<"queue", i>> /\ queue'[i] = Marker
       \/ x = <<"hand", hand'>> /\ hand' \in {Marker, Taking}
BY DEF Markers

\* When there is one marker, whatever looks like a marker is that one.
LEMMA OnlyMarker ==
  ASSUME NEW k \in Markers, \E x : Markers = {x}
  PROVE  /\ \A n \in Msgs : pc[n] \in {"marking", "marked"} => k = <<"call", n>>
         /\ \A i \in DOMAIN queue : queue[i] = Marker => k = <<"queue", i>>
         /\ hand \in {Marker, Taking} => k = <<"hand", hand>>
<1>1. ASSUME NEW n \in Msgs, pc[n] \in {"marking", "marked"} PROVE k = <<"call", n>>
  <2>1. <<"call", n>> \in Markers
    BY <1>1, MarkersAre
  <2>2. QED
    BY <2>1
<1>2. ASSUME NEW i \in DOMAIN queue, queue[i] = Marker PROVE k = <<"queue", i>>
  <2>1. <<"queue", i>> \in Markers
    BY <1>2, MarkersAre
  <2>2. QED
    BY <2>1
<1>3. ASSUME hand \in {Marker, Taking} PROVE k = <<"hand", hand>>
  <2>1. <<"hand", hand>> \in Markers
    BY <1>3, MarkersAre
  <2>2. QED
    BY <2>1
<1>4. QED
  BY <1>1, <1>2, <1>3

\* There is no marker initially, and no report.
LEMMA MarkerInit == Init => OneMarkerPerEpisode
<1> SUFFICES ASSUME Init PROVE OneMarkerPerEpisode
  OBVIOUS
<1>1. Markers = {}
  BY MarkersAre DEF Init, Nothing, Marker, Taking
<1>2. Unreported = {}
  BY UnreportedIs DEF Init, Causes
<1>3. QED
  BY <1>1, <1>2 DEF Init, OneMarkerPerEpisode

\* A step that touches neither the marker nor the reports.
LEMMA MarkerFrame ==
  ASSUME OneMarkerPerEpisode, UNCHANGED <<reports, markerQueued, closed>>,
         Markers' = Markers
  PROVE  OneMarkerPerEpisode'
BY UnreportedIs DEF OneMarkerPerEpisode

\* A step of a call that is not about markers.
LEMMA MarkerCallFrame ==
  ASSUME OneMarkerPerEpisode, UNCHANGED <<reports, markerQueued, closed, queue, hand>>,
         \A n \in Msgs : pc'[n] \in {"marking", "marked"} <=> pc[n] \in {"marking", "marked"}
  PROVE  OneMarkerPerEpisode'
<1>1. \A x : x \in Markers' <=> x \in Markers
  BY MarkersAre
<1>2. Markers' = Markers
  BY <1>1
<1>3. QED
  BY <1>2, MarkerFrame

\* Every step keeps one marker per episode.
LEMMA MarkerStep ==
  Types /\ Accounting /\ OneMarkerPerEpisode /\ [Next]_vars => OneMarkerPerEpisode'
<1> SUFFICES ASSUME Types, Accounting, OneMarkerPerEpisode, [Next]_vars
             PROVE  OneMarkerPerEpisode'
  OBVIOUS
<1>0. /\ ~closed /\ markerQueued => \E k \in Markers : Markers = {k}
      /\ ~closed /\ ~markerQueued => Markers = {} /\ Unreported = {}
  BY DEF OneMarkerPerEpisode
<1>a. closed => closed'
  BY DEF Next, Call, Receive, Finished, vars, TrySend, LoadPressure, Reserve, Count,
     Send, Refuse, CountMarker, SendMarker, StopReader, Pop, ReceiveRecords,
     ReleaseMarker, TakeLost, SetMemoryPressure, ReceiveNone, DropReceiver
<1>1. ASSUME NEW m \in Msgs, TrySend(m) PROVE OneMarkerPerEpisode'
  <2>1. \A n \in Msgs : pc'[n] \in {"marking", "marked"} <=> pc[n] \in {"marking", "marked"}
    BY <1>1 DEF TrySend, Goto, Types, callVars
  <2>2. QED
    BY <1>1, <2>1, MarkerCallFrame DEF TrySend, lostVars
<1>2. ASSUME NEW m \in Msgs, LoadPressure(m) PROVE OneMarkerPerEpisode'
  <2>1. \A n \in Msgs : pc'[n] \in {"marking", "marked"} <=> pc[n] \in {"marking", "marked"}
    BY <1>2 DEF LoadPressure, Goto, Types, callVars
  <2>2. QED
    BY <1>2, <2>1, MarkerCallFrame DEF LoadPressure, lostVars
<1>3. ASSUME NEW m \in Msgs, Reserve(m) PROVE OneMarkerPerEpisode'
  <2>1. \A n \in Msgs : pc'[n] \in {"marking", "marked"} <=> pc[n] \in {"marking", "marked"}
    BY <1>3 DEF Reserve, Goto, Types, callVars
  <2>2. QED
    BY <1>3, <2>1, MarkerCallFrame DEF Reserve, lostVars
<1>4. ASSUME NEW m \in Msgs, Count(m) PROVE OneMarkerPerEpisode'
  <2>1. \A n \in Msgs : pc'[n] \in {"marking", "marked"} <=> pc[n] \in {"marking", "marked"}
    BY <1>4 DEF Count, Goto, Types, callVars
  <2>2. QED
    BY <1>4, <2>1, MarkerCallFrame DEF Count, lostVars
<1>5. ASSUME NEW m \in Msgs, Send(m) PROVE OneMarkerPerEpisode'
  <2>1. \A n \in Msgs : pc'[n] \in {"marking", "marked"} <=> pc[n] \in {"marking", "marked"}
    BY <1>5 DEF Send, Goto, Types
  <2>2. CASE closed
    BY <1>5, <2>1, <2>2, MarkerCallFrame DEF Send, lostVars
  <2>3. CASE ~closed
    <3>1. /\ queue' = Append(queue, m) /\ queue \in Seq(Queued) /\ m \in Queued
          /\ UNCHANGED <<reports, markerQueued, closed, hand>>
      BY <1>5, <2>3 DEF Send, lostVars, Types, Queued
    <3>2. \A i : (i \in DOMAIN queue' /\ queue'[i] = Marker)
                   <=> (i \in DOMAIN queue /\ queue[i] = Marker)
      BY <3>1, ChannelSend, Tags
    <3>3. \A x : x \in Markers' <=> x \in Markers
      BY <2>1, <3>1, <3>2, MarkersAre
    <3>4. Markers' = Markers
      BY <3>3
    <3>5. QED
      BY <3>1, <3>4, MarkerFrame
  <2>4. QED
    BY <2>2, <2>3
<1>6. ASSUME NEW m \in Msgs, Refuse(m) PROVE OneMarkerPerEpisode'
  <2>1. CASE closed
    BY <1>a, <2>1 DEF OneMarkerPerEpisode
  <2>2. /\ markerQueued' /\ UNCHANGED <<queue, hand, closed>> /\ pc[m] = "refusing"
        /\ pc'[m] = IF markerQueued THEN "Refused" ELSE "marking"
        /\ \A n \in Msgs \ {m} : pc'[n] = pc[n]
    BY <1>6 DEF Refuse, Goto, Types
  <2>3. CASE ~closed /\ markerQueued
    <3>1. \A x : x \in Markers' <=> x \in Markers
      BY <2>2, <2>3, MarkersAre
    <3>2. Markers' = Markers
      BY <3>1
    <3>3. QED
      BY <1>0, <2>2, <2>3, <3>2 DEF OneMarkerPerEpisode
  <2>4. CASE ~closed /\ ~markerQueued
    <3>1. Markers = {}
      BY <1>0, <2>4
    <3>2. \A x : x \in Markers' <=> x = <<"call", m>>
      BY <2>2, <2>4, <3>1, MarkersAre
    <3>3. Markers' = {<<"call", m>>}
      BY <3>2
    <3>4. QED
      BY <2>2, <3>3 DEF OneMarkerPerEpisode
  <2>5. QED
    BY <2>1, <2>3, <2>4
<1>7. ASSUME NEW m \in Msgs, CountMarker(m) PROVE OneMarkerPerEpisode'
  <2>1. \A n \in Msgs : pc'[n] \in {"marking", "marked"} <=> pc[n] \in {"marking", "marked"}
    BY <1>7 DEF CountMarker, Goto, Types, callVars
  <2>2. QED
    BY <1>7, <2>1, MarkerCallFrame DEF CountMarker, lostVars
<1>8. ASSUME NEW m \in Msgs, SendMarker(m) PROVE OneMarkerPerEpisode'
  <2>1. CASE closed
    BY <1>a, <2>1 DEF OneMarkerPerEpisode
  <2>2. CASE ~closed
    <3>1. /\ queue' = Append(queue, Marker) /\ queue \in Seq(Queued) /\ Marker \in Queued
          /\ pc[m] = "marked" /\ pc'[m] = "Refused"
          /\ \A n \in Msgs \ {m} : pc'[n] = pc[n]
          /\ UNCHANGED <<reports, markerQueued, closed, hand>>
      BY <1>8, <2>2 DEF SendMarker, Goto, lostVars, Types, Queued
    <3>2. <<"call", m>> \in Markers
      BY <3>1, MarkersAre
    <3>3. markerQueued /\ Markers = {<<"call", m>>}
      BY <1>0, <2>2, <3>2 DEF Types
    <3>4. /\ \A n \in Msgs : pc[n] \in {"marking", "marked"} => n = m
          /\ \A i \in DOMAIN queue : queue[i] # Marker
          /\ hand \notin {Marker, Taking}
      BY <3>3, OnlyMarker
    <3>5. \A i : (i \in DOMAIN queue' /\ queue'[i] = Marker) <=> i = Len(queue) + 1
      BY <3>1, <3>4, ChannelSend
    <3>6. \A n \in Msgs : pc'[n] \notin {"marking", "marked"}
      BY <3>1, <3>4
    <3>7. \A x : x \in Markers' <=> x = <<"queue", Len(queue) + 1>>
      BY <3>1, <3>4, <3>5, <3>6, MarkersAre
    <3>8. Markers' = {<<"queue", Len(queue) + 1>>}
      BY <3>7
    <3>9. QED
      BY <3>1, <3>3, <3>8 DEF OneMarkerPerEpisode
  <2>3. QED
    BY <2>1, <2>2
<1>9. ASSUME NEW r \in Readers, StopReader(r) PROVE OneMarkerPerEpisode'
  <2>1. \A n \in Msgs : pc'[n] \in {"marking", "marked"} <=> pc[n] \in {"marking", "marked"}
    BY <1>9 DEF StopReader, Goto, Types, callVars
  <2>2. QED
    BY <1>9, <2>1, MarkerCallFrame DEF StopReader, lostVars
<1>10. ASSUME Pop PROVE OneMarkerPerEpisode'
  <2>1. /\ ~closed /\ hand = Nothing /\ queue # <<>> /\ queue \in Seq(Queued)
        /\ hand' = Head(queue) /\ queue' = Tail(queue)
        /\ UNCHANGED <<pc, reports, markerQueued, closed>>
    BY <1>10 DEF Pop, Receiving, callVars, lostVars, Types
  <2>2. hand \notin {Marker, Taking} /\ \A n \in Msgs : n # Marker /\ n # Taking
    BY <2>1, Tags DEF Nothing, Marker, Taking
  <2>3. /\ hand' \in {Marker, Taking} <=> queue[1] = Marker
        /\ hand' \in {Marker, Taking} => hand' = Marker
    BY <2>1, <2>2, ChannelReceive DEF Queued, Marker, Taking
  <2>4. /\ DOMAIN queue' = 1..(Len(queue) - 1) /\ DOMAIN queue = 1..Len(queue)
        /\ \A i \in DOMAIN queue' : queue'[i] = queue[i + 1]
        /\ Len(queue) \in Nat \ {0}
    BY <2>1, ChannelReceive
  <2>5. CASE ~markerQueued
    <3>1. Markers = {} /\ Unreported = {}
      BY <1>0, <2>1, <2>5
    <3>2. ASSUME NEW i \in DOMAIN queue, queue[i] = Marker PROVE FALSE
      <4>1. <<"queue", i>> \in Markers
        BY <3>2, MarkersAre
      <4>2. QED
        BY <3>1, <4>1
    <3>3. hand' \notin {Marker, Taking} /\ \A i \in DOMAIN queue' : queue'[i] # Marker
      BY <2>3, <2>4, <3>2
    <3>4. ASSUME NEW n \in Msgs, pc[n] \in {"marking", "marked"} PROVE FALSE
      <4>1. <<"call", n>> \in Markers
        BY <3>4, MarkersAre
      <4>2. QED
        BY <3>1, <4>1
    <3>5. Markers' = {}
      BY <2>1, <3>3, <3>4, MarkersAre
    <3>6. QED
      BY <2>1, <2>5, <3>1, <3>5, UnreportedIs DEF OneMarkerPerEpisode
  <2>6. CASE markerQueued
    <3>1. PICK k : Markers = {k}
      BY <1>0, <2>1, <2>6
    <3>2. \A n \in Msgs : pc[n] \in {"marking", "marked"} => k = <<"call", n>>
      BY <3>1, OnlyMarker
    <3>3. \A i \in DOMAIN queue : queue[i] = Marker => k = <<"queue", i>>
      BY <3>1, OnlyMarker
    <3>4. CASE \E n \in Msgs : k = <<"call", n>> /\ pc[n] \in {"marking", "marked"}
      <4>1. \A i \in DOMAIN queue : queue[i] # Marker
        BY <3>3, <3>4
      <4>2. hand' \notin {Marker, Taking} /\ \A i \in DOMAIN queue' : queue'[i] # Marker
        BY <2>3, <2>4, <4>1
      <4>3. \A x : x \in Markers' <=> x = k
        BY <2>1, <3>2, <3>4, <4>2, MarkersAre
      <4>4. Markers' = {k}
        BY <4>3
      <4>5. QED
        BY <2>1, <2>6, <4>4 DEF OneMarkerPerEpisode
    <3>5. CASE \E i \in DOMAIN queue : k = <<"queue", i>> /\ queue[i] = Marker
      <4>1. PICK i \in DOMAIN queue : k = <<"queue", i>> /\ queue[i] = Marker
        BY <3>5
      <4>2. \A j \in DOMAIN queue : queue[j] = Marker => j = i
        BY <3>3, <4>1
      <4>3. \A n \in Msgs : pc[n] \notin {"marking", "marked"}
        BY <3>2, <4>1
      <4>4. CASE i = 1
        <5>1. hand' = Marker /\ \A j \in DOMAIN queue' : queue'[j] # Marker
          BY <2>3, <2>4, <4>1, <4>2, <4>4
        <5>2. \A x : x \in Markers' <=> x = <<"hand", Marker>>
          BY <2>1, <4>3, <5>1, MarkersAre
        <5>3. Markers' = {<<"hand", Marker>>}
          BY <5>2
        <5>4. QED
          BY <2>1, <2>6, <5>3 DEF OneMarkerPerEpisode
      <4>5. CASE i # 1
        <5>1. hand' \notin {Marker, Taking}
          BY <2>3, <2>4, <4>2, <4>5
        <5>2. \A j : (j \in DOMAIN queue' /\ queue'[j] = Marker) <=> j = i - 1
          BY <2>4, <4>1, <4>2, <4>5
        <5>3. \A x : x \in Markers' <=> x = <<"queue", i - 1>>
          BY <2>1, <4>3, <5>1, <5>2, MarkersAre
        <5>4. Markers' = {<<"queue", i - 1>>}
          BY <5>3
        <5>5. QED
          BY <2>1, <2>6, <5>4 DEF OneMarkerPerEpisode
      <4>6. QED
        BY <4>4, <4>5
    <3>6. QED
      BY <2>2, <3>1, <3>4, <3>5, MarkersAre
  <2>7. QED
    BY <2>5, <2>6
<1>11. ASSUME ReceiveRecords PROVE OneMarkerPerEpisode'
  <2>1. /\ hand \in Msgs /\ hand' = Nothing
        /\ UNCHANGED <<pc, queue, reports, markerQueued, closed>>
    BY <1>11 DEF ReceiveRecords, callVars, lostVars
  <2>2. hand \notin {Marker, Taking} /\ hand' \notin {Marker, Taking}
    BY <2>1, Tags DEF Nothing, Marker, Taking
  <2>3. \A x : x \in Markers' <=> x \in Markers
    BY <2>1, <2>2, MarkersAre
  <2>4. Markers' = Markers
    BY <2>3
  <2>5. QED
    BY <2>1, <2>4, MarkerFrame
<1>12. ASSUME ReleaseMarker PROVE OneMarkerPerEpisode'
  <2>1. /\ hand = Marker /\ hand' = Taking /\ ~closed
        /\ UNCHANGED <<pc, queue, reports, markerQueued, closed>>
    BY <1>12 DEF ReleaseMarker, Receiving, callVars, lostVars
  <2>2. <<"hand", Marker>> \in Markers
    BY <2>1, MarkersAre
  <2>3. markerQueued /\ Markers = {<<"hand", Marker>>}
    BY <1>0, <2>1, <2>2 DEF Types
  <2>4. \A x : x \in Markers' <=> x = <<"hand", Taking>>
    <3>1. \A n \in Msgs : pc[n] \notin {"marking", "marked"}
      BY <2>3, OnlyMarker
    <3>2. \A i \in DOMAIN queue : queue[i] # Marker
      BY <2>3, OnlyMarker
    <3>3. QED
      BY <2>1, <3>1, <3>2, MarkersAre
  <2>5. Markers' = {<<"hand", Taking>>}
    BY <2>4
  <2>6. QED
    BY <2>1, <2>3, <2>5 DEF OneMarkerPerEpisode
<1>13. ASSUME TakeLost PROVE OneMarkerPerEpisode'
  <2>1. /\ hand = Taking /\ hand' = Nothing /\ ~closed /\ ~markerQueued'
        /\ reports' = [c \in Causes |-> {}] /\ UNCHANGED <<pc, queue, closed>>
    BY <1>13 DEF TakeLost, Receiving, callVars
  <2>2. <<"hand", Taking>> \in Markers
    BY <2>1, MarkersAre
  <2>3. Markers = {<<"hand", Taking>>}
    BY <1>0, <2>1, <2>2 DEF Types
  <2>4. \A n \in Msgs : pc[n] \notin {"marking", "marked"}
    BY <2>3, OnlyMarker
  <2>5. \A i \in DOMAIN queue : queue[i] # Marker
    BY <2>3, OnlyMarker
  <2>6. hand' \notin {Marker, Taking}
    BY <2>1 DEF Nothing, Marker, Taking
  <2>7. Markers' = {}
    BY <2>1, <2>4, <2>5, <2>6, MarkersAre
  <2>8. Unreported' = {}
    BY <2>1, UnreportedIs DEF Causes
  <2>9. QED
    BY <2>1, <2>7, <2>8 DEF OneMarkerPerEpisode
<1>14. ASSUME NEW on \in BOOLEAN, SetMemoryPressure(on) PROVE OneMarkerPerEpisode'
  <2>1. \A n \in Msgs : pc'[n] \in {"marking", "marked"} <=> pc[n] \in {"marking", "marked"}
    BY <1>14 DEF SetMemoryPressure, Goto, Types, callVars
  <2>2. QED
    BY <1>14, <2>1, MarkerCallFrame DEF SetMemoryPressure, lostVars
<1>15. ASSUME ReceiveNone PROVE OneMarkerPerEpisode'
  <2>1. \A n \in Msgs : pc'[n] \in {"marking", "marked"} <=> pc[n] \in {"marking", "marked"}
    BY <1>15 DEF ReceiveNone, Goto, Types, callVars
  <2>2. QED
    BY <1>15, <2>1, MarkerCallFrame DEF ReceiveNone, lostVars
<1>16. ASSUME DropReceiver PROVE OneMarkerPerEpisode'
  BY <1>16 DEF DropReceiver, OneMarkerPerEpisode
<1>17. ASSUME UNCHANGED vars PROVE OneMarkerPerEpisode'
  <2>1. \A n \in Msgs : pc'[n] \in {"marking", "marked"} <=> pc[n] \in {"marking", "marked"}
    BY <1>17 DEF vars, Goto, Types, callVars
  <2>2. QED
    BY <1>17, <2>1, MarkerCallFrame DEF vars, lostVars
<1>18. QED
  BY <1>1, <1>2, <1>3, <1>4, <1>5, <1>6, <1>7, <1>8, <1>9, <1>10, <1>11, <1>12,
     <1>13, <1>14, <1>15, <1>16, <1>17 DEF Next, Call, Receive, Finished

-----------------------------------------------------------------------------
(* The byte budget *)

\* Of the messages that hold a reservation, those that remain after some left
\* still satisfy a bound of the form "within the limit, or a single message".
LEMMA BoundSurvivesRelease ==
  ASSUME NEW S, NEW T, S \subseteq T, IsFiniteSet(Units(T, Size)), NEW limit \in Nat,
         WithinOrAlone(T, limit)
  PROVE  WithinOrAlone(S, limit)
<1>1. Weight(S, Size) <= Weight(T, Size) /\ Weight(S, Size) \in Nat /\ Weight(T, Size) \in Nat
  BY WeightOfSubset, WeightType
<1>2. CASE Weight(T, Size) <= limit
  BY <1>1, <1>2 DEF WithinOrAlone
<1>3. CASE \E m \in T : T = {m}
  <2>1. S = {} \/ S = T
    BY <1>3
  <2>2. CASE S = {}
    BY <2>2, WeightOfEmpty DEF WithinOrAlone
  <2>3. CASE S = T
    BY <1>3, <2>3 DEF WithinOrAlone
  <2>4. QED
    BY <2>1, <2>2, <2>3
<1>4. QED
  BY <1>2, <1>3 DEF WithinOrAlone

\* The limits are natural numbers, and pressure only lowers them.
LEMMA Limits ==
  /\ MaxBytes \in Nat /\ MaxBytes - MaxBytes \div 4 \in Nat
  /\ \A p \in BOOLEAN :
       /\ Budget(p) \in Nat /\ Budget(p) <= MaxBytes
       /\ Budget(p) - Budget(p) \div 4 \in Nat
       /\ Budget(p) - Budget(p) \div 4 <= MaxBytes - MaxBytes \div 4
       /\ MaxBytes - MaxBytes \div 4 <= MaxBytes
BY BudgetAssumption DEF Budget

\* Initially nothing is held.
LEMMA BudgetInit == Init => HeldBytesBounded
<1> SUFFICES ASSUME Init PROVE HeldBytesBounded
  OBVIOUS
<1>1. ReservedOf({"Attribution", "Reliability"}) = {} /\ ReservedOf({"Reliability"}) = {}
  BY DEF Init, ReservedOf, Reserved
<1>2. Weight({}, Size) <= MaxBytes /\ Weight({}, Size) <= MaxBytes - MaxBytes \div 4
  <2>1. Weight({}, Size) = 0
    BY WeightOfEmpty
  <2>2. QED
    BY <2>1, Limits
<1>3. QED
  BY <1>1, <1>2 DEF HeldBytesBounded, WithinOrAlone

\* A step that reserves nothing keeps the bounds.
LEMMA BudgetFrame ==
  ASSUME HeldBytesBounded, BytesMatch, Reserved' \subseteq Reserved
  PROVE  HeldBytesBounded'
<1>1. ASSUME NEW classes
      PROVE  /\ ReservedOf(classes)' \subseteq ReservedOf(classes)
             /\ IsFiniteSet(Units(ReservedOf(classes), Size))
  <2>1. ReservedOf(classes)' \subseteq ReservedOf(classes) /\ ReservedOf(classes) \subseteq Reserved
    BY DEF ReservedOf, admit_class, Kept
  <2>2. QED
    BY <2>1, WeightOfSubset DEF BytesMatch
<1>2. WithinOrAlone(ReservedOf({"Attribution", "Reliability"})', MaxBytes)
  BY <1>1, Limits, BoundSurvivesRelease DEF HeldBytesBounded
<1>3. WithinOrAlone(ReservedOf({"Reliability"})', MaxBytes - MaxBytes \div 4)
  BY <1>1, Limits, BoundSurvivesRelease DEF HeldBytesBounded
<1>4. QED
  BY <1>2, <1>3 DEF HeldBytesBounded, WithinOrAlone

\* What reserve admits keeps the bounds, whoever else is in the race.
LEMMA BudgetReserve ==
  ASSUME Types, BytesMatch, HeldBytesBounded, NEW m \in Msgs, Reserve(m), Fits(m)
  PROVE  HeldBytesBounded'
<1>1. m \notin Reserved /\ Reserved' = Reserved \cup {m}
  BY DEF Reserve, Reserved, Goto, Types, outVars
<1>2. /\ IsFiniteSet(Units(Reserved, Size)) /\ bytes = Weight(Reserved, Size)
      /\ Size[m] \in Nat \ {0} /\ bytes \in Nat
  BY MsgsAssumption, WeightType DEF BytesMatch
<1>3. /\ IsFiniteSet(Units(Reserved', Size))
      /\ Weight(Reserved', Size) = bytes + Size[m]
  BY <1>1, <1>2, WeightOfMore
<1>4. ASSUME NEW classes
      PROVE  /\ admit_class(m) \in classes =>
                  ReservedOf(classes)' = ReservedOf(classes) \cup {m}
             /\ admit_class(m) \notin classes =>
                  ReservedOf(classes)' = ReservedOf(classes)
             /\ ReservedOf(classes)' \subseteq Reserved'
             /\ Weight(ReservedOf(classes)', Size) <= bytes + Size[m]
             /\ Weight(ReservedOf(classes)', Size) \in Nat
  <2>1. ReservedOf(classes)' = {n \in Reserved' : admit_class(n) \in classes}
    BY DEF ReservedOf, admit_class, Kept
  <2>2. ReservedOf(classes)' \subseteq Reserved'
    BY <2>1
  <2>3. IsFiniteSet(Units(ReservedOf(classes)', Size))
          /\ Weight(ReservedOf(classes)', Size) <= Weight(Reserved', Size)
    BY <1>3, <2>2, WeightOfSubset
  <2>4. /\ admit_class(m) \in classes =>
             ReservedOf(classes)' = ReservedOf(classes) \cup {m}
        /\ admit_class(m) \notin classes =>
             ReservedOf(classes)' = ReservedOf(classes)
    BY <1>1, <2>1 DEF ReservedOf
  <2>5. QED
    BY <1>3, <2>2, <2>3, <2>4, WeightType
<1>5. CASE bytes = 0
  <2>1. Reserved = {}
    BY <1>2, <1>5, WeightZero, MsgsAssumption DEF Reserved
  <2>2. ASSUME NEW classes, NEW limit \in Nat
        PROVE  WithinOrAlone(ReservedOf(classes)', limit)
    <3>1. ReservedOf(classes) = {}
      BY <2>1 DEF ReservedOf
    <3>2. ReservedOf(classes)' = {} \/ ReservedOf(classes)' = {m}
      BY <1>4, <3>1
    <3>3. CASE ReservedOf(classes)' = {}
      BY <3>3, WeightOfEmpty DEF WithinOrAlone
    <3>4. CASE ReservedOf(classes)' = {m}
      BY <3>4 DEF WithinOrAlone
    <3>5. QED
      BY <3>2, <3>3, <3>4
  <2>3. QED
    BY <2>2, Limits DEF HeldBytesBounded, WithinOrAlone
<1>6. CASE admit_class(m) = "Agent"
  <2>1. ASSUME NEW classes \in SUBSET {"Attribution", "Reliability"}
        PROVE  ReservedOf(classes)' = ReservedOf(classes)
    BY <1>4, <1>6
  <2>2. QED
    BY <2>1 DEF HeldBytesBounded, WithinOrAlone
<1>7. CASE admit_class(m) # "Agent" /\ bytes # 0
  <2> DEFINE B == Budget(pressured[m])
  <2>0. /\ bytes + Size[m] <= IF admit_class(m) = "Reliability" THEN B - B \div 4 ELSE B
        /\ B \in Nat /\ B <= MaxBytes /\ B - B \div 4 \in Nat
        /\ B - B \div 4 <= MaxBytes - MaxBytes \div 4
        /\ MaxBytes - MaxBytes \div 4 <= MaxBytes
        /\ MaxBytes \in Nat /\ MaxBytes - MaxBytes \div 4 \in Nat
    <3>1. pressured[m] \in BOOLEAN
      BY DEF Types
    <3>2. bytes + Size[m] <= IF admit_class(m) = "Reliability" THEN B - B \div 4 ELSE B
      BY <1>7 DEF Fits
    <3>3. QED
      BY <3>1, <3>2, Limits
  <2> HIDE DEF B
  <2>1. bytes + Size[m] <= MaxBytes
    BY <1>2, <2>0
  <2>2. Weight(ReservedOf({"Attribution", "Reliability"})', Size) <= MaxBytes
    BY <1>2, <1>4, <2>1, Limits
  <2>3. CASE admit_class(m) = "Reliability"
    <3>1. bytes + Size[m] <= MaxBytes - MaxBytes \div 4
      BY <1>2, <2>0, <2>3
    <3>2. Weight(ReservedOf({"Reliability"})', Size) <= MaxBytes - MaxBytes \div 4
      BY <1>2, <1>4, <3>1, Limits
    <3>3. QED
      BY <2>2, <3>2 DEF HeldBytesBounded, WithinOrAlone
  <2>4. CASE admit_class(m) # "Reliability"
    <3>1. ReservedOf({"Reliability"})' = ReservedOf({"Reliability"})
      BY <1>4, <2>4
    <3>2. QED
      BY <2>2, <3>1 DEF HeldBytesBounded, WithinOrAlone
  <2>5. QED
    BY <2>3, <2>4
<1>8. QED
  BY <1>5, <1>6, <1>7

\* Only reserve adds to what is held.
LEMMA BudgetStep ==
  Types /\ Accounting /\ BytesMatch /\ HeldBytesBounded /\ [Next]_vars => HeldBytesBounded'
<1> SUFFICES ASSUME Types, Accounting, BytesMatch, HeldBytesBounded, [Next]_vars
             PROVE  HeldBytesBounded'
  OBVIOUS
<1>0. \A m \in Msgs : AccountedFor(m)
  BY DEF Accounting, CallsAreAccounted
<1>1. ASSUME NEW m \in Msgs, TrySend(m) PROVE HeldBytesBounded'
  <2>1. Reserved' \subseteq Reserved
    BY <1>1 DEF TrySend, Reserved, Goto, Types, callVars, outVars
  <2>2. QED
    BY <2>1, BudgetFrame
<1>2. ASSUME NEW m \in Msgs, LoadPressure(m) PROVE HeldBytesBounded'
  <2>1. Reserved' \subseteq Reserved
    BY <1>2 DEF LoadPressure, Reserved, Goto, Types, callVars, outVars
  <2>2. QED
    BY <2>1, BudgetFrame
<1>3. ASSUME NEW m \in Msgs, Reserve(m) PROVE HeldBytesBounded'
  <2>1. CASE Fits(m)
    BY <1>3, <2>1, BudgetReserve
  <2>2. CASE ~Fits(m)
    <3>1. Reserved' \subseteq Reserved
      BY <1>3, <2>2 DEF Reserve, Reserved, Goto, Types, outVars
    <3>2. QED
      BY <3>1, BudgetFrame
  <2>3. QED
    BY <2>1, <2>2
<1>4. ASSUME NEW m \in Msgs, Count(m) PROVE HeldBytesBounded'
  <2>1. Reserved' \subseteq Reserved
    BY <1>4 DEF Count, Reserved, Goto, Types, callVars, outVars
  <2>2. QED
    BY <2>1, BudgetFrame
<1>5. ASSUME NEW m \in Msgs, Send(m) PROVE HeldBytesBounded'
  <2>1. Reserved' \subseteq Reserved
    BY <1>5 DEF Send, Reserved, Goto, Types, callVars, outVars
  <2>2. QED
    BY <2>1, BudgetFrame
<1>6. ASSUME NEW m \in Msgs, Refuse(m) PROVE HeldBytesBounded'
  <2>1. Reserved' \subseteq Reserved
    BY <1>6 DEF Refuse, Reserved, Goto, Types, callVars, outVars
  <2>2. QED
    BY <2>1, BudgetFrame
<1>7. ASSUME NEW m \in Msgs, CountMarker(m) PROVE HeldBytesBounded'
  <2>1. Reserved' \subseteq Reserved
    BY <1>7 DEF CountMarker, Reserved, Goto, Types, callVars, outVars
  <2>2. QED
    BY <2>1, BudgetFrame
<1>8. ASSUME NEW m \in Msgs, SendMarker(m) PROVE HeldBytesBounded'
  <2>1. Reserved' \subseteq Reserved
    BY <1>8 DEF SendMarker, Reserved, Goto, Types, callVars, outVars
  <2>2. QED
    BY <2>1, BudgetFrame
<1>9. ASSUME NEW r \in Readers, StopReader(r) PROVE HeldBytesBounded'
  <2>1. Reserved' \subseteq Reserved
    BY <1>9 DEF StopReader, Reserved, Goto, Types, callVars, outVars
  <2>2. QED
    BY <2>1, BudgetFrame
<1>10. ASSUME Pop PROVE HeldBytesBounded'
  <2>1. Reserved' \subseteq Reserved
    BY <1>10 DEF Pop, Reserved, Goto, Types, callVars, outVars
  <2>2. QED
    BY <2>1, BudgetFrame
<1>11. ASSUME ReceiveRecords PROVE HeldBytesBounded'
  <2>1. Reserved' \subseteq Reserved
    BY <1>11 DEF ReceiveRecords, Reserved, Goto, Types, callVars, outVars
  <2>2. QED
    BY <2>1, BudgetFrame
<1>12. ASSUME ReleaseMarker PROVE HeldBytesBounded'
  <2>1. Reserved' \subseteq Reserved
    BY <1>12 DEF ReleaseMarker, Reserved, Goto, Types, callVars, outVars
  <2>2. QED
    BY <2>1, BudgetFrame
<1>13. ASSUME TakeLost PROVE HeldBytesBounded'
  <2>1. Reserved' \subseteq Reserved
    BY <1>13 DEF TakeLost, Reserved, Goto, Types, callVars, outVars
  <2>2. QED
    BY <2>1, BudgetFrame
<1>14. ASSUME NEW on \in BOOLEAN, SetMemoryPressure(on) PROVE HeldBytesBounded'
  <2>1. Reserved' \subseteq Reserved
    BY <1>14 DEF SetMemoryPressure, Reserved, Goto, Types, callVars, outVars
  <2>2. QED
    BY <2>1, BudgetFrame
<1>15. ASSUME ReceiveNone PROVE HeldBytesBounded'
  <2>1. Reserved' \subseteq Reserved
    BY <1>15 DEF ReceiveNone, Reserved, Goto, Types, callVars, outVars
  <2>2. QED
    BY <2>1, BudgetFrame
<1>16. ASSUME DropReceiver PROVE HeldBytesBounded'
  <2>1. Reserved' \subseteq Reserved
    BY <1>16 DEF DropReceiver, Reserved, Goto, Types, callVars, outVars
  <2>2. QED
    BY <2>1, BudgetFrame
<1>17. ASSUME UNCHANGED vars PROVE HeldBytesBounded'
  <2>1. Reserved' \subseteq Reserved
    BY <1>17 DEF vars, Reserved, Goto, Types, callVars, outVars
  <2>2. QED
    BY <2>1, BudgetFrame
<1>18. QED
  BY <1>1, <1>2, <1>3, <1>4, <1>5, <1>6, <1>7, <1>8, <1>9, <1>10, <1>11, <1>12,
     <1>13, <1>14, <1>15, <1>16, <1>17 DEF Next, Call, Receive, Finished

-----------------------------------------------------------------------------
(* The theorems *)

\* The inductive invariant.
IInv == /\ Types /\ Accounting /\ BytesMatch /\ MessagesMatch
        /\ OneMarkerPerEpisode /\ HeldBytesBounded

LEMMA Invariance == Spec => []IInv
<1>1. Init => IInv
  BY TypesInit, AccountingInit, BytesInit, MessagesInit, MarkerInit, BudgetInit DEF IInv
<1>2. IInv /\ [Next]_vars => IInv'
  BY TypesStep, AccountingStep, BytesStep, MessagesStep, MarkerStep, BudgetStep DEF IInv
<1>3. QED
  BY <1>1, <1>2, PTL DEF Spec

\* The two counters are exact in every reachable state: what admission compares
\* with the budget is what the queue holds, and fetch_sub never wraps.
THEOREM CountersAreExact == Spec => []CountersMatch
<1>1. IInv => CountersMatch
  BY DEF IInv, CountersMatch, BytesMatch, MessagesMatch, InHand, Queued
<1>2. QED
  BY <1>1, Invariance, PTL

\* Every variable keeps its type; that the counters are natural numbers is what
\* their accounting gives.
THEOREM TypeCorrect == Spec => []TypeOK
<1>1. ASSUME IInv PROVE TypeOK
  <2>1. bytes \in Nat
    BY <1>1, WeightType DEF IInv, BytesMatch
  <2>2. messages \in Nat
    <3>1. Cardinality(Sending) \in Nat
      BY <1>1, FS_CardinalityType DEF IInv, MessagesMatch
    <3>2. Len(queue) \in Nat /\ Len(discarded) \in Nat /\ InHand \in Nat
      BY <1>1 DEF IInv, Types, InHand
    <3>3. QED
      BY <1>1, <3>1, <3>2 DEF IInv, MessagesMatch
  <2>3. QED
    BY <1>1, <2>1, <2>2 DEF IInv, Types, TypeOK, Queued
<1>2. QED
  BY <1>1, Invariance, PTL

\* What try_send returned is what happened to the message.
THEOREM CallsAreAlwaysAccounted == Spec => []CallsAreAccounted
<1>1. IInv => CallsAreAccounted
  BY DEF IInv, Accounting
<1>2. QED
  BY <1>1, Invariance, PTL

\* A report that waits has exactly one marker on its way while there is a
\* receiver: no refusal is stranded and no episode is announced twice.
THEOREM OneMarker == Spec => []OneMarkerPerEpisode
<1>1. IInv => OneMarkerPerEpisode
  BY DEF IInv
<1>2. QED
  BY <1>1, Invariance, PTL

\* However many readers race for the budget, evidence never exceeds it unless
\* it is one oversized message alone, and reliability evidence stays out of the
\* last quarter.
THEOREM BudgetHolds == Spec => []HeldBytesBounded
<1>1. IInv => HeldBytesBounded
  BY DEF IInv
<1>2. QED
  BY <1>1, Invariance, PTL

-----------------------------------------------------------------------------
(* The end of the stream *)

\* What recv's None rests on: it comes after all senders are gone, and none of
\* them goes in the middle of a call.
Ending ==
  /\ \A r \in stopped : \A m \in Msgs : ReaderOf[m] = r => pc[m] \notin Active
  /\ ended => queue = <<>> /\ hand = Nothing /\ stopped = Readers /\ ~closed

\* Only messages with evidence in them are refused: an agent message always fits.
Evidential ==
  \A m \in Msgs : /\ pc[m] \in Active \cup {"Refused"} => Kept(m) # {}
                  /\ pc[m] = "refusing" \/ Refused(m) => admit_class(m) # "Agent"

\* The actions leave recv's end and the stopped readers alone unless they say so.
LEMMA EndingStep == Types /\ Ending /\ [Next]_vars => Ending'
<1> SUFFICES ASSUME Types, Ending, [Next]_vars PROVE Ending'
  OBVIOUS
<1> USE MsgsAssumption DEF Types, Goto, callVars, lostVars, outVars
<1>1. ASSUME NEW m \in Msgs, TrySend(m) PROVE Ending'
  <2>1. ReaderOf[m] \notin stopped /\ UNCHANGED <<ended, queue, hand, stopped, closed>>
    BY <1>1 DEF TrySend, Ready
  <2>2. \A n \in Msgs : n # m => pc'[n] = pc[n]
    BY <1>1 DEF TrySend
  <2>3. QED
    BY <2>1, <2>2 DEF Ending
<1>2. ASSUME NEW m \in Msgs, Call(m), ~TrySend(m) PROVE Ending'
  <2>1. pc[m] \in Active /\ stopped' = stopped /\ closed' = closed /\ ended' = ended /\ hand' = hand
    BY <1>2 DEF Call, LoadPressure, Reserve, Count, Send, Refuse, CountMarker, SendMarker, Active
  <2>2. \A n \in Msgs : n # m => pc'[n] = pc[n]
    BY <1>2 DEF Call, LoadPressure, Reserve, Count, Send, Refuse, CountMarker, SendMarker
  <2>3. ReaderOf[m] \in Readers /\ ReaderOf[m] \notin stopped
    BY <2>1 DEF Ending
  <2>4. ~ended
    BY <2>3 DEF Ending
  <2>5. QED
    BY <2>1, <2>2, <2>3, <2>4 DEF Ending
<1>3. ASSUME NEW r \in Readers, StopReader(r) PROVE Ending'
  BY <1>3 DEF StopReader, Ready, Ending
<1>4. ASSUME Receive \/ (\E on \in BOOLEAN : SetMemoryPressure(on)) \/ DropReceiver PROVE Ending'
  <2>1. ~ended /\ ended' = ended /\ UNCHANGED <<pc, stopped>>
    BY <1>4 DEF Receive, Receiving, Pop, ReceiveRecords, ReleaseMarker, TakeLost,
                SetMemoryPressure, DropReceiver
  <2>2. QED
    BY <2>1 DEF Ending
<1>5. ASSUME ReceiveNone PROVE Ending'
  BY <1>5 DEF ReceiveNone, Receiving, Ending
<1>6. ASSUME UNCHANGED vars PROVE Ending'
  BY <1>6 DEF vars, Ending
<1>7. QED
  BY <1>1, <1>2, <1>3, <1>4, <1>5, <1>6 DEF Next, Finished

\* The class of a message is that of its records: whoever is refused did not
\* fit, and an agent message fits whatever the counters say.
LEMMA EvidentialStep == Types /\ Evidential /\ [Next]_vars => Evidential'
<1> SUFFICES ASSUME Types, Evidential, [Next]_vars PROVE Evidential'
  OBVIOUS
<1>1. ASSUME NEW m \in Msgs, Reserve(m) PROVE Evidential'
  <2>1. \A n \in Msgs : n # m => pc'[n] = pc[n]
    BY <1>1 DEF Reserve, Goto, Types
  <2>2. pc'[m] = "reserved" \/ (pc'[m] = "refusing" /\ admit_class(m) # "Agent")
    BY <1>1 DEF Reserve, Goto, Types, Fits
  <2>3. QED
    BY <1>1, <2>1, <2>2 DEF Evidential, Refused, Reserve, Active
<1>2. ASSUME NEW m \in Msgs, Call(m), ~Reserve(m) PROVE Evidential'
  <2>1. \A n \in Msgs : n # m => pc'[n] = pc[n]
    BY <1>2 DEF Call, TrySend, LoadPressure, Count, Send, Refuse, CountMarker, SendMarker,
                Goto, Types
  <2>2. pc'[m] = "refusing" \/ Refused(m)' => pc[m] = "refusing" \/ Refused(m)
    BY <1>2 DEF Call, TrySend, LoadPressure, Count, Send, Refuse, CountMarker, SendMarker,
                Goto, Types, Refused
  <2>3. pc'[m] \in Active \cup {"Refused"} => pc[m] \in Active \/ Kept(m) # {}
    BY <1>2 DEF Call, TrySend, LoadPressure, Count, Send, Refuse, CountMarker, SendMarker,
                Goto, Types, Active
  <2>4. QED
    BY <2>1, <2>2, <2>3 DEF Evidential, Refused
<1>3. ASSUME UNCHANGED pc PROVE Evidential'
  BY <1>3 DEF Evidential, Refused
<1>4. UNCHANGED pc \/ \E m \in Msgs : Call(m)
  BY DEF Next, StopReader, Receive, Pop, ReceiveRecords, ReleaseMarker, TakeLost,
         SetMemoryPressure, ReceiveNone, DropReceiver, Finished, vars, callVars
<1>5. QED
  BY <1>1, <1>2, <1>3, <1>4

\* A message of which only agent records are left is never refused.
THEOREM AgentMessagesAreTaken == Spec => []NoAgentMessageRefused
<1>1. Init => Evidential
  BY DEF Init, Evidential, Refused, Active
<1>2. ASSUME Evidential PROVE NoAgentMessageRefused
  <2>1. ASSUME NEW m \in Msgs, Refused(m) PROVE \E r \in Kept(m) : r.kind # "agent"
    <3>1. Kept(m) # {} /\ admit_class(m) # "Agent"
      BY <1>2, <2>1 DEF Evidential, Refused, Active
    <3>2. QED
      BY <3>1 DEF admit_class
  <2>2. QED
    BY <2>1 DEF NoAgentMessageRefused
<1>3. QED
  BY <1>1, <1>2, EvidentialStep, Invariance, PTL DEF Spec, IInv

\* When recv returns None nothing is left behind: every admitted message has been
\* handed over, every refusal reported, and both counters are back at zero.
THEOREM NothingIsStranded == Spec => []NothingStrandedAtEnd
<1>1. Init => Ending
  BY DEF Init, Ending
<1>2. ASSUME IInv, Ending, ended PROVE NothingStrandedAtEnd
  <2>1. /\ queue = <<>> /\ hand = Nothing /\ stopped = Readers /\ ~closed /\ discarded = <<>>
        /\ \A m \in Msgs : pc[m] \notin Active
    BY <1>2, MsgsAssumption DEF Ending, IInv, Accounting, ClosedShape
  <2>2. Markers = {}
    BY <2>1 DEF Markers, Active, Marker, Taking, Nothing
  <2>3. ~markerQueued /\ Unreported = {}
    BY <1>2, <2>1, <2>2 DEF IInv, OneMarkerPerEpisode, Types
  <2>4. ASSUME NEW m \in Msgs PROVE /\ pc[m] = "Admitted" => m \in delivered
                                    /\ Refused(m) => m \in reported
    <3>1. AccountedFor(m) /\ hand # m
      BY <1>2, <2>1, Tags DEF IInv, Accounting, CallsAreAccounted
    <3>2. QED
      BY <2>1, <2>3, <3>1 DEF AccountedFor, OccursIn
  <2>5. Reserved = {} /\ Sending = {}
    BY <2>1, <2>4 DEF Reserved, Sending, Active
  <2>6. bytes = 0 /\ messages = 0
    <3>1. Cardinality(Sending) = 0 /\ hand \notin Queued
      BY <2>1, <2>5, FS_EmptySet, Tags DEF Queued, Marker, Nothing
    <3>2. QED
      BY <1>2, <2>1, <2>5, <3>1, WeightOfEmpty DEF IInv, BytesMatch, MessagesMatch, InHand
  <2>7. QED
    BY <2>3, <2>4, <2>6 DEF NothingStrandedAtEnd
<1>3. IInv /\ Ending => NothingStrandedAtEnd
  BY <1>2 DEF NothingStrandedAtEnd
<1>4. QED
  BY <1>1, <1>3, EndingStep, Invariance, PTL DEF Spec, IInv

-----------------------------------------------------------------------------
(* Refinement *)

\* The cases of Fate exclude one another, and every message is in one of them.
Fates ==
  \A m \in Msgs :
    /\ m \in delivered => Fate(m) = "delivered"
    /\ m \in reported => Fate(m) = "reported"
    /\ OccursIn(m, discarded) \/ pc[m] = "QueueClosed" => Fate(m) = "abandoned"
    /\ m \in Unreported => Fate(m) = IF closed THEN "abandoned" ELSE "lost"
    /\ OccursIn(m, queue) \/ hand = m => Fate(m) = "held"
    /\ pc[m] = "OutOfScope" => Fate(m) = "excluded"
    /\ pc[m] \notin {"Admitted", "QueueClosed", "OutOfScope", "marking", "marked", "Refused"}
         => Fate(m) = "offered"

LEMMA FatesAre == Accounting => Fates
<1> SUFFICES ASSUME Accounting, NEW m \in Msgs PROVE Fates!(m)
  BY DEF Fates
<1>1. AccountedFor(m) /\ (OccursIn(m, queue) => ~OccursIn(m, discarded))
      /\ (hand = m => ~OccursIn(m, discarded))
  BY Tags DEF Accounting, CallsAreAccounted, ClosedShape, OccursIn
<1>2. QED
  BY <1>1 DEF AccountedFor, Refused, Fate

\* Fate depends on the history and on three results of try_send only.
LEMMA FateFrame ==
  ASSUME NEW m \in Msgs, Fates, Fates',
         UNCHANGED <<delivered, reported, discarded, reports, closed>>,
         OccursIn(m, queue)' \/ hand' = m <=> OccursIn(m, queue) \/ hand = m,
         \A s \in {"Admitted", "QueueClosed", "OutOfScope"} : pc'[m] = s <=> pc[m] = s,
         Refused(m)' <=> Refused(m)
  PROVE  Fate(m)' = Fate(m)
BY DEF Fate, Unreported, OccursIn

\* A step that moves m, and only m, in the ledger.
Moves(m, from, to) ==
  /\ closed' = closed
  /\ Fate(m) = from /\ Fate(m)' = to
  /\ \A n \in Msgs \ {m} : Fate(n)' = Fate(n)

\* What such a step is, in the ledger's own terms.
LEMMA MoveIsLedgerStep ==
  ASSUME NEW m \in Msgs,
         \/ ~closed /\ (\/ Moves(m, "offered", "held") \/ Moves(m, "offered", "lost")
                        \/ Moves(m, "held", "delivered"))
         \/ Moves(m, "offered", "excluded")
         \/ closed /\ Moves(m, "offered", "abandoned")
  PROVE  Ledger!Next
<1> DEFINE F == [n \in Msgs |-> Fate(n)]
<1>1. /\ closed' = closed
      /\ F[m] = Fate(m)
      /\ F' = [n \in Msgs |-> IF n \in {m} THEN Fate(m)' ELSE F[n]]
  BY DEF Moves
<1>2. CASE ~closed /\ Moves(m, "offered", "held")
  BY <1>1, <1>2 DEF Moves, Ledger!Next, Ledger!Hold, Ledger!With, Ledger!Move
<1>3. CASE ~closed /\ Moves(m, "offered", "lost")
  BY <1>1, <1>3 DEF Moves, Ledger!Next, Ledger!Lose, Ledger!With, Ledger!Move
<1>4. CASE ~closed /\ Moves(m, "held", "delivered")
  BY <1>1, <1>4 DEF Moves, Ledger!Next, Ledger!Deliver, Ledger!With, Ledger!Move
<1>5. CASE Moves(m, "offered", "excluded")
  BY <1>1, <1>5 DEF Moves, Ledger!Next, Ledger!Exclude, Ledger!With, Ledger!Move
<1>6. CASE closed /\ Moves(m, "offered", "abandoned")
  BY <1>1, <1>6 DEF Moves, Ledger!Next, Ledger!Abandon, Ledger!With, Ledger!Move
<1>7. QED
  BY <1>2, <1>3, <1>4, <1>5, <1>6

\* A step that no message's fate tells.
LEMMA NoFateChanges ==
  ASSUME closed' = closed, \A n \in Msgs : Fate(n)' = Fate(n)
  PROVE  UNCHANGED <<[m \in Msgs |-> Fate(m)], closed>>
OBVIOUS

\* Each step of a thread is a step of the ledger or none.
LEMMA LedgerStep ==
  Types /\ Accounting /\ Accounting' /\ [Next]_vars
    => [Ledger!Next]_<<[m \in Msgs |-> Fate(m)], closed>>
<1> SUFFICES ASSUME Types, Accounting, Accounting', [Next]_vars
             PROVE  Ledger!Next \/ UNCHANGED <<[m \in Msgs |-> Fate(m)], closed>>
  OBVIOUS
<1> Fates /\ Fates'
  BY FatesAre, PTL
<1> USE DEF Goto, callVars, lostVars, outVars
<1> DEFINE Silent == UNCHANGED <<[m \in Msgs |-> Fate(m)], closed>>
<1>1. ASSUME NEW m \in Msgs, TrySend(m) PROVE Ledger!Next \/ Silent
  <2>1. \A n \in Msgs \ {m} : Fate(n)' = Fate(n)
    BY <1>1, FateFrame DEF TrySend, Types, Refused, OccursIn
  <2>2. Fate(m) = "offered" /\ closed' = closed
    BY <1>1 DEF TrySend, Fates
  <2>3. pc'[m] = IF closed THEN "QueueClosed"
                 ELSE IF Kept(m) = {} THEN "OutOfScope" ELSE "measured"
    BY <1>1 DEF TrySend, Types
  <2>4. Fate(m)' = IF closed THEN "abandoned"
                   ELSE IF Kept(m) = {} THEN "excluded" ELSE "offered"
    BY <2>3 DEF Fates
  <2>5. CASE closed
    BY <2>1, <2>2, <2>4, <2>5, MoveIsLedgerStep DEF Moves
  <2>6. CASE ~closed /\ Kept(m) = {}
    BY <2>1, <2>2, <2>4, <2>6, MoveIsLedgerStep DEF Moves
  <2>7. CASE ~closed /\ Kept(m) # {}
    BY <2>1, <2>2, <2>4, <2>7, NoFateChanges
  <2>8. QED
    BY <2>5, <2>6, <2>7
<1>2. ASSUME NEW m \in Msgs,
             LoadPressure(m) \/ Reserve(m) \/ Count(m) \/ CountMarker(m) \/ SendMarker(m)
      PROVE  Ledger!Next \/ Silent
  <2>1. /\ UNCHANGED <<delivered, reported, discarded, reports, closed, hand>>
        /\ \A n \in Msgs :
             /\ \A s \in {"Admitted", "QueueClosed", "OutOfScope"} : pc'[n] = s <=> pc[n] = s
             /\ Refused(n)' <=> Refused(n)
    BY <1>2 DEF LoadPressure, Reserve, Count, CountMarker, SendMarker, Types, Refused
  <2>2. ASSUME NEW n \in Msgs PROVE OccursIn(n, queue)' <=> OccursIn(n, queue)
    <3>1. queue' = queue \/ queue' = Append(queue, Marker)
      BY <1>2 DEF LoadPressure, Reserve, Count, CountMarker, SendMarker
    <3>2. Marker \in Queued /\ n # Marker /\ queue \in Seq(Queued)
      BY Tags DEF Queued, Types
    <3>3. OccursIn(n, queue)' <=> OccursIn(n, queue')
      BY DEF OccursIn
    <3>4. CASE queue' = queue
      BY <3>3, <3>4
    <3>5. CASE queue' = Append(queue, Marker)
      <4>1. OccursIn(n, Append(queue, Marker)) <=> OccursIn(n, queue) \/ n = Marker
        BY <3>2, OccursAfterSend
      <4>2. QED
        BY <3>2, <3>3, <3>5, <4>1
    <3>6. QED
      BY <3>1, <3>4, <3>5
  <2>3. \A n \in Msgs : Fate(n)' = Fate(n)
    BY <2>1, <2>2, FateFrame
  <2>4. QED
    BY <2>1, <2>3, NoFateChanges
<1>3. ASSUME NEW m \in Msgs, Send(m) PROVE Ledger!Next \/ Silent
  <2>1. Fate(m) = "offered" /\ closed' = closed
    BY <1>3 DEF Send, Fates
  <2>2. pc'[m] = IF closed THEN "QueueClosed" ELSE "Admitted"
    BY <1>3 DEF Send, Types
  <2>3. ASSUME NEW n \in Msgs
        PROVE  OccursIn(n, queue)' <=> OccursIn(n, queue) \/ (n = m /\ ~closed)
    <3>1. queue' = IF closed THEN queue ELSE Append(queue, m)
      BY <1>3 DEF Send
    <3>2. m \in Queued /\ queue \in Seq(Queued)
      BY DEF Queued, Types
    <3>3. OccursIn(n, queue)' <=> OccursIn(n, queue')
      BY DEF OccursIn
    <3>4. QED
      BY <3>1, <3>2, <3>3, OccursAfterSend
  <2>4. \A n \in Msgs \ {m} : Fate(n)' = Fate(n)
    BY <1>3, <2>3, FateFrame DEF Send, Types, Refused
  <2>5. Fate(m)' = IF closed THEN "abandoned" ELSE "held"
    BY <2>2, <2>3 DEF Fates
  <2>6. QED
    BY <2>1, <2>4, <2>5, MoveIsLedgerStep DEF Moves, Types
<1>4. ASSUME NEW m \in Msgs, Refuse(m) PROVE Ledger!Next \/ Silent
  <2>1. Fate(m) = "offered" /\ closed' = closed
    BY <1>4 DEF Refuse, Fates
  <2>2. ASSUME NEW n \in Msgs PROVE n \in Unreported' <=> n \in Unreported \/ n = m
    BY <1>4, UnreportedIs DEF Refuse, Types, Cause, Causes
  <2>3. \A n \in Msgs \ {m} : Fate(n)' = Fate(n)
    <3>1. ASSUME NEW n \in Msgs \ {m} PROVE Fate(n)' = Fate(n)
      BY <1>4, <2>2 DEF Refuse, Types, Fate, OccursIn
    <3>2. QED
      BY <3>1
  <2>4. Fate(m)' = IF closed THEN "abandoned" ELSE "lost"
    BY <2>1, <2>2 DEF Fates
  <2>5. QED
    BY <2>1, <2>3, <2>4, MoveIsLedgerStep DEF Moves, Types
<1>5. ASSUME \/ \E r \in Readers : StopReader(r)
             \/ ReleaseMarker \/ ReceiveNone \/ Finished \/ UNCHANGED vars
             \/ \E on \in BOOLEAN : SetMemoryPressure(on)
      PROVE  Ledger!Next \/ Silent
  <2>1. /\ UNCHANGED <<pc, delivered, reported, discarded, reports, closed, queue>>
        /\ \A n \in Msgs : hand' = n <=> hand = n
    BY <1>5, Tags DEF StopReader, ReleaseMarker, ReceiveNone, Finished, vars, SetMemoryPressure
  <2>2. \A n \in Msgs : Fate(n)' = Fate(n)
    BY <2>1, FateFrame DEF Refused, OccursIn
  <2>3. QED
    BY <2>1, <2>2, NoFateChanges
<1>6. ASSUME Pop PROVE Ledger!Next \/ Silent
  <2>1. ASSUME NEW n \in Msgs
        PROVE  OccursIn(n, queue)' \/ hand' = n <=> OccursIn(n, queue) \/ hand = n
    <3>1. /\ queue # <<>> /\ queue' = Tail(queue) /\ hand' = Head(queue) /\ hand # n
          /\ queue \in Seq(Queued)
      BY <1>6, Tags DEF Pop, Types
    <3>2. OccursIn(n, queue)' <=> OccursIn(n, queue')
      BY DEF OccursIn
    <3>3. QED
      BY <3>1, <3>2, OccursAfterReceive
  <2>2. \A n \in Msgs : Fate(n)' = Fate(n)
    BY <1>6, <2>1, FateFrame DEF Pop, Refused
  <2>3. QED
    BY <1>6, <2>2, NoFateChanges DEF Pop
<1>7. ASSUME ReceiveRecords PROVE Ledger!Next \/ Silent
  <2> PICK m \in Msgs : m = hand
    BY <1>7 DEF ReceiveRecords
  <2>1. ~closed /\ Fate(m) = "held" /\ closed' = closed
    BY <1>7 DEF ReceiveRecords, Receiving, Fates
  <2>2. Fate(m)' = "delivered"
    BY <1>7, <2>1 DEF ReceiveRecords, Fates
  <2>3. ASSUME NEW n \in Msgs \ {m} PROVE Fate(n)' = Fate(n)
    BY <1>7, <2>3, Tags DEF ReceiveRecords, Fate, Unreported, OccursIn
  <2>4. Moves(m, "held", "delivered")
    BY <2>1, <2>2, <2>3 DEF Moves
  <2>5. QED
    BY <2>1, <2>4, MoveIsLedgerStep
<1>8. ASSUME TakeLost PROVE Ledger!Next \/ Silent
  <2>1. /\ ~closed /\ closed' = closed
        /\ \A n \in Msgs : /\ n \notin Unreported'
                           /\ n \in reported' <=> n \in reported \cup Unreported
                           /\ hand # n /\ hand' # n
        /\ UNCHANGED <<pc, queue, delivered, discarded>>
    BY <1>8, UnreportedIs, Tags DEF TakeLost, Receiving, Causes
  <2>2. ASSUME NEW n \in Msgs
        PROVE  Fate(n)' = IF Fate(n) = "lost" THEN "reported" ELSE Fate(n)
    <3>1. AccountedFor(n)
      BY DEF Accounting, CallsAreAccounted
    <3>2. CASE n \in Unreported
      BY <2>1, <3>2 DEF Fates
    <3>3. CASE n \notin Unreported
      <4>1. Fate(n)' = Fate(n)
        BY <2>1, <3>3 DEF Fate, OccursIn
      <4>2. Fate(n) # "lost"
        BY <3>1, <3>3 DEF Fates, AccountedFor, Refused, Types, Active, Results
      <4>3. QED
        BY <4>1, <4>2
    <3>4. QED
      BY <3>2, <3>3
  <2>3. Ledger!Report
    BY <2>1, <2>2 DEF Ledger!Report, Ledger!Move, Ledger!With
  <2>4. QED
    BY <2>3 DEF Ledger!Next
<1>9. ASSUME DropReceiver PROVE Ledger!Next \/ Silent
  <2>1. /\ ~closed /\ closed' /\ discarded = <<>> /\ discarded' = queue
        /\ queue' = <<>> /\ hand = Nothing /\ hand' = Nothing
        /\ UNCHANGED <<pc, delivered, reported, reports>>
    BY <1>9 DEF DropReceiver, Receiving, Accounting, ClosedShape
  <2>2. ASSUME NEW n \in Msgs
        PROVE  Fate(n)' = IF Fate(n) \in {"held", "lost"} THEN "abandoned" ELSE Fate(n)
    <3>1. AccountedFor(n) /\ hand # n /\ hand' # n /\ ~OccursIn(n, discarded)
      BY <2>1, Tags DEF Accounting, CallsAreAccounted, OccursIn
    <3>2. (OccursIn(n, discarded)' <=> OccursIn(n, queue)) /\ ~OccursIn(n, queue)'
      BY <2>1 DEF OccursIn
    <3>3. n \in Unreported' <=> n \in Unreported
      BY <2>1 DEF Unreported
    <3>4. CASE OccursIn(n, queue) \/ n \in Unreported
      BY <2>1, <3>1, <3>2, <3>3, <3>4 DEF Fates
    <3>5. CASE ~OccursIn(n, queue) /\ n \notin Unreported
      <4>1. Fate(n)' = Fate(n)
        BY <2>1, <3>1, <3>2, <3>3, <3>5 DEF Fate
      <4>2. Fate(n) \notin {"held", "lost"}
        BY <3>1, <3>5 DEF Fates, AccountedFor, Refused, Types, Active, Results
      <4>3. QED
        BY <4>1, <4>2
    <3>6. QED
      BY <3>4, <3>5
  <2>3. Ledger!Leave
    BY <2>1, <2>2 DEF Ledger!Leave, Ledger!Move, Ledger!With
  <2>4. QED
    BY <2>3 DEF Ledger!Next
<1>10. QED
  BY <1>1, <1>2, <1>3, <1>4, <1>5, <1>6, <1>7, <1>8, <1>9 DEF Next, Call, Receive

\* The queue implements the ledger, for any number of readers and messages: it
\* takes responsibility for a message or owes a report of its loss, hands each
\* over once, reports all losses it knows together, and is excused only by the
\* receiver's disappearance.
THEOREM QueueImplementsLedger == Spec => ImplementsLedger
<1>1. Init => Ledger!Init
  <2> SUFFICES ASSUME Init PROVE Ledger!Init
    OBVIOUS
  <2>1. \A m \in Msgs : Fate(m) = "offered"
    BY AccountingInit, FatesAre DEF Init, Fates
  <2>2. QED
    BY <2>1 DEF Init, Ledger!Init
<1>2. IInv /\ IInv' /\ [Next]_vars => [Ledger!Next]_<<[m \in Msgs |-> Fate(m)], closed>>
  BY LedgerStep DEF IInv
<1>3. QED
  BY <1>1, <1>2, Invariance, PTL DEF Spec, ImplementsLedger, Ledger!Spec
=============================================================================
