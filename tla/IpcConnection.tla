--------------------------- MODULE IpcConnection ---------------------------
(***************************************************************************)
(* One client connection of the local socket, jalki/src/ipc.rs, over the   *)
(* event store: the handler that reads requests, the writer task, and one  *)
(* task per subscription that polls the store.  The tasks share a bounded  *)
(* channel of frames and run on several threads.  Readers push occurrences *)
(* into the store meanwhile.                                               *)
(*                                                                         *)
(* A stream is named before it is requested.  AbortHandle::abort ends a    *)
(* task that is parked; one that is running goes on to its next await.     *)
(***************************************************************************)
EXTENDS EventStore, FiniteSets

CONSTANTS
  Probes,       \* probe names, the keys of the store
  Handles,      \* what clients pass as probe_id
  IdOf,         \* the id that deploy and status report for each probe
  Streams,      \* subscriptions the client asks for
  OutboxMax,    \* capacity of the channel of frames
  \* Bounds on what is explored
  MaxClock,
  MaxEvents,
  MaxRequests

ASSUME ConnectionAssumption ==
  /\ {OutboxMax, MaxClock, MaxEvents, MaxRequests} \subseteq Nat
  /\ OutboxMax > 0
  /\ IdOf \in [Probes -> Handles]

VARIABLES
  clock,        \* the wall clock, in milliseconds
  buffers,      \* EventStore::buffers
  pushed,       \* per probe, all that was pushed
  phase,        \* where each subscription task is
  aborted,      \* tasks told to abort while they ran
  topic,        \* the probe_id of each subscription
  last,         \* last_seen_id
  batch,        \* events of the current poll not yet sent
  subscriptions,\* ConnectionHandler::subscriptions
  handler,      \* the connection's handler
  reply,        \* frames the handler is sending
  requests,     \* requests read so far
  outbox,       \* the channel
  writer,
  client,
  got,          \* per stream, the events the client has received
  stopped       \* what the client has unsubscribed

storeVars == <<clock, buffers, pushed>>
taskVars == <<phase, aborted, topic, last, batch>>
vars == <<clock, buffers, pushed, phase, aborted, topic, last, batch,
          subscriptions, handler, reply, requests, outbox, writer, client, got,
          stopped>>

Frame(type, of, id) == [type |-> type, of |-> of, id |-> id]
RESPONSE(of) == Frame("RESPONSE", of, -1)
STREAM_START(s) == Frame("STREAM_START", s, -1)
STREAM_EVENT(s, id) == Frame("STREAM_EVENT", s, id)
STREAM_END(h) == Frame("STREAM_END", h, -1)

Full == Len(outbox) >= OutboxMax
Closed == writer = "ended"

Running == {"starting", "polling", "sending"}
Unfinished == {s \in Streams : phase[s] \notin {"none", "gone"}}

-----------------------------------------------------------------------------
Init ==
  /\ clock = 0
  /\ buffers = [p \in Probes |-> EmptyBuffer]
  /\ pushed = [p \in Probes |-> <<>>]
  /\ phase = [s \in Streams |-> "none"]
  /\ aborted = {}
  /\ topic = [s \in Streams |-> "none"]
  /\ last = [s \in Streams |-> -1]
  /\ batch = [s \in Streams |-> <<>>]
  /\ subscriptions = {}
  /\ handler = "reading"
  /\ reply = <<>>
  /\ requests = 0
  /\ outbox = <<>>
  /\ writer = "running"
  /\ client = "connected"
  /\ got = [s \in Streams |-> <<>>]
  /\ stopped = {}

Tick ==
  /\ clock < MaxClock
  /\ clock' = clock + 1
  /\ UNCHANGED <<buffers, pushed, taskVars, subscriptions, handler, reply,
                 requests, outbox, writer, client, got, stopped>>

Made == UNION {ToSet(pushed[p]) : p \in Probes}

\* A reader makes an occurrence and pushes it; ids are unique.
Push(p) ==
  /\ Cardinality(Made) < MaxEvents
  /\ \E random \in 0..PerMs - 1 :
       LET id == Id(clock, random)
       IN  /\ id \notin Made
           /\ buffers' = [buffers EXCEPT ![p] = push(@, id)]
           /\ pushed' = [pushed EXCEPT ![p] = Append(@, id)]
  /\ UNCHANGED <<clock, taskVars, subscriptions, handler, reply, requests,
                 outbox, writer, client, got, stopped>>

-----------------------------------------------------------------------------
(* The handler *)

Read ==
  /\ handler = "reading"
  /\ reply = <<>>
  /\ client = "connected"
  /\ requests < MaxRequests
  /\ requests' = requests + 1

\* handle_subscribe spawns the task and returns the response, which the
\* connection sends afterwards.
Subscribe(s, h) ==
  /\ Read
  /\ phase[s] = "none"
  /\ phase' = [phase EXCEPT ![s] = "spawned"]
  /\ topic' = [topic EXCEPT ![s] = h]
  /\ subscriptions' = subscriptions \cup {s}
  /\ reply' = <<RESPONSE(s)>>
  /\ UNCHANGED <<storeVars, aborted, last, batch, handler, outbox, writer,
                 client, got, stopped>>

\* The store finds a buffer by probe name only.
get_events(h) == IF h \in Probes THEN query(buffers[h], clock) ELSE <<>>

\* handle_get_events: the response says how many there are.
GetEvents(h) ==
  /\ Read
  /\ reply' = <<Frame("EVENTS", h, Len(get_events(h)))>>
  /\ UNCHANGED <<storeVars, taskVars, subscriptions, handler, outbox, writer,
                 client, got, stopped>>

\* abort(): a task that has not been polled, or sleeps, is gone at once.  One
\* that runs may be anywhere, or parked at a full channel: see Cancelled.
Parked(s) == phase[s] \in {"spawned", "sleeping"}

Abort(streams) ==
  /\ phase' = [s \in Streams |->
                 IF s \in streams /\ Parked(s) THEN "gone" ELSE phase[s]]
  /\ aborted' = aborted \cup {s \in streams : ~Parked(s)}

\* abort_subscriptions_for.
Chosen(h) == {s \in subscriptions : topic[s] = h}

\* handle_unsubscribe stops every stream of the probe, and sends STREAM_END if
\* there was one.
Unsubscribe(h) ==
  /\ Read
  /\ Abort(Chosen(h))
  /\ subscriptions' = subscriptions \ Chosen(h)
  /\ reply' = IF Chosen(h) = {} THEN <<RESPONSE(h)>>
              ELSE <<STREAM_END(h), RESPONSE(h)>>
  /\ stopped' = stopped \cup {h}
  /\ UNCHANGED <<storeVars, topic, last, batch, handler, outbox, writer, client,
                 got>>

\* Sends the next frame of the reply; a closed channel is ignored.
Reply ==
  /\ reply # <<>>
  /\ Closed \/ ~Full
  /\ outbox' = IF Closed THEN outbox ELSE Append(outbox, Head(reply))
  /\ reply' = Tail(reply)
  /\ UNCHANGED <<storeVars, taskVars, subscriptions, handler, requests, writer,
                 client, got, stopped>>

\* read_frame fails: subscriptions are aborted, the local sender is dropped and
\* the handler waits for the writer.  conn, which holds another sender, lives
\* until the handler ends.
Disconnected ==
  /\ handler = "reading"
  /\ reply = <<>>
  /\ client = "gone"
  /\ handler' = "waiting"
  /\ Abort(subscriptions)
  /\ subscriptions' = {}
  /\ UNCHANGED <<storeVars, topic, last, batch, reply, requests, outbox, writer,
                 client, got, stopped>>

HandlerEnds ==
  /\ handler = "waiting"
  /\ Closed
  /\ handler' = "ended"
  /\ UNCHANGED <<storeVars, taskVars, subscriptions, reply, requests, outbox,
                 writer, client, got, stopped>>

-----------------------------------------------------------------------------
(* The writer, and the client at the other end *)

Write ==
  /\ writer = "running"
  /\ client = "connected"
  /\ outbox # <<>>
  /\ outbox' = Tail(outbox)
  /\ LET f == Head(outbox)
     IN  got' = IF f.type = "STREAM_EVENT"
                THEN [got EXCEPT ![f.of] = Append(@, f.id)] ELSE got
  /\ UNCHANGED <<storeVars, taskVars, subscriptions, handler, reply, requests,
                 writer, client, stopped>>

\* Who can still send: conn with the handler, and the tasks.
Senders == Unfinished \cup (IF handler = "ended" THEN {} ELSE {"conn"})

WriteFails == outbox # <<>> /\ client = "gone"
NoMoreFrames == outbox = <<>> /\ Senders = {}

\* The writer leaves at a failed write, or when recv returns None; the receiver
\* goes with it.
WriterEnds ==
  /\ writer = "running"
  /\ WriteFails \/ NoMoreFrames
  /\ writer' = "ended"
  /\ outbox' = <<>>
  /\ UNCHANGED <<storeVars, taskVars, subscriptions, handler, reply, requests,
                 client, got, stopped>>

ClientLeaves ==
  /\ client = "connected"
  /\ client' = "gone"
  /\ UNCHANGED <<storeVars, taskVars, subscriptions, handler, reply, requests,
                 outbox, writer, got, stopped>>

-----------------------------------------------------------------------------
(* A subscription task *)

Enter(s, label) == phase' = [phase EXCEPT ![s] = label]
OtherTaskVars == <<aborted, topic>>

\* The runtime polls a task for the first time, or after its sleep.
Resume(s) ==
  /\ \/ phase[s] = "spawned" /\ Enter(s, "starting")
     \/ phase[s] = "sleeping" /\ Enter(s, "polling")
  /\ UNCHANGED <<storeVars, OtherTaskVars, last, batch, subscriptions, handler,
                 reply, requests, outbox, writer, client, got, stopped>>

\* A running task that was aborted is dropped at an await that yields.
Cancelled(s) ==
  /\ s \in aborted
  /\ phase[s] \in Running
  /\ Enter(s, "gone")
  /\ UNCHANGED <<storeVars, OtherTaskVars, last, batch, subscriptions, handler,
                 reply, requests, outbox, writer, client, got, stopped>>

\* send(...).is_err(): the task returns.
SendFails(s) ==
  /\ \/ phase[s] = "starting"
     \/ phase[s] = "sending" /\ batch[s] # <<>>
  /\ Closed
  /\ Enter(s, "gone")
  /\ UNCHANGED <<storeVars, OtherTaskVars, last, batch, subscriptions, handler,
                 reply, requests, outbox, writer, client, got, stopped>>

Start(s) ==
  /\ phase[s] = "starting"
  /\ ~Closed /\ ~Full
  /\ outbox' = Append(outbox, STREAM_START(s))
  /\ Enter(s, "polling")
  /\ UNCHANGED <<storeVars, OtherTaskVars, last, batch, subscriptions, handler,
                 reply, requests, writer, client, got, stopped>>

\* Events newer than the last one sent.  Without a buffer there are none.
Poll(s) ==
  /\ phase[s] = "polling"
  /\ batch' = [batch EXCEPT ![s] =
                 IF topic[s] \in Probes
                 THEN query_since(buffers[topic[s]], last[s], clock) ELSE <<>>]
  /\ Enter(s, "sending")
  /\ UNCHANGED <<storeVars, OtherTaskVars, last, subscriptions, handler, reply,
                 requests, outbox, writer, client, got, stopped>>

\* Mutant: last_seen_id is not kept.
SendEvent_forgetting(s) ==
  /\ phase[s] = "sending"
  /\ batch[s] # <<>>
  /\ ~Closed /\ ~Full
  /\ outbox' = Append(outbox, STREAM_EVENT(s, Head(batch[s])))
  /\ batch' = [batch EXCEPT ![s] = Tail(@)]
  /\ UNCHANGED <<storeVars, OtherTaskVars, last, phase, subscriptions, handler,
                 reply, requests, writer, client, got, stopped>>

SendEvent(s) ==
  /\ phase[s] = "sending"
  /\ batch[s] # <<>>
  /\ ~Closed /\ ~Full
  /\ outbox' = Append(outbox, STREAM_EVENT(s, Head(batch[s])))
  /\ last' = [last EXCEPT ![s] = Head(batch[s])]
  /\ batch' = [batch EXCEPT ![s] = Tail(@)]
  /\ UNCHANGED <<storeVars, OtherTaskVars, phase, subscriptions, handler, reply,
                 requests, writer, client, got, stopped>>

\* The end of a round: is_closed, then the sleep, where an abort takes effect.
Rest(s) ==
  /\ phase[s] = "sending"
  /\ batch[s] = <<>>
  /\ Enter(s, IF Closed \/ s \in aborted THEN "gone" ELSE "sleeping")
  /\ UNCHANGED <<storeVars, OtherTaskVars, last, batch, subscriptions, handler,
                 reply, requests, outbox, writer, client, got, stopped>>

Task(s) ==
  \/ Resume(s)
  \/ Cancelled(s)
  \/ SendFails(s)
  \/ Start(s)
  \/ Poll(s)
  \/ SendEvent(s)
  \/ Rest(s)

Server == Reply \/ Disconnected \/ HandlerEnds \/ Write \/ WriterEnds

Next ==
  \/ Tick
  \/ \E p \in Probes : Push(p)
  \/ \E h \in Handles : \/ \E s \in Streams : Subscribe(s, h)
                        \/ Unsubscribe(h)
                        \/ GetEvents(h)
  \/ ClientLeaves
  \/ Server
  \/ \E s \in Streams : Task(s)

Spec == Init /\ [][Next]_vars

\* Tasks that can run are run.  Clients and readers may do nothing.
FairSpec == /\ Spec
            /\ WF_vars(Reply) /\ WF_vars(Disconnected) /\ WF_vars(HandlerEnds)
            /\ WF_vars(Write) /\ WF_vars(WriterEnds)
            /\ \A s \in Streams : WF_vars(Task(s))

-----------------------------------------------------------------------------
(* Properties *)

TypeOK ==
  /\ clock \in 0..MaxClock
  /\ \A p \in Probes : /\ buffers[p].events \in Seq(Nat)
                       /\ buffers[p].head \in 0..Capacity - 1
                       /\ pushed[p] \in Seq(Nat)
  /\ phase \in [Streams -> {"none", "spawned", "sleeping", "gone"} \cup Running]
  /\ aborted \subseteq Streams
  /\ subscriptions \subseteq Streams
  /\ topic \in [Streams -> Handles \cup {"none"}]
  /\ last \in [Streams -> Nat \cup {-1}]
  /\ handler \in {"reading", "waiting", "ended"}
  /\ writer \in {"running", "ended"}
  /\ client \in {"connected", "gone"}
  /\ Len(outbox) <= OutboxMax

\* The ring buffer holds the newest Capacity occurrences, in the order they were
\* pushed, at every wrap of the head.
RingHoldsNewest ==
  \A p \in Probes :
    iter(buffers[p]) = SubSeq(pushed[p],
                              IF Len(pushed[p]) > Capacity
                              THEN Len(pushed[p]) - Capacity + 1 ELSE 1,
                              Len(pushed[p]))

\* What a stream has sent, received or still in the channel.
Sent(s) ==
  LET frames == SelectSeq(outbox, LAMBDA f : f.type = "STREAM_EVENT" /\ f.of = s)
  IN  got[s] \o [i \in DOMAIN frames |-> frames[i].id]

Position(seq, x) == SelectInSeq(seq, LAMBDA y : y = x)

\* Two occurrences of one millisecond whose ids are not in the order they
\* happened: Ulid::new makes the low bits at random.
Inverted(p, early, late) ==
  /\ MsOf(early) = MsOf(late)
  /\ Position(pushed[p], early) < Position(pushed[p], late)
  /\ early > late

\* What a poll may do to the order, with ids that are random within a
\* millisecond (store.rs: "string comparison gives chronological order").  A
\* stream sends what its probe pushed and never goes back to an earlier
\* millisecond.  It goes back, or repeats itself, only within one millisecond
\* and only after it sent an occurrence with an inverted id: where ids grow with
\* every occurrence, each is sent at most once and in the order they happened.
\* The wall clock is taken not to go backwards.
StreamsInOrder ==
  \A s \in Streams :
    LET sent == Sent(s)
        p == topic[s]
    IN  /\ sent # <<>> => p \in Probes /\ ToSet(sent) \subseteq ToSet(pushed[p])
        /\ \A i, j \in DOMAIN sent :
             i < j =>
               /\ MsOf(sent[i]) <= MsOf(sent[j])
               /\ \/ Position(pushed[p], sent[i]) < Position(pushed[p], sent[j])
                  \/ \E k \in i..j - 1 : Inverted(p, sent[j], sent[k])

\* Occurrence id happened no later than the newest one sent, is stored and
\* fresh, and was not sent.
PassedOver(s, id) ==
  LET all == pushed[topic[s]]
  IN  /\ last[s] # -1 /\ ~Closed
      /\ id \in ToSet(iter(buffers[topic[s]]))
      /\ MsOf(id) + Window >= clock
      /\ Position(all, id) <= Position(all, last[s])
      /\ id \notin ToSet(Sent(s))

\* A stream loses only what left the store or the window before it was polled,
\* and of the rest only an occurrence whose id is smaller than that of an
\* earlier one of its millisecond, which the stream had sent before it polled
\* again.
NothingSkipped ==
  \A s \in Streams, id \in Made :
    PassedOver(s, id) =>
      \E sent \in ToSet(Sent(s)) : Inverted(topic[s], sent, id)

\* jalki/src/store.rs: "string comparison gives chronological order", so that
\* what is older than the newest event sent has been sent.
NothingLost == \A s \in Streams, id \in Made : ~PassedOver(s, id)

\* Unsubscribing one probe touches no other stream (#51): a stream the client
\* did not unsubscribe goes on for as long as the client is there.
OnlyTheNamedStreamEnds ==
  \A s \in Streams :
    (phase[s] = "gone" \/ s \in aborted) /\ client = "connected" =>
      topic[s] \in stopped

\* An occurrence that is stored reaches a subscribed client, unless it leaves
\* the store or the window first, the stream is stopped, or an earlier one of
\* its millisecond with a greater id has reached the client: the tasks cannot
\* block each other on the channel for ever.
EventsReachTheClient ==
  \A s \in Streams, p \in Probes, id \in 0..Id(MaxClock, PerMs - 1) :
    (topic[s] = p /\ phase[s] # "gone" /\ id \in ToSet(pushed[p]))
      ~> \/ id \in ToSet(got[s])
         \/ \E other \in ToSet(got[s]) : Inverted(p, other, id)
         \/ id \notin ToSet(iter(buffers[p]))
         \/ MsOf(id) + Window < clock
         \/ s \notin subscriptions
         \/ client = "gone"

\* ipc.rs: "Send response first.", and specs/protocol/subscribe.md: RESPONSE is
\* "Followed by STREAM_START frame".
ResponseComesFirst ==
  \A s \in Streams :
    phase[s] \in {"polling", "sending", "sleeping"} => RESPONSE(s) \notin ToSet(reply)

\* specs/protocol/subscribe.md: "Stream ends with STREAM_END when unsubscribed":
\* no event of the stream follows it.
EndIsTheEnd ==
  [][\A s \in Streams :
       /\ s \notin subscriptions
       /\ client = "connected" /\ topic[s] \in stopped
       /\ STREAM_END(topic[s]) \notin ToSet(reply)
       => Sent(s)' = Sent(s)]_vars

\* specs/protocol/get_events.md: "With `probe_id`: returns stored events for that
\* probe only"; a probe_id is what deploy and status report.
EventsById ==
  \A p \in Probes : get_events(IdOf[p]) = query(buffers[p], clock)

\* When the client has gone, the handler's task ends and gives the socket back.
ConnectionEnds == client = "gone" ~> handler = "ended"
=============================================================================
