--------------------------- MODULE ProbeLifecycle ---------------------------
(***************************************************************************)
(* Probes that come and go at runtime: ProbeRegistry (jalki/src/           *)
(* registry.rs) and DaemonHandle::deploy_probe, deploy_codegen and         *)
(* detach_probe (runtime.rs).  A connection handles one request at a time, *)
(* but every connection is a task of its own, so requests of different     *)
(* connections interleave at each lock and each await.                     *)
(*                                                                         *)
(* A call makes one request, so an instance of a probe, its reader and its *)
(* generated eBPF object are all named by the call that deployed them.     *)
(* Probes compiled into the daemon's shared object take the fast path, all *)
(* others are generated.  The kernel may refuse to load or to attach.      *)
(***************************************************************************)
EXTENDS Naturals, FiniteSets, Functions

CONSTANTS
  Calls,        \* requests to deploy or detach
  Connections,  \* how many of them may run at the same time
  Compiled,     \* names of the probes in the shared object
  Startup,      \* those of them attached at startup
  Generated     \* functions whose probe is generated

ASSUME LifecycleAssumption ==
  /\ Connections \subseteq Nat \ {0}
  /\ IsFiniteSet(Calls)
  /\ IsFiniteSet(Startup)
  /\ Startup # {}
  /\ Startup \subseteq Compiled
  /\ Compiled \cap Generated = {}
  /\ Calls \cap Startup = {}

VARIABLES
  connections, \* how many clients there are
  pc,        \* where each call stands, or what it answered
  subject,   \* the probe name a call is about
  attached,  \* ProbeRegistry::attached, as [id, name, by]
  next_id,   \* ProbeRegistry::next_id
  program,   \* the state of each program of the shared object
  taken,     \* probes whose maps were taken out of the shared object
  live,      \* generated objects that have not been dropped
  hooked,    \* those whose program is attached
  generated, \* DaemonHandle::generated_probes, a partial function
  reader     \* the reader of each instance

kernelVars == <<program, taken, live, hooked>>
vars == <<connections, pc, subject, attached, next_id, program, taken, live,
          hooked, generated, reader>>

Names == Compiled \cup Generated

\* Steps of a call.  The fast path holds the mutex of the shared object from
\* "checking" to the answer; registry.attach has no await in between.
Attaching == {"checking", "attaching", "spawning", "registering"}
Active == Attaching \cup {"locking", "generating", "keeping", "unloading"}
Answers == {"deployed", "refused", "detached", "unknown"}

Goto(c, label) == pc' = [pc EXCEPT ![c] = label]

HoldsShared(c) == subject[c] \in Compiled /\ pc[c] \in Attaching

\* An instance is registered under the name of its probe.
Registered(name) == \E e \in attached : e.name = name

-----------------------------------------------------------------------------
\* Startup: the loader skips a probe the kernel refuses and goes on as long as
\* one is attached; readers are spawned and registered for all of them.
Init ==
  /\ connections \in Connections
  /\ pc = [c \in Calls |-> "idle"]
  /\ subject = [c \in Calls |-> "none"]
  /\ program \in [Compiled -> {"unloaded", "loaded", "attached"}]
  /\ \A p \in Compiled \ Startup : program[p] = "unloaded"
  /\ \E p \in Startup : program[p] = "attached"
  /\ taken = Startup
  /\ \E id \in Bijection(Startup, 1..Cardinality(Startup)) :
       attached = {[id |-> id[p], name |-> p, by |-> p] : p \in Startup}
  /\ next_id = Cardinality(Startup) + 1
  /\ live = {}
  /\ hooked = {}
  /\ generated = <<>>
  /\ reader = [x \in Calls \cup Startup |->
                 IF x \in Startup THEN "running" ELSE "none"]

Accept(c) ==
  /\ pc[c] = "idle"
  /\ Cardinality({d \in Calls : pc[d] \in Active}) < connections

\* deploy_probe chooses the path.
Deploy(c, name) ==
  /\ Accept(c)
  /\ subject' = [subject EXCEPT ![c] = name]
  /\ Goto(c, IF name \in Compiled THEN "locking" ELSE "generating")
  /\ UNCHANGED <<attached, next_id, kernelVars, generated, reader>>

LockShared(c) ==
  /\ pc[c] = "locking"
  /\ \A d \in Calls : ~HoldsShared(d)
  /\ Goto(c, "checking")
  /\ UNCHANGED <<subject, attached, next_id, kernelVars, generated, reader>>

\* deploy_codegen up to the load of the generated ELF.
Generate(c) ==
  /\ pc[c] = "generating"
  /\ \/ /\ live' = live \cup {c}
        /\ Goto(c, "checking")
     \/ /\ Goto(c, "refused")
        /\ UNCHANGED live
  /\ UNCHANGED <<subject, attached, next_id, program, taken, hooked, generated,
                 reader>>

\* An error in registry.attach: the `?` of the caller drops a generated object.
Refuse(c) ==
  /\ Goto(c, "refused")
  /\ live' = live \ {c}
  /\ hooked' = hooked \ {c}
  /\ UNCHANGED <<subject, attached, next_id, taken, generated, reader>>

\* Mutant: a request for a probe that is attached tries again.
CheckName_retrying(c) ==
  /\ pc[c] = "checking"
  /\ Goto(c, IF ~Registered(subject[c]) THEN "attaching"
             ELSE IF subject[c] \in Compiled THEN "locking" ELSE "checking")
  /\ UNCHANGED <<subject, attached, next_id, kernelVars, generated, reader>>

\* registry.attach looks for the name under the read lock and lets go of it.
CheckName(c) ==
  /\ pc[c] = "checking"
  /\ \/ /\ Registered(subject[c])
        /\ Refuse(c)
        /\ UNCHANGED program
     \/ /\ ~Registered(subject[c])
        /\ Goto(c, "attaching")
        /\ UNCHANGED <<subject, attached, next_id, kernelVars, generated, reader>>

\* A program of the shared object can be loaded once; a second load is an
\* error, also after a load whose attach failed.
AttachCompiled(c) ==
  /\ pc[c] = "attaching"
  /\ subject[c] \in Compiled
  /\ \/ /\ program[subject[c]] = "unloaded"
        /\ program' = [program EXCEPT ![subject[c]] = "attached"]
        /\ Goto(c, "spawning")
        /\ UNCHANGED <<subject, attached, next_id, taken, live, hooked,
                       generated, reader>>
     \/ /\ program[subject[c]] = "unloaded"
        /\ \E left \in {"unloaded", "loaded"} :
             program' = [program EXCEPT ![subject[c]] = left]
        /\ Refuse(c)
     \/ /\ program[subject[c]] # "unloaded"
        /\ UNCHANGED program
        /\ Refuse(c)

AttachGenerated(c) ==
  /\ pc[c] = "attaching"
  /\ subject[c] \in Generated
  /\ \/ /\ hooked' = hooked \cup {c}
        /\ Goto(c, "spawning")
        /\ UNCHANGED <<subject, attached, next_id, program, taken, live,
                       generated, reader>>
     \/ /\ UNCHANGED program
        /\ Refuse(c)

\* spawn_reader takes the maps out of the object and reads the clock, which may
\* fail.  That the maps are there is MapsAreThere below; a generated object is
\* fresh.
SpawnReader(c) ==
  /\ pc[c] = "spawning"
  /\ taken' = taken \cup ({subject[c]} \cap Compiled)
  /\ \/ /\ reader' = [reader EXCEPT ![c] = "running"]
        /\ Goto(c, "registering")
        /\ UNCHANGED <<live, hooked>>
     \/ /\ Goto(c, "refused")
        /\ live' = live \ {c}
        /\ hooked' = hooked \ {c}
        /\ UNCHANGED reader
  /\ UNCHANGED <<subject, attached, next_id, program, generated>>

\* The end of registry.attach: an id, and the entry under the write lock.  For
\* a generated probe the caller then waits for the lock of generated_probes.
Register(c) ==
  /\ pc[c] = "registering"
  /\ attached' = attached \cup {[id |-> next_id, name |-> subject[c], by |-> c]}
  /\ next_id' = next_id + 1
  /\ Goto(c, IF subject[c] \in Compiled THEN "deployed" ELSE "keeping")
  /\ UNCHANGED <<subject, kernelVars, generated, reader>>

Previous(name) == IF name \in DOMAIN generated THEN {generated[name]} ELSE {}

\* Mutant: an object that is replaced is not dropped.
Keep_leaking(c) ==
  /\ pc[c] = "keeping"
  /\ generated' = [n \in DOMAIN generated \cup {subject[c]} |->
                     IF n = subject[c] THEN c ELSE generated[n]]
  /\ Goto(c, "deployed")
  /\ UNCHANGED <<subject, attached, next_id, kernelVars, reader>>

\* The end of deploy_codegen: generated_probes takes the object and the one it
\* replaces is dropped, which detaches and unloads its program.
Keep(c) ==
  /\ pc[c] = "keeping"
  /\ generated' = [n \in DOMAIN generated \cup {subject[c]} |->
                     IF n = subject[c] THEN c ELSE generated[n]]
  /\ live' = live \ Previous(subject[c])
  /\ hooked' = hooked \ Previous(subject[c])
  /\ Goto(c, "deployed")
  /\ UNCHANGED <<subject, attached, next_id, program, taken, reader>>

-----------------------------------------------------------------------------
\* Mutant: the entry goes, its reader is not told.
Detach_silent(c, id) ==
  /\ Accept(c)
  /\ \E e \in attached :
       /\ e.id = id
       /\ e.by \notin Startup
       /\ attached' = attached \ {e}
       /\ subject' = [subject EXCEPT ![c] = e.name]
       /\ Goto(c, "unloading")
  /\ UNCHANGED <<next_id, kernelVars, generated, reader>>

\* registry.detach, one critical section of the write lock: an unknown id is a
\* no-op, a startup probe an error, any other is told to stop and forgotten.
Detach(c, id) ==
  /\ Accept(c)
  /\ \/ /\ \A e \in attached : e.id # id
        /\ Goto(c, "unknown")
        /\ UNCHANGED <<reader, attached, subject>>
     \/ \E e \in attached :
          /\ e.id = id
          /\ e.by \in Startup
          /\ Goto(c, "refused")
          /\ UNCHANGED <<reader, attached, subject>>
     \/ \E e \in attached :
          /\ e.id = id
          /\ e.by \notin Startup
          /\ reader' = [reader EXCEPT ![e.by] = "stopping"]
          /\ attached' = attached \ {e}
          /\ subject' = [subject EXCEPT ![c] = e.name]
          /\ Goto(c, "unloading")
  /\ UNCHANGED <<next_id, kernelVars, generated>>

\* Mutant: the object stays in generated_probes.
Unload_forgetting(c) ==
  /\ pc[c] = "unloading"
  /\ Goto(c, "detached")
  /\ UNCHANGED <<subject, attached, next_id, kernelVars, generated, reader>>

\* The rest of detach_probe: what generated_probes has under the name goes.
Unload(c) ==
  /\ pc[c] = "unloading"
  /\ generated' = Restrict(generated, DOMAIN generated \ {subject[c]})
  /\ live' = live \ Previous(subject[c])
  /\ hooked' = hooked \ Previous(subject[c])
  /\ Goto(c, "detached")
  /\ UNCHANGED <<subject, attached, next_id, program, taken, reader>>

\* drain_loop checks the flag between two drains, and drops the ring buffer.
ReaderExits(c) ==
  /\ reader[c] = "stopping"
  /\ reader' = [reader EXCEPT ![c] = "gone"]
  /\ UNCHANGED <<pc, subject, attached, next_id, kernelVars, generated>>

Step(c) ==
  \/ LockShared(c)
  \/ Generate(c)
  \/ CheckName(c)
  \/ AttachCompiled(c)
  \/ AttachGenerated(c)
  \/ SpawnReader(c)
  \/ Register(c)
  \/ Keep(c)
  \/ Unload(c)

\* All requests answered and all readers at rest.
Quiet ==
  /\ \A c \in Calls : pc[c] \in Answers /\ reader[c] # "stopping"
  /\ UNCHANGED vars

Next ==
  \/ /\ \E c \in Calls :
          \/ \E name \in Names : Deploy(c, name)
          \/ \E id \in 1..next_id : Detach(c, id)
          \/ Step(c)
          \/ ReaderExits(c)
     /\ UNCHANGED connections
  \/ Quiet

Spec == Init /\ [][Next]_vars

\* A call that was accepted goes on and readers poll their flag.  Nobody has to
\* send a request.
Fairness ==
  \A c \in Calls : /\ WF_vars(Step(c) /\ UNCHANGED connections)
                   /\ WF_vars(ReaderExits(c) /\ UNCHANGED connections)
FairSpec == Spec /\ Fairness

-----------------------------------------------------------------------------
(* Properties *)

TypeOK ==
  /\ connections \in Connections
  /\ pc \in [Calls -> {"idle"} \cup Active \cup Answers]
  /\ subject \in [Calls -> Names \cup {"none"}]
  /\ next_id \in Nat
  /\ attached \subseteq [id : 1..next_id - 1, name : Names, by : Calls \cup Startup]
  /\ program \in [Compiled -> {"unloaded", "loaded", "attached"}]
  /\ taken \subseteq Compiled
  /\ hooked \subseteq live
  /\ live \subseteq Calls
  /\ generated \in [DOMAIN generated -> Calls]
  /\ DOMAIN generated \subseteq Generated
  /\ reader \in [Calls \cup Startup -> {"none", "running", "stopping", "gone"}]

\* Generated objects in the hands of the call that made them.
InHand == {c \in Calls : subject[c] \in Generated
                         /\ pc[c] \in Attaching \cup {"keeping"}}

\* No generated object is leaked (#19): one that has not been dropped is in the
\* hands of its deploy_codegen or in generated_probes under its function, and
\* generated_probes holds no object that was dropped, whatever the requests
\* that race for the same function.
ObjectsAreOwned == live = InHand \cup Range(generated)

\* Readers and the registry agree: an instance has a reader that nobody told to
\* stop exactly while it has its one entry, or its deploy is about to make it.
\* Failed deploys leave no reader behind, detach stops the right one, and a
\* startup probe keeps its entry and its reader through every request.
ReadersMatchRegistry ==
  /\ \A x \in Calls \cup Startup : Cardinality({e \in attached : e.by = x}) <= 1
  /\ \A c \in Calls :
       reader[c] = "running" <=>
         pc[c] = "registering" \/ \E e \in attached : e.by = c
  /\ \A p \in Startup : /\ \E e \in attached : e.name = p /\ e.by = p
                        /\ reader[p] = "running"

\* No probe of the shared object has two entries, although the registry looks
\* the name up and inserts it under two different locks: the mutex of the shared
\* object covers both.
CompiledOnce ==
  \A e, f \in attached : e.name \in Compiled /\ e.name = f.name => e = f

\* spawn_reader finds the maps it takes: a compiled probe that passes the name
\* check and the attach still has its maps in the shared object.
MapsAreThere ==
  \A c \in Calls : pc[c] = "spawning" => subject[c] \notin taken

\* An id names one instance for ever: an entry that appears has an id that no
\* entry, present or past, ever had (a retried detach hits nothing else).
IdsAreFresh ==
  [][\A e \in attached' \ attached : \A n \in 1..next_id - 1 : e.id # n]_vars

\* Every accepted request is answered, also when the fast path's mutex is
\* contended, and a reader that is told to stop ends.
CallsAreAnswered ==
  \A c \in Calls : /\ pc[c] \in Active ~> pc[c] \in Answers
                   /\ reader[c] = "stopping" ~> reader[c] = "gone"

\* A registered generated probe has its program in the kernel.  DaemonHandle's
\* comment says "All methods are safe to call concurrently"; this does not hold
\* when a deploy overlaps with another deploy or a detach of the same function.
RegisteredIsHooked ==
  \A e \in attached :
    e.name \in Generated /\ pc[e.by] \notin {"keeping"} => e.by \in hooked

\* For a single client it does hold, and between two of its requests the
\* generated objects that are loaded are exactly those of registered probes,
\* after every sequence of deploys and detaches, failed ones included.
SoundForOneClient ==
  connections = 1 =>
    /\ RegisteredIsHooked
    /\ (\A c \in Calls : pc[c] \notin Active) =>
         live = {e.by : e \in {f \in attached : f.name \in Generated}}

\* detach_probe's comment: "Detach a runtime-deployed probe and unload its BPF
\* programs."  With no request under way, the program of a probe of the shared
\* object that was detached is not attached, unless it was deployed again.
DetachUnloads ==
  (\A c \in Calls : pc[c] \notin Active) =>
    \A c \in Calls : pc[c] = "detached" /\ subject[c] \in Compiled =>
      program[subject[c]] # "attached" \/ Registered(subject[c])
=============================================================================
