------------------------ MODULE ProbeLifecycleProofs ------------------------
(***************************************************************************)
(* Theorems about ProbeLifecycle, for any number of calls, probes and      *)
(* connections.                                                            *)
(*                                                                         *)
(* The invariant says who owns what.  An entry of the registry belongs to  *)
(* the call that made it, which is past its registration and can be named  *)
(* by no other entry; an object of generated_probes belongs to a call that *)
(* was answered; the mutex of the shared object has one holder, whose name *)
(* nobody else can register.  SoundForOneClient needs more: that a single  *)
(* client keeps the two tables, which have a lock each, in step.           *)
(***************************************************************************)
EXTENDS ProbeLifecycle, FiniteSetTheorems, TLAPS

\* TypeOK but for hooked \subseteq live, which is a matter of ownership.
Types ==
  /\ connections \in Connections
  /\ pc \in [Calls -> {"idle"} \cup Active \cup Answers]
  /\ subject \in [Calls -> Names \cup {"none"}]
  /\ next_id \in Nat \ {0}
  /\ attached \subseteq [id : 1..next_id - 1, name : Names, by : Calls \cup Startup]
  /\ program \in [Compiled -> {"unloaded", "loaded", "attached"}]
  /\ taken \subseteq Compiled
  /\ hooked \subseteq Calls
  /\ live \subseteq Calls
  /\ generated \in [DOMAIN generated -> Calls]
  /\ DOMAIN generated \subseteq Generated
  /\ reader \in [Calls \cup Startup -> {"none", "running", "stopping", "gone"}]

\* What a call works on.
Subjects ==
  \A c \in Calls :
    /\ pc[c] = "locking" => subject[c] \in Compiled
    /\ pc[c] \in {"generating", "keeping"} => subject[c] \in Generated
    /\ pc[c] \in Attaching \cup {"unloading"} => subject[c] \in Names

\* A case for each kind of step; the last covers the steps that change nothing.
LEMMA StepCases ==
  ASSUME [Next]_vars
  PROVE  \/ \E c \in Calls : \/ \E name \in Names : Deploy(c, name)
                             \/ \E id \in 1..next_id : Detach(c, id)
                             \/ LockShared(c) \/ Generate(c) \/ CheckName(c)
                             \/ AttachCompiled(c) \/ AttachGenerated(c)
                             \/ SpawnReader(c) \/ Register(c) \/ Keep(c)
                             \/ Unload(c) \/ ReaderExits(c)
         \/ UNCHANGED vars
BY DEF Next, Step, Quiet

LEMMA TypesInit == Init => Types /\ Subjects
<1> SUFFICES ASSUME Init PROVE Types /\ Subjects
  OBVIOUS
<1> USE LifecycleAssumption
<1>1. Cardinality(Startup) \in Nat
  BY FS_CardinalityType
<1>2. attached \subseteq [id : 1..next_id - 1, name : Names, by : Calls \cup Startup]
  <2>1. PICK id \in [Startup -> 1..Cardinality(Startup)] :
          attached = {[id |-> id[p], name |-> p, by |-> p] : p \in Startup}
    BY DEF Init, Bijection, Injection, Surjection
  <2>2. next_id - 1 = Cardinality(Startup)
    BY <1>1 DEF Init
  <2>3. QED
    BY <2>1, <2>2 DEF Names
<1>3. generated \in [DOMAIN generated -> Calls] /\ DOMAIN generated = {}
  BY DEF Init
<1>4. QED
  BY <1>1, <1>2, <1>3 DEF Init, Types, Subjects, Attaching, Active

LEMMA TypesStep == Types /\ Subjects /\ [Next]_vars => Types' /\ Subjects'
<1> SUFFICES ASSUME Types, Subjects, [Next]_vars PROVE Types' /\ Subjects'
  OBVIOUS
<1> USE LifecycleAssumption DEF kernelVars, Goto
<1>0. connections' \in Connections
  BY DEF Types, Next, Quiet, vars
<1>1. ASSUME NEW c \in Calls, NEW name \in Names, Deploy(c, name)
      PROVE  Types' /\ Subjects'
  BY <1>0, <1>1 DEF Deploy, Types, Subjects, Names, Active, Attaching, Answers
<1>2. ASSUME NEW c \in Calls, NEW id \in 1..next_id, Detach(c, id)
      PROVE  Types' /\ Subjects'
  BY <1>0, <1>2 DEF Detach, Accept, Types, Subjects, Names, Active, Attaching, Answers
<1>3. ASSUME NEW c \in Calls, LockShared(c) \/ CheckName(c) PROVE Types' /\ Subjects'
  BY <1>0, <1>3 DEF LockShared, CheckName, Refuse, Types, Subjects, Names, Active,
                    Attaching, Answers
<1>4. ASSUME NEW c \in Calls, Generate(c) PROVE Types' /\ Subjects'
  BY <1>0, <1>4 DEF Generate, Types, Subjects, Names, Active, Attaching, Answers
<1>5. ASSUME NEW c \in Calls, AttachCompiled(c) \/ AttachGenerated(c)
      PROVE  Types' /\ Subjects'
  <2>1. program' \in [Compiled -> {"unloaded", "loaded", "attached"}]
    BY <1>5 DEF AttachCompiled, AttachGenerated, Types
  <2>2. CASE AttachCompiled(c)
    BY <1>0, <2>1, <2>2 DEF AttachCompiled, Refuse, Types, Subjects, Names, Active,
                            Attaching, Answers
  <2>3. CASE AttachGenerated(c)
    BY <1>0, <2>3 DEF AttachGenerated, Refuse, Types, Subjects, Names, Active,
                      Attaching, Answers
  <2>4. QED
    BY <1>5, <2>2, <2>3
<1>6. ASSUME NEW c \in Calls, SpawnReader(c) \/ ReaderExits(c) PROVE Types' /\ Subjects'
  BY <1>0, <1>6 DEF SpawnReader, ReaderExits, Types, Subjects, Names, Active,
                    Attaching, Answers
<1>7. ASSUME NEW c \in Calls, Register(c) PROVE Types' /\ Subjects'
  <2>1. next_id' = next_id + 1 /\ next_id \in 1..next_id' - 1 /\ next_id' \in Nat
    BY <1>7 DEF Register, Types
  <2>2. attached \subseteq [id : 1..next_id' - 1, name : Names, by : Calls \cup Startup]
    BY <2>1 DEF Types
  <2>3. [id |-> next_id, name |-> subject[c], by |-> c]
          \in [id : 1..next_id' - 1, name : Names, by : Calls \cup Startup]
    BY <1>7, <2>1 DEF Register, Subjects, Attaching
  <2>4. attached' \subseteq [id : 1..next_id' - 1, name : Names, by : Calls \cup Startup]
    BY <1>7, <2>2, <2>3 DEF Register
  <2>5. QED
    BY <1>0, <1>7, <2>1, <2>4 DEF Register, Types, Subjects, Names, Active, Attaching, Answers
<1>8. ASSUME NEW c \in Calls, Keep(c) \/ Unload(c) PROVE Types' /\ Subjects'
  <2>1. /\ generated' \in [DOMAIN generated' -> Calls]
        /\ DOMAIN generated' \subseteq Generated
    BY <1>8 DEF Keep, Unload, Restrict, Types, Subjects
  <2>2. QED
    BY <1>0, <1>8, <2>1 DEF Keep, Unload, Types, Subjects, Names, Active, Attaching, Answers
<1>9. ASSUME UNCHANGED vars PROVE Types' /\ Subjects'
  BY <1>0, <1>9 DEF vars, Types, Subjects
<1>10. QED
  BY <1>1, <1>2, <1>3, <1>4, <1>5, <1>6, <1>7, <1>8, <1>9, StepCases


-----------------------------------------------------------------------------
\* What generated_probes holds was put there by a call that was answered.  So
\* no object is there twice, and none is in the hands of a call as well.
GeneratedByAnswered ==
  \A n \in DOMAIN generated : /\ pc[generated[n]] = "deployed"
                              /\ subject[generated[n]] = n

\* A program that is attached, or an object that was kept, has not been dropped.
HookedObjects ==
  /\ hooked \subseteq live
  /\ Range(generated) \subseteq hooked
  /\ \A c \in InHand : pc[c] \in {"spawning", "registering", "keeping"} => c \in hooked

Ownership == ObjectsAreOwned /\ GeneratedByAnswered /\ HookedObjects

LEMMA OwnershipInit == Init => Ownership
<1> SUFFICES ASSUME Init PROVE Ownership
  OBVIOUS
<1>1. DOMAIN generated = {} /\ Range(generated) = {} /\ InHand = {}
  BY DEF Init, Range, InHand, Attaching
<1>2. QED
  BY <1>1 DEF Init, Ownership, ObjectsAreOwned, GeneratedByAnswered, HookedObjects

\* Steps that leave generated_probes alone and touch no object but c's own,
\* which c has in its hands before or after the step.
LEMMA OwnObjectOnly ==
  ASSUME Types, Types', Ownership, NEW c \in Calls, generated' = generated,
         pc[c] # "deployed",
         \A d \in Calls \ {c} : /\ pc'[d] = pc[d] /\ subject'[d] = subject[d]
                                /\ d \in live' <=> d \in live
                                /\ d \in hooked' <=> d \in hooked,
         c \in live' <=> c \in InHand',
         c \in hooked' => c \in live',
         c \in InHand' /\ pc'[c] \in {"spawning", "registering", "keeping"} => c \in hooked'
  PROVE  Ownership'
<1>1. ASSUME NEW n \in DOMAIN generated PROVE generated[n] \in Calls \ {c}
  BY DEF Ownership, GeneratedByAnswered, Types
<1>2. GeneratedByAnswered'
  BY <1>1 DEF Ownership, GeneratedByAnswered
<1>3. \A d \in Calls \ {c} : d \in InHand' <=> d \in InHand
  BY DEF InHand
<1>4. Range(generated)' = Range(generated) /\ Range(generated) \subseteq Calls \ {c}
  BY <1>1 DEF Range
<1>5. live' \subseteq Calls /\ InHand' \subseteq Calls /\ live \subseteq Calls /\ hooked' \subseteq Calls
  BY DEF Types, InHand
<1>6. ASSUME NEW x \in Calls PROVE x \in live' <=> x \in InHand' \cup Range(generated)'
  BY <1>3, <1>4 DEF Ownership, ObjectsAreOwned
<1>7. ObjectsAreOwned'
  BY <1>4, <1>5, <1>6 DEF ObjectsAreOwned
<1>8. HookedObjects'
  BY <1>3, <1>4, <1>5 DEF Ownership, HookedObjects
<1>9. QED
  BY <1>2, <1>7, <1>8 DEF Ownership

LEMMA OwnershipStep ==
  Types /\ Subjects /\ Types' /\ Subjects' /\ Ownership /\ [Next]_vars => Ownership'
<1> SUFFICES ASSUME Types, Subjects, Types', Subjects', Ownership, [Next]_vars
             PROVE  Ownership'
  OBVIOUS
<1> USE LifecycleAssumption DEF kernelVars, Goto
<1>0. /\ \A c \in Calls : pc[c] # "deployed" => (c \in live <=> c \in InHand)
      /\ hooked \subseteq live
      /\ \A c \in InHand : pc[c] \in {"spawning", "registering", "keeping"} => c \in hooked
  BY DEF Ownership, ObjectsAreOwned, GeneratedByAnswered, HookedObjects, Range
<1>1. ASSUME NEW c \in Calls, NEW name \in Names, Deploy(c, name) PROVE Ownership'
  BY <1>0, <1>1, OwnObjectOnly DEF Deploy, Accept, Types, InHand, Attaching
<1>2. ASSUME NEW c \in Calls, NEW id \in 1..next_id, Detach(c, id) PROVE Ownership'
  BY <1>0, <1>2, OwnObjectOnly DEF Detach, Accept, Types, InHand, Attaching
<1>3. ASSUME NEW c \in Calls, LockShared(c) PROVE Ownership'
  BY <1>0, <1>3, OwnObjectOnly DEF LockShared, Types, Subjects, InHand, Attaching
<1>4. ASSUME NEW c \in Calls, Generate(c) PROVE Ownership'
  BY <1>0, <1>4, OwnObjectOnly DEF Generate, Types, Subjects, InHand, Attaching
<1>5. ASSUME NEW c \in Calls, CheckName(c) PROVE Ownership'
  BY <1>0, <1>5, OwnObjectOnly DEF CheckName, Refuse, Types, InHand, Attaching
<1>6. ASSUME NEW c \in Calls, AttachCompiled(c) PROVE Ownership'
  BY <1>0, <1>6, OwnObjectOnly DEF AttachCompiled, Refuse, Types, InHand, Attaching
<1>7. ASSUME NEW c \in Calls, AttachGenerated(c) PROVE Ownership'
  BY <1>0, <1>7, OwnObjectOnly DEF AttachGenerated, Refuse, Types, InHand, Attaching
<1>8. ASSUME NEW c \in Calls, SpawnReader(c) PROVE Ownership'
  BY <1>0, <1>8, OwnObjectOnly DEF SpawnReader, Types, InHand, Attaching
<1>9. ASSUME NEW c \in Calls, Register(c) PROVE Ownership'
  BY <1>0, <1>9, OwnObjectOnly DEF Register, Types, Subjects, Names, InHand, Attaching
<1>10. ASSUME NEW c \in Calls, Keep(c) PROVE Ownership'
  <2>1. /\ DOMAIN generated' = DOMAIN generated \cup {subject[c]}
        /\ \A n \in DOMAIN generated' :
             generated'[n] = IF n = subject[c] THEN c ELSE generated[n]
    BY <1>10 DEF Keep
  <2>2. GeneratedByAnswered'
    BY <1>10, <2>1 DEF Keep, Ownership, GeneratedByAnswered, Types
  <2>3. \A x : x \in InHand' <=> x \in InHand \ {c}
    BY <1>10 DEF Keep, InHand, Types, Attaching
  <2>4. \A x : x \in Range(generated)' <=> x = c \/ (x \in Range(generated) /\ x \notin Previous(subject[c]))
    <3>1. \A x : x \in Range(generated)' <=> \E n \in DOMAIN generated' : x = generated'[n]
      BY DEF Range
    <3>2. \A x : x \in Range(generated) <=> \E n \in DOMAIN generated : x = generated[n]
      BY DEF Range
    <3>3. \A n \in DOMAIN generated : generated[n] \in Previous(subject[c]) <=> n = subject[c]
      BY DEF Previous, Ownership, GeneratedByAnswered
    <3>4. QED
      BY <2>1, <3>1, <3>2, <3>3
  <2>5. c \in InHand /\ c \notin Previous(subject[c]) /\ InHand \cap Previous(subject[c]) = {}
    BY <1>10 DEF Keep, InHand, Subjects, Previous, Ownership, GeneratedByAnswered, Attaching
  <2>6. ObjectsAreOwned'
    BY <1>10, <2>3, <2>4, <2>5 DEF Keep, Ownership, ObjectsAreOwned
  <2>7. HookedObjects'
    <3>1. c \in hooked
      BY <1>0, <1>10, <2>5 DEF Keep
    <3>2. \A d \in InHand' : pc'[d] = pc[d]
      BY <1>10, <2>3 DEF Keep, Types
    <3>3. QED
      BY <1>10, <2>3, <2>4, <2>5, <3>1, <3>2 DEF Keep, Ownership, HookedObjects
  <2>8. QED
    BY <2>2, <2>6, <2>7 DEF Ownership
<1>11. ASSUME NEW c \in Calls, Unload(c) PROVE Ownership'
  <2>1. /\ DOMAIN generated' = DOMAIN generated \ {subject[c]}
        /\ \A n \in DOMAIN generated' : generated'[n] = generated[n]
    BY <1>11 DEF Unload, Restrict
  <2>2. GeneratedByAnswered'
    BY <1>11, <2>1 DEF Unload, Ownership, GeneratedByAnswered, Types
  <2>3. \A x : x \in InHand' <=> x \in InHand
    BY <1>11 DEF Unload, InHand, Types, Attaching
  <2>4. \A x : x \in Range(generated)' <=> x \in Range(generated) /\ x \notin Previous(subject[c])
    <3>1. \A x : x \in Range(generated)' <=> \E n \in DOMAIN generated' : x = generated'[n]
      BY DEF Range
    <3>2. \A x : x \in Range(generated) <=> \E n \in DOMAIN generated : x = generated[n]
      BY DEF Range
    <3>3. \A n \in DOMAIN generated : generated[n] \in Previous(subject[c]) <=> n = subject[c]
      BY DEF Previous, Ownership, GeneratedByAnswered
    <3>4. QED
      BY <2>1, <3>1, <3>2, <3>3
  <2>5. InHand \cap Previous(subject[c]) = {}
    BY DEF InHand, Previous, Ownership, GeneratedByAnswered, Attaching
  <2>6. ObjectsAreOwned'
    BY <1>11, <2>3, <2>4, <2>5 DEF Unload, Ownership, ObjectsAreOwned
  <2>7. HookedObjects'
    <3>2. \A d \in InHand' : pc'[d] = pc[d]
      BY <1>11, <2>3 DEF Unload, InHand, Types, Attaching
    <3>3. QED
      BY <1>11, <2>3, <2>4, <2>5, <3>2 DEF Unload, Ownership, HookedObjects
  <2>8. QED
    BY <2>2, <2>6, <2>7 DEF Ownership
<1>12. ASSUME (\E c \in Calls : ReaderExits(c)) \/ UNCHANGED vars PROVE Ownership'
  BY <1>12 DEF ReaderExits, vars, Ownership, ObjectsAreOwned, GeneratedByAnswered,
               HookedObjects, InHand, Range
<1>13. QED
  BY <1>1, <1>2, <1>3, <1>4, <1>5, <1>6, <1>7, <1>8, <1>9, <1>10, <1>11, <1>12, StepCases

-----------------------------------------------------------------------------
\* An entry belongs to one instance: the probe attached at startup whose name it
\* has, or the call that registered it for the function it was asked for.
EntriesBelong ==
  /\ \A e \in attached :
       /\ e.by \in Calls => pc[e.by] \in {"keeping", "deployed"} /\ subject[e.by] = e.name
       /\ e.by \in Startup => e.name = e.by
  /\ \A e, f \in attached : e.by = f.by => e = f

\* ReadersMatchRegistry without the counting.
ReadersKnown ==
  /\ \A c \in Calls : reader[c] = "running" <=>
                        pc[c] = "registering" \/ \E e \in attached : e.by = c
  /\ \A p \in Startup : /\ \E e \in attached : e.name = p /\ e.by = p
                        /\ reader[p] = "running"

Registry == EntriesBelong /\ ReadersKnown

LEMMA RegistryInit == Init => Registry
<1> SUFFICES ASSUME Init PROVE Registry
  OBVIOUS
<1> USE LifecycleAssumption
<1>1. PICK id : attached = {[id |-> id[p], name |-> p, by |-> p] : p \in Startup}
  BY DEF Init
<1>2. \A e \in attached : e.by \in Startup /\ e.name = e.by /\ e = [id |-> id[e.by], name |-> e.by, by |-> e.by]
  BY <1>1
<1>3. EntriesBelong
  BY <1>2 DEF EntriesBelong
<1>4. \A p \in Startup : \E e \in attached : e.name = p /\ e.by = p
  <2> TAKE p \in Startup
  <2>1. [id |-> id[p], name |-> p, by |-> p] \in attached
    BY <1>1
  <2>2. QED
    BY <2>1
<1>5. QED
  BY <1>2, <1>3, <1>4 DEF Init, Registry, ReadersKnown

\* Steps of a call that touch neither the registry nor a reader.
LEMMA RegistryFrame ==
  ASSUME Types, Registry, NEW c \in Calls, UNCHANGED <<attached, reader>>,
         pc[c] \notin {"keeping", "deployed", "registering"},
         pc'[c] # "registering",
         \A d \in Calls \ {c} : pc'[d] = pc[d] /\ subject'[d] = subject[d]
  PROVE  Registry'
BY DEF Registry, EntriesBelong, ReadersKnown, Types

LEMMA RegistryStep == Types /\ Subjects /\ Registry /\ [Next]_vars => Registry'
<1> SUFFICES ASSUME Types, Subjects, Registry, [Next]_vars PROVE Registry'
  OBVIOUS
<1> USE LifecycleAssumption DEF kernelVars, Goto
<1>1. ASSUME NEW c \in Calls,
             \/ \E name \in Names : Deploy(c, name)
             \/ LockShared(c) \/ Generate(c) \/ CheckName(c)
             \/ AttachCompiled(c) \/ AttachGenerated(c) \/ Unload(c)
      PROVE  Registry'
  BY <1>1, RegistryFrame DEF Deploy, Accept, LockShared, Generate, CheckName, Refuse,
       AttachCompiled, AttachGenerated, Unload, Types
<1>2. ASSUME NEW c \in Calls, NEW id \in 1..next_id, Detach(c, id) PROVE Registry'
  <2>1. CASE UNCHANGED <<reader, attached, subject>>
    BY <1>2, <2>1, RegistryFrame DEF Detach, Accept, Types
  <2>2. ASSUME NEW e \in attached, e.by \notin Startup,
               reader' = [reader EXCEPT ![e.by] = "stopping"],
               attached' = attached \ {e},
               subject' = [subject EXCEPT ![c] = e.name],
               pc' = [pc EXCEPT ![c] = "unloading"], pc[c] = "idle"
        PROVE  Registry'
    <3>1. e.by \in Calls /\ e.by # c
      BY <2>2 DEF Types, Registry, EntriesBelong
    <3>2. EntriesBelong'
      BY <2>2, <3>1 DEF Types, Registry, EntriesBelong
    <3>3. ASSUME NEW d \in Calls
          PROVE  (reader[d] = "running" <=>
                    pc[d] = "registering" \/ \E f \in attached : f.by = d)'
      <4>1. CASE d = e.by
        BY <2>2, <3>1, <4>1 DEF Types, Registry, EntriesBelong
      <4>2. CASE d # e.by
        BY <2>2, <3>1, <4>2 DEF Types, Registry, ReadersKnown
      <4>3. QED
        BY <4>1, <4>2
    <3>4. ASSUME NEW p \in Startup
          PROVE  (/\ \E f \in attached : f.name = p /\ f.by = p
                  /\ reader[p] = "running")'
      BY <2>2, <3>1 DEF Types, Registry, ReadersKnown
    <3>5. QED
      BY <3>2, <3>3, <3>4 DEF Registry, ReadersKnown
  <2>3. QED
    BY <1>2, <2>1, <2>2 DEF Detach, Accept
<1>3. ASSUME NEW c \in Calls, SpawnReader(c) PROVE Registry'
  <2>1. EntriesBelong'
    BY <1>3 DEF SpawnReader, Registry, EntriesBelong, Types
  <2>2. ~ \E e \in attached : e.by = c
    BY <1>3 DEF SpawnReader, Registry, EntriesBelong, Types
  <2>3. ReadersKnown'
    BY <1>3, <2>2 DEF SpawnReader, Registry, ReadersKnown, Types
  <2>4. QED
    BY <2>1, <2>3 DEF Registry
<1>4. ASSUME NEW c \in Calls, Register(c) PROVE Registry'
  <2> DEFINE new == [id |-> next_id, name |-> subject[c], by |-> c]
  <2>1. attached' = attached \cup {new} /\ new.by = c /\ new.name = subject[c]
    BY <1>4 DEF Register
  <2>2. ~ \E e \in attached : e.by = c
    BY <1>4 DEF Register, Registry, EntriesBelong, Types
  <2> HIDE DEF new
  <2>3. EntriesBelong'
    BY <1>4, <2>1, <2>2 DEF Register, Registry, EntriesBelong, Types
  <2>4. ReadersKnown'
    BY <1>4, <2>1, <2>2 DEF Register, Registry, ReadersKnown, Types
  <2>5. QED
    BY <2>3, <2>4 DEF Registry
<1>5. ASSUME NEW c \in Calls, Keep(c) PROVE Registry'
  BY <1>5 DEF Keep, Registry, EntriesBelong, ReadersKnown, Types
<1>6. ASSUME NEW c \in Calls, ReaderExits(c) PROVE Registry'
  BY <1>6 DEF ReaderExits, Registry, EntriesBelong, ReadersKnown, Types
<1>7. ASSUME UNCHANGED vars PROVE Registry'
  BY <1>7 DEF vars, Registry, EntriesBelong, ReadersKnown
<1>8. QED
  BY <1>1, <1>2, <1>3, <1>4, <1>5, <1>6, <1>7, StepCases

LEMMA RegistryCounted == Registry => ReadersMatchRegistry
<1> SUFFICES ASSUME Registry, NEW x \in Calls \cup Startup
             PROVE  Cardinality({e \in attached : e.by = x}) <= 1
  BY DEF Registry, ReadersKnown, ReadersMatchRegistry
<1>1. CASE {e \in attached : e.by = x} = {}
  BY <1>1, FS_EmptySet
<1>2. ASSUME NEW e \in attached, e.by = x
      PROVE  Cardinality({f \in attached : f.by = x}) <= 1
  <2>1. {f \in attached : f.by = x} = {e}
    BY <1>2 DEF Registry, EntriesBelong
  <2>2. Cardinality({e}) = 1
    BY FS_Singleton
  <2>3. QED
    BY <2>1, <2>2
<1>3. QED
  BY <1>1, <1>2

-----------------------------------------------------------------------------
\* The mutex of the shared object has one holder, and from the name check to
\* the entry nobody else registers the name that it is about.
SharedHeldOnce ==
  /\ \A c, d \in Calls : HoldsShared(c) /\ HoldsShared(d) => c = d
  /\ \A c \in Calls : HoldsShared(c) /\ pc[c] # "checking" => ~Registered(subject[c])

\* A probe's maps leave the shared object at startup, or by the reader of a
\* program that was attached and stays so.
MapsTaken ==
  /\ \A p \in taken : p \in Startup \/ program[p] = "attached"
  /\ \A c \in Calls : pc[c] = "spawning" /\ subject[c] \in Compiled =>
                        program[subject[c]] = "attached"

Shared == SharedHeldOnce /\ CompiledOnce /\ MapsTaken /\ MapsAreThere

LEMMA SharedInit == Init => Shared
<1> SUFFICES ASSUME Init PROVE Shared
  OBVIOUS
<1>1. PICK id : attached = {[id |-> id[p], name |-> p, by |-> p] : p \in Startup}
  BY DEF Init
<1>2. CompiledOnce
  BY <1>1 DEF CompiledOnce
<1>3. QED
  BY <1>2 DEF Init, Shared, SharedHeldOnce, HoldsShared, Attaching, MapsTaken, MapsAreThere

LEMMA SharedStep ==
  Types /\ Subjects /\ Registry /\ Shared /\ [Next]_vars => Shared'
<1> SUFFICES ASSUME Types, Subjects, Registry, Shared, [Next]_vars PROVE Shared'
  OBVIOUS
<1> USE LifecycleAssumption DEF kernelVars, Goto
<1>0. ASSUME NEW c \in Calls,
             attached' \subseteq attached, UNCHANGED <<program, taken>>,
             \A d \in Calls \ {c} : pc'[d] = pc[d] /\ subject'[d] = subject[d],
             HoldsShared(c)' => HoldsShared(c) \/ \A d \in Calls : ~HoldsShared(d),
             HoldsShared(c)' /\ pc'[c] # "checking" => ~Registered(subject'[c]),
             pc'[c] # "spawning"
      PROVE  Shared'
  <2>1. \A n : Registered(n)' => Registered(n)
    BY <1>0 DEF Registered
  <2>2. \A d \in Calls \ {c} : HoldsShared(d)' <=> HoldsShared(d)
    BY <1>0 DEF HoldsShared
  <2>3. SharedHeldOnce'
    BY <1>0, <2>1, <2>2 DEF Shared, SharedHeldOnce, Registered
  <2>4. CompiledOnce'
    BY <1>0 DEF Shared, CompiledOnce
  <2>5. MapsTaken' /\ MapsAreThere'
    BY <1>0 DEF Shared, MapsTaken, MapsAreThere
  <2>6. QED
    BY <2>3, <2>4, <2>5 DEF Shared
<1>1. ASSUME NEW c \in Calls,
             \/ \E name \in Names : Deploy(c, name)
             \/ Generate(c) \/ LockShared(c) \/ Keep(c) \/ Unload(c)
             \/ \E id \in 1..next_id : Detach(c, id)
      PROVE  Shared'
  BY <1>0, <1>1 DEF Deploy, Generate, LockShared, Keep, Unload, Detach, HoldsShared,
                    Attaching, Types, Subjects
<1>2. ASSUME NEW c \in Calls, CheckName(c) PROVE Shared'
  BY <1>0, <1>2 DEF CheckName, Refuse, HoldsShared, Attaching, Types, Registered
<1>3. ASSUME NEW c \in Calls, AttachCompiled(c) PROVE Shared'
  <2>1. /\ HoldsShared(c) /\ ~Registered(subject[c]) /\ attached' = attached
        /\ subject' = subject /\ taken' = taken
        /\ pc' \in {[pc EXCEPT ![c] = "spawning"], [pc EXCEPT ![c] = "refused"]}
    BY <1>3 DEF AttachCompiled, Refuse, Shared, SharedHeldOnce, HoldsShared, Attaching
  <2>2. \A d \in Calls : HoldsShared(d)' => HoldsShared(d)
    BY <2>1 DEF HoldsShared, Attaching, Types
  <2>3. \A n : Registered(n)' <=> Registered(n)
    BY <2>1 DEF Registered
  <2>4. SharedHeldOnce'
    BY <2>1, <2>2, <2>3 DEF Shared, SharedHeldOnce, Types, Registered
  <2>5. CompiledOnce'
    BY <2>1 DEF Shared, CompiledOnce
  <2>6. subject[c] \notin Startup
    BY <2>1 DEF Registry, ReadersKnown, Registered
  <2>7. \A p \in Compiled : p # subject[c] => program'[p] = program[p]
    BY <1>3 DEF AttachCompiled, Types
  <2>8. program[subject[c]] # "unloaded" => program' = program /\ pc'[c] = "refused"
    BY <1>3 DEF AttachCompiled, Refuse, Types
  <2>9. pc'[c] = "spawning" => program[subject[c]] = "unloaded" /\ program'[subject[c]] = "attached"
    BY <1>3 DEF AttachCompiled, Refuse, Types
  <2>10. ASSUME NEW d \in Calls, d # c
         PROVE pc'[d] = pc[d] /\ (pc[d] = "spawning" => subject[d] # subject[c])
    BY <2>1, <2>10 DEF Shared, SharedHeldOnce, HoldsShared, Attaching, Types
  <2>11. MapsTaken'
    <3>1. ASSUME NEW p \in taken' PROVE p \in Startup \/ program'[p] = "attached"
      BY <2>1, <2>6, <2>7, <2>8 DEF Shared, MapsTaken, Types
    <3>2. ASSUME NEW d \in Calls, pc'[d] = "spawning", subject'[d] \in Compiled
          PROVE  program'[subject'[d]] = "attached"
      BY <2>1, <2>7, <2>9, <2>10, <3>2 DEF Shared, MapsTaken, Types
    <3>3. QED
      BY <3>1, <3>2 DEF MapsTaken
  <2>12. MapsAreThere'
    <3>1. ASSUME NEW d \in Calls, pc'[d] = "spawning" PROVE subject'[d] \notin taken'
      BY <2>1, <2>6, <2>9, <2>10, <3>1 DEF Shared, MapsTaken, MapsAreThere
    <3>2. QED
      BY <3>1 DEF MapsAreThere
  <2>13. QED
    BY <2>4, <2>5, <2>11, <2>12 DEF Shared
<1>4. ASSUME NEW c \in Calls, AttachGenerated(c) PROVE Shared'
  <2>1. /\ UNCHANGED <<attached, subject, taken, program>> /\ subject[c] \notin Compiled
        /\ \A d \in Calls \ {c} : pc'[d] = pc[d]
    BY <1>4 DEF AttachGenerated, Refuse, Types
  <2>2. \A d \in Calls : HoldsShared(d)' <=> HoldsShared(d)
    BY <2>1 DEF HoldsShared
  <2>3. SharedHeldOnce'
    BY <2>1, <2>2 DEF Shared, SharedHeldOnce, Registered, HoldsShared
  <2>4. QED
    BY <2>1, <2>3 DEF Shared, CompiledOnce, MapsTaken, MapsAreThere, Types
<1>5. ASSUME NEW c \in Calls, SpawnReader(c) PROVE Shared'
  <2>1. /\ UNCHANGED <<attached, subject, program>>
        /\ \A d \in Calls \ {c} : pc'[d] = pc[d]
        /\ pc[c] = "spawning" /\ pc'[c] \in {"registering", "refused"}
        /\ taken' = taken \cup ({subject[c]} \cap Compiled)
    BY <1>5 DEF SpawnReader, Types
  <2>2. \A d \in Calls : HoldsShared(d)' => HoldsShared(d)
    BY <2>1 DEF HoldsShared, Attaching
  <2>3. SharedHeldOnce'
    BY <2>1, <2>2 DEF Shared, SharedHeldOnce, Registered, HoldsShared
  <2>4. CompiledOnce'
    BY <2>1 DEF Shared, CompiledOnce
  <2>5. MapsTaken'
    BY <2>1 DEF Shared, MapsTaken
  <2>6. ASSUME NEW d \in Calls, pc'[d] = "spawning" PROVE subject'[d] \notin taken'
    <3>1. d # c /\ pc[d] = "spawning" /\ subject[d] \notin taken
      BY <2>1, <2>6 DEF Shared, MapsAreThere
    <3>2. ~(subject[c] \in Compiled /\ subject[d] = subject[c])
      BY <2>1, <3>1 DEF Shared, SharedHeldOnce, HoldsShared, Attaching
    <3>3. QED
      BY <2>1, <3>1, <3>2
  <2>7. QED
    BY <2>3, <2>4, <2>5, <2>6 DEF Shared, MapsAreThere
<1>6. ASSUME NEW c \in Calls, Register(c) PROVE Shared'
  <2> DEFINE new == [id |-> next_id, name |-> subject[c], by |-> c]
  <2>1. attached' = attached \cup {new} /\ new.name = subject[c]
    BY <1>6 DEF Register
  <2> HIDE DEF new
  <2>2. /\ UNCHANGED <<subject, program, taken>>
        /\ \A d \in Calls \ {c} : pc'[d] = pc[d]
        /\ pc[c] = "registering" /\ pc'[c] \in {"deployed", "keeping"}
    BY <1>6 DEF Register, Types
  <2>3. \A d \in Calls : HoldsShared(d)' <=> HoldsShared(d) /\ d # c
    BY <2>2 DEF HoldsShared, Attaching
  <2>4. \A n : Registered(n)' <=> Registered(n) \/ n = subject[c]
    BY <2>1 DEF Registered
  <2>5. \A d \in Calls : d # c /\ HoldsShared(d) => subject[d] # subject[c]
    BY <2>2 DEF Shared, SharedHeldOnce, HoldsShared, Attaching
  <2>6. SharedHeldOnce'
    <3>1. \A d \in Calls : HoldsShared(d)' => (Registered(subject[d])' <=> Registered(subject[d]))
      BY <2>2, <2>3, <2>4, <2>5 DEF Registered
    <3>2. QED
      BY <2>2, <2>3, <3>1 DEF Shared, SharedHeldOnce
  <2>7. CompiledOnce'
    <3>1. subject[c] \in Compiled => ~Registered(subject[c])
      BY <2>2 DEF Shared, SharedHeldOnce, HoldsShared, Attaching
    <3>2. QED
      BY <2>1, <3>1 DEF Shared, CompiledOnce, Registered
  <2>8. QED
    BY <2>2, <2>6, <2>7 DEF Shared, MapsTaken, MapsAreThere
<1>7. ASSUME (\E c \in Calls : ReaderExits(c)) \/ UNCHANGED vars PROVE Shared'
  BY <1>7 DEF ReaderExits, vars, Shared, SharedHeldOnce, HoldsShared, Registered,
              CompiledOnce, MapsTaken, MapsAreThere
<1>8. QED
  BY <1>1, <1>2, <1>3, <1>4, <1>5, <1>6, <1>7, StepCases

-----------------------------------------------------------------------------
\* A single client: one request is under way at a time, a name is registered
\* once, and registry and generated_probes agree but for the request that is
\* changing both.
InStep ==
  /\ \A c, d \in Calls : pc[c] \in Active /\ pc[d] \in Active => c = d
  /\ \A e, f \in attached : e.name = f.name => e = f
  /\ \A c \in Calls : pc[c] \in {"attaching", "spawning", "registering", "unloading"} =>
                        ~Registered(subject[c])
  /\ \A c \in Calls : pc[c] = "keeping" => \E e \in attached : e.by = c
  /\ \A e \in attached : e.name \in Generated /\ pc[e.by] # "keeping" =>
                           e.name \in DOMAIN generated /\ generated[e.name] = e.by
  /\ \A n \in DOMAIN generated :
       \/ \E e \in attached : e.name = n /\ e.by = generated[n]
       \/ \E c \in Calls : pc[c] = "unloading" /\ subject[c] = n

LEMMA InStepInit == Init => InStep
<1> SUFFICES ASSUME Init PROVE InStep
  OBVIOUS
<1>1. PICK id : attached = {[id |-> id[p], name |-> p, by |-> p] : p \in Startup}
  BY DEF Init
<1>2. /\ \A e, f \in attached : e.name = f.name => e = f
      /\ \A e \in attached : e.name \notin Generated
  BY <1>1, LifecycleAssumption
<1>3. DOMAIN generated = {}
  BY DEF Init
<1>4. QED
  BY <1>2, <1>3 DEF Init, InStep, Active, Attaching

\* A client's next request is accepted when its last one was answered.
LEMMA NobodyElse ==
  ASSUME NEW c \in Calls, Accept(c), connections = 1
  PROVE  \A d \in Calls : pc[d] \notin Active
<1> DEFINE S == {d \in Calls : pc[d] \in Active}
<1>1. IsFiniteSet(S)
  BY LifecycleAssumption, FS_Subset
<1>2. Cardinality(S) \in Nat /\ Cardinality(S) < 1
  BY <1>1, FS_CardinalityType DEF Accept
<1>3. S = {}
  BY <1>1, <1>2, FS_EmptySet
<1>4. QED
  BY <1>3

\* No startup probe has a generated program.
LEMMA GeneratedEntries ==
  ASSUME Types, Registry, NEW e \in attached, e.name \in Generated
  PROVE  e.by \in Calls
BY LifecycleAssumption DEF Types, Registry, EntriesBelong

LEMMA InStepStep ==
  ASSUME Types, Subjects, GeneratedByAnswered, Registry, InStep, connections = 1, [Next]_vars
  PROVE  InStep'
<1> USE LifecycleAssumption DEF kernelVars, Goto
<1>0. ASSUME NEW c \in Calls, UNCHANGED <<attached, generated>>,
             \A d \in Calls \ {c} : pc'[d] = pc[d] /\ subject'[d] = subject[d],
             pc'[c] \in Active => pc[c] \in Active \/ \A d \in Calls : pc[d] \notin Active,
             pc[c] \notin {"keeping", "unloading"}, pc'[c] # "keeping",
             pc'[c] \in {"attaching", "spawning", "registering", "unloading"} =>
               ~Registered(subject'[c])
      PROVE  InStep'
  <2>1. \A e \in attached : e.name \in Generated => 
                            (pc'[e.by] = "keeping" <=> pc[e.by] = "keeping")
    BY <1>0, GeneratedEntries
  <2>2. QED
    BY <1>0, <2>1 DEF InStep, Registered
<1>1. ASSUME NEW c \in Calls, NEW name \in Names, Deploy(c, name) PROVE InStep'
  BY <1>0, <1>1, NobodyElse DEF Deploy, Accept, Types, Active
<1>2. ASSUME NEW c \in Calls, LockShared(c) \/ Generate(c) PROVE InStep'
  BY <1>0, <1>2 DEF LockShared, Generate, Types, Active
<1>3. ASSUME NEW c \in Calls, CheckName(c) \/ AttachCompiled(c) \/ AttachGenerated(c)
      PROVE  InStep'
  BY <1>0, <1>3 DEF CheckName, AttachCompiled, AttachGenerated, Refuse, Types, Active,
                    Attaching, InStep
<1>4. ASSUME NEW c \in Calls, SpawnReader(c) PROVE InStep'
  BY <1>0, <1>4 DEF SpawnReader, Types, Active, Attaching, InStep
<1>5. ASSUME NEW c \in Calls, Register(c) PROVE InStep'
  <2> DEFINE new == [id |-> next_id, name |-> subject[c], by |-> c]
  <2>1. attached' = attached \cup {new} /\ new.name = subject[c] /\ new.by = c
    BY <1>5 DEF Register
  <2> HIDE DEF new
  <2>2. /\ UNCHANGED <<subject, generated>> /\ pc[c] = "registering"
        /\ \A d \in Calls \ {c} : pc'[d] = pc[d] /\ pc[d] \notin Active
        /\ pc'[c] = IF subject[c] \in Compiled THEN "deployed" ELSE "keeping"
        /\ ~Registered(subject[c])
    BY <1>5 DEF Register, Types, InStep, Active, Attaching
  <2>3. \A e, f \in attached' : e.name = f.name => e = f
    BY <2>1, <2>2 DEF InStep, Registered
  <2>4. ASSUME NEW e \in attached', e.name \in Generated, pc'[e.by] # "keeping"
        PROVE  e.name \in DOMAIN generated' /\ generated'[e.name] = e.by
    <3>1. e \in attached /\ e.by # c
      <4>1. e # new
        BY <2>1, <2>2, <2>4
      <4>2. QED
        BY <2>1, <2>2, <4>1 DEF Registry, EntriesBelong
    <3>2. pc[e.by] # "keeping"
      BY <2>2, <2>4, <3>1 DEF Registry, EntriesBelong, Types, Active
    <3>3. QED
      BY <2>2, <2>4, <3>1, <3>2 DEF InStep
  <2>5. ASSUME NEW n \in DOMAIN generated'
        PROVE  \E e \in attached' : e.name = n /\ e.by = generated'[n]
    BY <2>1, <2>2 DEF InStep, Active, Attaching, Registered
  <2>6. QED
    BY <2>1, <2>2, <2>3, <2>4, <2>5 DEF InStep, Active, Attaching, Registered
<1>6. ASSUME NEW c \in Calls, Keep(c) PROVE InStep'
  <2>1. /\ UNCHANGED <<attached, subject>> /\ pc[c] = "keeping" /\ pc'[c] = "deployed"
        /\ \A d \in Calls \ {c} : pc'[d] = pc[d] /\ pc[d] \notin Active
        /\ DOMAIN generated' = DOMAIN generated \cup {subject[c]}
        /\ \A n \in DOMAIN generated' :
             generated'[n] = IF n = subject[c] THEN c ELSE generated[n]
    BY <1>6 DEF Keep, Types, InStep, Active
  <2>2. PICK own \in attached : own.by = c /\ own.name = subject[c]
    BY <2>1 DEF InStep, Registry, EntriesBelong
  <2>3. ASSUME NEW e \in attached', e.name \in Generated, pc'[e.by] # "keeping"
        PROVE  e.name \in DOMAIN generated' /\ generated'[e.name] = e.by
    <3>1. CASE e.name = subject[c]
      BY <2>1, <2>2, <3>1 DEF InStep
    <3>2. CASE e.name # subject[c]
      <4>1. e.by # c /\ e.by \in Calls
        BY <2>1, <2>3, <3>2, GeneratedEntries DEF Registry, EntriesBelong
      <4>2. QED
        BY <2>1, <2>3, <3>2, <4>1 DEF InStep
    <3>3. QED
      BY <3>1, <3>2
  <2>4. ASSUME NEW n \in DOMAIN generated'
        PROVE  \E e \in attached' : e.name = n /\ e.by = generated'[n]
    BY <2>1, <2>2 DEF InStep, Active, Attaching, Registered
  <2>5. QED
    BY <2>1, <2>3, <2>4 DEF InStep, Active, Attaching, Registered
<1>7. ASSUME NEW c \in Calls, Unload(c) PROVE InStep'
  <2>1. /\ UNCHANGED <<attached, subject>> /\ pc[c] = "unloading" /\ pc'[c] = "detached"
        /\ \A d \in Calls \ {c} : pc'[d] = pc[d] /\ pc[d] \notin Active
        /\ DOMAIN generated' = DOMAIN generated \ {subject[c]}
        /\ \A n \in DOMAIN generated' : generated'[n] = generated[n]
        /\ ~Registered(subject[c])
    BY <1>7 DEF Unload, Restrict, Types, InStep, Active
  <2>2. ASSUME NEW e \in attached', e.name \in Generated, pc'[e.by] # "keeping"
        PROVE  e.name \in DOMAIN generated' /\ generated'[e.name] = e.by
    <3>1. e.name # subject[c] /\ pc[e.by] # "keeping"
      BY <2>1, <2>2 DEF Registered, Registry, EntriesBelong, Types
    <3>2. QED
      BY <2>1, <2>2, <3>1 DEF InStep
  <2>3. ASSUME NEW n \in DOMAIN generated'
        PROVE  \E e \in attached' : e.name = n /\ e.by = generated'[n]
    BY <2>1 DEF InStep, Active, Attaching, Registered
  <2>4. QED
    BY <2>1, <2>2, <2>3 DEF InStep, Active, Attaching, Registered
<1>8. ASSUME NEW c \in Calls, NEW id \in 1..next_id, Detach(c, id) PROVE InStep'
  <2>1. CASE UNCHANGED <<reader, attached, subject>>
    <3>1. /\ pc[c] = "idle" /\ generated' = generated
          /\ pc' \in {[pc EXCEPT ![c] = "unknown"], [pc EXCEPT ![c] = "refused"]}
      BY <1>8, <2>1 DEF Detach, Accept
    <3>2. QED
      BY <1>0, <2>1, <3>1 DEF Types, Active, Attaching
  <2>2. ASSUME NEW e \in attached, e.by \notin Startup,
               attached' = attached \ {e},
               subject' = [subject EXCEPT ![c] = e.name],
               pc' = [pc EXCEPT ![c] = "unloading"], pc[c] = "idle"
        PROVE  InStep'
    <3>0. \A d \in Calls : pc[d] \notin Active
      BY <1>8, NobodyElse DEF Detach
    <3>1. /\ generated' = generated /\ pc'[c] = "unloading" /\ subject'[c] = e.name
          /\ \A d \in Calls \ {c} : pc'[d] = pc[d] /\ subject'[d] = subject[d]
      BY <1>8, <2>2 DEF Detach, Types
    <3>2. \A f \in attached' : f.name # e.name
      BY <2>2 DEF InStep
    <3>3. ASSUME NEW f \in attached', f.name \in Generated
          PROVE  f.name \in DOMAIN generated' /\ generated'[f.name] = f.by
      <4>1. f.by \in Calls /\ pc[f.by] # "keeping"
        BY <2>2, <3>0, <3>3 DEF Registry, EntriesBelong, Types, Active
      <4>2. QED
        BY <2>2, <3>1, <3>3, <4>1 DEF InStep
    <3>4. ASSUME NEW n \in DOMAIN generated'
          PROVE  \/ \E f \in attached' : f.name = n /\ f.by = generated'[n]
                 \/ \E d \in Calls : pc'[d] = "unloading" /\ subject'[d] = n
      BY <2>2, <3>0, <3>1 DEF InStep, Active, Attaching, Registered
    <3>5. ~Registered(subject[c])'
      BY <3>1, <3>2 DEF Registered
    <3>6. QED
      BY <2>2, <3>0, <3>1, <3>3, <3>4, <3>5 DEF InStep, Active, Attaching, Registered
  <2>3. QED
    BY <1>8, <2>1, <2>2 DEF Detach, Accept
<1>9. ASSUME (\E c \in Calls : ReaderExits(c)) \/ UNCHANGED vars PROVE InStep'
  BY <1>9 DEF ReaderExits, vars, InStep, Registered
<1>10. QED
  BY <1>1, <1>2, <1>3, <1>4, <1>5, <1>6, <1>7, <1>8, <1>9, StepCases

-----------------------------------------------------------------------------
(* Theorems *)

\* The inductive invariant.
Inv ==
  /\ Types /\ Subjects
  /\ Ownership
  /\ Registry
  /\ Shared
  /\ connections = 1 => InStep

LEMMA Invariance == Spec => []Inv
<1>1. Init => Inv
  BY TypesInit, OwnershipInit, RegistryInit, SharedInit, InStepInit DEF Inv
<1>2. Inv /\ [Next]_vars => Inv'
  <2> SUFFICES ASSUME Inv, [Next]_vars PROVE Inv'
    OBVIOUS
  <2>1. Types' /\ Subjects'
    BY TypesStep DEF Inv
  <2>2. Ownership' /\ Registry' /\ Shared'
    BY <2>1, OwnershipStep, RegistryStep, SharedStep DEF Inv
  <2>3. connections' = connections
    BY DEF Next, Quiet, vars
  <2>4. (connections = 1 => InStep)'
    BY <2>3, InStepStep DEF Inv, Ownership
  <2>5. QED
    BY <2>1, <2>2, <2>4 DEF Inv
<1>3. QED
  BY <1>1, <1>2, PTL DEF Spec

\* The registry's ids and entries, and the states of programs, objects and
\* readers, stay what the Rust types say, whatever requests interleave.
THEOREM TypeCorrect == Spec => []TypeOK
<1>1. Inv => TypeOK
  BY DEF Inv, Types, TypeOK, Ownership, HookedObjects
<1>2. QED
  BY <1>1, Invariance, PTL

\* No generated object is leaked or dropped twice: every live one is with its
\* deploy_codegen or in generated_probes, for any number of racing requests.
THEOREM NoObjectLeaks == Spec => []ObjectsAreOwned
<1>1. Inv => ObjectsAreOwned
  BY DEF Inv, Ownership
<1>2. QED
  BY <1>1, Invariance, PTL

\* Readers and the registry agree for any number of racing requests; detach
\* stops the reader of the entry it removes and no startup probe ever goes.
THEOREM ReadersFollowRegistry == Spec => []ReadersMatchRegistry
<1>1. Inv => ReadersMatchRegistry
  BY RegistryCounted DEF Inv
<1>2. QED
  BY <1>1, Invariance, PTL

\* The mutex of the shared object makes the registry's check-then-insert safe
\* for compiled probes, and the maps a reader takes are still there.
THEOREM SharedObjectIsSafe == Spec => [](CompiledOnce /\ MapsAreThere)
<1>1. Inv => CompiledOnce /\ MapsAreThere
  BY DEF Inv, Shared
<1>2. QED
  BY <1>1, Invariance, PTL

\* ProbeRegistry::next_id: no entry ever takes an id that was given out before.
THEOREM IdsNeverReturn == Spec => IdsAreFresh
<1>1. Inv /\ [Next]_vars =>
        [\A e \in attached' \ attached : \A n \in 1..next_id - 1 : e.id # n]_vars
  <2> SUFFICES ASSUME Inv, [Next]_vars, NEW e \in attached' \ attached,
                      NEW n \in 1..next_id - 1
               PROVE  e.id # n
    OBVIOUS
  <2>1. PICK c \in Calls : Register(c)
    BY StepCases DEF Deploy, Detach, LockShared, Generate, CheckName, Refuse,
         AttachCompiled, AttachGenerated, SpawnReader, Keep, Unload, ReaderExits, vars
  <2>2. e = [id |-> next_id, name |-> subject[c], by |-> c]
    BY <2>1 DEF Register
  <2>3. QED
    BY <2>2 DEF Inv, Types
<1>2. QED
  BY <1>1, Invariance, PTL DEF Spec, IdsAreFresh

\* A single client, after any number of deploys and detaches in any order, with
\* every failure the kernel can answer with: registered probes are hooked, and
\* between two requests the loaded objects are those of registered probes.
THEOREM OneClientIsSound == Spec => []SoundForOneClient
<1>1. Inv => SoundForOneClient
  <2> SUFFICES ASSUME Inv, connections = 1
               PROVE  /\ RegisteredIsHooked
                      /\ (\A c \in Calls : pc[c] \notin Active) =>
                           live = {e.by : e \in {f \in attached : f.name \in Generated}}
    BY DEF SoundForOneClient
  <2> Types /\ Registry /\ InStep /\ Ownership
    BY DEF Inv
  <2>1. RegisteredIsHooked
    BY DEF RegisteredIsHooked, InStep, Ownership, HookedObjects, Range
  <2>2. ASSUME \A c \in Calls : pc[c] \notin Active
        PROVE  live = {e.by : e \in {f \in attached : f.name \in Generated}}
    <3>1. InHand = {} /\ live = Range(generated)
      BY <2>2 DEF InHand, Active, Ownership, ObjectsAreOwned
    <3>2. ASSUME NEW n \in DOMAIN generated
          PROVE  \E e \in attached : e.name \in Generated /\ e.by = generated[n]
      BY <2>2 DEF InStep, Active, Types
    <3>3. ASSUME NEW e \in attached, e.name \in Generated
          PROVE  e.by \in Range(generated)
      <4>1. pc[e.by] # "keeping"
        BY <2>2, <3>3, GeneratedEntries DEF Active
      <4>2. QED
        BY <3>3, <4>1 DEF InStep, Range
    <3>4. QED
      BY <3>1, <3>2, <3>3 DEF Range
  <2>3. QED
    BY <2>1, <2>2
<1>2. QED
  BY <1>1, Invariance, PTL
=============================================================================
