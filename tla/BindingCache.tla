---------------------------- MODULE BindingCache ----------------------------
(***************************************************************************)
(* The cache that binds a container to its pod, jalki-enrich/src/lib.rs:   *)
(* a map from container to pod, the containers of each pod, and the order  *)
(* in which containers came, for eviction.  Operators on the cache value;  *)
(* RuntimeBinding is their user.                                           *)
(*                                                                         *)
(* Pod metadata is the pod's uid.  Statuses without a well-formed          *)
(* container id have been left out of a snapshot.                          *)
(***************************************************************************)
EXTENDS Integers, Sequences, FiniteSets, SequencesExt

EmptyCache(max) == [by_container_id |-> <<>>, by_pod_uid |-> <<>>,
                    insertion_order |-> <<>>, max_containers |-> max]

Cached(b) == DOMAIN b.by_container_id

Only(f, S) == [x \in DOMAIN f \cap S |-> f[x]]
Put(f, x, v) == [y \in DOMAIN f \cup {x} |-> IF y = x THEN v ELSE f[y]]

\* retain: what is not in S, in its order.
Except(seq, S) ==
  LET kept[n \in 0..Len(seq)] ==
        IF n = 0 THEN <<>>
        ELSE IF seq[n] \in S THEN kept[n - 1] ELSE Append(kept[n - 1], seq[n])
  IN  kept[Len(seq)]

\* remove_from_pod_index, for a set of containers: pods left without one go.
remove_from_pod_index(index, gone) ==
  LET rest == [p \in DOMAIN index |-> Except(index[p], gone)]
  IN  Only(rest, {p \in DOMAIN rest : rest[p] # <<>>})

\* insert_container, for the containers of a pod: new ones queue up last.
insert_containers(b, p, containers) ==
  LET named == ToSet(containers)
  IN  [b EXCEPT !.by_container_id = [c \in Cached(b) \cup named |->
                                       IF c \in named THEN p ELSE @[c]],
                !.insertion_order = @ \o Except(containers, Cached(b))]

\* evict_to_capacity: the oldest go, as few as needed.  Without capacity
\* everything goes.
evict_to_capacity(b) ==
  LET first(n) == ToSet(SubSeq(b.insertion_order, 1, n))
      fits(n) == Cardinality(Cached(b) \ first(n)) <= b.max_containers
      n == CHOOSE n \in 0..Len(b.insertion_order) :
             /\ fits(n) \/ n = Len(b.insertion_order)
             /\ \A m \in 0..n - 1 : ~fits(m)
  IN  IF b.max_containers = 0 THEN EmptyCache(0)
      ELSE [b EXCEPT !.by_container_id = Only(@, Cached(b) \ first(n)),
                     !.by_pod_uid = remove_from_pod_index(@, first(n)),
                     !.insertion_order = SubSeq(@, n + 1, Len(@))]

\* Mutant: the order of insertion keeps what was removed.
remove_pods_tombstones(b, ps) ==
  LET gone == UNION {ToSet(b.by_pod_uid[p]) : p \in ps \cap DOMAIN b.by_pod_uid}
  IN  [b EXCEPT !.by_container_id = Only(@, Cached(b) \ gone),
                !.by_pod_uid = Only(@, DOMAIN @ \ ps)]

\* remove_pod, for each of a set of pods: the index names what goes.
remove_pods(b, ps) ==
  LET gone == UNION {ToSet(b.by_pod_uid[p]) : p \in ps \cap DOMAIN b.by_pod_uid}
  IN  [b EXCEPT !.by_container_id = Only(@, Cached(b) \ gone),
                !.by_pod_uid = Only(@, DOMAIN @ \ ps),
                !.insertion_order = Except(@, gone)]

\* apply_pod_snapshot: the pod's containers are replaced by the listed ones, each
\* of which is listed once.
apply_pod_snapshot(b, p, containers) ==
  LET filled == insert_containers(remove_pods(b, {p}), p, containers)
  IN  evict_to_capacity(
        IF containers = <<>> THEN filled
        ELSE [filled EXCEPT !.by_pod_uid = Put(@, p, containers)])
=============================================================================
