--------------------------- MODULE RuntimeBinding ---------------------------
(***************************************************************************)
(* How an observed event gets its pod: the watcher of jalki/src/           *)
(* kube_watch.rs keeps the binding cache current from a stream of pod      *)
(* events, and CachedEnricher of jalki/src/enrich.rs looks processes up in *)
(* it, from a reader's thread.                                             *)
(*                                                                         *)
(* The cluster and the stream are external.  The stream breaks: what was   *)
(* on its way is lost, and the next list starts with Init.  A container    *)
(* belongs to one pod for ever and its cgroup id is never reused; pids are *)
(* reused.                                                                 *)
(***************************************************************************)
EXTENDS BindingCache

CONSTANTS
  Pods,
  Containers,
  PodOf,        \* the pod of each container
  Capacities,   \* what max_containers may be configured to
  PidReuse,     \* whether a pid may come to name a process elsewhere
  MemoMax,      \* CGROUP_FALLBACK_MEMO_MAX
  \* Bounds on what is explored
  MaxChanges,   \* of pods
  MaxBreaks     \* of the stream

\* What a lookup meets besides containers.
Host == "host"
NoProcess == "none"
NoCgroup == "0"

ASSUME BindingAssumption ==
  /\ {Host, NoProcess, NoCgroup} \cap (Pods \cup Containers) = {}
  /\ PodOf \in [Containers -> Pods]
  /\ IsFiniteSet(Pods) /\ IsFiniteSet(Containers)
  /\ PidReuse \in BOOLEAN
  /\ Capacities \subseteq Nat
  /\ {MaxChanges, MaxBreaks} \subseteq Nat
  /\ MemoMax \in Nat \ {0}

VARIABLES
  status,       \* of each pod, at the API server
  listed,       \* containers in the statuses of pods
  watching,     \* the stream is connected
  queue,        \* events of the stream on their way
  cache,
  known_pods,
  init_seen,    \* a set of at most one set: Option<HashSet>
  reader,       \* the lookup of one event
  memo,         \* CachedEnricher::cgroup_memo
  changes, breaks

clusterVars == <<status, listed, changes>>
streamVars == <<watching, queue, breaks>>
watcherVars == <<cache, known_pods, init_seen>>
readerVars == <<reader, memo>>
vars == <<status, listed, watching, queue, cache, known_pods, init_seen, reader,
          memo, changes, breaks>>

Of(p) == {c \in Containers : PodOf[c] = p}
Present == {p \in Pods : status[p] = "present"}

Event(type, p, containers) == [type |-> type, pod |-> p, containers |-> containers]
Mark(type) == Event(type, "none", <<>>)
Snapshot(type, p) == Event(type, p, SetToSeq(listed \cap Of(p)))

Idle == [pc |-> "idle", cgroup |-> "none", container |-> "none", pod |-> "none"]

-----------------------------------------------------------------------------
Init ==
  /\ status = [p \in Pods |-> "new"]
  /\ listed = {}
  /\ watching = FALSE
  /\ queue = <<>>
  /\ cache \in {EmptyCache(max) : max \in Capacities}
  /\ known_pods = {}
  /\ init_seen = {}
  /\ reader = Idle
  /\ memo = {}
  /\ changes = 0
  /\ breaks = 0

-----------------------------------------------------------------------------
(* The cluster and its event stream *)

Changes ==
  /\ changes < MaxChanges
  /\ changes' = changes + 1
  /\ UNCHANGED <<watching, breaks, watcherVars, readerVars>>

Notify(e) == queue' = IF watching THEN Append(queue, e) ELSE queue

PodApplied(p, containers) ==
  /\ Changes
  /\ status[p] # "deleted"
  /\ status' = [status EXCEPT ![p] = "present"]
  /\ listed' = (listed \ Of(p)) \cup containers
  /\ Notify(Event("Apply", p, SetToSeq(containers)))

PodDeleted(p) ==
  /\ Changes
  /\ status[p] = "present"
  /\ status' = [status EXCEPT ![p] = "deleted"]
  /\ listed' = listed \ Of(p)
  /\ Notify(Event("Delete", p, <<>>))

\* The watch fails, and with it some of what was on its way.
Break ==
  /\ watching
  /\ breaks < MaxBreaks
  /\ breaks' = breaks + 1
  /\ watching' = FALSE
  /\ \E n \in 0..Len(queue) : queue' = Append(SubSeq(queue, 1, n), Mark("Err"))
  /\ UNCHANGED <<clusterVars, watcherVars, readerVars>>

\* The pods are listed again and watched from there.
Relist ==
  /\ ~watching
  /\ watching' = TRUE
  /\ queue' = queue \o <<Mark("Init")>>
                    \o [i \in 1..Cardinality(Present) |->
                          Snapshot("InitApply", SetToSeq(Present)[i])]
                    \o <<Mark("InitDone")>>
  /\ UNCHANGED <<clusterVars, breaks, watcherVars, readerVars>>

-----------------------------------------------------------------------------
(* run_pod_binding_watcher *)

Recv(type) ==
  /\ queue # <<>>
  /\ Head(queue).type = type
  /\ queue' = Tail(queue)
  /\ UNCHANGED <<clusterVars, watching, breaks, readerVars>>

OnInit ==
  /\ Recv("Init")
  /\ init_seen' = {{}}
  /\ UNCHANGED <<cache, known_pods>>

OnInitApply ==
  /\ Recv("InitApply")
  /\ LET e == Head(queue)
     IN  /\ cache' = apply_pod_snapshot(cache, e.pod, e.containers)
         /\ init_seen' = {seen \cup {e.pod} : seen \in init_seen}
         /\ known_pods' = known_pods \cup {e.pod}

\* Mutant: pods that are no longer listed are kept.
OnInitDone_keeping ==
  /\ Recv("InitDone")
  /\ init_seen' = {}
  /\ UNCHANGED <<cache, known_pods>>

\* Pods that the list did not have are removed.
OnInitDone ==
  /\ Recv("InitDone")
  /\ LET stale == {p \in known_pods : \E seen \in init_seen : p \notin seen}
     IN  /\ cache' = remove_pods(cache, stale)
         /\ known_pods' = known_pods \ stale
  /\ init_seen' = {}

OnApply ==
  /\ Recv("Apply")
  /\ LET e == Head(queue)
     IN  /\ cache' = apply_pod_snapshot(cache, e.pod, e.containers)
         /\ known_pods' = known_pods \cup {e.pod}
  /\ UNCHANGED init_seen

OnDelete ==
  /\ Recv("Delete")
  /\ cache' = remove_pods(cache, {Head(queue).pod})
  /\ known_pods' = known_pods \ {Head(queue).pod}
  /\ UNCHANGED init_seen

OnErr == Recv("Err") /\ UNCHANGED watcherVars

Watcher == OnInit \/ OnInitApply \/ OnInitDone \/ OnApply \/ OnDelete \/ OnErr

-----------------------------------------------------------------------------
(* CachedEnricher::resolve, for the event of a process *)

Lookup == UNCHANGED <<clusterVars, streamVars, watcherVars>>

Unbound == reader' = Idle
ResolvedTo(cgroup, container) ==
  reader' = [Idle EXCEPT !.pc = "bind", !.cgroup = cgroup, !.container = container]

\* What /proc/<pid>/cgroup can say by the time it is read.
NowOfPid(cgroup) ==
  {cgroup, NoProcess} \cup (IF PidReuse THEN Containers \cup {Host} ELSE {})

\* A full memo is cleared first.
Remember(cgroup) ==
  memo' = (IF Cardinality(memo) >= MemoMax THEN {} ELSE memo) \cup {cgroup}

\* memo holds cgroup ids; one that is no container's is memoised as such, and
\* its events are unbound.  A cgroup that has gone is not found, nor memoised.
resolve_from_cgroupfs_fallback(cgroup) ==
  LET found == IF cgroup \in Containers THEN ResolvedTo(cgroup, cgroup) ELSE Unbound
  IN  \/ cgroup \in memo /\ found /\ UNCHANGED memo
      \/ cgroup \notin memo /\ found /\ Remember(cgroup)
      \/ cgroup \notin memo /\ Unbound /\ UNCHANGED memo

\* Mutant: the process is looked up before the cgroup is checked.
resolve_pid_first(cgroup) ==
  /\ reader.pc = "idle"
  /\ \E home \in Containers \cup {Host} : \E of \in NowOfPid(home) :
       /\ cgroup \in {home, NoCgroup}
       /\ \/ of \in Containers /\ ResolvedTo(cgroup, of) /\ UNCHANGED memo
          \/ of \notin Containers /\ cgroup = NoCgroup /\ Unbound /\ UNCHANGED memo
          \/ of \notin Containers /\ cgroup # NoCgroup
             /\ resolve_from_cgroupfs_fallback(cgroup)
  /\ Lookup

\* resolve, up to the lookup in the cache.  Some programs record no cgroup.
resolve(cgroup) ==
  /\ reader.pc = "idle"
  /\ \/ cgroup = NoCgroup /\ Unbound /\ UNCHANGED memo
     \/ /\ cgroup # NoCgroup
        /\ \E of \in NowOfPid(cgroup) :
             IF of \in Containers THEN ResolvedTo(cgroup, of) /\ UNCHANGED memo
             ELSE resolve_from_cgroupfs_fallback(cgroup)
  /\ Lookup

bind_container ==
  /\ reader.pc = "bind"
  /\ IF reader.container \in Cached(cache)
     THEN reader' = [reader EXCEPT !.pc = "idle",
                       !.pod = cache.by_container_id[reader.container]]
     ELSE Unbound
  /\ Lookup /\ UNCHANGED memo

Next ==
  \/ \E p \in Pods : (\E cs \in SUBSET Of(p) : PodApplied(p, cs)) \/ PodDeleted(p)
  \/ Break \/ Relist
  \/ Watcher
  \/ \E cgroup \in Containers \cup {Host, NoCgroup} : resolve(cgroup)
  \/ bind_container

Spec == Init /\ [][Next]_vars

-----------------------------------------------------------------------------
(* Properties *)

TypeOK ==
  /\ status \in [Pods -> {"new", "present", "deleted"}]
  /\ listed \subseteq Containers
  /\ known_pods \subseteq Pods
  /\ init_seen \subseteq SUBSET Pods
  /\ Cardinality(init_seen) <= 1
  /\ Cached(cache) \subseteq Containers
  /\ DOMAIN cache.by_pod_uid \subseteq Pods
  /\ memo \subseteq Containers \cup {Host}
  /\ Cardinality(memo) <= MemoMax

\* The three structures of the cache agree after any sequence of snapshots,
\* removals and evictions: each container has its pod and one place in the order
\* and in the index, and there are at most max_containers.
CacheConsistent ==
  LET b == cache
  IN  /\ Cardinality(Cached(b)) <= b.max_containers
      /\ ToSet(b.insertion_order) = Cached(b)
      /\ Len(b.insertion_order) = Cardinality(Cached(b))
      /\ \A c \in Cached(b) : b.by_container_id[c] = PodOf[c]
      /\ \A p \in DOMAIN b.by_pod_uid : b.by_pod_uid[p] # <<>>
      /\ Cached(b) = UNION {ToSet(b.by_pod_uid[p]) : p \in DOMAIN b.by_pod_uid}

Settled == watching /\ queue = <<>>

\* Once the stream has been read, the cache holds no container that the cluster
\* no longer lists, also when its deletion fell into a break of the stream, and
\* with room for all it holds every container that is listed.
CacheFollowsCluster ==
  Settled => /\ Cached(cache) \subseteq listed
             /\ cache.max_containers >= Cardinality(Containers)
                  => listed \subseteq Cached(cache)

\* An event is bound to the pod of the cgroup it came from, or not at all,
\* whatever happens to its process, pod and container before the lookup.  It
\* needs pids that are not reused.  (jalki-enrich: procfs is read "for the
\* event's process".)
BoundToItsPod ==
  reader.pod \in Pods => /\ reader.cgroup \in Containers
                         /\ reader.pod = PodOf[reader.cgroup]
=============================================================================
