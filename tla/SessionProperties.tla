-------------------------- MODULE SessionProperties --------------------------
(***************************************************************************)
(* What makes a session correct: its types, the coherence of its caches,   *)
(* of its graph and of its queue of deferred writes.                       *)
(***************************************************************************)
EXTENDS Session

\* The objects, the caches and the call in progress hold values of their kinds
\* (session.py and session_state.py's attributes).
CoreTypeOK ==
  /\ moved \in BOOLEAN /\ closed \in BOOLEAN
  /\ heap \in [Obj -> Node]
  /\ cache \in Cache
  /\ mine \in Obj \cup {None}
  /\ pc \in {"idle", "flush", "body", "rows"}
  /\ call \in Calls

\* Every variable holds a value of its kind: also the graphs, which get theirs
\* from what the live objects hold, and the queue.
TypeOK ==
  /\ CoreTypeOK
  /\ graph \subseteq Triple /\ remote \subseteq Triple
  /\ pending \in Seq(Obj) /\ todo \in Seq(Obj)

-----------------------------------------------------------------------------
(* The caches                                                              *)

\* What the caches c file under a resource is an instance of it.
KeyedIn(c, h) ==
  \A i \in Iris :
    /\ c.identity[i] # None => h[c.identity[i]].iri = i
    /\ \A d \in Depths : c.hydration[<<i, d>>] # None => h[c.hydration[<<i, d>>]].iri = i

\* A get or a query never answers with an instance of another resource, although
\* loads, merges and embedded objects file instances in passing and addresses
\* are used again (session_state.set_identity, set_hydration, their callers).
CachesKeyed == KeyedIn(cache, heap)

\* A hydration entry never outlives the identity it was made from: whichever
\* depth a get asks for, one resource has one instance (session_core.get_impl).
HydrationIsIdentity ==
  \A i \in Iris, d \in Depths :
    cache.hydration[<<i, d>>] # None => cache.hydration[<<i, d>>] = cache.identity[i]

\* As long as the application does not edit instances, the identity map holds
\* nothing the store does not say: no write, orphan cleanup or reload leaves an
\* entry with a value that is gone (session_core.invalidate_subjects).
CachedValuesStored ==
  \A i \in Iris :
    LET x == cache.identity[i]
    IN  x # None =>
          /\ Typed(graph, i)
          /\ heap[x].name \in NamesIn(graph, i)
          /\ TargetOf(heap, heap[x].rel) \subseteq LinksIn(graph, i)

\* A get, refresh, merge or query hands out the instance the session already
\* has of a resource, and reloads it in place, whatever depth is asked for
\* (session_core.get_impl, refresh_impl, merge_impl).
InstanceKept ==
  [][LET known == cache.identity[heap'[mine'].iri]
     IN  mine' \notin {mine, None} /\ known # None /\ ~New => mine' = known]_vars

\* refresh updates the object of the identity map in place when there is one.
RefreshInPlace ==
  [][LET known == cache.identity[heap'[mine'].iri]
     IN  mine' \notin {mine, None} /\ known # None /\ Refresh => mine' = known]_vars

\* A get, a refresh, or one row of a query.
Read == Get \/ HydrateRow \/ Refresh

\* In remote_authoritative mode what a read hands out is what the endpoint says
\* of the resource when the read pulls it (session_core._pull_subject_for_read).
ReadsFresh ==
  [][LET x == heap'[mine']
     IN  mine' \notin {mine, None} /\ Read =>
           /\ Typed(remote, x.iri)
           /\ x.name \in NamesIn(remote, x.iri)
           /\ TargetOf(heap', x.rel) \subseteq LinksIn(remote, x.iri)]_vars

-----------------------------------------------------------------------------
(* The graph                                                               *)

\* The graph says of an object of the tree exactly what the object holds in the
\* fields that its class declares.
Stored(h, g, x) ==
  \A m \in NestedModels(h, x) :
    /\ Typed(g, h[m].iri)
    /\ NamesIn(g, h[m].iri) = {h[m].name}
    /\ HasRelationship(h[m].iri) => LinksIn(g, h[m].iri) = TargetOf(h, h[m].rel)

\* A put, at once or by a flush, that succeeds, and the object it writes.
PutSucceeded == FlushPut \/ (Put /\ PutSucceeds(mine))

Written == IF pc = "flush" THEN Head(todo) ELSE mine

\* A put is an upsert: whatever add, an earlier put or a foreign tool left in
\* the graph, afterwards it holds the object tree and no older value
\* (session_core.put_impl).
PutIsUpsert == [][PutSucceeded => Stored(heap, graph', Written)]_vars

\* Orphan cleanup spares shared resources: a put removes no resource that a
\* resource outside its composition tree links (graph.orphaned_embedded_targets).
OutsideReferencesSurvive ==
  [][PutSucceeded =>
       \A i \in Iris, j \in Iris \ NestedIris(heap, Written) :
         Typed(graph, i) /\ <<j, "rel", i>> \in graph' => Typed(graph', i)]_vars

\* An IRI in a relationship is a reference: a put does not delete the resource
\* that an object it writes refers to.
ReferencesSurvive ==
  [][PutSucceeded =>
       \A m \in NestedModels(heap, Written) :
         Typed(graph, heap[m].rel) => Typed(graph', heap[m].rel)]_vars

-----------------------------------------------------------------------------
(* Deferred writes                                                         *)

Waiting == IF pc = "flush" THEN todo ELSE pending

\* The resources that a put, and those that a delete, of the held instance takes
\* off the queue.
Scopes ==
  IF mine = None THEN {} ELSE {PutSubjects(heap, graph, mine), DeleteSubjects(heap, mine)}

Deferred == INSTANCE DeferredWrites WITH
  Resources <- Iris,
  queue <- [n \in DOMAIN Waiting |-> heap[Waiting[n]].iri],
  flushing <- (pc = "flush"),
  closed <- closed,
  scopes <- Scopes

\* The pending list with flush, failures and autoflush implements the queue of
\* DeferredWrites (session_state.add_pending, session.flush).
DeferredSpec == Deferred!Spec

\* The deferred writes that leave the queue in a step.
Leaving == PendingObjs(Waiting) \ PendingObjs(Waiting')

\* The step is a call about resource i that ends its deferred write: a later
\* version is queued or put, a put or a delete removes what it links, or add,
\* merge, expunge or expire name it.  An expire names what it evicts.
EndsWriteOf(i) ==
  \/ (Queue \/ Add \/ Merge \/ Expunge) /\ i = MineIri
  \/ Put /\ i \in PutSubjects(heap, graph, mine)
  \/ Delete /\ i \in DeleteSubjects(heap, mine)
  \/ /\ Expire /\ cache' = ExpireKeys(cache, {i})
     /\ \A x \in Leaving : heap[x].iri = i

\* The step gives up all that is deferred, or the process ends.
EndsAllWrites == Rollback \/ (ExitError /\ RollbackOnError) \/ Restart

\* A deferred write that leaves the queue is in the store as its object has it,
\* unless a call about its own resource ended it or the application gave up the
\* whole queue.  So a call about one resource never costs another its write, and
\* reads, failing flushes, expunge_all and close cost none (session.flush,
\* session_state.remove_pending_for, session_state.expunge_all).
DeferredWritesAccounted ==
  [][\A x \in Leaving :
       \/ FlushPut /\ Stored(heap, graph', x)
       \/ EndsWriteOf(heap[x].iri)
       \/ EndsAllWrites]_vars

\* A session is never closed over a deferred write or in the middle of a call
\* (session.close, session.__exit__).
ClosedIsClean == closed => pc = "idle" /\ pending = <<>> /\ todo = <<>>

-----------------------------------------------------------------------------
(* Progress                                                                *)

\* Every call returns, whatever fails on the way: a flush in front of a call
\* does not retry a failing write for ever (session.flush).
CallsReturn == pc # "idle" ~> pc = "idle"
=============================================================================
