------------------------------- MODULE Session -------------------------------
(***************************************************************************)
(* One SPARQLSession over its store: session.py with the operations of     *)
(* session_core.py.  AsyncSPARQLSession runs the same steps with awaits;   *)
(* the documented rule is one session per task, so nothing interleaves     *)
(* with a call except the world outside the process.                       *)
(*                                                                         *)
(* A call that has to flush first writes the pending queue one put at a    *)
(* time (BeginFlush, FlushPut, FlushRaises, FlushDone) and then runs its   *)
(* body; a call with nothing to flush runs its body at once.               *)
(***************************************************************************)
EXTENDS SessionState

CONSTANTS
  AutoFlush, CloseOnExit, RollbackOnError,  \* constructor arguments
  StoreMode,     \* "memory", or the mirror_mode of an HTTP store
  InitialGraph,  \* triples the store is created with
  Foreign,       \* triples that other clients add and remove at the endpoint
  Ops            \* the calls the application makes

AllOps == {"put", "queue", "add", "delete", "get", "all", "execute", "refresh",
           "merge", "expire", "expunge", "expunge_all", "flush", "rollback",
           "close", "exit", "exit_error", "sync_mirror", "new", "edit"}

ASSUME OptionAssumption ==
  /\ {AutoFlush, CloseOnExit, RollbackOnError} \subseteq BOOLEAN
  /\ StoreMode \in {"memory", "writer", "remote_authoritative"}
  /\ InitialGraph \subseteq Triple /\ Foreign \subseteq Triple
  /\ Ops \subseteq AllOps

VARIABLES
  graph,    \* store.graph: the data, or the local mirror of an HTTP store
  remote,   \* the dataset behind an HTTP store
  moved,    \* mirror_generation differs from state.store_generation
  heap,     \* the contents of the live Python objects
  cache,    \* state._identity and state._hydration
  pending,  \* state._pending
  todo,     \* the part of flush's snapshot that is still to be written
  pc,       \* where the call in progress is: "idle", "flush", "body", "rows"
  call,     \* the call in progress and its arguments
  mine,     \* the instance the application holds
  closed    \* session._closed

store == <<graph, remote, moved>>
vars == <<store, heap, cache, pending, todo, pc, call, mine, closed>>

Http == StoreMode # "memory"

NoCall == [op |-> "none", iri |-> None, depth |-> 0, left |-> {}]

Calls == [op : AllOps \cup {"none"}, iri : Iris \cup {None}, depth : 0 .. 2,
          left : SUBSET Iris]

\* The references that keep objects alive.
Roots == {cache.identity[i] : i \in Iris} \cup {cache.hydration[k] : k \in HydrationKey}
           \cup PendingObjs(pending) \cup PendingObjs(todo) \cup {mine}

Used == Reachable(heap, Roots)

\* The heap after a step that leaves contents h: what is unreachable is freed.
Collect(h) ==
  \E live \in {Reachable(h, Roots')} :
    heap' = [x \in Obj |-> IF x \in live THEN h[x] ELSE Blank]

MineIri == heap[mine].iri

Init ==
  /\ graph = IF Http THEN {} ELSE InitialGraph
  /\ remote = IF Http THEN InitialGraph ELSE {}
  /\ moved = FALSE
  /\ heap = [o \in Obj |-> Blank]
  /\ cache = EmptyCache
  /\ pending = <<>>
  /\ todo = <<>>
  /\ pc = "idle"
  /\ call = NoCall
  /\ mine = None
  /\ closed = FALSE

-----------------------------------------------------------------------------
(* The store                                                               *)

\* update_graph: the endpoint first, then the local graph.
StoreApplies(gone, new) ==
  /\ graph' = (graph \ gone) \cup new
  /\ remote' = IF Http THEN (remote \ gone) \cup new ELSE remote

\* An endpoint may fail before, between and after the DELETE and the INSERT.
StoreRaises(gone, new) ==
  /\ Http
  /\ remote' \in {remote, remote \ gone, (remote \ gone) \cup new}
  /\ UNCHANGED graph

SubjectTriples(g, i) == {t \in g : t[1] = i}

\* pull_subjects_into_mirror for one subject, as get and refresh call it.
PullNeeded(i) == Http /\ (StoreMode = "remote_authoritative" \/ ~Typed(graph, i))

Pulled(i) == (graph \ SubjectTriples(graph, i)) \cup SubjectTriples(remote, i)

-----------------------------------------------------------------------------
(* The application: constructing and editing instances, starting calls     *)

\* A session that is open and has no call in progress.
Ready == pc = "idle" /\ ~closed

New ==
  /\ Ready /\ "new" \in Ops
  /\ UNCHANGED <<store, cache, pending, todo, pc, call, closed>>
  /\ \E new \in Allocations(1, Used), i \in Iris, n \in Names :
       \E t \in {Unset} \cup Children[i]
                  \cup (IF mine # None THEN {mine} ELSE {}) :
         /\ t = mine => MineIri \in Children[i]
         /\ ~HasRelationship(i) => t = Unset
         /\ mine' = new[1]
         /\ Collect([heap EXCEPT ![new[1]] = [iri |-> i, name |-> n, rel |-> t]])

Edit ==
  /\ Ready /\ "edit" \in Ops /\ mine # None
  /\ UNCHANGED <<store, cache, pending, todo, pc, call, mine, closed>>
  /\ \/ \E n \in Names : Collect([heap EXCEPT ![mine].name = n])
     \/ /\ HasRelationship(MineIri)
        /\ \E t \in {None} \cup Children[MineIri] :
             Collect([heap EXCEPT ![mine].rel = t])

\* Calls that work on the instance the application holds.
OnInstance == {"put", "queue", "add", "delete", "refresh", "merge", "expunge"}

\* Calls that first flush what is pending when the session autoflushes.
AutoFlushing == {"put", "add", "delete", "get", "all", "execute", "refresh", "merge"}

FlushesFirst(op) ==
  \/ op = "flush"
  \/ op = "exit" /\ pending # <<>>
  \/ op \in AutoFlushing /\ AutoFlush /\ pending # <<>>

CallsOf(op) ==
  [op : {op},
   iri : IF op \in {"get", "expire"} THEN Iris ELSE {None},
   depth : IF op \in {"get", "all", "refresh"} THEN Depths ELSE {0},
   left : {{}}]

MayCall(op) == Ready /\ op \in Ops /\ (op \in OnInstance => mine # None)

BeginFlush ==
  /\ \E op \in Ops : MayCall(op) /\ FlushesFirst(op) /\ call' \in CallsOf(op)
  /\ pc' = "flush" /\ todo' = pending
  /\ UNCHANGED <<store, heap, cache, pending, mine, closed>>

\* The body of call c runs: its flush is done, or there was nothing to flush.
Runs(c) == IF pc = "body" THEN c = call ELSE MayCall(c.op) /\ ~FlushesFirst(c.op)

Body(op) == \E c \in CallsOf(op) : Runs(c)

Return == pc' = "idle" /\ call' = NoCall /\ UNCHANGED todo

-----------------------------------------------------------------------------
(* put_impl, used by put and by flush                                      *)

PutRemoves(x) == OwnedTriples(graph, PutSubjects(heap, graph, x))

\* Slip: the caches keep what they know of the subjects a put rewrites.
PutForgetsCaches(x) ==
  /\ ~EmbedsCycle(heap, x)
  /\ StoreApplies(PutRemoves(x), ModelGraph(heap, x))
  /\ cache' = Register(cache, heap, x)

PutSucceeds(x) ==
  /\ ~EmbedsCycle(heap, x)
  /\ StoreApplies(PutRemoves(x), ModelGraph(heap, x))
  /\ cache' = Register(ExpireKeys(cache, PutSubjects(heap, graph, x)), heap, x)

PutFails(x) ==
  /\ \/ EmbedsCycle(heap, x) /\ UNCHANGED <<graph, remote>>
     \/ ~EmbedsCycle(heap, x) /\ StoreRaises(PutRemoves(x), ModelGraph(heap, x))
  /\ UNCHANGED cache

\* Slip: a put also drops the queued writes of what the tree refers to by IRI.
PendingAfterPutRefs(x) ==
  LET referred == UNION {TargetOf(heap, heap[m].rel) : m \in NestedModels(heap, x)}
  IN  RemovePending(pending, heap, PutSubjects(heap, graph, x) \cup referred)

PendingAfterPut(x) == RemovePending(pending, heap, PutSubjects(heap, graph, x))

FlushPut ==
  /\ pc = "flush"
  /\ \E x \in Obj :
       /\ todo # <<>> /\ x = Head(todo)
       /\ PutSucceeds(x)
       /\ pending' = PendingAfterPut(x)
       /\ todo' = Tail(todo)
  /\ UNCHANGED <<moved, pc, call, mine, closed>>
  /\ Collect(heap)

\* Slip: a failing write is tried again for ever.
FlushRetries ==
  /\ pc = "flush"
  /\ \E x \in Obj : todo # <<>> /\ x = Head(todo) /\ PutFails(x)
  /\ UNCHANGED <<moved, heap, pending, todo, pc, call, mine, closed>>

\* The models not written are queued again and the caller sees the error; the
\* close that a context manager then attempts is refused as long as they are.
FlushRaises ==
  /\ pc = "flush"
  /\ \E x \in Obj :
       /\ todo # <<>> /\ x = Head(todo)
       /\ PutFails(x)
       /\ pending' = Requeued(todo, heap)
  /\ pc' = "idle" /\ call' = NoCall /\ todo' = <<>>
  /\ UNCHANGED <<moved, mine, closed>>
  /\ Collect(heap)

FlushDone ==
  /\ pc = "flush" /\ todo = <<>>
  /\ pending' = <<>>
  /\ pc' = "body"
  /\ UNCHANGED <<store, cache, todo, call, mine, closed>>
  /\ Collect(heap)

-----------------------------------------------------------------------------
(* Bodies of the calls that write                                          *)

Put ==
  /\ Body("put")
  /\ Return
  /\ UNCHANGED <<moved, mine, closed>>
  /\ PutSucceeds(mine) \/ PutFails(mine)
  /\ pending' = PendingAfterPut(mine)
  /\ Collect(heap)

\* put(..., flush=False)
Queue ==
  /\ Body("queue")
  /\ cache' = ExpireKeys(cache, PutSubjects(heap, graph, mine) \cup {MineIri})
  /\ pending' = AddPending(pending, heap, mine)
  /\ Return
  /\ UNCHANGED <<store, mine, closed>>
  /\ Collect(heap)

Add ==
  /\ Body("add")
  /\ Return
  /\ LET new == ModelGraph(heap, mine)
     IN  \/ /\ ~EmbedsCycle(heap, mine)
            /\ StoreApplies({}, new)
            /\ cache' = ExpireKeys(Register(cache, heap, mine), DeleteSubjects(heap, mine))
         \/ /\ ~EmbedsCycle(heap, mine) /\ StoreRaises({}, new)
            /\ UNCHANGED cache
         \/ EmbedsCycle(heap, mine) /\ UNCHANGED <<graph, remote, cache>>
  /\ pending' = RemovePending(pending, heap, {MineIri})
  /\ UNCHANGED <<moved, mine, closed>>
  /\ Collect(heap)

Delete ==
  /\ Body("delete")
  /\ Return
  /\ LET subjects == DeleteSubjects(heap, mine)
         gone == OwnedTriples(graph, subjects)
     IN  /\ StoreApplies(gone, {}) \/ (gone # {} /\ StoreRaises(gone, {}))
         /\ cache' = ExpireKeys(cache, subjects)
         /\ pending' = RemovePending(pending, heap, subjects)
  /\ UNCHANGED <<moved, mine, closed>>
  /\ Collect(heap)

-----------------------------------------------------------------------------
(* Bodies of the calls that read                                           *)

\* A validated copy has every field set: the fields the load left unset too.
Assigned(h, objs) ==
  [x \in Obj |-> IF x \in objs /\ h[x].rel = Unset /\ HasRelationship(h[x].iri)
                   THEN [h[x] EXCEPT !.rel = None] ELSE h[x]]

\* Slip: a loaded instance takes the place of the one the session has.
AttachAnew(c, g, i, depth, rows, new) ==
  LET h1 == Loaded(heap, rows, new)
  IN  /\ mine' = new[1]
      /\ cache' = SetHydration(Register(c, h1, new[1]), i, depth, new[1])
      /\ Collect(h1)

\* What a loaded instance does to the caches: it is copied onto the identity
\* of its resource when there is one, else it becomes the identity.
Attach(c, g, i, depth, rows, new) ==
  LET h1 == Loaded(heap, rows, new)
      x == c.identity[i]
      copy == Assigned(h1, {new[k] : k \in DOMAIN new})
      h2 == [copy EXCEPT ![x] = copy[new[1]]]
      expired == ExpireKeys(c, PutSubjects(h1, g, new[1]))
  IN  IF x = None
        THEN /\ mine' = new[1]
             /\ cache' = SetHydration(Register(c, h1, new[1]), i, depth, new[1])
             /\ Collect(h1)
        ELSE /\ mine' = x
             /\ cache' = SetHydration(Register(expired, h2, x), i, depth, x)
             /\ Collect(h2)

\* hydrate_one on a typed subject, when it succeeds and when it raises.
Hydrates(c, g, i, depth) ==
  \E rows \in Loads(g, i, depth) :
    /\ ~LoadRaises(rows)
    /\ \E new \in Allocations(Len(rows), Used) : Attach(c, g, i, depth, rows, new)

HydrationRaises(c, g, i, depth) ==
  /\ \E rows \in Loads(g, i, depth) : LoadRaises(rows)
  /\ cache' = c /\ UNCHANGED mine /\ Collect(heap)

Hit(c, g, i, depth) ==
  LET x == c.hydration[<<i, depth>>]
  IN  x # None /\ Typed(g, i) /\ DepthSatisfied(heap, x, depth)

\* A hydration entry that does not serve is dropped on the way.
AfterMiss(c, g, i, depth) ==
  IF c.hydration[<<i, depth>>] = None THEN c
  ELSE IF Typed(g, i) THEN DropHydration(c, {i}) ELSE ExpireKeys(c, {i})

\* A shallow read does not hand out an identity with embedded objects.
Usable(c, i, depth) ==
  LET x == c.identity[i]
  IN  /\ x # None /\ DepthSatisfied(heap, x, depth)
      /\ ~(depth = 0 /\ Materialized(heap, x))

\* get_impl after its pull: the hydration cache, the identity map, the graph.
LookupAnswers(c, g, i, depth) ==
  LET c1 == AfterMiss(c, g, i, depth)
  IN  \/ /\ Hit(c, g, i, depth)
         /\ cache' = c /\ mine' = c.hydration[<<i, depth>>]
         /\ Collect(heap)
      \/ /\ Typed(g, i) /\ ~Hit(c, g, i, depth) /\ Usable(c1, i, depth)
         /\ cache' = SetHydration(c1, i, depth, c1.identity[i])
         /\ mine' = c1.identity[i]
         /\ Collect(heap)
      \/ /\ Typed(g, i) /\ ~Hit(c, g, i, depth) /\ ~Usable(c1, i, depth)
         /\ Hydrates(c1, g, i, depth)
      \/ /\ ~Typed(g, i)  \* the caller gets None
         /\ cache' = ExpireKeys(c, {i}) /\ UNCHANGED mine
         /\ Collect(heap)

LookupRaises(c, g, i, depth) ==
  LET c1 == AfterMiss(c, g, i, depth)
  IN  /\ Typed(g, i) /\ ~Hit(c, g, i, depth) /\ ~Usable(c1, i, depth)
      /\ HydrationRaises(c1, g, i, depth)

-----------------------------------------------------------------------------
(* The pull that get and refresh make before they read the graph           *)

Synced == IF moved THEN EmptyCache ELSE cache

\* Slip: a remote_authoritative read answers from the caches.
NotEvicted(c, i) == c

\* A remote_authoritative read forgets the subject before it pulls.
Evicted(c, i) == IF StoreMode = "remote_authoritative" THEN ExpireKeys(c, {i}) ELSE c

NoPull(i) == ~PullNeeded(i) /\ moved' = FALSE /\ UNCHANGED <<graph, remote>>

PullAnswers(i) ==
  PullNeeded(i) /\ moved' = TRUE /\ graph' = Pulled(i) /\ UNCHANGED remote

PullRaises(i) ==
  /\ PullNeeded(i)
  /\ moved' = FALSE /\ UNCHANGED <<graph, remote, mine>>
  /\ cache' = Evicted(Synced, i)
  /\ Collect(heap)

GetAnswers(i, depth) ==
  \/ NoPull(i) /\ LookupAnswers(Synced, graph, i, depth)
  \/ PullAnswers(i) /\ LookupAnswers(Evicted(Synced, i), Pulled(i), i, depth)

GetRaises(i, depth) ==
  \/ NoPull(i) /\ LookupRaises(Synced, graph, i, depth)
  \/ PullAnswers(i) /\ LookupRaises(Evicted(Synced, i), Pulled(i), i, depth)
  \/ PullRaises(i)

Get ==
  /\ Return
  /\ UNCHANGED <<pending, closed>>
  /\ \E c \in CallsOf("get") :
       /\ Runs(c)
       /\ GetAnswers(c.iri, c.depth) \/ GetRaises(c.iri, c.depth)

\* query(...).all(): the SELECT answers with some of the resources there are,
\* then each of them is read in turn.
Select ==
  /\ UNCHANGED <<graph, remote, pending, todo, mine, closed>>
  /\ \E c \in CallsOf("all") :
       /\ Runs(c)
       /\ \E found \in SUBSET {i \in Iris : Typed(IF Http THEN remote ELSE graph, i)} :
            call' = [c EXCEPT !.left = found]
  /\ pc' = "rows"
  /\ cache' = Synced /\ moved' = FALSE
  /\ Collect(heap)

SelectRaises ==
  /\ Http /\ Body("all")
  /\ Return
  /\ UNCHANGED <<store, heap, cache, pending, mine, closed>>

HydrateRow ==
  /\ pc = "rows"
  /\ UNCHANGED <<pending, todo, closed>>
  /\ \E i \in call.left :
       \/ /\ GetAnswers(i, call.depth)
          /\ call' = [call EXCEPT !.left = @ \ {i}] /\ UNCHANGED pc
       \/ GetRaises(i, call.depth) /\ call' = NoCall /\ pc' = "idle"

RowsDone ==
  /\ pc = "rows" /\ call.left = {}
  /\ Return
  /\ UNCHANGED <<store, heap, cache, pending, mine, closed>>

\* Raw SPARQL: nothing but the flush before it touches the session.
Execute ==
  /\ Body("execute")
  /\ Return
  /\ UNCHANGED <<store, heap, cache, pending, mine, closed>>

\* refresh reads the graph whatever the caches hold.
Reload(c, g, i, depth) ==
  \/ Typed(g, i) /\ (Hydrates(c, g, i, depth) \/ HydrationRaises(c, g, i, depth))
  \/ ~Typed(g, i) /\ cache' = c /\ UNCHANGED mine /\ Collect(heap)

Refresh ==
  /\ Return
  /\ UNCHANGED <<pending, closed>>
  /\ \E c \in CallsOf("refresh") :
       /\ Runs(c)
       /\ \/ NoPull(MineIri) /\ Reload(Synced, graph, MineIri, c.depth)
          \/ /\ PullAnswers(MineIri)
             /\ Reload(Evicted(Synced, MineIri), Pulled(MineIri), MineIri, c.depth)
          \/ PullRaises(MineIri)

-----------------------------------------------------------------------------
(* Bodies of the calls that only touch the session                         *)

\* The fields that were set are validated anew and copied, so what the
\* detached instance embeds is copied too.
Copied(h, x, new) ==
  [o \in Obj |->
     LET at == {k \in Embeds(h, x) : k - 1 \in DOMAIN new /\ new[k - 1] = o}
         k == CHOOSE k \in at : TRUE
         rel == IF k \in DOMAIN new THEN new[k] ELSE h[Chain(h, x)[k]].rel
     IN  IF at = {} THEN h[o] ELSE [h[Chain(h, x)[k]] EXCEPT !.rel = rel]]

Merge ==
  /\ Body("merge")
  /\ Return
  /\ pending' = RemovePending(pending, heap, {MineIri})
  /\ LET i == MineIri
         y == cache.identity[i]
         below == Embeds(heap, mine) \ {1}
     IN  IF y = None
           THEN /\ cache' = Register(cache, heap, mine)
                /\ UNCHANGED mine
                /\ Collect(heap)
           ELSE \E new \in Allocations(Cardinality(below), Used) :
                  LET h1 == Copied(heap, mine, new)
                      rel == IF 1 \in DOMAIN new THEN new[1]
                             ELSE IF heap[mine].rel = Unset THEN heap[y].rel
                             ELSE heap[mine].rel
                      h2 == [h1 EXCEPT ![y].name = heap[mine].name, ![y].rel = rel]
                  IN  /\ cache' = RegisterEmbedded(DropHydration(cache, {i}), h2, y)
                      /\ mine' = y
                      /\ Collect(h2)
  /\ UNCHANGED <<store, closed>>

Expire ==
  /\ Return
  /\ \E c \in CallsOf("expire") :
       /\ Runs(c)
       /\ cache' = ExpireKeys(cache, {c.iri})
       /\ pending' = RemovePending(pending, heap, {c.iri})
  /\ UNCHANGED <<store, mine, closed>>
  /\ Collect(heap)

Expunge ==
  /\ Body("expunge")
  /\ cache' = ExpireKeys(cache, {MineIri})
  /\ pending' = RemovePending(pending, heap, {MineIri})
  /\ Return
  /\ UNCHANGED <<store, mine, closed>>
  /\ Collect(heap)

\* Slip: the pending queue is cleared with the caches.
ExpungeEverything ==
  /\ Body("expunge_all")
  /\ cache' = EmptyCache /\ pending' = <<>>
  /\ Return
  /\ UNCHANGED <<store, mine, closed>>
  /\ Collect(heap)

ExpungeAll ==
  /\ Body("expunge_all")
  /\ cache' = EmptyCache
  /\ Return
  /\ UNCHANGED <<store, pending, mine, closed>>
  /\ Collect(heap)

FlushCall ==
  /\ Body("flush")
  /\ Return
  /\ UNCHANGED <<store, heap, cache, pending, mine, closed>>

Rollback ==
  /\ Body("rollback")
  /\ pending' = <<>>
  /\ Return
  /\ UNCHANGED <<store, cache, mine, closed>>
  /\ Collect(heap)

\* Slip: close() does not look at the pending queue.
CloseAnyway ==
  /\ Body("close")
  /\ Return
  /\ closed' = TRUE
  /\ UNCHANGED <<store, heap, cache, pending, mine>>

\* close() refuses while writes are pending.
Close ==
  /\ Body("close")
  /\ Return
  /\ closed' = (pending = <<>>)
  /\ UNCHANGED <<store, heap, cache, pending, mine>>

\* __exit__ without an exception, its flush done.
Exit ==
  /\ Body("exit")
  /\ closed' = CloseOnExit
  /\ Return
  /\ UNCHANGED <<store, heap, cache, pending, mine>>

\* __exit__ with an exception: a refused close is swallowed.
ExitError ==
  /\ Body("exit_error")
  /\ pending' = IF RollbackOnError THEN <<>> ELSE pending
  /\ closed' = (CloseOnExit /\ pending' = <<>>)
  /\ Return
  /\ UNCHANGED <<store, cache, mine>>
  /\ Collect(heap)

-----------------------------------------------------------------------------
(* The world around the session                                            *)

\* The application refreshes the whole mirror of its HTTP store.
SyncMirror ==
  /\ Ready /\ Http /\ "sync_mirror" \in Ops
  /\ graph' = remote /\ moved' = TRUE
  /\ UNCHANGED <<remote, heap, cache, pending, todo, pc, call, mine, closed>>

\* Another client adds or removes a triple at the endpoint.
ForeignWrite ==
  /\ Http
  /\ \E t \in Foreign : remote' \in {remote \cup {t}, remote \ {t}}
  /\ UNCHANGED <<graph, moved, heap, cache, pending, todo, pc, call, mine, closed>>

\* A new session after the last one was closed, or, over an endpoint, after
\* the process died in the middle of anything.
Restart ==
  /\ closed \/ Http
  /\ graph' = IF Http THEN {} ELSE graph
  /\ moved' = FALSE
  /\ heap' = [o \in Obj |-> Blank]
  /\ cache' = EmptyCache
  /\ pending' = <<>> /\ todo' = <<>>
  /\ pc' = "idle" /\ call' = NoCall /\ mine' = None /\ closed' = FALSE
  /\ UNCHANGED remote

\* The steps of the calls.
CallStep ==
  \/ BeginFlush \/ FlushPut \/ FlushRaises \/ FlushDone
  \/ Put \/ Queue \/ Add \/ Delete
  \/ Get \/ Select \/ SelectRaises \/ HydrateRow \/ RowsDone \/ Execute \/ Refresh
  \/ Merge \/ Expire \/ Expunge \/ ExpungeAll
  \/ FlushCall \/ Rollback \/ Close \/ Exit \/ ExitError

Next == CallStep \/ New \/ Edit \/ SyncMirror \/ ForeignWrite \/ Restart

Spec == Init /\ [][Next]_vars

\* Calls are synchronous, and every request to an endpoint has a timeout: a
\* call that has begun takes its next step.
FairSpec == Spec /\ WF_vars(pc # "idle" /\ CallStep)
=============================================================================
