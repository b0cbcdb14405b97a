------------------------------ MODULE Requests ------------------------------
(***************************************************************************)
(* The requests of a FastAPI application: fastapi/deps.py gives each one a *)
(* session of its own, over the store the application shares or over one   *)
(* made for the request.  Requests run at the same time; a session is      *)
(* divided where it waits for the store, between what put_impl_async reads *)
(* and the end of its update (async_session.py, session_core.py).          *)
(*                                                                         *)
(* A resource is what it holds in its one field: a set, since two upserts  *)
(* may cross; none at all when it does not exist.  Every write has a value *)
(* of its own, <<request, call>>.  An update is one step of HttpStore's    *)
(* many; a store is in writer mode, and reads a resource from the endpoint *)
(* when its mirror has none.                                               *)
(***************************************************************************)
EXTENDS Integers, Sequences, FiniteSets, SequencesExt

CONSTANTS
  Request, Subject,
  None,              \* no value, no call
  Shared,            \* the application's store
  Old,               \* what a resource may hold when the application starts
  Dependencies,      \* ways to give requests their session
  Autoflush, RollbackOnError,
  MaxCalls           \* MaxCalls[r]: calls of the handler of r (a bound)

\* Every way to set up the dependency: get_session or session_dependency, with or
\* without a store that init_app has set.
AllDependencies ==
  {d \in [custom : BOOLEAN, app : BOOLEAN, store : {"app", "given", "factory"},
          close : BOOLEAN \cup {None}] :
     ~d.custom => d.store = "app" /\ d.close = None}

ASSUME RequestsAssumption ==
  /\ Dependencies \subseteq AllDependencies
  /\ Shared \notin Request /\ None \notin Request /\ MaxCalls \in [Request -> Nat]
  /\ Autoflush \in BOOLEAN /\ RollbackOnError \in BOOLEAN
  /\ None \notin {Old, "get", "flush", "write", "exit"}
  /\ \A r \in Request : {None, Old} \cap ({r} \X (1 .. MaxCalls[r])) = {}

VARIABLES
  policy,       \* what the dependency comes to: which store, and whether exits close it
  endpoint,     \* [Subject -> set of values]
  stores,       \* of the application, and of each request that has its own
  request,      \* what each request is doing
  session,      \* its identity map and pending list
  up,           \* the application has not shut down
  seen, due, tried, written, dropped   \* history, for the properties

history == <<seen, due, tried, written, dropped>>
vars == <<policy, endpoint, stores, request, session, up, history>>

-----------------------------------------------------------------------------
(* Which store a session gets, and whether its exit closes it              *)

\* _resolve_store, which get_session follows: init_app has set close_on_exit to
\* False.  An application without a store of its own makes one per request.
ResolveStore(d) == [shared |-> d.app, close |-> ~d.app]

\* Slip: close_on_exit wins over what the application shares.
CloseAsked(d) ==
  CASE d.store = "given"   -> [shared |-> TRUE, close |-> d.close = TRUE]
    [] d.store = "factory" -> [shared |-> FALSE, close |-> d.close # FALSE]
    [] d.store = "app"     -> IF d.close # None THEN [ResolveStore(d) EXCEPT !.close = d.close]
                              ELSE ResolveStore(d)

\* session_dependency(store=, store_factory=, close_on_exit=)
CustomStore(d) ==
  CASE d.store = "given"   -> [shared |-> TRUE, close |-> d.close = TRUE]
    [] d.store = "factory" -> [shared |-> FALSE, close |-> d.close # FALSE]
    [] d.store = "app"     -> IF ~d.app /\ d.close # None
                              THEN [ResolveStore(d) EXCEPT !.close = d.close]
                              ELSE ResolveStore(d)

\* The combination that docs/guides/fastapi.md warns of.
Warned(d) == d.custom /\ d.store = "given" /\ d.close = TRUE

Policy(d) ==
  LET store == IF d.custom THEN CustomStore(d) ELSE ResolveStore(d)
  IN  [shared |-> store.shared, close |-> store.close, warned |-> Warned(d)]

StoreOf(r) == IF policy.shared THEN Shared ELSE r

-----------------------------------------------------------------------------

NoRequest == [at |-> "idle", calls |-> 0, op |-> None, subject |-> None, todo |-> <<>>,
              writing |-> FALSE, removing |-> {}, exact |-> FALSE,
              failed |-> FALSE, exitFailed |-> FALSE]

NewSession == [cache |-> [s \in Subject |-> None], pending |-> <<>>, generation |-> 0,
               answer |-> None]

NewStore(opened) == [open |-> opened, mirror |-> [s \in Subject |-> {}], generation |-> 0]

Init ==
  /\ policy \in {Policy(d) : d \in Dependencies}
  /\ endpoint \in [Subject -> SUBSET {Old}]
  /\ stores = [i \in Request \cup {Shared} |-> NewStore(i = Shared)]
  /\ request = [r \in Request |-> NoRequest]
  /\ session = [r \in Request |-> NewSession]
  /\ up = TRUE
  /\ seen = [r \in Request |-> [s \in Subject |-> {}]]
  /\ due = [r \in Request |-> [s \in Subject |-> None]]
  /\ tried = {} /\ written = {} /\ dropped = {}

\* What reading a resource may answer.
Readable(values) == IF values = {} THEN {None} ELSE values

Visible(r, s) == Readable(endpoint[s]) \cup stores[StoreOf(r)].mirror[s]

\* History: the requests under way see what endpoint' says.
SeenGrows ==
  seen' = [r \in Request |->
             IF request[r].at \in {"idle", "ended"} THEN seen[r]
             ELSE [s \in Subject |-> seen[r][s] \cup Readable(endpoint'[s])]]

\* A request comes in.
Arrive(r) ==
  /\ up /\ request[r].at = "idle"
  /\ request' = [request EXCEPT ![r].at = "handling"]
  /\ stores' = IF policy.shared THEN stores ELSE [stores EXCEPT ![r] = NewStore(TRUE)]
  /\ seen' = [seen EXCEPT ![r] = [s \in Subject |-> Visible(r, s)]]
  /\ UNCHANGED <<policy, endpoint, session, up, due, tried, written, dropped>>

-----------------------------------------------------------------------------
(* Calls of the handler                                                    *)

Handling(r) == request[r].at = "handling" /\ request[r].op = None

Calls(r) == Handling(r) /\ request[r].calls < MaxCalls[r]

NextValue(r) == <<r, request[r].calls + 1>>

\* A resource is queued at most once: the list without its entry.
Without(pending, s) ==
  LET mine == {i \in DOMAIN pending : pending[i].subject = s}
  IN  IF mine = {} THEN pending ELSE RemoveAt(pending, CHOOSE i \in mine : TRUE)

\* put(model, flush=False)
Queue(r, s) ==
  /\ Calls(r)
  /\ session' = [session EXCEPT
       ![r].pending = Append(Without(@, s), [subject |-> s, value |-> NextValue(r)]),
       ![r].cache[s] = None, ![r].answer = None]
  /\ request' = [request EXCEPT ![r].calls = @ + 1]
  /\ due' = [due EXCEPT ![r][s] = NextValue(r)]
  /\ UNCHANGED <<policy, endpoint, stores, up, seen, tried, written, dropped>>

\* What has to be written before the call itself.
Flush(r) == IF Autoflush THEN session[r].pending ELSE <<>>

Begin(r, op, s, todo) ==
  /\ Calls(r)
  /\ request' = [request EXCEPT ![r].op = op, ![r].subject = s, ![r].todo = todo,
                                ![r].calls = @ + 1]
  /\ session' = [session EXCEPT ![r].answer = None]
  /\ UNCHANGED <<policy, endpoint, stores, up, history>>

Get(r, s) == Begin(r, "get", s, Flush(r))

FlushNow(r) == session[r].pending # <<>> /\ Begin(r, "flush", None, session[r].pending)

\* put(model), or delete(model) when the value is None
Write(r, s) ==
  \E v \in {NextValue(r), None} :
    Begin(r, "write", s, Append(Flush(r), [subject |-> s, value |-> v]))

-----------------------------------------------------------------------------
(* Writes: put_impl_async, and the loop of flush around it                 *)

Head1(r) == request[r].todo[1]

\* How much of todo the flush has still to write.
Queued(r) == Len(request[r].todo) - (IF request[r].op = "write" THEN 1 ELSE 0)

\* Slip: what the session knows is removed, not what the graph holds.
OwnedAsCached(r, s) == {session[r].cache[s]} \ {None}

Owned(r, s) == stores[StoreOf(r)].mirror[s]

\* Slip: a model is cached before it is stored.
CachedEarly(cached, value) == value

\* What the identity map has while the store is written.
CachedMeanwhile(cached, value) == IF value = None THEN None ELSE cached

\* Everything up to the update: read what the graph owns, forget the queued write.
WriteStarts(r, s) ==
  /\ request[r].todo # <<>> /\ ~request[r].writing /\ Head1(r).subject = s
  /\ LET others == {q \in Request \ {r} : request[q].writing /\ Head1(q).subject = s}
     IN  request' = [q \in Request |->
           IF q = r THEN [request[r] EXCEPT !.writing = TRUE, !.removing = Owned(r, s),
             !.exact = others = {} /\ stores[StoreOf(r)].mirror[s] = endpoint[s]]
           ELSE IF q \in others THEN [request[q] EXCEPT !.exact = FALSE]
           ELSE request[q]]
  /\ session' = [session EXCEPT ![r].pending = Without(@, s),
                                ![r].cache[s] = CachedMeanwhile(@, Head1(r).value)]
  /\ tried' = tried \cup {Head1(r).value}
  /\ UNCHANGED <<policy, endpoint, stores, up, seen, due, written, dropped>>

Updated(values, r) == (values \ request[r].removing) \cup ({Head1(r).value} \ {None})

\* A delete that finds nothing to remove asks nothing of the store.
NeedsUpdate(r) == Head1(r).value # None \/ request[r].removing # {}

\* The update has returned; flush clears the list after its last write.
WriteDone(r) ==
  /\ request[r].writing /\ (NeedsUpdate(r) => stores[StoreOf(r)].open)
  /\ LET w == Head1(r)
         rest == Tail(request[r].todo)
     IN  /\ endpoint' = [endpoint EXCEPT ![w.subject] = Updated(@, r)]
         /\ stores' = [stores EXCEPT ![StoreOf(r)].mirror[w.subject] = Updated(@, r)]
         /\ session' = [session EXCEPT ![r].cache[w.subject] = w.value,
                                       ![r].pending = IF Queued(r) = 1 THEN <<>> ELSE @]
         /\ request' = [request EXCEPT
              ![r].todo = rest, ![r].writing = FALSE, ![r].removing = {}, ![r].exact = FALSE,
              ![r].op = IF rest = <<>> /\ @ # "get" THEN None ELSE @,
              ![r].at = IF rest = <<>> /\ @ = "exiting" THEN "closing" ELSE @]
         /\ written' = written \cup {w.value}
         /\ due' = IF Queued(r) = 0 THEN [due EXCEPT ![r][w.subject] = w.value] ELSE due
  /\ SeenGrows
  /\ UNCHANGED <<policy, up, tried, dropped>>

\* Slip: a write that failed is not queued again.
RequeuedRest(r) == SubSeq(request[r].todo, 2, Queued(r))

Requeued(r) == SubSeq(request[r].todo, 1, Queued(r))

\* Slip: what fails is tried again, as long as it fails.
WriteRepeats(r) ==
  /\ request[r].writing
  /\ request' = [request EXCEPT ![r].writing = FALSE]
  /\ UNCHANGED <<policy, endpoint, stores, session, up, history>>

\* The update raises, before or after the endpoint has carried it out: the call
\* raises, too, and flush queues again what it has not written.
WriteFails(r) ==
  /\ request[r].writing /\ NeedsUpdate(r)
  /\ \/ UNCHANGED endpoint
     \/ /\ stores[StoreOf(r)].open
        /\ endpoint' = [endpoint EXCEPT ![Head1(r).subject] = Updated(@, r)]
  /\ session' = [session EXCEPT ![r].pending = IF Queued(r) > 0 THEN Requeued(r) ELSE @]
  /\ request' = [request EXCEPT
       ![r].op = None, ![r].todo = <<>>, ![r].writing = FALSE, ![r].removing = {},
       ![r].exact = FALSE, ![r].exitFailed = request[r].at = "exiting",
       ![r].at = IF @ = "exiting" THEN "closing" ELSE @]
  /\ SeenGrows
  /\ UNCHANGED <<policy, stores, up, due, tried, written, dropped>>

-----------------------------------------------------------------------------
(* Reads: get_impl_async                                                   *)

\* A store whose mirror has changed otherwise than by updates empties the caches.
Synced(r) ==
  IF session[r].generation = stores[StoreOf(r)].generation THEN session[r].cache
  ELSE [s \in Subject |-> None]

\* The mirror after the resource was pulled, if it had to be.
Pull(r, s) ==
  LET store == stores[StoreOf(r)]
  IN  IF store.mirror[s] # {} THEN store
      ELSE [store EXCEPT !.mirror[s] = endpoint[s], !.generation = @ + 1]

Found(r, s) ==
  IF Synced(r)[s] # None /\ Pull(r, s).mirror[s] # {} THEN {Synced(r)[s]}
  ELSE Readable(Pull(r, s).mirror[s])

Reading(r) == request[r].op = "get" /\ request[r].todo = <<>>

GetDone(r) ==
  /\ Reading(r)
  /\ LET subject == request[r].subject
         i == StoreOf(r)
     IN  /\ stores[i].open \/ stores[i].mirror[subject] # {}
         /\ stores' = [stores EXCEPT ![i] = Pull(r, subject)]
         /\ \E v \in Found(r, subject) :
              session' = [session EXCEPT
                ![r].cache = [Synced(r) EXCEPT ![subject] = v],
                ![r].generation = stores[i].generation,
                ![r].answer = [subject |-> subject, value |-> v]]
  /\ request' = [request EXCEPT ![r].op = None]
  /\ UNCHANGED <<policy, endpoint, up, history>>

\* The pull raises, or the store is closed.
GetFails(r) ==
  /\ Reading(r) /\ stores[StoreOf(r)].mirror[request[r].subject] = {}
  /\ request' = [request EXCEPT ![r].op = None]
  /\ session' = [session EXCEPT ![r].cache = Synced(r),
                                ![r].generation = stores[StoreOf(r)].generation]
  /\ UNCHANGED <<policy, endpoint, stores, up, history>>

-----------------------------------------------------------------------------
(* The end of a request: __aexit__ and close                               *)

\* Slip: the exit flushes whatever the handler did.
ExitQueueAlways(r, failed) == session[r].pending

ExitQueue(r, failed) == IF failed THEN <<>> ELSE session[r].pending

\* The handler returns or raises.
Leave(r, failed) ==
  /\ Handling(r)
  /\ request' = [request EXCEPT
       ![r].failed = failed, ![r].todo = ExitQueue(r, failed),
       ![r].op = IF ExitQueue(r, failed) = <<>> THEN None ELSE "exit",
       ![r].at = IF ExitQueue(r, failed) = <<>> THEN "closing" ELSE "exiting"]
  /\ session' = [session EXCEPT
       ![r].pending = IF failed /\ RollbackOnError THEN <<>> ELSE @, ![r].answer = None]
  /\ dropped' = dropped \cup (IF failed THEN {w.value : w \in ToSet(session[r].pending)} \ tried
                              ELSE {})
  /\ UNCHANGED <<policy, endpoint, stores, up, seen, due, tried, written>>

\* close() refuses while writes are pending: the store stays open then.  The
\* session is given up; what it left pending is kept for StoreLifetimes.
Finish(r) ==
  /\ request[r].at = "closing"
  /\ request' = [request EXCEPT ![r] = [NoRequest EXCEPT !.at = "ended"]]
  /\ stores' = IF policy.close /\ session[r].pending = <<>>
               THEN [stores EXCEPT ![StoreOf(r)].open = FALSE]
               ELSE stores
  /\ session' = [session EXCEPT ![r] = [NewSession EXCEPT !.pending = session[r].pending]]
  /\ seen' = [seen EXCEPT ![r] = [s \in Subject |-> {}]]
  /\ due' = [due EXCEPT ![r] = [s \in Subject |-> None]]
  /\ UNCHANGED <<policy, endpoint, up, tried, written, dropped>>

\* The lifespan ends when no request is under way.
Shutdown ==
  /\ up /\ \A r \in Request : request[r].at \in {"idle", "ended"}
  /\ up' = FALSE
  /\ stores' = [stores EXCEPT ![Shared].open = FALSE]
  /\ UNCHANGED <<policy, endpoint, request, session, history>>

-----------------------------------------------------------------------------

Step(r) ==
  \/ \E s \in Subject : Queue(r, s) \/ Get(r, s) \/ Write(r, s) \/ WriteStarts(r, s)
  \/ FlushNow(r)
  \/ WriteDone(r) \/ WriteFails(r) \/ GetDone(r) \/ GetFails(r)
  \/ \E failed \in BOOLEAN : Leave(r, failed)
  \/ Finish(r)

Next == (\E r \in Request : Arrive(r) \/ Step(r)) \/ Shutdown

Spec == Init /\ [][Next]_vars

\* Handlers return, and the endpoint answers or a timeout ends the wait.
FairSpec == Spec /\ \A r \in Request : WF_vars(Step(r))

-----------------------------------------------------------------------------
(* Properties                                                              *)

Ended(r) == request[r].at = "ended"

\* A request reads what the endpoint or its mirror held while it ran, also from its
\* caches and whatever the other requests write: a session begins empty, it caches
\* what it read or wrote itself, and a write that failed is not cached
\* (get_session, put_impl_async, get_impl_async).
ReadsOfItsTime ==
  \A r \in Request :
    session[r].answer # None =>
      session[r].answer.value \in seen[r][session[r].answer.subject]

\* A request that ends without an error has stored each of its writes, unless a
\* later one of its own has replaced it or was refused to its face: with autoflush
\* nothing that a session queued is forgotten when a flush stops half way, in the
\* middle of the request or at its end (flush, __aexit__).
SuccessStored ==
  \A r \in Request :
    Autoflush /\ request[r].at = "closing" /\ ~request[r].failed /\ ~request[r].exitFailed =>
      \A s \in Subject : due[r][s] = None \/ due[r][s] \in written

\* What a failed request had queued and not tried to write is never stored, by
\* its own exit or by any other request (__aexit__, rollback_pending).
FailureLeavesNothing == \A s \in Subject : endpoint[s] \cap dropped = {}

\* The application's store stays open as long as the application is up, unless it
\* was given to session_dependency with close_on_exit=True; a store made for one
\* request is closed with it, if nothing is left pending (_resolve_store,
\* session_dependency, __aexit__, close).
StoreLifetimes ==
  /\ up /\ ~policy.warned => stores[Shared].open
  /\ \A r \in Request :
       Ended(r) /\ ~policy.shared =>
         (stores[r].open <=> ~policy.close \/ session[r].pending # <<>>)

\* An upsert leaves nothing but its own value, if the mirror knew the resource and
\* no other request was writing it at the time: what it removes is read before the
\* wait and still right after it (put_impl_async).
UpsertExact ==
  [][\A r \in Request :
       WriteDone(r) /\ request[r].exact =>
         endpoint'[Head1(r).subject] = {Head1(r).value} \ {None}]_vars

\* Every request that comes in ends (__aexit__ tries its flush once).
RequestsEnd == \A r \in Request : request[r].at = "handling" ~> Ended(r)
=============================================================================
