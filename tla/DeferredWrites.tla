--------------------------- MODULE DeferredWrites ---------------------------
(***************************************************************************)
(* What a session promises about put(..., flush=False), whatever its caches *)
(* and its store do: the deferred writes form a queue without duplicates;  *)
(* a flush takes them from its head one by one, and when it stops early    *)
(* exactly the writes it did not reach are left, in their order; outside a *)
(* flush a call discards the writes of the resources it is about and no    *)
(* other; the session is closed only when nothing is deferred.             *)
(***************************************************************************)
EXTENDS Queues

CONSTANT Resources

VARIABLES
  queue,     \* the resources whose writes are deferred, oldest first
  flushing,
  closed,
  scopes     \* sets of resources: what a put, and what a delete, of the
             \* application's instance would be about; read, never written

vars == <<queue, flushing, closed>>

Without(q, discarded) == Kept(q, {n \in DOMAIN q : q[n] \notin discarded})

Init == queue = <<>> /\ flushing = FALSE /\ closed = FALSE

Defer ==
  /\ ~closed /\ ~flushing
  /\ \E i \in Resources : queue' = Append(Without(queue, {i}), i)
  /\ UNCHANGED <<flushing, closed>>

\* A call about one resource, or a put or a delete.
Discard ==
  /\ ~closed /\ ~flushing
  /\ \E gone \in {{i} : i \in Resources} \cup scopes : queue' = Without(queue, gone)
  /\ UNCHANGED <<flushing, closed>>

\* The application gives up all that is deferred.
Clear ==
  /\ ~closed /\ ~flushing
  /\ queue' = <<>>
  /\ UNCHANGED <<flushing, closed>>

BeginFlush ==
  /\ ~closed /\ ~flushing
  /\ flushing' = TRUE
  /\ UNCHANGED <<queue, closed>>

Write ==
  /\ flushing /\ queue # <<>>
  /\ queue' = Tail(queue)
  /\ UNCHANGED <<flushing, closed>>

\* The flush is done, or a write failed.
EndFlush ==
  /\ flushing /\ flushing' = FALSE
  /\ UNCHANGED <<queue, closed>>

\* Closing, at the end of a block also after discarding what is deferred.
Close ==
  /\ ~closed /\ ~flushing
  /\ queue' = <<>> /\ closed' = TRUE
  /\ UNCHANGED flushing

Restart == queue' = <<>> /\ flushing' = FALSE /\ closed' = FALSE

Next ==
  \/ Defer \/ Discard \/ Clear
  \/ BeginFlush \/ Write \/ EndFlush
  \/ Close \/ Restart

Spec == Init /\ [][Next]_vars
=============================================================================
