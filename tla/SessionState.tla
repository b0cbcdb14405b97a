---------------------------- MODULE SessionState ----------------------------
(***************************************************************************)
(* The caches and the pending queue of a session: session_state.py and the *)
(* helpers of session_core.py that change them.  A cache is a record       *)
(*   identity  : resource -> the instance the session hands out,           *)
(*   hydration : <<resource, depth>> -> the instance a get answered with;  *)
(* None means no entry.                                                    *)
(***************************************************************************)
EXTENDS Cascade, Queues

HydrationKey == Iris \X Depths

Cache == [identity : [Iris -> Obj \cup {None}],
          hydration : [HydrationKey -> Obj \cup {None}]]

EmptyCache == [identity |-> [i \in Iris |-> None],
               hydration |-> [k \in HydrationKey |-> None]]

DropHydration(c, subjects) ==
  [c EXCEPT !.hydration =
     [k \in HydrationKey |-> IF k[1] \in subjects THEN None ELSE c.hydration[k]]]

SetHydration(c, i, depth, o) == [c EXCEPT !.hydration[<<i, depth>>] = o]

DropIdentity(c, subjects) ==
  [c EXCEPT !.identity =
     [i \in Iris |-> IF i \in subjects THEN None ELSE c.identity[i]]]

\* expire_keys, expire_model: both caches forget the subjects.
ExpireKeys(c, subjects) == DropHydration(DropIdentity(c, subjects), subjects)

\* set_identity also invalidates what was hydrated for the resource.
SetIdentity(c, i, o) == DropHydration([c EXCEPT !.identity[i] = o], {i})

\* Slips: an IRI in a relationship is registered like an object; an embedded
\* object is filed under the key of its owner.
EmbeddedOrIri(h, o, i) ==
  {Chain(h, o)[n] : n \in {k \in DOMAIN Chain(h, o) \ {1} : Chain(h, o)[k] = i}}

EmbeddedUnderOwner(h, o, i) ==
  {Chain(h, o)[n] : n \in {k \in Embeds(h, o) \ {1} : IriAt(h, o, k - 1) = i}}

\* The object embedded below o for resource i; of two the deeper one, which is
\* registered last.
Embedded(h, o, i) ==
  LET at == {n \in Embeds(h, o) \ {1} : IriAt(h, o, n) = i}
  IN  {Chain(h, o)[n] : n \in {k \in at : \A m \in at : m <= k}}

\* Slip: what was hydrated for an embedded resource stays cached.
RegisterEmbeddedOnly(c, h, o) ==
  [c EXCEPT !.identity =
     [i \in Iris |-> IF Embedded(h, o, i) = {} THEN c.identity[i]
                      ELSE CHOOSE x \in Embedded(h, o, i) : TRUE]]

\* _register_embedded_identities
RegisterEmbedded(c, h, o) ==
  DropHydration(
    [c EXCEPT !.identity =
       [i \in Iris |-> IF Embedded(h, o, i) = {} THEN c.identity[i]
                        ELSE CHOOSE x \in Embedded(h, o, i) : TRUE]],
    {i \in Iris : Embedded(h, o, i) # {}})

\* set_identity followed by _register_embedded_identities.
Register(c, h, o) == RegisterEmbedded(SetIdentity(c, h[o].iri, o), h, o)

-----------------------------------------------------------------------------
(* The pending queue: objects whose put was deferred, oldest first.        *)

RemovePending(q, h, subjects) == Kept(q, {n \in DOMAIN q : h[q[n]].iri \notin subjects})

AddPending(q, h, o) == Append(RemovePending(q, h, {h[o].iri}), o)

PendingObjs(q) == {q[n] : n \in DOMAIN q}

\* The models of q added one by one to an empty queue.
AddedInTurn(q, h) ==
  LET added[n \in 0 .. Len(q)] ==
        IF n = 0 THEN <<>> ELSE AddPending(added[n - 1], h, q[n])
  IN  added[Len(q)]

\* Slip: the write that failed is not queued again.
RequeuedRest(todo, h) == AddedInTurn(Tail(todo), h)

\* The queue a failed flush leaves: cleared, then each model added again.
Requeued(todo, h) == AddedInTurn(todo, h)
=============================================================================
