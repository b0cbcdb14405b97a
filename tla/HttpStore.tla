----------------------------- MODULE HttpStore -----------------------------
(***************************************************************************)
(* A SPARQL endpoint and the local mirror an HTTP store keeps of it:       *)
(* stores/async_http.py, stores/http.py and stores/http_common.py.  The    *)
(* store is shared by the tasks of an application, each with a session of  *)
(* its own, and a call is divided where it waits for the endpoint: a       *)
(* request is sent, served, and answered or lost.                          *)
(*                                                                         *)
(* What is known of a subject is a set of values; a subject without values *)
(* is one without an rdf:type.                                             *)
(***************************************************************************)
EXTENDS Integers, Sequences, FiniteSets, Functions

CONSTANTS
  Tasks,       \* tasks or threads that use the store, one call at a time
  Subjects, Values,
  Writes,      \* Writes[t]: the subjects that task t writes
  MirrorMode,  \* "writer" or "remote_authoritative"
  MaxRetries,  \* max_retries
  ChunkSize,   \* max_triples_per_update
  MaxLate      \* bound: updates given up by the client that a slow endpoint may
               \* apply at any later time, none of them if it is 0

Triples == Subjects \X Values

ASSUME StoreAssumption ==
  /\ IsFiniteSet(Triples) /\ Writes \in [Tasks -> SUBSET Subjects]
  /\ MirrorMode \in {"writer", "remote_authoritative"}
  /\ MaxRetries \in Nat /\ ChunkSize \in Nat \ {0}
  /\ MaxLate \in Nat

VARIABLES
  remote,    \* the dataset behind the endpoint
  mirror,    \* store.graph
  late,      \* updates the client gave up that the endpoint may still apply
  task,      \* the call each task is in
  closed,    \* store._closed
  doubtful   \* history: subjects that failures left in a doubtful state

vars == <<remote, mirror, late, task, closed, doubtful>>

Of(g, subjects) == {x \in g : x[1] \in subjects}

Update == [kind : {"delete", "insert"}, triples : SUBSET Triples]

Call == [op : {"none", "update", "read"}, about : SUBSET Subjects,
         gone : SUBSET Triples, new : SUBSET Triples, todo : Seq(Update),
         attempt : 0 .. MaxRetries, at : {"send", "sent", "served"},
         answer : SUBSET Triples, disturbed : BOOLEAN]

NoCall == [op |-> "none", about |-> {}, gone |-> {}, new |-> {}, todo |-> <<>>,
           attempt |-> 0, at |-> "send", answer |-> {}, disturbed |-> FALSE]

Init ==
  /\ remote \in SUBSET Triples /\ mirror = {}
  /\ late = {} /\ closed = FALSE
  /\ task = [t \in Tasks |-> NoCall]
  /\ doubtful = Subjects

-----------------------------------------------------------------------------
(* Updates: all DELETE chunks, then all INSERT chunks                      *)

\* A graph has no order: its triples are cut into chunks in any order.
Chunks(kind, triples) ==
  LET n == Cardinality(triples)
  IN  {[k \in 1 .. (n + ChunkSize - 1) \div ChunkSize |->
          [kind |-> kind,
           triples |-> {s[i] : i \in {j \in 1 .. n : (j - 1) \div ChunkSize = k - 1}}]]
       : s \in Bijection(1 .. n, triples)}

\* Slip: the INSERT chunks are sent first.
InsertsFirst(gone, new) ==
  {inserts \o deletes : deletes \in Chunks("delete", gone), inserts \in Chunks("insert", new)}

UpdateChunks(gone, new) ==
  {deletes \o inserts : deletes \in Chunks("delete", gone), inserts \in Chunks("insert", new)}

Applied(g, u) == IF u.kind = "delete" THEN g \ u.triples ELSE g \cup u.triples

Idle(t) == task[t].op = "none" /\ ~closed

\* put, delete and add of a session: gone is what the mirror has of a subject.
StartUpdate(t) ==
  /\ Idle(t)
  /\ \E s \in Writes[t] :
       \E gone \in {{}, Of(mirror, {s})}, new \in SUBSET ({s} \X Values) :
         \E todo \in UpdateChunks(gone, new) :
           /\ todo # <<>>
           /\ task' = [task EXCEPT ![t] =
                [NoCall EXCEPT !.op = "update", !.about = {s}, !.gone = gone,
                               !.new = new, !.todo = todo]]
  /\ UNCHANGED <<remote, mirror, late, closed, doubtful>>

-----------------------------------------------------------------------------
(* Reads: a subject is pulled, or the whole mirror is synchronised         *)

PullNeeded(s) == MirrorMode = "remote_authoritative" \/ Of(mirror, {s}) = {}

StartRead(t) ==
  /\ Idle(t)
  /\ \E about \in {{s} : s \in {r \in Subjects : PullNeeded(r)}} \cup {Subjects} :
       task' = [task EXCEPT ![t] = [NoCall EXCEPT !.op = "read", !.about = about]]
  /\ UNCHANGED <<remote, mirror, late, closed, doubtful>>

-----------------------------------------------------------------------------
(* Requests                                                                *)

\* A call that raises: what an update that failed has done is unknown.
Raises(t) ==
  /\ task' = [task EXCEPT ![t] = NoCall]
  /\ doubtful' = doubtful \cup (IF task[t].op = "update" THEN task[t].about ELSE {})

\* A closed store refuses the next chunk, and a closed client the next attempt.
Send(t) ==
  /\ task[t].op # "none" /\ task[t].at = "send"
  /\ \/ ~closed /\ task' = [task EXCEPT ![t].at = "sent"] /\ UNCHANGED doubtful
     \/ closed /\ Raises(t)
  /\ UNCHANGED <<remote, mirror, late, closed>>

\* The endpoint serves a request.
Serve(t) ==
  /\ task[t].op # "none" /\ task[t].at = "sent"
  /\ IF task[t].op = "update"
       THEN /\ remote' = Applied(remote, Head(task[t].todo))
            /\ task' = [task EXCEPT ![t].at = "served"]
       ELSE /\ task' = [task EXCEPT ![t].at = "served",
                                    ![t].answer = Of(remote, task[t].about)]
            /\ UNCHANGED remote
  /\ UNCHANGED <<mirror, late, closed, doubtful>>

\* Slip: one attempt too many.
RetriesOnce(t) == task[t].attempt <= MaxRetries

Retries(t) == task[t].attempt < MaxRetries

\* Slip: a request that failed is repeated without counting the attempts.
LostForEver(t) ==
  /\ task[t].op # "none" /\ task[t].at \in {"sent", "served"}
  /\ task' = [task EXCEPT ![t].at = "send"]
  /\ UNCHANGED <<remote, mirror, late, closed, doubtful>>

\* A timeout, a connection error or a 502, 503, 504, before or after the request
\* was served: it is repeated, up to MaxRetries times.
Lost(t) ==
  /\ task[t].op # "none" /\ task[t].at \in {"sent", "served"}
  /\ \/ UNCHANGED late
     \/ /\ Cardinality(late) < MaxLate
        /\ task[t].op = "update" /\ task[t].at = "sent"
        /\ late' = late \cup {Head(task[t].todo)}
  /\ \/ /\ Retries(t)
        /\ task' = [task EXCEPT ![t].attempt = @ + 1, ![t].at = "send"]
        /\ UNCHANGED doubtful
     \/ ~Retries(t) /\ Raises(t)
  /\ UNCHANGED <<remote, mirror, closed>>

\* Any other failure is not repeated: another status, a response that breaks off
\* or that cannot be parsed.
Refused(t) ==
  /\ task[t].op # "none" /\ task[t].at \in {"sent", "served"}
  /\ Raises(t)
  /\ UNCHANGED <<remote, mirror, late, closed>>

\* Slip: a pull adds to what the mirror has of the subjects.
PullMerged(g, about, answer) == g \cup answer

\* What was known of the subjects is replaced.
Pulled(g, about, answer) == (g \ Of(g, about)) \cup answer

\* The last chunk's response is followed by the update of the mirror.
Answered(t) ==
  LET c == task[t]
      rest == Tail(c.todo)
  IN  /\ c.op # "none" /\ c.at = "served"
      /\ \/ /\ c.op = "update" /\ rest # <<>>
            /\ task' = [task EXCEPT ![t].todo = rest, ![t].at = "send", ![t].attempt = 0]
            /\ UNCHANGED <<mirror, doubtful>>
         \/ /\ c.op = "update" /\ rest = <<>>
            /\ mirror' = (mirror \ c.gone) \cup c.new
            /\ task' = [task EXCEPT ![t] = NoCall]
            /\ UNCHANGED doubtful
         \/ /\ c.op = "read"
            /\ mirror' = Pulled(mirror, c.about, c.answer)
            /\ task' = [task EXCEPT ![t] = NoCall]
            /\ doubtful' = IF c.disturbed THEN doubtful ELSE doubtful \ c.about
      /\ UNCHANGED <<remote, late, closed>>

-----------------------------------------------------------------------------
(* The world around the tasks                                              *)

\* The endpoint applies an update that the client has given up, and may disturb
\* calls about the same subject.
LateUpdate ==
  /\ \E u \in late :
       LET about == {x[1] : x \in u.triples}
       IN  /\ remote' = Applied(remote, u) /\ late' = late \ {u}
           /\ doubtful' = doubtful \cup about
           /\ task' = [t \in Tasks |-> [task[t] EXCEPT
                !.disturbed = @ \/ task[t].about \cap about # {}]]
  /\ UNCHANGED <<mirror, closed>>

\* The application shuts down.
Close == ~closed /\ closed' = TRUE /\ UNCHANGED <<remote, mirror, late, task, doubtful>>

\* The application starts again, or died in the middle of anything: the mirror
\* is empty.
Restart ==
  /\ mirror' = {} /\ closed' = FALSE
  /\ task' = [t \in Tasks |-> NoCall]
  /\ doubtful' = Subjects
  /\ UNCHANGED <<remote, late>>

TaskStep(t) == Send(t) \/ Serve(t) \/ Lost(t) \/ Refused(t) \/ Answered(t)

Next ==
  \/ \E t \in Tasks : StartUpdate(t) \/ StartRead(t) \/ TaskStep(t)
  \/ LateUpdate \/ Close \/ Restart

Spec == Init /\ [][Next]_vars

\* Every request has a timeout, and tasks are scheduled fairly.
FairSpec == Spec /\ \A t \in Tasks : WF_vars(TaskStep(t))

-----------------------------------------------------------------------------
(* Properties                                                              *)

\* Every variable holds a value of its kind, and no request is attempted more
\* often than max_retries allows (http_common.request_with_retry).
TypeOK ==
  /\ remote \subseteq Triples /\ mirror \subseteq Triples
  /\ late \subseteq Update /\ closed \in BOOLEAN /\ doubtful \subseteq Subjects
  /\ task \in [Tasks -> Call]

\* An update that returns is in effect at the endpoint: in spite of chunks,
\* retries and responses that are lost, what it adds is there and what it
\* removes is not, a triple that it both removes and adds included; unless an
\* update given up earlier, by this call or another, was applied meanwhile
\* (http_common.build_update_chunks, update_graph).
UpdateInEffect ==
  [][\A t \in Tasks :
       /\ task[t].op = "update" /\ Answered(t) /\ Tail(task[t].todo) = <<>>
       /\ ~task[t].disturbed
       => /\ task[t].new \subseteq remote
          /\ (task[t].gone \ task[t].new) \cap remote = {}]_vars

\* With one task the mirror says of a subject what the endpoint says, but for
\* the update in progress and for what failures left in doubt; a pull or a
\* synchronisation ends the doubt (update_graph, apply_construct_to_mirror,
\* replace_mirror_from_graph).
MirrorCurrent ==
  \A s \in Subjects :
    \/ Of(mirror, {s}) = Of(remote, {s})
    \/ s \in doubtful
    \/ \E t \in Tasks : task[t].op = "update" /\ s \in task[t].about

\* Every call returns, whatever the endpoint loses (request_with_retry).
CallsReturn == \A t \in Tasks : task[t].op # "none" ~> task[t].op = "none"
=============================================================================
