--------------------------- MODULE HttpStoreProofs ---------------------------
(***************************************************************************)
(* Theorems about HttpStore for every size of chunks and number of retries, *)
(* and for every set of subjects, values and tasks.                        *)
(***************************************************************************)
EXTENDS HttpStore, FiniteSetTheorems, SequenceTheorems, TLAPS

LEMMA LastChunk ==
  ASSUME NEW c \in Nat \ {0}, NEW n \in Nat, NEW j \in 1 .. n
  PROVE  (j - 1) \div c + 1 \in 1 .. ((n + c - 1) \div c)
<1> DEFINE q == (j - 1) \div c
           m == (n + c - 1) \div c
<1>1. q \in Int /\ m \in Int /\ q >= 0
  OBVIOUS
<1>2. c * q <= j - 1 /\ n + c - 1 < c * m + c
  OBVIOUS
<1>3. ~(m <= q)
  <2> SUFFICES ASSUME m <= q PROVE FALSE
    OBVIOUS
  <2>1. c * m <= c * q
    BY <1>1
  <2> QED
    BY <1>1, <1>2, <2>1
<1> QED
  BY <1>1, <1>3

\* A set of triples is cut into updates of its own triples, and none is left out.
LEMMA ChunksCover ==
  ASSUME NEW kind \in {"delete", "insert"}, NEW T \in SUBSET Triples, NEW c \in Chunks(kind, T)
  PROVE  /\ c \in Seq(Update)
         /\ \A k \in 1 .. Len(c) : c[k].kind = kind /\ c[k].triples \subseteq T
         /\ \A x \in T : \E k \in 1 .. Len(c) : x \in c[k].triples
<1> DEFINE n == Cardinality(T)
           m == (n + ChunkSize - 1) \div ChunkSize
<1>1. n \in Nat
  BY StoreAssumption, FS_Subset, FS_CardinalityType
<1>2. m \in Nat
  BY <1>1, StoreAssumption
<1>3. PICK s \in Bijection(1 .. n, T) :
        c = [k \in 1 .. m |->
              [kind |-> kind,
               triples |-> {s[i] : i \in {j \in 1 .. n : (j - 1) \div ChunkSize = k - 1}}]]
  BY DEF Chunks
<1>4. s \in [1 .. n -> T] /\ \A x \in T : \E i \in 1 .. n : s[i] = x
  BY DEF Bijection, Injection, Surjection
<1> HIDE DEF n, m
<1>5. \A k \in 1 .. m : c[k].kind = kind /\ c[k].triples \subseteq T /\ c[k] \in Update
  BY <1>3, <1>4 DEF Update
<1>6. c \in Seq(Update) /\ Len(c) = m
  BY <1>2, <1>3, <1>5
<1>7. ASSUME NEW x \in T
      PROVE  \E k \in 1 .. m : x \in c[k].triples
  <2>1. PICK j \in 1 .. n : s[j] = x
    BY <1>4
  <2> DEFINE k == (j - 1) \div ChunkSize + 1
  <2>2. k \in 1 .. m
    BY <1>1, <2>1, LastChunk, StoreAssumption DEF m
  <2>3. (j - 1) \div ChunkSize = k - 1
    BY <1>1, StoreAssumption
  <2>4. x \in c[k].triples
    BY <1>3, <2>1, <2>2, <2>3
  <2> QED
    BY <2>2, <2>4
<1> QED
  BY <1>5, <1>6, <1>7

-----------------------------------------------------------------------------
(* Types                                                                   *)

\* The updates of a call: first the deletions of gone, then the insertions of new.
InOrder(todo, gone, new) ==
  /\ \A k \in 1 .. Len(todo) :
       todo[k].triples \subseteq (IF todo[k].kind = "delete" THEN gone ELSE new)
  /\ \A j, k \in 1 .. Len(todo) :
       j < k /\ todo[k].kind = "delete" => todo[j].kind = "delete"

LEMMA UpdateChunksCover ==
  ASSUME NEW gone \in SUBSET Triples, NEW new \in SUBSET Triples,
         NEW todo \in UpdateChunks(gone, new)
  PROVE  /\ todo \in Seq(Update) /\ InOrder(todo, gone, new)
         /\ \A x \in gone : \E k \in 1 .. Len(todo) :
              todo[k].kind = "delete" /\ x \in todo[k].triples
         /\ \A x \in new : \E k \in 1 .. Len(todo) :
              todo[k].kind = "insert" /\ x \in todo[k].triples
<1>1. PICK d \in Chunks("delete", gone), i \in Chunks("insert", new) : todo = d \o i
  BY DEF UpdateChunks
<1>2. /\ d \in Seq(Update)
      /\ \A k \in 1 .. Len(d) : d[k].kind = "delete" /\ d[k].triples \subseteq gone
      /\ \A x \in gone : \E k \in 1 .. Len(d) : x \in d[k].triples
  BY ChunksCover
<1>3. /\ i \in Seq(Update)
      /\ \A k \in 1 .. Len(i) : i[k].kind = "insert" /\ i[k].triples \subseteq new
      /\ \A x \in new : \E k \in 1 .. Len(i) : x \in i[k].triples
  BY ChunksCover
<1>4. /\ todo \in Seq(Update) /\ Len(todo) = Len(d) + Len(i)
      /\ \A k \in 1 .. Len(todo) : todo[k] = IF k <= Len(d) THEN d[k] ELSE i[k - Len(d)]
  BY <1>1, <1>2, <1>3, ConcatProperties
<1>5. Len(d) \in Nat /\ Len(i) \in Nat
  BY <1>2, <1>3, LenProperties
<1>6. \A k \in 1 .. Len(d) : k \in 1 .. Len(todo) /\ todo[k] = d[k]
  BY <1>4, <1>5
<1>7. \A k \in 1 .. Len(i) : k + Len(d) \in 1 .. Len(todo) /\ todo[k + Len(d)] = i[k]
  BY <1>4, <1>5
<1>8. \A k \in 1 .. Len(todo) :
        \/ todo[k].kind = "delete" /\ todo[k].triples \subseteq gone /\ k <= Len(d)
        \/ todo[k].kind = "insert" /\ todo[k].triples \subseteq new /\ k > Len(d)
  <2> TAKE k \in 1 .. Len(todo)
  <2>1. CASE k <= Len(d)
    BY <1>2, <1>5, <1>6, <2>1
  <2>2. CASE k > Len(d)
    <3>1. k - Len(d) \in 1 .. Len(i) /\ todo[k] = i[k - Len(d)]
      BY <1>4, <1>5, <2>2
    <3> QED
      BY <1>3, <2>2, <3>1
  <2> QED
    BY <1>4, <1>5, <2>1, <2>2
<1>9. InOrder(todo, gone, new)
  BY <1>4, <1>5, <1>8 DEF InOrder
<1>10. \A x \in gone : \E k \in 1 .. Len(todo) :
         todo[k].kind = "delete" /\ x \in todo[k].triples
  BY <1>2, <1>6
<1>11. \A x \in new : \E k \in 1 .. Len(todo) :
         todo[k].kind = "insert" /\ x \in todo[k].triples
  BY <1>3, <1>7
<1> QED
  BY <1>4, <1>9, <1>10, <1>11

\* Calls with updates to send have some left.
Busy == \A t \in Tasks : task[t].op = "update" => task[t].todo # <<>>

TypeInv == TypeOK /\ Busy

LEMMA NoCallType == NoCall \in Call /\ NoCall.op # "update"
  BY StoreAssumption, EmptySeq DEF NoCall, Call

LEMMA CallUpdated ==
  ASSUME NEW c \in Call
  PROVE  /\ \A x \in Seq(Update) : [c EXCEPT !.todo = x] \in Call
         /\ \A x \in {"send", "sent", "served"} : [c EXCEPT !.at = x] \in Call
         /\ \A x \in 0 .. MaxRetries : [c EXCEPT !.attempt = x] \in Call
         /\ \A x \in SUBSET Triples : [c EXCEPT !.answer = x] \in Call
         /\ \A x \in BOOLEAN : [c EXCEPT !.disturbed = x] \in Call
  BY DEF Call

\* How one task's call may change.
LEMMA CallChanged ==
  ASSUME TypeInv, NEW t \in Tasks, NEW c \in Call, c.op = "update" => c.todo # <<>>,
         task' = [task EXCEPT ![t] = c]
  PROVE  task' \in [Tasks -> Call] /\ Busy'
  BY DEF TypeInv, TypeOK, Busy

\* What an update that begins looks like.
Started(t, c) ==
  /\ c \in Call /\ c.op = "update" /\ c.todo # <<>> /\ c.at = "send" /\ ~c.disturbed
  /\ c.todo \in UpdateChunks(c.gone, c.new)
  /\ \E s \in Writes[t] : c.about = {s}
  /\ \A x \in c.gone \cup c.new : x[1] \in c.about

LEMMA UpdateStarted ==
  ASSUME TypeInv, NEW t \in Tasks, StartUpdate(t)
  PROVE  \E c : Started(t, c) /\ task' = [task EXCEPT ![t] = c]
<1>1. PICK s \in Writes[t] :
        \E gone \in {{}, Of(mirror, {s})}, new \in SUBSET ({s} \X Values) :
          \E todo \in UpdateChunks(gone, new) :
            /\ todo # <<>>
            /\ task' = [task EXCEPT ![t] =
                 [NoCall EXCEPT !.op = "update", !.about = {s}, !.gone = gone,
                                !.new = new, !.todo = todo]]
  BY DEF StartUpdate
<1>2. PICK gone \in {{}, Of(mirror, {s})}, new \in SUBSET ({s} \X Values) :
        \E todo \in UpdateChunks(gone, new) :
          /\ todo # <<>>
          /\ task' = [task EXCEPT ![t] =
               [NoCall EXCEPT !.op = "update", !.about = {s}, !.gone = gone,
                              !.new = new, !.todo = todo]]
  BY <1>1
<1>3. PICK todo \in UpdateChunks(gone, new) :
        /\ todo # <<>>
        /\ task' = [task EXCEPT ![t] =
             [NoCall EXCEPT !.op = "update", !.about = {s}, !.gone = gone,
                            !.new = new, !.todo = todo]]
  BY <1>2
<1>4. s \in Subjects
  BY StoreAssumption
<1>5. gone \in SUBSET Triples /\ new \in SUBSET Triples
  BY <1>4 DEF Of, Triples, TypeInv, TypeOK
<1>6. todo \in Seq(Update)
  BY <1>5, UpdateChunksCover
<1> DEFINE c == [NoCall EXCEPT !.op = "update", !.about = {s}, !.gone = gone,
                               !.new = new, !.todo = todo]
<1>7. c \in Call /\ c.todo # <<>>
  BY <1>3, <1>4, <1>5, <1>6, NoCallType DEF Call, NoCall
<1>8. /\ c.op = "update" /\ c.at = "send" /\ c.about = {s} /\ c.gone = gone
      /\ c.new = new /\ c.todo = todo /\ ~c.disturbed
  BY DEF NoCall
<1>9. task' = [task EXCEPT ![t] = c]
  BY <1>3
<1>10. \A x \in gone \cup new : x[1] \in {s}
  BY DEF Of
<1> HIDE DEF c
<1>11. Started(t, c)
  BY <1>7, <1>8, <1>10 DEF Started
<1> QED
  BY <1>9, <1>11

LEMMA RaisesType ==
  ASSUME TypeInv, NEW t \in Tasks, Raises(t)
  PROVE  task' \in [Tasks -> Call] /\ Busy' /\ doubtful' \subseteq Subjects
<1>1. task' \in [Tasks -> Call] /\ Busy'
  BY NoCallType, CallChanged DEF Raises
<1>2. task[t].about \subseteq Subjects
  BY DEF TypeInv, TypeOK, Call
<1> QED
  BY <1>1, <1>2 DEF Raises, TypeInv, TypeOK

LEMMA TypeInvStep == TypeInv /\ [Next]_vars => TypeInv'
<1> SUFFICES ASSUME TypeInv, [Next]_vars PROVE TypeInv'
  OBVIOUS
<1> USE DEF TypeInv, TypeOK
<1>1. ASSUME NEW t \in Tasks, StartUpdate(t) PROVE TypeInv'
  <2>1. PICK c : Started(t, c) /\ task' = [task EXCEPT ![t] = c]
    BY <1>1, UpdateStarted
  <2> QED
    BY <1>1, <2>1, CallChanged DEF StartUpdate, Started
<1>2. ASSUME NEW t \in Tasks, StartRead(t) PROVE TypeInv'
  <2>1. PICK about \in {{s} : s \in {r \in Subjects : PullNeeded(r)}} \cup {Subjects} :
          task' = [task EXCEPT ![t] = [NoCall EXCEPT !.op = "read", !.about = about]]
    BY <1>2 DEF StartRead
  <2>2. [NoCall EXCEPT !.op = "read", !.about = about] \in Call
    BY NoCallType DEF Call, NoCall
  <2>3. [NoCall EXCEPT !.op = "read", !.about = about].op # "update"
    BY DEF NoCall
  <2> QED
    BY <1>2, <2>1, <2>2, <2>3, CallChanged DEF StartRead
<1>3. ASSUME NEW t \in Tasks, Send(t) PROVE TypeInv'
  <2>1. CASE Raises(t)
    BY <1>3, <2>1, RaisesType DEF Send
  <2>2. CASE task' = [task EXCEPT ![t].at = "sent"] /\ UNCHANGED doubtful
    <3> DEFINE c == [task[t] EXCEPT !.at = "sent"]
    <3>1. c \in Call
      BY CallUpdated
    <3>2. c.op = task[t].op /\ c.todo = task[t].todo
      BY DEF Call
    <3>3. task' = [task EXCEPT ![t] = c]
      BY <2>2
    <3> HIDE DEF c
    <3> QED
      BY <1>3, <2>2, <3>1, <3>2, <3>3, CallChanged DEF Send, Busy
  <2> QED
    BY <1>3, <2>1, <2>2 DEF Send
<1>4. ASSUME NEW t \in Tasks, Serve(t) PROVE TypeInv'
  <2>1. task' \in [Tasks -> Call] /\ Busy'
    <3> DEFINE c == [task[t] EXCEPT !.at = "served"]
               d == [c EXCEPT !.answer = Of(remote, task[t].about)]
    <3>1. c \in Call /\ d \in Call
      BY CallUpdated DEF Of
    <3>2. c.op = task[t].op /\ d.op = task[t].op /\ c.todo = task[t].todo
      BY DEF Call
    <3>3. \/ task' = [task EXCEPT ![t] = c]
          \/ task' = [task EXCEPT ![t] = d] /\ task[t].op # "update"
      BY <1>4 DEF Serve
    <3> HIDE DEF c, d
    <3> QED
      BY <3>1, <3>2, <3>3, CallChanged DEF Busy
  <2>2. CASE task[t].op = "update"
    <3>1. Head(task[t].todo) \in Update
      BY <2>2, HeadTailProperties DEF Busy, Call
    <3> QED
      BY <1>4, <2>1, <2>2, <3>1 DEF Serve, Applied, Update
  <2>3. CASE task[t].op # "update"
    BY <1>4, <2>1, <2>3 DEF Serve
  <2> QED
    BY <2>2, <2>3
<1>5. ASSUME NEW t \in Tasks, Lost(t) PROVE TypeInv'
  <2>1. late' \subseteq Update
    <3>1. task[t].op = "update" => Head(task[t].todo) \in Update
      BY HeadTailProperties DEF Busy, Call
    <3> QED
      BY <1>5, <3>1 DEF Lost
  <2>2. CASE Raises(t)
    BY <1>5, <2>1, <2>2, RaisesType DEF Lost
  <2>3. CASE /\ Retries(t) /\ UNCHANGED doubtful
             /\ task' = [task EXCEPT ![t].attempt = @ + 1, ![t].at = "send"]
    <3> DEFINE c == [task[t] EXCEPT !.attempt = @ + 1]
               d == [c EXCEPT !.at = "send"]
    <3>1. task[t].attempt + 1 \in 0 .. MaxRetries
      BY <2>3, StoreAssumption DEF Retries, Call
    <3>2. c \in Call /\ d \in Call
      BY <3>1, CallUpdated
    <3>3. d.op = task[t].op /\ d.todo = task[t].todo
      BY DEF Call
    <3>4. task' = [task EXCEPT ![t] = d]
      BY <2>3
    <3> HIDE DEF c, d
    <3> QED
      BY <1>5, <2>1, <2>3, <3>2, <3>3, <3>4, CallChanged DEF Lost, Busy
  <2> QED
    BY <1>5, <2>2, <2>3 DEF Lost
<1>6. ASSUME NEW t \in Tasks, Refused(t) PROVE TypeInv'
  BY <1>6, RaisesType DEF Refused
<1>7. ASSUME NEW t \in Tasks, Answered(t) PROVE TypeInv'
  <2> DEFINE c == task[t]
  <2>1. c \in Call
    OBVIOUS
  <2>2. CASE c.op = "update" /\ Tail(c.todo) # <<>>
    <3>1. Tail(c.todo) \in Seq(Update)
      BY <2>1, <2>2, HeadTailProperties DEF Busy, Call
    <3>2. [c EXCEPT !.todo = Tail(c.todo), !.at = "send", !.attempt = 0] \in Call
      <4> DEFINE e == [c EXCEPT !.todo = Tail(c.todo), !.at = "send"]
      <4>1. e \in Call
        BY <2>1, <3>1, CallUpdated
      <4>2. 0 \in 0 .. MaxRetries
        BY StoreAssumption
      <4>3. [e EXCEPT !.attempt = 0] \in Call
        <5> HIDE DEF e
        <5> QED
          BY <4>1, <4>2, CallUpdated
      <4> QED
        BY <4>3
    <3>3. task' = [task EXCEPT ![t] =
                     [c EXCEPT !.todo = Tail(c.todo), !.at = "send", !.attempt = 0]]
      BY <1>7, <2>2 DEF Answered
    <3> DEFINE d == [c EXCEPT !.todo = Tail(c.todo), !.at = "send", !.attempt = 0]
    <3>4. d.todo = Tail(c.todo)
      BY <2>1 DEF Call
    <3> HIDE DEF d
    <3>5. task' \in [Tasks -> Call] /\ Busy'
      BY <2>2, <3>2, <3>3, <3>4, CallChanged DEF d
    <3> QED
      BY <1>7, <2>2, <3>5 DEF Answered
  <2>3. CASE c.op = "update" /\ Tail(c.todo) = <<>>
    <3>1. task' \in [Tasks -> Call] /\ Busy'
      BY <1>7, <2>3, NoCallType, CallChanged DEF Answered
    <3>2. mirror' \subseteq Triples
      BY <1>7, <2>1, <2>3 DEF Answered, Call
    <3> QED
      BY <1>7, <2>3, <3>1, <3>2 DEF Answered
  <2>4. CASE c.op = "read"
    <3>1. task' \in [Tasks -> Call] /\ Busy'
      BY <1>7, <2>4, NoCallType, CallChanged DEF Answered
    <3>2. mirror' \subseteq Triples
      BY <1>7, <2>1, <2>4 DEF Answered, Call, Pulled
    <3> QED
      BY <1>7, <2>4, <3>1, <3>2 DEF Answered
  <2> QED
    BY <1>7, <2>2, <2>3, <2>4 DEF Answered
<1>8. CASE LateUpdate
  <2>1. PICK u \in late :
          /\ remote' = Applied(remote, u) /\ late' = late \ {u}
          /\ doubtful' = doubtful \cup {x[1] : x \in u.triples}
          /\ task' = [t \in Tasks |-> [task[t] EXCEPT
                !.disturbed = @ \/ task[t].about \cap {x[1] : x \in u.triples} # {}]]
    BY <1>8 DEF LateUpdate
  <2>2. u.triples \subseteq Triples
    BY DEF Update
  <2>3. remote' \subseteq Triples /\ doubtful' \subseteq Subjects
    BY <2>1, <2>2 DEF Applied, Triples
  <2>4. task' \in [Tasks -> Call]
    BY <2>1, CallUpdated
  <2>5. Busy'
    BY <2>1 DEF Busy, Call
  <2> QED
    BY <1>8, <2>1, <2>3, <2>4, <2>5 DEF LateUpdate
<1>9. CASE Close
  BY <1>9 DEF Close, Busy
<1>10. CASE Restart
  BY <1>10, NoCallType DEF Restart, Busy
<1>11. CASE UNCHANGED vars
  BY <1>11 DEF vars, Busy
<1> QED
  BY <1>1, <1>2, <1>3, <1>4, <1>5, <1>6, <1>7, <1>8, <1>9, <1>10, <1>11 DEF Next, TaskStep

\* However many tasks there are and however long an update is, no request is made
\* more often than max_retries allows (http_common.request_with_retry).
THEOREM TypeCorrect == Spec => []TypeOK
<1>1. Init => TypeInv
  BY NoCallType DEF Init, TypeInv, TypeOK, Busy
<1>2. TypeInv => TypeOK
  BY DEF TypeInv
<1> QED
  BY <1>1, <1>2, TypeInvStep, PTL DEF Spec

-----------------------------------------------------------------------------
(* Updates                                                                 *)

\* The chunks that the endpoint has still to serve, in spite of what it has already
\* applied for an attempt that was lost.
Unserved(c) == {k \in 1 .. Len(c.todo) : k > 1 \/ c.at # "served"}

Outstanding(c, kind, x) ==
  \E k \in Unserved(c) : c.todo[k].kind = kind /\ x \in c.todo[k].triples

\* How far call c has come on dataset g: a triple to add is there, or in a chunk to
\* come; no deletion follows an insertion that was made; a triple to remove is not
\* there, or in a chunk to come.
UpdateInv(c, g) ==
  /\ \A x \in c.gone \cup c.new : x[1] \in c.about
  /\ InOrder(c.todo, c.gone, c.new)
  /\ \A x \in c.new :
       \/ Outstanding(c, "insert", x)
       \/ c.todo[1].kind = "insert" /\ (c.disturbed \/ x \in g)
  /\ \A x \in c.gone \ c.new : Outstanding(c, "delete", x) \/ c.disturbed \/ x \notin g

Updating(c) == c \in Call /\ c.op = "update" /\ c.todo # <<>>

SamePlan(c, d) == d.about = c.about /\ d.gone = c.gone /\ d.new = c.new

LEMMA FirstChunk ==
  ASSUME NEW c, Updating(c)
  PROVE  /\ 1 \in 1 .. Len(c.todo) /\ Head(c.todo) = c.todo[1]
         /\ c.todo[1] \in Update /\ Len(c.todo) \in Nat
  BY EmptySeq, ElementOfSeq DEF Updating, Call

LEMMA ServedInv ==
  ASSUME NEW c, NEW d, NEW g, Updating(c), UpdateInv(c, g), c.at # "served",
         SamePlan(c, d), d.todo = c.todo, d.at = "served", d.disturbed = c.disturbed
  PROVE  UpdateInv(d, Applied(g, Head(c.todo)))
<1> DEFINE u == c.todo[1]
           h == Applied(g, u)
<1>1. /\ u \in Update /\ Head(c.todo) = u /\ 1 \in 1 .. Len(c.todo)
      /\ Len(c.todo) \in Nat
  BY FirstChunk
<1>2. \A k \in Unserved(c) : k = 1 \/ k \in Unserved(d)
  BY <1>1 DEF Unserved
<1>3. u.triples \subseteq (IF u.kind = "delete" THEN c.gone ELSE c.new)
  BY <1>1 DEF UpdateInv, InOrder
<1>4. u.kind \in {"delete", "insert"}
  BY <1>1 DEF Update
<1> HIDE DEF u
<1>5. ASSUME NEW x \in d.new
      PROVE  \/ Outstanding(d, "insert", x)
             \/ d.todo[1].kind = "insert" /\ (d.disturbed \/ x \in h)
  <2>1. CASE Outstanding(c, "insert", x)
    <3>1. PICK k \in Unserved(c) : c.todo[k].kind = "insert" /\ x \in c.todo[k].triples
      BY <2>1 DEF Outstanding
    <3>2. CASE k = 1
      BY <3>1, <3>2 DEF Applied, u
    <3>3. CASE k \in Unserved(d)
      BY <3>1, <3>3 DEF Outstanding
    <3> QED
      BY <1>2, <3>2, <3>3
  <2>2. CASE u.kind = "insert" /\ (c.disturbed \/ x \in g)
    BY <2>2 DEF Applied, u
  <2> QED
    BY <1>5, <2>1, <2>2 DEF UpdateInv, SamePlan, u
<1>6. ASSUME NEW x \in d.gone \ d.new
      PROVE  Outstanding(d, "delete", x) \/ d.disturbed \/ x \notin h
  <2>1. CASE Outstanding(c, "delete", x)
    <3>1. PICK k \in Unserved(c) : c.todo[k].kind = "delete" /\ x \in c.todo[k].triples
      BY <2>1 DEF Outstanding
    <3>2. CASE k = 1
      BY <3>1, <3>2 DEF Applied, u
    <3>3. CASE k \in Unserved(d)
      BY <3>1, <3>3 DEF Outstanding
    <3> QED
      BY <1>2, <3>2, <3>3
  <2>2. CASE x \notin g
    BY <1>3, <1>4, <1>6, <2>2 DEF Applied, SamePlan
  <2> QED
    BY <1>6, <2>1, <2>2 DEF UpdateInv, SamePlan
<1>7. UpdateInv(d, h)
  BY <1>5, <1>6 DEF UpdateInv, SamePlan
<1> QED
  BY <1>1, <1>7

\* An attempt that is repeated, and changes to the dataset that do not concern the
\* call or disturb it.
LEMMA ResentInv ==
  ASSUME NEW c, NEW d, NEW g, NEW h, Updating(c), UpdateInv(c, g), SamePlan(c, d),
         d.todo = c.todo, d.at # "served" \/ d.at = c.at,
         c.disturbed => d.disturbed,
         \A x \in c.gone \cup c.new : d.disturbed \/ (x \in g <=> x \in h)
  PROVE  UpdateInv(d, h)
<1>1. Unserved(c) \subseteq Unserved(d)
  BY DEF Unserved
<1>2. \A kind, x : Outstanding(c, kind, x) => Outstanding(d, kind, x)
  BY <1>1 DEF Outstanding
<1> QED
  BY <1>2 DEF UpdateInv, SamePlan

LEMMA NextChunkInv ==
  ASSUME NEW c, NEW d, NEW g, Updating(c), UpdateInv(c, g), c.at = "served",
         Tail(c.todo) # <<>>, SamePlan(c, d), d.todo = Tail(c.todo), d.at # "served",
         d.disturbed = c.disturbed
  PROVE  UpdateInv(d, g)
<1>1. /\ c.todo \in Seq(Update) /\ d.todo \in Seq(Update)
      /\ Len(d.todo) = Len(c.todo) - 1
      /\ \A k \in 1 .. Len(d.todo) : d.todo[k] = c.todo[k + 1]
  BY HeadTailProperties DEF Updating, Call
<1>2. Len(c.todo) \in Nat /\ Len(d.todo) \in Nat \ {0}
  BY <1>1, EmptySeq, LenProperties
<1>3. \A k \in Unserved(c) : k - 1 \in Unserved(d) /\ d.todo[k - 1] = c.todo[k]
  BY <1>1, <1>2 DEF Unserved
<1>4. \A kind, x : Outstanding(c, kind, x) => Outstanding(d, kind, x)
  BY <1>3 DEF Outstanding
<1>5. c.todo[1].kind = "insert" => d.todo[1].kind = "insert"
  <2>1. /\ 1 \in 1 .. Len(c.todo) /\ 2 \in 1 .. Len(c.todo) /\ d.todo[1] = c.todo[2]
    BY <1>1, <1>2
  <2>2. c.todo[2] \in Update
    BY <1>1, <2>1, ElementOfSeq
  <2>3. c.todo[2].kind = "delete" => c.todo[1].kind = "delete"
    BY <2>1 DEF UpdateInv, InOrder
  <2> QED
    BY <2>1, <2>2, <2>3 DEF Update
<1>6. InOrder(d.todo, d.gone, d.new)
  <2>1. \A k \in 1 .. Len(d.todo) : k + 1 \in 1 .. Len(c.todo) /\ d.todo[k] = c.todo[k + 1]
    BY <1>1, <1>2
  <2>2. \A j, k \in 1 .. Len(d.todo) : j < k => j + 1 < k + 1
    BY <1>2
  <2> QED
    BY <2>1, <2>2 DEF UpdateInv, InOrder, SamePlan
<1> QED
  BY <1>4, <1>5, <1>6 DEF UpdateInv, SamePlan

LEMMA StartedInv ==
  ASSUME NEW c \in Call, NEW g, c.todo \in UpdateChunks(c.gone, c.new), c.at = "send",
         \A x \in c.gone \cup c.new : x[1] \in c.about
  PROVE  UpdateInv(c, g)
<1>1. c.gone \in SUBSET Triples /\ c.new \in SUBSET Triples
  BY DEF Call
<1>2. Unserved(c) = 1 .. Len(c.todo)
  BY DEF Unserved
<1>3. /\ InOrder(c.todo, c.gone, c.new)
      /\ \A x \in c.gone : \E k \in 1 .. Len(c.todo) :
           c.todo[k].kind = "delete" /\ x \in c.todo[k].triples
      /\ \A x \in c.new : \E k \in 1 .. Len(c.todo) :
           c.todo[k].kind = "insert" /\ x \in c.todo[k].triples
  <2> DEFINE gone == c.gone
             new == c.new
             todo == c.todo
  <2>1. gone \in SUBSET Triples /\ new \in SUBSET Triples /\ todo \in UpdateChunks(gone, new)
    BY <1>1
  <2> HIDE DEF gone, new, todo
  <2>2. /\ InOrder(todo, gone, new)
        /\ \A x \in gone : \E k \in 1 .. Len(todo) :
             todo[k].kind = "delete" /\ x \in todo[k].triples
        /\ \A x \in new : \E k \in 1 .. Len(todo) :
             todo[k].kind = "insert" /\ x \in todo[k].triples
    BY <2>1, UpdateChunksCover
  <2> QED
    BY <2>2 DEF gone, new, todo
<1> QED
  BY <1>2, <1>3 DEF UpdateInv, Outstanding

LEMMA FinishedInv ==
  ASSUME NEW c, NEW g, Updating(c), UpdateInv(c, g), c.at = "served", Tail(c.todo) = <<>>
  PROVE  \/ c.disturbed
         \/ c.new \subseteq g /\ (c.gone \ c.new) \cap g = {}
<1>1. Len(c.todo) = 1
  <2>1. c.todo \in Seq(Update) /\ c.todo # <<>>
    BY DEF Updating, Call
  <2>2. Len(Tail(c.todo)) = Len(c.todo) - 1 /\ Len(c.todo) \in Nat
    BY <2>1, HeadTailProperties, LenProperties
  <2>3. Len(Tail(c.todo)) = 0
    BY EmptySeq
  <2> QED
    BY <2>2, <2>3
<1>2. Unserved(c) = {}
  BY <1>1 DEF Unserved
<1> QED
  BY <1>2 DEF UpdateInv, Outstanding

\* No two tasks write the same subject.
OwnSubjects == \A t, u \in Tasks : t # u => Writes[t] \cap Writes[u] = {}

EffectInv ==
  /\ TypeInv
  /\ \A t \in Tasks : task[t].op = "update" =>
       UpdateInv(task[t], remote) /\ task[t].about \subseteq Writes[t]

\* A step of task t that changes nothing at the endpoint that others rely on.
LEMMA EffectChanged ==
  ASSUME EffectInv, TypeInv', NEW t \in Tasks, NEW c, task' = [task EXCEPT ![t] = c],
         c.op = "update" => UpdateInv(c, remote') /\ c.about \subseteq Writes[t],
         \A u \in Tasks \ {t} : task[u].op = "update" =>
           \A x \in task[u].gone \cup task[u].new : x \in remote <=> x \in remote'
  PROVE  EffectInv'
<1> SUFFICES ASSUME NEW u \in Tasks, task'[u].op = "update"
             PROVE  UpdateInv(task'[u], remote') /\ task'[u].about \subseteq Writes[u]
  BY DEF EffectInv
<1>1. CASE u = t
  <2>1. task'[u] = c
    BY <1>1 DEF EffectInv, TypeInv, TypeOK
  <2> QED
    BY <1>1, <2>1
<1>2. CASE u # t
  <2>1. task'[u] = task[u]
    BY <1>2 DEF EffectInv, TypeInv, TypeOK
  <2>2. Updating(task[u]) /\ UpdateInv(task[u], remote) /\ task[u].about \subseteq Writes[u]
    BY <2>1 DEF EffectInv, TypeInv, TypeOK, Busy, Updating
  <2>3. UpdateInv(task[u], remote')
    BY <1>2, <2>1, <2>2, ResentInv DEF SamePlan
  <2> QED
    BY <2>1, <2>2, <2>3
<1> QED
  BY <1>1, <1>2

\* The updates of a task concern its own subjects.
LEMMA OwnChunk ==
  ASSUME EffectInv, OwnSubjects, NEW t \in Tasks, task[t].op = "update",
         NEW u \in Tasks \ {t}, task[u].op = "update",
         NEW x \in task[u].gone \cup task[u].new
  PROVE  x \in remote <=> x \in Applied(remote, Head(task[t].todo))
<1>1. Updating(task[t]) /\ UpdateInv(task[t], remote) /\ task[t].about \subseteq Writes[t]
  BY DEF EffectInv, TypeInv, TypeOK, Busy, Updating
<1>2. Head(task[t].todo).triples \subseteq task[t].gone \cup task[t].new
  BY <1>1, FirstChunk DEF UpdateInv, InOrder
<1>3. \A y \in Head(task[t].todo).triples : y[1] \in Writes[t]
  BY <1>1, <1>2 DEF UpdateInv
<1>4. x[1] \in Writes[u]
  BY DEF EffectInv, UpdateInv
<1>5. x[1] \notin Writes[t]
  BY <1>4 DEF OwnSubjects
<1>6. x \notin Head(task[t].todo).triples
  BY <1>3, <1>5
<1> QED
  BY <1>6 DEF Applied

LEMMA RaisesEffect ==
  ASSUME EffectInv, TypeInv', NEW t \in Tasks, Raises(t), remote' = remote
  PROVE  EffectInv'
  BY NoCallType, EffectChanged DEF Raises

LEMMA EffectInvStep ==
  ASSUME OwnSubjects, EffectInv, [Next]_vars
  PROVE  EffectInv'
<1>1. TypeInv /\ TypeInv'
  BY TypeInvStep DEF EffectInv
<1>2. \A t \in Tasks : task[t] \in Call
  BY <1>1 DEF TypeInv, TypeOK
<1>3. \A t \in Tasks : task[t].op = "update" =>
        Updating(task[t]) /\ UpdateInv(task[t], remote) /\ task[t].about \subseteq Writes[t]
  BY <1>1, <1>2 DEF EffectInv, TypeInv, Busy, Updating
<1>4. ASSUME NEW t \in Tasks, StartUpdate(t) PROVE EffectInv'
  <2>1. PICK c : Started(t, c) /\ task' = [task EXCEPT ![t] = c]
    BY <1>1, <1>4, UpdateStarted
  <2>2. UpdateInv(c, remote) /\ c.about \subseteq Writes[t]
    BY <2>1, StartedInv DEF Started
  <2> QED
    BY <1>1, <1>4, <2>1, <2>2, EffectChanged DEF StartUpdate
<1>5. ASSUME NEW t \in Tasks, StartRead(t) PROVE EffectInv'
  <2>1. PICK about \in {{s} : s \in {r \in Subjects : PullNeeded(r)}} \cup {Subjects} :
          task' = [task EXCEPT ![t] = [NoCall EXCEPT !.op = "read", !.about = about]]
    BY <1>5 DEF StartRead
  <2>2. [NoCall EXCEPT !.op = "read", !.about = about].op # "update"
    BY DEF NoCall
  <2> QED
    BY <1>1, <1>5, <2>1, <2>2, EffectChanged DEF StartRead
<1>6. ASSUME NEW t \in Tasks, Send(t) PROVE EffectInv'
  <2>1. CASE Raises(t)
    BY <1>1, <1>6, <2>1, RaisesEffect DEF Send
  <2>2. CASE task' = [task EXCEPT ![t].at = "sent"]
    <3> DEFINE c == [task[t] EXCEPT !.at = "sent"]
    <3>1. /\ c.op = task[t].op /\ SamePlan(task[t], c) /\ c.todo = task[t].todo
          /\ c.at = "sent" /\ c.disturbed = task[t].disturbed
      BY <1>2 DEF Call, SamePlan
    <3>2. task' = [task EXCEPT ![t] = c]
      BY <2>2
    <3> HIDE DEF c
    <3>3. c.op = "update" => UpdateInv(c, remote) /\ c.about \subseteq Writes[t]
      BY <1>3, <3>1, ResentInv DEF SamePlan
    <3> QED
      BY <1>1, <1>6, <3>2, <3>3, EffectChanged DEF Send
  <2> QED
    BY <1>6, <2>1, <2>2 DEF Send
<1>7. ASSUME NEW t \in Tasks, Serve(t) PROVE EffectInv'
  <2>1. CASE task[t].op = "update"
    <3> DEFINE c == [task[t] EXCEPT !.at = "served"]
    <3>1. /\ c.op = task[t].op /\ SamePlan(task[t], c) /\ c.todo = task[t].todo
          /\ c.at = "served" /\ c.disturbed = task[t].disturbed
      BY <1>2 DEF Call, SamePlan
    <3>2. /\ task' = [task EXCEPT ![t] = c] /\ task[t].at = "sent"
          /\ remote' = Applied(remote, Head(task[t].todo))
      BY <1>7, <2>1 DEF Serve
    <3> HIDE DEF c
    <3>3. UpdateInv(c, remote') /\ c.about \subseteq Writes[t]
      BY <1>3, <2>1, <3>1, <3>2, ServedInv DEF SamePlan
    <3>4. \A u \in Tasks \ {t} : task[u].op = "update" =>
            \A x \in task[u].gone \cup task[u].new : x \in remote <=> x \in remote'
      BY <2>1, <3>2, OwnChunk
    <3> QED
      BY <1>1, <3>2, <3>3, <3>4, EffectChanged
  <2>2. CASE task[t].op # "update"
    <3> DEFINE c == [task[t] EXCEPT !.at = "served", !.answer = Of(remote, task[t].about)]
    <3>1. c.op # "update"
      BY <1>2, <2>2 DEF Call
    <3>2. task' = [task EXCEPT ![t] = c] /\ remote' = remote
      BY <1>7, <2>2 DEF Serve
    <3> HIDE DEF c
    <3> QED
      BY <1>1, <3>1, <3>2, EffectChanged
  <2> QED
    BY <2>1, <2>2
<1>8. ASSUME NEW t \in Tasks, Lost(t) PROVE EffectInv'
  <2>1. CASE Raises(t)
    BY <1>1, <1>8, <2>1, RaisesEffect DEF Lost
  <2>2. CASE task' = [task EXCEPT ![t].attempt = @ + 1, ![t].at = "send"]
    <3> DEFINE c == [task[t] EXCEPT !.attempt = @ + 1, !.at = "send"]
    <3>1. /\ c.op = task[t].op /\ SamePlan(task[t], c) /\ c.todo = task[t].todo
          /\ c.at = "send" /\ c.disturbed = task[t].disturbed
      BY <1>2 DEF Call, SamePlan
    <3>2. task' = [task EXCEPT ![t] = c]
      BY <2>2
    <3> HIDE DEF c
    <3>3. c.op = "update" => UpdateInv(c, remote) /\ c.about \subseteq Writes[t]
      BY <1>3, <3>1, ResentInv DEF SamePlan
    <3> QED
      BY <1>1, <1>8, <3>2, <3>3, EffectChanged DEF Lost
  <2> QED
    BY <1>8, <2>1, <2>2 DEF Lost
<1>9. ASSUME NEW t \in Tasks, Refused(t) PROVE EffectInv'
  BY <1>1, <1>9, RaisesEffect DEF Refused
<1>10. ASSUME NEW t \in Tasks, Answered(t) PROVE EffectInv'
  <2>1. CASE task' = [task EXCEPT ![t] = NoCall]
    BY <1>1, <1>10, <2>1, NoCallType, EffectChanged DEF Answered
  <2>2. CASE /\ task[t].op = "update" /\ Tail(task[t].todo) # <<>>
             /\ task' = [task EXCEPT ![t].todo = Tail(task[t].todo), ![t].at = "send",
                                     ![t].attempt = 0]
    <3> DEFINE c == [task[t] EXCEPT !.todo = Tail(task[t].todo), !.at = "send", !.attempt = 0]
    <3>1. /\ SamePlan(task[t], c) /\ c.todo = Tail(task[t].todo)
          /\ c.at = "send" /\ c.disturbed = task[t].disturbed
      BY <1>2 DEF Call, SamePlan
    <3>2. task' = [task EXCEPT ![t] = c] /\ task[t].at = "served" /\ remote' = remote
      BY <1>10, <2>2 DEF Answered
    <3> HIDE DEF c
    <3>3. UpdateInv(c, remote) /\ c.about \subseteq Writes[t]
      BY <1>3, <2>2, <3>1, <3>2, NextChunkInv DEF SamePlan
    <3> QED
      BY <1>1, <3>2, <3>3, EffectChanged
  <2> QED
    BY <1>10, <2>1, <2>2 DEF Answered
<1>11. CASE LateUpdate
  <2>1. PICK u \in late :
          /\ remote' = Applied(remote, u)
          /\ task' = [t \in Tasks |-> [task[t] EXCEPT
                !.disturbed = @ \/ task[t].about \cap {x[1] : x \in u.triples} # {}]]
    BY <1>11 DEF LateUpdate
  <2> SUFFICES ASSUME NEW t \in Tasks, task'[t].op = "update"
               PROVE  UpdateInv(task'[t], remote') /\ task'[t].about \subseteq Writes[t]
    BY <1>1 DEF EffectInv
  <2> DEFINE c == task'[t]
  <2>2. /\ c.op = task[t].op /\ SamePlan(task[t], c) /\ c.todo = task[t].todo
        /\ c.at = task[t].at /\ (task[t].disturbed => c.disturbed)
        /\ task[t].about \cap {x[1] : x \in u.triples} # {} => c.disturbed
    BY <1>2, <2>1 DEF Call, SamePlan
  <2>3. Updating(task[t]) /\ UpdateInv(task[t], remote) /\ task[t].about \subseteq Writes[t]
    BY <1>3, <2>2
  <2>4. ASSUME NEW x \in task[t].gone \cup task[t].new
        PROVE  c.disturbed \/ (x \in remote <=> x \in remote')
    <3>1. x[1] \in task[t].about
      BY <2>3 DEF UpdateInv
    <3>2. CASE x \in u.triples
      BY <2>2, <3>1, <3>2
    <3>3. CASE x \notin u.triples
      BY <2>1, <3>3 DEF Applied
    <3> QED
      BY <3>2, <3>3
  <2> HIDE DEF c
  <2>5. UpdateInv(c, remote')
    BY <2>2, <2>3, <2>4, ResentInv
  <2> QED
    BY <2>2, <2>3, <2>5 DEF c, SamePlan
<1>12. CASE Close
  BY <1>1, <1>12 DEF Close, EffectInv
<1>13. CASE Restart
  BY <1>1, <1>13, NoCallType DEF Restart, EffectInv
<1>14. CASE UNCHANGED vars
  BY <1>1, <1>14 DEF vars, EffectInv
<1> QED
  BY <1>4, <1>5, <1>6, <1>7, <1>8, <1>9, <1>10, <1>11, <1>12, <1>13, <1>14
     DEF Next, TaskStep

LEMMA InitEffect == Init => EffectInv
<1>1. Init => TypeInv
  BY NoCallType DEF Init, TypeInv, TypeOK, Busy
<1> QED
  BY <1>1, NoCallType DEF Init, EffectInv

\* Whatever the size of an update and of its chunks, the number of attempts and
\* what becomes of them, an update that returns is in effect at the endpoint, if no
\* other task writes the subject (http_common.build_update_chunks, update_graph).
THEOREM UpdatesTakeEffect ==
  ASSUME OwnSubjects
  PROVE  Spec => UpdateInEffect
<1>1. ASSUME EffectInv, NEW t \in Tasks, task[t].op = "update", Answered(t),
             Tail(task[t].todo) = <<>>, ~task[t].disturbed
      PROVE  /\ task[t].new \subseteq remote
             /\ (task[t].gone \ task[t].new) \cap remote = {}
  <2>1. Updating(task[t]) /\ UpdateInv(task[t], remote)
    BY <1>1 DEF EffectInv, TypeInv, TypeOK, Busy, Updating
  <2>2. task[t].at = "served"
    BY <1>1 DEF Answered
  <2> QED
    BY <1>1, <2>1, <2>2, FinishedInv
<1>2. EffectInv /\ [Next]_vars => EffectInv'
  BY EffectInvStep
<1>3. EffectInv =>
        \A t \in Tasks :
          /\ task[t].op = "update" /\ Answered(t) /\ Tail(task[t].todo) = <<>>
          /\ ~task[t].disturbed
          => /\ task[t].new \subseteq remote
             /\ (task[t].gone \ task[t].new) \cap remote = {}
  BY <1>1
<1> QED
  BY <1>2, <1>3, InitEffect, PTL DEF Spec, UpdateInEffect

-----------------------------------------------------------------------------
(* The mirror                                                              *)

OneTask == \A t, u \in Tasks : t = u

\* What may be different at the endpoint: what an update in progress writes.
InHand(x) == \E t \in Tasks : task[t].op = "update" /\ x \in task[t].gone \cup task[t].new

\* A call that a late update disturbs is about subjects in doubt, and an answer on
\* its way says what the endpoint says of each triple that is not.
CallFits(c, g, doubt) ==
  /\ c.op = "update" => (\E s : c.about = {s}) /\ (c.disturbed => c.about \subseteq doubt)
  /\ c.op = "read" /\ c.at = "served" =>
       /\ \A x \in c.answer : x[1] \in c.about
       /\ \A x \in Triples : x[1] \in c.about =>
            (c.disturbed /\ x[1] \in doubt) \/ (x \in c.answer <=> x \in g)

\* The mirror says what the endpoint says of each triple that is neither in doubt
\* nor in hand.
MirrorInv ==
  /\ EffectInv
  /\ \A x \in Triples : x[1] \in doubtful \/ InHand(x) \/ (x \in mirror <=> x \in remote)
  /\ \A t \in Tasks : CallFits(task[t], remote, doubtful)

LEMMA NoCallFits == \A g, doubt : CallFits(NoCall, g, doubt)
  BY DEF CallFits, NoCall

LEMMA MirrorChanged ==
  ASSUME OneTask, MirrorInv, EffectInv', NEW t \in Tasks, NEW c,
         task' = [task EXCEPT ![t] = c], CallFits(c, remote', doubtful'),
         \A x \in Triples :
           \/ x[1] \in doubtful'
           \/ c.op = "update" /\ x \in c.gone \cup c.new
           \/ x \in mirror' <=> x \in remote'
  PROVE  MirrorInv'
<1>1. task'[t] = c
  BY DEF MirrorInv, EffectInv, TypeInv, TypeOK
<1>2. \A u \in Tasks : u = t
  BY DEF OneTask
<1> QED
  BY <1>1, <1>2 DEF MirrorInv, InHand

\* A call that raises leaves what it had in hand in doubt.
LEMMA RaisesMirror ==
  ASSUME OneTask, MirrorInv, EffectInv', NEW t \in Tasks, Raises(t),
         remote' = remote, mirror' = mirror
  PROVE  MirrorInv'
<1>1. ASSUME NEW x \in Triples
      PROVE  x[1] \in doubtful' \/ (x \in mirror' <=> x \in remote')
  <2>1. CASE InHand(x)
    <3>1. task[t].op = "update" /\ x \in task[t].gone \cup task[t].new
      BY <2>1 DEF InHand, OneTask
    <3>2. x[1] \in task[t].about
      BY <3>1 DEF MirrorInv, EffectInv, UpdateInv
    <3> QED
      BY <3>1, <3>2 DEF Raises
  <2> QED
    BY <2>1 DEF MirrorInv, Raises
<1> QED
  BY <1>1, NoCallFits, MirrorChanged DEF Raises

\* An attempt is sent or repeated.
LEMMA ResentMirror ==
  ASSUME OneTask, MirrorInv, EffectInv', NEW t \in Tasks, NEW c, SamePlan(task[t], c),
         c.op = task[t].op, c.disturbed = task[t].disturbed, c.at # "served",
         task' = [task EXCEPT ![t] = c],
         remote' = remote, mirror' = mirror, doubtful' = doubtful
  PROVE  MirrorInv'
<1>1. CallFits(c, remote', doubtful')
  BY DEF MirrorInv, CallFits, SamePlan
<1>2. \A x \in Triples :
        \/ x[1] \in doubtful'
        \/ c.op = "update" /\ x \in c.gone \cup c.new
        \/ x \in mirror' <=> x \in remote'
  BY DEF MirrorInv, InHand, OneTask, SamePlan
<1> QED
  BY <1>1, <1>2, MirrorChanged

LEMMA MirrorInvStep ==
  ASSUME OneTask, MirrorInv, [Next]_vars
  PROVE  MirrorInv'
<1>1. EffectInv /\ EffectInv' /\ TypeInv /\ OwnSubjects
  <2>1. OwnSubjects
    BY DEF OneTask, OwnSubjects
  <2> QED
    BY <2>1, EffectInvStep DEF MirrorInv, EffectInv
<1>2. \A t \in Tasks : task[t] \in Call
  BY <1>1 DEF TypeInv, TypeOK
<1>3. \A t \in Tasks : task[t].op = "update" =>
        Updating(task[t]) /\ UpdateInv(task[t], remote)
  BY <1>1, <1>2 DEF EffectInv, TypeInv, Busy, Updating
<1>4. \A t \in Tasks, x \in Triples : task[t].op # "update" => ~InHand(x)
  BY DEF InHand, OneTask
<1>5. ASSUME NEW t \in Tasks, StartUpdate(t) PROVE MirrorInv'
  <2>1. PICK c : Started(t, c) /\ task' = [task EXCEPT ![t] = c]
    BY <1>1, <1>5, UpdateStarted
  <2>2. CallFits(c, remote', doubtful')
    BY <2>1 DEF Started, CallFits
  <2>3. /\ task[t].op # "update" /\ remote' = remote /\ mirror' = mirror
        /\ doubtful' = doubtful
    BY <1>5 DEF StartUpdate, Idle
  <2>4. \A x \in Triples : x[1] \in doubtful' \/ (x \in mirror' <=> x \in remote')
    BY <1>4, <2>3 DEF MirrorInv
  <2> QED
    BY <1>1, <2>1, <2>2, <2>4, MirrorChanged
<1>6. ASSUME NEW t \in Tasks, StartRead(t) PROVE MirrorInv'
  <2>1. PICK about \in {{s} : s \in {r \in Subjects : PullNeeded(r)}} \cup {Subjects} :
          task' = [task EXCEPT ![t] = [NoCall EXCEPT !.op = "read", !.about = about]]
    BY <1>6 DEF StartRead
  <2> DEFINE c == [NoCall EXCEPT !.op = "read", !.about = about]
  <2>2. c.op = "read" /\ c.at = "send"
    BY DEF NoCall
  <2>3. task' = [task EXCEPT ![t] = c]
    BY <2>1
  <2> HIDE DEF c
  <2>4. CallFits(c, remote', doubtful')
    BY <2>2 DEF CallFits
  <2>5. /\ task[t].op # "update" /\ remote' = remote /\ mirror' = mirror
        /\ doubtful' = doubtful
    BY <1>6 DEF StartRead, Idle
  <2>6. \A x \in Triples : x[1] \in doubtful' \/ (x \in mirror' <=> x \in remote')
    BY <1>4, <2>5 DEF MirrorInv
  <2> QED
    BY <1>1, <2>3, <2>4, <2>6, MirrorChanged
<1>7. ASSUME NEW t \in Tasks, Send(t) PROVE MirrorInv'
  <2>1. CASE Raises(t)
    BY <1>1, <1>7, <2>1, RaisesMirror DEF Send
  <2>2. CASE task' = [task EXCEPT ![t].at = "sent"] /\ UNCHANGED doubtful
    <3> DEFINE c == [task[t] EXCEPT !.at = "sent"]
    <3>1. /\ c.op = task[t].op /\ SamePlan(task[t], c) /\ c.at = "sent"
          /\ c.disturbed = task[t].disturbed
      BY <1>2 DEF Call, SamePlan
    <3>2. task' = [task EXCEPT ![t] = c]
      BY <2>2
    <3> HIDE DEF c
    <3> QED
      BY <1>1, <1>7, <2>2, <3>1, <3>2, ResentMirror DEF Send
  <2> QED
    BY <1>7, <2>1, <2>2 DEF Send
<1>8. ASSUME NEW t \in Tasks, Serve(t) PROVE MirrorInv'
  <2>1. mirror' = mirror /\ doubtful' = doubtful
    BY <1>8 DEF Serve
  <2>2. CASE task[t].op = "update"
    <3> DEFINE c == [task[t] EXCEPT !.at = "served"]
    <3>1. /\ c.op = task[t].op /\ SamePlan(task[t], c) /\ c.disturbed = task[t].disturbed
      BY <1>2 DEF Call, SamePlan
    <3>2. task' = [task EXCEPT ![t] = c] /\ remote' = Applied(remote, Head(task[t].todo))
      BY <1>8, <2>2 DEF Serve
    <3> HIDE DEF c
    <3>3. CallFits(c, remote', doubtful')
      BY <2>1, <2>2, <3>1 DEF MirrorInv, CallFits, SamePlan
    <3>4. Head(task[t].todo).triples \subseteq task[t].gone \cup task[t].new
      BY <1>3, <2>2, FirstChunk DEF UpdateInv, InOrder
    <3>5. ASSUME NEW x \in Triples, x \notin c.gone \cup c.new
          PROVE  x[1] \in doubtful' \/ (x \in mirror' <=> x \in remote')
      <4>1. ~InHand(x)
        BY <3>1, <3>5 DEF InHand, OneTask, SamePlan
      <4>2. x \in remote <=> x \in remote'
        BY <3>1, <3>2, <3>4, <3>5 DEF Applied, SamePlan
      <4> QED
        BY <2>1, <4>1, <4>2 DEF MirrorInv
    <3> QED
      BY <1>1, <2>2, <3>1, <3>2, <3>3, <3>5, MirrorChanged
  <2>3. CASE task[t].op # "update"
    <3> DEFINE c == [task[t] EXCEPT !.at = "served", !.answer = Of(remote, task[t].about)]
    <3>1. /\ c.op = task[t].op /\ c.about = task[t].about
          /\ c.answer = Of(remote, task[t].about)
      BY <1>2 DEF Call
    <3>2. task' = [task EXCEPT ![t] = c] /\ remote' = remote
      BY <1>8, <2>3 DEF Serve
    <3> HIDE DEF c
    <3>3. CallFits(c, remote', doubtful')
      BY <2>3, <3>1, <3>2 DEF CallFits, Of
    <3>4. \A x \in Triples : x[1] \in doubtful' \/ (x \in mirror' <=> x \in remote')
      BY <1>4, <2>1, <2>3, <3>2 DEF MirrorInv
    <3> QED
      BY <1>1, <3>2, <3>3, <3>4, MirrorChanged
  <2> QED
    BY <2>2, <2>3
<1>9. ASSUME NEW t \in Tasks, Lost(t) PROVE MirrorInv'
  <2>1. CASE Raises(t)
    BY <1>1, <1>9, <2>1, RaisesMirror DEF Lost
  <2>2. CASE task' = [task EXCEPT ![t].attempt = @ + 1, ![t].at = "send"] /\ UNCHANGED doubtful
    <3> DEFINE c == [task[t] EXCEPT !.attempt = @ + 1, !.at = "send"]
    <3>1. /\ c.op = task[t].op /\ SamePlan(task[t], c) /\ c.at = "send"
          /\ c.disturbed = task[t].disturbed
      BY <1>2 DEF Call, SamePlan
    <3>2. task' = [task EXCEPT ![t] = c]
      BY <2>2
    <3> HIDE DEF c
    <3> QED
      BY <1>1, <1>9, <2>2, <3>1, <3>2, ResentMirror DEF Lost
  <2> QED
    BY <1>9, <2>1, <2>2 DEF Lost
<1>10. ASSUME NEW t \in Tasks, Refused(t) PROVE MirrorInv'
  BY <1>1, <1>10, RaisesMirror DEF Refused
<1>11. ASSUME NEW t \in Tasks, Answered(t) PROVE MirrorInv'
  <2>1. CASE /\ task[t].op = "update" /\ Tail(task[t].todo) # <<>>
             /\ task' = [task EXCEPT ![t].todo = Tail(task[t].todo), ![t].at = "send",
                                     ![t].attempt = 0]
             /\ UNCHANGED <<mirror, doubtful>>
    <3> DEFINE c == [task[t] EXCEPT !.todo = Tail(task[t].todo), !.at = "send", !.attempt = 0]
    <3>1. /\ c.op = task[t].op /\ SamePlan(task[t], c) /\ c.at = "send"
          /\ c.disturbed = task[t].disturbed
      BY <1>2 DEF Call, SamePlan
    <3>2. task' = [task EXCEPT ![t] = c]
      BY <2>1
    <3> HIDE DEF c
    <3> QED
      BY <1>1, <1>11, <2>1, <3>1, <3>2, ResentMirror DEF Answered
  <2>2. CASE /\ task[t].op = "update" /\ Tail(task[t].todo) = <<>>
             /\ mirror' = (mirror \ task[t].gone) \cup task[t].new
             /\ task' = [task EXCEPT ![t] = NoCall] /\ UNCHANGED doubtful
    <3>1. /\ Updating(task[t]) /\ UpdateInv(task[t], remote) /\ task[t].at = "served"
          /\ remote' = remote
      BY <1>3, <1>11, <2>2 DEF Answered
    <3>2. \/ task[t].disturbed
          \/ task[t].new \subseteq remote /\ (task[t].gone \ task[t].new) \cap remote = {}
      BY <2>2, <3>1, FinishedInv
    <3>3. ASSUME NEW x \in Triples
          PROVE  x[1] \in doubtful' \/ (x \in mirror' <=> x \in remote')
      <4>1. CASE x \notin task[t].gone \cup task[t].new
        <5>1. ~InHand(x)
          BY <4>1 DEF InHand, OneTask
        <5> QED
          BY <2>2, <3>1, <4>1, <5>1 DEF MirrorInv
      <4>2. CASE x \in task[t].gone \cup task[t].new /\ task[t].disturbed
        <5>1. x[1] \in task[t].about
          BY <3>1, <4>2 DEF UpdateInv
        <5> QED
          BY <2>2, <4>2, <5>1 DEF MirrorInv, CallFits
      <4>3. CASE x \in task[t].gone \cup task[t].new /\ ~task[t].disturbed
        BY <2>2, <3>1, <3>2, <4>3
      <4> QED
        BY <4>1, <4>2, <4>3
    <3> QED
      BY <1>1, <2>2, <3>3, NoCallFits, MirrorChanged
  <2>3. CASE /\ task[t].op = "read" /\ mirror' = Pulled(mirror, task[t].about, task[t].answer)
             /\ task' = [task EXCEPT ![t] = NoCall]
             /\ doubtful' = IF task[t].disturbed THEN doubtful ELSE doubtful \ task[t].about
    <3>1. task[t].at = "served" /\ remote' = remote /\ CallFits(task[t], remote, doubtful)
      BY <1>11 DEF Answered, MirrorInv
    <3>2. ASSUME NEW x \in Triples
          PROVE  x[1] \in doubtful' \/ (x \in mirror' <=> x \in remote')
      <4>1. x[1] \in doubtful \/ (x \in mirror <=> x \in remote)
        BY <1>4, <2>3 DEF MirrorInv
      <4>2. CASE x[1] \in task[t].about
        <5>1. x \in mirror' <=> x \in task[t].answer
          BY <2>3, <4>2 DEF Pulled, Of
        <5> QED
          BY <2>3, <3>1, <4>2, <5>1 DEF CallFits
      <4>3. CASE x[1] \notin task[t].about
        <5>1. x \notin task[t].answer
          BY <2>3, <3>1, <4>3 DEF CallFits
        <5>2. x \in mirror' <=> x \in mirror
          BY <2>3, <4>3, <5>1 DEF Pulled, Of
        <5> QED
          BY <2>3, <3>1, <4>1, <4>3, <5>2
      <4> QED
        BY <4>2, <4>3
    <3> QED
      BY <1>1, <2>3, <3>2, NoCallFits, MirrorChanged
  <2> QED
    BY <1>11, <2>1, <2>2, <2>3 DEF Answered
<1>12. CASE LateUpdate
  <2>1. PICK u \in late :
          /\ remote' = Applied(remote, u)
          /\ doubtful' = doubtful \cup {x[1] : x \in u.triples}
          /\ task' = [t \in Tasks |-> [task[t] EXCEPT
                !.disturbed = @ \/ task[t].about \cap {x[1] : x \in u.triples} # {}]]
    BY <1>12 DEF LateUpdate
  <2>2. mirror' = mirror
    BY <1>12 DEF LateUpdate
  <2>3. \A x \in Triples :
          (x \in remote <=> x \in remote') \/ (x[1] \in doubtful' /\ x \in u.triples)
    BY <2>1 DEF Applied
  <2>4. \A t \in Tasks :
          /\ task'[t].op = task[t].op /\ SamePlan(task[t], task'[t])
          /\ task'[t].at = task[t].at /\ task'[t].answer = task[t].answer
          /\ task[t].disturbed => task'[t].disturbed
          /\ task'[t].disturbed <=>
               task[t].disturbed \/ task[t].about \cap {x[1] : x \in u.triples} # {}
    BY <1>2, <2>1 DEF Call, SamePlan
  <2>5. \A x : InHand(x) => InHand(x)'
    BY <2>4 DEF InHand, SamePlan
  <2>6. \A x \in Triples :
          x[1] \in doubtful' \/ InHand(x)' \/ (x \in mirror' <=> x \in remote')
    BY <2>1, <2>2, <2>3, <2>5 DEF MirrorInv
  <2>7. ASSUME NEW t \in Tasks PROVE CallFits(task'[t], remote', doubtful')
    <3> DEFINE c == task[t]
               d == task'[t]
    <3>1. CallFits(c, remote, doubtful)
      BY DEF MirrorInv
    <3>2. ASSUME d.op = "update"
          PROVE  (\E s : d.about = {s}) /\ (d.disturbed => d.about \subseteq doubtful')
      <4>1. PICK s : c.about = {s} /\ d.about = {s}
        BY <2>4, <3>1, <3>2 DEF CallFits, SamePlan
      <4>2. c.disturbed => s \in doubtful'
        BY <2>1, <2>4, <3>1, <3>2, <4>1 DEF CallFits
      <4>3. c.about \cap {x[1] : x \in u.triples} # {} => s \in doubtful'
        BY <2>1, <4>1
      <4>4. d.disturbed => s \in doubtful'
        BY <2>4, <4>2, <4>3
      <4> QED
        BY <4>1, <4>4
    <3>3. ASSUME d.op = "read", d.at = "served", NEW x \in Triples, x[1] \in d.about
          PROVE  (d.disturbed /\ x[1] \in doubtful') \/ (x \in d.answer <=> x \in remote')
      <4>1. CASE x \in u.triples
        BY <2>1, <2>4, <3>3, <4>1 DEF SamePlan
      <4>2. CASE x \notin u.triples
        BY <2>1, <2>3, <2>4, <3>1, <3>3, <4>2 DEF CallFits, SamePlan
      <4> QED
        BY <4>1, <4>2
    <3>4. d.op = "read" /\ d.at = "served" => \A x \in d.answer : x[1] \in d.about
      BY <2>4, <3>1 DEF CallFits, SamePlan
    <3> QED
      BY <3>2, <3>3, <3>4 DEF CallFits
  <2> QED
    BY <1>1, <2>6, <2>7 DEF MirrorInv
<1>13. CASE Close
  BY <1>1, <1>13 DEF Close, MirrorInv, InHand
<1>14. CASE Restart
  <2>1. \A t \in Tasks : CallFits(task'[t], remote', doubtful')
    BY <1>14, NoCallFits DEF Restart
  <2>2. \A x \in Triples : x[1] \in doubtful'
    BY <1>14 DEF Restart, Triples
  <2> QED
    BY <1>1, <2>1, <2>2 DEF MirrorInv
<1>15. CASE UNCHANGED vars
  BY <1>1, <1>15 DEF vars, MirrorInv, InHand
<1> QED
  BY <1>5, <1>6, <1>7, <1>8, <1>9, <1>10, <1>11, <1>12, <1>13, <1>14, <1>15
     DEF Next, TaskStep

\* With one task the mirror says of a subject what the endpoint says, but for the
\* update in progress and for what failures left in doubt: through lost and late
\* requests, chunks, pulls and restarts (update_graph, apply_construct_to_mirror).
THEOREM MirrorIsCurrent ==
  ASSUME OneTask
  PROVE  Spec => []MirrorCurrent
<1>1. Init => MirrorInv
  <2>1. Init => \A x \in Triples : x[1] \in doubtful
    BY DEF Init, Triples
  <2> QED
    BY <2>1, InitEffect, NoCallFits DEF Init, MirrorInv
<1>2. MirrorInv /\ [Next]_vars => MirrorInv'
  BY MirrorInvStep
<1>3. ASSUME MirrorInv PROVE MirrorCurrent
  <2> SUFFICES ASSUME NEW s \in Subjects, s \notin doubtful,
                      \A t \in Tasks : task[t].op = "update" => s \notin task[t].about
               PROVE  Of(mirror, {s}) = Of(remote, {s})
    BY DEF MirrorCurrent
  <2>1. \A x : x[1] = s => ~InHand(x)
    BY <1>3 DEF MirrorInv, EffectInv, UpdateInv, InHand
  <2>2. mirror \subseteq Triples /\ remote \subseteq Triples
    BY <1>3 DEF MirrorInv, EffectInv, TypeInv, TypeOK
  <2>3. \A x \in Triples : x[1] = s => (x \in mirror <=> x \in remote)
    BY <1>3, <2>1 DEF MirrorInv
  <2> QED
    BY <2>2, <2>3 DEF Of
<1>4. MirrorInv => MirrorCurrent
  BY <1>3
<1> QED
  BY <1>1, <1>2, <1>4, PTL DEF Spec
=============================================================================
