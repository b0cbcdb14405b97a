--------------------------- MODULE RequestsProofs ---------------------------
(***************************************************************************)
(* Theorems about Requests, for every number of requests and resources,    *)
(* every set of dependencies and every bound on calls.  TypeOK and         *)
(* ControlOK say what a request is doing; each property has a strengthen- *)
(* ing of its own on top of them: ExactOK, LifetimesOK, StoredOK and       *)
(* DroppedOK, SeenOK and CachedOK, SuccessOK.                              *)
(***************************************************************************)
EXTENDS Requests, SequenceTheorems, TLAPS

-----------------------------------------------------------------------------
(* Types                                                                   *)

\* The values that a request writes, and all values.
Own(r) == {r} \X (1 .. MaxCalls[r])
Value == {Old} \cup UNION {Own(r) : r \in Request}

Entry(r) == [subject : Subject, value : Own(r)]
Task(r) == [subject : Subject, value : Own(r) \cup {None}]

RequestType(r) ==
  [at : {"idle", "handling", "exiting", "closing", "ended"}, calls : 0 .. MaxCalls[r],
   op : {None, "get", "flush", "write", "exit"}, subject : Subject \cup {None},
   todo : Seq(Task(r)), writing : BOOLEAN, removing : SUBSET Value, exact : BOOLEAN,
   failed : BOOLEAN, exitFailed : BOOLEAN]

SessionType(r) ==
  [cache : [Subject -> Value \cup {None}], pending : Seq(Entry(r)), generation : Nat,
   answer : {None} \cup [subject : Subject, value : Value \cup {None}]]

StoreType == [open : BOOLEAN, mirror : [Subject -> SUBSET Value], generation : Nat]

TypeOK ==
  /\ policy \in [shared : BOOLEAN, close : BOOLEAN, warned : BOOLEAN]
  /\ endpoint \in [Subject -> SUBSET Value]
  /\ DOMAIN request = Request /\ \A r \in Request : request[r] \in RequestType(r)
  /\ DOMAIN session = Request /\ \A r \in Request : session[r] \in SessionType(r)
  /\ stores \in [Request \cup {Shared} -> StoreType]
  /\ up \in BOOLEAN

\* What op, at and todo have to do with each other.
Control(c) ==
  /\ c.op = "exit" <=> c.at = "exiting"
  /\ c.op \in {"get", "flush", "write"} => c.at = "handling"
  /\ c.op \in {"flush", "write", "exit"} <=> c.todo # <<>> /\ c.op # "get"
  /\ c.writing => c.todo # <<>>
  /\ c.exact => c.writing
  /\ c.op = "get" => c.subject \in Subject

\* Only the write that a call makes for itself may be a deletion.
QueuedValues(r) == \A i \in 1 .. Queued(r) : request[r].todo[i].value \in Own(r)

ControlOK == \A r \in Request : Control(request[r]) /\ QueuedValues(r)

ExactOK ==
  \A r \in Request : request[r].exact =>
    /\ endpoint[Head1(r).subject] \subseteq request[r].removing
    /\ \A q \in Request \ {r} : request[q].writing => Head1(q).subject # Head1(r).subject

LifetimesOK ==
  /\ policy.shared /\ policy.close => policy.warned
  /\ \A r \in Request :
       ~policy.shared /\ request[r].at \in {"handling", "exiting", "closing"} => stores[r].open

LEMMA WithoutOfSeq ==
  ASSUME NEW S, NEW q \in Seq(S), NEW s
  PROVE  /\ Without(q, s) \in Seq(S)
         /\ \A i \in 1 .. Len(q) : q[i].subject # s =>
              \E j \in 1 .. Len(Without(q, s)) : Without(q, s)[j] = q[i]
         /\ q = <<>> => Without(q, s) = <<>>
<1> DEFINE mine == {i \in DOMAIN q : q[i].subject = s}
           k == CHOOSE i \in mine : TRUE
           front == SubSeq(q, 1, k - 1)
           back == SubSeq(q, k + 1, Len(q))
<1>1. CASE mine = {}
  BY <1>1 DEF Without
<1>3. q = <<>> => mine = {}
  BY EmptySeq, LenProperties
<1>2. CASE mine # {}
  <2>1. k \in 1 .. Len(q) /\ q[k].subject = s /\ Len(q) \in Nat
    BY <1>2, LenProperties
  <2> HIDE DEF k
  <2>2. front \in Seq(S) /\ Len(front) = k - 1 /\ \A i \in 1 .. k - 1 : front[i] = q[i]
    BY <2>1, SubSeqProperties, ElementOfSeq, LenProperties
  <2>3. /\ back \in Seq(S) /\ Len(back) = Len(q) - k
        /\ \A i \in 1 .. Len(q) - k : back[i] = q[k + i]
    <3>1. \A i \in k + 1 .. Len(q) : q[i] \in S
      BY <2>1
    <3>2. k + 1 \in Int /\ Len(q) \in Int
      BY <2>1, LenProperties
    <3> QED
      BY <2>1, <3>1, <3>2, SubSeqProperties
  <2>4. Without(q, s) = front \o back
    BY <1>2 DEF Without, RemoveAt, k
  <2> HIDE DEF front, back
  <2>5. /\ front \o back \in Seq(S) /\ Len(front \o back) = Len(q) - 1
        /\ \A i \in 1 .. Len(front) : (front \o back)[i] = front[i]
        /\ \A i \in Len(front) + 1 .. Len(q) - 1 : (front \o back)[i] = back[i - Len(front)]
    <3>1. /\ front \o back \in Seq(S) /\ Len(front \o back) = Len(front) + Len(back)
          /\ \A i \in 1 .. Len(front) + Len(back) :
               (front \o back)[i] = IF i <= Len(front) THEN front[i] ELSE back[i - Len(front)]
      BY <2>2, <2>3, ConcatProperties
    <3>2. Len(front) + Len(back) = Len(q) - 1 /\ Len(front) \in Nat /\ Len(back) \in Nat
      BY <2>1, <2>2, <2>3
    <3> QED
      BY <3>1, <3>2
  <2>6. ASSUME NEW i \in 1 .. Len(q), q[i].subject # s
        PROVE  \E j \in 1 .. Len(q) - 1 : (front \o back)[j] = q[i]
    <3>1. CASE i < k
      BY <2>1, <2>2, <2>5, <3>1
    <3>2. CASE i > k
      <4>1. /\ i - 1 \in Len(front) + 1 .. Len(q) - 1 /\ i - 1 \in 1 .. Len(q) - 1
            /\ i - k \in 1 .. Len(q) - k
        BY <2>1, <2>2, <3>2
      <4>2. (front \o back)[i - 1] = back[i - 1 - Len(front)] /\ i - 1 - Len(front) = i - k
        BY <2>1, <2>2, <2>5, <3>2, <4>1
      <4>3. back[i - k] = q[k + (i - k)] /\ k + (i - k) = i
        BY <2>1, <2>3, <3>2, <4>1
      <4> QED
        BY <4>1, <4>2, <4>3
    <3>3. i < k \/ i > k
      <4>1. i # k /\ i \in Int /\ k \in Int
        BY <2>1, <2>6
      <4> QED
        BY <4>1
    <3> QED
      BY <3>1, <3>2, <3>3, Zenon
  <2> QED
    BY <1>2, <1>3, <2>4, <2>5, <2>6
<1> QED
  BY <1>1, <1>2, <1>3

LEMMA Facts ==
  ASSUME TypeOK, NEW r \in Request
  PROVE  /\ request[r] \in RequestType(r) /\ session[r] \in SessionType(r)
         /\ StoreOf(r) \in Request \cup {Shared} /\ stores[StoreOf(r)] \in StoreType
         /\ request[r].todo \in Seq(Task(r)) /\ Len(request[r].todo) \in Nat
         /\ Queued(r) \in Int /\ Queued(r) <= Len(request[r].todo)
         /\ request[r].todo # <<>> => /\ Head1(r) \in Task(r)
                                      /\ Len(request[r].todo) > 0
         /\ session[r].pending \in Seq(Entry(r)) /\ Len(session[r].pending) \in Nat
         /\ session[r].cache \in [Subject -> Value \cup {None}]
         /\ MaxCalls[r] \in Nat /\ request[r].calls \in 0 .. MaxCalls[r]
<1>1. /\ request[r] \in RequestType(r) /\ session[r] \in SessionType(r)
      /\ MaxCalls[r] \in Nat
  BY RequestsAssumption DEF TypeOK
<1>2. StoreOf(r) \in Request \cup {Shared} /\ stores[StoreOf(r)] \in StoreType
  BY DEF TypeOK, StoreOf
<1>3. request[r].todo \in Seq(Task(r)) /\ session[r].pending \in Seq(Entry(r))
  BY <1>1 DEF RequestType, SessionType
<1>4. Len(request[r].todo) \in Nat /\ Len(session[r].pending) \in Nat
  BY <1>3, LenProperties
<1>5. request[r].todo # <<>> => Head1(r) \in Task(r) /\ Len(request[r].todo) > 0
  BY <1>3, <1>4, EmptySeq, ElementOfSeq DEF Head1
<1>6. Queued(r) \in Int /\ Queued(r) <= Len(request[r].todo)
  <2>1. Queued(r) = Len(request[r].todo) - 1 \/ Queued(r) = Len(request[r].todo) - 0
    BY DEF Queued
  <2> QED
    BY <1>4, <2>1
<1>7. /\ session[r].cache \in [Subject -> Value \cup {None}]
      /\ request[r].calls \in 0 .. MaxCalls[r]
  BY <1>1 DEF RequestType, SessionType
<1> QED
  BY <1>1, <1>2, <1>3, <1>4, <1>5, <1>6, <1>7

\* A step of one request changes its own state, and perhaps the stores.
LEMMA OwnStep ==
  ASSUME TypeOK, ControlOK, NEW r \in Request,
         DOMAIN request' = Request, DOMAIN session' = Request,
         \A o \in Request \ {r} : request'[o] = request[o] /\ session'[o] = session[o],
         request'[r] \in RequestType(r), session'[r] \in SessionType(r),
         Control(request'[r]), QueuedValues(r)',
         policy' = policy, endpoint' \in [Subject -> SUBSET Value],
         stores' \in [Request \cup {Shared} -> StoreType], up' \in BOOLEAN
  PROVE  TypeOK' /\ ControlOK'
<1>1. TypeOK'
  BY DEF TypeOK
<1>2. \A o \in Request : Control(request'[o]) /\ QueuedValues(o)'
  BY DEF ControlOK, QueuedValues, Queued
<1> QED
  BY <1>1, <1>2 DEF ControlOK

LEMMA ArriveTyped ==
  ASSUME TypeOK, ControlOK, NEW r \in Request, Arrive(r)
  PROVE  TypeOK' /\ ControlOK'
<1>1. request[r] \in RequestType(r) /\ Control(request[r]) /\ QueuedValues(r)
  BY Facts DEF ControlOK
<1>2. /\ DOMAIN request' = Request
      /\ request'[r] = [request[r] EXCEPT !.at = "handling"]
      /\ \A o \in Request \ {r} : request'[o] = request[o]
  BY DEF Arrive, TypeOK
<1>3. request'[r] \in RequestType(r)
  BY <1>1, <1>2 DEF RequestType
<1>4. Control(request'[r])
  BY <1>1, <1>2, RequestsAssumption DEF RequestType, Control, Arrive
<1>5. QueuedValues(r)'
  BY <1>1, <1>2 DEF QueuedValues, Queued, RequestType
<1>6. stores' \in [Request \cup {Shared} -> StoreType]
  BY DEF Arrive, TypeOK, NewStore, StoreType
<1> QED
  BY <1>2, <1>3, <1>4, <1>5, <1>6, Facts, OwnStep DEF Arrive, TypeOK

LEMMA NextValueOwn ==
  ASSUME TypeOK, NEW r \in Request, Calls(r)
  PROVE  NextValue(r) \in Own(r) /\ request[r].calls + 1 \in 0 .. MaxCalls[r]
  BY Facts DEF Calls, NextValue, Own

LEMMA QueueTyped ==
  ASSUME TypeOK, ControlOK, NEW r \in Request, NEW s \in Subject, Queue(r, s)
  PROVE  TypeOK' /\ ControlOK'
<1> DEFINE entry == [subject |-> s, value |-> NextValue(r)]
           pending == Append(Without(session[r].pending, s), entry)
<1>1. /\ request[r] \in RequestType(r) /\ Control(request[r]) /\ QueuedValues(r)
      /\ session[r] \in SessionType(r)
  BY Facts DEF ControlOK
<1>2. pending \in Seq(Entry(r))
  <2>1. Without(session[r].pending, s) \in Seq(Entry(r))
    BY Facts, WithoutOfSeq
  <2>2. entry \in Entry(r)
    BY NextValueOwn DEF Entry, Queue
  <2> QED
    BY <2>1, <2>2, AppendProperties
<1>3. /\ DOMAIN request' = Request
      /\ request'[r] = [request[r] EXCEPT !.calls = @ + 1]
      /\ \A o \in Request \ {r} : request'[o] = request[o] /\ session'[o] = session[o]
      /\ DOMAIN session' = Request
      /\ session'[r] = [session[r] EXCEPT !.pending = pending,
                          !.cache = [@ EXCEPT ![s] = None], !.answer = None]
  BY DEF Queue, TypeOK
<1> HIDE DEF pending
<1>4. request'[r] \in RequestType(r)
  BY <1>1, <1>3, NextValueOwn DEF RequestType, Queue
<1>5. session'[r] \in SessionType(r)
  <2>1. [session[r].cache EXCEPT ![s] = None] \in [Subject -> Value \cup {None}]
    BY Facts
  <2>2. session'[r] = [session[r] EXCEPT !.pending = pending, !.answer = None,
                         !.cache = [session[r].cache EXCEPT ![s] = None]]
    BY <1>1, <1>3 DEF SessionType
  <2> QED
    BY <1>1, <1>2, <2>1, <2>2 DEF SessionType
<1>6. Control(request'[r])
  BY <1>1, <1>3 DEF RequestType, Control
<1>7. QueuedValues(r)'
  BY <1>1, <1>3 DEF QueuedValues, Queued, RequestType
<1> QED
  BY <1>3, <1>4, <1>5, <1>6, <1>7, Facts, OwnStep DEF Queue, TypeOK

LEMMA BeginTyped ==
  ASSUME TypeOK, ControlOK, NEW r \in Request, NEW op \in {"get", "flush", "write"},
         NEW s \in Subject \cup {None}, NEW todo \in Seq(Task(r)),
         Begin(r, op, s, todo),
         op = "get" => s \in Subject, op # "get" => todo # <<>>,
         \A i \in 1 .. Len(todo) - (IF op = "write" THEN 1 ELSE 0) : todo[i].value \in Own(r)
  PROVE  TypeOK' /\ ControlOK'
<1>1. /\ request[r] \in RequestType(r) /\ Control(request[r]) /\ QueuedValues(r)
      /\ session[r] \in SessionType(r)
  BY Facts DEF ControlOK
<1>2. /\ DOMAIN request' = Request
      /\ request'[r] = [request[r] EXCEPT !.op = op, !.subject = s, !.todo = todo,
                                          !.calls = @ + 1]
      /\ \A o \in Request \ {r} : request'[o] = request[o] /\ session'[o] = session[o]
      /\ DOMAIN session' = Request
      /\ session'[r] = [session[r] EXCEPT !.answer = None]
  BY DEF Begin, TypeOK
<1>3. request'[r] \in RequestType(r)
  BY <1>1, <1>2, NextValueOwn DEF RequestType, Begin
<1>4. session'[r] \in SessionType(r)
  BY <1>1, <1>2 DEF SessionType
<1>5. ~request[r].writing /\ ~request[r].exact /\ request[r].at = "handling"
  BY <1>1, RequestsAssumption DEF Begin, Calls, Handling, Control, RequestType
<1>6. Control(request'[r])
  BY <1>1, <1>2, <1>5, RequestsAssumption DEF RequestType, Control
<1>7. QueuedValues(r)'
  BY <1>1, <1>2 DEF QueuedValues, Queued, RequestType
<1> QED
  BY <1>2, <1>3, <1>4, <1>6, <1>7, Facts, OwnStep DEF Begin, TypeOK

LEMMA CallTyped ==
  ASSUME TypeOK, ControlOK, NEW r \in Request,
         FlushNow(r) \/ \E s \in Subject : Get(r, s) \/ Write(r, s)
  PROVE  TypeOK' /\ ControlOK'
<1>1. session[r].pending \in Seq(Entry(r))
  BY Facts
<1>2. session[r].pending \in Seq(Task(r)) /\ Flush(r) \in Seq(Task(r))
  <2>1. Entry(r) \subseteq Task(r)
    BY DEF Entry, Task
  <2>2. session[r].pending \in Seq(Task(r)) /\ <<>> \in Seq(Task(r))
    BY <1>1, <2>1, SeqMonotonic, EmptySeq
  <2> QED
    BY <2>2 DEF Flush
<1>3. /\ \A i \in 1 .. Len(session[r].pending) : session[r].pending[i].value \in Own(r)
      /\ \A i \in 1 .. Len(Flush(r)) : Flush(r)[i].value \in Own(r)
      /\ Len(Flush(r)) \in Nat
  <2>1. \A i \in 1 .. Len(session[r].pending) : session[r].pending[i] \in Entry(r)
    BY <1>1, ElementOfSeq
  <2>2. \A i \in 1 .. Len(session[r].pending) : session[r].pending[i].value \in Own(r)
    BY <2>1 DEF Entry
  <2>3. \/ Flush(r) = session[r].pending
        \/ Flush(r) = <<>> /\ Len(Flush(r)) = 0
    BY EmptySeq DEF Flush
  <2> QED
    BY <2>2, <2>3, Facts
<1>4. CASE FlushNow(r)
  <2>1. Begin(r, "flush", None, session[r].pending) /\ session[r].pending # <<>>
    BY <1>4 DEF FlushNow
  <2>2. /\ Len(session[r].pending) - (IF "flush" = "write" THEN 1 ELSE 0)
             = Len(session[r].pending)
        /\ "flush" \in {"get", "flush", "write"} /\ None \in Subject \cup {None}
        /\ "flush" # "get"
    BY Facts
  <2> QED
    BY <1>2, <1>3, <2>1, <2>2, BeginTyped
<1>5. ASSUME NEW s \in Subject, Get(r, s)
      PROVE  TypeOK' /\ ControlOK'
  BY <1>2, <1>3, <1>5, BeginTyped DEF Get
<1>6. ASSUME NEW s \in Subject, Write(r, s)
      PROVE  TypeOK' /\ ControlOK'
  <2>1. PICK v \in {NextValue(r), None} :
          Begin(r, "write", s, Append(Flush(r), [subject |-> s, value |-> v]))
    BY <1>6 DEF Write
  <2> DEFINE todo == Append(Flush(r), [subject |-> s, value |-> v])
  <2>2. [subject |-> s, value |-> v] \in Task(r)
    BY <2>1, NextValueOwn DEF Task, Begin
  <2>3. /\ todo \in Seq(Task(r)) /\ todo # <<>> /\ Len(todo) = Len(Flush(r)) + 1
        /\ \A i \in 1 .. Len(Flush(r)) : todo[i] = Flush(r)[i]
    BY <1>2, <2>2, AppendProperties
  <2> HIDE DEF todo
  <2>4. \A i \in 1 .. Len(todo) - 1 : todo[i].value \in Own(r)
    BY <1>3, <2>3
  <2>5. Begin(r, "write", s, todo)
    BY <2>1 DEF todo
  <2> QED
    BY <2>3, <2>4, <2>5, BeginTyped
<1> QED
  BY <1>4, <1>5, <1>6

LEMMA WriteStartsTyped ==
  ASSUME TypeOK, ControlOK, NEW r \in Request, NEW s \in Subject, WriteStarts(r, s)
  PROVE  TypeOK' /\ ControlOK'
<1>1. /\ request[r] \in RequestType(r) /\ Control(request[r])
      /\ session[r] \in SessionType(r) /\ stores[StoreOf(r)] \in StoreType
      /\ request[r].todo # <<>>
  BY Facts DEF ControlOK, WriteStarts
<1> DEFINE others == {o \in Request \ {r} : request[o].writing /\ Head1(o).subject = s}
           exact == others = {} /\ stores[StoreOf(r)].mirror[s] = endpoint[s]
           cache == [session[r].cache EXCEPT
                       ![s] = CachedMeanwhile(session[r].cache[s], Head1(r).value)]
           pending == Without(session[r].pending, s)
<1>2. /\ request' = [o \in Request |->
           IF o = r THEN [request[r] EXCEPT !.writing = TRUE, !.removing = Owned(r, s),
                                            !.exact = exact]
           ELSE IF o \in others THEN [request[o] EXCEPT !.exact = FALSE]
           ELSE request[o]]
      /\ session' = [session EXCEPT ![r].pending = Without(@, s),
                                    ![r].cache[s] = CachedMeanwhile(@, Head1(r).value)]
      /\ DOMAIN session = Request
      /\ exact \in BOOLEAN
  BY DEF WriteStarts, TypeOK
<1> HIDE DEF exact, others
<1>3. request'[r] \in RequestType(r) /\ Control(request'[r])
  <2>1. Owned(r, s) \in SUBSET Value
    BY <1>1 DEF Owned, StoreType
  <2>2. request'[r] = [request[r] EXCEPT !.writing = TRUE, !.removing = Owned(r, s),
                                         !.exact = exact]
    BY <1>2
  <2> QED
    BY <1>1, <1>2, <2>1, <2>2 DEF RequestType, Control
<1>4. /\ session'[r] \in SessionType(r) /\ DOMAIN session' = Request
      /\ \A o \in Request \ {r} : session'[o] = session[o]
  <2>1. cache \in [Subject -> Value \cup {None}]
    BY Facts DEF CachedMeanwhile
  <2>2. pending \in Seq(Entry(r))
    BY Facts, WithoutOfSeq
  <2>3. session'[r] = [session[r] EXCEPT !.pending = pending, !.cache = cache]
    BY <1>1, <1>2 DEF SessionType
  <2> HIDE DEF cache, pending
  <2> QED
    BY <1>1, <1>2, <2>1, <2>2, <2>3 DEF SessionType
<1>5. ASSUME NEW o \in Request \ {r}
      PROVE  request'[o] \in RequestType(o) /\ Control(request'[o])
  <2>1. request[o] \in RequestType(o) /\ Control(request[o])
    BY DEF TypeOK, ControlOK
  <2>2. request'[o] = request[o] \/ request'[o] = [request[o] EXCEPT !.exact = FALSE]
    BY <1>2
  <2> QED
    BY <2>1, <2>2 DEF RequestType, Control
<1>6. ASSUME NEW o \in Request
      PROVE  request'[o].todo = request[o].todo /\ request'[o].op = request[o].op
  <2>1. request[o] \in RequestType(o)
    BY DEF TypeOK
  <2>2. \/ request'[o] = request[o] \/ request'[o] = [request[o] EXCEPT !.exact = FALSE]
        \/ request'[o] = [request[o] EXCEPT !.writing = TRUE, !.removing = Owned(o, s),
                                            !.exact = exact]
    BY <1>2
  <2> QED
    BY <2>1, <2>2 DEF RequestType
<1>7. TypeOK'
  BY <1>2, <1>3, <1>4, <1>5 DEF TypeOK, WriteStarts
<1>8. \A o \in Request : QueuedValues(o)'
  BY <1>6 DEF ControlOK, QueuedValues, Queued
<1> QED
  BY <1>3, <1>5, <1>7, <1>8 DEF ControlOK

\* What is left to write after the first write, and after a failure.
LEMMA RestTyped ==
  ASSUME TypeOK, ControlOK, NEW r \in Request, request[r].todo # <<>>
  PROVE  LET todo == request[r].todo
         IN  /\ Tail(todo) \in Seq(Task(r)) /\ Len(Tail(todo)) = Len(todo) - 1
             /\ \A i \in 1 .. Len(Tail(todo)) : Tail(todo)[i] = todo[i + 1]
             /\ \A i \in 1 .. Queued(r) - 1 : Tail(todo)[i].value \in Own(r)
             /\ Requeued(r) \in Seq(Entry(r))
             /\ Queued(r) > 0 => /\ Len(Requeued(r)) = Queued(r)
                                 /\ \A i \in 1 .. Queued(r) : Requeued(r)[i] = todo[i]
<1> DEFINE todo == request[r].todo
           n == Queued(r)
<1>1. /\ todo \in Seq(Task(r)) /\ Len(todo) \in Nat /\ n \in Int /\ n <= Len(todo)
      /\ \A i \in 1 .. n : todo[i].value \in Own(r)
  BY Facts DEF ControlOK, QueuedValues
<1> HIDE DEF n
<1>2. /\ Tail(todo) \in Seq(Task(r)) /\ Len(Tail(todo)) = Len(todo) - 1
      /\ \A i \in 1 .. Len(Tail(todo)) : Tail(todo)[i] = todo[i + 1]
  BY <1>1, HeadTailProperties
<1>3. \A i \in 1 .. n - 1 : Tail(todo)[i].value \in Own(r)
  <2> TAKE i \in 1 .. n - 1
  <2>1. i \in 1 .. Len(Tail(todo)) /\ i + 1 \in 1 .. n
    BY <1>1, <1>2
  <2> QED
    BY <1>1, <1>2, <2>1
<1>4. \A i \in 1 .. n : todo[i] \in Entry(r)
  <2> TAKE i \in 1 .. n
  <2>1. todo[i] \in Task(r)
    BY <1>1, ElementOfSeq
  <2> QED
    BY <1>1, <2>1 DEF Task, Entry
<1>5. /\ SubSeq(todo, 1, n) \in Seq(Entry(r))
      /\ Len(SubSeq(todo, 1, n)) = IF 1 <= n THEN n - 1 + 1 ELSE 0
      /\ \A i \in 1 .. n - 1 + 1 : SubSeq(todo, 1, n)[i] = todo[1 + i - 1]
  BY <1>1, <1>4, SubSeqProperties
<1>6. Requeued(r) = SubSeq(todo, 1, n)
  BY DEF Requeued, n
<1>7. n > 0 => Len(Requeued(r)) = n /\ \A i \in 1 .. n : Requeued(r)[i] = todo[i]
  BY <1>1, <1>5, <1>6
<1> QED
  BY <1>2, <1>3, <1>5, <1>6, <1>7 DEF n

LEMMA UpdatedType ==
  ASSUME TypeOK, ControlOK, NEW r \in Request, request[r].writing,
         NEW values \in SUBSET Value
  PROVE  /\ request[r].todo # <<>> /\ Head1(r) \in Task(r) /\ Head1(r).subject \in Subject
         /\ Head1(r).value \in Value \cup {None}
         /\ Updated(values, r) \in SUBSET Value
<1>1. request[r].todo # <<>> /\ Head1(r) \in Task(r)
  BY Facts DEF ControlOK, Control
<1>2. Head1(r).subject \in Subject /\ Head1(r).value \in Value \cup {None}
  BY <1>1 DEF Task, Value
<1> QED
  BY <1>1, <1>2 DEF Updated

LEMMA WriteDoneTyped ==
  ASSUME TypeOK, ControlOK, NEW r \in Request, WriteDone(r)
  PROVE  TypeOK' /\ ControlOK'
<1> DEFINE w == Head1(r)
           rest == Tail(request[r].todo)
           op == IF rest = <<>> /\ request[r].op # "get" THEN None ELSE request[r].op
           at == IF rest = <<>> /\ request[r].at = "exiting" THEN "closing" ELSE request[r].at
           pending == IF Queued(r) = 1 THEN <<>> ELSE session[r].pending
           cache == [session[r].cache EXCEPT ![w.subject] = w.value]
           i == StoreOf(r)
           mirror == [stores[i].mirror EXCEPT ![w.subject] = Updated(@, r)]
<1>1. /\ request[r] \in RequestType(r) /\ Control(request[r]) /\ session[r] \in SessionType(r)
      /\ stores[i] \in StoreType /\ i \in Request \cup {Shared} /\ request[r].writing
      /\ request[r].todo # <<>> /\ w.subject \in Subject /\ w.value \in Value \cup {None}
  BY Facts, UpdatedType DEF ControlOK, WriteDone
<1>2. /\ rest \in Seq(Task(r)) /\ Len(rest) = Len(request[r].todo) - 1
      /\ \A k \in 1 .. Queued(r) - 1 : rest[k].value \in Own(r)
  BY <1>1, RestTyped
<1>3. /\ request' = [request EXCEPT
           ![r] = [request[r] EXCEPT !.todo = rest, !.writing = FALSE, !.removing = {},
                                     !.exact = FALSE, !.op = op, !.at = at]]
      /\ session' = [session EXCEPT
           ![r] = [session[r] EXCEPT !.cache = cache, !.pending = pending]]
      /\ stores' = [stores EXCEPT ![i] = [stores[i] EXCEPT !.mirror = mirror]]
  BY DEF WriteDone, TypeOK, RequestType, SessionType, StoreType
<1> HIDE DEF w, rest, op, at, pending, cache, i, mirror
<1>4. /\ request'[r] = [request[r] EXCEPT !.todo = rest, !.writing = FALSE, !.removing = {},
                                          !.exact = FALSE, !.op = op, !.at = at]
      /\ session'[r] = [session[r] EXCEPT !.cache = cache, !.pending = pending]
      /\ DOMAIN request' = Request /\ DOMAIN session' = Request
      /\ \A o \in Request \ {r} : request'[o] = request[o] /\ session'[o] = session[o]
  BY <1>3 DEF TypeOK
<1>5. request'[r] \in RequestType(r)
  BY <1>1, <1>2, <1>4 DEF RequestType, op, at
<1>6. session'[r] \in SessionType(r)
  <2>1. pending \in Seq(Entry(r)) /\ cache \in [Subject -> Value \cup {None}]
    BY <1>1, Facts, EmptySeq DEF pending, cache
  <2>2. session'[r] = [session[r] EXCEPT !.cache = cache, !.pending = pending]
    BY <1>4
  <2>3. session[r] \in SessionType(r)
    BY <1>1
  <2> QED
    BY <2>1, <2>2, <2>3 DEF SessionType
<1>7. Control(request'[r])
  BY <1>1, <1>4, <1>5, RequestsAssumption DEF RequestType, Control, op, at
<1>8. QueuedValues(r)'
  <2>1. Queued(r)' = Queued(r) - 1 \/ rest = <<>>
    <3>1. request'[r].todo = rest /\ request'[r].op = op
      BY <1>1, <1>4 DEF RequestType
    <3>2. CASE rest # <<>>
      <4>1. op = request[r].op
        BY <3>2 DEF op
      <4>2. \/ request[r].op = "write" /\ Queued(r) = Len(request[r].todo) - 1
            \/ request[r].op # "write" /\ Queued(r) = Len(request[r].todo) - 0
        BY DEF Queued
      <4>3. \/ request[r].op = "write" /\ Queued(r)' = Len(rest) - 1
            \/ request[r].op # "write" /\ Queued(r)' = Len(rest) - 0
        BY <3>1, <4>1 DEF Queued
      <4>4. Len(request[r].todo) \in Nat /\ Len(rest) = Len(request[r].todo) - 1
        BY <1>2, Facts
      <4> QED
        BY <4>2, <4>3, <4>4
    <3> QED
      BY <3>2
  <2>2. CASE rest = <<>>
    <3>1. request'[r].todo = <<>> /\ Len(<<>>) = 0
      BY <1>1, <1>4, <2>2, EmptySeq DEF RequestType
    <3>2. Queued(r)' = 0 - 1 \/ Queued(r)' = 0 - 0
      BY <3>1 DEF Queued
    <3> QED
      BY <3>2 DEF QueuedValues
  <2>3. CASE Queued(r)' = Queued(r) - 1
    <3>1. request'[r].todo = rest
      BY <1>1, <1>4 DEF RequestType
    <3> QED
      BY <1>2, <2>3, <3>1 DEF QueuedValues
  <2> QED
    BY <2>1, <2>2, <2>3
<1>9. endpoint' \in [Subject -> SUBSET Value]
  <2>1. /\ endpoint' = [endpoint EXCEPT ![w.subject] = Updated(endpoint[w.subject], r)]
        /\ endpoint \in [Subject -> SUBSET Value]
    BY DEF WriteDone, TypeOK, w
  <2> QED
    BY <1>1, <2>1, UpdatedType
<1>10. stores' \in [Request \cup {Shared} -> StoreType]
  <2>1. mirror \in [Subject -> SUBSET Value]
    BY <1>1, UpdatedType DEF mirror, StoreType
  <2> QED
    BY <1>1, <1>3, <2>1 DEF TypeOK, StoreType
<1> QED
  BY <1>4, <1>5, <1>6, <1>7, <1>8, <1>9, <1>10, OwnStep DEF WriteDone, TypeOK

LEMMA WriteFailsTyped ==
  ASSUME TypeOK, ControlOK, NEW r \in Request, WriteFails(r)
  PROVE  TypeOK' /\ ControlOK'
<1> DEFINE at == IF request[r].at = "exiting" THEN "closing" ELSE request[r].at
           pending == IF Queued(r) > 0 THEN Requeued(r) ELSE session[r].pending
           exiting == request[r].at = "exiting"
<1>1. /\ request[r] \in RequestType(r) /\ Control(request[r]) /\ session[r] \in SessionType(r)
      /\ request[r].writing /\ request[r].todo # <<>> /\ Head1(r).subject \in Subject
  BY Facts, UpdatedType DEF ControlOK, WriteFails
<1>2. /\ request' = [request EXCEPT
           ![r] = [request[r] EXCEPT !.op = None, !.todo = <<>>, !.writing = FALSE,
                                     !.removing = {}, !.exact = FALSE,
                                     !.exitFailed = exiting, !.at = at]]
      /\ session' = [session EXCEPT ![r] = [session[r] EXCEPT !.pending = pending]]
      /\ exiting \in BOOLEAN
  BY DEF WriteFails, TypeOK, RequestType, SessionType
<1> HIDE DEF at, pending, exiting
<1>3. /\ request'[r] = [request[r] EXCEPT !.op = None, !.todo = <<>>, !.writing = FALSE,
                                     !.removing = {}, !.exact = FALSE,
                                     !.exitFailed = exiting, !.at = at]
      /\ session'[r] = [session[r] EXCEPT !.pending = pending]
      /\ DOMAIN request' = Request /\ DOMAIN session' = Request
      /\ \A o \in Request \ {r} : request'[o] = request[o] /\ session'[o] = session[o]
  BY <1>2 DEF TypeOK
<1>4. request'[r] \in RequestType(r)
  <2>1. <<>> \in Seq(Task(r))
    BY EmptySeq
  <2> QED
    BY <1>1, <1>2, <1>3, <2>1 DEF RequestType, at
<1>5. session'[r] \in SessionType(r)
  <2>1. pending \in Seq(Entry(r))
    BY <1>1, Facts, RestTyped DEF pending
  <2> QED
    BY <1>1, <1>3, <2>1 DEF SessionType
<1>6. Control(request'[r])
  BY <1>1, <1>3, RequestsAssumption DEF RequestType, Control, at
<1>7. QueuedValues(r)'
  <2>1. request'[r].todo = <<>> /\ Len(<<>>) = 0
    BY <1>1, <1>3, EmptySeq DEF RequestType
  <2>2. Queued(r)' = 0 - 1 \/ Queued(r)' = 0 - 0
    BY <2>1 DEF Queued
  <2> QED
    BY <2>2 DEF QueuedValues
<1>8. endpoint' \in [Subject -> SUBSET Value]
  <2>1. /\ \/ endpoint' = endpoint
           \/ endpoint' = [endpoint EXCEPT
                             ![Head1(r).subject] = Updated(endpoint[Head1(r).subject], r)]
        /\ endpoint \in [Subject -> SUBSET Value]
    BY DEF WriteFails, TypeOK
  <2> QED
    BY <1>1, <2>1, UpdatedType
<1> QED
  BY <1>3, <1>4, <1>5, <1>6, <1>7, <1>8, OwnStep DEF WriteFails, TypeOK

LEMMA PullType ==
  ASSUME TypeOK, NEW r \in Request, NEW s \in Subject
  PROVE  /\ Pull(r, s) \in StoreType /\ Synced(r) \in [Subject -> Value \cup {None}]
         /\ Found(r, s) \subseteq Value \cup {None}
         /\ stores[StoreOf(r)].generation \in Nat
<1>1. stores[StoreOf(r)] \in StoreType /\ endpoint \in [Subject -> SUBSET Value]
  BY Facts DEF TypeOK
<1>2. Pull(r, s) \in StoreType
  <2> DEFINE store == stores[StoreOf(r)]
             mirror == [store.mirror EXCEPT ![s] = endpoint[s]]
  <2>1. mirror \in [Subject -> SUBSET Value] /\ store.generation + 1 \in Nat
    BY <1>1 DEF StoreType
  <2>2. \/ Pull(r, s) = store
        \/ Pull(r, s) = [store EXCEPT !.mirror = mirror, !.generation = store.generation + 1]
    BY <1>1 DEF Pull, StoreType
  <2> HIDE DEF mirror
  <2> QED
    BY <1>1, <2>1, <2>2 DEF StoreType
<1>3. Synced(r) \in [Subject -> Value \cup {None}]
  BY Facts DEF Synced
<1>4. Pull(r, s).mirror[s] \subseteq Value
  BY <1>2 DEF StoreType
<1> HIDE DEF Pull
<1>5. Found(r, s) \subseteq Value \cup {None}
  BY <1>3, <1>4 DEF Found, Readable
<1> QED
  BY <1>1, <1>2, <1>3, <1>5 DEF StoreType

LEMMA ReadTyped ==
  ASSUME TypeOK, ControlOK, NEW r \in Request, GetDone(r) \/ GetFails(r)
  PROVE  TypeOK' /\ ControlOK'
<1> DEFINE subject == request[r].subject
           i == StoreOf(r)
<1>1. /\ request[r] \in RequestType(r) /\ Control(request[r]) /\ session[r] \in SessionType(r)
      /\ request[r].op = "get" /\ request[r].todo = <<>> /\ subject \in Subject
      /\ i \in Request \cup {Shared} /\ stores[i].generation \in Nat
  BY Facts, PullType DEF ControlOK, Control, GetDone, GetFails, Reading
<1> HIDE DEF i, subject
<1>2. /\ request'[r] = [request[r] EXCEPT !.op = None]
      /\ DOMAIN request' = Request /\ DOMAIN session' = Request
      /\ \A o \in Request \ {r} : request'[o] = request[o] /\ session'[o] = session[o]
  BY DEF TypeOK, GetDone, GetFails
<1>3. request'[r] \in RequestType(r)
  BY <1>1, <1>2 DEF RequestType
<1>4. Control(request'[r])
  BY <1>1, <1>2, <1>3, RequestsAssumption DEF RequestType, Control
<1>5. QueuedValues(r)'
  <2>1. request'[r].todo = <<>> /\ Len(<<>>) = 0
    BY <1>1, <1>2, EmptySeq DEF RequestType
  <2>2. Queued(r)' = 0 - 1 \/ Queued(r)' = 0 - 0
    BY <2>1 DEF Queued
  <2> QED
    BY <2>2 DEF QueuedValues
<1>6. session'[r] \in SessionType(r) /\ stores' \in [Request \cup {Shared} -> StoreType]
  <2>1. CASE GetDone(r)
    <3>1. PICK v \in Found(r, subject) :
            session' = [session EXCEPT
                ![r].cache = [Synced(r) EXCEPT ![subject] = v],
                ![r].generation = stores[i].generation,
                ![r].answer = [subject |-> subject, value |-> v]]
      BY <2>1 DEF GetDone, i, subject
    <3> DEFINE cache == [Synced(r) EXCEPT ![subject] = v]
    <3>2. v \in Value \cup {None} /\ cache \in [Subject -> Value \cup {None}]
      BY <1>1, <3>1, PullType
    <3>3. session'[r] = [session[r] EXCEPT !.cache = cache,
                           !.generation = stores[i].generation,
                           !.answer = [subject |-> subject, value |-> v]]
      BY <3>1 DEF TypeOK
    <3> HIDE DEF cache
    <3>4. session'[r] \in SessionType(r)
      <4>1. [subject |-> subject, value |-> v] \in [subject : Subject, value : Value \cup {None}]
        BY <1>1, <3>2
      <4>2. session[r] \in SessionType(r) /\ stores[i].generation \in Nat
        BY <1>1
      <4> QED
        BY <3>2, <3>3, <4>1, <4>2 DEF SessionType
    <3>5. stores' = [stores EXCEPT ![i] = Pull(r, subject)]
      BY <2>1 DEF GetDone, i, subject
    <3> QED
      BY <1>1, <3>4, <3>5, PullType DEF TypeOK
  <2>2. CASE GetFails(r)
    <3>1. /\ session'[r] = [session[r] EXCEPT !.cache = Synced(r),
                             !.generation = stores[i].generation]
          /\ stores' = stores
      BY <2>2 DEF GetFails, TypeOK, i
    <3>2. Synced(r) \in [Subject -> Value \cup {None}]
      BY <1>1, PullType
    <3> QED
      BY <1>1, <3>1, <3>2 DEF SessionType, TypeOK
  <2> QED
    BY <2>1, <2>2
<1> QED
  BY <1>2, <1>3, <1>4, <1>5, <1>6, OwnStep DEF GetDone, GetFails, TypeOK

LEMMA LeaveTyped ==
  ASSUME TypeOK, ControlOK, NEW r \in Request, NEW failed \in BOOLEAN, Leave(r, failed)
  PROVE  TypeOK' /\ ControlOK'
<1> DEFINE todo == ExitQueue(r, failed)
           op == IF todo = <<>> THEN None ELSE "exit"
           at == IF todo = <<>> THEN "closing" ELSE "exiting"
           pending == IF failed /\ RollbackOnError THEN <<>> ELSE session[r].pending
<1>1. /\ request[r] \in RequestType(r) /\ Control(request[r]) /\ session[r] \in SessionType(r)
      /\ request[r].op = None /\ request[r].at = "handling"
  BY Facts DEF ControlOK, Leave, Handling
<1>2. /\ todo \in Seq(Task(r)) /\ pending \in Seq(Entry(r))
      /\ \A k \in 1 .. Len(todo) : todo[k].value \in Own(r)
  <2>1. /\ session[r].pending \in Seq(Entry(r)) /\ <<>> \in Seq(Entry(r)) /\ Len(<<>>) = 0
        /\ <<>> \in Seq(Task(r)) /\ Entry(r) \subseteq Task(r)
    BY Facts, EmptySeq DEF Entry, Task
  <2>2. session[r].pending \in Seq(Task(r))
    BY <2>1, SeqMonotonic
  <2>3. \A k \in 1 .. Len(session[r].pending) : session[r].pending[k].value \in Own(r)
    <3>1. \A k \in 1 .. Len(session[r].pending) : session[r].pending[k] \in Entry(r)
      BY <2>1, ElementOfSeq
    <3> QED
      BY <3>1 DEF Entry
  <2> QED
    BY <2>1, <2>2, <2>3 DEF ExitQueue
<1>3. /\ request'[r] = [request[r] EXCEPT !.failed = failed, !.todo = todo, !.op = op, !.at = at]
      /\ session'[r] = [session[r] EXCEPT !.pending = pending, !.answer = None]
      /\ DOMAIN request' = Request /\ DOMAIN session' = Request
      /\ \A o \in Request \ {r} : request'[o] = request[o] /\ session'[o] = session[o]
  BY DEF Leave, TypeOK, RequestType
<1> HIDE DEF todo, op, at, pending
<1>4. request'[r] \in RequestType(r) /\ session'[r] \in SessionType(r)
  BY <1>1, <1>2, <1>3 DEF RequestType, SessionType, op, at
<1>5. Control(request'[r])
  <2>1. ~request[r].writing /\ ~request[r].exact
    BY <1>1, RequestsAssumption DEF Control, RequestType
  <2> QED
    BY <1>1, <1>3, <2>1, RequestsAssumption DEF RequestType, Control, op, at
<1>6. QueuedValues(r)'
  <2>1. request'[r].todo = todo /\ request'[r].op = op /\ op # "write"
    BY <1>1, <1>3, RequestsAssumption DEF RequestType, op
  <2>2. Queued(r)' = Len(todo) - 0
    BY <2>1 DEF Queued
  <2>3. Len(todo) \in Nat
    BY <1>2, LenProperties
  <2> QED
    BY <1>2, <2>1, <2>2, <2>3 DEF QueuedValues
<1> QED
  BY <1>3, <1>4, <1>5, <1>6, OwnStep DEF Leave, TypeOK

LEMMA FinishTyped ==
  ASSUME TypeOK, ControlOK, NEW r \in Request, Finish(r)
  PROVE  TypeOK' /\ ControlOK'
<1>1. session[r].pending \in Seq(Entry(r)) /\ StoreOf(r) \in Request \cup {Shared}
      /\ MaxCalls[r] \in Nat
  BY Facts
<1>2. /\ request'[r] = [NoRequest EXCEPT !.at = "ended"]
      /\ session'[r] = [NewSession EXCEPT !.pending = session[r].pending]
      /\ DOMAIN request' = Request /\ DOMAIN session' = Request
      /\ \A o \in Request \ {r} : request'[o] = request[o] /\ session'[o] = session[o]
  BY DEF Finish, TypeOK
<1>3. request'[r] \in RequestType(r)
  <2>1. request'[r] = [at |-> "ended", calls |-> 0, op |-> None, subject |-> None,
                       todo |-> <<>>, writing |-> FALSE, removing |-> {}, exact |-> FALSE,
                       failed |-> FALSE, exitFailed |-> FALSE]
    BY <1>2 DEF NoRequest
  <2>2. <<>> \in Seq(Task(r)) /\ 0 \in 0 .. MaxCalls[r]
    BY <1>1, EmptySeq
  <2> QED
    BY <2>1, <2>2 DEF RequestType
<1>4. session'[r] \in SessionType(r)
  BY <1>1, <1>2 DEF SessionType, NewSession
<1>5. Control(request'[r])
  BY <1>2, RequestsAssumption DEF NoRequest, Control
<1>6. QueuedValues(r)'
  <2>1. request'[r].todo = <<>> /\ Len(<<>>) = 0
    BY <1>2, EmptySeq DEF NoRequest
  <2>2. Queued(r)' = 0 - 1 \/ Queued(r)' = 0 - 0
    BY <2>1 DEF Queued
  <2> QED
    BY <2>2 DEF QueuedValues
<1>7. stores' \in [Request \cup {Shared} -> StoreType]
  BY <1>1 DEF Finish, TypeOK, StoreType
<1> QED
  BY <1>2, <1>3, <1>4, <1>5, <1>6, <1>7, OwnStep DEF Finish, TypeOK

LEMMA ShutdownTyped ==
  ASSUME TypeOK, ControlOK, Shutdown
  PROVE  TypeOK' /\ ControlOK'
<1>1. stores' \in [Request \cup {Shared} -> StoreType]
  BY DEF Shutdown, TypeOK, StoreType
<1>2. TypeOK'
  BY <1>1 DEF Shutdown, TypeOK
<1> QED
  BY <1>2 DEF Shutdown, ControlOK, QueuedValues, Queued

LEMMA StutterTyped ==
  ASSUME TypeOK, ControlOK, UNCHANGED vars
  PROVE  TypeOK' /\ ControlOK'
<1>1. TypeOK'
  BY DEF vars, TypeOK
<1> QED
  BY <1>1 DEF vars, ControlOK, QueuedValues, Queued

LEMMA InitTyped == Init => TypeOK /\ ControlOK
<1> SUFFICES ASSUME Init PROVE TypeOK /\ ControlOK
  OBVIOUS
<1>1. policy \in [shared : BOOLEAN, close : BOOLEAN, warned : BOOLEAN]
  <2>1. PICK d \in Dependencies : policy = Policy(d)
    BY DEF Init
  <2>2. /\ d \in [custom : BOOLEAN, app : BOOLEAN, store : {"app", "given", "factory"},
                  close : BOOLEAN \cup {None}]
    BY RequestsAssumption DEF AllDependencies
  <2>3. ResolveStore(d).shared \in BOOLEAN /\ ResolveStore(d).close \in BOOLEAN
    BY <2>2 DEF ResolveStore
  <2>4. CustomStore(d).shared \in BOOLEAN /\ CustomStore(d).close \in BOOLEAN
    BY <2>2 DEF ResolveStore, CustomStore
  <2> QED
    BY <2>1, <2>2, <2>3, <2>4 DEF Policy, Warned
<1>2. endpoint \in [Subject -> SUBSET Value] /\ up \in BOOLEAN
  BY DEF Init, Value
<1>3. ASSUME NEW r \in Request
      PROVE  /\ request[r] \in RequestType(r) /\ session[r] \in SessionType(r)
             /\ Control(request[r]) /\ QueuedValues(r)
  <2>1. request[r] = NoRequest /\ session[r] = NewSession /\ MaxCalls[r] \in Nat
    BY RequestsAssumption DEF Init
  <2>2. <<>> \in Seq(Task(r)) /\ <<>> \in Seq(Entry(r)) /\ Len(<<>>) = 0
    BY EmptySeq
  <2>3. Queued(r) = 0 - 1 \/ Queued(r) = 0 - 0
    BY <2>1, <2>2 DEF Queued, NoRequest
  <2> QED
    BY <2>1, <2>2, <2>3, RequestsAssumption
       DEF NoRequest, NewSession, RequestType, SessionType, Control, QueuedValues
<1>4. stores \in [Request \cup {Shared} -> StoreType]
  BY DEF Init, NewStore, StoreType
<1> QED
  BY <1>1, <1>2, <1>3, <1>4 DEF Init, TypeOK, ControlOK

LEMMA StepTyped == TypeOK /\ ControlOK /\ [Next]_vars => TypeOK' /\ ControlOK'
<1> SUFFICES ASSUME TypeOK, ControlOK, [Next]_vars PROVE TypeOK' /\ ControlOK'
  OBVIOUS
<1>1. ASSUME NEW r \in Request, Arrive(r) \/ Step(r)
      PROVE  TypeOK' /\ ControlOK'
  BY <1>1, ArriveTyped, QueueTyped, CallTyped, WriteStartsTyped, WriteDoneTyped,
     WriteFailsTyped, ReadTyped, LeaveTyped, FinishTyped
     DEF Step
<1> QED
  BY <1>1, ShutdownTyped, StutterTyped DEF Next

\* The variables have their types, and what a request is doing fits together: a
\* session has one call under way, and its exit is the last (async_session.py).
THEOREM TypeCorrect == Spec => [](TypeOK /\ ControlOK)
<1> QED
  BY InitTyped, StepTyped, PTL DEF Spec

-----------------------------------------------------------------------------
(* Upserts                                                                 *)

\* Handlers do one thing at a time: a call does not begin while a write is under way.
LEMMA NotWriting ==
  ASSUME TypeOK, ControlOK, NEW r \in Request
  PROVE  /\ request[r].writing => request[r].at \in {"handling", "exiting"}
         /\ Handling(r) \/ Reading(r) \/ request[r].at \in {"idle", "closing", "ended"}
              => ~request[r].writing
<1>1. request[r] \in RequestType(r) /\ Control(request[r])
  BY Facts DEF ControlOK
<1> QED
  BY <1>1, RequestsAssumption DEF RequestType, Control, Handling, Reading

\* The steps that neither begin nor end a write.
Quiet(r) ==
  \/ Arrive(r) \/ FlushNow(r) \/ GetDone(r) \/ GetFails(r) \/ Finish(r)
  \/ \E s \in Subject : Queue(r, s) \/ Get(r, s) \/ Write(r, s)
  \/ \E failed \in BOOLEAN : Leave(r, failed)

LEMMA QuietStep ==
  ASSUME TypeOK, ControlOK, NEW r \in Request, Quiet(r)
  PROVE  /\ endpoint' = endpoint /\ policy' = policy /\ up' = up
         /\ tried' = tried /\ written' = written
         /\ ~request[r].writing /\ ~request'[r].writing
         /\ \A o \in Request \ {r} : request'[o] = request[o] /\ session'[o] = session[o]
<1>1. request[r] \in RequestType(r) /\ DOMAIN request = Request /\ DOMAIN session = Request
  BY DEF TypeOK
<1>2. CASE Arrive(r)
  BY <1>1, <1>2, NotWriting DEF Arrive, RequestType
<1>3. ASSUME NEW s \in Subject, Queue(r, s)
      PROVE  /\ request'[r] = [request[r] EXCEPT !.calls = @ + 1] /\ Handling(r)
             /\ endpoint' = endpoint /\ policy' = policy /\ up' = up
             /\ tried' = tried /\ written' = written
             /\ \A o \in Request \ {r} : request'[o] = request[o] /\ session'[o] = session[o]
  BY <1>1, <1>3 DEF Queue, Calls
<1>4. ASSUME NEW op, NEW s, NEW todo, Begin(r, op, s, todo)
      PROVE  /\ request'[r] = [request[r] EXCEPT !.op = op, !.subject = s, !.todo = todo,
                                                 !.calls = @ + 1]
             /\ Handling(r)
             /\ endpoint' = endpoint /\ policy' = policy /\ up' = up
             /\ tried' = tried /\ written' = written
             /\ \A o \in Request \ {r} : request'[o] = request[o] /\ session'[o] = session[o]
  BY <1>1, <1>4 DEF Begin, Calls, history
<1>5. CASE GetDone(r)
  BY <1>1, <1>5, NotWriting DEF GetDone, RequestType, history
<1>6. CASE GetFails(r)
  BY <1>1, <1>6, NotWriting DEF GetFails, RequestType, history
<1>7. ASSUME NEW failed \in BOOLEAN, Leave(r, failed)
      PROVE  /\ \E todo, op, at :
                  request'[r] = [request[r] EXCEPT !.failed = failed, !.todo = todo,
                                                   !.op = op, !.at = at]
             /\ Handling(r)
             /\ endpoint' = endpoint /\ policy' = policy /\ up' = up
             /\ tried' = tried /\ written' = written
             /\ \A o \in Request \ {r} : request'[o] = request[o] /\ session'[o] = session[o]
  BY <1>1, <1>7 DEF Leave
<1>8. CASE Finish(r)
  BY <1>1, <1>8, NotWriting DEF Finish, NoRequest
<1>9. ASSUME NEW s \in Subject, Queue(r, s)
      PROVE  ~request[r].writing /\ ~request'[r].writing
  BY <1>1, <1>3, <1>9, NotWriting DEF RequestType
<1>10. ASSUME NEW op, NEW s, NEW todo, Begin(r, op, s, todo)
       PROVE  ~request[r].writing /\ ~request'[r].writing
  BY <1>1, <1>4, <1>10, NotWriting DEF RequestType
<1>11. ASSUME NEW failed \in BOOLEAN, Leave(r, failed)
       PROVE  ~request[r].writing /\ ~request'[r].writing
  BY <1>1, <1>7, <1>11, NotWriting DEF RequestType
<1> QED
  BY <1>2, <1>3, <1>4, <1>5, <1>6, <1>7, <1>8, <1>9, <1>10, <1>11
     DEF Quiet, FlushNow, Get, Write

\* The steps that end a write.
LEMMA EndStep ==
  ASSUME TypeOK, ControlOK, NEW r \in Request, WriteDone(r) \/ WriteFails(r)
  PROVE  /\ request[r].writing /\ ~request'[r].writing
         /\ request[r].todo # <<>> /\ Head1(r).subject \in Subject
         /\ \A o \in Request \ {r} : request'[o] = request[o] /\ session'[o] = session[o]
         /\ \/ endpoint' = endpoint
            \/ endpoint' = [endpoint EXCEPT ![Head1(r).subject] = Updated(@, r)]
         /\ policy' = policy /\ up' = up /\ tried' = tried /\ dropped' = dropped
<1>1. /\ request[r] \in RequestType(r) /\ DOMAIN request = Request /\ DOMAIN session = Request
      /\ request[r].writing /\ request[r].todo # <<>> /\ Head1(r).subject \in Subject
  BY UpdatedType DEF TypeOK, WriteDone, WriteFails
<1>2. CASE WriteDone(r)
  BY <1>1, <1>2 DEF WriteDone, RequestType
<1>3. CASE WriteFails(r)
  BY <1>1, <1>3 DEF WriteFails, RequestType
<1> QED
  BY <1>1, <1>2, <1>3

\* The step that begins one.
LEMMA StartStep ==
  ASSUME TypeOK, ControlOK, NEW r \in Request, NEW s \in Subject, WriteStarts(r, s)
  PROVE  /\ ~request[r].writing /\ request'[r].writing /\ Head1(r).subject = s
         /\ request'[r].removing = Owned(r, s) /\ request'[r].todo = request[r].todo
         /\ request'[r].at = request[r].at /\ request'[r].op = request[r].op
         /\ request'[r].exact =>
              /\ stores[StoreOf(r)].mirror[s] = endpoint[s]
              /\ \A o \in Request \ {r} : request[o].writing => Head1(o).subject # s
         /\ \A o \in Request \ {r} :
              /\ request'[o].writing = request[o].writing /\ request'[o].todo = request[o].todo
              /\ request'[o].removing = request[o].removing
              /\ request'[o].at = request[o].at /\ request'[o].op = request[o].op
              /\ request'[o].failed = request[o].failed
              /\ request'[o].exitFailed = request[o].exitFailed
              /\ request'[o].exact =>
                   request[o].exact /\ (request[o].writing => Head1(o).subject # s)
         /\ \A o \in Request \ {r} : session'[o] = session[o]
         /\ endpoint' = endpoint /\ stores' = stores
<1> DEFINE others == {o \in Request \ {r} : request[o].writing /\ Head1(o).subject = s}
           exact == others = {} /\ stores[StoreOf(r)].mirror[s] = endpoint[s]
<1>1. /\ request' = [o \in Request |->
           IF o = r THEN [request[r] EXCEPT !.writing = TRUE, !.removing = Owned(r, s),
                                            !.exact = exact]
           ELSE IF o \in others THEN [request[o] EXCEPT !.exact = FALSE]
           ELSE request[o]]
      /\ exact \in BOOLEAN /\ endpoint' = endpoint /\ stores' = stores
      /\ ~request[r].writing /\ Head1(r).subject = s
      /\ exact => /\ stores[StoreOf(r)].mirror[s] = endpoint[s]
                  /\ \A o \in Request \ {r} : request[o].writing => Head1(o).subject # s
  BY DEF WriteStarts
<1>2. request'[r] = [request[r] EXCEPT !.writing = TRUE, !.removing = Owned(r, s), !.exact = exact]
  BY <1>1
<1>6. \A o \in Request \ {r} : session'[o] = session[o]
  BY DEF WriteStarts, TypeOK
<1> HIDE DEF exact
<1>3. \A o \in Request : request[o] \in RequestType(o)
  BY DEF TypeOK
<1>4. /\ request'[r].writing /\ request'[r].removing = Owned(r, s)
      /\ request'[r].todo = request[r].todo /\ request'[r].exact = exact
      /\ request'[r].at = request[r].at /\ request'[r].op = request[r].op
  BY <1>2, <1>3 DEF RequestType
<1>5. ASSUME NEW o \in Request \ {r}
      PROVE  /\ request'[o].writing = request[o].writing /\ request'[o].todo = request[o].todo
             /\ request'[o].removing = request[o].removing
             /\ request'[o].at = request[o].at /\ request'[o].op = request[o].op
             /\ request'[o].failed = request[o].failed
             /\ request'[o].exitFailed = request[o].exitFailed
             /\ request'[o].exact =>
                  request[o].exact /\ (request[o].writing => Head1(o).subject # s)
  <2>1. CASE o \in others
    <3>1. request'[o] = [request[o] EXCEPT !.exact = FALSE]
      BY <1>1, <2>1
    <3> QED
      BY <1>3, <3>1 DEF RequestType
  <2>2. CASE o \notin others
    <3>1. request'[o] = request[o] /\ (request[o].writing => Head1(o).subject # s)
      BY <1>1, <2>2
    <3> QED
      BY <3>1
  <2> QED
    BY <2>1, <2>2
<1> QED
  BY <1>1, <1>4, <1>5, <1>6

LEMMA NextSteps ==
  ASSUME TypeOK, ControlOK, [Next]_vars
  PROVE  \/ \E r \in Request : Quiet(r)
         \/ \E r \in Request, s \in Subject : WriteStarts(r, s)
         \/ \E r \in Request : WriteDone(r) \/ WriteFails(r)
         \/ Shutdown
         \/ UNCHANGED vars
  BY DEF Next, Step, Quiet

LEMMA ExactStep == TypeOK /\ ControlOK /\ ExactOK /\ [Next]_vars => ExactOK'
<1> SUFFICES ASSUME TypeOK, ControlOK, ExactOK, [Next]_vars,
                    NEW o \in Request, request'[o].exact
             PROVE  /\ endpoint'[Head1(o)'.subject] \subseteq request'[o].removing
                    /\ \A p \in Request \ {o} :
                         request'[p].writing => Head1(p)'.subject # Head1(o)'.subject
  BY DEF ExactOK
<1>1. ControlOK' /\ request'[o].writing
  BY StepTyped DEF ControlOK, Control
<1>2. ASSUME NEW r \in Request, Quiet(r)
      PROVE  /\ endpoint'[Head1(o)'.subject] \subseteq request'[o].removing
             /\ \A p \in Request \ {o} :
                  request'[p].writing => Head1(p)'.subject # Head1(o)'.subject
  BY <1>1, <1>2, QuietStep DEF ExactOK, Head1
<1>3. ASSUME NEW r \in Request, NEW s \in Subject, WriteStarts(r, s)
      PROVE  /\ endpoint'[Head1(o)'.subject] \subseteq request'[o].removing
             /\ \A p \in Request \ {o} :
                  request'[p].writing => Head1(p)'.subject # Head1(o)'.subject
  BY <1>1, <1>3, StartStep DEF ExactOK, Head1, Owned
<1>4. ASSUME NEW r \in Request, WriteDone(r) \/ WriteFails(r)
      PROVE  /\ endpoint'[Head1(o)'.subject] \subseteq request'[o].removing
             /\ \A p \in Request \ {o} :
                  request'[p].writing => Head1(p)'.subject # Head1(o)'.subject
  <2>1. o # r /\ request'[o] = request[o] /\ Head1(o)' = Head1(o)
    BY <1>1, <1>4, EndStep DEF Head1
  <2>2. Head1(r).subject # Head1(o).subject
    BY <1>4, <2>1, EndStep DEF ExactOK
  <2>3. endpoint'[Head1(o).subject] = endpoint[Head1(o).subject]
    <3>1. Head1(o).subject \in Subject /\ DOMAIN endpoint = Subject
      BY <1>1, <2>1, UpdatedType DEF TypeOK
    <3>2. \/ endpoint' = endpoint
          \/ endpoint' = [endpoint EXCEPT ![Head1(r).subject] = Updated(@, r)]
      BY <1>4, EndStep
    <3> QED
      BY <2>2, <3>1, <3>2
  <2> QED
    BY <1>4, <2>1, <2>3, EndStep DEF ExactOK, Head1
<1>5. CASE Shutdown
  BY <1>5 DEF Shutdown, ExactOK, Head1
<1>6. CASE UNCHANGED vars
  BY <1>6 DEF vars, ExactOK, Head1
<1> QED
  BY <1>2, <1>3, <1>4, <1>5, <1>6, NextSteps

\* UpsertExact: what a write removes was read before the wait and is still all that
\* the endpoint holds when it ends, if no other request has been writing the same.
THEOREM UpsertsAreExact == Spec => UpsertExact
<1>1. Init => ExactOK
  BY DEF Init, NoRequest, ExactOK
<1>2. TypeOK /\ ControlOK /\ ExactOK /\ [Next]_vars =>
        [\A r \in Request :
           WriteDone(r) /\ request[r].exact =>
             endpoint'[Head1(r).subject] = {Head1(r).value} \ {None}]_vars
  <2> SUFFICES ASSUME TypeOK, ControlOK, ExactOK,
                      NEW r \in Request, WriteDone(r), request[r].exact
               PROVE  endpoint'[Head1(r).subject] = {Head1(r).value} \ {None}
    OBVIOUS
  <2>1. /\ Head1(r).subject \in Subject
        /\ endpoint' = [endpoint EXCEPT ![Head1(r).subject] =
                          Updated(endpoint[Head1(r).subject], r)]
        /\ DOMAIN endpoint = Subject
    BY EndStep DEF WriteDone, TypeOK
  <2>2. endpoint[Head1(r).subject] \subseteq request[r].removing
    BY DEF ExactOK
  <2> QED
    BY <2>1, <2>2 DEF Updated
<1> QED
  BY <1>1, <1>2, InitTyped, StepTyped, ExactStep, PTL DEF Spec, UpsertExact

-----------------------------------------------------------------------------
(* Stores                                                                  *)

\* A step of a request that neither arrives nor finishes opens and closes nothing.
LEMMA BusyStep ==
  ASSUME TypeOK, ControlOK, NEW r \in Request, Step(r), ~Finish(r)
  PROVE  /\ request[r].at \in {"handling", "exiting"}
         /\ request'[r].at \in {"handling", "exiting", "closing"}
         /\ \A o \in Request \ {r} :
              request'[o].at = request[o].at /\ session'[o] = session[o]
         /\ policy' = policy /\ up' = up
         /\ \A i \in Request \cup {Shared} : stores'[i].open = stores[i].open
<1>1. /\ request[r] \in RequestType(r) /\ Control(request[r])
      /\ DOMAIN request = Request /\ DOMAIN session = Request
      /\ stores \in [Request \cup {Shared} -> StoreType]
  BY Facts DEF TypeOK, ControlOK
<1>2. ASSUME NEW s \in Subject, Queue(r, s)
      PROVE  /\ request[r].at = "handling" /\ request'[r].at = "handling" /\ stores' = stores
  BY <1>1, <1>2 DEF Queue, Calls, Handling, RequestType
<1>3. ASSUME NEW op, NEW s, NEW todo, Begin(r, op, s, todo)
      PROVE  /\ request[r].at = "handling" /\ request'[r].at = "handling" /\ stores' = stores
  BY <1>1, <1>3 DEF Begin, Calls, Handling, RequestType
<1>4. ASSUME NEW s \in Subject, WriteStarts(r, s)
      PROVE  /\ request[r].at \in {"handling", "exiting"} /\ request'[r].at = request[r].at
             /\ \A o \in Request \ {r} :
                  request'[o].at = request[o].at /\ session'[o] = session[o]
             /\ policy' = policy /\ up' = up /\ stores' = stores
  <2>1. request[r].todo # <<>> /\ policy' = policy /\ up' = up /\ stores' = stores
    BY <1>4 DEF WriteStarts
  <2>2. request[r].at \in {"handling", "exiting"}
    BY <1>1, <2>1 DEF Control, RequestType
  <2> QED
    BY <1>4, <2>1, <2>2, StartStep
<1>5. ASSUME WriteDone(r) \/ WriteFails(r)
      PROVE  /\ request[r].at \in {"handling", "exiting"}
             /\ request'[r].at = request[r].at \/ request'[r].at = "closing"
             /\ \A i \in Request \cup {Shared} : stores'[i].open = stores[i].open
  <2>1. request[r].at \in {"handling", "exiting"}
    BY <1>5, NotWriting DEF WriteDone, WriteFails
  <2>2. request'[r].at = request[r].at \/ request'[r].at = "closing"
    <3>1. CASE WriteDone(r)
      BY <1>1, <3>1 DEF WriteDone, RequestType
    <3>2. CASE WriteFails(r)
      BY <1>1, <3>2 DEF WriteFails, RequestType
    <3> QED
      BY <1>5, <3>1, <3>2
  <2>3. ASSUME NEW i \in Request \cup {Shared}
        PROVE  stores'[i].open = stores[i].open
    <3>1. CASE WriteDone(r)
      <4>1. PICK mirror : stores' = [stores EXCEPT ![StoreOf(r)] = [@ EXCEPT !.mirror = mirror]]
        BY <3>1 DEF WriteDone
      <4> QED
        BY <1>1, <4>1 DEF StoreType
    <3>2. CASE WriteFails(r)
      BY <3>2 DEF WriteFails
    <3> QED
      BY <1>5, <3>1, <3>2
  <2> QED
    BY <2>1, <2>2, <2>3
<1>6. ASSUME GetDone(r) \/ GetFails(r)
      PROVE  /\ request[r].at = "handling" /\ request'[r].at = "handling"
             /\ \A i \in Request \cup {Shared} : stores'[i].open = stores[i].open
  <2>1. request[r].op = "get" /\ request[r].at = "handling"
    BY <1>1, <1>6 DEF GetDone, GetFails, Reading, Control, RequestType
  <2>2. request'[r].at = "handling"
    BY <1>1, <1>6, <2>1 DEF GetDone, GetFails, RequestType
  <2>3. Pull(r, request[r].subject).open = stores[StoreOf(r)].open
    <3>1. stores[StoreOf(r)] \in StoreType
      BY Facts
    <3> QED
      BY <3>1 DEF Pull, StoreType
  <2>4. \/ stores' = [stores EXCEPT ![StoreOf(r)] = Pull(r, request[r].subject)]
        \/ stores' = stores
    BY <1>6 DEF GetDone, GetFails
  <2>5. ASSUME NEW i \in Request \cup {Shared}
        PROVE  stores'[i].open = stores[i].open
    BY <1>1, <2>3, <2>4
  <2> QED
    BY <2>1, <2>2, <2>5
<1>7. ASSUME NEW failed \in BOOLEAN, Leave(r, failed)
      PROVE  /\ request[r].at = "handling" /\ request'[r].at \in {"closing", "exiting"}
             /\ stores' = stores
  BY <1>1, <1>7 DEF Leave, Handling, RequestType
<1>8. ASSUME Quiet(r)
      PROVE  /\ \A o \in Request \ {r} : request'[o].at = request[o].at /\ session'[o] = session[o]
             /\ policy' = policy /\ up' = up
  BY <1>8, QuietStep
<1> QED
  BY <1>2, <1>3, <1>4, <1>5, <1>6, <1>7, <1>8, EndStep DEF Step, Quiet, Get, FlushNow, Write

LEMMA LifetimesStep ==
  TypeOK /\ ControlOK /\ LifetimesOK /\ StoreLifetimes /\ [Next]_vars
    => LifetimesOK' /\ StoreLifetimes'
<1> SUFFICES ASSUME TypeOK, ControlOK, LifetimesOK, StoreLifetimes, [Next]_vars
             PROVE  LifetimesOK' /\ StoreLifetimes'
  OBVIOUS
<1> USE DEF LifetimesOK, StoreLifetimes, Ended
<1>1. stores \in [Request \cup {Shared} -> StoreType] /\ DOMAIN request = Request
  BY DEF TypeOK
<1>2. ASSUME NEW r \in Request, Arrive(r)
      PROVE  LifetimesOK' /\ StoreLifetimes'
  <2>1. /\ policy' = policy /\ up' = up /\ request'[r].at = "handling"
        /\ \A o \in Request \ {r} : request'[o] = request[o] /\ session'[o] = session[o]
        /\ \/ policy.shared /\ stores' = stores
           \/ ~policy.shared /\ stores' = [stores EXCEPT ![r] = NewStore(TRUE)]
    <3>1. request[r] \in RequestType(r)
      BY Facts
    <3> QED
      BY <1>1, <1>2, <3>1 DEF Arrive, RequestType
  <2> QED
    BY <1>1, <2>1, RequestsAssumption DEF NewStore
<1>3. ASSUME NEW r \in Request, Finish(r)
      PROVE  LifetimesOK' /\ StoreLifetimes'
  <2>1. /\ policy' = policy /\ up' = up /\ request[r].at = "closing" /\ request'[r].at = "ended"
        /\ session'[r].pending = session[r].pending
        /\ \A o \in Request \ {r} : request'[o] = request[o] /\ session'[o] = session[o]
    BY <1>1, <1>3 DEF Finish, TypeOK, NoRequest, NewSession
  <2>2. CASE policy.close /\ session[r].pending = <<>>
    <3>1. /\ stores'[StoreOf(r)].open = FALSE /\ StoreOf(r) \in Request \cup {Shared}
          /\ \A i \in (Request \cup {Shared}) \ {StoreOf(r)} : stores'[i] = stores[i]
      BY <1>1, <1>3, <2>2, Facts DEF Finish, StoreType
    <3> QED
      BY <2>1, <2>2, <3>1, RequestsAssumption DEF StoreOf
  <2>3. CASE ~(policy.close /\ session[r].pending = <<>>)
    <3>1. stores' = stores
      BY <1>3, <2>3 DEF Finish
    <3> QED
      BY <2>1, <2>3, <3>1
  <2> QED
    BY <2>2, <2>3
<1>4. ASSUME NEW r \in Request, Step(r), ~Finish(r)
      PROVE  LifetimesOK' /\ StoreLifetimes'
  BY <1>1, <1>4, BusyStep
<1>5. CASE Shutdown
  BY <1>1, <1>5, RequestsAssumption DEF Shutdown
<1>6. CASE UNCHANGED vars
  BY <1>6 DEF vars
<1> QED
  BY <1>2, <1>3, <1>4, <1>5, <1>6 DEF Next

\* StoreLifetimes, for every way to set up the dependency: an exit closes a shared
\* store only if it was given with close_on_exit=True, and the store of a request
\* stays open until its own exit (_resolve_store, session_dependency, close).
THEOREM StoresLive == Spec => []StoreLifetimes
<1>1. Init => LifetimesOK /\ StoreLifetimes
  <2> SUFFICES ASSUME Init PROVE LifetimesOK /\ StoreLifetimes
    OBVIOUS
  <2>1. PICK d \in Dependencies : policy = Policy(d)
    BY DEF Init
  <2>2. policy.shared /\ policy.close => policy.warned
    <3>1. d \in AllDependencies
      BY RequestsAssumption
    <3> QED
      BY <2>1, <3>1, RequestsAssumption
         DEF Policy, Warned, ResolveStore, CustomStore, AllDependencies
  <2>3. \A r \in Request : request[r].at = "idle"
    BY DEF Init, NoRequest
  <2>4. stores[Shared].open
    BY DEF Init, NewStore
  <2> QED
    BY <2>2, <2>3, <2>4 DEF LifetimesOK, StoreLifetimes, Ended
<1> QED
  BY <1>1, InitTyped, StepTyped, LifetimesStep, PTL DEF Spec

-----------------------------------------------------------------------------
(* Failed requests                                                         *)

LEMMA OwnApart ==
  ASSUME NEW r \in Request
  PROVE  /\ None \notin Own(r) /\ Old \notin Own(r)
         /\ \A o \in Request \ {r} : Own(r) \cap Own(o) = {}
<1>1. None \notin Own(r) /\ Old \notin Own(r)
  BY RequestsAssumption DEF Own
<1>2. ASSUME NEW o \in Request \ {r} PROVE Own(r) \cap Own(o) = {}
  BY DEF Own
<1> QED
  BY <1>1, <1>2

\* What stores hold was tried, or was there from the start.
StoredOK ==
  /\ \A s \in Subject : endpoint[s] \subseteq tried \cup {Old}
  /\ \A i \in Request \cup {Shared}, s \in Subject :
       stores[i].mirror[s] \subseteq tried \cup {Old}
  /\ \A r \in Request : request[r].writing => Head1(r).value \in tried

LEMMA StoredStep == TypeOK /\ ControlOK /\ StoredOK /\ [Next]_vars => StoredOK'
<1> SUFFICES ASSUME TypeOK, ControlOK, StoredOK, [Next]_vars PROVE StoredOK'
  OBVIOUS
<1>1. /\ stores \in [Request \cup {Shared} -> StoreType]
      /\ endpoint \in [Subject -> SUBSET Value]
  BY DEF TypeOK
<1>2. ASSUME NEW r \in Request, Quiet(r)
      PROVE  StoredOK'
  <2>1. /\ endpoint' = endpoint /\ tried' = tried
        /\ \A o \in Request : request'[o].writing =>
             request[o].writing /\ Head1(o)' = Head1(o)
    BY <1>2, QuietStep DEF Head1
  <2>2. ASSUME NEW i \in Request \cup {Shared}, NEW s \in Subject
        PROVE  stores'[i].mirror[s] \subseteq tried \cup {Old}
    <3>1. CASE stores' = stores
      BY <3>1 DEF StoredOK
    <3>2. CASE Arrive(r)
      BY <1>1, <3>2 DEF Arrive, NewStore, StoredOK
    <3>3. CASE GetDone(r)
      <4>1. /\ stores' = [stores EXCEPT ![StoreOf(r)] = Pull(r, request[r].subject)]
            /\ stores[StoreOf(r)] \in StoreType /\ StoreOf(r) \in Request \cup {Shared}
        BY <3>3, Facts DEF GetDone
      <4>2. \/ Pull(r, request[r].subject).mirror[s] = stores[StoreOf(r)].mirror[s]
            \/ Pull(r, request[r].subject).mirror[s] = endpoint[s]
        BY <4>1 DEF Pull, StoreType
      <4>3. \/ stores'[i] = stores[i]
            \/ i = StoreOf(r) /\ stores'[i] = Pull(r, request[r].subject)
        BY <1>1, <4>1
      <4> QED
        BY <4>1, <4>2, <4>3 DEF StoredOK
    <3>4. CASE Finish(r)
      <4>1. stores'[i].mirror = stores[i].mirror
        BY <1>1, <3>4 DEF Finish, StoreType
      <4> QED
        BY <4>1 DEF StoredOK
    <3> QED
      BY <1>2, <3>1, <3>2, <3>3, <3>4
         DEF Quiet, Queue, FlushNow, Get, Write, Begin, GetFails, Leave
  <2> QED
    BY <2>1, <2>2 DEF StoredOK
<1>3. ASSUME NEW r \in Request, NEW s \in Subject, WriteStarts(r, s)
      PROVE  StoredOK'
  <2>1. tried' = tried \cup {Head1(r).value} /\ endpoint' = endpoint /\ stores' = stores
    BY <1>3 DEF WriteStarts
  <2>2. ASSUME NEW o \in Request, request'[o].writing
        PROVE  Head1(o)'.value \in tried'
    <3>1. Head1(o)' = Head1(o) /\ (o # r => request[o].writing)
      BY <1>3, <2>2, StartStep DEF Head1
    <3> QED
      BY <2>1, <3>1 DEF StoredOK
  <2> QED
    BY <2>1, <2>2 DEF StoredOK
<1>4. ASSUME NEW r \in Request, WriteDone(r) \/ WriteFails(r)
      PROVE  StoredOK'
  <2>1. /\ tried' = tried /\ request[r].writing /\ Head1(r).value \in tried
        /\ Head1(r).subject \in Subject
        /\ \A o \in Request : request'[o].writing =>
             request[o].writing /\ Head1(o)' = Head1(o)
    BY <1>4, EndStep DEF Head1, StoredOK
  <2>2. ASSUME NEW values, values \subseteq tried \cup {Old}
        PROVE  Updated(values, r) \subseteq tried \cup {Old}
    BY <2>1, <2>2 DEF Updated
  <2>3. ASSUME NEW s \in Subject
        PROVE  endpoint'[s] \subseteq tried \cup {Old}
    <3>1. \/ endpoint' = endpoint
          \/ endpoint' = [endpoint EXCEPT ![Head1(r).subject] =
                            Updated(endpoint[Head1(r).subject], r)]
      BY <1>4, EndStep
    <3>2. endpoint'[s] = endpoint[s] \/ endpoint'[s] = Updated(endpoint[s], r)
      BY <1>1, <3>1
    <3> QED
      BY <2>2, <3>2 DEF StoredOK
  <2>4. ASSUME NEW i \in Request \cup {Shared}, NEW s \in Subject
        PROVE  stores'[i].mirror[s] \subseteq tried \cup {Old}
    <3>1. \/ stores' = stores
          \/ stores' = [stores EXCEPT ![StoreOf(r)].mirror[Head1(r).subject] = Updated(@, r)]
      BY <1>4 DEF WriteDone, WriteFails
    <3>2. \/ stores'[i].mirror[s] = stores[i].mirror[s]
          \/ stores'[i].mirror[s] = Updated(stores[i].mirror[s], r)
      BY <1>1, <3>1 DEF StoreType
    <3> QED
      BY <2>2, <3>2 DEF StoredOK
  <2> QED
    BY <2>1, <2>3, <2>4 DEF StoredOK
<1>5. CASE Shutdown
  <2>1. \A i \in Request \cup {Shared} : stores'[i].mirror = stores[i].mirror
    BY <1>1, <1>5 DEF Shutdown, StoreType
  <2>2. endpoint' = endpoint /\ request' = request /\ tried' = tried
    BY <1>5 DEF Shutdown, history
  <2> QED
    BY <2>1, <2>2 DEF StoredOK, Head1
<1>6. CASE UNCHANGED vars
  BY <1>6 DEF vars, history, StoredOK, Head1
<1> QED
  BY <1>2, <1>3, <1>4, <1>5, <1>6, NextSteps

\* What was dropped belongs to a request that has left, and was never tried.
DroppedOK ==
  /\ dropped \cap tried = {}
  /\ \A v \in dropped : \E r \in Request : v \in Own(r) /\ request[r].at \in {"closing", "ended"}

LEMMA DroppedStep == TypeOK /\ ControlOK /\ DroppedOK /\ [Next]_vars => DroppedOK'
<1> SUFFICES ASSUME TypeOK, ControlOK, DroppedOK, [Next]_vars PROVE DroppedOK'
  OBVIOUS
<1>1. ASSUME NEW r \in Request, Arrive(r) \/ Step(r),
             NEW o \in Request, request[o].at \in {"closing", "ended"}
      PROVE  request'[o].at \in {"closing", "ended"}
  <2>1. CASE Arrive(r)
    <3>1. o # r
      BY <1>1, <2>1 DEF Arrive
    <3> QED
      BY <1>1, <2>1, <3>1 DEF Arrive, TypeOK
  <2>2. CASE Finish(r)
    BY <1>1, <2>2 DEF Finish, NoRequest, TypeOK
  <2> QED
    BY <1>1, <2>1, <2>2, BusyStep
<1>2. ASSUME NEW r \in Request, NEW s \in Subject, WriteStarts(r, s)
      PROVE  DroppedOK'
  <2>1. /\ tried' = tried \cup {Head1(r).value} /\ dropped' = dropped
        /\ request[r].todo # <<>>
    BY <1>2 DEF WriteStarts
  <2>2. request[r].at \in {"handling", "exiting"} /\ Head1(r).value \in Own(r) \cup {None}
    <3>1. Control(request[r]) /\ Head1(r) \in Task(r) /\ request[r] \in RequestType(r)
      BY <2>1, Facts DEF ControlOK
    <3> QED
      BY <2>1, <3>1 DEF Control, Task, RequestType
  <2>3. Head1(r).value \notin dropped
    BY <2>2, OwnApart DEF DroppedOK
  <2>4. Step(r)
    BY <1>2 DEF Step
  <2> QED
    BY <1>1, <2>1, <2>3, <2>4 DEF DroppedOK
<1>3. ASSUME NEW r \in Request, NEW failed \in BOOLEAN, Leave(r, failed)
      PROVE  DroppedOK'
  <2>1. Step(r) /\ tried' = tried
    BY <1>3 DEF Step, Leave
  <2>2. CASE ~failed
    BY <1>1, <1>3, <2>1, <2>2 DEF Leave, DroppedOK
  <2>3. CASE failed
    <3>1. dropped' = dropped \cup ({w.value : w \in ToSet(session[r].pending)} \ tried)
      BY <1>3, <2>3 DEF Leave
    <3>2. \A w \in ToSet(session[r].pending) : w.value \in Own(r)
      <4>1. \A i \in 1 .. Len(session[r].pending) : session[r].pending[i] \in Entry(r)
        BY Facts, ElementOfSeq
      <4>2. DOMAIN session[r].pending = 1 .. Len(session[r].pending)
        BY Facts, LenProperties
      <4> QED
        BY <4>1, <4>2 DEF ToSet, Entry
    <3>3. request'[r].at = "closing"
      <4>1. request[r] \in RequestType(r) /\ DOMAIN request = Request
        BY Facts DEF TypeOK
      <4>2. ExitQueue(r, failed) = <<>>
        BY <2>3 DEF ExitQueue
      <4> QED
        BY <1>3, <4>1, <4>2 DEF Leave, RequestType
    <3>4. \A v \in dropped' : \E o \in Request :
            v \in Own(o) /\ request'[o].at \in {"closing", "ended"}
      BY <1>1, <2>1, <3>1, <3>2, <3>3 DEF DroppedOK
    <3> QED
      BY <2>1, <3>1, <3>4 DEF DroppedOK
  <2> QED
    BY <2>2, <2>3
<1>4. ASSUME NEW r \in Request, Arrive(r) \/ Step(r), tried' = tried, dropped' = dropped
      PROVE  DroppedOK'
  BY <1>1, <1>4 DEF DroppedOK
<1>5. ASSUME Shutdown \/ UNCHANGED vars
      PROVE  DroppedOK'
  BY <1>5 DEF Shutdown, vars, history, DroppedOK
<1>6. ASSUME NEW r \in Request, Arrive(r) \/ Step(r)
      PROVE  \/ tried' = tried /\ dropped' = dropped
             \/ \E s \in Subject : WriteStarts(r, s)
             \/ \E failed \in BOOLEAN : Leave(r, failed)
  BY <1>6 DEF Step, Arrive, Queue, Get, Write, FlushNow, Begin, WriteDone, WriteFails,
              GetDone, GetFails, Finish, history
<1> QED
  BY <1>2, <1>3, <1>4, <1>5, <1>6 DEF Next

\* FailureLeavesNothing: a failed request ends without writing (__aexit__), so the
\* values it had queued stay values that nobody tried to write.
THEOREM FailuresLeaveNothing == Spec => []FailureLeavesNothing
<1>1. Init => StoredOK /\ DroppedOK
  BY DEF Init, NewStore, NoRequest, StoredOK, DroppedOK
<1>2. StoredOK /\ DroppedOK => FailureLeavesNothing
  BY OwnApart DEF StoredOK, DroppedOK, FailureLeavesNothing
<1> QED
  BY <1>1, <1>2, InitTyped, StepTyped, StoredStep, DroppedStep, PTL DEF Spec

-----------------------------------------------------------------------------
(* Reads                                                                   *)

Active(r) == request[r].at \in {"handling", "exiting", "closing"}

\* A request under way has seen what the endpoint and its store hold.
SeenOK ==
  /\ DOMAIN seen = Request
  /\ \A r \in Request, s \in Subject :
       Active(r) => /\ Readable(endpoint[s]) \subseteq seen[r][s]
                    /\ stores[StoreOf(r)].mirror[s] \subseteq seen[r][s]

\* It caches and answers nothing else.
Cached(r) ==
  \A s \in Subject :
    session[r].cache[s] = None \/ (Active(r) /\ session[r].cache[s] \in seen[r][s])

Answered(r) ==
  \/ session[r].answer = None
  \/ /\ Active(r) /\ session[r].answer.subject \in Subject
     /\ session[r].answer.value \in seen[r][session[r].answer.subject]

CachedOK == \A r \in Request : Cached(r) /\ Answered(r)

LEMMA SeenKept ==
  ASSUME TypeOK, ControlOK, SeenOK, NEW r \in Request, Step(r), ~Finish(r)
  PROVE  /\ DOMAIN seen' = Request
         /\ \A o \in Request : Active(o)' <=> Active(o)
         /\ \A o \in Request, s \in Subject :
              Active(o) => /\ seen[o][s] \subseteq seen'[o][s]
                           /\ Readable(endpoint'[s]) \subseteq seen'[o][s]
<1>1. \A o \in Request : Active(o)' <=> Active(o)
  BY BusyStep DEF Active
<1>2. \A o \in Request :
        request[o].at \notin {"idle", "ended"} <=> Active(o)
  <2>1. \A o \in Request : request[o] \in RequestType(o)
    BY DEF TypeOK
  <2> QED
    BY <2>1 DEF RequestType, Active
<1>3. CASE SeenGrows
  <2>1. seen' = [o \in Request |->
             IF request[o].at \in {"idle", "ended"} THEN seen[o]
             ELSE [s \in Subject |-> seen[o][s] \cup Readable(endpoint'[s])]]
    BY <1>3 DEF SeenGrows
  <2>2. ASSUME NEW o \in Request, NEW s \in Subject, Active(o)
        PROVE  seen'[o][s] = seen[o][s] \cup Readable(endpoint'[s])
    BY <1>2, <2>1, <2>2
  <2> QED
    BY <1>1, <2>1, <2>2
<1>4. CASE seen' = seen /\ endpoint' = endpoint
  BY <1>1, <1>4 DEF SeenOK
<1>5. SeenGrows \/ (seen' = seen /\ endpoint' = endpoint)
  BY DEF Step, Queue, Get, Write, FlushNow, Begin, WriteStarts, WriteDone, WriteFails, GetDone,
         GetFails, Leave, history
<1> QED
  BY <1>3, <1>4, <1>5

\* What a request reads from its store, pulled if need be, it has seen.
LEMMA FoundSeen ==
  ASSUME TypeOK, SeenOK, CachedOK, NEW r \in Request, Active(r), NEW s \in Subject
  PROVE  /\ Found(r, s) \subseteq seen[r][s]
         /\ \A n \in Subject : Synced(r)[n] = None \/ Synced(r)[n] \in seen[r][n]
<1>1. \A n \in Subject : Synced(r)[n] = None \/ Synced(r)[n] \in seen[r][n]
  BY DEF Synced, CachedOK, Cached
<1>2. Readable(Pull(r, s).mirror[s]) \subseteq seen[r][s]
  <2> DEFINE store == stores[StoreOf(r)]
  <2>1. store \in StoreType /\ Readable(endpoint[s]) \subseteq seen[r][s]
        /\ store.mirror[s] \subseteq seen[r][s]
    BY Facts DEF SeenOK
  <2>2. CASE store.mirror[s] # {}
    BY <2>1, <2>2 DEF Pull, Readable
  <2>3. CASE store.mirror[s] = {}
    <3>1. Pull(r, s).mirror[s] = endpoint[s]
      BY <2>1, <2>3 DEF Pull, StoreType
    <3> QED
      BY <2>1, <3>1
  <2> QED
    BY <2>2, <2>3
<1>3. Found(r, s) \subseteq seen[r][s]
  BY <1>1, <1>2 DEF Found
<1> QED
  BY <1>1, <1>3

LEMMA SeenStep == TypeOK /\ ControlOK /\ SeenOK /\ [Next]_vars => SeenOK'
<1> SUFFICES ASSUME TypeOK, ControlOK, SeenOK, [Next]_vars PROVE SeenOK'
  OBVIOUS
<1>1. stores \in [Request \cup {Shared} -> StoreType] /\ DOMAIN request = Request
  BY DEF TypeOK
<1>2. ASSUME NEW r \in Request, Arrive(r)
      PROVE  SeenOK'
  <2>1. /\ policy' = policy /\ endpoint' = endpoint
        /\ seen' = [seen EXCEPT ![r] = [s \in Subject |-> Visible(r, s)]]
        /\ \A o \in Request \ {r} : request'[o] = request[o]
        /\ \/ policy.shared /\ stores' = stores
           \/ ~policy.shared /\ stores' = [stores EXCEPT ![r] = NewStore(TRUE)]
    BY <1>1, <1>2 DEF Arrive
  <2>2. ASSUME NEW s \in Subject
        PROVE  /\ Readable(endpoint'[s]) \subseteq seen'[r][s]
               /\ stores'[StoreOf(r)'].mirror[s] \subseteq seen'[r][s]
    <3>1. seen'[r][s] = Readable(endpoint[s]) \cup stores[StoreOf(r)].mirror[s]
      BY <2>1 DEF SeenOK, Visible
    <3>2. \/ stores'[StoreOf(r)'].mirror[s] = stores[StoreOf(r)].mirror[s]
          \/ stores'[StoreOf(r)'].mirror[s] = {}
      BY <1>1, <2>1 DEF StoreOf, NewStore
    <3> QED
      BY <2>1, <3>1, <3>2
  <2>3. ASSUME NEW o \in Request \ {r}
        PROVE  /\ Active(o)' <=> Active(o)
               /\ seen'[o] = seen[o] /\ stores'[StoreOf(o)'] = stores[StoreOf(o)]
    BY <1>1, <2>1 DEF SeenOK, StoreOf, Active
  <2>4. DOMAIN seen' = Request
    BY <2>1 DEF SeenOK
  <2> QED
    BY <2>1, <2>2, <2>3, <2>4 DEF SeenOK
<1>3. ASSUME NEW r \in Request, Finish(r)
      PROVE  SeenOK'
  <2>1. /\ policy' = policy /\ endpoint' = endpoint /\ ~Active(r)' /\ DOMAIN seen' = Request
        /\ \A o \in Request \ {r} : request'[o] = request[o] /\ seen'[o] = seen[o]
    BY <1>1, <1>3 DEF Finish, SeenOK, Active, NoRequest
  <2>2. \A i \in Request \cup {Shared} : stores'[i].mirror = stores[i].mirror
    BY <1>1, <1>3 DEF Finish, StoreType
  <2>3. \A o \in Request : StoreOf(o)' = StoreOf(o) /\ StoreOf(o) \in Request \cup {Shared}
    BY <2>1 DEF StoreOf
  <2> QED
    BY <2>1, <2>2, <2>3 DEF SeenOK, Active
<1>4. ASSUME NEW r \in Request, Step(r), ~Finish(r)
      PROVE  SeenOK'
  <2> SUFFICES ASSUME NEW o \in Request, NEW s \in Subject, Active(o)'
               PROVE  stores'[StoreOf(o)'].mirror[s] \subseteq seen'[o][s]
    BY <1>4, SeenKept DEF SeenOK
  <2> DEFINE i == StoreOf(o)
  <2>1. /\ Active(o) /\ seen[o][s] \subseteq seen'[o][s]
        /\ Readable(endpoint'[s]) \subseteq seen'[o][s]
        /\ policy' = policy
    BY <1>4, SeenKept, BusyStep
  <2>2. StoreOf(o)' = i /\ i \in Request \cup {Shared} /\ stores[i] \in StoreType
    BY <2>1, Facts DEF StoreOf
  <2>3. stores[i].mirror[s] \subseteq seen'[o][s]
    BY <2>1 DEF SeenOK
  <2> HIDE DEF i
  <2>4. CASE stores' = stores
    BY <2>2, <2>3, <2>4
  <2>5. CASE WriteDone(r)
    <3>1. /\ stores' = [stores EXCEPT ![StoreOf(r)].mirror[Head1(r).subject] = Updated(@, r)]
          /\ endpoint' = [endpoint EXCEPT ![Head1(r).subject] = Updated(@, r)]
          /\ endpoint \in [Subject -> SUBSET Value]
      BY <2>5 DEF WriteDone, TypeOK
    <3>2. \/ stores'[i].mirror[s] = stores[i].mirror[s]
          \/ s = Head1(r).subject /\ stores'[i].mirror[s] = Updated(stores[i].mirror[s], r)
      BY <1>1, <2>2, <3>1 DEF StoreType
    <3>3. CASE s = Head1(r).subject
      <4>1. {Head1(r).value} \ {None} \subseteq endpoint'[s]
        BY <3>1, <3>3 DEF Updated
      <4>2. {Head1(r).value} \ {None} \subseteq seen'[o][s]
        BY <2>1, <4>1 DEF Readable
      <4>3. Updated(stores[i].mirror[s], r) \subseteq seen'[o][s]
        BY <2>3, <4>2 DEF Updated
      <4> QED
        BY <2>2, <2>3, <3>2, <4>3
    <3> QED
      BY <2>2, <2>3, <3>2, <3>3
  <2>6. CASE GetDone(r)
    <3>1. /\ stores' = [stores EXCEPT ![StoreOf(r)] = Pull(r, request[r].subject)]
          /\ stores[StoreOf(r)] \in StoreType /\ endpoint' = endpoint
      BY <2>6, Facts DEF GetDone
    <3>2. \/ Pull(r, request[r].subject).mirror[s] = stores[StoreOf(r)].mirror[s]
          \/ Pull(r, request[r].subject).mirror[s] = endpoint[s]
      BY <3>1 DEF Pull, StoreType
    <3>3. \/ stores'[i] = stores[i]
          \/ i = StoreOf(r) /\ stores'[i] = Pull(r, request[r].subject)
      BY <1>1, <2>2, <3>1
    <3>4. endpoint[s] \subseteq seen'[o][s]
      BY <2>1, <3>1 DEF Readable
    <3> QED
      BY <2>2, <2>3, <3>2, <3>3, <3>4
  <2> QED
    BY <1>4, <2>4, <2>5, <2>6
       DEF Step, Queue, Get, FlushNow, Write, Begin, WriteStarts, WriteFails, GetFails, Leave
<1>5. CASE Shutdown
  <2>1. \A i \in Request \cup {Shared} : stores'[i].mirror = stores[i].mirror
    BY <1>1, <1>5 DEF Shutdown, StoreType
  <2>2. /\ endpoint' = endpoint /\ request' = request /\ seen' = seen /\ policy' = policy
    BY <1>5 DEF Shutdown, history
  <2>3. \A o \in Request : StoreOf(o)' = StoreOf(o) /\ StoreOf(o) \in Request \cup {Shared}
    BY <2>2 DEF StoreOf
  <2> QED
    BY <2>1, <2>2, <2>3 DEF SeenOK, Active
<1>6. CASE UNCHANGED vars
  BY <1>6 DEF vars, history, SeenOK, Active, StoreOf
<1> QED
  BY <1>2, <1>3, <1>4, <1>5, <1>6 DEF Next

LEMMA CachedStep ==
  TypeOK /\ ControlOK /\ SeenOK /\ CachedOK /\ [Next]_vars => CachedOK'
<1> SUFFICES ASSUME TypeOK, ControlOK, SeenOK, CachedOK, [Next]_vars PROVE CachedOK'
  OBVIOUS
<1>1. DOMAIN request = Request /\ DOMAIN session = Request
  BY DEF TypeOK
<1>2. ASSUME NEW r \in Request, Arrive(r), NEW o \in Request
      PROVE  Cached(o)' /\ Answered(o)'
  <2>1. /\ session' = session /\ ~Active(r)
        /\ o # r => request'[o] = request[o] /\ seen'[o] = seen[o]
    BY <1>1, <1>2 DEF Arrive, SeenOK, Active
  <2>2. Cached(o) /\ Answered(o)
    BY DEF CachedOK
  <2>3. CASE o = r
    <3>1. session[o].answer = None /\ \A s \in Subject : session[o].cache[s] = None
      BY <2>1, <2>2, <2>3 DEF Cached, Answered
    <3> QED
      BY <2>1, <3>1 DEF Cached, Answered
  <2>4. CASE o # r
    <3>1. Active(o)' <=> Active(o)
      BY <2>1, <2>4 DEF Active
    <3>2. Cached(o)'
      BY <2>1, <2>2, <2>4, <3>1 DEF Cached
    <3>3. Answered(o)'
      BY <2>1, <2>2, <2>4, <3>1 DEF Answered
    <3> QED
      BY <3>2, <3>3
  <2> QED
    BY <2>3, <2>4
<1>3. ASSUME NEW r \in Request, Finish(r), NEW o \in Request
      PROVE  Cached(o)' /\ Answered(o)'
  <2>1. /\ o # r => /\ request'[o] = request[o] /\ seen'[o] = seen[o]
                    /\ session'[o] = session[o]
        /\ session'[r].answer = None /\ \A s \in Subject : session'[r].cache[s] = None
    BY <1>1, <1>3 DEF Finish, SeenOK, NewSession
  <2>2. Cached(o) /\ Answered(o)
    BY DEF CachedOK
  <2>3. CASE o = r
    BY <2>1, <2>3 DEF Cached, Answered
  <2>4. CASE o # r
    <3>1. Active(o)' <=> Active(o)
      BY <2>1, <2>4 DEF Active
    <3>2. Cached(o)'
      BY <2>1, <2>2, <2>4, <3>1 DEF Cached
    <3>3. Answered(o)'
      BY <2>1, <2>2, <2>4, <3>1 DEF Answered
    <3> QED
      BY <3>2, <3>3
  <2> QED
    BY <2>3, <2>4
<1>4. ASSUME NEW r \in Request, Step(r), ~Finish(r), NEW o \in Request
      PROVE  Cached(o)' /\ Answered(o)'
  <2>1. /\ Active(r) /\ Active(r)'
        /\ o # r => session'[o] = session[o]
        /\ Active(o)' <=> Active(o)
        /\ \A s \in Subject : seen[r][s] \subseteq seen'[r][s]
                              /\ Readable(endpoint'[s]) \subseteq seen'[r][s]
        /\ Active(o) => \A s \in Subject : seen[o][s] \subseteq seen'[o][s]
    BY <1>4, SeenKept, BusyStep DEF Active
  <2>2. /\ session[r] \in SessionType(r)
        /\ session[r].cache \in [Subject -> Value \cup {None}]
    BY Facts
  <2> DEFINE KeptCache == \A s \in Subject :
                            \/ session'[r].cache[s] = None
                            \/ session'[r].cache[s] = session[r].cache[s]
                            \/ session'[r].cache[s] \in seen'[r][s]
             KeptAnswer == \/ session'[r].answer = None
                           \/ session'[r].answer = session[r].answer
                           \/ /\ session'[r].answer.subject \in Subject
                              /\ session'[r].answer.value
                                   \in seen'[r][session'[r].answer.subject]
  <2>3. ASSUME NEW s \in Subject, Queue(r, s)
        PROVE  KeptCache /\ KeptAnswer
    <3>1. session'[r].answer = None
      BY <1>1, <2>2, <2>3 DEF Queue, SessionType
    <3>2. session'[r].cache = [session[r].cache EXCEPT ![s] = None]
      BY <1>1, <2>2, <2>3 DEF Queue, SessionType
    <3> QED
      BY <2>2, <3>1, <3>2
  <2>4. ASSUME NEW op, NEW s, NEW todo, Begin(r, op, s, todo)
        PROVE  KeptCache /\ KeptAnswer
    BY <1>1, <2>2, <2>4 DEF Begin, SessionType
  <2>5. ASSUME NEW s \in Subject, WriteStarts(r, s)
        PROVE  KeptCache /\ KeptAnswer
    <3>1. session'[r].answer = session[r].answer
      BY <1>1, <2>2, <2>5 DEF WriteStarts, SessionType
    <3>2. session'[r].cache = [session[r].cache EXCEPT
                                 ![s] = CachedMeanwhile(@, Head1(r).value)]
      BY <1>1, <2>2, <2>5 DEF WriteStarts, SessionType
    <3> QED
      BY <2>2, <3>1, <3>2 DEF CachedMeanwhile
  <2>6. ASSUME WriteDone(r)
        PROVE  KeptCache /\ KeptAnswer
    <3> DEFINE w == Head1(r)
    <3>1. session'[r].answer = session[r].answer
      BY <1>1, <2>2, <2>6 DEF WriteDone, SessionType
    <3>2. session'[r].cache = [session[r].cache EXCEPT ![w.subject] = w.value]
      BY <1>1, <2>2, <2>6 DEF WriteDone, SessionType
    <3>3. w.value = None \/ w.value \in seen'[r][w.subject]
      <4>1. w.subject \in Subject
        BY <2>6, EndStep
      <4>2. /\ endpoint' = [endpoint EXCEPT ![w.subject] = Updated(@, r)]
            /\ endpoint \in [Subject -> SUBSET Value]
        BY <2>6 DEF WriteDone, TypeOK
      <4>3. w.value # None => w.value \in endpoint'[w.subject]
        BY <4>1, <4>2 DEF Updated
      <4> QED
        BY <2>1, <4>1, <4>3 DEF Readable
    <3> QED
      BY <2>2, <3>1, <3>2, <3>3
  <2>7. ASSUME WriteFails(r)
        PROVE  KeptCache /\ KeptAnswer
    <3>1. /\ session'[r].cache = session[r].cache
          /\ session'[r].answer = session[r].answer
      BY <1>1, <2>2, <2>7 DEF WriteFails, SessionType
    <3> QED
      BY <3>1
  <2>12. ASSUME NEW failed \in BOOLEAN, Leave(r, failed)
         PROVE  KeptCache /\ KeptAnswer
    <3>1. session'[r].cache = session[r].cache /\ session'[r].answer = None
      BY <1>1, <2>2, <2>12 DEF Leave, SessionType
    <3> QED
      BY <3>1
  <2>8. ASSUME GetDone(r)
        PROVE  KeptCache /\ KeptAnswer
    <3> DEFINE subject == request[r].subject
    <3>1. PICK v \in Found(r, subject) :
            session' = [session EXCEPT
                ![r].cache = [Synced(r) EXCEPT ![subject] = v],
                ![r].generation = stores[StoreOf(r)].generation,
                ![r].answer = [subject |-> subject, value |-> v]]
      BY <2>8 DEF GetDone
    <3>2. subject \in Subject
      <4>1. request[r].op = "get" /\ Control(request[r])
        BY <2>8 DEF GetDone, Reading, ControlOK
      <4> QED
        BY <4>1 DEF Control
    <3>3. /\ session'[r].cache = [Synced(r) EXCEPT ![subject] = v]
          /\ session'[r].answer = [subject |-> subject, value |-> v]
      BY <1>1, <2>2, <3>1 DEF SessionType
    <3>4. /\ v \in seen'[r][subject]
          /\ \A n \in Subject : Synced(r)[n] = None \/ Synced(r)[n] \in seen'[r][n]
      BY <2>1, <3>1, <3>2, FoundSeen
    <3>5. Synced(r) \in [Subject -> Value \cup {None}]
      BY <3>2, PullType
    <3> QED
      BY <3>2, <3>3, <3>4, <3>5
  <2>9. ASSUME GetFails(r)
        PROVE  KeptCache /\ KeptAnswer
    <3>1. /\ session'[r].cache = Synced(r)
          /\ session'[r].answer = session[r].answer
      BY <1>1, <2>2, <2>9 DEF GetFails, SessionType
    <3>2. \A n \in Subject : Synced(r)[n] = None \/ Synced(r)[n] = session[r].cache[n]
      BY DEF Synced
    <3> QED
      BY <3>1, <3>2
  <2> HIDE DEF KeptCache, KeptAnswer
  <2>10. KeptCache /\ KeptAnswer
    BY <1>4, <2>3, <2>4, <2>5, <2>6, <2>7, <2>8, <2>9, <2>12 DEF Step, Get, FlushNow, Write
  <2>11. Cached(o) /\ Answered(o)
    BY DEF CachedOK
  <2>13. CASE o = r
    <3>1. Cached(r)'
      BY <2>1, <2>10, <2>11, <2>13 DEF Cached, KeptCache
    <3>2. Answered(r)'
      BY <2>1, <2>10, <2>11, <2>13 DEF Answered, KeptAnswer
    <3> QED
      BY <2>13, <3>1, <3>2
  <2>14. CASE o # r
    <3>1. Cached(o)'
      BY <2>1, <2>11, <2>14 DEF Cached
    <3>2. Answered(o)'
      BY <2>1, <2>11, <2>14 DEF Answered
    <3> QED
      BY <3>1, <3>2
  <2> QED
    BY <2>13, <2>14
<1>5. ASSUME Shutdown \/ UNCHANGED vars, NEW o \in Request
      PROVE  Cached(o)' /\ Answered(o)'
  <2>1. Cached(o) /\ Answered(o)
    BY DEF CachedOK
  <2>2. session' = session /\ request' = request /\ seen' = seen
    BY <1>5 DEF Shutdown, vars, history
  <2> QED
    BY <2>1, <2>2 DEF Cached, Answered, Active
<1>6. \A o \in Request : Cached(o)' /\ Answered(o)'
  BY <1>2, <1>3, <1>4, <1>5 DEF Next
<1> QED
  BY <1>6 DEF CachedOK

\* ReadsOfItsTime: what the identity map and the mirror hold for a request under way
\* is among what it has seen (get_impl_async, put_impl_async).
THEOREM ReadsAreOfTheirTime == Spec => []ReadsOfItsTime
<1>1. Init => SeenOK /\ CachedOK
  <2> SUFFICES ASSUME Init PROVE SeenOK /\ CachedOK
    OBVIOUS
  <2>1. /\ DOMAIN seen = Request /\ session = [r \in Request |-> NewSession]
        /\ \A r \in Request : ~Active(r)
    BY DEF Init, NoRequest, Active
  <2>2. NewSession.answer = None /\ \A s \in Subject : NewSession.cache[s] = None
    BY DEF NewSession
  <2> QED
    BY <2>1, <2>2 DEF SeenOK, CachedOK, Cached, Answered
<1>2. CachedOK => ReadsOfItsTime
  BY DEF CachedOK, Answered, ReadsOfItsTime
<1> QED
  BY <1>1, <1>2, InitTyped, StepTyped, SeenStep, CachedStep, PTL DEF Spec

-----------------------------------------------------------------------------
(* Successful requests                                                     *)

\* The list still holds the write that a resource waits for, in its first n entries.
Awaits(due_s, s, list, n) == \E i \in 1 .. n : list[i].subject = s /\ list[i].value = due_s

\* A value that is due was written, or a flush under way or the next one writes it.
Accounted(r, s) ==
  \/ due[r][s] = None
  \/ due[r][s] \in written
  \/ Awaits(due[r][s], s, request[r].todo, Queued(r))
  \/ Queued(r) = 0 /\ Awaits(due[r][s], s, session[r].pending, Len(session[r].pending))

\* After the flush in front of a call nothing is queued.
Flushed(r) == request[r].op \in {"get", "write"} /\ Queued(r) = 0 => session[r].pending = <<>>

Stored(r) == \A s \in Subject : due[r][s] = None \/ due[r][s] \in written

SuccessOf(r) ==
  /\ request[r].at = "idle" => \A s \in Subject : due[r][s] = None
  /\ request[r].at \in {"handling", "exiting"} => \A s \in Subject : Accounted(r, s)
  /\ request[r].at = "closing" /\ ~request[r].failed /\ ~request[r].exitFailed => Stored(r)
  /\ Flushed(r)

SuccessOK ==
  /\ DOMAIN due = Request
  /\ \A r \in Request : due[r] \in [Subject -> Value \cup {None}] /\ SuccessOf(r)

\* How many writes are queued depends on the list and the call it belongs to.
LEMMA QueuedCases ==
  ASSUME TypeOK, ControlOK, NEW r \in Request
  PROVE  /\ request[r].todo = <<>> => Queued(r) = 0
         /\ request[r].op = None => request[r].todo = <<>>
         /\ request[r].op = "write" => Queued(r) = Len(request[r].todo) - 1
         /\ request[r].op # "write" => Queued(r) = Len(request[r].todo)
         /\ request[r].todo # <<>> /\ Queued(r) <= 0
              => request[r].op = "write" /\ Queued(r) = 0 /\ Len(request[r].todo) = 1
<1>1. /\ request[r] \in RequestType(r) /\ Control(request[r])
      /\ Len(request[r].todo) \in Nat
      /\ request[r].todo # <<>> => Len(request[r].todo) > 0
  BY Facts DEF ControlOK
<1>2. /\ request[r].op = "write" => Queued(r) = Len(request[r].todo) - 1
      /\ request[r].op # "write" => Queued(r) = Len(request[r].todo) - 0
  BY DEF Queued
<1>3. request[r].todo = <<>> => request[r].op # "write" /\ Len(request[r].todo) = 0
  BY <1>1, EmptySeq DEF Control
<1>4. request[r].op = None => request[r].todo = <<>>
  BY <1>1, RequestsAssumption DEF Control, RequestType
<1> DEFINE len == Len(request[r].todo)
           empty == request[r].todo = <<>>
           write == request[r].op = "write"
<1>5. /\ len \in Nat /\ (~empty => len > 0) /\ (empty => ~write /\ len = 0)
      /\ (write => Queued(r) = len - 1) /\ (~write => Queued(r) = len - 0)
  BY <1>1, <1>2, <1>3
<1> HIDE DEF len, empty, write
<1>6. /\ empty => Queued(r) = 0
      /\ write => Queued(r) = len - 1
      /\ ~write => Queued(r) = len
      /\ ~empty /\ Queued(r) <= 0 => write /\ Queued(r) = 0 /\ len = 1
  BY <1>5
<1> QED
  BY <1>4, <1>6 DEF len, empty, write

\* A request is not disturbed by the steps of others.
LEMMA OthersSuccess ==
  ASSUME TypeOK, NEW o \in Request, SuccessOf(o),
         request'[o].todo = request[o].todo, request'[o].op = request[o].op,
         request'[o].at = request[o].at, request'[o].failed = request[o].failed,
         request'[o].exitFailed = request[o].exitFailed,
         session'[o] = session[o], due'[o] = due[o], written \subseteq written'
  PROVE  SuccessOf(o)'
<1>1. Queued(o)' = Queued(o)
  BY DEF Queued
<1>2. \A s \in Subject : Accounted(o, s) => Accounted(o, s)'
  BY <1>1 DEF Accounted
<1>3. Stored(o) => Stored(o)'
  BY DEF Stored
<1>4. Flushed(o)'
  BY <1>1 DEF Flushed, SuccessOf
<1> QED
  BY <1>2, <1>3, <1>4 DEF SuccessOf

LEMMA QueueSuccess ==
  ASSUME TypeOK, ControlOK, TypeOK', ControlOK', SuccessOK,
         NEW r \in Request, NEW n \in Subject, Queue(r, n)
  PROVE  SuccessOf(r)'
<1> DEFINE entry == [subject |-> n, value |-> NextValue(r)]
           rest == Without(session[r].pending, n)
<1>1. /\ request[r] \in RequestType(r) /\ session[r] \in SessionType(r)
      /\ DOMAIN request = Request /\ DOMAIN session = Request
      /\ request[r].op = None /\ request[r].at = "handling"
  BY Facts DEF TypeOK, Queue, Calls, Handling
<1>2. /\ request'[r].todo = <<>> /\ request'[r].op = None /\ request'[r].at = "handling"
      /\ session'[r].pending = Append(rest, entry)
      /\ Queued(r) = 0 /\ Queued(r)' = 0
  <2>1. request[r].todo = <<>> /\ Queued(r) = 0
    BY <1>1, QueuedCases
  <2>2. request'[r].todo = <<>> /\ request'[r].op = None /\ request'[r].at = "handling"
    BY <1>1, <2>1 DEF Queue, RequestType
  <2>3. Queued(r)' = 0
    BY <2>2, QueuedCases, EmptySeq, RequestsAssumption DEF Queued
  <2>4. session'[r].pending = Append(rest, entry)
    BY <1>1 DEF Queue, SessionType
  <2> QED
    BY <2>1, <2>2, <2>3, <2>4
<1>3. /\ rest \in Seq(Entry(r)) /\ Len(rest) \in Nat
      /\ \A i \in 1 .. Len(session[r].pending) : session[r].pending[i].subject # n =>
           \E j \in 1 .. Len(rest) : rest[j] = session[r].pending[i]
  <2>1. session[r].pending \in Seq(Entry(r))
    BY <1>1 DEF SessionType
  <2>2. /\ rest \in Seq(Entry(r))
        /\ \A i \in 1 .. Len(session[r].pending) : session[r].pending[i].subject # n =>
             \E j \in 1 .. Len(rest) : rest[j] = session[r].pending[i]
    BY <2>1, WithoutOfSeq
  <2> QED
    BY <2>2, LenProperties
<1>4. /\ entry \in Entry(r)
      /\ Len(Append(rest, entry)) = Len(rest) + 1
      /\ \A i \in 1 .. Len(rest) : Append(rest, entry)[i] = rest[i]
      /\ Append(rest, entry)[Len(rest) + 1] = entry
  <2>1. entry \in Entry(r)
    BY NextValueOwn DEF Entry, Queue
  <2> HIDE DEF rest, entry
  <2> QED
    BY <1>3, <2>1, AppendProperties
<1>5. /\ due'[r] = [due[r] EXCEPT ![n] = NextValue(r)] /\ written' = written
      /\ DOMAIN due[r] = Subject
  BY DEF Queue, SuccessOK
<1> HIDE DEF rest
<1>6. ASSUME NEW s \in Subject
      PROVE  Accounted(r, s)'
  <2>1. CASE s = n
    <3>1. due'[r][s] = entry.value /\ entry.subject = s
      BY <1>5, <2>1
    <3>2. Len(rest) + 1 \in 1 .. Len(session'[r].pending)
      BY <1>2, <1>3, <1>4
    <3>3. Awaits(due'[r][s], s, session'[r].pending, Len(session'[r].pending))
      BY <1>2, <1>4, <3>1, <3>2 DEF Awaits
    <3> QED
      BY <1>2, <3>3 DEF Accounted
  <2>2. CASE s # n
    <3>1. due'[r][s] = due[r][s]
      BY <1>5, <2>2
    <3>2. Accounted(r, s)
      BY <1>1 DEF SuccessOK, SuccessOf
    <3>3. CASE due[r][s] = None \/ due[r][s] \in written
      BY <1>5, <3>1, <3>3 DEF Accounted
    <3>4. CASE Awaits(due[r][s], s, session[r].pending, Len(session[r].pending))
      <4>1. PICK i \in 1 .. Len(session[r].pending) :
              session[r].pending[i].subject = s /\ session[r].pending[i].value = due[r][s]
        BY <3>4 DEF Awaits
      <4>2. PICK j \in 1 .. Len(rest) : rest[j] = session[r].pending[i]
        BY <1>3, <2>2, <4>1
      <4>3. j \in 1 .. Len(session'[r].pending) /\ session'[r].pending[j] = rest[j]
        BY <1>2, <1>3, <1>4, <4>2
      <4>4. Awaits(due'[r][s], s, session'[r].pending, Len(session'[r].pending))
        BY <3>1, <4>1, <4>2, <4>3 DEF Awaits
      <4> QED
        BY <1>2, <4>4 DEF Accounted
    <3>5. ~Awaits(due[r][s], s, request[r].todo, Queued(r))
      BY <1>2 DEF Awaits
    <3> QED
      BY <3>2, <3>3, <3>4, <3>5 DEF Accounted
  <2> QED
    BY <2>1, <2>2
<1>7. Flushed(r)'
  BY <1>2, RequestsAssumption DEF Flushed
<1> QED
  BY <1>2, <1>6, <1>7 DEF SuccessOf

\* The list of a call begins with all that is queued.
TakesOver(r, op, todo) ==
  /\ Len(todo) = Len(session[r].pending) + (IF op = "write" THEN 1 ELSE 0)
  /\ \A i \in 1 .. Len(session[r].pending) : todo[i] = session[r].pending[i]

\* A call that flushes first takes over all that is queued.
LEMMA BeginSuccess ==
  ASSUME TypeOK, ControlOK, TypeOK', ControlOK', SuccessOK,
         NEW r \in Request, NEW op \in {"get", "flush", "write"}, NEW n, NEW todo,
         Begin(r, op, n, todo), TakesOver(r, op, todo)
  PROVE  SuccessOf(r)'
<1> DEFINE pending == session[r].pending
<1>1. /\ request[r] \in RequestType(r) /\ session[r] \in SessionType(r)
      /\ DOMAIN request = Request /\ DOMAIN session = Request
      /\ request[r].op = None /\ request[r].at = "handling"
      /\ pending \in Seq(Entry(r)) /\ Len(pending) \in Nat
  BY Facts DEF TypeOK, Begin, Calls, Handling
<1>2. /\ request'[r].todo = todo /\ request'[r].op = op /\ request'[r].at = "handling"
      /\ session'[r].pending = pending
      /\ due' = due /\ written' = written
  BY <1>1 DEF Begin, RequestType, SessionType, history
<1>3. Queued(r) = 0
  BY <1>1, QueuedCases
<1>4. Queued(r)' = Len(pending)
  <2>1. \/ op = "write" /\ Len(todo) = Len(pending) + 1 /\ Queued(r)' = Len(todo) - 1
        \/ op # "write" /\ Len(todo) = Len(pending) + 0 /\ Queued(r)' = Len(todo) - 0
    BY <1>2 DEF Queued, TakesOver
  <2>2. Len(pending) \in Nat
    BY <1>1
  <2> HIDE DEF pending
  <2> QED
    BY <2>1, <2>2
<1>5. ASSUME NEW s \in Subject
      PROVE  Accounted(r, s)'
  <2>1. Accounted(r, s)
    BY <1>1 DEF SuccessOK, SuccessOf
  <2>2. Awaits(due[r][s], s, pending, Len(pending)) =>
          Awaits(due'[r][s], s, request'[r].todo, Queued(r)')
    BY <1>2, <1>4 DEF Awaits, TakesOver
  <2>3. ~Awaits(due[r][s], s, request[r].todo, Queued(r))
    BY <1>3 DEF Awaits
  <2> QED
    BY <1>2, <2>1, <2>2, <2>3 DEF Accounted
<1>6. Flushed(r)'
  <2>1. Len(pending) = 0 => pending = <<>>
    BY <1>1, EmptySeq
  <2> QED
    BY <1>2, <1>4, <2>1 DEF Flushed
<1> QED
  BY <1>2, <1>5, <1>6 DEF SuccessOf

LEMMA StartSuccess ==
  ASSUME TypeOK, ControlOK, TypeOK', ControlOK', SuccessOK,
         NEW r \in Request, NEW n \in Subject, WriteStarts(r, n)
  PROVE  SuccessOf(r)'
<1>1. /\ request[r] \in RequestType(r) /\ session[r] \in SessionType(r)
      /\ Control(request[r]) /\ Control(request'[r])
      /\ DOMAIN request = Request /\ DOMAIN session = Request
      /\ session[r].pending \in Seq(Entry(r))
      /\ request[r].todo # <<>> /\ Queued(r) \in Int
  BY Facts DEF TypeOK, ControlOK, WriteStarts
<1>2. /\ request'[r].todo = request[r].todo /\ request'[r].op = request[r].op
      /\ request'[r].at = request[r].at /\ request'[r].writing
      /\ Queued(r)' = Queued(r)
      /\ session'[r].pending = Without(session[r].pending, n)
      /\ due' = due /\ written' = written
  <2>1. /\ request'[r].todo = request[r].todo /\ request'[r].op = request[r].op
        /\ request'[r].at = request[r].at /\ request'[r].writing
    BY StartStep
  <2>2. session'[r].pending = Without(session[r].pending, n)
    <3> DEFINE cache == [session[r].cache EXCEPT
                           ![n] = CachedMeanwhile(session[r].cache[n], Head1(r).value)]
    <3>1. session'[r] = [session[r] EXCEPT !.pending = Without(session[r].pending, n),
                                           !.cache = cache]
      BY <1>1 DEF WriteStarts
    <3> HIDE DEF cache
    <3> QED
      BY <1>1, <3>1 DEF SessionType
  <2>3. Queued(r)' = Queued(r)
    BY <2>1 DEF Queued
  <2> QED
    BY <2>1, <2>2, <2>3 DEF WriteStarts
<1>3. Queued(r) > 0 \/ (session[r].pending = <<>> /\ session'[r].pending = <<>>)
  <2>1. Queued(r) > 0 \/ Queued(r) <= 0
    BY <1>1
  <2>2. CASE Queued(r) <= 0
    <3>1. session[r].pending = <<>>
      BY <1>1, <2>2, QueuedCases DEF SuccessOK, SuccessOf, Flushed
    <3> QED
      BY <1>1, <1>2, <3>1, WithoutOfSeq
  <2> QED
    BY <2>1, <2>2
<1>4. request'[r].at \in {"handling", "exiting"}
  BY <1>1, <1>2 DEF Control
<1>5. ASSUME NEW s \in Subject, Accounted(r, s)
      PROVE  Accounted(r, s)'
  <2>1. CASE Queued(r) > 0
    BY <1>2, <1>5, <2>1 DEF Accounted
  <2>2. CASE session[r].pending = <<>> /\ session'[r].pending = <<>>
    BY <1>2, <1>5, <2>2 DEF Accounted
  <2> QED
    BY <1>3, <2>1, <2>2
<1>6. Flushed(r)'
  BY <1>2, <1>3 DEF Flushed
<1> QED
  BY <1>2, <1>4, <1>5, <1>6 DEF SuccessOK, SuccessOf

LEMMA DoneSuccess ==
  ASSUME TypeOK, ControlOK, TypeOK', ControlOK', SuccessOK, NEW r \in Request, WriteDone(r)
  PROVE  SuccessOf(r)'
<1> DEFINE w == Head1(r)
           todo == request[r].todo
           rest == Tail(todo)
           n == Queued(r)
<1>1. /\ request[r] \in RequestType(r) /\ session[r] \in SessionType(r)
      /\ Control(request[r]) /\ request[r].writing
      /\ DOMAIN request = Request /\ DOMAIN session = Request
      /\ todo # <<>> /\ n \in Int /\ Len(todo) \in Nat /\ Len(todo) > 0 /\ w.subject \in Subject
      /\ request[r].at \in {"handling", "exiting"} /\ w = todo[1]
  BY Facts, EndStep, NotWriting DEF TypeOK, ControlOK, WriteDone, Head1
<1>2. /\ request'[r].todo = rest
      /\ request'[r].op = IF rest = <<>> /\ request[r].op # "get" THEN None ELSE request[r].op
      /\ request'[r].at = IF rest = <<>> /\ request[r].at = "exiting" THEN "closing"
                          ELSE request[r].at
      /\ session'[r].pending = IF n = 1 THEN <<>> ELSE session[r].pending
      /\ written' = written \cup {w.value}
      /\ due' = IF n = 0 THEN [due EXCEPT ![r][w.subject] = w.value] ELSE due
  BY <1>1 DEF WriteDone, RequestType, SessionType
<1>3. /\ Len(rest) = Len(todo) - 1 /\ rest \in Seq(Task(r))
      /\ \A i \in 1 .. Len(rest) : rest[i] = todo[i + 1]
  BY <1>1, RestTyped
<1>4. /\ n >= 0
      /\ n = 0 => request[r].op = "write" /\ Len(todo) = 1
      /\ request[r].op = "write" => n = Len(todo) - 1
      /\ request[r].op # "write" => n = Len(todo)
  <2>1. n > 0 \/ n = 0
    BY <1>1, QueuedCases
  <2> QED
    BY <1>1, <2>1, QueuedCases
<1>5. \A s \in Subject : Accounted(r, s)
  BY <1>1 DEF SuccessOK, SuccessOf
<1>6. CASE n = 0
  <2>1. rest = <<>> /\ request'[r].op = None /\ Queued(r)' = 0
    <3>1. rest = <<>>
      BY <1>3, <1>4, <1>6, EmptySeq
    <3>2. request'[r].op = None
      BY <1>2, <1>4, <1>6, <3>1
    <3>3. Queued(r)' = Len(rest) - 0
      BY <1>2, <3>2, RequestsAssumption DEF Queued
    <3>4. Len(rest) = 0
      BY <3>1, EmptySeq
    <3> QED
      BY <3>1, <3>2, <3>3, <3>4
  <2>2. session[r].pending = <<>> /\ session'[r].pending = <<>>
    BY <1>2, <1>4, <1>6 DEF SuccessOK, SuccessOf, Flushed
  <2>3. ASSUME NEW s \in Subject
        PROVE  due'[r][s] = None \/ due'[r][s] \in written'
    <3>1. due'[r] = [due[r] EXCEPT ![w.subject] = w.value] /\ DOMAIN due[r] = Subject
      BY <1>2, <1>6 DEF SuccessOK
    <3>2. CASE s = w.subject
      BY <1>2, <3>1, <3>2
    <3>3. CASE s # w.subject
      <4>1. ~Awaits(due[r][s], s, todo, n)
        BY <1>6 DEF Awaits
      <4>2. ~Awaits(due[r][s], s, session[r].pending, Len(session[r].pending))
        BY <2>2, EmptySeq DEF Awaits
      <4>3. due[r][s] = None \/ due[r][s] \in written
        BY <1>5, <4>1, <4>2 DEF Accounted
      <4> QED
        BY <1>2, <3>1, <3>3, <4>3
    <3> QED
      BY <3>2, <3>3
  <2>4. request'[r].at # "idle"
    BY <1>1, <1>2
  <2> QED
    BY <2>1, <2>3, <2>4, RequestsAssumption DEF SuccessOf, Accounted, Stored, Flushed
<1>7. CASE n > 0
  <2>1. due' = due
    BY <1>1, <1>2, <1>7
  <2>2. Queued(r)' = n - 1
    <3>1. CASE rest = <<>>
      <4>1. Len(rest) = 0 /\ request'[r].op \in {None, "get"} /\ Queued(r)' = Len(rest) - 0
        BY <1>2, <3>1, EmptySeq, RequestsAssumption DEF Queued
      <4>2. n = 1
        <5>1. Len(todo) = 1
          BY <1>1, <1>3, <4>1
        <5> HIDE DEF n
        <5> QED
          BY <1>1, <1>4, <1>7, <5>1
      <4> QED
        BY <4>1, <4>2
    <3>2. CASE rest # <<>>
      <4>1. request'[r].op = request[r].op
        BY <1>2, <3>2
      <4>2. CASE request[r].op = "write"
        <5>1. Queued(r)' = Len(rest) - 1
          BY <1>2, <4>1, <4>2 DEF Queued
        <5> QED
          BY <1>1, <1>3, <1>4, <4>2, <5>1
      <4>3. CASE request[r].op # "write"
        <5>1. Queued(r)' = Len(rest) - 0
          BY <1>2, <4>1, <4>3 DEF Queued
        <5> QED
          BY <1>1, <1>3, <1>4, <4>3, <5>1
      <4> QED
        BY <4>2, <4>3
    <3> QED
      BY <3>1, <3>2
  <2>3. ASSUME NEW s \in Subject
        PROVE  \/ due'[r][s] = None \/ due'[r][s] \in written'
               \/ Awaits(due'[r][s], s, rest, n - 1)
    <3>1. due[r][s] = None \/ due[r][s] \in written \/ Awaits(due[r][s], s, todo, n)
      BY <1>5, <1>7 DEF Accounted
    <3>2. CASE Awaits(due[r][s], s, todo, n)
      <4>1. PICK i \in 1 .. n : todo[i].subject = s /\ todo[i].value = due[r][s]
        BY <3>2 DEF Awaits
      <4>2. CASE i = 1
        BY <1>1, <1>2, <2>1, <4>1, <4>2
      <4>3. CASE i # 1
        <5>1. i - 1 \in 1 .. n - 1 /\ i - 1 \in 1 .. Len(rest) /\ (i - 1) + 1 = i
          <6>1. i \in 1 .. n /\ i # 1 /\ n \in Int /\ Len(rest) \in Int /\ n <= Len(rest) + 1
            BY <1>1, <1>3, <1>4, <4>1, <4>3
          <6> HIDE DEF n, rest
          <6> QED
            BY <6>1
        <5>2. rest[i - 1] = todo[i]
          BY <1>3, <5>1
        <5> QED
          BY <2>1, <4>1, <5>1, <5>2 DEF Awaits
      <4> QED
        BY <4>2, <4>3
    <3> QED
      BY <1>2, <2>1, <3>1, <3>2
  <2>4. n = 1 => session'[r].pending = <<>>
    BY <1>2
  <2>5. Flushed(r)'
    <3> HIDE DEF n
    <3>1. Queued(r)' = 0 => n = 1
      BY <1>1, <2>2
    <3> QED
      BY <2>4, <3>1 DEF Flushed
  <2>6. request'[r].at = "closing" => n = 1
    <3>1. request'[r].at = "closing" => rest = <<>> /\ request[r].op = "exit"
      BY <1>1, <1>2 DEF Control
    <3>2. rest = <<>> => Len(todo) = 1
      <4>1. rest = <<>> => Len(rest) = 0
        BY EmptySeq
      <4> QED
        BY <1>1, <1>3, <4>1
    <3> QED
      BY <1>4, <3>1, <3>2
  <2>7. n = 1 => Stored(r)'
    BY <2>3 DEF Stored, Awaits
  <2>8. \A s \in Subject : Accounted(r, s)'
    BY <1>2, <2>2, <2>3 DEF Accounted
  <2>9. request'[r].at # "idle"
    BY <1>1, <1>2
  <2> QED
    BY <2>5, <2>6, <2>7, <2>8, <2>9 DEF SuccessOf
<1> QED
  <2>1. n = 0 \/ n > 0
    BY <1>1, <1>4
  <2> QED
    BY <1>6, <1>7, <2>1

LEMMA FailsSuccess ==
  ASSUME TypeOK, ControlOK, TypeOK', ControlOK', SuccessOK, NEW r \in Request, WriteFails(r)
  PROVE  SuccessOf(r)'
<1> DEFINE todo == request[r].todo
           pending == session[r].pending
           n == Queued(r)
<1>1. /\ request[r] \in RequestType(r) /\ session[r] \in SessionType(r)
      /\ DOMAIN request = Request /\ DOMAIN session = Request
      /\ todo # <<>> /\ n \in Int
      /\ request[r].at \in {"handling", "exiting"}
  BY Facts, EndStep, NotWriting DEF TypeOK, WriteFails
<1>2. /\ request'[r].todo = <<>> /\ request'[r].op = None
      /\ request'[r].at = IF request[r].at = "exiting" THEN "closing" ELSE request[r].at
      /\ request'[r].exitFailed = (request[r].at = "exiting")
      /\ session'[r].pending = IF n > 0 THEN Requeued(r) ELSE pending
      /\ written' = written /\ due' = due
  BY <1>1 DEF WriteFails, RequestType, SessionType
<1>3. /\ n > 0 => Len(Requeued(r)) = n /\ \A i \in 1 .. n : Requeued(r)[i] = todo[i]
      /\ n > 0 \/ n = 0
  <2>1. n > 0 \/ n <= 0
    BY <1>1
  <2> QED
    BY <1>1, <2>1, RestTyped, QueuedCases
<1>4. Queued(r)' = 0
  <2>1. Queued(r)' = Len(<<>>) - 0
    BY <1>2, RequestsAssumption DEF Queued
  <2> QED
    BY <2>1, EmptySeq
<1>5. ASSUME NEW s \in Subject
      PROVE  Accounted(r, s)'
  <2>1. Accounted(r, s)
    BY <1>1 DEF SuccessOK, SuccessOf
  <2>2. CASE n > 0
    <3>1. Awaits(due[r][s], s, todo, n) =>
            Awaits(due[r][s], s, Requeued(r), Len(Requeued(r)))
      BY <1>3, <2>2 DEF Awaits
    <3>2. session'[r].pending = Requeued(r)
      BY <1>2, <2>2
    <3>3. n # 0
      BY <1>1, <2>2
    <3> HIDE DEF n
    <3> QED
      BY <1>2, <1>4, <2>1, <3>1, <3>2, <3>3 DEF Accounted, n
  <2>3. CASE n = 0
    <3>1. ~Awaits(due[r][s], s, todo, n)
      BY <2>3 DEF Awaits
    <3>2. session'[r].pending = pending
      BY <1>2, <2>3
    <3> QED
      BY <1>2, <1>4, <2>1, <3>1, <3>2 DEF Accounted
  <2> QED
    BY <1>3, <2>2, <2>3
<1>6. Flushed(r)' /\ request'[r].at # "idle"
  BY <1>1, <1>2, RequestsAssumption DEF Flushed
<1>7. request'[r].at = "closing" => request'[r].exitFailed
  BY <1>1, <1>2
<1> QED
  BY <1>5, <1>6, <1>7 DEF SuccessOf

LEMMA ReadSuccess ==
  ASSUME TypeOK, ControlOK, TypeOK', ControlOK', SuccessOK,
         NEW r \in Request, GetDone(r) \/ GetFails(r)
  PROVE  SuccessOf(r)'
<1>1. /\ request[r] \in RequestType(r) /\ session[r] \in SessionType(r)
      /\ DOMAIN request = Request /\ DOMAIN session = Request
      /\ request[r].todo = <<>> /\ request[r].op = "get" /\ Control(request[r])
  BY Facts DEF TypeOK, ControlOK, GetDone, GetFails, Reading
<1>2. /\ request'[r].todo = request[r].todo /\ request'[r].op = None
      /\ request'[r].at = "handling"
      /\ due' = due /\ written' = written
  <2>1. request'[r] = [request[r] EXCEPT !.op = None] /\ due' = due /\ written' = written
    BY <1>1 DEF GetDone, GetFails, history
  <2>2. request[r].at = "handling"
    BY <1>1 DEF Control
  <2> QED
    BY <1>1, <2>1, <2>2 DEF RequestType
<1>3. session'[r].pending = session[r].pending
  <2>1. \E cache, generation, answer :
          session'[r] = [session[r] EXCEPT !.cache = cache, !.generation = generation,
                                           !.answer = answer]
    <3>1. CASE GetDone(r)
      <4> DEFINE subject == request[r].subject
      <4>1. PICK v \in Found(r, subject) :
              session' = [session EXCEPT
                ![r].cache = [Synced(r) EXCEPT ![subject] = v],
                ![r].generation = stores[StoreOf(r)].generation,
                ![r].answer = [subject |-> subject, value |-> v]]
        BY <3>1 DEF GetDone
      <4> HIDE DEF subject
      <4>2. session'[r] = [session[r] EXCEPT
                             !.cache = [Synced(r) EXCEPT ![subject] = v],
                             !.generation = stores[StoreOf(r)].generation,
                             !.answer = [subject |-> subject, value |-> v]]
        BY <1>1, <4>1
      <4> QED
        BY <4>2
    <3>2. CASE GetFails(r)
      <4>1. session'[r] = [session[r] EXCEPT !.cache = Synced(r),
                                             !.generation = stores[StoreOf(r)].generation,
                                             !.answer = session[r].answer]
        BY <1>1, <3>2 DEF GetFails, SessionType
      <4> QED
        BY <4>1
    <3> QED
      BY <3>1, <3>2
  <2> QED
    BY <1>1, <2>1 DEF SessionType
<1>4. Queued(r) = Queued(r)'
  <2>1. Queued(r) = Len(<<>>) - 0 /\ Queued(r)' = Len(<<>>) - 0
    BY <1>1, <1>2, RequestsAssumption DEF Queued
  <2> QED
    BY <2>1
<1>5. ASSUME NEW s \in Subject
      PROVE  Accounted(r, s)'
  <2>1. Accounted(r, s)
    BY <1>1 DEF SuccessOK, SuccessOf, Control
  <2> QED
    BY <1>2, <1>3, <1>4, <2>1 DEF Accounted
<1> QED
  BY <1>2, <1>5, RequestsAssumption DEF SuccessOf, Flushed

LEMMA LeaveSuccess ==
  ASSUME TypeOK, ControlOK, TypeOK', ControlOK', SuccessOK,
         NEW r \in Request, NEW failed \in BOOLEAN, Leave(r, failed)
  PROVE  SuccessOf(r)'
<1> DEFINE pending == session[r].pending
           todo == ExitQueue(r, failed)
<1>1. /\ request[r] \in RequestType(r) /\ session[r] \in SessionType(r)
      /\ DOMAIN request = Request /\ DOMAIN session = Request
      /\ request[r].at = "handling" /\ request[r].op = None
      /\ Len(pending) \in Nat /\ pending \in Seq(Entry(r))
  BY Facts DEF TypeOK, Leave, Handling
<1>2. /\ request'[r].todo = todo /\ request'[r].failed = failed
      /\ request'[r].op = IF todo = <<>> THEN None ELSE "exit"
      /\ request'[r].at = IF todo = <<>> THEN "closing" ELSE "exiting"
      /\ due' = due /\ written' = written
  <2> HIDE DEF todo
  <2>1. request'[r] = [request[r] EXCEPT !.failed = failed, !.todo = todo,
                         !.op = IF todo = <<>> THEN None ELSE "exit",
                         !.at = IF todo = <<>> THEN "closing" ELSE "exiting"]
    BY <1>1 DEF Leave, todo
  <2> QED
    BY <1>1, <2>1 DEF RequestType, Leave
<1>3. /\ failed => todo = <<>>
      /\ ~failed => todo = pending
  BY DEF ExitQueue
<1>4. Queued(r) = 0
  BY <1>1, QueuedCases
<1>5. ASSUME NEW s \in Subject
      PROVE  \/ due[r][s] = None \/ due[r][s] \in written
             \/ Awaits(due[r][s], s, pending, Len(pending))
  <2>1. Accounted(r, s)
    BY <1>1 DEF SuccessOK, SuccessOf
  <2>2. ~Awaits(due[r][s], s, request[r].todo, Queued(r))
    BY <1>4 DEF Awaits
  <2> QED
    BY <2>1, <2>2 DEF Accounted
<1>6. CASE failed
  BY <1>2, <1>3, <1>6, RequestsAssumption DEF SuccessOf, Flushed
<1>7. CASE ~failed /\ todo = <<>>
  <2>1. Stored(r)'
    BY <1>2, <1>3, <1>5, <1>7, EmptySeq DEF Stored, Awaits
  <2> QED
    BY <1>2, <1>7, <2>1, RequestsAssumption DEF SuccessOf, Flushed
<1>8. CASE ~failed /\ todo # <<>>
  <2>1. request'[r].op = "exit" /\ request'[r].at = "exiting" /\ request'[r].todo = pending
    BY <1>2, <1>3, <1>8
  <2>2. Queued(r)' = Len(pending)
    <3>1. Queued(r)' = Len(pending) - 0
      BY <2>1 DEF Queued
    <3> HIDE DEF pending
    <3> QED
      BY <1>1, <3>1
  <2>3. \A s \in Subject : Accounted(r, s)'
    BY <1>2, <1>5, <2>1, <2>2 DEF Accounted
  <2> QED
    BY <2>1, <2>3 DEF SuccessOf, Flushed
<1> QED
  BY <1>6, <1>7, <1>8

LEMMA SuccessStep ==
  Autoflush /\ TypeOK /\ ControlOK /\ SuccessOK /\ [Next]_vars => SuccessOK'
<1> SUFFICES ASSUME Autoflush, TypeOK, ControlOK, SuccessOK, [Next]_vars
             PROVE  SuccessOK'
  OBVIOUS
<1>1. /\ TypeOK' /\ ControlOK' /\ DOMAIN due = Request
      /\ DOMAIN request = Request /\ DOMAIN session = Request
  BY StepTyped DEF TypeOK, SuccessOK
<1>2. ASSUME NEW r \in Request, SuccessOf(r)', DOMAIN due' = Request,
             due'[r] \in [Subject -> Value \cup {None}],
             \A o \in Request \ {r} :
               /\ request'[o].todo = request[o].todo /\ request'[o].op = request[o].op
               /\ request'[o].at = request[o].at /\ request'[o].failed = request[o].failed
               /\ request'[o].exitFailed = request[o].exitFailed
               /\ session'[o] = session[o] /\ due'[o] = due[o],
             written \subseteq written'
      PROVE  SuccessOK'
  <2>1. ASSUME NEW o \in Request
        PROVE  due'[o] \in [Subject -> Value \cup {None}] /\ SuccessOf(o)'
    <3>1. CASE o = r
      BY <1>2, <3>1
    <3>2. CASE o # r
      BY <1>2, <3>2, OthersSuccess DEF SuccessOK
    <3> QED
      BY <3>1, <3>2
  <2> QED
    BY <1>2, <2>1 DEF SuccessOK
<1>3. ASSUME NEW r \in Request
      PROVE  due[r] \in [Subject -> Value \cup {None}] /\ SuccessOf(r)
  BY DEF SuccessOK
<1>4. ASSUME NEW r \in Request, Arrive(r)
      PROVE  SuccessOK'
  <2>1. /\ request'[r] = [request[r] EXCEPT !.at = "handling"]
        /\ request[r].at = "idle" /\ due' = due /\ written' = written /\ session' = session
        /\ \A o \in Request \ {r} : request'[o] = request[o]
    BY <1>1, <1>4 DEF Arrive
  <2>2. request'[r].at = "handling" /\ request'[r].op = request[r].op
    BY <1>1, <2>1, Facts DEF RequestType
  <2>3. request[r].op = None
    <3>1. Control(request[r]) /\ request[r] \in RequestType(r)
      BY Facts DEF ControlOK
    <3> QED
      BY <2>1, <3>1 DEF Control, RequestType
  <2>4. \A s \in Subject : due'[r][s] = None
    BY <1>3, <2>1 DEF SuccessOf
  <2>5. SuccessOf(r)'
    BY <2>2, <2>3, <2>4, RequestsAssumption DEF SuccessOf, Accounted, Flushed
  <2> QED
    BY <1>1, <1>2, <1>3, <2>1, <2>5
<1>5. ASSUME NEW r \in Request, NEW s \in Subject, Queue(r, s)
      PROVE  SuccessOK'
  <2>1. /\ due' = [due EXCEPT ![r][s] = NextValue(r)] /\ written' = written
        /\ NextValue(r) \in Value
    <3>1. NextValue(r) \in Own(r)
      BY <1>5, NextValueOwn DEF Queue
    <3> QED
      BY <1>5, <3>1 DEF Queue, Value
  <2>2. DOMAIN due' = Request /\ due'[r] \in [Subject -> Value \cup {None}]
        /\ \A o \in Request \ {r} : due'[o] = due[o]
    <3>1. due'[r] = [due[r] EXCEPT ![s] = NextValue(r)]
      BY <1>1, <2>1
    <3> QED
      BY <1>1, <1>3, <2>1, <3>1
  <2>3. SuccessOf(r)'
    BY <1>1, <1>5, QueueSuccess
  <2> QED
    BY <1>2, <1>5, <2>1, <2>2, <2>3, QuietStep DEF Quiet
<1>6. ASSUME NEW r \in Request, FlushNow(r) \/ \E s \in Subject : Get(r, s) \/ Write(r, s)
      PROVE  SuccessOK'
  <2> DEFINE Takes(op) == \E n, todo : Begin(r, op, n, todo) /\ TakesOver(r, op, todo)
  <2>1. PICK op \in {"get", "flush", "write"} : Takes(op)
    <3> DEFINE pending == session[r].pending
    <3>1. Flush(r) = pending /\ pending \in Seq(Entry(r)) /\ Len(pending) \in Nat
      BY Facts DEF Flush
    <3>2. TakesOver(r, "get", Flush(r)) /\ TakesOver(r, "flush", pending)
      <4> HIDE DEF pending
      <4> QED
        BY <3>1 DEF TakesOver, pending
    <3>3. ASSUME NEW s \in Subject, NEW v \in Own(r) \cup {None}
          PROVE  TakesOver(r, "write", Append(Flush(r), [subject |-> s, value |-> v]))
      <4>1. pending \in Seq(Task(r)) /\ [subject |-> s, value |-> v] \in Task(r)
        <5>1. Entry(r) \subseteq Task(r)
          BY DEF Entry, Task
        <5>2. [subject |-> s, value |-> v] \in Task(r)
          BY DEF Task
        <5> HIDE DEF pending
        <5> QED
          BY <3>1, <5>1, <5>2
      <4> HIDE DEF pending
      <4>2. /\ Len(Append(pending, [subject |-> s, value |-> v])) = Len(pending) + 1
            /\ \A i \in 1 .. Len(pending) :
                 Append(pending, [subject |-> s, value |-> v])[i] = pending[i]
        BY <4>1, AppendProperties
      <4> QED
        BY <3>1, <4>2 DEF TakesOver, pending
    <3>4. ASSUME NEW s \in Subject, Write(r, s)
          PROVE  Takes("write")
      <4>1. PICK v \in {NextValue(r), None} :
              Begin(r, "write", s, Append(Flush(r), [subject |-> s, value |-> v]))
        BY <3>4 DEF Write
      <4>2. v \in Own(r) \cup {None}
        BY <4>1, NextValueOwn DEF Begin
      <4> QED
        BY <3>3, <4>1, <4>2
    <3> QED
      BY <1>6, <3>2, <3>4 DEF FlushNow, Get
  <2>2. SuccessOf(r)'
    BY <1>1, <2>1, BeginSuccess
  <2>3. due' = due /\ written' = written
    BY <2>1 DEF Begin, history
  <2> QED
    BY <1>1, <1>2, <1>3, <1>6, <2>2, <2>3, QuietStep DEF Quiet
<1>7. ASSUME NEW r \in Request, NEW s \in Subject, WriteStarts(r, s)
      PROVE  SuccessOK'
  <2>1. SuccessOf(r)' /\ due' = due /\ written' = written
    BY <1>1, <1>7, StartSuccess DEF WriteStarts
  <2> QED
    BY <1>1, <1>2, <1>3, <1>7, <2>1, StartStep
<1>8. ASSUME NEW r \in Request, WriteDone(r)
      PROVE  SuccessOK'
  <2>1. SuccessOf(r)' /\ written \subseteq written'
    BY <1>1, <1>8, DoneSuccess DEF WriteDone
  <2>2. /\ DOMAIN due' = Request /\ due'[r] \in [Subject -> Value \cup {None}]
        /\ \A o \in Request \ {r} : due'[o] = due[o]
    <3>1. Head1(r).value \in Value \cup {None} /\ Head1(r).subject \in Subject
      BY <1>8, UpdatedType DEF WriteDone
    <3>2. due' = due \/ due' = [due EXCEPT ![r][Head1(r).subject] = Head1(r).value]
      BY <1>8 DEF WriteDone
    <3>3. CASE due' = [due EXCEPT ![r][Head1(r).subject] = Head1(r).value]
      <4>1. due'[r] = [due[r] EXCEPT ![Head1(r).subject] = Head1(r).value]
        BY <1>1, <3>3
      <4>2. due'[r] \in [Subject -> Value \cup {None}]
        BY <1>3, <3>1, <4>1
      <4> QED
        BY <1>1, <3>3, <4>2
    <3> QED
      BY <1>1, <1>3, <3>2, <3>3
  <2> QED
    BY <1>2, <1>8, <2>1, <2>2, EndStep
<1>9. ASSUME NEW r \in Request, WriteFails(r)
      PROVE  SuccessOK'
  <2>1. SuccessOf(r)' /\ due' = due /\ written' = written
    BY <1>1, <1>9, FailsSuccess DEF WriteFails
  <2> QED
    BY <1>1, <1>2, <1>3, <1>9, <2>1, EndStep
<1>10. ASSUME NEW r \in Request, GetDone(r) \/ GetFails(r)
       PROVE  SuccessOK'
  <2>1. SuccessOf(r)' /\ due' = due /\ written' = written
    BY <1>1, <1>10, ReadSuccess DEF GetDone, GetFails, history
  <2> QED
    BY <1>1, <1>2, <1>3, <1>10, <2>1, QuietStep DEF Quiet
<1>11. ASSUME NEW r \in Request, NEW failed \in BOOLEAN, Leave(r, failed)
       PROVE  SuccessOK'
  <2>1. SuccessOf(r)' /\ due' = due /\ written' = written
    BY <1>1, <1>11, LeaveSuccess DEF Leave
  <2> QED
    BY <1>1, <1>2, <1>3, <1>11, <2>1, QuietStep DEF Quiet
<1>12. ASSUME NEW r \in Request, Finish(r)
       PROVE  SuccessOK'
  <2>1. /\ due' = [due EXCEPT ![r] = [s \in Subject |-> None]] /\ written' = written
        /\ request'[r].at = "ended" /\ request'[r].op = None
    BY <1>1, <1>12 DEF Finish, NoRequest
  <2>2. SuccessOf(r)'
    BY <2>1, RequestsAssumption DEF SuccessOf, Flushed
  <2>3. due'[r] = [s \in Subject |-> None] /\ DOMAIN due' = Request
    BY <1>1, <2>1
  <2>4. due'[r] \in [Subject -> Value \cup {None}]
    BY <2>3
  <2> QED
    BY <1>1, <1>2, <1>12, <2>1, <2>2, <2>3, <2>4, QuietStep DEF Quiet
<1>13. CASE Shutdown \/ UNCHANGED vars
  <2>1. /\ request' = request /\ session' = session /\ due' = due /\ written' = written
    BY <1>13 DEF Shutdown, vars, history
  <2> QED
    BY <1>3, <2>1, OthersSuccess DEF SuccessOK
<1> QED
  BY <1>4, <1>5, <1>6, <1>7, <1>8, <1>9, <1>10, <1>11, <1>12, <1>13 DEF Next, Step

\* SuccessStored: what a session has queued stays on the list that a flush works on
\* or goes back to the pending list when the flush fails (flush, put_impl_async), and
\* a request ends without an error only after the flush of its exit (__aexit__).
THEOREM SuccessesAreStored == Spec => []SuccessStored
<1>1. Init => SuccessOK
  <2> SUFFICES ASSUME Init, NEW r \in Request
               PROVE  /\ due[r] \in [Subject -> Value \cup {None}] /\ SuccessOf(r)
                      /\ DOMAIN due = Request
    BY DEF SuccessOK, Init
  <2>1. /\ request[r].at = "idle" /\ request[r].op = None
        /\ due[r] = [s \in Subject |-> None] /\ DOMAIN due = Request
    BY DEF Init, NoRequest
  <2> QED
    BY <2>1, RequestsAssumption DEF SuccessOf, Flushed
<1>2. Autoflush /\ SuccessOK => SuccessStored
  BY DEF SuccessOK, SuccessOf, Stored, SuccessStored
<1>3. ~Autoflush => SuccessStored
  BY DEF SuccessStored
<1>4. CASE Autoflush
  BY <1>1, <1>2, <1>4, InitTyped, StepTyped, SuccessStep, PTL DEF Spec
<1>5. CASE ~Autoflush
  BY <1>3, <1>5, PTL
<1> QED
  BY <1>4, <1>5
=============================================================================
