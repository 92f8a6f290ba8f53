------------------------- MODULE GrpcClientPipeline -------------------------
(***************************************************************************)
(* The results on their way from the engine to the coroutines: every step  *)
(* of the worker keeps one answer for each operation a coroutine waits     *)
(* for, and buffers come and go with their results.                        *)
(***************************************************************************)
EXTENDS GrpcClientContexts

\* No element of S and one of T are results of one operation.
Apart(S, T) == \A x \in S, y \in T : x.op # y.op

\* Whatever will answer an operation: goroutines and results, and the three
\* places where results are.
Reported == Elems(tasks)
Fetched == Elems(thctx.finished_tasks)
Occupied == Elems(thctx.occupied)
Answers == goroutines \cup Reported \cup Fetched \cup Occupied

\* The event handler has taken what the thread had fetched before the thread
\* is posted again.
FetchInv == pool # "done" => thctx.finished_tasks = <<>> /\ ~thctx.freed

\* An operation has one answer, in one place.
OpsInv ==
  /\ Distinct(tasks) /\ Distinct(thctx.finished_tasks)
  /\ Distinct(thctx.occupied)
  /\ \A g, h \in goroutines : g.op = h.op => g = h
  /\ Apart(goroutines, Reported) /\ Apart(goroutines, Fetched)
  /\ Apart(goroutines, Occupied) /\ Apart(Reported, Fetched)
  /\ Apart(Reported, Occupied) /\ Apart(Fetched, Occupied)
  /\ \A x \in Answers : x.op <= nops

\* The answer to an operation some coroutine waits for names the context the
\* coroutine waits on.
IdInv ==
  \A k \in Co : Waits(k) =>
    /\ co[k].op <= nops
    /\ \A x \in Answers : x.op = co[k].op => x.id = co[k].data

\* ResultStillComing, with the place left out.
ComingInv ==
  \A k \in Co : Waits(k) /\ ~MayFail /\ ~ngx_exiting /\ Up =>
    \E x \in Answers : x.op = co[k].op

\* Operations, answers and the coroutines that wait for them.
AnswerInv == FetchInv /\ OpsInv /\ IdInv /\ ComingInv

----------------------------------------------------------------------------
\* Sequences of results.

\* A reported result is a new one.
LEMMA DistinctAppend ==
  ASSUME NEW q \in Seq(Result), NEW x \in Result, Distinct(q),
         Apart({x}, Elems(q))
  PROVE  Distinct(Append(q, x))
<1>1. /\ Len(Append(q, x)) = Len(q) + 1 /\ Append(q, x)[Len(q) + 1] = x
      /\ \A i \in 1 .. Len(q) : Append(q, x)[i] = q[i]
  OBVIOUS
<1>2. \A i \in 1 .. Len(q) : q[i].op # x.op
  BY DEF Apart, Elems
<1> QED
  BY <1>1, <1>2 DEF Distinct

\* The first result of a queue and the others.
LEMMA TakeHead ==
  ASSUME NEW q \in Seq(Result), q # <<>>
  PROVE  /\ Head(q) \in Result
         /\ Elems(q) = {Head(q)} \cup Elems(Tail(q))
         /\ Distinct(q) => /\ Distinct(Tail(q))
                           /\ Apart({Head(q)}, Elems(Tail(q)))
<1>1. /\ Len(q) \in Nat /\ Len(q) > 0 /\ Len(Tail(q)) = Len(q) - 1
      /\ Head(q) = q[1] /\ q[1] \in Result
      /\ \A i \in 1 .. Len(q) - 1 : Tail(q)[i] = q[i + 1]
  OBVIOUS
<1>2. Elems(q) \subseteq {Head(q)} \cup Elems(Tail(q))
  <2> SUFFICES ASSUME NEW i \in 1 .. Len(q), i # 1
               PROVE  q[i] \in Elems(Tail(q))
    BY <1>1 DEF Elems
  <2>1. i - 1 \in 1 .. Len(q) - 1 /\ Tail(q)[i - 1] = q[i]
    BY <1>1
  <2> QED
    BY <1>1, <2>1 DEF Elems
<1>3. {Head(q)} \cup Elems(Tail(q)) \subseteq Elems(q)
  <2>1. \A i \in 1 .. Len(q) - 1 : i + 1 \in 1 .. Len(q)
    BY <1>1
  <2> QED
    BY <1>1, <2>1 DEF Elems
<1>4. ASSUME Distinct(q)
      PROVE  Distinct(Tail(q)) /\ Apart({Head(q)}, Elems(Tail(q)))
  <2>1. \A i \in 1 .. Len(q) - 1 : i + 1 \in 1 .. Len(q) /\ i + 1 # 1
    BY <1>1
  <2>2. \A i \in 1 .. Len(q) - 1 : q[i + 1].op # q[1].op
    BY <1>1, <1>4, <2>1 DEF Distinct
  <2>3. Apart({Head(q)}, Elems(Tail(q)))
    BY <1>1, <2>2 DEF Apart, Elems
  <2>4. Distinct(Tail(q))
    BY <1>1, <1>4, <2>1 DEF Distinct
  <2> QED
    BY <2>3, <2>4
<1> QED
  BY <1>1, <1>2, <1>3, <1>4

\* One queue after another.
LEMMA ConcatResults ==
  ASSUME NEW p \in Seq(Result), NEW q \in Seq(Result)
  PROVE  /\ p \o q \in Seq(Result)
         /\ Elems(p \o q) = Elems(p) \cup Elems(q)
         /\ Distinct(p) /\ Distinct(q) /\ Apart(Elems(p), Elems(q))
              => Distinct(p \o q)
<1>1. /\ p \o q \in Seq(Result) /\ Len(p \o q) = Len(p) + Len(q)
      /\ Len(p) \in Nat /\ Len(q) \in Nat
      /\ \A i \in 1 .. Len(p) : (p \o q)[i] = p[i]
      /\ \A i \in 1 .. Len(q) : (p \o q)[Len(p) + i] = q[i]
  OBVIOUS
<1>2. \A i \in 1 .. Len(p \o q) :
        \/ i \in 1 .. Len(p)
        \/ i - Len(p) \in 1 .. Len(q) /\ i = Len(p) + (i - Len(p))
  BY <1>1
<1>3. \A i \in 1 .. Len(q) : Len(p) + i \in 1 .. Len(p \o q)
  BY <1>1
<1>4. \A i \in 1 .. Len(p) : i \in 1 .. Len(p \o q)
  BY <1>1
<1>5. Elems(p \o q) \subseteq Elems(p) \cup Elems(q)
  BY <1>1, <1>2 DEF Elems
<1>6. Elems(p) \cup Elems(q) \subseteq Elems(p \o q)
  BY ZenonT(40), <1>1, <1>3, <1>4 DEF Elems
<1>7. ASSUME Distinct(p), Distinct(q), Apart(Elems(p), Elems(q)),
             NEW i \in 1 .. Len(p \o q), NEW j \in 1 .. Len(p \o q),
             (p \o q)[i].op = (p \o q)[j].op
      PROVE  i = j
  <2>1. CASE i \in 1 .. Len(p) /\ j \in 1 .. Len(p)
    BY <1>1, <1>7, <2>1 DEF Distinct
  <2>2. CASE i \notin 1 .. Len(p) /\ j \notin 1 .. Len(p)
    <3>1. /\ i - Len(p) \in 1 .. Len(q) /\ (p \o q)[i] = q[i - Len(p)]
          /\ j - Len(p) \in 1 .. Len(q) /\ (p \o q)[j] = q[j - Len(p)]
      BY <1>1, <1>2, <2>2
    <3>2. i - Len(p) = j - Len(p)
      BY <1>7, <3>1 DEF Distinct
    <3> QED
      BY <1>1, <3>2
  <2>3. ASSUME NEW m \in 1 .. Len(p), NEW n \in 1 .. Len(q)
        PROVE  p[m].op # q[n].op
    BY <1>7 DEF Apart, Elems
  <2>4. CASE i \in 1 .. Len(p) /\ j \notin 1 .. Len(p)
    <3>1. j - Len(p) \in 1 .. Len(q) /\ (p \o q)[j] = q[j - Len(p)]
      BY <1>1, <1>2, <2>4
    <3> QED
      BY <1>1, <1>7, <2>3, <2>4, <3>1
  <2>5. CASE i \notin 1 .. Len(p) /\ j \in 1 .. Len(p)
    <3>1. i - Len(p) \in 1 .. Len(q) /\ (p \o q)[i] = q[i - Len(p)]
      BY <1>1, <1>2, <2>5
    <3> QED
      BY <1>1, <1>7, <2>3, <2>5, <3>1
  <2> QED
    BY <2>1, <2>2, <2>4, <2>5
<1> QED
  BY <1>1, <1>5, <1>6, <1>7 DEF Distinct

\* The results of s whose indices f lists.
Kept(s, m, f) == [i \in 1 .. m |-> s[f[i]]]

\* The results insert_posted_event_ctx keeps: all of them if there is memory.
LEMMA KeptResults ==
  ASSUME NEW s \in Seq(Result), NEW m \in 0 .. Len(s),
         NEW f \in [1 .. m -> 1 .. Len(s)], Keeps(Len(s), m, f)
  PROVE  /\ Kept(s, m, f) \in Seq(Result)
         /\ Elems(Kept(s, m, f)) \subseteq Elems(s)
         /\ ~MayFail => Elems(Kept(s, m, f)) = Elems(s)
         /\ Distinct(s) => Distinct(Kept(s, m, f))
<1> DEFINE t == Kept(s, m, f)
<1>1. /\ m \in Nat /\ Len(s) \in Nat
      /\ \A i \in 1 .. m : f[i] \in 1 .. Len(s)
      /\ \A i \in 1 .. Len(s) : s[i] \in Result
  OBVIOUS
<1>2. t \in Seq(Result) /\ Len(t) = m /\ \A i \in 1 .. m : t[i] = s[f[i]]
  BY <1>1 DEF Kept
<1> HIDE DEF t
<1>3. Elems(t) \subseteq Elems(s)
  BY <1>1, <1>2 DEF Elems
<1>4. ASSUME ~MayFail PROVE Elems(s) \subseteq Elems(t)
  <2>1. \A i \in 1 .. Len(s) : \E j \in 1 .. m : f[j] = i
    BY <1>4 DEF Keeps
  <2> QED
    BY <1>2, <2>1 DEF Elems
<1>5. ASSUME Distinct(s) PROVE Distinct(t)
  <2>1. ASSUME NEW i \in 1 .. m, NEW j \in 1 .. m, f[i] = f[j] PROVE i = j
    <3>1. f[i] \in Int /\ f[j] \in Int /\ (i < j => f[i] < f[j])
          /\ (j < i => f[j] < f[i])
      BY <1>1 DEF Keeps
    <3> QED
      BY <2>1, <3>1
  <2> QED
    BY <1>1, <1>2, <1>5, <2>1 DEF Distinct
<1> QED
  BY Zenon, <1>2, <1>3, <1>4, <1>5 DEF t

\* A buffer belongs to a result.
LEMMA BufsOfElems ==
  ASSUME NEW s \in Seq(Result), NEW n
  PROVE  n \in BufsOf(s) <=>
           \E x \in Elems(s) : x.op = n /\ x.type # "ok_not_res"
BY DEF BufsOf, Elems

\* Where the results are, and their types.
LEMMA ResultTypes ==
  ASSUME TypeOK
  PROVE  /\ tasks \in Seq(Result) /\ thctx.finished_tasks \in Seq(Result)
         /\ thctx.occupied \in Seq(Result) /\ thctx \in ThreadCtx
         /\ goroutines \subseteq Goroutine /\ nops \in Nat
         /\ \A x \in Answers : x.op \in Nat
<1>1. /\ tasks \in Seq(Result) /\ thctx.finished_tasks \in Seq(Result)
      /\ thctx.occupied \in Seq(Result) /\ thctx \in ThreadCtx
      /\ goroutines \subseteq Goroutine /\ nops \in Nat
  BY MaxOpsAssumption DEF TypeOK, EngineTypeOK, ClientTypeOK, ThreadCtx
<1>2. ASSUME NEW q \in Seq(Result) PROVE Elems(q) \subseteq Result
  BY DEF Elems
<1>3. \A x \in Result \cup Goroutine : x.op \in Nat
  BY MaxOpsAssumption DEF Result, Goroutine, Op
<1> QED
  BY <1>1, <1>2, <1>3 DEF Answers, Reported, Fetched, Occupied

\* The event handler moves results from the thread's array to the queue of
\* posted ones, all of them if there is memory.
LEMMA EventMoves ==
  ASSUME TypeOK, ThreadEvent, ~thctx.freed
  PROVE  \E t \in Seq(Result) :
           /\ thctx'.finished_tasks = <<>> /\ ~thctx'.freed
           /\ thctx'.occupied = thctx.occupied \o t
           /\ Elems(t) \subseteq Fetched /\ (~MayFail => Elems(t) = Fetched)
           /\ Distinct(thctx.finished_tasks) => Distinct(t)
<1> DEFINE s == thctx.finished_tasks
           kept(m, f) ==
             /\ Keeps(Len(s), m, f)
             /\ thctx' = [finished_tasks |-> <<>>, freed |-> FALSE,
                  posted_ev |-> thctx.posted_ev \/ Len(s) > 0,
                  occupied |-> thctx.occupied \o [i \in 1 .. m |-> s[f[i]]],
                  free |-> IF thctx.free > Len(s) THEN thctx.free - Len(s)
                           ELSE 0]
<1>1. s \in Seq(Result)
  BY ResultTypes
<1>2. PICK m \in 0 .. Len(s) : \E f \in [1 .. m -> 1 .. Len(s)] : kept(m, f)
  BY Zenon DEF ThreadEvent, thread_event_handler
<1>3. PICK f \in [1 .. m -> 1 .. Len(s)] : kept(m, f)
  BY <1>2, Zenon
<1> DEFINE t == Kept(s, m, f)
<1>4. /\ thctx'.finished_tasks = <<>> /\ ~thctx'.freed
      /\ thctx'.occupied = thctx.occupied \o t
  BY Zenon, <1>3 DEF Kept
<1>5. /\ t \in Seq(Result) /\ Elems(t) \subseteq Elems(s)
      /\ ~MayFail => Elems(t) = Elems(s)
      /\ Distinct(s) => Distinct(t)
  <2>1. Keeps(Len(s), m, f)
    BY <1>3
  <2> QED
    BY <1>1, <2>1, KeptResults
<1> HIDE DEF t
<1> QED
  BY <1>4, <1>5, Zenon DEF Fetched

----------------------------------------------------------------------------
\* No coroutine begins to wait: those that go on waiting need their answers
\* to stay, and no answer to be made up.
LEMMA WaitersFrame ==
  ASSUME IdInv, ComingInv, nops' = nops,
         \A j \in Co : Waits(j)' => Waits(j) /\ co'[j] = co[j],
         Up' => Up, ngx_exiting => ngx_exiting',
         \A y \in Answers' : \E x \in Answers : x.op = y.op /\ x.id = y.id,
         ~MayFail /\ ~ngx_exiting' /\ Up' =>
           \A j \in Co, x \in Answers :
             Waits(j)' /\ x.op = co[j].op => \E y \in Answers' : y.op = x.op
  PROVE  IdInv' /\ ComingInv'
<1>1. IdInv'
  BY DEF IdInv
<1>2. ComingInv'
  BY DEF ComingInv
<1> QED
  BY <1>1, <1>2

\* Nothing moves in the engine, the thread or the queue.
LEMMA AnswersFrame ==
  ASSUME AnswerInv, UNCHANGED <<goroutines, tasks, thctx, nops>>,
         pool' \in {pool, Scheduled}, Up' => Up, ngx_exiting => ngx_exiting',
         \A j \in Co : Waits(j)' => Waits(j) /\ co'[j] = co[j]
  PROVE  AnswerInv'
<1>1. Answers' = Answers
  BY DEF Answers, Reported, Fetched, Occupied
<1>2. IdInv' /\ ComingInv'
  BY <1>1, WaitersFrame DEF AnswerInv
<1>3. FetchInv'
  BY DEF AnswerInv, FetchInv, Scheduled
<1>4. OpsInv'
  BY <1>1 DEF AnswerInv, OpsInv, Reported, Fetched, Occupied
<1> QED
  BY <1>2, <1>3, <1>4 DEF AnswerInv

\* An operation starts: its number is new.
LEMMA StartAnswers ==
  ASSUME TypeOK, AnswerInv, NEW k \in Co, NEW a \in Sctx, NEW s, NEW kind,
         NEW engineKind, kick_off_task(k, a, s, kind),
         \/ Go(engineKind, a, nops + 1) /\ UNCHANGED fault
         \/ fault' = "panic" /\ UNCHANGED goroutines,
         UNCHANGED <<tasks, thctx, ngx_exiting>>
  PROVE  AnswerInv'
<1> DEFINE g == [kind |-> engineKind, id |-> a, op |-> nops + 1]
<1>0. nops \in Nat /\ \A x \in Answers : x.op \in Nat /\ x.op <= nops
  BY ResultTypes DEF AnswerInv, OpsInv
<1>1. /\ nops' = nops + 1 /\ pool' = Scheduled
      /\ \A j \in Co : j # k => co'[j] = co[j]
      /\ co'[k].op = nops + 1 /\ co'[k].data = a /\ co'[k].status = "wait"
  BY DEF kick_off_task, TypeOK, ClientTypeOK
<1>2. \/ goroutines' = goroutines \cup {g} /\ fault' = fault
      \/ goroutines' = goroutines /\ fault' = "panic"
  BY DEF Go
<1>3. g.op = nops + 1 /\ g.id = a
  OBVIOUS
<1> HIDE DEF g
<1>4. UNCHANGED <<Reported, Fetched, Occupied>>
  BY DEF Reported, Fetched, Occupied
<1>5. \/ Answers' = Answers \cup {g} /\ fault' = fault
      \/ Answers' = Answers /\ fault' = "panic"
  BY <1>2, <1>4 DEF Answers
<1>6. FetchInv'
  BY <1>1 DEF AnswerInv, FetchInv, Scheduled
<1>7. OpsInv'
  <2>1. \A x \in Answers : x.op # g.op
    BY <1>0, <1>3
  <2>2. \A x \in Answers' : x.op <= nops'
    BY <1>0, <1>1, <1>3, <1>5
  <2>3. /\ \A x \in goroutines : x.op # g.op
        /\ \A x \in Reported : x.op # g.op
        /\ \A x \in Fetched : x.op # g.op
        /\ \A x \in Occupied : x.op # g.op
    BY <2>1 DEF Answers
  <2>4. \A x, h \in goroutines' : x.op = h.op => x = h
    BY <1>2, <2>3 DEF AnswerInv, OpsInv
  <2>5. Apart(goroutines, Reported)' /\ Apart(goroutines, Fetched)'
        /\ Apart(goroutines, Occupied)'
    BY <1>2, <1>4, <2>3 DEF AnswerInv, OpsInv, Apart
  <2> QED
    BY <1>4, <2>2, <2>4, <2>5 DEF AnswerInv, OpsInv
<1>8. IdInv'
  <2> SUFFICES ASSUME NEW j \in Co, Waits(j)'
               PROVE  /\ co'[j].op <= nops'
                      /\ \A x \in Answers' : x.op = co'[j].op
                                               => x.id = co'[j].data
    BY DEF IdInv
  <2>1. CASE j = k
    BY SMTT(40), <1>0, <1>1, <1>3, <1>5, <2>1
  <2>2. CASE j # k
    <3>1. Waits(j) /\ co'[j] = co[j] /\ co[j].op <= nops
      BY <1>1, <2>2 DEF Waits, AnswerInv, IdInv
    <3>2. co[j].op \in Int
      BY SMTT(40), MaxOpsAssumption DEF TypeOK, ClientTypeOK, CoCtx, Op
    <3>3. co[j].op # g.op
      BY <1>0, <1>3, <3>1, <3>2
    <3>4. \A x \in Answers : x.op = co[j].op => x.id = co[j].data
      BY <3>1 DEF AnswerInv, IdInv
    <3> QED
      BY SMTT(40), <1>0, <1>1, <1>5, <3>1, <3>2, <3>3, <3>4
  <2> QED
    BY <2>1, <2>2
<1>9. ComingInv'
  <2> SUFFICES ASSUME NEW j \in Co, Waits(j)', ~MayFail, ~ngx_exiting', Up'
               PROVE  \E x \in Answers' : x.op = co'[j].op
    BY DEF ComingInv
  <2>1. Answers' = Answers \cup {g} /\ fault' = fault
    BY <1>5 DEF Up
  <2>2. CASE j = k
    BY <1>1, <1>3, <2>1, <2>2
  <2>3. CASE j # k
    BY <1>1, <2>1, <2>3 DEF Waits, Up, AnswerInv, ComingInv
  <2> QED
    BY <2>2, <2>3
<1> QED
  BY <1>6, <1>7, <1>8, <1>9 DEF AnswerInv

\* A goroutine reports: its result takes its place.
LEMMA FinishAnswers ==
  ASSUME TypeOK, AnswerInv, NEW g \in goroutines, Finish(g)
  PROVE  AnswerInv'
<1>0. /\ tasks \in Seq(Result) /\ goroutines \subseteq Goroutine
  BY ResultTypes
<1>1. PICK type \in ResType : ReportFinishedTask(g, type)
  BY DEF Finish, Outcome, ResType
<1> DEFINE x == [id |-> g.id, op |-> g.op, type |-> type]
<1>2. /\ x \in Result /\ x.op = g.op /\ x.id = g.id
      /\ goroutines' = goroutines \ {g} /\ tasks' = Append(tasks, x)
  BY <1>0, <1>1 DEF ReportFinishedTask, Goroutine, Result
<1> HIDE DEF x
<1>3. UNCHANGED <<Fetched, Occupied, thctx, pool, co, nops, ngx_exiting, fault>>
  BY DEF Finish, clientVars, Fetched, Occupied
<1>4. Reported' = Reported \cup {x}
  BY <1>0, <1>2, QueueAppend DEF Reported
<1>5. Answers' = (Answers \ {g}) \cup {x} \/ Answers' = Answers \cup {x}
  BY <1>2, <1>3, <1>4 DEF Answers
<1>6. IdInv' /\ ComingInv'
  <2>1. g \in Answers
    BY DEF Answers
  <2> QED
    BY <1>2, <1>3, <1>5, <2>1, WaitersFrame DEF AnswerInv, Waits, Up
<1>7. OpsInv'
  <2>1. /\ Apart({x}, Reported) /\ Apart({x}, Fetched) /\ Apart({x}, Occupied)
        /\ \A h \in goroutines' : h.op # x.op
    BY <1>2 DEF AnswerInv, OpsInv, Apart
  <2>2. Distinct(tasks)'
    BY <1>0, <1>2, <2>1, DistinctAppend DEF AnswerInv, OpsInv, Reported
  <2>3. \A y \in Answers' : y.op <= nops'
    BY <1>2, <1>3, <1>5 DEF AnswerInv, OpsInv, Answers
  <2>4. /\ Apart(goroutines, Reported)' /\ Apart(goroutines, Fetched)'
        /\ Apart(goroutines, Occupied)'
    BY <1>2, <1>3, <1>4, <2>1 DEF AnswerInv, OpsInv, Apart
  <2>5. Apart(Reported, Fetched)' /\ Apart(Reported, Occupied)'
    BY <1>3, <1>4, <2>1 DEF AnswerInv, OpsInv, Apart
  <2> QED
    BY Zenon, <1>2, <1>3, <2>2, <2>3, <2>4, <2>5 DEF AnswerInv, OpsInv
<1> QED
  BY <1>3, <1>6, <1>7 DEF AnswerInv, FetchInv

\* The thread fetches what has been reported.
LEMMA ThreadAnswers ==
  ASSUME TypeOK, AnswerInv, ThreadHandler
  PROVE  AnswerInv'
<1>0. thctx \in ThreadCtx
  BY ResultTypes
<1>1. /\ pool = "queued" /\ pool' = "done" /\ tasks' = <<>>
      /\ thctx'.finished_tasks = tasks /\ thctx'.occupied = thctx.occupied
      /\ UNCHANGED <<goroutines, co, nops, ngx_exiting, fault>>
  BY <1>0 DEF ThreadHandler, thread_handler, grpc_engine_wait, ThreadCtx
<1>2. thctx.finished_tasks = <<>>
  BY <1>1 DEF AnswerInv, FetchInv
<1>3. /\ Reported' = {} /\ Fetched' = Reported /\ Occupied' = Occupied
      /\ Fetched = {}
  BY <1>1, <1>2, QueueEmpty DEF Reported, Fetched, Occupied
<1>4. Answers' = Answers
  BY <1>1, <1>3 DEF Answers
<1>5. IdInv' /\ ComingInv'
  BY <1>1, <1>4, WaitersFrame DEF AnswerInv, Waits, Up
<1>6. OpsInv'
  <2>1. Distinct(tasks)'
    BY <1>1 DEF Distinct
  <2> QED
    BY <1>1, <1>3, <1>4, <2>1 DEF AnswerInv, OpsInv, Apart
<1> QED
  BY <1>1, <1>5, <1>6 DEF AnswerInv, FetchInv

\* The event handler changes the place of the answers only.
LEMMA EventAnswers ==
  ASSUME TypeOK, AnswerInv, ThreadEvent
  PROVE  AnswerInv'
<1>0. /\ thctx.finished_tasks \in Seq(Result)
      /\ thctx.occupied \in Seq(Result)
  BY ResultTypes
<1>1. /\ UNCHANGED <<goroutines, tasks, co, nops, ngx_exiting>>
      /\ thread_event_handler /\ Up /\ pool = "done"
  BY Zenon DEF ThreadEvent, thread_event_handler, InLoop, engineVars
<1>2. CASE thctx.freed
  <2>1. fault' = "uaf" /\ UNCHANGED <<thctx, pool>>
    BY <1>1, <1>2 DEF thread_event_handler
  <2> QED
    BY <1>1, <2>1, AnswersFrame DEF Up, Waits
<1>3. CASE ~thctx.freed
  <2>1. PICK t \in Seq(Result) :
          /\ thctx'.finished_tasks = <<>> /\ ~thctx'.freed
          /\ thctx'.occupied = thctx.occupied \o t
          /\ Elems(t) \subseteq Fetched /\ (~MayFail => Elems(t) = Fetched)
          /\ Distinct(thctx.finished_tasks) => Distinct(t)
    BY <1>3, EventMoves
  <2>5. /\ Occupied' = Occupied \cup Elems(t) /\ Reported' = Reported
        /\ Fetched' = {}
    BY <1>0, <1>1, <2>1, ConcatResults, QueueEmpty
    DEF Occupied, Reported, Fetched
  <2>6. Answers' \subseteq Answers /\ (~MayFail => Answers' = Answers)
    BY <1>1, <2>1, <2>5 DEF Answers
  <2>7. IdInv' /\ ComingInv'
    BY Zenon, <1>1, <2>6, WaitersFrame DEF AnswerInv, Waits
  <2>8. OpsInv'
    <3>1. Apart(Occupied, Elems(t))
      BY <2>1, <2>5 DEF AnswerInv, OpsInv, Apart
    <3>2. Distinct(thctx.occupied)'
      BY <1>0, <2>1, <2>1, <3>1, ConcatResults DEF AnswerInv, OpsInv, Occupied
    <3>3. Distinct(thctx.finished_tasks)'
      BY SMTT(40), <2>1 DEF Distinct
    <3>4. \A x \in Answers' : x.op <= nops'
      BY Zenon, <1>1, <2>6 DEF AnswerInv, OpsInv
    <3>5. Apart(goroutines, Occupied)' /\ Apart(Reported, Occupied)'
      BY <1>1, <2>1, <2>5 DEF AnswerInv, OpsInv, Apart
    <3>6. Apart(goroutines, Fetched)' /\ Apart(Reported, Fetched)'
          /\ Apart(Fetched, Occupied)'
      BY <2>5 DEF Apart
    <3> QED
      BY Zenon, <1>1, <2>5, <3>2, <3>3, <3>4, <3>5, <3>6
      DEF AnswerInv, OpsInv
  <2>9. FetchInv'
    BY <2>1 DEF FetchInv
  <2> QED
    BY <2>7, <2>8, <2>9 DEF AnswerInv
<1> QED
  BY <1>2, <1>3

\* A posted result leaves the queue: the coroutines that go on waiting do not
\* wait on the context it names.
LEMMA TakeAnswers ==
  ASSUME TypeOK, AnswerInv, TakePosted, thctx.occupied # <<>>,
         UNCHANGED <<goroutines, tasks, pool, nops, ngx_exiting, fault>>,
         \A j \in Co : Waits(j)' => /\ Waits(j) /\ co'[j] = co[j]
                                    /\ co[j].data # Head(thctx.occupied).id
  PROVE  AnswerInv'
<1> DEFINE h == Head(thctx.occupied)
<1>0. thctx \in ThreadCtx /\ thctx.occupied \in Seq(Result)
  BY ResultTypes
<1>1. /\ thctx'.finished_tasks = thctx.finished_tasks
      /\ thctx'.freed = thctx.freed
      /\ thctx'.occupied = Tail(thctx.occupied)
  BY <1>0 DEF TakePosted, ThreadCtx
<1>2. /\ Occupied = {h} \cup Occupied'
      /\ Distinct(thctx.occupied)'
      /\ Reported' = Reported /\ Fetched' = Fetched
  BY Zenon, <1>0, <1>1, TakeHead
  DEF AnswerInv, OpsInv, Occupied, Reported, Fetched
<1>3. h \in Answers
  BY <1>2 DEF Answers
<1> HIDE DEF h
<1>4. Answers' \subseteq Answers /\ Answers \subseteq Answers' \cup {h}
  BY <1>2 DEF Answers
<1>5. \A j \in Co : Waits(j)' => co[j].op # h.op
  BY <1>3 DEF AnswerInv, IdInv, h
<1>6. IdInv' /\ ComingInv'
  BY <1>4, <1>5, WaitersFrame DEF AnswerInv, Up
<1>7. OpsInv'
  <2>1. Occupied' \subseteq Occupied
    BY <1>2
  <2> QED
    BY <1>1, <1>2, <1>4, <2>1 DEF AnswerInv, OpsInv, Apart
<1> QED
  BY <1>1, <1>6, <1>7 DEF AnswerInv, FetchInv

\* Every step of the worker preserves AnswerInv.
LEMMA AnswerStep ==
  TypeOK /\ ContextInv /\ AnswerInv /\ [Next]_vars => AnswerInv'
<1> SUFFICES ASSUME TypeOK, ContextInv, AnswerInv, [Next]_vars
             PROVE  AnswerInv'
  OBVIOUS
<1>0. KeptIsWaiting /\ co \in [Co -> CoCtx]
  BY Zenon DEF ContextInv, TypeOK, ClientTypeOK
<1>1. CASE EventLoop \/ UNCHANGED vars
  BY <1>1, AnswersFrame DEF EventLoop, RunRequest, Yield, Exit, vars,
                            engineVars, clientVars, Waits, Up
<1>2. CASE Lua
  <2>1. ASSUME NEW k \in Co, NEW c \in Conn, NEW type \in StreamTypes,
               StartCall(k, c, type)
        PROVE  AnswerInv'
    <3> DEFINE kind == IF type = "unary" THEN "call" ELSE "new_stream"
    <3>1. PICK a \in Sctx : new_stream(k, c, a, type)
      BY <2>1 DEF StartCall
    <3>2. /\ kick_off_task(k, a, NewSctx(k, c, type), kind)
          /\ \/ Go(kind, a, nops + 1) /\ UNCHANGED fault
             \/ fault' = "panic" /\ UNCHANGED goroutines
      BY <3>1 DEF new_stream
    <3>3. UNCHANGED <<tasks, thctx, ngx_exiting>>
      BY <2>1 DEF StartCall
    <3> QED
      BY <3>2, <3>3, StartAnswers
  <2>2. ASSUME NEW k \in Co, NEW a \in Sctx, NEW kind \in Kind,
               StreamOp(k, a, kind)
        PROVE  AnswerInv'
    <3>1. /\ kick_off_task(k, a, sctx[a], kind)
          /\ \/ Go(EngineOf(kind), a, nops + 1) /\ UNCHANGED fault
             \/ fault' = "panic" /\ UNCHANGED goroutines
      BY ZenonT(40), <2>2 DEF StreamOp, stream_op
    <3>2. UNCHANGED <<tasks, thctx, ngx_exiting>>
      BY Zenon, <2>2 DEF StreamOp
    <3> QED
      BY ZenonT(40), <3>1, <3>2, StartAnswers
  <2>3. ASSUME NEW k \in Co, NEW c \in Conn, NEW type \in StreamTypes,
               StartCallFails(k, c, type)
        PROVE  AnswerInv'
    BY Zenon, <2>3, AnswersFrame DEF StartCallFails, new_stream_fails,
                              kick_off_fails, engineVars, Waits, Up
  <2>4. ASSUME NEW k \in Co, NEW a \in Sctx, StreamOpFails(k, a)
        PROVE  AnswerInv'
    BY Zenon, <2>4, AnswersFrame DEF StreamOpFails, kick_off_fails, engineVars,
                              Waits, Up
  <2>5. ASSUME NEW k \in Co, NEW c \in Conn, Connect(k, c) \/ ConnClose(k, c)
        PROVE  AnswerInv'
    <3>1. UNCHANGED <<goroutines, tasks, thctx, nops, pool, fault,
                      ngx_exiting, co>>
      BY Zenon, <2>5 DEF Connect, ConnClose
    <3> QED
      BY <3>1, AnswersFrame DEF Waits, Up
  <2>6. ASSUME NEW k \in Co, NEW a \in Sctx, StreamClose(k, a)
        PROVE  AnswerInv'
    BY <2>6, AnswersFrame DEF StreamClose, close_stream, Waits, Up
  <2>7. ASSUME NEW c \in Conn, ctx_gc_handler(c) PROVE AnswerInv'
    BY <2>7, AnswersFrame DEF ctx_gc_handler, Waits, Up
  <2>8. ASSUME NEW a \in Sctx, stream_gc_handler(a) PROVE AnswerInv'
    <3>1. Up
      BY <2>8 DEF stream_gc_handler
    <3> QED
      BY <2>8, <3>1, AnswersFrame DEF stream_gc_handler, Waits
  <2>9. ASSUME NEW k \in Co, Kill(k) PROVE AnswerInv'
    <3>1. /\ UNCHANGED <<goroutines, tasks, thctx, nops, pool, fault,
                         ngx_exiting>>
          /\ co' = [co EXCEPT ![k] = [IdleCo EXCEPT !.status = "dead"]]
      BY <2>9 DEF Kill, cleanup, engineVars
    <3>2. \A j \in Co : Waits(j)' => Waits(j) /\ co'[j] = co[j]
      BY <1>0, <3>1 DEF Waits, IdleCo
    <3> QED
      BY <3>1, <3>2, AnswersFrame DEF Up
  <2> QED
    BY Zenon, <1>2, <2>1, <2>2, <2>3, <2>4, <2>5, <2>6, <2>7, <2>8, <2>9
    DEF Lua
<1>3. CASE Handlers
  <2>1. CASE PostedEmpty
    <3>1. /\ UNCHANGED <<goroutines, tasks, co, nops, pool, fault, ngx_exiting>>
          /\ thctx' = [thctx EXCEPT !.posted_ev = FALSE]
      BY <2>1 DEF PostedEmpty, post_event_empty, engineVars
    <3>2. /\ thctx'.finished_tasks = thctx.finished_tasks
          /\ thctx'.freed = thctx.freed /\ thctx'.occupied = thctx.occupied
      BY <3>1, ResultTypes DEF ThreadCtx
    <3>3. UNCHANGED <<Reported, Fetched, Occupied>>
      BY <3>1, <3>2 DEF Reported, Fetched, Occupied
    <3>4. Answers' = Answers
      BY <3>1, <3>3 DEF Answers
    <3>5. IdInv' /\ ComingInv'
      BY <3>1, <3>4, WaitersFrame DEF AnswerInv, Waits, Up
    <3>6. OpsInv'
      BY <3>1, <3>2, <3>3, <3>4 DEF AnswerInv, OpsInv
    <3> QED
      BY <3>1, <3>2, <3>5, <3>6 DEF AnswerInv, FetchInv
  <2>2. CASE PostedCancelled
    <3>1. /\ UNCHANGED <<goroutines, tasks, co, nops, pool, fault, ngx_exiting>>
          /\ thctx.occupied # <<>> /\ TakePosted
          /\ Head(thctx.occupied).id \notin ongoing_tasks
      BY <2>2
      DEF PostedCancelled, post_event_cancelled, lookup_task, engineVars
    <3>2. \A j \in Co : Waits(j) => co[j].data \in ongoing_tasks
      BY Zenon, <1>0 DEF KeptIsWaiting
    <3> QED
      BY Zenon, <3>1, <3>2, TakeAnswers DEF Waits
  <2>3. ASSUME NEW k \in Co, NEW a \in Sctx, NEW ok \in BOOLEAN,
               PostedResumes(k, a, ok)
        PROVE  AnswerInv'
    <3>1. /\ UNCHANGED <<goroutines, tasks, nops, pool, ngx_exiting>>
          /\ thctx.occupied # <<>> /\ TakePosted
          /\ a = Head(thctx.occupied).id /\ k = sctx[a].wait_co_ctx
          /\ co' = [co EXCEPT ![k] = IdleCo]
      BY Zenon, <2>3 DEF PostedResumes, post_event_resumes, to_resume
    <3>2. fault' = fault
      BY ZenonT(40), <2>3, PostedResumesContext
    <3>3. \A j \in Co : Waits(j)' => /\ Waits(j) /\ co'[j] = co[j]
                                     /\ co[j].data # a
      BY <1>0, <3>1 DEF Waits, IdleCo, KeptIsWaiting
    <3> QED
      BY Zenon, <3>1, <3>2, <3>3, TakeAnswers
  <2>4. ASSUME NEW k \in Co, NEW a \in Sctx, Timeout(k, a) PROVE AnswerInv'
    <3>1. /\ UNCHANGED <<goroutines, tasks, thctx, nops, pool, ngx_exiting>>
          /\ co' = [co EXCEPT ![sctx[a].wait_co_ctx] = IdleCo]
      BY Zenon, <2>4 DEF Timeout, timeout_handler, to_resume
    <3>2. fault' = fault
      BY Zenon, <2>4, TimeoutContext
    <3>3. \A j \in Co : Waits(j)' => Waits(j) /\ co'[j] = co[j]
      BY Zenon, <1>0, <3>1 DEF Waits, IdleCo
    <3> QED
      BY Zenon, <3>1, <3>2, <3>3, AnswersFrame DEF Up
  <2> QED
    BY <1>3, <2>1, <2>2, <2>3, <2>4, FinishAnswers, ThreadAnswers, EventAnswers
    DEF Handlers, Posted
<1> QED
  BY <1>1, <1>2, <1>3 DEF Next

\* The pipeline holds the results of the three places.
LEMMA PipelineElems ==
  ASSUME TypeOK
  PROVE  /\ Elems(Pipeline) = Reported \cup Fetched \cup Occupied
         /\ OpsInv => Distinct(Pipeline)
<1> DEFINE q == tasks \o thctx.finished_tasks
<1>1. /\ tasks \in Seq(Result) /\ thctx.finished_tasks \in Seq(Result)
      /\ thctx.occupied \in Seq(Result)
  BY Zenon, ResultTypes
<1>2. /\ q \in Seq(Result) /\ Elems(q) = Reported \cup Fetched
      /\ OpsInv => Distinct(q) /\ Apart(Elems(q), Occupied)
  BY <1>1, ConcatResults DEF Reported, Fetched, OpsInv, Apart
<1>3. Pipeline = q \o thctx.occupied
  BY DEF Pipeline
<1> HIDE DEF q
<1> QED
  BY Zenon, <1>1, <1>2, <1>3, ConcatResults DEF Occupied, OpsInv

----------------------------------------------------------------------------
\* A posted result leaves the queue and its buffer is freed: no other result
\* is that of the same operation.
LEMMA TakeBufs ==
  ASSUME TypeOK, AnswerInv, BufsOwned, thctx.occupied # <<>>, TakePosted,
         FreeBuf(Head(thctx.occupied))
  PROVE  BufsOwned'
<1> DEFINE h == Head(thctx.occupied)
           q == Tail(thctx.occupied)
<1>0. /\ thctx \in ThreadCtx /\ thctx.occupied \in Seq(Result)
      /\ thctx.finished_tasks \in Seq(Result) /\ q \in Seq(Result)
  BY ResultTypes
<1>1. /\ thctx'.finished_tasks = thctx.finished_tasks
      /\ thctx'.freed = thctx.freed /\ thctx'.occupied = q
      /\ bufs' = bufs \ {h.op}
  BY <1>0 DEF TakePosted, ThreadCtx, FreeBuf
<1>2. /\ Occupied = {h} \cup Elems(q) /\ Apart({h}, Elems(q))
      /\ Apart(Fetched, Occupied)
  BY Zenon, <1>0, TakeHead DEF AnswerInv, OpsInv, Occupied
<1> HIDE DEF h, q
<1>3. \A n : n \in BufsOf(q) <=> n \in BufsOf(thctx.occupied) /\ n # h.op
  <2>1. \A x \in Elems(q) : x.op # h.op
    BY <1>2 DEF Apart
  <2> QED
    BY <1>0, <1>2, <2>1, BufsOfElems DEF Occupied
<1>4. h.op \notin BufsOf(thctx.finished_tasks)
  <2>1. \A x \in Fetched : x.op # h.op
    BY <1>2 DEF Apart
  <2> QED
    BY <1>0, <2>1, BufsOfElems DEF Fetched
<1> QED
  BY <1>1, <1>3, <1>4 DEF BufsOwned

\* The event handler moves the results it has room for.
LEMMA EventBufs ==
  ASSUME TypeOK, BufsOwned, ThreadEvent
  PROVE  BufsOwned'
<1>0. /\ thctx.finished_tasks \in Seq(Result)
      /\ thctx.occupied \in Seq(Result)
  BY Zenon, ResultTypes
<1>1. thread_event_handler /\ bufs' = bufs
  BY Zenon DEF ThreadEvent, thread_event_handler
<1>2. CASE thctx.freed
  BY <1>1, <1>2 DEF thread_event_handler, BufsOwned
<1>3. CASE ~thctx.freed
  <2>1. PICK t \in Seq(Result) :
          /\ thctx'.finished_tasks = <<>> /\ ~thctx'.freed
          /\ thctx'.occupied = thctx.occupied \o t
          /\ Elems(t) \subseteq Fetched /\ (~MayFail => Elems(t) = Fetched)
    BY Zenon, <1>3, EventMoves
  <2>2. /\ thctx'.occupied \in Seq(Result)
        /\ Elems(thctx'.occupied) = Elems(thctx.occupied) \cup Elems(t)
    BY <1>0, <2>1, ConcatResults
  <2>3. \A n : n \in BufsOf(thctx'.occupied) <=>
                 n \in BufsOf(thctx.occupied) \/ n \in BufsOf(t)
    <3> TAKE n
    <3>1. n \in BufsOf(thctx'.occupied) <=>
            \E x \in Elems(thctx'.occupied) : x.op = n /\ x.type # "ok_not_res"
      BY <2>2, BufsOfElems
    <3>2. /\ n \in BufsOf(thctx.occupied) <=>
               \E x \in Elems(thctx.occupied) :
                 x.op = n /\ x.type # "ok_not_res"
          /\ n \in BufsOf(t) <=>
               \E x \in Elems(t) : x.op = n /\ x.type # "ok_not_res"
      BY <1>0, BufsOfElems
    <3> QED
      BY <2>2, <3>1, <3>2, Zenon
  <2>4. /\ BufsOf(t) \subseteq BufsOf(thctx.finished_tasks)
        /\ ~MayFail => BufsOf(t) = BufsOf(thctx.finished_tasks)
    <3>1. \A n : n \in BufsOf(t) => n \in BufsOf(thctx.finished_tasks)
      BY SMTT(40), <1>0, <2>1, BufsOfElems DEF Fetched
    <3>2. ASSUME ~MayFail
          PROVE  \A n : n \in BufsOf(thctx.finished_tasks) => n \in BufsOf(t)
      BY <1>0, <2>1, <3>2, BufsOfElems DEF Fetched
    <3> QED
      BY Zenon, <3>1, <3>2
  <2>5. BufsOf(<<>>) = {}
    BY DEF BufsOf
  <2> QED
    BY Zenon, <1>1, <1>3, <2>1, <2>3, <2>4, <2>5 DEF BufsOwned
<1> QED
  BY <1>2, <1>3

\* Every step of the worker allocates and frees buffers with the results.
LEMMA BufsStep ==
  TypeOK /\ ContextInv /\ MarkInv /\ AnswerInv /\ BufsOwned /\ [Next]_vars
    => BufsOwned'
<1> SUFFICES ASSUME TypeOK, ContextInv, MarkInv, AnswerInv, BufsOwned,
                    [Next]_vars
             PROVE  BufsOwned'
  OBVIOUS
<1>0. ASSUME UNCHANGED <<thctx, bufs>> PROVE BufsOwned'
  BY Zenon, <1>0 DEF BufsOwned
<1>1. CASE EventLoop \/ UNCHANGED vars
  BY Zenon, <1>0, <1>1 DEF EventLoop, RunRequest, Yield, Exit, vars, clientVars
<1>2. CASE Lua
  <2>1. ASSUME NEW k \in Co, NEW c \in Conn, NEW type \in StreamTypes,
               StartCall(k, c, type) \/ StartCallFails(k, c, type)
        PROVE  BufsOwned'
    BY <1>0, <2>1 DEF StartCall, StartCallFails
  <2>2. ASSUME NEW k \in Co, NEW c \in Conn, Connect(k, c) \/ ConnClose(k, c)
        PROVE  BufsOwned'
    BY Zenon, <1>0, <2>2 DEF Connect, ConnClose
  <2>3. ASSUME NEW k \in Co, NEW a \in Sctx, NEW kind \in Kind,
               StreamOp(k, a, kind)
        PROVE  BufsOwned'
    BY Zenon, <1>0, <2>3 DEF StreamOp
  <2>4. ASSUME NEW k \in Co, NEW a \in Sctx,
               StreamOpFails(k, a) \/ StreamClose(k, a)
        PROVE  BufsOwned'
    BY ZenonT(40), <1>0, <2>4 DEF StreamOpFails, StreamClose
  <2>5. ASSUME NEW c \in Conn, ctx_gc_handler(c) PROVE BufsOwned'
    BY <1>0, <2>5 DEF ctx_gc_handler
  <2>6. ASSUME NEW a \in Sctx, stream_gc_handler(a) PROVE BufsOwned'
    BY <1>0, <2>6 DEF stream_gc_handler
  <2>7. ASSUME NEW k \in Co, Kill(k) PROVE BufsOwned'
    BY <1>0, <2>7 DEF Kill, cleanup
  <2> QED
    BY Zenon, <1>2, <2>1, <2>2, <2>3, <2>4, <2>5, <2>6, <2>7 DEF Lua
<1>3. CASE Handlers
  <2>1. ASSUME NEW g \in goroutines, Finish(g) PROVE BufsOwned'
    BY <1>0, <2>1 DEF Finish, clientVars
  <2>2. CASE ThreadHandler
    <3>1. /\ thctx' = [thctx EXCEPT !.finished_tasks = tasks,
                                    !.freed = ngx_exiting /\ tasks # <<>>]
          /\ bufs' = IF ngx_exiting THEN bufs ELSE bufs \cup BufsOf(tasks)
          /\ pool = "queued"
      BY <2>2 DEF ThreadHandler, thread_handler
    <3>2. /\ thctx'.finished_tasks = tasks
          /\ thctx'.freed <=> ngx_exiting /\ tasks # <<>>
          /\ thctx'.occupied = thctx.occupied
      BY ZenonT(40), <3>1, ResultTypes DEF ThreadCtx
    <3>3. thctx.finished_tasks = <<>> /\ BufsOf(<<>>) = {}
      BY <3>1 DEF AnswerInv, FetchInv, BufsOf
    <3> QED
      BY <3>1, <3>2, <3>3 DEF BufsOwned
  <2>3. CASE PostedCancelled
    BY <2>3, TakeBufs DEF PostedCancelled, post_event_cancelled
  <2>4. CASE PostedEmpty
    <3>1. thctx' = [thctx EXCEPT !.posted_ev = FALSE] /\ bufs' = bufs
      BY <2>4 DEF PostedEmpty, post_event_empty
    <3>2. /\ thctx'.finished_tasks = thctx.finished_tasks
          /\ thctx'.freed = thctx.freed /\ thctx'.occupied = thctx.occupied
      BY <3>1, ResultTypes DEF ThreadCtx
    <3> QED
      BY <3>1, <3>2 DEF BufsOwned
  <2>5. ASSUME NEW k \in Co, NEW a \in Sctx, NEW ok \in BOOLEAN,
               PostedResumes(k, a, ok)
        PROVE  BufsOwned'
    <3>1. a \in ongoing_tasks
      BY Zenon, <2>5 DEF PostedResumes, post_event_resumes, lookup_task
    <3>2. sctx[a].state # "TIMEOUT"
      BY ZenonT(40), <3>1 DEF MarkInv, StateInv
    <3> QED
      BY Zenon, <2>5, <3>2, TakeBufs DEF PostedResumes, post_event_resumes
  <2>6. ASSUME NEW k \in Co, NEW a \in Sctx, Timeout(k, a) PROVE BufsOwned'
    BY <1>0, <2>6 DEF Timeout, timeout_handler
  <2> QED
    BY Zenon, <1>3, <2>1, <2>2, <2>3, <2>4, <2>5, <2>6, EventBufs
    DEF Handlers, Posted
<1> QED
  BY <1>1, <1>2, <1>3 DEF Next
=============================================================================
