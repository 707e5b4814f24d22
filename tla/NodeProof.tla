----------------------------- MODULE NodeProof ------------------------------
(***************************************************************************)
(* The theorems about Node, for every number of worker threads and every    *)
(* value of the constants of the scheduler.                                 *)
(*                                                                         *)
(* Three arguments share the type invariant.  Credits: as long as no queue  *)
(* has overflowed a call of de() returns exactly as often as there are      *)
(* tasks, so that no phantom is made, none is held and none survives; and   *)
(* no odd score is held or survives before a request has brought one.       *)
(* Work: a task is never given up before its successor exists; a full queue *)
(* that evicts is not empty.  Best: a survivor scores at most current_max   *)
(* or, while a result competes, at most that result.                        *)
(***************************************************************************)
EXTENDS Node, TLAPS

\* A batch has a gene.
LEMMA BatchPositive == SpreadBatch \in Nat /\ SpreadBatch > 0
BY NodeAssumption

\* The round counter is well defined.
LEMMA PeriodPositive == Period \in Nat \ {0}
BY NodeAssumption, SMTT(30) DEF Period

\* A real result makes at least one task.
LEMMA NumReal ==
    ASSUME NEW s \in Score, NEW f \in Nat \ {0}, currentMax \in 1 .. Beyond
    PROVE  Num(s, f) \in Nat \ {0}
<1>1. ~(s < 0) /\ s * f \in Nat
  BY NodeAssumption, SMTT(30) DEF Score
<1>2. (s * f) \div currentMax \in Nat
  BY <1>1, NodeAssumption, SMTT(30) DEF Beyond
<1> QED
  BY <1>1, <1>2, NodeAssumption DEF Num, Least

\* Any result makes a number of tasks.
LEMMA NumsType ==
    ASSUME NEW s \in Score \cup {Phantom} \cup Odd, NEW f \in Nat \ {0},
           currentMax \in 1 .. Beyond
    PROVE  Nums(s, f) \subseteq Nat
<1>1. CASE s = Beyond
  BY <1>1, NodeAssumption DEF Nums
<1>2. CASE s \in Score
  <2>1. s # Beyond
    BY <1>2, NodeAssumption DEF Score, Beyond
  <2> QED
    BY <1>2, <2>1, NumReal DEF Nums
<1>3. CASE s \in {Phantom, Below}
  <2>1. s # Beyond /\ s < 0
    BY <1>3, NodeAssumption DEF Phantom, Below, Beyond
  <2> QED
    BY <2>1 DEF Nums, Num
<1> QED
  BY <1>1, <1>2, <1>3 DEF Odd

\* en() leaves a queue of its type with a task in it.
LEMMA PutType ==
    ASSUME NEW qu \in Queue
    PROVE  /\ Put(qu) \in Queue
           /\ Put(qu).n > 0
           /\ ~Overflows(qu) /\ qu.credit = qu.n => Put(qu).credit = Put(qu).n
BY NodeAssumption DEF Queue, Put, Least, Overflows

\* de() leaves a queue of its type.
LEMMA TakenType ==
    ASSUME NEW qu \in Queue, CanTake(qu)
    PROVE  /\ Taken(qu) \in Queue
           /\ qu.credit = qu.n => qu.n > 0 /\ Taken(qu).credit = Taken(qu).n
           /\ qu.n > 0 => Taken(qu).n = qu.n - 1
           /\ qu.n = 0 => Taken(qu).n = 0
BY NodeAssumption DEF Queue, Taken, CanTake

\* A result that is put is counted, and so is the one it evicts.
LEMMA PutResultType ==
    ASSUME resQ \in Queue, resOut \in 0 .. resQ.n, NEW o \in BOOLEAN, PutResult(o)
    PROVE  resQ' \in Queue /\ resOut' \in 0 .. resQ'.n
<1>1. resQ' = Put(resQ) /\ resQ' \in Queue /\ resOut' \in OutAfterPut(o)
  BY PutType DEF PutResult
<1>2. resQ.n \in 0 .. MaxSize /\ resQ'.n = Least(resQ.n + 1, MaxSize)
  BY <1>1 DEF Queue, Put
<1> QED
  BY <1>1, <1>2, NodeAssumption DEF OutAfterPut, Least, Overflows

-----------------------------------------------------------------------------
(* Type correctness *)

\* The first state has the types.
LEMMA TypeInit == Init => TypeOK
<1> SUFFICES ASSUME Init PROVE TypeOK
  OBVIOUS
<1>1. ThreadsOK
  <2>1. batch \in 0 .. SpreadBatch
    BY NodeAssumption DEF Init
  <2>2. wk \in [Workers -> {"off", "idle", "run"}]
    BY DEF Init
  <2> QED
    BY <2>1, <2>2 DEF Init, ThreadsOK
<1>2. QueuesOK
  BY NodeAssumption DEF Init, QueuesOK, Queue, EmptyQueue
<1>3. SchedulerOK
  BY NodeAssumption, PeriodPositive
     DEF Init, SchedulerOK, Result, NoResult, Score, Phantom, Beyond
<1> QED
  BY <1>1, <1>2, <1>3 DEF TypeOK

\* Putting a task or a result disturbs the queues and overflow only.
LEMMA PutTaskType ==
    ASSUME QueuesOK, PutTask, UNCHANGED <<resQ, spreadQ, resOut>>
    PROVE  QueuesOK' /\ overflow' \in BOOLEAN
<1>1. overflow' \in BOOLEAN
  BY DEF PutTask
<1>2. taskQ' \in Queue
  BY PutType DEF QueuesOK, PutTask
<1> QED
  BY <1>1, <1>2 DEF QueuesOK

\* The same for a result, which may be an outcomer.
LEMMA PutResultOK ==
    ASSUME QueuesOK, NEW o \in BOOLEAN, PutResult(o), UNCHANGED <<taskQ, spreadQ>>
    PROVE  QueuesOK' /\ overflow' \in BOOLEAN
<1>1. overflow' \in BOOLEAN
  BY DEF PutResult
<1>2. resQ' \in Queue /\ resOut' \in 0 .. resQ'.n
  BY PutResultType DEF QueuesOK
<1> QED
  BY <1>1, <1>2 DEF QueuesOK

\* The round counter wraps around within its bound.
LEMMA RoundOK == ASSUME cnt \in 0 .. Period - 1, NextRound PROVE cnt' \in 0 .. Period - 1
BY PeriodPositive DEF NextRound

\* Writing a gene disturbs the history of short numbers only.
LEMMA WriteGeneOK ==
    ASSUME ragged \in BOOLEAN, WriteGene
    PROVE  ragged' \in BOOLEAN /\ (ragged => ragged') /\ alien' = alien
<1>1. ragged' = ragged \/ ragged' = (ragged \/ "ragged" \in Troubles)
  BY Zenon DEF WriteGene
<1>2. ragged' \in BOOLEAN /\ (ragged => ragged')
  BY <1>1
<1> QED
  BY <1>2 DEF WriteGene

\* Every step keeps the states of the threads.
LEMMA ThreadsNext == TypeOK /\ [Next]_vars => ThreadsOK'
<1> SUFFICES ASSUME TypeOK, [Next]_vars PROVE ThreadsOK'
  OBVIOUS
<1> USE DEF queues, sched, fault, origin, TypeOK
<1>1. CASE StartThreads \/ ProxyMain
  BY <1>1 DEF ThreadsOK, StartThreads, ProxyMain
<1>2. CASE StartScheduler
  BY <1>2, PutTaskType, WriteGeneOK DEF ThreadsOK, StartScheduler
<1>3. CASE Inject \/ Mutate
  <2>1. overflow' \in BOOLEAN /\ ragged' \in BOOLEAN /\ alien' = alien
    BY <1>3, PutTaskType, WriteGeneOK DEF ThreadsOK, Inject, Mutate
  <2> QED
    BY <1>3, <2>1 DEF ThreadsOK, Inject, Mutate
<1>4. CASE SpreadOne
  <2>1. overflow' \in BOOLEAN
    BY <1>4 DEF SpreadOne, ThreadsOK
  <2> QED
    BY <1>4, <2>1 DEF ThreadsOK, SpreadOne
<1>5. CASE SpreadBegin \/ SpreadEnd \/ MutateEnd
           \/ CompeteJoin \/ CompeteLose \/ Best \/ DumpReturns
  BY <1>5 DEF ThreadsOK, SpreadBegin, SpreadEnd, MutateEnd, CompeteJoin,
              CompeteLose, Best, DumpReturns
<1>6. ASSUME NEW r, TakeResult(r) PROVE ThreadsOK'
  BY <1>6 DEF ThreadsOK, TakeResult
<1>7. ASSUME NEW k, Combine(k) PROVE ThreadsOK'
  <2>1. overflow' \in BOOLEAN
    BY <1>7 DEF Combine, PutTask, ThreadsOK
  <2> QED
    BY <1>7, <2>1, WriteGeneOK DEF ThreadsOK, Combine
<1>8. ASSUME NEW k, CompeteWin(k) \/ CompeteDivZero(k) PROVE ThreadsOK'
  <2>1. CASE CompeteWin(k)
    BY <2>1 DEF ThreadsOK, CompeteWin
  <2>2. CASE CompeteDivZero(k)
    <3>1. /\ crashed' = "division by zero"
          /\ UNCHANGED <<boot, ptrs, wk, spr, batch, overflow, early, ragged, alien>>
      BY <2>2, Zenon DEF CompeteDivZero
    <3> QED
      BY <3>1 DEF ThreadsOK
  <2> QED
    BY <1>8, <2>1, <2>2
<1>17. ASSUME NEW k, CombineThrows(k) \/ MutateThrows PROVE ThreadsOK'
  <2>1. crashed' \in {"empty gene combined", "gene not read"}
    BY <1>17 DEF CombineThrows, MutateThrows, GeneNotRead
  <2> QED
    BY <1>17, <2>1 DEF ThreadsOK, CombineThrows, MutateThrows
<1>9. ASSUME NEW w \in Workers, WorkerTake(w) PROVE ThreadsOK'
  BY <1>9 DEF ThreadsOK, WorkerTake, GeneNotRead
<1>10. ASSUME NEW w \in Workers, WorkerDone(w) PROVE ThreadsOK'
  BY <1>10, PutResultOK DEF ThreadsOK, WorkerDone
<1>11. CASE SpreaderTake
  BY <1>11 DEF ThreadsOK, SpreaderTake
<1>12. CASE SpreaderRefresh
  <2>1. batch' = SpreadBatch /\ spr' = "take"
    BY <1>12 DEF SpreaderRefresh
  <2>2. batch' \in 0 .. SpreadBatch /\ batch' > 0
    BY <2>1, BatchPositive
  <2> QED
    BY <1>12, <2>1, <2>2 DEF ThreadsOK, SpreaderRefresh
<1>16. CASE SpreaderSent
  <2>1. batch \in 0 .. SpreadBatch /\ batch > 0 /\ batch' = batch - 1
    BY <1>16 DEF ThreadsOK, SpreaderSent
  <2>2. batch' \in 0 .. SpreadBatch /\ (batch # 1 => batch' > 0)
    BY <2>1, BatchPositive
  <2> QED
    BY <1>16, <2>2 DEF ThreadsOK, SpreaderSent
<1>13. CASE SpreadGene
  BY <1>13, PutResultOK DEF ThreadsOK, SpreadGene
<1>14. CASE RequestTooEarly
  BY <1>14 DEF ThreadsOK, RequestTooEarly
<1>15. CASE UNCHANGED vars
  BY <1>15 DEF ThreadsOK, vars
<1> QED
  BY <1>1, <1>2, <1>3, <1>4, <1>5, <1>6, <1>7, <1>8, <1>9, <1>10, <1>11, <1>12,
     <1>13, <1>14, <1>15, <1>16, <1>17 DEF Next, Boot, SchedulerStep, WorkerStep, SpreaderStep

\* Every step keeps the sizes and the credits of the queues.
LEMMA QueuesNext == TypeOK /\ [Next]_vars => QueuesOK'
<1> SUFFICES ASSUME TypeOK, [Next]_vars PROVE QueuesOK'
  OBVIOUS
<1> USE DEF queues, sched, fault, origin, TypeOK
<1>1. CASE Inject \/ Mutate \/ StartScheduler
  BY <1>1, PutTaskType DEF Inject, Mutate, StartScheduler
<1>2. CASE SpreadOne
  BY <1>2, PutType DEF QueuesOK, SpreadOne
<1>3. ASSUME NEW s \in Score \cup {Phantom} \cup Odd, NEW o \in BOOLEAN,
             TakeResult([score |-> s, out |-> o])
      PROVE  QueuesOK'
  <2>1. resQ' = Taken(resQ) /\ resQ' \in Queue /\ resQ.n \in Nat
    BY <1>3, TakenType, NodeAssumption DEF QueuesOK, TakeResult, Queue
  <2>2. CASE resQ.n = 0
    <3>1. o = FALSE /\ resOut = 0 /\ resOut' = 0 /\ resQ'.n = 0
      BY <1>3, <2>2, TakenType DEF QueuesOK, TakeResult, ResultIn, NoResult
    <3>2. resOut' \in 0 .. resQ'.n
      BY <3>1
    <3> QED
      BY <1>3, <2>1, <3>2 DEF QueuesOK, TakeResult
  <2>3. CASE resQ.n > 0
    <3>1. /\ IF o THEN resOut > 0 ELSE resOut < resQ.n
          /\ resOut' = resOut - (IF o THEN 1 ELSE 0)
          /\ resQ'.n = resQ.n - 1
      BY <1>3, <2>1, <2>3, TakenType DEF QueuesOK, TakeResult, ResultIn
    <3>2. resOut' \in 0 .. resQ'.n
      BY <2>1, <3>1 DEF QueuesOK
    <3> QED
      BY <1>3, <2>1, <3>2 DEF QueuesOK, TakeResult
  <2> QED
    BY <2>1, <2>2, <2>3
<1>4. ASSUME NEW k, Combine(k) PROVE QueuesOK'
  BY <1>4, PutTaskType DEF Combine, QueuesOK
<1>5. ASSUME NEW k, CompeteWin(k) \/ CompeteDivZero(k) \/ CombineThrows(k)
             \/ MutateThrows
      PROVE  QueuesOK'
  BY <1>5 DEF QueuesOK, CompeteWin, CompeteDivZero, CombineThrows, MutateThrows
<1>6. ASSUME NEW w \in Workers, WorkerTake(w) PROVE QueuesOK'
  BY <1>6, TakenType DEF QueuesOK, WorkerTake
<1>7. ASSUME NEW w \in Workers, WorkerDone(w) PROVE QueuesOK'
  BY <1>7, PutResultOK DEF WorkerDone
<1>8. CASE SpreaderTake
  BY <1>8, TakenType DEF QueuesOK, SpreaderTake
<1>9. CASE SpreadGene
  BY <1>9, PutResultOK DEF SpreadGene
<1>10. CASE StartThreads \/ ProxyMain \/ SpreadBegin \/ SpreadEnd \/ MutateEnd
            \/ CompeteJoin \/ CompeteLose \/ Best \/ DumpReturns
            \/ SpreaderRefresh \/ SpreaderSent \/ RequestTooEarly
  BY <1>10 DEF QueuesOK, StartThreads, ProxyMain, SpreadBegin, SpreadEnd,
               MutateEnd, CompeteJoin, CompeteLose, Best, DumpReturns,
               SpreaderRefresh, SpreaderSent, RequestTooEarly
<1>11. CASE UNCHANGED vars
  BY <1>11 DEF QueuesOK, vars
<1> QED
  BY <1>1, <1>2, <1>3, <1>4, <1>5, <1>6, <1>7, <1>8, <1>9, <1>10, <1>11
     DEF Next, Boot, SchedulerStep, WorkerStep, SpreaderStep

\* Every step keeps the scheduler's own variables.
LEMMA SchedulerNext == TypeOK /\ [Next]_vars => SchedulerOK'
<1> SUFFICES ASSUME TypeOK, [Next]_vars PROVE SchedulerOK'
  OBVIOUS
<1> USE DEF queues, sched, fault, origin, TypeOK
<1>1. CASE StartScheduler
  BY <1>1 DEF SchedulerOK, StartScheduler
<1>2. CASE Inject
  BY <1>2, RoundOK DEF SchedulerOK, Inject
<1>3. CASE SpreadBegin \/ SpreadOne \/ Mutate
  BY <1>3 DEF SchedulerOK, SpreadBegin, SpreadOne, Mutate
<1>4. CASE SpreadEnd
  BY <1>4, RoundOK DEF SchedulerOK, SpreadEnd
<1>5. ASSUME NEW s \in Score \cup {Phantom} \cup Odd, NEW o \in BOOLEAN,
             TakeResult([score |-> s, out |-> o])
      PROVE  SchedulerOK'
  <2>1. c' \in Result
    BY <1>5 DEF TakeResult, Result
  <2>2. left' \in Nums(s, MutateConst)
    BY <1>5 DEF TakeResult
  <2>3. left' \in Nat
    BY <2>2, NumsType, NodeAssumption DEF SchedulerOK
  <2> QED
    BY <1>5, <2>1, <2>3 DEF SchedulerOK, TakeResult
<1>6. CASE MutateEnd
  <2>1. c.score \in Score \cup {Phantom} \cup Odd
    BY DEF SchedulerOK, Result
  <2>2. Nums(c.score, CombineConst) \subseteq Nat
    BY <2>1, NumsType, NodeAssumption DEF SchedulerOK
  <2>3. left' \in Nat
    BY <1>6, <2>2 DEF MutateEnd
  <2> QED
    BY <1>6, <2>3 DEF SchedulerOK, MutateEnd
<1>7. ASSUME NEW k \in 1 .. Len(survivor), Combine(k) PROVE SchedulerOK'
  <2>0. left \in Nat /\ left > 0 /\ left' = left - 1
    BY <1>7 DEF SchedulerOK, Combine
  <2>1. left' \in Nat
    BY <2>0
  <2> QED
    BY <1>7, <2>1 DEF SchedulerOK, Combine
<1>8. ASSUME NEW k \in 1 .. Len(survivor), CompeteWin(k) PROVE SchedulerOK'
  <2>1. survivor' \in Seq(Result) /\ Len(survivor') = Len(survivor)
    BY <1>8 DEF SchedulerOK, CompeteWin
  <2> QED
    BY <1>8, <2>1 DEF SchedulerOK, CompeteWin
<1>9. CASE CompeteJoin
  <2>1. survivor' \in Seq(Result) /\ Len(survivor') = Len(survivor) + 1
    BY <1>9 DEF SchedulerOK, CompeteJoin
  <2>2. Len(survivor') <= GroupSize
    BY <1>9, <2>1, NodeAssumption DEF CompeteJoin, SchedulerOK
  <2> QED
    BY <1>9, <2>1, <2>2 DEF SchedulerOK, CompeteJoin
<1>10. CASE CompeteLose \/ DumpReturns
  BY <1>10 DEF SchedulerOK, CompeteLose, DumpReturns
<1>11. CASE Best
  <2>1. c.score \in Score \cup {Phantom} \cup Odd /\ NoResult \in Result
    BY DEF SchedulerOK, Result, NoResult
  <2>2. currentMax' \in 1 .. Beyond
    BY <1>11, <2>1, NodeAssumption
       DEF SchedulerOK, Best, Score, Phantom, Odd, Below, Beyond
  <2> QED
    BY <1>11, <2>1, <2>2, RoundOK DEF SchedulerOK, Best
<1>12. ASSUME NEW k, CompeteDivZero(k) \/ CombineThrows(k) \/ MutateThrows
       PROVE  SchedulerOK'
  BY <1>12 DEF SchedulerOK, CompeteDivZero, CombineThrows, MutateThrows
<1>13. ASSUME NEW w \in Workers, WorkerTake(w) \/ WorkerDone(w) PROVE SchedulerOK'
  BY <1>13 DEF SchedulerOK, WorkerTake, WorkerDone
<1>14. CASE StartThreads \/ ProxyMain \/ SpreaderRefresh \/ SpreaderTake
            \/ SpreaderSent \/ SpreadGene \/ RequestTooEarly
  BY <1>14 DEF SchedulerOK, StartThreads, ProxyMain, SpreaderRefresh,
               SpreaderTake, SpreaderSent, SpreadGene, RequestTooEarly
<1>15. CASE UNCHANGED vars
  BY <1>15 DEF SchedulerOK, vars
<1> QED
  BY <1>1, <1>2, <1>3, <1>4, <1>5, <1>6, <1>7, <1>8, <1>9, <1>10, <1>11, <1>12,
     <1>13, <1>14, <1>15 DEF Next, Boot, SchedulerStep, WorkerStep, SpreaderStep

\* A node keeps the types of its variables, whatever its threads do.
THEOREM TypeCorrect == Spec => []TypeOK
<1>1. TypeOK /\ [Next]_vars => TypeOK'
  BY ThreadsNext, QueuesNext, SchedulerNext DEF TypeOK
<1> QED
  BY <1>1, TypeInit, PTL DEF Spec

-----------------------------------------------------------------------------
(* The work never runs out *)

\* The scheduler is started with the first task, in one step.
Started == pc = "off" <=> boot # "run"

WorkInv == Started /\ WorkNeverRunsOut

\* What is not a step of the scheduler leaves what it holds.
LEMMA HoldingKept == ASSUME UNCHANGED <<pc, c, left>> PROVE Holding' <=> Holding
BY DEF Holding

\* A task that was put is there; so is a result.
LEMMA PutIsThere ==
    ASSUME QueuesOK
    PROVE  /\ PutTask => taskQ'.n > 0
           /\ \A o : PutResult(o) => resQ'.n > 0
BY PutType DEF QueuesOK, PutTask, PutResult

\* The work survives every step.
LEMMA WorkNext == TypeOK /\ WorkInv /\ [Next]_vars => WorkInv'
<1> SUFFICES ASSUME TypeOK, WorkInv, [Next]_vars PROVE WorkInv'
  OBVIOUS
<1> USE DEF queues, sched, fault, origin, TypeOK, WorkInv
<1>1. CASE StartThreads
  BY <1>1 DEF StartThreads, Started, WorkNeverRunsOut
<1>2. CASE StartScheduler \/ Inject \/ Mutate
  <2>1. taskQ'.n > 0
    BY <1>2, PutIsThere DEF StartScheduler, Inject, Mutate
  <2>2. Started'
    BY <1>2 DEF StartScheduler, Inject, Mutate, Started
  <2> QED
    BY <2>1, <2>2 DEF WorkNeverRunsOut
<1>3. CASE SpreadBegin \/ SpreadEnd \/ MutateEnd \/ CompeteJoin \/ CompeteLose
           \/ DumpReturns \/ Best
  <2>1. ~Holding
    BY <1>3 DEF Holding, SpreadBegin, SpreadEnd, MutateEnd, CompeteJoin,
                CompeteLose, Competing, DumpReturns, Best
  <2>2. UNCHANGED <<boot, crashed, taskQ, resQ, wk, alien>>
    BY <1>3 DEF SpreadBegin, SpreadEnd, MutateEnd, CompeteJoin, CompeteLose,
                DumpReturns, Best
  <2>3. Started'
    BY <1>3 DEF Started, SpreadBegin, SpreadEnd, MutateEnd, CompeteJoin,
                CompeteLose, Competing, DumpReturns, Best
  <2> QED
    BY <2>1, <2>2, <2>3 DEF WorkNeverRunsOut, Alive
<1>4. CASE SpreadOne
  <2>1. ~Holding
    BY <1>4 DEF Holding, SpreadOne
  <2> QED
    BY <1>4, <2>1 DEF SpreadOne, WorkNeverRunsOut, Alive, Started
<1>5. ASSUME NEW s \in Score \cup {Phantom} \cup Odd, NEW o \in BOOLEAN,
             TakeResult([score |-> s, out |-> o])
      PROVE  WorkInv'
  <2>1. Started'
    BY <1>5 DEF TakeResult, Started
  <2>2. ~Holding
    BY <1>5 DEF TakeResult, Holding
  <2>3. CASE resQ.n = 0
    <3>1. UNCHANGED <<boot, crashed, taskQ, wk, alien>>
      BY <1>5 DEF TakeResult
    <3> QED
      BY <2>1, <2>2, <2>3, <3>1 DEF WorkNeverRunsOut, Alive
  <2>4. CASE resQ.n # 0 /\ alien
    BY <1>5, <2>1, <2>4 DEF TakeResult, WorkNeverRunsOut
  <2>5. CASE resQ.n # 0 /\ ~alien
    <3>1. s \in Score
      BY <1>5, <2>5 DEF TakeResult, ResultIn
    <3>2. s >= 0 /\ s # Beyond
      BY <3>1, NodeAssumption DEF Score, Beyond
    <3>3. left' = Num(s, MutateConst) /\ pc' = "mutate" /\ c'.score = s
      BY <1>5, <3>2 DEF TakeResult, Nums
    <3>4. left' \in Nat \ {0}
      BY <3>1, <3>3, NumReal, NodeAssumption DEF SchedulerOK
    <3>5. Holding'
      BY <3>2, <3>3, <3>4 DEF Holding
    <3> QED
      BY <2>1, <3>5 DEF WorkNeverRunsOut
  <2> QED
    BY <2>3, <2>4, <2>5
<1>6. ASSUME NEW k, Combine(k) PROVE WorkInv'
  <2>1. taskQ'.n > 0
    BY <1>6, PutIsThere DEF Combine
  <2> QED
    BY <1>6, <2>1 DEF Combine, WorkNeverRunsOut, Started
<1>7. ASSUME NEW k, CompeteWin(k) PROVE WorkInv'
  <2>1. ~Holding
    BY <1>7 DEF Holding, CompeteWin, Competing
  <2> QED
    BY <1>7, <2>1 DEF CompeteWin, Competing, WorkNeverRunsOut, Alive, Started
<1>8. ASSUME NEW k, CompeteDivZero(k) \/ CombineThrows(k) \/ MutateThrows
      PROVE  WorkInv'
  <2>1. ~Alive' /\ UNCHANGED <<pc, boot>>
    BY <1>8 DEF CompeteDivZero, CombineThrows, MutateThrows, GeneNotRead, Alive
  <2> QED
    BY <2>1 DEF WorkNeverRunsOut, Started
<1>9. ASSUME NEW w \in Workers, WorkerTake(w) PROVE WorkInv'
  <2>1. ~Alive' \/ wk'[w] = "run"
    BY <1>9 DEF WorkerTake, GeneNotRead, Alive, ThreadsOK
  <2> QED
    BY <1>9, <2>1 DEF WorkerTake, WorkNeverRunsOut, Started
<1>10. ASSUME NEW w \in Workers, WorkerDone(w) PROVE WorkInv'
  <2>1. resQ'.n > 0
    BY <1>10, PutIsThere DEF WorkerDone
  <2> QED
    BY <1>10, <2>1 DEF WorkerDone, WorkNeverRunsOut, Started
<1>11. CASE SpreadGene
  <2>1. resQ'.n > 0
    BY <1>11, PutIsThere DEF SpreadGene
  <2> QED
    BY <1>11, <2>1 DEF SpreadGene, WorkNeverRunsOut, Started
<1>12. CASE RequestTooEarly
  BY <1>12 DEF RequestTooEarly, WorkNeverRunsOut, Alive, Started
<1>13. CASE ProxyMain \/ SpreaderRefresh \/ SpreaderTake \/ SpreaderSent
            \/ UNCHANGED vars
  <2>1. UNCHANGED <<boot, crashed, taskQ, resQ, wk, pc, c, left, alien>>
    BY <1>13 DEF ProxyMain, SpreaderRefresh, SpreaderTake, SpreaderSent, vars
  <2> QED
    BY <2>1, HoldingKept DEF WorkNeverRunsOut, Alive, Started
<1> QED
  BY <1>1, <1>2, <1>3, <1>4, <1>5, <1>6, <1>7, <1>8, <1>9, <1>10, <1>11, <1>12,
     <1>13 DEF Next, Boot, SchedulerStep, WorkerStep, SpreaderStep

\* The scheduler is started once, and from then on there is work.
LEMMA WorkInvariant == Spec => []WorkInv
<1>1. Init => WorkInv
  BY DEF Init, WorkInv, Started, WorkNeverRunsOut
<1>2. TypeOK /\ WorkInv /\ [Next]_vars => WorkInv'
  BY WorkNext
<1> QED
  BY <1>1, <1>2, TypeCorrect, PTL DEF Spec

\* Once the scheduler runs there is work in the node, whatever was evicted.
THEOREM WorkStays == Spec => []WorkNeverRunsOut
<1>1. WorkInv => WorkNeverRunsOut
  BY DEF WorkInv
<1> QED
  BY <1>1, WorkInvariant, PTL

-----------------------------------------------------------------------------
(* No survivor is better than the best *)

\* A survivor that beats current_max is the result that was just taken in.
Bounded(k) ==
    \/ survivor[k].score <= currentMax
    \/ pc \in {"dump", "best"} /\ survivor[k].score <= c.score

BestInv == \A k \in DOMAIN survivor : Bounded(k)

\* Every step keeps the survivors below current_max or the result at hand.
LEMMA BestNext == TypeOK /\ Started /\ BestInv /\ [Next]_vars => BestInv'
<1> SUFFICES ASSUME TypeOK, Started, BestInv, [Next]_vars PROVE BestInv'
  OBVIOUS
<1> USE DEF queues, sched, fault, origin, TypeOK, BestInv, Bounded
<1>1. CASE CompeteJoin
  <2>1. c.score \in Int
    BY NodeAssumption DEF SchedulerOK, Result, Score, Phantom, Odd, Below, Beyond
  <2>2. ASSUME NEW k \in DOMAIN survivor' PROVE Bounded(k)'
    <3>1. survivor'[k] = c \/ (k \in DOMAIN survivor /\ survivor'[k] = survivor[k])
      BY <1>1, <2>2 DEF CompeteJoin, SchedulerOK
    <3>2. k \in DOMAIN survivor => survivor[k].score <= currentMax
      BY <1>1 DEF CompeteJoin, Competing
    <3> QED
      BY <1>1, <2>1, <3>1, <3>2 DEF CompeteJoin
  <2> QED
    BY <2>2
<1>2. ASSUME NEW j \in 1 .. Len(survivor), CompeteWin(j) PROVE BestInv'
  <2>1. c.score \in Int
    BY NodeAssumption DEF SchedulerOK, Result, Score, Phantom, Odd, Below, Beyond
  <2>2. ASSUME NEW k \in DOMAIN survivor' PROVE Bounded(k)'
    <3>1. k \in DOMAIN survivor /\ (survivor'[k] = c \/ survivor'[k] = survivor[k])
      BY <1>2, <2>2 DEF CompeteWin, SchedulerOK
    <3>2. survivor[k].score <= currentMax
      BY <1>2, <3>1 DEF CompeteWin, Competing
    <3> QED
      BY <1>2, <2>1, <3>1, <3>2 DEF CompeteWin
  <2> QED
    BY <2>2
<1>3. CASE Best
  <2>1. c.score \in Int /\ currentMax \in Int
    BY NodeAssumption DEF SchedulerOK, Result, Score, Phantom, Odd, Below, Beyond
  <2>2. ASSUME NEW k \in DOMAIN survivor PROVE survivor[k].score \in Int
    <3>1. survivor[k] \in Result
      BY <2>2 DEF SchedulerOK
    <3> QED
      BY <3>1, NodeAssumption DEF Result, Score, Phantom, Odd, Below, Beyond
  <2>3. currentMax' = IF c.score > currentMax THEN c.score ELSE currentMax
    BY <1>3 DEF Best
  <2>4. ASSUME NEW k \in DOMAIN survivor PROVE survivor[k].score <= currentMax'
    BY <2>1, <2>2, <2>3, <2>4
  <2> QED
    BY <1>3, <2>4 DEF Best
<1>4. CASE CompeteLose \/ DumpReturns
  BY <1>4 DEF CompeteLose, Competing, DumpReturns
<1>5. CASE StartScheduler \/ Inject \/ SpreadBegin \/ SpreadOne \/ SpreadEnd
           \/ Mutate \/ MutateEnd
  <2>1. pc \notin {"dump", "best"}
    BY <1>5 DEF StartScheduler, Inject, SpreadBegin, SpreadOne, SpreadEnd,
                Mutate, MutateEnd, Started
  <2>2. UNCHANGED <<survivor, currentMax>>
    BY <1>5 DEF StartScheduler, Inject, SpreadBegin, SpreadOne, SpreadEnd,
                Mutate, MutateEnd
  <2> QED
    BY <2>1, <2>2
<1>6. ASSUME NEW r, TakeResult(r) PROVE BestInv'
  BY <1>6 DEF TakeResult
<1>7. ASSUME NEW k, Combine(k) \/ CompeteDivZero(k) \/ CombineThrows(k)
             \/ MutateThrows
      PROVE  BestInv'
  <2>1. UNCHANGED <<survivor, currentMax, pc, c>>
    BY <1>7 DEF Combine, CompeteDivZero, CombineThrows, MutateThrows
  <2> QED
    BY <2>1
<1>8. ASSUME NEW w \in Workers, WorkerTake(w) \/ WorkerDone(w) PROVE BestInv'
  BY <1>8 DEF WorkerTake, WorkerDone
<1>9. CASE StartThreads \/ ProxyMain \/ SpreaderRefresh \/ SpreaderTake
           \/ SpreaderSent \/ SpreadGene \/ RequestTooEarly \/ UNCHANGED vars
  <2>1. UNCHANGED <<survivor, currentMax, pc, c>>
    BY <1>9 DEF StartThreads, ProxyMain, SpreaderRefresh, SpreaderTake,
                SpreaderSent, SpreadGene, RequestTooEarly, vars
  <2> QED
    BY <2>1
<1> QED
  BY <1>1, <1>2, <1>3, <1>4, <1>5, <1>6, <1>7, <1>8, <1>9
     DEF Next, Boot, SchedulerStep, WorkerStep, SpreaderStep

\* Between two rounds current_max bounds every survivor.
THEOREM BestBounds == Spec => []BestIsKnown
<1>1. Init => BestInv
  BY DEF Init, BestInv
<1>2. TypeOK /\ WorkInv /\ BestInv /\ [Next]_vars => BestInv'
  BY BestNext DEF WorkInv
<1>3. BestInv => BestIsKnown
  BY DEF BestInv, Bounded, BestIsKnown
<1> QED
  BY <1>1, <1>2, <1>3, TypeCorrect, WorkInvariant, PTL DEF Spec

-----------------------------------------------------------------------------
(* What a node dies of has its cause *)

\* Without overflow de() returns as often as there are tasks,
CreditsExact == ~overflow => taskQ.credit = taskQ.n /\ resQ.credit = resQ.n

\* and the default task is nowhere: not at hand and not among the survivors.
Handling == pc \in {"mutate", "combine", "dump", "best"}
NoPhantoms ==
    ~overflow => /\ Handling => c.score # Phantom
                 /\ \A k \in DOMAIN survivor : survivor[k].score # Phantom

\* Nor is an odd score, until a request has brought one.
NoOddScores ==
    ~alien => /\ Handling => c.score \notin Odd
              /\ \A k \in DOMAIN survivor : survivor[k].score \notin Odd

CauseInv == CreditsExact /\ NoPhantoms /\ NoOddScores /\ CrashHasACause

\* The credits stay exact until something is evicted.
LEMMA CreditsNext == TypeOK /\ CreditsExact /\ [Next]_vars => CreditsExact'
<1> SUFFICES ASSUME TypeOK, CreditsExact, [Next]_vars, ~overflow'
             PROVE  taskQ'.credit = taskQ'.n /\ resQ'.credit = resQ'.n
  BY DEF CreditsExact
<1> USE DEF queues, sched, fault, origin, TypeOK, CreditsExact
<1>1. CASE StartScheduler \/ Inject \/ Mutate
  BY <1>1, PutType DEF StartScheduler, Inject, Mutate, PutTask, QueuesOK
<1>2. CASE SpreadOne
  BY <1>2 DEF SpreadOne
<1>3. ASSUME NEW r, TakeResult(r)
      PROVE  taskQ'.credit = taskQ'.n /\ resQ'.credit = resQ'.n
  BY <1>3, TakenType DEF TakeResult, QueuesOK
<1>4. ASSUME NEW k, Combine(k)
      PROVE  taskQ'.credit = taskQ'.n /\ resQ'.credit = resQ'.n
  BY <1>4, PutType DEF Combine, PutTask, QueuesOK
<1>5. ASSUME NEW k, CompeteWin(k) \/ CompeteDivZero(k) \/ CombineThrows(k)
             \/ MutateThrows
      PROVE  taskQ'.credit = taskQ'.n /\ resQ'.credit = resQ'.n
  BY <1>5 DEF CompeteWin, CompeteDivZero, CombineThrows, MutateThrows
<1>6. ASSUME NEW w \in Workers, WorkerTake(w)
      PROVE  taskQ'.credit = taskQ'.n /\ resQ'.credit = resQ'.n
  BY <1>6, TakenType DEF WorkerTake, QueuesOK
<1>7. ASSUME NEW w \in Workers, WorkerDone(w)
      PROVE  taskQ'.credit = taskQ'.n /\ resQ'.credit = resQ'.n
  BY <1>7, PutType DEF WorkerDone, PutResult, QueuesOK
<1>8. CASE SpreadGene
  BY <1>8, PutType DEF SpreadGene, PutResult, QueuesOK
<1>9. CASE StartThreads \/ ProxyMain \/ SpreadBegin \/ SpreadEnd \/ MutateEnd
           \/ CompeteJoin \/ CompeteLose \/ Best \/ DumpReturns
           \/ SpreaderRefresh \/ SpreaderTake \/ SpreaderSent
           \/ RequestTooEarly \/ UNCHANGED vars
  <2>1. UNCHANGED <<taskQ, resQ, overflow>>
    BY <1>9 DEF StartThreads, ProxyMain, SpreadBegin, SpreadEnd, MutateEnd,
                CompeteJoin, CompeteLose, Best, DumpReturns, SpreaderRefresh,
                SpreaderTake, SpreaderSent, RequestTooEarly, vars
  <2> QED
    BY <2>1
<1> QED
  BY <1>1, <1>2, <1>3, <1>4, <1>5, <1>6, <1>7, <1>8, <1>9
     DEF Next, Boot, SchedulerStep, WorkerStep, SpreaderStep

\* No step but an eviction lets the default task in.
LEMMA PhantomsNext ==
    TypeOK /\ Started /\ CreditsExact /\ NoPhantoms /\ [Next]_vars => NoPhantoms'
<1> SUFFICES ASSUME TypeOK, Started, CreditsExact, NoPhantoms, [Next]_vars, ~overflow'
             PROVE  NoPhantoms'
  BY DEF NoPhantoms
<1> USE DEF queues, sched, fault, origin, TypeOK
<1>0. ~overflow
  BY DEF Next, Boot, StartThreads, ProxyMain, StartScheduler, SchedulerStep,
         Inject, SpreadBegin, SpreadOne, SpreadEnd, TakeResult, Mutate,
         MutateThrows, MutateEnd, Combine, CombineThrows, CompeteWin,
         CompeteDivZero, CompeteJoin, CompeteLose, Best, DumpReturns, WorkerStep, WorkerTake, WorkerDone,
         SpreaderRefresh, SpreaderStep, SpreaderTake, SpreaderSent, SpreadGene,
         RequestTooEarly, PutTask, PutResult, vars
<1>1. CASE StartScheduler \/ Inject \/ SpreadBegin \/ SpreadOne \/ SpreadEnd \/ Best
  <2>1. ~Handling' /\ survivor' = survivor
    BY <1>1 DEF Handling, StartScheduler, Inject, SpreadBegin, SpreadOne,
                SpreadEnd, Best
  <2> QED
    BY <2>1, <1>0 DEF NoPhantoms
<1>2. CASE Mutate \/ MutateEnd \/ CompeteLose \/ DumpReturns
  <2>1. Handling /\ UNCHANGED <<c, survivor>>
    BY <1>2 DEF Handling, Mutate, MutateEnd, CompeteLose, Competing, DumpReturns
  <2> QED
    BY <2>1, <1>0 DEF NoPhantoms
<1>3. ASSUME NEW s \in Score \cup {Phantom} \cup Odd, NEW o \in BOOLEAN,
             TakeResult([score |-> s, out |-> o])
      PROVE  NoPhantoms'
  <2>1. resQ.n # 0
    BY <1>0, <1>3, TakenType DEF TakeResult, CreditsExact, QueuesOK
  <2>2. s \in Score \cup Odd /\ c'.score = s
    BY <1>3, <2>1 DEF TakeResult, ResultIn
  <2>3. c'.score # Phantom /\ survivor' = survivor
    BY <1>3, <2>2, NodeAssumption DEF TakeResult, Score, Phantom, Odd, Below, Beyond
  <2> QED
    BY <2>3, <1>0 DEF NoPhantoms
<1>4. CASE CompeteJoin
  <2>1. c.score # Phantom
    BY <1>0, <1>4 DEF CompeteJoin, Competing, NoPhantoms, Handling
  <2>2. ASSUME NEW k \in DOMAIN survivor' PROVE survivor'[k].score # Phantom
    <3>1. survivor'[k] = c \/ (k \in DOMAIN survivor /\ survivor'[k] = survivor[k])
      BY <1>4, <2>2 DEF CompeteJoin, SchedulerOK
    <3> QED
      BY <1>0, <2>1, <3>1 DEF NoPhantoms
  <2> QED
    BY <1>4, <2>1, <2>2 DEF CompeteJoin, NoPhantoms
<1>5. ASSUME NEW j \in 1 .. Len(survivor), CompeteWin(j) PROVE NoPhantoms'
  <2>1. c.score # Phantom
    BY <1>5 DEF CompeteWin, Phantom
  <2>2. ASSUME NEW k \in DOMAIN survivor' PROVE survivor'[k].score # Phantom
    <3>1. k \in DOMAIN survivor /\ (survivor'[k] = c \/ survivor'[k] = survivor[k])
      BY <1>5, <2>2 DEF CompeteWin, SchedulerOK
    <3> QED
      BY <1>0, <2>1, <3>1 DEF NoPhantoms
  <2> QED
    BY <1>5, <2>1, <2>2 DEF CompeteWin, NoPhantoms
<1>6. ASSUME NEW k, Combine(k) \/ CompeteDivZero(k) \/ CombineThrows(k)
             \/ MutateThrows
      PROVE  NoPhantoms'
  <2>1. UNCHANGED <<pc, c, survivor>>
    BY <1>6 DEF Combine, CompeteDivZero, CombineThrows, MutateThrows
  <2> QED
    BY <2>1, <1>0 DEF NoPhantoms, Handling
<1>7. ASSUME NEW w \in Workers, WorkerTake(w) \/ WorkerDone(w) PROVE NoPhantoms'
  <2>1. UNCHANGED <<pc, c, survivor>>
    BY <1>7 DEF WorkerTake, WorkerDone
  <2> QED
    BY <2>1, <1>0 DEF NoPhantoms, Handling
<1>8. CASE StartThreads \/ ProxyMain \/ SpreaderRefresh \/ SpreaderTake
           \/ SpreaderSent \/ SpreadGene \/ RequestTooEarly \/ UNCHANGED vars
  <2>1. UNCHANGED <<pc, c, survivor>>
    BY <1>8 DEF StartThreads, ProxyMain, SpreaderRefresh, SpreaderTake,
                SpreaderSent, SpreadGene, RequestTooEarly, vars
  <2> QED
    BY <2>1, <1>0 DEF NoPhantoms, Handling
<1> QED
  BY <1>1, <1>2, <1>3, <1>4, <1>5, <1>6, <1>7, <1>8
     DEF Next, Boot, SchedulerStep, WorkerStep, SpreaderStep

\* No step but a request lets an odd score in.
LEMMA OddNext == TypeOK /\ Started /\ NoOddScores /\ [Next]_vars => NoOddScores'
<1> SUFFICES ASSUME TypeOK, Started, NoOddScores, [Next]_vars, ~alien'
             PROVE  NoOddScores'
  BY DEF NoOddScores
<1> USE DEF queues, sched, fault, origin, TypeOK
<1>0. ~alien
  BY DEF Next, Boot, StartThreads, ProxyMain, StartScheduler, SchedulerStep,
         Inject, SpreadBegin, SpreadOne, SpreadEnd, TakeResult, Mutate,
         MutateThrows, MutateEnd, Combine, CombineThrows, CompeteWin,
         CompeteDivZero, CompeteJoin, CompeteLose, Best, DumpReturns,
         WorkerStep, WorkerTake, WorkerDone, SpreaderRefresh, SpreaderStep,
         SpreaderTake, SpreaderSent, SpreadGene, RequestTooEarly, WriteGene, vars
<1>1. CASE StartScheduler \/ Inject \/ SpreadBegin \/ SpreadOne \/ SpreadEnd \/ Best
  <2>1. ~Handling' /\ survivor' = survivor
    BY <1>1 DEF Handling, StartScheduler, Inject, SpreadBegin, SpreadOne,
                SpreadEnd, Best
  <2> QED
    BY <2>1, <1>0 DEF NoOddScores
<1>2. CASE Mutate \/ MutateEnd \/ CompeteLose \/ DumpReturns
  <2>1. Handling /\ UNCHANGED <<c, survivor>>
    BY <1>2 DEF Handling, Mutate, MutateEnd, CompeteLose, Competing, DumpReturns
  <2> QED
    BY <2>1, <1>0 DEF NoOddScores
<1>3. ASSUME NEW s \in Score \cup {Phantom} \cup Odd, NEW o \in BOOLEAN,
             TakeResult([score |-> s, out |-> o])
      PROVE  NoOddScores'
  <2>1. s \in Score \cup {Phantom} /\ c'.score = s
    BY <1>0, <1>3 DEF TakeResult, ResultIn, NoResult
  <2>2. c'.score \notin Odd /\ survivor' = survivor
    BY <1>3, <2>1, NodeAssumption DEF TakeResult, Score, Phantom, Odd, Below, Beyond
  <2> QED
    BY <2>2, <1>0 DEF NoOddScores
<1>4. CASE CompeteJoin
  <2>1. c.score \notin Odd
    BY <1>0, <1>4 DEF CompeteJoin, Competing, NoOddScores, Handling
  <2>2. ASSUME NEW k \in DOMAIN survivor' PROVE survivor'[k].score \notin Odd
    <3>1. survivor'[k] = c \/ (k \in DOMAIN survivor /\ survivor'[k] = survivor[k])
      BY <1>4, <2>2 DEF CompeteJoin, SchedulerOK
    <3> QED
      BY <1>0, <2>1, <3>1 DEF NoOddScores
  <2> QED
    BY <1>4, <2>1, <2>2 DEF CompeteJoin, NoOddScores
<1>5. ASSUME NEW j \in 1 .. Len(survivor), CompeteWin(j) PROVE NoOddScores'
  <2>1. c.score \notin Odd
    BY <1>0, <1>5 DEF CompeteWin, Competing, NoOddScores, Handling
  <2>2. ASSUME NEW k \in DOMAIN survivor' PROVE survivor'[k].score \notin Odd
    <3>1. k \in DOMAIN survivor /\ (survivor'[k] = c \/ survivor'[k] = survivor[k])
      BY <1>5, <2>2 DEF CompeteWin, SchedulerOK
    <3> QED
      BY <1>0, <2>1, <3>1 DEF NoOddScores
  <2> QED
    BY <1>5, <2>1, <2>2 DEF CompeteWin, NoOddScores
<1>6. ASSUME NEW k, Combine(k) \/ CompeteDivZero(k) \/ CombineThrows(k)
             \/ MutateThrows
      PROVE  NoOddScores'
  <2>1. UNCHANGED <<pc, c, survivor>>
    BY <1>6 DEF Combine, CompeteDivZero, CombineThrows, MutateThrows
  <2> QED
    BY <2>1, <1>0 DEF NoOddScores, Handling
<1>7. ASSUME NEW w \in Workers, WorkerTake(w) \/ WorkerDone(w) PROVE NoOddScores'
  <2>1. UNCHANGED <<pc, c, survivor>>
    BY <1>7 DEF WorkerTake, WorkerDone
  <2> QED
    BY <2>1, <1>0 DEF NoOddScores, Handling
<1>8. CASE StartThreads \/ ProxyMain \/ SpreaderRefresh \/ SpreaderTake
           \/ SpreaderSent \/ SpreadGene \/ RequestTooEarly \/ UNCHANGED vars
  <2>1. UNCHANGED <<pc, c, survivor>>
    BY <1>8 DEF StartThreads, ProxyMain, SpreaderRefresh, SpreaderTake,
                SpreaderSent, SpreadGene, RequestTooEarly, vars
  <2> QED
    BY <2>1, <1>0 DEF NoOddScores, Handling
<1> QED
  BY <1>1, <1>2, <1>3, <1>4, <1>5, <1>6, <1>7, <1>8
     DEF Next, Boot, SchedulerStep, WorkerStep, SpreaderStep

\* A cause stays on record.
LEMMA CausesLast ==
    TypeOK /\ [Next]_vars => /\ overflow => overflow'
                             /\ early => early'
                             /\ ragged => ragged'
                             /\ alien => alien'
<1> SUFFICES ASSUME TypeOK, [Next]_vars
             PROVE  /\ overflow => overflow'
                    /\ early => early'
                    /\ ragged => ragged'
                    /\ alien => alien'
  OBVIOUS
<1> USE DEF queues, sched, fault, origin, TypeOK
<1>1. CASE StartScheduler \/ Inject \/ Mutate
  <2>1. overflow => overflow'
    BY <1>1 DEF StartScheduler, Inject, Mutate, PutTask
  <2>2. (ragged => ragged') /\ alien' = alien /\ early' = early
    BY <1>1, WriteGeneOK DEF StartScheduler, Inject, Mutate, ThreadsOK
  <2> QED
    BY <2>1, <2>2
<1>2. CASE SpreadOne
  BY <1>2 DEF SpreadOne
<1>3. ASSUME NEW r, TakeResult(r)
      PROVE  UNCHANGED <<overflow, early, ragged, alien>>
  BY <1>3 DEF TakeResult
<1>4. ASSUME NEW k, CombineThrows(k) \/ MutateThrows \/ CompeteWin(k)
                    \/ CompeteDivZero(k)
      PROVE  UNCHANGED <<overflow, early, ragged, alien>>
  <2>1. CASE CompeteDivZero(k)
    BY <2>1, Zenon DEF CompeteDivZero
  <2>2. CASE CombineThrows(k) \/ MutateThrows \/ CompeteWin(k)
    BY <2>2 DEF CombineThrows, MutateThrows, CompeteWin
  <2> QED
    BY <1>4, <2>1, <2>2
<1>9. ASSUME NEW k, Combine(k)
      PROVE  /\ overflow => overflow'
             /\ ragged => ragged'
             /\ UNCHANGED <<early, alien>>
  <2>1. overflow => overflow'
    BY <1>9 DEF Combine, PutTask
  <2> QED
    BY <1>9, <2>1, WriteGeneOK DEF Combine, ThreadsOK
<1>5. ASSUME NEW w \in Workers, WorkerTake(w) \/ WorkerDone(w)
      PROVE  (overflow => overflow') /\ UNCHANGED <<early, ragged, alien>>
  <2>1. overflow => overflow'
    BY <1>5 DEF WorkerTake, WorkerDone, PutResult
  <2> QED
    BY <1>5, <2>1 DEF WorkerTake, WorkerDone
<1>6. CASE SpreadGene
  BY <1>6 DEF SpreadGene, PutResult
<1>7. CASE RequestTooEarly
  BY <1>7 DEF RequestTooEarly
<1>8. CASE StartThreads \/ ProxyMain \/ SpreadBegin \/ SpreadEnd \/ MutateEnd
           \/ CompeteJoin \/ CompeteLose \/ Best \/ DumpReturns
           \/ SpreaderRefresh \/ SpreaderTake \/ SpreaderSent \/ UNCHANGED vars
  BY <1>8 DEF StartThreads, ProxyMain, SpreadBegin, SpreadEnd, MutateEnd,
              CompeteJoin, CompeteLose, Best, DumpReturns, SpreaderRefresh,
              SpreaderTake, SpreaderSent, vars
<1> QED
  BY <1>1, <1>2, <1>3, <1>4, <1>5, <1>6, <1>7, <1>8, <1>9
     DEF Next, Boot, SchedulerStep, WorkerStep, SpreaderStep

\* A step that does not kill the node leaves a cause that is on record.
LEMMA SurvivorsKeepCauses ==
    TypeOK /\ CrashHasACause /\ [Next]_vars /\ crashed' = crashed
        => CrashHasACause'
BY CausesLast DEF CrashHasACause

\* A step that kills the node has its cause.
LEMMA CauseNext ==
    TypeOK /\ CreditsExact /\ NoPhantoms /\ NoOddScores /\ CrashHasACause
           /\ [Next]_vars => CrashHasACause'
<1> SUFFICES ASSUME TypeOK, CreditsExact, NoPhantoms, NoOddScores,
                    CrashHasACause, [Next]_vars
             PROVE  CrashHasACause'
  OBVIOUS
<1> USE DEF queues, sched, fault, origin, TypeOK
<1>1. CASE crashed' = crashed
  BY <1>1, SurvivorsKeepCauses
<1>2. ASSUME NEW k \in 1 .. Len(survivor), CombineThrows(k) PROVE CrashHasACause'
  <2>1. k \in DOMAIN survivor
    BY <1>2 DEF SchedulerOK
  <2>2. CASE survivor[k].score = Phantom
    <3>1. overflow /\ overflow' = overflow /\ crashed' = "empty gene combined"
      BY <1>2, <2>1, <2>2 DEF NoPhantoms, CombineThrows
    <3> QED
      BY <3>1 DEF CrashHasACause
  <2>3. CASE survivor[k].score # Phantom
    BY <1>2, <2>3 DEF CombineThrows, GeneNotRead, CrashHasACause
  <2> QED
    BY <2>2, <2>3
<1>3. CASE MutateThrows
  BY <1>3 DEF MutateThrows, GeneNotRead, CrashHasACause
<1>4. ASSUME NEW k \in 1 .. Len(survivor), CompeteDivZero(k) PROVE CrashHasACause'
  <2>1. k \in DOMAIN survivor
    BY <1>4 DEF SchedulerOK
  <2>2. Handling
    BY <1>4 DEF CompeteDivZero, Competing, Handling
  <2>3. CASE Odd \cap {c.score, survivor[k].score} # {}
    <3>1. alien
      BY <2>1, <2>2, <2>3 DEF NoOddScores
    <3> QED
      BY <1>4, <3>1 DEF CompeteDivZero, CrashHasACause
  <2>4. CASE (c.score = Phantom) # (survivor[k].score = Phantom)
    <3>1. overflow
      BY <2>1, <2>2, <2>4 DEF NoPhantoms
    <3> QED
      BY <1>4, <3>1 DEF CompeteDivZero, CrashHasACause
  <2> QED
    BY <1>4, <2>3, <2>4 DEF CompeteDivZero
<1>5. ASSUME NEW w \in Workers, WorkerTake(w), crashed' # crashed PROVE CrashHasACause'
  <2>1. CASE taskQ.n > 0
    <3>1. taskQ.n # 0
      BY <2>1
    <3>2. GeneNotRead /\ UNCHANGED <<ragged, alien>>
      BY <1>5, <3>1, Zenon DEF WorkerTake, origin
    <3> QED
      BY <3>2 DEF GeneNotRead, CrashHasACause
  <2>2. CASE ~(taskQ.n > 0)
    <3>1. overflow
      BY <1>5, <2>2, TakenType DEF WorkerTake, CreditsExact, QueuesOK
    <3> QED
      BY <1>5, <2>2, <3>1 DEF WorkerTake, CrashHasACause
  <2> QED
    BY <2>1, <2>2
<1>6. CASE RequestTooEarly
  BY <1>6 DEF RequestTooEarly, CrashHasACause
<1>7. ASSUME NEW k, Combine(k) \/ CompeteWin(k) PROVE crashed' = crashed
  BY <1>7 DEF Combine, CompeteWin
<1>8. ASSUME NEW r, TakeResult(r) PROVE crashed' = crashed
  BY <1>8 DEF TakeResult
<1>9. ASSUME NEW w \in Workers, WorkerDone(w) PROVE crashed' = crashed
  BY <1>9 DEF WorkerDone
<1>10. ASSUME \/ StartThreads \/ ProxyMain \/ StartScheduler \/ Inject \/ SpreadBegin
              \/ SpreadOne \/ SpreadEnd \/ Mutate \/ MutateEnd \/ CompeteJoin
              \/ CompeteLose \/ Best \/ DumpReturns \/ SpreaderRefresh
              \/ SpreaderTake \/ SpreaderSent \/ SpreadGene \/ UNCHANGED vars
       PROVE  crashed' = crashed
  BY <1>10 DEF StartThreads, ProxyMain, StartScheduler, Inject, SpreadBegin,
               SpreadOne, SpreadEnd, Mutate, MutateEnd, CompeteJoin,
               CompeteLose, Best, DumpReturns, SpreaderRefresh, SpreaderTake,
               SpreaderSent, SpreadGene, vars
<1> QED
  BY <1>1, <1>2, <1>3, <1>4, <1>5, <1>6, <1>7, <1>8, <1>9, <1>10
     DEF Next, Boot, SchedulerStep, WorkerStep, SpreaderStep

\* What a node dies of has its cause: an evicted task for an empty gene, a
\* request or a short number for a gene that is not read, one of a request
\* or an evicted task for a sum of 0, and an early request for the pointers.
THEOREM CrashesAreExplained == Spec => []CrashHasACause
<1>1. Init => CauseInv
  BY DEF Init, CauseInv, CreditsExact, NoPhantoms, NoOddScores, Handling,
         CrashHasACause, EmptyQueue
<1>2. TypeOK /\ WorkInv /\ CauseInv /\ [Next]_vars => CauseInv'
  BY CreditsNext, PhantomsNext, OddNext, CauseNext DEF CauseInv, WorkInv
<1>3. CauseInv => CrashHasACause
  BY DEF CauseInv
<1> QED
  BY <1>1, <1>2, <1>3, TypeCorrect, WorkInvariant, PTL DEF Spec

-----------------------------------------------------------------------------
(* The three queues of Node are queues: each does what MsgQue counts *)

TaskCount   == INSTANCE CountedQueue WITH n <- taskQ.n, credit <- taskQ.credit
ResultCount == INSTANCE CountedQueue WITH n <- resQ.n, credit <- resQ.credit
SpreadCount == INSTANCE CountedQueue WITH n <- spreadQ.n, credit <- spreadQ.credit

QueuesAreCounted == TaskCount!Spec /\ ResultCount!Spec /\ SpreadCount!Spec

\* What a step of Node does to a queue: nothing, a call of en() or one of de().
QueueStep(qu, next) ==
    next \in {qu, Put(qu)} \/ (CanTake(qu) /\ next = Taken(qu))

\* No step of the node does anything else.
LEMMA QueueSteps ==
    [Next]_vars => /\ QueueStep(taskQ, taskQ')
                   /\ QueueStep(resQ, resQ')
                   /\ QueueStep(spreadQ, spreadQ')
<1> SUFFICES ASSUME [Next]_vars
             PROVE  /\ QueueStep(taskQ, taskQ')
                    /\ QueueStep(resQ, resQ')
                    /\ QueueStep(spreadQ, spreadQ')
  OBVIOUS
<1> USE DEF queues, sched, fault, origin, QueueStep
<1>1. CASE StartScheduler \/ Inject \/ Mutate
  BY <1>1 DEF StartScheduler, Inject, Mutate, PutTask
<1>2. CASE SpreadOne
  BY <1>2 DEF SpreadOne
<1>3. ASSUME NEW r, TakeResult(r)
      PROVE  /\ QueueStep(taskQ, taskQ')
             /\ QueueStep(resQ, resQ')
             /\ QueueStep(spreadQ, spreadQ')
  BY <1>3 DEF TakeResult
<1>4. ASSUME NEW k, Combine(k) \/ CompeteWin(k) \/ CompeteDivZero(k)
                    \/ CombineThrows(k) \/ MutateThrows
      PROVE  /\ QueueStep(taskQ, taskQ')
             /\ QueueStep(resQ, resQ')
             /\ QueueStep(spreadQ, spreadQ')
  BY <1>4 DEF Combine, PutTask, CompeteWin, CompeteDivZero, CombineThrows,
              MutateThrows
<1>5. ASSUME NEW w \in Workers, WorkerTake(w) \/ WorkerDone(w)
      PROVE  /\ QueueStep(taskQ, taskQ')
             /\ QueueStep(resQ, resQ')
             /\ QueueStep(spreadQ, spreadQ')
  BY <1>5 DEF WorkerTake, WorkerDone, PutResult
<1>6. CASE SpreadGene \/ SpreaderTake
  BY <1>6 DEF SpreadGene, PutResult, SpreaderTake
<1>7. CASE StartThreads \/ ProxyMain \/ SpreadBegin \/ SpreadEnd \/ MutateEnd
           \/ CompeteJoin \/ CompeteLose \/ Best \/ DumpReturns
           \/ SpreaderRefresh \/ SpreaderSent \/ RequestTooEarly \/ UNCHANGED vars
  BY <1>7 DEF StartThreads, ProxyMain, SpreadBegin, SpreadEnd, MutateEnd,
              CompeteJoin, CompeteLose, Best, DumpReturns, SpreaderRefresh,
              SpreaderSent, RequestTooEarly, vars
<1> QED
  BY <1>1, <1>2, <1>3, <1>4, <1>5, <1>6, <1>7
     DEF Next, Boot, SchedulerStep, WorkerStep, SpreaderStep

\* en() and de() of Node in numbers.
LEMMA CallsCount ==
    ASSUME NEW qu \in Queue
    PROVE  /\ Put(qu).n = IF qu.n < MaxSize THEN qu.n + 1 ELSE qu.n
           /\ Put(qu).credit \in {qu.credit + 1} \cup {k \in {qu.credit} : k >= SemMax}
           /\ Taken(qu).credit = qu.credit - 1
           /\ Taken(qu).n = IF qu.n > 0 THEN qu.n - 1 ELSE qu.n
           /\ CanTake(qu) <=> qu.credit > 0
BY NodeAssumption DEF Queue, Put, Taken, Least, CanTake

\* Each of the queues of a worker process counts like the queue of msgque.hh,
\* whatever its threads and the requests it gets do.
THEOREM QueuesCount == Spec => QueuesAreCounted
<1>1. Init => TaskCount!Init /\ ResultCount!Init /\ SpreadCount!Init
  BY DEF Init, EmptyQueue, TaskCount!Init, ResultCount!Init, SpreadCount!Init
<1>2. TypeOK /\ [Next]_vars => [TaskCount!Next]_(TaskCount!cqVars)
  BY QueueSteps, CallsCount DEF QueueStep, TypeOK, QueuesOK, TaskCount!Next,
     TaskCount!Put, TaskCount!Take, TaskCount!cqVars
<1>3. TypeOK /\ [Next]_vars => [ResultCount!Next]_(ResultCount!cqVars)
  BY QueueSteps, CallsCount DEF QueueStep, TypeOK, QueuesOK, ResultCount!Next,
     ResultCount!Put, ResultCount!Take, ResultCount!cqVars
<1>4. TypeOK /\ [Next]_vars => [SpreadCount!Next]_(SpreadCount!cqVars)
  BY QueueSteps, CallsCount DEF QueueStep, TypeOK, QueuesOK, SpreadCount!Next,
     SpreadCount!Put, SpreadCount!Take, SpreadCount!cqVars
<1> QED
  BY <1>1, <1>2, <1>3, <1>4, TypeCorrect, PTL
     DEF Spec, QueuesAreCounted, TaskCount!Spec, ResultCount!Spec, SpreadCount!Spec

-----------------------------------------------------------------------------
(* No thread sleeps on a queue that is not empty *)

TasksAreInReach == \A qu \in {taskQ, resQ, spreadQ} : qu.n <= qu.credit

\* A call of en() or de() keeps a credit for every task, evictions, phantom
\* tasks and a saturated semaphore notwithstanding.
LEMMA ReachKept ==
    ASSUME NEW qu \in Queue, qu.n <= qu.credit, NEW next, QueueStep(qu, next)
    PROVE  next.n <= next.credit
<1>1. CASE next = Put(qu)
  BY <1>1, NodeAssumption DEF Queue, Put, Least
<1>2. CASE CanTake(qu) /\ next = Taken(qu)
  BY <1>2 DEF Queue, Taken, CanTake
<1> QED
  BY <1>1, <1>2 DEF QueueStep

\* A thread that calls de() on a queue with a task returns: the semaphore of
\* a queue of the worker process is never below the number of its tasks.
THEOREM TasksStayInReach == Spec => []TasksAreInReach
<1>1. Init => TasksAreInReach
  BY DEF Init, EmptyQueue, TasksAreInReach
<1>2. TypeOK /\ TasksAreInReach /\ [Next]_vars => TasksAreInReach'
  BY QueueSteps, ReachKept DEF TypeOK, QueuesOK, TasksAreInReach
<1> QED
  BY <1>1, <1>2, TypeCorrect, PTL DEF Spec

=============================================================================
