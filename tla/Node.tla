-------------------------------- MODULE Node --------------------------------
(***************************************************************************)
(* One worker process: the main thread that boots it and becomes the        *)
(* scheduler (main.cc, scheduler.cc), the worker threads (worker.cc), the   *)
(* thread that spreads genes, and the HTTP handlers (proxy.cc), around      *)
(* three queues.                                                            *)
(*                                                                         *)
(* A call of en() or de() is one step here (MsgQue implements TaskQueue).   *)
(* Genes are left out: a queue is the number of its tasks and of the calls  *)
(* of de() that may return, and the score of a result is chosen when the    *)
(* scheduler takes it.  Scores are multiples of 0.1, the first value of     *)
(* current_max.  A request may bring a gene that is no car's, and a score   *)
(* that no car reaches.  From then on, and once the node itself has written *)
(* a number without its leading zeros (Gene), the engine may fail at every  *)
(* gene it reads, and nothing catches that.                                 *)
(***************************************************************************)
EXTENDS Integers, Sequences, FiniteSets

CONSTANTS
    Workers,       \* the worker threads
    MaxSize,       \* MsgQue::max_size
    SemMax,        \* SEM_VALUE_MAX
    MaxScore,      \* bound: the scores are 0..MaxScore
    GroupSize,     \* group_size, 1003 in the code
    MutateConst,   \* mutate_const, 40
    CombineConst,  \* combine_const, 4
    MaxIter,       \* max_iter, 100
    InjectPeriod,  \* 331
    SpreadPeriod,  \* 97
    SpreadBatch,   \* the genes spread per list of fellows, 10
    Troubles       \* bound: the troubles with genes there are, "ragged", "alien"

ASSUME NodeAssumption ==
    /\ IsFiniteSet(Workers)
    /\ Workers # {}
    /\ MaxSize \in Nat \ {0}
    /\ SemMax \in Nat /\ SemMax >= MaxSize
    /\ MaxScore \in Nat \ {0}
    /\ GroupSize \in Nat \ {0}
    /\ MutateConst \in Nat \ {0} /\ CombineConst \in Nat \ {0}
    /\ MaxIter \in Nat \ {0}
    /\ InjectPeriod \in Nat \ {0, 1} /\ SpreadPeriod \in Nat \ {0, 1}
    /\ SpreadBatch \in Nat \ {0}
    /\ Troubles \subseteq {"ragged", "alien"}

VARIABLES
    boot,       \* the progress of main(): its HTTP server already runs
    ptrs,       \* proxyMain has set task_q and res_q
    crashed,    \* "no", or why the process is dead
    taskQ, resQ, spreadQ,
    resOut,     \* the results in resQ that came from other nodes
    wk,         \* what each worker thread does
    pc,         \* where the scheduler is
    c,          \* its result: a score and whether it is an outcomer
    left,       \* the iterations its loop still has
    cnt,        \* its round, modulo InjectPeriod * SpreadPeriod
    survivor,
    currentMax, \* current_max
    spr,        \* what the spreading thread does
    batch,      \* the genes it may still spread before it refreshes the list
    overflow,   \* history: a queue has thrown a task away
    early,      \* history: a request used the pointers before they were set
    ragged,     \* history: a gene was written that may be too short
    alien       \* history: a request brought a gene of no car, or an odd score

queues == <<taskQ, resQ, spreadQ, resOut>>
sched  == <<pc, c, left, cnt, survivor, currentMax>>
fault  == <<crashed, early>>
origin == <<ragged, alien>>
vars   == <<boot, ptrs, crashed, taskQ, resQ, spreadQ, resOut, wk, pc, c, left,
            cnt, survivor, currentMax, spr, batch, overflow, early, ragged,
            alien>>

-----------------------------------------------------------------------------
(* The queues, as MsgQue leaves them *)

Least(a, b) == IF a < b THEN a ELSE b

EmptyQueue == [n |-> 0, credit |-> 0]

\* faulty variant: the semaphore is posted before and after the push
PutTwice(qu) ==
    [n |-> Least(qu.n + 1, MaxSize), credit |-> Least(qu.credit + 2, SemMax)]

\* en(): the size stays at its limit, the credit does not know of evictions.
Put(qu) ==
    [n |-> Least(qu.n + 1, MaxSize), credit |-> Least(qu.credit + 1, SemMax)]

\* de() returns, with a task or, from an empty queue, with the default task.
CanTake(qu) == qu.credit > 0

Taken(qu) ==
    [n |-> IF qu.n > 0 THEN qu.n - 1 ELSE 0, credit |-> qu.credit - 1]

Overflows(qu) == qu.n = MaxSize

\* The outcomers among the results after a result with flag o was put.
OutAfterPut(o) ==
    LET out == resOut + (IF o THEN 1 ELSE 0)
    IN  IF Overflows(resQ) THEN {out - 1, out} \cap (0 .. MaxSize) ELSE {out}

PutResult(o) ==
    /\ resQ' = Put(resQ)
    /\ resOut' \in OutAfterPut(o)
    /\ overflow' = (overflow \/ Overflows(resQ))

PutTask ==
    /\ taskQ' = Put(taskQ)
    /\ overflow' = (overflow \/ Overflows(taskQ))

-----------------------------------------------------------------------------
Score == 0 .. MaxScore
Phantom == -1                    \* the score of the default task
Below == -2                      \* a score under zero, or not a number
Beyond == MaxScore + 1           \* a score that leaves the range of an int
Odd == {Below, Beyond}           \* atof() takes them from a request
NoResult == [score |-> Phantom, out |-> FALSE]

Alive == crashed = "no"

\* stoll() or substr() throws, or no world can be built from the numbers.
GeneNotRead == (ragged \/ alien) /\ crashed' = "gene not read"

\* chrome_to_gene writes a gene, perhaps with a number too short.
WriteGene ==
    /\ ragged' \in {ragged, ragged \/ "ragged" \in Troubles}
    /\ UNCHANGED alien

Init ==
    /\ boot = "http"
    /\ ptrs = FALSE
    /\ crashed = "no"
    /\ taskQ = EmptyQueue /\ resQ = EmptyQueue /\ spreadQ = EmptyQueue
    /\ resOut = 0
    /\ wk = [w \in Workers |-> "off"]
    /\ pc = "off"
    /\ c = NoResult
    /\ left = 0
    /\ cnt = 0
    /\ survivor = <<>>
    /\ currentMax = 1
    /\ spr = "off"
    /\ batch = 0
    /\ overflow = FALSE
    /\ early = FALSE
    /\ ragged = FALSE
    /\ alien = FALSE

(* main(): the queues, the worker threads and the proxy thread, *)
(* then the daemon thread and, in this thread, the scheduler.    *)

StartThreads ==
    /\ boot = "http"
    /\ boot' = "threads"
    /\ wk' = [w \in Workers |-> "idle"]
    /\ UNCHANGED <<ptrs, queues, sched, spr, batch, overflow, fault,
                   origin>>

ProxyMain ==
    /\ boot # "http" /\ ~ptrs
    /\ ptrs' = TRUE
    /\ UNCHANGED <<boot, queues, wk, sched, spr, batch, overflow, fault,
                   origin>>

\* The daemon starts the spreading thread; schedulerMain queues a first task.
StartScheduler ==
    /\ boot = "threads"
    /\ boot' = "run"
    /\ spr' = "refresh"
    /\ PutTask
    /\ WriteGene
    /\ pc' = "loop"
    /\ UNCHANGED <<ptrs, resQ, spreadQ, resOut, wk, c, left, cnt, survivor,
                   currentMax, batch, fault>>

-----------------------------------------------------------------------------
(* worker.cc *)

WorkerTake(w) ==
    /\ wk[w] = "idle"
    /\ CanTake(taskQ)
    /\ taskQ' = Taken(taskQ)
    /\ \/ taskQ.n > 0 /\ wk' = [wk EXCEPT ![w] = "run"] /\ UNCHANGED crashed
       \/ taskQ.n > 0 /\ GeneNotRead /\ UNCHANGED wk
       \/ taskQ.n = 0 /\ crashed' = "empty gene scored" /\ UNCHANGED wk
    /\ UNCHANGED <<boot, ptrs, resQ, spreadQ, resOut, sched, spr, batch,
                   overflow, early, origin>>

WorkerDone(w) ==
    /\ wk[w] = "run"
    /\ wk' = [wk EXCEPT ![w] = "idle"]
    /\ PutResult(FALSE)
    /\ UNCHANGED <<boot, ptrs, taskQ, spreadQ, sched, spr, batch, fault,
                   origin>>

-----------------------------------------------------------------------------
(* proxy.cc: /spread_gene, and /get_status as far as it uses the queues *)

\* Only the length of the text is looked at.
SpreadGene ==
    /\ ptrs
    /\ PutResult(TRUE)
    /\ alien' \in {alien, alien \/ "alien" \in Troubles}
    /\ UNCHANGED <<boot, ptrs, taskQ, spreadQ, wk, sched, spr, batch, fault,
                   ragged>>

\* Both handlers go through the pointers without a look at them.
RequestTooEarly ==
    /\ ~ptrs
    /\ crashed' = "null queue used"
    /\ early' = TRUE
    /\ UNCHANGED <<boot, ptrs, queues, wk, sched, spr, batch, overflow,
                   origin>>

-----------------------------------------------------------------------------
(* schedulerMain: the rounds of its loop *)

Period == InjectPeriod * SpreadPeriod
NextRound == cnt' = (cnt + 1) % Period

InjectRound == cnt % InjectPeriod = 0
SpreadRound == ~InjectRound /\ cnt % SpreadPeriod = SpreadPeriod - 1
TakeRound   == ~InjectRound /\ ~SpreadRound

Inject ==
    /\ pc = "loop" /\ InjectRound
    /\ PutTask
    /\ WriteGene
    /\ NextRound
    /\ UNCHANGED <<boot, ptrs, resQ, spreadQ, resOut, wk, pc, c, left,
                   survivor, currentMax, spr, batch, fault>>

SpreadBegin ==
    /\ pc = "loop" /\ SpreadRound
    /\ pc' = "spread"
    /\ left' = 1
    /\ UNCHANGED <<boot, ptrs, queues, wk, c, cnt, survivor, currentMax, spr,
                   batch, overflow, fault, origin>>

\* it.score > current_max * 0.7
WorthSpreading(t) == 10 * t.score > 7 * currentMax

SpreadOne ==
    /\ pc = "spread" /\ left <= Len(survivor)
    /\ left' = left + 1
    /\ IF WorthSpreading(survivor[left])
       THEN /\ spreadQ' = Put(spreadQ)
            /\ overflow' = (overflow \/ Overflows(spreadQ))
       ELSE UNCHANGED <<spreadQ, overflow>>
    /\ UNCHANGED <<boot, ptrs, taskQ, resQ, resOut, wk, pc, c, cnt, survivor,
                   currentMax, spr, batch, fault, origin>>

SpreadEnd ==
    /\ pc = "spread" /\ left > Len(survivor)
    /\ pc' = "loop"
    /\ left' = 0
    /\ NextRound
    /\ UNCHANGED <<boot, ptrs, queues, wk, c, survivor, currentMax, spr,
                   batch, overflow, fault, origin>>

\* faulty variant: the + 1 is forgotten
NumNoBase(s, factor) ==
    IF s < 0 THEN 0 ELSE Least((s * factor) \div currentMax, MaxIter)

\* int(score / current_max * factor + 1), at most max_iter; what is left of
\* a score under zero is at most 0.
Num(s, factor) ==
    IF s < 0 THEN 0 ELSE Least((s * factor) \div currentMax + 1, MaxIter)

\* The quotient of a score may be more than an int holds.
Nums(s, factor) == IF s = Beyond THEN 0 .. MaxIter ELSE {Num(s, factor)}

\* A result is one of the outcomers or one of the node's own.
ResultIn(r) ==
    IF resQ.n = 0 THEN r = NoResult
    ELSE /\ r.score \in Score \/ (r.out /\ alien /\ r.score \in Odd)
         /\ IF r.out THEN resOut > 0 ELSE resOut < resQ.n

TakeResult(r) ==
    /\ pc = "loop" /\ TakeRound
    /\ CanTake(resQ)
    /\ ResultIn(r)
    /\ c' = r
    /\ resQ' = Taken(resQ)
    /\ resOut' = resOut - (IF r.out THEN 1 ELSE 0)
    /\ left' \in Nums(r.score, MutateConst)
    /\ pc' = "mutate"
    /\ UNCHANGED <<boot, ptrs, taskQ, spreadQ, wk, cnt, survivor, currentMax,
                   spr, batch, overflow, fault, origin>>

Mutate ==
    /\ pc = "mutate" /\ left > 0
    /\ PutTask
    /\ WriteGene
    /\ left' = left - 1
    /\ UNCHANGED <<boot, ptrs, resQ, spreadQ, resOut, wk, pc, c, cnt,
                   survivor, currentMax, spr, batch, fault>>

\* engine.mutate() reads the gene of the result, or one it has just written.
MutateThrows ==
    /\ pc = "mutate" /\ left > 0
    /\ GeneNotRead
    /\ UNCHANGED <<boot, ptrs, queues, wk, sched, spr, batch, overflow, early,
                   origin>>

MutateEnd ==
    /\ pc = "mutate" /\ left = 0
    /\ pc' = "combine"
    /\ left' \in IF survivor = <<>> THEN {0} ELSE Nums(c.score, CombineConst)
    /\ UNCHANGED <<boot, ptrs, queues, wk, c, cnt, survivor, currentMax, spr,
                   batch, overflow, fault, origin>>

Combine(k) ==
    /\ pc = "combine" /\ left > 0
    /\ survivor[k].score # Phantom
    /\ PutTask
    /\ WriteGene
    /\ left' = left - 1
    /\ UNCHANGED <<boot, ptrs, resQ, spreadQ, resOut, wk, pc, c, cnt,
                   survivor, currentMax, spr, batch, fault>>

\* engine.combine() reads the empty gene of a phantom that survived, or one
\* of two genes that are no chrome.
CombineThrows(k) ==
    /\ pc = "combine" /\ left > 0
    /\ \/ survivor[k].score = Phantom /\ crashed' = "empty gene combined"
       \/ survivor[k].score # Phantom /\ GeneNotRead
    /\ UNCHANGED <<boot, ptrs, queues, wk, sched, spr, batch, overflow, early,
                   origin>>

-----------------------------------------------------------------------------
(* schedulerMain: the competition.  Outcomers take part in it: the branch   *)
(* for them is empty and has no else.                                       *)

Competing == pc = "combine" /\ left = 0

CompeteJoin ==
    /\ Competing /\ Len(survivor) < GroupSize
    /\ survivor' = Append(survivor, c)
    /\ pc' = "best"
    /\ UNCHANGED <<boot, ptrs, queues, wk, c, left, cnt, currentMax, spr,
                   batch, overflow, fault, origin>>

\* rand() % (sel_score + c_score) < c_score is possible for a score of at
\* least 0 only: otherwise c_score is not above 0, and the remainder is not
\* below it.
CompeteWin(k) ==
    /\ Competing /\ Len(survivor) >= GroupSize
    /\ c.score >= 0
    /\ survivor' = [survivor EXCEPT ![k] = c]
    /\ pc' = "dump"
    /\ UNCHANGED <<boot, ptrs, queues, wk, c, left, cnt, currentMax, spr,
                   batch, overflow, fault, origin>>

\* The gene survives already, or loses.
CompeteLose ==
    /\ Competing /\ Len(survivor) >= GroupSize
    /\ pc' = "dump"
    /\ UNCHANGED <<boot, ptrs, queues, wk, c, left, cnt, survivor, currentMax,
                   spr, batch, overflow, fault, origin>>

\* The two scores add up to 0 if one is the phantom's, -9999, and the other
\* is 9999: a real score of 0.9998, which the coarse scores here leave open,
\* as they leave open what an odd score adds up to.
CompeteDivZero(k) ==
    /\ Competing /\ Len(survivor) >= GroupSize
    /\ \/ (c.score = Phantom) # (survivor[k].score = Phantom)
       \/ Odd \cap {c.score, survivor[k].score} # {}
    /\ crashed' = "division by zero"
    /\ UNCHANGED <<boot, ptrs, queues, wk, sched, spr, batch, overflow, early,
                   origin>>

\* dumpGene: the scheduler waits for the server's answer.
DumpReturns ==
    /\ pc = "dump"
    /\ pc' = "best"
    /\ UNCHANGED <<boot, ptrs, queues, wk, c, left, cnt, survivor, currentMax,
                   spr, batch, overflow, fault, origin>>

Best ==
    /\ pc = "best"
    /\ currentMax' = IF c.score > currentMax THEN c.score ELSE currentMax
    /\ pc' = "loop"
    /\ c' = NoResult
    /\ NextRound
    /\ UNCHANGED <<boot, ptrs, queues, wk, left, survivor, spr, batch,
                   overflow, fault, origin>>

-----------------------------------------------------------------------------
(* getListAndSpread *)

\* updateClientList returns, after the sleep of the round before.
SpreaderRefresh ==
    /\ spr = "refresh"
    /\ spr' = "take"
    /\ batch' = SpreadBatch
    /\ UNCHANGED <<boot, ptrs, queues, wk, sched, overflow, fault, origin>>

\* faulty variant: the default task ends the thread
SpreaderTakeEnds ==
    /\ spr = "take" /\ CanTake(spreadQ)
    /\ spreadQ' = Taken(spreadQ)
    /\ spr' = IF spreadQ.n > 0 THEN "send" ELSE "off"
    /\ UNCHANGED <<boot, ptrs, taskQ, resQ, resOut, wk, sched, batch,
                   overflow, fault, origin>>

\* The score of the default task ends the round.
SpreaderTake ==
    /\ spr = "take" /\ CanTake(spreadQ)
    /\ spreadQ' = Taken(spreadQ)
    /\ spr' = IF spreadQ.n > 0 THEN "send" ELSE "refresh"
    /\ UNCHANGED <<boot, ptrs, taskQ, resQ, resOut, wk, sched, batch,
                   overflow, fault, origin>>

\* spreadGene has asked every fellow, and perhaps the server.
SpreaderSent ==
    /\ spr = "send"
    /\ batch' = batch - 1
    /\ spr' = IF batch = 1 THEN "refresh" ELSE "take"
    /\ UNCHANGED <<boot, ptrs, queues, wk, sched, overflow, fault, origin>>

-----------------------------------------------------------------------------
Boot == StartThreads \/ ProxyMain \/ StartScheduler

\* The scheduler's steps that do not wait for another machine.
SchedulerStep ==
    \/ Inject \/ SpreadBegin \/ SpreadOne \/ SpreadEnd
    \/ \E s \in Score \cup {Phantom} \cup Odd, o \in BOOLEAN :
           TakeResult([score |-> s, out |-> o])
    \/ Mutate \/ MutateThrows \/ MutateEnd
    \/ \E k \in 1 .. Len(survivor) :
           Combine(k) \/ CombineThrows(k) \/ CompeteWin(k) \/ CompeteDivZero(k)
    \/ CompeteJoin \/ CompeteLose \/ Best

WorkerStep(w) == WorkerTake(w) \/ WorkerDone(w)
SpreaderStep == SpreaderTake

Next ==
    /\ Alive
    /\ \/ Boot
       \/ SchedulerStep
       \/ DumpReturns
       \/ \E w \in Workers : WorkerStep(w)
       \/ SpreaderRefresh \/ SpreaderStep \/ SpreaderSent
       \/ SpreadGene \/ RequestTooEarly

(***************************************************************************)
(* Every thread runs unless it waits for a queue; the car of a gene stops   *)
(* sooner or later, so that the engine answers.  Nothing is assumed of the  *)
(* HTTP calls a node makes, or of the requests it gets.                     *)
(***************************************************************************)
Fairness ==
    /\ WF_vars(Alive /\ Boot)
    /\ WF_vars(Alive /\ SchedulerStep)
    /\ WF_vars(Alive /\ SpreaderStep)
    /\ \A w \in Workers : WF_vars(Alive /\ WorkerStep(w))

Spec == Init /\ [][Next]_vars
FairSpec == Spec /\ Fairness

-----------------------------------------------------------------------------
Queue == [n : 0 .. MaxSize, credit : 0 .. SemMax]
Result == [score : Score \cup {Phantom} \cup Odd, out : BOOLEAN]

ThreadsOK ==
    /\ boot \in {"http", "threads", "run"}
    /\ ptrs \in BOOLEAN
    /\ crashed \in {"no", "empty gene scored", "null queue used",
                    "empty gene combined", "division by zero", "gene not read"}
    /\ wk \in [Workers -> {"off", "idle", "run"}]
    /\ spr \in {"off", "refresh", "take", "send"}
    /\ batch \in 0 .. SpreadBatch
    /\ spr \in {"take", "send"} => batch > 0
    /\ overflow \in BOOLEAN
    /\ early \in BOOLEAN
    /\ ragged \in BOOLEAN
    /\ alien \in BOOLEAN

QueuesOK ==
    /\ taskQ \in Queue /\ resQ \in Queue /\ spreadQ \in Queue
    /\ resOut \in 0 .. resQ.n

SchedulerOK ==
    /\ pc \in {"off", "loop", "spread", "mutate", "combine", "dump", "best"}
    /\ c \in Result
    /\ left \in Nat
    /\ cnt \in 0 .. Period - 1
    /\ survivor \in Seq(Result) /\ Len(survivor) <= GroupSize
    /\ currentMax \in 1 .. Beyond

\* Type invariant: among others, resQ never holds more outcomers than
\* results, and the spreader has a gene left of its batch when it takes one.
TypeOK == ThreadsOK /\ QueuesOK /\ SchedulerOK

\* The scheduler holds a real result it has not made a task of yet.
Holding == pc = "mutate" /\ c.score >= 0 /\ left > 0

(***************************************************************************)
(* The work never runs out: once the scheduler has started there is a task  *)
(* queued, being scored, waiting as a result or in the scheduler's hands,   *)
(* whatever was evicted.  Otherwise every thread of the node would end up   *)
(* asleep in de(): only a result makes new tasks, and only a task a result. *)
(* The score of a result must be one that an engine gives: one below zero   *)
(* from a request may evict the last result and makes no task.              *)
(***************************************************************************)
WorkNeverRunsOut ==
    boot = "run" /\ Alive /\ ~alien =>
        \/ taskQ.n > 0 \/ resQ.n > 0
        \/ \E w \in Workers : wk[w] = "run"
        \/ Holding

(***************************************************************************)
(* What a node dies of has its cause.  An empty gene is scored or combined  *)
(* only after a queue has overflowed, which makes phantom tasks; the        *)
(* lottery divides by 0 only for a phantom, or a score from no engine; a    *)
(* gene that cannot be read has come in a request or was written short; and *)
(* the pointers to the queues are missing only until proxyMain has run.     *)
(***************************************************************************)
CrashHasACause ==
    /\ crashed \in {"empty gene scored", "empty gene combined"} => overflow
    /\ crashed = "division by zero" => overflow \/ alien
    /\ crashed = "gene not read" => ragged \/ alien
    /\ crashed = "null queue used" => early

(***************************************************************************)
(* Between two rounds no survivor scores more than current_max: the numbers *)
(* of children and the threshold for spreading are relative to the best.    *)
(***************************************************************************)
BestIsKnown ==
    pc \in {"loop", "spread", "mutate"} =>
        \A k \in DOMAIN survivor : survivor[k].score <= currentMax

(***************************************************************************)
(* The scheduler handles results for ever, unless the node dies, the server *)
(* never answers a /dump, or a request has brought a gene or a score from   *)
(* no engine: see WorkNeverRunsOut.                                         *)
(***************************************************************************)
SchedulerGoesOn ==
    \/ []<>(pc = "mutate")
    \/ <>[](pc = "dump")
    \/ <>(~Alive \/ alien)

(***************************************************************************)
(* A gene queued to be spread is taken by the spreader, unless it waits for *)
(* another machine for ever or the node dies.                               *)
(***************************************************************************)
GenesAreSpread ==
    (spreadQ.n > 0) ~> (spr = "send" \/ ~Alive \/ [](spr = "refresh"))

(***************************************************************************)
(* scheduler.cc says "do nothing as outcomer": the genes other nodes spread *)
(* do not join the survivors.                                               *)
(***************************************************************************)
OutcomersStayOut == \A k \in DOMAIN survivor : ~survivor[k].out

=============================================================================
