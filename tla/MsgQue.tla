------------------------------- MODULE MsgQue -------------------------------
(***************************************************************************)
(* worker/include/msgque.hh: the queue the threads of a worker process      *)
(* share, one action per step between two synchronisation points of en()    *)
(* and de(), and the unlocked accessors tot() and sz().                      *)
(***************************************************************************)
EXTENDS Priority

CONSTANTS
    Producers,   \* the threads that call en()
    Consumers,   \* the threads that call de()
    Readers,     \* the threads that call tot() or sz()
    NoThread,
    Increments,  \* the values of the add_cnt argument of en()
    TotMod,      \* tot_cnt is an int: the number of values it has
    SemMax       \* SEM_VALUE_MAX

Threads == Producers \cup Consumers \cup Readers

ASSUME MsgQueAssumption ==
    /\ IsFiniteSet(Threads)
    /\ Producers \cap Consumers = {}
    /\ Producers \cap Readers = {}
    /\ Consumers \cap Readers = {}
    /\ NoThread \notin Threads
    /\ Increments \subseteq Nat
    /\ TotMod \in Nat \ {0}
    /\ SemMax \in Nat
    /\ SemMax >= MaxSize

VARIABLES
    q,         \* the content of the priority queue
    sem,       \* the value of data_ready_sem
    mtx,       \* the owner of editing_mtx
    tot,       \* tot_cnt
    pc,        \* where each thread is in its call
    arg,       \* the argument d of each producer's call
    got,       \* the result of each consumer's call
    evicted,   \* history: the size check has thrown a task away
    phantom    \* history: a call of de() has found the queue empty

vars == <<q, sem, mtx, tot, pc, arg, got, evicted, phantom>>

Goto(t, l) == pc' = [pc EXCEPT ![t] = l]

Init ==
    /\ q = {}
    /\ sem = 0
    /\ mtx = NoThread
    /\ tot = 0
    /\ pc = [t \in Threads |-> "idle"]
    /\ arg = [p \in Producers |-> NoTask]
    /\ got = [c \in Consumers |-> NoTask]
    /\ evicted = FALSE
    /\ phantom = FALSE

-----------------------------------------------------------------------------
(* en(d, add_cnt) *)

EnLock(p, t) ==
    /\ pc[p] = "idle"
    /\ mtx = NoThread
    /\ t \notin q
    /\ mtx' = p
    /\ arg' = [arg EXCEPT ![p] = t]
    /\ Goto(p, "push")
    /\ UNCHANGED <<q, sem, tot, got, evicted, phantom>>

EnPush(p, n) ==
    /\ pc[p] = "push"
    /\ tot' = (tot + n) % TotMod
    /\ q' \in Pushed(q, arg[p])
    /\ evicted' = (evicted \/ q' # q \cup {arg[p]})
    /\ Goto(p, "unlock")
    /\ UNCHANGED <<sem, mtx, arg, got, phantom>>

\* faulty variant: en() returns without the sem_post
EnUnlockNoPost(p) ==
    /\ pc[p] = "unlock"
    /\ mtx' = NoThread
    /\ arg' = [arg EXCEPT ![p] = NoTask]
    /\ Goto(p, "idle")
    /\ UNCHANGED <<q, sem, tot, got, evicted, phantom>>

EnUnlock(p) ==
    /\ pc[p] = "unlock"
    /\ mtx' = NoThread
    /\ Goto(p, "post")
    /\ UNCHANGED <<q, sem, tot, arg, got, evicted, phantom>>

\* faulty variant: only the first task of an empty queue is announced
EnPostFirst(p) ==
    /\ pc[p] = "post"
    /\ sem' = IF Cardinality(q) > 1 \/ sem = SemMax THEN sem ELSE sem + 1
    /\ Goto(p, "idle")
    /\ arg' = [arg EXCEPT ![p] = NoTask]
    /\ UNCHANGED <<q, mtx, tot, got, evicted, phantom>>

EnPost(p) ==
    /\ pc[p] = "post"
    /\ sem' = IF sem = SemMax THEN sem ELSE sem + 1
    /\ Goto(p, "idle")
    /\ arg' = [arg EXCEPT ![p] = NoTask]
    /\ UNCHANGED <<q, mtx, tot, got, evicted, phantom>>

-----------------------------------------------------------------------------
(* de() *)

DeWait(c) ==
    /\ pc[c] = "idle"
    /\ sem > 0
    /\ sem' = sem - 1
    /\ Goto(c, "lock")
    /\ UNCHANGED <<q, mtx, tot, arg, got, evicted, phantom>>

DeLock(c) ==
    /\ pc[c] = "lock"
    /\ mtx = NoThread
    /\ mtx' = c
    /\ Goto(c, "test")
    /\ UNCHANGED <<q, sem, tot, arg, got, evicted, phantom>>

DeTestFull(c) ==
    /\ pc[c] = "test"
    /\ q # {}
    /\ Goto(c, "pop")
    /\ UNCHANGED <<q, sem, mtx, tot, arg, got, evicted, phantom>>

\* The result keeps its default value.
DeTestEmpty(c) ==
    /\ pc[c] = "test"
    /\ q = {}
    /\ got' = [got EXCEPT ![c] = NoTask]
    /\ phantom' = TRUE
    /\ Goto(c, "leave")
    /\ UNCHANGED <<q, sem, mtx, tot, arg, evicted>>

\* faulty variant: top() and pop() do not see the same task
DePopOther(c, t) ==
    /\ pc[c] = "pop"
    /\ t \in Top(q)
    /\ got' = [got EXCEPT ![c] = t]
    /\ \E u \in q : q' = q \ {u}
    /\ Goto(c, "leave")
    /\ UNCHANGED <<sem, mtx, tot, arg, evicted, phantom>>

DePop(c, t) ==
    /\ pc[c] = "pop"
    /\ t \in Top(q)
    /\ got' = [got EXCEPT ![c] = t]
    /\ q' = q \ {t}
    /\ Goto(c, "leave")
    /\ UNCHANGED <<sem, mtx, tot, arg, evicted, phantom>>

DeUnlock(c) ==
    /\ pc[c] = "leave"
    /\ mtx' = NoThread
    /\ Goto(c, "idle")
    /\ UNCHANGED <<q, sem, tot, arg, got, evicted, phantom>>

-----------------------------------------------------------------------------
(* tot() and sz(): a read that takes no lock has a beginning and an end. *)

ReadBegin(r) ==
    /\ pc[r] = "idle"
    /\ Goto(r, "read")
    /\ UNCHANGED <<q, sem, mtx, tot, arg, got, evicted, phantom>>

ReadEnd(r) ==
    /\ pc[r] = "read"
    /\ Goto(r, "idle")
    /\ UNCHANGED <<q, sem, mtx, tot, arg, got, evicted, phantom>>

-----------------------------------------------------------------------------
\* The rest of a call of en() that holds, or has held, the mutex.
EnStep(p) ==
    \/ \E n \in Increments : EnPush(p, n)
    \/ EnUnlock(p)
    \/ EnPost(p)

DeStep(c) ==
    \/ DeWait(c)
    \/ DeLock(c)
    \/ DeTestFull(c)
    \/ DeTestEmpty(c)
    \/ \E t \in Task : DePop(c, t)
    \/ DeUnlock(c)

Next ==
    \/ \E p \in Producers : \/ \E t \in Task : EnLock(p, t)
                            \/ EnStep(p)
    \/ \E c \in Consumers : DeStep(c)
    \/ \E r \in Readers : ReadBegin(r) \/ ReadEnd(r)

(***************************************************************************)
(* A thread that is inside a call runs, and a consumer calls de() in an     *)
(* endless loop.  Nobody is obliged to call en(), and the mutex is only     *)
(* weakly fair: a thread gets it if it stays free.                          *)
(***************************************************************************)
Fairness ==
    /\ \A p \in Producers : WF_vars(EnStep(p))
    /\ \A c \in Consumers : WF_vars(DeStep(c))

Spec == Init /\ [][Next]_vars
FairSpec == Spec /\ Fairness

-----------------------------------------------------------------------------
\* The threads at one of the labels L of their calls.
At(L) == {t \in Threads : pc[t] \in L}

ProducerLabels == {"idle", "push", "unlock", "post"}
ConsumerLabels == {"idle", "lock", "test", "pop", "leave"}
Critical == {"push", "unlock", "test", "pop", "leave"}

\* A call of de() past its sem_wait that has not looked into the queue yet,
\* and a call of en() that has pushed and not posted yet.
Passed  == {c \in Consumers : pc[c] \in {"lock", "test", "pop"}}
Pending == {p \in Producers : pc[p] \in {"unlock", "post"}}

\* Every credit a task in the queue may be claimed with.
Credit == sem + Cardinality(Passed) + Cardinality(Pending)

(***************************************************************************)
(* Type invariant.  It includes the bound the size check of en() enforces,  *)
(* and that a producer about to push brings a task the queue does not hold. *)
(***************************************************************************)
TypeOK ==
    /\ q \subseteq Task /\ IsFiniteSet(q) /\ Cardinality(q) <= MaxSize
    /\ sem \in 0..SemMax
    /\ mtx \in Threads \cup {NoThread}
    /\ tot \in 0..(TotMod - 1)
    /\ pc \in [Threads -> ProducerLabels \cup ConsumerLabels \cup {"read"}]
    /\ \A p \in Producers : pc[p] \in ProducerLabels
    /\ \A c \in Consumers : pc[c] \in ConsumerLabels
    /\ \A r \in Readers : pc[r] \in {"idle", "read"}
    /\ arg \in [Producers -> Task \cup {NoTask}]
    /\ \A p \in Producers : pc[p] = "push" => arg[p] \in Task \ q
    /\ got \in [Consumers -> Task \cup {NoTask}]
    /\ evicted \in BOOLEAN
    /\ phantom \in BOOLEAN

(***************************************************************************)
(* A consumer that saw the queue non-empty still finds a task when it pops  *)
(* (pop() of an empty std::priority_queue is undefined): the test and the   *)
(* pop of de() are not interleaved with another consumer's pop.             *)
(***************************************************************************)
PopNonEmpty == \A c \in Consumers : pc[c] = "pop" => q # {}

(***************************************************************************)
(* No wakeup is lost: there is a credit for every task in the queue, even   *)
(* when the semaphore has been posted for evicted tasks or has saturated.   *)
(* Otherwise a task could stay queued while every worker sleeps in de().    *)
(***************************************************************************)
NoLostWakeup == Cardinality(q) <= Credit

(***************************************************************************)
(* de() answers with the default task only after en() has thrown a task     *)
(* away: the workers hand de()'s result to the engine without looking, and  *)
(* the engine cannot decode the empty gene of the default task.             *)
(***************************************************************************)
PhantomOnlyAfterOverflow == phantom => evicted

(***************************************************************************)
(* When the producers stop, the consumers empty the queue and use up every  *)
(* credit: all of them end up asleep in sem_wait, none with work left.      *)
(***************************************************************************)
Drained ==
    <>[](\A p \in Producers : pc[p] = "idle")
        => <>[](q = {} /\ sem = 0 /\ \A c \in Consumers : pc[c] = "idle")

(***************************************************************************)
(* The locked queue implements the atomic one: en() takes effect when it    *)
(* pushes, de() when it pops or finds the queue empty.                      *)
(***************************************************************************)
Queue == INSTANCE TaskQueue WITH
            Client <- Consumers, items <- q, credit <- Credit, total <- tot

ImplementsQueue == Queue!Spec

(***************************************************************************)
(* msgque.hh calls the queue "thread-safe": no thread reads tot_cnt or      *)
(* q.size() while another one writes them.                                  *)
(***************************************************************************)
RaceFree ==
    ~ \E r \in Readers, t \in Producers \cup Consumers :
          pc[r] = "read" /\ pc[t] \in {"push", "pop"}

=============================================================================
