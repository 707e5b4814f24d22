---------------------------- MODULE MsgQueProof -----------------------------
(***************************************************************************)
(* The theorems about MsgQue, for every number of threads and every size.   *)
(*                                                                         *)
(* The argument is an inductive invariant.  The mutex makes the content of  *)
(* the queue stable between the test and the pop of de(); the semaphore is  *)
(* related to the content through Credit, which counts the value of the     *)
(* semaphore and the calls that are between it and the queue: there is a    *)
(* credit for every task, and exactly one as long as nothing was evicted.   *)
(***************************************************************************)
EXTENDS MsgQue, FiniteSetTheorems, TLAPS

MutexOK ==
    \A t \in Producers \cup Consumers : pc[t] \in Critical <=> mtx = t

CreditExact == ~evicted => Credit = Cardinality(q)

IInv ==
    /\ TypeOK
    /\ MutexOK
    /\ PopNonEmpty
    /\ NoLostWakeup
    /\ CreditExact
    /\ PhantomOnlyAfterOverflow

-----------------------------------------------------------------------------
(* What Pushed returns *)

\* A push keeps the queue within its bound and adds at most the new task;
\* one that evicts nothing adds exactly the new task.
LEMMA PushedProperties ==
    ASSUME NEW S \in SUBSET Task, IsFiniteSet(S), Cardinality(S) <= MaxSize,
           NEW t \in Task \ S,
           NEW P \in Pushed(S, t)
    PROVE  /\ P \subseteq Task
           /\ IsFiniteSet(P)
           /\ Cardinality(P) <= MaxSize
           /\ Cardinality(P) <= Cardinality(S) + 1
           /\ P = S \cup {t} => Cardinality(P) = Cardinality(S) + 1
<1> DEFINE A == S \cup {t}
<1>1. A \subseteq Task /\ IsFiniteSet(A) /\ Cardinality(A) = Cardinality(S) + 1
  BY FS_AddElement
<1>2. Cardinality(S) \in Nat /\ MaxSize \in Nat
  BY FS_CardinalityType, PriorityAssumption
<1>3. CASE Cardinality(A) > MaxSize
  <2>1. PICK x \in Top(A) : P = A \ {x}
    BY <1>3 DEF Pushed
  <2>2. x \in A
    BY DEF Top
  <2>3. IsFiniteSet(P) /\ Cardinality(P) = Cardinality(A) - 1
    BY <1>1, <2>1, <2>2, FS_RemoveElement
  <2> QED
    BY <1>1, <1>2, <2>1, <2>2, <2>3
<1>4. CASE ~ (Cardinality(A) > MaxSize)
  <2>1. P = A
    BY <1>4 DEF Pushed
  <2> QED
    BY <1>1, <1>2, <1>4, <2>1
<1> QED
  BY <1>3, <1>4

-----------------------------------------------------------------------------
(* How each step of a call moves the credit *)

\* The numbers Credit adds up are natural numbers.
LEMMA CountsOK ==
    ASSUME TypeOK
    PROVE  /\ IsFiniteSet(Passed) /\ IsFiniteSet(Pending)
           /\ Cardinality(Passed) \in Nat /\ Cardinality(Pending) \in Nat
           /\ sem \in Nat /\ Cardinality(q) \in Nat
           /\ Credit \in Nat
<1>1. Passed \subseteq Threads /\ Pending \subseteq Threads
  BY DEF Passed, Pending, Threads
<1>2. IsFiniteSet(Passed) /\ IsFiniteSet(Pending)
  BY <1>1, FS_Subset, MsgQueAssumption
<1>3. sem \in Nat
  BY MsgQueAssumption DEF TypeOK
<1> QED
  BY <1>2, <1>3, FS_CardinalityType DEF TypeOK, Credit

\* The threads of the two roles are different, and so is everyone else's pc.
LEMMA Others ==
    ASSUME TypeOK, NEW t \in Threads, NEW l, Goto(t, l)
    PROVE  /\ pc'[t] = l
           /\ \A u \in Threads : u # t => pc'[u] = pc[u]
BY DEF TypeOK, Goto

\* The conjuncts of TypeOK about pc.
PcOK ==
    /\ pc \in [Threads -> ProducerLabels \cup ConsumerLabels \cup {"read"}]
    /\ \A p \in Producers : pc[p] \in ProducerLabels
    /\ \A c \in Consumers : pc[c] \in ConsumerLabels
    /\ \A r \in Readers : pc[r] \in {"idle", "read"}

\* A thread that goes to a label of its role leaves pc well typed.
LEMMA PcStep ==
    ASSUME TypeOK, NEW t \in Threads, NEW l, Goto(t, l),
           \/ t \in Producers /\ l \in ProducerLabels
           \/ t \in Consumers /\ l \in ConsumerLabels
           \/ t \in Readers /\ l \in {"idle", "read"}
    PROVE  PcOK'
<1>1. PcOK
  BY DEF TypeOK, PcOK
<1>2. l \in ProducerLabels \cup ConsumerLabels \cup {"read"}
  BY DEF ProducerLabels
<1>3. pc' \in [Threads -> ProducerLabels \cup ConsumerLabels \cup {"read"}]
  BY <1>1, <1>2 DEF PcOK, Goto
<1>4. \A u \in Threads : pc'[u] = IF u = t THEN l ELSE pc[u]
  BY Others
<1> QED
  BY <1>1, <1>3, <1>4, MsgQueAssumption DEF PcOK, Threads

\* A step that enters or leaves neither label of Pending leaves it alone.
LEMMA PendingSame ==
    ASSUME TypeOK, NEW t \in Threads, NEW l, Goto(t, l),
           t \in Producers => (pc[t] \in {"unlock", "post"} <=> l \in {"unlock", "post"})
    PROVE  Pending' = Pending
BY Others DEF Pending, Threads

\* A step that enters or leaves no label of Passed leaves it alone.
LEMMA PassedSame ==
    ASSUME TypeOK, NEW t \in Threads, NEW l, Goto(t, l),
           t \in Consumers =>
               (pc[t] \in {"lock", "test", "pop"} <=> l \in {"lock", "test", "pop"})
    PROVE  Passed' = Passed
BY Others DEF Passed, Threads

\* en() gives its credit when it pushes; a post moves it to the semaphore,
\* or loses it if the semaphore is at its limit.
LEMMA EnCredit ==
    ASSUME TypeOK, NEW p \in Producers
    PROVE  /\ \A t \in Task : EnLock(p, t) => Credit' = Credit
           /\ \A n \in Increments : EnPush(p, n) => Credit' = Credit + 1
           /\ EnUnlock(p) => Credit' = Credit
           /\ EnPost(p) => /\ sem < SemMax => Credit' = Credit
                           /\ sem = SemMax => Credit > SemMax /\ Credit' = Credit - 1
<1> USE CountsOK
<1>0. p \in Threads /\ p \notin Consumers
  BY MsgQueAssumption DEF Threads
<1>1. ASSUME NEW t \in Task, EnLock(p, t) PROVE Credit' = Credit
  <2>1. Passed' = Passed /\ Pending' = Pending
    BY <1>0, <1>1, PassedSame, PendingSame DEF EnLock
  <2> QED
    BY <1>1, <2>1 DEF Credit, EnLock
<1>2. ASSUME NEW n \in Increments, EnPush(p, n) PROVE Credit' = Credit + 1
  <2>1. Passed' = Passed
    BY <1>0, <1>2, PassedSame DEF EnPush
  <2>2. p \notin Pending /\ Pending' = Pending \cup {p}
    BY <1>0, <1>2, Others DEF EnPush, Pending, Threads
  <2>3. Cardinality(Pending') = Cardinality(Pending) + 1
    BY <2>2, FS_AddElement
  <2> QED
    BY <1>2, <2>1, <2>3 DEF Credit, EnPush
<1>3. ASSUME EnUnlock(p) PROVE Credit' = Credit
  <2>1. Passed' = Passed /\ Pending' = Pending
    BY <1>0, <1>3, PassedSame, PendingSame DEF EnUnlock
  <2> QED
    BY <1>3, <2>1 DEF Credit, EnUnlock
<1>4. ASSUME EnPost(p)
      PROVE  /\ sem < SemMax => Credit' = Credit
             /\ sem = SemMax => Credit > SemMax /\ Credit' = Credit - 1
  <2>1. Passed' = Passed
    BY <1>0, <1>4, PassedSame DEF EnPost
  <2>2. p \in Pending /\ Pending' = Pending \ {p}
    BY <1>0, <1>4, Others DEF EnPost, Pending, Threads
  <2>3. Cardinality(Pending') = Cardinality(Pending) - 1
    BY <2>2, FS_RemoveElement
  <2>4. Cardinality(Pending) > 0
    BY <2>2, FS_EmptySet
  <2> QED
    BY <1>4, <2>1, <2>3, <2>4, MsgQueAssumption DEF Credit, EnPost
<1> QED
  BY <1>1, <1>2, <1>3, <1>4

\* de() uses its credit when it looks into the queue.
LEMMA DeCredit ==
    ASSUME TypeOK, NEW c \in Consumers
    PROVE  /\ DeWait(c) => Credit' = Credit
           /\ DeLock(c) => Credit' = Credit
           /\ DeTestFull(c) => Credit' = Credit
           /\ DeTestEmpty(c) => Credit > 0 /\ Credit' = Credit - 1
           /\ \A t \in Task : DePop(c, t) => Credit > 0 /\ Credit' = Credit - 1
           /\ DeUnlock(c) => Credit' = Credit
<1> USE CountsOK
<1>0. c \in Threads /\ c \notin Producers
  BY MsgQueAssumption DEF Threads
<1>1. ASSUME DeWait(c) PROVE Credit' = Credit
  <2>1. Pending' = Pending
    BY <1>0, <1>1, PendingSame DEF DeWait
  <2>2. c \notin Passed /\ Passed' = Passed \cup {c}
    BY <1>0, <1>1, Others DEF DeWait, Passed, Threads
  <2>3. Cardinality(Passed') = Cardinality(Passed) + 1
    BY <2>2, FS_AddElement
  <2> QED
    BY <1>1, <2>1, <2>3 DEF Credit, DeWait
<1>2. ASSUME DeLock(c) \/ DeTestFull(c) \/ DeUnlock(c) PROVE Credit' = Credit
  <2>1. Passed' = Passed /\ Pending' = Pending
    BY <1>0, <1>2, PassedSame, PendingSame DEF DeLock, DeTestFull, DeUnlock
  <2> QED
    BY <1>2, <2>1 DEF Credit, DeLock, DeTestFull, DeUnlock
<1>3. ASSUME DeTestEmpty(c) \/ \E t \in Task : DePop(c, t)
      PROVE  Credit > 0 /\ Credit' = Credit - 1
  <2>1. Pending' = Pending
    BY <1>0, <1>3, PendingSame DEF DeTestEmpty, DePop
  <2>2. c \in Passed /\ Passed' = Passed \ {c}
    BY <1>0, <1>3, Others DEF DeTestEmpty, DePop, Passed, Threads
  <2>3. Cardinality(Passed') = Cardinality(Passed) - 1
    BY <2>2, FS_RemoveElement
  <2>4. Cardinality(Passed) > 0
    BY <2>2, FS_EmptySet
  <2> QED
    BY <1>3, <2>1, <2>3, <2>4 DEF Credit, DeTestEmpty, DePop
<1> QED
  BY <1>1, <1>2, <1>3

\* The unlocked accessors move no credit.
LEMMA ReadCredit ==
    ASSUME TypeOK, NEW r \in Readers, ReadBegin(r) \/ ReadEnd(r)
    PROVE  Credit' = Credit
<1>1. r \in Threads /\ r \notin Producers /\ r \notin Consumers
  BY MsgQueAssumption DEF Threads
<1>2. Passed' = Passed /\ Pending' = Pending
  BY <1>1, PassedSame, PendingSame DEF ReadBegin, ReadEnd
<1> QED
  BY <1>2 DEF Credit, ReadBegin, ReadEnd

-----------------------------------------------------------------------------
(* Type correctness and mutual exclusion.  TypeOK alone is not inductive: a *)
(* producer's task must stay out of the queue while it is about to push,    *)
(* and only the mutex keeps the others from pushing it.                     *)

TypeMutex == TypeOK /\ MutexOK

\* The constructor leaves a well-typed queue with a free mutex.
LEMMA InitTypeMutex == Init => TypeMutex
<1> SUFFICES ASSUME Init PROVE TypeMutex
  OBVIOUS
<1>1. TypeOK
  <2>1. q \subseteq Task /\ IsFiniteSet(q) /\ Cardinality(q) <= MaxSize
    BY FS_EmptySet, PriorityAssumption DEF Init
  <2>2. PcOK
    BY DEF Init, PcOK, ProducerLabels, ConsumerLabels, Threads
  <2>3. sem \in 0..SemMax /\ tot \in 0..(TotMod - 1)
    BY MsgQueAssumption DEF Init
  <2>4. /\ arg \in [Producers -> Task \cup {NoTask}]
        /\ got \in [Consumers -> Task \cup {NoTask}]
        /\ \A p \in Producers : pc[p] # "push"
    BY DEF Init, Threads
  <2> QED
    BY <2>1, <2>2, <2>3, <2>4 DEF Init, TypeOK, PcOK
<1>2. MutexOK
  BY MsgQueAssumption DEF Init, MutexOK, Critical, Threads
<1> QED
  BY <1>1, <1>2 DEF TypeMutex

\* Every step of en() keeps the types and the mutex.
LEMMA EnTypeMutex ==
    ASSUME TypeMutex, NEW p \in Producers,
           (\E t \in Task : EnLock(p, t)) \/ EnStep(p)
    PROVE  TypeMutex'
<1> USE DEF TypeMutex
<1>0. p \in Threads /\ p \notin Consumers /\ p \notin Readers /\ p # NoThread
  BY MsgQueAssumption DEF Threads
<1>1. ASSUME NEW t \in Task, EnLock(p, t) PROVE TypeMutex'
  <2>1. PcOK'
    BY <1>0, <1>1, PcStep DEF EnLock, ProducerLabels
  <2>2. \A u \in Producers : u # p => pc'[u] # "push"
    BY <1>0, <1>1, Others, MsgQueAssumption DEF MutexOK, EnLock, Critical, Threads
  <2>3. TypeOK'
    <3>1. mtx' \in Threads \cup {NoThread} /\ arg' \in [Producers -> Task \cup {NoTask}]
      BY <1>0, <1>1 DEF TypeOK, EnLock
    <3>2. \A u \in Producers : pc'[u] = "push" => arg'[u] \in Task \ q'
      BY <1>1, <2>2 DEF TypeOK, EnLock
    <3> QED
      BY <1>1, <2>1, <3>1, <3>2 DEF TypeOK, PcOK, EnLock
  <2>4. MutexOK'
    BY <1>0, <1>1, Others, MsgQueAssumption DEF MutexOK, EnLock, Critical, Threads
  <2> QED
    BY <2>3, <2>4
<1>2. ASSUME NEW n \in Increments, EnPush(p, n) PROVE TypeMutex'
  <2>1. arg[p] \in Task \ q
    BY <1>2 DEF TypeOK, EnPush
  <2>2. q' \subseteq Task /\ IsFiniteSet(q') /\ Cardinality(q') <= MaxSize
    BY <1>2, <2>1, PushedProperties DEF TypeOK, EnPush
  <2>3. tot' \in 0..(TotMod - 1)
    BY <1>2, MsgQueAssumption DEF TypeOK, EnPush
  <2>4. \A u \in Producers : pc'[u] # "push"
    BY <1>0, <1>2, Others DEF MutexOK, EnPush, Critical, Threads
  <2>5. evicted' \in BOOLEAN
    BY <1>2 DEF TypeOK, EnPush
  <2>6. TypeOK'
    BY <1>0, <1>2, <2>2, <2>3, <2>4, <2>5 DEF TypeOK, EnPush, Goto, ProducerLabels
  <2>7. MutexOK'
    BY <1>0, <1>2, Others DEF MutexOK, EnPush, Critical, Threads
  <2> QED
    BY <2>6, <2>7
<1>3. ASSUME EnUnlock(p) PROVE TypeMutex'
  <2>1. TypeOK'
    BY <1>0, <1>3 DEF TypeOK, EnUnlock, Goto, ProducerLabels
  <2>2. MutexOK'
    BY <1>0, <1>3, Others, MsgQueAssumption DEF MutexOK, EnUnlock, Critical, Threads
  <2> QED
    BY <2>1, <2>2
<1>4. ASSUME EnPost(p) PROVE TypeMutex'
  <2>1. sem' \in 0..SemMax
    BY <1>4, MsgQueAssumption DEF TypeOK, EnPost
  <2>2. TypeOK'
    BY <1>0, <1>4, <2>1 DEF TypeOK, EnPost, Goto, ProducerLabels
  <2>3. MutexOK'
    BY <1>0, <1>4, Others DEF MutexOK, EnPost, Critical, Threads
  <2> QED
    BY <2>2, <2>3
<1> QED
  BY <1>1, <1>2, <1>3, <1>4 DEF EnStep

\* Every step of de() keeps the types and the mutex.
LEMMA DeTypeMutex ==
    ASSUME TypeMutex, NEW c \in Consumers, DeStep(c)
    PROVE  TypeMutex'
<1> USE DEF TypeMutex
<1>0. c \in Threads /\ c \notin Producers /\ c \notin Readers /\ c # NoThread
  BY MsgQueAssumption DEF Threads
<1>1. ASSUME DeWait(c) PROVE TypeMutex'
  <2>1. sem' \in 0..SemMax
    BY <1>1, MsgQueAssumption DEF TypeOK, DeWait
  <2>2. TypeOK'
    BY <1>0, <1>1, <2>1 DEF TypeOK, DeWait, Goto, ConsumerLabels
  <2>3. MutexOK'
    BY <1>0, <1>1, Others DEF MutexOK, DeWait, Critical, Threads
  <2> QED
    BY <2>2, <2>3
<1>2. ASSUME DeLock(c) PROVE TypeMutex'
  <2>1. TypeOK'
    <3>1. PcOK'
      BY <1>0, <1>2, PcStep DEF DeLock, ConsumerLabels
    <3>2. \A p \in Producers : pc'[p] = "push" => arg'[p] \in Task \ q'
      BY <1>0, <1>2, Others DEF TypeOK, DeLock, Threads
    <3> QED
      BY <1>0, <1>2, <3>1, <3>2 DEF TypeOK, PcOK, DeLock
  <2>2. MutexOK'
    BY <1>0, <1>2, Others, MsgQueAssumption DEF MutexOK, DeLock, Critical, Threads
  <2> QED
    BY <2>1, <2>2
<1>3. ASSUME DeTestFull(c) \/ DeTestEmpty(c) PROVE TypeMutex'
  <2>1. TypeOK'
    <3>1. PcOK'
      BY <1>0, <1>3, PcStep DEF DeTestFull, DeTestEmpty, ConsumerLabels
    <3>2. \A p \in Producers : pc'[p] = "push" => arg'[p] \in Task \ q'
      BY <1>0, <1>3, Others DEF TypeOK, DeTestFull, DeTestEmpty, Threads
    <3>3. CASE DeTestFull(c)
      BY <3>1, <3>2, <3>3 DEF TypeOK, PcOK, DeTestFull
    <3>4. CASE DeTestEmpty(c)
      BY <3>1, <3>2, <3>4 DEF TypeOK, PcOK, DeTestEmpty
    <3> QED
      BY <1>3, <3>3, <3>4
  <2>2. MutexOK'
    BY <1>0, <1>3, Others DEF MutexOK, DeTestFull, DeTestEmpty, Critical, Threads
  <2> QED
    BY <2>1, <2>2
<1>4. ASSUME NEW t \in Task, DePop(c, t) PROVE TypeMutex'
  <2>0. q' = q \ {t} /\ q' \subseteq q /\ IsFiniteSet(q)
    BY <1>4 DEF DePop, TypeOK
  <2>a. IsFiniteSet(q') /\ Cardinality(q') <= Cardinality(q)
    BY <2>0, FS_Subset
  <2>1. IsFiniteSet(q') /\ Cardinality(q') <= MaxSize
    BY <2>0, <2>a, FS_CardinalityType, PriorityAssumption DEF TypeOK
  <2>2. TypeOK'
    BY <1>0, <1>4, <2>1 DEF TypeOK, DePop, Goto, ConsumerLabels
  <2>3. MutexOK'
    BY <1>0, <1>4, Others DEF MutexOK, DePop, Critical, Threads
  <2> QED
    BY <2>2, <2>3
<1>5. ASSUME DeUnlock(c) PROVE TypeMutex'
  <2>1. TypeOK'
    BY <1>0, <1>5 DEF TypeOK, DeUnlock, Goto, ConsumerLabels
  <2>2. MutexOK'
    BY <1>0, <1>5, Others, MsgQueAssumption DEF MutexOK, DeUnlock, Critical, Threads
  <2> QED
    BY <2>1, <2>2
<1> QED
  BY <1>1, <1>2, <1>3, <1>4, <1>5 DEF DeStep

\* The unlocked accessors keep the types and the mutex.
LEMMA ReadTypeMutex ==
    ASSUME TypeMutex, NEW r \in Readers, ReadBegin(r) \/ ReadEnd(r)
    PROVE  TypeMutex'
<1> USE DEF TypeMutex
<1>0. r \in Threads /\ r \notin Producers /\ r \notin Consumers
  BY MsgQueAssumption DEF Threads
<1>1. TypeOK'
  <2>1. PcOK'
    BY <1>0, PcStep DEF ReadBegin, ReadEnd
  <2> QED
    BY <1>0, <2>1, Others DEF TypeOK, PcOK, ReadBegin, ReadEnd, Threads
<1>2. MutexOK'
  BY <1>0, Others DEF MutexOK, ReadBegin, ReadEnd, Critical, Threads
<1> QED
  BY <1>1, <1>2

-----------------------------------------------------------------------------
(* The inductive invariant *)

\* The invariant holds of the queue the constructor leaves.
LEMMA InitIInv == Init => IInv
<1> SUFFICES ASSUME Init PROVE IInv
  OBVIOUS
<1>1. TypeOK /\ MutexOK
  BY InitTypeMutex DEF TypeMutex
<1>2. Cardinality(q) = 0 /\ Passed = {} /\ Pending = {}
  BY FS_EmptySet DEF Init, Passed, Pending, Threads
<1>3. Credit = 0
  BY <1>2, FS_EmptySet DEF Init, Credit
<1>4. PopNonEmpty
  BY DEF Init, PopNonEmpty, Threads
<1>5. NoLostWakeup /\ CreditExact /\ PhantomOnlyAfterOverflow
  BY <1>2, <1>3 DEF Init, NoLostWakeup, CreditExact, PhantomOnlyAfterOverflow
<1> QED
  BY <1>1, <1>4, <1>5 DEF IInv

\* Every step of en() preserves the invariant.
LEMMA EnIInv ==
    ASSUME IInv, NEW p \in Producers,
           (\E t \in Task : EnLock(p, t)) \/ EnStep(p)
    PROVE  IInv'
<1> USE CountsOK DEF IInv
<1>0. p \in Threads /\ p \notin Consumers
  BY MsgQueAssumption DEF Threads
<1>1. TypeOK' /\ MutexOK'
  BY EnTypeMutex DEF TypeMutex
<1>2. SemMax \in Nat /\ MaxSize \in Nat /\ SemMax >= MaxSize /\ Cardinality(q) <= MaxSize
  BY MsgQueAssumption, PriorityAssumption DEF TypeOK
<1>3. CASE (\E t \in Task : EnLock(p, t)) \/ EnUnlock(p)
  <2>1. Credit' = Credit
    BY <1>3, EnCredit
  <2>2. UNCHANGED <<q, evicted, phantom>>
    BY <1>3 DEF EnLock, EnUnlock
  <2>3. PopNonEmpty'
    BY <1>0, <1>3, <2>2, Others DEF PopNonEmpty, EnLock, EnUnlock, Threads
  <2> QED
    BY <1>1, <2>1, <2>2, <2>3 DEF NoLostWakeup, CreditExact, PhantomOnlyAfterOverflow
<1>4. ASSUME NEW n \in Increments, EnPush(p, n) PROVE IInv'
  <2>1. Credit' = Credit + 1
    BY <1>4, EnCredit
  <2>2. q \in SUBSET Task /\ arg[p] \in Task \ q /\ q' \in Pushed(q, arg[p])
    BY <1>4 DEF EnPush, TypeOK
  <2>3. /\ Cardinality(q') <= Cardinality(q) + 1
        /\ q' = q \cup {arg[p]} => Cardinality(q') = Cardinality(q) + 1
        /\ Cardinality(q') \in Nat
    BY <1>1, <2>2, PushedProperties, FS_CardinalityType DEF TypeOK
  <2>4. phantom' = phantom /\ (~evicted' => ~evicted /\ q' = q \cup {arg[p]})
        /\ (evicted => evicted')
    BY <1>4 DEF EnPush
  <2>5. NoLostWakeup'
    BY <2>1, <2>3 DEF NoLostWakeup
  <2>6. CreditExact'
    BY <2>1, <2>3, <2>4 DEF CreditExact
  <2>7. PhantomOnlyAfterOverflow'
    BY <2>4 DEF PhantomOnlyAfterOverflow
  <2>8. PopNonEmpty'
    BY <1>0, <1>4, Others DEF PopNonEmpty, MutexOK, Critical, EnPush, Threads
  <2> QED
    BY <1>1, <2>5, <2>6, <2>7, <2>8
<1>5. CASE EnPost(p)
  <2>1. UNCHANGED <<q, evicted, phantom>>
    BY <1>5 DEF EnPost
  <2>2. /\ sem < SemMax => Credit' = Credit
        /\ sem = SemMax => Credit > SemMax /\ Credit' = Credit - 1
    BY <1>5, EnCredit
  <2>3. sem <= SemMax
    BY <1>2 DEF TypeOK
  <2>4. NoLostWakeup'
    BY <1>2, <2>1, <2>2, <2>3 DEF NoLostWakeup
  <2>5. CreditExact'
    BY <1>2, <2>1, <2>2, <2>3 DEF CreditExact
  <2>6. PopNonEmpty' /\ PhantomOnlyAfterOverflow'
    BY <1>0, <1>5, <2>1, Others DEF PopNonEmpty, PhantomOnlyAfterOverflow, EnPost, Threads
  <2> QED
    BY <1>1, <2>4, <2>5, <2>6
<1> QED
  BY <1>3, <1>4, <1>5 DEF EnStep

\* Every step of de() preserves the invariant: above all, the one that
\* finds the queue empty can only be reached with a credit an eviction left.
LEMMA DeIInv ==
    ASSUME IInv, NEW c \in Consumers, DeStep(c)
    PROVE  IInv'
<1> USE CountsOK DEF IInv
<1>0. c \in Threads /\ Consumers \subseteq Threads
  BY DEF Threads
<1>1. TypeOK' /\ MutexOK'
  BY DeTypeMutex DEF TypeMutex
<1>2. CASE DeWait(c) \/ DeLock(c) \/ DeTestFull(c) \/ DeUnlock(c)
  <2>1. Credit' = Credit
    BY <1>2, DeCredit
  <2>2. UNCHANGED <<q, evicted, phantom>>
    BY <1>2 DEF DeWait, DeLock, DeTestFull, DeUnlock
  <2>3. PopNonEmpty'
    BY <1>0, <1>2, <2>2, Others DEF PopNonEmpty, DeWait, DeLock, DeTestFull, DeUnlock
  <2> QED
    BY <1>1, <2>1, <2>2, <2>3 DEF NoLostWakeup, CreditExact, PhantomOnlyAfterOverflow
<1>3. CASE DeTestEmpty(c)
  <2>1. Credit > 0 /\ Credit' = Credit - 1
    BY <1>3, DeCredit
  <2>2. q = {} /\ q' = q /\ evicted' = evicted /\ Cardinality(q) = 0
    BY <1>3, FS_EmptySet DEF DeTestEmpty
  <2>3. evicted
    BY <2>1, <2>2 DEF CreditExact
  <2>4. PopNonEmpty'
    BY <1>0, <1>3, <2>2, Others DEF PopNonEmpty, DeTestEmpty
  <2>5. NoLostWakeup'
    BY <2>1, <2>2 DEF NoLostWakeup
  <2>6. CreditExact' /\ PhantomOnlyAfterOverflow'
    BY <2>2, <2>3 DEF CreditExact, PhantomOnlyAfterOverflow
  <2> QED
    BY <1>1, <2>4, <2>5, <2>6
<1>4. ASSUME NEW t \in Task, DePop(c, t) PROVE IInv'
  <2>1. Credit > 0 /\ Credit' = Credit - 1
    BY <1>4, DeCredit
  <2>2. t \in q /\ q' = q \ {t} /\ UNCHANGED <<evicted, phantom>>
    BY <1>4 DEF DePop, Top
  <2>3. Cardinality(q') = Cardinality(q) - 1
    BY <2>2, FS_RemoveElement DEF TypeOK
  <2>4. PopNonEmpty'
    BY <1>0, <1>4, Others DEF PopNonEmpty, MutexOK, Critical, DePop
  <2>5. NoLostWakeup'
    BY <2>1, <2>3 DEF NoLostWakeup
  <2>6. CreditExact' /\ PhantomOnlyAfterOverflow'
    BY <2>1, <2>2, <2>3 DEF CreditExact, PhantomOnlyAfterOverflow
  <2> QED
    BY <1>1, <2>4, <2>5, <2>6
<1> QED
  BY <1>2, <1>3, <1>4 DEF DeStep

\* The unlocked accessors preserve the invariant.
LEMMA ReadIInv ==
    ASSUME IInv, NEW r \in Readers, ReadBegin(r) \/ ReadEnd(r)
    PROVE  IInv'
<1> USE DEF IInv
<1>0. r \in Threads /\ r \notin Consumers /\ Consumers \subseteq Threads
  BY MsgQueAssumption DEF Threads
<1>1. TypeOK' /\ MutexOK'
  BY ReadTypeMutex DEF TypeMutex
<1>2. Credit' = Credit
  BY ReadCredit
<1>3. UNCHANGED <<q, evicted, phantom>>
  BY DEF ReadBegin, ReadEnd
<1>4. PopNonEmpty'
  BY <1>0, <1>3, Others DEF PopNonEmpty, ReadBegin, ReadEnd
<1> QED
  BY <1>1, <1>2, <1>3, <1>4 DEF NoLostWakeup, CreditExact, PhantomOnlyAfterOverflow

\* The invariant is inductive.
LEMMA NextIInv == IInv /\ [Next]_vars => IInv'
<1> SUFFICES ASSUME IInv, [Next]_vars PROVE IInv'
  OBVIOUS
<1>1. CASE Next
  BY <1>1, EnIInv, DeIInv, ReadIInv DEF Next
<1>2. CASE UNCHANGED vars
  <2>1. TypeOK' /\ MutexOK' /\ PopNonEmpty' /\ Credit' = Credit
    BY <1>2 DEF vars, IInv, TypeOK, MutexOK, PopNonEmpty, Credit, Passed, Pending
  <2> QED
    BY <1>2, <2>1 DEF vars, IInv, NoLostWakeup, CreditExact, PhantomOnlyAfterOverflow
<1> QED
  BY <1>1, <1>2

\* The inductive invariant holds in every reachable state of msgque.hh.
THEOREM Invariance == Spec => []IInv
BY InitIInv, NextIInv, PTL DEF Spec

-----------------------------------------------------------------------------
(* The invariants the runs check *)

\* Every variable stays within its type, and the queue within max_size,
\* whatever the threads of msgque.hh do.
THEOREM TypeCorrect == Spec => []TypeOK
<1>1. IInv => TypeOK
  BY DEF IInv
<1> QED
  BY <1>1, Invariance, PTL

\* No thread pops an empty priority queue in de().
THEOREM NeverPopsEmpty == Spec => []PopNonEmpty
<1>1. IInv => PopNonEmpty
  BY DEF IInv
<1> QED
  BY <1>1, Invariance, PTL

\* en() and de() never leave a task queued without a credit to claim it.
THEOREM WakeupsAreKept == Spec => []NoLostWakeup
<1>1. IInv => NoLostWakeup
  BY DEF IInv
<1> QED
  BY <1>1, Invariance, PTL

\* de() answers with the default task only after en() evicted a task.
THEOREM PhantomsFollowEvictions == Spec => []PhantomOnlyAfterOverflow
<1>1. IInv => PhantomOnlyAfterOverflow
  BY DEF IInv
<1> QED
  BY <1>1, Invariance, PTL

-----------------------------------------------------------------------------
(* MsgQue implements TaskQueue *)

\* The operators of Priority mean the same on both sides of the refinement.
LEMMA PushedInstance ==
    ASSUME NEW S, NEW t
    PROVE  Queue!Pushed(S, t) = Pushed(S, t)
<1> DEFINE P == S \cup {t}
<1>1. Queue!Cardinality(P) = Cardinality(P)
  BY Zenon DEF Queue!Cardinality, Cardinality
<1>2. Queue!Top(P) = Top(P)
  BY DEF Queue!Top, Top
<1>3. Pushed(S, t) =
          IF Cardinality(P) > MaxSize THEN {P \ {x} : x \in Top(P)} ELSE {P}
  BY DEF Pushed
<1>4. Queue!Pushed(S, t) =
          IF Cardinality(P) > MaxSize THEN {P \ {x} : x \in Queue!Top(P)} ELSE {P}
  BY <1>1 DEF Queue!Pushed
<1> HIDE DEF P
<1> QED
  BY <1>2, <1>3, <1>4

\* Both queues start empty, without a credit.
LEMMA InitRefines == Init => Queue!Init
<1> SUFFICES ASSUME Init PROVE Queue!Init
  OBVIOUS
<1>1. Passed = {} /\ Pending = {}
  BY DEF Init, Passed, Pending, Threads
<1>2. Credit = 0
  BY <1>1, FS_EmptySet DEF Init, Credit
<1> QED
  BY <1>2 DEF Init, Queue!Init

\* en() takes effect when it pushes; a post at SEM_VALUE_MAX loses a credit.
LEMMA EnRefines ==
    ASSUME IInv, NEW p \in Producers,
           (\E t \in Task : EnLock(p, t)) \/ EnStep(p)
    PROVE  [Queue!Next]_(Queue!tqVars)
<1> USE CountsOK DEF IInv
<1>1. CASE (\E t \in Task : EnLock(p, t)) \/ EnUnlock(p)
  <2>1. Credit' = Credit
    BY <1>1, EnCredit
  <2> QED
    BY <1>1, <2>1 DEF EnLock, EnUnlock, Queue!tqVars
<1>2. ASSUME NEW n \in Increments, EnPush(p, n) PROVE Queue!Next
  <2>1. Credit' = Credit + 1
    BY <1>2, EnCredit
  <2>2. arg[p] \in Task \ q
    BY <1>2 DEF EnPush, TypeOK
  <2>3. q' \in Queue!Pushed(q, arg[p])
    BY <1>2, PushedInstance DEF EnPush
  <2>4. Queue!Put(arg[p], n)
    BY <1>2, <2>1, <2>2, <2>3 DEF EnPush, Queue!Put
  <2> QED
    BY <2>2, <2>4 DEF Queue!Next
<1>3. CASE EnPost(p)
  <2>1. CASE sem < SemMax
    BY <1>3, <2>1, EnCredit DEF EnPost, Queue!tqVars
  <2>2. CASE sem = SemMax
    <3>1. Queue!LoseCredit
      BY <1>3, <2>2, EnCredit DEF EnPost, Queue!LoseCredit
    <3> QED
      BY <3>1 DEF Queue!Next
  <2> QED
    BY <2>1, <2>2, MsgQueAssumption DEF TypeOK
<1> QED
  BY <1>1, <1>2, <1>3 DEF EnStep

\* de() takes effect when it pops or finds the queue empty.
LEMMA DeRefines ==
    ASSUME IInv, NEW c \in Consumers, DeStep(c)
    PROVE  [Queue!Next]_(Queue!tqVars)
<1> USE CountsOK DEF IInv
<1>1. CASE DeWait(c) \/ DeLock(c) \/ DeTestFull(c) \/ DeUnlock(c)
  <2>1. Credit' = Credit
    BY <1>1, DeCredit
  <2> QED
    BY <1>1, <2>1 DEF DeWait, DeLock, DeTestFull, DeUnlock, Queue!tqVars
<1>2. CASE DeTestEmpty(c)
  <2>1. Queue!TakeNothing(c)
    BY <1>2, DeCredit DEF DeTestEmpty, Queue!TakeNothing
  <2> QED
    BY <2>1 DEF Queue!Next
<1>3. ASSUME NEW t \in Task, DePop(c, t) PROVE Queue!Next
  <2>1. t \in q /\ t \in Queue!Top(q)
    BY <1>3 DEF DePop, Top, Queue!Top
  <2>2. Queue!TakeTask(c, t)
    BY <1>3, <2>1, DeCredit DEF DePop, Queue!TakeTask
  <2> QED
    BY <2>1, <2>2 DEF Queue!Next
<1> QED
  BY <1>1, <1>2, <1>3 DEF DeStep

\* Every step of MsgQue is a step of TaskQueue or changes none of its variables.
LEMMA NextRefines == IInv /\ [Next]_vars => [Queue!Next]_(Queue!tqVars)
<1> SUFFICES ASSUME IInv, [Next]_vars PROVE [Queue!Next]_(Queue!tqVars)
  OBVIOUS
<1>1. ASSUME NEW r \in Readers, ReadBegin(r) \/ ReadEnd(r)
      PROVE  UNCHANGED Queue!tqVars
  <2>1. Credit' = Credit
    BY <1>1, ReadCredit DEF IInv
  <2> QED
    BY <1>1, <2>1 DEF ReadBegin, ReadEnd, Queue!tqVars
<1>2. CASE Next
  BY <1>1, <1>2, EnRefines, DeRefines DEF Next
<1>3. CASE UNCHANGED vars
  BY <1>3 DEF vars, Queue!tqVars, Credit, Passed, Pending
<1> QED
  BY <1>2, <1>3

\* The queue of msgque.hh, with its lock and its semaphore, implements the
\* atomic leaky queue of TaskQueue.
THEOREM Refinement == Spec => ImplementsQueue
BY InitRefines, NextRefines, Invariance, PTL DEF Spec, ImplementsQueue, Queue!Spec

-----------------------------------------------------------------------------
(* The counts of MsgQue *)

Counted == INSTANCE CountedQueue WITH n <- Cardinality(q), credit <- Credit
QueueIsCounted == Counted!Spec

\* A push adds a task to the count, unless the queue is full.
LEMMA PushedCount ==
    ASSUME NEW S \in SUBSET Task, IsFiniteSet(S), Cardinality(S) <= MaxSize,
           NEW t \in Task \ S,
           NEW P \in Pushed(S, t)
    PROVE  Cardinality(P) = IF Cardinality(S) < MaxSize THEN Cardinality(S) + 1
                            ELSE Cardinality(S)
<1> DEFINE A == S \cup {t}
<1>1. IsFiniteSet(A) /\ Cardinality(A) = Cardinality(S) + 1
  BY FS_AddElement
<1>2. Cardinality(S) \in Nat /\ MaxSize \in Nat
  BY FS_CardinalityType, PriorityAssumption
<1>3. CASE Cardinality(A) > MaxSize
  <2>1. PICK x \in Top(A) : P = A \ {x}
    BY <1>3 DEF Pushed
  <2>2. Cardinality(P) = Cardinality(A) - 1
    BY <1>1, <2>1, FS_RemoveElement DEF Top
  <2> QED
    BY <1>1, <1>2, <1>3, <2>2
<1>4. CASE ~ (Cardinality(A) > MaxSize)
  <2>1. P = A
    BY <1>4 DEF Pushed
  <2> QED
    BY <1>1, <1>2, <1>4, <2>1
<1> QED
  BY <1>3, <1>4

\* Every step of TaskQueue is one of its counts, in the states of MsgQue.
LEMMA CountedStep ==
    ASSUME IInv, [Queue!Next]_(Queue!tqVars)
    PROVE  [Counted!Next]_(Counted!cqVars)
<1>1. /\ q \in SUBSET Task /\ IsFiniteSet(q) /\ Cardinality(q) <= MaxSize
      /\ Cardinality(q) \in Nat /\ Credit \in Nat /\ Cardinality({}) = 0
  BY CountsOK, FS_EmptySet DEF IInv, TypeOK
<1>2. ASSUME NEW t \in Task, NEW i \in Increments, Queue!Put(t, i)
      PROVE  Counted!Put
  <2>1. t \in Task \ q /\ q' \in Pushed(q, t) /\ Credit' = Credit + 1
    BY <1>2, PushedInstance DEF Queue!Put
  <2>2. Cardinality(q)' = IF Cardinality(q) < MaxSize THEN Cardinality(q) + 1
                          ELSE Cardinality(q)
    BY <1>1, <2>1, PushedCount
  <2> QED
    BY <2>1, <2>2 DEF Counted!Put
<1>3. ASSUME NEW p \in Consumers, NEW t \in q, Queue!TakeTask(p, t)
      PROVE  Counted!Take
  <2>1. Credit > 0 /\ Credit' = Credit - 1 /\ q' = q \ {t}
    BY <1>3 DEF Queue!TakeTask
  <2>2. Cardinality(q)' = Cardinality(q) - 1 /\ Cardinality(q)' \in Nat
    BY <1>1, <2>1, FS_RemoveElement, FS_CardinalityType
  <2> QED
    BY <1>1, <2>1, <2>2 DEF Counted!Take
<1>4. ASSUME NEW p \in Consumers, Queue!TakeNothing(p)
      PROVE  Counted!Take
  BY <1>1, <1>4 DEF Queue!TakeNothing, Counted!Take
<1>5. CASE Queue!LoseCredit
  BY <1>5 DEF Queue!LoseCredit, Counted!LoseCredit, Counted!Next
<1>6. CASE UNCHANGED Queue!tqVars
  BY <1>6 DEF Queue!tqVars, Counted!cqVars
<1> QED
  BY <1>2, <1>3, <1>4, <1>5, <1>6 DEF Queue!Next, Counted!Next

\* The queue of msgque.hh counts like CountedQueue, evictions and lost credits
\* included: it is what a program that does not look at the tasks sees of it.
THEOREM Counting == Spec => QueueIsCounted
<1>1. Init => Counted!Init
  BY InitRefines, FS_EmptySet DEF Queue!Init, Counted!Init
<1>2. IInv /\ [Next]_vars => [Counted!Next]_(Counted!cqVars)
  BY NextRefines, CountedStep
<1> QED
  BY <1>1, <1>2, Invariance, PTL DEF Spec, QueueIsCounted, Counted!Spec

=============================================================================
