----------------------------- MODULE TaskQueue ------------------------------
(***************************************************************************)
(* What MsgQue promises to the threads that call it, as atomic operations:  *)
(* en() puts a task and one credit in, de() gives one credit back and takes *)
(* the best task with it.  The queue is leaky: a put into a full queue      *)
(* loses the best task but not the credit, so that a credit may later find  *)
(* nothing and de() answer with the default task.                           *)
(***************************************************************************)
EXTENDS Priority

CONSTANTS
    Client,      \* the threads that call de()
    Increments,  \* the add_cnt arguments of en()
    TotMod,      \* the width of the int counter tot_cnt
    SemMax       \* the largest value of the semaphore (SEM_VALUE_MAX)

VARIABLES
    items,    \* the queued tasks
    credit,   \* the calls of de() that may return
    total,    \* what tot() counts
    got       \* the last task handed to each client

tqVars == <<items, credit, total, got>>

Init ==
    /\ items = {}
    /\ credit = 0
    /\ total = 0
    /\ got = [c \in Client |-> NoTask]

Put(t, n) ==
    /\ t \notin items
    /\ items' \in Pushed(items, t)
    /\ credit' = credit + 1
    /\ total' = (total + n) % TotMod
    /\ UNCHANGED got

\* A client with a credit takes a best task.
TakeTask(c, t) ==
    /\ credit > 0
    /\ t \in Top(items)
    /\ items' = items \ {t}
    /\ credit' = credit - 1
    /\ got' = [got EXCEPT ![c] = t]
    /\ UNCHANGED total

\* A client with a credit finds the queue empty: the phantom task.
TakeNothing(c) ==
    /\ credit > 0
    /\ items = {}
    /\ credit' = credit - 1
    /\ got' = [got EXCEPT ![c] = NoTask]
    /\ UNCHANGED <<items, total>>

\* sem_post at SEM_VALUE_MAX fails and nobody looks at its result.
LoseCredit ==
    /\ credit > SemMax
    /\ credit' = credit - 1
    /\ UNCHANGED <<items, total, got>>

Next ==
    \/ \E t \in Task, n \in Increments : Put(t, n)
    \/ \E c \in Client : \/ \E t \in items : TakeTask(c, t)
                         \/ TakeNothing(c)
    \/ LoseCredit

Spec == Init /\ [][Next]_tqVars

=============================================================================
