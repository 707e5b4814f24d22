---------------------------- MODULE CountedQueue ----------------------------
(***************************************************************************)
(* What is left of a MsgQue when its tasks are not told apart: how many are *)
(* queued, and how many calls of de() may return.  The locked queue of      *)
(* MsgQue implements it, and so does each of the three queues of Node.      *)
(***************************************************************************)
EXTENDS Integers

CONSTANTS
    MaxSize,   \* MsgQue::max_size
    SemMax     \* SEM_VALUE_MAX

VARIABLES
    n,        \* the number of queued tasks
    credit    \* the calls of de() that may return

cqVars == <<n, credit>>

Init == n = 0 /\ credit = 0

\* A full queue evicts.  The credit does not know of it; a post that finds
\* the semaphore at its maximum adds none.
Put ==
    /\ n' = IF n < MaxSize THEN n + 1 ELSE n
    /\ credit' \in {credit + 1} \cup {k \in {credit} : k >= SemMax}

\* A call of de() returns, with a task if there is one.
Take ==
    /\ credit > 0
    /\ credit' = credit - 1
    /\ n' = IF n > 0 THEN n - 1 ELSE n

\* The same when the post comes some steps after the push.
LoseCredit ==
    /\ credit > SemMax
    /\ credit' = credit - 1
    /\ n' = n

Next == Put \/ Take \/ LoseCredit

Spec == Init /\ [][Next]_cqVars

=============================================================================
