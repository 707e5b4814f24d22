------------------------------ MODULE Priority ------------------------------
(***************************************************************************)
(* The order of the tasks of a DGEBC worker and the bounded priority queue  *)
(* they are kept in: operator< of task.hh and the std::priority_queue        *)
(* member of MsgQue, with the limit en() puts on its size.  A task is an      *)
(* opaque value; only its score orders it.                                  *)
(***************************************************************************)
EXTENDS Integers, FiniteSets

CONSTANTS
    Task,      \* the tasks that may be queued
    NoTask,    \* the default-constructed Task: gene "", score -1
    Score,     \* the score of every task
    MaxSize    \* MsgQue::max_size, 1000000 in the code

ASSUME PriorityAssumption ==
    /\ NoTask \notin Task
    /\ Score \in [Task -> Int]
    /\ MaxSize \in Nat \ {0}

(***************************************************************************)
(* The tasks top() may return: operator< compares scores only, so that any  *)
(* of the tasks with the highest score may be on top of the heap.           *)
(***************************************************************************)
Top(S) == {t \in S : \A u \in S : Score[u] <= Score[t]}

(***************************************************************************)
(* What q.push(d) followed by the size check leaves: past max_size one      *)
(* pop() throws the BEST task out, the one just pushed if it is the best.   *)
(***************************************************************************)
PushedUnbounded(S, t) == {S \cup {t}}                   \* faulty variant: no size check

Pushed(S, t) ==
    LET P == S \cup {t}
    IN  IF Cardinality(P) > MaxSize THEN {P \ {x} : x \in Top(P)} ELSE {P}

=============================================================================
