--------------------------- MODULE HttpPoolProof ----------------------------
(***************************************************************************)
(* The theorems about HttpPool, for any number of handlers and any limits.  *)
(***************************************************************************)
EXTENDS HttpPool, FiniteSetTheorems, TLAPS

\* A handler that does not exist has no connection and no thread at work.
AbsentAreIdle ==
    \A h \in Handler \ pool :
        ~busy[h] /\ inbox[h] = 0 /\ ~open[h] /\ at[h] = "loop"

\* The inductive invariant.
IInv ==
    /\ TypeOK
    /\ AbsentAreIdle
    /\ OneConnection
    /\ NoneIsDeletedInUse
    /\ SilenceIsTimed

-----------------------------------------------------------------------------
(* Typing *)

\* Hanging up leaves flags and timers flags.
LEMMA DisconnectedType ==
    ASSUME TypeOK, NEW h \in Handler, Disconnected(h)
    PROVE  /\ open' \in [Handler -> BOOLEAN]
           /\ timer' \in [Handler -> BOOLEAN]
           /\ busy' \in [Handler -> BOOLEAN]
BY DEF TypeOK, Disconnected

\* A new handler fits into the pool.
LEMMA PoolGrows ==
    ASSUME TypeOK, NEW h \in Handler, AcceptNew(h)
    PROVE  /\ pool' \subseteq Handler /\ IsFiniteSet(pool')
           /\ Cardinality(pool') <= maxThreads
<1>1. IsFiniteSet(pool) /\ pool' = pool \cup {h} /\ h \notin pool
  BY DEF TypeOK, AcceptNew
<1>2. Cardinality(pool') = Cardinality(pool) + 1 /\ IsFiniteSet(pool')
  BY <1>1, FS_AddElement
<1>3. Cardinality(pool) \in Nat /\ Cardinality(pool) < maxThreads
  BY <1>1, FS_CardinalityType DEF AcceptNew, HasRoom
<1> QED
  BY <1>1, <1>2, <1>3, HttpPoolAssumption DEF TypeOK

\* A deleted handler leaves the pool within its limit.
LEMMA PoolShrinksBy ==
    ASSUME TypeOK, Deleted
    PROVE  /\ pool' \subseteq Handler /\ IsFiniteSet(pool')
           /\ Cardinality(pool') <= maxThreads
<1>1. IsFiniteSet(pool) /\ pool' \subseteq pool
  BY DEF TypeOK, Deleted
<1>2. /\ Cardinality(pool') <= Cardinality(pool) /\ IsFiniteSet(pool')
      /\ Cardinality(pool) \in Nat /\ Cardinality(pool') \in Nat
  BY <1>1, FS_Subset, FS_CardinalityType
<1> QED
  BY <1>1, <1>2, HttpPoolAssumption DEF TypeOK

\* Every step keeps the types.
LEMMA TypeNext == TypeOK /\ [Next]_vars => TypeOK'
<1> SUFFICES ASSUME TypeOK, [Next]_vars PROVE TypeOK'
  OBVIOUS
<1> USE HttpPoolAssumption
<1>1. ASSUME NEW h \in Handler, Accept(h) PROVE TypeOK'
  BY <1>1 DEF TypeOK, Accept, Assign
<1>2. ASSUME NEW h \in Handler, AcceptNew(h) PROVE TypeOK'
  <2>1. /\ pool' \subseteq Handler /\ IsFiniteSet(pool')
        /\ Cardinality(pool') <= maxThreads
    BY <1>2, PoolGrows
  <2>2. /\ busy' \in [Handler -> BOOLEAN] /\ inbox' \in [Handler -> Nat]
        /\ UNCHANGED <<main, doomed, mutex, open, timer, at>>
    BY <1>2 DEF TypeOK, AcceptNew, Assign
  <2> QED
    BY <2>1, <2>2 DEF TypeOK
<1>3. ASSUME NEW h \in Handler, Cleanup(h) PROVE TypeOK'
  BY <1>3 DEF TypeOK, Cleanup, handler
<1>4. CASE Deleted
  BY <1>4, PoolShrinksBy DEF TypeOK, Deleted
<1>5. CASE HeartBeatEnds \/ HeartBeatRemoves
  BY <1>5 DEF TypeOK, HeartBeatEnds, HeartBeatRemoves, handler
<1>6. ASSUME NEW h \in pool, HandleConnection(h) \/ HandleConnectionFails(h)
      PROVE  TypeOK'
  <2>1. /\ inbox[h] \in Nat /\ inbox[h] > 0
        /\ inbox' = [inbox EXCEPT ![h] = inbox[h] - 1]
    BY <1>6 DEF TypeOK, HandleConnection, HandleConnectionFails
  <2>2. inbox' \in [Handler -> Nat]
    BY <2>1 DEF TypeOK
  <2>3. /\ busy' \in [Handler -> BOOLEAN] /\ open' \in [Handler -> BOOLEAN]
        /\ timer' \in [Handler -> BOOLEAN]
        /\ UNCHANGED <<pool, main, doomed, mutex, at>>
    BY <1>6 DEF TypeOK, HandleConnection, HandleConnectionFails
  <2> QED
    BY <2>2, <2>3 DEF TypeOK
<1>7. ASSUME NEW h \in pool, Read(h) PROVE TypeOK'
  BY <1>7 DEF TypeOK, Read
<1>8. ASSUME NEW h \in pool, ReadAborts(h) \/ ReadTimeout(h) \/ ClientLeaves(h)
      PROVE  TypeOK'
  BY <1>8 DEF TypeOK, ReadAborts, ReadTimeout, ClientLeaves, Disconnected
<1>9. ASSUME NEW h \in pool, ServiceLocks(h) PROVE TypeOK'
  BY <1>9 DEF TypeOK, ServiceLocks
<1>10. ASSUME NEW h \in pool, ServiceUnlocks(h) PROVE TypeOK'
  BY <1>10 DEF TypeOK, ServiceUnlocks
<1>11. ASSUME NEW h \in pool, Closes(h) PROVE TypeOK'
  BY <1>11 DEF TypeOK, Closes, Disconnected
<1>12. ASSUME NEW h \in pool, KeepsAlive(h) \/ Returns(h) PROVE TypeOK'
  BY <1>12 DEF TypeOK, KeepsAlive, Returns
<1>13. CASE UNCHANGED vars
  BY <1>13 DEF TypeOK, vars
<1> QED
  BY <1>1, <1>2, <1>3, <1>4, <1>5, <1>6, <1>7, <1>8, <1>9, <1>10, <1>11,
     <1>12, <1>13 DEF Next, MainStep, HandlerStep

-----------------------------------------------------------------------------
(* The invariant *)

\* Every step keeps the invariant.
LEMMA InvNext == IInv /\ [Next]_vars => IInv'
<1> SUFFICES ASSUME IInv, [Next]_vars PROVE IInv'
  OBVIOUS
<1> USE HttpPoolAssumption
<1> DEFINE Rest == /\ AbsentAreIdle /\ OneConnection
                   /\ NoneIsDeletedInUse /\ SilenceIsTimed
<1>0. TypeOK /\ Rest /\ TypeOK'
  BY TypeNext DEF IInv
<1>1. ASSUME NEW h \in Handler, Accept(h) PROVE Rest'
  BY <1>0, <1>1 DEF TypeOK, Accept, Assign, Idle, AbsentAreIdle, OneConnection,
                    NoneIsDeletedInUse, SilenceIsTimed
<1>2. ASSUME NEW h \in Handler, AcceptNew(h) PROVE Rest'
  BY <1>0, <1>2 DEF TypeOK, AcceptNew, Assign, AbsentAreIdle, OneConnection,
                    NoneIsDeletedInUse, SilenceIsTimed
\* An idle handler has no connection, by OneConnection.
<1>3. ASSUME NEW h \in Handler, Cleanup(h) PROVE Rest'
  <2>1. h \in pool /\ inbox[h] = 0 /\ ~open[h]
    BY <1>0, <1>3 DEF TypeOK, Cleanup, Idle, OneConnection
  <2> QED
    BY <1>0, <1>3, <2>1 DEF Cleanup, handler, AbsentAreIdle, OneConnection,
                            NoneIsDeletedInUse, SilenceIsTimed
<1>4. ASSUME Deleted PROVE Rest'
  <2>1. doomed \in Handler /\ main' = "loop"
    BY <1>0, <1>4 DEF TypeOK, Deleted
  <2>2. AbsentAreIdle'
    BY <1>0, <1>4, <2>1 DEF TypeOK, Deleted, AbsentAreIdle
  <2>3. OneConnection'
    BY <1>0, <1>4, <2>1 DEF TypeOK, Deleted, OneConnection
  <2>4. SilenceIsTimed'
    BY <1>0, <1>4, <2>1 DEF TypeOK, Deleted, SilenceIsTimed
  <2> QED
    BY <2>1, <2>2, <2>3, <2>4 DEF NoneIsDeletedInUse
<1>5. ASSUME HeartBeatEnds \/ HeartBeatRemoves PROVE Rest'
  BY <1>0, <1>5 DEF HeartBeatEnds, HeartBeatRemoves, handler, AbsentAreIdle,
                    OneConnection, NoneIsDeletedInUse, SilenceIsTimed
\* The handler being deleted has nothing in its inbox.
<1>6. ASSUME NEW h \in pool, HandleConnection(h) \/ HandleConnectionFails(h)
      PROVE  Rest'
  BY <1>0, <1>6 DEF TypeOK, HandleConnection, HandleConnectionFails,
                    AbsentAreIdle, OneConnection, NoneIsDeletedInUse,
                    SilenceIsTimed
<1>7. ASSUME NEW h \in pool, Read(h) PROVE Rest'
  BY <1>0, <1>7 DEF TypeOK, Read, AbsentAreIdle, OneConnection,
                    NoneIsDeletedInUse, SilenceIsTimed
\* Only an open handler becomes idle, and its inbox is empty.
<1>8. ASSUME NEW h \in pool, ReadAborts(h) \/ ReadTimeout(h) \/ ClientLeaves(h)
      PROVE  Rest'
  BY <1>0, <1>8 DEF TypeOK, ReadAborts, ReadTimeout, ClientLeaves,
                    Disconnected, AbsentAreIdle, OneConnection,
                    NoneIsDeletedInUse, SilenceIsTimed
<1>9. ASSUME NEW h \in pool, ServiceLocks(h) \/ ServiceUnlocks(h) PROVE Rest'
  BY <1>0, <1>9 DEF TypeOK, ServiceLocks, ServiceUnlocks, AbsentAreIdle,
                    OneConnection, NoneIsDeletedInUse, SilenceIsTimed
<1>10. ASSUME NEW h \in pool, Closes(h) PROVE Rest'
  BY <1>0, <1>10 DEF TypeOK, Closes, Disconnected, AbsentAreIdle,
                     OneConnection, NoneIsDeletedInUse, SilenceIsTimed
<1>11. ASSUME NEW h \in pool, KeepsAlive(h) \/ Returns(h) PROVE Rest'
  BY <1>0, <1>11 DEF TypeOK, KeepsAlive, Returns, AbsentAreIdle,
                     OneConnection, NoneIsDeletedInUse, SilenceIsTimed
<1>12. ASSUME UNCHANGED vars PROVE Rest'
  BY <1>0, <1>12 DEF vars, AbsentAreIdle, OneConnection, NoneIsDeletedInUse,
                     SilenceIsTimed
<1> HIDE DEF Rest
<1>13. Rest'
  BY <1>1, <1>2, <1>3, <1>4, <1>5, <1>6, <1>7, <1>8, <1>9, <1>10, <1>11,
     <1>12 DEF Next, MainStep, HandlerStep
<1> QED
  BY <1>0, <1>13 DEF IInv, Rest

\* The invariant holds before any connection has come.
LEMMA InitInv == Init => IInv
<1> SUFFICES ASSUME Init PROVE IInv
  OBVIOUS
<1>1. TypeOK
  BY HttpPoolAssumption, FS_EmptySet DEF Init, TypeOK
<1> QED
  BY <1>1 DEF Init, IInv, AbsentAreIdle, OneConnection, NoneIsDeletedInUse,
              SilenceIsTimed

-----------------------------------------------------------------------------
(* The theorems *)

\* The pool keeps its limit, and the registry's mutex its owner in service().
THEOREM TypeCorrect == Spec => []TypeOK
<1>1. IInv => TypeOK
  BY DEF IInv
<1> QED
  BY <1>1, InitInv, InvNext, PTL DEF Spec

\* No handler is given a connection while it has one: the assertion holds.
THEOREM ConnectionsAreSingle == Spec => []OneConnection
<1>1. IInv => OneConnection
  BY DEF IInv
<1> QED
  BY <1>1, InitInv, InvNext, PTL DEF Spec

\* cleanup() deletes no handler that has a connection or will be given one.
THEOREM UsedAreKept == Spec => []NoneIsDeletedInUse
<1>1. IInv => NoneIsDeletedInUse
  BY DEF IInv
<1> QED
  BY <1>1, InitInv, InvNext, PTL DEF Spec

\* The read timer runs whenever a connection waits for a request.
THEOREM SilencesAreTimed == Spec => []SilenceIsTimed
<1>1. IInv => SilenceIsTimed
  BY DEF IInv
<1> QED
  BY <1>1, InitInv, InvNext, PTL DEF Spec

=============================================================================
