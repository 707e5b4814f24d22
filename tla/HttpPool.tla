------------------------------ MODULE HttpPool ------------------------------
(***************************************************************************)
(* How the server serves connections (QtWebApp, httpserver/): the main      *)
(* thread accepts them, hands each to a handler of a pool that grows and    *)
(* shrinks, and runs the heartbeat; every handler has a thread with an      *)
(* event loop, a socket, a timer, and a flag that says it is in use.        *)
(*                                                                         *)
(* Clients and Qt's sockets are the environment.  The order of the pool's   *)
(* list is left out: any idle handler may be the first.  Only the main      *)
(* thread looks for idle handlers, and while it does their flags can only   *)
(* fall, so that it reads them in one step.  Of Server::service only the    *)
(* mutex of the registry is kept.                                          *)
(***************************************************************************)
EXTENDS Naturals, FiniteSets

CONSTANTS
    Handler,     \* the handler objects, one of which a new one becomes
    minThreads,  \* the idle handlers that cleanup() keeps, 4
    maxThreads,  \* 100
    Nobody

ASSUME HttpPoolAssumption ==
    /\ Nobody \notin Handler
    /\ minThreads \in Nat
    /\ maxThreads \in Nat

VARIABLES
    pool,      \* the handlers that exist
    main,      \* where the main thread is
    doomed,    \* the handler it is deleting
    mutex,     \* the owner of the registry's mutex
    busy,      \* the flag of each handler
    inbox,     \* its queued calls of handleConnection
    open,      \* its socket has a connection
    timer,     \* its readTimer runs
    at         \* where its thread is

handler == <<busy, inbox, open, timer, at>>
vars    == <<pool, main, doomed, mutex, busy, inbox, open, timer, at>>

Init ==
    /\ pool = {}
    /\ main = "loop" /\ doomed = Nobody
    /\ mutex = Nobody
    /\ busy = [h \in Handler |-> FALSE]
    /\ inbox = [h \in Handler |-> 0]
    /\ open = [h \in Handler |-> FALSE]
    /\ timer = [h \in Handler |-> FALSE]
    /\ at = [h \in Handler |-> "loop"]

-----------------------------------------------------------------------------
(* The main thread *)

\* faulty variant: a handler is idle when its socket is
IdleSocket == {h \in pool : ~open[h]}

Idle == {h \in pool : ~busy[h]}

\* getConnectionHandler() has a handler, whose thread gets the connection.
Assign(h) ==
    /\ busy' = [busy EXCEPT ![h] = TRUE]
    /\ inbox' = [inbox EXCEPT ![h] = @ + 1]

\* incomingConnection() with an idle handler
Accept(h) ==
    /\ main = "loop"
    /\ h \in Idle
    /\ Assign(h)
    /\ UNCHANGED <<pool, main, doomed, mutex, open, timer, at>>

HasRoom == Cardinality(pool) < maxThreads

\* incomingConnection() with a new handler.  With neither, the connection is
\* refused and nothing changes here.
AcceptNew(h) ==
    /\ main = "loop"
    /\ Idle = {} /\ HasRoom
    /\ h \in Handler \ pool
    /\ pool' = pool \cup {h}
    /\ Assign(h)
    /\ UNCHANGED <<main, doomed, mutex, open, timer, at>>

\* faulty variant: one idle handler more is kept
KeepsOneMore(S) == Cardinality(S) <= minThreads + 1

Keeps(S) == Cardinality(S) <= minThreads

\* cleanup() deletes one idle handler: quit(), and then wait() for its thread.
Cleanup(h) ==
    /\ main = "loop"
    /\ h \in Idle /\ ~Keeps(Idle)
    /\ main' = "delete" /\ doomed' = h
    /\ UNCHANGED <<pool, mutex, handler>>

\* The thread has left its event loop, closed its socket and stopped its timer.
Deleted ==
    /\ main = "delete" /\ at[doomed] = "loop"
    /\ main' = "loop" /\ doomed' = Nobody
    /\ pool' = pool \ {doomed}
    /\ busy' = [busy EXCEPT ![doomed] = FALSE]
    /\ inbox' = [inbox EXCEPT ![doomed] = 0]
    /\ open' = [open EXCEPT ![doomed] = FALSE]
    /\ timer' = [timer EXCEPT ![doomed] = FALSE]
    /\ UNCHANGED <<mutex, at>>

\* The end of a pass of heartBeat(), which the main thread runs.
HeartBeatEnds ==
    /\ main = "loop"
    /\ main' = "lock"
    /\ UNCHANGED <<pool, doomed, mutex, handler>>

HeartBeatRemoves ==
    /\ main = "lock" /\ mutex = Nobody
    /\ main' = "loop"
    /\ UNCHANGED <<pool, doomed, mutex, handler>>

-----------------------------------------------------------------------------
(* The thread of a handler *)

\* The signal disconnected(), from a socket that was open, calls the slot at
\* once: the handler is idle again, whatever its thread goes on with.
Disconnected(h) ==
    /\ open' = [open EXCEPT ![h] = FALSE]
    /\ timer' = [timer EXCEPT ![h] = FALSE]
    /\ busy' = [busy EXCEPT ![h] = FALSE]

HandleConnection(h) ==
    /\ at[h] = "loop" /\ inbox[h] > 0
    /\ inbox' = [inbox EXCEPT ![h] = @ - 1]
    /\ busy' = [busy EXCEPT ![h] = TRUE]
    /\ open' = [open EXCEPT ![h] = TRUE]
    /\ timer' = [timer EXCEPT ![h] = TRUE]
    /\ UNCHANGED <<pool, main, doomed, mutex, at>>

\* setSocketDescriptor() fails: the handler stays busy.
HandleConnectionFails(h) ==
    /\ at[h] = "loop" /\ inbox[h] > 0
    /\ inbox' = [inbox EXCEPT ![h] = @ - 1]
    /\ busy' = [busy EXCEPT ![h] = TRUE]
    /\ open' = [open EXCEPT ![h] = FALSE]
    /\ UNCHANGED <<pool, main, doomed, mutex, timer, at>>

\* read() has a whole request: service() wants the mutex, or sends a file.
Read(h) ==
    /\ at[h] = "loop" /\ open[h]
    /\ timer' = [timer EXCEPT ![h] = FALSE]
    /\ \E next \in {"wait", "answer"} : at' = [at EXCEPT ![h] = next]
    /\ UNCHANGED <<pool, main, doomed, mutex, busy, inbox, open>>

\* read() finds the request broken or too large and hangs up.
ReadAborts(h) ==
    /\ at[h] = "loop" /\ open[h]
    /\ Disconnected(h)
    /\ UNCHANGED <<pool, main, doomed, mutex, inbox, at>>

\* faulty variant: the handler becomes idle without regard to its socket
ReadTimeoutIdle(h) ==
    /\ at[h] = "loop" /\ timer[h]
    /\ Disconnected(h)
    /\ UNCHANGED <<pool, main, doomed, mutex, inbox, at>>

\* Hanging up on a socket that is closed does nothing.
ReadTimeout(h) ==
    /\ at[h] = "loop" /\ timer[h]
    /\ IF open[h]
       THEN Disconnected(h)
       ELSE timer' = [timer EXCEPT ![h] = FALSE] /\ UNCHANGED <<busy, open>>
    /\ UNCHANGED <<pool, main, doomed, mutex, inbox, at>>

\* The socket learns that the client has left from the event loop, or while it
\* waits for its bytes to be written: under the mutex, too.
ClientLeaves(h) ==
    /\ at[h] \in {"loop", "service", "answer"} /\ open[h]
    /\ Disconnected(h)
    /\ UNCHANGED <<pool, main, doomed, mutex, inbox, at>>

ServiceLocks(h) ==
    /\ at[h] = "wait" /\ mutex = Nobody
    /\ mutex' = h
    /\ at' = [at EXCEPT ![h] = "service"]
    /\ UNCHANGED <<pool, main, doomed, busy, inbox, open, timer>>

\* faulty variant: a client that has left ends service() by an exception
ServiceUnlocksOpen(h) ==
    /\ at[h] = "service"
    /\ mutex' = IF open[h] THEN Nobody ELSE mutex
    /\ at' = [at EXCEPT ![h] = "answer"]
    /\ UNCHANGED <<pool, main, doomed, busy, inbox, open, timer>>

\* The list is written: the client has read it, or has left.  Until then the
\* thread waits in waitForBytesWritten(-1), under the mutex.
ServiceUnlocks(h) ==
    /\ at[h] = "service"
    /\ mutex' = Nobody
    /\ at' = [at EXCEPT ![h] = "answer"]
    /\ UNCHANGED <<pool, main, doomed, busy, inbox, open, timer>>

\* read() hangs up after its answer, if the client has not.
Closes(h) ==
    /\ at[h] = "answer"
    /\ IF open[h] THEN Disconnected(h) ELSE UNCHANGED <<busy, open, timer>>
    /\ at' = [at EXCEPT ![h] = "return"]
    /\ UNCHANGED <<pool, main, doomed, mutex, inbox>>

\* faulty variant: the timer is not started for the next request
KeepsAliveUntimed(h) ==
    /\ at[h] = "answer"
    /\ at' = [at EXCEPT ![h] = "return"]
    /\ UNCHANGED <<pool, main, doomed, mutex, timer, busy, inbox, open>>

\* read() waits for the next request, from a client that may have left.
KeepsAlive(h) ==
    /\ at[h] = "answer"
    /\ timer' = [timer EXCEPT ![h] = TRUE]
    /\ at' = [at EXCEPT ![h] = "return"]
    /\ UNCHANGED <<pool, main, doomed, mutex, busy, inbox, open>>

Returns(h) ==
    /\ at[h] = "return"
    /\ at' = [at EXCEPT ![h] = "loop"]
    /\ UNCHANGED <<pool, main, doomed, mutex, busy, inbox, open, timer>>

-----------------------------------------------------------------------------
MainStep ==
    \/ \E h \in Handler : Accept(h) \/ AcceptNew(h) \/ Cleanup(h)
    \/ Deleted
    \/ HeartBeatEnds \/ HeartBeatRemoves

HandlerStep(h) ==
    \/ HandleConnection(h) \/ HandleConnectionFails(h)
    \/ Read(h) \/ ReadAborts(h) \/ ReadTimeout(h) \/ ClientLeaves(h)
    \/ ServiceLocks(h) \/ ServiceUnlocks(h)
    \/ Closes(h) \/ KeepsAlive(h) \/ Returns(h)

Next == MainStep \/ \E h \in pool : HandlerStep(h)

(***************************************************************************)
(* Threads run.  Nothing is assumed of a client: it need not send, read or  *)
(* leave, so that a thread that writes to a socket goes on for certain only *)
(* once the socket is closed.  A thread that waits for the mutex is not     *)
(* passed over for ever, nor is the cleanup timer by the other events of    *)
(* the main thread.                                                        *)
(***************************************************************************)
Fairness ==
    /\ WF_vars(Deleted) /\ SF_vars(HeartBeatRemoves)
    /\ SF_vars(\E h \in Handler : Cleanup(h))
    /\ \A h \in Handler :
           /\ WF_vars(HandleConnection(h) \/ HandleConnectionFails(h))
           /\ SF_vars(ServiceLocks(h))
           /\ WF_vars(~open[h] /\ ServiceUnlocks(h))
           /\ WF_vars(~open[h] /\ (Closes(h) \/ KeepsAlive(h)))
           /\ WF_vars(Returns(h))

Spec == Init /\ [][Next]_vars
FairSpec == Spec /\ Fairness

-----------------------------------------------------------------------------
(* Properties *)

\* Type invariant: among others the pool keeps its limit, and the mutex of the
\* registry is held exactly by a thread in service().
TypeOK ==
    /\ pool \subseteq Handler /\ IsFiniteSet(pool)
    /\ Cardinality(pool) <= maxThreads
    /\ main \in {"loop", "lock", "delete"}
    /\ doomed \in Handler \cup {Nobody}
    /\ main = "delete" <=> doomed # Nobody
    /\ mutex \in Handler \cup {Nobody}
    /\ \A h \in Handler : at[h] = "service" <=> mutex = h
    /\ busy \in [Handler -> BOOLEAN] /\ open \in [Handler -> BOOLEAN]
    /\ timer \in [Handler -> BOOLEAN] /\ inbox \in [Handler -> Nat]
    /\ at \in [Handler -> {"loop", "wait", "service", "answer", "return"}]

(***************************************************************************)
(* httpconnectionhandler.cpp:89 asserts that a handler whose turn comes to  *)
(* handle a connection has none: the flag lets nobody give it another one   *)
(* before the first has ended, though the flag falls in the middle of       *)
(* read(), and the thread may return, hang up or time out after that.       *)
(***************************************************************************)
OneConnection ==
    \A h \in Handler :
        /\ inbox[h] <= 1
        /\ inbox[h] = 1 => ~open[h] /\ busy[h]
        /\ open[h] => busy[h]

(***************************************************************************)
(* httpconnectionhandlerpool.cpp:74-78: cleanup() deletes no handler that   *)
(* has a connection or will be given one.                                   *)
(***************************************************************************)
NoneIsDeletedInUse ==
    main = "delete" => doomed \in pool /\ inbox[doomed] = 0 /\ ~open[doomed]

(***************************************************************************)
(* httpconnectionhandler.cpp:113, 271: the timer runs whenever a connection *)
(* waits for a request, so that a silent client cannot keep its handler.    *)
(***************************************************************************)
SilenceIsTimed ==
    \A h \in Handler : open[h] /\ at[h] \in {"loop", "return"} => timer[h]

(***************************************************************************)
(* The main thread, which waits for other threads when it deletes a handler *)
(* and when the heartbeat wants the mutex, comes back to accept again and   *)
(* again.  One thing alone keeps it for ever (httpresponse.cpp:84): a       *)
(* handler that holds the mutex and writes to a client that neither reads   *)
(* nor leaves.                                                             *)
(***************************************************************************)
WaitsOnClient(h) == at[h] = "service" /\ open[h]

MainComesBack == []<>(main = "loop") \/ \E h \in Handler : <>[]WaitsOnClient(h)

(***************************************************************************)
(* httpconnectionhandlerpool.h:29-31: when no connections are left, the     *)
(* cleanup timer reduces the idle threads to the configured minimum.        *)
(***************************************************************************)
PoolShrinks ==
    <>[](\A h \in Handler : inbox[h] = 0 /\ ~open[h])
        => <>[](Cardinality(Idle) <= minThreads)

=============================================================================
