-------------------------------- MODULE Sessions --------------------------------
(***************************************************************************)
(* HttpSessionStore and HttpSession.  The store maps session ids to handles*)
(* that share their data and count them; request handlers, each in a       *)
(* thread of its own, get copies of those handles, and a timer of the main *)
(* thread erases the sessions that were not used for a while.              *)
(*                                                                         *)
(* A copy counts itself under the write lock of the data.  The end of a    *)
(* handle takes three steps, for the code takes the read lock, which other *)
(* threads can take too: the counter is loaded, stored, and the lock let   *)
(* go; then the data is deleted if this thread stored 0.  The lock is part *)
(* of the data: a thread needs the data until it has let go of the lock.   *)
(***************************************************************************)
EXTENDS Integers, Sequences, FiniteSets

CONSTANTS
    Handler,            \* threads that serve requests
    Data,               \* session data, each with an id of its own
    NoData,             \* null session
    timer,              \* the thread of sessionTimerEvent
    Expiration,         \* expirationTime
    MaxSessionTime,            \* bound of the clock
    MaxLost             \* bound of the decrements a counter has lost

ASSUME SessionAssumption ==
    /\ {Expiration, MaxSessionTime, MaxLost} \subseteq Nat
    /\ timer \notin Handler /\ NoData \notin Data \cup Handler \cup {timer}
    /\ IsFiniteSet(Handler) /\ IsFiniteSet(Data)

Thread == Handler \cup {timer}

VARIABLES
    sessions,       \* the ids in the store: an id stands for its data
    mutex,          \* owner of the store's mutex, or NoData
    refCount,       \* of each data
    holders,        \* the handles of each data
    alive,          \* data in memory
    overlapped,     \* has the end of a handle, in each thread, run beside another's
                    \* of the same data? (history)
    fresh,          \* ids not yet used
    lastAccess,
    now,
    pc,             \* of each thread
    id,             \* session id a handler looked up, as long as it needs it
    session,        \* the handler's session
    todo,           \* handles a thread is about to destroy, in this order
    seen,           \* the counter it loaded for the first of them, or Unseen
    left            \* ids the timer has not looked at

memory == <<refCount, holders, alive, overlapped>>
sessionVars == <<sessions, mutex, memory, fresh, lastAccess, now, pc, id, session,
                 todo, seen, left>>

Unseen == -1

(* The handles: the entry of the store, a thread's variable, its parameter *)
(* or temporary, and the pointer that operator= still has to let go.       *)
StoreEntry == <<"store", "entry">>
Variable(t) == <<t, "session">>
Copy(t) == <<t, "copy">>
Old(t) == <<t, "old">>
Handle == {StoreEntry} \cup (Thread \X {"session", "copy", "old"})

Drop(d, h) == [data |-> d, as |-> h, post |-> FALSE]

readers(d) == {t \in Thread : seen[t] # Unseen /\ Head(todo[t]).data = d}

\* faulty variant: the counter goes up under the read lock
AttachReading(d, h) ==
    /\ refCount' = [refCount EXCEPT ![d] = @ + 1]
    /\ holders' = [holders EXCEPT ![d] = @ \cup {h}]
    /\ UNCHANGED <<alive, overlapped>>

(* HttpSession::HttpSession(const HttpSession&): handle h is one more of d.*)
Attach(d, h) ==
    /\ readers(d) = {}
    /\ refCount' = [refCount EXCEPT ![d] = @ + 1]
    /\ holders' = [holders EXCEPT ![d] = @ \cup {h}]
    /\ UNCHANGED <<alive, overlapped>>

Is(t, where) == pc[t] = where /\ todo[t] = <<>>
Goto(t, where) == pc' = [pc EXCEPT ![t] = where]
Hold(t, d) == session' = [session EXCEPT ![t] = d]

(***************************************************************************)
(* ~HttpSession, and the second half of operator=, which deletes the data  *)
(* only if the counter was 0 before.                                       *)
(***************************************************************************)
LoadCount(t) ==
    LET d == Head(todo[t]).data IN
    /\ todo[t] # <<>> /\ seen[t] = Unseen
    /\ Head(todo[t]).as \in holders[d]
    /\ seen' = [seen EXCEPT ![t] = refCount[d]]
    /\ overlapped' = [u \in Thread |-> \/ overlapped[u]
                                       \/ readers(d) # {} /\ u \in readers(d) \cup {t}]
    /\ UNCHANGED <<sessions, mutex, refCount, holders, alive, fresh, lastAccess, now, pc,
                   id, session, todo, left>>

StoreCount(t) ==
    LET h == Head(todo[t]) IN
    /\ todo[t] # <<>> /\ seen[t] # Unseen
    /\ h.as \in holders[h.data]
    /\ refCount' = [refCount EXCEPT ![h.data] = seen[t] - 1]
    /\ holders' = [holders EXCEPT ![h.data] = @ \ {h.as}]
    /\ UNCHANGED <<sessions, mutex, alive, overlapped, fresh, lastAccess, now, pc, id,
                   session, todo, seen, left>>

Unlock(t) ==
    LET h == Head(todo[t]) IN
    /\ todo[t] # <<>> /\ seen[t] # Unseen
    /\ h.as \notin holders[h.data] /\ h.data \in alive
    /\ todo' = [todo EXCEPT ![t] = Tail(@)]
    /\ seen' = [seen EXCEPT ![t] = Unseen]
    /\ overlapped' = [overlapped EXCEPT ![t] = FALSE]
    /\ alive' = IF seen[t] = (IF h.post THEN 0 ELSE 1) THEN alive \ {h.data} ELSE alive
    /\ UNCHANGED <<sessions, mutex, refCount, holders, fresh, lastAccess, now, pc, id,
                   session, left>>

(* lock.unlock() when another thread has deleted the data, and the lock    *)
(* with it: undefined.  The process dies here, or this thread goes on.     *)
UnlockFreed(t) ==
    LET h == Head(todo[t]) IN
    /\ todo[t] # <<>> /\ seen[t] # Unseen
    /\ h.as \notin holders[h.data] /\ h.data \notin alive
    /\ todo' = [todo EXCEPT ![t] = Tail(@)]
    /\ seen' = [seen EXCEPT ![t] = Unseen]
    /\ overlapped' = [overlapped EXCEPT ![t] = FALSE]
    /\ UNCHANGED <<sessions, mutex, refCount, holders, alive, fresh, lastAccess, now, pc,
                   id, session, left>>

(***************************************************************************)
(* A request handler.                                                      *)
(***************************************************************************)

InBounds == \A d \in Data : refCount[d] - Cardinality(holders[d]) < MaxLost

(* getSessionId with the id of a cookie.                                   *)
getSessionId(t) ==
    /\ Is(t, "idle") /\ mutex = NoData /\ InBounds
    /\ \E c \in (Data \ fresh) \cup {NoData} :
        id' = [id EXCEPT ![t] = IF c \in sessions THEN c ELSE NoData]
    /\ Goto(t, "asks")
    /\ UNCHANGED <<sessions, mutex, memory, fresh, lastAccess, now, session, todo, seen,
                   left>>

(* getSession: the session may have gone since its id was looked up.       *)
FindSession(t) ==
    /\ Is(t, "asks") /\ mutex = NoData
    /\ id[t] \in sessions
    /\ Attach(id[t], Variable(t))
    /\ Hold(t, id[t])
    /\ id' = [id EXCEPT ![t] = NoData]
    /\ Goto(t, "found")
    /\ UNCHANGED <<sessions, mutex, fresh, lastAccess, now, todo, seen, left>>

CreateSession(t) ==
    /\ Is(t, "asks") /\ mutex = NoData
    /\ id[t] \notin sessions
    /\ \E d \in fresh :
        /\ fresh' = fresh \ {d}
        /\ alive' = alive \cup {d}
        /\ refCount' = [refCount EXCEPT ![d] = 2]
        /\ holders' = [holders EXCEPT ![d] = {Variable(t), StoreEntry}]
        /\ sessions' = sessions \cup {d}
        /\ lastAccess' = [lastAccess EXCEPT ![d] = now]
        /\ Hold(t, d)
    /\ id' = [id EXCEPT ![t] = NoData]
    /\ Goto(t, "uses")
    /\ UNCHANGED <<mutex, overlapped, now, todo, seen, left>>

GetNullSession(t) ==
    /\ Is(t, "asks") /\ mutex = NoData
    /\ id[t] \notin sessions
    /\ id' = [id EXCEPT ![t] = NoData]
    /\ Goto(t, "uses")
    /\ UNCHANGED <<sessions, mutex, memory, fresh, lastAccess, now, session, todo,
                   seen, left>>

(* The store's mutex is not held any more.                                 *)
setLastAccess(t) ==
    /\ Is(t, "found")
    /\ lastAccess' = [lastAccess EXCEPT ![session[t]] = now]
    /\ Goto(t, "uses")
    /\ UNCHANGED <<sessions, mutex, memory, fresh, now, id, session, todo, seen, left>>

(* removeSession: its parameter is a copy; the entry goes under the mutex. *)
removeSession(t) ==
    /\ Is(t, "uses") /\ session[t] # NoData /\ InBounds
    /\ Attach(session[t], Copy(t))
    /\ Goto(t, "removes")
    /\ UNCHANGED <<sessions, mutex, fresh, lastAccess, now, id, session, todo, seen,
                   left>>

RemoveEntry(t) ==
    /\ Is(t, "removes") /\ mutex = NoData
    /\ IF session[t] \in sessions
       THEN /\ sessions' = sessions \ {session[t]}
            /\ mutex' = t
            /\ todo' = [todo EXCEPT ![t] = <<Drop(session[t], StoreEntry)>>]
       ELSE UNCHANGED <<sessions, mutex, todo>>
    /\ Goto(t, "removed")
    /\ UNCHANGED <<memory, fresh, lastAccess, now, id, session, seen, left>>

LeaveRemove(t) ==
    /\ Is(t, "removed")
    /\ mutex' = IF mutex = t THEN NoData ELSE mutex
    /\ todo' = [todo EXCEPT ![t] = <<Drop(session[t], Copy(t))>>]
    /\ Goto(t, "uses")
    /\ UNCHANGED <<sessions, memory, fresh, lastAccess, now, id, session, seen, left>>

(* session = store.getSession(id): a temporary copy, and operator=.        *)
GetById(t) ==
    /\ Is(t, "uses") /\ mutex = NoData /\ InBounds
    /\ \E d \in sessions :
        /\ Attach(d, Copy(t))
        /\ id' = [id EXCEPT ![t] = d]
    /\ Goto(t, "assigns")
    /\ UNCHANGED <<sessions, mutex, fresh, lastAccess, now, session, todo, seen, left>>

Assign(t) ==
    LET d == id[t]  o == session[t]
        others == [e \in Data |-> holders[e] \ {Variable(t)}]
    IN
    /\ Is(t, "assigns") /\ readers(d) = {}
    /\ refCount' = [refCount EXCEPT ![d] = @ + 1]
    /\ holders' = [e \in Data |->
            others[e] \cup (IF e = o THEN {Old(t)} ELSE {})
                      \cup (IF e = d THEN {Variable(t)} ELSE {})]
    /\ lastAccess' = [lastAccess EXCEPT ![d] = now]
    /\ Hold(t, d)
    /\ todo' = [todo EXCEPT ![t] =
            IF o = NoData THEN <<Drop(d, Copy(t))>>
            ELSE <<[data |-> o, as |-> Old(t), post |-> TRUE], Drop(d, Copy(t))>>]
    /\ id' = [id EXCEPT ![t] = NoData]
    /\ Goto(t, "uses")
    /\ UNCHANGED <<sessions, mutex, alive, overlapped, fresh, now, seen, left>>

(* The handler returns.                                                    *)
Return(t) ==
    /\ Is(t, "uses")
    /\ todo' = [todo EXCEPT ![t] =
            IF session[t] = NoData THEN <<>> ELSE <<Drop(session[t], Variable(t))>>]
    /\ Hold(t, NoData)
    /\ Goto(t, "idle")
    /\ UNCHANGED <<sessions, mutex, memory, fresh, lastAccess, now, id, seen, left>>

(***************************************************************************)
(* sessionTimerEvent.                                                      *)
(***************************************************************************)
BeginPass ==
    /\ Is(timer, "idle") /\ mutex = NoData
    /\ mutex' = timer
    /\ left' = sessions
    /\ Goto(timer, "pass")
    /\ UNCHANGED <<sessions, memory, fresh, lastAccess, now, id, session, todo, seen>>

Expired(d) == now - lastAccess[d] > Expiration

LookAt(d) ==
    /\ Is(timer, "pass") /\ d \in left
    /\ left' = left \ {d}
    /\ Attach(d, Copy(timer))
    /\ sessions' = IF Expired(d) THEN sessions \ {d} ELSE sessions
    /\ todo' = [todo EXCEPT ![timer] =
            IF Expired(d) THEN <<Drop(d, StoreEntry), Drop(d, Copy(timer))>>
            ELSE <<Drop(d, Copy(timer))>>]
    /\ UNCHANGED <<mutex, fresh, lastAccess, now, pc, id, session, seen>>

EndPass ==
    /\ Is(timer, "pass") /\ left = {}
    /\ mutex' = NoData
    /\ Goto(timer, "idle")
    /\ UNCHANGED <<sessions, memory, fresh, lastAccess, now, id, session, todo, seen,
                   left>>

SessionTick ==
    /\ now < MaxSessionTime
    /\ now' = now + 1
    /\ UNCHANGED <<sessions, mutex, memory, fresh, lastAccess, pc, id, session, todo, seen,
                   left>>

SessionInit ==
    /\ sessions = {}
    /\ mutex = NoData
    /\ refCount = [d \in Data |-> 0]
    /\ holders = [d \in Data |-> {}]
    /\ alive = {}
    /\ overlapped = [t \in Thread |-> FALSE]
    /\ fresh = Data
    /\ lastAccess = [d \in Data |-> 0]
    /\ now = 0
    /\ pc = [t \in Thread |-> "idle"]
    /\ id = [t \in Thread |-> NoData]
    /\ session = [t \in Thread |-> NoData]
    /\ todo = [t \in Thread |-> <<>>]
    /\ seen = [t \in Thread |-> Unseen]
    /\ left = {}

Destroy(t) == LoadCount(t) \/ StoreCount(t) \/ Unlock(t) \/ UnlockFreed(t)

Serve(t) ==
    \/ getSessionId(t) \/ FindSession(t) \/ CreateSession(t) \/ GetNullSession(t)
    \/ setLastAccess(t) \/ removeSession(t) \/ RemoveEntry(t) \/ LeaveRemove(t)
    \/ GetById(t) \/ Assign(t) \/ Return(t)

Pass == (\E d \in Data : LookAt(d)) \/ EndPass

SessionNext ==
    \/ \E t \in Thread : Destroy(t)
    \/ \E t \in Handler : Serve(t)
    \/ BeginPass \/ Pass
    \/ SessionTick

SessionSpec == SessionInit /\ [][SessionNext]_sessionVars

--------------------------------------------------------------------------------

SessionTypeOK ==
    /\ sessions \subseteq Data /\ alive \subseteq Data
    /\ fresh \subseteq Data /\ left \subseteq Data
    /\ mutex \in Thread \cup {NoData}
    /\ refCount \in [Data -> Nat] /\ overlapped \in [Thread -> BOOLEAN]
    /\ holders \in [Data -> SUBSET Handle]
    /\ lastAccess \in [Data -> Nat] /\ now \in Nat
    /\ pc \in [Thread -> {"idle", "asks", "found", "uses", "removes", "removed",
                          "assigns", "pass"}]
    /\ id \in [Thread -> Data \cup {NoData}]
    /\ session \in [Thread -> Data \cup {NoData}]
    /\ todo \in [Thread -> Seq([data : Data, as : Handle, post : BOOLEAN])]
    /\ seen \in [Thread -> Nat \cup {Unseen}]

(* Data that a handle, of the store or of a thread, leads to is in memory: *)
(* although threads that destroy their handles at once may lose a decrement*)
(* of the counter, it never falls below the number of the handles.  And a  *)
(* thread at the end of a handle has the data until it has let go of the   *)
(* lock, unless another one is at the end of its own at the same time: two *)
(* such threads are what "thread safe" (httpsession.h:19) fails for, since *)
(* the second may delete the lock before the first has let go of it.       *)
EndsHandle(t, d) == seen[t] # Unseen /\ Head(todo[t]).data = d

NoHandleDangles ==
    \A d \in Data :
        /\ holders[d] # {} => d \in alive
        /\ \A t \in Thread : EndsHandle(t, d) => d \in alive \/ overlapped[t]

================================================================================
