------------------------------- MODULE WebProof --------------------------------
(***************************************************************************)
(* The parts of QtWebApp that a request handler works with, for any clients,*)
(* threads, files and sizes: the sessions (Sessions), the responses and the *)
(* requests of a connection (HttpRequest), the caches (FileCache), the log *)
(* (LogFile), and parameters and cookies (Parameters).                     *)
(***************************************************************************)
EXTENDS Sessions, HttpRequest, Parameters, FileCache, LogFile, FiniteSetTheorems, SequenceTheorems,
        Lemmas, TLAPS

\* What a thread is about to destroy: its own handles, or an entry that it has taken
\* out of the store and still keeps the mutex for.
Entry(t, h) ==
    /\ h.as \in {StoreEntry, Variable(t), Copy(t), Old(t)}
    /\ h.as = StoreEntry => mutex = t /\ h.data \notin sessions
    /\ h.as = Variable(t) => session[t] = NoData
    /\ h.data \notin fresh

EntriesOK == \A t \in Thread : \A i \in 1 .. Len(todo[t]) : Entry(t, todo[t][i])

\* Where a handle is to be found.
HandlesOK ==
    /\ \A d \in sessions : StoreEntry \in holders[d]
    /\ \A t \in Thread : session[t] # NoData => Variable(t) \in holders[session[t]]
    /\ \A t \in Thread : pc[t] = "assigns" =>
            todo[t] = <<>> /\ id[t] \in Data /\ Copy(t) \in holders[id[t]]
    /\ \A d \in fresh : holders[d] = {}

\* The timer works under the mutex, on sessions of the store.
PassOK ==
    /\ left \subseteq sessions
    /\ left # {} => pc[timer] = "pass"
    /\ pc[timer] = "pass" => mutex = timer

RemovesOK == \A t \in Thread : pc[t] \in {"removes", "removed"} => session[t] # NoData

\* A counter may be too high, as decrements are lost, but never too low.
CountsOK == \A d \in Data : refCount[d] >= Cardinality(holders[d])

\* A thread in ~HttpSession has loaded no less than the handles there are, with its own.
Loaded(t) ==
    LET h == Head(todo[t]) IN
    seen[t] # Unseen =>
        /\ todo[t] # <<>>
        /\ h.as \in holders[h.data] => seen[t] >= Cardinality(holders[h.data])
        /\ h.as \notin holders[h.data] => seen[t] >= Cardinality(holders[h.data]) + 1

LoadsOK == \A t \in Thread : Loaded(t)

\* Data that a handle leads to is in memory.
HeldIsAlive == \A d \in Data : holders[d] # {} => d \in alive

\* The inductive invariant.
IInv ==
    /\ SessionTypeOK
    /\ EntriesOK
    /\ HandlesOK
    /\ PassOK
    /\ RemovesOK
    /\ CountsOK
    /\ LoadsOK
    /\ HeldIsAlive

--------------------------------------------------------------------------------
(* Handles and their number *)

\* Handles of different kinds, or of different threads, differ.
LEMMA HandlesDiffer ==
    ASSUME NEW t \in Thread, NEW u \in Thread
    PROVE  /\ Variable(t) # Copy(u) /\ Variable(t) # Old(u) /\ Copy(t) # Old(u)
           /\ StoreEntry \notin {Variable(t), Copy(t), Old(t)}
           /\ t # u => Variable(t) # Variable(u) /\ Copy(t) # Copy(u) /\ Old(t) # Old(u)
           /\ {StoreEntry, Variable(t), Copy(t), Old(t)} \subseteq Handle
BY DEF Variable, Copy, Old, StoreEntry, Handle

\* There are finitely many handles.
LEMMA HandlesAreFinite == IsFiniteSet(Handle)
<1>1. IsFiniteSet(Thread)
  BY SessionAssumption, FS_AddElement DEF Thread
<1>2. IsFiniteSet({"session"} \cup {"copy"} \cup {"old"})
  BY FS_Singleton, FS_AddElement
<1>3. {"session"} \cup {"copy"} \cup {"old"} = {"session", "copy", "old"}
  OBVIOUS
<1>4. IsFiniteSet(Thread \X {"session", "copy", "old"})
  BY <1>1, <1>2, <1>3, FS_Product
<1>5. IsFiniteSet({StoreEntry})
  BY FS_Singleton
<1> QED
  BY <1>4, <1>5, FS_Union DEF Handle

\* So every session has finitely many.
LEMMA HoldersAreFinite ==
    ASSUME NEW S \in SUBSET Handle
    PROVE  IsFiniteSet(S) /\ Cardinality(S) \in Nat
BY HandlesAreFinite, FS_Subset, FS_CardinalityType

\* What one handle more, or one less, does to the number.
LEMMA OneMore ==
    ASSUME NEW S \in SUBSET Handle, NEW h
    PROVE  /\ Cardinality(S \cup {h}) <= Cardinality(S) + 1
           /\ h \in S => Cardinality(S \ {h}) = Cardinality(S) - 1
           /\ Cardinality(S \ {h}) <= Cardinality(S)
           /\ Cardinality(S \cup {h}) \in Nat /\ Cardinality(S \ {h}) \in Nat
           /\ S # {} => Cardinality(S) >= 1
<1>1. IsFiniteSet(S) /\ Cardinality(S) \in Nat
  BY HoldersAreFinite
<1>2. S # {} => Cardinality(S) # 0
  BY <1>1, FS_EmptySet
<1>3. /\ Cardinality(S \cup {h}) = IF h \in S THEN Cardinality(S) ELSE Cardinality(S) + 1
      /\ Cardinality(S \ {h}) = IF h \in S THEN Cardinality(S) - 1 ELSE Cardinality(S)
  BY <1>1, FS_AddElement, FS_RemoveElement
<1>4. h \in S => S # {}
  OBVIOUS
<1> QED
  BY <1>1, <1>2, <1>3, <1>4

\* The first of the handles to be destroyed, and the rest.
LEMMA HeadIsEntry ==
    ASSUME SessionTypeOK, NEW t \in Thread, todo[t] # <<>>
    PROVE  /\ Head(todo[t]) = todo[t][1] /\ 1 \in 1 .. Len(todo[t])
           /\ Head(todo[t]).data \in Data /\ Head(todo[t]).as \in Handle
           /\ Tail(todo[t]) \in Seq([data : Data, as : Handle, post : BOOLEAN])
           /\ \A i \in 1 .. Len(Tail(todo[t])) :
                i + 1 \in 1 .. Len(todo[t]) /\ Tail(todo[t])[i] = todo[t][i + 1]
<1> DEFINE E == [data : Data, as : Handle, post : BOOLEAN]
<1>1. todo[t] \in Seq(E)
  BY DEF SessionTypeOK
<1>2. /\ Head(todo[t]) \in E /\ Tail(todo[t]) \in Seq(E)
      /\ Len(Tail(todo[t])) = Len(todo[t]) - 1
      /\ \A i \in 1 .. Len(Tail(todo[t])) : Tail(todo[t])[i] = todo[t][i + 1]
  BY <1>1, HeadTailProperties
<1>3. Len(todo[t]) \in Nat \ {0}
  BY <1>1, EmptySeq
<1>4. Head(todo[t]) = todo[t][1]
  BY <1>1, <1>3
<1>5. Head(todo[t]).data \in Data /\ Head(todo[t]).as \in Handle
  BY <1>2
<1> HIDE DEF E
<1>6. \A i \in 1 .. Len(Tail(todo[t])) : i + 1 \in 1 .. Len(todo[t])
  BY <1>2, <1>3
<1> QED
  BY <1>2, <1>3, <1>4, <1>5, <1>6 DEF E

--------------------------------------------------------------------------------
(* Copies *)

\* What the counters and the memory need of a step of a thread that has loaded none.
Memory == CountsOK /\ LoadsOK /\ HeldIsAlive

\* A copy made of a handle keeps the counters right and the data in memory.
LEMMA AttachKeeps ==
    ASSUME IInv, NEW d \in Data, NEW h \in Handle, holders[d] # {}, Attach(d, h),
           seen' = seen,
           \A t \in Thread : seen[t] # Unseen => todo'[t] = todo[t]
    PROVE  /\ refCount' \in [Data -> Nat] /\ holders' \in [Data -> SUBSET Handle]
           /\ alive' = alive /\ overlapped' = overlapped
           /\ \A e \in Data : holders[e] \subseteq holders'[e]
           /\ \A e \in Data : e # d => holders'[e] = holders[e]
           /\ h \in holders'[d]
           /\ Memory'
<1>1. /\ refCount \in [Data -> Nat] /\ holders \in [Data -> SUBSET Handle]
      /\ seen \in [Thread -> Nat \cup {Unseen}]
  BY DEF IInv, SessionTypeOK
<1>2. /\ refCount' = [refCount EXCEPT ![d] = @ + 1]
      /\ holders' = [holders EXCEPT ![d] = @ \cup {h}]
      /\ alive' = alive /\ overlapped' = overlapped /\ readers(d) = {}
  BY DEF Attach
<1>3. /\ refCount' \in [Data -> Nat] /\ holders' \in [Data -> SUBSET Handle]
      /\ \A e \in Data : holders[e] \subseteq holders'[e]
      /\ \A e \in Data : e # d => holders'[e] = holders[e]
      /\ holders'[d] = holders[d] \cup {h}
  BY <1>1, <1>2
<1>4. Cardinality(holders[d] \cup {h}) <= Cardinality(holders[d]) + 1
      /\ Cardinality(holders[d] \cup {h}) \in Nat /\ Cardinality(holders[d]) \in Nat
  BY <1>1, OneMore, HoldersAreFinite
<1>5. CountsOK'
  <2> SUFFICES ASSUME NEW e \in Data PROVE refCount'[e] >= Cardinality(holders'[e])
    BY DEF CountsOK
  <2>1. refCount[e] >= Cardinality(holders[e])
    BY DEF IInv, CountsOK
  <2>2. CASE e = d
    BY <1>1, <1>2, <1>3, <1>4, <2>1, <2>2
  <2>3. CASE e # d
    BY <1>1, <1>2, <1>3, <2>1, <2>3
  <2> QED
    BY <2>2, <2>3
<1>6. LoadsOK'
  <2> SUFFICES ASSUME NEW t \in Thread, seen[t] # Unseen PROVE Loaded(t)'
    BY DEF LoadsOK, Loaded
  <2>1. Loaded(t) /\ todo'[t] = todo[t]
    BY DEF IInv, LoadsOK
  <2>2. Head(todo[t]).data # d
    BY <1>2 DEF readers
  <2>3. Head(todo[t]).data \in Data
    <3>1. todo[t] # <<>>
      BY <2>1 DEF Loaded
    <3> QED
      BY <3>1, HeadIsEntry DEF IInv
  <2>4. holders'[Head(todo[t]).data] = holders[Head(todo[t]).data]
    BY <1>3, <2>2, <2>3
  <2> QED
    BY <2>1, <2>4 DEF Loaded
<1>7. HeldIsAlive'
  BY <1>2, <1>3 DEF IInv, HeldIsAlive
<1> QED
  BY <1>2, <1>3, <1>5, <1>6, <1>7 DEF Memory

\* A thread that has nothing to destroy has loaded no counter.
LEMMA NothingLoaded ==
    ASSUME IInv, NEW t \in Thread, todo[t] = <<>>
    PROVE  seen[t] = Unseen
BY DEF IInv, LoadsOK, Loaded

\* A step that makes and destroys no handle disturbs neither counters nor memory.
LEMMA MemoryKept ==
    ASSUME IInv, UNCHANGED memory, seen' = seen,
           \A t \in Thread : seen[t] # Unseen => todo'[t] = todo[t]
    PROVE  Memory'
<1>1. CountsOK' /\ HeldIsAlive'
  BY DEF IInv, CountsOK, HeldIsAlive, memory
<1>2. LoadsOK'
  <2> SUFFICES ASSUME NEW t \in Thread, seen[t] # Unseen PROVE Loaded(t)'
    BY DEF LoadsOK, Loaded
  <2> QED
    BY DEF IInv, LoadsOK, Loaded, memory
<1> QED
  BY <1>1, <1>2 DEF Memory

--------------------------------------------------------------------------------
(* The end of a handle *)

LEMMA LoadCountKeeps ==
    ASSUME IInv, NEW t \in Thread, LoadCount(t)
    PROVE  IInv'
<1> DEFINE h == Head(todo[t])
<1>1. h.data \in Data /\ todo[t] # <<>> /\ h.as \in holders[h.data]
  BY HeadIsEntry DEF LoadCount, IInv
<1>2. /\ seen' = [seen EXCEPT ![t] = refCount[h.data]]
      /\ UNCHANGED <<refCount, holders, alive>>
      /\ overlapped' \in [Thread -> BOOLEAN]
      /\ UNCHANGED <<sessions, mutex, fresh, lastAccess, now, pc, id, session, todo, left>>
  <2>1. overlapped' \in [Thread -> BOOLEAN]
    BY Zenon DEF LoadCount
  <2> QED
    BY <2>1 DEF LoadCount
<1>3. SessionTypeOK'
  BY <1>1, <1>2 DEF IInv, SessionTypeOK, memory
<1>4. EntriesOK' /\ HandlesOK' /\ PassOK' /\ RemovesOK' /\ CountsOK' /\ HeldIsAlive'
  BY <1>2 DEF IInv, EntriesOK, Entry, HandlesOK, PassOK, RemovesOK, CountsOK, HeldIsAlive, memory
<1>5. LoadsOK'
  <2> SUFFICES ASSUME NEW u \in Thread PROVE Loaded(u)'
    BY DEF LoadsOK
  <2>1. CASE u = t
    BY <1>1, <1>2, <2>1 DEF IInv, SessionTypeOK, CountsOK, Loaded, memory
  <2>2. CASE u # t
    BY <1>2, <2>2 DEF IInv, SessionTypeOK, LoadsOK, Loaded, memory
  <2> QED
    BY <2>1, <2>2
<1> QED
  BY <1>3, <1>4, <1>5 DEF IInv

\* What a thread destroys first is no handle that another thread destroys, or uses.
LEMMA HeadIsOwn ==
    ASSUME IInv, NEW t \in Thread, todo[t] # <<>>
    PROVE  LET h == Head(todo[t]) IN
           /\ Entry(t, h)
           /\ \A u \in Thread \ {t} : todo[u] # <<>> /\ Head(todo[u]).data = h.data =>
                Head(todo[u]).as # h.as
           /\ \A u \in Thread : session[u] = h.data => h.as # Variable(u)
           /\ \A u \in Thread : pc[u] = "assigns" => h.as # Copy(u)
<1> DEFINE h == Head(todo[t])
<1>1. \A u \in Thread : todo[u] # <<>> => Entry(u, Head(todo[u]))
  BY HeadIsEntry DEF IInv, EntriesOK
<1>2. Entry(t, h) /\ h.data \in Data
  BY <1>1, HeadIsEntry DEF IInv
<1>3. ASSUME NEW u \in Thread \ {t}, todo[u] # <<>> PROVE Head(todo[u]).as # h.as
  BY <1>1, <1>2, <1>3, HandlesDiffer DEF Entry
<1>4. ASSUME NEW u \in Thread, session[u] = h.data PROVE h.as # Variable(u)
  BY <1>2, <1>4, HandlesDiffer, SessionAssumption DEF Entry
<1>5. ASSUME NEW u \in Thread, pc[u] = "assigns" PROVE h.as # Copy(u)
  BY <1>2, <1>5, HandlesDiffer DEF Entry, IInv, HandlesOK
<1> QED
  BY <1>2, <1>3, <1>4, <1>5

LEMMA StoreCountKeeps ==
    ASSUME IInv, NEW t \in Thread, StoreCount(t)
    PROVE  IInv'
<1> DEFINE h == Head(todo[t])
           d == h.data
<1>1. d \in Data /\ todo[t] # <<>> /\ h.as \in holders[d] /\ seen[t] # Unseen
  BY HeadIsEntry DEF StoreCount, IInv
<1>2. /\ refCount' = [refCount EXCEPT ![d] = seen[t] - 1]
      /\ holders' = [holders EXCEPT ![d] = @ \ {h.as}]
      /\ UNCHANGED <<sessions, mutex, alive, overlapped, fresh, lastAccess, now, pc, id,
                     session, todo, seen, left>>
  BY DEF StoreCount
<1>3. /\ holders \in [Data -> SUBSET Handle] /\ refCount \in [Data -> Nat]
      /\ seen \in [Thread -> Nat \cup {Unseen}]
  BY DEF IInv, SessionTypeOK
<1>4. /\ Cardinality(holders[d] \ {h.as}) = Cardinality(holders[d]) - 1
      /\ Cardinality(holders[d]) >= 1 /\ Cardinality(holders[d]) \in Nat
      /\ Cardinality(holders[d] \ {h.as}) \in Nat
  <2>1. holders[d] \in SUBSET Handle /\ holders[d] # {}
    BY <1>1, <1>3
  <2> QED
    BY <1>1, <2>1, OneMore, HoldersAreFinite
<1>5. seen[t] >= Cardinality(holders[d]) /\ seen[t] \in Nat
  BY <1>1, <1>3, SMTT(30) DEF IInv, LoadsOK, Loaded
<1>6. /\ \A e \in Data \ {d} : holders'[e] = holders[e] /\ refCount'[e] = refCount[e]
      /\ holders'[d] = holders[d] \ {h.as} /\ refCount'[d] = seen[t] - 1
      /\ seen[t] - 1 \in Nat
  BY <1>1, <1>2, <1>3, <1>4, <1>5, SMTT(20)
<1>7. SessionTypeOK'
  BY <1>1, <1>2, <1>6 DEF IInv, SessionTypeOK
<1>8. EntriesOK' /\ PassOK' /\ RemovesOK'
  BY <1>2 DEF IInv, EntriesOK, Entry, PassOK, RemovesOK
<1>9. HandlesOK'
  <2>1. ASSUME NEW e \in sessions PROVE StoreEntry \in holders'[e]
    <3>1. e \in Data /\ StoreEntry \in holders[e]
      BY DEF IInv, SessionTypeOK, HandlesOK
    <3>2. e = d => h.as # StoreEntry
      BY <1>1, HeadIsOwn DEF Entry
    <3> QED
      BY <1>6, <3>1, <3>2
  <2>2. ASSUME NEW u \in Thread, session[u] # NoData PROVE Variable(u) \in holders'[session[u]]
    <3>1. session[u] \in Data /\ Variable(u) \in holders[session[u]]
      BY <2>2 DEF IInv, SessionTypeOK, HandlesOK
    <3>2. session[u] = d => h.as # Variable(u)
      BY <1>1, HeadIsOwn
    <3> QED
      BY <1>6, <3>1, <3>2
  <2>3. ASSUME NEW u \in Thread, pc[u] = "assigns"
        PROVE  todo[u] = <<>> /\ id[u] \in Data /\ Copy(u) \in holders'[id[u]]
    <3>1. todo[u] = <<>> /\ id[u] \in Data /\ Copy(u) \in holders[id[u]]
      BY <2>3 DEF IInv, HandlesOK
    <3>2. h.as # Copy(u)
      BY <1>1, <2>3, HeadIsOwn
    <3> QED
      BY <1>6, <3>1, <3>2
  <2>4. ASSUME NEW e \in fresh PROVE holders'[e] = {}
    <3>1. e \in Data /\ holders[e] = {}
      BY DEF IInv, SessionTypeOK, HandlesOK
    <3> QED
      BY <1>6, <3>1
  <2> QED
    BY <1>2, <2>1, <2>2, <2>3, <2>4 DEF HandlesOK
<1> DEFINE N == Cardinality(holders[d])
           M == Cardinality(holders'[d])
<1>13. M = N - 1 /\ N \in Nat /\ M \in Nat /\ seen[t] >= N
  BY <1>4, <1>5, <1>6
<1> HIDE DEF N, M
<1>10. CountsOK'
  <2>1. seen[t] - 1 >= M
    BY <1>5, <1>13
  <2>2. refCount'[d] >= Cardinality(holders'[d])
    BY <1>6, <2>1 DEF M
  <2>3. \A e \in Data \ {d} : refCount'[e] >= Cardinality(holders'[e])
    BY <1>6 DEF IInv, CountsOK
  <2> QED
    BY <2>2, <2>3 DEF CountsOK
<1>11. LoadsOK'
  <2> SUFFICES ASSUME NEW u \in Thread, seen[u] # Unseen PROVE Loaded(u)'
    BY <1>2 DEF LoadsOK, Loaded
  <2> DEFINE k == Head(todo[u])
  <2>1. Loaded(u) /\ todo[u] # <<>> /\ k.data \in Data /\ seen[u] \in Nat
    BY <1>3, HeadIsEntry DEF IInv, LoadsOK, Loaded
  <2>2. CASE u = t
    <3>1. seen[t] >= M + 1
      BY <1>5, <1>13
    <3> QED
      BY <1>2, <1>6, <2>1, <2>2, <3>1 DEF Loaded, M
  <2>3. CASE u # t /\ k.data # d
    BY <1>2, <1>6, <2>1, <2>3 DEF Loaded
  <2>4. CASE u # t /\ k.data = d
    <3>1. k.as # h.as
      BY <1>1, <2>1, <2>4, HeadIsOwn
    <3>2. k.as \in holders'[d] <=> k.as \in holders[d]
      BY <1>6, <3>1
    <3>3. (seen[u] >= N => seen[u] >= M) /\ (seen[u] >= N + 1 => seen[u] >= M + 1)
      BY <1>13, <2>1
    <3>4. UNCHANGED <<seen, todo>>
      BY <1>2
    <3> HIDE DEF d, h
    <3> QED
      BY <2>1, <2>4, <3>2, <3>3, <3>4 DEF Loaded, M, N
  <2> QED
    BY <2>2, <2>3, <2>4
<1>12. HeldIsAlive'
  BY <1>2, <1>6 DEF IInv, HeldIsAlive
<1> QED
  BY <1>7, <1>8, <1>9, <1>10, <1>11, <1>12 DEF IInv

\* The data is deleted only when no handle is left.
LEMMA UnlockKeeps ==
    ASSUME IInv, NEW t \in Thread, Unlock(t) \/ UnlockFreed(t)
    PROVE  IInv'
<1> DEFINE h == Head(todo[t])
           d == h.data
<1>1. d \in Data /\ todo[t] # <<>> /\ h.as \notin holders[d] /\ seen[t] # Unseen
  BY HeadIsEntry DEF Unlock, UnlockFreed, IInv
<1>2. /\ todo' = [todo EXCEPT ![t] = Tail(@)]
      /\ seen' = [seen EXCEPT ![t] = Unseen]
      /\ \/ alive' = IF seen[t] = (IF h.post THEN 0 ELSE 1) THEN alive \ {d} ELSE alive
         \/ alive' = alive
      /\ overlapped' = [overlapped EXCEPT ![t] = FALSE]
      /\ UNCHANGED <<sessions, mutex, refCount, holders, fresh, lastAccess, now, pc, id,
                     session, left>>
  BY DEF Unlock, UnlockFreed
<1>3. /\ holders \in [Data -> SUBSET Handle] /\ seen \in [Thread -> Nat \cup {Unseen}]
      /\ todo \in [Thread -> Seq([data : Data, as : Handle, post : BOOLEAN])]
      /\ alive \subseteq Data
  BY DEF IInv, SessionTypeOK
<1>4. Tail(todo[t]) \in Seq([data : Data, as : Handle, post : BOOLEAN])
  BY <1>1, HeadIsEntry DEF IInv
<1>5. SessionTypeOK'
  <2>1. todo' \in [Thread -> Seq([data : Data, as : Handle, post : BOOLEAN])]
    BY <1>2, <1>3, <1>4
  <2>2. seen' \in [Thread -> Nat \cup {Unseen}] /\ alive' \subseteq Data
    BY <1>2, <1>3
  <2> QED
    BY <1>2, <2>1, <2>2 DEF IInv, SessionTypeOK
<1>6. EntriesOK'
  <2> SUFFICES ASSUME NEW u \in Thread, NEW i \in 1 .. Len(todo'[u])
               PROVE  Entry(u, todo'[u][i])
    BY <1>2 DEF EntriesOK, Entry
  <2>1. CASE u = t
    <3>1. todo'[t] = Tail(todo[t])
      BY <1>2, <1>3
    <3>2. i + 1 \in 1 .. Len(todo[t]) /\ todo'[t][i] = todo[t][i + 1]
      BY <1>1, <2>1, <3>1, HeadIsEntry DEF IInv
    <3> QED
      BY <2>1, <3>2 DEF IInv, EntriesOK
  <2>2. CASE u # t
    BY <1>2, <1>3, <2>2 DEF IInv, EntriesOK
  <2> QED
    BY <2>1, <2>2
<1>7. HandlesOK' /\ PassOK' /\ RemovesOK' /\ CountsOK'
  <2>1. \A u \in Thread : todo[u] = <<>> => todo'[u] = <<>>
    BY <1>1, <1>2, <1>3
  <2> QED
    BY <1>2, <2>1 DEF IInv, HandlesOK, PassOK, RemovesOK, CountsOK
<1>8. LoadsOK'
  <2> SUFFICES ASSUME NEW u \in Thread, seen'[u] # Unseen PROVE Loaded(u)'
    BY DEF LoadsOK, Loaded
  <2>1. seen'[u] = seen[u] /\ todo'[u] = todo[u]
    BY <1>2, <1>3
  <2> QED
    BY <1>2, <2>1 DEF IInv, LoadsOK, Loaded
<1>9. HeldIsAlive'
  <2>1. CASE alive' = alive
    BY <1>2, <2>1 DEF IInv, HeldIsAlive
  <2>2. CASE seen[t] \in {0, 1} /\ alive' = alive \ {d}
    <3>1. Cardinality(holders[d]) \in Nat /\ IsFiniteSet(holders[d])
      BY <1>1, <1>3, HoldersAreFinite
    <3>2. seen[t] >= Cardinality(holders[d]) + 1
      BY <1>1 DEF IInv, LoadsOK, Loaded
    <3>3. Cardinality(holders[d]) = 0
      BY <2>2, <3>1, <3>2
    <3>4. holders[d] = {}
      BY <3>1, <3>3, FS_EmptySet
    <3> QED
      BY <1>2, <2>2, <3>4 DEF IInv, HeldIsAlive
  <2> QED
    BY <1>2, <2>1, <2>2
<1> QED
  BY <1>5, <1>6, <1>7, <1>8, <1>9 DEF IInv

--------------------------------------------------------------------------------
(* Requests *)

\* Steps that touch no handle.
LEMMA QuietKeeps ==
    ASSUME IInv,
           \/ SessionTick
           \/ \E t \in Handler : getSessionId(t) \/ GetNullSession(t) \/ setLastAccess(t)
    PROVE  IInv'
<1>1. UNCHANGED <<sessions, mutex, memory, fresh, session, todo, seen, left>>
  BY DEF SessionTick, getSessionId, GetNullSession, setLastAccess
<1>2. Memory'
  BY <1>1, MemoryKept
<1>3. /\ pc \in [Thread -> {"idle", "asks", "found", "uses", "removes", "removed",
                            "assigns", "pass"}]
      /\ id \in [Thread -> Data \cup {NoData}]
  BY DEF IInv, SessionTypeOK
<1>4. SessionTypeOK'
  <2>1. CASE SessionTick
    <3>1. now' \in Nat /\ UNCHANGED <<lastAccess, pc, id>>
      BY <2>1 DEF IInv, SessionTypeOK, SessionTick
    <3> QED
      BY <1>1, <3>1 DEF IInv, SessionTypeOK, memory
  <2>2. ASSUME NEW t \in Handler, getSessionId(t) PROVE SessionTypeOK'
    BY <1>1, <2>2 DEF IInv, SessionTypeOK, getSessionId, Goto, memory
  <2>3. ASSUME NEW t \in Handler, GetNullSession(t) PROVE SessionTypeOK'
    BY <1>1, <2>3 DEF IInv, SessionTypeOK, GetNullSession, Goto, memory
  <2>4. ASSUME NEW t \in Handler, setLastAccess(t) PROVE SessionTypeOK'
    BY <1>1, <2>4 DEF IInv, SessionTypeOK, setLastAccess, Goto, memory
  <2> QED
    BY <2>1, <2>2, <2>3, <2>4
<1>5. \A u \in Thread : \/ pc'[u] = pc[u] /\ id'[u] = id[u]
                        \/ pc'[u] \in {"asks", "uses"}
  BY <1>3 DEF SessionTick, getSessionId, GetNullSession, setLastAccess, Goto
<1>7. pc'[timer] = pc[timer]
  BY <1>3, SessionAssumption
     DEF SessionTick, getSessionId, GetNullSession, setLastAccess, Goto, Thread
<1>6. EntriesOK' /\ HandlesOK' /\ PassOK' /\ RemovesOK'
  BY <1>1, <1>5, <1>7 DEF IInv, EntriesOK, Entry, HandlesOK, PassOK, RemovesOK, memory
<1> QED
  BY <1>2, <1>4, <1>6 DEF IInv, Memory

LEMMA RemoveEntryKeeps ==
    ASSUME IInv, NEW t \in Handler, RemoveEntry(t)
    PROVE  IInv'
<1> DEFINE d == session[t]
<1>1. t \in Thread /\ t # timer /\ todo[t] = <<>> /\ seen[t] = Unseen
      /\ mutex = NoData /\ NoData \notin Thread /\ d \in Data
  BY NothingLoaded, SessionAssumption
     DEF RemoveEntry, Is, Thread, IInv, SessionTypeOK, RemovesOK
<1>2. /\ UNCHANGED <<memory, fresh, lastAccess, now, id, session, seen, left>>
      /\ pc' = [pc EXCEPT ![t] = "removed"]
  BY DEF RemoveEntry, Goto
<1>3. CASE d \notin sessions
  <2>1. UNCHANGED <<sessions, mutex, todo>>
    BY <1>3 DEF RemoveEntry
  <2>2. Memory'
    BY <1>2, <2>1, MemoryKept
  <2>3. SessionTypeOK'
    BY <1>2, <2>1 DEF IInv, SessionTypeOK, memory
  <2>4. EntriesOK' /\ HandlesOK' /\ PassOK' /\ RemovesOK'
    BY <1>1, <1>2, <2>1, SessionAssumption
       DEF IInv, Thread, SessionTypeOK, EntriesOK, Entry, HandlesOK, PassOK, RemovesOK, memory
  <2> QED
    BY <2>2, <2>3, <2>4 DEF IInv, Memory
<1>4. CASE d \in sessions
  <2>1. /\ sessions' = sessions \ {d} /\ mutex' = t
        /\ todo' = [todo EXCEPT ![t] = <<Drop(d, StoreEntry)>>]
    BY <1>4 DEF RemoveEntry
  <2>2. \A u \in Thread : u # t => todo'[u] = todo[u]
    BY <2>1 DEF IInv, SessionTypeOK
  <2>3. todo'[t] = <<Drop(d, StoreEntry)>>
    BY <1>1, <2>1 DEF IInv, SessionTypeOK
  <2>4. Memory'
    BY <1>1, <1>2, <2>2, MemoryKept
  <2>5. <<Drop(d, StoreEntry)>> \in Seq([data : Data, as : Handle, post : BOOLEAN])
    BY <1>1, HandlesDiffer DEF Drop
  <2>6. SessionTypeOK'
    BY <1>1, <1>2, <2>1, <2>5 DEF IInv, SessionTypeOK, memory
  <2>7. EntriesOK'
    <3> SUFFICES ASSUME NEW u \in Thread, NEW i \in 1 .. Len(todo'[u])
                 PROVE  Entry(u, todo[u][i])'
      BY DEF EntriesOK
    <3>1. CASE u = t
      <4>1. todo'[u][i] = Drop(d, StoreEntry)
        BY <2>3, <3>1
      <4>2. d \notin fresh
        BY <1>4 DEF IInv, HandlesOK, SessionTypeOK
      <4> QED
        BY <1>1, <1>2, <2>1, <3>1, <4>1, <4>2, HandlesDiffer DEF Entry, Drop
    <3>2. CASE u # t
      <4>1. Entry(u, todo[u][i]) /\ todo'[u] = todo[u]
        BY <2>2, <3>2 DEF IInv, EntriesOK
      <4> QED
        BY <1>1, <1>2, <2>1, <4>1 DEF Entry
    <3> QED
      BY <3>1, <3>2
  <2>8. HandlesOK'
    BY <1>1, <1>2, <2>1, <2>2 DEF IInv, SessionTypeOK, HandlesOK, memory
  <2>9. PassOK' /\ RemovesOK'
    BY <1>1, <1>2, <2>1, SessionAssumption DEF IInv, SessionTypeOK, PassOK, RemovesOK, Thread
  <2> QED
    BY <2>4, <2>6, <2>7, <2>8, <2>9 DEF IInv, Memory
<1> QED
  BY <1>3, <1>4

\* LeaveRemove and Return: a thread gives up one of its own handles.
LEMMA GivingUpKeeps ==
    ASSUME IInv, NEW t \in Handler, LeaveRemove(t) \/ Return(t)
    PROVE  IInv'
<1> DEFINE d == session[t]
<1>1. t \in Thread /\ t # timer /\ todo[t] = <<>> /\ seen[t] = Unseen
      /\ NoData \notin Data
  BY NothingLoaded, SessionAssumption DEF LeaveRemove, Return, Is, Thread
<1>2. /\ UNCHANGED <<sessions, memory, fresh, lastAccess, now, id, seen, left>>
      /\ pc' = [pc EXCEPT ![t] = "uses"] \/ pc' = [pc EXCEPT ![t] = "idle"]
      /\ mutex' = mutex \/ (mutex = t /\ mutex' = NoData)
  BY DEF LeaveRemove, Return, Goto
<1>3. \/ /\ todo' = [todo EXCEPT ![t] = <<Drop(d, Copy(t))>>]
         /\ d \in Data /\ session' = session
      \/ /\ todo' = [todo EXCEPT ![t] = <<Drop(d, Variable(t))>>]
         /\ d \in Data /\ session' = [session EXCEPT ![t] = NoData]
      \/ /\ todo' = [todo EXCEPT ![t] = <<>>]
         /\ session' = [session EXCEPT ![t] = NoData]
  BY <1>1 DEF LeaveRemove, Return, Is, Hold, IInv, SessionTypeOK, RemovesOK
<1>4. /\ \A u \in Thread : u # t => todo'[u] = todo[u] /\ session'[u] = session[u]
      /\ \/ todo'[t] = <<>>
         \/ /\ d \in Data
            /\ \/ todo'[t] = <<Drop(d, Copy(t))>>
               \/ todo'[t] = <<Drop(d, Variable(t))>> /\ session'[t] = NoData
      /\ session'[t] \in {session[t], NoData}
  BY <1>1, <1>3 DEF IInv, SessionTypeOK
<1>5. Memory'
  BY <1>1, <1>2, <1>4, MemoryKept
<1>6. SessionTypeOK'
  <2> DEFINE Entries == Seq([data : Data, as : Handle, post : BOOLEAN])
  <2>1. d \in Data => /\ <<Drop(d, Copy(t))>> \in Entries
                      /\ <<Drop(d, Variable(t))>> \in Entries
    BY <1>1, HandlesDiffer DEF Drop
  <2>2. <<>> \in Entries
    BY EmptySeq
  <2>3. todo \in [Thread -> Entries] /\ session \in [Thread -> Data \cup {NoData}]
    BY DEF IInv, SessionTypeOK
  <2> HIDE DEF Entries, d
  <2>4. todo' \in [Thread -> Entries]
    BY <1>1, <1>3, <2>1, <2>2, <2>3
  <2>5. session' \in [Thread -> Data \cup {NoData}]
    BY <1>1, <1>3, <2>3
  <2>6. mutex' \in Thread \cup {NoData} /\ pc' \in [Thread -> {"idle", "asks", "found",
            "uses", "removes", "removed", "assigns", "pass"}]
    BY <1>1, <1>2 DEF IInv, SessionTypeOK
  <2> QED
    BY <1>2, <2>4, <2>5, <2>6 DEF IInv, SessionTypeOK, memory, Entries
<1>7. EntriesOK'
  <2> SUFFICES ASSUME NEW u \in Thread, NEW i \in 1 .. Len(todo'[u])
               PROVE  Entry(u, todo[u][i])'
    BY DEF EntriesOK
  <2>1. CASE u = t
    <3>1. /\ d \in Data
          /\ \/ todo'[u][i] = Drop(d, Copy(t))
             \/ todo'[u][i] = Drop(d, Variable(t)) /\ session'[t] = NoData
      BY <1>4, <2>1
    <3>2. d \notin fresh
      BY <1>1, <3>1 DEF IInv, HandlesOK
    <3> QED
      BY <1>2, <2>1, <3>1, <3>2, HandlesDiffer DEF Entry, Drop
  <2>2. CASE u # t
    <3>1. Entry(u, todo[u][i]) /\ todo'[u] = todo[u] /\ session'[u] = session[u]
      BY <1>4, <2>2 DEF IInv, EntriesOK
    <3> QED
      BY <1>1, <1>2, <2>2, <3>1 DEF Entry
  <2> QED
    BY <2>1, <2>2
<1>8. \A u \in Thread : \/ pc'[u] = pc[u] /\ todo'[u] = todo[u] /\ session'[u] = session[u]
                        \/ pc'[u] \in {"uses", "idle"}
  BY <1>2, <1>4 DEF IInv, SessionTypeOK
<1>10. \A u \in Thread : session'[u] \in {session[u], NoData}
  BY <1>1, <1>4
<1>11. HandlesOK'
  BY <1>2, <1>8, <1>10 DEF IInv, HandlesOK, memory
<1>12. RemovesOK'
  BY <1>8 DEF IInv, RemovesOK
<1>9. PassOK'
  <2>1. pc'[timer] = pc[timer] /\ timer \in Thread
    BY <1>1, <1>2 DEF IInv, SessionTypeOK, Thread
  <2> QED
    BY <1>1, <1>2, <2>1 DEF IInv, PassOK
<1> QED
  BY <1>5, <1>6, <1>7, <1>9, <1>11, <1>12 DEF IInv, Memory

\* FindSession, removeSession, GetById: a thread copies a handle that somebody has.
LEMMA CopyingKeeps ==
    ASSUME IInv, NEW t \in Handler, FindSession(t) \/ removeSession(t) \/ GetById(t)
    PROVE  IInv'
<1> DEFINE States == {"idle", "asks", "found", "uses", "removes", "removed", "assigns", "pass"}
<1>1. t \in Thread /\ NoData \notin Data /\ todo[t] = <<>>
  BY SessionAssumption DEF Thread, FindSession, removeSession, GetById, Is
<1>2. /\ seen' = seen /\ todo' = todo
      /\ UNCHANGED <<sessions, mutex, fresh, now, left>>
      /\ lastAccess' = lastAccess
  BY DEF FindSession, removeSession, GetById
<1>3. PICK d \in Data, h \in {Variable(t), Copy(t)} :
        /\ holders[d] # {} /\ Attach(d, h)
        /\ \/ h = Variable(t) /\ session' = [session EXCEPT ![t] = d]
              /\ id' = [id EXCEPT ![t] = NoData] /\ pc' = [pc EXCEPT ![t] = "found"]
           \/ session' = session /\ session[t] # NoData
              /\ id' = id /\ pc' = [pc EXCEPT ![t] = "removes"]
           \/ h = Copy(t) /\ session' = session
              /\ id' = [id EXCEPT ![t] = d] /\ pc' = [pc EXCEPT ![t] = "assigns"]
  <2>1. CASE FindSession(t)
    <3>1. id[t] \in Data /\ holders[id[t]] # {}
      BY <2>1 DEF FindSession, IInv, SessionTypeOK, HandlesOK
    <3> QED
      BY <2>1, <3>1 DEF FindSession, Hold, Goto
  <2>2. CASE removeSession(t)
    <3>1. session[t] \in Data /\ holders[session[t]] # {} /\ session[t] # NoData
      BY <1>1, <2>2 DEF removeSession, IInv, SessionTypeOK, HandlesOK
    <3> QED
      BY <2>2, <3>1 DEF removeSession, Goto
  <2>3. CASE GetById(t)
    <3>1. PICK d \in sessions : Attach(d, Copy(t)) /\ id' = [id EXCEPT ![t] = d]
      BY <2>3 DEF GetById
    <3>2. d \in Data /\ holders[d] # {}
      BY DEF IInv, SessionTypeOK, HandlesOK
    <3> QED
      BY <2>3, <3>1, <3>2 DEF GetById, Goto
  <2> QED
    BY <2>1, <2>2, <2>3
<1>4. /\ refCount' \in [Data -> Nat] /\ holders' \in [Data -> SUBSET Handle]
      /\ alive' = alive /\ overlapped' = overlapped
      /\ \A e \in Data : holders[e] \subseteq holders'[e]
      /\ \A e \in Data : e # d => holders'[e] = holders[e]
      /\ h \in holders'[d]
      /\ Memory'
  <2>1. h \in Handle
    BY <1>1, HandlesDiffer
  <2> QED
    BY <1>2, <1>3, <2>1, AttachKeeps
<1>5. /\ session \in [Thread -> Data \cup {NoData}] /\ id \in [Thread -> Data \cup {NoData}]
      /\ pc \in [Thread -> States]
      /\ sessions \subseteq Data /\ fresh \subseteq Data
  BY DEF IInv, SessionTypeOK
<1>6. SessionTypeOK'
  <2>1. session' \in [Thread -> Data \cup {NoData}] /\ id' \in [Thread -> Data \cup {NoData}]
    BY <1>1, <1>3, <1>5
  <2>2. pc' \in [Thread -> States]
    BY <1>1, <1>3, <1>5
  <2> QED
    BY <1>2, <1>4, <2>1, <2>2 DEF IInv, SessionTypeOK
<1>7. EntriesOK'
  <2> SUFFICES ASSUME NEW u \in Thread, NEW i \in 1 .. Len(todo[u])
               PROVE  Entry(u, todo[u][i])'
    BY <1>2 DEF EntriesOK
  <2>1. Entry(u, todo[u][i]) /\ u # t
    BY <1>1 DEF IInv, EntriesOK
  <2>2. session'[u] = session[u]
    BY <1>3, <1>5, <2>1
  <2> QED
    BY <1>2, <2>1, <2>2 DEF Entry
<1>8. HandlesOK'
  <2>1. \A e \in sessions : StoreEntry \in holders'[e]
    BY <1>4, <1>5 DEF IInv, HandlesOK
  <2>2. ASSUME NEW u \in Thread, session'[u] # NoData
        PROVE  Variable(u) \in holders'[session'[u]]
    <3>1. CASE session'[u] = session[u]
      BY <1>4, <1>5, <2>2, <3>1 DEF IInv, HandlesOK
    <3>2. CASE session'[u] # session[u]
      BY <1>1, <1>3, <1>4, <1>5, <3>2
    <3> QED
      BY <3>1, <3>2
  <2>3. ASSUME NEW u \in Thread, pc'[u] = "assigns"
        PROVE  todo'[u] = <<>> /\ id'[u] \in Data /\ Copy(u) \in holders'[id'[u]]
    <3>1. CASE u = t
      BY <1>1, <1>2, <1>3, <1>4, <1>5, <2>3, <3>1
    <3>2. CASE u # t
      <4>1. pc[u] = "assigns" /\ id'[u] = id[u]
        BY <1>3, <1>5, <2>3, <3>2
      <4> QED
        BY <1>2, <1>4, <4>1 DEF IInv, HandlesOK
    <3> QED
      BY <3>1, <3>2
  <2>4. ASSUME NEW e \in fresh PROVE holders'[e] = {}
    <3>1. holders[e] = {} /\ e \in Data /\ e # d
      BY <1>3, <1>5 DEF IInv, HandlesOK
    <3> QED
      BY <1>4, <3>1
  <2> QED
    BY <1>2, <2>1, <2>2, <2>3, <2>4 DEF HandlesOK
<1>9. PassOK'
  <2>1. pc'[timer] = pc[timer]
    BY <1>3, <1>5, SessionAssumption DEF Thread
  <2> QED
    BY <1>2, <2>1 DEF IInv, PassOK
<1>10. RemovesOK'
  <2> SUFFICES ASSUME NEW u \in Thread, pc'[u] \in {"removes", "removed"}
               PROVE  session'[u] # NoData
    BY DEF RemovesOK
  <2>1. CASE u = t
    BY <1>1, <1>3, <1>5, <2>1
  <2>2. CASE u # t
    BY <1>3, <1>5, <2>2 DEF IInv, RemovesOK
  <2> QED
    BY <2>1, <2>2
<1> QED
  BY <1>4, <1>6, <1>7, <1>8, <1>9, <1>10 DEF IInv, Memory

LEMMA CreateSessionKeeps ==
    ASSUME IInv, NEW t \in Handler, CreateSession(t)
    PROVE  IInv'
<1> DEFINE States == {"idle", "asks", "found", "uses", "removes", "removed", "assigns", "pass"}
<1>1. PICK d \in fresh :
        /\ fresh' = fresh \ {d}
        /\ alive' = alive \cup {d}
        /\ refCount' = [refCount EXCEPT ![d] = 2]
        /\ holders' = [holders EXCEPT ![d] = {Variable(t), StoreEntry}]
        /\ sessions' = sessions \cup {d}
        /\ lastAccess' = [lastAccess EXCEPT ![d] = now]
        /\ session' = [session EXCEPT ![t] = d]
  BY DEF CreateSession, Hold
<1>2. /\ id' = [id EXCEPT ![t] = NoData] /\ pc' = [pc EXCEPT ![t] = "uses"]
      /\ UNCHANGED <<mutex, overlapped, now, todo, seen, left>>
      /\ todo[t] = <<>> /\ t \in Thread
  BY DEF CreateSession, Goto, Is, Thread
<1>3. /\ sessions \subseteq Data /\ alive \subseteq Data /\ fresh \subseteq Data
      /\ refCount \in [Data -> Nat] /\ holders \in [Data -> SUBSET Handle]
      /\ lastAccess \in [Data -> Nat] /\ now \in Nat
      /\ pc \in [Thread -> States]
      /\ id \in [Thread -> Data \cup {NoData}] /\ session \in [Thread -> Data \cup {NoData}]
      /\ d \in Data /\ holders[d] = {} /\ d \notin sessions
  BY <1>1 DEF IInv, SessionTypeOK, HandlesOK
<1>4. /\ \A e \in Data \ {d} : holders'[e] = holders[e] /\ refCount'[e] = refCount[e]
      /\ holders'[d] = {Variable(t), StoreEntry} /\ refCount'[d] = 2
      /\ holders' \in [Data -> SUBSET Handle] /\ refCount' \in [Data -> Nat]
  BY <1>1, <1>2, <1>3, HandlesDiffer
<1>5. SessionTypeOK'
  <2>1. sessions' \subseteq Data /\ alive' \subseteq Data /\ fresh' \subseteq Data
    BY <1>1, <1>3
  <2>2. /\ lastAccess' \in [Data -> Nat] /\ pc' \in [Thread -> States]
        /\ id' \in [Thread -> Data \cup {NoData}] /\ session' \in [Thread -> Data \cup {NoData}]
    BY <1>1, <1>2, <1>3
  <2> QED
    BY <1>2, <1>4, <2>1, <2>2 DEF IInv, SessionTypeOK
<1>6. EntriesOK'
  <2> SUFFICES ASSUME NEW u \in Thread, NEW i \in 1 .. Len(todo[u])
               PROVE  Entry(u, todo[u][i])'
    BY <1>2 DEF EntriesOK
  <2>1. Entry(u, todo[u][i]) /\ u # t
    BY <1>2 DEF IInv, EntriesOK
  <2>2. session'[u] = session[u]
    BY <1>1, <1>3, <2>1
  <2> QED
    BY <1>1, <1>2, <2>1, <2>2 DEF Entry
<1>7. HandlesOK'
  <2>1. \A e \in sessions' : StoreEntry \in holders'[e]
    BY <1>1, <1>3, <1>4 DEF IInv, HandlesOK
  <2>2. ASSUME NEW u \in Thread, session'[u] # NoData
        PROVE  Variable(u) \in holders'[session'[u]]
    <3>1. CASE u = t
      BY <1>1, <1>3, <1>4, <3>1
    <3>2. CASE u # t
      <4>1. session'[u] = session[u] /\ session[u] \in Data
            /\ Variable(u) \in holders[session[u]]
        BY <1>1, <1>3, <2>2, <3>2 DEF IInv, HandlesOK
      <4> QED
        BY <1>3, <1>4, <4>1
    <3> QED
      BY <3>1, <3>2
  <2>3. ASSUME NEW u \in Thread, pc'[u] = "assigns"
        PROVE  todo'[u] = <<>> /\ id'[u] \in Data /\ Copy(u) \in holders'[id'[u]]
    <3>1. u # t /\ pc[u] = "assigns" /\ id'[u] = id[u] /\ todo'[u] = todo[u]
      BY <1>2, <1>3, <2>3
    <3>2. todo[u] = <<>> /\ id[u] \in Data /\ Copy(u) \in holders[id[u]]
      BY <3>1 DEF IInv, HandlesOK
    <3> QED
      BY <1>3, <1>4, <3>1, <3>2
  <2>4. \A e \in fresh' : holders'[e] = {}
    BY <1>1, <1>3, <1>4 DEF IInv, HandlesOK
  <2> QED
    BY <2>1, <2>2, <2>3, <2>4 DEF HandlesOK
<1>8. PassOK' /\ RemovesOK'
  <2>1. left' = left /\ mutex' = mutex /\ sessions \subseteq sessions'
    BY <1>1, <1>2
  <2>2. \A u \in Thread : pc'[u] \in {"removes", "removed"} =>
          pc'[u] = pc[u] /\ session'[u] = session[u]
    BY <1>1, <1>2, <1>3
  <2>3. pc'[timer] = pc[timer]
    BY <1>2, <1>3, SessionAssumption DEF Thread
  <2> QED
    BY <2>1, <2>2, <2>3 DEF IInv, PassOK, RemovesOK
<1>9. CountsOK'
  <2>1. Cardinality({Variable(t), StoreEntry}) <= 2
    <3>1. Variable(t) \in Handle /\ StoreEntry \in Handle
      BY <1>2, HandlesDiffer
    <3>2. Cardinality({Variable(t)}) = 1 /\ {Variable(t)} \in SUBSET Handle
      BY <3>1, FS_Singleton
    <3>3. {Variable(t), StoreEntry} = {Variable(t)} \cup {StoreEntry}
      OBVIOUS
    <3>4. Cardinality({Variable(t)} \cup {StoreEntry}) <= Cardinality({Variable(t)}) + 1
      BY <3>2, OneMore
    <3> QED
      BY <3>2, <3>3, <3>4
  <2>2. {Variable(t), StoreEntry} \in SUBSET Handle
    BY <1>3, <1>4
  <2>3. refCount'[d] >= Cardinality(holders'[d])
    BY <1>4, <2>1, <2>2, HoldersAreFinite
  <2>4. \A e \in Data \ {d} : refCount'[e] >= Cardinality(holders'[e])
    BY <1>4 DEF IInv, CountsOK
  <2> QED
    BY <2>3, <2>4 DEF CountsOK
<1>10. LoadsOK'
  <2> SUFFICES ASSUME NEW u \in Thread, seen[u] # Unseen PROVE Loaded(u)'
    BY <1>2 DEF LoadsOK, Loaded
  <2> DEFINE k == Head(todo[u])
  <2>1. Loaded(u) /\ todo[u] # <<>>
    BY DEF IInv, LoadsOK, Loaded
  <2>2. k.data \in Data /\ k.data # d
    BY <1>1, <2>1, HeadIsEntry, HeadIsOwn DEF IInv, Entry
  <2>3. holders'[k.data] = holders[k.data]
    BY <1>4, <2>2
  <2> QED
    BY <1>2, <2>1, <2>3 DEF Loaded
<1>11. HeldIsAlive'
  BY <1>1, <1>4 DEF IInv, HeldIsAlive
<1> QED
  BY <1>5, <1>6, <1>7, <1>8, <1>9, <1>10, <1>11 DEF IInv

\* operator=: the old data gets one handle less or the same, the new one at most one more.
LEMMA AssignKeeps ==
    ASSUME IInv, NEW t \in Handler, Assign(t)
    PROVE  IInv'
<1> DEFINE States == {"idle", "asks", "found", "uses", "removes", "removed", "assigns", "pass"}
           Entries == Seq([data : Data, as : Handle, post : BOOLEAN])
           d == id[t]
           o == session[t]
           first == [data |-> o, as |-> Old(t), post |-> TRUE]
           second == Drop(d, Copy(t))
<1>1. /\ t \in Thread /\ NoData \notin Data /\ todo[t] = <<>> /\ readers(d) = {}
      /\ d \in Data /\ holders[d] # {} /\ Copy(t) \in holders[d]
      /\ o \in Data \cup {NoData} /\ (o # NoData => Variable(t) \in holders[o])
  BY SessionAssumption DEF Assign, Is, Thread, IInv, SessionTypeOK, HandlesOK
<1>2. /\ refCount' = [refCount EXCEPT ![d] = @ + 1]
      /\ holders' = [e \in Data |->
            (holders[e] \ {Variable(t)}) \cup (IF e = o THEN {Old(t)} ELSE {})
                                         \cup (IF e = d THEN {Variable(t)} ELSE {})]
      /\ lastAccess' = [lastAccess EXCEPT ![d] = now]
      /\ session' = [session EXCEPT ![t] = d]
      /\ todo' = [todo EXCEPT ![t] = IF o = NoData THEN <<second>> ELSE <<first, second>>]
      /\ id' = [id EXCEPT ![t] = NoData]
      /\ pc' = [pc EXCEPT ![t] = "uses"]
      /\ UNCHANGED <<sessions, mutex, alive, overlapped, fresh, now, seen, left>>
  BY <1>1 DEF Assign, Hold, Goto
<1>3. /\ refCount \in [Data -> Nat] /\ holders \in [Data -> SUBSET Handle]
      /\ lastAccess \in [Data -> Nat] /\ now \in Nat /\ pc \in [Thread -> States]
      /\ id \in [Thread -> Data \cup {NoData}] /\ session \in [Thread -> Data \cup {NoData}]
      /\ todo \in [Thread -> Entries] /\ seen \in [Thread -> Nat \cup {Unseen}]
      /\ sessions \subseteq Data /\ fresh \subseteq Data
      /\ seen[t] = Unseen
  BY <1>1, NothingLoaded DEF IInv, SessionTypeOK
<1>4. {Variable(t), Copy(t), Old(t), StoreEntry} \subseteq Handle
      /\ StoreEntry \notin {Variable(t), Copy(t), Old(t)} /\ Variable(t) # Copy(t)
  BY <1>1, HandlesDiffer
<1>5. /\ holders' \in [Data -> SUBSET Handle] /\ refCount' \in [Data -> Nat]
      /\ Variable(t) \in holders'[d]
      /\ \A e \in Data : \A h \in Handle \ {Variable(t), Old(t)} :
            h \in holders'[e] <=> h \in holders[e]
  BY <1>1, <1>2, <1>3, <1>4
<1>6. \A u \in Thread : u # t =>
        todo'[u] = todo[u] /\ session'[u] = session[u] /\ id'[u] = id[u] /\ pc'[u] = pc[u]
  BY <1>2, <1>3
<1>7. /\ pc'[t] = "uses" /\ session'[t] = d /\ d # NoData
      /\ todo'[t] = IF o = NoData THEN <<second>> ELSE <<first, second>>
  BY <1>1, <1>2, <1>3
<1>8. ASSUME NEW e \in Data
      PROVE  /\ Cardinality(holders'[e]) <= Cardinality(holders[e]) + (IF e = d THEN 1 ELSE 0)
             /\ Cardinality(holders'[e]) \in Nat /\ Cardinality(holders[e]) \in Nat
  <2> DEFINE V == Variable(t)
             S == holders[e]
  <2>1. S \in SUBSET Handle /\ S \ {V} \in SUBSET Handle
    BY <1>3
  <2>2. holders'[e] \in SUBSET Handle
    BY <1>5
  <2>3. /\ Cardinality(holders'[e]) \in Nat /\ Cardinality(S) \in Nat
        /\ Cardinality(S \ {V}) \in Nat
    BY <2>1, <2>2, HoldersAreFinite
  <2>4. /\ V \in S => Cardinality(S \ {V}) = Cardinality(S) - 1
        /\ Cardinality(S \ {V}) <= Cardinality(S)
        /\ Cardinality((S \ {V}) \cup {Old(t)}) <= Cardinality(S \ {V}) + 1
        /\ Cardinality((S \ {V}) \cup {V}) <= Cardinality(S \ {V}) + 1
        /\ Cardinality(S \cup {Old(t)}) <= Cardinality(S) + 1
    BY <2>1, OneMore
  <2>5. holders'[e] = (S \ {V}) \cup (IF e = o THEN {Old(t)} ELSE {})
                                \cup (IF e = d THEN {V} ELSE {})
    BY <1>2
  <2>6. CASE e = o /\ e = d
    <3>1. V \in S
      BY <1>1, <2>6
    <3>2. holders'[e] = S \cup {Old(t)}
      BY <2>5, <2>6, <3>1
    <3> QED
      BY <2>3, <2>4, <2>6, <3>2
  <2>7. CASE e = o /\ e # d
    <3>1. V \in S
      BY <1>1, <2>7
    <3>2. holders'[e] = (S \ {V}) \cup {Old(t)}
      BY <2>5, <2>7
    <3> QED
      BY <2>3, <2>4, <2>7, <3>1, <3>2
  <2>8. CASE e # o /\ e = d
    <3>1. holders'[e] = (S \ {V}) \cup {V}
      BY <2>5, <2>8
    <3> QED
      BY <2>3, <2>4, <2>8, <3>1
  <2>9. CASE e # o /\ e # d
    <3>1. holders'[e] = S \ {V}
      BY <2>5, <2>9
    <3> QED
      BY <2>3, <2>4, <2>9, <3>1
  <2> QED
    BY <2>6, <2>7, <2>8, <2>9
<1>9. SessionTypeOK'
  <2>1. <<second>> \in Entries /\ (o # NoData => <<first, second>> \in Entries)
    BY <1>1, <1>4 DEF Drop
  <2> HIDE DEF first, second, Entries
  <2>2. todo' \in [Thread -> Entries]
    BY <1>1, <1>2, <1>3, <2>1
  <2>3. /\ lastAccess' \in [Data -> Nat] /\ pc' \in [Thread -> States]
        /\ id' \in [Thread -> Data \cup {NoData}] /\ session' \in [Thread -> Data \cup {NoData}]
    BY <1>1, <1>2, <1>3
  <2> QED
    BY <1>2, <1>5, <2>2, <2>3 DEF IInv, SessionTypeOK, Entries
<1>10. EntriesOK'
  <2> SUFFICES ASSUME NEW u \in Thread, NEW i \in 1 .. Len(todo'[u])
               PROVE  Entry(u, todo[u][i])'
    BY DEF EntriesOK
  <2>1. CASE u = t
    <3>1. todo'[u][i] = second \/ (o # NoData /\ todo'[u][i] = first)
      <4>1. CASE o = NoData
        BY <1>7, <2>1, <4>1
      <4>2. CASE o # NoData
        BY <1>7, <2>1, <4>2
      <4> QED
        BY <4>1, <4>2
    <3>2. d \notin fresh /\ (o # NoData => o \notin fresh)
      BY <1>1 DEF IInv, HandlesOK
    <3> QED
      BY <1>1, <1>2, <1>4, <2>1, <3>1, <3>2, HandlesDiffer DEF Entry, Drop
  <2>2. CASE u # t
    <3>1. Entry(u, todo[u][i]) /\ todo'[u] = todo[u] /\ session'[u] = session[u]
      BY <1>6, <2>2 DEF IInv, EntriesOK
    <3> QED
      BY <1>2, <3>1 DEF Entry
  <2> QED
    BY <2>1, <2>2
<1>11. HandlesOK'
  <2>1. \A e \in sessions : StoreEntry \in holders'[e]
    BY <1>3, <1>4, <1>5 DEF IInv, HandlesOK
  <2>2. ASSUME NEW u \in Thread, session'[u] # NoData
        PROVE  Variable(u) \in holders'[session'[u]]
    <3>1. CASE u = t
      BY <1>5, <1>7, <3>1
    <3>2. CASE u # t
      <4>1. session'[u] = session[u] /\ session[u] \in Data
            /\ Variable(u) \in holders[session[u]]
        BY <1>3, <1>6, <2>2, <3>2 DEF IInv, HandlesOK
      <4>2. Variable(u) \in Handle \ {Variable(t), Old(t)}
        BY <1>1, <3>2, HandlesDiffer
      <4> QED
        BY <1>5, <4>1, <4>2
    <3> QED
      BY <3>1, <3>2
  <2>3. ASSUME NEW u \in Thread, pc'[u] = "assigns"
        PROVE  todo'[u] = <<>> /\ id'[u] \in Data /\ Copy(u) \in holders'[id'[u]]
    <3>1. u # t
      BY <1>7, <2>3
    <3>2. /\ todo'[u] = todo[u] /\ id'[u] = id[u]
          /\ todo[u] = <<>> /\ id[u] \in Data /\ Copy(u) \in holders[id[u]]
      BY <1>6, <2>3, <3>1 DEF IInv, HandlesOK
    <3>3. Copy(u) \in Handle \ {Variable(t), Old(t)}
      BY <1>1, HandlesDiffer
    <3> QED
      BY <1>5, <3>2, <3>3
  <2>4. ASSUME NEW e \in fresh PROVE holders'[e] = {}
    <3>1. e \in Data /\ holders[e] = {} /\ e # d /\ e # o
      BY <1>1, <1>3 DEF IInv, HandlesOK
    <3> QED
      BY <1>2, <3>1
  <2> QED
    BY <1>2, <2>1, <2>2, <2>3, <2>4 DEF HandlesOK
<1>12. PassOK' /\ RemovesOK'
  <2>1. pc'[timer] = pc[timer]
    BY <1>6, SessionAssumption DEF Thread
  <2>2. PassOK'
    BY <1>2, <2>1 DEF IInv, PassOK
  <2>3. RemovesOK'
    BY <1>6, <1>7 DEF IInv, RemovesOK
  <2> QED
    BY <2>2, <2>3
<1>13. CountsOK'
  <2> SUFFICES ASSUME NEW e \in Data PROVE refCount'[e] >= Cardinality(holders'[e])
    BY DEF CountsOK
  <2>1. refCount[e] >= Cardinality(holders[e]) /\ refCount[e] \in Nat
    BY <1>3 DEF IInv, CountsOK
  <2>2. refCount'[e] = refCount[e] + (IF e = d THEN 1 ELSE 0)
    BY <1>2, <1>3
  <2> QED
    BY <1>8, <2>1, <2>2
<1>14. LoadsOK'
  <2> SUFFICES ASSUME NEW u \in Thread, seen[u] # Unseen PROVE Loaded(u)'
    BY <1>2 DEF LoadsOK, Loaded
  <2> DEFINE k == Head(todo[u])
  <2>1. Loaded(u) /\ todo[u] # <<>> /\ u # t /\ seen[u] \in Nat
    BY <1>3 DEF IInv, LoadsOK, Loaded
  <2>2. k.data \in Data /\ k.data # d /\ k.as \in Handle \ {Variable(t), Old(t)}
    <3>1. k.data \in Data /\ k.as \in Handle /\ Entry(u, k)
      BY <2>1, HeadIsEntry, HeadIsOwn DEF IInv
    <3>2. k.as \notin {Variable(t), Old(t)}
      BY <1>1, <2>1, <3>1, HandlesDiffer DEF Entry
    <3> QED
      BY <1>1, <3>1, <3>2 DEF readers
  <2>3. k.as \in holders'[k.data] <=> k.as \in holders[k.data]
    BY <1>5, <2>2
  <2>4. /\ Cardinality(holders'[k.data]) <= Cardinality(holders[k.data])
        /\ Cardinality(holders'[k.data]) \in Nat /\ Cardinality(holders[k.data]) \in Nat
    BY <1>8, <2>2
  <2>5. todo'[u] = todo[u] /\ seen'[u] = seen[u]
    BY <1>2, <1>6, <2>1
  <2> DEFINE A == Cardinality(holders[k.data])
             B == Cardinality(holders'[k.data])
  <2> HIDE DEF A, B
  <2>6. (seen[u] >= A => seen[u] >= B) /\ (seen[u] >= A + 1 => seen[u] >= B + 1)
    BY <2>1, <2>4 DEF A, B
  <2> QED
    BY <2>1, <2>3, <2>5, <2>6 DEF Loaded, A, B
<1>15. HeldIsAlive'
  <2> SUFFICES ASSUME NEW e \in Data, holders'[e] # {} PROVE e \in alive
    BY <1>2 DEF HeldIsAlive
  <2>1. holders[e] # {}
    BY <1>1, <1>2
  <2> QED
    BY <2>1 DEF IInv, HeldIsAlive
<1> QED
  BY <1>9, <1>10, <1>11, <1>12, <1>13, <1>14, <1>15 DEF IInv

--------------------------------------------------------------------------------
(* The timer *)

LEMMA PassBoundsKeep ==
    ASSUME IInv, BeginPass \/ EndPass
    PROVE  IInv'
<1>1. /\ UNCHANGED <<sessions, memory, fresh, lastAccess, now, id, session, todo, seen>>
      /\ \/ /\ pc' = [pc EXCEPT ![timer] = "pass"]
            /\ left' = sessions /\ mutex = NoData /\ mutex' = timer
         \/ /\ pc' = [pc EXCEPT ![timer] = "idle"]
            /\ left = {} /\ left' = left /\ mutex = timer /\ mutex' = NoData
      /\ todo[timer] = <<>> /\ timer \in Thread /\ NoData \notin Thread
  BY SessionAssumption DEF BeginPass, EndPass, Goto, Is, Thread, IInv, PassOK
<1>2. Memory'
  BY <1>1, MemoryKept
<1>3. SessionTypeOK'
  BY <1>1 DEF IInv, SessionTypeOK, memory
<1>4. \A u \in Thread : pc'[u] = pc[u] \/ pc'[u] \in {"pass", "idle"}
  BY <1>1 DEF IInv, SessionTypeOK
<1>5. HandlesOK' /\ PassOK' /\ RemovesOK'
  <2>1. pc \in [Thread -> {"idle", "asks", "found", "uses", "removes", "removed",
                           "assigns", "pass"}]
    BY DEF IInv, SessionTypeOK
  <2>2. PassOK'
    BY <1>1, <2>1 DEF IInv, PassOK
  <2>3. HandlesOK' /\ RemovesOK'
    BY <1>1, <1>4 DEF IInv, HandlesOK, RemovesOK, memory
  <2> QED
    BY <2>2, <2>3
<1>6. EntriesOK'
  <2> SUFFICES ASSUME NEW u \in Thread, NEW i \in 1 .. Len(todo[u])
               PROVE  Entry(u, todo[u][i])'
    BY <1>1 DEF EntriesOK
  <2>1. Entry(u, todo[u][i]) /\ u # timer
    BY <1>1 DEF IInv, EntriesOK
  <2>2. todo[u][i].as = StoreEntry => mutex' = u
    <3>1. todo[u][i].as = StoreEntry => mutex = u /\ u # NoData
      BY <1>1, <2>1 DEF Entry
    <3> QED
      BY <1>1, <2>1, <3>1
  <2> QED
    BY <1>1, <2>1, <2>2 DEF Entry
<1> QED
  BY <1>2, <1>3, <1>5, <1>6 DEF IInv, Memory

LEMMA LookAtKeeps ==
    ASSUME IInv, NEW d \in Data, LookAt(d)
    PROVE  IInv'
<1> DEFINE Entries == Seq([data : Data, as : Handle, post : BOOLEAN])
           first == Drop(d, StoreEntry)
           second == Drop(d, Copy(timer))
<1>1. timer \in Thread /\ todo[timer] = <<>> /\ d \in left /\ pc[timer] = "pass"
  BY DEF LookAt, Is, Thread
<1>2. mutex = timer /\ d \in sessions /\ holders[d] # {} /\ d \notin fresh
  BY <1>1 DEF IInv, PassOK, HandlesOK
<1>3. /\ left' = left \ {d} /\ Attach(d, Copy(timer))
      /\ UNCHANGED <<mutex, fresh, lastAccess, now, pc, id, session, seen>>
  BY DEF LookAt
<1>4. \/ /\ sessions' = sessions \ {d}
         /\ todo' = [todo EXCEPT ![timer] = <<first, second>>]
      \/ /\ sessions' = sessions
         /\ todo' = [todo EXCEPT ![timer] = <<second>>]
  BY DEF LookAt
<1>5. todo \in [Thread -> Entries] /\ seen[timer] = Unseen
  BY <1>1, NothingLoaded DEF IInv, SessionTypeOK
<1>6. \A u \in Thread : u # timer => todo'[u] = todo[u]
  BY <1>4, <1>5
<1>7. /\ refCount' \in [Data -> Nat] /\ holders' \in [Data -> SUBSET Handle]
      /\ alive' = alive /\ overlapped' = overlapped
      /\ \A e \in Data : holders[e] \subseteq holders'[e]
      /\ \A e \in Data : e # d => holders'[e] = holders[e]
      /\ Memory'
  <2>1. Copy(timer) \in Handle
    BY <1>1, HandlesDiffer
  <2> QED
    BY <1>2, <1>3, <1>5, <1>6, <2>1, AttachKeeps
<1>8. SessionTypeOK'
  <2>1. <<first, second>> \in Entries /\ <<second>> \in Entries
    BY <1>1, HandlesDiffer DEF Drop
  <2> HIDE DEF first, second, Entries
  <2>2. todo' \in [Thread -> Entries]
    BY <1>4, <1>5, <2>1
  <2>3. sessions' \subseteq Data /\ left' \subseteq Data
    BY <1>3, <1>4 DEF IInv, SessionTypeOK
  <2> QED
    BY <1>3, <1>7, <2>2, <2>3 DEF IInv, SessionTypeOK, Entries
<1>9. EntriesOK'
  <2> SUFFICES ASSUME NEW u \in Thread, NEW i \in 1 .. Len(todo'[u])
               PROVE  Entry(u, todo[u][i])'
    BY DEF EntriesOK
  <2>1. CASE u = timer
    <3>1. \/ todo'[u][i] = first /\ sessions' = sessions \ {d}
          \/ todo'[u][i] = second
      <4>1. CASE todo' = [todo EXCEPT ![timer] = <<first, second>>] /\ sessions' = sessions \ {d}
        BY <1>1, <1>5, <2>1, <4>1
      <4>2. CASE todo' = [todo EXCEPT ![timer] = <<second>>]
        BY <1>1, <1>5, <2>1, <4>2
      <4> QED
        BY <1>4, <4>1, <4>2
    <3> QED
      BY <1>1, <1>2, <1>3, <2>1, <3>1, HandlesDiffer DEF Entry, Drop
  <2>2. CASE u # timer
    <3>1. Entry(u, todo[u][i]) /\ todo'[u] = todo[u]
      BY <1>6, <2>2 DEF IInv, EntriesOK
    <3> QED
      BY <1>3, <1>4, <3>1 DEF Entry
  <2> QED
    BY <2>1, <2>2
<1>10. HandlesOK'
  <2>1. \A e \in sessions' : StoreEntry \in holders'[e]
    BY <1>4, <1>7 DEF IInv, SessionTypeOK, HandlesOK
  <2>2. ASSUME NEW u \in Thread, session[u] # NoData
        PROVE  Variable(u) \in holders'[session[u]]
    BY <1>7, <2>2 DEF IInv, SessionTypeOK, HandlesOK
  <2>3. ASSUME NEW u \in Thread, pc[u] = "assigns"
        PROVE  todo'[u] = <<>> /\ id[u] \in Data /\ Copy(u) \in holders'[id[u]]
    BY <1>1, <1>6, <1>7, <2>3 DEF IInv, HandlesOK
  <2>4. \A e \in fresh : holders'[e] = {}
    BY <1>2, <1>7 DEF IInv, SessionTypeOK, HandlesOK
  <2> QED
    BY <1>3, <2>1, <2>2, <2>3, <2>4 DEF HandlesOK
<1>11. PassOK' /\ RemovesOK'
  BY <1>1, <1>2, <1>3, <1>4 DEF IInv, PassOK, RemovesOK
<1> QED
  BY <1>7, <1>8, <1>9, <1>10, <1>11 DEF IInv, Memory

--------------------------------------------------------------------------------
(* The theorem *)

LEMMA InitIInv == SessionInit => IInv
<1> SUFFICES ASSUME SessionInit PROVE IInv
  OBVIOUS
<1>1. SessionTypeOK
  <2>1. todo \in [Thread -> Seq([data : Data, as : Handle, post : BOOLEAN])]
    BY EmptySeq DEF SessionInit
  <2> QED
    BY <2>1, SessionAssumption DEF SessionInit, SessionTypeOK
<1>2. EntriesOK /\ HandlesOK /\ PassOK /\ RemovesOK
  <2>1. timer \in Thread
    BY DEF Thread
  <2> QED
    BY <2>1 DEF SessionInit, EntriesOK, HandlesOK, PassOK, RemovesOK
<1>3. CountsOK /\ HeldIsAlive
  BY FS_EmptySet DEF SessionInit, CountsOK, HeldIsAlive
<1>4. LoadsOK
  BY DEF SessionInit, LoadsOK, Loaded
<1> QED
  BY <1>1, <1>2, <1>3, <1>4 DEF IInv

LEMMA NextIInv == IInv /\ [SessionNext]_sessionVars => IInv'
<1> SUFFICES ASSUME IInv, [SessionNext]_sessionVars PROVE IInv'
  OBVIOUS
<1>1. ASSUME NEW t \in Thread, Destroy(t) PROVE IInv'
  BY <1>1, LoadCountKeeps, StoreCountKeeps, UnlockKeeps DEF Destroy
<1>2. ASSUME NEW t \in Handler, Serve(t) PROVE IInv'
  <2>1. CASE getSessionId(t) \/ GetNullSession(t) \/ setLastAccess(t)
    BY <2>1, QuietKeeps
  <2>2. CASE FindSession(t) \/ removeSession(t) \/ GetById(t)
    BY <2>2, CopyingKeeps
  <2>3. CASE LeaveRemove(t) \/ Return(t)
    BY <2>3, GivingUpKeeps
  <2>4. CASE CreateSession(t)
    BY <2>4, CreateSessionKeeps
  <2>5. CASE RemoveEntry(t)
    BY <2>5, RemoveEntryKeeps
  <2>6. CASE Assign(t)
    BY <2>6, AssignKeeps
  <2> QED
    BY <1>2, <2>1, <2>2, <2>3, <2>4, <2>5, <2>6 DEF Serve
<1>3. CASE BeginPass \/ Pass
  BY <1>3, PassBoundsKeep, LookAtKeeps DEF Pass
<1>4. CASE SessionTick
  BY <1>4, QuietKeeps
<1>5. CASE UNCHANGED sessionVars
  <2>1. Memory'
    BY <1>5, MemoryKept DEF sessionVars
  <2>2. SessionTypeOK' /\ EntriesOK' /\ HandlesOK' /\ PassOK' /\ RemovesOK'
    BY <1>5 DEF IInv, SessionTypeOK, EntriesOK, Entry, HandlesOK, PassOK, RemovesOK,
                sessionVars, memory
  <2> QED
    BY <2>1, <2>2 DEF IInv, Memory
<1> QED
  BY <1>1, <1>2, <1>3, <1>4, <1>5 DEF SessionNext

\* The end of a handle that no other end has overlapped is the only reader of its data.
Alone ==
    \A t \in Thread : seen[t] # Unseen /\ ~ overlapped[t] =>
        /\ Head(todo[t]).data \in alive
        /\ readers(Head(todo[t]).data) = {t}

\* Whatever a thread does that is not at the end of a handle leaves the others alone.
LEMMA OthersGoOn ==
    ASSUME IInv, [SessionNext]_sessionVars, \A t \in Thread : ~ Destroy(t)
    PROVE  /\ overlapped' = overlapped /\ seen' = seen /\ alive \subseteq alive'
           /\ \A t \in Thread : seen[t] # Unseen => todo'[t] = todo[t]
<1>1. \A t \in Thread : todo[t] = <<>> => seen[t] = Unseen
  BY NothingLoaded
<1>2. todo \in [Thread -> Seq([data : Data, as : Handle, post : BOOLEAN])]
  BY DEF IInv, SessionTypeOK
<1>3. ASSUME NEW t \in Handler, Serve(t)
      PROVE  /\ overlapped' = overlapped /\ seen' = seen /\ alive \subseteq alive'
             /\ \A u \in Thread : seen[u] # Unseen => todo'[u] = todo[u]
  <2>0. t \in Thread
    BY DEF Thread
  <2>1. CASE getSessionId(t) \/ GetNullSession(t) \/ setLastAccess(t)
    BY <2>1 DEF getSessionId, GetNullSession, setLastAccess, memory
  <2>2. CASE FindSession(t) \/ removeSession(t) \/ GetById(t)
    BY <2>2 DEF FindSession, removeSession, GetById, Attach
  <2>3. CASE LeaveRemove(t) \/ Return(t)
    BY <1>1, <1>2, <2>0, <2>3 DEF LeaveRemove, Return, Is, memory
  <2>4. CASE CreateSession(t)
    BY <2>4 DEF CreateSession
  <2>5. CASE RemoveEntry(t)
    BY <1>1, <1>2, <2>0, <2>5 DEF RemoveEntry, Is, memory
  <2>6. CASE Assign(t)
    <3>1. /\ todo[t] = <<>> /\ seen' = seen /\ overlapped' = overlapped /\ alive' = alive
          /\ \E x : todo' = [todo EXCEPT ![t] = x]
      BY <2>6 DEF Assign, Is
    <3> QED
      BY <1>1, <1>2, <2>0, <3>1
  <2> QED
    BY <1>3, <2>1, <2>2, <2>3, <2>4, <2>5, <2>6 DEF Serve
<1>4. CASE BeginPass \/ EndPass \/ SessionTick \/ UNCHANGED sessionVars
  BY <1>4 DEF BeginPass, EndPass, SessionTick, sessionVars, memory
<1>5. ASSUME NEW d \in Data, LookAt(d)
      PROVE  /\ overlapped' = overlapped /\ seen' = seen /\ alive \subseteq alive'
             /\ \A u \in Thread : seen[u] # Unseen => todo'[u] = todo[u]
  <2>1. /\ todo[timer] = <<>> /\ timer \in Thread
        /\ seen' = seen /\ overlapped' = overlapped /\ alive' = alive
        /\ \E x : todo' = [todo EXCEPT ![timer] = x]
    BY <1>5 DEF LookAt, Is, Attach, Thread
  <2> QED
    BY <1>1, <1>2, <2>1
<1> QED
  BY <1>3, <1>4, <1>5 DEF SessionNext, Pass

LEMMA AloneKeeps ==
    ASSUME IInv, Alone, [SessionNext]_sessionVars
    PROVE  Alone'
<1>1. /\ seen \in [Thread -> Nat \cup {Unseen}] /\ overlapped \in [Thread -> BOOLEAN]
      /\ todo \in [Thread -> Seq([data : Data, as : Handle, post : BOOLEAN])]
  BY DEF IInv, SessionTypeOK
<1>2. ASSUME NEW u \in Thread, LoadCount(u) PROVE Alone'
  <2> DEFINE d == Head(todo[u]).data
  <2>1. /\ seen[u] = Unseen /\ todo' = todo /\ alive' = alive
        /\ \A t \in Thread \ {u} : seen'[t] = seen[t]
        /\ d \in alive
    <3>1. d \in Data /\ Head(todo[u]).as \in holders[d]
      BY <1>2, HeadIsEntry DEF LoadCount, IInv
    <3> QED
      BY <1>1, <1>2, <3>1 DEF LoadCount, IInv, HeldIsAlive
  <2>2. ASSUME NEW t \in Thread, ~ overlapped'[t]
        PROVE  ~ overlapped[t] /\ (t \notin readers(d)) /\ (t = u => readers(d) = {})
    <3>1. overlapped'[t] = (\/ overlapped[t]
                            \/ readers(d) # {} /\ t \in readers(d) \cup {u})
      BY <1>2, Zenon DEF LoadCount
    <3> QED
      BY <2>2, <3>1, Zenon
  <2>3. ASSUME NEW t \in Thread, seen'[t] # Unseen, ~ overlapped'[t]
        PROVE  (Head(todo[t]).data \in alive /\ readers(Head(todo[t]).data) = {t})'
    <3>1. CASE t = u
      <4>1. readers(d) = {}
        BY <2>2, <2>3, <3>1
      <4>2. \A v \in Thread \ {u} : seen[v] # Unseen => Head(todo[v]).data # d
        BY <4>1 DEF readers
      <4> QED
        BY <2>1, <2>3, <3>1, <4>2 DEF readers
    <3>2. CASE t # u
      <4>1. seen[t] # Unseen /\ ~ overlapped[t] /\ t \notin readers(d)
        BY <2>1, <2>2, <2>3, <3>2
      <4>2. Head(todo[t]).data \in alive /\ readers(Head(todo[t]).data) = {t}
        BY <4>1 DEF Alone
      <4>3. Head(todo[t]).data # d
        BY <4>1 DEF readers
      <4> QED
        BY <2>1, <4>1, <4>2, <4>3 DEF readers
    <3> QED
      BY <3>1, <3>2
  <2> QED
    BY <2>1, <2>3 DEF Alone
<1>3. ASSUME NEW u \in Thread, StoreCount(u) PROVE Alone'
  BY <1>3 DEF StoreCount, Alone, readers
<1>4. ASSUME NEW u \in Thread, Unlock(u) \/ UnlockFreed(u) PROVE Alone'
  <2> DEFINE d == Head(todo[u]).data
  <2>1. /\ seen[u] # Unseen /\ seen'[u] = Unseen
        /\ \A t \in Thread \ {u} : /\ seen'[t] = seen[t] /\ todo'[t] = todo[t]
                                    /\ overlapped'[t] = overlapped[t]
        /\ alive \ {d} \subseteq alive'
    BY <1>1, <1>4 DEF Unlock, UnlockFreed
  <2> SUFFICES ASSUME NEW t \in Thread, seen'[t] # Unseen, ~ overlapped'[t]
               PROVE  (/\ Head(todo[t]).data \in alive
                       /\ readers(Head(todo[t]).data) = {t})'
    BY DEF Alone
  <2>2. t # u /\ seen[t] # Unseen /\ ~ overlapped[t] /\ todo'[t] = todo[t]
    BY <2>1
  <2>3. Head(todo[t]).data \in alive /\ readers(Head(todo[t]).data) = {t}
    BY <2>2 DEF Alone
  <2>4. Head(todo[t]).data # d
    BY <2>1, <2>2, <2>3 DEF readers
  <2> QED
    BY <2>1, <2>2, <2>3, <2>4 DEF readers
<1>5. CASE \A t \in Thread : ~ Destroy(t)
  <2>1. /\ overlapped' = overlapped /\ seen' = seen /\ alive \subseteq alive'
        /\ \A t \in Thread : seen[t] # Unseen => todo'[t] = todo[t]
    BY <1>5, OthersGoOn
  <2> QED
    BY <2>1 DEF Alone, readers
<1> QED
  BY <1>2, <1>3, <1>4, <1>5 DEF Destroy

\* No thread, and not the store, ever has a handle of a session that was deleted
\* (HttpSession's destructor and operator=), whatever decrements of its counter are
\* lost, for any number of handlers and sessions and any bounds; and a thread that
\* destroys a handle has the lock it is to let go of, unless another destroys one of
\* the same session at the same time.
THEOREM HandlesAreAlive == SessionSpec => []NoHandleDangles
<1>1. IInv /\ Alone => NoHandleDangles
  BY DEF IInv, HeldIsAlive, Alone, EndsHandle, NoHandleDangles
<1>2. SessionInit => Alone
  BY DEF SessionInit, Alone
<1> QED
  BY <1>1, <1>2, InitIInv, NextIInv, AloneKeeps, PTL DEF SessionSpec

--------------------------------------------------------------------------------

(***************************************************************************)
(* The response a handler writes, and the ends of those before it.         *)
(***************************************************************************)
EndsType == {"close", "length", "chunk", "unknown"}

ResponseType ==
    /\ answers \in Seq(EndsType)
    /\ response # NoResponse =>
        response \in [headers : BOOLEAN, last : BOOLEAN, chunked : BOOLEAN,
                      terminated : BOOLEAN, length : Nat \cup {None}, sent : Nat,
                      close : {response.close}]

(* What HttpResponse::write has promised by its headers is kept.           *)
HeadersAreKept(r) ==
    /\ ~ r.headers => r.sent = 0 /\ r.length = None /\ ~ r.chunked /\ ~ r.last
    /\ r.length # None => r.last /\ r.length = r.sent /\ ~ r.chunked
    /\ r.headers /\ ~ r.chunked /\ r.length = None => r.close
    /\ r.last /\ r.chunked => r.terminated

(* A response without a known end is the last of its connection.           *)
AnswersInv ==
    /\ \A i \in DOMAIN answers :
        /\ answers[i] # "unknown"
        /\ answers[i] = "close" => i = Len(answers) /\ conn = "closed" /\ response = NoResponse

ResponseInv ==
    /\ ResponseType
    /\ response # NoResponse => HeadersAreKept(response)
    /\ AnswersInv

LEMMA WrittenKeeps ==
    ASSUME NEW r, NEW c,
           r \in [headers : BOOLEAN, last : BOOLEAN, chunked : BOOLEAN,
                  terminated : BOOLEAN, length : Nat \cup {None}, sent : Nat, close : {c}],
           HeadersAreKept(r), ~ r.last, NEW n \in Nat, NEW last \in BOOLEAN
    PROVE  /\ Written(r, n, last) \in
                [headers : BOOLEAN, last : BOOLEAN, chunked : BOOLEAN,
                 terminated : BOOLEAN, length : Nat \cup {None}, sent : Nat, close : {c}]
           /\ HeadersAreKept(Written(r, n, last))
           /\ Written(r, n, last).last = last
<1> DEFINE w == Written(r, n, last)
           chunked == r.chunked \/ (~ r.headers /\ ~ last /\ ~ r.close)
<1>1. /\ w = [w EXCEPT !.headers = TRUE] /\ w.headers = TRUE /\ w.last = last
      /\ w.chunked = chunked /\ w.terminated = (last /\ chunked)
      /\ w.length = (IF ~ r.headers /\ last THEN n ELSE r.length)
      /\ w.sent = r.sent + n /\ w.close = r.close
  BY DEF Written
<1>2. chunked \in BOOLEAN /\ (last /\ chunked) \in BOOLEAN /\ r.sent \in Nat
      /\ r.length \in Nat \cup {None} /\ r.close = c
  OBVIOUS
<1>3. w \in [headers : BOOLEAN, last : BOOLEAN, chunked : BOOLEAN,
             terminated : BOOLEAN, length : Nat \cup {None}, sent : Nat, close : {c}]
  <2> DEFINE length == IF ~ r.headers /\ last THEN n ELSE r.length
             sent == r.sent + n
             over == last /\ chunked
  <2>1. w = [[[r EXCEPT !.headers = TRUE, !.chunked = chunked] EXCEPT !.last = last, !.length = length]
                EXCEPT !.sent = sent, !.terminated = over]
    BY DEF Written
  <2>2. length \in Nat \cup {None} /\ sent \in Nat /\ over \in BOOLEAN /\ chunked \in BOOLEAN
    BY <1>2
  <2> HIDE DEF w, chunked, length, sent, over
  <2> QED
    BY <2>1, <2>2
<1>4. HeadersAreKept(w)
  <2>1. ASSUME w.length # None PROVE w.last /\ w.length = w.sent /\ ~ w.chunked
    <3> HIDE DEF w
    <3> QED
      BY <1>1, <1>2, <2>1 DEF HeadersAreKept
  <2>2. ASSUME ~ w.chunked, w.length = None PROVE w.close
    <3>1. ~ chunked
      BY <1>1, <2>2
    <3>2. CASE r.headers
      <4>1. r.length = None /\ ~ r.chunked
        BY <1>1, <2>2, <3>1, <3>2
      <4> QED
        BY <1>1, <3>2, <4>1 DEF HeadersAreKept
    <3>3. CASE ~ r.headers /\ last
      <4> HIDE DEF w
      <4> QED
        BY <1>1, <2>2, <3>3 DEF None
    <3>4. CASE ~ r.headers /\ ~ last
      BY <1>1, <3>1, <3>4
    <3> QED
      BY <3>2, <3>3, <3>4
  <2>3. w.last /\ w.chunked => w.terminated
    <3> HIDE DEF w
    <3> QED
      BY <1>1, <1>2
  <2> HIDE DEF w
  <2> QED
    BY <1>1, <2>1, <2>2, <2>3 DEF HeadersAreKept
<1> QED
  BY <1>1, <1>3, <1>4

LEMMA ResponseStep ==
    ASSUME ResponseInv, [RequestNext]_requestVars
    PROVE  ResponseInv'
<1>1. CASE UNCHANGED <<response, answers>> /\ (conn' = conn \/ conn' = "closed")
  BY <1>1 DEF ResponseInv, ResponseType, AnswersInv, HeadersAreKept
<1>2. CASE Arrive \/ CreateRequest \/ readFromSocket \/ RefuseRequest \/ ReadTimeout
           \/ ClientLeaves
  BY <1>1, <1>2 DEF Arrive, CreateRequest, readFromSocket, RefuseRequest, ReadTimeout,
                    ClientLeaves, Close
<1>3. CASE StartService
  <2>1. /\ response' = [headers |-> FALSE, last |-> FALSE, chunked |-> FALSE,
                        length |-> None, sent |-> 0, terminated |-> FALSE,
                        close |-> stream[Len(answers) + 1].close]
        /\ response = NoResponse /\ conn = "open" /\ UNCHANGED <<answers, conn>>
    BY <1>3 DEF StartService, IsReading
  <2>2. ResponseType' /\ HeadersAreKept(response')
    BY <2>1 DEF ResponseInv, ResponseType, HeadersAreKept
  <2>3. AnswersInv'
    BY <2>1 DEF ResponseInv, AnswersInv
  <2> QED
    BY <2>2, <2>3 DEF ResponseInv
<1>4. CASE WritePart
  <2>1. PICK n \in Part, last \in BOOLEAN : response' = Written(response, n, last)
    BY <1>4 DEF WritePart
  <2>2. response # NoResponse /\ ~ response.last /\ UNCHANGED <<answers, conn>> /\ n \in Nat
    BY <1>4 DEF WritePart, Part
  <2> DEFINE c == response.close
  <2>3. response \in [headers : BOOLEAN, last : BOOLEAN, chunked : BOOLEAN,
                      terminated : BOOLEAN, length : Nat \cup {None}, sent : Nat, close : {c}]
        /\ HeadersAreKept(response)
    BY <2>2 DEF ResponseInv, ResponseType
  <2> HIDE DEF c
  <2>4. response' \in [headers : BOOLEAN, last : BOOLEAN, chunked : BOOLEAN,
                       terminated : BOOLEAN, length : Nat \cup {None}, sent : Nat, close : {c}]
        /\ HeadersAreKept(response')
    BY <2>1, <2>2, <2>3, WrittenKeeps
  <2>5. c = response'.close
    BY <2>4
  <2>6. ResponseType'
    BY <2>2, <2>4, <2>5 DEF ResponseInv, ResponseType
  <2>7. AnswersInv'
    BY <2>2 DEF ResponseInv, AnswersInv
  <2> QED
    BY <2>4, <2>6, <2>7 DEF ResponseInv
<1>5. CASE AskForClose
  <2>1. response # NoResponse /\ ~ response.headers /\ UNCHANGED <<answers, conn>>
        /\ response' = [response EXCEPT !.close = TRUE]
    BY <1>5 DEF AskForClose
  <2>2. ResponseType' /\ HeadersAreKept(response')
    BY <2>1 DEF ResponseInv, ResponseType, HeadersAreKept
  <2>3. AnswersInv'
    BY <2>1 DEF ResponseInv, AnswersInv
  <2> QED
    BY <2>2, <2>3 DEF ResponseInv
<1>6. CASE FinishService
  <2> DEFINE final  == IF response.last THEN response ELSE Written(response, 0, TRUE)
             closes == MustClose(final)
             c == response.close
             end == EndOf(final, closes)
  <2>1. /\ response # NoResponse /\ response' = NoResponse
        /\ answers' = Append(answers, end)
        /\ IF closes THEN conn' = "closed" ELSE conn' = conn
    BY <1>6 DEF FinishService, Close
  <2>2. response \in [headers : BOOLEAN, last : BOOLEAN, chunked : BOOLEAN,
                      terminated : BOOLEAN, length : Nat \cup {None}, sent : Nat, close : {c}]
        /\ HeadersAreKept(response)
    BY <2>1 DEF ResponseInv, ResponseType
  <2>3. final \in [headers : BOOLEAN, last : BOOLEAN, chunked : BOOLEAN,
                   terminated : BOOLEAN, length : Nat \cup {None}, sent : Nat, close : {c}]
        /\ HeadersAreKept(final) /\ final.last
    <3> HIDE DEF c
    <3> QED
      BY <2>2, WrittenKeeps
  <2>4. end \in EndsType /\ end # "unknown" /\ (end = "close" => closes)
    <3> HIDE DEF final, c
    <3> QED
      BY <2>3 DEF EndOf, MustClose, HeadersAreKept, EndsType
  <2>5. AnswersInv'
    <3>1. /\ answers \in Seq(EndsType) /\ Len(answers') = Len(answers) + 1
          /\ answers' \in Seq(EndsType)
          /\ \A i \in DOMAIN answers' :
                IF i = Len(answers) + 1 THEN answers'[i] = end
                ELSE i \in DOMAIN answers /\ answers'[i] = answers[i]
      <4> HIDE DEF end
      <4> QED
        BY <2>1, <2>4 DEF ResponseInv, ResponseType
    <3>2. \A i \in DOMAIN answers : answers[i] # "unknown" /\ answers[i] # "close"
      BY <2>1 DEF ResponseInv, AnswersInv
    <3> HIDE DEF end, closes
    <3> QED
      BY <2>1, <2>4, <3>1, <3>2 DEF AnswersInv
  <2>6. ResponseType'
    <3> HIDE DEF end, closes
    <3> QED
      BY <2>1, <2>4 DEF ResponseInv, ResponseType
  <2> QED
    BY <2>1, <2>5, <2>6 DEF ResponseInv
<1>7. CASE UNCHANGED requestVars
  BY <1>1, <1>7 DEF requestVars
<1> QED
  BY <1>2, <1>3, <1>4, <1>5, <1>6, <1>7 DEF RequestNext

LEMMA ResponseInvariant == RequestSpec => []ResponseInv
<1>1. RequestInit => ResponseInv
  BY DEF RequestInit, ResponseInv, ResponseType, AnswersInv, EndsType
<1> QED
  BY <1>1, ResponseStep, PTL DEF RequestSpec

(* A client knows where each response ends, however the handler wrote it:  *)
(* by its length or last chunk, or since the connection ends with it and   *)
(* nothing follows (HttpResponse::write, HttpConnectionHandler::read).     *)
THEOREM ResponsesEnd == RequestSpec => []ResponseEndIsKnown
<1>1. ResponseInv => ResponseEndIsKnown
  BY DEF ResponseInv, ResponseType, AnswersInv, ResponseEndIsKnown
<1> QED
  BY <1>1, ResponseInvariant, PTL

--------------------------------------------------------------------------------

(***************************************************************************)
(* How a stream is made of requests, lines and bytes.                      *)
(***************************************************************************)

\* Total(s) is the last of the partial sums of s.
LEMMA TotalIsSum ==
    ASSUME NEW s \in Seq(Nat)
    PROVE  \E f : SumsUp(f, s) /\ Total(s) = f[Len(s)]
<1> DEFINE sum == CHOOSE f : SumsUp(f, s)
<1>1. \E g : SumsUp(g, s)
  BY SumsExist
<1>2. SumsUp(sum, s)
  BY <1>1
<1>3. Total(s) = sum[Len(s)]
  BY Zenon DEF Total, SumsUp
<1> QED
  BY <1>2, <1>3

\* The sum of the empty sequence, and of one that is longer by a number.
LEMMA TotalOfNone == Total(<<>>) = 0
<1>1. <<>> \in Seq(Nat) /\ Len(<<>>) = 0
  OBVIOUS
<1>2. PICK f : SumsUp(f, <<>>) /\ Total(<<>>) = f[0]
  BY <1>1, TotalIsSum
<1>3. f[0] = 0
  BY <1>1, <1>2, SumsFacts
<1> QED
  BY <1>2, <1>3

LEMMA TotalOfMore ==
    ASSUME NEW s \in Seq(Nat), NEW t \in Seq(Nat), Len(t) = Len(s) + 1,
           \A i \in 1 .. Len(s) : t[i] = s[i]
    PROVE  /\ Total(s) \in Nat
           /\ Total(t) = Total(s) + t[Len(t)]
<1>1. PICK f : SumsUp(f, s) /\ Total(s) = f[Len(s)]
  BY TotalIsSum
<1>2. PICK g : SumsUp(g, t) /\ Total(t) = g[Len(t)]
  BY TotalIsSum
<1> QED
  BY <1>1, <1>2, SumOfMore

UploadPart == [field : Names, file : Names \cup {""}, size : Nat \ {0}]

\* What a request is made of.
LEMMA RequestFacts ==
    ASSUME NEW r \in Requests
    PROVE  /\ r.body \in Nat /\ Len(r.head) \in Nat \ {0}
           /\ LastLine(r) = Len(r.head) + 1 /\ LastLine(r) \in Nat \ {0}
           /\ \A i \in 1 .. Len(r.head) : r.head[i] \in Nat \ {0}
           /\ r.body > 0 => Len(r.head) >= 2
           /\ r.parts # <<>> => r.body > 1
           /\ r.parts \in Seq(UploadPart)
<1>1. r.head \in Seq(Nat \ {0}) /\ r.body \in Nat
  BY DEF Requests
<1>2. r.parts \in Seq(UploadPart)
  BY DEF Requests, UploadPart
<1>3. Len(r.head) >= (IF r.body = 0 THEN 1 ELSE 2) /\ (r.parts # <<>> => r.body > 1)
  BY DEF Requests
<1>4. Len(r.head) \in Nat
  BY <1>1
<1>5. \A i \in 1 .. Len(r.head) : r.head[i] \in Nat \ {0}
  BY <1>1
<1>6. Len(r.head) >= 1 /\ (r.body > 0 => Len(r.head) >= 2)
  BY <1>1, <1>3, <1>4
<1>7. Len(r.head) \in Nat \ {0} /\ LastLine(r) = Len(r.head) + 1 /\ LastLine(r) \in Nat \ {0}
  BY <1>4, <1>6 DEF LastLine
<1> QED
  BY <1>1, <1>2, <1>3, <1>5, <1>6, <1>7

\* The lines of a request have sizes ...
LEMMA LineSizes ==
    ASSUME NEW r \in Requests, NEW l \in 1 .. LastLine(r) + 1
    PROVE  /\ LineSize(r, l) \in Nat
           /\ l <= LastLine(r) => TextSize(r, l) \in Nat /\ LineSize(r, l) = TextSize(r, l) + 2
           /\ l < LastLine(r) => TextSize(r, l) > 0
           /\ l = LastLine(r) => TextSize(r, l) = 0
           /\ l = LastLine(r) + 1 => LineSize(r, l) = r.body
<1>1. /\ LastLine(r) = Len(r.head) + 1 /\ Len(r.head) \in Nat \ {0} /\ r.body \in Nat
      /\ \A i \in 1 .. Len(r.head) : r.head[i] \in Nat \ {0}
  BY RequestFacts
<1> QED
  BY <1>1 DEF LineSize, TextSize

\* ... that add up.
LEMMA Offsets ==
    ASSUME NEW r \in Requests
    PROVE  /\ Offset(r, 1) = 0
           /\ \A l \in 1 .. LastLine(r) + 1 :
                Offset(r, l) \in Nat /\ Offset(r, l + 1) = Offset(r, l) + LineSize(r, l)
<1>1. LastLine(r) \in Nat
  BY RequestFacts
<1>2. Offset(r, 1) = 0
  <2>1. [i \in 1 .. 1 - 1 |-> LineSize(r, i)] = <<>>
    OBVIOUS
  <2> QED
    BY <2>1, TotalOfNone DEF Offset
<1>3. ASSUME NEW l \in 1 .. LastLine(r) + 1
      PROVE  Offset(r, l) \in Nat /\ Offset(r, l + 1) = Offset(r, l) + LineSize(r, l)
  <2> DEFINE s == [i \in 1 .. l - 1 |-> LineSize(r, i)]  t == [i \in 1 .. l |-> LineSize(r, i)]
  <2>1. l - 1 \in Nat /\ l \in Nat /\ 1 .. l \subseteq 1 .. LastLine(r) + 1
        /\ 1 .. l - 1 \subseteq 1 .. l /\ l \in 1 .. l
    BY <1>1
  <2>2. \A i \in 1 .. l : LineSize(r, i) \in Nat
    BY <2>1, LineSizes
  <2>3. s \in [1 .. l - 1 -> Nat] /\ t \in [1 .. l -> Nat]
    BY <2>1, <2>2
  <2>4. (\A i \in 1 .. l - 1 : t[i] = s[i]) /\ t[l] = LineSize(r, l)
    BY <2>1
  <2>5. Offset(r, l) = Total(s) /\ Offset(r, l + 1) = Total(t)
    <3>1. l + 1 - 1 = l
      BY <2>1
    <3> QED
      BY <3>1 DEF Offset
  <2> HIDE DEF s, t
  <2>6. s \in Seq(Nat) /\ Len(s) = l - 1 /\ t \in Seq(Nat) /\ Len(t) = l
    BY <2>1, <2>3, FunctionIsSeq
  <2>7. Total(s) \in Nat /\ Total(t) = Total(s) + t[Len(t)]
    BY <2>1, <2>4, <2>6, TotalOfMore
  <2> QED
    BY <2>4, <2>5, <2>6, <2>7
<1> QED
  BY <1>2, <1>3

\* So do the requests of a stream.
LEMMA RequestsAhead ==
    ASSUME stream \in Seq(Requests)
    PROVE  /\ Ahead(1) = 0
           /\ \A k \in 1 .. Len(stream) :
                Ahead(k) \in Nat /\ Ahead(k + 1) = Ahead(k) + SizeOf(stream[k])
<1>1. Ahead(1) = 0
  <2>1. [i \in 1 .. 1 - 1 |-> SizeOf(stream[i])] = <<>>
    OBVIOUS
  <2> QED
    BY <2>1, TotalOfNone DEF Ahead
<1>2. ASSUME NEW r \in Requests
      PROVE  SizeOf(r) \in Nat
  <2>0. LastLine(r) \in Nat
    BY RequestFacts
  <2>1. LastLine(r) + 1 \in 1 .. LastLine(r) + 1 /\ LastLine(r) + 1 + 1 = LastLine(r) + 2
    BY <2>0
  <2>2. Offset(r, LastLine(r) + 1) \in Nat /\ LineSize(r, LastLine(r) + 1) \in Nat
    BY <2>1, Offsets, LineSizes
  <2>3. Offset(r, LastLine(r) + 1 + 1)
            = Offset(r, LastLine(r) + 1) + LineSize(r, LastLine(r) + 1)
    BY <2>1, Offsets
  <2> QED
    BY <2>1, <2>2, <2>3 DEF SizeOf
<1>3. ASSUME NEW k \in 1 .. Len(stream)
      PROVE  Ahead(k) \in Nat /\ Ahead(k + 1) = Ahead(k) + SizeOf(stream[k])
  <2> DEFINE s == [i \in 1 .. k - 1 |-> SizeOf(stream[i])]
             t == [i \in 1 .. k |-> SizeOf(stream[i])]
  <2>1. k - 1 \in Nat /\ k \in Nat /\ 1 .. k \subseteq 1 .. Len(stream)
        /\ 1 .. k - 1 \subseteq 1 .. k /\ k \in 1 .. k
    OBVIOUS
  <2>2. \A i \in 1 .. k : SizeOf(stream[i]) \in Nat
    BY <1>2, <2>1
  <2>3. s \in [1 .. k - 1 -> Nat] /\ t \in [1 .. k -> Nat]
    BY <2>1, <2>2
  <2>4. (\A i \in 1 .. k - 1 : t[i] = s[i]) /\ t[k] = SizeOf(stream[k])
    BY <2>1
  <2>5. Ahead(k) = Total(s) /\ Ahead(k + 1) = Total(t)
    <3>1. k + 1 - 1 = k
      BY <2>1
    <3> QED
      BY <3>1 DEF Ahead
  <2> HIDE DEF s, t
  <2>6. s \in Seq(Nat) /\ Len(s) = k - 1 /\ t \in Seq(Nat) /\ Len(t) = k
    BY <2>1, <2>3, FunctionIsSeq
  <2>7. Len(t) = Len(s) + 1 /\ \A i \in 1 .. Len(s) : t[i] = s[i]
    BY <2>1, <2>4, <2>6
  <2>8. Total(s) \in Nat /\ Total(t) = Total(s) + t[Len(t)]
    BY <2>6, <2>7, TotalOfMore
  <2> QED
    BY <2>4, <2>5, <2>6, <2>8
<1> QED
  BY <1>1, <1>3

--------------------------------------------------------------------------------

(***************************************************************************)
(* The parameters of an upload.                                            *)
(***************************************************************************)

Texts == Names \cup {""}
Line == [kind : {"boundary", "empty", "data", "last"}]
        \cup [kind : {"disposition"}, field : Texts, file : Texts]

\* What parseMultiPartFile knows after some lines.
ParsedUpload ==
    [part : [in : {"headers", "data"}, field : Texts, file : Texts, size : Nat],
     parameters : SUBSET [field : Texts, file : Texts, size : Nat], bytes : Nat]
Nothing == [part |-> NewPart, parameters |-> {}, bytes |-> 0]

\* The recursion of parseMultiPartFile.
Parses(after, lines) ==
    after = [k \in 0 .. Len(lines) |->
                IF k = 0 THEN Nothing ELSE ParseLine(after[k - 1], lines[k])]

\* A line keeps what is known in its shape.
LEMMA ParseLineType ==
    ASSUME NEW s \in ParsedUpload, NEW l \in Line
    PROVE  ParseLine(s, l) \in ParsedUpload
<1>1. s.part \in [in : {"headers", "data"}, field : Texts, file : Texts, size : Nat]
  BY DEF ParsedUpload
<1>2. NewPart \in [in : {"headers", "data"}, field : Texts, file : Texts, size : Nat]
  BY DEF NewPart, Texts
<1>3. Parameter(s.part) \subseteq [field : Texts, file : Texts, size : Nat]
  <2> DEFINE q == [field |-> s.part.field, file |-> s.part.file, size |-> s.part.size]
  <2>1. q \in [field : Texts, file : Texts, size : Nat]
    BY <1>1
  <2>2. Parameter(s.part) \in {{}, {q}}
    BY Zenon DEF Parameter
  <2> HIDE DEF q
  <2> QED
    BY <2>1, <2>2
<1> DEFINE p == s.part
           s1 == [s EXCEPT !.part.field = l.field, !.part.file = l.file]
           s2 == [s EXCEPT !.part.in = "data"]
           s3 == [s EXCEPT !.part = NewPart, !.parameters = @ \cup Parameter(p)]
           s4 == [s EXCEPT !.part.size = @ + 1,
                           !.bytes = IF p.file = "" /\ p.field # "" THEN @ + 1 ELSE @]
<1>4. l.kind = "disposition" => s1 \in ParsedUpload
  BY <1>1 DEF Line, ParsedUpload
<1>5. s2 \in ParsedUpload
  BY <1>1 DEF ParsedUpload
<1>6. s3 \in ParsedUpload
  BY <1>2, <1>3 DEF ParsedUpload
<1>7. s4 \in ParsedUpload
  <2> DEFINE b == IF p.file = "" /\ p.field # "" THEN s.bytes + 1 ELSE s.bytes
  <2>1. b \in Nat /\ p.size + 1 \in Nat
    <3>1. s.bytes \in Nat /\ p.size \in Nat
      BY <1>1 DEF ParsedUpload
    <3>2. b \in {s.bytes + 1, s.bytes}
      BY Zenon
    <3> HIDE DEF b
    <3> QED
      BY <3>1, <3>2
  <2>2. s4 = [s EXCEPT !.part.size = p.size + 1, !.bytes = b]
    BY <1>1 DEF ParsedUpload
  <2> HIDE DEF b
  <2> QED
    BY <1>1, <2>1, <2>2 DEF ParsedUpload
<1>8. \/ ParseLine(s, l) = s1 /\ l.kind = "disposition"
      \/ ParseLine(s, l) \in {s2, s3, s4, s}
  BY DEF ParseLine
<1> QED
  BY <1>4, <1>5, <1>6, <1>7, <1>8

\* What is known after each of the lines, where they lead.
LEMMA ParsesLines ==
    ASSUME NEW lines \in Seq(Line)
    PROVE  \E f \in [0 .. Len(lines) -> ParsedUpload] :
            /\ f[0] = Nothing
            /\ \A k \in 0 .. Len(lines) - 1 : f[k + 1] = ParseLine(f[k], lines[k + 1])
            /\ parseMultiPartFile(lines) = f[Len(lines)]
<1> DEFINE N == Len(lines)
           step == [x \in (0 .. N) \X ParsedUpload |->
                      IF x[1] = N THEN x[2] ELSE ParseLine(x[2], lines[x[1] + 1])]
           after == CHOOSE f : Parses(f, lines)
<1>1. N \in Nat /\ \A k \in 0 .. N - 1 : lines[k + 1] \in Line
  OBVIOUS
<1>2. step \in [(0 .. N) \X ParsedUpload -> ParsedUpload]
  <2>1. ASSUME NEW x \in (0 .. N) \X ParsedUpload
        PROVE  (IF x[1] = N THEN x[2] ELSE ParseLine(x[2], lines[x[1] + 1])) \in ParsedUpload
    <3>1. x[1] \in 0 .. N /\ x[2] \in ParsedUpload
      OBVIOUS
    <3>2. x[1] # N => lines[x[1] + 1] \in Line
      BY <1>1, <3>1
    <3> QED
      BY <3>1, <3>2, ParseLineType
  <2> QED
    BY <2>1
<1>3. ASSUME NEW k \in 0 .. N - 1, NEW v \in ParsedUpload
      PROVE  step[<<k, v>>] = ParseLine(v, lines[k + 1])
  <2>1. <<k, v>> \in (0 .. N) \X ParsedUpload /\ k # N
    BY <1>1
  <2> QED
    BY <2>1
<1> HIDE DEF step
<1>0. Nothing \in ParsedUpload
  BY DEF Nothing, ParsedUpload, NewPart, Texts
<1>4. PICK g \in [0 .. N -> ParsedUpload] : Iterates(g, N, Nothing, step)
  <2> HIDE DEF N
  <2> QED
    BY <1>0, <1>1, <1>2, RecursionExists
<1>5. Parses(g, lines)
  <2>1. ASSUME NEW k \in 0 .. N, k # 0
        PROVE  g[k] = ParseLine(g[k - 1], lines[k])
    <3>1. k - 1 \in 0 .. N - 1 /\ g[k - 1] \in ParsedUpload /\ k - 1 + 1 = k
      <4>1. k - 1 \in 0 .. N - 1 /\ k - 1 \in 0 .. N /\ k - 1 + 1 = k
        BY <1>1, <2>1
      <4> HIDE DEF N
      <4> QED
        BY <1>4, <4>1
    <3>2. g[k] = step[<<k - 1, g[k - 1]>>]
      BY <1>4, <2>1 DEF Iterates
    <3>3. step[<<k - 1, g[k - 1]>>] = ParseLine(g[k - 1], lines[k - 1 + 1])
      BY <1>3, <3>1
    <3> QED
      BY <3>1, <3>2, <3>3
  <2>2. g[0] = Nothing
    BY <1>1, <1>4 DEF Iterates
  <2>3. g = [k \in 0 .. N |-> IF k = 0 THEN Nothing ELSE ParseLine(g[k - 1], lines[k])]
    BY <1>4, <2>1, <2>2
  <2> QED
    BY <2>3 DEF Parses
<1>6. Parses(after, lines)
  BY <1>5
<1>7. parseMultiPartFile(lines) = after[N]
  BY Zenon DEF parseMultiPartFile, Parses, Nothing
<1> HIDE DEF after
<1>8. after = [k \in 0 .. N |-> IF k = 0 THEN Nothing ELSE ParseLine(after[k - 1], lines[k])]
  BY <1>6 DEF Parses
<1>9. after[0] = Nothing
  BY <1>1, <1>8
<1>10. ASSUME NEW k \in 0 .. N - 1
       PROVE  after[k + 1] = ParseLine(after[k], lines[k + 1])
  <2> DEFINE m == k + 1
  <2>1. m \in 0 .. N /\ m # 0 /\ m - 1 = k
    BY <1>1
  <2> HIDE DEF m
  <2>2. after[m] = ParseLine(after[m - 1], lines[m])
    BY <1>8, <2>1
  <2> QED
    BY <2>1, <2>2 DEF m
<1>11. after \in [0 .. N -> ParsedUpload]
  <2> DEFINE T == {k \in Nat : after[k] \in ParsedUpload}
  <2>1. 0 \in T
    BY <1>0, <1>9
  <2>2. ASSUME NEW k \in 0 .. N - 1, k \in T
        PROVE  k + 1 \in T
    <3>1. after[k] \in ParsedUpload /\ lines[k + 1] \in Line /\ k + 1 \in Nat
      BY <1>1, <2>2
    <3>2. ParseLine(after[k], lines[k + 1]) \in ParsedUpload
      BY <3>1, ParseLineType
    <3> QED
      BY <1>10, <3>1, <3>2
  <2> HIDE DEF T, N
  <2>3. 0 .. N \subseteq T
    BY <1>1, <2>1, <2>2, InductionUpTo
  <2>4. \A k \in 0 .. N : after[k] \in ParsedUpload
    BY <2>3 DEF T
  <2>5. DOMAIN after = 0 .. N /\ after = [k \in DOMAIN after |-> after[k]]
    BY <1>8
  <2> QED
    BY <2>4, <2>5
<1> QED
  BY <1>7, <1>9, <1>10, <1>11

\* No line, and a line more.
LEMMA ParseNone == parseMultiPartFile(<<>>) = Nothing
<1>1. <<>> \in Seq(Line) /\ Len(<<>>) = 0
  OBVIOUS
<1> QED
  BY <1>1, ParsesLines

LEMMA ParseMore ==
    ASSUME NEW s \in Seq(Line), NEW l \in Line
    PROVE  /\ Append(s, l) \in Seq(Line)
           /\ parseMultiPartFile(s) \in ParsedUpload
           /\ parseMultiPartFile(Append(s, l)) = ParseLine(parseMultiPartFile(s), l)
<1> DEFINE N == Len(s)  t == Append(s, l)
<1>1. N \in Nat /\ Len(t) = N + 1 /\ t \in Seq(Line) /\ t[N + 1] = l
      /\ \A i \in 1 .. N : t[i] = s[i]
  OBVIOUS
<1> HIDE DEF t
<1>2. PICK f \in [0 .. N -> ParsedUpload] :
        /\ f[0] = Nothing
        /\ \A k \in 0 .. N - 1 : f[k + 1] = ParseLine(f[k], s[k + 1])
        /\ parseMultiPartFile(s) = f[N]
  BY ParsesLines
<1>3. PICK g \in [0 .. Len(t) -> ParsedUpload] :
        /\ g[0] = Nothing
        /\ \A k \in 0 .. Len(t) - 1 : g[k + 1] = ParseLine(g[k], t[k + 1])
        /\ parseMultiPartFile(t) = g[Len(t)]
  BY <1>1, ParsesLines
<1> DEFINE T == {k \in Nat : f[k] = g[k]}
<1>4. 0 \in T
  BY <1>2, <1>3
<1>5. ASSUME NEW k \in 0 .. N - 1, k \in T
      PROVE  k + 1 \in T
  <2>1. k \in 0 .. Len(t) - 1 /\ k + 1 \in 1 .. N /\ k + 1 \in Nat
    BY <1>1
  <2>2. f[k + 1] = ParseLine(f[k], s[k + 1]) /\ g[k + 1] = ParseLine(g[k], t[k + 1])
        /\ f[k] = g[k]
    BY <1>2, <1>3, <1>5, <2>1
  <2>3. t[k + 1] = s[k + 1]
    BY <1>1, <2>1
  <2> QED
    BY <2>1, <2>2, <2>3
<1> HIDE DEF T, N
<1>6. 0 .. N \subseteq T
  BY <1>1, <1>4, <1>5, InductionUpTo
<1>7. f[N] = g[N] /\ f[N] \in ParsedUpload
  BY <1>1, <1>2, <1>6 DEF T
<1>8. N \in 0 .. Len(t) - 1
  BY <1>1
<1>9. g[N + 1] = ParseLine(g[N], t[N + 1])
  BY <1>3, <1>8
<1>10. parseMultiPartFile(t) = ParseLine(parseMultiPartFile(s), l)
  BY <1>1, <1>2, <1>3, <1>7, <1>9
<1> QED
  BY <1>1, <1>2, <1>7, <1>10 DEF t

\* Before its headers a part has no data.
LEMMA NewPartFacts == NewPart.in = "headers" /\ NewPart.size = 0
  BY DEF NewPart

\* A part in whose data n lines have been read, and one whose headers have.
Sized(p, n) == [in |-> "data", field |-> p.field, file |-> p.file, size |-> n]
Headed(p) == [in |-> "headers", field |-> p.field, file |-> p.file, size |-> 0]

\* What is known has this shape.
LEMMA ParsedShape ==
    ASSUME NEW s \in ParsedUpload
    PROVE  /\ s.part \in [in : {"headers", "data"}, field : Texts, file : Texts, size : Nat]
           /\ s = [part |-> s.part, parameters |-> s.parameters, bytes |-> s.bytes]
           /\ s.bytes \in Nat
  BY DEF ParsedUpload

\* The first line of all.
LEMMA FirstBoundary ==
    ASSUME NEW s \in ParsedUpload, s.part = NewPart
    PROVE  ParseLine(s, [kind |-> "boundary"]) = s
<1> DEFINE l == [kind |-> "boundary"]
<1>1. s.part.in = "headers"
  BY NewPartFacts, Zenon
<1>2. l.kind = "boundary"
  OBVIOUS
<1> HIDE DEF l
<1>3. ParseLine(s, l) = s
  BY <1>1, <1>2 DEF ParseLine
<1> QED
  BY <1>3 DEF l

\* The line that ends a part.
LEMMA EndOfPart ==
    ASSUME NEW s \in ParsedUpload, NEW p \in UploadPart, s.part = Sized(p, p.size),
           NEW l \in {[kind |-> "boundary"], [kind |-> "last"]}
    PROVE  /\ ParseLine(s, l).part = NewPart
           /\ ParseLine(s, l).parameters = s.parameters \cup {p}
           /\ ParseLine(s, l).bytes = s.bytes
<1>1. p.size \in Nat \ {0} /\ p.field \in Names /\ p.file \in Texts
      /\ p = [field |-> p.field, file |-> p.file, size |-> p.size]
  BY DEF UploadPart, Texts
<1>2. p.field # "" /\ p.size # 0
  BY <1>1, RequestAssumption
<1>3. s.part.field = p.field /\ s.part.file = p.file /\ s.part.size = p.size
      /\ s.part.in = "data"
  BY DEF Sized
<1>4. Parameter(s.part) = {p}
  <2>1. Parameter(s.part) = {[field |-> s.part.field, file |-> s.part.file, size |-> s.part.size]}
    BY <1>2, <1>3, Zenon DEF Parameter
  <2> QED
    BY <1>1, <1>3, <2>1
<1>5. l.kind \in {"boundary", "last"}
  OBVIOUS
<1>6. ParseLine(s, l) = [s EXCEPT !.part = NewPart, !.parameters = @ \cup Parameter(s.part)]
  BY <1>3, <1>5 DEF ParseLine
<1> QED
  BY <1>4, <1>6, ParsedShape

\* The headers of a part.
LEMMA Disposition ==
    ASSUME NEW s \in ParsedUpload, NEW p \in UploadPart, s.part = NewPart
    PROVE  LET q == ParseLine(s, [kind |-> "disposition", field |-> p.field, file |-> p.file])
           IN  q.part = Headed(p) /\ q.parameters = s.parameters
<1> DEFINE l == [kind |-> "disposition", field |-> p.field, file |-> p.file]
<1>1. s.part.in = "headers" /\ s.part.size = 0
  BY NewPartFacts, Zenon
<1>2. l.kind = "disposition" /\ l.field = p.field /\ l.file = p.file
  OBVIOUS
<1> HIDE DEF l
<1>3. ParseLine(s, l) = [s EXCEPT !.part.field = p.field, !.part.file = p.file]
  BY <1>1, <1>2 DEF ParseLine
<1>4. ParseLine(s, l).part = Headed(p) /\ ParseLine(s, l).parameters = s.parameters
  <2>1. /\ s.part = [in |-> s.part.in, field |-> s.part.field, file |-> s.part.file,
                      size |-> s.part.size]
        /\ DOMAIN s = {"part", "parameters", "bytes"}
    BY ParsedShape
  <2> QED
    BY <1>1, <1>3, <2>1 DEF Headed
<1> QED
  BY <1>4 DEF l

\* The line that ends the headers of a part.
LEMMA EmptyLine ==
    ASSUME NEW s \in ParsedUpload, NEW p \in UploadPart, s.part = Headed(p)
    PROVE  LET q == ParseLine(s, [kind |-> "empty"])
           IN  q.part = Sized(p, 0) /\ q.parameters = s.parameters
<1> DEFINE l == [kind |-> "empty"]
<1>1. s.part.in = "headers" /\ l.kind = "empty"
  BY DEF Headed
<1> HIDE DEF l
<1>2. ParseLine(s, l) = [s EXCEPT !.part.in = "data"]
  BY <1>1 DEF ParseLine
<1>3. ParseLine(s, l).part = Sized(p, 0) /\ ParseLine(s, l).parameters = s.parameters
  BY <1>1, <1>2, ParsedShape DEF Headed, Sized
<1> QED
  BY <1>3 DEF l

\* A line of its data.
LEMMA DataLine ==
    ASSUME NEW s \in ParsedUpload, NEW p \in UploadPart, NEW n \in Nat, s.part = Sized(p, n)
    PROVE  LET q == ParseLine(s, [kind |-> "data"])
           IN  q.part = Sized(p, n + 1) /\ q.parameters = s.parameters
<1> DEFINE l == [kind |-> "data"]
           b == IF s.part.file = "" /\ s.part.field # "" THEN s.bytes + 1 ELSE s.bytes
<1>1. s.part.in = "data" /\ l.kind \notin {"boundary", "last"} /\ s.part.size = n
  BY DEF Sized
<1> HIDE DEF l
<1>2. ParseLine(s, l) = [s EXCEPT !.part.size = @ + 1, !.bytes = b]
  BY <1>1 DEF ParseLine
<1> HIDE DEF b
<1>3. ParseLine(s, l).part = Sized(p, n + 1) /\ ParseLine(s, l).parameters = s.parameters
  BY <1>1, <1>2, ParsedShape DEF Sized
<1> QED
  BY <1>3 DEF l

\* The lines of a part, one by one.
LEMMA LinesOfPart ==
    ASSUME NEW p \in UploadPart
    PROVE  /\ LinesOf(p) \in Seq(Line)
           /\ Len(LinesOf(p)) = p.size + 3
           /\ LinesOf(p)[1] = [kind |-> "boundary"]
           /\ LinesOf(p)[2] = [kind |-> "disposition", field |-> p.field, file |-> p.file]
           /\ LinesOf(p)[3] = [kind |-> "empty"]
           /\ \A i \in 4 .. p.size + 3 : LinesOf(p)[i] = [kind |-> "data"]
<1> DEFINE b == [kind |-> "boundary"]
           d == [kind |-> "disposition", field |-> p.field, file |-> p.file]
           e == [kind |-> "empty"]
           x == [kind |-> "data"]
           data == [i \in 1 .. p.size |-> x]
<1>1. p.size \in Nat /\ p.field \in Texts /\ p.file \in Texts
  BY DEF UploadPart, Texts
<1>2. b \in Line /\ e \in Line /\ x \in Line
  BY DEF Line
<1>3. d \in Line
  BY <1>1 DEF Line
<1>4. LinesOf(p) = <<b, d, e>> \o data
  BY DEF LinesOf
<1>5. data \in [1 .. p.size -> Line] /\ \A i \in 1 .. p.size : data[i] = x
  BY <1>2
<1> HIDE DEF b, d, e, x, data
<1>6. data \in Seq(Line) /\ Len(data) = p.size
  BY <1>1, <1>5, FunctionIsSeq
<1> DEFINE h == <<b, d, e>>
<1>7. h \in Seq(Line) /\ Len(h) = 3 /\ h[1] = b /\ h[2] = d /\ h[3] = e
  BY <1>2, <1>3
<1> HIDE DEF h
<1>8. /\ h \o data \in Seq(Line) /\ Len(h \o data) = p.size + 3
      /\ (h \o data)[1] = b /\ (h \o data)[2] = d /\ (h \o data)[3] = e
  <2>0. h \in Seq(Line) /\ data \in Seq(Line)
    BY <1>6, <1>7
  <2>1. h \o data \in Seq(Line) /\ Len(h \o data) = Len(h) + Len(data)
        /\ \A i \in 1 .. Len(h) + Len(data) : (h \o data)[i] =
                     IF i <= Len(h) THEN h[i] ELSE data[i - Len(h)]
    BY <2>0, ConcatProperties
  <2>2. Len(h) = 3 /\ Len(data) = p.size /\ 3 + p.size = p.size + 3
    BY <1>1, <1>6, <1>7
  <2>3. 1 \in 1 .. 3 + p.size /\ 2 \in 1 .. 3 + p.size /\ 3 \in 1 .. 3 + p.size
    BY <1>1
  <2> QED
    BY <1>7, <2>1, <2>2, <2>3
<1>9. ASSUME NEW i \in 4 .. p.size + 3
      PROVE  (h \o data)[i] = x
  <2> DEFINE j == i - 3
  <2>1. j \in 1 .. p.size /\ 3 + j = i
    BY <1>1
  <2> HIDE DEF j
  <2>2. (h \o data)[Len(h) + j] = data[j]
    <3>1. j \in 1 .. Len(data) /\ h \in Seq(Line) /\ data \in Seq(Line)
      BY <1>6, <1>7, <2>1
    <3> QED
      BY <3>1, SecondOfTwo
  <2> QED
    BY <1>5, <1>7, <2>1, <2>2
<1>10. LinesOf(p) = h \o data
  BY <1>4 DEF h
<1> QED
  BY <1>8, <1>9, <1>10 DEF b, d, e, x

\* A line more of a text that follows another.
LEMMA ParseOn ==
    ASSUME NEW s \in Seq(Line), NEW t \in Seq(Line), NEW i \in 0 .. Len(t) - 1
    PROVE  parseMultiPartFile(s \o SubSeq(t, 1, i + 1))
                = ParseLine(parseMultiPartFile(s \o SubSeq(t, 1, i)), t[i + 1])
<1> DEFINE a == SubSeq(t, 1, i)  b == SubSeq(t, 1, i + 1)  l == t[i + 1]
<1>0. i \in Nat /\ i + 1 \in 1 .. Len(t) /\ Len(t) \in Nat /\ i <= Len(t)
  OBVIOUS
<1>1. l \in Line
  BY <1>0
<1>2. a \in Seq(Line) /\ b = Append(a, l)
  BY <1>0
<1> HIDE DEF a, b, l
<1>3. s \o Append(a, l) = Append(s \o a, l) /\ s \o a \in Seq(Line)
  BY <1>1, <1>2
<1>4. parseMultiPartFile(Append(s \o a, l)) = ParseLine(parseMultiPartFile(s \o a), l)
  BY <1>1, <1>3, ParseMore
<1>5. parseMultiPartFile(s \o b) = ParseLine(parseMultiPartFile(s \o a), l)
  BY <1>2, <1>3, <1>4
<1> QED
  BY <1>5 DEF a, b, l

\* The lines of a part leave that part, once those before them have left theirs.
LEMMA ParsesPart ==
    ASSUME NEW p \in UploadPart, NEW s \in Seq(Line), NEW Q,
           ParseLine(parseMultiPartFile(s), [kind |-> "boundary"]).part = NewPart,
           ParseLine(parseMultiPartFile(s), [kind |-> "boundary"]).parameters = Q
    PROVE  /\ s \o LinesOf(p) \in Seq(Line)
           /\ parseMultiPartFile(s \o LinesOf(p)).part = Sized(p, p.size)
           /\ parseMultiPartFile(s \o LinesOf(p)).parameters = Q
<1> DEFINE t == LinesOf(p)
           e(i) == parseMultiPartFile(s \o SubSeq(t, 1, i))
           Good(n) == e(n + 3).part = Sized(p, n) /\ e(n + 3).parameters = Q
           T == {n \in Nat : Good(n)}
<1>0. p.size \in Nat
  BY DEF UploadPart
<1>1. /\ t \in Seq(Line) /\ Len(t) = p.size + 3
      /\ t[1] = [kind |-> "boundary"]
      /\ t[2] = [kind |-> "disposition", field |-> p.field, file |-> p.file]
      /\ t[3] = [kind |-> "empty"]
      /\ \A i \in 4 .. p.size + 3 : t[i] = [kind |-> "data"]
  BY LinesOfPart
<1> HIDE DEF t
<1>2. ASSUME NEW i \in 0 .. p.size + 3
      PROVE  e(i) \in ParsedUpload
  <2>1. s \o SubSeq(t, 1, i) \in Seq(Line)
    BY <1>0, <1>1
  <2> QED
    <3>1. [kind |-> "last"] \in Line
      BY DEF Line
    <3> QED
      BY <2>1, <3>1, ParseMore
<1>3. ASSUME NEW i \in 0 .. p.size + 2
      PROVE  e(i + 1) = ParseLine(e(i), t[i + 1])
  <2>1. i \in 0 .. Len(t) - 1
    BY <1>0, <1>1
  <2> QED
    BY <1>1, <2>1, ParseOn
<1>4. e(0) = parseMultiPartFile(s)
  <2>1. SubSeq(t, 1, 0) = <<>>
    BY <1>1
  <2>2. s \o <<>> = s
    BY ConcatEmptySeq
  <2> QED
    BY <2>1, <2>2, Zenon
<1>5. s \o t \in Seq(Line) /\ e(p.size + 3) = parseMultiPartFile(s \o t)
  <2>1. SubSeq(t, 1, Len(t)) = t
    BY <1>1
  <2>2. s \o t \in Seq(Line)
    BY <1>1
  <2> QED
    BY <1>1, <2>1, <2>2, Zenon
<1> HIDE DEF e
<1>6. 0 \in T
  <2>0. 0 \in 0 .. p.size + 2 /\ 1 \in 0 .. p.size + 2 /\ 2 \in 0 .. p.size + 2
        /\ 1 \in 0 .. p.size + 3 /\ 2 \in 0 .. p.size + 3 /\ 3 \in 0 .. p.size + 3
        /\ 0 + 1 = 1 /\ 1 + 1 = 2 /\ 2 + 1 = 3 /\ 0 + 3 = 3
    BY <1>0
  <2>1. e(1).part = NewPart /\ e(1).parameters = Q /\ e(1) \in ParsedUpload
    <3>1. e(1) = ParseLine(e(0), t[1])
      BY <1>3, <2>0
    <3> QED
      BY <1>1, <1>2, <1>4, <2>0, <3>1
  <2>2. e(2).part = Headed(p) /\ e(2).parameters = Q /\ e(2) \in ParsedUpload
    <3>1. e(2) = ParseLine(e(1), t[2])
      BY <1>3, <2>0
    <3> QED
      BY <1>1, <1>2, <2>0, <2>1, <3>1, Disposition
  <2>3. e(3).part = Sized(p, 0) /\ e(3).parameters = Q
    <3>1. e(3) = ParseLine(e(2), t[3])
      BY <1>3, <2>0
    <3> QED
      BY <1>1, <2>2, <3>1, EmptyLine
  <2> QED
    BY <2>0, <2>3
<1>7. ASSUME NEW n \in 0 .. p.size - 1, n \in T
      PROVE  n + 1 \in T
  <2>1. n + 3 \in 0 .. p.size + 2 /\ n + 3 \in 0 .. p.size + 3 /\ n + 3 + 1 \in 4 .. p.size + 3
        /\ n + 3 + 1 = n + 1 + 3 /\ n \in Nat /\ n + 1 \in Nat
    BY <1>0
  <2>2. e(n + 3 + 1) = ParseLine(e(n + 3), t[n + 3 + 1])
    BY <1>3, <2>1
  <2>3. t[n + 3 + 1] = [kind |-> "data"]
    BY <1>1, <2>1
  <2>4. e(n + 3) \in ParsedUpload /\ e(n + 3).part = Sized(p, n) /\ e(n + 3).parameters = Q
    BY <1>2, <1>7, <2>1
  <2> DEFINE q == e(n + 3)  z == ParseLine(q, [kind |-> "data"])
  <2> HIDE DEF q
  <2>5. q \in ParsedUpload /\ q.part = Sized(p, n) /\ q.parameters = Q
    BY <2>4 DEF q
  <2>6. z.part = Sized(p, n + 1) /\ z.parameters = q.parameters
    BY <2>1, <2>5, DataLine
  <2>7. e(n + 1 + 3) = z
    BY <2>1, <2>2, <2>3 DEF q
  <2> HIDE DEF z
  <2>8. Good(n + 1)
    BY <2>5, <2>6, <2>7
  <2> QED
    BY <2>1, <2>8
<1> HIDE DEF T
<1>8. 0 .. p.size \subseteq T
  BY <1>0, <1>6, <1>7, InductionUpTo
<1>9. p.size \in T
  BY <1>0, <1>8
<1>10. Good(p.size)
  BY <1>9 DEF T
<1> QED
  BY <1>5, <1>10 DEF t

\* What may stand before the lines of the parts.
Befores == {<<>>, <<[kind |-> "empty"]>>}

\* It leaves no parameter, and is no part of a part.
LEMMA ParsesBefore ==
    ASSUME NEW before \in Befores
    PROVE  LET b == ParseLine(parseMultiPartFile(before), [kind |-> "boundary"]) IN
           /\ before \in Seq(Line)
           /\ b.part = NewPart /\ b.parameters = {}
<1> DEFINE boundary == [kind |-> "boundary"]  empty == [kind |-> "empty"]
<1>1. boundary \in Line /\ empty \in Line /\ boundary.kind = "boundary" /\ empty.kind = "empty"
  BY DEF Line
<1>2. <<>> \in Seq(Line)
  OBVIOUS
<1> HIDE DEF boundary, empty
<1>3. Nothing \in ParsedUpload /\ Nothing.part = NewPart /\ Nothing.parameters = {}
  BY <1>1, <1>2, ParseNone, ParseMore DEF Nothing
<1>4. ParseLine(Nothing, boundary) = Nothing
  BY <1>3, FirstBoundary DEF boundary
<1>5. CASE before = <<>>
  BY <1>2, <1>3, <1>4, <1>5, ParseNone DEF boundary
<1>6. CASE before = <<empty>>
  <2>1. before = Append(<<>>, empty)
    BY <1>6
  <2>2. before \in Seq(Line) /\ parseMultiPartFile(before) = ParseLine(Nothing, empty)
    BY <1>1, <1>2, <2>1, ParseNone, ParseMore
  <2>3. ParseLine(Nothing, empty) = [Nothing EXCEPT !.part.in = "data"]
    <3>1. Nothing.part.in = "headers"
      BY <1>3, NewPartFacts, Zenon
    <3> QED
      BY <1>1, <3>1 DEF ParseLine
  <2> DEFINE s == ParseLine(Nothing, empty)
  <2>4. s = [part |-> [in |-> "data", field |-> "", file |-> "", size |-> 0],
             parameters |-> {}, bytes |-> 0]
    BY <2>3 DEF Nothing, NewPart
  <2> HIDE DEF s
  <2>5. s.part.in = "data" /\ s.part.field = "" /\ s.parameters = {}
    BY <2>4
  <2>6. Parameter(s.part) = {}
    BY <2>5, Zenon DEF Parameter
  <2>7. ParseLine(s, boundary)
            = [s EXCEPT !.part = NewPart, !.parameters = @ \cup Parameter(s.part)]
    BY <1>1, <2>5 DEF ParseLine
  <2>8. ParseLine(s, boundary).part = NewPart
        /\ ParseLine(s, boundary).parameters = s.parameters \cup Parameter(s.part)
    BY <2>4, <2>7
  <2> QED
    BY <2>2, <2>5, <2>6, <2>8 DEF s, boundary
<1> QED
  BY <1>5, <1>6 DEF Befores, empty

\* The lines of an upload, piece by piece.
PiecesOf(before, parts) ==
    [i \in DOMAIN parts |-> (IF i = 1 THEN before ELSE <<>>) \o LinesOf(parts[i])]

LEMMA PiecesOfParts ==
    ASSUME NEW parts \in Seq(UploadPart), NEW before \in Befores
    PROVE  /\ PiecesOf(before, parts) \in Seq(Seq(Line))
           /\ Len(PiecesOf(before, parts)) = Len(parts)
           /\ \A i \in 1 .. Len(parts) :
                PiecesOf(before, parts)[i]
                    = IF i = 1 THEN before \o LinesOf(parts[1]) ELSE LinesOf(parts[i])
           /\ LinesOfParts(before, parts)
                = Append(FlattenSeq(PiecesOf(before, parts)), [kind |-> "last"])
<1> DEFINE N == Len(parts)  pieces == PiecesOf(before, parts)
<1>1. N \in Nat /\ DOMAIN parts = 1 .. N /\ \A i \in 1 .. N : parts[i] \in UploadPart
  OBVIOUS
<1>2. before \in Seq(Line)
  BY ParsesBefore
<1>3. ASSUME NEW i \in 1 .. N
      PROVE  /\ (IF i = 1 THEN before ELSE <<>>) \o LinesOf(parts[i]) \in Seq(Line)
             /\ (IF i = 1 THEN before ELSE <<>>) \o LinesOf(parts[i])
                    = IF i = 1 THEN before \o LinesOf(parts[1]) ELSE LinesOf(parts[i])
  <2>1. LinesOf(parts[i]) \in Seq(Line)
    BY <1>1, LinesOfPart
  <2>2. <<>> \o LinesOf(parts[i]) = LinesOf(parts[i])
    BY <2>1, ConcatEmptySeq
  <2>3. CASE i = 1
    BY <1>2, <2>1, <2>3
  <2>4. CASE i # 1
    BY <2>1, <2>2, <2>4
  <2> QED
    BY <2>3, <2>4
<1>4. pieces \in [1 .. N -> Seq(Line)]
  BY <1>1, <1>3 DEF PiecesOf
<1>5. \A i \in 1 .. N : pieces[i] = IF i = 1 THEN before \o LinesOf(parts[1]) ELSE LinesOf(parts[i])
  BY <1>1, <1>3 DEF PiecesOf
<1>6. LinesOfParts(before, parts) = Append(FlattenSeq(pieces), [kind |-> "last"])
  BY DEF LinesOfParts, PiecesOf
<1> HIDE DEF pieces, N
<1>7. pieces \in Seq(Seq(Line)) /\ Len(pieces) = N
  BY <1>1, <1>4, FunctionIsSeq
<1> QED
  BY <1>5, <1>6, <1>7 DEF pieces, N

\* What is parsed has its shape.
LEMMA UploadIsTyped ==
    ASSUME NEW parts \in Seq(UploadPart), NEW before \in Befores
    PROVE  parseMultiPartFile(LinesOfParts(before, parts)) \in ParsedUpload
<1> DEFINE pieces == PiecesOf(before, parts)  last == [kind |-> "last"]
<1>1. pieces \in Seq(Seq(Line)) /\ LinesOfParts(before, parts) = Append(FlattenSeq(pieces), last)
  BY PiecesOfParts
<1>2. <<>> \in Seq(Line) /\ last \in Line
  BY DEF Line
<1> HIDE DEF pieces, last
<1>3. FlattenSeq(pieces) \in Seq(Line)
  BY <1>1, <1>2, FlattenAppend
<1>4. Append(FlattenSeq(pieces), last) \in Seq(Line)
  BY <1>2, <1>3, ParseMore
<1> QED
  BY <1>1, <1>2, <1>4, ParseMore

\* The parameters of an upload are its parts.
LEMMA ParametersOfParts ==
    ASSUME NEW parts \in Seq(UploadPart), parts # <<>>, NEW before \in Befores
    PROVE  parseMultiPartFile(LinesOfParts(before, parts)).parameters = Range(parts)
<1> DEFINE N == Len(parts)
           pieces == PiecesOf(before, parts)
           last == [kind |-> "last"]
           boundary == [kind |-> "boundary"]
<1>1. N \in Nat /\ N > 0 /\ DOMAIN parts = 1 .. N /\ \A i \in 1 .. N : parts[i] \in UploadPart
  OBVIOUS
<1>4. last \in Line /\ boundary \in Line
  BY DEF Line
<1> HIDE DEF pieces
<1>2. /\ pieces[1] = before \o LinesOf(parts[1])
      /\ \A i \in 1 .. N : i # 1 => pieces[i] = LinesOf(parts[i])
  <2>1. \A i \in 1 .. N :
            pieces[i] = IF i = 1 THEN before \o LinesOf(parts[1]) ELSE LinesOf(parts[i])
    BY PiecesOfParts DEF pieces
  <2>2. 1 \in 1 .. N
    BY <1>1
  <2> HIDE DEF N
  <2> QED
    BY <2>1, <2>2
<1>3. LinesOfParts(before, parts) = Append(FlattenSeq(pieces), last)
  BY PiecesOfParts DEF pieces
<1>5. pieces \in Seq(Seq(Line)) /\ Len(pieces) = N
  BY PiecesOfParts DEF pieces
<1> HIDE DEF N
<1>6. PICK flat :
        /\ FlattenSeq(pieces) = flat[N]
        /\ flat[1] = pieces[1]
        /\ \A i \in 1 .. N - 1 : flat[i + 1] = flat[i] \o pieces[i + 1]
  BY <1>1, <1>5, FlattenSteps
<1> DEFINE Q(k) == {parts[i] : i \in 1 .. k}
           Good(k) == /\ flat[k + 1] \in Seq(Line)
                      /\ parseMultiPartFile(flat[k + 1]).part
                            = Sized(parts[k + 1], parts[k + 1].size)
                      /\ parseMultiPartFile(flat[k + 1]).parameters = Q(k)
           T == {k \in Nat : Good(k)}
<1>7. 0 \in T
  <2>1. /\ before \in Seq(Line)
        /\ ParseLine(parseMultiPartFile(before), boundary).part = NewPart
        /\ ParseLine(parseMultiPartFile(before), boundary).parameters = {}
    BY ParsesBefore
  <2>2. /\ before \o LinesOf(parts[1]) \in Seq(Line)
        /\ parseMultiPartFile(before \o LinesOf(parts[1])).part = Sized(parts[1], parts[1].size)
        /\ parseMultiPartFile(before \o LinesOf(parts[1])).parameters = {}
    <3>1. parts[1] \in UploadPart
      BY <1>1
    <3> QED
      BY <2>1, <3>1, ParsesPart
  <2>3. flat[1] = before \o LinesOf(parts[1])
    BY <1>2, <1>6
  <2>4. Q(0) = {} /\ 0 + 1 = 1
    OBVIOUS
  <2> HIDE DEF Q
  <2>5. Good(0)
    BY <2>2, <2>3, <2>4
  <2> QED
    BY <2>5
<1>8. ASSUME NEW k \in 0 .. N - 2, k \in T
      PROVE  k + 1 \in T
  <2> DEFINE m == k + 1  f == parseMultiPartFile(flat[m])  b == ParseLine(f, boundary)
  <2>1. m \in 1 .. N - 1 /\ m \in 1 .. N /\ m + 1 \in 1 .. N /\ m \in Nat
    BY <1>1
  <2>2. flat[m] \in Seq(Line) /\ f.part = Sized(parts[m], parts[m].size) /\ f.parameters = Q(k)
    BY <1>8
  <2>3. Q(k) \cup {parts[m]} = Q(m)
    <3>1. 1 .. m = (1 .. k) \cup {m}
      BY <2>1
    <3> HIDE DEF m
    <3> QED
      BY <3>1
  <2> HIDE DEF m, Q
  <2>4. flat[m + 1] = flat[m] \o LinesOf(parts[m + 1])
    <3>1. m + 1 # 1
      BY <2>1
    <3> QED
      BY <1>2, <1>6, <2>1, <3>1
  <2>5. f \in ParsedUpload
    BY <1>4, <2>2, ParseMore
  <2> HIDE DEF f
  <2>6. b.part = NewPart /\ b.parameters = Q(m)
    <3>1. parts[m] \in UploadPart
      BY <1>1, <2>1
    <3>2. b.part = NewPart /\ b.parameters = f.parameters \cup {parts[m]}
      BY <2>2, <2>5, <3>1, EndOfPart
    <3> QED
      BY <2>2, <2>3, <3>2
  <2>7. /\ flat[m] \o LinesOf(parts[m + 1]) \in Seq(Line)
        /\ parseMultiPartFile(flat[m] \o LinesOf(parts[m + 1])).part
                = Sized(parts[m + 1], parts[m + 1].size)
        /\ parseMultiPartFile(flat[m] \o LinesOf(parts[m + 1])).parameters = Q(m)
    <3>1. parts[m + 1] \in UploadPart
      BY <1>1, <2>1
    <3> QED
      BY <2>2, <2>6, <3>1, ParsesPart DEF f
  <2>8. Good(m)
    BY <2>4, <2>7
  <2>9. m \in T
    BY <2>1, <2>8
  <2> QED
    BY <2>9 DEF m
<1> HIDE DEF T
<1>9. 0 .. N - 1 \subseteq T
  <2>1. N - 1 \in Nat /\ N - 1 - 1 = N - 2
    BY <1>1
  <2> QED
    BY <1>7, <1>8, <2>1, InductionUpTo
<1>10. N - 1 \in T /\ N - 1 + 1 = N
  BY <1>1, <1>9
<1> DEFINE f == parseMultiPartFile(flat[N])
<1>11. flat[N] \in Seq(Line) /\ f.part = Sized(parts[N], parts[N].size) /\ f.parameters = Q(N - 1)
  <2>1. Good(N - 1)
    BY <1>10 DEF T
  <2> HIDE DEF Q
  <2> QED
    BY <1>10, <2>1
<1>12. Q(N - 1) \cup {parts[N]} = Range(parts)
  <2>1. Range(parts) = {parts[i] : i \in 1 .. N}
    BY <1>1 DEF Range
  <2>2. 1 .. N = (1 .. N - 1) \cup {N}
    BY <1>1
  <2> QED
    BY <2>1, <2>2
<1> HIDE DEF Q
<1>13. f \in ParsedUpload
  BY <1>4, <1>11, ParseMore
<1>14. parseMultiPartFile(LinesOfParts(before, parts)) = ParseLine(f, last)
  BY <1>3, <1>4, <1>6, <1>11, ParseMore
<1> HIDE DEF f
<1>15. ParseLine(f, last).parameters = f.parameters \cup {parts[N]}
  BY <1>1, <1>11, <1>13, EndOfPart
<1> QED
  BY <1>11, <1>12, <1>14, <1>15

--------------------------------------------------------------------------------

(***************************************************************************)
(* What the reader knows of the request it is in.                          *)
(***************************************************************************)

\* The reader stands before a byte of a request, or behind the last one.
ReaderIsPlaced ==
    /\ next \in 1 .. Len(stream) + 1
    /\ HasMore => line \in 1 .. LastLine(Wire) + 1 /\ off \in 0 .. LineSize(Wire, line) - 1
    /\ ~ HasMore => line = 1 /\ off = 0

\* The types of what is known of a request.
RequestType ==
    [status : {"waitForRequest", "waitForHeader", "waitForBody", "complete", "abort"},
     lineBuffer : 0 .. maxSize + 1, currentSize : Nat, described : BOOLEAN,
     expectedBodySize : Nat, boundary : BOOLEAN, bodyData : Nat,
     parameters : SUBSET [field : Texts, file : Texts, size : Nat], taken : Nat]

\* Before the end of the head nothing is known of the body; and the size that is
\* counted is never less than what was taken.
InHead(q) ==
    /\ ~ q.boundary /\ q.expectedBodySize = 0 /\ q.bodyData = 0 /\ q.parameters = {}
    /\ q.lineBuffer <= q.currentSize /\ q.taken <= q.currentSize /\ q.currentSize <= maxSize

\* The limit of what is taken for a request.
Allowed(q) == maxSize + 1 + (IF q.boundary THEN maxMultiPartSize ELSE 0)

\* The rest of a body is no more than the limit leaves room for.
Sizes(q) ==
    /\ q.status \in {"waitForRequest", "waitForHeader"} => InHead(q)
    /\ q.status = "waitForBody" =>
        /\ q.lineBuffer = 0 /\ q.parameters = {} /\ q.bodyData < q.expectedBodySize
        /\ IF q.boundary THEN /\ q.taken <= maxSize + 1 + q.bodyData
                              /\ q.expectedBodySize <= maxMultiPartSize
           ELSE /\ q.taken <= q.currentSize
                /\ q.currentSize + q.expectedBodySize <= maxSize + q.bodyData
    /\ q.status = "complete" =>
         IF q.boundary THEN q.bodyData <= maxMultiPartSize ELSE q.taken <= maxSize
    /\ q.taken <= Allowed(q)

\* What is buffered of a line is what the reader has taken of it.
InLine(q) == next = Current /\ q.lineBuffer = off /\ (HasMore => off <= TextSize(Wire, line))

\* Waiting for the request line: what was left over may still come before it.
InRequestLine(q) ==
    /\ ~ q.described
    /\ \/ line = 1 /\ InLine(q)
       \/ LeftOver(Len(answers)) /\ q.lineBuffer = 0

\* The reader stands inside the line break before the empty line, where that does
\* no harm.
AtBreak(q) ==
    /\ next = Current /\ line = Len(Wire.head) /\ off = TextSize(Wire, line) + 1
    /\ q.lineBuffer = 0 /\ (Wire.body > 0 => Wire.parts # <<>>)
    /\ q.described <=> Len(Wire.head) >= 2

\* Waiting for the rest of the head: the size of the body is known as soon as
\* its header is read.
InHeaders(q) ==
    /\ HasMore
    /\ \/ /\ line \in 2 .. LastLine(Wire) /\ InLine(q)
          /\ q.described <=> line = LastLine(Wire) /\ Len(Wire.head) >= 2
       \/ AtBreak(q)

\* A part of the empty line may be taken for a part of the body of an upload, of
\* which so much is then left over.
Behind(q) ==
    /\ q.boundary
    /\ \/ InBody /\ off \in {q.bodyData - 1, q.bodyData - 2}
       \/ line = LastLine(Wire) /\ <<off, q.bodyData>> \in {<<0, 0>>, <<1, 0>>, <<1, 1>>}

InTheBody(q) ==
    /\ next = Current /\ HasMore
    /\ q.expectedBodySize = Wire.body /\ (q.boundary <=> Wire.parts # <<>>)
    /\ (InBody /\ off = q.bodyData) \/ Behind(q)

\* A request that is handed to its handler.
Ended(q) ==
    /\ Current <= Len(stream)
    /\ Between(Current)
    /\ q.parameters = Range(stream[Current].parts)

\* The reader and what it knows of the request agree.
Placed(q) ==
    /\ q = NoRequest => (conn = "open" => Between(Len(answers)))
    /\ q.status = "waitForRequest" => InRequestLine(q)
    /\ q.status = "waitForHeader" => InHeaders(q)
    /\ q.status = "waitForBody" => InTheBody(q)
    /\ q.status = "complete" => Ended(q)

\* What holds of any stream and any segments of it ...
ReaderInv ==
    /\ stream \in Seq(Requests)
    /\ answers \in Seq(EndsType)
    /\ ReaderIsPlaced
    /\ avail \in Nat /\ unsent \in Nat
    /\ response # NoResponse => request.status = "complete"
    /\ request # NoRequest => request \in RequestType /\ Sizes(request)

\* ... and what holds so long as no line break is cut where that does harm.
ReadInv == ReaderInv /\ (torn \/ Placed(request))

--------------------------------------------------------------------------------

(***************************************************************************)
(* One read.                                                               *)
(***************************************************************************)

\* Where the reader stands in a request.
LEMMA AtByte ==
    ASSUME stream \in Seq(Requests), ReaderIsPlaced, HasMore
    PROVE  /\ next \in 1 .. Len(stream) /\ Wire \in Requests
           /\ line \in 1 .. LastLine(Wire) + 1 /\ LastLine(Wire) \in Nat \ {0}
           /\ off \in Nat /\ off < LineSize(Wire, line) /\ LineSize(Wire, line) \in Nat
           /\ line <= LastLine(Wire) => TextSize(Wire, line) \in Nat
                                        /\ LineSize(Wire, line) = TextSize(Wire, line) + 2
           /\ line < LastLine(Wire) => TextSize(Wire, line) > 0
           /\ line = LastLine(Wire) => TextSize(Wire, line) = 0
           /\ InBody => line = LastLine(Wire) + 1 /\ LineSize(Wire, line) = Wire.body
                        /\ Wire.body > 0
           /\ Wire.body \in Nat
           /\ InBody <=> line > LastLine(Wire)
           /\ LastLine(Wire) = Len(Wire.head) + 1 /\ Len(Wire.head) \in Nat \ {0}
           /\ Wire.body > 0 => Len(Wire.head) >= 2
           /\ Wire.parts # <<>> => Wire.body > 1
           /\ Wire.parts \in Seq(UploadPart)
<1>1. next \in 1 .. Len(stream) /\ Wire \in Requests
  BY DEF ReaderIsPlaced, HasMore, Wire
<1> DEFINE r == Wire
<1>2. r \in Requests
  BY <1>1
<1>3. line \in 1 .. LastLine(r) + 1 /\ off \in 0 .. LineSize(r, line) - 1
  BY DEF ReaderIsPlaced
<1>4. InBody <=> line > LastLine(r)
  BY DEF InBody
<1>5. r = Wire
  OBVIOUS
<1> HIDE DEF r
<1>6. /\ LastLine(r) \in Nat \ {0} /\ r.body \in Nat
      /\ LastLine(r) = Len(r.head) + 1 /\ Len(r.head) \in Nat \ {0}
      /\ r.body > 0 => Len(r.head) >= 2
      /\ r.parts # <<>> => r.body > 1
      /\ r.parts \in Seq(UploadPart)
  BY <1>2, RequestFacts
<1>7. /\ LineSize(r, line) \in Nat
      /\ line <= LastLine(r) => TextSize(r, line) \in Nat /\ LineSize(r, line) = TextSize(r, line) + 2
      /\ line < LastLine(r) => TextSize(r, line) > 0
      /\ line = LastLine(r) => TextSize(r, line) = 0
      /\ line = LastLine(r) + 1 => LineSize(r, line) = r.body
  BY <1>2, <1>3, LineSizes
<1>8. /\ next \in 1 .. Len(stream) /\ r \in Requests
      /\ line \in 1 .. LastLine(r) + 1 /\ LastLine(r) \in Nat \ {0}
      /\ off \in Nat /\ off < LineSize(r, line) /\ LineSize(r, line) \in Nat
      /\ InBody => line = LastLine(r) + 1 /\ LineSize(r, line) = r.body /\ r.body > 0
  BY <1>1, <1>2, <1>3, <1>4, <1>6, <1>7
<1> QED
  BY <1>4, <1>5, <1>6, <1>7, <1>8

\* Advance(n) moves the reader inside its line, to the next one, or to the next
\* request.
InsideLine(n) == off + n < LineSize(Wire, line) /\ next' = next /\ line' = line /\ off' = off + n
NextLine(n) ==
    /\ off + n = LineSize(Wire, line) /\ next' = next /\ line' = line + 1 /\ off' = 0
    /\ line <= LastLine(Wire) /\ (line = LastLine(Wire) => Wire.body > 0)
NextRequest(n) ==
    /\ off + n = LineSize(Wire, line) /\ next' = next + 1 /\ line' = 1 /\ off' = 0
    /\ InBody \/ (line = LastLine(Wire) /\ Wire.body = 0)

LEMMA Moves ==
    ASSUME stream \in Seq(Requests), ReaderIsPlaced, HasMore, NEW n \in Nat,
           off + n <= LineSize(Wire, line), Advance(n)
    PROVE  /\ stream' = stream /\ avail' = avail - n /\ unsent' = unsent
           /\ torn' = (torn \/ Tears(n))
           /\ InsideLine(n) \/ NextLine(n) \/ NextRequest(n)
           /\ ReaderIsPlaced'
<1> DEFINE r == Wire  L == LastLine(r)
<1>0. /\ next \in 1 .. Len(stream) /\ r \in Requests
      /\ line \in 1 .. L + 1 /\ L \in Nat \ {0}
      /\ off \in Nat /\ off < LineSize(r, line) /\ LineSize(r, line) \in Nat
      /\ InBody <=> line > L
      /\ InBody => line = L + 1 /\ LineSize(r, line) = r.body /\ r.body > 0
      /\ r.body \in Nat
  BY AtByte
<1>1. /\ stream' = stream /\ avail' = avail - n /\ unsent' = unsent
      /\ torn' = (torn \/ Tears(n))
      /\ InsideLine(n) \/ NextLine(n) \/ NextRequest(n)
  BY <1>0 DEF Advance, InsideLine, NextLine, NextRequest
<1>5. CASE InsideLine(n)
  <2>1. HasMore' /\ Wire' = r /\ next' = next /\ line' = line /\ off' = off + n
    BY <1>1, <1>5 DEF InsideLine, HasMore, Wire
  <2>2. ReaderIsPlaced'
    <3>1. line' \in 1 .. LastLine(Wire)' + 1 /\ off' \in 0 .. LineSize(Wire, line)' - 1
      <4>1. LastLine(Wire)' = L /\ LineSize(Wire, line)' = LineSize(r, line)
        BY <2>1 DEF LastLine, LineSize, TextSize
      <4> QED
        BY <1>0, <1>5, <2>1, <4>1 DEF InsideLine
    <3> QED
      BY <1>0, <1>1, <2>1, <3>1 DEF ReaderIsPlaced, HasMore
  <2> QED
    BY <1>1, <2>2
<1>6. CASE NextLine(n)
  <2>1. HasMore' /\ Wire' = r /\ next' = next /\ line' = line + 1 /\ off' = 0
        /\ off + n = LineSize(r, line) /\ line <= L /\ (line = L => r.body > 0)
    BY <1>1, <1>6 DEF NextLine, HasMore, Wire
  <2>2. ReaderIsPlaced'
    <3>1. line' \in 1 .. LastLine(Wire)' + 1 /\ off' \in 0 .. LineSize(Wire, line)' - 1
      <4>1. LastLine(Wire)' = L /\ LineSize(Wire, line)' = LineSize(r, line + 1)
        BY <2>1 DEF LastLine, LineSize, TextSize
      <4>2. line + 1 \in 1 .. L + 1
        BY <1>0, <2>1
      <4>3. LineSize(r, line + 1) \in Nat /\ LineSize(r, line + 1) > 0
        <5> HIDE DEF r
        <5>1. /\ line + 1 <= L => TextSize(r, line + 1) \in Nat
                                  /\ LineSize(r, line + 1) = TextSize(r, line + 1) + 2
              /\ line + 1 = L + 1 => LineSize(r, line + 1) = r.body
          BY <1>0, <4>2, LineSizes
        <5> QED
          BY <1>0, <2>1, <5>1
      <4> QED
        BY <1>0, <2>1, <4>1, <4>2, <4>3
    <3> QED
      BY <1>0, <1>1, <2>1, <3>1 DEF ReaderIsPlaced, HasMore
  <2> QED
    BY <1>1, <2>2
<1>7. CASE NextRequest(n)
  <2>1. next' = next + 1 /\ line' = 1 /\ off' = 0
    BY <1>7 DEF NextRequest
  <2>2. HasMore' => Wire' \in Requests
    BY <1>0, <1>1, <2>1 DEF HasMore, Wire
  <2>3. ReaderIsPlaced'
    <3>1. ASSUME HasMore'
          PROVE  line' \in 1 .. LastLine(Wire)' + 1 /\ off' \in 0 .. LineSize(Wire, line)' - 1
      <4> DEFINE w == Wire'
      <4>1. w \in Requests
        BY <2>2, <3>1
      <4>2. LastLine(Wire)' = LastLine(w) /\ LineSize(Wire, line)' = LineSize(w, 1)
        BY <2>1 DEF LastLine, LineSize, TextSize
      <4> HIDE DEF w
      <4>3. LastLine(w) \in Nat \ {0}
        BY <4>1, RequestFacts
      <4>4. 1 \in 1 .. LastLine(w) + 1 /\ 1 <= LastLine(w)
        BY <4>3
      <4>5. LineSize(w, 1) = TextSize(w, 1) + 2 /\ TextSize(w, 1) \in Nat
        BY <4>1, <4>4, LineSizes
      <4> QED
        BY <2>1, <4>2, <4>4, <4>5
    <3>2. next' \in 1 .. Len(stream') + 1
      BY <1>0, <1>1, <2>1
    <3> QED
      BY <2>1, <3>1, <3>2 DEF ReaderIsPlaced
  <2> QED
    BY <1>1, <2>3
<1> QED
  BY <1>1, <1>5, <1>6, <1>7

\* n of at most m bytes are read.
ReadStep(m, n) ==
    /\ stream \in Seq(Requests) /\ answers \in Seq(EndsType)
    /\ ReaderIsPlaced /\ avail \in Nat /\ unsent \in Nat /\ answers' = answers
    /\ HasMore /\ avail > 0 /\ request \in RequestType
    /\ n = Readable(m) /\ Advance(n)

\* A read takes bytes of one line, no more than there are.
LEMMA Reads ==
    ASSUME NEW m \in Nat \ {0}, NEW n, ReadStep(m, n)
    PROVE  /\ n \in Nat \ {0} /\ n <= m /\ off + n <= LineSize(Wire, line)
           /\ stream' = stream /\ answers' = answers
           /\ torn' = (torn \/ Tears(n))
           /\ InsideLine(n) \/ NextLine(n) \/ NextRequest(n)
           /\ ReaderIsPlaced' /\ avail' \in Nat /\ unsent' \in Nat
           /\ Current \in Nat /\ Len(answers) \in Nat /\ Current' = Current
           /\ Current = Len(answers) + 1
<1>0. /\ stream \in Seq(Requests) /\ ReaderIsPlaced /\ avail \in Nat /\ unsent \in Nat
      /\ HasMore /\ avail > 0 /\ n = Readable(m) /\ Advance(n) /\ answers' = answers
      /\ Len(answers) \in Nat
  BY DEF ReadStep
<1>1. off \in Nat /\ off < LineSize(Wire, line) /\ LineSize(Wire, line) \in Nat
  BY <1>0, AtByte
<1>2. n \in Nat \ {0} /\ n <= m /\ n <= avail /\ off + n <= LineSize(Wire, line)
  <2> DEFINE z == LineSize(Wire, line) - off
  <2>1. z \in Nat \ {0} /\ avail \in Nat \ {0}
    BY <1>0, <1>1
  <2>2. n = Least(m, Least(avail, z))
    BY <1>0 DEF Readable
  <2> HIDE DEF z
  <2>3. n \in Nat \ {0} /\ n <= m /\ n <= avail /\ n <= z
    BY <2>1, <2>2 DEF Least
  <2> QED
    BY <1>1, <2>3 DEF z
<1>3. /\ stream' = stream /\ avail' = avail - n /\ unsent' = unsent
      /\ torn' = (torn \/ Tears(n))
      /\ InsideLine(n) \/ NextLine(n) \/ NextRequest(n)
      /\ ReaderIsPlaced'
  BY <1>0, <1>2, Moves
<1>4. avail' \in Nat /\ unsent' \in Nat
  BY <1>0, <1>2, <1>3
<1>5. Current = Len(answers) + 1 /\ Current' = Current
  BY <1>0 DEF Current
<1> QED
  BY <1>0, <1>2, <1>3, <1>4, <1>5

\* Within a request, what is known of it is about the same request.
LEMMA SameRequest ==
    ASSUME HasMore, stream' = stream, answers' = answers, next' = next
    PROVE  /\ HasMore' /\ Wire' = Wire /\ Current' = Current
           /\ InBody' <=> line' > LastLine(Wire)
           /\ TextSize(Wire, line)' = TextSize(Wire, line')
           /\ LastLine(Wire)' = LastLine(Wire)
  BY DEF HasMore, Wire, Current, InBody, TextSize, LastLine

--------------------------------------------------------------------------------

(***************************************************************************)
(* What a read makes of the request.                                       *)
(***************************************************************************)

\* All but the status and the count of what was taken.
Alike(c, q) ==
    /\ c.lineBuffer = q.lineBuffer /\ c.currentSize = q.currentSize
    /\ c.described = q.described /\ c.expectedBodySize = q.expectedBodySize
    /\ c.boundary = q.boundary /\ c.bodyData = q.bodyData /\ c.parameters = q.parameters

\* The check of the size changes nothing else.
LEMMA CheckedFacts ==
    ASSUME NEW q \in RequestType, NEW n \in Nat, NEW c, c = Checked(q, n)
    PROVE  /\ c \in RequestType /\ Alike(c, q) /\ c.taken = q.taken + n
           /\ \/ c.status = "abort"
              \/ /\ c.status = q.status
                 /\ q.boundary => q.currentSize <= maxMultiPartSize
                 /\ ~ q.boundary => q.currentSize <= maxSize
<1> DEFINE s == IF TooMany(q) THEN "abort" ELSE q.status  t == q.taken + n
<1>1. c = [q EXCEPT !.status = s, !.taken = t]
  BY DEF Checked
<1>2. q.currentSize \in Nat /\ maxMultiPartSize \in Nat /\ maxSize \in Nat /\ t \in Nat
  <2>1. maxMultiPartSize \in Nat /\ maxSize \in Nat
    BY RequestAssumption
  <2>2. q.currentSize \in Nat /\ q.taken \in Nat
    BY DEF RequestType
  <2> QED
    BY <2>1, <2>2
<1>3. /\ s \in {"waitForRequest", "waitForHeader", "waitForBody", "complete", "abort"}
      /\ \/ s = "abort"
         \/ /\ s = q.status
            /\ q.boundary => q.currentSize <= maxMultiPartSize
            /\ ~ q.boundary => q.currentSize <= maxSize
  BY <1>2 DEF TooMany, RequestType
<1>4. t = q.taken + n
  OBVIOUS
<1> HIDE DEF s, t
<1>5. c \in RequestType /\ c.status = s /\ c.taken = t
  BY <1>1, <1>2, <1>3 DEF RequestType
<1>6. Alike(c, q)
  BY <1>1 DEF Alike, RequestType
<1> QED
  BY <1>3, <1>4, <1>5, <1>6

\* What is known of the head.
LEMMA HeadFacts ==
    ASSUME request \in RequestType, InHead(request)
    PROVE  /\ toRead \in Nat \ {0} /\ toRead = maxSize - request.currentSize + 1
           /\ request.lineBuffer \in Nat /\ request.currentSize \in Nat /\ request.taken \in Nat
           /\ maxSize \in Nat
<1>1. maxSize \in Nat
  BY RequestAssumption
<1>2. request.lineBuffer \in Nat /\ request.currentSize \in Nat /\ request.taken \in Nat
  BY <1>1 DEF RequestType
<1>3. request.currentSize <= maxSize
  BY DEF InHead
<1> QED
  BY <1>1, <1>2, <1>3 DEF toRead

\* What is buffered of a head.
LEMMA BufferedFacts ==
    ASSUME request \in RequestType, InHead(request), NEW n \in Nat \ {0}, n <= toRead
    PROVE  LET b == Buffered(n) IN
           /\ b \in RequestType /\ b.status = request.status
           /\ b.described = request.described /\ ~ b.boundary
           /\ b.expectedBodySize = 0 /\ b.bodyData = 0 /\ b.parameters = {}
           /\ b.lineBuffer = (IF HasBreak(n) THEN 0 ELSE request.lineBuffer + n)
           /\ b.lineBuffer <= b.currentSize
           /\ b.taken = request.taken
           /\ b.taken + n <= b.currentSize /\ b.taken + n <= maxSize + 1
<1> DEFINE size == request.lineBuffer + n
           kept == IF HasBreak(n) THEN 0 ELSE size
           all == request.currentSize + size
           b == Buffered(n)
<1>1. /\ request.lineBuffer \in Nat /\ request.currentSize \in Nat /\ maxSize \in Nat
      /\ request.taken \in Nat /\ toRead = maxSize - request.currentSize + 1
      /\ request.lineBuffer <= request.currentSize /\ request.currentSize <= maxSize
      /\ request.taken <= request.currentSize
  BY HeadFacts DEF InHead
<1>2. /\ size \in 0 .. maxSize + 1 /\ kept \in 0 .. maxSize + 1 /\ all \in Nat /\ kept <= all
      /\ request.taken + n <= all /\ request.taken + n <= maxSize + 1
  BY <1>1
<1>3. b = [request EXCEPT !.currentSize = all, !.lineBuffer = kept]
  BY DEF Buffered
<1>4. kept = (IF HasBreak(n) THEN 0 ELSE request.lineBuffer + n)
  OBVIOUS
<1> HIDE DEF size, kept, all, b
<1>5. /\ b \in RequestType /\ b.status = request.status
      /\ b.described = request.described /\ b.boundary = request.boundary
      /\ b.expectedBodySize = request.expectedBodySize /\ b.bodyData = request.bodyData
      /\ b.parameters = request.parameters
      /\ b.currentSize = all /\ b.lineBuffer = kept /\ b.taken = request.taken
  BY <1>2, <1>3 DEF RequestType
<1> QED
  BY <1>2, <1>4, <1>5 DEF b, InHead

\* What readRequest and readHeader make of it, if the head goes on.
LEMMA HeadGoesOn ==
    ASSUME request \in RequestType, InHead(request), NEW n \in Nat \ {0}, n <= toRead,
           NEW q \in RequestType,
           q.lineBuffer = Buffered(n).lineBuffer, q.currentSize = Buffered(n).currentSize,
           ~ q.boundary, q.expectedBodySize = 0, q.bodyData = 0, q.parameters = {},
           q.taken = request.taken,
           q.status \in {"waitForRequest", "waitForHeader", "abort"},
           NEW c, c = Checked(q, n)
    PROVE  c \in RequestType /\ Sizes(c)
<1> DEFINE b == Buffered(n)
<1>1. /\ q.lineBuffer <= q.currentSize
      /\ q.taken + n <= q.currentSize /\ q.taken + n <= maxSize + 1
  <2>1. /\ b.lineBuffer <= b.currentSize /\ b.taken = request.taken
        /\ b.taken + n <= b.currentSize /\ b.taken + n <= maxSize + 1
    BY BufferedFacts
  <2> HIDE DEF b
  <2>2. q.lineBuffer = b.lineBuffer /\ q.currentSize = b.currentSize
    BY DEF b
  <2> QED
    BY <2>1, <2>2
<1>2. /\ c \in RequestType /\ Alike(c, q) /\ c.taken = q.taken + n
      /\ \/ c.status = "abort"
         \/ /\ c.status = q.status
            /\ ~ q.boundary => q.currentSize <= maxSize
  BY CheckedFacts
<1>3. /\ ~ c.boundary /\ c.expectedBodySize = 0 /\ c.bodyData = 0 /\ c.parameters = {}
      /\ c.lineBuffer <= c.currentSize /\ c.taken <= c.currentSize
      /\ c.taken <= maxSize + 1
      /\ c.status = "abort" \/ (c.status \in {"waitForRequest", "waitForHeader", "abort"}
                                /\ c.currentSize <= maxSize)
  BY <1>1, <1>2 DEF Alike
<1>4. maxSize \in Nat
  BY RequestAssumption
<1>5. c.status \notin {"waitForBody", "complete"}
  BY <1>3
<1>6. c.taken <= Allowed(c)
  BY <1>3, <1>4 DEF Allowed
<1>7. c.status \in {"waitForRequest", "waitForHeader"} => InHead(c)
  BY <1>3 DEF InHead
<1> QED
  BY <1>2, <1>5, <1>6, <1>7 DEF Sizes

\* What readRequest leaves.
LEMMA ReadRequestFacts ==
    ASSUME request \in RequestType, InHead(request), request.status = "waitForRequest",
           NEW n \in Nat \ {0}, n <= toRead
    PROVE  LET q == readRequest(n) IN
           /\ q \in RequestType /\ Alike(q, Buffered(n)) /\ q.taken = request.taken
           /\ ~ q.boundary /\ q.expectedBodySize = 0 /\ q.bodyData = 0 /\ q.parameters = {}
           /\ q.described = request.described
           /\ q.status = IF ~ HasBreak(n) \/ IsBlank THEN "waitForRequest"
                         ELSE IF IsWhole /\ line = 1 THEN "waitForHeader" ELSE "abort"
<1> DEFINE q == readRequest(n)  b == Buffered(n)
           s == IF IsWhole /\ line = 1 THEN "waitForHeader" ELSE "abort"
<1>1. /\ b \in RequestType /\ b.status = "waitForRequest" /\ b.taken = request.taken
      /\ ~ b.boundary /\ b.expectedBodySize = 0 /\ b.bodyData = 0 /\ b.parameters = {}
      /\ b.described = request.described
  BY BufferedFacts
<1>2. q = IF ~ HasBreak(n) \/ IsBlank THEN b ELSE [b EXCEPT !.status = s]
  BY DEF readRequest
<1>3. s \in {"waitForHeader", "abort"}
  OBVIOUS
<1> HIDE DEF q, b, s
<1>4. CASE ~ HasBreak(n) \/ IsBlank
  BY <1>1, <1>2, <1>4 DEF Alike, q, b
<1>5. CASE ~ (~ HasBreak(n) \/ IsBlank)
  <2>1. q = [b EXCEPT !.status = s]
    BY <1>2, <1>5
  <2>2. /\ q \in RequestType /\ q.status = s /\ q.taken = b.taken /\ Alike(q, b)
    BY <1>1, <1>3, <2>1 DEF RequestType, Alike
  <2>3. /\ ~ q.boundary /\ q.expectedBodySize = 0 /\ q.bodyData = 0 /\ q.parameters = {}
        /\ q.described = request.described
    BY <1>1, <2>2 DEF Alike
  <2> QED
    BY <1>1, <1>5, <2>2, <2>3 DEF q, b, s
<1> QED
  BY <1>4, <1>5

\* What readHeader leaves before the empty line.
LEMMA ReadHeaderFacts ==
    ASSUME request \in RequestType, InHead(request), request.status = "waitForHeader",
           NEW n \in Nat \ {0}, n <= toRead, ~ (HasBreak(n) /\ IsBlank)
    PROVE  LET q == readHeader(n) IN
           /\ q \in RequestType /\ q.taken = request.taken
           /\ q.lineBuffer = Buffered(n).lineBuffer /\ q.currentSize = Buffered(n).currentSize
           /\ ~ q.boundary /\ q.expectedBodySize = 0 /\ q.bodyData = 0 /\ q.parameters = {}
           /\ q.described = (request.described \/ (HasBreak(n) /\ IsWhole /\ line = Len(Wire.head)))
           /\ q.status = "waitForHeader"
<1> DEFINE q == readHeader(n)  b == Buffered(n)
           d == b.described \/ (IsWhole /\ line = Len(Wire.head))
<1>1. /\ b \in RequestType /\ b.status = "waitForHeader" /\ b.taken = request.taken
      /\ ~ b.boundary /\ b.expectedBodySize = 0 /\ b.bodyData = 0 /\ b.parameters = {}
      /\ b.described = request.described /\ b.described \in BOOLEAN
  <2>1. /\ b \in RequestType /\ b.status = "waitForHeader" /\ b.taken = request.taken
        /\ ~ b.boundary /\ b.expectedBodySize = 0 /\ b.bodyData = 0 /\ b.parameters = {}
        /\ b.described = request.described
    BY BufferedFacts
  <2> HIDE DEF b
  <2> QED
    BY <2>1 DEF RequestType
<1>2. q = IF ~ HasBreak(n) THEN b ELSE [b EXCEPT !.described = d]
  BY DEF readHeader
<1>3. d \in BOOLEAN /\ d = (request.described \/ (IsWhole /\ line = Len(Wire.head)))
  BY <1>1, Zenon
<1> HIDE DEF q, b, d
<1>4. CASE ~ HasBreak(n)
  <2>1. q = b
    BY <1>2, <1>4
  <2>2. request.described = (request.described \/ (HasBreak(n) /\ IsWhole /\ line = Len(Wire.head)))
    BY <1>1, <1>4, Zenon
  <2> QED
    BY <1>1, <2>1, <2>2 DEF q, b
<1>5. CASE HasBreak(n)
  <2>1. q = [b EXCEPT !.described = d]
    BY <1>2, <1>5
  <2>2. /\ q \in RequestType /\ q.status = "waitForHeader" /\ q.taken = b.taken
        /\ q.lineBuffer = b.lineBuffer /\ q.currentSize = b.currentSize
        /\ q.boundary = b.boundary /\ q.expectedBodySize = b.expectedBodySize
        /\ q.bodyData = b.bodyData /\ q.parameters = b.parameters /\ q.described = d
    BY <1>1, <1>3, <2>1 DEF RequestType
  <2>3. d = (request.described \/ (HasBreak(n) /\ IsWhole /\ line = Len(Wire.head)))
    BY <1>3, <1>5, Zenon
  <2> QED
    BY <1>1, <2>2, <2>3 DEF q, b
<1> QED
  BY <1>4, <1>5

\* What it leaves then.
LEMMA EndOfHeadersFacts ==
    ASSUME request \in RequestType, InHead(request), request.status = "waitForHeader",
           NEW n \in Nat \ {0}, n <= toRead, HasBreak(n), IsBlank, Wire.body \in Nat,
           NEW c, c = Checked(readHeader(n), n)
    PROVE  LET size == IF request.described THEN Wire.body ELSE 0 IN
           /\ c \in RequestType /\ Sizes(c)
           /\ c.lineBuffer = 0 /\ c.bodyData = 0 /\ c.parameters = {}
           /\ c.expectedBodySize = size
           /\ c.boundary = (request.described /\ Wire.parts # <<>>)
           /\ \/ c.status = "abort"
              \/ c.status = "complete" /\ size = 0
              \/ c.status = "waitForBody" /\ size > 0
<1> DEFINE q == readHeader(n)  b == Buffered(n)
           multi == request.described /\ Wire.parts # <<>>
           size == IF request.described THEN Wire.body ELSE 0
           large == IF multi THEN size > maxMultiPartSize ELSE size + b.currentSize > maxSize
           s == IF size = 0 THEN "complete" ELSE IF large THEN "abort" ELSE "waitForBody"
<1>1. /\ b \in RequestType /\ b.taken = request.taken /\ b.bodyData = 0 /\ b.parameters = {}
      /\ b.lineBuffer = 0 /\ b.described = request.described
      /\ b.taken + n <= b.currentSize /\ b.taken + n <= maxSize + 1
  <2>1. /\ b \in RequestType /\ b.taken = request.taken /\ b.bodyData = 0 /\ b.parameters = {}
        /\ b.lineBuffer = (IF HasBreak(n) THEN 0 ELSE request.lineBuffer + n)
        /\ b.described = request.described
        /\ b.taken + n <= b.currentSize /\ b.taken + n <= maxSize + 1
    BY BufferedFacts
  <2> HIDE DEF b
  <2> QED
    BY <2>1
<1>2. q = [b EXCEPT !.boundary = multi, !.expectedBodySize = size, !.status = s]
  <2>1. q = EndOfHeaders(b)
    BY DEF readHeader
  <2> QED
    BY <1>1, <2>1, Zenon DEF EndOfHeaders
<1>3. multi \in BOOLEAN /\ size \in Nat /\ s \in {"complete", "abort", "waitForBody"}
  BY DEF RequestType
<1>4. /\ s = "complete" => size = 0
      /\ s = "waitForBody" => size > 0 /\ ~ large
  BY <1>3
<1>5. /\ multi /\ ~ large => size <= maxMultiPartSize
      /\ ~ multi /\ ~ large => size + b.currentSize <= maxSize
  <2>1. maxSize \in Nat /\ maxMultiPartSize \in Nat /\ b.currentSize \in Nat
    BY <1>1, RequestAssumption DEF RequestType
  <2> HIDE DEF b, size, multi
  <2> QED
    BY <1>3, <2>1
<1>6. (multi => multi) /\ size = (IF request.described THEN Wire.body ELSE 0)
  OBVIOUS
<1> HIDE DEF q, b, multi, size, large, s
<1>7. /\ q \in RequestType /\ q.status = s /\ q.boundary = multi /\ q.expectedBodySize = size
      /\ q.lineBuffer = 0 /\ q.bodyData = 0 /\ q.parameters = {}
      /\ q.currentSize = b.currentSize /\ q.taken = b.taken
  BY <1>1, <1>2, <1>3 DEF RequestType
<1>8. /\ c \in RequestType /\ Alike(c, q) /\ c.taken = q.taken + n
      /\ \/ c.status = "abort"
         \/ /\ c.status = q.status
            /\ q.boundary => q.currentSize <= maxMultiPartSize
            /\ ~ q.boundary => q.currentSize <= maxSize
  BY <1>7, CheckedFacts DEF q
<1>9. /\ c.lineBuffer = 0 /\ c.bodyData = 0 /\ c.parameters = {}
      /\ c.expectedBodySize = size /\ c.boundary = multi /\ c.currentSize = b.currentSize
      /\ c.taken = b.taken + n
      /\ c.status = "abort" \/ (c.status = s /\ (~ multi => b.currentSize <= maxSize))
  BY <1>7, <1>8 DEF Alike
<1>10. Sizes(c)
  <2>1. maxSize \in Nat /\ maxMultiPartSize \in Nat /\ b.currentSize \in Nat /\ b.taken \in Nat
    BY <1>1, RequestAssumption DEF RequestType
  <2>2. c.taken <= maxSize + 1 /\ c.taken <= c.currentSize
    BY <1>1, <1>9
  <2>3. c.taken <= Allowed(c)
    BY <1>9, <2>1, <2>2 DEF Allowed
  <2>4. c.status = "waitForBody" => size > 0 /\ ~ large
    BY <1>4, <1>9
  <2>5. c.status = "waitForBody" =>
            IF multi THEN c.taken <= maxSize + 1 + 0 /\ size <= maxMultiPartSize
            ELSE c.taken <= c.currentSize /\ c.currentSize + size <= maxSize + 0
    BY <1>3, <1>5, <1>9, <2>1, <2>2, <2>4
  <2>6. c.status = "complete" => IF multi THEN 0 <= maxMultiPartSize ELSE c.taken <= maxSize
    BY <1>1, <1>9, <2>1, <2>2
  <2>7. c.status \notin {"waitForRequest", "waitForHeader"}
    BY <1>3, <1>9
  <2> QED
    BY <1>9, <2>3, <2>4, <2>5, <2>6, <2>7 DEF Sizes
<1>11. \/ c.status = "abort"
       \/ c.status = "complete" /\ size = 0
       \/ c.status = "waitForBody" /\ size > 0
  BY <1>3, <1>4, <1>9
<1> QED
  BY <1>8, <1>9, <1>10, <1>11 DEF multi, size

\* How many bytes of the body are asked for.
Asked ==
    LET rest == request.expectedBodySize - request.bodyData
    IN  IF request.boundary THEN Least(rest, Block) ELSE rest

\* It asks for a byte at least, and for none of the next request.
LEMMA AskedFacts ==
    ASSUME request \in RequestType, request.bodyData < request.expectedBodySize
    PROVE  /\ Asked \in Nat \ {0} /\ Asked <= request.expectedBodySize - request.bodyData
           /\ request.bodyData \in Nat /\ request.expectedBodySize \in Nat
<1>1. request.bodyData \in Nat /\ request.expectedBodySize \in Nat
  BY DEF RequestType
<1> DEFINE rest == request.expectedBodySize - request.bodyData
<1>2. rest \in Nat \ {0}
  BY <1>1
<1>3. Block \in Nat \ {0}
  BY RequestAssumption
<1>4. Asked \in {rest, Least(rest, Block)}
  BY DEF Asked
<1> HIDE DEF rest
<1>5. Asked \in Nat \ {0} /\ Asked <= rest
  BY <1>2, <1>3, <1>4 DEF Least
<1> QED
  BY <1>1, <1>5 DEF rest

\* What readBody makes of the parameters.
Uploaded ==
    parseMultiPartFile(LinesOfParts(
        IF InBody /\ off = request.bodyData THEN <<>> ELSE <<[kind |-> "empty"]>>,
        Wire.parts)).parameters

LEMMA ReadBodyFacts ==
    ASSUME request \in RequestType, Sizes(request), request.status = "waitForBody",
           NEW n \in Nat \ {0}, n <= Asked, Wire.parts \in Seq(UploadPart),
           NEW c, c = Checked(readBody(n), n)
    PROVE  /\ c \in RequestType /\ Sizes(c)
           /\ c.lineBuffer = 0 /\ c.bodyData = request.bodyData + n
           /\ c.expectedBodySize = request.expectedBodySize
           /\ c.boundary = request.boundary
           /\ request.bodyData + n <= request.expectedBodySize
           /\ \/ c.status = "abort"
              \/ /\ c.status = "waitForBody"
                 /\ request.bodyData + n < request.expectedBodySize
              \/ /\ c.status = "complete"
                 /\ request.bodyData + n = request.expectedBodySize
                 /\ c.parameters = IF request.boundary THEN Uploaded ELSE {}
<1> DEFINE size == request.bodyData + n  q == readBody(n)
           before == IF InBody /\ off = request.bodyData THEN <<>> ELSE <<[kind |-> "empty"]>>
           upload == parseMultiPartFile(LinesOfParts(before, Wire.parts))
           p == [request EXCEPT !.bodyData = size]
           full == request.expectedBodySize
           multi == request.boundary
           t == request.taken
           cs == request.currentSize
           new == cs + n
           more == cs + upload.bytes
           found == upload.parameters
<1>1. /\ request.lineBuffer = 0 /\ request.parameters = {} /\ request.bodyData < full
      /\ IF multi THEN t <= maxSize + 1 + request.bodyData /\ full <= maxMultiPartSize
         ELSE t <= cs /\ cs + full <= maxSize + request.bodyData
      /\ multi \in BOOLEAN /\ t \in Nat /\ cs \in Nat
  BY DEF Sizes, RequestType
<1>2. /\ Asked <= full - request.bodyData /\ request.bodyData \in Nat /\ full \in Nat
      /\ Asked \in Nat
  BY <1>1, AskedFacts
<1>3. size \in Nat /\ size <= full
  BY <1>2
<1>4. maxSize \in Nat /\ maxMultiPartSize \in Nat
  BY RequestAssumption
<1>5. upload \in ParsedUpload
  <2>1. before \in Befores
    BY DEF Befores
  <2> HIDE DEF before
  <2> QED
    BY <2>1, UploadIsTyped
<1>6. more \in Nat /\ new \in Nat
      /\ found \in SUBSET [field : Texts, file : Texts, size : Nat]
  <2> HIDE DEF upload, cs
  <2> QED
    BY <1>1, <1>5 DEF ParsedUpload
<1>7. found = Uploaded
  BY DEF Uploaded
<1>8. /\ p \in RequestType /\ p.bodyData = size /\ p.boundary = multi
      /\ p.expectedBodySize = full /\ p.lineBuffer = 0 /\ p.parameters = {}
      /\ p.currentSize = cs /\ p.status = "waitForBody" /\ p.taken = t
  <2> HIDE DEF size
  <2> QED
    BY <1>1, <1>3 DEF RequestType
<1>9. HasBody(p) <=> size = full
  <2>1. HasBody(p) <=> size >= full
    <3> HIDE DEF p, size, full
    <3> QED
      BY <1>8 DEF HasBody
  <2> HIDE DEF size, full, p
  <2> QED
    BY <1>2, <1>3, <2>1
<1>10. q = IF ~ multi
           THEN [p EXCEPT !.currentSize = @ + n,
                          !.status = IF HasBody(p) THEN "complete" ELSE @]
           ELSE IF size >= maxMultiPartSize THEN [p EXCEPT !.status = "abort"]
           ELSE IF ~ HasBody(p) THEN p
           ELSE [p EXCEPT !.status = "complete", !.currentSize = @ + upload.bytes,
                          !.parameters = upload.parameters]
  BY Zenon DEF readBody
<1>13. /\ multi => t + n <= maxSize + 1 + size /\ t + n <= maxSize + 1 + maxMultiPartSize
       /\ ~ multi => /\ t + n <= new /\ new + full <= maxSize + size
                     /\ t + n <= maxSize + 1
  <2> DEFINE had == request.bodyData
  <2>1. /\ had \in Nat /\ size = had + n /\ size <= full /\ full \in Nat /\ new = cs + n
        /\ IF multi THEN t <= maxSize + 1 + had /\ full <= maxMultiPartSize
           ELSE t <= cs /\ cs + full <= maxSize + had
    BY <1>1, <1>2, <1>3
  <2> HIDE DEF had, size, full, multi, t, cs, new
  <2>2. CASE multi
    BY <1>1, <1>4, <2>1, <2>2
  <2>3. CASE ~ multi
    BY <1>1, <1>4, <2>1, <2>3
  <2> QED
    BY <2>2, <2>3
<1> DEFINE Result(status, sum, ps) ==
               /\ q \in RequestType /\ q.status = status /\ q.parameters = ps
               /\ q.bodyData = size /\ q.boundary = multi /\ q.expectedBodySize = full
               /\ q.lineBuffer = 0 /\ q.currentSize = sum /\ q.taken = t
           body == request.bodyData
<1>16. size = body + n /\ full = request.expectedBodySize /\ multi = request.boundary
       /\ body = request.bodyData
  OBVIOUS
<1>17. q = readBody(n)
  OBVIOUS
<1> HIDE DEF size, q, upload, p, full, multi, t, cs, body, before
<1>18. \/ Result("abort", cs, {})
       \/ multi /\ size < full /\ Result("waitForBody", cs, {})
       \/ ~ multi /\ size < full /\ Result("waitForBody", new, {})
       \/ ~ multi /\ size = full /\ Result("complete", new, {})
       \/ multi /\ size = full /\ Result("complete", more, found)
  <2>1. CASE ~ multi
    <3> DEFINE s == IF HasBody(p) THEN "complete" ELSE p.status
               sum == p.currentSize + n
    <3>1. q = [p EXCEPT !.currentSize = sum, !.status = s]
      BY <1>10, <2>1
    <3>2. sum \in Nat /\ sum = new
      BY <1>6, <1>8
    <3>3. IF size = full THEN s = "complete" ELSE s = "waitForBody"
      BY <1>8, <1>9
    <3> HIDE DEF sum, s, new
    <3>4. Result(s, new, {})
      BY <1>8, <3>1, <3>2, <3>3 DEF RequestType
    <3> HIDE DEF Result
    <3>5. size = full \/ size < full
      BY <1>2, <1>3 DEF full
    <3> QED
      BY <2>1, <3>3, <3>4, <3>5
  <2>2. CASE multi /\ size >= maxMultiPartSize
    <3>1. q = [p EXCEPT !.status = "abort"]
      BY <1>10, <2>2
    <3>2. Result("abort", cs, {})
      BY <1>8, <3>1 DEF RequestType
    <3> HIDE DEF Result
    <3> QED
      BY <3>2
  <2>3. CASE multi /\ ~ (size >= maxMultiPartSize) /\ size # full
    <3>1. q = p
      BY <1>9, <1>10, <2>3
    <3>2. size < full
      BY <1>2, <1>3, <2>3 DEF full
    <3>3. Result("waitForBody", cs, {})
      BY <1>8, <3>1
    <3> HIDE DEF Result
    <3> QED
      BY <2>3, <3>2, <3>3
  <2>4. CASE multi /\ ~ (size >= maxMultiPartSize) /\ size = full
    <3> DEFINE sum == p.currentSize + upload.bytes
    <3>1. q = [p EXCEPT !.status = "complete", !.currentSize = sum, !.parameters = found]
      BY <1>9, <1>10, <2>4
    <3>2. sum \in Nat /\ sum = more
      BY <1>6, <1>8
    <3> HIDE DEF sum, found, more
    <3>3. Result("complete", more, found)
      BY <1>6, <1>8, <3>1, <3>2 DEF RequestType
    <3> HIDE DEF Result
    <3> QED
      BY <2>4, <3>3
  <2> QED
    BY <2>1, <2>2, <2>3, <2>4
<1> HIDE DEF found, new, more
<1>19. /\ q \in RequestType /\ q.bodyData = size /\ q.boundary = multi
       /\ q.expectedBodySize = full /\ q.lineBuffer = 0 /\ q.taken = t
  BY <1>18
<1>20. /\ c \in RequestType /\ Alike(c, q) /\ c.taken = q.taken + n
       /\ \/ c.status = "abort"
          \/ /\ c.status = q.status
             /\ q.boundary => q.currentSize <= maxMultiPartSize
             /\ ~ q.boundary => q.currentSize <= maxSize
  BY <1>17, <1>19, CheckedFacts
<1>21. /\ c.lineBuffer = 0 /\ c.bodyData = size /\ c.expectedBodySize = full
       /\ c.boundary = multi /\ c.taken = t + n /\ c.currentSize = q.currentSize
       /\ c.parameters = q.parameters
  BY <1>19, <1>20 DEF Alike
<1>22. \/ c.status = "abort"
       \/ /\ c.status = "waitForBody" /\ size < full /\ c.parameters = {}
          /\ ~ multi => c.currentSize = new
       \/ /\ c.status = "complete" /\ size = full
          /\ c.parameters = IF multi THEN found ELSE {}
          /\ ~ multi => c.currentSize = new /\ new <= maxSize
  BY <1>18, <1>19, <1>20, <1>21
<1>23. c.taken <= Allowed(c)
  BY <1>1, <1>4, <1>13, <1>21 DEF Allowed
<1>24. c.status = "waitForBody" =>
          /\ c.lineBuffer = 0 /\ c.parameters = {} /\ c.bodyData < c.expectedBodySize
          /\ IF c.boundary THEN /\ c.taken <= maxSize + 1 + c.bodyData
                                /\ c.expectedBodySize <= maxMultiPartSize
             ELSE /\ c.taken <= c.currentSize
                  /\ c.currentSize + c.expectedBodySize <= maxSize + c.bodyData
  <2> SUFFICES ASSUME c.status = "waitForBody"
               PROVE  /\ c.lineBuffer = 0 /\ c.parameters = {} /\ c.bodyData < c.expectedBodySize
                      /\ IF c.boundary THEN /\ c.taken <= maxSize + 1 + c.bodyData
                                            /\ c.expectedBodySize <= maxMultiPartSize
                         ELSE /\ c.taken <= c.currentSize
                              /\ c.currentSize + c.expectedBodySize <= maxSize + c.bodyData
    OBVIOUS
  <2>1. c.parameters = {} /\ size < full /\ (~ multi => c.currentSize = new)
    BY <1>22
  <2>2. CASE multi
    BY <1>1, <1>13, <1>21, <2>1, <2>2
  <2>3. CASE ~ multi
    BY <1>13, <1>21, <2>1, <2>3
  <2> QED
    BY <2>2, <2>3
<1>25. c.status = "complete" =>
          IF c.boundary THEN c.bodyData <= maxMultiPartSize ELSE c.taken <= maxSize
  <2> SUFFICES ASSUME c.status = "complete"
               PROVE  IF multi THEN size <= maxMultiPartSize ELSE t + n <= maxSize
    BY <1>21
  <2>1. size = full /\ (~ multi => new <= maxSize)
    BY <1>22
  <2>2. CASE multi
    BY <1>1, <2>1, <2>2
  <2>3. CASE ~ multi
    <3>1. t + n <= new /\ new <= maxSize /\ t \in Nat /\ new \in Nat
      BY <1>1, <1>6, <1>13, <2>1, <2>3
    <3> QED
      BY <1>4, <2>3, <3>1
  <2> QED
    BY <2>2, <2>3
<1>26. Sizes(c)
  <2>1. c.status \notin {"waitForRequest", "waitForHeader"}
    BY <1>22
  <2> QED
    BY <1>23, <1>24, <1>25, <2>1 DEF Sizes
<1> QED
  BY <1>3, <1>7, <1>16, <1>20, <1>21, <1>22, <1>26

--------------------------------------------------------------------------------

(***************************************************************************)
(* Where a read leaves the reader.                                         *)
(***************************************************************************)

LEMMA PlacedIf ==
    ASSUME request' \in RequestType,
           request'.status = "waitForRequest" => InRequestLine(request)',
           request'.status = "waitForHeader" => InHeaders(request)',
           request'.status = "waitForBody" => InTheBody(request)',
           request'.status = "complete" => Ended(request)'
    PROVE  Placed(request)'
<1>1. request' # NoRequest
  <2>1. request'.status # "none" /\ NoRequest.status = "none"
    BY DEF RequestType, NoRequest
  <2> QED
    BY <2>1
<1> QED
  BY <1>1 DEF Placed

\* A read of the request line.
LEMMA RequestLineStep ==
    ASSUME request.status = "waitForRequest", InHead(request), InRequestLine(request),
           NEW n, ReadStep(toRead, n), ~ torn', request' = Checked(readRequest(n), n)
    PROVE  Placed(request)'
<1> DEFINE T == TextSize(Wire, line)  L == LastLine(Wire)  q == readRequest(n)
<1>0. request \in RequestType /\ stream \in Seq(Requests) /\ ReaderIsPlaced /\ HasMore
  BY DEF ReadStep
<1>1. toRead \in Nat \ {0} /\ request.lineBuffer \in Nat
  BY <1>0, HeadFacts
<1>2. /\ n \in Nat \ {0} /\ n <= toRead /\ off + n <= LineSize(Wire, line)
      /\ stream' = stream /\ answers' = answers
      /\ ~ Tears(n)
      /\ InsideLine(n) \/ NextLine(n) \/ NextRequest(n)
      /\ ReaderIsPlaced'
      /\ Current \in Nat /\ Len(answers) \in Nat /\ Current' = Current
      /\ Current = Len(answers) + 1
  BY <1>1, Reads
<1>3. /\ next \in 1 .. Len(stream) /\ HasMore
      /\ line \in 1 .. L + 1 /\ L \in Nat \ {0}
      /\ off \in Nat /\ LineSize(Wire, line) \in Nat
      /\ line <= L => T \in Nat /\ LineSize(Wire, line) = T + 2
      /\ line < L => T > 0
      /\ line = L => T = 0
      /\ Wire.body \in Nat
      /\ InBody <=> line > L
      /\ L = Len(Wire.head) + 1 /\ Len(Wire.head) \in Nat \ {0}
      /\ Wire.body > 0 => Len(Wire.head) >= 2
      /\ Wire.parts # <<>> => Wire.body > 1
  BY <1>0, AtByte
<1>4. /\ q \in RequestType /\ Alike(q, Buffered(n)) /\ q.taken = request.taken
      /\ ~ q.boundary /\ q.expectedBodySize = 0 /\ q.bodyData = 0 /\ q.parameters = {}
      /\ q.described = request.described
      /\ q.status = IF ~ HasBreak(n) \/ IsBlank THEN "waitForRequest"
                    ELSE IF IsWhole /\ line = 1 THEN "waitForHeader" ELSE "abort"
  BY <1>0, <1>2, ReadRequestFacts
<1>5. Buffered(n).lineBuffer = (IF HasBreak(n) THEN 0 ELSE request.lineBuffer + n)
  BY <1>0, <1>2, BufferedFacts
<1> HIDE DEF q
<1>6. /\ request' \in RequestType
      /\ request'.lineBuffer = (IF HasBreak(n) THEN 0 ELSE request.lineBuffer + n)
      /\ request'.described = request.described
      /\ request'.status = "abort" \/ request'.status = q.status
  <2> DEFINE c == Checked(q, n)
  <2>1. c \in RequestType /\ Alike(c, q) /\ (c.status = "abort" \/ c.status = q.status)
    BY <1>2, <1>4, CheckedFacts
  <2>2. request' = c
    BY DEF q
  <2> HIDE DEF c
  <2> QED
    BY <1>4, <1>5, <2>1, <2>2 DEF Alike
<1>7. q.status \in {"waitForRequest", "waitForHeader", "abort"}
  BY <1>4
<1>8. SUFFICES ASSUME request'.status = q.status
               PROVE  /\ q.status = "waitForRequest" => InRequestLine(request)'
                      /\ q.status = "waitForHeader" => InHeaders(request)'
  BY <1>6, <1>7, PlacedIf
<1>9. ~ request.described /\ ~ request'.described
  BY <1>6 DEF InRequestLine
<1> HIDE DEF T, L
\* What is left over of the request before is skipped.
<1>10. CASE LeftOver(Len(answers)) /\ request.lineBuffer = 0
  <2>1. /\ next = Len(answers)
        /\ IF InBody THEN Wire.parts # <<>> /\ off >= Wire.body - 2
           ELSE Wire.body = 0 /\ line = L
    BY <1>10 DEF LeftOver, L
  <2>2. HasBreak(n) /\ IsBlank
    <3>1. CASE InBody
      BY <2>1, <3>1 DEF HasBreak, IsBlank
    <3>2. CASE ~ InBody
      <4>1. T = 0 /\ off + n > T /\ off >= request.lineBuffer + T
        BY <1>2, <1>3, <1>10, <2>1, <3>2
      <4> QED
        BY <3>2, <4>1 DEF HasBreak, IsBlank, T
    <3> QED
      BY <3>1, <3>2
  <2>3. q.status = "waitForRequest" /\ request'.lineBuffer = 0
    BY <1>4, <1>6, <2>2
  <2>4. CASE InsideLine(n)
    <3>1. next' = next /\ line' = line /\ off' = off + n
      BY <2>4 DEF InsideLine
    <3>2. HasMore' /\ Wire' = Wire /\ InBody' = InBody /\ LastLine(Wire)' = LastLine(Wire)
      BY <1>2, <1>3, <3>1, SameRequest DEF InBody
    <3>3. InBody => off' >= Wire.body - 2
      BY <1>2, <1>3, <2>1, <3>1
    <3>4. LeftOver(Len(answers))'
      BY <1>2, <2>1, <3>1, <3>2, <3>3 DEF LeftOver, L
    <3> QED
      BY <1>9, <2>3, <3>4 DEF InRequestLine
  <2>5. CASE NextLine(n)
    <3>1. line <= L /\ (line = L => Wire.body > 0)
      BY <2>5 DEF NextLine, L
    <3> QED
      BY <1>3, <2>1, <3>1
  <2>6. CASE NextRequest(n)
    <3>1. next' = Current' /\ line' = 1 /\ off' = 0
      BY <1>2, <2>1, <2>6 DEF NextRequest
    <3>2. HasMore' => 0 <= TextSize(Wire, line)'
      <4> SUFFICES ASSUME HasMore' PROVE 0 <= TextSize(Wire, line)'
        OBVIOUS
      <4> DEFINE w == Wire'
      <4>1. w \in Requests
        <5>1. next' \in 1 .. Len(stream)
          BY <1>2, <1>3, <2>6 DEF HasMore, NextRequest
        <5> QED
          BY <1>0, <1>2, <5>1 DEF Wire
      <4>2. TextSize(Wire, line)' = TextSize(w, 1)
        BY <3>1 DEF TextSize, LastLine
      <4> HIDE DEF w
      <4>3. LastLine(w) \in Nat \ {0}
        BY <4>1, RequestFacts
      <4>4. 1 \in 1 .. LastLine(w) + 1 /\ 1 <= LastLine(w)
        BY <4>3
      <4>5. TextSize(w, 1) \in Nat
        BY <4>1, <4>4, LineSizes
      <4> QED
        BY <4>2, <4>5
    <3>3. InLine(request)'
      BY <2>3, <3>1, <3>2 DEF InLine
    <3> QED
      BY <1>9, <2>3, <3>1, <3>3 DEF InRequestLine
  <2> QED
    BY <1>2, <2>4, <2>5, <2>6
\* A part of the line, or all of it.
<1>11. CASE line = 1 /\ InLine(request)
  <2>1. /\ next = Current /\ request.lineBuffer = off /\ off <= T /\ line < L /\ ~ InBody
        /\ T \in Nat /\ T > 0 /\ LineSize(Wire, line) = T + 2
    BY <1>3, <1>11 DEF InLine, T
  <2>2. ~ IsBlank /\ IsWhole
    BY <1>3, <2>1 DEF IsBlank, IsWhole, T
  <2>3. HasBreak(n) <=> off + n > T
    BY <2>1 DEF HasBreak, T
  <2>4. CASE off + n <= T
    <3>1. ~ HasBreak(n)
      BY <1>2, <1>3, <2>1, <2>3, <2>4
    <3>2. q.status = "waitForRequest" /\ request'.lineBuffer = off + n
      BY <1>4, <1>6, <2>1, <3>1
    <3>3. InsideLine(n)
      BY <1>2, <1>3, <2>1, <2>4 DEF NextLine, NextRequest
    <3>4. next' = next /\ line' = line /\ off' = off + n
      BY <3>3 DEF InsideLine
    <3>5. TextSize(Wire, line)' = T
      BY <1>2, <1>3, <3>4, SameRequest DEF T
    <3>6. InLine(request)'
      BY <1>2, <2>1, <2>4, <3>2, <3>4, <3>5 DEF InLine
    <3> QED
      BY <1>9, <1>11, <3>2, <3>4, <3>6 DEF InRequestLine
  <2>5. CASE off + n = T + 1
    <3>1. HasBreak(n)
      BY <2>1, <2>3, <2>5
    <3>2. q.status = "waitForHeader" /\ request'.lineBuffer = 0
      BY <1>4, <1>6, <1>11, <2>2, <3>1
    <3>3. InsideLine(n)
      BY <1>2, <1>3, <2>1, <2>5 DEF NextLine, NextRequest
    <3>4. next' = next /\ line' = 1 /\ off' = T + 1
      BY <1>11, <2>5, <3>3 DEF InsideLine
    <3>5. HasMore' /\ Wire' = Wire /\ TextSize(Wire, line)' = T
      BY <1>2, <1>3, <1>11, <3>4, SameRequest DEF T
    <3>6. ~ (line < Len(Wire.head)) /\ ~ (Wire.body > 0 /\ Wire.parts = <<>>)
      BY <1>2, <2>1, <2>5 DEF Tears, T
    <3>7. Len(Wire.head) = 1
      <4> DEFINE h == Len(Wire.head)
      <4>1. h \in Nat \ {0} /\ ~ (1 < h)
        BY <1>3, <1>11, <3>6
      <4> HIDE DEF h
      <4>2. h = 1
        BY <4>1
      <4> QED
        BY <4>2 DEF h
    <3>8. AtBreak(request)'
      BY <1>2, <1>9, <2>1, <3>2, <3>4, <3>5, <3>6, <3>7 DEF AtBreak
    <3> QED
      BY <3>2, <3>5, <3>8 DEF InHeaders
  <2>6. CASE off + n = T + 2
    <3>1. HasBreak(n)
      BY <2>1, <2>3, <2>6
    <3>2. q.status = "waitForHeader" /\ request'.lineBuffer = 0
      BY <1>4, <1>6, <1>11, <2>2, <3>1
    <3>3. NextLine(n)
      BY <1>2, <1>3, <2>1, <2>6 DEF InsideLine, NextRequest, L
    <3>4. next' = next /\ line' = 2 /\ off' = 0
      BY <1>11, <3>3 DEF NextLine
    <3>5. HasMore' /\ Wire' = Wire /\ LastLine(Wire)' = L
          /\ TextSize(Wire, line)' = TextSize(Wire, 2)
      BY <1>2, <1>3, <3>4, SameRequest DEF L
    <3>6. TextSize(Wire, 2) \in Nat /\ 2 <= L
      <4>1. 2 \in 1 .. L + 1 /\ 2 <= L /\ Wire \in Requests
        BY <1>0, <1>3, <1>11, <2>1, AtByte
      <4> QED
        BY <4>1, LineSizes DEF L
    <3>7. InLine(request)'
      BY <1>2, <2>1, <3>2, <3>4, <3>5, <3>6 DEF InLine
    <3>8. request'.described <=> line' = LastLine(Wire)' /\ Len(Wire'.head) >= 2
      BY <1>3, <1>9, <3>4, <3>5
    <3>9. line' \in 2 .. LastLine(Wire)'
      BY <1>3, <3>4, <3>5, <3>6
    <3> QED
      BY <3>2, <3>5, <3>7, <3>8, <3>9 DEF InHeaders
  <2> QED
    <3>1. off + n <= T \/ off + n = T + 1 \/ off + n = T + 2
      BY <1>2, <1>3, <2>1
    <3> QED
      BY <2>4, <2>5, <2>6, <3>1
<1> QED
  BY <1>10, <1>11 DEF InRequestLine

\* The empty line, or what was left of the break before it, ends the head.
LEMMA HeadEnds ==
    ASSUME request.status = "waitForHeader", InHead(request), next = Current,
           NEW n, ReadStep(toRead, n), request' = Checked(readHeader(n), n),
           HasBreak(n), IsBlank,
           request.described <=> Len(Wire.head) >= 2,
           \/ line = LastLine(Wire) /\ off = 0 /\ n = 2
           \/ line = LastLine(Wire) /\ off = 0 /\ n = 1 /\ (Wire.body > 0 => Wire.parts # <<>>)
           \/ /\ line = LastLine(Wire) - 1 /\ n = 1 /\ off = TextSize(Wire, line) + 1
              /\ Wire.body > 0 => Wire.parts # <<>>
    PROVE  Placed(request)'
<1> DEFINE L == LastLine(Wire)  body == Wire.body  c == request'
           size == IF request.described THEN Wire.body ELSE 0
<1>0. request \in RequestType /\ stream \in Seq(Requests) /\ ReaderIsPlaced /\ HasMore
  BY DEF ReadStep
<1>1. toRead \in Nat \ {0}
  BY <1>0, HeadFacts
<1>2. /\ n \in Nat \ {0} /\ n <= toRead /\ off + n <= LineSize(Wire, line)
      /\ stream' = stream /\ answers' = answers
      /\ InsideLine(n) \/ NextLine(n) \/ NextRequest(n)
      /\ Current \in Nat /\ Current' = Current
  BY <1>1, Reads
<1>3. /\ next \in 1 .. Len(stream) /\ L \in Nat \ {0}
      /\ line <= L => LineSize(Wire, line) = TextSize(Wire, line) + 2
                      /\ TextSize(Wire, line) \in Nat
      /\ line = L => TextSize(Wire, line) = 0
      /\ body \in Nat
      /\ InBody <=> line > L
      /\ body > 0 => Len(Wire.head) >= 2
      /\ Wire.parts # <<>> => body > 1
      /\ LineSize(Wire, line) \in Nat /\ off \in Nat
  BY <1>0, AtByte
<1>4. /\ c \in RequestType
      /\ c.lineBuffer = 0 /\ c.bodyData = 0 /\ c.parameters = {}
      /\ c.expectedBodySize = size
      /\ c.boundary = (request.described /\ Wire.parts # <<>>)
      /\ \/ c.status = "abort"
         \/ c.status = "complete" /\ size = 0
         \/ c.status = "waitForBody" /\ size > 0
  BY <1>0, <1>2, <1>3, EndOfHeadersFacts
<1>5. size = body /\ (c.boundary <=> Wire.parts # <<>>)
  <2>1. CASE request.described
    BY <1>4, <2>1
  <2>2. CASE ~ request.described
    <3>1. body = 0 /\ Wire.parts = <<>>
      <4> DEFINE h == Len(Wire.head)  d == request.described
      <4>1. ~ (h >= 2)
        BY <2>2
      <4> HIDE DEF h, body
      <4>2. body \in Nat /\ (body > 0 => h >= 2) /\ (Wire.parts # <<>> => body > 1)
        BY <1>3 DEF h
      <4> QED
        BY <4>1, <4>2
    <3> QED
      BY <1>4, <2>2, <3>1
  <2> QED
    BY <2>1, <2>2
<1>6. c.status \notin {"waitForRequest", "waitForHeader"}
  BY <1>4
<1>7. SUFFICES /\ c.status = "waitForBody" => InTheBody(request)'
               /\ c.status = "complete" => Ended(request)'
  BY <1>4, <1>6, PlacedIf
<1> HIDE DEF L, body, size, c
<1>8. \/ line = L /\ NextRequest(n) /\ body = 0
      \/ line = L /\ NextLine(n) /\ body > 0
      \/ line = L /\ off = 0 /\ n = 1 /\ InsideLine(n) /\ (body > 0 => Wire.parts # <<>>)
      \/ line = L - 1 /\ NextLine(n) /\ (body > 0 => Wire.parts # <<>>)
  <2>1. CASE line = L /\ off = 0 /\ n = 2
    <3>1. off + n = LineSize(Wire, line) /\ ~ InBody
      BY <1>3, <2>1
    <3> QED
      BY <1>2, <1>3, <2>1, <3>1 DEF InsideLine, NextLine, NextRequest, L, body
  <2>2. CASE line = L /\ off = 0 /\ n = 1 /\ (body > 0 => Wire.parts # <<>>)
    <3>1. off + n # LineSize(Wire, line)
      BY <1>3, <2>2
    <3> QED
      BY <1>2, <2>2, <3>1 DEF NextLine, NextRequest
  <2>3. CASE /\ line = L - 1 /\ n = 1 /\ off = TextSize(Wire, line) + 1
             /\ body > 0 => Wire.parts # <<>>
    <3>1. off + n = LineSize(Wire, line) /\ ~ InBody /\ line # L
      BY <1>3, <2>3
    <3>2. ~ InsideLine(n)
      BY <1>3, <3>1 DEF InsideLine
    <3>3. ~ NextRequest(n)
      BY <3>1 DEF NextRequest, L
    <3> QED
      BY <1>2, <2>3, <3>2, <3>3
  <2> QED
    BY <2>1, <2>2, <2>3 DEF L, body
\* Nothing follows but the next request.
<1>9. CASE line = L /\ NextRequest(n) /\ body = 0
  <2>1. next' = Current' + 1 /\ line' = 1 /\ off' = 0
    BY <1>2, <1>9 DEF NextRequest
  <2>2. Between(Current)'
    BY <2>1 DEF Between
  <2>3. c.parameters = Range(stream[Current].parts)
    <3>1. Wire.parts = <<>> /\ Wire = stream[Current]
      BY <1>3, <1>9 DEF Wire
    <3>2. Range(Wire.parts) = {}
      BY <3>1 DEF Range
    <3> QED
      BY <1>4, <3>1, <3>2
  <2>4. Ended(request)'
    BY <1>2, <1>3, <2>2, <2>3 DEF Ended, c
  <2> QED
    BY <1>4, <1>5, <1>9, <2>4
\* A body follows, or what is left of the empty line.
<1>10. CASE \/ line = L /\ NextLine(n) /\ body > 0
            \/ line = L /\ off = 0 /\ n = 1 /\ InsideLine(n) /\ (body > 0 => Wire.parts # <<>>)
            \/ line = L - 1 /\ NextLine(n) /\ (body > 0 => Wire.parts # <<>>)
  <2>1. /\ next' = next
        /\ \/ line' = L + 1 /\ off' = 0 /\ body > 0
           \/ /\ line' = L /\ off' \in {0, 1}
              /\ body > 0 => Wire.parts # <<>>
    <3>1. CASE line = L /\ NextLine(n) /\ body > 0
      BY <3>1 DEF NextLine
    <3>2. CASE line = L /\ off = 0 /\ n = 1 /\ InsideLine(n) /\ (body > 0 => Wire.parts # <<>>)
      BY <3>2 DEF InsideLine
    <3>3. CASE line = L - 1 /\ NextLine(n) /\ (body > 0 => Wire.parts # <<>>)
      <4>1. next' = next /\ line' = L - 1 + 1 /\ off' = 0
        BY <3>3 DEF NextLine
      <4> QED
        BY <1>3, <3>3, <4>1
    <3> QED
      BY <1>10, <3>1, <3>2, <3>3
  <2>2. /\ HasMore' /\ Wire' = Wire /\ LastLine(Wire)' = L /\ next' = Current'
        /\ InBody' <=> line' > L
    BY <1>0, <1>2, <2>1, SameRequest DEF L
  <2>3. ASSUME c.status = "complete"
        PROVE  Ended(request)'
    <3>1. size = 0
      BY <1>4, <2>3
    <3>2. body = 0 /\ Wire.parts = <<>> /\ Wire = stream[Current]
      BY <1>3, <1>5, <3>1 DEF Wire
    <3>3. line' = L /\ ~ InBody'
      BY <1>3, <2>1, <2>2, <3>2
    <3>4. LeftOver(Current)'
      BY <1>2, <2>2, <3>2, <3>3 DEF LeftOver, body
    <3>5. c.parameters = Range(stream[Current].parts)
      <4>1. Range(Wire.parts) = {}
        BY <3>2 DEF Range
      <4> QED
        BY <1>4, <3>2, <4>1
    <3>6. Between(Current)'
      BY <3>4 DEF Between
    <3> QED
      BY <1>2, <1>3, <3>5, <3>6 DEF Ended, c
  <2>4. ASSUME c.status = "waitForBody"
        PROVE  InTheBody(request)'
    <3>1. body > 0
      BY <1>4, <1>5, <2>4
    <3>2. c.expectedBodySize = Wire'.body /\ (c.boundary <=> Wire'.parts # <<>>)
      BY <1>4, <1>5, <2>2 DEF body
    <3>3. CASE line' = L + 1 /\ off' = 0
      <4>1. InBody' /\ off' = c.bodyData
        BY <1>3, <1>4, <2>2, <3>3
      <4> QED
        BY <2>2, <3>2, <4>1 DEF InTheBody, c
    <3>4. CASE line' = L /\ off' \in {0, 1} /\ Wire.parts # <<>>
      <4>1. c.boundary /\ <<off', c.bodyData>> \in {<<0, 0>>, <<1, 0>>, <<1, 1>>}
        BY <1>4, <1>5, <3>4
      <4>2. Behind(request)'
        BY <2>2, <3>4, <4>1 DEF Behind, c
      <4> QED
        BY <2>2, <3>2, <4>2 DEF InTheBody, c
    <3> QED
      BY <2>1, <3>1, <3>3, <3>4
  <2> QED
    BY <2>3, <2>4
<1> QED
  BY <1>8, <1>9, <1>10


\* A read of the rest of the head.
LEMMA HeaderStep ==
    ASSUME request.status = "waitForHeader", InHead(request), InHeaders(request),
           NEW n, ReadStep(toRead, n), ~ torn', request' = Checked(readHeader(n), n)
    PROVE  Placed(request)'
<1> DEFINE T == TextSize(Wire, line)  L == LastLine(Wire)  h == Len(Wire.head)
           q == readHeader(n)
<1>0. request \in RequestType /\ stream \in Seq(Requests) /\ ReaderIsPlaced /\ HasMore
  BY DEF ReadStep
<1>1. toRead \in Nat \ {0} /\ request.lineBuffer \in Nat
  BY <1>0, HeadFacts
<1>2. /\ n \in Nat \ {0} /\ n <= toRead /\ off + n <= LineSize(Wire, line)
      /\ stream' = stream /\ answers' = answers
      /\ ~ Tears(n)
      /\ InsideLine(n) \/ NextLine(n) \/ NextRequest(n)
      /\ Current \in Nat /\ Current' = Current
  BY <1>1, Reads
<1>3. /\ line \in 1 .. L + 1 /\ L \in Nat \ {0}
      /\ off \in Nat /\ LineSize(Wire, line) \in Nat
      /\ line <= L => T \in Nat /\ LineSize(Wire, line) = T + 2
      /\ line < L => T > 0
      /\ line = L => T = 0
      /\ Wire.body \in Nat
      /\ InBody <=> line > L
      /\ L = h + 1 /\ h \in Nat \ {0}
  BY <1>0, AtByte
<1>4. ASSUME ~ (HasBreak(n) /\ IsBlank)
      PROVE  /\ request' \in RequestType
             /\ request'.lineBuffer = (IF HasBreak(n) THEN 0 ELSE request.lineBuffer + n)
             /\ request'.described
                    = (request.described \/ (HasBreak(n) /\ IsWhole /\ line = h))
             /\ request'.status = "abort" \/ request'.status = "waitForHeader"
  <2>1. /\ q \in RequestType /\ q.lineBuffer = Buffered(n).lineBuffer
        /\ q.described = (request.described \/ (HasBreak(n) /\ IsWhole /\ line = h))
        /\ q.status = "waitForHeader"
    BY <1>0, <1>2, <1>4, ReadHeaderFacts
  <2>2. Buffered(n).lineBuffer = (IF HasBreak(n) THEN 0 ELSE request.lineBuffer + n)
    BY <1>0, <1>2, BufferedFacts
  <2> DEFINE c == Checked(q, n)
  <2>3. c = request'
    OBVIOUS
  <2> HIDE DEF q
  <2>4. c \in RequestType /\ Alike(c, q) /\ (c.status = "abort" \/ c.status = q.status)
    BY <1>2, <2>1, CheckedFacts
  <2> HIDE DEF c
  <2> QED
    BY <2>1, <2>2, <2>3, <2>4 DEF Alike
<1> HIDE DEF T, L, h, q
\* It stands at the start of the break before the empty line, or in it.
<1>5. CASE AtBreak(request)
  <2>1. /\ next = Current /\ line = h /\ off = T + 1 /\ request.lineBuffer = 0
        /\ (Wire.body > 0 => Wire.parts # <<>>)
        /\ request.described <=> h >= 2
    BY <1>5 DEF AtBreak, T, h
  <2>2. line = L - 1 /\ line < L /\ ~ InBody /\ n = 1
    BY <1>2, <1>3, <2>1
  <2>3. off + n > T /\ off >= request.lineBuffer + T
    BY <1>2, <1>3, <2>1, <2>2
  <2>4. HasBreak(n) /\ IsBlank
    BY <2>2, <2>3 DEF HasBreak, IsBlank, T
  <2> QED
    BY <2>1, <2>2, <2>4, HeadEnds DEF L, h, T
\* It is in a line of the head, or before the empty one.
<1>6. CASE /\ line \in 2 .. L /\ InLine(request)
           /\ request.described <=> line = L /\ h >= 2
  <2>1. /\ next = Current /\ request.lineBuffer = off /\ off <= T /\ ~ InBody
        /\ T \in Nat /\ LineSize(Wire, line) = T + 2 /\ line \in 2 .. L
    BY <1>0, <1>3, <1>6 DEF InLine, T
  <2>2. HasBreak(n) <=> off + n > T
    BY <2>1 DEF HasBreak, T
  <2>3. CASE line = L
    <3>1. T = 0 /\ off = 0
      BY <1>3, <2>1, <2>3
    <3>2. HasBreak(n) /\ IsBlank
      <4>1. off + n > T /\ off >= request.lineBuffer + T
        BY <1>2, <2>1, <3>1
      <4> QED
        BY <2>1, <4>1 DEF HasBreak, IsBlank, T
    <3>3. n = 1 \/ n = 2
      BY <1>2, <2>1, <3>1
    <3>4. ASSUME n = 1
          PROVE  Wire.body > 0 => Wire.parts # <<>>
      <4>1. off + n = T + 1
        BY <3>1, <3>4
      <4> QED
        BY <1>2, <2>1, <4>1 DEF Tears, T
    <3> QED
      BY <1>6, <2>1, <2>3, <3>1, <3>2, <3>3, <3>4, HeadEnds DEF L, h
  <2>4. CASE line # L
    <3>1. line < L /\ T > 0 /\ ~ request.described
      BY <1>3, <1>6, <2>1, <2>4
    <3>2. ~ IsBlank
      <4>1. ~ (off >= request.lineBuffer + T)
        BY <1>3, <2>1, <3>1
      <4> QED
        BY <2>1, <4>1 DEF IsBlank, T
    <3>3. IsWhole
      <4>1. off <= request.lineBuffer
        BY <1>3, <2>1
      <4> QED
        BY <2>1, <4>1 DEF IsWhole
    <3>4. /\ request' \in RequestType
          /\ request'.lineBuffer = (IF HasBreak(n) THEN 0 ELSE request.lineBuffer + n)
          /\ request'.described = (HasBreak(n) /\ line = h)
          /\ request'.status = "abort" \/ request'.status = "waitForHeader"
      BY <1>4, <3>1, <3>2, <3>3
    <3>5. SUFFICES InHeaders(request)'
      BY <3>4, PlacedIf
    <3>6. CASE off + n <= T
      <4>1. ~ HasBreak(n)
        BY <1>2, <1>3, <2>1, <2>2, <3>6
      <4>2. InsideLine(n)
        BY <1>2, <1>3, <2>1, <3>6 DEF NextLine, NextRequest
      <4>3. next' = next /\ line' = line /\ off' = off + n
        BY <4>2 DEF InsideLine
      <4>4. HasMore' /\ TextSize(Wire, line)' = T /\ LastLine(Wire)' = L
        BY <1>0, <1>2, <4>3, SameRequest DEF T, L
      <4>5. InLine(request)'
        BY <1>2, <2>1, <3>4, <3>6, <4>1, <4>3, <4>4 DEF InLine
      <4>6. ~ request'.described /\ line' \in 2 .. LastLine(Wire)' /\ line' # LastLine(Wire)'
        BY <2>1, <2>4, <3>4, <4>1, <4>3, <4>4
      <4> QED
        BY <4>4, <4>5, <4>6 DEF InHeaders
    <3>7. CASE off + n = T + 1
      <4>1. HasBreak(n)
        BY <2>1, <2>2, <3>7
      <4>2. InsideLine(n)
        BY <1>2, <1>3, <2>1, <3>7 DEF NextLine, NextRequest
      <4>3. next' = next /\ line' = line /\ off' = T + 1
        BY <3>7, <4>2 DEF InsideLine
      <4>4. HasMore' /\ Wire' = Wire /\ TextSize(Wire, line)' = T
        BY <1>0, <1>2, <4>3, SameRequest DEF T
      <4>5. ~ (line < h) /\ ~ (Wire.body > 0 /\ Wire.parts = <<>>)
        BY <1>2, <2>1, <3>7 DEF Tears, T, h
      <4>6. line = h /\ h >= 2
        BY <1>3, <2>1, <3>1, <4>5
      <4>7. request'.lineBuffer = 0 /\ request'.described
        BY <3>4, <4>1, <4>6
      <4>8. next' = Current' /\ line' = Len(Wire'.head) /\ Len(Wire'.head) >= 2
            /\ off' = TextSize(Wire, line)' + 1 /\ (Wire'.body > 0 => Wire'.parts # <<>>)
        BY <1>2, <2>1, <4>3, <4>4, <4>5, <4>6 DEF h
      <4>9. AtBreak(request)'
        BY <4>7, <4>8 DEF AtBreak
      <4> QED
        BY <4>4, <4>9 DEF InHeaders
    <3>8. CASE off + n = T + 2
      <4>1. HasBreak(n)
        BY <2>1, <2>2, <3>8
      <4>2. NextLine(n)
        BY <1>2, <1>3, <2>1, <2>4, <3>8 DEF InsideLine, NextRequest, L
      <4>3. next' = next /\ line' = line + 1 /\ off' = 0
        BY <4>2 DEF NextLine
      <4>4. /\ HasMore' /\ Wire' = Wire /\ LastLine(Wire)' = L
            /\ TextSize(Wire, line)' = TextSize(Wire, line')
        BY <1>0, <1>2, <4>3, SameRequest DEF L
      <4>5. TextSize(Wire, line') \in Nat
        <5>1. line' \in 1 .. L + 1 /\ line' <= L /\ Wire \in Requests
          BY <1>0, <1>3, <2>1, <3>1, <4>3, AtByte
        <5> QED
          BY <5>1, LineSizes DEF L
      <4>6. InLine(request)'
        BY <1>2, <2>1, <3>4, <4>1, <4>3, <4>4, <4>5 DEF InLine
      <4>7. line' \in 2 .. LastLine(Wire)'
        BY <1>3, <2>1, <3>1, <4>3, <4>4
      <4>8. request'.described <=> line' = LastLine(Wire)' /\ Len(Wire'.head) >= 2
        <5>1. line = h <=> line' = LastLine(Wire)' /\ h >= 2
          BY <1>3, <2>1, <4>3, <4>4
        <5> QED
          BY <3>4, <4>1, <4>4, <5>1 DEF h
      <4> QED
        BY <4>4, <4>6, <4>7, <4>8 DEF InHeaders
    <3> QED
      <4>1. off + n <= T \/ off + n = T + 1 \/ off + n = T + 2
        BY <1>2, <1>3, <2>1
      <4> QED
        BY <3>6, <3>7, <3>8, <4>1
  <2> QED
    BY <2>3, <2>4
<1> QED
  BY <1>5, <1>6 DEF InHeaders, L, h

\* A read of the body.
LEMMA BodyStep ==
    ASSUME request.status = "waitForBody", Sizes(request), InTheBody(request),
           NEW n, ReadStep(Asked, n), request' = Checked(readBody(n), n)
    PROVE  Placed(request)'
<1> DEFINE L == LastLine(Wire)  body == Wire.body  had == request.bodyData  c == request'
<1>0. request \in RequestType /\ stream \in Seq(Requests) /\ ReaderIsPlaced /\ HasMore
  BY DEF ReadStep
<1>1. /\ next = Current /\ request.expectedBodySize = body
      /\ (request.boundary <=> Wire.parts # <<>>)
      /\ (InBody /\ off = had) \/ Behind(request)
      /\ had < body
  BY DEF InTheBody, Sizes
<1>2. /\ Asked \in Nat \ {0} /\ Asked <= body - had /\ had \in Nat /\ body \in Nat
  BY <1>0, <1>1, AskedFacts
<1>3. /\ n \in Nat \ {0} /\ n <= Asked /\ off + n <= LineSize(Wire, line)
      /\ stream' = stream /\ answers' = answers
      /\ InsideLine(n) \/ NextLine(n) \/ NextRequest(n)
      /\ Current \in Nat /\ Current' = Current
  BY <1>2, Reads
<1>4. /\ next \in 1 .. Len(stream) /\ L \in Nat \ {0}
      /\ line <= L => LineSize(Wire, line) = TextSize(Wire, line) + 2
      /\ line = L => TextSize(Wire, line) = 0
      /\ InBody <=> line > L
      /\ InBody => line = L + 1 /\ LineSize(Wire, line) = body
      /\ off \in Nat /\ line \in 1 .. L + 1
      /\ Wire.parts # <<>> => body > 1
      /\ Wire.parts \in Seq(UploadPart)
  BY <1>0, AtByte
<1>5. /\ c \in RequestType
      /\ c.bodyData = had + n /\ c.expectedBodySize = body /\ c.boundary = request.boundary
      /\ had + n <= body
      /\ \/ c.status = "abort"
         \/ c.status = "waitForBody" /\ had + n < body
         \/ /\ c.status = "complete" /\ had + n = body
            /\ c.parameters = IF request.boundary THEN Uploaded ELSE {}
  BY <1>0, <1>1, <1>3, <1>4, ReadBodyFacts
<1>6. SUFFICES /\ c.status = "waitForBody" => InTheBody(request)'
               /\ c.status = "complete" => Ended(request)'
  BY <1>5, PlacedIf
<1>7. c.bodyData \in Nat
  BY <1>2, <1>3, <1>5
<1> HIDE DEF L, body, had, c
\* Where the read leaves the reader.
<1>8. \/ /\ had + n < body \/ Wire.parts # <<>>
         /\ next' = next /\ line' = L + 1
         /\ off' = had + n \/ (Wire.parts # <<>> /\ off' \in {had + n - 1, had + n - 2})
         /\ had + n = body => off' # had + n
      \/ /\ Wire.parts # <<>> /\ next' = next /\ line' = L
         /\ off' = 1 /\ had + n = 1
      \/ had + n = body /\ next' = next + 1 /\ line' = 1 /\ off' = 0
  <2>1. CASE InBody /\ off = had
    <3>1. line = L + 1 /\ LineSize(Wire, line) = body
      BY <1>4, <2>1
    <3>2. ~ NextLine(n)
      BY <1>4, <3>1 DEF NextLine, L
    <3>3. CASE InsideLine(n)
      BY <1>2, <1>3, <2>1, <3>1, <3>3 DEF InsideLine
    <3>4. CASE NextRequest(n)
      BY <2>1, <3>1, <3>4 DEF NextRequest
    <3> QED
      BY <1>3, <3>2, <3>3, <3>4
  <2>2. CASE request.boundary /\ InBody /\ off \in {had - 1, had - 2}
    <3>1. line = L + 1 /\ LineSize(Wire, line) = body /\ Wire.parts # <<>>
      BY <1>1, <1>4, <2>2
    <3>2. off + n < body
      BY <1>2, <1>3, <1>4, <2>2
    <3>3. InsideLine(n)
      BY <1>2, <1>3, <1>4, <3>1, <3>2 DEF NextLine, NextRequest
    <3>4. next' = next /\ line' = L + 1 /\ off' = off + n
      BY <3>1, <3>3 DEF InsideLine
    <3>5. off' \in {had + n - 1, had + n - 2} /\ off' # had + n
      BY <1>2, <1>3, <2>2, <3>4
    <3> QED
      BY <3>1, <3>4, <3>5
  <2>3. CASE /\ request.boundary /\ line = L
             /\ <<off, had>> \in {<<0, 0>>, <<1, 0>>, <<1, 1>>}
    <3>1. LineSize(Wire, line) = 2 /\ Wire.parts # <<>> /\ ~ InBody /\ body > 1
      BY <1>1, <1>4, <2>3
    <3>2. (off = 0 /\ had = 0) \/ (off = 1 /\ had = 0) \/ (off = 1 /\ had = 1)
      BY <2>3
    <3>3. ~ NextRequest(n)
      BY <3>1, <1>4, <1>2 DEF NextRequest, body
    <3>4. CASE InsideLine(n)
      <4>1. off = 0 /\ had = 0 /\ n = 1
        BY <1>3, <3>1, <3>2, <3>4 DEF InsideLine
      <4> QED
        BY <2>3, <3>1, <3>4, <4>1 DEF InsideLine
    <3>5. CASE NextLine(n)
      <4>1. next' = next /\ line' = L + 1 /\ off' = 0 /\ off + n = 2
        BY <2>3, <3>1, <3>5 DEF NextLine
      <4>2. off' \in {had + n - 1, had + n - 2} /\ off' # had + n
        <5>1. (had = 0 /\ n = 2) \/ (had = 0 /\ n = 1) \/ (had = 1 /\ n = 1)
          BY <1>3, <3>2, <4>1
        <5> QED
          BY <4>1, <5>1
      <4> QED
        BY <3>1, <4>1, <4>2
    <3> QED
      BY <1>3, <3>3, <3>4, <3>5
  <2> QED
    BY <1>1, <2>1, <2>2, <2>3 DEF Behind, L, had
<1>9. ASSUME c.status = "waitForBody"
      PROVE  InTheBody(request)'
  <2>1. had + n < body
    BY <1>5, <1>2, <1>3, <1>9
  <2>2. next' = next
    BY <1>2, <1>3, <1>8, <2>1
  <2>3. /\ HasMore' /\ Wire' = Wire /\ LastLine(Wire)' = L /\ next' = Current'
        /\ InBody' <=> line' > L
    BY <1>0, <1>1, <1>3, <2>2, SameRequest DEF L
  <2>4. c.expectedBodySize = Wire'.body /\ (c.boundary <=> Wire'.parts # <<>>)
    BY <1>1, <1>5, <2>3 DEF body
  <2>5. CASE line' = L + 1 /\ off' = had + n
    <3>1. InBody' /\ off' = c.bodyData
      BY <1>4, <1>5, <2>3, <2>5
    <3> QED
      BY <2>3, <2>4, <3>1 DEF InTheBody, c
  <2>6. CASE line' = L + 1 /\ Wire.parts # <<>> /\ off' \in {had + n - 1, had + n - 2}
    <3>1. c.boundary
      BY <1>1, <1>5, <2>6
    <3>2. InBody'
      BY <1>4, <2>3, <2>6
    <3>3. off' = c.bodyData - 1 \/ off' = c.bodyData - 2
      <4>1. c.bodyData = had + n /\ (off' = had + n - 1 \/ off' = had + n - 2)
        BY <1>5, <2>6
      <4> QED
        BY <1>2, <1>3, <4>1
    <3>4. Behind(request)'
      BY <3>1, <3>2, <3>3 DEF Behind, c
    <3> QED
      BY <2>3, <2>4, <3>4 DEF InTheBody, c
  <2>7. CASE line' = L /\ Wire.parts # <<>> /\ off' = 1 /\ had + n = 1
    <3>1. c.boundary /\ <<off', c.bodyData>> \in {<<0, 0>>, <<1, 0>>, <<1, 1>>}
      BY <1>1, <1>5, <2>7
    <3>2. Behind(request)'
      BY <2>3, <2>7, <3>1 DEF Behind, c
    <3> QED
      BY <2>3, <2>4, <3>2 DEF InTheBody, c
  <2>8. next' # next + 1
    BY <1>4, <2>2
  <2> QED
    BY <1>8, <2>5, <2>6, <2>7, <2>8
<1>10. ASSUME c.status = "complete"
       PROVE  Ended(request)'
  <2>1. had + n = body /\ c.parameters = IF request.boundary THEN Uploaded ELSE {}
    BY <1>5, <1>10
  <2>2. Wire = stream[Current]
    BY <1>1 DEF Wire
  <2>3. c.parameters = Range(stream[Current].parts)
    <3>1. CASE request.boundary
      <4>1. Wire.parts # <<>>
        BY <1>1, <3>1
      <4> DEFINE before == IF InBody /\ off = request.bodyData THEN <<>>
                           ELSE <<[kind |-> "empty"]>>
                 parts == Wire.parts
      <4>2. before \in Befores /\ parts \in Seq(UploadPart) /\ parts # <<>>
        BY <1>4, <4>1 DEF Befores
      <4>3. Uploaded = parseMultiPartFile(LinesOfParts(before, parts)).parameters
        BY DEF Uploaded
      <4> HIDE DEF before, parts
      <4>4. Uploaded = Range(parts)
        BY <4>2, <4>3, ParametersOfParts
      <4> QED
        BY <2>1, <2>2, <3>1, <4>4 DEF parts
    <3>2. CASE ~ request.boundary
      <4>1. Wire.parts = <<>>
        BY <1>1, <3>2
      <4>2. Range(Wire.parts) = {}
        BY <4>1 DEF Range
      <4> QED
        BY <2>1, <2>2, <3>2, <4>2
    <3> QED
      BY <3>1, <3>2
  <2>4. Between(Current)'
    <3>1. CASE next' = next + 1 /\ line' = 1 /\ off' = 0
      BY <1>1, <1>3, <3>1 DEF Between
    <3>2. CASE next' = next /\ line' = L /\ off' = 1 /\ had + n = 1 /\ Wire.parts # <<>>
      BY <1>4, <2>1, <3>2 DEF body
    <3>3. CASE /\ next' = next /\ line' = L + 1 /\ Wire.parts # <<>>
               /\ off' \in {had + n - 1, had + n - 2}
      <4>1. /\ HasMore' /\ Wire' = Wire /\ InBody' /\ next' = Current'
        <5>1. /\ HasMore' /\ Wire' = Wire /\ next' = Current' /\ (InBody' <=> line' > L)
          BY <1>0, <1>1, <1>3, <3>3, SameRequest DEF L
        <5> QED
          BY <1>4, <3>3, <5>1
      <4>2. off' >= body - 2
        <5>1. had + n = body /\ (off' = had + n - 1 \/ off' = had + n - 2)
          BY <2>1, <3>3
        <5> QED
          BY <1>2, <1>3, <5>1
      <4>3. LeftOver(Current)'
        BY <3>3, <4>1, <4>2 DEF LeftOver, body
      <4> QED
        BY <4>3 DEF Between
    <3> QED
      BY <1>2, <1>3, <1>8, <2>1, <3>1, <3>2, <3>3
  <2>5. Current <= Len(stream)
    BY <1>1, <1>4
  <2> QED
    BY <1>3, <2>3, <2>4, <2>5 DEF Ended, c
<1> QED
  BY <1>9, <1>10

--------------------------------------------------------------------------------

(***************************************************************************)
(* The steps, and the theorems.                                            *)
(***************************************************************************)

\* The size of a request is a natural number.
LEMMA SizeIsNat ==
    ASSUME NEW r \in Requests
    PROVE  SizeOf(r) \in Nat
<1>0. LastLine(r) \in Nat
  BY RequestFacts
<1>1. LastLine(r) + 1 \in 1 .. LastLine(r) + 1 /\ LastLine(r) + 1 + 1 = LastLine(r) + 2
  BY <1>0
<1>2. Offset(r, LastLine(r) + 1) \in Nat /\ LineSize(r, LastLine(r) + 1) \in Nat
  BY <1>1, Offsets, LineSizes
<1>3. Offset(r, LastLine(r) + 1 + 1)
          = Offset(r, LastLine(r) + 1) + LineSize(r, LastLine(r) + 1)
  BY <1>1, Offsets
<1> QED
  BY <1>1, <1>2, <1>3 DEF SizeOf

\* And that of a stream.
LEMMA StreamSizeIsNat ==
    ASSUME stream \in Seq(Requests)
    PROVE  StreamSize \in Nat
<1>1. Len(stream) \in Nat
  OBVIOUS
<1>2. /\ Ahead(1) = 0
      /\ \A k \in 1 .. Len(stream) :
              Ahead(k) \in Nat /\ Ahead(k + 1) = Ahead(k) + SizeOf(stream[k])
  BY RequestsAhead
<1>3. CASE Len(stream) = 0
  BY <1>2, <1>3 DEF StreamSize
<1>4. CASE Len(stream) # 0
  <2>1. Len(stream) \in 1 .. Len(stream)
    BY <1>1, <1>4
  <2>2. SizeOf(stream[Len(stream)]) \in Nat
    BY <2>1, SizeIsNat
  <2> QED
    BY <1>2, <2>1, <2>2 DEF StreamSize
<1> QED
  BY <1>3, <1>4

\* What is known of the request does not depend on what is in the socket.
LEMMA PlacedStays ==
    ASSUME Placed(request), UNCHANGED <<stream, next, line, off, request, answers>>,
           conn' = "open" => conn = "open"
    PROVE  Placed(request)'
<1>1. /\ HasMore' = HasMore /\ Wire' = Wire /\ Current' = Current
      /\ LastLine(Wire)' = LastLine(Wire) /\ InBody' = InBody
      /\ TextSize(Wire, line)' = TextSize(Wire, line)
  BY DEF HasMore, Wire, Current, InBody, TextSize, LastLine
<1>2. /\ Between(Len(answers))' = Between(Len(answers))
      /\ Between(Current)' = Between(Current)
      /\ LeftOver(Len(answers))' = LeftOver(Len(answers))
  BY <1>1 DEF Between, LeftOver
<1>3. InLine(request)' = InLine(request)
  BY <1>1 DEF InLine
<1>4. InRequestLine(request) => InRequestLine(request)'
  BY <1>2, <1>3 DEF InRequestLine
<1>5. AtBreak(request) => AtBreak(request)'
  BY <1>1 DEF AtBreak
<1>6. InHeaders(request) => InHeaders(request)'
  BY <1>1, <1>3, <1>5 DEF InHeaders
<1>7. Behind(request) => Behind(request)'
  BY <1>1 DEF Behind
<1>8. InTheBody(request) => InTheBody(request)'
  BY <1>1, <1>7 DEF InTheBody
<1>9. Ended(request) => Ended(request)'
  BY <1>1, <1>2 DEF Ended
<1> QED
  BY <1>2, <1>4, <1>6, <1>8, <1>9 DEF Placed

\* Nor does the place of the reader.
LEMMA PlaceStays ==
    ASSUME ReaderIsPlaced, UNCHANGED <<stream, next, line, off>>
    PROVE  ReaderIsPlaced'
  BY DEF ReaderIsPlaced, HasMore, Wire, LastLine, LineSize, TextSize

\* A request that waits, or is read no more, is none.
LEMMA NoRequestFacts == NoRequest.status = "none" /\ NoRequest \notin RequestType
<1>1. NoRequest.status = "none"
  BY DEF NoRequest
<1>2. \A q \in RequestType : q.status # "none"
  BY DEF RequestType
<1> QED
  BY <1>1, <1>2

\* It holds before the first byte ...
LEMMA ReadInit == RequestInit => ReadInv
<1> SUFFICES ASSUME RequestInit PROVE ReadInv
  OBVIOUS
<1>1. stream \in Seq(Requests) /\ answers = <<>>
  BY StreamsAssumption DEF RequestInit
<1>2. Len(stream) \in Nat /\ Len(answers) = 0 /\ answers \in Seq(EndsType)
  BY <1>1
<1>3. next = 1 /\ line = 1 /\ off = 0 /\ avail = 0 /\ unsent = StreamSize /\ conn = "open"
      /\ request = NoRequest /\ response = NoResponse
  BY DEF RequestInit
<1>4. HasMore => /\ LastLine(Wire) \in Nat
                 /\ LineSize(Wire, 1) \in Nat /\ LineSize(Wire, 1) > 0
  <2> SUFFICES ASSUME HasMore
               PROVE  /\ LastLine(Wire) \in Nat
                      /\ LineSize(Wire, 1) \in Nat /\ LineSize(Wire, 1) > 0
    OBVIOUS
  <2> DEFINE r == Wire
  <2>1. r \in Requests
    BY <1>1, <1>2, <1>3 DEF HasMore, Wire
  <2> HIDE DEF r
  <2>2. LastLine(r) \in Nat \ {0}
    BY <2>1, RequestFacts
  <2>3. 1 \in 1 .. LastLine(r) + 1 /\ 1 <= LastLine(r)
    BY <2>2
  <2>4. TextSize(r, 1) \in Nat /\ LineSize(r, 1) = TextSize(r, 1) + 2
    BY <2>1, <2>3, LineSizes
  <2> QED
    BY <2>2, <2>4 DEF r
<1>5. ReaderIsPlaced
  BY <1>2, <1>3, <1>4 DEF ReaderIsPlaced
<1>6. unsent \in Nat
  BY <1>1, <1>3, StreamSizeIsNat
<1>7. ReaderInv
  BY <1>1, <1>2, <1>3, <1>5, <1>6 DEF ReaderInv
<1>8. Between(Len(answers))
  BY <1>2, <1>3 DEF Between
<1>9. Placed(request)
  BY <1>3, <1>8, NoRequestFacts DEF Placed
<1> QED
  BY <1>7, <1>9 DEF ReadInv

\* A read keeps it.
LEMMA ReadKeeps ==
    ASSUME ReadInv, readFromSocket
    PROVE  ReadInv'
<1>1. /\ stream \in Seq(Requests) /\ answers \in Seq(EndsType) /\ ReaderIsPlaced
      /\ avail \in Nat /\ unsent \in Nat
      /\ request # NoRequest => request \in RequestType /\ Sizes(request)
      /\ torn \/ Placed(request)
  BY DEF ReadInv, ReaderInv
<1>2. response = NoResponse /\ avail > 0 /\ HasMore /\ UNCHANGED <<response, answers, conn>>
  BY DEF readFromSocket, IsReading
<1>3. PICK m, n :
        /\ n = Readable(m) /\ Advance(n)
        /\ \/ request.status = "waitForRequest" /\ m = toRead
              /\ request' = Checked(readRequest(n), n)
           \/ request.status = "waitForHeader" /\ m = toRead
              /\ request' = Checked(readHeader(n), n)
           \/ request.status = "waitForBody" /\ m = Asked
              /\ request' = Checked(readBody(n), n)
  BY DEF readFromSocket, Asked
<1>4. request \in RequestType /\ Sizes(request)
  BY <1>1, <1>3, NoRequestFacts
<1>5. ReadStep(m, n)
  BY <1>1, <1>2, <1>3, <1>4 DEF ReadStep
<1>6. request.status \in {"waitForRequest", "waitForHeader"} => InHead(request)
  BY <1>4 DEF Sizes
<1>7. m \in Nat \ {0}
  <2>1. CASE request.status \in {"waitForRequest", "waitForHeader"}
    BY <1>3, <1>4, <1>6, <2>1, HeadFacts
  <2>2. CASE request.status = "waitForBody"
    <3>1. request.bodyData < request.expectedBodySize
      BY <1>4, <2>2 DEF Sizes
    <3> QED
      BY <1>3, <1>4, <2>2, <3>1, AskedFacts
  <2> QED
    BY <1>3, <2>1, <2>2
<1>8. /\ n \in Nat \ {0} /\ n <= m
      /\ stream' = stream /\ torn' = (torn \/ Tears(n))
      /\ ReaderIsPlaced' /\ avail' \in Nat /\ unsent' \in Nat
  BY <1>5, <1>7, Reads
<1>9. Wire.body \in Nat /\ Wire.parts \in Seq(UploadPart)
  BY <1>1, <1>2, AtByte
<1>10. request' \in RequestType /\ Sizes(request')
  <2>1. CASE request.status = "waitForRequest"
    <3> DEFINE q == readRequest(n)
    <3>1. n <= toRead /\ request' = Checked(q, n) /\ InHead(request)
      BY <1>3, <1>6, <1>8, <2>1
    <3>2. /\ q \in RequestType /\ Alike(q, Buffered(n)) /\ q.taken = request.taken
          /\ ~ q.boundary /\ q.expectedBodySize = 0 /\ q.bodyData = 0 /\ q.parameters = {}
          /\ q.status \in {"waitForRequest", "waitForHeader", "abort"}
      BY <1>4, <1>8, <2>1, <3>1, ReadRequestFacts
    <3> HIDE DEF q
    <3>3. q.lineBuffer = Buffered(n).lineBuffer /\ q.currentSize = Buffered(n).currentSize
      BY <3>2 DEF Alike
    <3> QED
      BY <1>4, <1>8, <3>1, <3>2, <3>3, HeadGoesOn
  <2>2. CASE request.status = "waitForHeader"
    <3>1. n <= toRead /\ request' = Checked(readHeader(n), n) /\ InHead(request)
      BY <1>3, <1>6, <1>8, <2>2
    <3>2. CASE HasBreak(n) /\ IsBlank
      BY <1>4, <1>8, <1>9, <2>2, <3>1, <3>2, EndOfHeadersFacts
    <3>3. CASE ~ (HasBreak(n) /\ IsBlank)
      <4> DEFINE q == readHeader(n)
      <4>1. /\ q \in RequestType /\ q.taken = request.taken
            /\ q.lineBuffer = Buffered(n).lineBuffer /\ q.currentSize = Buffered(n).currentSize
            /\ ~ q.boundary /\ q.expectedBodySize = 0 /\ q.bodyData = 0 /\ q.parameters = {}
            /\ q.status = "waitForHeader"
        BY <1>4, <1>8, <2>2, <3>1, <3>3, ReadHeaderFacts
      <4>2. request' = Checked(q, n)
        BY <3>1
      <4> HIDE DEF q
      <4> QED
        BY <1>4, <1>8, <3>1, <4>1, <4>2, HeadGoesOn
    <3> QED
      BY <3>2, <3>3
  <2>3. CASE request.status = "waitForBody"
    <3>1. n <= Asked /\ request' = Checked(readBody(n), n)
      BY <1>3, <1>8, <2>3
    <3> QED
      BY <1>4, <1>8, <1>9, <2>3, <3>1, ReadBodyFacts
  <2> QED
    BY <1>3, <2>1, <2>2, <2>3
<1>11. ReaderInv'
  <2>1. Sizes(request)'
    BY <1>10 DEF Sizes, InHead, Allowed
  <2>2. request' \in RequestType'
    BY <1>10 DEF RequestType
  <2> QED
    BY <1>1, <1>2, <1>8, <2>1, <2>2 DEF ReaderInv
<1>12. ASSUME ~ torn'
       PROVE  Placed(request)'
  <2>1. Placed(request)
    BY <1>1, <1>8, <1>12
  <2>2. CASE request.status = "waitForRequest"
    BY <1>3, <1>5, <1>6, <1>12, <2>1, <2>2, RequestLineStep DEF Placed
  <2>3. CASE request.status = "waitForHeader"
    BY <1>3, <1>5, <1>6, <1>12, <2>1, <2>3, HeaderStep DEF Placed
  <2>4. CASE request.status = "waitForBody"
    BY <1>3, <1>4, <1>5, <2>1, <2>4, BodyStep DEF Placed
  <2> QED
    BY <1>3, <2>2, <2>3, <2>4
<1> QED
  BY <1>11, <1>12 DEF ReadInv

\* A request that is about to be read.
LEMMA CreateKeeps ==
    ASSUME ReadInv, CreateRequest
    PROVE  ReadInv'
<1>1. /\ response = NoResponse /\ conn = "open" /\ request = NoRequest /\ request' = NewRequest
      /\ UNCHANGED <<stream, unsent, next, line, off, torn, avail, response, answers, conn>>
  BY DEF CreateRequest, IsReading, wire
<1>2. /\ stream \in Seq(Requests) /\ answers \in Seq(EndsType) /\ ReaderIsPlaced
      /\ avail \in Nat /\ unsent \in Nat
      /\ torn \/ Placed(request)
  BY DEF ReadInv, ReaderInv
<1>3. ReaderIsPlaced'
  BY <1>1, <1>2, PlaceStays
<1>4. /\ NewRequest \in RequestType /\ InHead(NewRequest) /\ ~ NewRequest.described
      /\ NewRequest.lineBuffer = 0 /\ NewRequest.status = "waitForRequest"
      /\ NewRequest.taken = 0 /\ ~ NewRequest.boundary
  <2>1. maxSize \in Nat
    BY RequestAssumption
  <2> QED
    BY <2>1 DEF NewRequest, RequestType, InHead
<1>5. Sizes(NewRequest)
  <2>1. maxSize \in Nat
    BY RequestAssumption
  <2> QED
    BY <1>4, <2>1 DEF Sizes, Allowed
<1>6. ReaderInv'
  <2>1. Sizes(request)'
    BY <1>1, <1>5 DEF Sizes, InHead, Allowed
  <2>2. request' \in RequestType'
    BY <1>1, <1>4 DEF RequestType
  <2> QED
    BY <1>1, <1>2, <1>3, <2>1, <2>2 DEF ReaderInv
<1>7. ASSUME ~ torn'
      PROVE  Placed(request)'
  <2>1. Between(Len(answers))
    BY <1>1, <1>2, <1>7 DEF Placed
  <2>2. /\ HasMore' = HasMore /\ Wire' = Wire /\ Current' = Current
        /\ TextSize(Wire, line)' = TextSize(Wire, line) /\ InBody' = InBody
    BY <1>1 DEF HasMore, Wire, Current, TextSize, LastLine, InBody
  <2>3. CASE next = Len(answers) + 1 /\ line = 1 /\ off = 0
    <3>1. HasMore => 0 <= TextSize(Wire, line)
      <4> SUFFICES ASSUME HasMore PROVE 0 <= TextSize(Wire, line)
        OBVIOUS
      <4>1. LastLine(Wire) \in Nat \ {0}
            /\ (line <= LastLine(Wire) => TextSize(Wire, line) \in Nat)
        BY <1>2, AtByte
      <4> QED
        BY <2>3, <4>1
    <3>2. InLine(request)'
      BY <1>1, <1>4, <2>2, <2>3, <3>1 DEF InLine, Current
    <3>3. InRequestLine(request)'
      BY <1>1, <1>4, <2>3, <3>2 DEF InRequestLine
    <3> QED
      BY <1>1, <1>4, <3>3, NoRequestFacts DEF Placed
  <2>4. CASE LeftOver(Len(answers))
    <3>1. LeftOver(Len(answers))'
      BY <1>1, <2>2, <2>4 DEF LeftOver
    <3>2. InRequestLine(request)'
      BY <1>1, <1>4, <3>1 DEF InRequestLine
    <3> QED
      BY <1>1, <1>4, <3>2, NoRequestFacts DEF Placed
  <2> QED
    BY <2>1, <2>3, <2>4 DEF Between
<1> QED
  BY <1>6, <1>7 DEF ReadInv

\* ... and every step keeps it.
LEMMA ReadNext ==
    ASSUME ReadInv, [RequestNext]_requestVars
    PROVE  ReadInv'
<1>1. /\ stream \in Seq(Requests) /\ answers \in Seq(EndsType) /\ ReaderIsPlaced
      /\ avail \in Nat /\ unsent \in Nat
      /\ response # NoResponse => request.status = "complete"
      /\ request # NoRequest => request \in RequestType /\ Sizes(request)
      /\ torn \/ Placed(request)
  BY DEF ReadInv, ReaderInv
<1>2. ASSUME UNCHANGED request
      PROVE  request' # NoRequest => request' \in RequestType' /\ Sizes(request)'
  BY <1>1, <1>2 DEF RequestType, Sizes, InHead, Allowed
<1>3. CASE Arrive
  <2>1. PICK n \in 1 .. unsent : unsent' = unsent - n /\ avail' = avail + n
    BY <1>3 DEF Arrive
  <2>2. UNCHANGED <<stream, next, line, off, torn, request, response, answers, conn>>
    BY <1>3 DEF Arrive
  <2>3. unsent' \in Nat /\ avail' \in Nat
    BY <1>1, <2>1
  <2>4. ReaderIsPlaced'
    BY <1>1, <2>2, PlaceStays
  <2>5. ReaderInv'
    BY <1>1, <1>2, <2>2, <2>3, <2>4 DEF ReaderInv
  <2>6. torn \/ Placed(request)'
    BY <1>1, <2>2, PlacedStays
  <2> QED
    BY <2>2, <2>5, <2>6 DEF ReadInv
<1>4. CASE CreateRequest
  BY <1>4, CreateKeeps
<1>5. CASE readFromSocket
  BY <1>5, ReadKeeps
<1>6. CASE RefuseRequest \/ ReadTimeout
  <2>1. Close /\ request' = NoRequest /\ response = NoResponse /\ UNCHANGED <<response, answers>>
    BY <1>6 DEF RefuseRequest, ReadTimeout, IsReading
  <2>2. conn' = "closed" /\ avail' = 0 /\ unsent' = 0
        /\ UNCHANGED <<stream, next, line, off, torn>>
    BY <2>1 DEF Close
  <2>3. ReaderIsPlaced'
    BY <1>1, <2>2, PlaceStays
  <2>4. ReaderInv'
    BY <1>1, <2>1, <2>2, <2>3 DEF ReaderInv
  <2>5. Placed(request)'
    BY <2>1, <2>2, NoRequestFacts DEF Placed
  <2> QED
    BY <2>4, <2>5 DEF ReadInv
<1>7. CASE ClientLeaves
  <2>1. Close /\ UNCHANGED <<request, response, answers>>
    BY <1>7 DEF ClientLeaves
  <2>2. conn' = "closed" /\ avail' = 0 /\ unsent' = 0
        /\ UNCHANGED <<stream, next, line, off, torn>>
    BY <2>1 DEF Close
  <2>3. ReaderIsPlaced'
    BY <1>1, <2>2, PlaceStays
  <2>4. ReaderInv'
    BY <1>1, <1>2, <2>1, <2>2, <2>3 DEF ReaderInv
  <2>5. torn \/ Placed(request)'
    BY <1>1, <2>1, <2>2, PlacedStays
  <2> QED
    BY <2>2, <2>4, <2>5 DEF ReadInv
<1>8. CASE StartService \/ WritePart \/ AskForClose \/ UNCHANGED requestVars
  <2>1. UNCHANGED <<stream, unsent, next, line, off, torn, avail, request, answers, conn>>
    BY <1>8 DEF StartService, WritePart, AskForClose, requestVars, wire
  <2>2. response' # NoResponse => request.status = "complete"
    BY <1>1, <1>8 DEF StartService, WritePart, AskForClose, requestVars
  <2>3. ReaderIsPlaced'
    BY <1>1, <2>1, PlaceStays
  <2>4. ReaderInv'
    BY <1>1, <1>2, <2>1, <2>2, <2>3 DEF ReaderInv
  <2>5. torn \/ Placed(request)'
    BY <1>1, <2>1, PlacedStays
  <2> QED
    BY <2>1, <2>4, <2>5 DEF ReadInv
<1>9. CASE FinishService
  <2> DEFINE final == IF response.last THEN response ELSE Written(response, 0, TRUE)
             closes == MustClose(final)
             end == EndOf(final, closes)
  <2>1. /\ response # NoResponse /\ answers' = Append(answers, end)
        /\ IF closes THEN Close
           ELSE UNCHANGED <<stream, unsent, next, line, off, torn, avail, conn>>
        /\ request' = NoRequest /\ response' = NoResponse
    BY <1>9 DEF FinishService, wire
  <2>2. end \in EndsType
    BY DEF EndOf, EndsType
  <2> HIDE DEF end, closes
  <2>3. answers' \in Seq(EndsType) /\ Len(answers') = Len(answers) + 1
    BY <1>1, <2>1, <2>2
  <2>4. UNCHANGED <<stream, next, line, off, torn>> /\ avail' \in Nat /\ unsent' \in Nat
    BY <1>1, <2>1 DEF Close
  <2>5. ReaderIsPlaced'
    BY <1>1, <2>4, PlaceStays
  <2>6. ReaderInv'
    BY <1>1, <2>1, <2>3, <2>4, <2>5 DEF ReaderInv
  <2>7. ASSUME ~ torn
        PROVE  Placed(request)'
    <3>1. Between(Current)
      BY <1>1, <2>1, <2>7 DEF Placed, Ended
    <3>2. HasMore' = HasMore /\ Wire' = Wire /\ InBody' = InBody
      BY <2>4 DEF HasMore, Wire, InBody, LastLine
    <3>3. Len(answers)' = Current
      BY <2>3 DEF Current
    <3>4. Between(Len(answers))'
      BY <2>4, <3>1, <3>2, <3>3 DEF Between, LeftOver, LastLine
    <3> QED
      BY <2>1, <3>4, NoRequestFacts DEF Placed
  <2> QED
    BY <2>4, <2>6, <2>7 DEF ReadInv
<1> QED
  BY <1>3, <1>4, <1>5, <1>6, <1>7, <1>8, <1>9 DEF RequestNext

\* So it holds of every behaviour.
LEMMA ReadInvariant == RequestSpec => []ReadInv
<1>1. ReadInv /\ [RequestNext]_requestVars => ReadInv'
  BY ReadNext
<1> QED
  BY <1>1, ReadInit, PTL DEF RequestSpec

(* Whatever the requests of a client, and wherever the segments end that   *)
(* they come in: unless a read has ended inside a line break that is not   *)
(* one of those at the end of a head, a request is handed to its handler   *)
(* when the reader stands before the next one, and with the parameters of  *)
(* its parts (HttpConnectionHandler::read, HttpRequest::readHeader).       *)
THEOREM RequestsDoNotMix == RequestSpec => []RequestsAreWhole
<1>1. ReadInv => RequestsAreWhole
  BY DEF ReadInv, Placed, Ended, RequestsAreWhole
<1> QED
  BY <1>1, ReadInvariant, PTL

(* For every stream and all its segments, those that end inside a line     *)
(* break too: no line is buffered beyond maxRequestSize and a byte, no more*)
(* than its limit is taken for a request, and none beyond it reaches a     *)
(* handler (HttpRequest::readFromSocket).                                  *)
THEOREM LimitsAreKept == RequestSpec => []SizesAreBounded
<1>1. ReadInv => SizesAreBounded
  <2> SUFFICES ASSUME ReadInv, request # NoRequest
               PROVE  /\ request.lineBuffer <= maxSize + 1
                      /\ request.taken <= Allowed(request)
                      /\ request.status = "complete" =>
                            IF request.boundary THEN request.bodyData <= maxMultiPartSize
                                                ELSE request.taken <= maxSize
    BY DEF SizesAreBounded, Allowed
  <2>1. request \in RequestType /\ Sizes(request)
    BY DEF ReadInv, ReaderInv
  <2>2. request.lineBuffer <= maxSize + 1
    <3>1. maxSize \in Nat
      BY RequestAssumption
    <3> QED
      BY <2>1, <3>1 DEF RequestType
  <2> QED
    BY <2>1, <2>2 DEF Sizes
<1> QED
  BY <1>1, ReadInvariant, PTL

--------------------------------------------------------------------------------

(***************************************************************************)
(* The caches.                                                             *)
(***************************************************************************)
Place == File \cup Locale
Entries == [file : Place, version : Nat, size : Nat, created : Nat]
Versions == [size : Nat, since : Nat]

\* No later version of its file is older than the entry.
IsEntry(e) ==
    /\ e \in Entries
    /\ e.created <= time
    /\ e.version \in 1 .. Len(versions[e.file])
    /\ e.version < Len(versions[e.file]) => versions[e.file][e.version + 1].since >= e.created

IsCache(c) ==
    /\ c \in Seq(Entries)
    /\ HasOneOfEach(c)
    /\ \A i \in DOMAIN c : IsEntry(c[i])

HasNone(c, f) == \A i \in DOMAIN c : c[i].file # f

DiskInv ==
    /\ versions \in [Place -> Seq(Versions)]
    /\ \A f \in Place : versions[f] # <<>>
    /\ time \in Nat

\* What a request has in hand is no older than it may be.
InHand(t) ==
    /\ IsEntry(entry[t])
    /\ entry[t].file = path[t]
    /\ cacheTimeout > 0 => entry[t].created > began[t] - cacheTimeout

Doings == {"idle", "misses", "inserts", "tries", "points", "served"}

ReadersInv ==
    /\ at \in [Reader -> Doings]
    /\ path \in [Reader -> Place]
    /\ began \in [Reader -> Nat]
    /\ entry = [t \in Reader |-> entry[t]]
    /\ untried \in [Reader -> Seq(Locale)]
    /\ \A t \in Reader :
        /\ began[t] <= time
        /\ at[t] = "tries" => untried[t] # <<>>
        /\ at[t] = "inserts" => InHand(t)
        /\ at[t] \in {"points", "served"} /\ entry[t] # Deleted => InHand(t)

CacheInv == DiskInv /\ ReadersInv /\ IsCache(files) /\ IsCache(templates)

LEMMA AppendedCache ==
    ASSUME NEW c, IsCache(c), NEW e, IsEntry(e), HasNone(c, e.file)
    PROVE  IsCache(Append(c, e))
<1> DEFINE d == Append(c, e)
<1>1. c \in Seq(Entries) /\ e \in Entries
  BY DEF IsCache, IsEntry
<1>2. /\ d \in Seq(Entries) /\ DOMAIN d = 1 .. Len(c) + 1
      /\ \A i \in 1 .. Len(c) : d[i] = c[i] /\ i \in DOMAIN c
      /\ d[Len(c) + 1] = e
  BY <1>1
<1> HIDE DEF d
<1>3. \A i \in DOMAIN d : (i \in DOMAIN c /\ d[i] = c[i]) \/ (i = Len(c) + 1 /\ d[i] = e)
  BY <1>1, <1>2
<1>4. IsCache(d)
  BY <1>1, <1>2, <1>3 DEF IsCache, HasOneOfEach, HasNone
<1> QED
  BY <1>4 DEF d

LEMMA OtherEntries ==
    ASSUME NEW c, IsCache(c), NEW f
    PROVE  IsCache(Others(c, f)) /\ HasNone(Others(c, f), f)
<1>1. c \in Seq(Entries) /\ HasOneOfEach(c) /\ \A i \in DOMAIN c : IsEntry(c[i])
  BY DEF IsCache
<1>2. CASE Cached(c, f) = {}
  <2>1. Others(c, f) = c
    BY <1>2 DEF Others
  <2>2. HasNone(c, f)
    BY <1>2 DEF HasNone, Cached, Range
  <2> QED
    BY <2>1, <2>2
<1>3. CASE Cached(c, f) # {}
  <2> DEFINE p == CHOOSE i \in DOMAIN c : c[i].file = f
             d == RemoveAt(c, p)
  <2>1. p \in DOMAIN c /\ c[p].file = f
    BY <1>3 DEF Cached, Range
  <2>2. Others(c, f) = d
    BY <1>3 DEF Others
  <2> HIDE DEF p
  <2>3. p \in 1 .. Len(c)
    BY <1>1, <2>1
  <2>4. /\ d \in Seq(Entries)
        /\ \A i \in DOMAIN d : d[i] = c[IF i < p THEN i ELSE i + 1]
                /\ (IF i < p THEN i ELSE i + 1) \in DOMAIN c /\ i \in Nat
    BY <1>1, <2>3, RemoveAtFacts
  <2> HIDE DEF d
  <2>5. HasOneOfEach(d) /\ HasNone(d, f)
    <3>1. ASSUME NEW i \in DOMAIN d, NEW j \in DOMAIN d, d[i].file = d[j].file
          PROVE  i = j
      <4>1. (IF i < p THEN i ELSE i + 1) = (IF j < p THEN j ELSE j + 1)
        BY <1>1, <2>4, <3>1 DEF HasOneOfEach
      <4> QED
        BY <2>3, <2>4, <4>1
    <3>2. ASSUME NEW i \in DOMAIN d PROVE d[i].file # f
      <4>1. (IF i < p THEN i ELSE i + 1) # p
        BY <2>3, <2>4
      <4> QED
        BY <1>1, <2>1, <2>4, <4>1 DEF HasOneOfEach
    <3> QED
      BY <3>1, <3>2 DEF HasOneOfEach, HasNone
  <2>6. \A i \in DOMAIN d : IsEntry(d[i])
    BY <1>1, <2>4
  <2> QED
    BY <2>2, <2>4, <2>5, <2>6 DEF IsCache
<1> QED
  BY <1>2, <1>3

LEMMA TrimmedCache ==
    ASSUME NEW c, IsCache(c), NEW f, HasNone(c, f), NEW cost
    PROVE  IsCache(Trim(c, cost)) /\ HasNone(Trim(c, cost), f)
<1> DEFINE fits == {k \in 0 .. Len(c) : k = Len(c) \/ Cost(SubSeq(c, k + 1, Len(c))) <= cost}
           k == Min(fits)
           d == SubSeq(c, k + 1, Len(c))
<1>1. c \in Seq(Entries) /\ HasOneOfEach(c) /\ (\A i \in DOMAIN c : IsEntry(c[i]))
      /\ Len(c) \in Nat
  BY DEF IsCache
<1>2. Trim(c, cost) = d
  BY DEF Trim
<1>3. k \in 0 .. Len(c)
  <2>1. fits \subseteq Nat /\ fits # {} /\ fits \subseteq 0 .. Len(c)
    BY <1>1
  <2> HIDE DEF fits
  <2>2. \E x \in fits : \A y \in fits : x <= y
    BY <2>1, LeastElement
  <2>3. k \in fits
    BY <2>2 DEF Min
  <2> QED
    BY <2>1, <2>3
<1> HIDE DEF k
<1>4. /\ d \in Seq(Entries)
      /\ \A i \in DOMAIN d : i \in Nat /\ k + i \in DOMAIN c /\ d[i] = c[k + i]
  BY <1>1, <1>3
<1> HIDE DEF d
<1>5. HasOneOfEach(d)
  <2> SUFFICES ASSUME NEW i \in DOMAIN d, NEW j \in DOMAIN d, d[i].file = d[j].file
               PROVE  i = j
    BY DEF HasOneOfEach
  <2>1. k + i = k + j
    BY <1>1, <1>4 DEF HasOneOfEach
  <2> QED
    BY <1>3, <1>4, <2>1
<1> QED
  BY <1>1, <1>2, <1>4, <1>5 DEF IsCache, HasNone

LEMMA UsedCache ==
    ASSUME NEW c, IsCache(c), NEW f
    PROVE  /\ \A e \in Cached(c, f) : IsEntry(e) /\ e.file = f /\ IsCache(Used(c, e))
           /\ IsCache(Touched(c, f))
<1>1. ASSUME NEW e \in Cached(c, f)
      PROVE  IsEntry(e) /\ e.file = f /\ IsCache(Used(c, e))
  <2>1. IsEntry(e) /\ e.file = f
    BY DEF Cached, Range, IsCache
  <2> QED
    BY <2>1, OtherEntries, AppendedCache DEF Used
<1>2. CASE Cached(c, f) = {}
  BY <1>1, <1>2 DEF Touched
<1>3. CASE Cached(c, f) # {}
  <2>1. (CHOOSE e \in Cached(c, f) : TRUE) \in Cached(c, f)
    BY <1>3
  <2> QED
    BY <1>1, <1>3, <2>1 DEF Touched
<1> QED
  BY <1>1, <1>2, <1>3

LEMMA InsertedCache ==
    ASSUME NEW c, IsCache(c), NEW e, IsEntry(e)
    PROVE  IsCache(Insert(c, e))
<1>1. IsCache(Others(c, e.file)) /\ HasNone(Others(c, e.file), e.file)
  BY OtherEntries
<1>2. CASE e.size > cacheSize
  BY <1>1, <1>2 DEF Insert
<1>3. CASE ~ (e.size > cacheSize)
  BY <1>1, <1>3, TrimmedCache, AppendedCache DEF Insert
<1> QED
  BY <1>2, <1>3

(***************************************************************************)
(* The steps.                                                              *)
(***************************************************************************)

\* Entries stay what they are while files are written and time goes by.
LEMMA EntriesStay ==
    ASSUME \/ UNCHANGED <<versions, time>>
           \/ DiskInv /\ (ChangeFile \/ CacheTick)
    PROVE  /\ \A e : IsEntry(e) => IsEntry(e)'
           /\ \A c : IsCache(c) => IsCache(c)'
<1>1. ASSUME NEW e, IsEntry(e) PROVE IsEntry(e)'
  <2>1. CASE UNCHANGED <<versions, time>>
    BY <1>1, <2>1 DEF IsEntry
  <2>2. CASE DiskInv /\ CacheTick
    BY <1>1, <2>2 DEF IsEntry, DiskInv, CacheTick, Entries
  <2>3. CASE DiskInv /\ ChangeFile
    <3>1. PICK f \in Place, size \in Size \cup {0} :
            versions' = [versions EXCEPT ![f] = Append(@, [size |-> size, since |-> time])]
      BY <2>3 DEF ChangeFile, Place
    <3> DEFINE v == [size |-> size, since |-> time]
    <3>2. versions' = [versions EXCEPT ![f] = Append(versions[f], v)] /\ time' = time /\ v.since = time
      BY <2>3, <3>1 DEF ChangeFile
    <3>3. size \in Nat /\ v \in Versions
      BY <2>3, CacheAssumption DEF DiskInv, Versions
    <3> HIDE DEF v
    <3>4. /\ e \in Entries /\ e.file \in Place /\ e.created \in Nat /\ e.created <= time
          /\ e.version \in 1 .. Len(versions[e.file]) /\ time \in Nat
          /\ e.version < Len(versions[e.file]) => versions[e.file][e.version + 1].since >= e.created
          /\ versions[e.file] \in Seq(Versions)
      BY <1>1, <2>3 DEF IsEntry, DiskInv, Entries
    <3>5. CASE e.file = f
      <4>1. versions'[e.file] = Append(versions[e.file], v)
        BY <2>3, <3>2, <3>5 DEF DiskInv
      <4>2. /\ Len(versions'[e.file]) = Len(versions[e.file]) + 1
            /\ \A i \in 1 .. Len(versions[e.file]) : versions'[e.file][i] = versions[e.file][i]
            /\ versions'[e.file][Len(versions[e.file]) + 1] = v
        BY <3>3, <3>4, <4>1
      <4>3. e.version < Len(versions'[e.file]) => versions'[e.file][e.version + 1].since >= e.created
        BY <3>2, <3>4, <4>2, SMTT(20)
      <4> QED
        BY <3>2, <3>4, <4>2, <4>3 DEF IsEntry
    <3>6. CASE e.file # f
      <4>1. versions'[e.file] = versions[e.file]
        BY <2>3, <3>2, <3>4, <3>6 DEF DiskInv
      <4> QED
        BY <3>2, <3>4, <4>1 DEF IsEntry
    <3> QED
      BY <3>5, <3>6
  <2> QED
    BY <2>1, <2>2, <2>3
<1> QED
  BY <1>1 DEF IsCache, HasOneOfEach

LEMMA NewEntry ==
    ASSUME DiskInv, NEW f \in Place, NEW since \in Nat, since <= time
    PROVE  IsEntry(EntryOf(f, since)) /\ EntryOf(f, since).file = f
           /\ EntryOf(f, since).created = since
<1>1. versions[f] \in Seq(Versions) /\ versions[f] # <<>> /\ Len(versions[f]) \in Nat \ {0}
  BY DEF DiskInv
<1>2. Last(versions[f]) \in Versions
  BY <1>1 DEF Last
<1>3. EntryOf(f, since) = [file |-> f, version |-> Len(versions[f]),
                           size |-> Last(versions[f]).size, created |-> since]
  BY DEF EntryOf
<1>4. Last(versions[f]).size \in Nat
  BY <1>2 DEF Versions
<1> QED
  BY <1>1, <1>3, <1>4 DEF IsEntry, Entries

\* What a hit brings is fresh.
LEMMA HitIsFresh ==
    ASSUME CacheInv, NEW c, IsCache(c), NEW f, NEW e \in Hits(c, f)
    PROVE  /\ IsEntry(e) /\ e.file = f /\ e \in Cached(c, f)
           /\ cacheTimeout > 0 => e.created > time - cacheTimeout
<1>1. e \in Cached(c, f) /\ Fresh(e, time)
  BY DEF Hits
<1>2. IsEntry(e) /\ e.file = f
  BY <1>1, UsedCache
<1> QED
  BY <1>1, <1>2, CacheAssumption DEF Fresh

LEMMA DiskStep ==
    ASSUME DiskInv, [CacheNext]_cacheVars
    PROVE  DiskInv'
<1>1. CASE UNCHANGED <<versions, time>>
  BY <1>1 DEF DiskInv
<1>2. CASE CacheTick
  BY <1>2 DEF DiskInv, CacheTick
<1>3. CASE ChangeFile
  <2>1. PICK f \in Place, size \in Size \cup {0} :
          versions' = [versions EXCEPT ![f] = Append(@, [size |-> size, since |-> time])]
    BY <1>3 DEF ChangeFile, Place
  <2> DEFINE v == [size |-> size, since |-> time]
  <2>2. versions' = [versions EXCEPT ![f] = Append(versions[f], v)] /\ time' = time
    BY <1>3, <2>1 DEF ChangeFile
  <2>3. size \in Nat /\ v \in Versions
    BY CacheAssumption DEF DiskInv, Versions
  <2> HIDE DEF v
  <2>4. Append(versions[f], v) \in Seq(Versions) /\ Append(versions[f], v) # <<>>
    BY <2>3 DEF DiskInv
  <2> QED
    BY <2>2, <2>4 DEF DiskInv
<1> QED
  BY <1>1, <1>2, <1>3 DEF CacheNext, cacheVars, ServiceFile, ReadFile, InsertFile,
        getTemplate, tryFile, ReturnDocument, Done

\* A step of one reader, which may delete the entries others point to.
LEMMA ReaderStep ==
    ASSUME CacheInv, NEW t \in Reader, UNCHANGED <<versions, time>>,
           NEW a \in Doings, NEW p \in Place, NEW b \in Nat, NEW u \in Seq(Locale),
           at' = [at EXCEPT ![t] = a], path' = [path EXCEPT ![t] = p],
           began' = [began EXCEPT ![t] = b], untried' = [untried EXCEPT ![t] = u],
           entry' = [r \in Reader |-> entry'[r]],
           \A r \in Reader : r # t =>
                entry'[r] = entry[r] \/ (at[r] = "points" /\ entry'[r] = Deleted),
           b <= time,
           a = "tries" => u # <<>>,
           a \in {"inserts", "points", "served"} =>
                \/ /\ IsEntry(entry'[t]) /\ entry'[t].file = p
                   /\ cacheTimeout > 0 => entry'[t].created > b - cacheTimeout
                \/ a \in {"points", "served"} /\ entry'[t] = Deleted
    PROVE  ReadersInv'
<1>1. \A e : IsEntry(e) => IsEntry(e)'
  BY EntriesStay
<1>2. /\ at' \in [Reader -> Doings] /\ path' \in [Reader -> Place]
      /\ began' \in [Reader -> Nat] /\ untried' \in [Reader -> Seq(Locale)]
  BY DEF CacheInv, ReadersInv, Doings
<1>3. ASSUME NEW r \in Reader
      PROVE  /\ began'[r] <= time
             /\ at'[r] = "tries" => untried'[r] # <<>>
             /\ at'[r] = "inserts" => InHand(r)'
             /\ at'[r] \in {"points", "served"} /\ entry'[r] # Deleted => InHand(r)'
  <2>1. CASE r = t
    <3>1. at'[t] = a /\ path'[t] = p /\ began'[t] = b /\ untried'[t] = u
      BY DEF CacheInv, ReadersInv
    <3> QED
      BY <1>1, <2>1, <3>1 DEF InHand
  <2>2. CASE r # t
    <3>1. at'[r] = at[r] /\ path'[r] = path[r] /\ began'[r] = began[r] /\ untried'[r] = untried[r]
      BY <2>2 DEF CacheInv, ReadersInv
    <3>2. /\ began[r] <= time
          /\ at[r] = "tries" => untried[r] # <<>>
          /\ at[r] = "inserts" => InHand(r)
          /\ at[r] \in {"points", "served"} /\ entry[r] # Deleted => InHand(r)
      BY DEF CacheInv, ReadersInv
    <3>3. CASE entry'[r] = entry[r]
      <4>1. InHand(r) => InHand(r)'
        BY <1>1, <3>1, <3>3 DEF InHand
      <4> QED
        BY <3>1, <3>2, <3>3, <4>1
    <3>4. CASE at[r] = "points" /\ entry'[r] = Deleted
      BY <3>1, <3>2, <3>4
    <3> QED
      BY <2>2, <3>3, <3>4
  <2> QED
    BY <2>1, <2>2
<1> QED
  BY <1>2, <1>3 DEF ReadersInv, Doings

LEMMA ServiceFileStep ==
    ASSUME CacheInv, NEW t \in Reader, ServiceFile(t)
    PROVE  ReadersInv' /\ IsCache(files)' /\ IsCache(templates)'
<1>1. PICK f \in File :
        /\ path' = [path EXCEPT ![t] = f]
        /\ began' = [began EXCEPT ![t] = time]
        /\ files' = Touched(files, f)
        /\ \/ \E e \in Hits(files, f) :
                entry' = [entry EXCEPT ![t] = e] /\ Turn(t, "served")
           \/ Hits(files, f) = {} /\ Turn(t, "misses") /\ UNCHANGED entry
  BY DEF ServiceFile
<1>2. UNCHANGED <<versions, time, templates, untried>>
  BY DEF ServiceFile
<1>3. IsCache(files)' /\ IsCache(templates)'
  <2>1. IsCache(Touched(files, f))
    BY UsedCache DEF CacheInv
  <2> QED
    BY <1>1, <1>2, <2>1, EntriesStay DEF CacheInv
<1>4. /\ f \in Place /\ time \in Nat /\ time <= time
      /\ untried' = [untried EXCEPT ![t] = untried[t]] /\ untried[t] \in Seq(Locale)
      /\ entry = [r \in Reader |-> entry[r]]
  BY <1>2 DEF Place, CacheInv, DiskInv, ReadersInv
<1>5. CASE \E e \in Hits(files, f) : entry' = [entry EXCEPT ![t] = e] /\ Turn(t, "served")
  <2>1. PICK e \in Hits(files, f) : entry' = [entry EXCEPT ![t] = e] /\ Turn(t, "served")
    BY <1>5
  <2>2. IsEntry(e) /\ e.file = f /\ (cacheTimeout > 0 => e.created > time - cacheTimeout)
    BY HitIsFresh DEF CacheInv
  <2>3. /\ entry' = [r \in Reader |-> entry'[r]] /\ entry'[t] = e
        /\ \A r \in Reader : r # t => entry'[r] = entry[r]
    BY <1>4, <2>1
  <2>4. at' = [at EXCEPT ![t] = "served"] /\ "served" \in Doings
    BY <2>1 DEF Turn, Doings
  <2> QED
    BY <1>1, <1>2, <1>3, <1>4, <2>2, <2>3, <2>4, ReaderStep
<1>6. CASE Turn(t, "misses") /\ UNCHANGED entry
  <2>1. at' = [at EXCEPT ![t] = "misses"] /\ "misses" \in Doings
    BY <1>6 DEF Turn, Doings
  <2> QED
    BY <1>1, <1>2, <1>3, <1>4, <1>6, <2>1, ReaderStep
<1> QED
  BY <1>1, <1>5, <1>6

LEMMA ReadFileStep ==
    ASSUME CacheInv, NEW t \in Reader, ReadFile(t)
    PROVE  ReadersInv' /\ IsCache(files)' /\ IsCache(templates)'
<1> DEFINE e == EntryOf(path[t], began[t])
           a == IF 0 < e.size /\ e.size <= maxCachedFileSize THEN "inserts" ELSE "served"
<1>1. /\ entry' = [entry EXCEPT ![t] = e] /\ at' = [at EXCEPT ![t] = a]
      /\ UNCHANGED <<versions, time, files, templates, path, began, untried>>
  BY DEF ReadFile, Turn
<1>2. /\ path[t] \in Place /\ began[t] \in Nat /\ began[t] <= time /\ untried[t] \in Seq(Locale)
      /\ path' = [path EXCEPT ![t] = path[t]] /\ began' = [began EXCEPT ![t] = began[t]]
      /\ untried' = [untried EXCEPT ![t] = untried[t]]
      /\ entry = [r \in Reader |-> entry[r]]
  BY <1>1 DEF CacheInv, ReadersInv
<1>3. IsCache(files)' /\ IsCache(templates)'
  BY <1>1, EntriesStay DEF CacheInv
<1>4. IsEntry(e) /\ e.file = path[t] /\ e.created = began[t]
  BY <1>2, NewEntry DEF CacheInv
<1>5. a \in Doings /\ a # "tries"
  BY DEF Doings
<1>6. cacheTimeout > 0 => began[t] > began[t] - cacheTimeout
  BY <1>2, CacheAssumption
<1> HIDE DEF e, a
<1>7. /\ entry' = [r \in Reader |-> entry'[r]] /\ entry'[t] = e
      /\ \A r \in Reader : r # t => entry'[r] = entry[r]
  BY <1>1, <1>2
<1> QED
  BY <1>1, <1>2, <1>3, <1>4, <1>5, <1>6, <1>7, ReaderStep

LEMMA InsertFileStep ==
    ASSUME CacheInv, NEW t \in Reader, InsertFile(t)
    PROVE  ReadersInv' /\ IsCache(files)' /\ IsCache(templates)'
<1>1. /\ files' = Insert(files, entry[t]) /\ at' = [at EXCEPT ![t] = "served"]
      /\ UNCHANGED <<versions, time, templates, path, began, entry, untried>>
  BY DEF InsertFile, Turn
<1>2. /\ path[t] \in Place /\ began[t] \in Nat /\ began[t] <= time /\ untried[t] \in Seq(Locale)
      /\ path' = [path EXCEPT ![t] = path[t]] /\ began' = [began EXCEPT ![t] = began[t]]
      /\ untried' = [untried EXCEPT ![t] = untried[t]]
      /\ entry' = [r \in Reader |-> entry'[r]] /\ UNCHANGED entry
  BY <1>1 DEF CacheInv, ReadersInv
<1>3. InHand(t)
  BY DEF InsertFile, CacheInv, ReadersInv
<1>4. IsCache(files)' /\ IsCache(templates)'
  <2>1. IsCache(Insert(files, entry[t]))
    BY <1>3, InsertedCache DEF CacheInv, InHand
  <2> QED
    BY <1>1, <2>1, EntriesStay DEF CacheInv
<1>5. "served" \in Doings
  BY DEF Doings
<1> QED
  BY <1>1, <1>2, <1>3, <1>4, <1>5, ReaderStep DEF InHand

LEMMA SearchOrderType ==
    ASSUME NEW locs \in Searches
    PROVE  SearchOrder(locs) \in Seq(Locale) /\ SearchOrder(locs) # <<>>
<1>1. /\ locs \in Seq(Locale) /\ Default \in Locale /\ Language \in [Locale -> Locale]
  BY CacheAssumption
<1> DEFINE languages == [i \in 1 .. Len(locs) |-> Language[locs[i]]]
<1>2. languages \in Seq(Locale)
  BY <1>1
<1>3. SearchOrder(locs) = locs \o languages \o <<Default>>
  BY DEF SearchOrder
<1> HIDE DEF languages
<1> QED
  BY <1>1, <1>2, <1>3

LEMMA GetTemplateStep ==
    ASSUME CacheInv, NEW t \in Reader, getTemplate(t)
    PROVE  ReadersInv' /\ IsCache(files)' /\ IsCache(templates)'
<1>1. PICK locs \in Searches : untried' = [untried EXCEPT ![t] = SearchOrder(locs)]
  BY DEF getTemplate
<1>2. /\ at' = [at EXCEPT ![t] = "tries"] /\ "tries" \in Doings
      /\ UNCHANGED <<versions, time, files, templates, path, began, entry>>
  BY DEF getTemplate, Turn, Doings
<1>3. /\ path[t] \in Place /\ began[t] \in Nat /\ began[t] <= time
      /\ path' = [path EXCEPT ![t] = path[t]] /\ began' = [began EXCEPT ![t] = began[t]]
      /\ entry' = [r \in Reader |-> entry'[r]]
  BY <1>2 DEF CacheInv, ReadersInv
<1>4. SearchOrder(locs) \in Seq(Locale) /\ SearchOrder(locs) # <<>>
  BY SearchOrderType
<1>5. IsCache(files)' /\ IsCache(templates)'
  BY <1>2, EntriesStay DEF CacheInv
<1> QED
  BY <1>1, <1>2, <1>3, <1>4, <1>5, ReaderStep

LEMMA TryFileStep ==
    ASSUME CacheInv, NEW t \in Reader, tryFile(t)
    PROVE  ReadersInv' /\ IsCache(files)' /\ IsCache(templates)'
<1> DEFINE f == Head(untried[t])
           e == EntryOf(f, time)
<1>1. /\ at[t] = "tries" /\ at' = [at EXCEPT ![t] = "points"] /\ "points" \in Doings
      /\ path' = [path EXCEPT ![t] = f] /\ began' = [began EXCEPT ![t] = time]
      /\ UNCHANGED <<versions, time, files, untried>>
  BY DEF tryFile, Turn, Doings
<1>2. /\ \/ \E h \in Hits(templates, f) :
                templates' = Used(templates, h) /\ entry' = [entry EXCEPT ![t] = h]
         \/ /\ templates' = Insert(templates, e)
            /\ entry' = [Kept(templates', entry) EXCEPT
                            ![t] = IF e \in Range(templates') THEN e ELSE Deleted]
  BY DEF tryFile
<1>3. /\ untried[t] \in Seq(Locale) /\ untried[t] # <<>> /\ time \in Nat /\ time <= time
      /\ untried' = [untried EXCEPT ![t] = untried[t]]
      /\ entry = [r \in Reader |-> entry[r]]
  BY <1>1 DEF CacheInv, ReadersInv, DiskInv
<1>4. f \in Place
  BY <1>3 DEF Place
<1> HIDE DEF f
<1>5. IsEntry(e) /\ e.file = f /\ e.created = time
  BY <1>3, <1>4, NewEntry DEF CacheInv
<1>6. cacheTimeout > 0 => time > time - cacheTimeout
  BY <1>3, CacheAssumption
<1> HIDE DEF e
<1>7. CASE \E h \in Hits(templates, f) :
                templates' = Used(templates, h) /\ entry' = [entry EXCEPT ![t] = h]
  <2>1. PICK h \in Hits(templates, f) :
            templates' = Used(templates, h) /\ entry' = [entry EXCEPT ![t] = h]
    BY <1>7
  <2>2. /\ IsEntry(h) /\ h.file = f /\ (cacheTimeout > 0 => h.created > time - cacheTimeout)
        /\ h \in Cached(templates, f)
    BY HitIsFresh DEF CacheInv
  <2>3. IsCache(Used(templates, h))
    BY <2>2, UsedCache DEF CacheInv
  <2>4. IsCache(files)' /\ IsCache(templates)'
    BY <1>1, <2>1, <2>3, EntriesStay DEF CacheInv
  <2>5. /\ entry' = [r \in Reader |-> entry'[r]] /\ entry'[t] = h
        /\ \A r \in Reader : r # t => entry'[r] = entry[r]
    BY <1>3, <2>1
  <2> QED
    BY <1>1, <1>3, <1>4, <2>2, <2>4, <2>5, ReaderStep
<1>8. CASE /\ templates' = Insert(templates, e)
           /\ entry' = [Kept(templates', entry) EXCEPT
                            ![t] = IF e \in Range(templates') THEN e ELSE Deleted]
  <2>1. IsCache(Insert(templates, e))
    BY <1>5, InsertedCache DEF CacheInv
  <2>2. IsCache(files)' /\ IsCache(templates)'
    BY <1>1, <1>8, <2>1, EntriesStay DEF CacheInv
  <2>3. /\ entry' = [r \in Reader |-> entry'[r]] /\ (entry'[t] = e \/ entry'[t] = Deleted)
        /\ \A r \in Reader : r # t =>
                entry'[r] = entry[r] \/ (at[r] = "points" /\ entry'[r] = Deleted)
    BY <1>8 DEF Kept
  <2> QED
    BY <1>1, <1>3, <1>4, <1>5, <1>6, <2>2, <2>3, ReaderStep
<1> QED
  BY <1>2, <1>7, <1>8

LEMMA ReturnDocumentStep ==
    ASSUME CacheInv, NEW t \in Reader, ReturnDocument(t)
    PROVE  ReadersInv' /\ IsCache(files)' /\ IsCache(templates)'
<1> DEFINE looked == tried[t] \cup {Head(untried[t])}
           later == {k \in DOMAIN untried[t] : untried[t][k] \notin looked}
           rest == SubSeq(untried[t], Min(later), Len(untried[t]))
<1>1. /\ at[t] = "points"
      /\ UNCHANGED <<versions, time, files, templates, path, began, entry>>
      /\ \/ /\ later # {} /\ at' = [at EXCEPT ![t] = "tries"]
            /\ untried' = [untried EXCEPT ![t] = rest]
         \/ at' = [at EXCEPT ![t] = "served"] /\ untried' = [untried EXCEPT ![t] = <<>>]
  BY DEF ReturnDocument, Turn
<1>2. /\ path[t] \in Place /\ began[t] \in Nat /\ began[t] <= time
      /\ path' = [path EXCEPT ![t] = path[t]] /\ began' = [began EXCEPT ![t] = began[t]]
      /\ entry' = [r \in Reader |-> entry'[r]] /\ UNCHANGED entry
      /\ untried[t] \in Seq(Locale)
  BY <1>1 DEF CacheInv, ReadersInv
<1>3. IsCache(files)' /\ IsCache(templates)'
  BY <1>1, EntriesStay DEF CacheInv
<1>4. {"tries", "served"} \subseteq Doings /\ <<>> \in Seq(Locale)
  BY DEF Doings
<1>5. ASSUME later # {}
      PROVE  rest \in Seq(Locale) /\ rest # <<>>
  <2>1. later \subseteq 1 .. Len(untried[t]) /\ later \subseteq Nat /\ Len(untried[t]) \in Nat
    BY <1>2
  <2> HIDE DEF later
  <2>2. \E x \in later : \A y \in later : x <= y
    BY <1>5, <2>1, LeastElement
  <2>3. Min(later) \in later
    BY <2>2 DEF Min
  <2>4. Min(later) \in 1 .. Len(untried[t])
    BY <2>1, <2>3
  <2> DEFINE m == Min(later)
  <2>5. m \in 1 .. Len(untried[t]) /\ rest = SubSeq(untried[t], m, Len(untried[t]))
    BY <2>4
  <2> HIDE DEF m, rest
  <2>6. rest \in Seq(Locale) /\ Len(rest) = Len(untried[t]) - m + 1
    BY <1>2, <2>5
  <2> QED
    BY <1>2, <2>5, <2>6
<1>6. InHand(t) \/ entry[t] = Deleted
  BY <1>1 DEF CacheInv, ReadersInv
<1> HIDE DEF later, rest
<1>7. CASE /\ later # {} /\ at' = [at EXCEPT ![t] = "tries"]
           /\ untried' = [untried EXCEPT ![t] = rest]
  BY <1>1, <1>2, <1>3, <1>4, <1>5, <1>7, ReaderStep
<1>8. CASE at' = [at EXCEPT ![t] = "served"] /\ untried' = [untried EXCEPT ![t] = <<>>]
  BY <1>1, <1>2, <1>3, <1>4, <1>6, <1>8, ReaderStep DEF InHand
<1> QED
  BY <1>1, <1>7, <1>8

LEMMA DoneStep ==
    ASSUME CacheInv, NEW t \in Reader, Done(t)
    PROVE  ReadersInv' /\ IsCache(files)' /\ IsCache(templates)'
<1>1. /\ at' = [at EXCEPT ![t] = "idle"] /\ path' = [path EXCEPT ![t] = Default]
      /\ began' = [began EXCEPT ![t] = 0] /\ entry' = [entry EXCEPT ![t] = NoEntry]
      /\ UNCHANGED <<versions, time, files, templates, untried>>
  BY DEF Done, Turn
<1>2. /\ Default \in Place /\ 0 \in Nat /\ 0 <= time /\ "idle" \in Doings
      /\ untried[t] \in Seq(Locale) /\ untried' = [untried EXCEPT ![t] = untried[t]]
  BY <1>1, CacheAssumption DEF Place, CacheInv, DiskInv, ReadersInv, Doings
<1>3. /\ entry' = [r \in Reader |-> entry'[r]]
      /\ \A r \in Reader : r # t => entry'[r] = entry[r]
  BY <1>1 DEF CacheInv, ReadersInv
<1>4. IsCache(files)' /\ IsCache(templates)'
  BY <1>1, EntriesStay DEF CacheInv
<1> QED
  BY <1>1, <1>2, <1>3, <1>4, ReaderStep

LEMMA CacheNextInv ==
    ASSUME CacheInv, [CacheNext]_cacheVars
    PROVE  CacheInv'
<1>1. DiskInv'
  BY DiskStep DEF CacheInv
<1>2. ASSUME NEW t \in Reader,
             \/ ServiceFile(t) \/ ReadFile(t) \/ InsertFile(t)
             \/ getTemplate(t) \/ tryFile(t) \/ ReturnDocument(t)
             \/ Done(t)
      PROVE  ReadersInv' /\ IsCache(files)' /\ IsCache(templates)'
  BY <1>2, ServiceFileStep, ReadFileStep, InsertFileStep, GetTemplateStep, TryFileStep,
     ReturnDocumentStep, DoneStep
<1>3. ASSUME ChangeFile \/ CacheTick \/ UNCHANGED cacheVars
      PROVE  ReadersInv' /\ IsCache(files)' /\ IsCache(templates)'
  <2>1. /\ UNCHANGED <<files, templates, at, path, began, entry, untried>>
        /\ time' >= time
    <3>1. CASE ChangeFile
      BY <3>1 DEF ChangeFile, CacheInv, DiskInv
    <3>2. CASE CacheTick
      BY <3>2 DEF CacheTick, CacheInv, DiskInv
    <3>3. CASE UNCHANGED cacheVars
      BY <3>3 DEF cacheVars, CacheInv, DiskInv
    <3> QED
      BY <1>3, <3>1, <3>2, <3>3
  <2>2. (\A e : IsEntry(e) => IsEntry(e)') /\ (\A c : IsCache(c) => IsCache(c)')
    BY <1>3, EntriesStay DEF cacheVars, CacheInv
  <2>3. IsCache(files)' /\ IsCache(templates)'
    BY <2>1, <2>2 DEF CacheInv
  <2>4. \A t \in Reader : InHand(t) => InHand(t)'
    BY <2>1, <2>2 DEF InHand
  <2>5. \A t \in Reader : began[t] <= time => began'[t] <= time'
    BY <1>1, <2>1 DEF CacheInv, ReadersInv, DiskInv
  <2> QED
    BY <2>1, <2>3, <2>4, <2>5 DEF CacheInv, ReadersInv
<1> QED
  BY <1>1, <1>2, <1>3 DEF CacheInv, CacheNext

LEMMA CacheInitInv == CacheInit => CacheInv
<1> SUFFICES ASSUME CacheInit PROVE CacheInv
  OBVIOUS
<1>1. DiskInv
  <2>1. \A s \in Size \cup {0} : <<[size |-> s, since |-> 0]>> \in Seq(Versions) \ {<<>>}
    BY CacheAssumption DEF Versions
  <2>2. \A f \in Place : versions[f] \in Seq(Versions) \ {<<>>}
    <3> SUFFICES ASSUME NEW f \in Place PROVE versions[f] \in Seq(Versions) \ {<<>>}
      OBVIOUS
    <3>1. versions[f] \in {<<[size |-> s, since |-> 0]>> : s \in Size \cup {0}}
      BY DEF CacheInit, Place
    <3> QED
      BY <2>1, <3>1
  <2>3. versions = [f \in Place |-> versions[f]] /\ time = 0
    BY DEF CacheInit, Place
  <2> QED
    BY <2>2, <2>3 DEF DiskInv
<1>2. ReadersInv
  <2>1. Default \in Place /\ time = 0 /\ <<>> \in Seq(Locale)
    BY CacheAssumption DEF CacheInit, Place
  <2>2. at = [t \in Reader |-> "idle"] /\ entry = [t \in Reader |-> NoEntry]
    BY DEF CacheInit
  <2> QED
    BY <2>1, <2>2 DEF CacheInit, ReadersInv, Doings
<1>3. IsCache(files) /\ IsCache(templates)
  BY DEF CacheInit, IsCache, HasOneOfEach
<1> QED
  BY <1>1, <1>2, <1>3 DEF CacheInv

(* However many readers share a cache while the files change, nothing that *)
(* is served was replaced more than cacheTimeout before its request began, *)
(* unless the pointer to it was freed, and a cache has one entry of a file *)
(* (StaticFileController::service, TemplateCache::tryFile).                *)
THEOREM CachesAreRecent == CacheSpec => []ServedIsRecent
<1>1. CacheInv => ServedIsRecent
  <2> SUFFICES ASSUME CacheInv, cacheTimeout > 0, NEW t \in Reader,
                      at[t] = "served", entry[t] # Deleted,
                      entry[t].version < Len(versions[path[t]])
               PROVE  versions[path[t]][entry[t].version + 1].since > began[t] - cacheTimeout
    BY DEF ServedIsRecent, CacheInv, IsCache
  <2>1. InHand(t) /\ path[t] \in Place /\ began[t] \in Nat
    BY DEF CacheInv, ReadersInv
  <2>2. /\ versions[path[t]] \in Seq(Versions) /\ cacheTimeout \in Nat
        /\ entry[t].version + 1 \in 1 .. Len(versions[path[t]])
    BY <2>1, CacheAssumption, SMTT(20) DEF CacheInv, DiskInv, InHand, IsEntry
  <2>3. /\ versions[path[t]][entry[t].version + 1].since >= entry[t].created
        /\ entry[t].created > began[t] - cacheTimeout /\ entry[t].created \in Nat
    BY <2>1 DEF InHand, IsEntry, Entries
  <2>4. versions[path[t]][entry[t].version + 1].since \in Nat
    <3>1. versions[path[t]][entry[t].version + 1] \in Versions
      BY <2>2
    <3> QED
      BY <3>1 DEF Versions
  <2> QED
    BY <2>1, <2>2, <2>3, <2>4, SMTT(20)
<1> QED
  BY <1>1, CacheInitInv, CacheNextInv, PTL DEF CacheSpec

--------------------------------------------------------------------------------

(* A log and its backups, of messages of M.                                *)
IsLogOf(f, M) ==
    /\ f \in [DOMAIN f -> Seq(M)]
    /\ DOMAIN f \subseteq Nat /\ IsFiniteSet(DOMAIN f)
    /\ maxBackups > 0 => DOMAIN f \subseteq 0 .. maxBackups

FilesType ==
    /\ logged \subseteq [by : Writer, number : Nat, level : Nat] /\ IsFiniteSet(logged)
    /\ buffers \in [Logging -> Seq(logged)]
    /\ fileName \in Name /\ unflushed \in Seq(logged)
    /\ disk = [n \in Name |-> disk[n]]
    /\ \A n \in Name : IsLogOf(disk[n], logged)

Doing == {"idle", "logs", "aborts", "opens", "warns", "removes", "moves", "flushes"}

ThreadsType ==
    /\ where \in [Logging -> Doing]
    /\ message \in [Logging -> [by : Logging \cup {Nobody}, number : Nat, level : Nat]]
    /\ file \in BOOLEAN
    /\ moving \in Nat

LogType == FilesType /\ ThreadsType

(* What the main thread is about: it holds the mutex of log() while it     *)
(* rotates or opens the file, and so never gets through its own warning.   *)
MainInv ==
    /\ where[main] \in {"opens", "warns", "logs", "removes", "moves"} => logMutex = main
    /\ where[main] \in {"removes", "moves"} => ~ file
    /\ file => 0 \in DOMAIN disk[fileName]
    /\ where[main] = "removes" => 1 .. moving \subseteq DOMAIN disk[fileName]
    /\ where[main] = "moves" /\ maxBackups > 0 => moving < maxBackups

(* The number of a message is new until log() returns.                     *)
NumbersInv ==
    /\ \A m \in logged : m.number < NumberOf(m.by)
    /\ \A t \in Writer : where[t] = "logs" =>
            message[t].by = t /\ message[t].number = NumberOf(t)

(* What a thread buffers came after all that it has in the files.          *)
BuffersInv ==
    \A t \in Writer :
        /\ InOrder(buffers[t])
        /\ \A i \in DOMAIN buffers[t] : buffers[t][i].by = t
        /\ Precedes(unflushed, buffers[t])
        /\ \A n \in Name : \A k \in DOMAIN disk[n] : Precedes(disk[n][k], buffers[t])

FilesInv ==
    /\ \A n \in Name : IsHistory(disk[n])
    /\ InOrder(unflushed)
    /\ \A k \in DOMAIN disk[fileName] : Precedes(disk[fileName][k], unflushed)

LogInv == LogType /\ MainInv /\ NumbersInv /\ BuffersInv /\ FilesInv /\ CriticalAreKept

LEMMA ConcatInOrder ==
    ASSUME NEW M, NEW s \in Seq(M), NEW r \in Seq(M), InOrder(s), InOrder(r), Precedes(s, r)
    PROVE  InOrder(s \o r)
<1> SUFFICES ASSUME NEW i \in DOMAIN (s \o r), NEW j \in DOMAIN (s \o r),
                    i < j, (s \o r)[i].by = (s \o r)[j].by
             PROVE  (s \o r)[i].number < (s \o r)[j].number
  BY DEF InOrder
<1>1. CASE j <= Len(s)
  BY <1>1 DEF InOrder
<1>2. CASE i <= Len(s) /\ Len(s) < j
  BY <1>2 DEF Precedes
<1>3. CASE Len(s) < i
  BY <1>3 DEF InOrder
<1> QED
  BY <1>1, <1>2, <1>3

LEMMA ConcatPrecedes ==
    ASSUME NEW M, NEW s \in Seq(M), NEW r \in Seq(M), NEW q \in Seq(M)
    PROVE  /\ Precedes(s, q) /\ Precedes(r, q) => Precedes(s \o r, q)
           /\ Precedes(q, s) /\ Precedes(q, r) => Precedes(q, s \o r)
<1>1. ASSUME NEW i \in DOMAIN (s \o r)
      PROVE  \/ i \in DOMAIN s /\ (s \o r)[i] = s[i]
             \/ i - Len(s) \in DOMAIN r /\ (s \o r)[i] = r[i - Len(s)]
  OBVIOUS
<1> QED
  BY <1>1 DEF Precedes

(***************************************************************************)
(* One message: what log() does with the buffer and writes.                *)
(***************************************************************************)

(* s may be written next, as the messages of t among those of M.           *)
IsNext(s, t, M) ==
    /\ s \in Seq(M) /\ InOrder(s)
    /\ \A i \in DOMAIN s : s[i].by = t
    /\ Precedes(unflushed, s)
    /\ \A n \in Name : \A k \in DOMAIN disk[n] : Precedes(disk[n][k], s)

LEMMA BufferIsNext ==
    ASSUME LogInv, NEW t \in Writer, where[t] = "logs"
    PROVE  /\ IsNext(<<>>, t, logged \cup {message[t]})
           /\ IsNext(<<message[t]>>, t, logged \cup {message[t]})
           /\ IsNext(BufferWith(t), t, logged \cup {message[t]})
           /\ bufferSize > 0 => \E i \in DOMAIN BufferWith(t) : BufferWith(t)[i] = message[t]
<1> DEFINE m == message[t]  M == logged \cup {m}  b == Append(buffers[t], m)
<1>1. m.by = t /\ \A x \in logged : x.by = t => x.number < m.number
  BY DEF LogInv, NumbersInv
<1>2. buffers[t] \in Seq(M) /\ unflushed \in Seq(M) /\ buffers[t] \in Seq(logged)
      /\ unflushed \in Seq(logged)
      /\ \A n \in Name : \A k \in DOMAIN disk[n] : disk[n][k] \in Seq(logged)
  BY DEF LogInv, LogType, FilesType, ThreadsType, IsLogOf, Logging
<1> HIDE DEF m
<1>3. \A s \in Seq(logged) : Precedes(s, <<m>>)
  BY <1>1 DEF Precedes
<1>4. IsNext(<<m>>, t, M)
  <2>1. <<m>> \in Seq(M) /\ InOrder(<<m>>)
    BY DEF InOrder
  <2> QED
    BY <1>1, <1>2, <1>3, <2>1 DEF IsNext
<1>5. IsNext(<<>>, t, M)
  BY DEF IsNext, InOrder, Precedes
<1>6. IsNext(buffers[t], t, M)
  BY <1>2 DEF IsNext, LogInv, BuffersInv
<1>7. b = buffers[t] \o <<m>>
  BY <1>2
<1>8. IsNext(b, t, M)
  <2>1. b \in Seq(M) /\ \A i \in DOMAIN b : b[i].by = t
    BY <1>2, <1>1, <1>6 DEF IsNext
  <2>2. InOrder(b)
    BY <1>2, <1>3, <1>4, <1>6, <1>7, ConcatInOrder DEF IsNext
  <2>3. ASSUME NEW s \in Seq(logged), Precedes(s, buffers[t])
        PROVE  Precedes(s, b)
    <3>1. s \in Seq(M) /\ <<m>> \in Seq(M)
      OBVIOUS
    <3> QED
      BY <1>2, <1>3, <1>7, <2>3, <3>1, ConcatPrecedes
  <2> QED
    BY <1>2, <1>6, <2>1, <2>2, <2>3 DEF IsNext
<1>9. IsNext(Tail(b), t, M)
  <2>1. b \in Seq(M) /\ b # <<>>
    BY <1>2
  <2> HIDE DEF b
  <2>2. /\ Tail(b) \in Seq(M)
        /\ \A i \in DOMAIN Tail(b) : i \in Nat /\ i + 1 \in DOMAIN b /\ Tail(b)[i] = b[i + 1]
    BY <2>1, TailFacts
  <2>3. InOrder(Tail(b))
    BY <1>8, <2>2 DEF IsNext, InOrder
  <2>4. \A s : Precedes(s, b) => Precedes(s, Tail(b))
    BY <2>2 DEF Precedes
  <2> QED
    BY <1>8, <2>2, <2>3, <2>4 DEF IsNext
<1>10. BufferWith(t) = IF Len(b) > bufferSize THEN Tail(b) ELSE b
  BY DEF BufferWith, m
<1>11. ASSUME bufferSize > 0
       PROVE  \E i \in DOMAIN BufferWith(t) : BufferWith(t)[i] = m
  <2>1. Len(b) = Len(buffers[t]) + 1 /\ b[Len(b)] = m /\ bufferSize \in Nat /\ b \in Seq(M)
    BY <1>2, LogAssumption
  <2> HIDE DEF b
  <2>2. CASE Len(b) > bufferSize
    <3>1. b # <<>> /\ Len(b) - 1 \in 1 .. Len(b) - 1
      BY <1>11, <2>1, <2>2
    <3>2. Tail(b) \in Seq(M) /\ Len(Tail(b)) = Len(b) - 1
      BY <2>1, <3>1, TailFacts
    <3>3. Len(b) - 1 \in DOMAIN Tail(b)
      BY <3>1, <3>2
    <3>4. Tail(b)[Len(b) - 1] = b[Len(b) - 1 + 1] /\ Len(b) - 1 + 1 = Len(b)
      BY <2>1, <3>1, <3>3, TailFacts
    <3> QED
      BY <1>10, <2>1, <2>2, <3>3, <3>4
  <2>3. CASE ~ (Len(b) > bufferSize)
    <3>1. BufferWith(t) = b /\ Len(b) \in DOMAIN b
      BY <1>2, <1>10, <2>1, <2>3
    <3> QED
      BY <2>1, <3>1
  <2> QED
    BY <2>2, <2>3
<1> QED
  BY <1>4, <1>5, <1>8, <1>9, <1>10, <1>11 DEF m

LEMMA DueIsNext ==
    ASSUME LogInv, NEW t \in Writer, where[t] = "logs"
    PROVE  /\ IsNext(Due(t), t, logged \cup {message[t]})
           /\ message[t].level >= minLevel => \E i \in DOMAIN Due(t) : Due(t)[i] = message[t]
<1> DEFINE m == message[t]
<1>1. message[t].level \in Nat /\ minLevel \in Nat /\ bufferSize \in Nat
  BY LogAssumption DEF LogInv, LogType, ThreadsType, Logging
<1>2. CASE message[t].level < minLevel
  <2>1. Due(t) = <<>> /\ ~ (message[t].level >= minLevel)
    BY <1>1, <1>2 DEF Due
  <2> QED
    BY <2>1, BufferIsNext
<1>3. CASE ~ (message[t].level < minLevel) /\ bufferSize > 0
  BY <1>1, <1>3, BufferIsNext DEF Due
<1>4. CASE ~ (message[t].level < minLevel) /\ ~ (bufferSize > 0)
  <2>1. Due(t) = <<m>> /\ 1 \in DOMAIN <<m>> /\ <<m>>[1] = m
    BY <1>4 DEF Due
  <2> QED
    BY <2>1, BufferIsNext
<1> QED
  BY <1>2, <1>3, <1>4

(***************************************************************************)
(* The ways in which the files change.                                     *)
(***************************************************************************)

\* d are the files with s appended to the log.
IsAppended(d, s, M) ==
    /\ d = [n \in Name |-> d[n]]
    /\ \A n \in Name : DOMAIN d[n] = DOMAIN disk[n]
    /\ \A n \in Name : IsLogOf(d[n], M) /\ IsHistory(d[n])
    /\ \A n \in Name : \A q \in Seq(M) :
            (\A k \in DOMAIN disk[n] : Precedes(disk[n][k], q)) /\ Precedes(s, q)
                => \A k \in DOMAIN d[n] : Precedes(d[n][k], q)
    /\ \A n \in Name : \A k \in DOMAIN disk[n] : Range(disk[n][k]) \subseteq Range(d[n][k])
    /\ Range(s) \subseteq Range(d[fileName][0]) /\ 0 \in DOMAIN d[fileName]

\* Appending to the log what comes after it.
LEMMA AppendedLog ==
    ASSUME LogInv, file, NEW M, logged \subseteq M, NEW s \in Seq(M), InOrder(s),
           \A k \in DOMAIN disk[fileName] : Precedes(disk[fileName][k], s)
    PROVE  IsAppended(OnDisk(s), s, M)
<1> DEFINE f == disk[fileName]  d == OnDisk(s)
<1>1. /\ fileName \in Name /\ 0 \in DOMAIN f /\ DOMAIN f \subseteq Nat
      /\ \A n \in Name : IsLogOf(disk[n], logged) /\ IsHistory(disk[n])
      /\ disk = [n \in Name |-> disk[n]]
  BY DEF LogInv, LogType, FilesType, MainInv, FilesInv, IsLogOf
<1>2. \A n \in Name : \A k \in DOMAIN disk[n] : disk[n][k] \in Seq(M)
  <2>1. Seq(logged) \subseteq Seq(M)
    OBVIOUS
  <2> QED
    BY <1>1, <2>1 DEF IsLogOf
<1>3. /\ d = [n \in Name |-> d[n]]
      /\ \A n \in Name : n # fileName => d[n] = disk[n]
      /\ d[fileName] = [f EXCEPT ![0] = f[0] \o s]
  BY <1>1 DEF OnDisk
<1> HIDE DEF d
<1>4. /\ \A n \in Name : DOMAIN d[n] = DOMAIN disk[n]
      /\ \A n \in Name : \A k \in DOMAIN disk[n] :
            IF n = fileName /\ k = 0 THEN d[n][k] = disk[n][k] \o s ELSE d[n][k] = disk[n][k]
      /\ \A n \in Name : d[n] = [k \in DOMAIN d[n] |-> d[n][k]]
  <2>1. f = [k \in DOMAIN f |-> f[k]]
    BY <1>1 DEF IsLogOf
  <2>2. /\ DOMAIN d[fileName] = DOMAIN f
        /\ d[fileName] = [k \in DOMAIN d[fileName] |-> d[fileName][k]]
        /\ \A k \in DOMAIN f : IF k = 0 THEN d[fileName][k] = f[k] \o s ELSE d[fileName][k] = f[k]
    BY <1>1, <1>3, <2>1
  <2>3. \A n \in Name : disk[n] = [k \in DOMAIN disk[n] |-> disk[n][k]]
    BY <1>1 DEF IsLogOf
  <2> QED
    BY <1>3, <2>2, <2>3
<1>5. ASSUME NEW n \in Name
      PROVE  IsLogOf(d[n], M)
  <2>1. ASSUME NEW k \in DOMAIN d[n]
        PROVE  d[n][k] \in Seq(M)
    <3>1. disk[n][k] \in Seq(M)
      BY <1>2, <1>4
    <3>2. disk[n][k] \o s \in Seq(M)
      BY <3>1
    <3> QED
      BY <1>4, <3>1, <3>2
  <2> QED
    BY <1>1, <1>4, <2>1 DEF IsLogOf
<1>6. ASSUME NEW n \in Name
      PROVE  IsHistory(d[n])
  <2>1. CASE n # fileName
    BY <1>1, <1>3, <2>1
  <2>2. CASE n = fileName
    <3>1. ASSUME NEW k \in DOMAIN d[n]
          PROVE  InOrder(d[n][k])
      <4>1. InOrder(f[k]) /\ f[k] \in Seq(M) /\ Precedes(f[k], s)
        BY <1>1, <1>2, <1>4, <2>2 DEF IsHistory
      <4>2. InOrder(f[k] \o s)
        BY <4>1, ConcatInOrder
      <4>3. d[n][k] = f[k] \/ d[n][k] = f[k] \o s
        BY <1>4, <2>2
      <4> QED
        BY <4>1, <4>2, <4>3
    <3>2. ASSUME NEW k \in DOMAIN d[n], NEW l \in DOMAIN d[n], l < k
          PROVE  Precedes(d[n][k], d[n][l])
      <4>1. f[k] \in Seq(M) /\ f[l] \in Seq(M) /\ Precedes(f[k], f[l]) /\ Precedes(f[k], s)
        BY <1>1, <1>2, <1>4, <2>2, <3>2 DEF IsHistory
      <4>2. Precedes(f[k], f[l] \o s)
        BY <4>1, ConcatPrecedes
      <4>3. k # 0 /\ k \in DOMAIN f /\ l \in DOMAIN f
        BY <1>1, <1>4, <2>2, <3>2
      <4>4. d[n][k] = f[k] /\ (d[n][l] = f[l] \/ d[n][l] = f[l] \o s)
        BY <1>4, <2>2, <4>3
      <4> QED
        BY <4>1, <4>2, <4>4
    <3> QED
      BY <3>1, <3>2 DEF IsHistory
  <2> QED
    BY <2>1, <2>2
<1>7. ASSUME NEW n \in Name, NEW q \in Seq(M), Precedes(s, q),
             \A k \in DOMAIN disk[n] : Precedes(disk[n][k], q), NEW k \in DOMAIN d[n]
      PROVE  Precedes(d[n][k], q)
  <2>1. Precedes(disk[n][k], q) /\ disk[n][k] \in Seq(M)
    BY <1>2, <1>4, <1>7
  <2>2. Precedes(disk[n][k] \o s, q)
    BY <1>7, <2>1, ConcatPrecedes
  <2> QED
    BY <1>4, <2>1, <2>2
<1>8. ASSUME NEW r \in Seq(M)
      PROVE  Range(r) \subseteq Range(r \o s) /\ Range(s) \subseteq Range(r \o s)
  <2>1. \A i \in DOMAIN r : i \in DOMAIN (r \o s) /\ (r \o s)[i] = r[i]
    OBVIOUS
  <2>2. \A i \in DOMAIN s : i + Len(r) \in DOMAIN (r \o s) /\ (r \o s)[i + Len(r)] = s[i]
    OBVIOUS
  <2> QED
    BY <2>1, <2>2 DEF Range
<1>9. \A n \in Name : \A k \in DOMAIN disk[n] : Range(disk[n][k]) \subseteq Range(d[n][k])
  BY <1>2, <1>4, <1>8
<1>10. Range(s) \subseteq Range(d[fileName][0])
  BY <1>1, <1>2, <1>4, <1>8
<1> QED
  <2> IsAppended(d, s, M)
    BY <1>1, <1>3, <1>4, <1>5, <1>6, <1>7, <1>9, <1>10 DEF IsAppended
  <2> QED
    BY DEF d

\* Opening the log.
LEMMA OpenedLog ==
    ASSUME NEW M, NEW f, IsLogOf(f, M), IsHistory(f)
    PROVE  /\ IsLogOf(WithLog(f), M) /\ IsHistory(WithLog(f))
           /\ DOMAIN WithLog(f) = DOMAIN f \cup {0}
           /\ \A k \in DOMAIN f : WithLog(f)[k] = f[k]
           /\ \A k \in DOMAIN WithLog(f) : k \notin DOMAIN f => WithLog(f)[k] = <<>>
<1> DEFINE w == WithLog(f)
<1>1. /\ w = [k \in DOMAIN w |-> w[k]]
      /\ DOMAIN w = DOMAIN f \cup {0}
      /\ \A k \in DOMAIN f : w[k] = f[k]
      /\ \A k \in DOMAIN w : k \notin DOMAIN f => w[k] = <<>>
  BY DEF WithLog
<1> HIDE DEF w
<1>2. IsFiniteSet(DOMAIN w)
  BY <1>1, FS_AddElement DEF IsLogOf
<1>3. ASSUME NEW k \in DOMAIN w
      PROVE  w[k] \in Seq(M)
  <2>1. <<>> \in Seq(M) /\ \A j \in DOMAIN f : f[j] \in Seq(M)
    BY DEF IsLogOf
  <2> QED
    BY <1>1, <2>1
<1>4. maxBackups > 0 => DOMAIN w \subseteq 0 .. maxBackups
  BY <1>1, LogAssumption DEF IsLogOf
<1>5. IsLogOf(w, M)
  BY <1>1, <1>2, <1>3, <1>4 DEF IsLogOf
<1>6. InOrder(<<>>) /\ \A s : Precedes(<<>>, s) /\ Precedes(s, <<>>)
  BY DEF InOrder, Precedes
<1>7. IsHistory(w)
  BY <1>1, <1>6 DEF IsHistory
<1> QED
  BY <1>1, <1>5, <1>7 DEF w

SamePieces(f, g) ==
    /\ \A k \in DOMAIN g : \E j \in DOMAIN f : g[k] = f[j]
    /\ \A j \in DOMAIN f : \E k \in DOMAIN g : g[k] = f[j]

\* Renaming a piece to the next older number, unless that is taken.
LEMMA RenamedLog ==
    ASSUME NEW M, NEW f, IsLogOf(f, M), IsHistory(f), NEW i \in Nat,
           maxBackups > 0 => i < maxBackups,
           NEW g, g = Renamed(f, i, i + 1)
    PROVE  /\ IsLogOf(g, M) /\ IsHistory(g)
           /\ SamePieces(f, g)
<1>1. CASE i \notin DOMAIN f \/ i + 1 \in DOMAIN f
  <2>1. g = f
    BY <1>1 DEF Renamed
  <2> QED
    BY <2>1 DEF SamePieces
<1>2. CASE i \in DOMAIN f /\ i + 1 \notin DOMAIN f
  <2> DEFINE from(k) == IF k = i + 1 THEN i ELSE k
  <2>1. /\ g = [k \in DOMAIN g |-> g[k]]
        /\ DOMAIN g = (DOMAIN f \ {i}) \cup {i + 1}
        /\ \A k \in DOMAIN g : from(k) \in DOMAIN f /\ g[k] = f[from(k)]
    BY <1>2 DEF Renamed
  <2>2. DOMAIN f \subseteq Nat /\ DOMAIN g \subseteq Nat
    BY <2>1 DEF IsLogOf
  <2>3. \A k, l \in DOMAIN g : l < k => from(l) < from(k)
    BY <1>2, <2>1, <2>2
  <2>4. IsFiniteSet(DOMAIN g)
    <3>1. IsFiniteSet(DOMAIN f \ {i})
      BY FS_RemoveElement DEF IsLogOf
    <3> QED
      BY <2>1, <3>1, FS_AddElement
  <2>5. \A k \in DOMAIN g : g[k] \in Seq(M)
    BY <2>1 DEF IsLogOf
  <2>6. maxBackups > 0 => DOMAIN g \subseteq 0 .. maxBackups
    BY <2>1, LogAssumption DEF IsLogOf
  <2>7. IsLogOf(g, M)
    BY <2>1, <2>2, <2>4, <2>5, <2>6 DEF IsLogOf
  <2>8. \A l \in DOMAIN f : \E k \in DOMAIN g : from(k) = l
    <3> TAKE l \in DOMAIN f
    <3>1. CASE l = i
      <4>1. i + 1 \in DOMAIN g /\ from(i + 1) = i
        BY <2>1
      <4> QED
        BY <3>1, <4>1
    <3>2. CASE l # i
      <4>1. l \in DOMAIN g /\ from(l) = l
        BY <1>2, <2>1, <3>2
      <4> QED
        BY <4>1
    <3> QED
      BY <3>1, <3>2
  <2> HIDE DEF from
  <2>9. IsHistory(g)
    BY <2>1, <2>3 DEF IsHistory
  <2> QED
    BY <2>1, <2>7, <2>8, <2>9 DEF SamePieces
<1> QED
  BY <1>1, <1>2

\* Removing a piece.
LEMMA RemovedLog ==
    ASSUME NEW M, NEW f, IsLogOf(f, M), IsHistory(f), NEW i,
           NEW g, g = [k \in DOMAIN f \ {i} |-> f[k]]
    PROVE  IsLogOf(g, M) /\ IsHistory(g)
<1>1. /\ g = [k \in DOMAIN g |-> g[k]]
      /\ DOMAIN g = DOMAIN f \ {i}
      /\ \A k \in DOMAIN g : g[k] = f[k]
  OBVIOUS
<1>2. IsFiniteSet(DOMAIN g)
  BY <1>1, FS_RemoveElement DEF IsLogOf
<1>3. \A k \in DOMAIN g : g[k] \in Seq(M)
  BY <1>1 DEF IsLogOf
<1> QED
  BY <1>1, <1>2, <1>3 DEF IsLogOf, IsHistory

(***************************************************************************)
(* The steps.                                                              *)
(***************************************************************************)
LEMMA LogInitInv == LogInit => LogInv
<1> SUFFICES ASSUME LogInit PROVE LogInv
  OBVIOUS
<1> USE LogAssumption DEF LogInit
<1> DEFINE empty == <<>>
<1>1. /\ empty = [k \in DOMAIN empty |-> empty[k]] /\ DOMAIN empty = {}
      /\ InOrder(empty) /\ \A s : Precedes(s, empty) /\ Precedes(empty, s)
      /\ \A M : empty \in Seq(M)
  BY DEF InOrder, Precedes
<1> HIDE DEF empty
<1>2. IsLogOf(empty, logged) /\ IsHistory(empty)
  BY <1>1, FS_EmptySet DEF IsLogOf, IsHistory
<1>3. /\ disk = [n \in Name |-> disk[n]]
      /\ \A n \in Name : disk[n] = IF n = fileName THEN WithLog(empty) ELSE empty
  BY DEF Opened, empty
<1>4. /\ IsLogOf(WithLog(empty), logged) /\ IsHistory(WithLog(empty))
      /\ DOMAIN WithLog(empty) = {0}
      /\ \A k \in DOMAIN WithLog(empty) : WithLog(empty)[k] = empty
  <2>1. /\ IsLogOf(WithLog(empty), logged) /\ IsHistory(WithLog(empty))
        /\ DOMAIN WithLog(empty) = DOMAIN empty \cup {0}
        /\ \A k \in DOMAIN WithLog(empty) : k \notin DOMAIN empty => WithLog(empty)[k] = <<>>
    BY <1>2, OpenedLog
  <2>2. DOMAIN empty = {} /\ empty = <<>>
    BY <1>1 DEF empty
  <2> QED
    BY <2>1, <2>2
<1>5. LogType
  <2>1. NoMessage \in [by : Logging \cup {Nobody}, number : Nat, level : Nat]
    BY DEF NoMessage
  <2>2. ThreadsType
    BY <2>1 DEF ThreadsType, Doing
  <2>3. \A n \in Name : IsLogOf(disk[n], logged)
    BY <1>2, <1>3, <1>4
  <2>4. FilesType
    BY <1>3, <2>3, FS_EmptySet DEF FilesType
  <2> QED
    BY <2>2, <2>4 DEF LogType
<1>6. MainInv /\ NumbersInv
  BY <1>3, <1>4 DEF MainInv, NumbersInv, Logging
<1>7. BuffersInv
  BY <1>1 DEF BuffersInv, Logging, empty
<1>8. FilesInv
  <2>1. fileName \in Name /\ unflushed = empty
    BY DEF empty
  <2> QED
    BY <1>1, <1>2, <1>3, <1>4, <2>1 DEF FilesInv
<1>9. CriticalAreKept
  BY DEF CriticalAreKept
<1> QED
  BY <1>5, <1>6, <1>7, <1>8, <1>9 DEF LogInv

\* Nothing is written.
LEMMA QuietStep ==
    ASSUME LogInv, UNCHANGED <<buffers, fileName, unflushed, disk, console, logged, removed>>
    PROVE  FilesType' /\ BuffersInv' /\ FilesInv' /\ CriticalAreKept'
BY DEF LogInv, LogType, FilesType, IsLogOf, BuffersInv, FilesInv, CriticalAreKept

LEMMA MsgHandlerStep ==
    ASSUME LogInv, NEW t \in Writer, msgHandler(t)
    PROVE  LogInv'
<1> USE LogAssumption DEF msgHandler, Goes, Logging, locks, ghosts, bounds
<1>1. t \in Logging /\ t # main /\ where \in [Logging -> Doing]
  BY DEF LogInv, LogType, ThreadsType, FilesType
<1>2. PICK l \in Level :
        message' = [message EXCEPT ![t] = [by |-> t, number |-> NumberOf(t), level |-> l]]
  OBVIOUS
<1>3. NumberOf(t) \in Nat
  <2>1. IsFiniteSet(logged) /\ {m \in logged : m.by = t} \in SUBSET logged
    BY DEF LogInv, LogType, ThreadsType, FilesType
  <2>2. IsFiniteSet({m \in logged : m.by = t})
    BY <2>1, FS_Subset
  <2>3. Cardinality({m \in logged : m.by = t}) \in Nat
    BY <2>2, FS_CardinalityType
  <2> QED
    BY <2>3 DEF NumberOf
<1>4. ThreadsType'
  <2>1. [by |-> t, number |-> NumberOf(t), level |-> l]
            \in [by : Logging \cup {Nobody}, number : Nat, level : Nat]
    BY <1>1, <1>3
  <2> QED
    BY <1>1, <1>2, <2>1 DEF LogInv, LogType, ThreadsType, Doing
<1>5. MainInv'
  BY <1>1 DEF LogInv, MainInv
<1>6. NumbersInv'
  <2>1. \A u \in Writer : NumberOf(u)' = NumberOf(u)
    BY DEF NumberOf
  <2>2. message \in [Logging -> [by : Logging \cup {Nobody}, number : Nat, level : Nat]]
    BY DEF LogInv, LogType, ThreadsType, FilesType
  <2>3. \A m \in logged : m.number < NumberOf(m.by) /\ NumberOf(m.by)' = NumberOf(m.by)
    BY DEF LogInv, NumbersInv, NumberOf
  <2> QED
    BY <1>1, <1>2, <2>1, <2>2, <2>3 DEF LogInv, NumbersInv
<1> QED
  BY <1>4, <1>5, <1>6, QuietStep, Zenon DEF LogInv, LogType, msgHandler, ghosts

LEMMA QWarningStep == ASSUME LogInv, qWarning PROVE LogInv'
<1> USE LogAssumption DEF qWarning, Goes, Logging, locks, ghosts, bounds
<1>1. where \in [Logging -> Doing] /\ main \notin Writer
  BY DEF LogInv, LogType, ThreadsType, FilesType
<1>2. ThreadsType'
  BY <1>1 DEF LogInv, LogType, ThreadsType, Doing, Warning
<1>3. MainInv'
  BY <1>1 DEF LogInv, MainInv
<1>4. NumbersInv'
  <2>1. \A u : NumberOf(u)' = NumberOf(u)
    BY DEF NumberOf
  <2>2. \A u \in Writer : where'[u] = where[u] /\ message'[u] = message[u]
    BY <1>1 DEF LogInv, LogType, ThreadsType, FilesType
  <2> QED
    BY <2>1, <2>2 DEF LogInv, NumbersInv
<1> QED
  BY <1>2, <1>3, <1>4, QuietStep, Zenon DEF LogInv, LogType, qWarning, ghosts

LEMMA MainWaitsStep ==
    ASSUME LogInv, BeginMoving \/ flushTimer
    PROVE  LogInv'
<1> USE LogAssumption DEF BeginMoving, flushTimer, Goes, Logging, locks, ghosts, bounds
<1>1. where \in [Logging -> Doing] /\ main \notin Writer
  BY DEF LogInv, LogType, ThreadsType, FilesType
<1>2. ThreadsType'
  BY <1>1 DEF LogInv, LogType, ThreadsType, Doing
<1>3. MainInv'
  BY <1>1 DEF LogInv, LogType, ThreadsType, MainInv, locks, TooManyBackups
<1>4. NumbersInv'
  <2>1. \A u : NumberOf(u)' = NumberOf(u)
    BY DEF NumberOf, ghosts
  <2>2. \A u \in Writer : where'[u] = where[u] /\ message'[u] = message[u]
    BY <1>1 DEF LogInv, LogType, ThreadsType, FilesType
  <2> QED
    BY <2>1, <2>2 DEF LogInv, NumbersInv, ghosts
<1> QED
  BY <1>2, <1>3, <1>4, QuietStep, Zenon DEF LogInv, LogType, BeginMoving, flushTimer, ghosts

\* Nothing is logged; the pieces of the files are moved, made or removed.
LEMMA PiecesStep ==
    ASSUME LogInv, UNCHANGED <<fileName, logged>>,
           buffers' \in [Logging -> Seq(logged)],
           \A t \in Writer : buffers'[t] = buffers[t] \/ buffers'[t] = <<>>,
           unflushed' = unflushed \/ unflushed' = <<>>,
           disk' = [n \in Name |-> disk'[n]],
           \A n \in Name : IsLogOf(disk'[n], logged) /\ IsHistory(disk'[n]),
           \A n \in Name : \A k \in DOMAIN disk'[n] :
                disk'[n][k] = <<>> \/ \E j \in DOMAIN disk[n] : disk'[n][k] = disk[n][j]
    PROVE  FilesType' /\ BuffersInv' /\ FilesInv'
<1>1. /\ InOrder(<<>>) /\ <<>> \in Seq(logged) /\ DOMAIN <<>> = {}
      /\ \A s : Precedes(<<>>, s) /\ Precedes(s, <<>>)
  BY DEF InOrder, Precedes
<1>2. fileName \in Name
  BY DEF LogInv, LogType, FilesType
<1>3. FilesType'
  BY <1>1 DEF LogInv, LogType, FilesType, IsLogOf
<1>4. ASSUME NEW n \in Name, NEW s, \A j \in DOMAIN disk[n] : Precedes(disk[n][j], s),
             NEW k \in DOMAIN disk'[n]
      PROVE  Precedes(disk'[n][k], s)
  <2>1. disk'[n][k] = <<>> \/ \E j \in DOMAIN disk[n] : disk'[n][k] = disk[n][j]
    OBVIOUS
  <2> QED
    BY <1>1, <1>4, <2>1
<1>5. BuffersInv'
  <2> SUFFICES ASSUME NEW t \in Writer
               PROVE  /\ InOrder(buffers'[t])
                      /\ \A i \in DOMAIN buffers'[t] : buffers'[t][i].by = t
                      /\ Precedes(unflushed', buffers'[t])
                      /\ \A n \in Name : \A k \in DOMAIN disk'[n] :
                            Precedes(disk'[n][k], buffers'[t])
    BY DEF BuffersInv
  <2>1. CASE buffers'[t] = <<>>
    BY <1>1, <2>1
  <2>2. CASE buffers'[t] = buffers[t]
    BY <1>1, <1>4, <2>2 DEF LogInv, BuffersInv
  <2> QED
    BY <2>1, <2>2
<1>6. FilesInv'
  <2>1. InOrder(unflushed')
    BY <1>1 DEF LogInv, FilesInv
  <2>2. \A k \in DOMAIN disk'[fileName] : Precedes(disk'[fileName][k], unflushed')
    BY <1>1, <1>2, <1>4 DEF LogInv, FilesInv
  <2> QED
    BY <2>1, <2>2 DEF FilesInv
<1> QED
  BY <1>3, <1>5, <1>6

\* No thread logs or begins to.
LEMMA NumbersStep ==
    ASSUME LogInv, UNCHANGED logged,
           \A t \in Writer : where'[t] = "logs" =>
                where[t] = "logs" /\ message'[t] = message[t]
    PROVE  NumbersInv'
BY DEF LogInv, NumbersInv, NumberOf

LEMMA OpenStep == ASSUME LogInv, open PROVE LogInv'
<1> USE LogAssumption DEF open, Goes, Logging, locks, ghosts, bounds
<1>1. where \in [Logging -> Doing] /\ main \notin Writer /\ fileName \in Name
  BY DEF LogInv, LogType, ThreadsType, FilesType
<1>2. ThreadsType'
  BY <1>1 DEF LogInv, LogType, ThreadsType, Doing
<1>3. NumbersInv'
  <2>1. \A t \in Writer : where'[t] = where[t] /\ message'[t] = message[t]
    BY <1>1
  <2> QED
    BY <2>1, NumbersStep
<1>4. CASE Goes(main, "warns") /\ UNCHANGED <<disk, file, logMutex>>
  <2>1. FilesType' /\ BuffersInv' /\ FilesInv' /\ CriticalAreKept'
    BY <1>4, QuietStep
  <2>2. MainInv'
    BY <1>1, <1>4 DEF LogInv, MainInv
  <2> QED
    BY <1>2, <1>3, <2>1, <2>2 DEF LogInv, LogType
<1>5. CASE disk' = Opened(fileName, disk) /\ file' = TRUE /\ Goes(main, "idle")
  <2> DEFINE f == disk[fileName]
  <2>1. /\ disk' = [n \in Name |-> disk'[n]]
        /\ \A n \in Name : disk'[n] = IF n = fileName THEN WithLog(f) ELSE disk[n]
    BY <1>1, <1>5 DEF Opened, LogInv, LogType, FilesType
  <2>2. /\ \A n \in Name : IsLogOf(disk[n], logged) /\ IsHistory(disk[n])
        /\ buffers \in [Logging -> Seq(logged)]
    BY DEF LogInv, LogType, FilesType, FilesInv
  <2>3. /\ IsLogOf(WithLog(f), logged) /\ IsHistory(WithLog(f))
        /\ DOMAIN WithLog(f) = DOMAIN f \cup {0}
        /\ \A k \in DOMAIN f : WithLog(f)[k] = f[k]
        /\ \A k \in DOMAIN WithLog(f) : k \notin DOMAIN f => WithLog(f)[k] = <<>>
    BY <1>1, <2>2, OpenedLog
  <2>4. FilesType' /\ BuffersInv' /\ FilesInv'
    <3>1. \A n \in Name : \A k \in DOMAIN disk'[n] :
                disk'[n][k] = <<>> \/ \E j \in DOMAIN disk[n] : disk'[n][k] = disk[n][j]
      BY <2>1, <2>3
    <3>2. \A n \in Name : IsLogOf(disk'[n], logged) /\ IsHistory(disk'[n])
      BY <2>1, <2>2, <2>3
    <3> HIDE DEF f
    <3> QED
      BY <2>1, <2>2, <3>1, <3>2, PiecesStep
  <2>5. \A n \in Name : \A k \in DOMAIN disk[n] :
            k \in DOMAIN disk'[n] /\ disk'[n][k] = disk[n][k]
    BY <2>1, <2>3
  <2>6. CriticalAreKept'
    BY <2>5 DEF LogInv, CriticalAreKept
  <2>7. MainInv'
    <3>1. 0 \in DOMAIN disk'[fileName]
      BY <1>1, <2>1, <2>3
    <3> QED
      BY <1>1, <3>1 DEF LogInv, MainInv
  <2> QED
    BY <1>2, <1>3, <2>4, <2>6, <2>7 DEF LogInv, LogType
<1> QED
  BY <1>4, <1>5

LEMMA RemoveBackupStep == ASSUME LogInv, RemoveBackup PROVE LogInv'
<1> USE LogAssumption DEF RemoveBackup, Goes, Logging, locks, ghosts, bounds
<1> DEFINE f == disk[fileName]  g == [k \in DOMAIN f \ {moving} |-> f[k]]
<1>1. /\ where \in [Logging -> Doing] /\ main \notin Writer /\ fileName \in Name
      /\ moving \in Nat /\ moving > 0 /\ 1 .. moving \subseteq DOMAIN f
  BY DEF LogInv, LogType, ThreadsType, FilesType, TooManyBackups, MainInv
<1>2. ThreadsType'
  BY <1>1 DEF LogInv, LogType, ThreadsType
<1>3. NumbersInv'
  BY NumbersStep
<1>4. /\ disk' = [n \in Name |-> disk'[n]]
      /\ \A n \in Name : disk'[n] = IF n = fileName THEN g ELSE disk[n]
  BY <1>1 DEF LogInv, LogType, FilesType
<1>5. /\ \A n \in Name : IsLogOf(disk[n], logged) /\ IsHistory(disk[n])
      /\ buffers \in [Logging -> Seq(logged)]
  BY DEF LogInv, LogType, FilesType, FilesInv
<1>6. IsLogOf(g, logged) /\ IsHistory(g)
  BY <1>1, <1>5, RemovedLog
<1>7. FilesType' /\ BuffersInv' /\ FilesInv'
  <2>1. \A n \in Name : \A k \in DOMAIN disk'[n] :
                disk'[n][k] = <<>> \/ \E j \in DOMAIN disk[n] : disk'[n][k] = disk[n][j]
    BY <1>4
  <2>2. \A n \in Name : IsLogOf(disk'[n], logged) /\ IsHistory(disk'[n])
    BY <1>4, <1>5, <1>6
  <2> HIDE DEF f, g
  <2> QED
    BY <1>4, <1>5, <2>1, <2>2, PiecesStep
<1>8. CriticalAreKept'
  <2>1. \A n \in Name : \A k \in DOMAIN disk[n] :
            \/ k \in DOMAIN disk'[n] /\ disk'[n][k] = disk[n][k]
            \/ Range(disk[n][k]) \subseteq removed'
    BY <1>4
  <2>2. removed \subseteq removed'
    OBVIOUS
  <2> HIDE DEF f, g
  <2> QED
    BY <2>1, <2>2 DEF LogInv, CriticalAreKept
<1>9. MainInv'
  <2>1. DOMAIN disk'[fileName] = DOMAIN f \ {moving}
    BY <1>1, <1>4
  <2>2. 1 .. moving - 1 \subseteq DOMAIN disk'[fileName]
    BY <1>1, <2>1
  <2> HIDE DEF f, g
  <2> QED
    BY <1>1, <2>2 DEF LogInv, MainInv
<1> QED
  BY <1>2, <1>3, <1>7, <1>8, <1>9 DEF LogInv, LogType

LEMMA MoveFileStep == ASSUME LogInv, MoveFile PROVE LogInv'
<1> USE LogAssumption DEF MoveFile, Goes, Logging, locks, ghosts, bounds
<1> DEFINE f == disk[fileName]  g == Renamed(f, moving, moving + 1)
<1>1. /\ where \in [Logging -> Doing] /\ main \notin Writer /\ fileName \in Name
      /\ moving \in Nat /\ ~ file /\ logMutex = main
      /\ maxBackups > 0 => moving < maxBackups
  BY DEF LogInv, LogType, ThreadsType, FilesType, MainInv
<1>2. ThreadsType'
  BY <1>1 DEF LogInv, LogType, ThreadsType, Doing
<1>3. NumbersInv'
  <2>1. \A t \in Writer : where'[t] = where[t] /\ message'[t] = message[t]
    BY <1>1
  <2> QED
    BY <2>1, NumbersStep
<1>4. /\ disk' = [n \in Name |-> disk'[n]]
      /\ \A n \in Name : disk'[n] = IF n = fileName THEN g ELSE disk[n]
  <2>1. disk = [n \in Name |-> disk[n]] /\ disk' = [disk EXCEPT ![fileName] = g]
    BY DEF LogInv, LogType, FilesType
  <2> HIDE DEF g
  <2> QED
    BY <1>1, <2>1
<1>5. /\ \A n \in Name : IsLogOf(disk[n], logged) /\ IsHistory(disk[n])
      /\ buffers \in [Logging -> Seq(logged)]
  BY DEF LogInv, LogType, FilesType, FilesInv
<1>6. IsLogOf(g, logged) /\ IsHistory(g) /\ SamePieces(f, g)
  BY <1>1, <1>5, RenamedLog
<1> HIDE DEF g
<1>7. FilesType' /\ BuffersInv' /\ FilesInv'
  <2>1. \A n \in Name : \A k \in DOMAIN disk'[n] :
                disk'[n][k] = <<>> \/ \E j \in DOMAIN disk[n] : disk'[n][k] = disk[n][j]
    BY <1>4, <1>6 DEF SamePieces
  <2>2. \A n \in Name : IsLogOf(disk'[n], logged) /\ IsHistory(disk'[n])
    BY <1>4, <1>5, <1>6
  <2> QED
    BY <1>4, <1>5, <2>1, <2>2, PiecesStep
<1>8. CriticalAreKept'
  <2>1. \A n \in Name : \A j \in DOMAIN disk[n] :
            \E k \in DOMAIN disk'[n] : disk'[n][k] = disk[n][j]
    BY <1>4, <1>6 DEF SamePieces
  <2> QED
    BY <2>1 DEF LogInv, CriticalAreKept
<1>9. MainInv'
  BY <1>1 DEF MainInv
<1> QED
  BY <1>2, <1>3, <1>7, <1>8, <1>9 DEF LogInv, LogType

\* The log gets what was not flushed.
LEMMA FlushedLog ==
    ASSUME LogInv, file, UNCHANGED <<buffers, logged, console, removed>>,
           disk' = OnDisk(unflushed), unflushed' = <<>>, fileName' \in Name
    PROVE  /\ FilesType' /\ BuffersInv' /\ FilesInv' /\ CriticalAreKept'
           /\ \A n \in Name : DOMAIN disk'[n] = DOMAIN disk[n]
<1>1. /\ unflushed \in Seq(logged) /\ InOrder(unflushed) /\ fileName \in Name
      /\ \A k \in DOMAIN disk[fileName] : Precedes(disk[fileName][k], unflushed)
      /\ buffers \in [Logging -> Seq(logged)]
  BY DEF LogInv, LogType, FilesType, FilesInv
<1>2. /\ disk' = [n \in Name |-> disk'[n]]
      /\ \A n \in Name : DOMAIN disk'[n] = DOMAIN disk[n]
      /\ \A n \in Name : IsLogOf(disk'[n], logged) /\ IsHistory(disk'[n])
      /\ \A n \in Name : \A q \in Seq(logged) :
            (\A k \in DOMAIN disk[n] : Precedes(disk[n][k], q)) /\ Precedes(unflushed, q)
                => \A k \in DOMAIN disk'[n] : Precedes(disk'[n][k], q)
      /\ \A n \in Name : \A k \in DOMAIN disk[n] : Range(disk[n][k]) \subseteq Range(disk'[n][k])
  <2> DEFINE d == OnDisk(unflushed)
  <2>1. disk' = d /\ d = OnDisk(unflushed) /\ logged \subseteq logged
    OBVIOUS
  <2> HIDE DEF d
  <2>2. IsAppended(d, unflushed, logged)
    BY <1>1, <2>1, AppendedLog
  <2> QED
    BY <2>1, <2>2 DEF IsAppended
<1>3. /\ InOrder(<<>>) /\ <<>> \in Seq(logged)
      /\ \A s : Precedes(<<>>, s) /\ Precedes(s, <<>>)
  BY DEF InOrder, Precedes
<1>4. FilesType'
  BY <1>1, <1>2, <1>3 DEF LogInv, LogType, FilesType, IsLogOf
<1>5. BuffersInv'
  <2> SUFFICES ASSUME NEW t \in Writer
               PROVE  /\ InOrder(buffers[t])
                      /\ \A i \in DOMAIN buffers[t] : buffers[t][i].by = t
                      /\ Precedes(<<>>, buffers[t])
                      /\ \A n \in Name : \A k \in DOMAIN disk'[n] :
                            Precedes(disk'[n][k], buffers[t])
    BY DEF BuffersInv
  <2>1. buffers[t] \in Seq(logged)
    BY <1>1 DEF Logging
  <2> QED
    BY <1>2, <1>3, <2>1 DEF LogInv, BuffersInv
<1>6. FilesInv'
  BY <1>2, <1>3 DEF FilesInv
<1>7. CriticalAreKept'
  <2>1. \A n \in Name : \A k \in DOMAIN disk[n] :
            k \in DOMAIN disk'[n] /\ Range(disk[n][k]) \subseteq Range(disk'[n][k])
    BY <1>2
  <2> QED
    BY <2>1 DEF LogInv, CriticalAreKept
<1> QED
  BY <1>2, <1>4, <1>5, <1>6, <1>7

\* rotate() finds the backups that follow one another from 1 on.
LEMMA CountedBackups ==
    ASSUME LogInv
    PROVE  Count \in Nat /\ 1 .. Count \subseteq Backups
<1>1. DOMAIN disk[fileName] \subseteq Nat /\ IsFiniteSet(DOMAIN disk[fileName])
  BY DEF LogInv, LogType, FilesType, IsLogOf
<1>2. IsFiniteSet(Backups) /\ Backups \subseteq Nat
  BY <1>1, FS_RemoveElement DEF Backups
<1>3. Cardinality(Backups) \in Nat
  BY <1>2, FS_CardinalityType
<1> DEFINE Free == {c \in 0 .. Cardinality(Backups) : c + 1 \notin Backups}
<1>4. Free # {}
  <2> SUFFICES ASSUME Free = {} PROVE FALSE
    OBVIOUS
  <2>1. 1 .. Cardinality(Backups) + 1 \in SUBSET Backups
    <3> SUFFICES ASSUME NEW k \in 1 .. Cardinality(Backups) + 1 PROVE k \in Backups
      OBVIOUS
    <3>1. k - 1 \in 0 .. Cardinality(Backups) /\ k - 1 + 1 = k
      BY <1>3
    <3> QED
      BY <3>1
  <2>2. Cardinality(1 .. Cardinality(Backups) + 1) <= Cardinality(Backups)
    BY <1>2, <2>1, FS_Subset
  <2>3. Cardinality(1 .. Cardinality(Backups) + 1) = Cardinality(Backups) + 1
    BY <1>3, FS_Interval
  <2> QED
    BY <1>3, <2>2, <2>3
<1>5. PICK c \in Free : \A e \in Free : c <= e
  <2>1. Free \subseteq Nat
    BY <1>3
  <2> HIDE DEF Free
  <2> QED
    BY <1>4, <2>1, LeastElement
<1>6. c \in 0 .. Cardinality(Backups) /\ c + 1 \notin Backups
  OBVIOUS
<1>7. 1 .. c \subseteq Backups
  <2> SUFFICES ASSUME NEW k \in 1 .. c PROVE k \in Backups
    OBVIOUS
  <2>1. k - 1 \in 0 .. Cardinality(Backups) /\ ~ (c <= k - 1) /\ k - 1 + 1 = k
    BY <1>3, <1>6
  <2>2. k - 1 \notin Free
    BY <1>5, <2>1
  <2> QED
    BY <2>1, <2>2
<1>8. Count \in 0 .. Cardinality(Backups) /\ 1 .. Count \subseteq Backups
  BY <1>6, <1>7 DEF Count
<1> QED
  BY <1>3, <1>8

LEMMA FlushStep == ASSUME LogInv, Flush PROVE LogInv'
<1> USE LogAssumption DEF Flush, Goes, Logging, ghosts, bounds
<1>1. /\ where \in [Logging -> Doing] /\ main \notin Writer /\ fileName \in Name
      /\ file /\ logMutex = Nobody /\ moving \in Nat /\ 0 \in DOMAIN disk[fileName]
  BY DEF LogInv, LogType, ThreadsType, FilesType, MainInv
<1>2. /\ FilesType' /\ BuffersInv' /\ FilesInv' /\ CriticalAreKept'
      /\ \A n \in Name : DOMAIN disk'[n] = DOMAIN disk[n]
  BY <1>1, FlushedLog
<1>3. Count \in Nat /\ 1 .. Count \subseteq DOMAIN disk[fileName]
  BY CountedBackups DEF Backups
<1>4. NumbersInv'
  <2>1. \A t \in Writer : where'[t] = where[t] /\ message'[t] = message[t]
    BY <1>1
  <2> QED
    BY <2>1, NumbersStep
<1>5. CASE logMutex' = main /\ file' = FALSE /\ moving' = Count /\ Goes(main, "removes")
  <2>1. ThreadsType'
    BY <1>1, <1>3, <1>5 DEF LogInv, LogType, ThreadsType, Doing
  <2>2. MainInv'
    <3>1. 1 .. moving' \subseteq DOMAIN disk'[fileName]
      BY <1>1, <1>2, <1>3, <1>5
    <3> QED
      BY <1>1, <1>5, <3>1 DEF MainInv
  <2> QED
    BY <1>2, <1>4, <2>1, <2>2 DEF LogInv, LogType
<1>6. CASE Goes(main, "idle") /\ UNCHANGED <<logMutex, file, moving>>
  <2>1. ThreadsType'
    BY <1>1, <1>6 DEF LogInv, LogType, ThreadsType, Doing
  <2>2. MainInv'
    BY <1>1, <1>2, <1>6 DEF MainInv
  <2> QED
    BY <1>2, <1>4, <2>1, <2>2 DEF LogInv, LogType
<1> QED
  BY <1>5, <1>6

LEMMA RefreshStep == ASSUME LogInv, refreshSettings PROVE LogInv'
<1> USE LogAssumption DEF refreshSettings, Goes, Logging, ghosts
<1>1. /\ where \in [Logging -> Doing] /\ main \notin Writer /\ fileName' \in Name
      /\ logMutex = Nobody /\ file \in BOOLEAN
  BY DEF LogInv, LogType, ThreadsType
<1>2. ThreadsType' /\ MainInv'
  BY <1>1 DEF LogInv, LogType, ThreadsType, MainInv, Doing
<1>3. NumbersInv'
  <2>1. \A t \in Writer : where'[t] = where[t] /\ message'[t] = message[t]
    BY <1>1
  <2> QED
    BY <2>1, NumbersStep
<1>4. CASE file
  BY <1>1, <1>2, <1>3, <1>4, FlushedLog DEF LogInv, LogType
<1>5. CASE ~ file
  <2>1. disk' = disk
    BY <1>5
  <2>2. /\ InOrder(<<>>) /\ <<>> \in Seq(logged)
        /\ \A s : Precedes(<<>>, s) /\ Precedes(s, <<>>)
    BY DEF InOrder, Precedes
  <2>3. FilesType'
    BY <1>1, <2>1, <2>2 DEF LogInv, LogType, FilesType, IsLogOf
  <2>4. BuffersInv' /\ FilesInv' /\ CriticalAreKept'
    BY <2>1, <2>2 DEF LogInv, BuffersInv, FilesInv, CriticalAreKept
  <2> QED
    BY <1>2, <1>3, <2>3, <2>4 DEF LogInv, LogType
<1> QED
  BY <1>1, <1>4, <1>5

LEMMA CrashStep == ASSUME LogInv, Crash PROVE LogInv'
<1> USE LogAssumption DEF Crash, Logging, ghosts
<1> DEFINE f == disk[fileName]
<1>1. /\ fileName \in Name /\ buffers \in [Logging -> Seq(logged)]
      /\ disk = [n \in Name |-> disk[n]]
      /\ \A n \in Name : IsLogOf(disk[n], logged) /\ IsHistory(disk[n])
  BY DEF LogInv, LogType, FilesType, FilesInv
<1>2. ThreadsType'
  <2>1. NoMessage \in [by : Logging \cup {Nobody}, number : Nat, level : Nat]
    BY DEF NoMessage
  <2> QED
    BY <2>1 DEF ThreadsType, Doing
<1>3. NumbersInv'
  BY NumbersStep
<1>4. /\ IsLogOf(WithLog(f), logged) /\ IsHistory(WithLog(f))
      /\ DOMAIN WithLog(f) = DOMAIN f \cup {0}
      /\ \A k \in DOMAIN f : WithLog(f)[k] = f[k]
      /\ \A k \in DOMAIN WithLog(f) : k \notin DOMAIN f => WithLog(f)[k] = <<>>
  BY <1>1, OpenedLog
<1>5. /\ disk' = [n \in Name |-> disk'[n]]
      /\ \A n \in Name : disk'[n] = IF file' /\ n = fileName THEN WithLog(f) ELSE disk[n]
  BY <1>1 DEF Opened
<1>6. FilesType' /\ BuffersInv' /\ FilesInv'
  <2>1. \A n \in Name : \A k \in DOMAIN disk'[n] :
                disk'[n][k] = <<>> \/ \E j \in DOMAIN disk[n] : disk'[n][k] = disk[n][j]
    BY <1>4, <1>5
  <2>2. \A n \in Name : IsLogOf(disk'[n], logged) /\ IsHistory(disk'[n])
    BY <1>1, <1>4, <1>5
  <2>3. buffers' \in [Logging -> Seq(logged)] /\ \A t \in Writer : buffers'[t] = <<>>
    <3>1. <<>> \in Seq(logged)
      OBVIOUS
    <3> QED
      BY <3>1
  <2>4. UNCHANGED <<fileName, logged>> /\ unflushed' = <<>>
    OBVIOUS
  <2> HIDE DEF f, Crash
  <2> QED
    BY <1>5, <2>1, <2>2, <2>3, <2>4, PiecesStep
<1>7. CriticalAreKept'
  <2>1. \A n \in Name : \A k \in DOMAIN disk[n] :
            k \in DOMAIN disk'[n] /\ disk'[n][k] = disk[n][k]
    BY <1>4, <1>5
  <2> QED
    BY <2>1 DEF LogInv, CriticalAreKept
<1>8. MainInv'
  <2>1. file' => 0 \in DOMAIN disk'[fileName]
    BY <1>1, <1>4, <1>5
  <2> QED
    BY <2>1 DEF MainInv
<1> QED
  BY <1>2, <1>3, <1>6, <1>7, <1>8 DEF LogInv, LogType

(***************************************************************************)
(* log().                                                                  *)
(***************************************************************************)

\* The log and what is not flushed after a write of s, of which nothing is in M yet.
IsWritten(s, M) ==
    /\ disk' = [n \in Name |-> disk'[n]]
    /\ \A n \in Name : DOMAIN disk'[n] = DOMAIN disk[n]
    /\ \A n \in Name : IsLogOf(disk'[n], M) /\ IsHistory(disk'[n])
    /\ unflushed' \in Seq(M) /\ InOrder(unflushed')
    /\ \A k \in DOMAIN disk'[fileName] : Precedes(disk'[fileName][k], unflushed')
    /\ \A q \in Seq(M) :
            /\ Precedes(unflushed, q) /\ Precedes(s, q)
            /\ \A n \in Name : \A k \in DOMAIN disk[n] : Precedes(disk[n][k], q)
            => /\ Precedes(unflushed', q)
               /\ \A n \in Name : \A k \in DOMAIN disk'[n] : Precedes(disk'[n][k], q)
    /\ \A n \in Name : \A k \in DOMAIN disk[n] : Range(disk[n][k]) \subseteq Range(disk'[n][k])
    /\ \/ Range(s) \subseteq console'
       \/ ~ Flushes(s)
       \/ \E n \in Name : \E k \in DOMAIN disk'[n] : Range(s) \subseteq Range(disk'[n][k])
    /\ console \subseteq console'
    /\ file' \in BOOLEAN /\ (file' => file)

LEMMA LogsOfMore ==
    ASSUME NEW f, NEW M, NEW L, M \subseteq L, IsLogOf(f, M)
    PROVE  IsLogOf(f, L) /\ \A k \in DOMAIN f : f[k] \in Seq(M) /\ f[k] \in Seq(L)
<1>1. \A s \in Seq(M) : s \in Seq(L)
  OBVIOUS
<1> QED
  BY <1>1 DEF IsLogOf

LEMMA WritesOutStep ==
    ASSUME LogInv, NEW M, logged \subseteq M, NEW t \in Writer, NEW s, IsNext(s, t, M),
           WritesOut(s)
    PROVE  IsWritten(s, M)
<1> DEFINE u == unflushed \o s
<1>1. /\ s \in Seq(M) /\ InOrder(s) /\ Precedes(unflushed, s)
      /\ \A n \in Name : \A k \in DOMAIN disk[n] : Precedes(disk[n][k], s)
  BY DEF IsNext
<1>2. /\ unflushed \in Seq(M) /\ InOrder(unflushed) /\ fileName \in Name
      /\ \A k \in DOMAIN disk[fileName] : Precedes(disk[fileName][k], unflushed)
      /\ disk = [n \in Name |-> disk[n]]
      /\ file \in BOOLEAN
  BY DEF LogInv, LogType, FilesType, ThreadsType, FilesInv
<1>3. /\ \A n \in Name : IsLogOf(disk[n], M) /\ IsHistory(disk[n])
      /\ \A n \in Name : \A k \in DOMAIN disk[n] : disk[n][k] \in Seq(M)
  BY LogsOfMore DEF LogInv, LogType, FilesType, FilesInv
<1>4. u \in Seq(M) /\ InOrder(u)
  BY <1>1, <1>2, ConcatInOrder
<1>5. \A q \in Seq(M) : Precedes(unflushed, q) /\ Precedes(s, q) => Precedes(u, q)
  BY <1>1, <1>2, ConcatPrecedes
<1>6. \A k \in DOMAIN disk[fileName] : Precedes(disk[fileName][k], u)
  BY <1>1, <1>2, <1>3, ConcatPrecedes
<1>7. Range(s) \subseteq Range(u)
  <2>1. \A i \in DOMAIN s : Len(unflushed) + i \in DOMAIN u /\ u[Len(unflushed) + i] = s[i]
    BY <1>1, <1>2
  <2> HIDE DEF u
  <2> QED
    BY <2>1 DEF Range
<1>8. InOrder(<<>>) /\ <<>> \in Seq(M) /\ \A q : Precedes(<<>>, q) /\ Precedes(q, <<>>)
  BY DEF InOrder, Precedes
<1> HIDE DEF u
<1>9. CASE file /\ Flushes(s) /\ disk' = OnDisk(u) /\ unflushed' = <<>>
                /\ UNCHANGED <<file, console>>
  <2> DEFINE d == OnDisk(u)
  <2>1. disk' = d /\ d = OnDisk(u)
    BY <1>9
  <2> HIDE DEF d
  <2>2. IsAppended(d, u, M)
    BY <1>4, <1>6, <1>9, <2>1, AppendedLog
  <2>3. \E n \in Name : \E k \in DOMAIN d[n] : Range(s) \subseteq Range(d[n][k])
    BY <1>2, <1>7, <2>2 DEF IsAppended
  <2>4. \A q \in Seq(M) :
            /\ Precedes(unflushed, q) /\ Precedes(s, q)
            /\ \A n \in Name : \A k \in DOMAIN disk[n] : Precedes(disk[n][k], q)
            => \A n \in Name : \A k \in DOMAIN d[n] : Precedes(d[n][k], q)
    BY <1>5, <2>2 DEF IsAppended
  <2> QED
    BY <1>2, <1>8, <1>9, <2>1, <2>2, <2>3, <2>4 DEF IsWritten, IsAppended
<1>10. CASE file /\ ~ Flushes(s) /\ unflushed' = u /\ UNCHANGED <<disk, file, console>>
  BY <1>2, <1>3, <1>4, <1>5, <1>6, <1>10 DEF IsWritten
<1>11. CASE file' = FALSE /\ unflushed' = <<>> /\ console' = console \cup Range(s)
                 /\ UNCHANGED disk
  BY <1>2, <1>3, <1>8, <1>11 DEF IsWritten
<1> QED
  BY <1>9, <1>10, <1>11 DEF WritesOut, u

LEMMA LogStep == ASSUME LogInv, NEW t \in Logging, log(t) PROVE LogInv'
<1> USE LogAssumption DEF log, Goes, Logging, bounds
<1> DEFINE m == message[t]  M == logged \cup {m}
<1>1. /\ where \in [Logging -> Doing] /\ main \notin Writer /\ Nobody \notin Logging
      /\ where[t] = "logs" /\ logMutex = Nobody
      /\ message \in [Logging -> [by : Logging \cup {Nobody}, number : Nat, level : Nat]]
  BY DEF LogInv, LogType, ThreadsType
<1>2. t \in Writer /\ t # main
  BY <1>1 DEF LogInv, MainInv
<1>3. /\ m.by = t /\ m.number = NumberOf(t) /\ m \in [by : Writer, number : Nat, level : Nat]
      /\ \A x \in logged : x.number < NumberOf(x.by)
  <2>1. m \in [by : Logging \cup {Nobody}, number : Nat, level : Nat]
    BY <1>1
  <2>2. m.by = t /\ m.number = NumberOf(t) /\ \A x \in logged : x.number < NumberOf(x.by)
    BY <1>1, <1>2 DEF LogInv, NumbersInv
  <2> HIDE DEF m
  <2> QED
    BY <1>2, <2>1, <2>2
<1>4. /\ logged \subseteq [by : Writer, number : Nat, level : Nat] /\ IsFiniteSet(logged)
      /\ buffers \in [Logging -> Seq(logged)] /\ fileName \in Name
  BY DEF LogInv, LogType, FilesType
<1>5. /\ IsNext(Due(t), t, M) /\ IsNext(<<>>, t, M) /\ IsNext(BufferWith(t), t, M)
      /\ m.level >= minLevel => \E i \in DOMAIN Due(t) : Due(t)[i] = m
  BY <1>1, <1>2, BufferIsNext, DueIsNext
<1>6. logged \subseteq M /\ logged' = M /\ m \in M
  BY DEF M
<1>7. IsWritten(Due(t), M)
  <2> HIDE DEF M
  <2> QED
    BY <1>2, <1>5, <1>6, WritesOutStep
<1>8. ThreadsType'
  <2>1. NoMessage \in [by : Logging \cup {Nobody}, number : Nat, level : Nat]
    BY DEF NoMessage
  <2>2. file' \in BOOLEAN
    BY <1>7 DEF IsWritten
  <2> QED
    BY <1>1, <2>1, <2>2 DEF LogInv, LogType, ThreadsType, Doing
<1>9. MainInv'
  <2>1. where'[main] = where[main] /\ moving' = moving /\ fileName' = fileName
        /\ logMutex' = logMutex
    BY <1>1, <1>2
  <2>2. (file' => file) /\ DOMAIN disk'[fileName] = DOMAIN disk[fileName]
    BY <1>4, <1>7 DEF IsWritten
  <2> QED
    BY <2>1, <2>2 DEF LogInv, MainInv
<1>10. NumbersInv'
  <2> DEFINE Of(r) == {x \in logged : x.by = r}
             Now(r) == {x \in logged' : x.by = r}
  <2>1. m \notin logged
    BY <1>2, <1>3, <1>4
  <2>2. \A r \in Writer \ {t} : Now(r) = Of(r)
    BY <1>3, <1>6
  <2>3. Now(t) = Of(t) \cup {m} /\ m \notin Of(t)
    BY <1>3, <1>6, <2>1
  <2>4. IsFiniteSet(Of(t))
    <3>1. Of(t) \in SUBSET logged
      OBVIOUS
    <3> QED
      BY <1>4, <3>1, FS_Subset
  <2>5. Cardinality(Of(t)) \in Nat /\ Cardinality(Now(t)) = Cardinality(Of(t)) + 1
    <3> HIDE DEF Of, Now, m
    <3> QED
      BY <2>3, <2>4, FS_AddElement, FS_CardinalityType
  <2>6. \A r : NumberOf(r) = 1 + Cardinality(Of(r)) /\ NumberOf(r)' = 1 + Cardinality(Now(r))
    BY DEF NumberOf
  <2> HIDE DEF Of, Now
  <2>7. /\ NumberOf(t)' = NumberOf(t) + 1 /\ NumberOf(t) \in Nat
        /\ \A r \in Writer \ {t} : NumberOf(r)' = NumberOf(r)
    BY <2>2, <2>5, <2>6
  <2>8. ASSUME NEW x \in logged' PROVE x.number < NumberOf(x.by)'
    <3>1. CASE x = m
      BY <1>3, <2>7, <3>1
    <3>2. CASE x \in logged /\ x.by = t
      BY <1>3, <1>4, <2>7, <3>2
    <3>3. CASE x \in logged /\ x.by # t
      BY <1>3, <1>4, <2>7, <3>3
    <3> QED
      BY <1>6, <3>1, <3>2, <3>3
  <2>9. ASSUME NEW r \in Writer, where'[r] = "logs"
        PROVE  message'[r].by = r /\ message'[r].number = NumberOf(r)'
    <3>1. r # t
      BY <1>1, <2>9
    <3>2. where[r] = "logs" /\ message'[r] = message[r]
      BY <1>1, <2>9, <3>1
    <3> QED
      BY <2>7, <3>1, <3>2 DEF LogInv, NumbersInv
  <2> QED
    BY <2>8, <2>9 DEF NumbersInv
<1>11. /\ buffers' \in [Logging -> Seq(M)]
       /\ \A r \in Writer : r # t => buffers'[r] = buffers[r] /\ buffers[r] \in Seq(M)
       /\ buffers'[t] = <<>> \/ (Due(t) = <<>> /\ buffers'[t] = BufferWith(t))
  <2>1. \A r \in Logging : buffers[r] \in Seq(M)
    <3>1. \A q \in Seq(logged) : q \in Seq(M)
      BY <1>6
    <3> QED
      BY <1>4, <3>1
  <2>2. BufferWith(t) \in Seq(M) /\ <<>> \in Seq(M)
    BY <1>5 DEF IsNext
  <2> HIDE DEF M
  <2>3. m.level \in Nat /\ minLevel \in Nat
    BY <1>3
  <2>4. ~ (m.level >= minLevel) => Due(t) = <<>>
    BY <2>3 DEF Due
  <2> HIDE DEF m
  <2>5. buffers' = [buffers EXCEPT ![t] =
                IF bufferSize = 0 \/ m.level >= minLevel THEN <<>> ELSE BufferWith(t)]
    BY DEF m
  <2> HIDE DEF log
  <2>6. buffers' \in [Logging -> Seq(M)]
    BY <1>4, <2>1, <2>2, <2>5
  <2>7. buffers'[t] = <<>> \/ (Due(t) = <<>> /\ buffers'[t] = BufferWith(t))
    BY <1>4, <2>4, <2>5
  <2> QED
    BY <1>4, <2>1, <2>5, <2>6, <2>7
<1>12. FilesType'
  <2>1. M \subseteq [by : Writer, number : Nat, level : Nat] /\ IsFiniteSet(M)
    <3> HIDE DEF m
    <3> QED
      BY <1>3, <1>4, FS_AddElement
  <2>2. fileName' \in Name
    BY <1>4
  <2> HIDE DEF M, log
  <2> QED
    BY <1>6, <1>7, <1>11, <2>1, <2>2 DEF FilesType, IsWritten
<1>13. BuffersInv'
  <2> HIDE DEF M, m
  <2> SUFFICES ASSUME NEW r \in Writer
               PROVE  /\ InOrder(buffers'[r])
                      /\ \A i \in DOMAIN buffers'[r] : buffers'[r][i].by = r
                      /\ Precedes(unflushed', buffers'[r])
                      /\ \A n \in Name : \A k \in DOMAIN disk'[n] :
                            Precedes(disk'[n][k], buffers'[r])
    BY DEF BuffersInv
  <2> DEFINE q == buffers'[r]
  <2> HIDE DEF log
  <2>1. CASE r # t
    <3>1. /\ q = buffers[r] /\ InOrder(q) /\ (\A i \in DOMAIN q : q[i].by = r)
          /\ Precedes(unflushed, q) /\ q \in Seq(M)
          /\ \A n \in Name : \A k \in DOMAIN disk[n] : Precedes(disk[n][k], q)
      BY <1>11, <2>1 DEF LogInv, BuffersInv
    <3> HIDE DEF q
    <3>2. Precedes(Due(t), q)
      BY <1>5, <2>1, <3>1 DEF IsNext, Precedes
    <3> QED
      BY <1>7, <3>1, <3>2 DEF IsWritten, q
  <2>2. CASE r = t
    <3>1. IsNext(q, t, M) /\ Precedes(Due(t), q)
      <4>1. \A s : Precedes(<<>>, s) /\ Precedes(s, <<>>)
        BY DEF Precedes
      <4> QED
        BY <1>5, <1>11, <2>2, <4>1
    <3> HIDE DEF q
    <3> QED
      BY <1>7, <2>2, <3>1 DEF IsWritten, IsNext, q
  <2> QED
    BY <2>1, <2>2
<1>14. FilesInv'
  BY <1>7 DEF FilesInv, IsWritten
<1>15. CriticalAreKept'
  <2> SUFFICES ASSUME NEW x \in logged', x.level >= Critical, x.level >= minLevel
               PROVE  \/ x \in console' \cup removed'
                      \/ \E n \in Name : \E k \in DOMAIN disk'[n] : x \in Range(disk'[n][k])
    BY DEF CriticalAreKept
  <2>1. CASE x \in logged
    <3>1. \/ x \in console \cup removed
          \/ \E n \in Name : \E k \in DOMAIN disk[n] : x \in Range(disk[n][k])
      BY <2>1 DEF LogInv, CriticalAreKept
    <3>2. /\ console \subseteq console' /\ removed' = removed
          /\ \A n \in Name : DOMAIN disk'[n] = DOMAIN disk[n]
          /\ \A n \in Name : \A k \in DOMAIN disk[n] :
                Range(disk[n][k]) \subseteq Range(disk'[n][k])
      BY <1>7 DEF IsWritten
    <3> HIDE DEF log
    <3> QED
      BY <3>1, <3>2
  <2>2. CASE x = m
    <3>1. PICK i \in DOMAIN Due(t) : Due(t)[i] = m
      BY <1>5, <2>2
    <3>2. Due(t) \in Seq(M)
      BY <1>5 DEF IsNext
    <3> HIDE DEF log, m, M
    <3>3. Flushes(Due(t)) /\ m \in Range(Due(t))
      BY <2>2, <3>1, <3>2 DEF Flushes, Range
    <3> QED
      BY <1>7, <2>2, <3>3 DEF IsWritten
  <2> QED
    BY <1>6, <2>1, <2>2
<1> QED
  BY <1>8, <1>9, <1>10, <1>12, <1>13, <1>14, <1>15 DEF LogInv, LogType

(***************************************************************************)
(* The theorems.                                                           *)
(***************************************************************************)
LEMMA LogNextInv == LogInv /\ [LogNext]_logVars => LogInv'
<1> SUFFICES ASSUME LogInv, [LogNext]_logVars PROVE LogInv'
  OBVIOUS
<1>1. CASE \E t \in Writer : msgHandler(t)
  BY <1>1, MsgHandlerStep
<1>2. CASE \E t \in Logging : log(t)
  BY <1>2, LogStep
<1>3. CASE open \/ qWarning
  BY <1>3, OpenStep, QWarningStep
<1>4. CASE RemoveBackup \/ MoveFile
  BY <1>4, RemoveBackupStep, MoveFileStep
<1>5. CASE BeginMoving \/ flushTimer
  BY <1>5, MainWaitsStep
<1>6. CASE Flush \/ refreshSettings \/ Crash
  BY <1>6, FlushStep, RefreshStep, CrashStep
<1>7. CASE UNCHANGED logVars
  <2>1. UNCHANGED <<buffers, fileName, unflushed, disk, console, logged, removed>>
        /\ UNCHANGED <<where, message, file, moving, logMutex>>
    BY <1>7 DEF logVars, locks, ghosts
  <2>2. ThreadsType' /\ MainInv' /\ NumbersInv'
    BY <2>1 DEF LogInv, LogType, ThreadsType, MainInv, NumbersInv, NumberOf
  <2> QED
    BY <2>1, <2>2, QuietStep DEF LogInv, LogType
<1> QED
  BY <1>1, <1>2, <1>3, <1>4, <1>5, <1>6, <1>7 DEF LogNext

LEMMA LogInvInvariant == LogSpec => []LogInv
BY LogInitInv, LogNextInv, PTL DEF LogSpec

\* The invariant bounds the backups by their numbers.
LEMMA LogInvIsInOrder == LogInv => LogIsInOrder
<1> SUFFICES ASSUME LogInv PROVE LogIsInOrder
  OBVIOUS
<1>1. ASSUME NEW n \in Name, maxBackups > 0
      PROVE  Cardinality(DOMAIN disk[n] \ {0}) <= maxBackups
  <2>1. maxBackups \in Nat /\ DOMAIN disk[n] \subseteq 0 .. maxBackups
    BY <1>1, LogAssumption DEF LogInv, LogType, FilesType, IsLogOf
  <2>2. DOMAIN disk[n] \ {0} \in SUBSET (1 .. maxBackups)
    BY <2>1
  <2>3. IsFiniteSet(1 .. maxBackups) /\ Cardinality(1 .. maxBackups) = maxBackups
    BY <2>1, FS_Interval
  <2> QED
    BY <2>2, <2>3, FS_Subset
<1> QED
  BY <1>1 DEF LogInv, FilesInv, LogIsInOrder

(* However the threads, the timers and crashes interleave, the backups, the*)
(* log and what is not flushed stay in the order in which every thread     *)
(* logged, without a message twice, and no more backups are kept than      *)
(* configured (FileLogger::rotate, Logger::log).                           *)
THEOREM LogsAreInOrder == LogSpec => []LogIsInOrder
BY LogInvInvariant, LogInvIsInOrder, PTL

(* A critical message that is printed survives any crash after its log()   *)
(* returned, unless its backup was removed (FileLogger::write).            *)
THEOREM CriticalMessagesAreKept == LogSpec => []CriticalAreKept
<1>1. LogInv => CriticalAreKept
  BY DEF LogInv
<1> QED
  BY <1>1, LogInvInvariant, PTL

--------------------------------------------------------------------------------
\* The words with a meaning.
Marks == {"space", "=", "semicolon", "quote", "&", "+", "%"}
Digits == {"20", "3D", "3B", "22", "26", "2B", "25"}

\* The escapes of the words with a meaning.
LEMMA HexFacts ==
    /\ DOMAIN Hex = Marks
    /\ \A b \in Marks : Hex[b] \in Digits /\ ByteOf(Hex[b]) = b
    /\ \A c : IsHex(c) <=> c \in Digits
    /\ \A c \in Digits : ByteOf(c) \in Marks /\ c # "%" /\ c # "+"
<1>1. DOMAIN Hex = Marks
  BY DEF Hex, Marks
<1>2. /\ Hex["space"] = "20" /\ Hex["="] = "3D" /\ Hex["semicolon"] = "3B" /\ Hex["quote"] = "22"
      /\ Hex["&"] = "26" /\ Hex["+"] = "2B" /\ Hex["%"] = "25"
  BY DEF Hex
<1>3. \A b \in Marks : Hex[b] \in Digits
  BY <1>2 DEF Marks, Digits
<1>4. \A b, d \in Marks : Hex[b] = Hex[d] => b = d
  BY <1>2 DEF Marks
<1>5. \A b \in Marks : ByteOf(Hex[b]) = b
  BY <1>1, <1>4 DEF ByteOf
<1>6. \A c \in Digits : \E b \in Marks : Hex[b] = c
  BY <1>2 DEF Marks, Digits
<1>7. \A c : IsHex(c) <=> c \in Digits
  BY <1>1, <1>3, <1>6 DEF IsHex
<1>8. \A c \in Digits : ByteOf(c) \in Marks
  BY <1>1, <1>6 DEF ByteOf
<1>9. \A c \in Digits : c # "%" /\ c # "+"
  BY DEF Digits
<1> QED
  BY <1>1, <1>3, <1>5, <1>7, <1>8, <1>9

\* The bytes of a text are words that include those with a meaning, and escapes.
Alphabet(D) == Marks \cup Digits \subseteq D

\* What urlDecode has found so far.
DecodeOf(source) == FoldLeft(DecodeByte, [text |-> <<>>, open |-> FALSE], source)

\* urlDecode, byte by byte.
LEMMA DecodeSteps ==
    ASSUME NEW D, Alphabet(D)
    PROVE  /\ DecodeOf(<<>>) = [text |-> <<>>, open |-> FALSE]
           /\ \A s \in Seq(D), c \in D : DecodeOf(Append(s, c)) = DecodeByte(DecodeOf(s), c)
<1> DEFINE S == [text : Seq(D), open : BOOLEAN]
           step == [x \in S \X D |-> DecodeByte(x[1], x[2])]
           base == [text |-> <<>>, open |-> FALSE]
<1>1. ASSUME NEW v \in S, NEW c \in D
      PROVE  DecodeByte(v, c) \in S
  <2>1. v.text \in Seq(D) /\ v.open \in BOOLEAN
    OBVIOUS
  <2>2. Front(v.text) \in Seq(D) \/ v.text = <<>>
    BY <2>1 DEF Front
  <2>3. v.text = <<>> => Front(v.text) = <<>>
    BY DEF Front
  <2>4. Decoded(c, v.open /\ IsHex(c)) \in D
    BY HexFacts DEF Decoded, Marks, Alphabet
  <2> QED
    BY <2>1, <2>2, <2>3, <2>4 DEF DecodeByte
<1>2. IsStep(step, S, D)
  BY <1>1 DEF IsStep
<1>3. \A v \in S, c \in D : step[<<v, c>>] = DecodeByte(v, c)
  OBVIOUS
<1>4. base \in S
  OBVIOUS
<1> HIDE DEF S, step, base
<1>5. ASSUME NEW s \in Seq(D)
      PROVE  DecodeOf(s) = Iterated(step, base, s)
  <2> DEFINE IsFold(it) == it = [T \in SUBSET DOMAIN s |->
                               IF T = {} THEN base ELSE DecodeByte(it[T \ {Max(T)}], s[Max(T)])]
             it == CHOOSE f : IsFold(f)
  <2>1. DecodeOf(s) = it[DOMAIN s]
    BY Zenon DEF DecodeOf, FoldLeft, MapThenFoldSet, base
  <2>2. PICK f \in [SUBSET DOMAIN s -> S] : Folding(f, s, base, step)
    BY <1>2, <1>4, FoldingExists
  <2>3. IsFold(f)
    <3>1. ASSUME NEW T \in SUBSET DOMAIN s, T # {}
          PROVE  s[Max(T)] \in D /\ f[T \ {Max(T)}] \in S
      BY <2>2, <3>1, LastPlace
    <3> QED
      BY <1>3, <2>2, <3>1 DEF Folding
  <2> HIDE DEF IsFold
  <2>4. IsFold(it)
    BY <2>3
  <2> HIDE DEF it
  <2>5. Follows(it, s, base, step, S)
    <3>1. \A T \in SUBSET DOMAIN s : it[T] = IF T = {} THEN base ELSE DecodeByte(it[T \ {Max(T)}], s[Max(T)])
      BY <2>4, Zenon DEF IsFold
    <3>2. ASSUME NEW T \in SUBSET DOMAIN s, T # {}
          PROVE  s[Max(T)] \in D
      BY <3>2, LastPlace
    <3> QED
      BY <1>3, <3>1, <3>2 DEF Follows
  <2> QED
    BY <1>2, <1>4, <2>1, <2>5, FollowsIterated
<1>6. \A s \in Seq(D), c \in D : Append(s, c) \in Seq(D)
  OBVIOUS
<1>7. <<>> \in Seq(D)
  OBVIOUS
<1>8. Iterated(step, base, <<>>) = base
  BY IteratedEmpty
<1>9. ASSUME NEW s \in Seq(D)
      PROVE  /\ Iterated(step, base, s) \in S
             /\ \A c \in D : Iterated(step, base, Append(s, c)) = step[<<Iterated(step, base, s), c>>]
  BY <1>2, <1>4, IteratedAppend
<1>10. DecodeOf(<<>>) = base
  BY <1>5, <1>7, <1>8
<1>11. ASSUME NEW s \in Seq(D), NEW c \in D
       PROVE  DecodeOf(Append(s, c)) = DecodeByte(DecodeOf(s), c)
  <2>1. DecodeOf(Append(s, c)) = step[<<DecodeOf(s), c>>]
    BY <1>5, <1>6, <1>9
  <2>2. DecodeOf(s) \in S
    BY <1>5, <1>9
  <2> QED
    BY <1>3, <2>1, <2>2
<1> QED
  BY <1>10, <1>11 DEF base

--------------------------------------------------------------------------------

\* An escape has one of three forms.
LEMMA EscapeForms ==
    ASSUME NEW D, Alphabet(D), NEW c \in D, NEW spaces
    PROVE  /\ Escape(c, spaces) \in Seq(D)
           /\ \/ Escape(c, spaces) = <<"+">> /\ c = "space"
              \/ Escape(c, spaces) = <<"%", Hex[c]>> /\ c \in Marks
              \/ Escape(c, spaces) = <<c>> /\ c \notin Marks
<1>1. c \in Marks => Hex[c] \in D
  BY HexFacts DEF Alphabet
<1>2. "%" \in D /\ "+" \in D
  BY DEF Marks, Alphabet
<1>3. DOMAIN Hex = Marks
  BY HexFacts
<1>4. CASE c = "space" /\ spaces
  <2>1. Escape(c, spaces) = <<"+">>
    BY <1>4, Zenon DEF Escape
  <2>2. <<"+">> \in Seq(D)
    BY <1>2
  <2> QED
    BY <1>4, <2>1, <2>2, Zenon
<1>5. CASE ~ (c = "space" /\ spaces) /\ c \in Marks
  <2>1. Escape(c, spaces) = <<"%", Hex[c]>>
    BY <1>3, <1>5, Zenon DEF Escape
  <2>2. c \in Marks => <<"%", Hex[c]>> \in Seq(D)
    BY <1>1, <1>2
  <2> QED
    BY <1>5, <2>1, <2>2, Zenon
<1>6. CASE ~ (c = "space" /\ spaces) /\ c \notin Marks
  <2>1. Escape(c, spaces) = <<c>>
    BY <1>3, <1>6, Zenon DEF Escape
  <2>2. <<c>> \in Seq(D)
    OBVIOUS
  <2> QED
    BY <1>6, <2>1, <2>2, Zenon
<1> QED
  BY <1>4, <1>5, <1>6, Zenon

\* What is made of the bytes of a text, one after the other.
Escapes(s, spaces) == [i \in DOMAIN s |-> Escape(s[i], spaces)]

\* The pieces that a text is escaped to.
LEMMA EscapesAppend ==
    ASSUME NEW D, Alphabet(D), NEW s \in Seq(D), NEW c \in D, NEW spaces
    PROVE  /\ Escapes(s, spaces) \in Seq(Seq(D))
           /\ Escapes(Append(s, c), spaces) = Append(Escapes(s, spaces), Escape(c, spaces))
<1> DEFINE n == Len(s)  r == Append(s, c)  g == Escapes(r, spaces)  f == [i \in 1 .. n |-> g[i]]
<1>1. n \in Nat /\ DOMAIN r = 1 .. n + 1 /\ r[n + 1] = c /\ DOMAIN s = 1 .. n
      /\ \A i \in 1 .. n : r[i] = s[i]
  OBVIOUS
<1>2. \A i \in 1 .. n + 1 : r[i] \in D
  <2>1. r \in Seq(D)
    OBVIOUS
  <2> QED
    BY <1>1, <2>1
<1> HIDE DEF r, n
<1>3. g \in [1 .. n + 1 -> Seq(D)] /\ g[n + 1] = Escape(c, spaces) /\ f = Escapes(s, spaces)
  <2>1. \A i \in 1 .. n + 1 : Escape(r[i], spaces) \in Seq(D)
    BY <1>2, EscapeForms
  <2> QED
    BY <1>1, <2>1 DEF Escapes
<1> HIDE DEF g
<1>4. f \in Seq(Seq(D)) /\ g = Append(f, g[n + 1])
  BY <1>1, <1>3, AppendLast
<1> HIDE DEF f
<1> QED
  BY <1>3, <1>4 DEF g, r

\* Escaped, byte by byte.
LEMMA EscapedAppend ==
    ASSUME NEW D, Alphabet(D), NEW s \in Seq(D), NEW c \in D, NEW spaces
    PROVE  /\ Escaped(s, spaces) \in Seq(D)
           /\ Escaped(Append(s, c), spaces) = Escaped(s, spaces) \o Escape(c, spaces)
<1>1. Escape(c, spaces) \in Seq(D)
  BY EscapeForms
<1>2. /\ Escapes(s, spaces) \in Seq(Seq(D))
      /\ Escapes(Append(s, c), spaces) = Append(Escapes(s, spaces), Escape(c, spaces))
  BY EscapesAppend
<1>3. /\ FlattenSeq(Escapes(s, spaces)) \in Seq(D)
      /\ FlattenSeq(Append(Escapes(s, spaces), Escape(c, spaces)))
            = FlattenSeq(Escapes(s, spaces)) \o Escape(c, spaces)
  BY <1>1, <1>2, FlattenAppend
<1> QED
  BY <1>2, <1>3 DEF Escaped, Escapes

\* An empty text stays empty.
LEMMA EscapedEmpty == \A spaces : Escaped(<<>>, spaces) = <<>>
<1>1. \A spaces : [i \in DOMAIN <<>> |-> Escape(<<>>[i], spaces)] = <<>>
  OBVIOUS
<1> QED
  BY <1>1, FlattenEmpty DEF Escaped

\* The bytes that divide texts, or that are trimmed off.
Dividers == {"space", "=", "semicolon", "quote", "&"}

\* An escaped text holds none of them.
LEMMA EscapedIsPlain ==
    ASSUME NEW D, Alphabet(D), NEW spaces, NEW s \in Seq(D)
    PROVE  Without(Escaped(s, spaces), Dividers)
<1> DEFINE T == {t \in Seq(D) : Without(Escaped(t, spaces), Dividers)}
<1>1. <<>> \in T
  BY EscapedEmpty DEF Without
<1>2. ASSUME NEW t \in Seq(D) \cap T, NEW c \in D
      PROVE  Append(t, c) \in T
  <2>1. Escaped(t, spaces) \in Seq(D) /\ Without(Escaped(t, spaces), Dividers)
        /\ Escaped(Append(t, c), spaces) = Escaped(t, spaces) \o Escape(c, spaces)
    BY EscapedAppend
  <2>2. Escape(c, spaces) \in Seq(D) /\ Without(Escape(c, spaces), Dividers)
    <3>1. c \in Marks => Hex[c] \notin Dividers
      BY HexFacts DEF Digits, Dividers
    <3>2. c \notin Marks => c \notin Dividers
      BY DEF Marks, Dividers
    <3>3. "%" \notin Dividers /\ "+" \notin Dividers
      BY DEF Dividers
    <3>4. Escape(c, spaces) \in Seq(D)
      BY EscapeForms
    <3>5. CASE Escape(c, spaces) = <<"+">>
      BY <3>3, <3>4, <3>5 DEF Without
    <3>6. CASE Escape(c, spaces) = <<"%", Hex[c]>> /\ c \in Marks
      BY <3>1, <3>3, <3>4, <3>6 DEF Without
    <3>7. CASE Escape(c, spaces) = <<c>> /\ c \notin Marks
      BY <3>2, <3>4, <3>7 DEF Without
    <3> QED
      BY <3>5, <3>6, <3>7, EscapeForms
  <2>3. Without(Escaped(Append(t, c), spaces), Dividers)
    BY <2>1, <2>2, WithoutConcat
  <2> QED
    BY <2>3
<1>3. Seq(D) \subseteq T
  <2> HIDE DEF T
  <2> QED
    BY <1>1, <1>2, SequenceInduction
<1> QED
  BY <1>3

\* A byte is decoded as it was escaped.
LEMMA DecodeEscape ==
    ASSUME NEW D, Alphabet(D), NEW t \in Seq(D), NEW c \in D, NEW spaces, NEW a \in Seq(D),
           DecodeOf(a) = [text |-> t, open |-> FALSE]
    PROVE  DecodeOf(a \o Escape(c, spaces)) = [text |-> Append(t, c), open |-> FALSE]
<1>1. "%" \in D /\ "+" \in D
  BY DEF Marks, Alphabet
<1>2. \A s \in Seq(D), d \in D : DecodeOf(Append(s, d)) = DecodeByte(DecodeOf(s), d)
  BY DecodeSteps
<1>3. CASE Escape(c, spaces) = <<"+">> /\ c = "space"
  <2>1. DecodeOf(Append(a, "+")) = DecodeByte([text |-> t, open |-> FALSE], "+")
    BY <1>1, <1>2
  <2>2. DecodeByte([text |-> t, open |-> FALSE], "+") = [text |-> Append(t, "space"), open |-> FALSE]
    BY DEF DecodeByte, Decoded
  <2>3. a \o <<"+">> = Append(a, "+")
    BY <1>1
  <2> QED
    BY <1>3, <2>1, <2>2, <2>3
<1>4. CASE Escape(c, spaces) = <<"%", Hex[c]>> /\ c \in Marks
  <2>1. IsHex(Hex[c]) /\ ByteOf(Hex[c]) = c /\ Hex[c] # "%" /\ Hex[c] \in D
    <3>1. Hex[c] \in Digits /\ ByteOf(Hex[c]) = c
      BY <1>4, HexFacts
    <3> QED
      BY <3>1, HexFacts DEF Alphabet
  <2> DEFINE h == Hex[c]
  <2> HIDE DEF h
  <2>2. a \o <<"%", h>> = Append(Append(a, "%"), h) /\ Append(a, "%") \in Seq(D)
    <3>1. h \in D
      BY <2>1 DEF h
    <3> QED
      BY <1>1, <3>1
  <2>3. DecodeOf(Append(a, "%")) = DecodeByte([text |-> t, open |-> FALSE], "%")
    BY <1>1, <1>2
  <2>4. DecodeByte([text |-> t, open |-> FALSE], "%") = [text |-> Append(t, "%"), open |-> TRUE]
    BY DEF DecodeByte, Decoded
  <2>5. DecodeOf(Append(Append(a, "%"), h)) = DecodeByte(DecodeOf(Append(a, "%")), h)
    BY <1>2, <2>1, <2>2 DEF h
  <2>6. Front(Append(t, "%")) = t
    BY <1>1 DEF Front
  <2>7. DecodeByte([text |-> Append(t, "%"), open |-> TRUE], h) = [text |-> Append(t, c), open |-> FALSE]
    BY <2>1, <2>6 DEF DecodeByte, Decoded, h
  <2> QED
    BY <1>4, <2>2, <2>3, <2>4, <2>5, <2>7 DEF h
<1>5. CASE Escape(c, spaces) = <<c>> /\ c \notin Marks
  <2>1. c # "+" /\ c # "%"
    BY <1>5 DEF Marks
  <2>2. DecodeOf(Append(a, c)) = DecodeByte([text |-> t, open |-> FALSE], c)
    BY <1>2
  <2>3. DecodeByte([text |-> t, open |-> FALSE], c) = [text |-> Append(t, c), open |-> FALSE]
    BY <2>1 DEF DecodeByte, Decoded
  <2>4. a \o <<c>> = Append(a, c)
    OBVIOUS
  <2> QED
    BY <1>5, <2>2, <2>3, <2>4
<1> QED
  BY <1>3, <1>4, <1>5, EscapeForms

\* What is escaped reads back, whatever bytes it holds.
LEMMA DecodeEscaped ==
    ASSUME NEW D, Alphabet(D), NEW spaces, NEW s \in Seq(D)
    PROVE  urlDecode(Escaped(s, spaces)) = s
<1> DEFINE T == {t \in Seq(D) : DecodeOf(Escaped(t, spaces)) = [text |-> t, open |-> FALSE]}
<1>1. <<>> \in T
  <2>1. DecodeOf(<<>>) = [text |-> <<>>, open |-> FALSE]
    BY DecodeSteps
  <2> QED
    BY <2>1, EscapedEmpty
<1>2. ASSUME NEW t \in Seq(D) \cap T, NEW c \in D
      PROVE  Append(t, c) \in T
  <2>1. /\ Escaped(t, spaces) \in Seq(D)
        /\ Escaped(Append(t, c), spaces) = Escaped(t, spaces) \o Escape(c, spaces)
    BY EscapedAppend
  <2>2. DecodeOf(Escaped(t, spaces)) = [text |-> t, open |-> FALSE]
    OBVIOUS
  <2>3. DecodeOf(Escaped(t, spaces) \o Escape(c, spaces)) = [text |-> Append(t, c), open |-> FALSE]
    BY <2>1, <2>2, DecodeEscape
  <2>4. Append(t, c) \in Seq(D)
    OBVIOUS
  <2> QED
    BY <2>1, <2>3, <2>4
<1>3. Seq(D) \subseteq T
  <2> HIDE DEF T
  <2> QED
    BY <1>1, <1>2, SequenceInduction
<1>4. DecodeOf(Escaped(s, spaces)) = [text |-> s, open |-> FALSE]
  BY <1>3
<1> QED
  BY <1>4 DEF urlDecode, DecodeOf

\* A text without spaces has none to be trimmed off.
LEMMA PlainIsTrimmed ==
    ASSUME NEW D, NEW s \in Seq(D), Without(s, Dividers)
    PROVE  trimmed(s) = s
<1>1. Len(s) \in Nat /\ DOMAIN s = 1 .. Len(s)
  OBVIOUS
<1>2. Places(s, "space") = {}
  BY DEF Without, Dividers, Places
<1>3. DOMAIN s \ Places(s, "space") = DOMAIN s
  BY <1>2
<1>4. CASE DOMAIN s = {}
  <2>1. s = <<>>
    BY <1>4
  <2> QED
    BY <1>3, <1>4, <2>1 DEF trimmed
<1>5. CASE DOMAIN s # {}
  <2>1. Min(DOMAIN s) = 1
    <3>1. Min(DOMAIN s) \in DOMAIN s /\ \A y \in DOMAIN s : Min(DOMAIN s) <= y
      BY <1>1, <1>5, MinIsIn
    <3>2. 1 \in DOMAIN s
      BY <1>1, <1>5
    <3> QED
      BY <1>1, <3>1, <3>2
  <2>2. Max(DOMAIN s) = Len(s)
    <3>1. Max(DOMAIN s) \in DOMAIN s /\ \A y \in DOMAIN s : Max(DOMAIN s) >= y
      BY <1>1, <1>5, MaxIsIn
    <3>2. Len(s) \in DOMAIN s
      BY <1>1, <1>5
    <3> QED
      BY <1>1, <3>1, <3>2
  <2>3. trimmed(s) = SubSeq(s, 1, Len(s))
    BY <1>3, <1>5, <2>1, <2>2 DEF trimmed
  <2>4. SubSeq(s, 1, Len(s)) = s
    OBVIOUS
  <2> QED
    BY <2>3, <2>4
<1> QED
  BY <1>4, <1>5

\* The first "=" of a name and a value is the one between them.
LEMMA PairParts ==
    ASSUME NEW D, "=" \in D, NEW c, c.name \in Seq(D), c.value \in Seq(D), Without(c.name, {"="})
    PROVE  /\ Pair(c) \in Seq(D) /\ Pair(c) # <<>>
           /\ Index(Pair(c), "=") = Len(c.name) + 1
           /\ Before(Pair(c), Len(c.name) + 1) = c.name
           /\ After(Pair(c), Len(c.name) + 1) = c.value
<1> DEFINE a == c.name  b == c.value  n == Len(a)  p == Pair(c)
<1>9. p = a \o <<"=">> \o b /\ a \in Seq(D) /\ b \in Seq(D) /\ Without(a, {"="})
  BY DEF Pair
<1> HIDE DEF a, b, p
<1>1. n \in Nat /\ p \in Seq(D) /\ Len(p) = n + 1 + Len(b) /\ Len(b) \in Nat
  BY <1>9
<1>2. p[n + 1] = "=" /\ \A i \in 1 .. n : p[i] = a[i]
  BY <1>9
<1>3. \A i \in 1 .. Len(b) : p[n + 1 + i] = b[i]
  BY <1>9
<1>4. \A i \in 1 .. n : p[i] # "="
  BY <1>1, <1>2, <1>9 DEF Without
<1> HIDE DEF n
<1>5. Index(p, "=") = n + 1
  <2> DEFINE T == Places(p, "=")
  <2>1. n + 1 \in T /\ T \in SUBSET (1 .. Len(p))
    BY <1>1, <1>2 DEF Places
  <2>2. \A i \in T : i >= n + 1
    BY <1>1, <1>4 DEF Places
  <2> HIDE DEF T
  <2>3. Min(T) \in T /\ \A y \in T : Min(T) <= y
    <3> DEFINE m == Len(p)
    <3>1. m \in Nat /\ T \in SUBSET (1 .. m) /\ T # {}
      BY <1>1, <2>1
    <3> HIDE DEF m
    <3> QED
      BY <3>1, MinIsIn
  <2> DEFINE m == Min(T)
  <2>5. m \in T /\ \A y \in T : m <= y
    BY <2>3
  <2> HIDE DEF m
  <2>4. m = n + 1
    <3>1. m \in 1 .. Len(p) /\ m <= n + 1 /\ m >= n + 1
      BY <2>1, <2>2, <2>5
    <3> QED
      BY <1>1, <3>1
  <2> QED
    BY <2>1, <2>4 DEF Index, T, m
<1>6. Before(p, n + 1) = a
  <2>1. SubSeq(p, 1, n) = a
    BY <1>1, <1>2, <1>9 DEF n
  <2>2. n + 1 - 1 = n
    BY <1>1
  <2> DEFINE j == n + 1
  <2>4. j - 1 = n
    BY <1>1
  <2> HIDE DEF j
  <2>5. Before(p, j) = SubSeq(p, 1, n)
    BY <2>4 DEF Before
  <2>3. Before(p, n + 1) = SubSeq(p, 1, n)
    BY <2>5 DEF j
  <2> QED
    BY <2>1, <2>3
<1>7. After(p, n + 1) = b
  <2> DEFINE q == SubSeq(p, n + 1 + 1, Len(p))
  <2>1. q \in Seq(D) /\ Len(q) = Len(b) /\ \A i \in 1 .. Len(b) : q[i] = p[n + 1 + i]
    BY <1>1
  <2> HIDE DEF q
  <2>3. \A i \in 1 .. Len(b) : q[i] = b[i]
    BY <1>3, <2>1
  <2>2. q = b
    BY <1>9, <2>1, <2>3, SeqEqual
  <2> QED
    BY <2>2 DEF After, q
<1>8. p # <<>>
  BY <1>1
<1> QED
  BY <1>1, <1>5, <1>6, <1>7, <1>8 DEF n, a, b, p

\* A field is parsed as it was escaped.
LEMMA ParsedField ==
    ASSUME NEW D, Alphabet(D), NEW f \in [name : Seq(D), value : Seq(D)], NEW spaces
    PROVE  /\ EscapedField(f, spaces) \in Seq(D) /\ EscapedField(f, spaces) # <<>>
           /\ Without(EscapedField(f, spaces), {"&"})
           /\ Parsed(EscapedField(f, spaces)) = <<f>>
<1> DEFINE a == Escaped(f.name, spaces)  b == Escaped(f.value, spaces)  p == EscapedField(f, spaces)
<1>1. f.name \in Seq(D) /\ f.value \in Seq(D) /\ f = [name |-> f.name, value |-> f.value]
  OBVIOUS
<1>2. a \in Seq(D) /\ b \in Seq(D)
  <2>1. \E c : c \in D
    BY DEF Alphabet, Marks
  <2> QED
    BY <1>1, <2>1, EscapedAppend
<1>3. Without(a, Dividers) /\ Without(b, Dividers)
  BY <1>1, EscapedIsPlain
<1>4. urlDecode(a) = f.name /\ urlDecode(b) = f.value
  BY <1>1, DecodeEscaped
<1>5. p = a \o <<"=">> \o b
  BY DEF EscapedField, Pair
<1> HIDE DEF a, b, p
<1>6. "=" \in D
  BY DEF Alphabet, Marks
<1>7. Without(a, {"="})
  BY <1>3 DEF Without, Dividers
<1>8. p \in Seq(D) /\ p # <<>> /\ Index(p, "=") = Len(a) + 1
      /\ Before(p, Len(a) + 1) = a /\ After(p, Len(a) + 1) = b
  <2> DEFINE c == [name |-> a, value |-> b]
  <2>1. c.name = a /\ c.value = b /\ p = Pair(c)
    BY <1>5 DEF Pair
  <2> HIDE DEF c
  <2> QED
    BY <1>2, <1>6, <1>7, <2>1, PairParts
<1>9. trimmed(a) = a /\ trimmed(b) = b
  BY <1>2, <1>3, PlainIsTrimmed
<1>10. Len(a) + 1 > 0
  BY <1>2
<1>11. Parsed(p) = <<f>>
  BY <1>1, <1>4, <1>8, <1>9, <1>10 DEF Parsed
<1>12. Without(p, {"&"})
  <2>1. Without(a, {"&"}) /\ Without(b, {"&"})
    BY <1>3 DEF Without, Dividers
  <2>2. Without(<<"=">>, {"&"}) /\ <<"=">> \in Seq(D)
    BY <1>6 DEF Without
  <2> DEFINE e == <<"=">>  E == {"&"}  ae == a \o e
  <2>3. ae \in Seq(D) /\ p = ae \o b
    BY <1>2, <1>5, <2>2
  <2> HIDE DEF e, E
  <2>4. Without(ae, E)
    <3>1. e \in Seq(D) /\ Without(e, E) /\ Without(a, E)
      BY <2>1, <2>2 DEF e, E
    <3> QED
      BY <1>2, <3>1, WithoutConcat
  <2>5. Without(b, E)
    BY <2>1 DEF E
  <2> HIDE DEF ae
  <2>6. Without(ae \o b, E)
    BY <1>2, <2>3, <2>4, <2>5, WithoutConcat
  <2> QED
    BY <2>3, <2>6 DEF E
<1> QED
  BY <1>8, <1>11, <1>12 DEF p

\* A byte of a text to be split.
SplitByte(list, c, b) == IF c = b THEN Append(list, <<>>) ELSE Extended(list, <<c>>)

\* split, byte by byte.
LEMMA SplitSteps ==
    ASSUME NEW D, NEW b
    PROVE  /\ split(<<>>, b) = <<<<>>>>
           /\ \A s \in Seq(D) : split(s, b) \in Seq(Seq(D)) /\ Len(split(s, b)) > 0
           /\ \A s \in Seq(D), c \in D : split(Append(s, c), b) = SplitByte(split(s, b), c, b)
<1> DEFINE S == {l \in Seq(Seq(D)) : Len(l) > 0}
           step == [x \in S \X D |-> SplitByte(x[1], x[2], b)]
           base == <<<<>>>>
           Op(l, c) == IF c = b THEN Append(l, <<>>) ELSE [l EXCEPT ![Len(l)] = Append(@, c)]
<1>1. ASSUME NEW v \in S, NEW c \in D
      PROVE  SplitByte(v, c, b) \in S /\ SplitByte(v, c, b) = Op(v, c)
  <2>1. v \in Seq(Seq(D)) /\ Len(v) > 0 /\ <<c>> \in Seq(D)
    OBVIOUS
  <2>2. Extended(v, <<c>>) \in Seq(Seq(D)) /\ Len(Extended(v, <<c>>)) = Len(v)
    BY <2>1, ExtendedFacts
  <2>3. Append(v, <<>>) \in Seq(Seq(D)) /\ Len(Append(v, <<>>)) > 0
    BY <2>1
  <2>4. Extended(v, <<c>>) = [v EXCEPT ![Len(v)] = Append(@, c)]
    <3>1. v[Len(v)] \in Seq(D)
      BY <2>1
    <3>2. v[Len(v)] \o <<c>> = Append(v[Len(v)], c)
      BY <3>1
    <3> QED
      BY <3>2 DEF Extended
  <2> QED
    BY <2>1, <2>2, <2>3, <2>4 DEF SplitByte
<1>2. IsStep(step, S, D)
  BY <1>1 DEF IsStep
<1>3. \A v \in S, c \in D : step[<<v, c>>] = Op(v, c) /\ step[<<v, c>>] = SplitByte(v, c, b)
  BY <1>1
<1>4. base \in S
  OBVIOUS
<1> HIDE DEF S, step, base, Op
<1>5. ASSUME NEW s \in Seq(D)
      PROVE  split(s, b) = Iterated(step, base, s)
  <2> DEFINE IsFold(it) == it = [T \in SUBSET DOMAIN s |->
                               IF T = {} THEN base ELSE Op(it[T \ {Max(T)}], s[Max(T)])]
             it == CHOOSE f : IsFold(f)
  <2>1. split(s, b) = it[DOMAIN s]
    BY Zenon DEF split, FoldLeft, MapThenFoldSet, base, Op
  <2>2. PICK f \in [SUBSET DOMAIN s -> S] : Folding(f, s, base, step)
    BY <1>2, <1>4, FoldingExists
  <2>3. IsFold(f)
    <3>1. ASSUME NEW T \in SUBSET DOMAIN s, T # {}
          PROVE  s[Max(T)] \in D /\ f[T \ {Max(T)}] \in S
      BY <2>2, <3>1, LastPlace
    <3> QED
      BY <1>3, <2>2, <3>1 DEF Folding
  <2> HIDE DEF IsFold
  <2>4. IsFold(it)
    BY <2>3
  <2> HIDE DEF it
  <2>5. Follows(it, s, base, step, S)
    <3>1. \A T \in SUBSET DOMAIN s : it[T] = IF T = {} THEN base ELSE Op(it[T \ {Max(T)}], s[Max(T)])
      BY <2>4, Zenon DEF IsFold
    <3>2. ASSUME NEW T \in SUBSET DOMAIN s, T # {}
          PROVE  s[Max(T)] \in D
      BY <3>2, LastPlace
    <3> QED
      BY <1>3, <3>1, <3>2 DEF Follows
  <2> QED
    BY <1>2, <1>4, <2>1, <2>5, FollowsIterated
<1>6. \A s \in Seq(D), c \in D : Append(s, c) \in Seq(D)
  OBVIOUS
<1>7. <<>> \in Seq(D)
  OBVIOUS
<1>8. Iterated(step, base, <<>>) = base
  BY IteratedEmpty
<1>9. ASSUME NEW s \in Seq(D)
      PROVE  /\ Iterated(step, base, s) \in S
             /\ \A c \in D : Iterated(step, base, Append(s, c)) = step[<<Iterated(step, base, s), c>>]
  BY <1>2, <1>4, IteratedAppend
<1>10. split(<<>>, b) = base
  BY <1>5, <1>7, <1>8
<1>11. \A s \in Seq(D) : split(s, b) \in S
  BY <1>5, <1>9
<1>12. ASSUME NEW s \in Seq(D), NEW c \in D
       PROVE  split(Append(s, c), b) = SplitByte(split(s, b), c, b)
  <2>1. split(Append(s, c), b) = step[<<split(s, b), c>>]
    BY <1>5, <1>6, <1>9
  <2> QED
    BY <1>3, <1>11, <2>1
<1> QED
  BY <1>10, <1>11, <1>12 DEF base, S

\* A piece without the separator makes the last text longer.
LEMMA SplitPiece ==
    ASSUME NEW D, NEW b, NEW s \in Seq(D), NEW q \in Seq(D), Without(q, {b})
    PROVE  split(s \o q, b) = Extended(split(s, b), q)
<1> DEFINE T == {r \in Seq(D) : Without(r, {b}) => split(s \o r, b) = Extended(split(s, b), r)}
<1>1. split(s, b) \in Seq(Seq(D)) /\ Len(split(s, b)) > 0
  BY SplitSteps
<1>2. <<>> \in T
  <2>1. <<>> \in Seq(D) /\ s \o <<>> = s
    OBVIOUS
  <2>2. Extended(split(s, b), <<>>) = split(s, b)
    BY <1>1, <2>1, ExtendedFacts
  <2> QED
    BY <2>1, <2>2
<1>3. ASSUME NEW r \in Seq(D) \cap T, NEW c \in D
      PROVE  Append(r, c) \in T
  <2> SUFFICES ASSUME Without(Append(r, c), {b})
               PROVE  split(s \o Append(r, c), b) = Extended(split(s, b), Append(r, c))
    OBVIOUS
  <2>1. Without(r, {b}) /\ c # b
    <3> DEFINE l == Len(r) + 1
    <3>1. \A i \in DOMAIN r : i \in DOMAIN Append(r, c) /\ Append(r, c)[i] = r[i]
      OBVIOUS
    <3>2. l \in DOMAIN Append(r, c) /\ Append(r, c)[l] = c
      OBVIOUS
    <3> HIDE DEF l
    <3> QED
      BY <3>1, <3>2 DEF Without
  <2>2. s \o Append(r, c) = Append(s \o r, c) /\ s \o r \in Seq(D)
    OBVIOUS
  <2>3. split(s \o r, b) = Extended(split(s, b), r)
    BY <2>1
  <2>4. split(Append(s \o r, c), b) = Extended(Extended(split(s, b), r), <<c>>)
    <3>1. split(Append(s \o r, c), b) = SplitByte(split(s \o r, b), c, b)
      BY <2>2, SplitSteps
    <3> QED
      BY <2>1, <2>3, <3>1 DEF SplitByte
  <2>5. Extended(Extended(split(s, b), r), <<c>>) = Extended(split(s, b), Append(r, c))
    BY <1>1, ExtendedFacts
  <2> QED
    BY <2>2, <2>4, <2>5
<1>4. Seq(D) \subseteq T
  <2> HIDE DEF T
  <2> QED
    BY <1>2, <1>3, SequenceInduction
<1> QED
  BY <1>4

\* Joined, text by text.
LEMMA JoinedAppend ==
    ASSUME NEW D, NEW texts \in Seq(Seq(D)), NEW q \in Seq(D), NEW between \in Seq(D)
    PROVE  /\ Joined(<<>>, between) = <<>>
           /\ Joined(texts, between) \in Seq(D)
           /\ Len(texts) = 0 => Joined(Append(texts, q), between) = q
           /\ texts # <<>> => Joined(Append(texts, q), between) = Cat(Joined(texts, between), Cat(between, q))
<1> DEFINE last == LastPiece(texts, q, between)
<1>3. texts = <<>> <=> Len(texts) = 0
  OBVIOUS
<1>8. Separated(texts, between) \in Seq(Seq(D)) /\ last \in Seq(D)
      /\ Separated(Append(texts, q), between) = Append(Separated(texts, between), last)
  BY SeparatedAppend
<1>9. /\ FlattenSeq(Separated(texts, between)) \in Seq(D)
      /\ FlattenSeq(Append(Separated(texts, between), last))
            = FlattenSeq(Separated(texts, between)) \o last
  BY <1>8, FlattenAppend
<1>10. Separated(<<>>, between) = <<>>
  BY DEF Separated
<1>11. \A t : Joined(t, between) = FlattenSeq(Separated(t, between))
  BY DEF Joined, Separated
<1>12. Joined(<<>>, between) = <<>>
  BY <1>10, <1>11, FlattenEmpty
<1>13. Joined(Append(texts, q), between) = Joined(texts, between) \o last
  BY <1>8, <1>9, <1>11
<1>14. Len(texts) = 0 => Joined(Append(texts, q), between) = q
  <2>1. <<>> \o q = q
    OBVIOUS
  <2> QED
    BY <1>3, <1>12, <1>13, <2>1 DEF LastPiece
<1>15. texts # <<>> => Joined(Append(texts, q), between) = Cat(Joined(texts, between), Cat(between, q))
  <2>1. texts # <<>> => last = Cat(between, q)
    BY DEF LastPiece, Cat
  <2>2. Joined(texts, between) \o last = Cat(Joined(texts, between), last)
    BY DEF Cat
  <2> QED
    BY <1>13, <2>1, <2>2
<1> QED
  BY <1>9, <1>11, <1>12, <1>14, <1>15

\* One text more, behind the separator.
LEMMA JoinedMore ==
    ASSUME NEW D, NEW texts \in Seq(Seq(D)), NEW q \in Seq(D), NEW between \in Seq(D), texts # <<>>
    PROVE  Joined(Append(texts, q), between) = Cat(Cat(Joined(texts, between), between), q)
<1>1. /\ Joined(texts, between) \in Seq(D)
      /\ Joined(Append(texts, q), between) = Cat(Joined(texts, between), Cat(between, q))
  BY JoinedAppend
<1> QED
  BY <1>1, CatFacts

\* One text is joined to itself.
LEMMA JoinedOne ==
    ASSUME NEW D, NEW q \in Seq(D), NEW between \in Seq(D)
    PROVE  Joined(<<q>>, between) = q
<1>1. <<>> \in Seq(Seq(D)) /\ Len(<<>>) = 0
  OBVIOUS
<1>2. ASSUME NEW t \in Seq(Seq(D)), Len(t) = 0
      PROVE  Append(t, q) = <<q>>
  BY <1>2
<1>3. ASSUME NEW t \in Seq(Seq(D)), Len(t) = 0
      PROVE  Joined(Append(t, q), between) = q
  BY <1>3, JoinedAppend
<1>4. ASSUME NEW t \in Seq(Seq(D)), Len(t) = 0
      PROVE  Joined(<<q>>, between) = q
  BY <1>2, <1>3, <1>4
<1> QED
  BY <1>1, <1>4

\* A byte that separates, and a text behind it.
LEMMA SplitBehind ==
    ASSUME NEW D, NEW b \in D, NEW s \in Seq(D), NEW q \in Seq(D), Without(q, {b})
    PROVE  split((s \o <<b>>) \o q, b) = Append(split(s, b), q)
<1> DEFINE r == Append(s, b)
<1>1. s \o <<b>> = r /\ r \in Seq(D)
  OBVIOUS
<1>2. split(r, b) = SplitByte(split(s, b), b, b) /\ split(s, b) \in Seq(Seq(D))
  BY SplitSteps
<1>3. split(r, b) = Append(split(s, b), <<>>)
  BY <1>2 DEF SplitByte
<1> HIDE DEF r
<1>4. split(r \o q, b) = Extended(split(r, b), q)
  BY <1>1, SplitPiece
<1>5. Extended(Append(split(s, b), <<>>), q) = Append(split(s, b), q)
  BY <1>2, ExtendedNew
<1> QED
  BY <1>1, <1>3, <1>4, <1>5

\* A text that is not split.
LEMMA SplitOne ==
    ASSUME NEW D, NEW b, NEW q \in Seq(D), Without(q, {b})
    PROVE  split(q, b) = <<q>>
<1>1. <<>> \o q = q /\ <<>> \in Seq(D) /\ <<>> \in Seq(Seq(D))
      /\ Append(<<>>, <<>>) = <<<<>>>> /\ Append(<<>>, q) = <<q>>
  OBVIOUS
<1>2. split(<<>>, b) = <<<<>>>>
  BY SplitSteps
<1>3. split(<<>> \o q, b) = Extended(split(<<>>, b), q)
  BY <1>1, SplitPiece
<1>4. Extended(Append(<<>>, <<>>), q) = Append(<<>>, q)
  BY <1>1, ExtendedNew
<1> QED
  BY <1>1, <1>2, <1>3, <1>4

\* Texts that are joined with a byte that none of them holds are split there.
LEMMA SplitJoined ==
    ASSUME NEW D, NEW b \in D, NEW texts \in Seq(Seq(D)), texts # <<>>, AllWithout(texts, b)
    PROVE  split(Joined(texts, <<b>>), b) = texts
<1> DEFINE Splits(t) == t # <<>> /\ AllWithout(t, b) => split(Joined(t, <<b>>), b) = t
           P == Seq(D)
           T == {t \in Seq(P) : Splits(t)}
<1>1. <<b>> \in Seq(D)
  OBVIOUS
<1>2. ASSUME NEW t \in Seq(Seq(D)), NEW q \in Seq(D), Splits(t), AllWithout(Append(t, q), b)
      PROVE  split(Joined(Append(t, q), <<b>>), b) = Append(t, q)
  <2> HIDE DEF T, P
  <2>1. AllWithout(t, b) /\ Without(q, {b})
    BY <1>2, AllWithoutAppend
  <2>2. CASE t = <<>>
    <3>1. Append(t, q) = <<q>>
      BY <2>2
    <3>2. Joined(<<q>>, <<b>>) = q
      BY <1>1, JoinedOne
    <3>3. split(q, b) = <<q>>
      BY <2>1, SplitOne
    <3> QED
      BY <3>1, <3>2, <3>3
  <2>3. CASE t # <<>>
    <3> DEFINE j == Joined(t, <<b>>)
    <3>1. Joined(Append(t, q), <<b>>) = (j \o <<b>>) \o q
      BY <1>1, <2>3, JoinedMore DEF Cat
    <3>2. j \in Seq(D)
      BY <1>1, JoinedAppend
    <3>3. split(j, b) = t
      BY <1>2, <2>1, <2>3
    <3> HIDE DEF j
    <3>4. split((j \o <<b>>) \o q, b) = Append(split(j, b), q)
      BY <2>1, <3>2, SplitBehind
    <3> QED
      BY <3>1, <3>3, <3>4
  <2> QED
    BY <2>2, <2>3
<1>3. <<>> \in T
  OBVIOUS
<1>4. ASSUME NEW t \in Seq(P) \cap T, NEW q \in P
      PROVE  Append(t, q) \in T
  <2>1. t \in Seq(Seq(D)) /\ q \in Seq(D) /\ Append(t, q) \in Seq(P)
    OBVIOUS
  <2> HIDE DEF P
  <2>2. Splits(t)
    OBVIOUS
  <2>3. Splits(Append(t, q))
    BY <1>2, <2>1, <2>2
  <2> HIDE DEF Splits
  <2> QED
    BY <2>1, <2>3
<1>5. Seq(P) \subseteq T
  <2> HIDE DEF T, P
  <2> QED
    BY <1>3, <1>4, SequenceInduction
<1> QED
  BY <1>5

\* Two lists of texts, joined, and one text more.
LEMMA JoinedConcatStep ==
    ASSUME NEW D, NEW between \in Seq(D), NEW a \in Seq(Seq(D)), a # <<>>,
           NEW t \in Seq(Seq(D)), NEW q \in Seq(D),
           t # <<>> => Joined(a \o t, between) = Cat(Cat(Joined(a, between), between), Joined(t, between))
    PROVE  Joined(a \o Append(t, q), between)
             = Cat(Cat(Joined(a, between), between), Joined(Append(t, q), between))
<1> DEFINE P == Seq(D)  more == a \o t
<1>1. a \o Append(t, q) = Append(more, q) /\ more \in Seq(Seq(D)) /\ more # <<>>
  <2>1. a \in Seq(P) /\ t \in Seq(P) /\ q \in P
    OBVIOUS
  <2> HIDE DEF P
  <2>2. a \o Append(t, q) = Append(more, q) /\ more \in Seq(P)
    BY <2>1, ConcatAppend
  <2>3. more # <<>>
    BY <2>1, ConcatEqualIffEmpty
  <2> QED
    BY <2>2, <2>3 DEF P
<1>2. t = <<>> => more = a
  OBVIOUS
<1> DEFINE ja == Joined(a, between)  jt == Joined(t, between)
<1>3. ja \in Seq(D) /\ jt \in Seq(D)
  BY JoinedAppend
<1>7. t # <<>> => Joined(more, between) = Cat(Cat(ja, between), jt)
  OBVIOUS
<1> HIDE DEF more
<1>4. Joined(Append(more, q), between) = Cat(Cat(Joined(more, between), between), q)
  BY <1>1, JoinedMore
<1>5. CASE t = <<>>
  <2>1. Append(t, q) = <<q>>
    BY <1>5
  <2>2. Joined(<<q>>, between) = q
    BY JoinedOne
  <2> QED
    BY <1>1, <1>2, <1>4, <1>5, <2>1, <2>2
<1>6. CASE t # <<>>
  <2> DEFINE x == Cat(ja, between)
  <2>1. Joined(more, between) = Cat(x, jt)
    BY <1>6, <1>7
  <2>2. Joined(Append(t, q), between) = Cat(Cat(jt, between), q)
    BY <1>6, JoinedMore
  <2>3. x \in Seq(D) /\ Cat(jt, between) \in Seq(D)
    BY <1>3, CatFacts
  <2> HIDE DEF ja, jt, x
  <2>4. Cat(Cat(x, jt), between) = Cat(x, Cat(jt, between))
    BY <1>3, <2>3, CatFacts
  <2>5. Cat(Cat(x, Cat(jt, between)), q) = Cat(x, Cat(Cat(jt, between), q))
    BY <2>3, CatFacts
  <2> QED
    BY <1>1, <1>4, <2>1, <2>2, <2>4, <2>5 DEF x, ja
<1> QED
  BY <1>5, <1>6

\* Two lists of texts, joined with the separator between them as well.
LEMMA JoinedConcat ==
    ASSUME NEW D, NEW between \in Seq(D), NEW a \in Seq(Seq(D)), a # <<>>,
           NEW c \in Seq(Seq(D)), c # <<>>
    PROVE  Joined(a \o c, between) = Cat(Cat(Joined(a, between), between), Joined(c, between))
<1> DEFINE Concats(t) == t # <<>> => Joined(a \o t, between)
                                       = Cat(Cat(Joined(a, between), between), Joined(t, between))
           P == Seq(D)
           T == {t \in Seq(P) : Concats(t)}
<1>1. ASSUME NEW t \in Seq(Seq(D)), NEW q \in Seq(D), Concats(t)
      PROVE  Concats(Append(t, q))
  BY <1>1, JoinedConcatStep
<1>3. <<>> \in T
  OBVIOUS
<1> HIDE DEF Concats
<1>4. ASSUME NEW t \in Seq(P) \cap T, NEW q \in P
      PROVE  Append(t, q) \in T
  <2>1. t \in Seq(Seq(D)) /\ q \in Seq(D) /\ Append(t, q) \in Seq(P)
    OBVIOUS
  <2> HIDE DEF P
  <2>2. Concats(t)
    OBVIOUS
  <2> QED
    BY <1>1, <2>1, <2>2
<1>5. Seq(P) \subseteq T
  <2> HIDE DEF T, P
  <2> QED
    BY <1>3, <1>4, SequenceInduction
<1>6. Concats(c)
  BY <1>5
<1> QED
  BY <1>6 DEF Concats

\* The fields of a form, and their texts.
FieldsOf(D) == [name : Seq(D), value : Seq(D)]
FieldTexts(form, spaces) == [i \in DOMAIN form |-> EscapedField(form[i], spaces)]

\* There is a text for each field, none of them is empty or holds "&".
LEMMA TextsFacts ==
    ASSUME NEW D, Alphabet(D), NEW form \in Seq(FieldsOf(D)), NEW spaces
    PROVE  /\ FieldTexts(form, spaces) \in Seq(Seq(D)) /\ Len(FieldTexts(form, spaces)) = Len(form)
           /\ AllWithout(FieldTexts(form, spaces), "&")
           /\ \A i \in 1 .. Len(form) :
                 /\ FieldTexts(form, spaces)[i] # <<>>
                 /\ Parsed(FieldTexts(form, spaces)[i]) = <<form[i]>>
           /\ Encoded(form, spaces) = Joined(FieldTexts(form, spaces), <<"&">>)
           /\ Encoded(form, spaces) \in Seq(D)
<1> DEFINE n == Len(form)  t == FieldTexts(form, spaces)  P == Seq(D)
<1>1. n \in Nat /\ DOMAIN form = 1 .. n /\ \A i \in 1 .. n : form[i] \in FieldsOf(D)
  OBVIOUS
<1> HIDE DEF n
<1>2. ASSUME NEW i \in 1 .. n
      PROVE  /\ EscapedField(form[i], spaces) \in P /\ EscapedField(form[i], spaces) # <<>>
             /\ Without(EscapedField(form[i], spaces), {"&"})
             /\ Parsed(EscapedField(form[i], spaces)) = <<form[i]>>
  <2> DEFINE f == form[i]
  <2>1. f \in [name : Seq(D), value : Seq(D)]
    BY <1>1 DEF FieldsOf
  <2> HIDE DEF f
  <2> QED
    BY <2>1, ParsedField DEF f
<1>3. t = [i \in 1 .. n |-> EscapedField(form[i], spaces)]
  BY <1>1 DEF FieldTexts
<1> HIDE DEF t, P
<1>4. t \in [1 .. n -> P] /\ \A i \in 1 .. n : t[i] = EscapedField(form[i], spaces)
  BY <1>2, <1>3
<1>5. t \in Seq(P) /\ Len(t) = n
  BY <1>1, <1>4, FunctionIsSeq
<1>6. AllWithout(t, "&")
  BY <1>2, <1>4 DEF AllWithout
<1>7. \A i \in 1 .. n : t[i] # <<>> /\ Parsed(t[i]) = <<form[i]>>
  BY <1>2, <1>4
<1>8. Encoded(form, spaces) = Joined(t, <<"&">>)
  BY DEF t, FieldTexts, Encoded
<1>9. t \in Seq(Seq(D)) /\ <<"&">> \in Seq(D)
  <2>1. "&" \in D
    BY DEF Alphabet, Marks
  <2> QED
    BY <1>5, <2>1 DEF P
<1>10. Joined(t, <<"&">>) \in Seq(D)
  <2> DEFINE b == <<"&">>
  <2>1. b \in Seq(D)
    BY <1>9
  <2> HIDE DEF b
  <2>2. \E q : q \in Seq(D)
    BY <2>1
  <2>3. Joined(t, b) \in Seq(D)
    BY <1>9, <2>1, <2>2, JoinedAppend
  <2> QED
    BY <2>3 DEF b
<1> QED
  BY <1>5, <1>6, <1>7, <1>8, <1>9, <1>10 DEF n, t

\* A text is split, and its parts are parsed.
ParsedText(raw) ==
    LET list == split(raw, "&") IN FlattenSeq([i \in DOMAIN list |-> Parsed(list[i])])

\* The text of a form is split at its fields, and so it is not empty.
LEMMA FormIsParsed ==
    ASSUME NEW D, Alphabet(D), NEW form \in Seq(FieldsOf(D)), NEW spaces, form # <<>>
    PROVE  Encoded(form, spaces) # <<>> /\ ParsedText(Encoded(form, spaces)) = form
<1> DEFINE t == FieldTexts(form, spaces)  raw == Encoded(form, spaces)  n == Len(form)
<1>1. t \in Seq(Seq(D)) /\ Len(t) = n /\ AllWithout(t, "&") /\ raw = Joined(t, <<"&">>)
      /\ \A i \in 1 .. n : t[i] # <<>> /\ Parsed(t[i]) = <<form[i]>>
  BY TextsFacts
<1>2. n \in Nat /\ n > 0 /\ DOMAIN form = 1 .. n
  OBVIOUS
<1> HIDE DEF t, raw, n
<1>3. DOMAIN t = 1 .. n /\ t # <<>> /\ 1 \in 1 .. n
  BY <1>1, <1>2
<1>4. split(raw, "&") = t
  <2>1. "&" \in D
    BY DEF Alphabet, Marks
  <2> QED
    BY <1>1, <1>3, <2>1, SplitJoined
<1>5. raw # <<>>
  <2>1. split(<<>>, "&") = <<<<>>>>
    BY SplitSteps
  <2>2. t # <<<<>>>>
    <3>1. t[1] # <<>>
      BY <1>1, <1>3
    <3> QED
      BY <3>1
  <2> QED
    BY <1>4, <2>1, <2>2
<1>6. [i \in DOMAIN t |-> Parsed(t[i])] = [i \in DOMAIN form |-> <<form[i]>>]
  BY <1>1, <1>2, <1>3
<1>7. FlattenSeq([i \in DOMAIN form |-> <<form[i]>>]) = form
  BY FlattenSingles
<1>8. ParsedText(raw) = form
  BY <1>4, <1>6, <1>7 DEF ParsedText
<1> QED
  BY <1>5, <1>8 DEF raw

\* The empty form has an empty text, which has no fields.
LEMMA NoFormIsParsed ==
    ASSUME NEW spaces
    PROVE  Encoded(<<>>, spaces) = <<>> /\ ParsedText(<<>>) = <<>>
<1>1. Encoded(<<>>, spaces) = <<>>
  <2>1. [i \in DOMAIN <<>> |-> EscapedField(<<>>[i], spaces)] = <<>>
    OBVIOUS
  <2>2. Encoded(<<>>, spaces) = Joined(<<>>, <<"&">>)
    BY <2>1 DEF Encoded
  <2>3. Separated(<<>>, <<"&">>) = <<>>
    BY DEF Separated
  <2>4. Joined(<<>>, <<"&">>) = FlattenSeq(Separated(<<>>, <<"&">>))
    BY DEF Joined, Separated
  <2> QED
    BY <2>2, <2>3, <2>4, FlattenEmpty
<1>2. split(<<>>, "&") = <<<<>>>>
  BY SplitSteps
<1>3. Parsed(<<>>) = <<>>
  <2>1. Places(<<>>, "=") = {}
    BY DEF Places
  <2>2. Index(<<>>, "=") = 0
    BY <2>1 DEF Index
  <2>3. ~ (0 > 0)
    OBVIOUS
  <2> QED
    BY <2>2, <2>3 DEF Parsed
<1>4. FlattenSeq(<<<<>>>>) = <<>>
  <2>1. <<>> \in Seq(Seq({})) /\ <<>> \in Seq({}) /\ Append(<<>>, <<>>) = <<<<>>>> /\ <<>> \o <<>> = <<>>
    OBVIOUS
  <2>2. FlattenSeq(Append(<<>>, <<>>)) = FlattenSeq(<<>>) \o <<>>
    BY <2>1, FlattenAppend
  <2> QED
    BY <2>1, <2>2, FlattenEmpty
<1> DEFINE l == <<<<>>>>
<1>5. [i \in DOMAIN l |-> Parsed(l[i])] = l
  <2>1. DOMAIN l = {1} /\ l[1] = <<>> /\ l = [i \in {1} |-> <<>>]
    OBVIOUS
  <2> HIDE DEF l
  <2> QED
    BY <1>3, <2>1
<1>6. ParsedText(<<>>) = <<>>
  BY <1>2, <1>4, <1>5 DEF ParsedText
<1> QED
  BY <1>1, <1>6

\* The texts of two parts of a form, with "&" between them, are the text of the whole.
LEMMA EncodedConcat ==
    ASSUME NEW D, Alphabet(D), NEW a \in Seq(FieldsOf(D)), NEW c \in Seq(FieldsOf(D)), NEW spaces,
           a # <<>>, c # <<>>
    PROVE  Cat(Cat(Encoded(a, spaces), <<"&">>), Encoded(c, spaces)) = Encoded(a \o c, spaces)
<1> DEFINE m == Len(a)  n == Len(c)  F == FieldsOf(D)  ac == a \o c
           ta == FieldTexts(a, spaces)  tc == FieldTexts(c, spaces)  t == FieldTexts(ac, spaces)
<1>1. /\ ac \in Seq(F) /\ m \in Nat /\ n \in Nat /\ m > 0 /\ n > 0 /\ Len(ac) = m + n
      /\ \A i \in 1 .. m : ac[i] = a[i]
      /\ \A i \in 1 .. n : ac[m + i] = c[i]
  <2>1. a \in Seq(F) /\ c \in Seq(F)
    OBVIOUS
  <2> HIDE DEF F
  <2> QED
    BY <2>1
<1>2. /\ ta \in Seq(Seq(D)) /\ Len(ta) = m /\ Encoded(a, spaces) = Joined(ta, <<"&">>)
      /\ tc \in Seq(Seq(D)) /\ Len(tc) = n /\ Encoded(c, spaces) = Joined(tc, <<"&">>)
  BY TextsFacts
<1> HIDE DEF ac
<1>3. t \in Seq(Seq(D)) /\ Len(t) = m + n /\ Encoded(ac, spaces) = Joined(t, <<"&">>)
  BY <1>1, TextsFacts
<1>4. /\ \A i \in 1 .. m : ta[i] = EscapedField(a[i], spaces)
      /\ \A i \in 1 .. n : tc[i] = EscapedField(c[i], spaces)
      /\ \A i \in 1 .. m + n : t[i] = EscapedField(ac[i], spaces)
  <2>1. DOMAIN a = 1 .. m /\ DOMAIN c = 1 .. n /\ DOMAIN ac = 1 .. m + n
    BY <1>1
  <2> QED
    BY <2>1 DEF FieldTexts
<1>5. t = ta \o tc
  <2> DEFINE P == Seq(D)
  <2>1. ta \in Seq(P) /\ tc \in Seq(P) /\ t \in Seq(P)
    BY <1>2, <1>3
  <2> HIDE DEF P, t, ta, tc, m, n
  <2> DEFINE r == ta \o tc
  <2>2. /\ r \in Seq(P) /\ Len(r) = m + n
        /\ \A i \in 1 .. m : r[i] = ta[i]
        /\ \A i \in 1 .. n : r[m + i] = tc[i]
    <3>1. /\ ta \o tc \in Seq(P) /\ Len(ta \o tc) = Len(ta) + Len(tc)
          /\ \A i \in 1 .. Len(ta) : (ta \o tc)[i] = ta[i]
          /\ \A i \in 1 .. Len(tc) : (ta \o tc)[Len(ta) + i] = tc[i]
      BY <2>1, ConcatPlaces
    <3>2. Len(ta) = m /\ Len(tc) = n
      BY <1>2
    <3> HIDE DEF r
    <3>3. r = ta \o tc
      BY DEF r
    <3> QED
      BY <3>1, <3>2, <3>3
  <2> HIDE DEF r
  <2>3. ASSUME NEW i \in 1 .. m + n
        PROVE  r[i] = t[i]
    <3>1. CASE i \in 1 .. m
      BY <1>1, <1>4, <2>2, <2>3, <3>1
    <3>2. CASE i \notin 1 .. m
      <4> DEFINE k == i - m
      <4>1. k \in 1 .. n /\ i = m + k
        BY <1>1, <3>2
      <4> HIDE DEF k
      <4> QED
        BY <1>1, <1>4, <2>2, <4>1
    <3> QED
      BY <3>1, <3>2
  <2>4. r = t
    BY <1>1, <1>3, <2>1, <2>2, <2>3, SeqEqual
  <2> QED
    BY <2>4 DEF r
<1> DEFINE b == <<"&">>
<1>6. b \in Seq(D)
  <2>1. "&" \in D
    BY DEF Alphabet, Marks
  <2> QED
    BY <2>1
<1>7. ta # <<>> /\ tc # <<>>
  BY <1>1, <1>2
<1>8. Encoded(a, spaces) = Joined(ta, b) /\ Encoded(c, spaces) = Joined(tc, b)
      /\ Encoded(ac, spaces) = Joined(t, b)
  BY <1>2, <1>3
<1> HIDE DEF b, ta, tc, t
<1>9. Joined(ta \o tc, b) = Cat(Cat(Joined(ta, b), b), Joined(tc, b))
  BY <1>2, <1>6, <1>7, JoinedConcat
<1>10. Cat(Cat(Encoded(a, spaces), b), Encoded(c, spaces)) = Encoded(ac, spaces)
  BY <1>5, <1>8, <1>9
<1> QED
  BY <1>10 DEF b, ac

\* What a form was filled with is decoded, wherever it is divided.
LEMMA FormIsDecoded ==
    ASSUME NEW D, Alphabet(D), NEW form \in Seq(FieldsOf(D)), NEW n \in 0 .. Len(form), NEW spaces
    PROVE  decodeRequestParams(Encoded(SubSeq(form, 1, n), spaces),
                               Encoded(SubSeq(form, n + 1, Len(form)), spaces)) = form
<1> DEFINE F == FieldsOf(D)  a == SubSeq(form, 1, n)  c == SubSeq(form, n + 1, Len(form))
           first == Encoded(a, spaces)  rest == Encoded(c, spaces)
<1>1. a \in Seq(F) /\ c \in Seq(F) /\ a \o c = form
  <2>1. form \in Seq(F)
    OBVIOUS
  <2> HIDE DEF F, a, c
  <2>2. a \in Seq(F) /\ Len(a) = n /\ \A i \in 1 .. n : a[i] = form[i]
    BY <2>1 DEF a
  <2>3. c \in Seq(F) /\ Len(c) = Len(form) - n /\ \A i \in 1 .. Len(form) - n : c[i] = form[n + i]
    BY <2>1 DEF c
  <2> DEFINE r == a \o c
  <2>4. /\ r \in Seq(F) /\ Len(r) = Len(form)
        /\ \A i \in 1 .. n : r[i] = a[i]
        /\ \A i \in 1 .. Len(form) - n : r[n + i] = c[i]
    BY <2>1, <2>2, <2>3
  <2> HIDE DEF r
  <2>5. ASSUME NEW i \in 1 .. Len(form)
        PROVE  r[i] = form[i]
    <3>1. CASE i \in 1 .. n
      BY <2>2, <2>4, <3>1
    <3>2. CASE i \notin 1 .. n
      <4> DEFINE k == i - n
      <4>1. k \in 1 .. Len(form) - n /\ i = n + k
        BY <2>1, <3>2
      <4> HIDE DEF k
      <4> QED
        BY <2>3, <2>4, <4>1
    <3> QED
      BY <3>1, <3>2
  <2>6. r = form
    BY <2>1, <2>4, <2>5, SeqEqual
  <2> QED
    BY <2>2, <2>3, <2>6 DEF r
<1> HIDE DEF a, c
<1>2. first \in Seq(D) /\ rest \in Seq(D)
  BY <1>1, TextsFacts
<1>3. a # <<>> => first # <<>>
  BY <1>1, FormIsParsed
<1>4. c # <<>> => rest # <<>>
  BY <1>1, FormIsParsed
<1>5. ASSUME NEW raw, raw = IF first # <<>> /\ rest # <<>> THEN (first \o <<"&">>) \o rest ELSE first \o rest
      PROVE  decodeRequestParams(first, rest) = ParsedText(raw)
  BY <1>5 DEF decodeRequestParams, ParsedText
<1>6. form # <<>> => ParsedText(Encoded(form, spaces)) = form
  BY FormIsParsed
<1>7. CASE a # <<>> /\ c # <<>>
  <2> DEFINE b == <<"&">>  ac == a \o c
  <2>5. Cat(Cat(first, b), rest) = Encoded(ac, spaces)
    BY <1>1, <1>7, EncodedConcat
  <2>6. Cat(Cat(first, b), rest) = (first \o b) \o rest
    <3> HIDE DEF first, rest, b
    <3> QED
      BY DEF Cat
  <2>7. ac = form
    BY <1>1
  <2> HIDE DEF first, rest, ac
  <2>1. (first \o <<"&">>) \o rest = Encoded(form, spaces)
    BY <2>5, <2>6, <2>7
  <2>2. form # <<>>
    BY <1>1, <1>7, ConcatEqualIffEmpty
  <2> HIDE DEF first, rest
  <2>3. first # <<>> /\ rest # <<>>
    BY <1>3, <1>4, <1>7
  <2>4. decodeRequestParams(first, rest) = ParsedText(Encoded(form, spaces))
    BY <1>5, <2>1, <2>3
  <2> QED
    BY <1>6, <2>2, <2>4 DEF first, rest, a, c
<1>8. CASE a = <<>> /\ c # <<>>
  <2>1. first = <<>>
    BY <1>8, NoFormIsParsed
  <2>2. form = c
    BY <1>1, <1>8
  <2> HIDE DEF first
  <2>3. rest = Encoded(form, spaces) /\ first \o rest = rest /\ form # <<>>
    BY <1>2, <1>8, <2>1, <2>2
  <2> HIDE DEF rest
  <2>4. decodeRequestParams(first, rest) = ParsedText(rest)
    BY <1>5, <2>1, <2>3
  <2> QED
    BY <1>6, <2>3, <2>4 DEF first, rest, a, c
<1>9. CASE a # <<>> /\ c = <<>>
  <2>1. rest = <<>>
    BY <1>9, NoFormIsParsed
  <2>2. form = a
    BY <1>1, <1>9
  <2> HIDE DEF rest
  <2>3. first = Encoded(form, spaces) /\ first \o rest = first /\ form # <<>>
    BY <1>2, <1>9, <2>1, <2>2
  <2> HIDE DEF first
  <2>4. decodeRequestParams(first, rest) = ParsedText(first)
    BY <1>5, <2>1, <2>3
  <2> QED
    BY <1>6, <2>3, <2>4 DEF first, rest, a, c
<1>10. CASE a = <<>> /\ c = <<>>
  <2>1. first = <<>> /\ rest = <<>> /\ ParsedText(<<>>) = <<>>
    BY <1>10, NoFormIsParsed
  <2>2. form = <<>>
    BY <1>1, <1>10
  <2> HIDE DEF first, rest
  <2>3. decodeRequestParams(first, rest) = ParsedText(<<>>)
    BY <1>5, <2>1
  <2> QED
    BY <2>1, <2>2, <2>3 DEF first, rest, a, c
<1> QED
  BY <1>7, <1>8, <1>9, <1>10

--------------------------------------------------------------------------------
\* The words of a text: the strings, and with them those that have a meaning.
Words == STRING \cup Marks \cup Digits

\* They are an alphabet, and forms are filled with them.
LEMMA FormsHaveWords == Alphabet(Words) /\ Forms \subseteq Seq(FieldsOf(Words))
<1>1. Alphabet(Words) /\ STRING \subseteq Words
  BY DEF Words, Alphabet
<1> DEFINE A == Seq(STRING)  B == Seq(Words)
<1>3. A \subseteq B
  BY <1>1, SeqOfMore
<1>4. [name : A, value : A] \subseteq FieldsOf(Words)
  <2>1. FieldsOf(Words) = [name : B, value : B]
    BY DEF FieldsOf
  <2> HIDE DEF A, B
  <2> QED
    BY <1>3, <2>1
<1>5. Seq([name : A, value : A]) \subseteq Seq(FieldsOf(Words))
  <2> HIDE DEF A, B
  <2> QED
    BY <1>4, SeqOfMore
<1> QED
  BY <1>1, <1>5, FormsAssumption

(* What the handler finds is what the form was filled with, in its order.  *)
ParametersInv == received => parameters = fields /\ fields \in Seq(FieldsOf(Words))

\* Nothing has been received at the start.
LEMMA ParametersInitInv == ParametersInit => ParametersInv
BY DEF ParametersInit, ParametersInv

\* A form is decoded, and a response clears what was found.
LEMMA ParametersNextInv == ParametersInv /\ [ParametersNext]_parameterVars => ParametersInv'
<1> SUFFICES ASSUME ParametersInv, [ParametersNext]_parameterVars
             PROVE  ParametersInv'
  OBVIOUS
<1>1. ASSUME NEW c \in SetCookies, setCookie(c)
      PROVE  ParametersInv'
  BY <1>1 DEF setCookie, Answered, ParametersInv
<1>2. ASSUME NEW f \in Forms, NEW spaces \in BOOLEAN, NEW n \in 0 .. Len(f), DecodeRequest(f, n, spaces)
      PROVE  ParametersInv'
  <2>1. f \in Seq(FieldsOf(Words))
    BY FormsHaveWords
  <2>2. decodeRequestParams(Encoded(SubSeq(f, 1, n), spaces),
                            Encoded(SubSeq(f, n + 1, Len(f)), spaces)) = f
    BY <2>1, FormsHaveWords, FormIsDecoded
  <2>3. parameters' = f /\ fields' = f
    BY <1>2, <2>2 DEF DecodeRequest
  <2> QED
    BY <2>1, <2>3 DEF ParametersInv
<1>3. CASE UNCHANGED parameterVars
  BY <1>3 DEF parameterVars, ParametersInv
<1> QED
  BY <1>1, <1>2, <1>3 DEF ParametersNext

\* Of the fields that have been found, the last of a name is the one that is read.
LEMMA FoundIsLast == ParametersInv => ParametersArrive
<1> SUFFICES ASSUME ParametersInv, received, NEW i \in DOMAIN fields,
                    \A j \in i + 1 .. Len(fields) : fields[j].name # fields[i].name
             PROVE  getParameter(fields[i].name) = fields[i].value
  BY DEF ParametersArrive
<1> DEFINE named == {j \in DOMAIN parameters : parameters[j].name = fields[i].name}  n == Len(fields)
<1>1. parameters = fields /\ n \in Nat /\ DOMAIN fields = 1 .. n
  BY DEF ParametersInv
<1>2. i \in named /\ named \in SUBSET (1 .. n) /\ named # {}
  BY <1>1
<1>3. \A j \in named : j \in 1 .. n /\ j <= i
  BY <1>1
<1> HIDE DEF n
<1>4. Max(named) = i
  <2> HIDE DEF named
  <2>1. Max(named) \in named /\ \A y \in named : Max(named) >= y
    BY <1>1, <1>2, MaxIsIn
  <2> QED
    BY <1>1, <1>2, <1>3, <2>1
<1>5. getParameter(fields[i].name) = parameters[Max(named)].value
  BY <1>2 DEF getParameter
<1> QED
  BY <1>1, <1>4, <1>5

(* What a form was filled with arrives, whatever bytes it holds and however *)
(* it is divided between the path and the body (decodeRequestParams,       *)
(* urlDecode, getParameter).                                               *)
THEOREM ParametersAlwaysArrive == ParametersSpec => []ParametersArrive
<1>1. ParametersSpec => []ParametersInv
  BY ParametersInitInv, ParametersNextInv, PTL DEF ParametersSpec
<1> QED
  BY <1>1, FoundIsLast, PTL

--------------------------------------------------------------------------------
\* A text that neither begins nor ends with a space.
Tight(s) == s # <<>> => s[1] # "space" /\ s[Len(s)] # "space"

\* The places of a text that are not spaces, first and last.
LEMMA UsedPlaces ==
    ASSUME NEW D, NEW s \in Seq(D), NEW used, used = DOMAIN s \ Places(s, "space"), used # {}
    PROVE  \E m \in 1 .. Len(s), x \in 1 .. Len(s) :
              /\ m <= x /\ s[m] # "space" /\ s[x] # "space"
              /\ \A i \in 1 .. Len(s) : s[i] # "space" => m <= i /\ i <= x
              /\ trimmed(s) = SubSeq(s, m, x)
<1> DEFINE n == Len(s)
<1>1. n \in Nat /\ DOMAIN s = 1 .. n
  OBVIOUS
<1> HIDE DEF n
<1>2. used \in SUBSET (1 .. n) /\ \A i \in 1 .. n : i \in used <=> s[i] # "space"
  BY <1>1 DEF Places
<1>3. Min(used) \in used /\ \A y \in used : Min(used) <= y
  BY <1>1, <1>2, MinIsIn
<1>4. Max(used) \in used /\ \A y \in used : Max(used) >= y
  BY <1>1, <1>2, MaxIsIn
<1>5. trimmed(s) = SubSeq(s, Min(used), Max(used))
  BY DEF trimmed
<1> DEFINE m == Min(used)  x == Max(used)
<1>6. /\ m \in 1 .. n /\ x \in 1 .. n /\ m <= x /\ s[m] # "space" /\ s[x] # "space"
      /\ \A i \in 1 .. n : s[i] # "space" => m <= i /\ i <= x
      /\ trimmed(s) = SubSeq(s, m, x)
  <2>1. m \in used /\ x \in used /\ m <= x
    BY <1>3, <1>4
  <2>2. \A i \in used : i \in 1 .. n /\ m <= i /\ i <= x
    BY <1>2, <1>3, <1>4
  <2> HIDE DEF m, x
  <2> QED
    BY <1>2, <1>5, <2>1, <2>2 DEF m, x
<1> HIDE DEF m, x
<1> QED
  BY <1>6 DEF n

\* What trimming leaves, and what it leaves as it is.
LEMMA TrimmedFacts ==
    ASSUME NEW D, NEW s \in Seq(D)
    PROVE  /\ trimmed(s) \in Seq(D)
           /\ Tight(trimmed(s))
           /\ trimmed(s) = s <=> Tight(s)
           /\ \A E : Without(s, E) => Without(trimmed(s), E)
<1> DEFINE n == Len(s)  used == DOMAIN s \ Places(s, "space")
<1>1. n \in Nat /\ DOMAIN s = 1 .. n
  OBVIOUS
<1>2. CASE used = {}
  <2>1. trimmed(s) = <<>> /\ \A i \in 1 .. n : s[i] = "space"
    BY <1>1, <1>2 DEF trimmed, Places
  <2>2. <<>> \in Seq(D) /\ Tight(<<>>)
    <3>1. <<>> \in Seq(D)
      OBVIOUS
    <3> QED
      BY <3>1 DEF Tight
  <2>3. \A E : Without(<<>>, E)
    BY DEF Without
  <2>4. Tight(s) => s = <<>>
    <3>1. s # <<>> => 1 \in 1 .. n
      BY <1>1
    <3> QED
      BY <2>1, <3>1 DEF Tight
  <2> QED
    BY <2>1, <2>2, <2>3, <2>4
<1>3. CASE used # {}
  <2>1. PICK m \in 1 .. n, x \in 1 .. n :
              /\ m <= x /\ s[m] # "space" /\ s[x] # "space"
              /\ \A i \in 1 .. n : s[i] # "space" => m <= i /\ i <= x
              /\ trimmed(s) = SubSeq(s, m, x)
    BY <1>3, UsedPlaces
  <2> HIDE DEF n, used
  <2> DEFINE t == SubSeq(s, m, x)  l == x - m + 1
  <2>2. t \in Seq(D) /\ Len(t) = l /\ \A i \in 1 .. l : t[i] = s[m + i - 1]
    BY <1>1, <2>1 DEF n
  <2>3. l \in Nat /\ l >= 1 /\ m + l - 1 = x /\ m + 1 - 1 = m /\ l <= n
    BY <1>1, <2>1
  <2>4. DOMAIN t = 1 .. l /\ 1 \in 1 .. l /\ l \in 1 .. l
    BY <2>2, <2>3
  <2> HIDE DEF t, l
  <2>5. t[1] = s[m] /\ t[l] = s[x]
    BY <2>2, <2>3, <2>4
  <2>6. Tight(t) /\ t # <<>>
    BY <2>1, <2>2, <2>4, <2>5 DEF Tight
  <2>7. ASSUME NEW E, Without(s, E)
        PROVE  Without(t, E)
    <3>1. \A i \in 1 .. l : m + i - 1 \in 1 .. n
      BY <1>1, <2>1, <2>3 DEF l
    <3> QED
      BY <1>1, <2>2, <2>4, <2>7, <3>1 DEF Without
  <2>8. t = s => Tight(s)
    BY <2>6
  <2>9. Tight(s) => t = s
    <3> SUFFICES ASSUME Tight(s)
                 PROVE  t = s
      OBVIOUS
    <3>1. s[1] # "space" /\ s[n] # "space" /\ 1 \in 1 .. n /\ n \in 1 .. n
      BY <1>1, <2>1 DEF Tight, n
    <3>2. m = 1 /\ x = n
      BY <1>1, <2>1, <3>1
    <3> QED
      BY <3>2 DEF t, n
  <2> QED
    BY <2>1, <2>2, <2>6, <2>7, <2>8, <2>9 DEF t
<1> QED
  BY <1>2, <1>3

\* A space before a text is trimmed away.
LEMMA SpaceIsTrimmed ==
    ASSUME NEW D, NEW q \in Seq(D), "space" \in D, Tight(q), q # <<>>
    PROVE  trimmed(<<"space">> \o q) = q
<1> DEFINE s == <<"space">> \o q  n == Len(q)  used == DOMAIN s \ Places(s, "space")
<1>1. n \in Nat /\ n >= 1 /\ s \in Seq(D) /\ Len(s) = n + 1 /\ s[1] = "space"
      /\ \A i \in 1 .. n : s[i + 1] = q[i]
  OBVIOUS
<1>2. q[1] # "space" /\ q[n] # "space"
  BY DEF Tight
<1> HIDE DEF s, n
<1>3. s[2] # "space" /\ s[n + 1] # "space"
  <2>1. 1 \in 1 .. n /\ n \in 1 .. n /\ 1 + 1 = 2
    BY <1>1
  <2> QED
    BY <1>1, <1>2, <2>1
<1>4. used # {}
  <2>1. 2 \in DOMAIN s
    BY <1>1
  <2> QED
    BY <1>3, <2>1 DEF Places
<1> HIDE DEF used
<1>5. PICK m \in 1 .. n + 1, x \in 1 .. n + 1 :
              /\ m <= x /\ s[m] # "space" /\ s[x] # "space"
              /\ \A i \in 1 .. n + 1 : s[i] # "space" => m <= i /\ i <= x
              /\ trimmed(s) = SubSeq(s, m, x)
  BY <1>1, <1>4, UsedPlaces DEF used
<1>6. m = 2 /\ x = n + 1
  <2>1. 2 \in 1 .. n + 1 /\ n + 1 \in 1 .. n + 1
    BY <1>1
  <2>2. m # 1
    BY <1>1, <1>5
  <2> QED
    BY <1>1, <1>3, <1>5, <2>1, <2>2
<1>7. SubSeq(s, 2, n + 1) = q
  <2> DEFINE t == SubSeq(s, 2, n + 1)
  <2>1. t \in Seq(D) /\ Len(t) = n /\ \A i \in 1 .. n : t[i] = s[i + 1]
    BY <1>1
  <2> HIDE DEF t
  <2>2. \A i \in 1 .. n : t[i] = q[i]
    BY <1>1, <2>1
  <2>3. t = q
    BY <2>1, <2>2, SeqEqual DEF n
  <2> QED
    BY <2>3 DEF t
<1> QED
  BY <1>5, <1>6, <1>7 DEF s

--------------------------------------------------------------------------------
\* What splitCSV has found so far.
NoParts == [list |-> <<>>, buffer |-> <<>>, inString |-> FALSE]
PartsOf(source) == FoldLeft(SplitCSVByte, NoParts, source)
PartsType(D) == [list : Seq(Seq(D)), buffer : Seq(D), inString : BOOLEAN]

\* splitCSV, byte by byte.
LEMMA PartsSteps ==
    ASSUME NEW D
    PROVE  /\ PartsOf(<<>>) = NoParts
           /\ \A s \in Seq(D) : PartsOf(s) \in PartsType(D)
           /\ \A s \in Seq(D), c \in D : PartsOf(Append(s, c)) = SplitCSVByte(PartsOf(s), c)
<1> DEFINE S == PartsType(D)
           step == [x \in S \X D |-> SplitCSVByte(x[1], x[2])]
           base == NoParts
<1>1. ASSUME NEW v \in S, NEW c \in D
      PROVE  SplitCSVByte(v, c) \in S
  <2>1. v.list \in Seq(Seq(D)) /\ v.buffer \in Seq(D) /\ v.inString \in BOOLEAN
    BY DEF PartsType
  <2>2. trimmed(v.buffer) \in Seq(D)
    BY <2>1, TrimmedFacts
  <2>3. PartEnded(v) \in Seq(Seq(D))
    <3> DEFINE l == v.list  t == trimmed(v.buffer)
    <3>1. l \in Seq(Seq(D)) /\ t \in Seq(D)
      BY <2>1, <2>2
    <3>2. PartEnded(v) = IF t = <<>> THEN l ELSE Append(l, t)
      BY DEF PartEnded
    <3> HIDE DEF l, t
    <3> QED
      BY <3>1, <3>2
  <2>4. Append(v.buffer, c) \in Seq(D) /\ <<>> \in Seq(D)
    BY <2>1
  <2>5. CASE c = "quote"
    BY <2>1, <2>5 DEF SplitCSVByte, PartsType
  <2>6. CASE c # "quote" /\ (c = "semicolon" /\ ~ v.inString)
    BY <2>1, <2>3, <2>4, <2>6 DEF SplitCSVByte, PartsType
  <2>7. CASE c # "quote" /\ ~ (c = "semicolon" /\ ~ v.inString)
    BY <2>1, <2>4, <2>7 DEF SplitCSVByte, PartsType
  <2> QED
    BY <2>5, <2>6, <2>7
<1>2. IsStep(step, S, D)
  BY <1>1 DEF IsStep
<1>3. \A v \in S, c \in D : step[<<v, c>>] = SplitCSVByte(v, c)
  OBVIOUS
<1>4. base \in S
  BY DEF NoParts, PartsType
<1> HIDE DEF S, step, base
<1>5. ASSUME NEW s \in Seq(D)
      PROVE  PartsOf(s) = Iterated(step, base, s)
  <2> DEFINE IsFold(it) == it = [T \in SUBSET DOMAIN s |->
                               IF T = {} THEN base ELSE SplitCSVByte(it[T \ {Max(T)}], s[Max(T)])]
             it == CHOOSE f : IsFold(f)
  <2>1. PartsOf(s) = it[DOMAIN s]
    BY Zenon DEF PartsOf, FoldLeft, MapThenFoldSet, base
  <2>2. PICK f \in [SUBSET DOMAIN s -> S] : Folding(f, s, base, step)
    BY <1>2, <1>4, FoldingExists
  <2>3. IsFold(f)
    <3>1. ASSUME NEW T \in SUBSET DOMAIN s, T # {}
          PROVE  s[Max(T)] \in D /\ f[T \ {Max(T)}] \in S
      BY <2>2, <3>1, LastPlace
    <3> QED
      BY <1>3, <2>2, <3>1 DEF Folding
  <2> HIDE DEF IsFold
  <2>4. IsFold(it)
    BY <2>3
  <2> HIDE DEF it
  <2>5. Follows(it, s, base, step, S)
    <3>1. \A T \in SUBSET DOMAIN s : it[T] = IF T = {} THEN base ELSE SplitCSVByte(it[T \ {Max(T)}], s[Max(T)])
      BY <2>4, Zenon DEF IsFold
    <3>2. ASSUME NEW T \in SUBSET DOMAIN s, T # {}
          PROVE  s[Max(T)] \in D
      BY <3>2, LastPlace
    <3> QED
      BY <1>3, <3>1, <3>2 DEF Follows
  <2> QED
    BY <1>2, <1>4, <2>1, <2>5, FollowsIterated
<1>6. \A s \in Seq(D), c \in D : Append(s, c) \in Seq(D)
  OBVIOUS
<1>7. <<>> \in Seq(D)
  OBVIOUS
<1>8. Iterated(step, base, <<>>) = base
  BY IteratedEmpty
<1>9. ASSUME NEW s \in Seq(D)
      PROVE  /\ Iterated(step, base, s) \in S
             /\ \A c \in D : Iterated(step, base, Append(s, c)) = step[<<Iterated(step, base, s), c>>]
  BY <1>2, <1>4, IteratedAppend
<1>10. PartsOf(<<>>) = base
  BY <1>5, <1>7, <1>8
<1>11. \A s \in Seq(D) : PartsOf(s) \in S
  BY <1>5, <1>9
<1>12. ASSUME NEW s \in Seq(D), NEW c \in D
       PROVE  PartsOf(Append(s, c)) = SplitCSVByte(PartsOf(s), c)
  <2>1. PartsOf(Append(s, c)) = step[<<PartsOf(s), c>>]
    BY <1>5, <1>6, <1>9
  <2> QED
    BY <1>3, <1>11, <2>1
<1> QED
  BY <1>10, <1>11, <1>12 DEF base, S

\* A byte of a part.
LEMMA PartByte ==
    ASSUME NEW D, NEW v \in PartsType(D), NEW c \in D, c # "quote",
           c # "semicolon" \/ v.inString
    PROVE  SplitCSVByte(v, c) = [list |-> v.list, buffer |-> Append(v.buffer, c), inString |-> v.inString]
BY DEF SplitCSVByte, PartsType

\* What splitCSV gives a meaning.
Signs == {"semicolon", "quote"}

\* A text without semicolons and quotes makes the buffer longer.
LEMMA PartsPiece ==
    ASSUME NEW D, NEW s \in Seq(D), NEW q \in Seq(D), Without(q, Signs), ~ PartsOf(s).inString
    PROVE  PartsOf(Cat(s, q))
             = [list |-> PartsOf(s).list, buffer |-> Cat(PartsOf(s).buffer, q), inString |-> FALSE]
<1> DEFINE Longer(r) == [list |-> PartsOf(s).list, buffer |-> Cat(PartsOf(s).buffer, r), inString |-> FALSE]
           Right(r) == Without(r, Signs) => PartsOf(Cat(s, r)) = Longer(r)
           T == {r \in Seq(D) : Right(r)}
<1>1. PartsOf(s) \in PartsType(D)
  BY PartsSteps
<1>5. PartsOf(s).list \in Seq(Seq(D)) /\ PartsOf(s).buffer \in Seq(D)
      /\ PartsOf(s) = [list |-> PartsOf(s).list, buffer |-> PartsOf(s).buffer, inString |-> FALSE]
  BY <1>1 DEF PartsType
<1>2. <<>> \in T
  <2>1. <<>> \in Seq(D) /\ Cat(s, <<>>) = s /\ Cat(PartsOf(s).buffer, <<>>) = PartsOf(s).buffer
    BY <1>5 DEF Cat
  <2> QED
    BY <1>5, <2>1
<1>3. ASSUME NEW r \in Seq(D) \cap T, NEW c \in D
      PROVE  Append(r, c) \in T
  <2>4. r \in Seq(D) /\ Append(r, c) \in Seq(D) /\ Right(r)
    OBVIOUS
  <2> HIDE DEF T
  <2>1. Append(r, c) \in Seq(D) /\ Cat(s, Append(r, c)) = Append(Cat(s, r), c) /\ Cat(s, r) \in Seq(D) /\ Right(r)
    <3> HIDE DEF Right
    <3>1. Cat(s, Append(r, c)) = Append(Cat(s, r), c)
      BY <2>4, CatAppend
    <3>2. Cat(s, r) \in Seq(D)
      BY <2>4, CatFacts
    <3> QED
      BY <2>4, <3>1, <3>2
  <2> HIDE DEF Right
  <2>2. ASSUME Without(Append(r, c), Signs)
        PROVE  PartsOf(Cat(s, Append(r, c))) = Longer(Append(r, c))
    <3>1. Without(r, Signs) /\ c \notin Signs
      <4> DEFINE l == Len(r) + 1
      <4>1. \A i \in DOMAIN r : i \in DOMAIN Append(r, c) /\ Append(r, c)[i] = r[i]
        OBVIOUS
      <4>2. l \in DOMAIN Append(r, c) /\ Append(r, c)[l] = c
        OBVIOUS
      <4> HIDE DEF l, Longer
      <4> QED
        BY <2>2, <4>1, <4>2 DEF Without
    <3> DEFINE b == PartsOf(s).buffer  l == PartsOf(s).list
    <3>2. Append(Cat(b, r), c) = Cat(b, Append(r, c))
      <4>1. b \in Seq(D)
        BY <1>5
      <4> HIDE DEF b, Longer, T
      <4> QED
        BY <2>4, <4>1, CatAppend
    <3>3. c # "quote" /\ c # "semicolon"
      BY <3>1 DEF Signs
    <3>4. Longer(r) = [list |-> l, buffer |-> Cat(b, r), inString |-> FALSE]
          /\ Longer(Append(r, c)) = [list |-> l, buffer |-> Cat(b, Append(r, c)), inString |-> FALSE]
      OBVIOUS
    <3> HIDE DEF b, l, Longer
    <3>5. PartsOf(Append(Cat(s, r), c)) = SplitCSVByte(PartsOf(Cat(s, r)), c)
      BY <2>1, PartsSteps
    <3>6. PartsOf(Cat(s, r)) = Longer(r)
      BY <2>1, <3>1 DEF Right
    <3>7. Longer(r) \in PartsType(D) /\ ~ Longer(r).inString
      <4>1. PartsOf(Cat(s, r)) \in PartsType(D)
        BY <2>1, PartsSteps
      <4>2. Longer(r).inString = FALSE
        BY <3>4
      <4> QED
        BY <3>6, <4>1, <4>2
    <3>10. SplitCSVByte(Longer(r), c) = Longer(Append(r, c))
      <4> DEFINE u == Cat(b, r)  g == Longer(r)
      <4>1. g.list = l /\ g.buffer = u /\ g.inString = FALSE
        BY <3>4
      <4> HIDE DEF g, u
      <4>2. SplitCSVByte(g, c) = [list |-> l, buffer |-> Append(u, c), inString |-> FALSE]
        BY <3>3, <3>7, <4>1, PartByte DEF g
      <4> QED
        BY <3>2, <3>4, <4>2 DEF g, u
    <3> QED
      BY <2>1, <3>5, <3>6, <3>10
  <2>3. Right(Append(r, c))
    BY <2>2 DEF Right
  <2> QED
    BY <2>1, <2>3 DEF T
<1>4. Seq(D) \subseteq T
  <2> HIDE DEF T
  <2> QED
    BY <1>2, <1>3, SequenceInduction
<1> QED
  BY <1>4

\* A text that splitCSV leaves as it is.
IsPart(q) == q # <<>> /\ Tight(q) /\ Without(q, Signs)

\* A semicolon ends a part.
LEMMA PartsEnd ==
    ASSUME NEW D, "semicolon" \in D, "space" \in D, NEW t \in Seq(D), ~ PartsOf(t).inString
    PROVE  /\ Cat(t, Break) \in Seq(D) /\ splitCSV(t) \in Seq(Seq(D))
           /\ PartsOf(Cat(t, Break)) = [list |-> splitCSV(t), buffer |-> <<"space">>, inString |-> FALSE]
<1> DEFINE u == Append(t, "semicolon")  w == Append(u, "space")
<1>1. u \in Seq(D) /\ w \in Seq(D) /\ w = Cat(t, Break)
  <2>1. w = t \o <<"semicolon", "space">>
    OBVIOUS
  <2> QED
    BY <2>1 DEF Cat, Break
<1>2. PartsOf(t) \in PartsType(D) /\ PartsOf(u) = SplitCSVByte(PartsOf(t), "semicolon")
      /\ PartsOf(u) \in PartsType(D)
  BY <1>1, PartsSteps
<1>3. splitCSV(t) = PartEnded(PartsOf(t))
  BY DEF splitCSV, PartsOf, NoParts
<1>4. PartsOf(u) = [list |-> splitCSV(t), buffer |-> <<>>, inString |-> FALSE]
  <2> DEFINE v == PartsOf(t)
  <2>1. v \in PartsType(D) /\ ~ v.inString
    BY <1>2
  <2> HIDE DEF v
  <2>2. SplitCSVByte(v, "semicolon") = [v EXCEPT !.list = PartEnded(v), !.buffer = <<>>]
    BY <2>1 DEF SplitCSVByte
  <2>3. SplitCSVByte(v, "semicolon") = [list |-> PartEnded(v), buffer |-> <<>>, inString |-> FALSE]
    BY <2>1, <2>2 DEF PartsType
  <2> QED
    BY <1>2, <1>3, <2>3 DEF v
<1>5. splitCSV(t) \in Seq(Seq(D))
  BY <1>2, <1>4 DEF PartsType
<1>6. PartsOf(w) = SplitCSVByte(PartsOf(u), "space")
  BY <1>1, PartsSteps
<1> DEFINE v == PartsOf(u)  l == splitCSV(t)
<1>7. v \in PartsType(D) /\ v.list = l /\ v.buffer = <<>> /\ v.inString = FALSE
  BY <1>2, <1>4
<1> HIDE DEF v, l, u, w
<1>8. SplitCSVByte(v, "space") = [list |-> l, buffer |-> Append(<<>>, "space"), inString |-> FALSE]
  BY <1>7, PartByte
<1>9. Append(<<>>, "space") = <<"space">>
  OBVIOUS
<1> QED
  BY <1>1, <1>5, <1>6, <1>8, <1>9 DEF v, l

\* What is left at the end is the last part.
LEMMA PartsLast ==
    ASSUME NEW D, NEW q \in Seq(D), IsPart(q), NEW s, NEW l \in Seq(Seq(D)), NEW b,
           PartsOf(s) = [list |-> l, buffer |-> b, inString |-> FALSE], trimmed(b) = q
    PROVE  splitCSV(s) = Append(l, q)
<1>1. splitCSV(s) = PartEnded(PartsOf(s))
  BY DEF splitCSV, PartsOf, NoParts
<1>2. PartsOf(s).list = l /\ PartsOf(s).buffer = b
  OBVIOUS
<1> QED
  BY <1>1, <1>2 DEF PartEnded, IsPart

\* One part more.
LEMMA PartsMore ==
    ASSUME NEW D, "semicolon" \in D, "space" \in D, NEW t \in Seq(D), ~ PartsOf(t).inString,
           NEW q \in Seq(D), IsPart(q)
    PROVE  /\ splitCSV(Cat(Cat(t, Break), q)) = Append(splitCSV(t), q)
           /\ ~ PartsOf(Cat(Cat(t, Break), q)).inString
<1> DEFINE u == Cat(t, Break)  l == splitCSV(t)  b == <<"space">>
<1>1. u \in Seq(D) /\ l \in Seq(Seq(D)) /\ PartsOf(u) = [list |-> l, buffer |-> b, inString |-> FALSE]
  BY PartsEnd
<1>2. trimmed(Cat(b, q)) = q
  BY SpaceIsTrimmed DEF Cat, IsPart
<1> HIDE DEF u, l, b
<1>3. PartsOf(u).list = l /\ PartsOf(u).buffer = b /\ ~ PartsOf(u).inString
  BY <1>1
<1>4. PartsOf(Cat(u, q)) = [list |-> l, buffer |-> Cat(b, q), inString |-> FALSE]
  BY <1>1, <1>3, PartsPiece DEF IsPart
<1>5. splitCSV(Cat(u, q)) = Append(l, q)
  BY <1>1, <1>2, <1>4, PartsLast
<1> QED
  BY <1>4, <1>5 DEF u, l

\* One part only.
LEMMA PartsOne ==
    ASSUME NEW D, NEW q \in Seq(D), IsPart(q)
    PROVE  splitCSV(q) = <<q>> /\ ~ PartsOf(q).inString
<1> DEFINE e == <<>>
<1>1. e \in Seq(D) /\ e \in Seq(Seq(D)) /\ Cat(e, q) = q /\ Append(e, q) = <<q>>
  BY DEF Cat
<1>2. PartsOf(e).list = e /\ PartsOf(e).buffer = e /\ ~ PartsOf(e).inString
  BY PartsSteps DEF NoParts
<1>3. trimmed(q) = q
  BY TrimmedFacts DEF IsPart
<1> HIDE DEF e
<1>4. PartsOf(Cat(e, q)) = [list |-> e, buffer |-> Cat(e, q), inString |-> FALSE]
  BY <1>1, <1>2, PartsPiece DEF IsPart
<1>5. PartsOf(q) = [list |-> e, buffer |-> q, inString |-> FALSE]
  BY <1>1, <1>4
<1>6. splitCSV(q) = Append(e, q)
  <2>1. splitCSV(q) = PartEnded(PartsOf(q))
    BY DEF splitCSV, PartsOf, NoParts
  <2>2. PartsOf(q).list = e /\ PartsOf(q).buffer = q
    BY <1>5
  <2> QED
    BY <1>3, <2>1, <2>2 DEF PartEnded, IsPart
<1> QED
  BY <1>1, <1>5, <1>6

\* No text has no parts.
LEMMA PartsNone == splitCSV(<<>>) = <<>> /\ ~ PartsOf(<<>>).inString
<1>1. splitCSV(<<>>) = PartEnded(PartsOf(<<>>))
  BY DEF splitCSV, PartsOf, NoParts
<1>2. PartsOf(<<>>) = NoParts
  BY PartsSteps
<1>3. trimmed(<<>>) = <<>>
  BY DEF trimmed
<1> QED
  BY <1>1, <1>2, <1>3 DEF PartEnded, NoParts

\* Parts that are joined with semicolons are split there.
LEMMA PartsJoined ==
    ASSUME NEW D, "semicolon" \in D, "space" \in D, NEW texts \in Seq(Seq(D)),
           \A i \in DOMAIN texts : IsPart(texts[i])
    PROVE  /\ Joined(texts, Break) \in Seq(D)
           /\ splitCSV(Joined(texts, Break)) = texts
           /\ ~ PartsOf(Joined(texts, Break)).inString
<1> DEFINE Parts(t) == \A i \in DOMAIN t : IsPart(t[i])
           Splits(t) == Parts(t) => splitCSV(Joined(t, Break)) = t /\ ~ PartsOf(Joined(t, Break)).inString
           P == Seq(D)
           T == {t \in Seq(P) : Splits(t)}
<1>1. Break \in Seq(D)
  BY DEF Break
<1>2. <<>> \in T
  <2>1. Joined(<<>>, Break) = <<>>
    <3>1. Separated(<<>>, Break) = <<>>
      BY DEF Separated
    <3>2. Joined(<<>>, Break) = FlattenSeq(Separated(<<>>, Break))
      BY DEF Joined, Separated
    <3> QED
      BY <3>1, <3>2, FlattenEmpty
  <2>2. <<>> \in Seq(P)
    OBVIOUS
  <2> QED
    BY <2>1, <2>2, PartsNone
<1>3. ASSUME NEW t \in Seq(P) \cap T, NEW q \in P
      PROVE  Append(t, q) \in T
  <2>1. t \in Seq(Seq(D)) /\ q \in Seq(D) /\ Append(t, q) \in Seq(P) /\ Splits(t)
    OBVIOUS
  <2> HIDE DEF T
  <2>2. ASSUME Parts(Append(t, q))
        PROVE  /\ splitCSV(Joined(Append(t, q), Break)) = Append(t, q)
               /\ ~ PartsOf(Joined(Append(t, q), Break)).inString
    <3>1. Parts(t) /\ IsPart(q)
      <4> DEFINE l == Len(t) + 1
      <4>1. \A i \in DOMAIN t : i \in DOMAIN Append(t, q) /\ Append(t, q)[i] = t[i]
        BY <2>1
      <4>2. l \in DOMAIN Append(t, q) /\ Append(t, q)[l] = q
        BY <2>1
      <4> HIDE DEF l
      <4> QED
        BY <2>2, <4>1, <4>2
    <3>2. CASE Len(t) = 0
      <4>1. Append(t, q) = <<q>>
        BY <2>1, <3>2
      <4>2. Joined(<<q>>, Break) = q
        BY <1>1, <2>1, JoinedOne
      <4> QED
        BY <2>1, <3>1, <4>1, <4>2, PartsOne
    <3>3. CASE Len(t) # 0
      <4> DEFINE j == Joined(t, Break)
      <4>1. t # <<>>
        BY <3>3
      <4>2. Joined(Append(t, q), Break) = Cat(Cat(j, Break), q) /\ j \in Seq(D)
        BY <1>1, <2>1, <4>1, JoinedMore, JoinedAppend
      <4>3. splitCSV(j) = t /\ ~ PartsOf(j).inString
        BY <2>1, <3>1
      <4> HIDE DEF j
      <4> QED
        BY <2>1, <3>1, <4>2, <4>3, PartsMore
    <3> QED
      BY <3>2, <3>3
  <2>3. Splits(Append(t, q))
    BY <2>2
  <2> HIDE DEF Splits
  <2> QED
    BY <2>1, <2>3 DEF T
<1>4. Seq(P) \subseteq T
  <2> HIDE DEF T, P
  <2> QED
    BY <1>2, <1>3, SequenceInduction
<1>5. Joined(texts, Break) \in Seq(D)
  <2>1. \E q : q \in Seq(D)
    BY <1>1
  <2> QED
    BY <1>1, <2>1, JoinedAppend
<1> QED
  BY <1>4, <1>5

--------------------------------------------------------------------------------
\* A name in which nothing has a meaning.
NameMarks == {"space", "=", "semicolon", "quote"}
Token(n) == n # <<>> /\ Without(n, NameMarks)

\* A value, and what is read of it.
IsValue(v) == Tight(v) /\ Without(v, Signs)

\* A quiet text is a value.
LEMMA QuietIsValue ==
    ASSUME NEW D, NEW v \in Seq(D), Quiet(v)
    PROVE  IsValue(v)
<1>1. Tight(v)
  BY TrimmedFacts DEF Quiet
<1>2. Without(v, Signs)
  BY DEF Quiet, Places, Without, Signs
<1> QED
  BY <1>1, <1>2 DEF IsValue

\* A name is tight.
LEMMA TokenIsTight ==
    ASSUME NEW D, NEW n \in Seq(D), Token(n)
    PROVE  Tight(n) /\ trimmed(n) = n /\ Without(n, {"="}) /\ Without(n, Signs)
           /\ Without(n, {"semicolon"})
<1>1. Len(n) \in Nat /\ DOMAIN n = 1 .. Len(n) /\ n # <<>>
  BY DEF Token
<1>2. 1 \in DOMAIN n /\ Len(n) \in DOMAIN n
  BY <1>1
<1>3. Tight(n)
  BY <1>2 DEF Tight, Token, Without, NameMarks
<1>4. trimmed(n) = n
  BY <1>3, TrimmedFacts
<1>5. Without(n, {"="}) /\ Without(n, Signs) /\ Without(n, {"semicolon"})
  BY DEF Token, Without, NameMarks, Signs
<1> QED
  BY <1>3, <1>4, <1>5

\* A name and a value make a part, which is read as they are.
LEMMA PairIsPart ==
    ASSUME NEW D, "=" \in D, NEW c, c.name \in Seq(D), c.value \in Seq(D),
           Token(c.name), IsValue(c.value)
    PROVE  /\ Pair(c) \in Seq(D) /\ IsPart(Pair(c))
           /\ NameAndValue(Pair(c)) = [name |-> c.name, value |-> c.value]
<1> DEFINE a == c.name  b == c.value  p == Pair(c)  n == Len(a)  e == <<"=">>
<1>1. a \in Seq(D) /\ b \in Seq(D) /\ Token(a) /\ IsValue(b) /\ e \in Seq(D)
  OBVIOUS
<1>2. Tight(a) /\ trimmed(a) = a /\ Without(a, {"="}) /\ Without(a, Signs)
  BY TokenIsTight
<1>3. trimmed(b) = b
  BY TrimmedFacts DEF IsValue
<1>4. p \in Seq(D) /\ p # <<>> /\ Index(p, "=") = n + 1
      /\ Before(p, n + 1) = a /\ After(p, n + 1) = b
  BY <1>2, PairParts
<1>5. p = (a \o e) \o b
  BY DEF Pair
<1>6. n \in Nat /\ n > 0 /\ a # <<>>
  BY DEF Token
<1>7. NameAndValue(p) = [name |-> a, value |-> b]
  <2>1. n + 1 # 1
    BY <1>6
  <2> HIDE DEF p, a, b, n
  <2> QED
    BY <1>2, <1>3, <1>4, <2>1 DEF NameAndValue
<1> HIDE DEF a, b, p, n, e
<1>8. Without(p, Signs)
  <2>1. Without(e, Signs) /\ Without(b, Signs)
    BY <1>1 DEF e, Without, Signs, IsValue
  <2>2. Without(a \o e, Signs)
    BY <1>1, <1>2, <2>1, WithoutConcat
  <2> DEFINE ae == a \o e
  <2>3. ae \in Seq(D)
    BY <1>1
  <2> HIDE DEF ae
  <2>4. Without(ae \o b, Signs)
    BY <1>1, <2>1, <2>2, <2>3, WithoutConcat DEF ae
  <2> QED
    BY <1>5, <2>4 DEF ae
<1>9. Tight(p)
  <2>1. /\ Len(p) = Len(a) + 1 + Len(b) /\ Len(a) \in Nat /\ Len(a) > 0 /\ Len(b) \in Nat
        /\ \A i \in 1 .. Len(a) : p[i] = a[i]
        /\ p[Len(a) + 1] = "="
        /\ \A i \in 1 .. Len(b) : p[Len(a) + 1 + i] = b[i]
    BY <1>1, <1>5, <1>6 DEF e, n
  <2>2. p[1] # "space"
    BY <1>2, <1>6, <2>1 DEF Tight
  <2>3. CASE Len(b) = 0
    BY <2>1, <2>2, <2>3 DEF Tight
  <2>4. CASE Len(b) # 0
    <3>1. b[Len(b)] # "space" /\ Len(b) \in 1 .. Len(b)
      BY <1>1, <2>1, <2>4 DEF IsValue, Tight
    <3>2. p[Len(p)] = b[Len(b)]
      BY <2>1, <3>1
    <3> QED
      BY <2>2, <3>1, <3>2 DEF Tight
  <2> QED
    BY <2>1, <2>3, <2>4
<1> QED
  BY <1>4, <1>7, <1>8, <1>9 DEF IsPart, p, a, b

--------------------------------------------------------------------------------
\* One part more, if it is given.
With(a, given, p) == IF given THEN Append(a, p) ELSE a

\* The parts of the text of a cookie.
PartsOfCookie(c) ==
    LET a0 == <<Pair(c)>>
        a1 == With(a0, c.comment # <<>>, Valued("Comment", c.comment))
        a2 == With(a1, c.domain # <<>>, Valued("Domain", c.domain))
        a3 == With(a2, c.maxAge # <<"0">>, Valued("Max-Age", c.maxAge))
        a4 == With(a3, c.path # <<>>, Valued("Path", c.path))
        a5 == With(a4, c.secure, <<"Secure">>)
        a6 == With(a5, c.httpOnly, <<"HttpOnly">>)
    IN  With(a6, TRUE, Valued("Version", <<"1">>))

\* A text that begins with another one, which is followed by a semicolon.
Begins(D, x, t) == \E r \in Seq(D) : t = Cat(x, Cat(Break, r))

\* What has been written so far are parts, joined with semicolons.
Stage(D, x, t, a) ==
    /\ a \in Seq(Seq(D)) /\ a # <<>> /\ t \in Seq(D)
    /\ t = Joined(a, Break)
    /\ t = x \/ Begins(D, x, t)

\* An attribute more.
LEMMA StageMore ==
    ASSUME NEW D, "semicolon" \in D, "space" \in D, NEW x \in Seq(D), NEW t, NEW a,
           Stage(D, x, t, a), NEW p \in Seq(D)
    PROVE  /\ Stage(D, x, Cat(t, Cat(Break, p)), Append(a, p))
           /\ Begins(D, x, Cat(t, Cat(Break, p)))
<1> DEFINE P == Seq(D)  bp == Cat(Break, p)
<1>1. a \in Seq(Seq(D)) /\ a # <<>> /\ t = Joined(a, Break) /\ t \in Seq(D)
      /\ (t = x \/ Begins(D, x, t))
  BY DEF Stage
<1>2. Break \in Seq(D)
  BY DEF Break
<1>3. bp \in Seq(D)
  BY <1>2, CatFacts
<1>5. Joined(Append(a, p), Break) = Cat(Cat(t, Break), p)
  BY <1>1, <1>2, JoinedMore
<1>6. Cat(Cat(t, Break), p) = Cat(t, bp)
  BY <1>1, <1>2, CatFacts
<1> HIDE DEF bp
<1>7. Cat(t, bp) \in Seq(D)
  BY <1>1, <1>3, CatFacts
<1>9. Begins(D, x, Cat(t, bp))
  <2>1. CASE t = x
    BY <2>1 DEF Begins, bp
  <2>2. CASE Begins(D, x, t)
    <3>1. PICK r \in Seq(D) : t = Cat(x, Cat(Break, r))
      BY <2>2 DEF Begins
    <3> DEFINE br == Cat(Break, r)  rp == Cat(r, bp)
    <3>2. br \in Seq(D) /\ rp \in Seq(D)
      BY <1>2, <1>3, CatFacts
    <3>3. Cat(br, bp) = Cat(Break, rp)
      BY <1>2, <1>3, CatFacts
    <3>4. t = Cat(x, br)
      BY <3>1
    <3> HIDE DEF br, rp
    <3>5. Cat(t, bp) = Cat(x, Cat(br, bp))
      BY <1>3, <3>2, <3>4, CatFacts
    <3> QED
      BY <3>2, <3>3, <3>5 DEF Begins
  <2> QED
    BY <1>1, <2>1, <2>2
<1>10. Append(a, p) \in Seq(Seq(D)) /\ Append(a, p) # <<>>
  <2>1. a \in Seq(P) /\ p \in P
    BY <1>1
  <2> HIDE DEF P
  <2>2. Append(a, p) \in Seq(P) /\ Append(a, p) # <<>>
    BY <2>1
  <2> QED
    BY <2>2 DEF P
<1>11. Stage(D, x, Cat(t, bp), Append(a, p))
  BY <1>5, <1>6, <1>7, <1>9, <1>10 DEF Stage
<1> QED
  BY <1>9, <1>11 DEF bp

\* An attribute more, if it is given.
LEMMA StageAttribute ==
    ASSUME NEW D, "semicolon" \in D, "space" \in D, NEW x \in Seq(D), NEW t, NEW a,
           Stage(D, x, t, a), NEW p \in Seq(D), NEW given
    PROVE  Stage(D, x, Cat(t, Attribute(given, p)), With(a, given, p))
<1>1. given => Attribute(given, p) = Cat(Break, p) /\ With(a, given, p) = Append(a, p)
  BY DEF Attribute, Cat, With
<1>2. ~ given => Attribute(given, p) = <<>> /\ With(a, given, p) = a
  BY DEF Attribute, With
<1>3. Cat(t, <<>>) = t
  BY CatEmpty DEF Stage
<1> QED
  BY <1>1, <1>2, <1>3, StageMore

\* The fields of a cookie are texts, written with the words of an alphabet.
CookieWords == {"space", "=", "semicolon", "quote", "Comment", "Domain", "Max-Age", "Path",
                "Secure", "HttpOnly", "Version", "0", "1"}
IsCookie(D, c) ==
    /\ CookieWords \subseteq D
    /\ c.name \in Seq(D) /\ c.value \in Seq(D) /\ c.comment \in Seq(D) /\ c.domain \in Seq(D)
    /\ c.maxAge \in Seq(D) /\ c.path \in Seq(D)

\* An attribute with a value is a text.
LEMMA ValuedFacts ==
    ASSUME NEW D, "=" \in D, NEW n \in D, n \notin NameMarks, NEW v \in Seq(D)
    PROVE  /\ Valued(n, v) \in Seq(D)
           /\ IsValue(v) => /\ IsPart(Valued(n, v))
                            /\ NameAndValue(Valued(n, v)) = [name |-> <<n>>, value |-> v]
<1> DEFINE c == [name |-> <<n>>, value |-> v]
<1>1. c.name = <<n>> /\ c.value = v /\ Valued(n, v) = Pair(c)
  BY DEF Valued
<1>2. <<n>> \in Seq(D) /\ Token(<<n>>)
  BY DEF Token, Without
<1> HIDE DEF c
<1>3. Without(c.name, {"="})
  BY <1>1, <1>2, TokenIsTight
<1>4. Pair(c) \in Seq(D)
  BY <1>1, <1>2, <1>3, PairParts
<1>5. IsValue(v) => IsPart(Pair(c)) /\ NameAndValue(Pair(c)) = [name |-> c.name, value |-> c.value]
  BY <1>1, <1>2, PairIsPart
<1> QED
  BY <1>1, <1>4, <1>5

\* The text of a cookie is its parts, joined with semicolons, the first of them its name and value.
LEMMA CookieIsJoined ==
    ASSUME NEW D, NEW c, IsCookie(D, c), Token(c.name)
    PROVE  /\ toByteArray(c) = Joined(PartsOfCookie(c), Break)
           /\ Begins(D, Pair(c), toByteArray(c)) /\ Pair(c) \in Seq(D)
           /\ PartsOfCookie(c) \in Seq(Seq(D))
<1> DEFINE x == Pair(c)
           p1 == Valued("Comment", c.comment)  p2 == Valued("Domain", c.domain)
           p3 == Valued("Max-Age", c.maxAge)   p4 == Valued("Path", c.path)
           p5 == <<"Secure">>  p6 == <<"HttpOnly">>  p7 == Valued("Version", <<"1">>)
           g1 == c.comment # <<>>  g2 == c.domain # <<>>  g3 == c.maxAge # <<"0">>  g4 == c.path # <<>>
           a0 == <<x>>
           a1 == With(a0, g1, p1)
           a2 == With(a1, g2, p2)
           a3 == With(a2, g3, p3)
           a4 == With(a3, g4, p4)
           a5 == With(a4, c.secure, p5)
           a6 == With(a5, c.httpOnly, p6)
           s1 == Cat(x, Attribute(g1, p1))
           s2 == Cat(s1, Attribute(g2, p2))
           s3 == Cat(s2, Attribute(g3, p3))
           s4 == Cat(s3, Attribute(g4, p4))
           s5 == Cat(s4, Attribute(c.secure, p5))
           s6 == Cat(s5, Attribute(c.httpOnly, p6))
           s7 == Cat(s6, Attribute(TRUE, p7))
<1>1. "semicolon" \in D /\ "space" \in D /\ "=" \in D
  BY DEF IsCookie, CookieWords
<1>2. x \in Seq(D)
  <2>1. Without(c.name, {"="})
    BY TokenIsTight DEF IsCookie
  <2> QED
    BY <1>1, <2>1, PairParts DEF IsCookie
<1>3. p1 \in Seq(D) /\ p2 \in Seq(D) /\ p3 \in Seq(D) /\ p4 \in Seq(D)
  <2>1. \A n \in {"Comment", "Domain", "Max-Age", "Path"} : n \in D /\ n \notin NameMarks
    BY DEF IsCookie, CookieWords, NameMarks
  <2> QED
    BY <1>1, <2>1, ValuedFacts DEF IsCookie
<1>4. p5 \in Seq(D) /\ p6 \in Seq(D)
  <2>1. "Secure" \in D /\ "HttpOnly" \in D
    BY DEF IsCookie, CookieWords
  <2> QED
    BY <2>1
<1>5. p7 \in Seq(D)
  <2>1. "Version" \in D /\ "Version" \notin NameMarks /\ "1" \in D
    BY DEF IsCookie, CookieWords, NameMarks
  <2>2. <<"1">> \in Seq(D)
    BY <2>1
  <2> QED
    BY <1>1, <2>1, <2>2, ValuedFacts
<1>6. toByteArray(c) = s7
  BY Zenon DEF toByteArray, Cat
<1>7. PartsOfCookie(c) = With(a6, TRUE, p7)
  BY DEF PartsOfCookie
<1> HIDE DEF x, p1, p2, p3, p4, p5, p6, p7, g1, g2, g3, g4
<1>8. Stage(D, x, x, a0)
  <2>1. a0 \in Seq(Seq(D)) /\ a0 # <<>>
    BY <1>2
  <2>2. Break \in Seq(D)
    BY <1>1 DEF Break
  <2>3. Joined(a0, Break) = x
    BY <1>2, <2>2, JoinedOne
  <2> QED
    BY <1>2, <2>1, <2>3 DEF Stage
<1> HIDE DEF a0
<1>9. Stage(D, x, s1, a1)
  BY <1>1, <1>2, <1>3, <1>8, StageAttribute
<1> HIDE DEF s1, a1
<1>10. Stage(D, x, s2, a2)
  BY <1>1, <1>2, <1>3, <1>9, StageAttribute
<1> HIDE DEF s2, a2
<1>11. Stage(D, x, s3, a3)
  BY <1>1, <1>2, <1>3, <1>10, StageAttribute
<1> HIDE DEF s3, a3
<1>12. Stage(D, x, s4, a4)
  BY <1>1, <1>2, <1>3, <1>11, StageAttribute
<1> HIDE DEF s4, a4
<1>13. Stage(D, x, s5, a5)
  BY <1>1, <1>2, <1>4, <1>12, StageAttribute
<1> HIDE DEF s5, a5
<1>14. Stage(D, x, s6, a6)
  BY <1>1, <1>2, <1>4, <1>13, StageAttribute
<1> HIDE DEF s6, a6
<1>15. Attribute(TRUE, p7) = Cat(Break, p7) /\ With(a6, TRUE, p7) = Append(a6, p7)
  BY DEF Attribute, Cat, With
<1>16. Stage(D, x, s7, With(a6, TRUE, p7)) /\ Begins(D, x, s7)
  BY <1>1, <1>2, <1>5, <1>14, <1>15, StageMore
<1> QED
  BY <1>2, <1>6, <1>7, <1>16 DEF Stage, x

--------------------------------------------------------------------------------
\* What HttpCookie(source) has found in some parts.
FieldsOfParts(l) == FoldLeft(SetField, NoCookie, l)
CookieType(D) == [name : Seq(D), value : Seq(D), comment : Seq(D), domain : Seq(D),
                  maxAge : Seq(D), path : Seq(D), secure : BOOLEAN]

\* A part has a name and a value.
LEMMA NameAndValueType ==
    ASSUME NEW D, NEW p \in Seq(D)
    PROVE  NameAndValue(p) \in [name : Seq(D), value : Seq(D)]
<1> DEFINE i == Index(p, "=")
<1>1. i \in 0 .. Len(p) /\ Len(p) \in Nat
  <2> DEFINE T == Places(p, "=")
  <2>1. Len(p) \in Nat /\ T \in SUBSET (1 .. Len(p))
    BY DEF Places
  <2>2. T # {} => Min(T) \in T
    <3> DEFINE n == Len(p)
    <3> HIDE DEF T, n
    <3> QED
      BY <2>1, MinIsIn DEF n
  <2>3. i = IF T = {} THEN 0 ELSE Min(T)
    BY DEF Index
  <2> HIDE DEF T, i
  <2> QED
    BY <2>1, <2>2, <2>3
<1> HIDE DEF i
<1>2. Before(p, i) \in Seq(D)
  BY <1>1 DEF Before
<1>3. After(p, i) \in Seq(D)
  BY <1>1 DEF After
<1>4. trimmed(Before(p, i)) \in Seq(D) /\ trimmed(After(p, i)) \in Seq(D)
  BY <1>2, <1>3, TrimmedFacts
<1>5. <<>> \in Seq(D)
  OBVIOUS
<1>6. NameAndValue(p) = IF i = 1 THEN [name |-> p, value |-> <<>>]
                        ELSE [name |-> trimmed(Before(p, i)), value |-> trimmed(After(p, i))]
  BY DEF NameAndValue, i
<1> QED
  BY <1>4, <1>5, <1>6

\* A field more, and it is a cookie again.
LEMMA SetFieldType ==
    ASSUME NEW D, NEW v \in CookieType(D), NEW p \in Seq(D)
    PROVE  SetField(v, p) \in CookieType(D)
<1> DEFINE q == NameAndValue(p)
<1>1. q.name \in Seq(D) /\ q.value \in Seq(D)
  BY NameAndValueType
<1> HIDE DEF q
<1>2. /\ [v EXCEPT !.comment = q.value] \in CookieType(D)
      /\ [v EXCEPT !.domain = q.value] \in CookieType(D)
      /\ [v EXCEPT !.maxAge = q.value] \in CookieType(D)
      /\ [v EXCEPT !.path = q.value] \in CookieType(D)
      /\ [v EXCEPT !.secure = TRUE] \in CookieType(D)
      /\ [v EXCEPT !.name = q.name, !.value = q.value] \in CookieType(D)
  BY <1>1 DEF CookieType
<1> HIDE DEF CookieType
<1>3. SetField(v, p) \in {[v EXCEPT !.comment = q.value], [v EXCEPT !.domain = q.value],
         [v EXCEPT !.maxAge = q.value], [v EXCEPT !.path = q.value], [v EXCEPT !.secure = TRUE],
         [v EXCEPT !.name = q.name, !.value = q.value], v}
  BY Zenon DEF SetField, q
<1> QED
  BY <1>2, <1>3

\* HttpCookie(source), part by part.
LEMMA FieldsSteps ==
    ASSUME NEW D, CookieWords \subseteq D
    PROVE  /\ FieldsOfParts(<<>>) = NoCookie
           /\ \A l \in Seq(Seq(D)), p \in Seq(D) : FieldsOfParts(Append(l, p)) = SetField(FieldsOfParts(l), p)
<1> DEFINE S == CookieType(D)  P == Seq(D)
           step == [x \in S \X P |-> SetField(x[1], x[2])]
           base == NoCookie
<1>1. ASSUME NEW v \in S, NEW p \in P
      PROVE  SetField(v, p) \in S
  BY SetFieldType
<1>2. IsStep(step, S, P)
  BY <1>1 DEF IsStep
<1>3. \A v \in S, p \in P : step[<<v, p>>] = SetField(v, p)
  OBVIOUS
<1>4. base \in S
  <2>1. <<"0">> \in Seq(D) /\ <<>> \in Seq(D)
    BY DEF CookieWords
  <2> QED
    BY <2>1 DEF NoCookie, CookieType
<1> HIDE DEF S, P, step, base
<1>5. ASSUME NEW s \in Seq(P)
      PROVE  FieldsOfParts(s) = Iterated(step, base, s)
  <2> DEFINE IsFold(it) == it = [T \in SUBSET DOMAIN s |->
                               IF T = {} THEN base ELSE SetField(it[T \ {Max(T)}], s[Max(T)])]
             it == CHOOSE f : IsFold(f)
  <2>1. FieldsOfParts(s) = it[DOMAIN s]
    BY Zenon DEF FieldsOfParts, FoldLeft, MapThenFoldSet, base
  <2>2. PICK f \in [SUBSET DOMAIN s -> S] : Folding(f, s, base, step)
    BY <1>2, <1>4, FoldingExists
  <2>3. IsFold(f)
    <3>1. ASSUME NEW T \in SUBSET DOMAIN s, T # {}
          PROVE  s[Max(T)] \in P /\ f[T \ {Max(T)}] \in S
      BY <2>2, <3>1, LastPlace
    <3> QED
      BY <1>3, <2>2, <3>1 DEF Folding
  <2> HIDE DEF IsFold
  <2>4. IsFold(it)
    BY <2>3
  <2> HIDE DEF it
  <2>5. Follows(it, s, base, step, S)
    <3>1. \A T \in SUBSET DOMAIN s : it[T] = IF T = {} THEN base ELSE SetField(it[T \ {Max(T)}], s[Max(T)])
      BY <2>4, Zenon DEF IsFold
    <3>2. ASSUME NEW T \in SUBSET DOMAIN s, T # {}
          PROVE  s[Max(T)] \in P
      BY <3>2, LastPlace
    <3> QED
      BY <1>3, <3>1, <3>2 DEF Follows
  <2> QED
    BY <1>2, <1>4, <2>1, <2>5, FollowsIterated
<1>6. \A s \in Seq(P), p \in P : Append(s, p) \in Seq(P)
  OBVIOUS
<1>7. <<>> \in Seq(P)
  OBVIOUS
<1>8. Iterated(step, base, <<>>) = base
  BY IteratedEmpty
<1>9. ASSUME NEW s \in Seq(P)
      PROVE  /\ Iterated(step, base, s) \in S
             /\ \A p \in P : Iterated(step, base, Append(s, p)) = step[<<Iterated(step, base, s), p>>]
  BY <1>2, <1>4, IteratedAppend
<1>10. FieldsOfParts(<<>>) = base
  BY <1>5, <1>7, <1>8
<1>11. \A s \in Seq(P) : FieldsOfParts(s) \in S
  BY <1>5, <1>9
<1>12. ASSUME NEW s \in Seq(P), NEW p \in P
       PROVE  FieldsOfParts(Append(s, p)) = SetField(FieldsOfParts(s), p)
  <2>1. FieldsOfParts(Append(s, p)) = step[<<FieldsOfParts(s), p>>]
    BY <1>5, <1>6, <1>9
  <2> QED
    BY <1>3, <1>11, <2>1
<1> QED
  BY <1>10, <1>12 DEF base, P

--------------------------------------------------------------------------------
\* A cookie that HttpCookie(source) reads.
Read(n, v, comment, domain, maxAge, root) ==
    [name |-> n, value |-> v, comment |-> comment, domain |-> domain,
     maxAge |-> maxAge, path |-> root, secure |-> FALSE]

\* The parts so far read as a cookie.
ReadSoFar(D, a, r) ==
    /\ a \in Seq(Seq(D))
    /\ \A i \in DOMAIN a : IsPart(a[i])
    /\ FieldsOfParts(a) = r

\* A part more.
LEMMA ReadMore ==
    ASSUME NEW D, CookieWords \subseteq D, NEW a, NEW r, ReadSoFar(D, a, r),
           NEW p \in Seq(D), NEW given, given => IsPart(p)
    PROVE  ReadSoFar(D, With(a, given, p), IF given THEN SetField(r, p) ELSE r)
<1> DEFINE P == Seq(D)  b == Append(a, p)
<1>1. a \in Seq(P) /\ p \in P /\ FieldsOfParts(a) = r /\ \A i \in DOMAIN a : IsPart(a[i])
  BY DEF ReadSoFar
<1>2. CASE given
  <2>1. FieldsOfParts(b) = SetField(r, p)
    BY <1>1, FieldsSteps
  <2> HIDE DEF P
  <2>2. b \in Seq(P) /\ DOMAIN b = 1 .. Len(a) + 1 /\ b[Len(a) + 1] = p
        /\ Len(a) \in Nat /\ DOMAIN a = 1 .. Len(a) /\ \A i \in 1 .. Len(a) : b[i] = a[i]
    BY <1>1
  <2>3. IsPart(p)
    BY <1>2
  <2> HIDE DEF b
  <2>4. \A i \in DOMAIN b : IsPart(b[i])
    <3>1. \A i \in 1 .. Len(a) + 1 : i \in 1 .. Len(a) \/ i = Len(a) + 1
      BY <2>2
    <3> QED
      BY <1>1, <2>2, <2>3, <3>1
  <2>5. With(a, given, p) = b
    BY <1>2 DEF With, b
  <2> QED
    BY <1>2, <2>1, <2>2, <2>4, <2>5 DEF ReadSoFar, P
<1>3. CASE ~ given
  <2>1. With(a, given, p) = a
    BY <1>3 DEF With
  <2> QED
    BY <1>3, <2>1
<1> QED
  BY <1>2, <1>3

\* The names of attributes differ.
LEMMA NamesDiffer ==
    /\ <<"Comment">> \notin {<<"Domain">>, <<"Max-Age">>, <<"Path">>, <<"Secure">>, <<"HttpOnly">>, <<"Version">>, <<>>}
    /\ <<"Domain">> \notin {<<"Max-Age">>, <<"Path">>, <<"Secure">>, <<"HttpOnly">>, <<"Version">>, <<>>}
    /\ <<"Max-Age">> \notin {<<"Path">>, <<"Secure">>, <<"HttpOnly">>, <<"Version">>, <<>>}
    /\ <<"Path">> \notin {<<"Secure">>, <<"HttpOnly">>, <<"Version">>, <<>>}
    /\ <<"Secure">> \notin {<<"HttpOnly">>, <<"Version">>, <<>>}
    /\ <<"HttpOnly">> \notin {<<"Version">>, <<>>} /\ <<"Version">> # <<>>
OBVIOUS

\* The cookies that are the same as what was read.
OnlyRead(n, v, comment, domain, maxAge, root) ==
    [name : {n}, value : {v}, comment : {comment}, domain : {domain},
     maxAge : {maxAge}, path : {root}, secure : {FALSE}]

\* There is one only.
LEMMA ReadOnly ==
    ASSUME NEW n, NEW v, NEW comment, NEW domain, NEW maxAge, NEW root
    PROVE  \A r : r \in OnlyRead(n, v, comment, domain, maxAge, root)
                     <=> r = Read(n, v, comment, domain, maxAge, root)
<1> DEFINE R == Read(n, v, comment, domain, maxAge, root)  O == OnlyRead(n, v, comment, domain, maxAge, root)
<1>1. R \in O
  BY DEF OnlyRead, Read
<1>2. ASSUME NEW r \in O
      PROVE  r = R
  BY DEF OnlyRead, Read
<1> HIDE DEF R, O
<1>3. \A r : r \in O <=> r = R
  BY <1>1, <1>2
<1> QED
  BY <1>3 DEF R, O

\* A field of it, replaced.
LEMMA OnlyReadExcept ==
    ASSUME NEW n, NEW v, NEW comment, NEW domain, NEW maxAge, NEW root,
           NEW r \in OnlyRead(n, v, comment, domain, maxAge, root), NEW m, NEW w
    PROVE  /\ [r EXCEPT !.comment = w] \in OnlyRead(n, v, w, domain, maxAge, root)
           /\ [r EXCEPT !.domain = w] \in OnlyRead(n, v, comment, w, maxAge, root)
           /\ [r EXCEPT !.maxAge = w] \in OnlyRead(n, v, comment, domain, w, root)
           /\ [r EXCEPT !.path = w] \in OnlyRead(n, v, comment, domain, maxAge, w)
           /\ [r EXCEPT !.name = m, !.value = w] \in OnlyRead(m, w, comment, domain, maxAge, root)
BY DEF OnlyRead

\* What HttpCookie(source) makes of a part, by its name.
LEMMA FieldIsSet ==
    ASSUME NEW n, NEW v, NEW comment, NEW domain, NEW maxAge, NEW root, NEW p, NEW m, NEW w,
           NameAndValue(p) = [name |-> m, value |-> w], NEW r,
           r = Read(n, v, comment, domain, maxAge, root)
    PROVE  /\ m = <<"Comment">> => SetField(r, p) = Read(n, v, w, domain, maxAge, root)
           /\ m = <<"Domain">> => SetField(r, p) = Read(n, v, comment, w, maxAge, root)
           /\ m = <<"Max-Age">> => SetField(r, p) = Read(n, v, comment, domain, w, root)
           /\ m = <<"Path">> => SetField(r, p) = Read(n, v, comment, domain, maxAge, w)
           /\ m = <<"Version">> => SetField(r, p) = r
           /\ m \notin AttributeNames =>
                 SetField(r, p) = IF n = <<>> THEN Read(m, w, comment, domain, maxAge, root) ELSE r
<1>0. NameAndValue(p).name = m /\ NameAndValue(p).value = w
  OBVIOUS
<1>1. m = <<"Comment">> => SetField(r, p) = [r EXCEPT !.comment = w]
  BY <1>0, NamesDiffer, Zenon DEF SetField
<1>2. m = <<"Domain">> => SetField(r, p) = [r EXCEPT !.domain = w]
  BY <1>0, NamesDiffer, Zenon DEF SetField
<1>3. m = <<"Max-Age">> => SetField(r, p) = [r EXCEPT !.maxAge = w]
  BY <1>0, NamesDiffer, Zenon DEF SetField
<1>4. m = <<"Path">> => SetField(r, p) = [r EXCEPT !.path = w]
  BY <1>0, NamesDiffer, Zenon DEF SetField
<1>5. m = <<"Version">> => SetField(r, p) = r
  BY <1>0, NamesDiffer, Zenon DEF SetField
<1>6. m \notin AttributeNames =>
         SetField(r, p) = IF r.name = <<>> THEN [r EXCEPT !.name = m, !.value = w] ELSE r
  <2> SUFFICES ASSUME m \notin AttributeNames
               PROVE  SetField(r, p) = IF r.name = <<>> THEN [r EXCEPT !.name = m, !.value = w] ELSE r
    OBVIOUS
  <2>1. m # <<"Comment">> /\ m # <<"Domain">> /\ m # <<"Max-Age">> /\ m # <<"Path">>
        /\ m # <<"Secure">> /\ m # <<"HttpOnly">> /\ m # <<"Version">>
    BY DEF AttributeNames
  <2> QED
    BY <1>0, <2>1, Zenon DEF SetField
<1>7. /\ r.name = n
      /\ [r EXCEPT !.comment = w] = Read(n, v, w, domain, maxAge, root)
      /\ [r EXCEPT !.domain = w] = Read(n, v, comment, w, maxAge, root)
      /\ [r EXCEPT !.maxAge = w] = Read(n, v, comment, domain, w, root)
      /\ [r EXCEPT !.path = w] = Read(n, v, comment, domain, maxAge, w)
      /\ [r EXCEPT !.name = m, !.value = w] = Read(m, w, comment, domain, maxAge, root)
  <2>1. r.name = n
    BY DEF Read
  <2>2. r \in OnlyRead(n, v, comment, domain, maxAge, root)
    BY ReadOnly, Zenon
  <2>3. /\ [r EXCEPT !.comment = w] \in OnlyRead(n, v, w, domain, maxAge, root)
        /\ [r EXCEPT !.domain = w] \in OnlyRead(n, v, comment, w, maxAge, root)
        /\ [r EXCEPT !.maxAge = w] \in OnlyRead(n, v, comment, domain, w, root)
        /\ [r EXCEPT !.path = w] \in OnlyRead(n, v, comment, domain, maxAge, w)
        /\ [r EXCEPT !.name = m, !.value = w] \in OnlyRead(m, w, comment, domain, maxAge, root)
    BY <2>2, OnlyReadExcept, Zenon
  <2> DEFINE e1 == [r EXCEPT !.comment = w]  e2 == [r EXCEPT !.domain = w]
             e3 == [r EXCEPT !.maxAge = w]  e4 == [r EXCEPT !.path = w]
             e5 == [r EXCEPT !.name = m, !.value = w]
  <2>4. /\ e1 \in OnlyRead(n, v, w, domain, maxAge, root)
        /\ e2 \in OnlyRead(n, v, comment, w, maxAge, root)
        /\ e3 \in OnlyRead(n, v, comment, domain, w, root)
        /\ e4 \in OnlyRead(n, v, comment, domain, maxAge, w)
        /\ e5 \in OnlyRead(m, w, comment, domain, maxAge, root)
    BY <2>3, Zenon
  <2> HIDE DEF e1, e2, e3, e4, e5
  <2>5. /\ e1 = Read(n, v, w, domain, maxAge, root)
        /\ e2 = Read(n, v, comment, w, maxAge, root)
        /\ e3 = Read(n, v, comment, domain, w, root)
        /\ e4 = Read(n, v, comment, domain, maxAge, w)
        /\ e5 = Read(m, w, comment, domain, maxAge, root)
    BY <2>4, ReadOnly
  <2> QED
    BY <2>1, <2>5, Zenon DEF e1, e2, e3, e4, e5
<1> QED
  BY <1>1, <1>2, <1>3, <1>4, <1>5, <1>6, <1>7, Zenon

\* A part that is a word is a value without a name.
LEMMA WordIsPart ==
    ASSUME NEW D, NEW n \in D, n \notin NameMarks
    PROVE  /\ <<n>> \in Seq(D) /\ IsPart(<<n>>)
           /\ NameAndValue(<<n>>) = [name |-> <<>>, value |-> <<n>>]
<1> DEFINE p == <<n>>
<1>1. p \in Seq(D) /\ Len(p) = 1 /\ p[1] = n /\ p # <<>> /\ DOMAIN p = 1 .. 1
  OBVIOUS
<1>2. Before(p, 0) = <<>> /\ After(p, 0) = p
  <2>1. SubSeq(p, 0 + 1, 1) = p
    <3> DEFINE t == SubSeq(p, 0 + 1, 1)
    <3>1. t \in Seq(D) /\ Len(t) = 1 /\ t[1] = p[1]
      BY <1>1
    <3> HIDE DEF t, p
    <3>2. t = p
      BY <1>1, <3>1, SeqEqual
    <3> QED
      BY <3>2 DEF t
  <2>2. SubSeq(p, 1, 0 - 1) = <<>>
    BY <1>1
  <2> QED
    BY <1>1, <2>1, <2>2 DEF Before, After
<1> HIDE DEF p
<1>3. Tight(p) /\ Without(p, Signs)
  BY <1>1 DEF Tight, Without, Signs, NameMarks
<1>4. trimmed(p) = p
  BY <1>1, <1>3, TrimmedFacts
<1>5. Index(p, "=") = 0
  BY <1>1 DEF Index, Places, NameMarks
<1>6. trimmed(<<>>) = <<>>
  BY DEF trimmed
<1>7. NameAndValue(p) = [name |-> <<>>, value |-> p]
  BY <1>1, <1>2, <1>4, <1>5, <1>6 DEF NameAndValue
<1> QED
  BY <1>1, <1>3, <1>7 DEF IsPart, p

\* The cookie that a handler may set, and that its text reads back as.
Sound(D, c) ==
    /\ IsCookie(D, c) /\ Token(c.name) /\ c.name \notin AttributeNames
    /\ IsValue(c.value) /\ IsValue(c.comment) /\ IsValue(c.domain)
    /\ IsValue(c.maxAge) /\ IsValue(c.path)

\* The text of a cookie reads back as the cookie, but for the flags.
LEMMA CookieIsRead ==
    ASSUME NEW D, NEW c, Sound(D, c)
    PROVE  HttpCookie(toByteArray(c))
             = Read(c.name, c.value, c.comment, c.domain, c.maxAge, c.path)
<1> DEFINE x == Pair(c)
           p1 == Valued("Comment", c.comment)  p2 == Valued("Domain", c.domain)
           p3 == Valued("Max-Age", c.maxAge)   p4 == Valued("Path", c.path)
           p5 == <<"Secure">>  p6 == <<"HttpOnly">>  p7 == Valued("Version", <<"1">>)
           g1 == c.comment # <<>>  g2 == c.domain # <<>>  g3 == c.maxAge # <<"0">>  g4 == c.path # <<>>
           a0 == <<x>>
           a1 == With(a0, g1, p1)
           a2 == With(a1, g2, p2)
           a3 == With(a2, g3, p3)
           a4 == With(a3, g4, p4)
           a5 == With(a4, c.secure, p5)
           a6 == With(a5, c.httpOnly, p6)
           a7 == With(a6, TRUE, p7)
           r0 == Read(c.name, c.value, <<>>, <<>>, <<"0">>, <<>>)
           r1 == Read(c.name, c.value, c.comment, <<>>, <<"0">>, <<>>)
           r2 == Read(c.name, c.value, c.comment, c.domain, <<"0">>, <<>>)
           r3 == Read(c.name, c.value, c.comment, c.domain, c.maxAge, <<>>)
           r4 == Read(c.name, c.value, c.comment, c.domain, c.maxAge, c.path)
<1>1. CookieWords \subseteq D /\ Token(c.name) /\ c.name # <<>>
  BY DEF Sound, IsCookie, Token
<1>2. /\ c.name \in Seq(D) /\ c.value \in Seq(D) /\ c.comment \in Seq(D) /\ c.domain \in Seq(D)
      /\ c.maxAge \in Seq(D) /\ c.path \in Seq(D)
      /\ IsValue(c.value) /\ IsValue(c.comment) /\ IsValue(c.domain)
      /\ IsValue(c.maxAge) /\ IsValue(c.path)
  BY DEF Sound, IsCookie
<1>3. \A n \in {"Comment", "Domain", "Max-Age", "Path", "Version", "Secure", "HttpOnly"} :
         n \in D /\ n \notin NameMarks
  BY <1>1 DEF CookieWords, NameMarks
<1>4. "=" \in D /\ "1" \in D /\ "semicolon" \in D /\ "space" \in D
  BY <1>1 DEF CookieWords
<1>5. x \in Seq(D) /\ IsPart(x) /\ NameAndValue(x) = [name |-> c.name, value |-> c.value]
  BY <1>1, <1>2, <1>4, PairIsPart
<1>6. p1 \in Seq(D) /\ IsPart(p1) /\ NameAndValue(p1) = [name |-> <<"Comment">>, value |-> c.comment]
  BY <1>2, <1>3, <1>4, ValuedFacts
<1>7. p2 \in Seq(D) /\ IsPart(p2) /\ NameAndValue(p2) = [name |-> <<"Domain">>, value |-> c.domain]
  BY <1>2, <1>3, <1>4, ValuedFacts
<1>8. p3 \in Seq(D) /\ IsPart(p3) /\ NameAndValue(p3) = [name |-> <<"Max-Age">>, value |-> c.maxAge]
  BY <1>2, <1>3, <1>4, ValuedFacts
<1>9. p4 \in Seq(D) /\ IsPart(p4) /\ NameAndValue(p4) = [name |-> <<"Path">>, value |-> c.path]
  BY <1>2, <1>3, <1>4, ValuedFacts
<1>10. p5 \in Seq(D) /\ IsPart(p5) /\ NameAndValue(p5) = [name |-> <<>>, value |-> p5]
  BY <1>3, WordIsPart
<1>11. p6 \in Seq(D) /\ IsPart(p6) /\ NameAndValue(p6) = [name |-> <<>>, value |-> p6]
  BY <1>3, WordIsPart
<1>12. p7 \in Seq(D) /\ IsPart(p7) /\ NameAndValue(p7) = [name |-> <<"Version">>, value |-> <<"1">>]
  <2>1. <<"1">> \in Seq(D) /\ IsValue(<<"1">>)
    BY <1>4 DEF IsValue, Tight, Without, Signs
  <2> QED
    BY <1>3, <1>4, <2>1, ValuedFacts
<1>13. PartsOfCookie(c) = a7
  BY DEF PartsOfCookie
<1> HIDE DEF x, p1, p2, p3, p4, p5, p6, p7
<1>14. ReadSoFar(D, a0, r0)
  <2>1. a0 \in Seq(Seq(D)) /\ \A i \in DOMAIN a0 : IsPart(a0[i])
    BY <1>5
  <2>2. FieldsOfParts(a0) = SetField(NoCookie, x)
    <3> DEFINE e == <<>>
    <3>1. e \in Seq(Seq(D)) /\ Append(e, x) = a0
      OBVIOUS
    <3>2. FieldsOfParts(e) = NoCookie
      BY <1>1, FieldsSteps
    <3> HIDE DEF e, a0
    <3> QED
      BY <1>1, <1>5, <3>1, <3>2, FieldsSteps
  <2>3. SetField(NoCookie, x) = r0
    <3>1. c.name \notin AttributeNames
      BY DEF Sound
    <3>2. NoCookie = Read(<<>>, <<>>, <<>>, <<>>, <<"0">>, <<>>)
      BY DEF NoCookie, Read
    <3> QED
      BY <1>5, <3>1, <3>2, FieldIsSet
  <2> HIDE DEF a0, r0
  <2> QED
    BY <2>1, <2>2, <2>3 DEF ReadSoFar
<1> HIDE DEF a0
<1>15. ReadSoFar(D, a1, r1)
  <2>1. SetField(r0, p1) = r1
    BY <1>6, FieldIsSet
  <2>2. ~ g1 => r1 = r0
    OBVIOUS
  <2>3. r1 = IF g1 THEN SetField(r0, p1) ELSE r0
    BY <2>1, <2>2
  <2> HIDE DEF r0, r1, g1
  <2> QED
    BY <1>1, <1>6, <1>14, <2>3, ReadMore
<1> HIDE DEF a1
<1>16. ReadSoFar(D, a2, r2)
  <2>1. SetField(r1, p2) = r2
    BY <1>7, FieldIsSet
  <2>2. ~ g2 => r2 = r1
    OBVIOUS
  <2>3. r2 = IF g2 THEN SetField(r1, p2) ELSE r1
    BY <2>1, <2>2
  <2> HIDE DEF r1, r2, g2
  <2> QED
    BY <1>1, <1>7, <1>15, <2>3, ReadMore
<1> HIDE DEF a2
<1>17. ReadSoFar(D, a3, r3)
  <2>1. SetField(r2, p3) = r3
    BY <1>8, FieldIsSet
  <2>2. ~ g3 => r3 = r2
    OBVIOUS
  <2>3. r3 = IF g3 THEN SetField(r2, p3) ELSE r2
    BY <2>1, <2>2
  <2> HIDE DEF r2, r3, g3
  <2> QED
    BY <1>1, <1>8, <1>16, <2>3, ReadMore
<1> HIDE DEF a3
<1>18. ReadSoFar(D, a4, r4)
  <2>1. SetField(r3, p4) = r4
    BY <1>9, FieldIsSet
  <2>2. ~ g4 => r4 = r3
    OBVIOUS
  <2>3. r4 = IF g4 THEN SetField(r3, p4) ELSE r3
    BY <2>1, <2>2
  <2> HIDE DEF r3, r4, g4
  <2> QED
    BY <1>1, <1>9, <1>17, <2>3, ReadMore
<1> HIDE DEF a4
<1>19. r4.name # <<>> /\ <<>> \notin AttributeNames
  BY <1>1, NamesDiffer DEF AttributeNames, Read
<1>20. SetField(r4, p5) = r4 /\ SetField(r4, p6) = r4
  BY <1>1, <1>10, <1>11, <1>19, FieldIsSet
<1>21. SetField(r4, p7) = r4
  BY <1>12, FieldIsSet
<1> HIDE DEF r4
<1>22. ReadSoFar(D, a5, r4)
  <2>1. r4 = IF c.secure THEN SetField(r4, p5) ELSE r4
    BY <1>20
  <2> QED
    BY <1>1, <1>10, <1>18, <2>1, ReadMore
<1> HIDE DEF a5
<1>23. ReadSoFar(D, a6, r4)
  <2>1. r4 = IF c.httpOnly THEN SetField(r4, p6) ELSE r4
    BY <1>20
  <2> QED
    BY <1>1, <1>11, <1>22, <2>1, ReadMore
<1> HIDE DEF a6
<1>24. ReadSoFar(D, a7, r4)
  <2>1. r4 = IF TRUE THEN SetField(r4, p7) ELSE r4
    BY <1>21
  <2> QED
    BY <1>1, <1>12, <1>23, <2>1, ReadMore
<1> HIDE DEF a7
<1>25. splitCSV(toByteArray(c)) = a7
  <2>1. toByteArray(c) = Joined(a7, Break)
    BY <1>1, <1>13, CookieIsJoined DEF Sound
  <2> QED
    BY <1>4, <1>24, <2>1, PartsJoined DEF ReadSoFar
<1>26. HttpCookie(toByteArray(c)) = FieldsOfParts(a7)
  BY <1>25, Zenon DEF HttpCookie, FieldsOfParts
<1> QED
  BY <1>24, <1>26 DEF ReadSoFar, r4

--------------------------------------------------------------------------------
\* What a browser keeps of the value of a cookie: what comes before the first semicolon.
FrontOf(v) ==
    LET i == Index(v, "semicolon") IN IF i = 0 THEN v ELSE Before(v, i)
InJar(c) == [name |-> c.name, value |-> trimmed(FrontOf(c.value))]

\* It has no semicolon, and is all or is followed by one.
LEMMA FrontFacts ==
    ASSUME NEW D, NEW v \in Seq(D)
    PROVE  /\ FrontOf(v) \in Seq(D) /\ Without(FrontOf(v), {"semicolon"})
           /\ \/ FrontOf(v) = v
              \/ \E w \in Seq(D) : v = Cat(Cat(FrontOf(v), <<"semicolon">>), w)
           /\ Places(v, "semicolon") = {} => FrontOf(v) = v
           /\ \A E : Without(v, E) => Without(FrontOf(v), E)
<1> DEFINE T == Places(v, "semicolon")  n == Len(v)
<1>1. n \in Nat /\ T \in SUBSET (1 .. n) /\ DOMAIN v = 1 .. n
  BY DEF Places
<1>2. CASE T = {}
  <2>1. FrontOf(v) = v
    BY <1>2 DEF FrontOf, Index
  <2>2. Without(v, {"semicolon"})
    BY <1>2 DEF Places, Without
  <2> QED
    BY <2>1, <2>2
<1>3. CASE T # {}
  <2> DEFINE m == Min(T)  u == SubSeq(v, 1, m - 1)  w == SubSeq(v, m + 1, n)
  <2>1. m \in T /\ \A y \in T : m <= y
    <3> HIDE DEF T, n
    <3> QED
      BY <1>1, <1>3, MinIsIn
  <2>2. m \in 1 .. n /\ v[m] = "semicolon" /\ \A y \in 1 .. n : v[y] = "semicolon" => m <= y
    <3> HIDE DEF m
    <3> QED
      BY <1>1, <2>1 DEF Places
  <2>3. FrontOf(v) = u
    <3>1. Index(v, "semicolon") = m /\ m # 0
      BY <1>3, <2>2 DEF Index
    <3> QED
      BY <3>1 DEF FrontOf, Before
  <2> HIDE DEF m, T, n
  <2>4. /\ u \in Seq(D) /\ Len(u) = m - 1 /\ \A i \in 1 .. m - 1 : u[i] = v[i]
        /\ w \in Seq(D) /\ Len(w) = n - m /\ \A i \in 1 .. n - m : w[i] = v[m + i]
    <3>1. u \in Seq(D) /\ Len(u) = m - 1 /\ \A i \in 1 .. m - 1 : u[i] = v[i]
      BY <1>1, <2>2 DEF n
    <3>2. w \in Seq(D) /\ Len(w) = n - m /\ \A i \in 1 .. n - m : w[i] = v[m + 1 + i - 1]
      <4>1. m + 1 \in 1 .. Len(v) + 1 /\ n = Len(v) /\ \A k \in m + 1 .. n : k \in 1 .. Len(v)
        BY <1>1, <2>2 DEF n
      <4> DEFINE a == m + 1
      <4>2. a \in 1 .. n + 1 /\ n \in Nat /\ n = Len(v) /\ n - a + 1 = n - m
        BY <1>1, <2>2, <4>1
      <4> HIDE DEF a
      <4>3. SubSeq(v, a, n) \in Seq(D) /\ Len(SubSeq(v, a, n)) = n - a + 1
            /\ \A i \in 1 .. n - a + 1 : SubSeq(v, a, n)[i] = v[a + i - 1]
        BY <4>2
      <4> QED
        BY <4>2, <4>3 DEF a
    <3>3. \A i \in 1 .. n - m : m + 1 + i - 1 = m + i
      BY <1>1, <2>2
    <3> HIDE DEF u, w
    <3> QED
      BY <3>1, <3>2, <3>3
  <2>5. DOMAIN u = 1 .. m - 1
    BY <2>2, <2>4
  <2> HIDE DEF u, w
  <2>6. Without(u, {"semicolon"}) /\ \A E : Without(v, E) => Without(u, E)
    <3>1. \A i \in 1 .. m - 1 : i \in 1 .. n /\ ~ (m <= i)
      BY <1>1, <2>2
    <3> QED
      BY <1>1, <2>2, <2>4, <2>5, <3>1 DEF Without
  <2>7. v = Cat(Cat(u, <<"semicolon">>), w)
    <3> DEFINE e == <<v[m]>>  t == (u \o e) \o w
    <3>1. e \in Seq(D) /\ Len(e) = 1 /\ e[1] = v[m]
      BY <1>1, <2>2
    <3> HIDE DEF e
    <3>8. /\ u \o e \in Seq(D) /\ Len(u \o e) = m - 1 + 1 /\ (u \o e)[m - 1 + 1] = e[1]
          /\ \A i \in 1 .. m - 1 : (u \o e)[i] = u[i]
      <4>1. u \in Seq(D) /\ Len(u) = m - 1 /\ 1 \in 1 .. Len(e)
        BY <2>4, <3>1
      <4>2. /\ u \o e \in Seq(D) /\ Len(u \o e) = Len(u) + Len(e)
            /\ \A i \in 1 .. Len(u) : (u \o e)[i] = u[i]
            /\ \A i \in 1 .. Len(e) : (u \o e)[Len(u) + i] = e[i]
        <5>1. u \in Seq(D) /\ e \in Seq(D)
          BY <3>1, <4>1
        <5> QED
          BY <5>1, ConcatPlaces
      <4> QED
        BY <3>1, <4>1, <4>2
    <3> DEFINE ue == u \o e
    <3>9. /\ ue \in Seq(D) /\ Len(ue) = m /\ ue[m] = e[1] /\ m - 1 + 1 = m
          /\ \A i \in 1 .. m - 1 : ue[i] = u[i]
      BY <1>1, <2>2, <3>8
    <3> HIDE DEF ue
    <3>10. t = ue \o w
      BY DEF ue
    <3> HIDE DEF t
    <3>11. /\ t \in Seq(D) /\ Len(t) = m + (n - m)
           /\ \A i \in 1 .. m : t[i] = ue[i]
           /\ \A i \in 1 .. n - m : t[m + i] = w[i]
      <4>1. ue \in Seq(D) /\ w \in Seq(D)
        BY <2>4, <3>9
      <4>2. /\ ue \o w \in Seq(D) /\ Len(ue \o w) = Len(ue) + Len(w)
            /\ \A i \in 1 .. Len(ue) : (ue \o w)[i] = ue[i]
            /\ \A i \in 1 .. Len(w) : (ue \o w)[Len(ue) + i] = w[i]
        BY <4>1, ConcatPlaces
      <4> QED
        BY <2>4, <3>9, <3>10, <4>2
    <3>2. /\ t \in Seq(D) /\ Len(t) = m - 1 + 1 + (n - m)
          /\ \A i \in 1 .. m - 1 : t[i] = u[i]
          /\ t[m] = e[1]
          /\ \A i \in 1 .. n - m : t[m + i] = w[i]
      BY <1>1, <2>2, <3>9, <3>11
    <3>3. Len(t) = n
      BY <1>1, <2>2, <3>2
    <3>4. \A i \in 1 .. n : t[i] = v[i]
      <4> SUFFICES ASSUME NEW i \in 1 .. n
                   PROVE  t[i] = v[i]
        OBVIOUS
      <4>1. CASE i < m
        BY <1>1, <2>2, <2>4, <3>2, <4>1
      <4>2. CASE i = m
        BY <3>1, <3>2, <4>2
      <4>3. CASE i > m
        <5>1. i - m \in 1 .. n - m /\ m + (i - m) = i
          BY <1>1, <2>2, <4>3
        <5> QED
          BY <2>4, <3>2, <5>1
      <4> QED
        BY <1>1, <2>2, <4>1, <4>2, <4>3
    <3>5. t = v
      BY <1>1, <3>2, <3>3, <3>4, SeqEqual DEF n
    <3>6. e = <<"semicolon">>
      BY <2>2 DEF e
    <3> QED
      BY <3>5, <3>6 DEF Cat, t
  <2> QED
    BY <1>3, <2>3, <2>4, <2>6, <2>7 DEF T
<1> QED
  BY <1>2, <1>3

\* What comes before the first divider is the first piece.
LEMMA SplitFirst ==
    ASSUME NEW D, NEW b \in D, NEW p \in Seq(D), Without(p, {b}), NEW z \in Seq(D)
    PROVE  split(Cat(Cat(p, <<b>>), z), b)[1] = p
<1> DEFINE x == Cat(p, <<b>>)
           First(t) == Len(split(Cat(x, t), b)) > 1 /\ split(Cat(x, t), b)[1] = p
           T == {t \in Seq(D) : First(t)}
<1>1. x \in Seq(D) /\ x = Append(p, b)
  BY DEF Cat
<1> HIDE DEF x
<1>2. <<>> \in T
  <2>1. <<>> \in Seq(D) /\ Cat(x, <<>>) = x
    BY <1>1 DEF Cat
  <2>2. split(x, b) = SplitByte(split(p, b), b, b)
    BY <1>1, SplitSteps
  <2>3. split(p, b) = <<p>>
    BY SplitOne
  <2> DEFINE l == <<p>>  e == <<>>
  <2>4. SplitByte(l, b, b) = Append(l, e)
    BY DEF SplitByte
  <2>5. Len(Append(l, e)) > 1 /\ Append(l, e)[1] = p
    OBVIOUS
  <2>6. Len(split(x, b)) > 1 /\ split(x, b)[1] = p
    BY <2>2, <2>3, <2>4, <2>5
  <2> QED
    BY <2>1, <2>6
<1>3. ASSUME NEW t \in Seq(D) \cap T, NEW c \in D
      PROVE  Append(t, c) \in T
  <2> DEFINE xt == Cat(x, t)  l == split(xt, b)
  <2>1. t \in Seq(D) /\ Append(t, c) \in Seq(D) /\ Len(l) > 1 /\ l[1] = p
    OBVIOUS
  <2> HIDE DEF T
  <2>8. Len(l) > 1 /\ l[1] = p
    BY <2>1
  <2>9. t \in Seq(D)
    OBVIOUS
  <2>2. Cat(x, Append(t, c)) = Append(xt, c) /\ xt \in Seq(D)
    <3>1. x \in Seq(D) /\ c \in D
      BY <1>1
    <3>2. xt \in Seq(D)
      BY <2>9, <3>1, CatFacts
    <3>3. Cat(x, Append(t, c)) = Append(Cat(x, t), c)
      BY <2>9, <3>1, CatAppend
    <3> QED
      BY <3>2, <3>3
  <2> HIDE DEF xt
  <2>3. l \in Seq(Seq(D)) /\ split(Append(xt, c), b) = SplitByte(l, c, b)
    BY <2>2, SplitSteps
  <2> HIDE DEF l
  <2>4. Len(SplitByte(l, c, b)) > 1 /\ SplitByte(l, c, b)[1] = p
    <3> DEFINE P == Seq(D)
    <3>1. l \in Seq(P) /\ Len(l) \in Nat /\ <<>> \in P /\ <<c>> \in P
      BY <2>3
    <3> HIDE DEF P
    <3>2. CASE c = b
      <4>1. SplitByte(l, c, b) = Append(l, <<>>)
        BY <3>2 DEF SplitByte
      <4> QED
        BY <2>8, <3>1, <4>1
    <3>3. CASE c # b
      <4>1. SplitByte(l, c, b) = Extended(l, <<c>>)
        BY <3>3 DEF SplitByte
      <4>2. Extended(l, <<c>>) = [l EXCEPT ![Len(l)] = @ \o <<c>>]
        BY DEF Extended
      <4>3. Len(Extended(l, <<c>>)) = Len(l)
        <5>1. <<c>> \in Seq(D) /\ Len(l) > 0
          BY <2>8, <3>1
        <5> QED
          BY <2>3, <5>1, ExtendedFacts
      <4>4. 1 # Len(l) /\ 1 \in DOMAIN l
        <5>1. Len(l) > 1
          BY <2>8
        <5>2. DOMAIN l = 1 .. Len(l) /\ Len(l) \in Nat
          BY <3>1
        <5> DEFINE k == Len(l)
        <5>3. k > 1 /\ k \in Nat
          BY <5>1, <5>2
        <5> HIDE DEF k
        <5>4. 1 # k /\ 1 \in 1 .. k
          BY <5>3
        <5> QED
          BY <5>2, <5>4 DEF k
      <4>5. Extended(l, <<c>>)[1] = l[1]
        BY <4>2, <4>4
      <4> QED
        BY <2>8, <4>1, <4>3, <4>5
    <3> QED
      BY <3>2, <3>3
  <2> QED
    BY <2>1, <2>2, <2>3, <2>4 DEF T
<1>4. Seq(D) \subseteq T
  <2> HIDE DEF T
  <2> QED
    BY <1>2, <1>3, SequenceInduction
<1> QED
  BY <1>4 DEF x

\* The first piece of the text of a cookie has its name, and the front of its value.
LEMMA FirstPiece ==
    ASSUME NEW D, NEW c, IsCookie(D, c), Token(c.name)
    PROVE  LET f == [name |-> c.name, value |-> FrontOf(c.value)]
           IN  split(toByteArray(c), "semicolon")[1] = Pair(f)
<1> DEFINE n == c.name  v == c.value  u == FrontOf(v)  f == [name |-> n, value |-> u]
           e == <<"=">>  s == <<"semicolon">>  b == <<"space">>
           p == Pair(f)  ne == Cat(n, e)
<1>1. n \in Seq(D) /\ v \in Seq(D) /\ e \in Seq(D) /\ s \in Seq(D) /\ b \in Seq(D)
      /\ "semicolon" \in D
  BY DEF IsCookie, CookieWords
<1>2. u \in Seq(D) /\ Without(u, {"semicolon"})
      /\ (u = v \/ \E w \in Seq(D) : v = Cat(Cat(u, s), w))
  BY <1>1, FrontFacts
<1>3. p = Cat(ne, u) /\ Pair(c) = Cat(ne, v)
  BY DEF Pair, Cat
<1>4. ne \in Seq(D) /\ Without(ne, {"semicolon"})
  <2>1. Without(n, {"semicolon"}) /\ Without(e, {"semicolon"})
    BY <1>1, TokenIsTight DEF Without
  <2> HIDE DEF n, e
  <2>2. Without(n \o e, {"semicolon"})
    BY <1>1, <2>1, WithoutConcat
  <2>3. ne \in Seq(D)
    BY <1>1, CatFacts
  <2> QED
    BY <2>2, <2>3 DEF Cat
<1>5. PICK r \in Seq(D) : toByteArray(c) = Cat(Pair(c), Cat(Break, r))
  BY CookieIsJoined DEF Begins
<1>6. Break = Cat(s, b)
  BY DEF Break, Cat
<1> HIDE DEF n, v, u, f, p, ne, e, s, b
<1>7. p \in Seq(D) /\ Without(p, {"semicolon"})
  <2>1. Without(ne \o u, {"semicolon"})
    BY <1>2, <1>4, WithoutConcat
  <2>2. Cat(ne, u) \in Seq(D)
    BY <1>2, <1>4, CatFacts
  <2> QED
    BY <1>3, <2>1, <2>2 DEF Cat
<1>8. \E z \in Seq(D) : toByteArray(c) = Cat(Cat(p, s), z)
  <2> DEFINE br == Cat(Break, r)
  <2>1. Cat(b, r) \in Seq(D) /\ br = Cat(s, Cat(b, r)) /\ br \in Seq(D)
    BY <1>1, <1>6, CatFacts
  <2>2. CASE u = v
    <3> DEFINE z == Cat(b, r)
    <3>1. toByteArray(c) = Cat(p, br)
      BY <1>3, <1>5, <2>2
    <3> HIDE DEF br, z
    <3>2. z \in Seq(D) /\ br = Cat(s, z)
      BY <2>1 DEF z
    <3>3. Cat(p, br) = Cat(Cat(p, s), z)
      BY <1>1, <1>7, <3>2, CatFacts
    <3> QED
      BY <3>1, <3>2, <3>3
  <2>3. CASE \E w \in Seq(D) : v = Cat(Cat(u, s), w)
    <3>1. PICK w \in Seq(D) : v = Cat(Cat(u, s), w)
      BY <2>3
    <3> HIDE DEF br
    <3> DEFINE us == Cat(u, s)  ps == Cat(p, s)  z == Cat(w, br)
    <3>2. us \in Seq(D) /\ ps \in Seq(D) /\ z \in Seq(D)
      BY <1>1, <1>2, <1>7, <2>1, CatFacts
    <3>3. ps = Cat(ne, us)
      BY <1>1, <1>2, <1>3, <1>4, CatFacts
    <3>4. v = Cat(us, w)
      BY <3>1
    <3> HIDE DEF us, ps
    <3>5. Cat(ne, v) = Cat(ps, w)
      BY <1>4, <3>2, <3>3, <3>4, CatFacts
    <3>6. Cat(Cat(ps, w), br) = Cat(ps, z)
      BY <2>1, <3>2, CatFacts
    <3>7. toByteArray(c) = Cat(ps, z)
      BY <1>3, <1>5, <3>5, <3>6 DEF br
    <3> QED
      BY <3>2, <3>7 DEF ps
  <2> QED
    BY <1>2, <2>2, <2>3
<1>9. split(toByteArray(c), "semicolon")[1] = p
  <2>1. PICK z \in Seq(D) : toByteArray(c) = Cat(Cat(p, s), z)
    BY <1>8
  <2>2. split(Cat(Cat(p, <<"semicolon">>), z), "semicolon")[1] = p
    BY <1>1, <1>7, SplitFirst
  <2> QED
    BY <2>1, <2>2 DEF s
<1> QED
  BY <1>9 DEF p, f, n, u, v

\* What a response puts into the jar.
LEMMA StoredFacts ==
    ASSUME NEW D, NEW c, IsCookie(D, c), Token(c.name)
    PROVE  /\ InJar(c) \in [name : Seq(D), value : Seq(D)]
           /\ Stored(toByteArray(c))
                = LET old == {i \in DOMAIN jar : jar[i].name = c.name}
                  IN  IF old = {} THEN Append(jar, InJar(c))
                      ELSE [i \in DOMAIN jar |-> IF i \in old THEN InJar(c) ELSE jar[i]]
<1> DEFINE u == FrontOf(c.value)  f == [name |-> c.name, value |-> u]  p == Pair(f)
<1>1. c.name \in Seq(D) /\ c.value \in Seq(D) /\ "=" \in D
  BY DEF IsCookie, CookieWords
<1>2. u \in Seq(D)
  BY <1>1, FrontFacts
<1>3. f.name = c.name /\ f.value = u
  OBVIOUS
<1>4. Without(c.name, {"="}) /\ trimmed(c.name) = c.name
  BY <1>1, TokenIsTight
<1> HIDE DEF f, u
<1>5. Index(p, "=") = Len(c.name) + 1 /\ Before(p, Len(c.name) + 1) = c.name
      /\ After(p, Len(c.name) + 1) = u
  BY <1>1, <1>2, <1>3, <1>4, PairParts
<1>6. split(toByteArray(c), "semicolon")[1] = p
  BY FirstPiece DEF f, u
<1>7. trimmed(u) \in Seq(D)
  BY <1>2, TrimmedFacts
<1> HIDE DEF p
<1>8. [name |-> trimmed(Before(p, Index(p, "="))), value |-> trimmed(After(p, Index(p, "=")))] = InJar(c)
  BY <1>4, <1>5 DEF InJar, u
<1>9. InJar(c).name = c.name /\ InJar(c) \in [name : Seq(D), value : Seq(D)]
  BY <1>1, <1>7 DEF InJar, u
<1> QED
  BY <1>6, <1>8, <1>9, Zenon DEF Stored

--------------------------------------------------------------------------------
\* What cookies are written with.
CookieAlphabet == Words \cup CookieWords

\* What the handlers set are cookies.
LEMMA SetCookiesFacts ==
    ASSUME NEW c \in SetCookies, c.name # <<>>
    PROVE  /\ IsCookie(CookieAlphabet, c) /\ Token(c.name)
           /\ Quiet(c.value) => Sound(CookieAlphabet, c)
<1> DEFINE A == Seq(STRING)  B == Seq(CookieAlphabet)
<1>1. STRING \subseteq CookieAlphabet /\ CookieWords \subseteq CookieAlphabet
  BY DEF Words, CookieAlphabet
<1>2. A \subseteq B
  BY <1>1, SeqOfMore
<1>3. /\ c.name \in A /\ c.value \in A /\ c.comment \in A /\ c.domain \in A
      /\ c.maxAge \in A /\ c.path \in A
  BY CookiesAssumption
<1>4. \A i \in DOMAIN c.name : c.name[i] \notin NameMarks
  BY CookiesAssumption DEF NameMarks
<1>5. c.name \notin AttributeNames
  BY CookiesAssumption
<1>6. Quiet(c.comment) /\ Quiet(c.domain) /\ Quiet(c.maxAge) /\ Quiet(c.path)
  BY CookiesAssumption
<1> HIDE DEF A
<1>7. /\ c.name \in B /\ c.value \in B /\ c.comment \in B /\ c.domain \in B
      /\ c.maxAge \in B /\ c.path \in B
  BY <1>2, <1>3
<1> HIDE DEF B
<1>8. IsCookie(CookieAlphabet, c)
  BY <1>1, <1>7 DEF IsCookie, B
<1>9. Token(c.name)
  BY <1>4 DEF Token, Without
<1>10. \A v \in B : Quiet(v) => IsValue(v)
  BY QuietIsValue DEF B
<1>11. Quiet(c.value) => Sound(CookieAlphabet, c)
  BY <1>5, <1>6, <1>7, <1>8, <1>9, <1>10 DEF Sound
<1> QED
  BY <1>8, <1>9, <1>11

(* The jar holds, of each cookie that is set, what a browser keeps, and    *)
(* nothing else; a served request has what the jar sent.                   *)
JarInv ==
    /\ jar \in Seq([name : Seq(CookieAlphabet), value : Seq(CookieAlphabet)])
    /\ set \subseteq SetCookies /\ \A c \in set : c.name # <<>>
    /\ \A i, j \in DOMAIN jar : jar[i].name = jar[j].name => i = j
    /\ \A c \in set : \E i \in DOMAIN jar : jar[i] = InJar(c)
    /\ \A i \in DOMAIN jar : \E c \in set : jar[i] = InJar(c)
    /\ received => cookies = extractCookies(CookieHeader)

\* The places of the jar.
LEMMA JarPlaces == JarInv => Len(jar) \in Nat /\ DOMAIN jar = 1 .. Len(jar)
BY DEF JarInv

\* The jar is empty at the start.
LEMMA JarInitInv == ParametersInit => JarInv
<1> SUFFICES ASSUME ParametersInit
             PROVE  JarInv
  OBVIOUS
<1>1. set = {} /\ jar = <<>> /\ received = FALSE
  BY DEF ParametersInit
<1>2. \A S : <<>> \in Seq(S)
  OBVIOUS
<1>3. DOMAIN <<>> = {}
  OBVIOUS
<1> QED
  BY <1>1, <1>2, <1>3 DEF JarInv

\* A response replaces what was kept under the name, or adds to it.
LEMMA JarSetInv ==
    ASSUME JarInv, NEW c \in SetCookies, setCookie(c)
    PROVE  JarInv'
<1> DEFINE R == [name : Seq(CookieAlphabet), value : Seq(CookieAlphabet)]
           k == InJar(c)  n == Len(jar)
           old == {i \in DOMAIN jar : jar[i].name = c.name}
           others == {d \in set : d.name # c.name}
<1>1. c.name # <<>> /\ set' = others \cup {c} /\ jar' = Stored(toByteArray(c)) /\ ~ received'
  BY DEF setCookie, Answered
<1>2. k \in R /\ jar' = IF old = {} THEN Append(jar, k)
                        ELSE [i \in DOMAIN jar |-> IF i \in old THEN k ELSE jar[i]]
  BY <1>1, SetCookiesFacts, StoredFacts
<1>3. k.name = c.name /\ \A d : InJar(d).name = d.name
  BY DEF InJar
<1>4. /\ jar \in Seq(R) /\ n \in Nat /\ DOMAIN jar = 1 .. n
      /\ set \subseteq SetCookies /\ \A d \in set : d.name # <<>>
      /\ \A i, j \in 1 .. n : jar[i].name = jar[j].name => i = j
      /\ \A d \in set : \E i \in 1 .. n : jar[i] = InJar(d)
      /\ \A i \in 1 .. n : \E d \in set : jar[i] = InJar(d)
  BY JarPlaces, Zenon DEF JarInv
<1>5. \A i \in 1 .. n : i \in old <=> jar[i].name = c.name
  BY <1>4
<1> HIDE DEF n, k, R
<1>6. \E m \in Nat :
        /\ jar' \in Seq(R) /\ DOMAIN jar' = 1 .. m /\ m >= n
        /\ \A i \in 1 .. n : jar'[i] = IF i \in old THEN k ELSE jar[i]
        /\ \A i \in 1 .. m : i \in 1 .. n \/ (jar'[i] = k /\ old = {} /\ i = n + 1)
        /\ \E i \in 1 .. m : jar'[i] = k
  <2>1. CASE old = {}
    <3>1. jar' = Append(jar, k)
      BY <1>2, <2>1
    <3>2. /\ jar' \in Seq(R) /\ DOMAIN jar' = 1 .. n + 1 /\ jar'[n + 1] = k
          /\ \A i \in 1 .. n : jar'[i] = jar[i]
      <4>1. jar \in Seq(R) /\ k \in R /\ n = Len(jar)
        BY <1>2, <1>4 DEF n
      <4> QED
        BY <3>1, <4>1
    <3>3. \A i \in 1 .. n + 1 : i \in 1 .. n \/ i = n + 1
      BY <1>4
    <3>4. n + 1 \in Nat /\ n + 1 >= n /\ n + 1 \in 1 .. n + 1
      BY <1>4
    <3> HIDE DEF old
    <3> QED
      BY <2>1, <3>2, <3>3, <3>4
  <2>2. CASE old # {}
    <3>1. jar' = [i \in 1 .. n |-> IF i \in old THEN k ELSE jar[i]]
      BY <1>2, <1>4, <2>2
    <3>2. PICK o \in 1 .. n : o \in old
      BY <1>4, <2>2
    <3> HIDE DEF old
    <3>3. \A i \in 1 .. n : jar[i] \in R
      BY <1>4
    <3>4. jar' \in [1 .. n -> R]
      BY <1>2, <3>1, <3>3
    <3>5. jar' \in Seq(R) /\ DOMAIN jar' = 1 .. n
      BY <1>4, <3>4, FunctionIsSeq
    <3>6. jar'[o] = k /\ n >= n
      BY <1>4, <3>1, <3>2
    <3> QED
      BY <1>4, <3>1, <3>2, <3>5, <3>6
  <2> QED
    BY <2>1, <2>2
<1>7. PICK m \in Nat :
        /\ jar' \in Seq(R) /\ DOMAIN jar' = 1 .. m /\ m >= n
        /\ \A i \in 1 .. n : jar'[i] = IF i \in old THEN k ELSE jar[i]
        /\ \A i \in 1 .. m : i \in 1 .. n \/ (jar'[i] = k /\ old = {} /\ i = n + 1)
        /\ \E i \in 1 .. m : jar'[i] = k
  BY <1>6
<1>8. \A i \in 1 .. n : i \in 1 .. m
  BY <1>4, <1>7
<1> HIDE DEF old, others
<1>9. \A i \in 1 .. m : (i \in 1 .. n /\ jar'[i] = jar[i] /\ jar[i].name # c.name)
                        \/ (jar'[i] = k /\ (i \in old \/ (old = {} /\ i = n + 1)))
  BY <1>5, <1>7
<1>10. \A i, j \in 1 .. m : jar'[i].name = jar'[j].name => i = j
  <2> SUFFICES ASSUME NEW i \in 1 .. m, NEW j \in 1 .. m, jar'[i].name = jar'[j].name
               PROVE  i = j
    OBVIOUS
  <2>1. CASE i \in 1 .. n /\ jar'[i] = jar[i] /\ jar[i].name # c.name
    <3>1. ~ (jar'[j] = k)
      BY <1>3, <2>1
    <3>2. j \in 1 .. n /\ jar'[j] = jar[j]
      BY <1>9, <3>1
    <3> QED
      BY <1>4, <2>1, <3>2
  <2>2. CASE jar'[i] = k /\ (i \in old \/ (old = {} /\ i = n + 1))
    <3>1. jar'[j] = k /\ (j \in old \/ (old = {} /\ j = n + 1))
      BY <1>3, <1>9, <2>2
    <3>2. \A x, y \in old : x = y
      <4> SUFFICES ASSUME NEW x \in old, NEW y \in old
                   PROVE  x = y
        OBVIOUS
      <4>1. x \in 1 .. n /\ y \in 1 .. n
        BY <1>4 DEF old
      <4>2. jar[x].name = jar[y].name
        BY <1>5, <4>1
      <4>3. \A a, b \in 1 .. n : jar[a].name = jar[b].name => a = b
        BY <1>4
      <4> QED
        BY <4>1, <4>2, <4>3, Zenon
    <3> QED
      BY <2>2, <3>1, <3>2
  <2> QED
    BY <1>9, <2>1, <2>2
<1>11. \A d \in set' : \E i \in 1 .. m : jar'[i] = InJar(d)
  <2> SUFFICES ASSUME NEW d \in set'
               PROVE  \E i \in 1 .. m : jar'[i] = InJar(d)
    OBVIOUS
  <2>1. CASE d = c
    BY <1>7, <2>1 DEF k
  <2>2. CASE d # c
    <3>1. d \in set /\ d.name # c.name
      BY <1>1, <2>2 DEF others
    <3>2. PICK i \in 1 .. n : jar[i] = InJar(d)
      BY <1>4, <3>1
    <3>3. i \notin old
      BY <1>3, <1>5, <3>1, <3>2
    <3> QED
      BY <1>7, <1>8, <3>2, <3>3
  <2> QED
    BY <2>1, <2>2
<1>12. \A i \in 1 .. m : \E d \in set' : jar'[i] = InJar(d)
  <2> SUFFICES ASSUME NEW i \in 1 .. m
               PROVE  \E d \in set' : jar'[i] = InJar(d)
    OBVIOUS
  <2>1. CASE jar'[i] = k
    BY <1>1, <2>1 DEF k
  <2>2. CASE i \in 1 .. n /\ jar'[i] = jar[i] /\ jar[i].name # c.name
    <3>1. PICK d \in set : jar[i] = InJar(d)
      BY <1>4, <2>2
    <3>2. d \in others
      BY <1>3, <2>2, <3>1 DEF others
    <3> QED
      BY <1>1, <2>2, <3>1, <3>2
  <2> QED
    BY <1>9, <2>1, <2>2
<1>13. set' \subseteq SetCookies /\ \A d \in set' : d.name # <<>>
  BY <1>1, <1>4 DEF others
<1> QED
  BY <1>1, <1>7, <1>10, <1>11, <1>12, <1>13 DEF JarInv, R

\* A request takes what the jar sends.
LEMMA JarNextInv == JarInv /\ [ParametersNext]_parameterVars => JarInv'
<1> SUFFICES ASSUME JarInv, [ParametersNext]_parameterVars
             PROVE  JarInv'
  OBVIOUS
<1>1. ASSUME NEW c \in SetCookies, setCookie(c)
      PROVE  JarInv'
  BY <1>1, JarSetInv
<1>2. ASSUME NEW f \in Forms, NEW spaces \in BOOLEAN, NEW n \in 0 .. Len(f),
             DecodeRequest(f, n, spaces)
      PROVE  JarInv'
  <2>1. cookies' = extractCookies(CookieHeader) /\ jar' = jar /\ set' = set
    BY <1>2 DEF DecodeRequest
  <2>2. CookieHeader' = CookieHeader
    BY <2>1 DEF CookieHeader
  <2> QED
    BY <2>1, <2>2, Zenon DEF JarInv
<1>3. CASE UNCHANGED parameterVars
  <2>1. cookies' = cookies /\ jar' = jar /\ set' = set /\ received' = received
    BY <1>3 DEF parameterVars
  <2>2. CookieHeader' = CookieHeader
    BY <2>1 DEF CookieHeader
  <2> QED
    BY <2>1, <2>2, Zenon DEF JarInv
<1> QED
  BY <1>1, <1>2, <1>3 DEF ParametersNext

\* The header of the request is split into the cookies of the jar.
LEMMA HeaderIsSplit ==
    ASSUME JarInv, Unquoted
    PROVE  /\ splitCSV(CookieHeader) \in Seq(Seq(CookieAlphabet))
           /\ Len(splitCSV(CookieHeader)) = Len(jar)
           /\ \A i \in 1 .. Len(jar) : NameAndValue(splitCSV(CookieHeader)[i]) = jar[i]
<1> DEFINE D == CookieAlphabet  R == [name : Seq(D), value : Seq(D)]  n == Len(jar)
           parts == [i \in DOMAIN jar |-> Pair(jar[i])]
<1>1. /\ jar \in Seq(R) /\ n \in Nat /\ DOMAIN jar = 1 .. n
      /\ set \subseteq SetCookies /\ \A d \in set : d.name # <<>>
      /\ \A i \in 1 .. n : \E d \in set : jar[i] = InJar(d)
  BY JarPlaces, Zenon DEF JarInv
<1>2. "semicolon" \in D /\ "space" \in D /\ "=" \in D
  BY DEF CookieAlphabet, CookieWords
<1>3. ASSUME NEW i \in 1 .. n
      PROVE  /\ Pair(jar[i]) \in Seq(D) /\ IsPart(Pair(jar[i]))
             /\ NameAndValue(Pair(jar[i])) = jar[i]
  <2>1. PICK d \in set : jar[i] = InJar(d)
    BY <1>1
  <2>2. IsCookie(D, d) /\ Token(d.name) /\ d \in SetCookies
    BY <1>1, SetCookiesFacts
  <2>3. Without(d.value, {"quote"})
    BY DEF Unquoted, Places, Without
  <2>4. d.value \in Seq(D) /\ d.name \in Seq(D)
    BY <2>2 DEF IsCookie
  <2> DEFINE u == FrontOf(d.value)  t == trimmed(u)
  <2>5. u \in Seq(D) /\ Without(u, {"semicolon"}) /\ Without(u, {"quote"})
    BY <2>3, <2>4, FrontFacts
  <2> HIDE DEF u
  <2>6. t \in Seq(D) /\ Tight(t) /\ Without(t, {"semicolon"}) /\ Without(t, {"quote"})
    BY <2>5, TrimmedFacts
  <2>7. jar[i].name = d.name /\ jar[i].value = t /\ jar[i] = [name |-> d.name, value |-> t]
    BY <2>1 DEF InJar, u
  <2> HIDE DEF t, D
  <2>8. IsValue(t)
    BY <2>6 DEF IsValue, Without, Signs
  <2> DEFINE r == jar[i]
  <2>9. r.name \in Seq(D) /\ r.value \in Seq(D) /\ Token(r.name) /\ IsValue(r.value)
        /\ r = [name |-> r.name, value |-> r.value]
    BY <2>2, <2>4, <2>6, <2>7, <2>8
  <2> HIDE DEF r
  <2>10. Pair(r) \in Seq(D) /\ IsPart(Pair(r)) /\ NameAndValue(Pair(r)) = [name |-> r.name, value |-> r.value]
    BY <1>2, <2>9, PairIsPart
  <2> QED
    BY <2>9, <2>10 DEF r
<1> HIDE DEF D, R
<1>4. parts \in Seq(Seq(D)) /\ Len(parts) = n /\ DOMAIN parts = 1 .. n
  <2> DEFINE P == Seq(D)
  <2>1. parts \in [1 .. n -> P]
    BY <1>1, <1>3
  <2> HIDE DEF P, parts, n
  <2>2. parts \in Seq(P) /\ Len(parts) = n
    BY <1>1, <2>1, FunctionIsSeq
  <2> QED
    BY <2>1, <2>2 DEF P
<1>5. \A i \in 1 .. n : parts[i] = Pair(jar[i])
  BY <1>1
<1>6. CookieHeader = Joined(parts, Break)
  BY DEF CookieHeader
<1> HIDE DEF parts, n
<1>7. splitCSV(CookieHeader) = parts
  BY <1>2, <1>3, <1>4, <1>5, <1>6, PartsJoined
<1>8. \A i \in 1 .. n : NameAndValue(parts[i]) = jar[i]
  BY <1>3, <1>5
<1> QED
  BY <1>4, <1>7, <1>8 DEF n, D

\* A cookie that is set comes back.
LEMMA SetComesBack ==
    ASSUME JarInv, received, Unquoted, NEW c \in set, Quiet(c.value)
    PROVE  getCookie(c.name) = c.value
<1> DEFINE D == CookieAlphabet  n == Len(jar)  parts == splitCSV(CookieHeader)
           names == {NameAndValue(parts[i]).name : i \in DOMAIN parts}
           Here(m) == {i \in DOMAIN parts : NameAndValue(parts[i]).name = m}
<1>1. Len(parts) = n /\ \A i \in 1 .. n : NameAndValue(parts[i]) = jar[i]
  BY HeaderIsSplit
<1>2. /\ n \in Nat /\ \A i, j \in 1 .. n : jar[i].name = jar[j].name => i = j
      /\ \E i \in 1 .. n : jar[i] = InJar(c)
      /\ c \in SetCookies /\ c.name # <<>>
      /\ cookies = extractCookies(CookieHeader)
  BY JarPlaces, Zenon DEF JarInv
<1>3. PICK i \in 1 .. n : jar[i] = InJar(c)
  BY <1>2
<1>4. jar[i].name = c.name /\ jar[i].value = trimmed(FrontOf(c.value))
  BY <1>3 DEF InJar
<1>5. trimmed(FrontOf(c.value)) = c.value
  <2>1. c.value \in Seq(D)
    BY <1>2, SetCookiesFacts DEF IsCookie
  <2>2. FrontOf(c.value) = c.value
    BY <2>1, FrontFacts DEF Quiet
  <2> QED
    BY <2>2 DEF Quiet
<1>6. DOMAIN parts = 1 .. n
  <2>1. parts \in Seq(Seq(D))
    BY HeaderIsSplit DEF D
  <2> QED
    BY <1>1, <2>1
<1> HIDE DEF parts, n
<1>7. c.name \in names /\ Here(c.name) = {i}
  BY <1>1, <1>2, <1>3, <1>4, <1>6
<1>8. Max({i}) = i
  <2>1. {i} \in SUBSET (1 .. n) /\ {i} # {}
    OBVIOUS
  <2> DEFINE T == {i}
  <2>2. T \in SUBSET (1 .. n) /\ T # {} /\ \A y \in T : y = i
    OBVIOUS
  <2> HIDE DEF T
  <2>3. Max(T) \in T
    BY <1>2, <2>2, MaxIsIn
  <2> QED
    BY <2>2, <2>3 DEF T
<1>9. extractCookies(CookieHeader) = [m \in names |-> NameAndValue(parts[Max(Here(m))]).value]
  BY Zenon DEF extractCookies, parts
<1>10. extractCookies(CookieHeader)[c.name] = c.value /\ c.name \in DOMAIN extractCookies(CookieHeader)
  <2>1. NameAndValue(parts[Max(Here(c.name))]).value = c.value
    BY <1>1, <1>4, <1>5, <1>7, <1>8
  <2> HIDE DEF names, Here
  <2> QED
    BY <1>7, <1>9, <2>1
<1> QED
  BY <1>2, <1>10 DEF getCookie

\* A cookie's text reads back as the cookie.
LEMMA TextReadsBack ==
    ASSUME NEW c \in SetCookies, c.name # <<>>, Quiet(c.value)
    PROVE  LET parsed == HttpCookie(toByteArray(c))
           IN  [parsed EXCEPT !.secure = c.secure] = [f \in DOMAIN parsed |-> c[f]]
<1> DEFINE parsed == HttpCookie(toByteArray(c))
<1>1. parsed = Read(c.name, c.value, c.comment, c.domain, c.maxAge, c.path)
  BY SetCookiesFacts, CookieIsRead
<1> HIDE DEF parsed
<1> DEFINE q == [parsed EXCEPT !.secure = c.secure]
           N == {"name", "value", "comment", "domain", "maxAge", "path", "secure"}
<1>2. DOMAIN parsed = N
  BY <1>1 DEF Read
<1>3. q = [f \in N |-> IF f = "secure" THEN c.secure ELSE parsed[f]]
  BY <1>2, Zenon
<1>4. \A f \in N : f # "secure" => parsed[f] = c[f]
  BY <1>1 DEF Read
<1>5. q = [f \in N |-> c[f]]
  <2> HIDE DEF q
  <2> QED
    BY <1>3, <1>4
<1> QED
  BY <1>2, <1>5, Zenon DEF parsed, q

\* Cookies come back, in every run, with the values that they were set to.
THEOREM CookiesAlwaysComeBack == ParametersSpec => []CookiesComeBack
<1>1. JarInv => CookiesComeBack
  <2> SUFFICES ASSUME JarInv, NEW c \in set, Quiet(c.value)
               PROVE  LET parsed == HttpCookie(toByteArray(c)) IN
                      /\ received /\ Unquoted => getCookie(c.name) = c.value
                      /\ [parsed EXCEPT !.secure = c.secure] = [f \in DOMAIN parsed |-> c[f]]
    BY Zenon DEF CookiesComeBack
  <2>1. c \in SetCookies /\ c.name # <<>>
    BY DEF JarInv
  <2>2. received /\ Unquoted => getCookie(c.name) = c.value
    BY SetComesBack
  <2> QED
    BY <2>1, <2>2, TextReadsBack, Zenon
<1> QED
  BY <1>1, JarInitInv, JarNextInv, PTL DEF ParametersSpec

================================================================================
