---------------------------- MODULE ServerProof -----------------------------
(***************************************************************************)
(* The theorems about Server, for every set of workers and every value of   *)
(* the constants, and that they hold of Cluster.                            *)
(***************************************************************************)
EXTENDS Cluster, SequenceTheorems, FiniteSetTheorems, TLAPS

-----------------------------------------------------------------------------
(* Sequences of passes *)

\* A function on an initial segment of the numbers is a sequence.
LEMMA FunIsSeq ==
    ASSUME NEW S, NEW n \in Nat, NEW f \in [1 .. n -> S]
    PROVE  f \in Seq(S) /\ Len(f) = n /\ DOMAIN f = 1 .. n
BY SeqDef

\* The innermost pass is a pass.
LEMMA TopType ==
    ASSUME passes \in Seq(Pass), passes # <<>>
    PROVE  /\ Len(passes) \in Nat \ {0}
           /\ DOMAIN passes = 1 .. Len(passes)
           /\ Len(passes) \in DOMAIN passes
           /\ Top \in Pass
BY DEF Top

\* Setting the innermost pass leaves the others alone.
LEMMA SetTopType ==
    ASSUME passes \in Seq(Pass), passes # <<>>, NEW p \in Pass, SetTop(p)
    PROVE  /\ passes' \in Seq(Pass)
           /\ Len(passes') = Len(passes)
           /\ DOMAIN passes' = DOMAIN passes
           /\ passes'[Len(passes)] = p
           /\ \A i \in DOMAIN passes : i # Len(passes) => passes'[i] = passes[i]
BY TopType DEF SetTop

\* A new pass starts inside those that wait.
LEMMA TickType ==
    ASSUME TypeOK, Tick
    PROVE  /\ passes' \in Seq(Pass)
           /\ Len(passes') = Len(passes) + 1
           /\ passes'[Len(passes) + 1] = NewPass
           /\ \A i \in DOMAIN passes :
                  passes'[i] = [passes[i] EXCEPT !.over = TRUE]
<1> DEFINE outer == [i \in DOMAIN passes |-> [passes[i] EXCEPT !.over = TRUE]]
<1>1. Len(passes) \in Nat /\ DOMAIN passes = 1 .. Len(passes)
  BY DEF TypeOK, PassesOK
<1>2. outer \in [1 .. Len(passes) -> Pass]
  <2>1. ASSUME NEW i \in DOMAIN passes
        PROVE  [passes[i] EXCEPT !.over = TRUE] \in Pass
    <3>1. passes[i] \in Pass
      BY DEF TypeOK, PassesOK
    <3> QED
      BY <3>1 DEF Pass
  <2> QED
    BY <1>1, <2>1
<1>3. outer \in Seq(Pass) /\ Len(outer) = Len(passes)
  BY <1>1, <1>2, FunIsSeq
<1>4. NewPass \in Pass
  BY DEF NewPass, Pass, TypeOK, RegistryOK
<1>5. passes' = Append(outer, NewPass)
  BY DEF Tick
<1>6. ASSUME NEW i \in DOMAIN passes
      PROVE  passes'[i] = [passes[i] EXCEPT !.over = TRUE]
  BY <1>1, <1>3, <1>5
<1> HIDE DEF outer
<1> QED
  BY <1>3, <1>4, <1>5, <1>6

\* The innermost pass ends and frees entries.
LEMMA RemoveType ==
    ASSUME TypeOK, passes # <<>>, NEW S, Remove(S)
    PROVE  /\ passes' \in Seq(Pass)
           /\ Len(passes') = Len(passes) - 1
           /\ DOMAIN passes' = 1 .. Len(passes) - 1
           /\ \A i \in 1 .. Len(passes) - 1 :
                  passes'[i] = [passes[i] EXCEPT !.ok = @ /\ passes[i].it \notin S,
                                                 !.unseen = @ \ S]
<1>1. Len(passes) \in Nat \ {0} /\ DOMAIN passes = 1 .. Len(passes)
  BY TopType DEF TypeOK, PassesOK
<1>2. ASSUME NEW i \in 1 .. Len(passes) - 1
      PROVE  [passes[i] EXCEPT !.ok = @ /\ passes[i].it \notin S,
                               !.unseen = @ \ S] \in Pass
  <2>1. passes[i] \in Pass
    BY <1>1 DEF TypeOK, PassesOK
  <2>2. passes[i].unseen \ S \in SUBSET Url
    BY <2>1 DEF Pass
  <2>3. (passes[i].ok /\ passes[i].it \notin S) \in BOOLEAN
    OBVIOUS
  <2> QED
    BY <2>1, <2>2, <2>3 DEF Pass
<1>3. passes' \in [1 .. Len(passes) - 1 -> Pass]
  BY <1>1, <1>2 DEF Remove
<1>4. Len(passes) - 1 \in Nat
  BY <1>1
<1>5. passes' \in Seq(Pass) /\ Len(passes') = Len(passes) - 1
  BY <1>3, <1>4, FunIsSeq
<1> QED
  BY <1>1, <1>3, <1>5 DEF Remove

-----------------------------------------------------------------------------
(* Type correctness *)

\* An entry that is made or extended is an entry within the bound.
LEMMA EntryType ==
    /\ \A u \in Url : NewWorker(u) \in Entry /\ NewWorker(u).url = u
                      /\ NewWorker(u).cars = <<>>
    /\ \A w \in Entry, g \in Gene : Len(w.cars) <= BUFFER_SIZE =>
           /\ appendCar(w, g) \in Entry
           /\ appendCar(w, g).url = w.url
           /\ Len(appendCar(w, g).cars) <= BUFFER_SIZE
<1>1. \A u \in Url : NewWorker(u) \in Entry /\ NewWorker(u).url = u
                     /\ NewWorker(u).cars = <<>>
  BY DEF NewWorker, Entry
<1>2. ASSUME NEW w \in Entry, NEW g \in Gene, Len(w.cars) <= BUFFER_SIZE
      PROVE  /\ appendCar(w, g) \in Entry
             /\ appendCar(w, g).url = w.url
             /\ Len(appendCar(w, g).cars) <= BUFFER_SIZE
  <2> DEFINE cs == Append(w.cars, g)
             cars == IF Len(cs) > BUFFER_SIZE THEN Tail(cs) ELSE cs
  <2>1. w.cars \in Seq(Gene)
    BY DEF Entry
  <2>2. cs \in Seq(Gene) /\ Len(cs) = Len(w.cars) + 1 /\ cs # <<>>
    BY <2>1
  <2>3. Tail(cs) \in Seq(Gene) /\ Len(Tail(cs)) = Len(w.cars)
    BY <2>1, <2>2
  <2>4. cars \in Seq(Gene) /\ Len(cars) <= BUFFER_SIZE
    BY <1>2, <2>1, <2>2, <2>3, ServerAssumption
  <2>5. appendCar(w, g) = [w EXCEPT !.cars = cars]
    BY DEF appendCar
  <2> HIDE DEF cars
  <2> QED
    BY <2>4, <2>5 DEF Entry
<1> QED
  BY <1>1, <1>2

\* The registry stays well formed; the blank entry of operator[] needs an
\* iterator to an entry that is gone.
LEMMA RegistryNext == TypeOK /\ IteratorIsValid /\ [Next]_vars => RegistryOK'
<1> SUFFICES ASSUME TypeOK, IteratorIsValid, [Next]_vars PROVE RegistryOK'
  OBVIOUS
<1> USE DEF TypeOK, RegistryOK, Registered
<1>1. ASSUME NEW m \in net, HandleRegister(m) PROVE RegistryOK'
  <2>1. m.url \in Url
    BY DEF WorldOK, Request
  <2>2. allActiveWorkers' = Insert(m.url, NewWorker(m.url))
    BY <1>1 DEF HandleRegister
  <2>3. NewWorker(m.url) \in Entry /\ NewWorker(m.url).url = m.url
        /\ Len(NewWorker(m.url).cars) = 0
    BY <2>1, EntryType
  <2> QED
    BY <2>1, <2>2, <2>3, ServerAssumption DEF Insert
<1>2. ASSUME NEW m \in net, HandleDump(m) PROVE RegistryOK'
  <2>1. m.url \in Url /\ m.gene \in Gene
    BY <1>2 DEF WorldOK, Request, HandleDump
  <2>2. CASE m.url \in Registered
    <3>1. allActiveWorkers' =
              [allActiveWorkers EXCEPT ![m.url] = appendCar(allActiveWorkers[m.url], m.gene)]
      BY <1>2, <2>2 DEF HandleDump
    <3> QED
      BY <2>1, <2>2, <3>1, EntryType
  <2>3. CASE m.url \notin Registered
    <3> DEFINE w == [NewWorker(m.url) EXCEPT !.cars = <<m.gene>>]
    <3>1. allActiveWorkers' = Insert(m.url, w)
      BY <1>2, <2>3 DEF HandleDump
    <3>2. w = [url |-> m.url, speed |-> "-1", cars |-> <<m.gene>>]
      BY DEF NewWorker
    <3>3. <<m.gene>> \in Seq(Gene) /\ Len(<<m.gene>>) = 1
      BY <2>1
    <3> HIDE DEF w
    <3>4. w \in Entry /\ w.url = m.url
      BY <2>1, <3>2, <3>3 DEF Entry
    <3>5. Len(w.cars) = 1
      BY <3>2, <3>3
    <3>6. Len(w.cars) <= BUFFER_SIZE
      BY <3>5, ServerAssumption
    <3> QED
      BY <2>1, <3>1, <3>4, <3>6 DEF Insert
  <2> QED
    BY <2>2, <2>3
<1>3. CASE HbAnswered
  <2>1. Top.it \in Registered
    BY <1>3, TopType DEF HbAnswered, Running, Top, IteratorIsValid, PassesOK
  <2>2. allActiveWorkers' = [allActiveWorkers EXCEPT ![Top.it].speed = "known"]
    BY <1>3, <2>1 DEF HbAnswered
  <2> QED
    BY <2>1, <2>2 DEF Entry
<1>4. CASE HbRemove
  BY <1>4 DEF HbRemove, Remove
<1>5. CASE Tick \/ HbProbe \/ HbRefused \/ HbTimeout \/ HbUndefined
           \/ (\E i \in DOMAIN passes : HbDisturbed(i)) \/ MainIsKept
           \/ UNCHANGED vars
  BY <1>5 DEF Tick, HbProbe, HbRefused, HbTimeout, HbUndefined, HbDisturbed,
              MainIsKept, vars
<1>6. ASSUME NEW u \in Url, WorkerStarts(u) \/ WorkerStops(u) \/ WorkerDumps(u)
      PROVE  RegistryOK'
  BY <1>6 DEF WorkerStarts, WorkerStops, WorkerDumps, server
<1> QED
  BY <1>1, <1>2, <1>3, <1>4, <1>5, <1>6 DEF Next, HeartBeat, Handle, InFlight

\* Every step keeps what is known of the environment.
LEMMA WorldNext == TypeOK /\ [Next]_vars => WorldOK'
<1> SUFFICES ASSUME TypeOK, [Next]_vars PROVE WorldOK'
  OBVIOUS
<1> USE DEF TypeOK, WorldOK
<1>1. ASSUME NEW m \in net, HandleRegister(m) \/ HandleDump(m) PROVE WorldOK'
  BY <1>1 DEF HandleRegister, HandleDump
<1>2. ASSUME NEW u \in Url, WorkerStarts(u) PROVE WorldOK'
  BY <1>2 DEF WorkerStarts, Register, Request, server
<1>3. ASSUME NEW u \in Url, WorkerStops(u) PROVE WorldOK'
  BY <1>3 DEF WorkerStops
<1>4. ASSUME NEW u \in Url, WorkerDumps(u) PROVE WorldOK'
  BY <1>4 DEF WorkerDumps, Dump, Request, server
<1>5. CASE HeartBeat \/ UNCHANGED vars
  BY <1>5 DEF HeartBeat, Tick, HbProbe, HbAnswered, HbRefused, HbTimeout,
              HbDisturbed, HbRemove, HbUndefined, vars
<1>6. CASE MainIsKept
  BY <1>6 DEF MainIsKept
<1> QED
  BY <1>1, <1>2, <1>3, <1>4, <1>5, <1>6 DEF Next, Handle, InFlight

-----------------------------------------------------------------------------
(* The passes *)

(***************************************************************************)
(* What a pass knows of the registry R: its iterator, while it waits,       *)
(* points to an entry or was freed by an inner pass; what it has not seen   *)
(* yet is registered and lies ahead.                                        *)
(***************************************************************************)
Good(p, R) ==
    /\ p.at = "wait" /\ p.ok => p.it \in R
    /\ \A u \in p.unseen : u \in R /\ u > p.it

PassesGood == \A i \in DOMAIN passes : Good(passes[i], Registered)

\* A pass that steps out of its event loop or only notes something stays good.
LEMMA GoodKept ==
    ASSUME NEW p, NEW q, NEW R, NEW T, Good(p, R), R \subseteq T,
           q.at \in {p.at, "scan"}, q.it = p.it, q.ok = p.ok, q.unseen = p.unseen
    PROVE  Good(q, T)
BY DEF Good

\* A step that sets the innermost pass to q.
LEMMA SetTopGood ==
    ASSUME TypeOK, PassesGood, passes # <<>>, NEW q \in Pass, SetTop(q),
           Registered \subseteq Registered', Good(q, Registered'),
           q.at = "wait" => q.it \in Url,
           since' \in 0 .. TickEvery, undefined' \in BOOLEAN
    PROVE  PassesOK' /\ PassesGood'
<1>1. /\ passes' \in Seq(Pass)
      /\ Len(passes') = Len(passes)
      /\ DOMAIN passes' = DOMAIN passes
      /\ passes'[Len(passes)] = q
      /\ \A i \in DOMAIN passes : i # Len(passes) => passes'[i] = passes[i]
  BY SetTopType DEF TypeOK, PassesOK
<1>2. PassesOK'
  <2>1. ASSUME NEW i \in DOMAIN passes'
        PROVE  /\ i < Len(passes') => passes'[i].at = "wait"
               /\ passes'[i].at = "wait" => passes'[i].it \in Url
    BY <1>1, TopType DEF TypeOK, PassesOK
  <2> QED
    BY <1>1, <2>1 DEF PassesOK
<1>3. ASSUME NEW i \in DOMAIN passes' PROVE Good(passes'[i], Registered')
  <2>1. CASE i = Len(passes)
    BY <1>1, <2>1
  <2>2. CASE i # Len(passes)
    <3>1. Good(passes[i], Registered) /\ passes'[i] = passes[i]
      BY <1>1, <1>3, <2>2 DEF PassesGood
    <3> QED
      BY <3>1, GoodKept
  <2> QED
    BY <2>1, <2>2
<1> QED
  BY <1>2, <1>3 DEF PassesGood

\* A new pass begins with the registry as it is.
LEMMA TickGood ==
    ASSUME TypeOK, PassesGood, Tick
    PROVE  PassesOK' /\ PassesGood'
<1> DEFINE n == Len(passes)
<1>1. /\ passes' \in Seq(Pass)
      /\ Len(passes') = n + 1
      /\ passes'[n + 1] = NewPass
      /\ \A i \in DOMAIN passes : passes'[i] = [passes[i] EXCEPT !.over = TRUE]
  BY TickType
<1>2. n \in Nat /\ DOMAIN passes = 1 .. n /\ DOMAIN passes' = 1 .. n + 1
  BY <1>1 DEF TypeOK, PassesOK
<1>3. Registered' = Registered
  BY DEF Tick, Registered
<1>4. ASSUME NEW i \in DOMAIN passes
      PROVE  /\ passes'[i].at = "wait"
             /\ passes'[i].it \in Url
             /\ Good(passes'[i], Registered')
  <2>1. passes[i] \in Pass /\ Good(passes[i], Registered)
    BY DEF TypeOK, PassesOK, PassesGood
  <2>2. passes[i].at = "wait"
    <3>1. CASE i = n
      BY <1>2, <3>1 DEF Tick, Top
    <3>2. CASE i # n
      BY <1>2, <3>2 DEF TypeOK, PassesOK
    <3> QED
      BY <3>1, <3>2
  <2>3. /\ passes'[i].at = passes[i].at /\ passes'[i].it = passes[i].it
        /\ passes'[i].ok = passes[i].ok /\ passes'[i].unseen = passes[i].unseen
    BY <1>1, <2>1 DEF Pass
  <2>4. Good(passes'[i], Registered')
    BY <1>3, <2>1, <2>3, GoodKept
  <2> QED
    BY <2>2, <2>3, <2>4 DEF TypeOK, PassesOK
<1>5. NewPass.at = "scan" /\ Good(NewPass, Registered')
  BY <1>3, ServerAssumption DEF NewPass, Good, TypeOK, RegistryOK
<1>6. ASSUME NEW i \in DOMAIN passes', i # n + 1 PROVE i \in DOMAIN passes
  BY <1>2, <1>6
<1>7. since' \in 0 .. TickEvery /\ undefined' \in BOOLEAN
  <2>1. since' \in 0 .. TickEvery
    BY ServerAssumption DEF Tick
  <2>2. undefined' \in BOOLEAN
    BY DEF Tick, TypeOK, PassesOK
  <2> QED
    BY <2>1, <2>2
<1>8. PassesOK'
  <2>1. ASSUME NEW i \in DOMAIN passes'
        PROVE  /\ i < Len(passes') => passes'[i].at = "wait"
               /\ passes'[i].at = "wait" => passes'[i].it \in Url
    <3>1. CASE i = n + 1
      BY <1>1, <1>2, <1>5, <3>1
    <3>2. CASE i # n + 1
      BY <1>4, <1>6, <3>2
    <3> QED
      BY <3>1, <3>2
  <2> QED
    BY <1>1, <1>7, <2>1 DEF PassesOK
<1>9. PassesGood'
  BY <1>1, <1>4, <1>5, <1>6 DEF PassesGood
<1> QED
  BY <1>8, <1>9

\* A pass steps to the next entry of the map.
LEMMA ProbeGood ==
    ASSUME TypeOK, PassesGood, HbProbe
    PROVE  PassesOK' /\ PassesGood'
<1>1. PICK u \in Later : (\A v \in Later : v >= u) /\ Probe(u)
  BY DEF HbProbe
<1>2. passes # <<>> /\ Top \in Pass /\ Good(Top, Registered)
  BY TopType DEF HbProbe, Running, TypeOK, PassesOK, PassesGood, Top
<1>3. u \in Registered /\ u \in Url /\ Registered' = Registered
  BY DEF Later, TypeOK, RegistryOK, HbProbe, Registered
<1> DEFINE q == [Top EXCEPT !.at = "wait", !.it = u, !.unseen = @ \ {u},
                            !.broken = FALSE]
<1>4. q \in Pass /\ q.it = u /\ q.unseen = Top.unseen \ {u}
  BY <1>2, <1>3 DEF Pass
<1>5. SetTop(q)
  BY <1>1 DEF Probe
<1> HIDE DEF q
<1>6. ASSUME NEW v \in q.unseen PROVE v \in Registered' /\ v > u
  <2>1. v \in Registered /\ v > Top.it /\ v # u
    BY <1>2, <1>4 DEF Good
  <2>2. v \in Later /\ v \in Nat /\ u \in Nat
    BY <1>3, <2>1, ServerAssumption DEF Later, TypeOK, RegistryOK
  <2> QED
    BY <1>1, <1>3, <2>1, <2>2
<1>7. Good(q, Registered')
  BY <1>3, <1>4, <1>6 DEF Good
<1>8. since' \in 0 .. TickEvery
  BY <1>1, ServerAssumption DEF Probe, TypeOK, PassesOK
<1>9. undefined' \in BOOLEAN
  BY DEF HbProbe, TypeOK, PassesOK
<1> QED
  BY <1>2, <1>3, <1>4, <1>5, <1>7, <1>8, <1>9, SetTopGood

\* A pass comes out of its event loop, whatever it has read.
LEMMA OnwardGood ==
    ASSUME TypeOK, PassesGood, [Next]_vars, HbAnswered \/ HbRefused \/ HbTimeout
    PROVE  PassesOK' /\ PassesGood'
<1>1. Running("wait") /\ UNCHANGED <<since, undefined>>
  BY DEF HbAnswered, HbRefused, HbTimeout
<1>2. PICK d \in {{}, {Top.it}} : Onward(d)
  BY DEF HbAnswered, HbRefused, HbTimeout
<1>3. passes # <<>> /\ Top \in Pass /\ Top.it \in Url /\ Good(Top, Registered)
  BY <1>1, TopType DEF Running, TypeOK, PassesOK, PassesGood, Top
<1> DEFINE q == [Top EXCEPT !.at = "scan", !.toDelete = @ \cup d,
                            !.reply = "none", !.broken = FALSE, !.over = FALSE]
<1>4. SetTop(q)
  BY <1>2 DEF Onward
<1>5. /\ q \in Pass /\ q.at = "scan" /\ q.it = Top.it
      /\ q.ok = Top.ok /\ q.unseen = Top.unseen
  BY <1>3 DEF Pass
<1> HIDE DEF q
<1>6. Registered \subseteq Registered'
  BY DEF HbAnswered, HbRefused, HbTimeout, Insert, Registered
<1>7. Good(q, Registered')
  BY <1>3, <1>5, <1>6, GoodKept
<1> QED
  BY <1>1, <1>3, <1>4, <1>5, <1>6, <1>7, SetTopGood DEF TypeOK, PassesOK

\* The innermost pass is disturbed by the reply to an outer one.
LEMMA DisturbedGood ==
    ASSUME TypeOK, PassesGood, NEW i \in DOMAIN passes, HbDisturbed(i)
    PROVE  PassesOK' /\ PassesGood'
<1> DEFINE n == Len(passes)
           q == [Top EXCEPT !.at = "scan", !.toDelete = @ \cup {Top.it},
                            !.reply = "none", !.broken = FALSE, !.over = FALSE]
<1>1. /\ n \in Nat \ {0} /\ DOMAIN passes = 1 .. n /\ i < n
      /\ Top \in Pass /\ Top.it \in Url
  BY TopType DEF HbDisturbed, Running, TypeOK, PassesOK, Top
<1>2. /\ q \in Pass /\ q.at = "scan" /\ q.it = Top.it
      /\ q.ok = Top.ok /\ q.unseen = Top.unseen
  BY <1>1 DEF Pass
<1>3. PICK r \in {"bad", "g"} :
          passes' = [passes EXCEPT ![n] = q, ![i].reply = r]
  BY DEF HbDisturbed
<1> HIDE DEF q
<1>4. UNCHANGED <<since, undefined>> /\ Registered' = Registered
  BY DEF HbDisturbed, Registered
<1> DEFINE o == [passes[i] EXCEPT !.reply = r]
<1>5. passes[i] \in Pass
  BY DEF TypeOK, PassesOK
<1>6. /\ o \in Pass /\ o.at = passes[i].at /\ o.it = passes[i].it
      /\ o.ok = passes[i].ok /\ o.unseen = passes[i].unseen
  BY <1>5 DEF Pass
<1>7. /\ DOMAIN passes' = DOMAIN passes
      /\ passes'[n] = q
      /\ passes'[i] = o
      /\ \A j \in DOMAIN passes : j # i /\ j # n => passes'[j] = passes[j]
  BY <1>1, <1>3
<1> HIDE DEF o
<1>8. passes' \in Seq(Pass) /\ Len(passes') = n
  <2>1. passes' \in [1 .. n -> Pass]
    <3>1. ASSUME NEW j \in 1 .. n PROVE passes'[j] \in Pass
      BY <1>1, <1>2, <1>6, <1>7 DEF TypeOK, PassesOK
    <3>2. passes' = [j \in DOMAIN passes' |-> passes'[j]]
      BY <1>3
    <3> QED
      BY <1>1, <1>7, <3>1, <3>2
  <2> QED
    BY <1>1, <2>1, FunIsSeq
<1>9. ASSUME NEW j \in DOMAIN passes'
      PROVE  /\ j < n => passes'[j].at = "wait"
             /\ passes'[j].at = "wait" => passes'[j].it \in Url
             /\ Good(passes'[j], Registered')
  <2>1. Good(passes[j], Registered) /\ Good(Top, Registered)
    BY <1>1, <1>7 DEF PassesGood, Top
  <2>2. CASE j = n
    BY <1>2, <1>4, <1>7, <2>1, <2>2, GoodKept
  <2>3. CASE j = i
    BY <1>1, <1>4, <1>6, <1>7, <2>1, <2>3, GoodKept DEF TypeOK, PassesOK
  <2>4. CASE j # n /\ j # i
    BY <1>1, <1>4, <1>7, <2>1, <2>4 DEF TypeOK, PassesOK
  <2> QED
    BY <2>2, <2>3, <2>4
<1> QED
  BY <1>4, <1>8, <1>9 DEF PassesOK, PassesGood, TypeOK

\* The innermost pass ends.
LEMMA RemoveGood ==
    ASSUME TypeOK, PassesGood, HbRemove
    PROVE  PassesOK' /\ PassesGood'
<1> DEFINE S == Top.toDelete
<1>1. passes # <<>> /\ Remove(S) /\ UNCHANGED <<since, undefined>>
  BY DEF HbRemove, Running
<1> HIDE DEF S
<1>2. /\ passes' \in Seq(Pass)
      /\ Len(passes') = Len(passes) - 1
      /\ DOMAIN passes' = 1 .. Len(passes) - 1
      /\ \A i \in 1 .. Len(passes) - 1 :
             passes'[i] = [passes[i] EXCEPT !.ok = @ /\ passes[i].it \notin S,
                                            !.unseen = @ \ S]
  BY <1>1, RemoveType
<1>3. Registered' = Registered \ S
  BY <1>1 DEF Remove, Registered
<1>4. ASSUME NEW i \in DOMAIN passes'
      PROVE  /\ passes'[i].at = "wait"
             /\ passes'[i].it \in Url
             /\ Good(passes'[i], Registered')
  <2>0. Len(passes) \in Nat \ {0} /\ DOMAIN passes = 1 .. Len(passes)
    BY <1>1, TopType DEF TypeOK, PassesOK
  <2>1. i \in 1 .. Len(passes) - 1 /\ i \in DOMAIN passes /\ i < Len(passes)
    <3>1. i \in 1 .. Len(passes) - 1
      BY <1>2, <1>4
    <3> QED
      BY <2>0, <3>1
  <2>2. passes[i] \in Pass /\ passes[i].at = "wait" /\ Good(passes[i], Registered)
    BY <2>1 DEF TypeOK, PassesOK, PassesGood
  <2>3. /\ passes'[i].at = "wait" /\ passes'[i].it = passes[i].it
        /\ passes'[i].ok => passes[i].ok /\ passes[i].it \notin S
        /\ passes'[i].unseen = passes[i].unseen \ S
    <3> DEFINE p == passes[i]
               ok == p.ok /\ p.it \notin S
    <3>1. passes'[i] = [p EXCEPT !.ok = ok, !.unseen = p.unseen \ S]
      BY <1>2, <2>1
    <3>2. p \in Pass /\ p.at = "wait"
      BY <2>2
    <3> HIDE DEF p, ok
    <3>3. /\ passes'[i].at = p.at /\ passes'[i].it = p.it
          /\ passes'[i].ok = ok /\ passes'[i].unseen = p.unseen \ S
      BY <3>1, <3>2 DEF Pass
    <3> QED
      BY <3>2, <3>3 DEF ok, p
  <2>4. Good(passes'[i], Registered')
    BY <1>3, <2>2, <2>3 DEF Good
  <2> QED
    BY <2>1, <2>2, <2>3, <2>4 DEF TypeOK, PassesOK
<1> QED
  BY <1>1, <1>2, <1>4 DEF PassesOK, PassesGood, TypeOK

\* The passes that probe a worker notice that it stops.
LEMMA StopsGood ==
    ASSUME TypeOK, PassesGood, NEW u \in Url, WorkerStops(u)
    PROVE  PassesOK' /\ PassesGood'
<1> DEFINE n == Len(passes)
<1>1. n \in Nat /\ DOMAIN passes = 1 .. n
  BY DEF TypeOK, PassesOK
<1>2. Registered' = Registered /\ UNCHANGED <<since, undefined>>
  BY DEF WorkerStops, Registered
<1>3. ASSUME NEW i \in DOMAIN passes
      PROVE  /\ passes'[i] \in Pass
             /\ passes'[i].at = passes[i].at
             /\ passes'[i].it = passes[i].it
             /\ Good(passes'[i], Registered')
  <2> DEFINE p == passes[i]
             b == p.broken \/ p.it = u
  <2>1. p \in Pass /\ Good(p, Registered)
    BY DEF TypeOK, PassesOK, PassesGood
  <2>2. passes'[i] = [p EXCEPT !.broken = b] /\ b \in BOOLEAN
    BY DEF WorkerStops
  <2> HIDE DEF p, b
  <2>3. /\ passes'[i] \in Pass
        /\ passes'[i].at = p.at /\ passes'[i].it = p.it
        /\ passes'[i].ok = p.ok /\ passes'[i].unseen = p.unseen
    BY <2>1, <2>2 DEF Pass
  <2>4. Good(passes'[i], Registered')
    BY <1>2, <2>1, <2>3, GoodKept
  <2> QED
    BY <2>3, <2>4 DEF p
<1>4. passes' \in [1 .. n -> Pass]
  <2>1. passes' = [i \in 1 .. n |-> passes'[i]]
    BY <1>1 DEF WorkerStops
  <2> QED
    BY <1>1, <1>3, <2>1
<1>5. passes' \in Seq(Pass) /\ Len(passes') = n /\ DOMAIN passes' = 1 .. n
  BY <1>1, <1>4, FunIsSeq
<1> QED
  BY <1>1, <1>2, <1>3, <1>5 DEF PassesOK, PassesGood, TypeOK

\* Every step keeps the passes good.
LEMMA PassesNext == TypeOK /\ PassesGood /\ [Next]_vars => PassesOK' /\ PassesGood'
<1> SUFFICES ASSUME TypeOK, PassesGood, [Next]_vars PROVE PassesOK' /\ PassesGood'
  OBVIOUS
<1>1. CASE Tick
  BY <1>1, TickGood
<1>2. CASE HbProbe
  BY <1>2, ProbeGood
<1>3. CASE HbAnswered \/ HbRefused \/ HbTimeout
  BY <1>3, OnwardGood
<1>4. ASSUME NEW i \in DOMAIN passes, HbDisturbed(i) PROVE PassesOK' /\ PassesGood'
  BY <1>4, DisturbedGood
<1>5. CASE HbRemove
  BY <1>5, RemoveGood
<1>6. ASSUME NEW u \in Url, WorkerStops(u) PROVE PassesOK' /\ PassesGood'
  BY <1>6, StopsGood
<1>7. ASSUME UNCHANGED <<passes, since>>, undefined' \in BOOLEAN,
             Registered \subseteq Registered'
      PROVE  PassesOK' /\ PassesGood'
  <2>1. PassesOK'
    BY <1>7 DEF TypeOK, PassesOK
  <2>2. ASSUME NEW i \in DOMAIN passes PROVE Good(passes[i], Registered')
    BY <1>7, GoodKept DEF PassesGood
  <2> QED
    BY <1>7, <2>1, <2>2 DEF PassesGood
<1>8. ASSUME NEW m \in net, HandleRegister(m) \/ HandleDump(m)
      PROVE  PassesOK' /\ PassesGood'
  BY <1>7, <1>8 DEF HandleRegister, HandleDump, Insert, Registered, TypeOK, PassesOK
<1>9. CASE HbUndefined
  BY <1>7, <1>9 DEF HbUndefined, Registered
<1>10. ASSUME NEW u \in Url, WorkerStarts(u) \/ WorkerDumps(u)
       PROVE  PassesOK' /\ PassesGood'
  BY <1>7, <1>10 DEF WorkerStarts, WorkerDumps, server, Registered, TypeOK, PassesOK
<1>11. CASE MainIsKept \/ UNCHANGED vars
  BY <1>7, <1>11 DEF MainIsKept, vars, Registered, TypeOK, PassesOK
<1> QED
  BY <1>1, <1>2, <1>3, <1>4, <1>5, <1>6, <1>8, <1>9, <1>10, <1>11
     DEF Next, HeartBeat, Handle, InFlight

\* A good pass has a valid iterator.
LEMMA GoodIsValid == PassesGood => IteratorIsValid /\ EveryWorkerIsProbed
BY DEF PassesGood, Good, IteratorIsValid, EveryWorkerIsProbed

\* The types and the state of the passes make up the inductive invariant.
LEMMA Invariant == Spec => [](TypeOK /\ PassesGood)
<1>1. Init => TypeOK /\ PassesGood
  <2> SUFFICES ASSUME Init PROVE TypeOK /\ PassesGood
    OBVIOUS
  <2>1. RegistryOK /\ WorldOK
    <3>1. RegistryOK
      BY DEF Init, RegistryOK, Registered
    <3>2. kept \in BOOLEAN /\ alive \in [Url -> BOOLEAN]
      BY Zenon DEF Init
    <3>3. net \subseteq Request
      BY DEF Init
    <3> QED
      BY <3>1, <3>2, <3>3, Zenon DEF WorldOK
  <2>2. since \in 0 .. TickEvery /\ undefined \in BOOLEAN
    <3>1. since \in 0 .. TickEvery
      BY ServerAssumption DEF Init
    <3> QED
      BY <3>1 DEF Init
  <2>3. passes = <<>> /\ passes \in Seq(Pass) /\ DOMAIN passes = {}
    BY DEF Init
  <2> QED
    BY <2>1, <2>2, <2>3 DEF TypeOK, PassesOK, PassesGood
<1>2. TypeOK /\ PassesGood /\ [Next]_vars => (TypeOK /\ PassesGood)'
  BY RegistryNext, WorldNext, PassesNext, GoodIsValid DEF TypeOK
<1> QED
  BY <1>1, <1>2, PTL DEF Spec

\* The registry, the passes and the environment keep their types.
THEOREM TypeCorrect == Spec => []TypeOK
BY Invariant, PTL

\* A pass that no inner pass has cut off comes back to an entry that exists.
THEOREM IteratorsAreValid == Spec => []IteratorIsValid
BY Invariant, GoodIsValid, PTL

\* No pass leaves out a worker that was registered when it began.
THEOREM WorkersAreProbed == Spec => []EveryWorkerIsProbed
BY Invariant, GoodIsValid, PTL

-----------------------------------------------------------------------------
(* Few workers *)

\* The urls a pass has gone by.
Passed(u) == {v \in Url : v <= u}

(***************************************************************************)
(* While the only pass runs, the probes since the timer fired are no more   *)
(* than the urls it has gone by: too few for the timer to fire again, while *)
(* nothing but probes keeps the main thread.                                *)
(***************************************************************************)
FewInv ==
    Cardinality(Url) < TickEvery /\ ~kept =>
        /\ Len(passes) <= 1
        /\ ~undefined
        /\ passes # <<>> => Top.ok /\ since <= Cardinality(Passed(Top.it))

\* A pass has gone by all of the urls at most, and the next one is new.
LEMMA PassedGrows ==
    /\ \A u : Cardinality(Passed(u)) \in Nat
              /\ Cardinality(Passed(u)) <= Cardinality(Url)
    /\ Cardinality(Url) \in Nat
    /\ \A u \in Url \cup {0}, v \in Url : u < v =>
           Cardinality(Passed(v)) >= Cardinality(Passed(u)) + 1
<1>0. IsFiniteSet(Url) /\ Url \subseteq Nat
  BY ServerAssumption
<1>1. ASSUME NEW u
      PROVE  /\ IsFiniteSet(Passed(u))
             /\ Cardinality(Passed(u)) \in Nat
             /\ Cardinality(Passed(u)) <= Cardinality(Url)
  <2>1. Passed(u) \in SUBSET Url
    BY DEF Passed
  <2> QED
    BY <1>0, <2>1, FS_Subset, FS_CardinalityType
<1>2. ASSUME NEW u \in Url \cup {0}, NEW v \in Url, u < v
      PROVE  Cardinality(Passed(v)) >= Cardinality(Passed(u)) + 1
  <2>0. u \in Nat /\ v \in Nat
    BY <1>0
  <2>1. v \notin Passed(u) /\ Passed(u) \cup {v} \in SUBSET Passed(v)
    <3>1. ASSUME NEW x \in Url, x <= u PROVE x <= v
      BY <1>0, <1>2, <2>0, <3>1
    <3>2. v \notin Passed(u)
      BY <1>2, <2>0 DEF Passed
    <3>3. v <= v
      BY <2>0
    <3>4. Passed(u) \subseteq Passed(v) /\ v \in Passed(v)
      BY <3>1, <3>3 DEF Passed
    <3> QED
      BY <3>2, <3>4
  <2>2. Cardinality(Passed(u) \cup {v}) = Cardinality(Passed(u)) + 1
    BY <1>1, <2>1, FS_AddElement
  <2>3. Cardinality(Passed(u) \cup {v}) <= Cardinality(Passed(v))
    BY <1>1, <2>1, FS_Subset
  <2> QED
    BY <1>1, <2>2, <2>3
<1> QED
  BY <1>0, <1>1, <1>2, FS_CardinalityType

\* No step lets a second pass begin among too few workers.
LEMMA FewNext == TypeOK /\ FewInv /\ [Next]_vars => FewInv'
<1> SUFFICES ASSUME TypeOK, FewInv, [Next]_vars, Cardinality(Url) < TickEvery,
                    ~kept'
             PROVE  /\ Len(passes') <= 1
                    /\ ~undefined'
                    /\ passes' # <<>> =>
                           Top'.ok /\ since' <= Cardinality(Passed(Top'.it))
  BY DEF FewInv
<1> DEFINE Few == /\ Len(passes') <= 1
                  /\ ~undefined'
                  /\ passes' # <<>> =>
                         Top'.ok /\ since' <= Cardinality(Passed(Top'.it))
<1>13. ~kept
  BY DEF Next, HeartBeat, MainIsKept, Tick, HbProbe, HbAnswered, HbRefused,
         HbTimeout, HbDisturbed, HbRemove, HbUndefined, Handle, HandleRegister,
         HandleDump, WorkerStarts, WorkerStops, WorkerDumps, server, vars
<1>0. /\ Len(passes) <= 1 /\ ~undefined
      /\ passes # <<>> => Top.ok /\ since <= Cardinality(Passed(Top.it))
      /\ passes \in Seq(Pass) /\ since \in Nat
  BY <1>13, ServerAssumption DEF FewInv, TypeOK, PassesOK
<1>1. CASE Tick
  <2>1. passes = <<>>
    BY <1>0, <1>1, <1>13, PassedGrows, ServerAssumption DEF Tick, Due
  <2>0. Len(passes) = 0
    BY <2>1
  <2>2. Len(passes') = 1 /\ passes'[1] = NewPass /\ Top' = NewPass
    <3>1. Len(passes') = Len(passes) + 1 /\ passes'[Len(passes) + 1] = NewPass
      BY <1>1, TickType
    <3> QED
      BY <2>0, <3>1 DEF Top
  <2>3. since' = 0 /\ ~undefined'
    BY <1>0, <1>1 DEF Tick
  <2> QED
    BY <2>2, <2>3, PassedGrows DEF NewPass
<1>2. ASSUME passes # <<>>, NEW q \in Pass, SetTop(q), q.ok = Top.ok, ~undefined',
             since' <= Cardinality(Passed(q.it))
      PROVE  Few
  <2>1. Len(passes') = Len(passes) /\ Top' = q
    BY <1>0, <1>2, SetTopType DEF Top
  <2> QED
    BY <1>0, <1>2, <2>1
<1>3. CASE HbProbe
  <2>1. PICK u \in Later : Probe(u)
    BY <1>3 DEF HbProbe
  <2>2. passes # <<>> /\ Top \in Pass /\ Top.it \in Url \cup {0}
    BY <1>0, <1>3, TopType DEF HbProbe, Running, Pass
  <2>3. u \in Url /\ u > Top.it
    BY DEF Later, TypeOK, RegistryOK
  <2> DEFINE q == [Top EXCEPT !.at = "wait", !.it = u, !.unseen = @ \ {u},
                              !.broken = FALSE]
  <2>4. q \in Pass /\ q.it = u /\ q.ok = Top.ok /\ SetTop(q)
    BY <2>1, <2>2, <2>3 DEF Pass, Probe
  <2> HIDE DEF q
  <2>5. since' <= since + 1 /\ since' \in Nat
    BY <1>0, <2>1 DEF Probe
  <2>6. Top.it < u
    BY <2>2, <2>3, ServerAssumption
  <2>7. Cardinality(Passed(u)) >= Cardinality(Passed(Top.it)) + 1
    BY <2>2, <2>3, <2>6, PassedGrows
  <2>8. since' <= Cardinality(Passed(u))
    BY <1>0, <2>2, <2>5, <2>7, PassedGrows
  <2> QED
    BY <1>0, <1>2, <1>3, <2>2, <2>4, <2>8 DEF HbProbe
<1>4. CASE HbAnswered \/ HbRefused \/ HbTimeout
  <2>1. passes # <<>> /\ Running("wait") /\ UNCHANGED <<since, undefined>>
    BY <1>4 DEF HbAnswered, HbRefused, HbTimeout, Running
  <2>2. PICK d \in {{}, {Top.it}} : Onward(d)
    BY <1>4 DEF HbAnswered, HbRefused, HbTimeout
  <2>3. Top \in Pass /\ Top.it \in Url
    BY <2>1, TopType DEF Running, TypeOK, PassesOK, Top
  <2> DEFINE q == [Top EXCEPT !.at = "scan", !.toDelete = @ \cup d,
                              !.reply = "none", !.broken = FALSE, !.over = FALSE]
  <2>4. q \in Pass /\ q.it = Top.it /\ q.ok = Top.ok /\ SetTop(q)
    BY <2>2, <2>3 DEF Pass, Onward
  <2> HIDE DEF q
  <2> QED
    BY <1>0, <1>2, <2>1, <2>4
<1>5. ASSUME NEW i \in DOMAIN passes, HbDisturbed(i) PROVE FALSE
  BY <1>0, <1>5 DEF HbDisturbed
<1>6. CASE HbRemove
  <2>1. passes # <<>> /\ Remove(Top.toDelete) /\ undefined' = undefined
    BY <1>6 DEF HbRemove, Running
  <2>2. passes' \in Seq(Pass) /\ Len(passes') = Len(passes) - 1
    BY <2>1, RemoveType
  <2>3. Len(passes) = 1
    BY <1>0, <2>1, TopType
  <2> QED
    BY <1>0, <2>1, <2>2, <2>3
<1>7. CASE HbUndefined
  BY <1>0, <1>7 DEF HbUndefined
<1>8. ASSUME NEW u \in Url, WorkerStops(u) PROVE Few
  <2>1. UNCHANGED <<since, undefined>>
    BY <1>8 DEF WorkerStops
  <2>2. passes' = [i \in DOMAIN passes |->
                     [passes[i] EXCEPT !.broken = @ \/ passes[i].it = u]]
    BY <1>8 DEF WorkerStops
  <2>3. CASE passes = <<>>
    BY <1>0, <2>1, <2>2, <2>3
  <2>4. CASE passes # <<>>
    <3>1. /\ Len(passes) = 1 /\ DOMAIN passes = 1 .. 1 /\ 1 \in DOMAIN passes
          /\ passes[1] \in Pass /\ Top = passes[1]
      BY <1>0, <2>4, TopType DEF Top
    <3>2. Len(passes') = 1 /\ Top' = passes'[1]
      BY <2>2, <3>1 DEF Top
    <3>3. passes'[1].ok = passes[1].ok /\ passes'[1].it = passes[1].it
      BY <2>2, <3>1 DEF Pass
    <3> QED
      BY <1>0, <2>1, <2>4, <3>1, <3>2, <3>3
  <2> QED
    BY <2>3, <2>4
<1>9. ASSUME UNCHANGED <<passes, since, undefined>> PROVE Few
  BY <1>0, <1>9 DEF Top
<1>10. ASSUME NEW m \in net, HandleRegister(m) \/ HandleDump(m) PROVE Few
  BY <1>9, <1>10 DEF HandleRegister, HandleDump
<1>11. ASSUME NEW u \in Url, WorkerStarts(u) \/ WorkerDumps(u) PROVE Few
  BY <1>9, <1>11 DEF WorkerStarts, WorkerDumps, server
<1>12. CASE MainIsKept \/ UNCHANGED vars
  BY <1>9, <1>12 DEF MainIsKept, vars
<1> QED
  BY <1>1, <1>3, <1>4, <1>5, <1>6, <1>7, <1>8, <1>10, <1>11, <1>12
     DEF Next, HeartBeat, Handle, InFlight

\* Among fewer workers than a period has time for, no pass meets another as
\* long as only probes keep the main thread.
THEOREM FewWorkers == Spec => []FewWorkersAreSafe
<1>1. Init => FewInv
  BY DEF Init, FewInv
<1>2. TypeOK /\ FewInv /\ [Next]_vars => FewInv'
  BY FewNext
<1>3. FewInv => FewWorkersAreSafe
  BY DEF FewInv, FewWorkersAreSafe
<1> QED
  BY <1>1, <1>2, <1>3, TypeCorrect, PTL DEF Spec

-----------------------------------------------------------------------------
(* Cluster *)

\* A spreader only reads the registry.
LEMMA SpreadersRead ==
    ASSUME NEW u \in Spreader, Spreads(u)
    PROVE  UNCHANGED vars
BY DEF Spreads, updateClientList, TakeGene, TakePhantom, Deliver, Miss, spreadGene

\* A cluster whose workers spread genes is a behaviour of the server and its workers:
\* what is proved of Server holds in it.
THEOREM ClusterIsServer == ClusterSpec => Spec
<1>1. ClusterInit => Init
  BY DEF ClusterInit
<1>2. [ClusterNext]_clusterVars => [Next]_vars
  <2> SUFFICES ASSUME [ClusterNext]_clusterVars PROVE [Next]_vars
    OBVIOUS
  <2>1. CASE \E u \in Spreader : Spreads(u)
    BY <2>1, SpreadersRead
  <2>2. CASE UNCHANGED clusterVars
    BY <2>2 DEF clusterVars
  <2>3. ASSUME ClusterNext, ~ \E u \in Spreader : Spreads(u)
        PROVE  Next
    BY <2>3 DEF ClusterNext, Next
  <2> QED
    BY <2>1, <2>2, <2>3
<1> QED
  BY <1>1, <1>2, PTL DEF ClusterSpec, Spec

\* So passes do not meet in a small cluster either, under the same condition.
THEOREM FewWorkersInCluster == ClusterSpec => []FewWorkersAreSafe
BY ClusterIsServer, FewWorkers, PTL

=============================================================================
