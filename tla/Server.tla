------------------------------- MODULE Server -------------------------------
(***************************************************************************)
(* The registry of the server (server/Server/src): the workers that are     *)
(* thought to be active, the handlers that enter them, and the heartbeat    *)
(* that probes them and removes those that do not answer.                   *)
(*                                                                         *)
(* A handler runs in a thread of the HTTP pool and changes the map under    *)
(* the mutex: one step.  The heartbeat runs in the main thread and walks    *)
(* the map without the mutex, waiting in an event loop at every entry: the  *)
(* handlers run between any two of its steps, and when a pass takes longer  *)
(* than the period of the timer the next pass runs inside the event loop in *)
(* which the first one waits.  Time is counted in probes until the main     *)
(* thread is kept from its event loop by something else: the mutex, which a *)
(* handler may hold while it waits for its client, or the cleanup of the    *)
(* pool of handlers, which waits for their threads.  The worker processes   *)
(* and the network are the environment.                                     *)
(***************************************************************************)
EXTENDS Integers, Sequences, FiniteSets

CONSTANTS
    Url,          \* the addresses of the workers, numbers in the map's order
    Gene,         \* the cars that are dumped
    BUFFER_SIZE,  \* the cars kept for a worker, 100 in the code
    TickEvery,    \* the probes a period of the timer has time for: 10 at least
    MaxPasses,    \* bound: the passes inside one another
    MaxFlight,    \* bound: the requests of one worker in flight
    Slow,         \* may a living worker need more than a second to answer?
    Keeps         \* may the main thread be kept from its event loop?

ASSUME ServerAssumption ==
    /\ Url \subseteq Nat \ {0}
    /\ IsFiniteSet(Url)
    /\ BUFFER_SIZE \in Nat \ {0}
    /\ TickEvery \in Nat \ {0}
    /\ MaxPasses \in Nat \ {0}
    /\ MaxFlight \in Nat \ {0}
    /\ Slow \in BOOLEAN
    /\ Keeps \in BOOLEAN

VARIABLES
    allActiveWorkers,  \* the map from urls to entries
    passes,            \* the calls of heartBeat, each inside the one before
    since,             \* the probes since the timer fired, up to TickEvery
    undefined,         \* heartBeat has used an iterator to a removed entry
    kept,              \* the main thread was kept: probes no longer tell the time
    alive,             \* the worker processes that run
    net                \* the requests on their way to the server

server == <<allActiveWorkers, passes, since, undefined, kept>>
vars   == <<allActiveWorkers, passes, since, undefined, kept, alive, net>>

Registered == DOMAIN allActiveWorkers

\* Worker(u): the speed is not known yet.
NewWorker(u) == [url |-> u, speed |-> "-1", cars |-> <<>>]

appendCar(w, g) ==
    LET cs == Append(w.cars, g)
    IN  [w EXCEPT !.cars = IF Len(cs) > BUFFER_SIZE THEN Tail(cs) ELSE cs]

\* QMap::insert
Insert(u, w) == [v \in Registered \cup {u} |-> IF v = u THEN w ELSE allActiveWorkers[v]]

(***************************************************************************)
(* A call of heartBeat: at "scan" it steps to the next entry, at "wait" it  *)
(* is in its event loop.                                                    *)
(***************************************************************************)
NewPass ==
    [at     |-> "scan",
     it     |-> 0,           \* its iterator: the url it points to, or the last
     ok     |-> TRUE,        \* the entry the iterator points to still exists
     toDelete |-> {},        \* the urls it will remove
     unseen |-> Registered,  \* history: the entries it began with, to be probed
     reply  |-> "none",      \* what has arrived while an inner pass ran
     broken |-> FALSE,       \* the worker has stopped since the GET
     over   |-> FALSE]       \* another pass has run inside this probe

Top == passes[Len(passes)]
SetTop(p) == passes' = [passes EXCEPT ![Len(passes)] = p]

Init ==
    /\ allActiveWorkers = << >>
    /\ passes = <<>>
    /\ since = 0
    /\ undefined = FALSE
    /\ kept = FALSE
    /\ alive = [u \in Url |-> FALSE]
    /\ net = {}

-----------------------------------------------------------------------------
(* The environment: worker processes start, register once, dump cars, stop. *)

Register(u) == [type |-> "register", url |-> u]
Dump(u, g) == [type |-> "dump", url |-> u, gene |-> g]
InFlight(u) == {m \in net : m.url = u}

\* The one attempt to register may fail; nobody repeats it.
WorkerStarts(u) ==
    /\ ~alive[u]
    /\ Cardinality(InFlight(u)) < MaxFlight
    /\ alive' = [alive EXCEPT ![u] = TRUE]
    /\ net' \in {net, net \cup {Register(u)}}
    /\ UNCHANGED server

WorkerStops(u) ==
    /\ alive[u]
    /\ alive' = [alive EXCEPT ![u] = FALSE]
    /\ passes' = [i \in DOMAIN passes |->
                     [passes[i] EXCEPT !.broken = @ \/ passes[i].it = u]]
    /\ UNCHANGED <<allActiveWorkers, since, undefined, kept, net>>

WorkerDumps(u) ==
    /\ alive[u]
    /\ Cardinality(InFlight(u)) < MaxFlight
    /\ \E g \in Gene : net' = net \cup {Dump(u, g)}
    /\ UNCHANGED <<server, alive>>

-----------------------------------------------------------------------------
(* Server::service *)

\* /register_worker: an entry that exists is replaced.
HandleRegister(m) ==
    /\ m.type = "register"
    /\ net' = net \ {m}
    /\ allActiveWorkers' = Insert(m.url, NewWorker(m.url))
    /\ UNCHANGED <<passes, since, undefined, kept, alive>>

\* faulty variant: the cars of a worker that has not registered are dropped
HandleDumpKnown(m) ==
    /\ m.type = "dump"
    /\ net' = net \ {m}
    /\ allActiveWorkers' =
           IF m.url \in Registered
           THEN [allActiveWorkers EXCEPT ![m.url] = appendCar(@, m.gene)]
           ELSE allActiveWorkers
    /\ UNCHANGED <<passes, since, undefined, kept, alive>>

\* /dump: a worker that is not in the map enters it with its car.
HandleDump(m) ==
    /\ m.type = "dump"
    /\ net' = net \ {m}
    /\ allActiveWorkers' =
           IF m.url \in Registered
           THEN [allActiveWorkers EXCEPT ![m.url] = appendCar(@, m.gene)]
           ELSE Insert(m.url, [NewWorker(m.url) EXCEPT !.cars = <<m.gene>>])
    /\ UNCHANGED <<passes, since, undefined, kept, alive>>

-----------------------------------------------------------------------------
(* Server::heartBeat *)

\* A period of the timer, or the second a worker has, goes by in which the
\* main thread handles no event: mutex.lock(), or the cleanup of the pool.
MainIsKept ==
    /\ Keeps /\ ~kept
    /\ kept' = TRUE
    /\ UNCHANGED <<allActiveWorkers, passes, since, undefined, alive, net>>

\* A period of the timer is over.
Due == since >= TickEvery \/ kept

\* faulty variant: the probes are counted on from one period to the next
TickKeeps ==
    /\ passes # <<>> => Top.at = "wait" /\ Due
    /\ Len(passes) < MaxPasses
    /\ passes' = Append([i \in DOMAIN passes |-> [passes[i] EXCEPT !.over = TRUE]],
                        NewPass)
    /\ UNCHANGED <<allActiveWorkers, since, undefined, kept, alive, net>>

\* The timer fires: no pass runs, or one has waited through the whole period.
Tick ==
    /\ passes # <<>> => Top.at = "wait" /\ Due
    /\ Len(passes) < MaxPasses
    /\ passes' = Append([i \in DOMAIN passes |-> [passes[i] EXCEPT !.over = TRUE]],
                        NewPass)
    /\ since' = 0
    /\ UNCHANGED <<allActiveWorkers, undefined, kept, alive, net>>

Running(at) == passes # <<>> /\ Top.at = at /\ Top.ok
Later == {u \in Registered : u > Top.it}

\* A probe of u starts.
Probe(u) ==
    /\ SetTop([Top EXCEPT !.at = "wait", !.it = u, !.unseen = @ \ {u},
                          !.broken = FALSE])
    /\ since' = IF since < TickEvery THEN since + 1 ELSE since

\* faulty variant: the iterator is advanced twice
HbProbeSkip ==
    /\ Running("scan")
    /\ \E u \in Later :
           /\ \A v \in Later : v >= u \/ \A x \in Later : x >= v
           /\ Probe(u)
    /\ UNCHANGED <<allActiveWorkers, undefined, kept, alive, net>>

\* it++ and the GET of /status; handlers may have entered urls meanwhile.
HbProbe ==
    /\ Running("scan")
    /\ \E u \in Later : (\A v \in Later : v >= u) /\ Probe(u)
    /\ UNCHANGED <<allActiveWorkers, undefined, kept, alive, net>>

\* The event loop of a probe has ended: on to the next entry.
Onward(dead) ==
    SetTop([Top EXCEPT !.at = "scan", !.toDelete = @ \cup dead, !.reply = "none",
                       !.broken = FALSE, !.over = FALSE])

\* "g,<speed>": operator[] makes an empty entry if there is none.
HbAnswered ==
    /\ Running("wait")
    /\ Top.reply = "g" \/ (Top.reply = "none" /\ alive[Top.it] /\ ~Top.over)
    /\ allActiveWorkers' =
           IF Top.it \in Registered
           THEN [allActiveWorkers EXCEPT ![Top.it].speed = "known"]
           ELSE Insert(Top.it, [url |-> 0, speed |-> "known", cars |-> <<>>])
    /\ Onward({})
    /\ UNCHANGED <<since, undefined, kept, alive, net>>

\* faulty variant: the entry is removed at once
HbRefusedErase ==
    /\ Running("wait")
    /\ Top.reply = "bad" \/ (Top.reply = "none" /\ (Top.broken \/ ~alive[Top.it]))
    /\ allActiveWorkers' = [v \in Registered \ {Top.it} |-> allActiveWorkers[v]]
    /\ Onward({Top.it})
    /\ UNCHANGED <<since, undefined, kept, alive, net>>

\* The connection is refused or broken off, or an inner pass has made the
\* event loop quit before there was an answer: what was read is not a "g".
HbRefused ==
    /\ Running("wait")
    /\ \/ Top.reply = "bad"
       \/ Top.reply = "none" /\ (Top.broken \/ ~alive[Top.it] \/ Top.over)
    /\ Onward({Top.it})
    /\ UNCHANGED <<allActiveWorkers, since, undefined, kept, alive, net>>

\* The reply to an outer pass makes the event loop of the inner one quit,
\* which then reads nothing and takes its own worker for dead.
HbDisturbed(i) ==
    /\ Running("wait")
    /\ i < Len(passes) /\ passes[i].reply = "none"
    /\ LET gone == passes[i].broken \/ ~alive[passes[i].it]
       IN  passes' = [passes EXCEPT
               ![Len(passes)] = [Top EXCEPT !.at = "scan",
                                            !.toDelete = @ \cup {Top.it},
                                            !.reply = "none",
                                            !.broken = FALSE, !.over = FALSE],
               ![i].reply = IF gone THEN "bad" ELSE "g"]
    /\ UNCHANGED <<allActiveWorkers, since, undefined, kept, alive, net>>

\* The single-shot timer of one second has fired, perhaps in an inner pass, or
\* together with the answer after the main thread was kept.
HbTimeout ==
    /\ Running("wait")
    /\ Slow \/ kept \/ ~alive[Top.it] \/ Top.over
    /\ Onward({Top.it})
    /\ UNCHANGED <<allActiveWorkers, since, undefined, kept, alive, net>>

\* QMap::remove frees the entries the iterators of outer passes point to.
Remove(S) ==
    /\ allActiveWorkers' = [v \in Registered \ S |-> allActiveWorkers[v]]
    /\ passes' = [i \in 1 .. Len(passes) - 1 |->
                     [passes[i] EXCEPT !.ok = @ /\ passes[i].it \notin S,
                                       !.unseen = @ \ S]]

\* The end of the map: everything found dead is removed under the mutex.
HbRemove ==
    /\ Running("scan")
    /\ Later = {}
    /\ Remove(Top.toDelete)
    /\ UNCHANGED <<since, undefined, kept, alive, net>>

\* The entry under the iterator is gone: what happens next is anyone's guess.
HbUndefined ==
    /\ passes # <<>> /\ ~Top.ok
    /\ undefined' = TRUE
    /\ UNCHANGED <<allActiveWorkers, passes, since, kept, alive, net>>

-----------------------------------------------------------------------------
HeartBeat ==
    \/ Tick
    \/ HbProbe
    \/ HbAnswered \/ HbRefused \/ HbTimeout
    \/ \E i \in DOMAIN passes : HbDisturbed(i)
    \/ HbRemove
    \/ HbUndefined

Handle(u) == \E m \in InFlight(u) : HandleRegister(m) \/ HandleDump(m)

Next ==
    \/ ~undefined /\ (HeartBeat \/ MainIsKept)
    \/ ~undefined /\ \E u \in Url : Handle(u)
    \/ \E u \in Url : WorkerStarts(u) \/ WorkerStops(u) \/ WorkerDumps(u)

(***************************************************************************)
(* The timer of ten seconds and the one of a second fire, requests arrive,  *)
(* and a worker that lives dumps a car again and again: its scheduler does  *)
(* so for every result once its group is full.                              *)
(***************************************************************************)
Fairness ==
    /\ WF_vars(~undefined /\ HeartBeat)
    /\ \A u \in Url : WF_vars(~undefined /\ Handle(u)) /\ WF_vars(WorkerDumps(u))

Spec == Init /\ [][Next]_vars
FairSpec == Spec /\ Fairness

-----------------------------------------------------------------------------
Entry == [url : Url, speed : {"-1", "known"}, cars : Seq(Gene)]

Pass == [at : {"scan", "wait"}, it : Url \cup {0}, ok : BOOLEAN,
         toDelete : SUBSET Url, unseen : SUBSET Url,
         reply : {"none", "g", "bad"}, broken : BOOLEAN, over : BOOLEAN]

Request == [type : {"register"}, url : Url]
               \cup [type : {"dump"}, url : Url, gene : Gene]

RegistryOK ==
    /\ Registered \subseteq Url
    /\ \A u \in Registered : /\ allActiveWorkers[u] \in Entry
                             /\ allActiveWorkers[u].url = u
                             /\ Len(allActiveWorkers[u].cars) <= BUFFER_SIZE

PassesOK ==
    /\ passes \in Seq(Pass)
    /\ since \in 0 .. TickEvery
    /\ undefined \in BOOLEAN
    /\ \A i \in DOMAIN passes : i < Len(passes) => passes[i].at = "wait"
    /\ \A i \in DOMAIN passes : passes[i].at = "wait" => passes[i].it \in Url

WorldOK ==
    /\ kept \in BOOLEAN
    /\ alive \in [Url -> BOOLEAN]
    /\ net \subseteq Request

(***************************************************************************)
(* Type invariant.  Every entry is the one of its own url, never the blank  *)
(* one operator[] would make, and holds at most BUFFER_SIZE cars; all       *)
(* passes but the innermost wait for a reply.                               *)
(***************************************************************************)
TypeOK == RegistryOK /\ PassesOK /\ WorldOK

(***************************************************************************)
(* A pass of heartBeat that waits outside the mutex comes back to an entry  *)
(* that exists, unless a pass inside it has removed that very entry.        *)
(***************************************************************************)
IteratorIsValid ==
    \A i \in DOMAIN passes :
        passes[i].at = "wait" /\ passes[i].ok => passes[i].it \in Registered

(***************************************************************************)
(* A pass of heartBeat probes every worker that was registered when it      *)
(* began, whatever the handlers and the passes inside it do to the map.     *)
(***************************************************************************)
EveryWorkerIsProbed ==
    \A i \in DOMAIN passes : \A u \in passes[i].unseen :
        u \in Registered /\ u > passes[i].it

(***************************************************************************)
(* Passes run inside one another, and so free what the others point to,     *)
(* only if there are as many workers as a period has time for, or after the *)
(* main thread was kept from its event loop by something else than a probe. *)
(***************************************************************************)
FewWorkersAreSafe ==
    Cardinality(Url) < TickEvery /\ ~kept => Len(passes) <= 1 /\ ~undefined

(***************************************************************************)
(* A worker that stays alive is registered in the end, though its only      *)
(* registration may be lost, or undone by the pass that met it dead.        *)
(***************************************************************************)
TheLivingAreKnown ==
    \A u \in Url : <>[]alive[u] => <>[](u \in Registered)

(***************************************************************************)
(* server.cpp says "error == dead" and "timeout == dead": the workers the   *)
(* heartbeat removes are dead.                                              *)
(***************************************************************************)
OnlyTheDeadAreRemoved ==
    [][\A u \in Registered : u \in Registered' \/ ~alive[u]]_vars

=============================================================================
