# DGEBC in TLA+

DGEBC evolves the genes of toy cars on a cluster. A *worker* process scores
genes in a physics engine, breeds the good ones and spreads the best to its
fellows; a *server* keeps the register of workers and of the cars they report; a
*player* shows the best cars; a *monitor* page draws how fast the workers are.
The server is built on QtWebApp, a library that is copied into the repository and
is modelled with it: connections, requests, sessions, caches, templates, logs, and
services of two operating systems.

This directory holds TLA+ models of these components, TLC configurations that
check them on small instances, and TLAPS proofs of what matters most. Every
definition is translated from the source; `PROJECT.json` ("map") gives the lines
each one stands for.

To check a run: `tlc -workers 2 -config NodeSafety.cfg MCNode`, and so on, with the
names of section 4. To check the proofs: `tlapm NodeProof.tla`, and so on.

## 1. Inventory

### 1.1 Components

| Component | State | Operations | Talks to | Correct if |
|---|---|---|---|---|
| **`MsgQue`** `worker/include/msgque.hh` | priority queue, semaphore, mutex, counter | `en`, `de`, `tot`, `sz` | every thread of a worker process | no wakeup and no task is lost but by eviction; `pop` never meets an empty queue; it acts as one atomic queue |
| **Worker threads** `worker/src/worker.cc` | the task in hand | take a task, score it, put the result | task and result queue; engine | never score the default task |
| **Scheduler** `worker/src/scheduler.cc` | `survivor`, `current_max`, `cnt` | inject, spread, mutate, combine, compete, dump | all queues; server `/dump` | work never runs out; rounds go on; survivors are bounded by the best |
| **Spreader** `getListAndSpread` | `fellows` | refresh the list, take a gene, send it round | spread queue; server `/get_workers`; other nodes `/spread_gene` | every gene queued is taken |
| **Daemon** `daemonMain` | `throughput` | start two threads, measure | result queue (unlocked reads) | — |
| **Proxy** `worker/src/proxy.cc` | pointers to the queues | `/spread_gene`, `/status`, `/get_status` | result queue | no request meets a null queue |
| **Server** `server/Server/src` | `allActiveWorkers`, two timers, mutex | `/register_worker`, `/get_workers`, `/dump`, `/get_gene`, `/debug`, heartbeat | workers, player, monitor | the register converges to the workers that live; no iterator is used after its entry is gone |
| **HTTP pool** `QtWebApp/httpserver` | pool of handlers, per handler: busy flag, socket, timer | accept, clean up, read, time out, hang up | main thread and handler threads of the server | one connection per handler; none deleted in use; the main thread comes back |
| **Requests and responses** `httprequest`, `httpconnectionhandler`, `httpresponse` | the request in work, line buffer, sizes; what a response has sent | read piece by piece, refuse, serve, close or keep open, time out | socket; request handlers | a request is exactly its own bytes; limits hold; a client sees where a response ends |
| **Parameters and cookies** `httprequest`, `httpcookie` | — (texts in, texts out) | decode a form, set a cookie, read cookies | browsers (external) | a value arrives as it was sent |
| **Sessions** `httpsession`, `httpsessionstore` | the store; per session a counter, a lock, its last access | get, create, remove, expire, copy and destroy handles | handler threads, timer of the main thread | no handle points to deleted data |
| **File and template caches** `staticfilecontroller`, `templatecache`, `templateloader` | two `QCache`s with a mutex each | serve, find by locale | file system | nothing older than the configured age is served |
| **Templates** `template` | the text | `setVariable`, `setCondition`, `loop` | — | a filled text is the filled tree it was written from |
| **Logging** `logging` | buffers of the threads, log file and backups | `log`, flush, rotate, rename by settings | file system | backups are a history; critical messages survive a crash |
| **qtservice, UNIX** | processes, one socket path | install, launch, control, stop, be killed | controllers | no controller waits for ever |
| **qtservice, Windows** | a status, three threads, semaphores, a condition | start, obey controls | service control manager | the status reported is the state; nothing stays pending |
| **Engine: evaluation** `engine/{engine,world,car,contactlistener}.cpp` | fixtures, springs, motors, flags and counters of a car | `score`, `World::step`, `Car::update`, `PostSolve`, `setGene` | Box2D (external) | nothing is destroyed twice; a car is consistent after any break; every evaluation ends |
| **Engine: genes** `engine/engine.cpp` | — (texts in, texts out) | `initial`, `mutate`, `combine`, the two conversions | scheduler | a gene reads back as the numbers it was written from |
| **`GeneticAlgorithm`** | the genome of the car shown | `init`, `nextCar`, getters | `Car`, `World` | part of the two rows above |
| **Player** `player/dialog.cpp`, `engine/mainwindow.cpp` | grid of windows, genes left, `waiting` | build, timer, button, answer of the server | server `/get_gene`; engine | one request at a time; no entry of an answer given twice; stopped windows get another gene |
| **Monitor** `monitor/paint.js` | a record per worker and second | poll, draw | server `/get_gene` | the series shows the speeds in order |
| **Engine test program** `engine/main.cpp` | best score, genes | hill climbing | engine | scores of `genes` increase |
| Track, Render, drawing of `MainWindow` | — | — | Box2D, OpenGL | — |
| Box2D, demos of QtWebApp, `hello.cc` | — | — | — | third-party headers, demonstrations |

### 1.2 Interactions

* Inside a worker, all communication goes through three queues: tasks
  (scheduler to workers), results (workers and HTTP handlers to the scheduler),
  and genes to spread (scheduler to spreader). Every thread loops around a
  blocking `de()`.
* Between machines everything is an HTTP request whose answer, and mostly whose
  failure, is ignored.
* The server runs its handlers in pool threads, serialised by one mutex, and its
  heartbeat in the main thread, which does not take the mutex while it walks
  the map and which waits in nested event loops.
* The player is single-threaded, but the event loops of its input dialogs run its
  own callbacks before its constructor has ended.

### 1.3 What is hard here

* threads of a worker meeting in a queue that evicts its *best* task when it is
  full and still posts the semaphore (the "phantom" task, section 4.3);
* a worker whose HTTP server starts before its queues exist;
* lists of workers that are copies of a registry that lags behind the workers;
* workers that stop, start again and register while the heartbeat has already
  found them dead; requests of the dead that arrive late;
* heartbeat passes that run *inside* one another when the timer fires in the
  event loop of a probe;
* connections ending in the middle of an answer, with the handler given away
  while its thread is still busy;
* parts of a car breaking together in one update; a stop signal with no receiver;
* answers that arrive before the player has a grid;
* requests cut at any byte, with the next one behind them in the same segment;
* session counters decremented under a *read* lock, entries of a store copied while
  another thread removes them, cached documents used after their mutex is free;
* a log that is rotated by several renamings, with a crash between two of them;
* processes that replace each other at one socket path while controllers wait for
  them; a service whose status is set from three threads.

`PROJECT.json` ("hazards") lists these and others at the lines where they bite,
with the properties that would catch them.

## 2. Modules

| Module | Models | Proofs |
|---|---|---|
| `Priority` | the order of tasks and the bounded push | — |
| `TaskQueue` | *abstract*: what a `MsgQue` promises | — |
| `CountedQueue` | *abstract*: what is left of a `MsgQue` when only tasks and credits are counted | `MsgQueProof`, `NodeProof` |
| `MsgQue` | `en`, `de`, `tot`, `sz`, step by step | `MsgQueProof` |
| `Node` | one worker process: boot, workers, scheduler, spreader, HTTP handlers | `NodeProof` |
| `Server` | registry, handlers, heartbeat, workers as environment | `ServerProof` |
| `Cluster` | `Server` with the spreading threads of the workers: lists of fellows, genes on their way | `ServerProof` |
| `HttpPool` | main thread, pool and handler threads of the server | `HttpPoolProof` |
| `Car` | one evaluation: `World::step`, `Car::update`, contacts | `EngineProof` |
| `Gene` | the text of a gene and the genetic operators | `EngineProof` |
| `Player` | dialog, windows, requests | `EngineProof` |
| `HttpRequest` | one connection: parser, loop of `read()`, response | `WebProof` |
| `Parameters` | forms and cookies, from one end to the other | `WebProof` |
| `Sessions` | the session store and its handles | `WebProof` |
| `FileCache` | the caches of files and of templates | `WebProof` |
| `Template` | `Template` against the tree its text stands for | — |
| `LogFile` | `Logger` and `FileLogger` | `WebProof` |
| `Service` | qtservice on UNIX | — |
| `WinService` | qtservice on Windows | `WinServiceProof` |

`MCMsgQue`, `MCNode`, `MCServer`, `MCCluster`, `MCHttpPool` and `MCCar` instantiate a module
each.
`Lemmas` has what several proofs cite: induction, recursion, sums, removal from a
sequence, and texts taken apart and put together.
Components that share nothing are checked together: `MCWeb` has what a request
handler of QtWebApp works with (`HttpRequest`, `Parameters`, `Sessions`, `FileCache`,
`Template`, `LogFile`), `MCPrograms` what single programs do (`Service`,
`WinService`, `Gene`, `Player`). A variable, `part` or `program`, chosen at the start,
says which of them moves; the others stay in one initial state, so that the states
of the run are the sum of theirs and not the product. Definitions marked
*faulty variant* in a module are the mutants that `PROJECT.json` names: what a
plausible bug would make of the definition that follows. No specification uses
them.

How state and actions correspond to the code:

* **MsgQue.** `q`, `sem`, `mtx`, `tot` are the fields. An action is the code
  between two synchronisation points: `EnLock` (lock), `EnPush` (count, push,
  evict), `EnUnlock`, `EnPost` (sem_post); `DeWait` (sem_wait), `DeLock`,
  `DeTestFull`/`DeTestEmpty`, `DePop`, `DeUnlock`. `ReadBegin`/`ReadEnd` are a call
  of `tot()` or `sz()`, which takes no lock. A task is an opaque value with a
  score; which of several tasks with the same score is on top is open, as in
  `std::priority_queue`.
* **Node.** A call of `en()` or `de()` is one step, which `MsgQue`'s refinement of
  `TaskQueue` justifies (section 3). A queue is a pair: its tasks and its credits. Scores
  are tenths, and the score of a result is chosen when the scheduler takes it. Of the
  genes only this is kept, whether one that no engine can read is about: `alien` tells
  that a request brought such a gene, or a score from no engine (`Odd`: below zero, or
  beyond an `int`), as `proxyHandler` looks at the length only; `ragged` that the node wrote
  one itself with a number too short (`WriteGene`). Whoever decodes a gene then may throw
  (`GeneNotRead`, `MutateThrows`, `CombineThrows`), and nobody catches it. `boot` follows `main()`: HTTP server, threads, scheduler.
  Each part of a scheduler round (`Inject`, `SpreadOne`, `TakeResult`, `Mutate`,
  `Combine`, `Compete...`, `DumpReturns`, `Best`) is an action, since the other
  threads run between them. What ends the process is `crashed`.
* **Server.** `allActiveWorkers` is a function on urls, which are numbers in the
  map's order. A handler is one step, as it works under the mutex. `passes` is the
  stack of running calls of `heartBeat`; the top one runs, the others wait in
  their event loops. `since` counts probes since the timer fired: a period of
  10 s has time for at least ten probes of at most 1 s. `kept` tells that a period went
  by, once, while the main thread handled no event, in `mutex.lock()` or in the cleanup of
  the pool (`MainIsKept`): the timer is then due at any probe. `ok = FALSE` marks an
  iterator whose entry an inner pass has removed, `undefined` its use.
* **Cluster.** The server and the workers of `Server`, and for every worker in
  `Spreader` the loop of `getListAndSpread`: `updateClientList` copies the registry, as
  far as the answer comes, `TakeGene` is `de()`, `spreadGene` one request to one fellow,
  which arrives (`Deliver`) or is refused (`Miss`). A gene is its sender. Spreaders read
  the registry and do not change it, so that a cluster is a behaviour of `Server`.
* **HttpPool.** `pool`, `busy`, `open`, `timer`, `inbox` are the pool's list and, per
  handler, the flag, the socket, the timer and the queued calls of
  `handleConnection`; `at` is where its thread is. `mutex` is the registry's mutex
  of `Server`, of which only its being held matters here.
* **Car.** `phase` and `at` are the position in `World::step` and in the loop of
  `Car::update`; `cart`, `axleFixture`, `spring`, `motor`, `hung`, `pieces` are the
  parts, `breakCart`/`breakAxle` the two halves of `breakCartFixture`. Box2D
  moves the car anyhow and reports any contact. `undefined` is the use of a NULL
  fixture or a destroyed joint.
* **Gene.** A float is its bits, and they are the `Width` digits in base `Base` that stand
  for them. Its text is these digits as `setw`/`hex` print them: without their leading
  zeros, but for the first number's; reading puts zeros before what it finds.
* **Player.** A gene is its rank in the answer it came with; `shows` is the rank
  each window got from the last answer. `requests` counts requests under way,
  which `waiting` is meant to tell.
* **HttpRequest.** Bytes are counted, not spelled: `next`, `line` and `off` say which byte
  the reader takes next, `avail` how many the socket holds. `readRequest`, `readHeader`
  and `readBody` are one call of `readFromSocket` each; `CreateRequest`,
  `RefuseRequest`, `StartService`, `FinishService` are the parts of
  `HttpConnectionHandler::read()`, between which the request handler writes
  (`WritePart`) and the client may send, or leave. `answers` is a history: by what a
  client knows the end of each response. `torn` is another: a read of this connection has ended between the two
  bytes of a line break, before more head lines or a body that is no upload. `Requests` is
  what a client may write: head lines that are not empty, a body, and for an upload the
  parts its body holds. Segments end anywhere.
* **Parameters.** A text is a sequence of bytes, of those that have a meaning and one
  that has none. `Forms` and `SetCookies` are what clients and handlers write, the
  browser in between is external; `fields` and `set` remember what was meant, and `jar`
  is what the browser keeps, a cookie in the place of the last one with its name.
  `CookiesAssumption` is what the handlers of the repository set: names are tokens
  (`sessionid`, `httpsessionstore.cpp:67`; `firstCookie`, `dumpcontroller.cpp:17`) and not
  those of attributes, and comments, domains, ages and paths have no quotes, semicolons
  or outer spaces. Values are any text.
* **Sessions.** An id stands for its session. A handle is who holds it: the store, or a
  variable, parameter or temporary of a thread. `~HttpSession` is the three steps
  `LoadCount`, `StoreCount`, `Unlock`, as the read lock lets two threads do it at
  once; if the data, and with it the lock, is gone by then the third is `UnlockFreed`.
  `overlapped` tells of each thread whether another one was at the end of a handle of the
  same data at the same time. What happens under a write lock or the store's mutex is one step.
* **FileCache.** A document is the version of its file. `ServiceFile`, `ReadFile`,
  `InsertFile` are the three parts of `StaticFileController::service`, of which the
  middle one has no mutex; `tryFile` and `ReturnDocument` those of
  `TemplateCache::tryFile`, the second after the mutex.
* **Template.** `text` is a sequence of words and tags, `tree` what the author meant, and
  every call fills both.
* **LogFile.** `buffers`, `file`, `unflushed`, `disk` are the places where a message can
  be, and a crash takes the first and the third. A rotation is `BeginMoving` and one
  `MoveFile` per backup. `main` is the thread of the timers.
* **Service.** `path` is the process whose socket is at the path, `stage` follows a
  process through `QtUnixServerSocket::setPath`, the event loop and `close()`.
* **WinService.** `at` and `code` are where the two threads that call `handler()` are,
  `main` where the main thread is; `scm` is the status the manager knows. The report at
  the end of `handler()`, outside the mutex, is three steps, `TestStatus`, `CopyStatus`,
  `SendStatus`, with what was read in `copy`; so is the last one of `start()` two,
  `LoopReturns` and `ReportStopped`. `said` tells of the manager's last report whether it
  is current, late, or the end.

## 3. Abstract specification and refinement

`TaskQueue` says what the threads of a worker rely on: `Put` adds a task and a
credit, `TakeTask` takes a best task for a credit, `TakeNothing` answers a credit
with the default task if the queue is empty, `LoseCredit` is a semaphore at its
limit. `MsgQue` implements it under the mapping

    items <- q    total <- tot    credit <- sem + calls of de() past sem_wait
                                              + calls of en() before sem_post

`MsgQue!ImplementsQueue` is checked by TLC and proved by TLAPS
(`MsgQueProof!Refinement`).

`CountedQueue` forgets which tasks there are: `n` of them are queued and `credit`
calls of `de()` may return. It is where the model of the queue and that of the
process that uses it meet. `MsgQue` implements it with `n <- Cardinality(q)` and the
credit above (`MsgQueProof!Counting`), and so does each of the three queues of `Node`
(`NodeProof!QueuesCount`): what the threads of `Node` do to a queue is what the locked
queue does to its counts. `Node` has fewer of these behaviours than `MsgQue` in one
place: its `Put` loses the credit of a post at `SEM_VALUE_MAX` at once, where `MsgQue` has
the steps between the push and the post, in which the credit is one more.

## 4. Runs

| Run | Configuration | Shows |
|---|---|---|
| `msgque` | `MsgQue.cfg` | two producers, two consumers, a reader, three tasks on a queue of two: the safety properties, the refinement, and that the queue is drained |
| `msgque_race` | `MsgQueRace.cfg` | **violation** of `RaceFree`: finding 1 |
| `node_safety` | `NodeSafety.cfg` | two workers on queues of one task: work never runs out, whatever ends the node has its cause |
| `node_liveness` | `NodeLiveness.cfg` | the scheduler goes on and genes are spread |
| `node_outcomer` | `NodeOutcomer.cfg` | **violation** of `OutcomersStayOut`: finding 2 |
| `server_nested` | `ServerNested.cfg` | two workers, a period of three probes, a main thread that is kept once: passes inside passes, their iterators and probes; without that, none inside another |
| `cluster` | `Cluster.cfg` | two workers, one of which spreads genes, a period of three probes: registry and lists converge, genes arrive |
| `server_removal` | `ServerRemoval.cfg` | **violation** of `OnlyTheDeadAreRemoved`: finding 3 |
| `http_pool` | `HttpPool.cfg` | a pool of up to three handlers: the assertion of `handleConnection`, the main thread comes back unless it waits for a client that neither reads nor leaves, the pool shrinks |
| `car` | `Car.cfg` | two pieces, two wheels: every break, every way to stop, updates after the stop, replacement of the car |
| `web` | `Web.cfg` | one connection; forms and cookies; sessions; caches; templates; a log: their invariants, 1 278 000 states |
| `programs` | `Programs.cfg` | two services, genes, the player: their invariants and that they go on, 62 000 states |

### 4.1 Bounds, and why they are enough

* *MsgQue*: `MaxSize = 2` with three tasks makes eviction happen, `SemMax = 2` makes
  the semaphore saturate, two equal scores make ties. `TotMod = 2` stands for 2^32.
* *Node*: `MaxSize = 1` makes every queue overflow at once; `SemMax = 2` lets
  credits outnumber tasks; `InjectPeriod = 3`, `SpreadPeriod = 2` (331 and 97 in the
  code) reach all three kinds of rounds in six. `GroupSize = 1` (1003) makes the
  competition start. `Troubles` says which genes may go
  wrong: `node_safety` has both kinds, `node_liveness` only those that the node writes, as
  both its properties end with what a request may do. For liveness the inject period is longer, 5, because the
  code takes far more results than it injects tasks: with short periods the
  model could live on injected tasks alone and the property would say nothing.
* *Server*: `TickEvery` (at least 10 in the code) is 3 for two workers, the case of few
  workers to a period. In `ServerNested` the main thread may be kept for a period
  (`Keeps`), once, which is enough for a pass inside another, as many workers would be; in
  `Cluster` it is not, for the size of the run. `Slow = TRUE` lets living workers miss the
  timeout. `BUFFER_SIZE` (100) is 1 or 2; `MaxFlight = 1` request of each worker on
  its way; `MaxPasses = 2`.
* *Cluster*: one of the two workers spreads its genes, to itself and to the other;
  two genes to a list (10), so that a list is used again when it is stale.
* *HttpPool*: at most three handlers in the pool (100) and one kept if idle (4); four
  handlers to draw from, so that one deleted and one new can meet.
* *Car*: `N = 2` (8) lets a piece carry no, one or two wheels, and `MaxBroken = 1`
  (7) lets two pieces be due for the last break. `SlowNear = 3` at least, as the
  update in the constructor and the first one each count a slow step: with less
  no car would ever reach Box2D. `MaxCars` bounds the player's replacements and
  `MaxLate` the updates after the stop.
* *Gene*: two base-2 digits a number and three numbers (8 base-16, 40): a first
  number, one in the middle and a last one, each with or without leading zero.
  The proof has any number of digits, in any base, and of floats.
* *Player*: three windows in a column (up to 10 x 10); since
  `floor(floor(x/n)/m) = floor(x/(nm))` a column shows what a grid does. Answers
  of no gene, of fewer than windows, and of more than windows and `Few` together.
* *HttpRequest*: one or two requests on a connection, with and without body, with an
  upload of two parts, too large by one line, by its body, by its upload. `maxSize` is
  14, so that a request fits by one byte and another does not, and so that the head of
  `Brimful` fills it to the byte (section 4.3). `maxMultiPartSize` is 18, which is more
  than `maxSize`, as in `config.ini` (10 MB and 16 kB), and one less than the body of
  `Photos`. `Block = 2` (65536) makes an upload take several reads. Segments end at
  every byte.
* *Parameters*: a form of two fields, one of them with any text of up to two bytes of
  nine kinds (what needs more than two is an escape, which is one byte in the text),
  in both orders and with equal or different names, divided between path and body
  anyhow; cookies with every text of two bytes, and one with all attributes.
  `Apart`: a request has a form or cookies, as neither depends on the other.
* *Sessions*: two handlers and the timer, two sessions. `MaxLost = 1` decrement may be
  lost, or a counter would grow for ever. As long as there is one session the three
  threads overlap freely; with the second one they take turns (`OneSession`,
  `OneThread`). `HandlesAreAlive` has neither bound.
* *FileCache*: two readers, two files of a template and one static file, sizes at and
  above the cost of the cache (one document above it at first, `OneIsLarge`), one change,
  an age of one tick.
* *Template*: every kind of block inside a loop, that inside a condition, values set
  before and after; five calls.
* *LogFile*: two writers, three messages, and all four levels: 0 stays in the buffer of its
  thread, 1 is printed but not flushed, 2 is flushed, 3 is fatal; files of one message, two backups, two crashes, one renaming; opening may fail.
* *Service*: two clients and two processes, one kill. *WinService*: all flags but one,
  and one start.

The safety theorems of section 5 hold for all values of these constants.

`CHECK_DEADLOCK FALSE` is set where the modelled program may end: a crashed node, an
undefined server, a scored car, a gene that cannot be read, a crashed player.

### 4.2 Fairness

* *MsgQue*: a thread inside a call runs, and consumers call `de()` for ever
  (`workerMain`, `schedulerMain`). Nobody must call `en()`.
* *Node*: the threads run. Steps that wait for another machine (`DumpReturns`,
  `SpreaderRefresh`, `SpreaderSent`) and incoming requests are not fair, and the
  properties name the case in which such a step never comes. That an evaluation
  ends is `Car!EvaluationEnds`.
* *Server*: the timers fire, the main thread is not kept for ever, requests in flight
  arrive, and a living worker dumps
  again and again (its scheduler dumps every result once the group is full).
* *Cluster*: as *Server*, and the spreading thread runs. Strong fairness says that the
  server is reached, and a list comes whole, again and again, and that the worker has
  genes to spread not only while its list came in part.
* *HttpPool*: threads run and timers fire. Nothing is assumed of a client, which may neither
  read nor leave while the code waits for it without limit: `MainComesBack` names that case
  (`WaitsOnClient`). Strong fairness for a thread
  that waits for the registry's mutex and for the cleanup timer: neither a
  `QMutex` nor an event loop passes one over for ever.
* *Car*: the evaluating thread and Box2D run.
* *Service*: a process and a client that can go on do; nobody must send a command, and
  nobody need kill. *WinService*: the threads run, the event loop handles its events,
  the SCM starts a process it was asked for; that anyone asks is not assumed.
* *Player*: Qt runs the timer and ends every request; strong fairness for an answer
  with a gene for every window, which is an assumption on the cluster.

### 4.3 What the runs found

1. **`msgque_race`.** `msgque.hh:11` calls the queue thread-safe; `tot()` and `sz()`
   read what other threads write, without the mutex.
2. **`node_outcomer`.** `scheduler.cc:225` says "do nothing as outcomer"; the `if`
   that follows lacks its `else`, and outcomers join the survivors.
3. **`server_removal`.** `server.cpp:196` and `:212` equate error and timeout with
   dead; a worker that is restarted and registers while the pass goes on is
   removed at its end. (`TheLivingAreKnown` shows that its dumps bring it back.)

Seen while modelling, and part of the models as the code has it: a full queue
evicts its best task (the top of the heap) and makes phantoms, which may end the
process (`Node!CrashHasACause`), as may any gene of 320 characters that `/spread_gene`
takes (`proxy.cc:34`) and `stoll` does not (`engine.cpp:77`); only the first of forty numbers of a gene is padded
(`Gene!GenesReadBack`); a handler whose `setSocketDescriptor` fails stays busy for
ever (`HttpPool!HandleConnectionFails`); genes that arrive while the player's input
dialogs are open meet a grid of uninitialised size (`Player!ReplyEarly`).

In QtWebApp, where no text of the repository says otherwise but for one comment:

* `httprequest.cpp:74`: if a segment ends between `\r` and `\n`, the line that holds only
  the `\n` is taken for the end of the headers. This is the one exception (`torn`) of
  `RequestsAreWhole`; the limits hold all the same.
* `httprequest.cpp:64`: no read asks for more than a byte above the limit. If the head of
  an upload fills `maxRequestSize` to the byte, the read of its blank line takes one of its
  two bytes, which is enough to end the headers, and the other one is taken for the first
  of the body; the last byte of the body is left over and skipped as an empty line before
  the next request. It harms nobody, since a multipart body may end with a line break,
  but the proof of `RequestsAreWhole` could not do without it (`HttpRequest!Between`).
* `httprequest.cpp:31` adds the whole buffered line to the size for every piece of it
  that arrives, so that a small request in many segments is refused.
* `httprequest.cpp:275` and `httpcookie.cpp:43`: `if (posi)` is true of -1, so that a part
  of a cookie without "=" is all value. `Secure` and `HttpOnly` are never read back,
  and `HttpCookie(source)` leaves `httpOnly` without a value. A quote in one cookie
  swallows the cookies after it (`httpcookie.cpp:227`). `CookiesComeBack` is stated
  without these cases.
* `templatecache.cpp:35` reads an entry after its mutex is free; `QCache` may have
  deleted it, and has for certain if it is larger than the cache (`FileCache!Deleted`).
* `template.cpp:100`: a start tag without end tag is found again for ever
  (`Template!Hangs`).
* `filelogger.cpp:121` warns with `Logger::mutex` locked; if the logger is the default
  one, `log()` locks it again and the thread waits for itself (`LogFile!qWarning`),
  which the comment at `logger.cpp:49` means to exclude.
* `httpsession.cpp:80`: counters are decremented under a read lock. A lost decrement
  leaks the session; none is ever deleted while there is a handle (`HandlesAreAlive`). But
  of two threads that end their handles at once, the one that counts 0 may delete the
  data (line 88) before the other has unlocked its lock (line 84): `UnlockFreed`, which
  `NoHandleDangles` has as its one exception, though `httpsession.h:19` calls the class
  thread safe.
  `httpsession.cpp:67` deletes in `operator=` only what had no handle *before* it let go
  of its own, which leaks too.
* `qtservice_win.cpp:654` reads and reports the status after the mutex is unlocked. The
  report with which the startup ends may be overtaken by a control: the manager then shows
  a service as running that is paused, or leaves it in a pending state that is over, until
  the next report. `StatusIsTrue` and `PendingEnds` name this report (`said = "late"`).
* `httpresponse.cpp:84` waits for the client without limit, and a handler of the server
  does so with the mutex of the registry locked: one client that neither reads nor leaves
  stops the heartbeat (`HttpPool!WaitsOnClient`).
* `qtunixserversocket.cpp:89`: a process that stops unlinks its path, also when its
  successor has bound it: the successor runs on, unreachable.

## 5. Proofs

Assumptions are those named in each module (`MsgQueAssumption`, ...): finiteness
where the code counts, constants above zero where the code needs them.

### 5.1 `MsgQueProof`

`TypeCorrect`, `NeverPopsEmpty`, `WakeupsAreKept`, `PhantomsFollowEvictions`,
`Refinement`. The invariant adds mutual exclusion (a thread in its critical section
owns the mutex) and an exact count of credits against tasks: without it the
bound `NoLostWakeup` is not inductive, since a saturated semaphore drops a credit
only when there are more than the queue can hold (`SemMax >= MaxSize`).
`Counting` is the second refinement, of `CountedQueue`: every step of `TaskQueue` is one of
its counts (`CountedStep`), because a push into a full queue leaves as many tasks as it
found (`PushedCount`).

### 5.2 `NodeProof`

`TypeCorrect`, `WorkStays`, `BestBounds`, `CrashesAreExplained`. The last one gives each
kind of death its cause: an empty gene needs an overflow before, a gene that is not read
one that was written short or came in a request, a lottery of zeros an overflow or an odd
score, a null pointer a request before `proxyMain`. Its heart is that without an overflow credits and tasks agree in every queue
(`CreditsExact`), so that no `de()` finds a queue empty and no phantom exists
(`NoPhantoms`). `WorkStays` needs that a result always has at least one child, hence
the `+ 1` of `num_mutate` (and scores of an engine: one below zero from a request has
none), and that a phantom, which has none, is only taken when
real work is elsewhere. `BestBounds` needs the same of the round in progress.
`QueuesCount` shows that no action does anything to a queue but a call of `en()` or
`de()` (`QueueSteps`). `TasksStayInReach` follows from the same lemma: the semaphore of
each queue, overflown or not, covers its tasks, so that no thread sleeps in `de()` while
there is one, which `SchedulerGoesOn` and `GenesAreSpread` rely on.

### 5.3 `ServerProof`

`TypeCorrect`, `IteratorsAreValid`, `WorkersAreProbed`, `FewWorkers`. `PassesGood`
states for every pass in the stack that its iterator points to an entry unless
an inner pass removed it, and that what it has still to probe lies ahead.
`FewInv` bounds the probes of a pass by the urls at or below its iterator, and
therefore `since` by `Cardinality(Url)`: as long as nothing else keeps the main thread
(`kept`) the timer cannot fire inside a pass. In the code the mutex or the cleanup of the
pool may keep it, and then it can, with two workers too; the run `server_nested` goes there.

`ClusterIsServer` shows that `ClusterSpec` implements `Spec`: a step of a spreader
stutters, every other is the server's or a worker's. So all of this holds in a cluster;
`FewWorkersInCluster` is `FewWorkers` there.

### 5.4 `HttpPoolProof`

`TypeCorrect`, `ConnectionsAreSingle`, `UsedAreKept`, `SilencesAreTimed`. The invariant
is the conjunction of the properties and `AbsentAreIdle`. The step that matters:
only a socket that was open makes a handler idle, and an open socket excludes a
queued connection, so no late hang-up or timeout frees a handler that has been
given away meanwhile.

### 5.5 `EngineProof`

*Car*: `TypeCorrect`, `NothingIsDestroyedTwice`, `CarsHoldTogether`, `TorquesAreCurrent`,
`StopsAreHeard`, `CarsStayStopped`. `PartsInv` ties flags to parts still on the body,
which is what makes the second turn of a part in the loop harmless. `MotionInv` has
what the first update can and cannot count (`FirstUpdate`) and why later updates of
a stopped car stop again (`LateUpdates`).

*Player*: `RequestsAreSingle`, from the lemma that `rebuildLayout()` asks only while nothing
is under way, whatever it has given to the windows before. `EntriesAreGivenOnce`: no entry of the
last answer is in two of the places where it can be, the list and the windows that were
given one since (`NoneTwice`). An answer clears the list but not the windows, so a gene of
an earlier answer may come again in the next: the theorem is about one answer. That a
window's place in the list, `len * id / rows / columns`, is inside it is arithmetic
(`QuotientIsLess`); that the windows, served one after the other, keep the invariant is
an induction over their number.

*Gene*: `GenesAreReadBack`. As long as no float with a leading zero digit was written after
the first, every slot has the text of the chrome that was meant (`GeneInv`), and such a
text is the digits of all numbers one after the other: digit `j` of number `i` is at
`(i - 1) * Width + j` (`FlattenedText`), where `substr(i * 8, 8)` looks for it.

### 5.6 `WebProof`

*Sessions*: `HandlesAreAlive`. A counter is at least the number of handles (`CountsOK`), and a
thread that has loaded it and not yet stored it has loaded at least that number, with the
handle it is about to drop (`LoadsOK`): whoever else copies a handle meanwhile needs
the write lock and must wait, and whoever drops one makes the number smaller. So a
stored 0 means that no handle is left. That the data is still there when a thread lets go of
its lock is a second invariant, `Alone`: only a thread that has loaded the counter of the
same data deletes it, and two of these have `overlapped`. `EntriesOK` and `HandlesOK` say where a handle
can be, `PassOK` that the timer looks at sessions of the store only.

*Responses*: `ResponsesEnd`. What `HttpResponse::write` promises by its headers it keeps
(`HeadersAreKept`): a length is that of all that was sent, and without length or chunks
the connection is to be closed. What ends with the connection is its last
response (`AnswersInv`).

*Requests*: `RequestsDoNotMix` and `LimitsAreKept`, for any segments, from one invariant in
two parts. `ReaderInv` holds whatever has happened: the reader is at a byte of some line of
some request (`ReaderIsPlaced`, `Moves`), and the size counted so far is at least what has
been read (`Sizes`), so that what passes the test at the end is within the limit.
`LimitsAreKept` needs no more than this. `Placed` holds unless the connection is `torn`, and
says for each status of a request how what the parser knows agrees with where the reader
stands: `InRequestLine`, `InHeaders`, `InTheBody`, `Ended`. A line break that is cut where it
does no harm has two places in it: before the empty line of a request that needs no more
of its head (`AtBreak`), and in an upload, whose parser may then be one or two bytes ahead
(`Behind`) and leave them over for the next request (`Between`). And the parts that
`parseMultiPartFile` finds in the lines of an upload are the parts it was written from, by
induction over the parts and, within each, over its lines (`ParametersOfParts`).

*Caches*: `CachesAreRecent`. Every entry knows a version of its file that was current when
it was created, and was not replaced before (`IsEntry`); a request that found one young
enough has it in hand (`InHand`), whatever becomes of the cache meanwhile. `QCache::insert`
evicts the oldest and deletes an old entry of the same file first, which keeps one
entry of each (`IsCache`).

*Parameters*: `ParametersAlwaysArrive`. The texts have any length and any bytes, so this is an
induction over them, on both sides: what a browser writes of a text has none of the bytes
that divide (`EscapedIsPlain`), and `urlDecode`, byte by byte, has found exactly what was
escaped so far, with no escape open (`DecodeEscape`, `DecodeEscaped`), as it goes on behind
the byte that it has put in place of an escape. A list of texts without "&", joined with
it, splits into these texts (`SplitJoined`), wherever the form was divided between the path and the
body (`EncodedConcat`). `FormIsDecoded` puts them together, and the value that a
`QMultiMap` returns is the last of its name (`FoundIsLast`).

*Cookies*: `CookiesAlwaysComeBack`, from `JarInv`: the jar has one entry for every cookie
that is set and no other, with what a browser keeps of it, up to the first semicolon
(`FirstPiece`), and a served request has what `extractCookies` makes of the header.
Texts that neither begin nor end with a space and have no quote and no
semicolon (`IsPart`), joined with `"; "`, are what `splitCSV` returns (`PartsJoined`), from which
the first "=" tells name and value (`PairIsPart`); so no cookie is lost behind another
while none has a quote. The other half, that the text of a cookie reads back as the cookie,
follows the parts of the text through `HttpCookie(source)` (`CookieIsRead`): each sets its own
field and no other.

*Log*: `LogsAreInOrder` and `CriticalMessagesAreKept`. `BuffersInv` says that what a thread still
buffers came after all it has in the files, and `FilesInv` that each file came after
those with higher numbers, also while a rotation is half done: `MainInv` says how far
it is, with `logMutex` held.

### 5.7 `WinServiceProof`

`StatusesAreTrue`. While the event loop runs, the service is `Starting` or `Started`. In the
first phase only `serviceMain` is in the handler, since the manager sends no control
to a pending service. In the second there is at most one control on its way,
between `dispatcher` and the event loop, and the status follows from how far it is. That the
manager knows it too (`Known`) has one exception, as `serviceMain` may still have the report
of the startup to make (`StartupOver`), with a copy that is out of date; `dispatcher` makes
its own reports in their order, before it takes the next control.
`WaitsOK` gives the first phase its beginning, `GoneOK` the next process an empty one.

### 5.8 `Lemmas`

The library's induction theorems take a predicate as a parameter, which the provers cannot
instantiate. `Induction` and `InductionUpTo` are stated for a *set* of numbers instead, and
proved from the fact that a non-empty set of numbers has a least element: a proof by
induction defines the set of the numbers it wants and hides that definition.
`RecursionExists` gives a recursive function on `0 .. M` its existence, which a
definition by `CHOOSE` (and so `FlattenSeq`, and every `f[k \in 0 .. n] == ...`) needs before anything can be
said of its values.

The folds of the community modules are such a definition, with an operator as a
parameter. `Iterated` is the same fold with a function in its place, over the prefixes of a
sequence: `FoldLeft(Op, ...)` is a function on the sets of places which is shown to exist
(`FoldingExists`) and to have the value `Iterated` has (`FollowsIterated`), for
each `Op` where it is used (`DecodeSteps`, `SplitSteps`, `PartsSteps`, `FieldsSteps`).
`IteratedAppend` then gives the step for one more byte, and `SequenceInduction` the induction
over texts. Next to them are facts that hold of sequences as such: sums (`SumsFacts`), texts in which a
byte does not occur (`WithoutConcat`), a list whose last text goes on (`ExtendedFacts`),
texts with a separator between them (`SeparatedAppend`). So what a recursive function or a fold computes is proved here, for all
inputs; what a `RECURSIVE` operator computes is not.

### 5.9 Proved, but not checked by a run

`TypeCorrect` of each module, `NeverPopsEmpty` and `PhantomsFollowEvictions` of `MsgQue`,
`BestBounds`, `QueuesCount` and `TasksStayInReach` of `Node`, `Counting`,
`CarsStayStopped`: the runs keep to the properties that say more.

### 5.10 Only model-checked

All liveness (`Drained`, `SchedulerGoesOn`, `GenesAreSpread`, `TheLivingAreKnown`,
`TheDeadAreLeftAlone`, `GenesReachFellows`, `MainComesBack`, `PoolShrinks`, `EvaluationEnds`, `PendingEnds`,
`ControllersComeBack`, `WindowsMoveOn`), as fairness and `ENABLED` are beyond the prover.
`TextIsTree`, whose trees nest and are read by a `RECURSIVE` operator; and the three
findings. Every other invariant and action property of the runs is a theorem.

## 6. Not modelled, and why

* *Data races below a step.* `QMap` read by the heartbeat's iterator while a handler
  inserts under the mutex is a race in C++; `Server` takes the steps as atomic.
  `HttpPool` reads and writes the busy flag atomically.
* *The daemon's report*, the self-test and the command line of a worker; the
  read-only answers of the server, as far as they change nothing (that they
  are written under the mutex is in `HttpPool`).
* *civetweb*, which is not in the repository: `mg_download` returning NULL is taken as
  an empty answer, as the versions in use treat it.
* *Numbers read from a misread gene*: a float from shifted digits may be anything,
  and wheels and angles made from it too. `Car` starts from genes that decode.
* *Geometry, forces, drawing*: Box2D, `Track`, `Render`.
* *Sparks*: `updateSparks()` returns at once and nobody reads the list.
* *`GeneticAlgorithm::nextGenetation`* and what it calls: unreachable, since the one car
  is never followed by another.
* *QtWebApp*: SSL, which the server does not configure; content types and the wording of
  headers; the values in a session, which its lock guards; the format of log messages
  and `DualFileLogger`, which is two loggers; command lines, event logs and enquiries of
  the services; the demos.
* *Box2D* is third-party, and only its headers are in the repository. Its headers, those
  of QtWebApp, which are documentation for the most part, and drawing are most of the
  lines that "map" does not name.
* *Monitor* and the *hill climber* of `engine/main.cpp`: a curve and a loop whose only
  reader is a person.

## 7. Plan

Done, in this order: the queue and its refinement; the worker process; the
server; the evaluation of a car; genes; the player; the server's connections;
proofs of the safety properties of five of them; requests, parameters, sessions,
caches, templates and logs of QtWebApp; its services; the cluster; proofs about
sessions, the Windows service and the player, then about responses, caches, logs,
genes, the requests of a connection and their limits, forms and cookies; the counts
that the queue and its users agree on.

What is left, by what it would show:

1. **Cluster of nodes**: `Cluster` with `Node` in the place of its workers, as far as a
   reduced `Node` can be checked: what a gene from outside does to the next.
2. **Registry**: an abstract register of workers (enter, forget, report) that
   `Server` implements as long as passes do not meet; its proof from `FewInv`.
3. **Monitor**: answers booked under the second of their arrival, the series of 99
   seconds filled forward; `paint.js:87-106`.
4. **Hill climber** of `engine/main.cpp`: the scores of `genes` increase.
