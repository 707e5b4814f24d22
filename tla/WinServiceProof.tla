----------------------------- MODULE WinServiceProof -----------------------------
(***************************************************************************)
(* StatusIsTrue of WinService, for any flags and any number of starts.      *)
(***************************************************************************)
EXTENDS WinService, TLAPS

\* What a service that has not stopped reports.
Live == {"startPending", "stopPending", "pausePending", "continuePending", "running", "paused"}

Place == {"out", "begins", "acquires", "enters", "waits", "woken", "tests", "copies", "sends"}

ThreadsOK ==
    /\ at \in [Caller -> Place]
    /\ code \in [Caller -> {"none", Startup, "interrogate", "user", "stop", "pause",
                            "continue", "shutdown"}]
    /\ copy \in [Caller -> Live \cup {"none", "stopped"}]
    /\ status \in Live \cup {"stopped"}
    /\ byScm \in BOOLEAN /\ quit \in BOOLEAN

\* Nothing is left of a process that is gone.
GoneOK ==
    main = "gone" =>
        /\ status = "stopped" /\ events = <<>> /\ ~ quit /\ told = "none" /\ created = 0
        /\ at = [t \in Caller |-> "out"] /\ dispatcher = "none" /\ said = "current"

\* Until the application exists, serviceMain gets no further than its semaphore.
WaitsOK ==
    main = "waits" =>
        /\ status = "stopped" /\ events = <<>> /\ ~ quit /\ told = "none" /\ created = 0
        /\ at["dispatcher"] = "out" /\ said = "current"
        /\ at["serviceMain"] \in IF dispatcher = "serves" THEN {"begins", "acquires"}
                                                          ELSE {"out"}
        /\ dispatcher = "serves" => byScm
        /\ byScm => scm = "startPending"

\* The startup: no control comes before it is over.
Starting ==
    /\ scm = "startPending" /\ at["dispatcher"] = "out" /\ said = "current"
    /\ \/ /\ at["serviceMain"] \in {"begins", "acquires"}
          /\ status = "stopped" /\ events = <<>> /\ told = "none"
       \/ /\ at["serviceMain"] = "enters" /\ code["serviceMain"] = Startup
          /\ status = "stopped" /\ events = <<>> /\ told = "none"
       \/ /\ at["serviceMain"] = "waits" /\ code["serviceMain"] = Startup
          /\ status = "startPending" /\ events = <<Startup>> /\ told = "none"
       \/ /\ at["serviceMain"] = "woken" /\ code["serviceMain"] = Startup
          /\ status = "startPending" /\ events = <<>> /\ told = "start"

\* The service is in the state that it was told.
True ==
    \/ status = "running" /\ told \in {"start", "resume"}
    \/ status = "paused" /\ told = "pause"

\* The SCM knows the status, unless the report of the startup came late.
Known == \/ scm = status /\ said = "current"
         \/ scm \in Live /\ said = "late"

\* The startup is over but for its report.
StartupOver == /\ at["serviceMain"] \in {"tests", "copies", "sends", "out"}
               /\ at["serviceMain"] = "sends" => copy["serviceMain"] \in Live

\* Afterwards controls come one at a time, and each is seen through.
Started ==
    LET c == code["dispatcher"] IN
    /\ Known /\ StartupOver
    /\ \/ /\ at["dispatcher"] \in {"out", "enters", "tests", "copies", "sends"}
          /\ at["dispatcher"] = "sends" => copy["dispatcher"] = status
          /\ events = <<>> /\ True
       \/ /\ at["dispatcher"] = "waits"
          /\ events = <<Event(c)>>
          /\ CASE c = "stop" -> status = "stopPending"
               [] c = "pause" -> status = "pausePending"
               [] c = "continue" -> status = "continuePending"
               [] OTHER -> c \in {"user", "shutdown"} /\ True
       \/ /\ at["dispatcher"] = "woken"
          /\ events = <<>>
          /\ CASE c = "pause" -> status = "pausePending" /\ told = "pause"
               [] c = "continue" -> status = "continuePending" /\ told = "resume"
               [] OTHER -> c = "user" /\ True

LoopOK == main = "loop" /\ ~ quit => dispatcher = "serves" /\ (Starting \/ Started)

\* In the handler the thread of the dispatcher has a control from the SCM.
CodeOK ==
    at["dispatcher"] \in {"enters", "waits", "woken"} =>
        code["dispatcher"] \notin {"none", Startup}

\* The inductive invariant.
IInv == ThreadsOK /\ GoneOK /\ WaitsOK /\ LoopOK /\ CodeOK

--------------------------------------------------------------------------------
(* Processes *)

\* A process that has ended leaves nothing behind.
LEMMA ExitKeeps ==
    ASSUME NEW s, Exit(s)
    PROVE  IInv'
<1>1. ThreadsOK'
  BY DEF Exit, NoProcess, ThreadsOK, Place
<1>2. GoneOK' /\ WaitsOK' /\ LoopOK' /\ CodeOK'
  BY DEF Exit, NoProcess, GoneOK, WaitsOK, LoopOK, CodeOK, Caller
<1> QED
  BY <1>1, <1>2 DEF IInv

\* A service that has started, and does not quit, has reported it.
LEMMA StartedIsLive ==
    ASSUME Started
    PROVE  status \in Live /\ scm \in Live /\ said \in {"current", "late"}
BY DEF Started, Known, True, Live

\* What a handler reports under the mutex, the SCM knows.
LEMMA SetStatusReports ==
    ASSUME NEW t, NEW s \in Live, setStatus(t, s), said # "stopped"
    PROVE  status' = s /\ scm' = s /\ said' = "current"
BY DEF setStatus, Report, Live

\* The SCM and its users do not disturb a process.
LEMMA OutsideKeeps ==
    ASSUME IInv, InstallService \/ UninstallService \/ ControllerStarts
    PROVE  IInv'
<1>1. /\ UNCHANGED <<status, main, byScm, reports, threads, semaphores, events, quit, told,
                     starts>>
      /\ \/ main = "gone"
         \/ scm \in {"none", "stopped"}
  BY DEF InstallService, UninstallService, ControllerStarts
<1>2. ThreadsOK' /\ GoneOK' /\ CodeOK'
  BY <1>1 DEF IInv, ThreadsOK, GoneOK, CodeOK, threads, reports, semaphores
<1>3. WaitsOK'
  BY <1>1 DEF IInv, WaitsOK, threads, reports, semaphores
<1>4. LoopOK'
  <2> SUFFICES ASSUME main = "loop", ~ quit PROVE FALSE
    BY <1>1 DEF LoopOK
  <2>1. Starting \/ Started
    BY DEF IInv, LoopOK
  <2>2. scm \in Live
    BY <2>1, StartedIsLive DEF Starting, Live
  <2> QED
    BY <1>1, <2>2 DEF Live
<1> QED
  BY <1>2, <1>3, <1>4 DEF IInv

LEMMA StartProcessKeeps ==
    ASSUME IInv, StartProcess
    PROVE  IInv'
<1>1. ThreadsOK' /\ GoneOK' /\ CodeOK' /\ LoopOK'
  BY DEF StartProcess, IInv, ThreadsOK, GoneOK, CodeOK, LoopOK, reports, semaphores
<1>2. WaitsOK'
  BY DEF StartProcess, IInv, GoneOK, WaitsOK, reports, semaphores, Caller
<1> QED
  BY <1>1, <1>2 DEF IInv

LEMMA MainKeeps ==
    ASSUME IInv, \/ StartReturns \/ StartGivesUp \/ createApplication
                 \/ Quits \/ LoopReturns \/ ReportStopped \/ Cleanup
    PROVE  IInv'
<1>1. CASE StartReturns \/ StartGivesUp \/ Cleanup
  BY <1>1, ExitKeeps DEF StartReturns, StartGivesUp, Cleanup
<1>2. CASE createApplication
  <2>1. CASE Exit(StoppedOr(scm))
    BY <2>1, ExitKeeps
  <2>2. CASE /\ main = "waits" /\ main' = "loop" /\ dispatcher = "serves"
             /\ UNCHANGED <<scm, status, byScm, threads, reports, events, quit, told>>
    <3>1. ThreadsOK' /\ GoneOK' /\ WaitsOK' /\ CodeOK'
      BY <2>2 DEF IInv, ThreadsOK, GoneOK, WaitsOK, CodeOK, threads, reports
    <3>2. LoopOK'
      BY <2>2 DEF IInv, WaitsOK, LoopOK, Starting, threads, reports
    <3> QED
      BY <3>1, <3>2 DEF IInv
  <2> QED
    BY <1>2, <2>1, <2>2 DEF createApplication
<1>3. CASE Quits \/ LoopReturns \/ ReportStopped
  BY <1>3 DEF Quits, LoopReturns, ReportStopped, IInv, ThreadsOK, GoneOK, WaitsOK,
              LoopOK, CodeOK, threads, reports, semaphores
<1> QED
  BY <1>1, <1>2, <1>3

--------------------------------------------------------------------------------
(* Threads *)

LEMMA DispatcherKeeps ==
    ASSUME IInv, DispatcherConnects \/ DispatcherFails \/ DispatcherReturns
    PROVE  IInv'
<1> USE DEF Caller
<1>1. CASE DispatcherConnects
  <2>1. /\ dispatcher = "begins" /\ dispatcher' = "serves" /\ byScm
        /\ at' = [at EXCEPT !["serviceMain"] = "begins"]
        /\ UNCHANGED <<scm, status, main, byScm, copy, said, code, events, quit, told, created>>
    BY <1>1 DEF DispatcherConnects, Goes, reports, semaphores
  <2>2. ThreadsOK' /\ GoneOK' /\ CodeOK'
    BY <2>1 DEF IInv, ThreadsOK, GoneOK, CodeOK, Place
  <2>3. WaitsOK'
    BY <2>1 DEF IInv, ThreadsOK, WaitsOK
  <2>4. LoopOK'
    BY <2>1 DEF IInv, LoopOK
  <2> QED
    BY <2>2, <2>3, <2>4 DEF IInv
<1>2. CASE DispatcherFails
  BY <1>2 DEF DispatcherFails, IInv, ThreadsOK, GoneOK, WaitsOK, LoopOK, CodeOK, reports
<1>3. CASE DispatcherReturns
  <2>1. /\ dispatcher = "serves" /\ said = "stopped" /\ dispatcher' = "finished"
        /\ UNCHANGED <<scm, status, main, byScm, copy, said, at, code, events, quit, told,
                       created>>
    BY <1>3 DEF DispatcherReturns, reports, semaphores
  <2>2. ThreadsOK' /\ GoneOK' /\ WaitsOK' /\ CodeOK'
    BY <2>1 DEF IInv, ThreadsOK, GoneOK, WaitsOK, CodeOK
  <2>3. LoopOK'
    BY <2>1, StartedIsLive DEF IInv, LoopOK, Starting
  <2> QED
    BY <2>2, <2>3 DEF IInv
<1> QED
  BY <1>1, <1>2, <1>3

\* serviceMain brings the arguments, and enters the handler once there is an application.
LEMMA ServiceMainKeeps ==
    ASSUME IInv, serviceMain \/ RegisterHandler
    PROVE  IInv'
<1> USE DEF Caller
<1>1. CASE serviceMain
  <2>1. ThreadsOK' /\ GoneOK' /\ WaitsOK' /\ CodeOK'
    BY <1>1 DEF serviceMain, Is, Goes, IInv, ThreadsOK, GoneOK, WaitsOK, CodeOK, Place, reports
  <2>2. LoopOK'
    BY <1>1 DEF serviceMain, Is, Goes, IInv, ThreadsOK, LoopOK, Starting, Started, StartupOver,
                reports
  <2> QED
    BY <2>1, <2>2 DEF IInv
<1>2. CASE RegisterHandler
  <2>1. ThreadsOK' /\ GoneOK' /\ WaitsOK' /\ CodeOK'
    BY <1>2 DEF RegisterHandler, Is, Enters, IInv, ThreadsOK, GoneOK, WaitsOK, CodeOK, Place,
                reports
  <2>2. LoopOK'
    BY <1>2 DEF RegisterHandler, Is, Enters, IInv, ThreadsOK, LoopOK, Starting, Started,
                StartupOver, reports
  <2> QED
    BY <2>1, <2>2 DEF IInv
<1> QED
  BY <1>1, <1>2

LEMMA ControlKeeps ==
    ASSUME IInv, Control
    PROVE  IInv'
<1> USE DEF Caller
<1>1. PICK c \in Accepted : Enters("dispatcher", c)
  BY DEF Control
<1>2. c \in {"interrogate", "user", "stop", "pause", "continue", "shutdown"}
  BY <1>1 DEF Accepted
<1>3. main \notin {"gone", "waits"}
  BY DEF Control, IInv, GoneOK, WaitsOK
<1>a. /\ at' = [at EXCEPT !["dispatcher"] = "enters"]
      /\ code' = [code EXCEPT !["dispatcher"] = c]
      /\ UNCHANGED <<status, main, byScm, copy, said, quit>>
  BY <1>1 DEF Control, Enters, reports
<1>5. ThreadsOK'
  BY <1>2, <1>a DEF IInv, ThreadsOK, Startup, Place
<1>6. GoneOK' /\ WaitsOK'
  BY <1>3, <1>a DEF GoneOK, WaitsOK
<1>7. CodeOK'
  BY <1>2, <1>a DEF IInv, ThreadsOK, CodeOK, Startup
<1>4. LoopOK'
  <2> SUFFICES ASSUME main = "loop", ~ quit PROVE dispatcher' = "serves" /\ Started'
    BY <1>a DEF LoopOK
  <2>1. /\ at["dispatcher"] = "out" /\ dispatcher = "serves" /\ Started
        /\ UNCHANGED <<scm, dispatcher, events, told>>
    BY DEF Control, Is, IInv, LoopOK, Starting, reports
  <2>2. Known' /\ StartupOver' /\ at'["dispatcher"] = "enters"
    BY <1>a, <2>1 DEF IInv, ThreadsOK, Started, Known, StartupOver
  <2>3. events' = <<>> /\ True'
    BY <1>a, <2>1 DEF Started, True
  <2> QED
    BY <2>1, <2>2, <2>3 DEF Started
<1> QED
  BY <1>4, <1>5, <1>6, <1>7 DEF IInv

--------------------------------------------------------------------------------
(* The handler *)

\* An event is posted, with the pending state before it.
LEMMA HandlerKeeps ==
    ASSUME IInv, NEW t \in Caller, handler(t)
    PROVE  IInv'
<1> USE DEF Caller
<1> DEFINE c == code[t]
<1>1. /\ at[t] = "enters" /\ c # "interrogate"
      /\ at' = [at EXCEPT ![t] = "waits"] /\ events' = Append(events, Event(c))
      /\ UNCHANGED <<main, byScm, dispatcher, code, copy, semaphores, quit, told, starts>>
  BY DEF handler, Is, Goes
<1>2. IF c \in SetsPending THEN setStatus(t, Pending(c)) ELSE UNCHANGED <<status, scm, said>>
  BY DEF handler
<1>3. main \notin {"gone", "waits"}
  BY <1>1 DEF IInv, GoneOK, WaitsOK
<1>a. c \in SetsPending => Pending(c) \in Live
  BY DEF SetsPending, Pending, Live, Startup
<1>b. status' \in Live \cup {"stopped"}
  BY <1>2, <1>a DEF setStatus, IInv, ThreadsOK
<1>4. ThreadsOK' /\ GoneOK' /\ WaitsOK' /\ CodeOK'
  <2>1. ThreadsOK'
    BY <1>1, <1>b DEF IInv, ThreadsOK, Place
  <2> QED
    BY <1>1, <1>3, <2>1 DEF IInv, ThreadsOK, GoneOK, WaitsOK, CodeOK
<1>5. LoopOK'
  <2> SUFFICES ASSUME main = "loop", ~ quit PROVE (Starting \/ Started)'
    BY <1>1 DEF IInv, LoopOK
  <2>1. at \in [Caller -> Place]
        /\ code[t] \in {"none", Startup, "interrogate", "user", "stop", "pause",
                        "continue", "shutdown"}
    BY DEF IInv, ThreadsOK
  <2>2. events = <<>> => events' = <<Event(c)>>
    BY <1>1
  <2>3. CASE t = "serviceMain"
    <3>1. /\ at["dispatcher"] = "out" /\ c = Startup /\ status = "stopped"
          /\ events = <<>> /\ told = "none" /\ said = "current"
      BY <1>1, <2>3 DEF IInv, LoopOK, Starting, Started, StartupOver
    <3>2. Pending(c) = "startPending" /\ Event(c) = Startup /\ c \in SetsPending
      BY <3>1 DEF Pending, Event, Startup, SetsPending
    <3>3. status' = "startPending" /\ scm' = "startPending" /\ said' = "current"
      BY <1>2, <1>a, <3>1, <3>2, SetStatusReports
    <3> QED
      BY <1>1, <2>1, <2>2, <2>3, <3>1, <3>2, <3>3 DEF Starting
  <2>4. CASE t = "dispatcher"
    <3>1. /\ Started /\ events = <<>> /\ True
          /\ c \in {"user", "stop", "pause", "continue", "shutdown"}
      BY <1>1, <2>1, <2>4 DEF IInv, LoopOK, Starting, Started, CodeOK
    <3>2. /\ c = "stop" => Pending(c) = "stopPending"
          /\ c = "pause" => Pending(c) = "pausePending"
          /\ c = "continue" => Pending(c) = "continuePending"
      BY DEF Pending, Startup
    <3>3. Known'
      <4>1. said # "stopped"
        BY <3>1, StartedIsLive
      <4>2. CASE c \in SetsPending
        BY <1>2, <1>a, <4>1, <4>2, SetStatusReports DEF Known
      <4>3. CASE c \notin SetsPending
        BY <1>2, <3>1, <4>3 DEF Started, Known
      <4> QED
        BY <4>2, <4>3
    <3>4. /\ Known' /\ StartupOver'
          /\ at'["dispatcher"] = "waits" /\ events' = <<Event(c)>> /\ told' = told
          /\ code'["dispatcher"] = c
      BY <1>1, <2>1, <2>2, <2>4, <3>1, <3>3 DEF Started, StartupOver
    <3>5. CASE c \in {"stop", "pause", "continue"}
      <4>1. status' = Pending(c)
        BY <1>2, <3>5 DEF SetsPending, setStatus
      <4> QED
        BY <3>2, <3>4, <3>5, <4>1 DEF Started, Event
    <3>6. CASE c \in {"user", "shutdown"}
      <4>1. status' = status
        BY <1>2, <3>6 DEF SetsPending, Startup
      <4> QED
        BY <3>1, <3>4, <3>6, <4>1 DEF Started, Event, True
    <3> QED
      BY <3>1, <3>5, <3>6
  <2> QED
    BY <2>3, <2>4
<1> QED
  BY <1>4, <1>5 DEF IInv

\* A thread that was woken sets the final state.
LEMMA AwakeKeeps ==
    ASSUME IInv, NEW t \in Caller, Awake(t)
    PROVE  IInv'
<1> USE DEF Caller
<1> DEFINE c == code[t]
<1>1. /\ at[t] = "woken" /\ at' = [at EXCEPT ![t] = "tests"]
      /\ UNCHANGED <<main, byScm, dispatcher, code, copy, semaphores, events, quit, told,
                     starts>>
  BY DEF Awake, Is, Goes
<1>2. IF c \in SetsFinal THEN setStatus(t, Final(c)) ELSE UNCHANGED <<status, scm, said>>
  BY DEF Awake
<1>3. main \notin {"gone", "waits"}
  BY <1>1 DEF IInv, GoneOK, WaitsOK
<1>a. c \in SetsFinal => Final(c) \in Live
  BY DEF SetsFinal, Final, Live, Startup
<1>b. status' \in Live \cup {"stopped"}
  BY <1>2, <1>a DEF setStatus, IInv, ThreadsOK
<1>4. ThreadsOK' /\ GoneOK' /\ WaitsOK' /\ CodeOK'
  <2>1. ThreadsOK'
    BY <1>1, <1>b DEF IInv, ThreadsOK, Place
  <2> QED
    BY <1>1, <1>3, <2>1 DEF IInv, ThreadsOK, GoneOK, WaitsOK, CodeOK
<1>5. LoopOK'
  <2> SUFFICES ASSUME main = "loop", ~ quit PROVE Started'
    BY <1>1 DEF IInv, LoopOK
  <2>1. at \in [Caller -> Place]
    BY DEF IInv, ThreadsOK
  <2>2. CASE t = "serviceMain"
    <3>1. /\ at["dispatcher"] = "out" /\ c = Startup /\ status = "startPending"
          /\ events = <<>> /\ told = "start" /\ said = "current"
      BY <1>1, <2>2 DEF IInv, LoopOK, Starting, Started, StartupOver
    <3>2. Final(c) = "running" /\ c \in SetsFinal
      BY <3>1 DEF Final, Startup, SetsFinal
    <3>3. status' = "running" /\ scm' = "running" /\ said' = "current"
      BY <1>2, <1>a, <3>1, <3>2, SetStatusReports
    <3>4. Known' /\ StartupOver' /\ at'["dispatcher"] = "out"
      BY <1>1, <2>1, <2>2, <3>1, <3>3 DEF Known, StartupOver
    <3> QED
      BY <1>1, <3>1, <3>3, <3>4 DEF Started, True
  <2>3. CASE t = "dispatcher"
    <3>1. Started /\ events = <<>>
          /\ CASE c = "pause" -> status = "pausePending" /\ told = "pause"
               [] c = "continue" -> status = "continuePending" /\ told = "resume"
               [] OTHER -> c = "user" /\ True
      BY <1>1, <2>3 DEF IInv, LoopOK, Starting, Started
    <3>2. /\ Final("pause") = "paused" /\ Final("continue") = "running"
          /\ "pause" \in SetsFinal /\ "continue" \in SetsFinal /\ "user" \notin SetsFinal
      BY DEF Final, Startup, SetsFinal
    <3>3. /\ StartupOver' /\ at'["dispatcher"] = "tests"
          /\ events' = <<>> /\ told' = told
      BY <1>1, <2>1, <2>3, <3>1 DEF Started, StartupOver
    <3>a. said # "stopped"
      BY <3>1, StartedIsLive
    <3>4. Known' /\ True'
      <4>1. CASE c = "pause"
        <5>1. status' = "paused" /\ scm' = "paused" /\ said' = "current"
          BY <1>2, <1>a, <3>2, <3>a, <4>1, SetStatusReports
        <5> QED
          BY <3>1, <3>3, <4>1, <5>1 DEF Known, True
      <4>2. CASE c = "continue"
        <5>1. status' = "running" /\ scm' = "running" /\ said' = "current"
          BY <1>2, <1>a, <3>2, <3>a, <4>2, SetStatusReports
        <5> QED
          BY <3>1, <3>3, <4>2, <5>1 DEF Known, True
      <4>3. CASE c \notin {"pause", "continue"}
        <5>1. UNCHANGED <<status, scm, said>> /\ True
          BY <1>2, <3>1, <3>2, <4>3
        <5> QED
          BY <3>1, <3>3, <5>1 DEF Started, Known, True
      <4> QED
        BY <4>1, <4>2, <4>3
    <3> QED
      BY <3>3, <3>4 DEF Started
  <2> QED
    BY <2>2, <2>3
<1> QED
  BY <1>4, <1>5 DEF IInv

\* A thread at the end of the handler tests the status and copies it.
LEMMA ReadKeeps ==
    ASSUME IInv, NEW t \in Caller, Interrogate(t) \/ TestStatus(t) \/ CopyStatus(t)
    PROVE  IInv'
<1> USE DEF Caller
<1>1. /\ at[t] \in {"enters", "tests", "copies"}
      /\ at[t] = "enters" => code[t] = "interrogate"
      /\ \E p \in {"out", "tests", "copies", "sends"} :
             /\ at' = [at EXCEPT ![t] = p]
             /\ IF p = "sends" THEN copy' = [copy EXCEPT ![t] = status] ELSE copy' = copy
      /\ UNCHANGED <<scm, status, said, main, byScm, dispatcher, code, events, quit, told,
                     created>>
  BY DEF Interrogate, TestStatus, CopyStatus, Is, Goes, reports, semaphores
<1>2. main \notin {"gone", "waits"}
  BY <1>1 DEF IInv, GoneOK, WaitsOK
<1>3. ThreadsOK'
  BY <1>1 DEF IInv, ThreadsOK, Place
<1>4. GoneOK' /\ WaitsOK'
  BY <1>1, <1>2 DEF GoneOK, WaitsOK
<1>5. CodeOK'
  BY <1>1 DEF IInv, ThreadsOK, CodeOK
<1>6. LoopOK'
  <2> SUFFICES ASSUME main = "loop", ~ quit PROVE dispatcher' = "serves" /\ Started'
    BY <1>1 DEF LoopOK
  <2>1. dispatcher = "serves" /\ Started
    BY <1>1 DEF IInv, LoopOK, Starting, Startup
  <2>2. Known' /\ (True => True')
    BY <1>1, <2>1 DEF Started, Known, True
  <2>3. CASE t = "serviceMain"
    <3>1. StartupOver' /\ at'["dispatcher"] = at["dispatcher"]
          /\ copy'["dispatcher"] = copy["dispatcher"]
      BY <1>1, <2>1, <2>3, StartedIsLive DEF IInv, ThreadsOK, Started, StartupOver
    <3> QED
      BY <1>1, <2>1, <2>2, <3>1 DEF Started
  <2>4. CASE t = "dispatcher"
    <3>1. at["dispatcher"] \in {"enters", "tests", "copies"}
      BY <1>1, <2>4
    <3>2. events = <<>> /\ True
      BY <2>1, <3>1 DEF Started
    <3>3. /\ StartupOver' /\ at'["dispatcher"] \in {"out", "tests", "copies", "sends"}
          /\ at'["dispatcher"] = "sends" => copy'["dispatcher"] = status
      BY <1>1, <2>1, <2>4 DEF IInv, ThreadsOK, Started, StartupOver
    <3> QED
      BY <1>1, <2>1, <2>2, <3>2, <3>3 DEF Started
  <2> QED
    BY <2>1, <2>3, <2>4
<1> QED
  BY <1>3, <1>4, <1>5, <1>6 DEF IInv

\* The SCM hears of the copy: for the dispatcher, of the status as it is.
LEMMA SendKeeps ==
    ASSUME IInv, NEW t \in Caller, SendStatus(t)
    PROVE  IInv'
<1> USE DEF Caller
<1>1. /\ at[t] = "sends" /\ at' = [at EXCEPT ![t] = "out"]
      /\ copy' = [copy EXCEPT ![t] = "none"]
      /\ UNCHANGED <<status, main, byScm, dispatcher, code, events, quit, told, created>>
  BY DEF SendStatus, Is, Goes, semaphores
<1>2. Report(t, copy[t])
  BY DEF SendStatus
<1>3. main \notin {"gone", "waits"}
  BY <1>1 DEF IInv, GoneOK, WaitsOK
<1>4. ThreadsOK'
  BY <1>1 DEF IInv, ThreadsOK, Place
<1>5. GoneOK' /\ WaitsOK'
  BY <1>1, <1>3 DEF GoneOK, WaitsOK
<1>6. CodeOK'
  BY <1>1 DEF IInv, ThreadsOK, CodeOK
<1>7. LoopOK'
  <2> SUFFICES ASSUME main = "loop", ~ quit PROVE dispatcher' = "serves" /\ Started'
    BY <1>1 DEF LoopOK
  <2>1. dispatcher = "serves" /\ Started
    BY <1>1 DEF IInv, LoopOK, Starting
  <2>2. said # "stopped" /\ status \in Live
    BY <2>1, StartedIsLive
  <2>3. copy[t] \in Live /\ (t = "dispatcher" => copy[t] = status)
    BY <1>1, <2>1, <2>2 DEF Started, StartupOver
  <2>4. /\ scm' = copy[t]
        /\ said' = IF copy[t] # status /\ t = "serviceMain" THEN "late" ELSE "current"
    BY <1>1, <1>2, <2>2, <2>3 DEF Report, Live
  <2>5. Known' /\ (True => True')
    BY <1>1, <2>3, <2>4 DEF Known, True
  <2>6. CASE t = "serviceMain"
    <3>1. StartupOver' /\ at'["dispatcher"] = at["dispatcher"]
          /\ copy'["dispatcher"] = copy["dispatcher"]
      BY <1>1, <2>6 DEF IInv, ThreadsOK, StartupOver
    <3> QED
      BY <1>1, <2>1, <2>5, <3>1 DEF Started
  <2>7. CASE t = "dispatcher"
    <3>1. events = <<>> /\ True
      BY <1>1, <2>1, <2>7 DEF Started
    <3>2. StartupOver' /\ at'["dispatcher"] = "out"
      BY <1>1, <2>1, <2>7 DEF IInv, ThreadsOK, Started, StartupOver
    <3> QED
      BY <1>1, <2>1, <2>5, <3>1, <3>2 DEF Started
  <2> QED
    BY <2>6, <2>7
<1> QED
  BY <1>4, <1>5, <1>6, <1>7 DEF IInv

\* The event of the thread that waits is the only one there is.
LEMMA EventKeeps ==
    ASSUME IInv, handleCustomEvent
    PROVE  IInv'
<1> USE DEF Caller
<1> DEFINE e == Head(events)
<1>1. /\ main = "loop" /\ events # <<>> /\ events' = Tail(events)
      /\ told' = Tells(e)
      /\ quit' \in BOOLEAN /\ (~ quit' => ~ quit /\ e # "stop")
      /\ at' = [t \in Caller |-> IF at[t] = "waits" THEN "woken" ELSE at[t]]
      /\ UNCHANGED <<scm, status, main, byScm, copy, said, dispatcher, code>>
  BY DEF handleCustomEvent, Woken, IInv, ThreadsOK, reports
<1>2. ThreadsOK' /\ CodeOK'
  <2>1. at' \in [Caller -> Place]
    BY <1>1 DEF IInv, ThreadsOK, Place
  <2> QED
    BY <1>1, <2>1 DEF IInv, ThreadsOK, CodeOK
<1>3. GoneOK' /\ WaitsOK'
  BY <1>1 DEF GoneOK, WaitsOK
<1>4. LoopOK'
  <2> SUFFICES ASSUME ~ quit' PROVE dispatcher = "serves" /\ (Starting \/ Started)'
    BY <1>1 DEF LoopOK
  <2>1. dispatcher = "serves" /\ (Starting \/ Started) /\ e # "stop"
    BY <1>1 DEF IInv, LoopOK
  <2>2. \A x : <<x>> # <<>> /\ Head(<<x>>) = x /\ Tail(<<x>>) = <<>>
    OBVIOUS
  <2>3. CASE Starting
    <3>1. /\ at["serviceMain"] = "waits" /\ code["serviceMain"] = Startup
          /\ events = <<Startup>> /\ status = "startPending"
          /\ scm = "startPending" /\ at["dispatcher"] = "out" /\ said = "current"
      BY <1>1, <2>3 DEF Starting
    <3>2. events' = <<>> /\ e = Startup
      BY <1>1, <2>2, <3>1
    <3>3. told' = "start"
      BY <1>1, <3>2 DEF Tells, Startup
    <3>4. at'["serviceMain"] = "woken" /\ at'["dispatcher"] = "out"
      BY <1>1, <3>1
    <3> QED
      BY <1>1, <2>1, <3>1, <3>2, <3>3, <3>4 DEF Starting
  <2>4. CASE Started
    <3> DEFINE c == code["dispatcher"]
    <3>1. /\ at["dispatcher"] = "waits" /\ events = <<Event(c)>>
          /\ Known /\ StartupOver
          /\ CASE c = "stop" -> status = "stopPending"
               [] c = "pause" -> status = "pausePending"
               [] c = "continue" -> status = "continuePending"
               [] OTHER -> c \in {"user", "shutdown"} /\ True
      BY <1>1, <2>4 DEF Started
    <3>2. events' = <<>> /\ e = Event(c)
      BY <1>1, <2>2, <3>1
    <3>3. c \notin {"stop", "shutdown"}
      BY <2>1, <3>2 DEF Event
    <3>4. /\ c = "pause" => told' = "pause"
          /\ c = "continue" => told' = "resume"
          /\ c = "user" => told' = told
      BY <1>1, <3>2 DEF Event, Tells, Startup
    <3>5. Known' /\ StartupOver' /\ at'["dispatcher"] = "woken"
      BY <1>1, <3>1 DEF Known, StartupOver
    <3>6. CASE c = "user"
      BY <1>1, <2>1, <3>1, <3>2, <3>4, <3>5, <3>6 DEF Started, True
    <3>7. CASE c \in {"pause", "continue"}
      BY <1>1, <2>1, <3>1, <3>2, <3>4, <3>5, <3>7 DEF Started
    <3> QED
      BY <2>1, <3>1, <3>3, <3>6, <3>7
  <2> QED
    BY <2>1, <2>3, <2>4
<1> QED
  BY <1>2, <1>3, <1>4 DEF IInv

--------------------------------------------------------------------------------
(* The invariant *)

LEMMA InitIInv == WinInit => IInv
<1> SUFFICES ASSUME WinInit PROVE IInv
  OBVIOUS
<1>1. ThreadsOK
  BY DEF WinInit, ThreadsOK, Place
<1>2. GoneOK /\ WaitsOK /\ LoopOK /\ CodeOK
  BY DEF WinInit, GoneOK, WaitsOK, LoopOK, CodeOK, Caller
<1> QED
  BY <1>1, <1>2 DEF IInv

LEMMA NextIInv == IInv /\ [WinNext]_winVars => IInv'
<1> SUFFICES ASSUME IInv, [WinNext]_winVars PROVE IInv'
  OBVIOUS
<1>1. CASE UNCHANGED winVars
  BY <1>1 DEF winVars, threads, reports, semaphores, IInv, ThreadsOK, GoneOK, WaitsOK, LoopOK,
              CodeOK, Starting, Started, Known, StartupOver, True
<1>2. CASE WinNext
  BY <1>2, OutsideKeeps, StartProcessKeeps, MainKeeps, DispatcherKeeps, ServiceMainKeeps,
     ControlKeeps, HandlerKeeps, AwakeKeeps, ReadKeeps, SendKeeps, EventKeeps
     DEF WinNext, MainThread, OtherThreads
<1> QED
  BY <1>1, <1>2

\* While it is starting, or pending, the service is reported as neither, unless late.
LEMMA IInvImpliesStatusIsTrue == IInv => StatusIsTrue
<1> SUFFICES ASSUME IInv, main = "loop", ~ quit
             PROVE  TrueOf(status) /\ (TrueOf(scm) \/ said = "late")
  BY DEF StatusIsTrue
<1>1. CASE Starting
  BY <1>1 DEF Starting, TrueOf
<1>2. CASE Started
  <2>1. TrueOf(status)
    BY <1>2 DEF Started, True, TrueOf
  <2> QED
    BY <1>2, <2>1 DEF Started, Known
<1> QED
  BY <1>1, <1>2 DEF IInv, LoopOK

\* Nobody is told that the service is running, or paused, unless start() or resume(),
\* or pause(), was the last call made of it (handler, setStatus, handleCustomEvent):
\* but by the report that serviceMain makes at the end of the startup, without the mutex.
THEOREM StatusesAreTrue == WinSpec => []StatusIsTrue
BY InitIInv, NextIInv, IInvImpliesStatusIsTrue, PTL DEF WinSpec

================================================================================
