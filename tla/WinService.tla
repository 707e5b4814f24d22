------------------------------- MODULE WinService -------------------------------
(***************************************************************************)
(* qtservice on Windows: the process of a service, three threads of which  *)
(* work together to obey the service control manager (SCM):                *)
(*   - the main thread, in QtServiceBasePrivate::start(), runs the event   *)
(*     loop in which start(), stop(), pause() ... are called;              *)
(*   - HandlerThread is blocked in StartServiceCtrlDispatcher, which calls *)
(*     handler() for every control;                                        *)
(*   - a thread of Windows' calls serviceMain(), which brings the arguments*)
(*     and calls handler() for the startup.                                *)
(* handler() posts an event to the main thread and waits for a condition.  *)
(* What it does under the mutex is a single step.  The mutex is free when  *)
(* it reports the status once more at its end, in three steps: it tests    *)
(* the status, pSetServiceStatus copies it, and the SCM hears of it.  The  *)
(* main thread's last setStatus is not under the mutex either.             *)
(*                                                                         *)
(* The SCM is external: it calls the handler for one control at a time, and*)
(* not while it believes the service to be starting, stopping or stopped;  *)
(* it is through with a process that has reported that it is stopped, or   *)
(* is gone.                                                                *)
(***************************************************************************)
EXTENDS Integers, Sequences

CONSTANTS
    winFlags,           \* the service flags
    MaxStarts           \* bound of the processes started

ASSUME WinServiceAssumption ==
    /\ winFlags \subseteq {"CannotBeStopped", "CanBeSuspended", "NeedsStopOnShutdown"}
    /\ MaxStarts \in Nat

VARIABLES
    scm,        \* the state of the service for the SCM; "none": not installed
    status,     \* status.dwCurrentState
    main,       \* where the main thread is; "gone": there is no process
    byScm,      \* did the SCM start the process?
    dispatcher, \* the HandlerThread
    args,       \* startSemaphore
    created,    \* startSemaphore2
    at,         \* where each thread is in handler()
    code,       \* ... with which code
    copy,       \* the status it is about to report
    said,       \* what the last report of the process was: see Report
    events,     \* posted to controllerHandler
    quit,       \* quit() has been called
    told,       \* the last of start, stop, pause, resume
    starts

threads == <<dispatcher, at, code>>
reports == <<copy, said>>
semaphores == <<args, created>>
winVars == <<scm, status, main, byScm, threads, reports, semaphores, events, quit, told,
             starts>>

Startup == "startup"
Caller == {"dispatcher", "serviceMain"}

(* serviceFlags(): the controls that the SCM passes on.                    *)
Accepted ==
    {"interrogate", "user"}
    \cup (IF "CannotBeStopped" \in winFlags THEN {} ELSE {"stop"})
    \cup (IF "CanBeSuspended" \in winFlags THEN {"pause", "continue"} ELSE {})
    \cup (IF "NeedsStopOnShutdown" \in winFlags THEN {"shutdown"} ELSE {})

(* pSetServiceStatus.  The report is the last one there is; or it is late: *)
(* the startup's, of a status that has changed since; or it is current.    *)
Report(t, s) ==
    IF said = "stopped"
    THEN UNCHANGED <<scm, said>>
    ELSE /\ scm' = s
         /\ said' = IF s = "stopped" THEN "stopped"
                    ELSE IF s # status' /\ t = "serviceMain" THEN "late"
                    ELSE "current"

setStatus(t, s) == status' = s /\ Report(t, s)

Enters(t, c) == /\ at' = [at EXCEPT ![t] = "enters"]
                /\ code' = [code EXCEPT ![t] = c]
Is(t, where) == at[t] = where
Goes(t, where) == at' = [at EXCEPT ![t] = where]

NoProcess ==
    /\ main' = "gone" /\ byScm' = FALSE
    /\ dispatcher' = "none"
    /\ at' = [t \in Caller |-> "out"] /\ code' = [t \in Caller |-> "none"]
    /\ copy' = [t \in Caller |-> "none"] /\ said' = "current"
    /\ args' = 0 /\ created' = 0
    /\ events' = <<>>
    /\ quit' = FALSE /\ told' = "none"
    /\ status' = "stopped"

(* Threads and objects of a process go with it.                            *)
Exit(state) == NoProcess /\ scm' = state

StoppedOr(s) == IF byScm /\ s # "none" THEN "stopped" ELSE s

(***************************************************************************)
(* Controllers, and whoever starts the program.                            *)
(***************************************************************************)
InstallService ==
    /\ scm = "none"
    /\ scm' = "stopped"
    /\ UNCHANGED <<status, main, byScm, reports, threads, semaphores, events, quit,
                   told, starts>>

(* A service that runs is deleted once it has stopped.                     *)
UninstallService ==
    /\ scm = "stopped" /\ main = "gone"
    /\ scm' = "none"
    /\ UNCHANGED <<status, main, byScm, reports, threads, semaphores, events, quit,
                   told, starts>>

ControllerStarts ==
    /\ scm = "stopped"
    /\ scm' = "startPending"
    /\ UNCHANGED <<status, main, byScm, reports, threads, semaphores, events, quit,
                   told, starts>>

(* A process starts, from a console or by the SCM: sysInit() and the start *)
(* of the HandlerThread.                                                   *)
StartProcess ==
    /\ main = "gone"
    /\ \/ starts < MaxStarts /\ byScm' = FALSE /\ starts' = starts + 1
       \/ scm = "startPending" /\ byScm' = TRUE /\ UNCHANGED starts
    /\ main' = "waits"
    /\ status' = "stopped"
    /\ dispatcher' = "begins"
    /\ UNCHANGED <<scm, at, code, reports, semaphores, events, quit, told>>

(***************************************************************************)
(* HandlerThread and serviceMain.                                          *)
(***************************************************************************)
DispatcherConnects ==
    /\ dispatcher = "begins" /\ byScm
    /\ dispatcher' = "serves"
    /\ Goes("serviceMain", "begins")
    /\ UNCHANGED <<scm, status, main, byScm, reports, code, semaphores, events, quit,
                   told, starts>>

(* From a console, or by another error.                                    *)
DispatcherFails ==
    /\ dispatcher = "begins"
    /\ dispatcher' \in IF byScm THEN {"failed"} ELSE {"console"}
    /\ args' = args + 1
    /\ UNCHANGED <<scm, status, main, byScm, reports, at, code, created, events, quit,
                   told, starts>>

serviceMain ==
    /\ Is("serviceMain", "begins")
    /\ args' = args + 1
    /\ Goes("serviceMain", "acquires")
    /\ UNCHANGED <<scm, status, main, byScm, reports, dispatcher, code, created,
                   events, quit, told, starts>>

RegisterHandler ==
    /\ Is("serviceMain", "acquires") /\ created > 0
    /\ created' = created - 1
    /\ Enters("serviceMain", Startup)
    /\ UNCHANGED <<scm, status, main, byScm, reports, dispatcher, args, events, quit,
                   told, starts>>

(* A controller's stop(), pause(), resume() or sendCommand(), or the system*)
Control ==
    /\ dispatcher = "serves" /\ Is("dispatcher", "out")
    /\ scm \in {"running", "paused", "pausePending", "continuePending"}
    /\ \E c \in Accepted : Enters("dispatcher", c)
    /\ UNCHANGED <<scm, status, main, byScm, reports, dispatcher, semaphores, events,
                   quit, told, starts>>

DispatcherReturns ==
    /\ dispatcher = "serves" /\ Is("dispatcher", "out")
    /\ said = "stopped"
    /\ dispatcher' = "finished"
    /\ UNCHANGED <<scm, status, main, byScm, reports, at, code, semaphores, events,
                   quit, told, starts>>

(***************************************************************************)
(* handler().                                                              *)
(***************************************************************************)
(* faulty variant: nothing is pending while the service starts or resumes  *)
PendingNothing(c) ==
    CASE c \in {Startup, "continue"} -> "running"
      [] c = "stop" -> "stopPending"
      [] c = "pause" -> "pausePending"

Pending(c) ==
    CASE c = Startup -> "startPending"
      [] c = "stop" -> "stopPending"
      [] c = "pause" -> "pausePending"
      [] c = "continue" -> "continuePending"

Final(c) ==
    CASE c \in {Startup, "continue"} -> "running"
      [] c = "pause" -> "paused"

Event(c) == IF c = "shutdown" THEN "stop" ELSE c

SetsPending == {Startup, "stop", "pause", "continue"}
SetsFinal   == {Startup, "pause", "continue"}

handler(t) ==
    /\ Is(t, "enters") /\ code[t] # "interrogate"
    /\ IF code[t] \in SetsPending THEN setStatus(t, Pending(code[t]))
                                 ELSE UNCHANGED <<status, scm, said>>
    /\ events' = Append(events, Event(code[t]))
    /\ Goes(t, "waits")
    /\ UNCHANGED <<main, byScm, dispatcher, code, copy, semaphores, quit, told, starts>>

Interrogate(t) ==
    /\ Is(t, "enters") /\ code[t] = "interrogate"
    /\ Goes(t, "tests")
    /\ UNCHANGED <<scm, status, main, byScm, reports, dispatcher, code, semaphores,
                   events, quit, told, starts>>

Awake(t) ==
    /\ Is(t, "woken")
    /\ IF code[t] \in SetsFinal THEN setStatus(t, Final(code[t]))
                               ELSE UNCHANGED <<status, scm, said>>
    /\ Goes(t, "tests")
    /\ UNCHANGED <<main, byScm, dispatcher, code, copy, semaphores, events, quit, told,
                   starts>>

(* The mutex is unlocked: the other threads go on between these steps.     *)
TestStatus(t) ==
    /\ Is(t, "tests")
    /\ Goes(t, IF status = "stopped" THEN "out" ELSE "copies")
    /\ UNCHANGED <<scm, status, main, byScm, reports, dispatcher, code, semaphores,
                   events, quit, told, starts>>

CopyStatus(t) ==
    /\ Is(t, "copies")
    /\ copy' = [copy EXCEPT ![t] = status]
    /\ Goes(t, "sends")
    /\ UNCHANGED <<scm, status, main, byScm, said, dispatcher, code, semaphores,
                   events, quit, told, starts>>

SendStatus(t) ==
    /\ Is(t, "sends")
    /\ UNCHANGED <<status, main, byScm, dispatcher, code, semaphores, events, quit,
                   told, starts>>
    /\ Report(t, copy[t])
    /\ copy' = [copy EXCEPT ![t] = "none"]
    /\ Goes(t, "out")

(***************************************************************************)
(* The main thread.                                                        *)
(***************************************************************************)
(* A process that the SCM did not start asks it to start another one.      *)
StartReturns ==
    /\ main = "waits" /\ args > 0
    /\ dispatcher \in {"console", "failed"}
    /\ Exit(IF dispatcher = "console" /\ scm = "stopped" THEN "startPending"
            ELSE StoppedOr(scm))
    /\ UNCHANGED starts

(* The 20 s of tryAcquire.                                                 *)
StartGivesUp ==
    /\ main = "waits" /\ args = 0
    /\ Exit(StoppedOr(scm))
    /\ UNCHANGED starts

createApplication ==
    /\ main = "waits" /\ args > 0 /\ dispatcher = "serves"
    /\ \/ /\ main' = "loop"
          /\ args' = args - 1 /\ created' = created + 1
          /\ UNCHANGED <<scm, status, byScm, threads, reports, events, quit, told>>
       \/ Exit(StoppedOr(scm))
    /\ UNCHANGED starts

Tells(e) ==
    CASE e = Startup -> "start"
      [] e = "continue" -> "resume"
      [] e \in {"stop", "pause"} -> e
      [] OTHER -> told

(* faulty variant: only the dispatcher is woken                            *)
WokenDispatcher == [at EXCEPT !["dispatcher"] = IF @ = "waits" THEN "woken" ELSE @]

(* condition.wakeAll().                                                    *)
Woken == [t \in Caller |-> IF at[t] = "waits" THEN "woken" ELSE at[t]]

(* handleCustomEvent; an implementation of start() may call quit().        *)
handleCustomEvent ==
    /\ main = "loop" /\ events # <<>>
    /\ events' = Tail(events)
    /\ told' = Tells(Head(events))
    /\ \/ quit' = (quit \/ Head(events) = "stop")
       \/ quit' = TRUE /\ Head(events) = Startup
    /\ at' = Woken
    /\ UNCHANGED <<scm, status, main, byScm, reports, dispatcher, code, semaphores,
                   starts>>

(* The service stops by itself.                                            *)
Quits ==
    /\ main = "loop" /\ ~ quit /\ told # "none"
    /\ quit' = TRUE
    /\ UNCHANGED <<scm, status, main, byScm, reports, threads, semaphores, events,
                   told, starts>>

(* setStatus(SERVICE_STOPPED), not under the mutex.                        *)
LoopReturns ==
    /\ main = "loop" /\ quit
    /\ main' = "returned"
    /\ status' = "stopped"
    /\ UNCHANGED <<scm, byScm, threads, reports, semaphores, events, quit, told,
                   starts>>

ReportStopped ==
    /\ main = "returned"
    /\ main' = "stopped"
    /\ UNCHANGED <<status, byScm, threads, copy, semaphores, events, quit, told,
                   starts>>
    /\ Report("main", status)

(* It waits for the HandlerThread, a second at most, and cleans up.        *)
Cleanup ==
    /\ main = "stopped"
    /\ Exit(IF said = "stopped" THEN scm ELSE StoppedOr(scm))
    /\ UNCHANGED starts

WinInit ==
    /\ scm = "none"
    /\ status = "stopped"
    /\ main = "gone" /\ byScm = FALSE
    /\ dispatcher = "none"
    /\ args = 0 /\ created = 0
    /\ at = [t \in Caller |-> "out"]
    /\ code = [t \in Caller |-> "none"]
    /\ copy = [t \in Caller |-> "none"] /\ said = "current"
    /\ events = <<>>
    /\ quit = FALSE /\ told = "none"
    /\ starts = 0

MainThread ==
    \/ StartReturns \/ createApplication \/ handleCustomEvent
    \/ LoopReturns \/ ReportStopped \/ Cleanup

OtherThreads ==
    \/ DispatcherConnects \/ DispatcherFails \/ DispatcherReturns
    \/ serviceMain \/ RegisterHandler
    \/ \E t \in Caller : \/ handler(t) \/ Interrogate(t) \/ Awake(t)
                        \/ TestStatus(t) \/ CopyStatus(t) \/ SendStatus(t)

WinNext ==
    \/ InstallService \/ UninstallService \/ ControllerStarts \/ StartProcess
    \/ MainThread \/ StartGivesUp \/ Quits
    \/ OtherThreads \/ Control

WinSpec == WinInit /\ [][WinNext]_winVars

(* Threads run, and the SCM starts the process it promised.                *)
WinFairness ==
    /\ WF_winVars(scm = "startPending" /\ StartProcess) /\ WF_winVars(MainThread)
    /\ WF_winVars(DispatcherConnects \/ DispatcherFails)
    /\ WF_winVars(serviceMain) /\ WF_winVars(RegisterHandler)
    /\ \A t \in Caller : WF_winVars(handler(t) \/ Interrogate(t))
                         /\ WF_winVars(Awake(t))
                         /\ WF_winVars(TestStatus(t) \/ CopyStatus(t) \/ SendStatus(t))

--------------------------------------------------------------------------------

(* What the SCM is told, from three threads, is what the service has been  *)
(* made to do: it is not reported as running before start() or resume() has*)
(* returned, nor as paused before pause() has, nor after the next of them  *)
(* was called (handler, setStatus, handleCustomEvent), unless it quits.    *)
(* One report alone may break this (qtservice_win.cpp:654): the startup's  *)
(* last one, which a control overtakes.  status itself is always true.     *)
TrueOf(s) ==
    /\ s = "running" => told \in {"start", "resume"}
    /\ s = "paused" => told = "pause"

StatusIsTrue ==
    main = "loop" /\ ~ quit => TrueOf(status) /\ (TrueOf(scm) \/ said = "late")

(* A service does not stay pending: the semaphores of the start do not wait*)
(* for each other, every event is handled and wakes the thread that posted *)
(* it, and a service that is asked to stop stops.  Only the late report of *)
(* the startup may leave the SCM with a pending state that is over.        *)
PendingEnds ==
    \A s \in {"startPending", "stopPending", "pausePending", "continuePending"} :
        scm = s ~> scm # s \/ said = "late"

================================================================================
