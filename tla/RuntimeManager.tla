---------------------------- MODULE RuntimeManager ----------------------------
(***************************************************************************)
(* The runtimes of one session inside realtime: LifecycleService           *)
(* (session/service.go) and Manager (runtime/manager.go).  Start and Stop  *)
(* hold the session's lifecycle lock; the media loop, the report of its    *)
(* failure and the closing of its source run beside them, under contexts   *)
(* that are cancelled or time out.  A runtime and its source are named by  *)
(* the call that opened them.                                              *)
(***************************************************************************)
EXTENDS Naturals, Sequences

CONSTANTS
    StartOps,        \* operation ids a Start may carry
    MaxCalls,        \* calls of Start and Stop
    MaxMediaFaults   \* failing closes, timeouts and failing steps of a Start

ASSUME RuntimeManagerAssumption == MaxCalls \in Nat \ {0} /\ MaxMediaFaults \in Nat

Calls == 1 .. MaxCalls
Nobody == 0

VARIABLES
    runtime,      \* the lifecycle snapshot: state and operation
    holder,       \* who holds the lifecycle lock
    requests,     \* the calls: what they are, where, the close they wait for
    managed,      \* the runtime registered for the session
    items,        \* the flags of each runtime
    sources,      \* each audio source, its close attempts and last error
    workers,      \* the media loop of each runtime
    reports,      \* the report of its failure
    abandoned,    \* sources whose failing close nobody will repeat
    mediaFaults

managerVars == <<runtime, holder, requests, managed, items, sources, workers,
                 reports, abandoned, mediaFaults>>

ManagerInit ==
    /\ runtime = [state |-> "none", op |-> "none"]
    /\ holder = Nobody /\ managed = Nobody
    /\ requests = [c \in Calls |-> [at |-> "idle", kind |-> "none", op |-> "none",
                                 item |-> Nobody, attempt |-> 0, finished |-> FALSE]]
    /\ items = [c \in Calls |-> [op |-> "none", cancelled |-> FALSE, active |-> FALSE,
                                 stopping |-> FALSE, terminal |-> FALSE, finished |-> FALSE,
                                 failed |-> FALSE]]
    /\ sources = [c \in Calls |-> [open |-> FALSE, attempt |-> 0, tries |-> <<>>, err |-> FALSE]]
    /\ workers = [c \in Calls |-> [at |-> "none", attempt |-> 0, unreported |-> FALSE]]
    /\ reports = [c \in Calls |-> [at |-> "none", over |-> FALSE]]
    /\ abandoned = {}
    /\ mediaFaults = 0

MediaFault == mediaFaults < MaxMediaFaults /\ mediaFaults' = mediaFaults + 1
Faultless == UNCHANGED mediaFaults

Snapshot(state) == runtime' = [runtime EXCEPT !.state = state]
To(c, at) == requests' = [requests EXCEPT ![c].at = at]
Leave(c) == To(c, "done") /\ holder' = Nobody

----------------------------------------------------------------------------
(* closeOnceSource                                                          *)

\* The attempt a closer of the source waits for: the one under way or done, or
\* a new one after a failure.
Attempt(i) ==
    IF sources[i].attempt # 0 THEN sources[i].attempt ELSE Len(sources[i].tries) + 1

BeginClose(i) ==
    sources' = IF sources[i].attempt # 0 THEN sources
               ELSE [sources EXCEPT ![i].attempt = Attempt(i),
                                    ![i].tries = Append(@, "running")]

CloseResult(i, n) == sources[i].tries[n]

\* The close itself runs in a goroutine of its own.
CloseReturns(i) ==
    /\ sources[i].attempt # 0 /\ CloseResult(i, sources[i].attempt) = "running"
    /\ \/ /\ Faultless
          /\ sources' = [sources EXCEPT ![i].open = FALSE, ![i].err = FALSE,
                                        ![i].tries[sources[i].attempt] = "ok"]
       \/ /\ MediaFault
          /\ sources' = [sources EXCEPT ![i].attempt = 0, ![i].err = TRUE,
                                        ![i].tries[sources[i].attempt] = "err"]
    /\ UNCHANGED <<runtime, holder, requests, managed, items, workers, reports, abandoned>>

----------------------------------------------------------------------------
(* Start                                                                    *)

TakeStart(c) ==
    /\ requests[c].at = "idle" /\ holder = Nobody
    /\ \A d \in 1 .. c - 1 : requests[d].at # "idle"
    /\ \E op \in StartOps :
         requests' = [requests EXCEPT ![c].at = "start", ![c].kind = "start", ![c].op = op]
    /\ holder' = c
    /\ UNCHANGED <<runtime, managed, items, sources, workers, reports, abandoned, mediaFaults>>

PipelineActive == managed # Nobody /\ ~items[managed].finished

\* LifecycleService.Start answers with what runs, or refuses; else it builds.
AnswersStart(op) ==
    \/ runtime.state = "stop_failed"
    \/ /\ runtime.state \in {"starting", "listening", "stopping"}
       /\ runtime.op # op \/ runtime.state # "listening" \/ PipelineActive

BeginBuild(c) ==
    /\ requests[c].at = "start"
    /\ IF AnswersStart(requests[c].op)
       THEN Leave(c) /\ UNCHANGED runtime
       ELSE \/ /\ runtime' = [state |-> "starting", op |-> requests[c].op]
               /\ To(c, "build") /\ UNCHANGED holder
            \* The session is not created any more.
            \/ Leave(c) /\ UNCHANGED runtime
    /\ UNCHANGED <<managed, items, sources, workers, reports, abandoned, mediaFaults>>

StartFailed(c) == Snapshot("start_failed") /\ Leave(c)

\* Manager.Start with an entry: it runs already, stops, belongs to another
\* operation, or has ended, and is then waited for and its source closed.
MeetEntry(c) ==
    /\ requests[c].at = "build" /\ managed # Nobody
    /\ LET item == items[managed] IN
       \/ /\ item.stopping \/ (~item.terminal /\ item.op # requests[c].op)
          /\ StartFailed(c) /\ Faultless /\ UNCHANGED sources
       \/ /\ ~item.stopping /\ ~item.terminal /\ item.op = requests[c].op
          /\ To(c, "activate") /\ Faultless /\ UNCHANGED <<runtime, holder, sources>>
       \/ /\ ~item.stopping /\ item.terminal /\ item.finished
          /\ BeginClose(managed)
          /\ requests' = [requests EXCEPT ![c].at = "replace", ![c].item = managed,
                                    ![c].attempt = Attempt(managed)]
          /\ Faultless /\ UNCHANGED <<runtime, holder>>
       \/ /\ ~item.stopping /\ item.terminal /\ ~item.finished
          /\ StartFailed(c) /\ MediaFault /\ UNCHANGED sources
    /\ UNCHANGED <<managed, items, workers, reports, abandoned>>

ReplaceEntry(c) ==
    /\ requests[c].at = "replace"
    /\ LET result == CloseResult(requests[c].item, requests[c].attempt) IN
       \/ /\ result = "ok" /\ Faultless
          /\ managed' = Nobody /\ To(c, "build") /\ UNCHANGED <<runtime, holder>>
       \/ /\ result = "err" /\ Faultless
          /\ StartFailed(c) /\ UNCHANGED managed
       \/ /\ result = "running" /\ MediaFault
          /\ StartFailed(c) /\ UNCHANGED managed
    /\ UNCHANGED <<items, sources, workers, reports, abandoned>>

\* The source is opened; the runtime is registered, or a later step fails and
\* the source is closed again.
OpenSource(c) ==
    /\ requests[c].at = "build" /\ managed = Nobody
    /\ \/ /\ Faultless
          /\ managed' = c
          /\ items' = [items EXCEPT ![c].op = requests[c].op]
          /\ sources' = [sources EXCEPT ![c].open = TRUE]
          /\ To(c, "activate")
       \/ /\ MediaFault
          /\ sources' = [sources EXCEPT ![c] =
                           [open |-> TRUE, attempt |-> 1, tries |-> <<"running">>, err |-> FALSE]]
          /\ requests' = [requests EXCEPT ![c].at = "unopen", ![c].attempt = 1]
          /\ UNCHANGED <<managed, items>>
    /\ UNCHANGED <<runtime, holder, workers, reports, abandoned>>

\* closeContext returns; a close that fails now has nobody to repeat it.
Unopen(c) ==
    /\ requests[c].at = "unopen"
    /\ \/ CloseResult(c, 1) # "running" /\ Faultless
       \/ CloseResult(c, 1) = "running" /\ MediaFault
    /\ abandoned' = IF CloseResult(c, 1) = "ok" THEN abandoned ELSE abandoned \cup {c}
    /\ StartFailed(c)
    /\ UNCHANGED <<managed, items, sources, workers, reports>>

\* The snapshot is saved as listening and the media loop begins, or one of the
\* two fails and the pipeline is stopped again.
ActivateEntry(c) ==
    /\ requests[c].at = "activate"
    /\ \/ /\ Faultless /\ ~items[managed].stopping
          /\ Snapshot("listening") /\ Leave(c)
          /\ items' = [items EXCEPT ![managed].active = TRUE]
          /\ workers' = IF items[managed].active THEN workers
                        ELSE [workers EXCEPT ![managed].at = "running"]
       \/ /\ MediaFault /\ To(c, "stop") /\ UNCHANGED <<runtime, holder, items, workers>>
    /\ UNCHANGED <<managed, sources, reports, abandoned>>

----------------------------------------------------------------------------
(* Stop                                                                     *)

TakeStop(c) ==
    /\ requests[c].at = "idle" /\ holder = Nobody
    /\ \A d \in 1 .. c - 1 : requests[d].at # "idle"
    /\ IF runtime.state \in {"none", "stopped"}
       THEN To(c, "done") /\ UNCHANGED <<runtime, holder>>
       ELSE /\ requests' = [requests EXCEPT ![c].at = "stop", ![c].kind = "stop"]
            /\ Snapshot("stopping") /\ holder' = c
    /\ UNCHANGED <<managed, items, sources, workers, reports, abandoned, mediaFaults>>

\* What the call does once the pipeline is stopped, or could not be stopped: a
\* Stop closes the connection too, a Start has failed in any case.
Conclude(c, ok) ==
    IF requests[c].kind = "start" THEN StartFailed(c) /\ Faultless
    ELSE \/ ok /\ Snapshot("stopped") /\ Leave(c) /\ Faultless
         \/ ok /\ Snapshot("stop_failed") /\ Leave(c) /\ MediaFault
         \/ ~ok /\ Snapshot("stop_failed") /\ Leave(c) /\ Faultless

CancelEntry(c) ==
    /\ requests[c].at = "stop" /\ managed # Nobody
    /\ items' = [items EXCEPT ![managed].stopping = TRUE, ![managed].cancelled = TRUE]
    /\ BeginClose(managed)
    /\ requests' = [requests EXCEPT ![c].at = IF items[managed].active /\ ~items[managed].finished
                                          THEN "await" ELSE "close",
                              ![c].item = managed, ![c].attempt = Attempt(managed),
                              ![c].finished = items[managed].finished]
    /\ UNCHANGED <<runtime, holder, managed, workers, reports, abandoned, mediaFaults>>

StopWithout(c) ==
    /\ requests[c].at = "stop" /\ managed = Nobody
    /\ Conclude(c, TRUE)
    /\ UNCHANGED <<managed, items, sources, workers, reports, abandoned>>

Outcome(c) == CloseResult(requests[c].item, requests[c].attempt)

\* Without a media loop the Stop itself settles the runtime.
CloseEntry(c) ==
    /\ requests[c].at = "close" /\ Outcome(c) # "running"
    /\ LET i == requests[c].item IN
       items' = IF items[i].finished THEN items
                ELSE [items EXCEPT ![i].finished = TRUE, ![i].failed = (Outcome(c) = "err")]
    /\ To(c, "await")
    /\ UNCHANGED <<runtime, holder, managed, sources, workers, reports, abandoned, mediaFaults>>

\* Bug: the runtime goes although its source could not be closed.
Removable_Anyway(c) == TRUE

\* The entry goes unless this close failed.  A Stop that repeats a close the
\* loop failed at does not wait for it, and finds no error yet.
Removable(c) == Outcome(c) # "err"

RemoveEntry(c) ==
    /\ requests[c].at = "await" /\ items[requests[c].item].finished
    /\ LET i == requests[c].item IN
       /\ managed' = IF Removable(c) /\ managed = i THEN Nobody ELSE managed
       /\ abandoned' = IF Outcome(c) = "running" THEN abandoned \cup {i} ELSE abandoned
       /\ Conclude(c, Outcome(c) # "err" /\ (requests[c].finished \/ ~items[i].failed))
    /\ UNCHANGED <<items, sources, workers, reports>>

\* The cleanup context expires; the close and the loop go on.
StopTimesOut(c) ==
    /\ \/ requests[c].at = "close" /\ Outcome(c) = "running"
       \/ requests[c].at = "await" /\ ~items[requests[c].item].finished
    /\ MediaFault
    /\ Snapshot(IF requests[c].kind = "start" THEN "start_failed" ELSE "stop_failed") /\ Leave(c)
    /\ UNCHANGED <<managed, items, sources, workers, reports, abandoned>>

----------------------------------------------------------------------------
(* The media loop and the report of its failure                             *)

\* The loop ends because the media end, fail, or are cancelled; it closes its
\* source and waits for that close.
LoopEnds(i) ==
    /\ workers[i].at = "running"
    /\ workers' = [workers EXCEPT ![i].at = "closing", ![i].attempt = Attempt(i)]
    /\ BeginClose(i)
    /\ UNCHANGED <<runtime, holder, requests, managed, items, reports, abandoned, mediaFaults>>

\* Its finals are settled; an end nobody asked for is a failure to report.
LoopSettles(i) ==
    /\ workers[i].at = "closing" /\ CloseResult(i, workers[i].attempt) # "running"
    /\ IF items[i].cancelled
       THEN /\ workers' = [workers EXCEPT ![i].at = "ending"]
            /\ UNCHANGED <<items, reports>>
       ELSE /\ workers' = [workers EXCEPT ![i].at = "reporting"]
            /\ items' = [items EXCEPT ![i].terminal = TRUE]
            /\ reports' = [reports EXCEPT ![i].at = "waiting"]
    /\ UNCHANGED <<runtime, holder, requests, managed, sources, abandoned, mediaFaults>>

ReportCancelled(i) == items[i].cancelled \/ reports[i].over

\* Bug: the report is written whatever became of its context.
ReportLocks_WithoutContext(i) ==
    /\ reports[i].at = "waiting" /\ holder = Nobody
    /\ IF runtime.state # "listening"
       THEN reports' = [reports EXCEPT ![i].at = "ok"] /\ UNCHANGED runtime
       ELSE reports' = [reports EXCEPT ![i].at = "ok"] /\ Snapshot("pipeline_failed")
    /\ UNCHANGED <<holder, requests, managed, items, sources, workers, abandoned, mediaFaults>>

\* SetRuntimeFailed under the lifecycle lock; the repository refuses to read or
\* to write for a cancelled context.
ReportLocks(i) ==
    /\ reports[i].at = "waiting" /\ holder = Nobody
    /\ IF ReportCancelled(i) \/ runtime.state # "listening"
       THEN /\ reports' = [reports EXCEPT ![i].at = IF ReportCancelled(i) THEN "err" ELSE "ok"]
            /\ UNCHANGED holder
       ELSE /\ reports' = [reports EXCEPT ![i].at = "read"]
            /\ holder' = MaxCalls + i
    /\ UNCHANGED <<runtime, requests, managed, items, sources, workers, abandoned, mediaFaults>>

ReportSaves(i) ==
    /\ reports[i].at = "read"
    /\ IF ReportCancelled(i)
       THEN reports' = [reports EXCEPT ![i].at = "err"] /\ UNCHANGED runtime
       ELSE reports' = [reports EXCEPT ![i].at = "ok"] /\ Snapshot("pipeline_failed")
    /\ holder' = Nobody
    /\ UNCHANGED <<requests, managed, items, sources, workers, abandoned, mediaFaults>>

\* The loop takes the report's result, or its context is done: a Stop cancelled
\* it, or five seconds have passed.
Reported(i) ==
    /\ workers[i].at = "reporting"
    /\ \/ /\ reports[i].at \in {"ok", "err"} /\ Faultless
          /\ workers' = [workers EXCEPT ![i].at = "ending", ![i].unreported = (reports[i].at = "err")]
       \/ /\ (items[i].cancelled /\ Faultless) \/ MediaFault
          /\ workers' = [workers EXCEPT ![i].at = "ending", ![i].unreported = TRUE]
    /\ reports' = [reports EXCEPT ![i].over = TRUE]
    /\ UNCHANGED <<runtime, holder, requests, managed, items, sources, abandoned>>

\* A reported failure removes its own entry; otherwise the entry is retained.
LoopDone(i) ==
    /\ workers[i].at = "ending"
    /\ workers' = [workers EXCEPT ![i].at = "done"]
    /\ items' = [items EXCEPT ![i].finished = TRUE,
                                ![i].failed = ~items[i].cancelled \/ sources[i].err]
    /\ managed' = IF /\ items[i].terminal /\ ~workers[i].unreported
                   /\ ~items[i].cancelled /\ ~sources[i].err /\ managed = i
                THEN Nobody ELSE managed
    /\ UNCHANGED <<runtime, holder, requests, sources, reports, abandoned, mediaFaults>>

----------------------------------------------------------------------------
ManagerNext ==
    \E c \in Calls :
        \/ TakeStart(c) \/ BeginBuild(c) \/ MeetEntry(c) \/ ReplaceEntry(c)
        \/ OpenSource(c) \/ Unopen(c) \/ ActivateEntry(c)
        \/ TakeStop(c) \/ StopWithout(c) \/ CancelEntry(c) \/ CloseEntry(c)
        \/ RemoveEntry(c) \/ StopTimesOut(c)
        \/ CloseReturns(c) \/ LoopEnds(c) \/ LoopSettles(c)
        \/ ReportLocks(c) \/ ReportSaves(c) \/ Reported(c) \/ LoopDone(c)

ManagerSpec == ManagerInit /\ [][ManagerNext]_managerVars

----------------------------------------------------------------------------
(* Properties                                                               *)

\* A source that is open, and a media loop that has not closed its source, is
\* that of the registered runtime, so that a Stop can reach it and no Start
\* opens a second one beside it; a session reported as stopped has neither.
\* Closes fail, are shared by several callers and retried, Stop gives up
\* waiting, and a loop removes its own entry (Manager.Stop,
\* runtime/manager.go:797-873; closeOnceSource, 893-949).
MediaAccounted ==
    \A i \in Calls :
        (sources[i].open /\ i \notin abandoned) \/ workers[i].at \in {"running", "closing"} =>
            /\ managed = i \/ requests[i].at = "unopen"
            /\ runtime.state # "stopped"

\* A failure that is reported is that of the registered runtime, however late
\* the report gets the lifecycle lock (reportFailure, runtime/manager.go:679).
ReportsOwn ==
    [][runtime'.state = "pipeline_failed" /\ runtime.state # "pipeline_failed" =>
        managed # Nobody /\ items[managed].terminal]_managerVars
=============================================================================
