----------------------------- MODULE ModeSwitch -----------------------------
(***************************************************************************)
(* The business mode of one session inside realtime-audio: the             *)
(* modeCoordinator of each runtime instance, Manager.SwitchMode in front   *)
(* of it, the durable outbox it publishes to, and the gate through which   *)
(* turns commit.                                                           *)
(*                                                                         *)
(* A coordinator holds its mutex while it publishes, so a switch is one    *)
(* step.  Manager.SwitchMode and the turn gate find their coordinator      *)
(* under the session lock and use it after releasing the lock: calls and   *)
(* turns carry the instance they found, which may be replaced meanwhile.   *)
(***************************************************************************)
EXTENDS Integers, Sequences, SequencesExt

CONSTANTS
    Ops,           \* mode operations; an operation id names one command for good
    Turns,         \* turns whose result is committed through the gate
    Absent,        \* "nothing"; no operation
    InitialMode,   \* mode a runtime starts in
    Window,        \* results a coordinator remembers (256 in the code)
    MaxInstances,  \* bound: runtimes started for the session
    MaxClock,      \* bound: transitions and unchanged switches executed
    MaxModeFaults  \* bound: failing dependencies, lost calls, crashes

Modes == {"assistant", "interpretation"}
ModeRuntimes == 1 .. MaxInstances

States == [inst : ModeRuntimes, mode : Modes, gen : 1 .. MaxClock + 1, at : 0 .. MaxClock]
Commands == [op : Ops, inst : ModeRuntimes, gen : 1 .. MaxClock + 1, target : Modes]
Results == [status : {"applied", "unchanged"}, state : States]
Transitions == [cmd : Commands, from : Modes, state : States]
Records == [cmd : Commands, result : Results]

ASSUME ModeAssumption ==
    /\ Absent \notin Ops
    /\ Absent \notin ModeRuntimes \cup States \cup Transitions \cup Results
    /\ InitialMode \in Modes
    /\ Window \in Nat \ {0}
    /\ MaxInstances \in Nat \ {0} /\ MaxClock \in Nat /\ MaxModeFaults \in Nat

VARIABLES
    inst,       \* runtime started last; instance ids are never used again
    entry,      \* Manager.entries[session]: "none", "running" or "stopping"
    coord,      \* the coordinator of each instance
    stream,     \* entries of the mode stream, in the order of their acceptance
    clock,      \* time of the last transition or unchanged switch
    modeCalls,  \* SwitchMode calls in flight, with the coordinator they found
    answer,     \* answer on its way to the caller of an operation
    turn,       \* where each turn is, and the mode it opened under
    modeFaults  \* faults so far

modeVars == <<inst, entry, coord, stream, clock, modeCalls, answer, turn, modeFaults>>

Conflict == [status |-> "conflict"]   \* generation or instance of the command is outdated
Failure == [status |-> "failed"]      \* any other error, or no answer at all

ModeTypeOK ==
    /\ inst \in ModeRuntimes
    /\ entry \in {"none", "running", "stopping"}
    /\ \A i \in ModeRuntimes :
        /\ coord[i].state \in States
        /\ coord[i].pending \in Transitions \cup {Absent}
        /\ coord[i].window \in BoundedSeq(Records, Window)
    /\ stream \in Seq(Transitions)
    /\ clock \in 0 .. MaxClock
    /\ modeCalls \subseteq [cmd : Commands, found : ModeRuntimes \cup {Absent}]
    /\ answer \in [Ops -> Results \cup {Conflict, Failure, Absent}]
    /\ turn \in [Turns -> [at : {"new", "open", "gated", "committed", "dropped"},
                           state : States \cup {Absent}]]
    /\ modeFaults \in 0 .. MaxModeFaults

NewCoordinator(i, at) ==
    [state |-> [inst |-> i, mode |-> InitialMode, gen |-> 1, at |-> at],
     pending |-> Absent, window |-> <<>>]

\* The session's first runtime runs.
ModeInit ==
    /\ inst = 1 /\ entry = "running"
    /\ coord = [i \in ModeRuntimes |-> NewCoordinator(i, 0)]
    /\ stream = <<>> /\ clock = 0
    /\ modeCalls = {} /\ answer = [o \in Ops |-> Absent]
    /\ turn = [t \in Turns |-> [at |-> "new", state |-> Absent]]
    /\ modeFaults = 0

Faulty == modeFaults < MaxModeFaults /\ modeFaults' = modeFaults + 1
Now == clock + 1

-----------------------------------------------------------------------------
\* The runtime of the session.

StartRuntime ==
    /\ entry = "none" /\ inst < MaxInstances /\ clock < MaxClock
    /\ inst' = inst + 1 /\ entry' = "running" /\ clock' = Now
    /\ coord' = [coord EXCEPT ![inst + 1] = NewCoordinator(inst + 1, Now)]
    /\ UNCHANGED <<stream, modeCalls, answer, turn, modeFaults>>

StopRuntime ==
    /\ \/ entry = "running" /\ entry' = "stopping"
       \/ entry = "stopping" /\ entry' = "none"
    /\ UNCHANGED <<inst, coord, stream, clock, modeCalls, answer, turn, modeFaults>>

\* A restart of realtime-audio: coordinators, pending transitions, calls and
\* turns are gone; what the stream accepted stays.
ForgetRuntimes ==
    /\ entry # "none" /\ Faulty
    /\ entry' = "none"
    /\ modeCalls' = {}
    /\ answer' = [o \in Ops |-> IF \E c \in modeCalls : c.cmd.op = o THEN Failure ELSE answer[o]]
    /\ turn' = [t \in Turns |->
                 IF turn[t].at \in {"open", "gated"} THEN [turn[t] EXCEPT !.at = "dropped"]
                 ELSE turn[t]]
    /\ UNCHANGED <<inst, coord, stream, clock>>

-----------------------------------------------------------------------------
\* The outbox.  An event id is derived from runtime instance and operation.

Clashes(p) ==
    \E k \in DOMAIN stream :
        stream[k].cmd.op = p.cmd.op /\ stream[k].cmd.inst = p.cmd.inst /\ stream[k] # p

StreamWith(p) == IF p \in ToSet(stream) THEN stream ELSE Append(stream, p)

\* Adapter.Append to ValkeyWriter.Accept: the script appends and marks at once,
\* and knows a repeated entry; an error may hide an entry that was accepted.
Publish(p, ok) ==
    IF Clashes(p)
    THEN ~ok /\ UNCHANGED <<stream, modeFaults>>
    ELSE \/ ok /\ stream' = StreamWith(p) /\ UNCHANGED modeFaults
         \/ ~ok /\ Faulty /\ stream' \in {stream, StreamWith(p)}

-----------------------------------------------------------------------------
\* modeCoordinator.Switch, on the coordinator a call has found.

Remember(window, record) ==
    Append(IF Len(window) < Window THEN window ELSE Tail(window), record)

Applied(p) == [status |-> "applied", state |-> p.state]

Committed(c, p) ==
    [state |-> p.state, pending |-> Absent,
     window |-> Remember(c.window, [cmd |-> p.cmd, result |-> Applied(p)])]

CommitPending(i, p, ok) ==
    /\ Publish(p, ok)
    /\ coord' = [coord EXCEPT ![i] =
                  IF ok THEN Committed(@, p) ELSE [@ EXCEPT !.pending = p]]

Prepare(c, cmd) ==
    [cmd |-> cmd, from |-> c.state.mode,
     state |-> [inst |-> c.state.inst, mode |-> cmd.target,
                gen |-> c.state.gen + 1, at |-> Now]]

Answers(call, a) ==
    /\ modeCalls' = modeCalls \ {call}
    /\ answer' = [answer EXCEPT ![call.cmd.op] = a]

\* The command is in the replay window.
ReplaySwitch(call) ==
    \E r \in ToSet(coord[call.found].window) :
        /\ r.cmd.op = call.cmd.op
        /\ Answers(call, IF r.cmd = call.cmd THEN r.result ELSE Failure)
        /\ UNCHANGED <<coord, stream, clock, modeFaults>>

Unknown(call) ==
    \A r \in ToSet(coord[call.found].window) : r.cmd.op # call.cmd.op

\* Bug: the event is built anew for every attempt.
Resume_NewEvent(call) ==
    LET p == coord[call.found].pending
        q == Prepare(coord[call.found], call.cmd)
    IN
    /\ Unknown(call)
    /\ p # Absent /\ p.cmd = call.cmd
    /\ clock < MaxClock /\ clock' = Now
    /\ \E ok \in BOOLEAN :
        /\ CommitPending(call.found, q, ok)
        /\ Answers(call, IF ok THEN Applied(q) ELSE Failure)

\* The command's own transition is frozen: publish the same event again.
Resume(call) ==
    LET p == coord[call.found].pending IN
    /\ Unknown(call)
    /\ p # Absent /\ p.cmd = call.cmd
    /\ \E ok \in BOOLEAN :
        /\ CommitPending(call.found, p, ok)
        /\ Answers(call, IF ok THEN Applied(p) ELSE Failure)
    /\ UNCHANGED clock

\* Another command's transition is frozen: commit it first.  The call then goes
\* on with the recovered state, or fails if the event is still not accepted.
Recover(call) ==
    LET p == coord[call.found].pending IN
    /\ Unknown(call)
    /\ p # Absent /\ p.cmd # call.cmd
    /\ \E ok \in BOOLEAN :
        /\ CommitPending(call.found, p, ok)
        /\ IF ok THEN UNCHANGED <<modeCalls, answer>> ELSE Answers(call, Failure)
    /\ UNCHANGED clock

Outdated(cmd, c) == cmd.inst # c.state.inst \/ cmd.gen # c.state.gen

\* Compare-and-switch proper.
ExecuteSwitch(call) ==
    LET c == coord[call.found]
        cmd == call.cmd
    IN
    /\ Unknown(call)
    /\ c.pending = Absent
    /\ IF Outdated(cmd, c)
       THEN Answers(call, Conflict) /\ UNCHANGED <<coord, stream, clock, modeFaults>>
       ELSE /\ clock < MaxClock /\ clock' = Now
            /\ IF cmd.target # c.state.mode
               THEN LET p == Prepare(c, cmd) IN
                    \E ok \in BOOLEAN :
                        /\ CommitPending(call.found, p, ok)
                        /\ Answers(call, IF ok THEN Applied(p) ELSE Failure)
               ELSE LET s == [c.state EXCEPT !.at = Now]
                        r == [status |-> "unchanged", state |-> s]
                    IN /\ coord' = [coord EXCEPT ![call.found] =
                              [state |-> s, pending |-> Absent,
                               window |-> Remember(c.window, [cmd |-> cmd, result |-> r])]]
                       /\ Answers(call, r)
                       /\ UNCHANGED <<stream, modeFaults>>

-----------------------------------------------------------------------------
\* Manager.SwitchMode and the transport in front of it.

\* The call is authorized, validated and finds the coordinator of the runtime.
FindSession(call) ==
    /\ call.found = Absent
    /\ IF entry = "running"
       THEN /\ modeCalls' = (modeCalls \ {call}) \cup {[call EXCEPT !.found = inst]}
            /\ UNCHANGED answer
       ELSE Answers(call, Failure)
    /\ UNCHANGED <<inst, entry, coord, stream, clock, turn, modeFaults>>

Switch(call) ==
    /\ call.found # Absent
    /\ ReplaySwitch(call) \/ Resume(call) \/ Recover(call) \/ ExecuteSwitch(call)
    /\ UNCHANGED <<inst, entry, turn>>

\* The request or its answer is lost, its caller gives up, or the stop of the
\* runtime cancels it before the coordinator looks at it.
LoseCall(call) ==
    /\ \/ Faulty
       \/ call.found # Absent /\ (entry # "running" \/ call.found # inst) /\ UNCHANGED modeFaults
    /\ Answers(call, Failure)
    /\ UNCHANGED <<inst, entry, coord, stream, clock, turn>>

-----------------------------------------------------------------------------
\* Turns.

\* managerTurnModeReader.GetTurnMode: a turn keeps the mode it opens under.
OpenTurn(t) ==
    /\ turn[t].at = "new" /\ entry = "running"
    /\ turn' = [turn EXCEPT ![t] = [at |-> "open", state |-> coord[inst].state]]
    /\ UNCHANGED <<inst, entry, coord, stream, clock, modeCalls, answer, modeFaults>>

\* managerTurnCommitGate.  A final turn is settled while the runtime stops, an
\* assistant reply only while it runs; a turn that finds no runtime is dropped.
GateTurn(t) ==
    /\ turn[t].at = "open"
    /\ \/ /\ entry # "none" /\ inst = turn[t].state.inst
          /\ turn' = [turn EXCEPT ![t].at = "gated"]
       \/ /\ entry # "running" \/ inst # turn[t].state.inst
          /\ turn' = [turn EXCEPT ![t].at = "dropped"]
    /\ UNCHANGED <<inst, entry, coord, stream, clock, modeCalls, answer, modeFaults>>

\* Bug: the mode alone is compared, so a turn survives a switch there and back.
Current_SameMode(s, t) ==
    LET opened == turn[t].state IN s.inst = opened.inst /\ s.mode = opened.mode

Current(s, t) ==
    LET opened == turn[t].state IN
    s.inst = opened.inst /\ s.mode = opened.mode /\ s.gen = opened.gen

\* modeCoordinator.commitTurn, under the coordinator's mutex.
CommitTurn(t) ==
    /\ turn[t].at = "gated"
    /\ turn' = [turn EXCEPT ![t].at =
                 IF Current(coord[turn[t].state.inst].state, t) THEN "committed" ELSE "dropped"]
    /\ UNCHANGED <<inst, entry, coord, stream, clock, modeCalls, answer, modeFaults>>

ModeStep ==
    \/ StartRuntime \/ StopRuntime \/ ForgetRuntimes
    \/ \E c \in modeCalls : FindSession(c) \/ Switch(c) \/ LoseCall(c)
    \/ \E t \in Turns : OpenTurn(t) \/ GateTurn(t) \/ CommitTurn(t)
=============================================================================
