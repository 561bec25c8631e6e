----------------------------- MODULE ModeClient -----------------------------
(***************************************************************************)
(* Who switches modes: the ModeController of the device SDK, which keeps   *)
(* an observed snapshot and turns it into compare-and-switch commands, and *)
(* the voice command executor of realtime-audio, which reads the           *)
(* authoritative state first.  Both talk to ModeSwitch.                    *)
(*                                                                         *)
(* Several operations of one controller run at once, answers and refreshes *)
(* arrive in any order, and an operation whose outcome is unknown may be   *)
(* repeated.                                                               *)
(***************************************************************************)
EXTENDS ModeSwitch

CONSTANT VoiceOps   \* the operations that are voice commands

ASSUME VoiceAssumption == VoiceOps \subseteq Ops

VARIABLES
    op,         \* op[o]: where the caller of an operation is, and its command
    view,       \* ModeController.state, or None
    retired,    \* ModeController.retired: instances the view has left
    refreshed   \* state on its way to a Refresh, or None

clientVars == <<op, view, retired, refreshed>>

\* "uncertain": the last call failed without an answer from the coordinator.
OpPlaces == {"new", "called", "uncertain", "done", "discarded", "failed"}

ClientTypeOK ==
    /\ op \in [Ops -> [at : OpPlaces, cmd : Commands \cup {Absent}]]
    /\ view \in States \cup {Absent}
    /\ retired \subseteq ModeRuntimes
    /\ refreshed \in States \cup {Absent}

ClientInit ==
    /\ op = [o \in Ops |-> [at |-> "new", cmd |-> Absent]]
    /\ view = Absent /\ retired = {} /\ refreshed = Absent

Command(o, s, target) == [op |-> o, inst |-> s.inst, gen |-> s.gen, target |-> target]

-----------------------------------------------------------------------------
\* applyModeLocked: may a snapshot replace the view?

\* Bug: an instance that was left is not remembered.
Newer_Unretired(s) ==
    IF s.inst = view.inst
    THEN s.gen > view.gen \/ (s.gen = view.gen /\ s.at > view.at)
    ELSE s.at > view.at

Newer(s) ==
    IF s.inst = view.inst
    THEN s.gen > view.gen \/ (s.gen = view.gen /\ s.at > view.at)
    ELSE s.inst \notin retired /\ s.at > view.at

Applies(s) == view = Absent \/ Newer(s)

Observe(s) ==
    IF Applies(s)
    THEN /\ view' = s
         /\ retired' = IF view # Absent /\ view.inst # s.inst
                       THEN retired \cup {view.inst} ELSE retired
    ELSE UNCHANGED <<view, retired>>

-----------------------------------------------------------------------------
\* ModeController.Refresh: the state is read at one time and applied at another.

RefreshRead ==
    /\ entry = "running" /\ refreshed = Absent
    /\ refreshed' = coord[inst].state
    /\ UNCHANGED <<modeVars, op, view, retired>>

RefreshApply ==
    /\ refreshed # Absent
    /\ Observe(refreshed)
    /\ refreshed' = Absent
    /\ UNCHANGED <<modeVars, op>>

SendCommand(o, cmd) ==
    /\ op' = [op EXCEPT ![o] = [at |-> "called", cmd |-> cmd]]
    /\ modeCalls' = modeCalls \cup {[cmd |-> cmd, found |-> Absent]}
    /\ UNCHANGED <<inst, entry, coord, stream, clock, answer, turn, modeFaults>>
    /\ UNCHANGED <<view, retired, refreshed>>

\* ModeController.SwitchOperation: a new operation takes the view's generation,
\* a repeated one keeps its command.
BeginCommand(o) ==
    /\ o \notin VoiceOps /\ op[o].at = "new" /\ view # Absent
    /\ \E target \in Modes : SendCommand(o, Command(o, view, target))

RetryCommand(o) ==
    /\ o \notin VoiceOps /\ op[o].at = "uncertain"
    /\ SendCommand(o, op[o].cmd)

\* commandExecutor.ExecuteCommand: the state is read in the same process.
Speak(o) ==
    /\ o \in VoiceOps /\ op[o].at = "new" /\ entry = "running"
    /\ \E target \in Modes : SendCommand(o, Command(o, coord[inst].state, target))

\* validModeResult: an answer must fit the command it answers.
Fits(cmd, r) ==
    /\ r.state.inst = cmd.inst /\ r.state.mode = cmd.target
    /\ r.state.gen = IF r.status = "applied" THEN cmd.gen + 1 ELSE cmd.gen

\* The view already says what the answer says.
Known(s) == view.inst = s.inst /\ view.gen = s.gen /\ view.mode = s.mode

Settle(o, place) == op' = [op EXCEPT ![o].at = place]

Receive(o) ==
    LET a == answer[o] IN
    /\ op[o].at = "called" /\ a # Absent
    /\ answer' = [answer EXCEPT ![o] = Absent]
    /\ \/ /\ o \in VoiceOps
          /\ Settle(o, IF a \in Results THEN "done" ELSE "failed")
          /\ UNCHANGED <<view, retired, refreshed>>
       \/ /\ o \notin VoiceOps /\ a \in Results /\ Fits(op[o].cmd, a)
          /\ Observe(a.state)
          /\ Settle(o, IF Applies(a.state) \/ Known(a.state) THEN "done" ELSE "discarded")
          /\ UNCHANGED refreshed
       \/ /\ o \notin VoiceOps /\ (a = Failure \/ (a \in Results /\ ~Fits(op[o].cmd, a)))
          /\ Settle(o, "uncertain")
          /\ UNCHANGED <<view, retired, refreshed>>
       \/ \* The operation is discarded; Refresh follows.
          /\ o \notin VoiceOps /\ a = Conflict
          /\ Settle(o, "discarded")
          /\ UNCHANGED <<view, retired, refreshed>>
    /\ UNCHANGED <<inst, entry, coord, stream, clock, modeCalls, turn, modeFaults>>

ClientStep ==
    \/ RefreshRead \/ RefreshApply
    \/ \E o \in Ops : BeginCommand(o) \/ RetryCommand(o) \/ Speak(o) \/ Receive(o)
=============================================================================
