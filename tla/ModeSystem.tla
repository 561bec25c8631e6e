----------------------------- MODULE ModeSystem -----------------------------
(***************************************************************************)
(* Mode switching end to end: clients, the coordinators of successive      *)
(* runtimes, the durable stream and its projection.                        *)
(***************************************************************************)
EXTENDS ModeProjection

systemVars == <<modeVars, clientVars, projectionVars>>

SystemInit == ModeInit /\ ClientInit /\ ProjectionInit

Consume(c) == ConsumerStep(c) /\ UNCHANGED clientVars

SystemNext ==
    \/ ModeStep /\ UNCHANGED <<clientVars, projectionVars>>
    \/ ClientStep /\ UNCHANGED projectionVars
    \/ \E c \in Consumers : Consume(c)
    \/ \E c \in Consumers : ConsumerCrash(c) /\ Unfaulty /\ UNCHANGED clientVars

SystemSpec == SystemInit /\ [][SystemNext]_systemVars

SystemTypeOK == ModeTypeOK /\ ClientTypeOK /\ ProjectionTypeOK

-----------------------------------------------------------------------------
\* Whatever fails, is repeated, recovered by another command or forgotten by
\* the replay window, the stream of a runtime has one event per generation, in
\* order, each leaving the mode the one before it entered; the coordinator's
\* state is that of the last event, or the last event is its frozen transition.
EventPerGeneration ==
    /\ \A k \in DOMAIN stream :
        LET e == stream[k]
            c == coord[e.state.inst]
        IN
        /\ e.state.gen <= c.state.gen \/ e = c.pending
        /\ \/ e.state.gen = 2 /\ e.from = InitialMode
           \/ \E l \in 1 .. k - 1 : /\ stream[l].state.inst = e.state.inst
                                    /\ stream[l].state.gen = e.state.gen - 1
                                    /\ stream[l].state.mode = e.from
        /\ \A l \in 1 .. k - 1 : stream[l].state.inst = e.state.inst => stream[l].state.gen < e.state.gen
    /\ \A i \in ModeRuntimes :
        LET c == coord[i] IN
        /\ c.pending # Absent => c.pending.state.gen = c.state.gen + 1
        /\ \/ c.state.gen = 1 /\ c.state.mode = InitialMode
           \/ \E k \in DOMAIN stream :
                stream[k].state.inst = i /\ stream[k].state.gen = c.state.gen /\ stream[k].state.mode = c.state.mode

\* Somebody outside the coordinator has seen a later generation of the runtime.
SeenLater(s) ==
    \/ \E o \in Ops :
        answer[o] \in Results /\ answer[o].state.inst = s.inst /\ answer[o].state.gen > s.gen
    \/ view # Absent /\ view.inst = s.inst /\ view.gen > s.gen

\* Once anybody knows of a switch, no turn opened before it commits, even if
\* the session has returned to the turn's mode since (modeCoordinator.commitTurn).
NoStaleTurn ==
    [][\A t \in Turns :
        turn'[t].at = "committed" /\ turn[t].at # "committed" => ~SeenLater(turn[t].state)]_systemVars

\* The snapshot of a device never goes back to an earlier generation nor to a
\* runtime it has left, in whatever order answers and refreshes arrive.
ViewForward ==
    [][view # Absent =>
        \/ view'.inst > view.inst
        \/ view'.inst = view.inst /\ view'.gen >= view.gen /\ view'.at >= view.at]_systemVars

\* Redelivered, late and reordered entries never leave the projection behind
\* an event that was recorded (shouldAdvance; the WHERE clause of Project).
ProjectionLatest ==
    /\ (projection = Absent) = (recorded = {})
    /\ \A e \in recorded : projection.state.at >= e.state.at
=============================================================================
