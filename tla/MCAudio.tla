------------------------------ MODULE MCAudio ------------------------------
(* Realtime's side of a session: its mode with the mode's clients, its        *)
(* interpretation turns, its runtimes with their media loops, its peer        *)
(* connections with their control channel, and the wake word of a device.  A  *)
(* behaviour is one of a single part, the others rest.                        *)
EXTENDS ModeSystem, TurnPipeline, RuntimeManager, Connections, ControlChannel, WakeControl

VARIABLE part

deviceSideVars == <<controlVars, wakeVars>>
audioVars == <<part, systemVars, turnVars, managerVars, connectionVars, deviceSideVars>>

\* One turn of two segments, or two turns of one.
Spoken == {<<2>>, <<1, 1>>}

AudioInit ==
    /\ part \in {"mode", "turns", "runtimes", "connections", "control", "wake"}
    /\ part # "turns" => script = <<2>>
    /\ SystemInit /\ TurnsInit /\ ManagerInit /\ ConnectionsInit /\ ControlInit /\ WakeInit

AudioNext ==
    \/ /\ part = "mode" /\ SystemNext
       /\ UNCHANGED <<part, turnVars, managerVars, connectionVars, deviceSideVars>>
    \/ /\ part = "turns" /\ TurnsNext
       /\ UNCHANGED <<part, systemVars, managerVars, connectionVars, deviceSideVars>>
    \/ /\ part = "runtimes" /\ ManagerNext
       /\ UNCHANGED <<part, systemVars, turnVars, connectionVars, deviceSideVars>>
    \/ /\ part = "connections" /\ ConnectionsNext
       /\ UNCHANGED <<part, systemVars, turnVars, managerVars, deviceSideVars>>
    \/ /\ part = "control" /\ ControlNext
       /\ UNCHANGED <<part, systemVars, turnVars, managerVars, connectionVars, wakeVars>>
    \/ /\ part = "wake" /\ WakeNext
       /\ UNCHANGED <<part, systemVars, turnVars, managerVars, connectionVars, controlVars>>

AudioSpec == AudioInit /\ [][AudioNext]_audioVars
=============================================================================
