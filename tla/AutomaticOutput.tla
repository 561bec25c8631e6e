-------------------------- MODULE AutomaticOutput ---------------------------
(***************************************************************************)
(* Automatic output of a final turn: the targets scheduled with it, their  *)
(* settlement, the retry of a partial failure, the fallback playback when  *)
(* every target failed, and the restoring of spoken output afterwards.     *)
(*                                                                         *)
(* Every API process runs rounds of the fallback worker; a round lists     *)
(* candidates and works on each in turn, and the first error ends it.      *)
(***************************************************************************)
EXTENDS FallbackReplay, FiniteSetsExt

CONSTANTS
    Targets,     \* enabled destinations of the account
    MaxRetries,  \* bound: retries of a message by its user
    MaxVersion   \* bound: versions of the session's language configuration

MaxAutomaticTargetAttempts == 2

VARIABLES
    run,         \* row of automatic_turn_runs
    settlement,  \* row of automatic_turn_settlements per target
    outbound,    \* row of outbound_messages per target
    config,      \* active language configuration
    restores,    \* configurations created by a restore
    round        \* where each process is in its round

turnVars == <<run, settlement, outbound, config, restores, round>>
automaticVars == <<replayVars, turnVars>>

NoRun == [status |-> "none", trigger |-> Nil, targets |-> {}, version |-> 0, fresh |-> FALSE]
NoMessage == [status |-> "none", attempts |-> 0]
NoRound == [at |-> "idle", turns |-> {}, targets |-> {}, turn |-> Nil, seen |-> 0]

RunStatuses == {"none", "pending", "succeeded", "partially_succeeded", "failed",
                "fallback_pending", "fallback_played", "restored"}

AutomaticTypeOK ==
    /\ ReplayTypeOK
    /\ run \in [Turns -> [status : RunStatuses, trigger : {Nil, "configured_route", "long_sentence"},
                          targets : SUBSET Targets, version : 0 .. MaxVersion, fresh : BOOLEAN]]
    /\ settlement \in [Turns -> [Targets -> {"none", "queued", "succeeded", "failed"}]]
    /\ outbound \in [Turns -> [Targets -> [status : {"none", "open", "sent", "failed", "unknown"},
                                          attempts : 0 .. MaxAutomaticTargetAttempts + MaxRetries]]]
    /\ config \in [version : 1 .. MaxVersion + Cardinality(Turns), spoken : BOOLEAN]
    /\ restores \subseteq Turns
    /\ \A p \in Processes : round[p].turns \subseteq Turns /\ round[p].targets \subseteq Targets

AutomaticInit ==
    /\ ReplayInit
    /\ run = [t \in Turns |-> NoRun]
    /\ settlement = [t \in Turns |-> [x \in Targets |-> "none"]]
    /\ outbound = [t \in Turns |-> [x \in Targets |-> NoMessage]]
    /\ config = [version |-> 1, spoken |-> FALSE]
    /\ restores = {}
    /\ round = [p \in Processes |-> NoRound]

-----------------------------------------------------------------------------
\* Scheduling and settlement.

\* The run and all of its targets in one transaction; a replayed event finds
\* the run.  targets: the preferences that qualify when the turn is scheduled.
Schedule(t, targets, trigger) ==
    /\ run[t].status = "none"
    /\ run' = [run EXCEPT ![t] = [status |-> "pending", trigger |-> trigger, targets |-> targets,
                                  version |-> config.version, fresh |-> FALSE]]
    /\ settlement' = [settlement EXCEPT ![t] =
                        [x \in Targets |-> IF x \in targets THEN "queued" ELSE "none"]]
    /\ outbound' = [outbound EXCEPT ![t] = [x \in Targets |->
                        IF x \in targets THEN [status |-> "open", attempts |-> 1] ELSE NoMessage]]
    /\ UNCHANGED <<replayVars, config, restores, round>>

WithStatus(settled, targets, status) == {x \in targets : settled[x] = status}

\* automaticTurnRunStatus
RunStatus(settled, targets) ==
    LET succeeded == WithStatus(settled, targets, "succeeded")
        failed == WithStatus(settled, targets, "failed")
    IN  IF targets = {} \/ succeeded \cup failed # targets THEN "pending"
        ELSE IF failed = {} THEN "succeeded"
        ELSE IF succeeded = {} THEN "failed" ELSE "partially_succeeded"

\* refreshAutomaticTurnRun overwrites the status, a fallback's included.
Refresh(t) ==
    run' = [run EXCEPT ![t].status = RunStatus(settlement'[t], run[t].targets), ![t].fresh = FALSE]

\* CompleteAttempt of the target's open message settles the target if it is
\* queued, and refreshes the run in any case.
Settle(t, x, outcome) ==
    /\ outbound[t][x].status = "open"
    /\ outbound' = [outbound EXCEPT ![t][x].status = outcome]
    /\ settlement' = [settlement EXCEPT ![t][x] =
            IF @ = "queued" THEN (IF outcome = "sent" THEN "succeeded" ELSE "failed") ELSE @]
    /\ Refresh(t)
    /\ UNCHANGED <<replayVars, config, restores, round>>

\* The user retries a failed message; the settlement stays as it is.
UserRetry(t, x) ==
    /\ outbound[t][x].status = "failed"
    /\ outbound[t][x].attempts <= MaxRetries
    /\ outbound' = [outbound EXCEPT ![t][x] = [status |-> "open", attempts |-> @.attempts + 1]]
    /\ UNCHANGED <<replayVars, run, settlement, config, restores, round>>

\* The user chooses another output configuration.
UserConfig(spoken) ==
    /\ config.version < MaxVersion
    /\ config' = [version |-> config.version + 1, spoken |-> spoken]
    /\ UNCHANGED <<replayVars, run, settlement, outbound, restores, round>>

-----------------------------------------------------------------------------
\* A round of the fallback worker.

In(p, place) == round[p].at = place
RoundGoes(p, place) == round' = [round EXCEPT ![p].at = place]

\* Any error ends the round; the supervisor starts the worker again.
EndRound(p) == round' = [round EXCEPT ![p] = NoRound]

RetryCandidates ==
    {t \in Turns : /\ run[t].status = "partially_succeeded"
                   /\ \E x \in WithStatus(settlement[t], run[t].targets, "failed") :
                        outbound[t][x].attempts < MaxAutomaticTargetAttempts}

RecoveryCandidates ==
    {t \in Turns : IF run[t].targets = {} THEN run[t].status \in {"pending", "fallback_pending"}
                   ELSE /\ WithStatus(settlement[t], run[t].targets, "failed") = run[t].targets
                        /\ run[t].status \in {"failed", "fallback_pending"}}

RestoreCandidates == {t \in Turns : run[t].status = "fallback_played"}

Lists(p, place, candidates) ==
    round' = [round EXCEPT ![p] = [NoRound EXCEPT !.at = place, !.turns = candidates]]

\* The three lists, each read when the one before is done.
List(p) ==
    /\ round[p].turns = {}
    /\ \/ In(p, "idle") /\ Lists(p, "retry", RetryCandidates)
       \/ In(p, "retry") /\ Lists(p, "recover", RecoveryCandidates)
       \/ In(p, "recover") /\ Lists(p, "restore", RestoreCandidates)
       \/ In(p, "restore") /\ EndRound(p)
    /\ UNCHANGED <<replayVars, run, settlement, outbound, config, restores>>

Onward(p, place) ==
    round' = [round EXCEPT ![p] = [NoRound EXCEPT !.at = place, !.turns = round[p].turns]]

\* RetryAutomaticTurnFailures reads the run and its failed targets.
RetryTurn(p, t) ==
    LET failed == {x \in WithStatus(settlement[t], run[t].targets, "failed") :
                        outbound[t][x].attempts < MaxAutomaticTargetAttempts}
    IN
    /\ In(p, "retry") /\ t \in round[p].turns
    /\ round' = [round EXCEPT ![p] = [@ EXCEPT !.turns = round[p].turns \ {t}, !.turn = t,
            !.at = IF run[t].status = "partially_succeeded" /\ failed # {} THEN "target" ELSE "retry",
            !.targets = failed]]
    /\ UNCHANGED <<replayVars, run, settlement, outbound, config, restores>>

Retriable(t, x) ==
    /\ run[t].status = "partially_succeeded"
    /\ settlement[t][x] = "failed"
    /\ outbound[t][x].status = "failed" /\ outbound[t][x].attempts < MaxAutomaticTargetAttempts

\* RetryAutomaticTurnTarget: a target whose outcome is unknown, or whose run is
\* not partially_succeeded (as that of a queued target never is), is a conflict.
RetryTarget(p, x) ==
    LET t == round[p].turn
        rest == round[p].targets \ {x}
        goesOn == round' = [round EXCEPT ![p] = [@ EXCEPT !.targets = rest,
                                !.at = IF rest = {} THEN "retry" ELSE "target"]]
    IN
    /\ In(p, "target") /\ x \in round[p].targets
    /\ \/ /\ Retriable(t, x)
          /\ outbound' = [outbound EXCEPT ![t][x] = [status |-> "open", attempts |-> @.attempts + 1]]
          /\ settlement' = [settlement EXCEPT ![t][x] = "queued"]
          /\ Refresh(t) /\ goesOn
       \/ /\ ~Retriable(t, x)
          /\ EndRound(p) /\ UNCHANGED <<run, settlement, outbound>>
    /\ UNCHANGED <<replayVars, config, restores>>

\* ClaimAutomaticTurnFallback: a lease of five minutes on fallback_pending.
ClaimFallback(p, t) ==
    /\ In(p, "recover") /\ t \in round[p].turns
    /\ \/ /\ \/ t \in RecoveryCandidates /\ run[t].status # "fallback_pending"
             \/ run[t].status = "fallback_pending" /\ ~run[t].fresh
          /\ run' = [run EXCEPT ![t].status = "fallback_pending", ![t].fresh = TRUE]
          /\ round' = [round EXCEPT ![p] = [@ EXCEPT !.turns = round[p].turns \ {t}, !.turn = t, !.at = "call"]]
       \/ /\ run[t].status = "fallback_pending" /\ run[t].fresh
          /\ round' = [round EXCEPT ![p].turns = @ \ {t}] /\ UNCHANGED run
       \/ /\ t \notin RecoveryCandidates /\ run[t].status # "fallback_pending"
          /\ EndRound(p) /\ UNCHANGED run
    /\ UNCHANGED <<replayVars, settlement, outbound, config, restores>>

Call(p) ==
    /\ In(p, "call") /\ At(p, "none")
    /\ request' = [request EXCEPT ![p] = [at |-> "claim", turn |-> round[p].turn]]
    /\ RoundGoes(p, "wait")
    /\ UNCHANGED <<operation, sounded, outages, run, settlement, outbound, config, restores>>

Answer(p) ==
    /\ In(p, "wait") /\ request[p].at \in {"ok", "error"}
    /\ request' = [request EXCEPT ![p] = NoRequest]
    /\ \/ At(p, "ok") /\ RoundGoes(p, "mark") /\ UNCHANGED outages
       \/ At(p, "error") /\ EndRound(p) /\ UNCHANGED outages
       \/ At(p, "ok") /\ EndRound(p) /\ Outage  \* the answer is lost
    /\ UNCHANGED <<operation, sounded, run, settlement, outbound, config, restores>>

\* MarkAutomaticTurnFallbackPlayed
MarkPlayed(p) ==
    LET t == round[p].turn IN
    /\ In(p, "mark")
    /\ \/ /\ run[t].status = "fallback_pending"
          /\ run' = [run EXCEPT ![t].status = "fallback_played", ![t].fresh = FALSE]
          /\ Onward(p, "recover")
       \/ run[t].status = "fallback_played" /\ Onward(p, "recover") /\ UNCHANGED run
       \/ run[t].status \notin {"fallback_pending", "fallback_played"} /\ EndRound(p) /\ UNCHANGED run
    /\ UNCHANGED <<replayVars, settlement, outbound, config, restores>>

\* RestoreAutomaticTurn, up to the configuration it reads.
RestoreTurn(p, t) ==
    /\ In(p, "restore") /\ t \in round[p].turns
    /\ \/ run[t].status # "fallback_played" /\ EndRound(p)
       \/ /\ run[t].status = "fallback_played"
          /\ round' = [round EXCEPT ![p] = [@ EXCEPT !.turns = round[p].turns \ {t}, !.turn = t,
                !.seen = config.version,
                !.at = IF run[t].trigger = "long_sentence" \/ config.version > run[t].version
                          \/ config.spoken THEN "restored" ELSE "create"]]
    /\ UNCHANGED <<replayVars, run, settlement, outbound, config, restores>>

\* CreateConfig by version; a newer version is the user's, and wins.
CreateConfig(p) ==
    LET t == round[p].turn IN
    /\ In(p, "create")
    /\ \/ /\ t \notin restores /\ config.version = round[p].seen
          /\ config' = [version |-> config.version + 1, spoken |-> TRUE]
          /\ restores' = restores \cup {t}
       \/ t \in restores /\ UNCHANGED <<config, restores>>
       \/ t \notin restores /\ config.version # round[p].seen /\ UNCHANGED <<config, restores>>
    /\ RoundGoes(p, "restored")
    /\ UNCHANGED <<replayVars, run, settlement, outbound>>

\* MarkAutomaticTurnRestored
MarkRestored(p) ==
    LET t == round[p].turn IN
    /\ In(p, "restored")
    /\ \/ /\ run[t].status = "fallback_played"
          /\ run' = [run EXCEPT ![t].status = "restored"]
          /\ Onward(p, "restore")
       \/ run[t].status = "restored" /\ Onward(p, "restore") /\ UNCHANGED run
       \/ run[t].status \notin {"fallback_played", "restored"} /\ EndRound(p) /\ UNCHANGED run
    /\ UNCHANGED <<replayVars, settlement, outbound, config, restores>>

RoundStep(p) ==
    \/ List(p) \/ Call(p) \/ Answer(p) \/ MarkPlayed(p) \/ CreateConfig(p) \/ MarkRestored(p)
    \/ \E t \in Turns : RetryTurn(p, t) \/ ClaimFallback(p, t) \/ RestoreTurn(p, t)
    \/ \E x \in Targets : RetryTarget(p, x)

\* Five minutes pass on a fallback_pending row.
FallbackLeaseExpires(t) ==
    /\ run[t].status = "fallback_pending" /\ run[t].fresh
    /\ run' = [run EXCEPT ![t].fresh = FALSE]
    /\ UNCHANGED <<replayVars, settlement, outbound, config, restores, round>>

\* The API process ends; a request it waits for goes on by itself.
ApiCrash(p) ==
    /\ ~In(p, "idle")
    /\ Outage /\ EndRound(p)
    /\ UNCHANGED <<operation, request, sounded, run, settlement, outbound, config, restores>>

\* The answer to a process that is gone.
Unread(p) ==
    /\ ~In(p, "wait") /\ request[p].at \in {"ok", "error"}
    /\ request' = [request EXCEPT ![p] = NoRequest]
    /\ UNCHANGED <<operation, sounded, outages, turnVars>>

-----------------------------------------------------------------------------
\* The realtime side runs on its own.
Handle(p) == HandlerStep(p) /\ UNCHANGED turnVars
RealtimeExpires(t) == ClaimExpires(t) /\ UNCHANGED turnVars

AutomaticNext ==
    \/ \E t \in Turns, targets \in SUBSET Targets,
          trigger \in {"configured_route", "long_sentence"} : Schedule(t, targets, trigger)
    \/ \E t \in Turns, x \in Targets :
        \/ \E outcome \in {"sent", "failed", "unknown"} : Settle(t, x, outcome)
        \/ UserRetry(t, x)
    \/ \E spoken \in BOOLEAN : UserConfig(spoken)
    \/ \E t \in Turns : FallbackLeaseExpires(t) \/ RealtimeExpires(t)
    \/ \E p \in Processes :
        \/ RoundStep(p) \/ Handle(p) \/ Unread(p) \/ ApiCrash(p)
        \/ RealtimeCrash(p) /\ UNCHANGED turnVars

\* The worker's loop is supervised, messages are settled by the delivery
\* workers, handlers end, leases run out.
AutomaticFairness ==
    /\ \A p \in Processes : /\ WF_automaticVars(RoundStep(p)) /\ WF_automaticVars(Handle(p))
                            /\ WF_automaticVars(Unread(p))
    /\ \A t \in Turns : /\ WF_automaticVars(FallbackLeaseExpires(t)) /\ WF_automaticVars(RealtimeExpires(t))
                        /\ \A x \in Targets : WF_automaticVars(
                                \E outcome \in {"sent", "failed", "unknown"} : Settle(t, x, outcome))

AutomaticSpec == AutomaticInit /\ [][AutomaticNext]_automaticVars /\ AutomaticFairness

-----------------------------------------------------------------------------
\* A run is marked played or restored only if realtime played the turn to its
\* end and recorded that: two databases, an answer that may get lost, and a
\* run that a late settlement puts back (service.go:463, postgres_settlement.go:31).
PlayedHeard ==
    \A t \in Turns : run[t].status \in {"fallback_played", "restored"} =>
        operation[t].status = "accepted" /\ sounded[t] > 0

\* A turn all of whose targets failed is played back instead
\* (services/api/README.md:153).
AllFailedReplayed ==
    \A t \in Turns : run[t].status = "failed" ~>
        (run[t].status \in {"fallback_pending", "fallback_played", "restored"} \/ outages > 0)
=============================================================================
