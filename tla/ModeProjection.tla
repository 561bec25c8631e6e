--------------------------- MODULE ModeProjection ---------------------------
(***************************************************************************)
(* The API side of the mode stream: consumers of one consumer group that   *)
(* read entries, project them in a transaction and acknowledge them.       *)
(* An entry that is not acknowledged stays pending and is claimed again,   *)
(* by any consumer, after it was idle for a while; so entries are          *)
(* projected repeatedly, late and out of order.                            *)
(***************************************************************************)
EXTENDS ModeClient

CONSTANT Consumers

VARIABLES
    delivered,   \* number of entries the group has handed out
    pel,         \* entries handed out and not acknowledged
    hold,        \* hold[c]: entry a consumer works on, or 0
    projected,   \* consumers whose transaction on the entry is committed
    recorded,    \* rows of realtime_mode_events
    projection   \* row of realtime_mode_projections, or Absent

projectionVars == <<delivered, pel, hold, projected, recorded, projection>>

ProjectionTypeOK ==
    /\ delivered \in 0 .. Len(stream)
    /\ pel \subseteq 1 .. delivered
    /\ hold \in [Consumers -> 0 .. delivered]
    /\ projected \subseteq Consumers
    /\ recorded \subseteq ToSet(stream)
    /\ projection \in ToSet(stream) \cup {Absent}

ProjectionInit ==
    /\ delivered = 0 /\ pel = {}
    /\ hold = [c \in Consumers |-> 0]
    /\ projected = {} /\ recorded = {} /\ projection = Absent

Unfaulty == UNCHANGED <<inst, entry, coord, stream, clock, modeCalls, answer, turn>>

Idle(e) == \A c \in Consumers : hold[c] # e

\* ValkeyStream.Receive: an idle pending entry first, then a new one.  Taking
\* an entry from a consumer that is merely slow is a fault.
ClaimEvent(c) ==
    /\ hold[c] = 0
    /\ \E e \in pel :
        /\ hold' = [hold EXCEPT ![c] = e]
        /\ IF Idle(e) THEN UNCHANGED modeFaults ELSE Faulty
    /\ UNCHANGED <<delivered, pel, projected, recorded, projection>>

ReadNew(c) ==
    /\ hold[c] = 0 /\ delivered < Len(stream)
    /\ delivered' = delivered + 1
    /\ pel' = pel \cup {delivered + 1}
    /\ hold' = [hold EXCEPT ![c] = delivered + 1]
    /\ UNCHANGED <<modeFaults, projected, recorded, projection>>

\* Bug: generations are compared across runtimes.
ShouldAdvance_Generation(e) ==
    projection = Absent \/ e.state.gen > projection.state.gen

\* Generations order the events of one runtime, times those of different ones.
ShouldAdvance(e) ==
    \/ projection = Absent
    \/ IF projection.state.inst = e.state.inst
       THEN e.state.gen > projection.state.gen
       ELSE e.state.at > projection.state.at

\* PostgresRepository.Project: event row and projection in one transaction.
Record(e) ==
    IF e \in recorded
    THEN UNCHANGED <<recorded, projection>>
    ELSE /\ recorded' = recorded \cup {e}
         /\ projection' = IF ShouldAdvance(e) THEN e ELSE projection

Project(c) ==
    /\ hold[c] # 0 /\ c \notin projected
    /\ \/ /\ Record(stream[hold[c]])
          /\ projected' = projected \cup {c}
          /\ UNCHANGED <<hold, modeFaults>>
       \/ \* A failing transaction, or one whose commit is not answered: the
          \* receipt is left pending.
          /\ Faulty
          /\ \/ Record(stream[hold[c]])
             \/ UNCHANGED <<recorded, projection>>
          /\ hold' = [hold EXCEPT ![c] = 0]
          /\ UNCHANGED projected
    /\ UNCHANGED <<delivered, pel>>

Ack(c) ==
    /\ c \in projected
    /\ \/ pel' = pel \ {hold[c]} /\ UNCHANGED modeFaults
       \/ Faulty /\ UNCHANGED pel
    /\ hold' = [hold EXCEPT ![c] = 0]
    /\ projected' = projected \ {c}
    /\ UNCHANGED <<delivered, recorded, projection>>

ConsumerCrash(c) ==
    /\ hold[c] # 0 /\ Faulty
    /\ hold' = [hold EXCEPT ![c] = 0]
    /\ projected' = projected \ {c}
    /\ UNCHANGED <<delivered, pel, recorded, projection>>

ConsumerStep(c) == (ClaimEvent(c) \/ ReadNew(c) \/ Project(c) \/ Ack(c)) /\ Unfaulty

ProjectionStep == \E c \in Consumers : ConsumerStep(c) \/ (ConsumerCrash(c) /\ Unfaulty)

=============================================================================
