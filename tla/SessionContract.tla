--------------------------- MODULE SessionContract ---------------------------
(***************************************************************************)
(* What the voice-session control plane promises to its clients, without   *)
(* processes, messages, leases or retries: one business session, and one   *)
(* gate that admits either a start operation or an end intent, never both. *)
(* services/api/sessions/README.md states the promise; SessionLifecycle    *)
(* implements it.                                                          *)
(***************************************************************************)

VARIABLES
    status,     \* business status of the session
    gate        \* which protocol owns the session: see Gates

vars == <<status, gate>>

Statuses == {"created", "active", "ended", "failed"}
Terminal == {"ended", "failed"}

\* "closed" is an end intent that was completed; it is never left.
Gates == {"free", "starting", "ending", "closed"}

TypeOK ==
    /\ status \in Statuses
    /\ gate \in Gates

Init ==
    /\ status = "created"
    /\ gate = "free"

-----------------------------------------------------------------------------
\* A start operation is recorded for a created session nobody is ending.
BeginStart ==
    /\ status = "created" /\ gate = "free"
    /\ gate' = "starting"
    /\ UNCHANGED status

\* The operation won: the session is active and the gate is free again.
Activate ==
    /\ status = "created" /\ gate = "starting"
    /\ status' = "active"
    /\ gate' = "free"

\* The operation was compensated: the session may be started again.
Compensate ==
    /\ status = "created" /\ gate = "starting"
    /\ gate' = "free"
    /\ UNCHANGED status

\* An end intent is recorded, whatever the status, once no start is open.
RequestEnd ==
    /\ gate = "free"
    /\ gate' = "ending"
    /\ UNCHANGED status

\* Only an open end intent ends a session.
End ==
    /\ gate = "ending" /\ status \notin Terminal
    /\ status' = "ended"
    /\ UNCHANGED gate

\* An end intent is completed only after the session is terminal.
CompleteEnd ==
    /\ gate = "ending" /\ status \in Terminal
    /\ gate' = "closed"
    /\ UNCHANGED status

\* A runtime failure makes an active session failed, also while it is ending.
Fail ==
    /\ status = "active"
    /\ status' = "failed"
    /\ UNCHANGED gate

Next ==
    \/ BeginStart \/ Activate \/ Compensate
    \/ RequestEnd \/ End \/ CompleteEnd
    \/ Fail

\* Accepted ends are driven to completion; nothing obliges a client to start.
Spec == Init /\ [][Next]_vars /\ WF_vars(End) /\ WF_vars(CompleteEnd)

\* The part of the promise that a run of bounded length can break.
SafeSpec == Init /\ [][Next]_vars
=============================================================================
