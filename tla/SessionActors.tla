--------------------------- MODULE SessionActors ---------------------------
(***************************************************************************)
(* Who acts on one voice session, and the names the modules below share.   *)
(* A start request, an end request and a recovery worker are each known to *)
(* the database and to realtime-audio by one identity (trace id, claim id, *)
(* "request:<trace id>", worker id), so the thread and its identity are    *)
(* one value here.                                                         *)
(***************************************************************************)
CONSTANTS
    StartRequests,     \* POST .../start requests, each handled once
    EndRequests,       \* POST .../end requests, replays of one end intent
    Instances,         \* API processes; each runs one EndRecoveryWorker
    Keys,              \* idempotency keys of Start; one operation row per key
    EndReason,         \* the reason the end intent carries
    OperatorCancelled, \* the reason a compensating Stop carries
    None               \* SQL NULL, nil

Actors == StartRequests \cup EndRequests \cup Instances

\* Both kinds of thread that drive an end intent.
EndDrivers == EndRequests \cup Instances

Reasons == {EndReason, OperatorCancelled}

ASSUME NoneAssumption == None \notin Keys \cup Actors

ASSUME ThreadsAssumption ==
    /\ StartRequests \cap EndRequests = {}
    /\ StartRequests \cap Instances = {}
    /\ EndRequests \cap Instances = {}
=============================================================================
