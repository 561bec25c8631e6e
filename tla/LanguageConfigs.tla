-------------------------- MODULE LanguageConfigs ---------------------------
(***************************************************************************)
(* The versioned language configuration of one session: requests of the    *)
(* page and of spoken commands, their idempotency keys, and the            *)
(* transaction that supersedes the active version.                         *)
(***************************************************************************)
EXTENDS TargetBinding

CONSTANTS
    Writers,      \* configuration requests in progress
    PageKeys,     \* Idempotency-Key values of the page
    CommandKeys,  \* keys derived from command ids
    Outputs,      \* requested configurations; "single" needs a delivery target
    MaxConfigs,   \* bound: versions a session gets
    MaxErrors     \* bound: failing, lost or uncertain calls

ASSUME ConfigAssumption ==
    /\ PageKeys \cap CommandKeys = {} /\ Free \notin PageKeys \cup CommandKeys
    /\ MaxConfigs \in Nat /\ MaxErrors \in Nat

VARIABLES
    configs,      \* rows of voice_session_language_configs
    configLock,   \* the transaction holding the active row, or Free
    writer,       \* where each request is
    answered,     \* versions answered with success per key
    errors        \* failures so far

configVars == <<configs, configLock, writer, answered, errors>>

ConfigKeys == PageKeys \cup CommandKeys
Versions == 0 .. MaxConfigs + 1
Requests == [key : ConfigKeys \cup {Free}, output : Outputs, expected : Versions]
FreeWriter == [at |-> "idle", request |-> Free, seen |-> 0, answer |-> "none"]

ConfigTypeOK ==
    /\ configs \subseteq [version : Versions, request : Requests, active : BOOLEAN]
    /\ configLock \in Writers \cup {Free}
    /\ writer \in [Writers ->
            [at : {"idle", "lookup", "ready", "lock", "wait", "write", "reread"}, request : Requests \cup {Free},
             seen : Versions,
             answer : {"none", "stored", "stale_command", "idempotency_conflict",
                       "version_conflict", "delivery_target_required", "error"}]]
    /\ errors \in 0 .. MaxErrors

ConfigInit ==
    /\ configs = {}
    /\ configLock = Free
    /\ writer = [w \in Writers |-> FreeWriter]
    /\ answered = [k \in ConfigKeys |-> {}]
    /\ errors = 0

-----------------------------------------------------------------------------
ActiveConfigs == {c \in configs : c.active}
ActiveVersion == IF ActiveConfigs = {} THEN 0 ELSE (CHOOSE c \in ActiveConfigs : TRUE).version
Stands(w, place) == writer[w].at = place
Move(w, place) == writer' = [writer EXCEPT ![w].at = place]
Conclude(w, answer) == writer' = [writer EXCEPT ![w] = [FreeWriter EXCEPT !.answer = answer]]
LetGo(w) == configLock' = IF configLock = w THEN Free ELSE configLock

\* A command's fingerprint leaves the version it expects out.
Fingerprint(r) == IF r.key \in CommandKeys THEN [r EXCEPT !.expected = 0] ELSE r
Stored(key) == {c \in configs : key # Free /\ c.request.key = key}

\* The page sends the version it shows; a command, the version read when its
\* arguments were completed.
Submit(w, r) ==
    /\ Stands(w, "idle")
    /\ r.expected \in {0, ActiveVersion}
    /\ r.key \in CommandKeys => r.expected = ActiveVersion
    /\ writer' = [writer EXCEPT ![w] = [FreeWriter EXCEPT !.at = "lookup", !.request = r]]
    /\ UNCHANGED <<configs, configLock, answered, errors>>

\* The row stored under the request's key answers it: a command whose version
\* was superseded since is stale.
AnswerWith(w, c) ==
    LET r == writer[w].request IN
    IF Fingerprint(c.request) # Fingerprint(r) THEN Conclude(w, "idempotency_conflict") /\ UNCHANGED answered
    ELSE IF r.key \in CommandKeys /\ ~c.active THEN Conclude(w, "stale_command") /\ UNCHANGED answered
    ELSE Conclude(w, "stored") /\ answered' = [answered EXCEPT ![r.key] = @ \cup {c.version}]

Lookup(w) ==
    /\ Stands(w, "lookup")
    /\ \/ \E c \in Stored(writer[w].request.key) : AnswerWith(w, c)
       \/ /\ Stored(writer[w].request.key) = {}
          /\ Move(w, IF writer[w].request.output = "single" THEN "ready" ELSE "lock")
          /\ UNCHANGED answered
    /\ UNCHANGED <<configs, configLock, errors>>

\* AutomaticDeliveryReady, before and outside the transaction.
CheckReady(w) ==
    /\ Stands(w, "ready")
    /\ IF ReadyTargets = {} THEN Conclude(w, "delivery_target_required") ELSE Move(w, "lock")
    /\ UNCHANGED <<configs, configLock, answered, errors>>

\* The transaction goes on with the active row it saw, if that is expected.
GoOn(w, seen) ==
    IF writer[w].request.expected \in {0, seen}
    THEN /\ writer' = [writer EXCEPT ![w].at = "write", ![w].seen = seen]
         /\ configLock' = IF seen = 0 THEN configLock ELSE w
    ELSE Conclude(w, "version_conflict") /\ UNCHANGED configLock

\* SELECT ... WHERE status = 'active' FOR UPDATE.
Lock(w) ==
    /\ Stands(w, "lock")
    /\ IF ActiveVersion # 0 /\ configLock # Free
       THEN /\ writer' = [writer EXCEPT ![w].at = "wait", ![w].seen = ActiveVersion]
            /\ UNCHANGED configLock
       ELSE GoOn(w, ActiveVersion)
    /\ UNCHANGED <<configs, answered, errors>>

\* A row superseded by the transaction waited for no longer matches, and the
\* version that replaced it is not in the statement's snapshot.
Wait(w) ==
    /\ Stands(w, "wait") /\ configLock = Free
    /\ GoOn(w, IF writer[w].seen = ActiveVersion THEN ActiveVersion ELSE 0)
    /\ UNCHANGED <<configs, answered, errors>>

Superseding(w) ==
    {IF c.version = writer[w].seen THEN [c EXCEPT !.active = FALSE] ELSE c : c \in configs}
    \cup {[version |-> writer[w].seen + 1, request |-> Fingerprint(writer[w].request), active |-> TRUE]}

\* Bug: the key has no unique index.
KeyTaken_Never(w) == FALSE

\* The unique indexes on the active row and on the version come before the one
\* on the key (001_language_config.sql:36), and the first that is violated is
\* the one reported.
VersionTaken(w) ==
    \/ \E c \in ActiveConfigs : c.version # writer[w].seen
    \/ \E c \in configs : c.version = writer[w].seen + 1
KeyTaken(w) == Stored(writer[w].request.key) # {}

\* UPDATE, INSERT and COMMIT; the answer of a commit may be lost.
Write(w) ==
    LET key == writer[w].request.key IN
    /\ Stands(w, "write")
    /\ LetGo(w)
    /\ \/ /\ VersionTaken(w)
          /\ Conclude(w, "version_conflict")
          /\ UNCHANGED <<configs, answered, errors>>
       \/ /\ ~VersionTaken(w) /\ KeyTaken(w)
          /\ Move(w, "reread")
          /\ UNCHANGED <<configs, answered, errors>>
       \/ /\ ~VersionTaken(w) /\ ~KeyTaken(w) /\ writer[w].seen < MaxConfigs
          /\ configs' = Superseding(w)
          /\ \/ /\ Conclude(w, "stored") /\ UNCHANGED errors
                /\ answered' = [k \in ConfigKeys |-> answered[k] \cup IF k = key THEN {writer[w].seen + 1} ELSE {}]
             \/ /\ Conclude(w, "error") /\ UNCHANGED answered
                /\ errors < MaxErrors /\ errors' = errors + 1

\* The loser of two equal requests reads the winner's row.
Reread(w) ==
    /\ Stands(w, "reread")
    /\ \E c \in Stored(writer[w].request.key) : AnswerWith(w, c)
    /\ UNCHANGED <<configs, configLock, errors>>

\* A query fails, or the process ends: the transaction is rolled back.
FailWriter(w) ==
    /\ ~Stands(w, "idle")
    /\ errors < MaxErrors /\ errors' = errors + 1
    /\ Conclude(w, "error") /\ LetGo(w)
    /\ UNCHANGED <<configs, answered>>

\* What the account does with its targets meanwhile.
Retarget ==
    \/ \E x \in Bound : Disable(x) \/ Revoke(x)
    \/ \E b \in Binders : \E x \in Channels :
        \/ StorePreference(b) \/ Prefer(b, x)
        \/ \E address \in Addresses : BindDirect(b, x, address)

WriterStep(w) ==
    \/ Lookup(w) \/ CheckReady(w) \/ Lock(w) \/ Wait(w) \/ Write(w) \/ Reread(w)
    \/ FailWriter(w) \/ \E r \in Requests : Submit(w, r)

ConfigNext ==
    \/ (\E w \in Writers : WriterStep(w)) /\ UNCHANGED bindingVars
    \/ Retarget /\ UNCHANGED configVars

ConfigSpec == ConfigInit /\ BindingInit /\ [][ConfigNext]_<<configVars, bindingVars>>

-----------------------------------------------------------------------------
\* Every request sent again under a key is answered with the one version the
\* key created, the versions of a session follow each other, and the last alone
\* is active, whatever requests, retries and crashes meet (service.go:140-152,
\* store_postgres.go:94-100).
KeyedAnswers ==
    /\ \A k \in ConfigKeys : Cardinality(answered[k] \cup {c.version : c \in Stored(k)}) <= 1
    /\ {c.version : c \in configs} = 1 .. Cardinality(configs)
    /\ \A c \in configs : c.active <=> c.version = Cardinality(configs)
=============================================================================
