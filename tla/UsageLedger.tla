---------------------------- MODULE UsageLedger ----------------------------
(***************************************************************************)
(* Usage facts from realtime's outbox to the ledger and its summaries.     *)
(* Realtime appends each fact to a durable stream; the consumers of the    *)
(* API check who owns the session and insert the fact under its key; a     *)
(* caller who owns the session, also by a later merge of accounts, reads   *)
(* the sums.  The session belongs to an anonymous account, which may be    *)
(* merged into a registered one at any time.                               *)
(***************************************************************************)
EXTENDS Integers, Sequences, SequencesExt

CONSTANTS
    UsageFacts,    \* facts of the session; a fact is named by its idempotency key
    Ledgers,       \* consumers of the usage stream
    Unbilled,      \* "no row"
    MaxHitches     \* bound: failing stores, lost answers, crashes, slow consumers

Billable == {"anonymous", "registered"}
\* The owner stored with the session, which a merge does not change.
Owner == "anonymous"

ASSUME LedgerAssumption == MaxHitches \in Nat /\ Unbilled \notin Billable

VARIABLES
    merged,     \* the anonymous account is merged into the registered one
    fact,       \* what its publisher knows of a fact, and the account it names
    usage,      \* entries of the usage stream
    handed,     \* entries handed out at least once
    unsettled,  \* entries handed out and not acknowledged
    ledger,     \* where each consumer is, with its entry and the owner it read
    rows,       \* account of the row of a fact
    hitches     \* faults so far

ledgerVars == <<merged, fact, usage, handed, unsettled, ledger, rows, hitches>>

NoEntry == [at |-> "idle", entry |-> 0, left |-> Owner]

LedgerTypeOK ==
    /\ merged \in BOOLEAN
    /\ fact \in [UsageFacts -> [at : {"new", "unsure", "accepted", "failed"}, account : Billable]]
    /\ \A k \in DOMAIN usage : usage[k] \in [key : UsageFacts, account : Billable]
    /\ handed \in 0 .. Len(usage) /\ unsettled \subseteq 1 .. handed
    /\ ledger \in [Ledgers -> [at : {"idle", "held", "compared", "owned", "recorded", "stopped"},
                               entry : 0 .. handed, left : Billable]]
    /\ rows \in [UsageFacts -> Billable \cup {Unbilled}]
    /\ hitches \in 0 .. MaxHitches

LedgerInit ==
    /\ merged = FALSE
    /\ fact = [f \in UsageFacts |-> [at |-> "new", account |-> Owner]]
    /\ usage = <<>> /\ handed = 0 /\ unsettled = {}
    /\ ledger = [w \in Ledgers |-> NoEntry]
    /\ rows = [f \in UsageFacts |-> Unbilled]
    /\ hitches = 0

Hitch == hitches < MaxHitches /\ hitches' = hitches + 1

-----------------------------------------------------------------------------
\* Accounts.

Canonical(a) == IF merged THEN "registered" ELSE a
\* lingow_account_lineage: an account and those merged into it.
Lineage(a) == IF merged /\ a = "registered" THEN Billable ELSE {a}

MergeAccounts ==
    /\ ~merged /\ merged' = TRUE
    /\ UNCHANGED <<fact, usage, handed, unsettled, ledger, rows, hitches>>

-----------------------------------------------------------------------------
\* Realtime: the turn pipeline and its queues of late usage publish a fact until
\* the outbox takes it, or give up.  A fact is built once, so a repetition has
\* the same key and the same payload.

\* A session is started with the account of the request, after a merge also
\* with the registered one.
Named == {Owner, Canonical(Owner)}

\* The script of ValkeyWriter.Accept: entry and marker are written at once.
StreamTakes(e) == usage' = IF e \in ToSet(usage) THEN usage ELSE Append(usage, e)

PublishFact(f) ==
    /\ fact[f].at \in {"new", "unsure"}
    /\ \E a \in IF fact[f].at = "new" THEN Named ELSE {fact[f].account} :
        \/ /\ StreamTakes([key |-> f, account |-> a])
           /\ fact' = [fact EXCEPT ![f] = [at |-> "accepted", account |-> a]]
           /\ UNCHANGED hitches
        \/ /\ Hitch
           /\ fact' = [fact EXCEPT ![f] = [at |-> "unsure", account |-> a]]
           /\ StreamTakes([key |-> f, account |-> a]) \/ UNCHANGED usage
    /\ UNCHANGED <<merged, handed, unsettled, ledger, rows>>

GiveUpFact(f) ==
    /\ fact[f].at = "unsure"
    /\ fact' = [fact EXCEPT ![f].at = "failed"]
    /\ UNCHANGED <<merged, usage, handed, unsettled, ledger, rows, hitches>>

-----------------------------------------------------------------------------
\* The consumers (Consumer.ProcessOnce).

Held(w) == usage[ledger[w].entry]
Works(w) == ledger[w].at \notin {"idle", "stopped"}
Proceed(w, place) == ledger' = [ledger EXCEPT ![w].at = place]
\* A consumer is done with its entry; it stays pending unless acknowledged.
Released(w) == ledger' = [ledger EXCEPT ![w] = NoEntry]

Take(w, e) == ledger' = [ledger EXCEPT ![w] = [NoEntry EXCEPT !.at = "held", !.entry = e]]

\* ValkeyUsageStream.Receive: first an entry that was pending for long.  Only a
\* hitch makes an entry that is still worked on look so.
ClaimUsage(w) ==
    /\ ledger[w].at = "idle"
    /\ \E e \in unsettled :
        /\ Take(w, e)
        /\ IF \E v \in Ledgers : Works(v) /\ ledger[v].entry = e THEN Hitch ELSE UNCHANGED hitches
    /\ UNCHANGED <<merged, fact, usage, handed, unsettled, rows>>

ReadUsage(w) ==
    /\ ledger[w].at = "idle" /\ handed < Len(usage)
    /\ handed' = handed + 1 /\ unsettled' = unsettled \cup {handed + 1}
    /\ Take(w, handed + 1)
    /\ UNCHANGED <<merged, fact, usage, rows, hitches>>

\* A permanent error acknowledges the entry without a row.
Reject(w) == Released(w) /\ unsettled' = unsettled \ {ledger[w].entry}

\* Bug: the stored owner is compared with the payload's account as it is.
ReadOwner_Exact(w) ==
    /\ ledger[w].at = "held"
    /\ IF Held(w).account = Owner THEN Proceed(w, "owned") /\ UNCHANGED unsettled
       ELSE Reject(w)
    /\ UNCHANGED <<merged, fact, usage, handed, rows, hitches>>

\* UseCases.Record: the owner of the session, compared with the account of the
\* payload; when they differ, the owner's canonical account is read first.
ReadOwner(w) ==
    /\ ledger[w].at = "held"
    /\ ledger' = [ledger EXCEPT ![w].at = IF Held(w).account = Owner THEN "owned" ELSE "compared",
                                ![w].left = Canonical(Owner)]
    /\ UNCHANGED <<merged, fact, usage, handed, unsettled, rows, hitches>>

CompareOwners(w) ==
    /\ ledger[w].at = "compared"
    /\ IF ledger[w].left = Canonical(Held(w).account)
       THEN Proceed(w, "owned") /\ UNCHANGED unsettled
       ELSE Reject(w)
    /\ UNCHANGED <<merged, fact, usage, handed, rows, hitches>>

\* PostgresRepository.Record: the row carries the owner; a key that has a row is
\* answered with it, or refused when the hashes differ, which they cannot.
InsertRow(w) ==
    /\ ledger[w].at = "owned"
    /\ rows' = [rows EXCEPT ![Held(w).key] = IF @ = Unbilled THEN Owner ELSE @]
    /\ \/ Proceed(w, "recorded") /\ UNCHANGED hitches
       \/ Released(w) /\ Hitch    \* committed, and the answer is lost
    /\ UNCHANGED <<merged, fact, usage, handed, unsettled>>

AckUsage(w) ==
    /\ ledger[w].at = "recorded"
    /\ \/ unsettled' = unsettled \ {ledger[w].entry} /\ UNCHANGED hitches
       \/ UNCHANGED unsettled /\ Hitch
    /\ Released(w)
    /\ UNCHANGED <<merged, fact, usage, handed, rows>>

\* A store fails: Nack leaves the entry pending.  A deadline that passed ends
\* Run, a crash the process; both are started again.
LedgerFails(w) ==
    /\ Works(w) /\ Hitch
    /\ \/ Released(w)
       \/ ledger' = [ledger EXCEPT ![w] = [NoEntry EXCEPT !.at = "stopped"]]
    /\ UNCHANGED <<merged, fact, usage, handed, unsettled, rows>>

RestartLedger(w) ==
    /\ ledger[w].at = "stopped" /\ Released(w)
    /\ UNCHANGED <<merged, fact, usage, handed, unsettled, rows, hitches>>

LedgerStep(w) ==
    \/ ClaimUsage(w) \/ ReadUsage(w) \/ ReadOwner(w) \/ CompareOwners(w)
    \/ InsertRow(w) \/ AckUsage(w) \/ RestartLedger(w)

LedgerNext ==
    \/ MergeAccounts
    \/ \E f \in UsageFacts : PublishFact(f) \/ GiveUpFact(f)
    \/ \E w \in Ledgers : LedgerStep(w) \/ LedgerFails(w)

\* Consumer.Run loops, and its supervisor starts it again.  Publishers and
\* accounts may rest for ever.
LedgerSpec == LedgerInit /\ [][LedgerNext]_ledgerVars /\ \A w \in Ledgers : WF_ledgerVars(LedgerStep(w))

-----------------------------------------------------------------------------
\* UseCases.SessionUsage: who may ask, and the facts the answer sums up.
Entitled(a) == Canonical(a) = Canonical(Owner)
SessionUsage(a) == {f \in UsageFacts : rows[f] \in Lineage(a)}

\* The facts the outbox accepted are all, again and again, in every sum the
\* session's owner can ask for, under either account, although answers and
\* consumers are lost and the accounts are merged between any two reads
\* (Consumer.ProcessOnce, consumer.go:57; UseCases.Record, service.go:42).
UsageCounted ==
    []<>(\A f \in UsageFacts, a \in Billable :
            (fact[f].at = "accepted" /\ Entitled(a)) => f \in SessionUsage(a))
=============================================================================
