------------------------------ MODULE Accounts ------------------------------
(***************************************************************************)
(* Accounts and their login sessions: anonymous accounts, phone            *)
(* verification with one-time codes, the merge of an anonymous account     *)
(* into a registered one, and rotation of refresh tokens.                  *)
(***************************************************************************)
EXTENDS Integers

CONSTANTS
    Anonymous,   \* ids of anonymous accounts
    Registered,  \* ids of registered accounts
    Phones,      \* phone numbers
    Codes,       \* ids of phone challenges, each with its one-time code
    Tokens,      \* login sessions, each with its refresh token
    Callers,     \* requests in progress
    Nobody,      \* "no account", "no phone", "no challenge", "no token"
    MaxGuesses,  \* wrong codes a challenge admits
    MaxMishaps   \* bound: failing calls and crashes

ASSUME AccountAssumption ==
    /\ MaxGuesses \in Nat /\ MaxMishaps \in Nat
    /\ Anonymous \cap Registered = {}
    /\ Nobody \notin Anonymous \cup Registered \cup Phones \cup Codes \cup Tokens
    /\ {"none", "live"} \cap Registered = {}

VARIABLES
    anonymous,   \* rows of anonymous accounts: none, live, or the account merged into
    registered,  \* rows of registered accounts: their phone and its digest
    token,       \* rows of lingow_auth_sessions
    code,        \* rows of lingow_phone_challenges
    caller,      \* where each request is
    mishaps

accountVars == <<anonymous, registered, token, code, caller, mishaps>>

Steps == {"idle", "issue", "current", "legacy", "upgrade", "insert", "finish", "restore", "account", "rotate"}
Unwritten == [phone |-> Nobody, digest |-> "none"]
NoToken == [state |-> "free", account |-> Nobody]
Unsent == [phone |-> Nobody, state |-> "none", guesses |-> 0, verified |-> 0]
FreeCaller == [at |-> "idle", code |-> Nobody, guest |-> Nobody, account |-> Nobody, token |-> Nobody]

AccountTypeOK ==
    /\ anonymous \in [Anonymous -> {"none", "live"} \cup Registered]
    /\ registered \in [Registered -> [phone : Phones \cup {Nobody}, digest : {"none", "legacy", "current"}]]
    /\ token \in [Tokens -> [state : {"free", "active", "revoked"},
                             account : Anonymous \cup Registered \cup {Nobody}]]
    /\ code \in [Codes -> [phone : Phones \cup {Nobody}, state : {"none", "sent", "used", "expired"},
                           guesses : 0 .. MaxGuesses, verified : Nat]]
    /\ caller \in [Callers -> [at : Steps, code : Codes \cup {Nobody}, guest : Anonymous \cup {Nobody},
                               account : Anonymous \cup Registered \cup {Nobody}, token : Tokens \cup {Nobody}]]
    /\ mishaps \in 0 .. MaxMishaps

OneRowPerPhone ==
    \A r, s \in Registered : registered[r].phone = registered[s].phone => r = s \/ registered[r].phone \notin Phones

\* Accounts written before the keyed digest hold the legacy one.
AccountInit ==
    /\ anonymous = [a \in Anonymous |-> "none"]
    /\ registered \in [Registered -> {Unwritten} \cup [phone : Phones, digest : {"legacy"}]]
    /\ OneRowPerPhone
    /\ token = [t \in Tokens |-> NoToken]
    /\ code = [c \in Codes |-> Unsent]
    /\ caller = [k \in Callers |-> FreeCaller]
    /\ mishaps = 0

CallerAt(k, place) == caller[k].at = place
Goes(k, place) == caller' = [caller EXCEPT ![k].at = place]
Leaves(k) == caller' = [caller EXCEPT ![k] = FreeCaller]
Mishap == mishaps < MaxMishaps /\ mishaps' = mishaps + 1
Live(account) == IF account \in Anonymous THEN anonymous[account] = "live"
                 ELSE registered[account].digest # "none"
With(p, digest) == {r \in Registered : registered[r] = [phone |-> p, digest |-> digest]}

\* Ids are random: any row not written yet.
FreeTokens == {t \in Tokens : token[t].state = "free"}
FreshToken == CHOOSE t \in FreeTokens : TRUE
FreshRow == CHOOSE r \in Registered : registered[r] = Unwritten
FreshCode == CHOOSE c \in Codes : code[c] = Unsent
NewToken(account) ==
    /\ FreeTokens # {}
    /\ token' = [token EXCEPT ![FreshToken] = [state |-> "active", account |-> account]]

-----------------------------------------------------------------------------
\* CreateAnonymous: the account, then its session.
CreateAnonymous(k, a) ==
    /\ CallerAt(k, "idle") /\ anonymous[a] = "none"
    /\ anonymous' = [anonymous EXCEPT ![a] = "live"]
    /\ caller' = [caller EXCEPT ![k] = [FreeCaller EXCEPT !.at = "issue", !.account = a]]
    /\ UNCHANGED <<registered, token, code, mishaps>>

IssueSession(k) ==
    /\ CallerAt(k, "issue")
    /\ NewToken(caller[k].account)
    /\ Leaves(k)
    /\ UNCHANGED <<anonymous, registered, code, mishaps>>

\* A challenge is kept when sending it fails (service.go:93); after the cooldown
\* a phone gets another one while the first can still be used.
CreatePhoneChallenge(p) ==
    /\ \E c \in Codes : code[c] = Unsent
    /\ code' = [code EXCEPT ![FreshCode] = [phone |-> p, state |-> "sent", guesses |-> 0, verified |-> 0]]
    /\ UNCHANGED <<anonymous, registered, token, caller, mishaps>>

\* A wrong code is counted in a transaction of its own.
Guess(c) ==
    /\ code[c].state = "sent" /\ code[c].guesses < MaxGuesses
    /\ code' = [code EXCEPT ![c].guesses = @ + 1]
    /\ UNCHANGED <<anonymous, registered, token, caller, mishaps>>

CodeExpires(c) ==
    /\ code[c].state \in {"sent", "used"}
    /\ code' = [code EXCEPT ![c].state = "expired"]
    /\ UNCHANGED <<anonymous, registered, token, caller, mishaps>>

\* ConsumeChallenge; a caller that names its anonymous account is logged in as it.
ConsumeChallenge(k, c, guest) ==
    /\ CallerAt(k, "idle")
    /\ code[c].state = "sent" /\ code[c].guesses < MaxGuesses
    /\ guest # Nobody => \E t \in Tokens : token[t] = [state |-> "active", account |-> guest]
    /\ code' = [code EXCEPT ![c].state = "used"]
    /\ caller' = [caller EXCEPT ![k] = [FreeCaller EXCEPT !.at = "current", !.code = c, !.guest = guest]]
    /\ UNCHANGED <<anonymous, registered, token, mishaps>>

\* FindOrCreateByPhoneHashes: one statement each.
PhoneOf(k) == code[caller[k].code].phone
Found(k, r, place) == caller' = [caller EXCEPT ![k].at = place, ![k].account = r]

FindCurrent(k) ==
    /\ CallerAt(k, "current")
    /\ \/ \E r \in With(PhoneOf(k), "current") : Found(k, r, "finish")
       \/ With(PhoneOf(k), "current") = {} /\ Goes(k, "legacy")
    /\ UNCHANGED <<anonymous, registered, token, code, mishaps>>

FindLegacy(k) ==
    /\ CallerAt(k, "legacy")
    /\ \/ \E r \in With(PhoneOf(k), "legacy") : Found(k, r, "upgrade")
       \/ With(PhoneOf(k), "legacy") = {} /\ Goes(k, "insert")
    /\ UNCHANGED <<anonymous, registered, token, code, mishaps>>

Upgrade(k) ==
    /\ CallerAt(k, "upgrade")
    /\ registered' = [registered EXCEPT ![caller[k].account].digest = "current"]
    /\ Goes(k, "finish")
    /\ UNCHANGED <<anonymous, token, code, mishaps>>

\* ON CONFLICT DO NOTHING, then the row that holds the digest is read.
Insert(k) ==
    LET p == PhoneOf(k) IN
    /\ CallerAt(k, "insert")
    /\ \/ \E r \in With(p, "current") : Found(k, r, "finish") /\ UNCHANGED registered
       \/ /\ With(p, "current") = {}
          /\ \E r \in Registered : registered[r] = Unwritten
          /\ registered' = [registered EXCEPT ![FreshRow] = [phone |-> p, digest |-> "current"]]
          /\ Found(k, FreshRow, "finish")
    /\ UNCHANGED <<anonymous, token, code, mishaps>>

\* The session is in force; its answer may still be an error.
Concludes(k) ==
    \/ code' = [code EXCEPT ![caller[k].code].verified = @ + 1] /\ Leaves(k) /\ UNCHANGED mishaps
    \/ Goes(k, "restore") /\ Mishap /\ UNCHANGED code

\* issueSession for the account of the phone.
FinishLogin(k) ==
    /\ CallerAt(k, "finish") /\ caller[k].guest = Nobody
    /\ NewToken(caller[k].account)
    /\ Concludes(k)
    /\ UNCHANGED <<anonymous, registered>>

\* BindAnonymousAndCreateSession moves the guest's sessions, merges it and adds
\* a session in one transaction; a guest merged elsewhere is a conflict.
Mergeable(k) == anonymous[caller[k].guest] \in {"live", caller[k].account}

\* Bug: the guest's sessions are left with the account that is merged away.
FinishMerge_LeavesSessions(k) ==
    /\ CallerAt(k, "finish") /\ caller[k].guest # Nobody /\ Mergeable(k)
    /\ anonymous' = [anonymous EXCEPT ![caller[k].guest] = caller[k].account]
    /\ NewToken(caller[k].account)
    /\ Concludes(k)
    /\ UNCHANGED registered

FinishMerge(k) ==
    LET guest == caller[k].guest
        owner == caller[k].account
    IN
    /\ CallerAt(k, "finish") /\ guest # Nobody /\ Mergeable(k)
    /\ anonymous' = [anonymous EXCEPT ![guest] = owner]
    /\ FreeTokens # {}
    /\ token' = [t \in Tokens |->
            IF t = FreshToken THEN [state |-> "active", account |-> owner]
            ELSE IF token[t].account = guest THEN [token[t] EXCEPT !.account = owner]
            ELSE token[t]]
    /\ Concludes(k)
    /\ UNCHANGED registered

MergeRefused(k) ==
    /\ CallerAt(k, "finish") /\ caller[k].guest # Nobody /\ ~Mergeable(k)
    /\ Goes(k, "restore")
    /\ UNCHANGED <<anonymous, registered, token, code, mishaps>>

\* Any error after the code was consumed gives it back.
VerifyFails(k) ==
    /\ caller[k].at \in {"current", "legacy", "upgrade", "insert", "finish"}
    /\ Mishap /\ Goes(k, "restore")
    /\ UNCHANGED <<anonymous, registered, token, code>>

RestoreChallenge(k) ==
    /\ CallerAt(k, "restore")
    /\ code' = [code EXCEPT ![caller[k].code].state = IF @ = "used" THEN "sent" ELSE @]
    /\ Leaves(k)
    /\ UNCHANGED <<anonymous, registered, token, mishaps>>

\* Refresh: the session by its token, its account, and one transaction that
\* revokes it and inserts its successor.
RefreshTokens(k, t) ==
    /\ CallerAt(k, "idle") /\ token[t].state = "active"
    /\ caller' = [caller EXCEPT ![k] = [FreeCaller EXCEPT
                    !.at = "account", !.token = t, !.account = token[t].account]]
    /\ UNCHANGED <<anonymous, registered, token, code, mishaps>>

ReadAccount(k) ==
    /\ CallerAt(k, "account")
    /\ IF Live(caller[k].account) THEN Goes(k, "rotate") ELSE Leaves(k)
    /\ UNCHANGED <<anonymous, registered, token, code, mishaps>>

Rotatable(k) == token[caller[k].token] = [state |-> "active", account |-> caller[k].account]

Rotate(k) ==
    /\ CallerAt(k, "rotate")
    /\ \/ /\ Rotatable(k)
          /\ FreeTokens # {}
          /\ token' = [token EXCEPT ![caller[k].token].state = "revoked",
                                    ![FreshToken] = [state |-> "active", account |-> caller[k].account]]
       \/ ~Rotatable(k) /\ UNCHANGED token
    /\ Leaves(k)
    /\ UNCHANGED <<anonymous, registered, code, mishaps>>

\* Logout, or the maintenance that revokes what has expired.
RevokeSession(t) ==
    /\ token[t].state = "active"
    /\ token' = [token EXCEPT ![t].state = "revoked"]
    /\ UNCHANGED <<anonymous, registered, code, caller, mishaps>>

CallerCrash(k) ==
    /\ ~CallerAt(k, "idle") /\ Mishap /\ Leaves(k)
    /\ UNCHANGED <<anonymous, registered, token, code>>

CallerStep(k) ==
    \/ IssueSession(k) \/ FindCurrent(k) \/ FindLegacy(k) \/ Upgrade(k) \/ Insert(k)
    \/ FinishLogin(k) \/ FinishMerge(k) \/ MergeRefused(k) \/ VerifyFails(k) \/ RestoreChallenge(k)
    \/ ReadAccount(k) \/ Rotate(k) \/ CallerCrash(k)
    \/ \E a \in Anonymous : CreateAnonymous(k, a)
    \/ \E c \in Codes : \E guest \in Anonymous \cup {Nobody} : ConsumeChallenge(k, c, guest)
    \/ \E t \in Tokens : RefreshTokens(k, t)

AccountNext ==
    \/ \E p \in Phones : CreatePhoneChallenge(p)
    \/ \E c \in Codes : Guess(c) \/ CodeExpires(c)
    \/ \E t \in Tokens : RevokeSession(t)
    \/ \E k \in Callers : CallerStep(k)

AccountSpec == AccountInit /\ [][AccountNext]_accountVars

-----------------------------------------------------------------------------
\* A login session in force belongs to an account that was not merged away, even
\* when a refresh or another verification meets the merge (postgres.go:25 names
\* the owner); a phone has one account, legacy or not; a code logs in once.
CredentialOwner ==
    /\ \A t \in Tokens : token[t].state = "active" => Live(token[t].account)
    /\ OneRowPerPhone
    /\ \A c \in Codes : code[c].verified <= 1
=============================================================================
