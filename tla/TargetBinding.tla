--------------------------- MODULE TargetBinding ----------------------------
(***************************************************************************)
(* Binding of an account's delivery targets: the mailed challenge that     *)
(* proves an address, targets bound by code or URL, revocation, and the    *)
(* preference that makes a target automatic.                               *)
(***************************************************************************)
EXTENDS Integers, FiniteSets

CONSTANTS
    Challenges,  \* email challenges
    Addresses,   \* addresses of the account's owner
    Binders,     \* concurrent bind requests
    Channels,    \* channels bound without a challenge: wechat, webhook
    Free,        \* "nothing"
    MaxSends,    \* challenges an account may request within the window
    MaxBreaks    \* bound: crashes and failing stores

ASSUME BindingAssumption == MaxSends \in Nat \ {0} /\ MaxBreaks \in Nat /\ "email" \notin Channels

VARIABLES
    challenge,   \* row of email_bind_challenges
    cooling,     \* a challenge was created less than the cooldown ago
    binder,      \* where each bind request is
    target,      \* row of account_destinations per channel
    preference,  \* row of message_preferences per channel
    proved,      \* bindings reported as done per challenge
    breaks       \* faults so far

bindingVars == <<challenge, cooling, binder, target, preference, proved, breaks>>

Bound == Channels \cup {"email"}
Unbound == [status |-> "none", address |-> Free]
Unissued == [issued |-> FALSE, mailed |-> FALSE, used |-> FALSE, expired |-> FALSE, address |-> Free]
FreeBinder == [at |-> "idle", subject |-> Free]

BindingTypeOK ==
    /\ challenge \in [Challenges -> [issued : BOOLEAN, mailed : BOOLEAN, used : BOOLEAN,
                                     expired : BOOLEAN, address : Addresses \cup {Free}]]
    /\ binder \in [Binders -> [at : {"idle", "bind", "restore", "prefer", "store"},
                               subject : Challenges \cup Channels \cup {Free, "email"}]]
    /\ target \in [Bound -> [status : {"none", "verified", "revoked"}, address : Addresses \cup {Free}]]
    /\ preference \in [Bound -> {"none", "enabled", "disabled"}]
    /\ cooling \in BOOLEAN /\ breaks \in 0 .. MaxBreaks
    /\ \A c \in Challenges : proved[c] \in Nat

BindingInit ==
    /\ challenge = [c \in Challenges |-> Unissued]
    /\ cooling = FALSE
    /\ binder = [b \in Binders |-> FreeBinder]
    /\ target = [x \in Bound |-> Unbound]
    /\ preference = [x \in Bound |-> "none"]
    /\ proved = [c \in Challenges |-> 0]
    /\ breaks = 0

Break == breaks < MaxBreaks /\ breaks' = breaks + 1
BinderAt(b, place) == binder[b].at = place
BinderGoes(b, place, subject) == binder' = [binder EXCEPT ![b] = [at |-> place, subject |-> subject]]
Issued == {c \in Challenges : challenge[c].issued}

-----------------------------------------------------------------------------
\* CreateEmailBindChallenge, serialized per account; then the token is mailed,
\* or is lost with a failing mailer.
RequestVerification(c, address) ==
    /\ ~challenge[c].issued
    /\ ~cooling /\ Cardinality(Issued) < MaxSends
    /\ \/ challenge' = [challenge EXCEPT ![c] =
                [Unissued EXCEPT !.issued = TRUE, !.mailed = TRUE, !.address = address]]
          /\ UNCHANGED breaks
       \/ challenge' = [challenge EXCEPT ![c] =
                [Unissued EXCEPT !.issued = TRUE, !.address = address]] /\ Break
    /\ cooling' = TRUE
    /\ UNCHANGED <<binder, target, preference, proved>>

CooldownEnds == cooling /\ cooling' = FALSE
                /\ UNCHANGED <<challenge, binder, target, preference, proved, breaks>>

ChallengeExpires(c) ==
    /\ challenge[c].issued /\ ~challenge[c].expired
    /\ challenge' = [challenge EXCEPT ![c].expired = TRUE]
    /\ UNCHANGED <<cooling, binder, target, preference, proved, breaks>>

\* Bug: a challenge in use may be taken again.
Usable_InUse(c) == challenge[c].mailed /\ ~challenge[c].expired

Usable(c) == challenge[c].mailed /\ ~challenge[c].used /\ ~challenge[c].expired

\* ConsumeEmailBindChallenge: one statement takes the challenge.
Consume(b, c) ==
    /\ BinderAt(b, "idle") /\ Usable(c)
    /\ challenge' = [challenge EXCEPT ![c].used = TRUE]
    /\ BinderGoes(b, "bind", c)
    /\ UNCHANGED <<cooling, target, preference, proved, breaks>>

Verified(x, address) == target' = [target EXCEPT ![x] = [status |-> "verified", address |-> address]]

\* BindEmailTarget; an error, even of a bind that committed, gives the
\* challenge back.
Bind(b) ==
    LET c == binder[b].subject IN
    /\ BinderAt(b, "bind")
    /\ \/ /\ Verified("email", challenge[c].address)
          /\ proved' = [proved EXCEPT ![c] = @ + 1]
          /\ binder' = [binder EXCEPT ![b] = FreeBinder] /\ UNCHANGED breaks
       \/ /\ Verified("email", challenge[c].address) \/ UNCHANGED target
          /\ BinderGoes(b, "restore", c) /\ Break /\ UNCHANGED proved
    /\ UNCHANGED <<challenge, cooling, preference>>

Restore(b) ==
    LET c == binder[b].subject IN
    /\ BinderAt(b, "restore")
    /\ \/ /\ challenge' = [challenge EXCEPT ![c].used = @ /\ challenge[c].expired]
          /\ UNCHANGED breaks
       \/ UNCHANGED challenge /\ Break
    /\ binder' = [binder EXCEPT ![b] = FreeBinder]
    /\ UNCHANGED <<cooling, target, preference, proved>>

\* BindWeChatTarget, BindWebhookTarget: the address comes with the request; a
\* webhook is also made automatic, by a second statement.
BindDirect(b, x, address) ==
    /\ BinderAt(b, "idle") /\ x \in Channels
    /\ Verified(x, address)
    /\ IF x = "webhook" THEN BinderGoes(b, "prefer", x) ELSE UNCHANGED binder
    /\ UNCHANGED <<challenge, cooling, preference, proved, breaks>>

\* PutPreference: enabling needs a verified target when it is read.
Prefer(b, x) ==
    /\ \/ BinderAt(b, "idle")
       \/ BinderAt(b, "prefer") /\ binder[b].subject = x
    /\ IF target[x].status = "verified" THEN BinderGoes(b, "store", x)
       ELSE binder' = [binder EXCEPT ![b] = FreeBinder]
    /\ UNCHANGED <<challenge, cooling, target, preference, proved, breaks>>

StorePreference(b) ==
    /\ BinderAt(b, "store")
    /\ preference' = [preference EXCEPT ![binder[b].subject] = "enabled"]
    /\ binder' = [binder EXCEPT ![b] = FreeBinder]
    /\ UNCHANGED <<challenge, cooling, target, proved, breaks>>

Disable(x) ==
    /\ preference' = [preference EXCEPT ![x] = "disabled"]
    /\ UNCHANGED <<challenge, cooling, binder, target, proved, breaks>>

\* RevokeMessageTarget leaves the preference alone.
Revoke(x) ==
    /\ target[x].status = "verified"
    /\ target' = [target EXCEPT ![x].status = "revoked"]
    /\ UNCHANGED <<challenge, cooling, binder, preference, proved, breaks>>

\* HasReadyAutomaticTarget, which language configuration asks before it allows
\* an output without speech.
ReadyTargets == {x \in Bound : preference[x] = "enabled" /\ target[x].status = "verified"}

\* A bind request ends with its process; the challenge it took stays used.
BinderCrash(b) ==
    /\ ~BinderAt(b, "idle") /\ Break
    /\ binder' = [binder EXCEPT ![b] = FreeBinder]
    /\ UNCHANGED <<challenge, cooling, target, preference, proved>>

BindingNext ==
    \/ CooldownEnds
    \/ \E c \in Challenges : ChallengeExpires(c) \/ \E address \in Addresses : RequestVerification(c, address)
    \/ \E x \in Bound : Disable(x) \/ Revoke(x)
    \/ \E b \in Binders :
        \/ Bind(b) \/ Restore(b) \/ StorePreference(b) \/ BinderCrash(b)
        \/ \E c \in Challenges : Consume(b, c)
        \/ \E x \in Bound : Prefer(b, x) \/ \E address \in Addresses : BindDirect(b, x, address)

BindingSpec == BindingInit /\ [][BindingNext]_bindingVars

-----------------------------------------------------------------------------
\* A mailed token proves one binding: giving a challenge back after a failed
\* bind does not let another request report a second one (service.go:597).
ProvedOnce == \A c \in Challenges : proved[c] <= 1
=============================================================================
