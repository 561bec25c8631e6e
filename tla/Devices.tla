------------------------------ MODULE Devices ------------------------------
(* Devices of an account: pairing by a code of the account, authentication by *)
(* a signed nonce, the token it yields, and the voice sessions a device (or   *)
(* the account's own page) creates under an idempotency key.  Each call reads *)
(* before it writes, and each transaction is one step.                        *)
(*                                                                            *)
(* Left out: the signatures (a device signs for itself; a request whose       *)
(* signature does not verify is refused before it writes), the account kind   *)
(* that may ask for a code, and the body under a reused key (a conflict).     *)
EXTENDS Naturals, FiniteSets

CONSTANTS Owners,       \* registered accounts
          Gadgets,      \* provisioned devices
          PairCodes,    \* pairing codes that accounts may ask for
          Nonces,       \* ids of device challenges
          DeviceCalls,  \* requests
          VoiceRows,    \* ids of voice sessions
          CreateKeys,   \* idempotency keys of session creation
          Noone,        \* no account, device, row, code or nonce
          MaxLapses     \* codes, challenges and tokens that expire

ASSUME DevicesAssumption ==
    /\ Noone \notin Owners \cup Gadgets \cup VoiceRows \cup PairCodes \cup Nonces
    /\ MaxLapses \in Nat

VARIABLES
    gadget,   \* lingow_devices: [account, revoked]
    pairing,  \* lingow_device_pairing_codes: [account, is]
    nonce,    \* lingow_device_auth_challenges: [gadget, is]
    tokens,   \* device tokens that have not expired: [account, gadget]
    voiceRow, \* voice_sessions with lingow_device_voice_sessions: [account, gadget]
    keyed,    \* voice_session_create_requests: [Owners -> [CreateKeys -> row]]
    call,     \* [at, gadget, account, arg, key, row]
    boundBy,  \* the code that bound a device
    issued,   \* tokens issued for a nonce
    lapses

deviceVars == <<gadget, pairing, nonce, tokens, voiceRow, keyed, call, boundBy, issued, lapses>>

Unheard == [at |-> "new", gadget |-> Noone, account |-> Noone, arg |-> Noone,
            key |-> Noone, row |-> Noone]
NoRow == [account |-> Noone, gadget |-> Noone]

DevicesInit ==
    /\ gadget = [g \in Gadgets |-> [account |-> Noone, revoked |-> FALSE]]
    /\ pairing = [k \in PairCodes |-> [account |-> Noone, is |-> "none"]]
    /\ nonce = [n \in Nonces |-> [gadget |-> Noone, is |-> "none"]]
    /\ tokens = {}
    /\ voiceRow = [r \in VoiceRows |-> NoRow]
    /\ keyed = [o \in Owners |-> [k \in CreateKeys |-> Noone]]
    /\ call = [c \in DeviceCalls |-> Unheard]
    /\ boundBy = [g \in Gadgets |-> Noone]
    /\ issued = [n \in Nonces |-> 0]
    /\ lapses = 0

Active(g) == ~gadget[g].revoked
ActiveBound(g, o) == Active(g) /\ gadget[g].account = o
Goto(c, at) == call' = [call EXCEPT ![c].at = at]

\* A request that ended makes room for the next one.  The answer of a created or
\* owned session and a signed nonce, which may be sent again, are remembered.
Spare(c) == call[c].at \in {"new", "spent", "answered"}
EndsCall(c) == call' = [call EXCEPT ![c] = Unheard]

-----------------------------------------------------------------------------
(* Pairing.                                                                   *)

CreatePairingCode(o, k) ==
    /\ pairing[k].is = "none"
    /\ pairing' = [pairing EXCEPT ![k] = [account |-> o, is |-> "open"]]
    /\ UNCHANGED <<gadget, nonce, tokens, voiceRow, keyed, call, boundBy, issued, lapses>>

\* Pair: GetActive and the signature; the device shows any code it was given.
PairDevice(c, g, k) ==
    /\ Spare(c) /\ Active(g) /\ pairing[k].is # "none"
    /\ call' = [call EXCEPT ![c] = [Unheard EXCEPT !.at = "bind", !.gadget = g, !.arg = k]]
    /\ UNCHANGED <<gadget, pairing, nonce, tokens, voiceRow, keyed, boundBy, issued, lapses>>

\* Bug: the code is looked up without its used_at.
CodeOpen_UsedToo(k) == pairing[k].is \in {"open", "used"}

CodeOpen(k) == pairing[k].is = "open"

\* One transaction with both rows locked.
BindWithPairingCode(c) ==
    LET g == call[c].gadget
        k == call[c].arg
    IN
    /\ call[c].at = "bind"
    /\ \/ /\ Active(g) /\ gadget[g].account = Noone /\ CodeOpen(k)
          /\ pairing' = [pairing EXCEPT ![k].is = "used"]
          /\ gadget' = [gadget EXCEPT ![g].account = pairing[k].account]
          /\ boundBy' = [boundBy EXCEPT ![g] = k]
       \/ /\ ~(Active(g) /\ gadget[g].account = Noone /\ CodeOpen(k))
          /\ UNCHANGED <<gadget, pairing, boundBy>>
    /\ EndsCall(c)
    /\ UNCHANGED <<nonce, tokens, voiceRow, keyed, issued, lapses>>

\* Only the bound account revokes, and only once; nothing else changes a row.
RevokeDevice(o, g) ==
    /\ ActiveBound(g, o)
    /\ gadget' = [gadget EXCEPT ![g].revoked = TRUE]
    /\ UNCHANGED <<pairing, nonce, tokens, voiceRow, keyed, call, boundBy, issued, lapses>>

-----------------------------------------------------------------------------
(* Authentication.                                                            *)

AskChallenge(c, g) ==
    /\ Spare(c) /\ Active(g) /\ gadget[g].account # Noone
    /\ call' = [call EXCEPT ![c] = [Unheard EXCEPT !.at = "challenge", !.gadget = g]]
    /\ UNCHANGED <<gadget, pairing, nonce, tokens, voiceRow, keyed, boundBy, issued, lapses>>

Unused == {"open", "expired"}
Rows(g, is) == {n \in Nonces : nonce[n].gadget = g /\ nonce[n].is \in is}

\* DELETE of the device's used and expired rows and INSERT ... ON CONFLICT
\* (device_id) WHERE used_at IS NULL DO UPDATE are one statement: both see the rows
\* of its start, in an order PostgreSQL leaves open.  A conflicting row that is
\* updated first is not deleted any more, and is the row that is returned.
CreateChallenge(c, n) ==
    LET g == call[c].gadget
        Kept(k) == \/ nonce[k].gadget # g
                   \/ nonce[k].is \notin {"used", "expired"}
    IN
    /\ call[c].at = "challenge"
    /\ \/ /\ n \in Rows(g, Unused)
          /\ nonce' = [k \in Nonces |-> IF Kept(k) \/ k = n THEN nonce[k]
                                        ELSE [nonce[k] EXCEPT !.is = "gone"]]
       \/ /\ nonce[n].is = "none" /\ Rows(g, {"open"}) = {}
          /\ nonce' = [k \in Nonces |-> IF k = n THEN [gadget |-> g, is |-> "open"]
                                        ELSE IF Kept(k) THEN nonce[k]
                                        ELSE [nonce[k] EXCEPT !.is = "gone"]]
    /\ call' = [call EXCEPT ![c].at = "sign", ![c].arg = n]
    /\ UNCHANGED <<gadget, pairing, tokens, voiceRow, keyed, boundBy, issued, lapses>>

\* ExchangeChallenge: GetActive, GetChallenge and the signature over its nonce.
ExchangeChallenge(c) ==
    LET valid == Active(call[c].gadget) /\ nonce[call[c].arg].is = "open" IN
    /\ call[c].at = "sign"
    /\ Goto(c, IF valid THEN "consume" ELSE "spent")
    /\ UNCHANGED <<gadget, pairing, nonce, tokens, voiceRow, keyed, boundBy, issued, lapses>>

\* A request that was answered late, or a second one with the same signature.
Resend(c, d) ==
    /\ Spare(c) /\ call[d].arg \in Nonces
    /\ call[d].at \in {"sign", "consume", "spent"}
    /\ call' = [call EXCEPT ![c] = [call[d] EXCEPT !.at = "sign"]]
    /\ UNCHANGED <<gadget, pairing, nonce, tokens, voiceRow, keyed, boundBy, issued, lapses>>

\* Bug: the challenge is consumed by its id alone.
Consumable_ByIdAlone(n, g) == nonce[n].gadget = g

Consumable(n, g) == nonce[n].gadget = g /\ nonce[n].is = "open"

\* One transaction, after which Issue signs a token for the device it returned.
ConsumeNonce(c) ==
    LET g == call[c].gadget
        n == call[c].arg
        token == [account |-> gadget[g].account, gadget |-> g]
    IN
    /\ call[c].at = "consume"
    /\ \/ /\ Consumable(n, g) /\ Active(g)
          /\ nonce' = [nonce EXCEPT ![n].is = "used"]
          /\ tokens' = tokens \cup {token}
          /\ issued' = [issued EXCEPT ![n] = @ + 1]
       \/ /\ ~(Consumable(n, g) /\ Active(g))
          /\ UNCHANGED <<nonce, tokens, issued>>
    /\ Goto(c, "spent")
    /\ UNCHANGED <<gadget, pairing, voiceRow, keyed, boundBy, lapses>>

-----------------------------------------------------------------------------
(* Sessions of a device, and of the account's page (gadget = Noone).          *)

\* Authenticate: Verify checks the token and that the device is still active.
CreateSession(c, o, g, k) ==
    /\ Spare(c)
    /\ g # Noone => [account |-> o, gadget |-> g] \in tokens /\ ActiveBound(g, o)
    /\ call' = [call EXCEPT ![c] = [Unheard EXCEPT !.at = "create", !.gadget = g,
                                                   !.account = o, !.key = k]]
    /\ UNCHANGED <<gadget, pairing, nonce, tokens, voiceRow, keyed, boundBy, issued, lapses>>

Mine(c, r) == call[c].gadget \in {Noone, voiceRow[r].gadget}

\* Bug: a replay answers a device with the session of another one.
Replayed_AnyDevice(c, r) == call' = [call EXCEPT ![c].at = "answered", ![c].row = r]

\* verifyDeviceSession comes after the session was read by its owner.
Replayed(c, r) ==
    IF Mine(c, r) THEN call' = [call EXCEPT ![c].at = "answered", ![c].row = r]
                  ELSE EndsCall(c)

\* Another transaction's insert takes no row of this one: only a committed session
\* has one.  An id is new.
Fresh(r) == voiceRow[r] = NoRow /\ \A d \in DeviceCalls : call[d].row # r

FindCreateRequest(c, r) ==
    LET o == call[c].account
        found == keyed[o][call[c].key]
    IN
    /\ call[c].at = "create"
    /\ \/ /\ found # Noone /\ Replayed(c, found)
       \/ /\ found = Noone /\ Fresh(r)
          /\ call[c].gadget # Noone => ActiveBound(call[c].gadget, o)
          /\ call' = [call EXCEPT ![c].at = "insert", ![c].row = r]
       \/ /\ found = Noone
          /\ call[c].gadget # Noone /\ ~ActiveBound(call[c].gadget, o)
          /\ EndsCall(c)
    /\ UNCHANGED <<gadget, pairing, nonce, tokens, voiceRow, keyed, boundBy, issued, lapses>>

\* INSERT ... ON CONFLICT DO NOTHING waits for the other transaction; the winner
\* commits its session, the loser rolls its own back and answers the winner's.
CommitCreate(c) ==
    LET o == call[c].account
        r == call[c].row
        winner == keyed[o][call[c].key]
    IN
    /\ call[c].at = "insert"
    /\ \/ /\ winner = Noone
          /\ voiceRow' = [voiceRow EXCEPT ![r] = [account |-> o, gadget |-> call[c].gadget]]
          /\ keyed' = [keyed EXCEPT ![o][call[c].key] = r]
          /\ Goto(c, "answered")
       \/ /\ winner # Noone
          /\ call' = [call EXCEPT ![c].at = "replay", ![c].row = Noone]
          /\ UNCHANGED <<voiceRow, keyed>>
    /\ UNCHANGED <<gadget, pairing, nonce, tokens, boundBy, issued, lapses>>

ReplayCreate(c) ==
    /\ call[c].at = "replay"
    /\ Replayed(c, keyed[call[c].account][call[c].key])
    /\ UNCHANGED <<gadget, pairing, nonce, tokens, voiceRow, keyed, boundBy, issued, lapses>>

\* deviceExisting: start, end or ticket of a session, after Authenticate.
DeviceExisting(c, o, g, r) ==
    /\ Spare(c) /\ voiceRow[r] # NoRow
    /\ [account |-> o, gadget |-> g] \in tokens /\ ActiveBound(g, o)
    /\ call' = [call EXCEPT ![c] = [Unheard EXCEPT !.at = "owns", !.gadget = g,
                                                   !.account = o, !.arg = r]]
    /\ UNCHANGED <<gadget, pairing, nonce, tokens, voiceRow, keyed, boundBy, issued, lapses>>

OwnsSession(c) ==
    LET r == call[c].arg IN
    /\ call[c].at = "owns"
    /\ \/ /\ voiceRow[r] = [account |-> call[c].account, gadget |-> call[c].gadget]
          /\ call' = [call EXCEPT ![c].at = "answered", ![c].row = r]
       \/ /\ voiceRow[r] # [account |-> call[c].account, gadget |-> call[c].gadget]
          /\ EndsCall(c)
    /\ UNCHANGED <<gadget, pairing, nonce, tokens, voiceRow, keyed, boundBy, issued, lapses>>

-----------------------------------------------------------------------------
\* Ten minutes for a code, two for a challenge, fifteen for a token.
Lapse ==
    /\ lapses < MaxLapses /\ lapses' = lapses + 1
    /\ \/ \E k \in PairCodes :
             /\ pairing[k].is = "open"
             /\ pairing' = [pairing EXCEPT ![k].is = "expired"]
             /\ UNCHANGED <<nonce, tokens>>
       \/ \E n \in Nonces :
             /\ nonce[n].is = "open"
             /\ nonce' = [nonce EXCEPT ![n].is = "expired"]
             /\ UNCHANGED <<pairing, tokens>>
       \/ \E t \in tokens :
             /\ tokens' = tokens \ {t}
             /\ UNCHANGED <<pairing, nonce>>
    /\ UNCHANGED <<gadget, voiceRow, keyed, call, boundBy, issued>>

\* The client gives up, or the database fails: what was not committed is not.
GiveUp(c) ==
    /\ ~Spare(c)
    /\ IF call[c].arg \in Nonces THEN Goto(c, "spent") ELSE EndsCall(c)
    /\ UNCHANGED <<gadget, pairing, nonce, tokens, voiceRow, keyed, boundBy, issued, lapses>>

CallStep(c) ==
    \/ BindWithPairingCode(c)
    \/ \E n \in Nonces : CreateChallenge(c, n)
    \/ ExchangeChallenge(c) \/ ConsumeNonce(c)
    \/ \E r \in VoiceRows : FindCreateRequest(c, r)
    \/ CommitCreate(c) \/ ReplayCreate(c) \/ OwnsSession(c) \/ GiveUp(c)

CallBegins(c) ==
    \/ \E g \in Gadgets : \/ \E k \in PairCodes : PairDevice(c, g, k)
                          \/ AskChallenge(c, g)
    \/ \E d \in DeviceCalls : Resend(c, d)
    \/ \E o \in Owners :
          \/ \E g \in Gadgets \cup {Noone}, k \in CreateKeys : CreateSession(c, o, g, k)
          \/ \E g \in Gadgets, r \in VoiceRows : DeviceExisting(c, o, g, r)

DevicesNext ==
    \/ \E o \in Owners : \/ \E k \in PairCodes : CreatePairingCode(o, k)
                         \/ \E g \in Gadgets : RevokeDevice(o, g)
    \/ \E c \in DeviceCalls : CallBegins(c) \/ CallStep(c)
    \/ Lapse

DevicesSpec == DevicesInit /\ [][DevicesNext]_deviceVars

-----------------------------------------------------------------------------
\* One code binds one device, to the account that asked for it, for good.
BoundByCode ==
    /\ \A g \in Gadgets : gadget[g].account # Noone =>
          /\ boundBy[g] \in PairCodes
          /\ pairing[boundBy[g]] = [account |-> gadget[g].account, is |-> "used"]
    /\ \A g, h \in Gadgets : boundBy[g] # Noone /\ boundBy[g] = boundBy[h] => g = h

\* One nonce yields one token, of the device it was made for and its account.
TokensOfOwner ==
    /\ \A n \in Nonces : issued[n] <= 1
    /\ \A t \in tokens : gadget[t.gadget].account = t.account

\* A committed session is the one its key answers; a device is answered its own
\* sessions only, whoever of its account used the key first.
SessionsOfDevice ==
    /\ \A r \in VoiceRows : voiceRow[r] # NoRow =>
          \E k \in CreateKeys : keyed[voiceRow[r].account][k] = r
    /\ \A c \in DeviceCalls : call[c].at = "answered" /\ call[c].gadget # Noone =>
          voiceRow[call[c].row] = [account |-> call[c].account, gadget |-> call[c].gadget]
    /\ \A c \in DeviceCalls : call[c].at = "answered" /\ call[c].gadget # Noone =>
          gadget[call[c].gadget].account = call[c].account

\* A device acts for the account that paired it and on the sessions it created,
\* whatever codes, signatures and keys are repeated, in any order of the calls'
\* reads and writes (devices/postgres.go:14, sessions/postgres.go:101).
DeviceActsForOwner == BoundByCode /\ TokensOfOwner /\ SessionsOfDevice

\* devices/postgres.go:171 "keeps one usable challenge per device ... consumed and expired
\* rows are removed as part of the same statement": what a device is handed can be
\* exchanged.
ChallengeUsable ==
    [][ \A c \in DeviceCalls : call[c].at = "challenge" /\ call'[c].at = "sign"
          => nonce'[call'[c].arg].is = "open" ]_deviceVars
=============================================================================
