\* One account pairs one device, which asks for a nonce, lets it lapse, and asks again.
CONSTANTS
    Owners = {i1}
    Gadgets = {g1}
    PairCodes = {k1}
    Nonces = {m1, m2}
    DeviceCalls = {u1}
    VoiceRows = {v1}
    CreateKeys = {key}
    Noone = Noone
    MaxLapses = 1
SPECIFICATION DevicesSpec
PROPERTIES ChallengeUsable
\* Every device may be revoked and every code used.
CHECK_DEADLOCK FALSE
