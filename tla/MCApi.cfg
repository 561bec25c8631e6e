\* Binding: two challenges of an address, two concurrent requests, two faults.
\* Configs: two requests at once, of the page and of a command, two versions.
\* Rules: every configuration of three languages against every command.
\* Accounts: two owners, two phones of which one had an account before, two
\* challenges, two requests, two refresh tokens.
\* Page: two starts, two ends and a fault.  Settings: two updates, two other
\* writers and a fault.  Screen: two turns, a switch, two messages in transit.
\* Devices: two accounts, devices, codes and sessions, one nonce, two calls, a lapse.
CONSTANTS
    Challenges = {c1, c2}
    Addresses = {a}
    Binders = {b1, b2}
    Channels = {"webhook"}
    Free = Free
    MaxSends = 2
    MaxBreaks = 2
    Writers = {w1, w2}
    PageKeys = {p}
    CommandKeys = {c}
    Outputs = {"single"}
    MaxConfigs = 2
    MaxErrors = 1
    Languages = {"zh", "en", "ja"}
    SourceLanguages = {"zh", "en", "ja"}
    TargetLanguages = {"zh", "en"}
    Unsaid = Unsaid
    Anonymous = {a1}
    Registered = {o1, o2}
    Phones = {h1, h2}
    Codes = {d1, d2}
    Tokens = {n1, n2}
    Callers = {q1, q2}
    Nobody = Nobody
    MaxGuesses = 1
    MaxMishaps = 1
    MaxStarts = 2
    MaxEnds = 2
    MaxPageFaults = 1
    MaxUpdates = 2
    MaxWrites = 2
    MaxConfigFaults = 1
    MaxSpoken = 2
    MaxPartials = 1
    MaxSwitches = 1
    MaxSnapshots = 1
    MaxInTransit = 2
    Owners = {i1, i2}
    Gadgets = {g1, g2}
    PairCodes = {k1, k2}
    Nonces = {m1}
    DeviceCalls = {u1, u2}
    VoiceRows = {v1, v2}
    CreateKeys = {key}
    Noone = Noone
    MaxLapses = 1
SPECIFICATION ApiSpec
INVARIANTS
    ProvedOnce
    KeyedAnswers
    ResolvedAccepted
    CredentialOwner
    SessionsAccounted
    ShownCurrent
    ScreenTruthful
    DeviceActsForOwner
\* Intents are completed, the rules take no step, the bounds stop the rest.
CHECK_DEADLOCK FALSE
