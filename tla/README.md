# Formal model of Lingow

Lingow is a live voice-translation service. `services/api` owns business state
in PostgreSQL and Redis; `services/realtime-audio` owns media and the speech
pipeline in memory; a browser, phone or device talks to both. This directory
holds TLA+ modules that model them, the TLC configurations that check the
modules, and proofs that TLAPS checks. Paths below are relative to `src/`, those
of the two services also without `services/`.

Check a module with `tlc -config X.cfg M`, prove one with `tlapm M_proofs.tla`.
`PROJECT.json` lists every run, mutant, mapped definition, hazard and theorem.

## 1. Inventory

| Part | State | Operations | Hard because | Modelled in |
| --- | --- | --- | --- | --- |
| session store (`api/sessions/postgres*.go`) | sessions, start operations, end intents | begin, activate, compensate, save / claim / retry / complete end intent | transactions of several processes exclude each other by row locks, a partial index, leases | `SessionStore` |
| session service, end recovery (`api/sessions/service_*.go`, `end_recovery.go`) | a goroutine per request, a worker and a keyed lock per process | Start, End, ProcessNext, ConsumeRuntimeFailure | crashes, timeouts and ambiguous commits between database and realtime calls | `SessionLifecycle`, `SessionContract` |
| realtime control plane, lifecycle (`realtime-audio/controlplane`, `session`) | replay table, runtime snapshot | start, stop | repeated, late, joined calls; answers served from records; failed stops retain media | `RealtimeControl` |
| runtime manager (`realtime-audio/runtime/manager.go`) | media entries, sources | Start, Activate, run, Stop | settlement races, failure reports of replaced pipelines | `RuntimeManager` |
| mode (`runtime/mode*.go`, `outbox`, `sdks/device`) | generation, frozen transition, replay window, views | SwitchMode, commit of a turn | publication inside a compare-and-set, eviction, reordered answers | `ModeSwitch`, `ModeClient` |
| mode projection (`api/internal/modeprojection`) | projected row, stream | read, autoclaim, project | redelivery and reordering | `ModeProjection`, `ModeSystem` |
| delivery (`api/internal/delivery`) | messages, attempts, outbox, queue | create, retry, dispatch, claim, complete, requeue | duplicate receipts, unknown provider acceptance, leases | `Delivery` |
| automatic output and fallback (`delivery/*automatic*`, `fallback_worker.go`, `output_restore.go`, `controlplane` replay) | runs, settlements, playback operations | schedule, settle, retry, recover, play, restore | two databases, two processes, a lease that is renewed | `AutomaticOutput`, `FallbackReplay` |
| targets (`delivery/service.go`) | challenges, targets, preferences | request, bind, prefer, revoke | a proof that may be presented twice | `TargetBinding` |
| language configuration (`api/languages`, `runtime/command_executor.go`) | versions per session | create, complete a command | idempotency keys against unique indexes | `LanguageConfigs`, `LanguageRules` |
| accounts (`api/internal/accounts`) | accounts, challenges, tokens | login, merge, refresh, logout | statements of several requests interleave | `Accounts` |
| records (`api/recordstore`) | final turns, attributions, leased queues | store, schedule, resolve, correct | crash under a lease, late attribution | `Records` |
| usage (`api/internal/usage`, `realtime-audio/usage`) | facts, stream | publish, consume, sum | redelivery while owners merge | `UsageLedger` |
| segmentation (`realtime-audio/segment`, `vad`) | detector, turns, queue | frames, wake, cancel | wake words and cuts in an utterance | `Segmentation` |
| turns (`realtime-audio/pipeline`) | phrases, queue of finals | translate, speak, settle, bill, commit | concurrent translations, refused phrases, failing commits | `TurnPipeline`, `PhraseStabilizer` |
| speech out (`pipeline/phrase_playback.go`, `playback`) | queue, track, reservation | enqueue, play, interrupt | interruption at every point | `PhrasePlayback` |
| provider streams (`asr/qwen`, `tts/qwen`) | reader, bounded channels | Events, Finish, Close | full channels, cancellation | `SpeechStreams` |
| command gate (`realtime-audio/command`) | window, timers, tasks | Open, Consume, Replay, Cancel | timers of superseded attempts | `CommandGate` |
| webrtc (`realtime-audio/webrtc`) | connections, candidates | Open, Close, AddCandidate | Close during Open | `Connections` |
| web page (`apps/web/src/features/voice`) | refs of the hook, reducer | start, end, update, events, polls | every await is a race | `VoicePage`, `VoiceConfig`, `VoiceScreen`, `Connections` |
| control channel (`realtime-audio/controlchannel`, `webrtc/control.go`) | queue of commands, buffer of responses | receive, carry out, answer, close | bounded queues, a close during a command | `ControlChannel` |
| speech channel (`realtime-audio/localruntime/tts_dc_sink.go`) | buffers, tombstones | collect, complete, interrupt | interruption while pieces are shipped | `TtsChannel` |
| devices (`api/devices`, device routes of `api/sessions`) | devices, codes, nonces, tokens | pair, challenge, token, create, revoke | two devices and the page under one key | `Devices` |
| wake word (`sdks/device/wake.go`) | epoch, switch | Start, Stop, callback | callbacks of an earlier run, an engine outside the mutex | `WakeControl` |
| wire contracts, device provisioning, mobile client, delivery formats, process wiring | wire types, clients | - | - | section 7 |

How the parts interact:

    page, device --Start/End--> sessions.Service --transactions--> PostgreSQL
         |                            |                               ^
         |       EndRecoveryWorker ---+--Start/Stop--> controlplane.Handler
         |                                                  |
         |                               session.LifecycleService
         |                                                  |
         +--offer, candidates--> webrtc ------ runtime.Manager (media, mode)
         |                                                  |
         +--audio--> segment.Service --turn--> pipeline --phrases--> playback
                          |                        |
                     command.Gate          final turn, usage, mode events
                                                   |
          records <-- leased queues -- API consumers (Redis streams)
             |
          automatic output --> delivery workers --> providers
             |
          fallback playback --> controlplane replay --> playback

What makes each part correct:

* sessions: starting and ending exclude each other; answers are truthful; one
  driver of an end; no Stop of an activated operation; a recorded end is carried
  out; media has one owner and is released before anybody else gets it;
* mode: one event per generation, in order, whatever fails; turns commit under
  their own generation; neither a projection nor a client's view goes back;
* delivery: nothing is sent twice unless its acceptance was unknown; every
  message reaches a terminal state; a turn all of whose targets failed is heard;
* speech: every frame is heard by one listener; phrases are spoken in order and
  once; an interrupted utterance stays silent; the track is always given back;
  every provider call is billed once; accepted finals outlive the media;
* streams and gates: every call is answered once, whatever ends the stream;
* accounts, devices, targets, configurations: a credential belongs to its owner,
  a device acts for the account that paired it, a proof counts once, a key has
  one answer;
* channels: what a client is answered tells what was carried out; what was cut
  off stays silent; a wake word of an earlier run acts on nothing;
* page: every session it created has somebody who ends it; it shows the current
  configuration and a truthful transcript.

## 2. Modules

Each module models one part for arbitrary callers. `ModeSystem` composes
`ModeSwitch`, `ModeClient` and `ModeProjection`; `AutomaticOutput` composes
itself with `FallbackReplay`, `LanguageConfigs` with `TargetBinding`;
`SessionLifecycle` composes `SessionStore` and `RealtimeControl` and refines
`SessionContract`. `*_proofs` hold theorems (section 4). `MC*` are instances for
TLC; section 3 says which part runs where.

Definitions named `X_Something` are deliberately wrong variants of `X`, each
preceded by a comment `Bug: ...`. No specification uses them; they document
which property notices which mistake (see "mutants" in `PROJECT.json`). A module
has one counter of faults (`faults`, `troubles`, `outages`, ...), bounded by a
constant `Max...`; every step that costs one is a crash, a timeout, a failing
dependency or a lost answer that the code handles.

### Sessions

`SessionStore`. One session. `status`, `opStatus[key]`, `opClaim[key]`, `intent`,
`owner` and `lease` are the columns the transactions decide on. Each transaction
locks the session row first (or is one statement on the intent), so it is one
action; a transaction that returns an error is a stutter here, and a step of its
caller in `SessionLifecycle`. One operation row exists per idempotency key.
Every End request replays the same intent; a request with another key is
refused and changes nothing. `next_attempt_at` and the retry counter are left
out: a retry may come at any time.

`RealtimeControl`. `rt` and `rtOp` are the snapshot; listening and all later
processing states are "running", since no lifecycle decision tells them apart. A
failed snapshot with error code `stop_failed` is a state of its own, as `Start`
treats it so. `media` is the operation whose pipeline holds resources. `calls`
are HTTP calls on their way, `exec` the one that holds the lifecycle mutex; the
mutex and the replay reservation are taken in one step, because a call that has
a reservation and waits for the mutex has had no effect yet. `startReplay` and
`stopReplay` are the replay table: a Start is recorded with its trace id (its
body is hashed), a Stop under its reason alone. A failing handler removes its
record and fails the calls that joined it.

`SessionLifecycle`. `pc` has one label per point at which another thread, process
or message can come between: after each transaction, each call sent, each answer.
`lock` is the keyed lock of each process; requests of different processes do not
share it. A thread is identified with its trace id, claim id and lease owner,
which are the same string or derived from it and unique per request. `key` is
chosen when a request arrives, so requests may be retries of each other.
`Timeout` leaves the call in flight or loses it; a call nobody waits for may be
executed late, or be cancelled.

`RuntimeManager`. The media behind one session: every Start builds an entry with
sources; `run` is its media loop with the settlement of the pipeline; a source
closes once and is tried again after a failure; Stop has a deadline and may leave
its entry "stopping" for the next one; the failure reporter names the entry it
was made for. The manager's table and lock are steps of their own, so Start,
Stop, a finishing loop and a report interleave. `Connections` has the peer
connections in the same way: Open reserves, creates, attaches and answers
outside the locks while joiners wait and Close runs; the page's side of it
gathers candidates and posts them. `ControlChannel` is the DataChannel for mode
commands of one connection: the callback with its bounded queue, the runner, the
sender with its bounded buffer, and the close that waits for both. `applied` is
what the coordinator carried out, `sent` what the client was answered.

### Mode

`ModeSwitch` is the coordinator. A switch is one step, since its mutex is held
while the outbox publishes; a publication that fails, or whose outcome is
uncertain, freezes the transition, and the same or another command recovers it.
The replay window holds `Window` results and evicts the oldest. Calls and turns
carry the runtime instance they found, which may be replaced meanwhile.
`ModeClient` is the device's controller, which decides on an observed view, and
the spoken command, which reads first. `WakeControl` is the wake word of the same
device: Start, Stop and callbacks around an engine that is called outside the
mutex, fenced by an epoch. `ModeProjection` is a consumer group with
a pending list, autoclaim and one transaction per entry.

### Delivery and records

`Delivery` has the rows of messages, attempts and outbox, the broker's entries
and a worker in seven steps; the provider accepts, refuses, fails or leaves the
outcome unknown. `AutomaticOutput` has a turn's run, its targets' settlements
and the three lists of a round of the fallback worker; the delivery of a target
is one step there. `FallbackReplay` is the call that plays a turn: a claim with a
token in the second database, renewed by a heartbeat, and its answer. `Records`
has the two leased queues behind a final turn (storing it and attributing its
speaker), and `UsageLedger` the path of a fact from the publisher over the
consumer group to the sum its owner is shown.

### Accounts, devices, targets and configurations

`Accounts`, `Devices`, `TargetBinding` and `LanguageConfigs` have one step per statement or
transaction: what is read outside a transaction is kept in the request's record
and may be stale when used. Unique indexes and row locks are guards. In `Devices` a call goes through the
statements of its handler (find the device, consume the nonce, issue the token;
find the key, insert, commit or replay); an uncommitted insert keeps its row to
itself, as the database does.
`LanguageRules` is functional: what a configuration may say, how the API reports
it to realtime, how a spoken command is completed from it; its states are all
inputs over three languages.

### Speech

`Segmentation` names a frame by its capture time. It translates the voice
activity detector (padding, pause, cut), the events of each frame, the turn that
is fed while it is spoken, the bounded queue of finished turns with its worker,
and the wake word that moves an utterance to the gate. `PhraseStabilizer` works on
texts as sequences of letters, blanks and marks, because its property is about
the cursor over them. `TurnPipeline` has the turns from there: a phrase is one
segment, translated concurrently with the next, spoken in `Pieces`; the settlement
worker of the process translates and speaks what is left, bills and commits.
`PhrasePlayback` is the scheduler with its queue, the synthesis of one playback
and the single track with its reservation, shared by phrases and fallback.
`TtsChannel` is the other way speech leaves: collected per playback, shipped in
pieces when complete, dropped when interrupted, with a bounded list of tombstones
that keeps late chunks of what was cut off silent.
`SpeechStreams` is one recognizer's and one synthesizer's stream with reader,
bounded channels and callers. In `CommandGate` everything under the gate's mutex
is one action; a timer's callback is between firing and taking the mutex.

### Page

In `VoicePage` `start` and `end` have one step per await over shared refs; the server
creates, starts and ends sessions by requests that it may handle after their caller
gave up, and whose answers may be lost. `VoiceConfig` has the updates, read-backs and their
answers over the shared refs of the shown configuration. `VoiceScreen` is the
reducer with its messages: an ordered data channel, polls and mode snapshots
read at one time and applied at another.

## 3. Runs

| Run | Parts, each for itself | Shows |
| --- | --- | --- |
| `lifecycle` | sessions (2 starts, 2 ends, 2 processes, 2 keys, 2 faults, realtime restarts) | safety of the composed session control plane and its refinement of `SessionContract` |
| `live` | lifecycle (1 start, 1 end, 2 processes, 2 faults, realtime restarts); delivery (2 workers, 2 attempts, 2 copies, 2 faults); records (1 turn, 2 workers, 2 faults); modes (2 runtimes, 2 commands, 2 consumers, 1 fault); usage (2 facts, 2 consumers, 2 faults); both speech streams | what must happen in the end, and what must not happen twice |
| `audio` | mode (2 runtimes, 2 operations, 1 turn, window 1, 1 fault); turns (two segments or two turns of one, queue of 1, 1 error, 1 refusal); runtimes (4 calls, 2 faults); connections (2 opens, 2 closes, 2 candidates, 1 fault); control (4 messages, queue and buffer of 1); wake (2 starts, 2 stops, 1 callback) | generations and their events, stale turns, order and billing of speech, owners of media and transports, answers of the control channel, epochs of the wake word |
| `speech` | segments (6 frames, pause 2, cut 3, 1 wake word, queue of 1); playback (utterances of 2 and 1 phrases, queue of 1, 1 interruption, 1 fault); channel (2 playbacks of 3 chunks, 2 interruptions, 1 tombstone); automatic output (1 turn, 2 targets, 2 processes, with 1 outage or with 1 retry by the user); gate (2 signals, 3 opens, retention 1) | every frame has one listener, phrases keep their order, interrupted speech stays silent, played means heard, one answer per attempt |
| `api` | binding (2 challenges, 2 requests, 2 faults); configurations (2 writers, 2 versions); rules (all configurations of 3 languages); accounts (2 owners, 2 phones, 2 callers, 2 tokens); devices (2 accounts, 2 devices, 2 codes, 2 sessions, 1 nonce, 2 calls, 1 lapse: either signing and revoking, or one account's devices and page creating sessions); page (2 starts, 2 ends, 1 fault); settings (2 updates, 2 other writers, 1 fault); transcript (2 turns, 1 switch, 2 messages in transit) | proofs, credentials, idempotency keys; the page accounts for its sessions, shows current settings and a truthful transcript |
| `stale_stop`, `two_compensators`, `fallback_starvation`, `device_challenge`, `interrupted_completion`, `candidate_order`, `phrase_tail` | the smallest instance of each | violations, section 6 |

Parts. The parts of a run do not share state: `part` is chosen initially and a
behaviour is one of that part while the others rest, so the states of a run are
the sum of its parts', and each property is about one part. They share a run
because they have the same kind of question and time. Where components do
interact they are composed in a module of section 2 and take steps in every
order.

Bounds. Each bound is a constant in the header of its `.cfg`. Faults are bounded
by one or two per behaviour: one puts a failure at every step, two put a failure
within the handling of the first (a crash during compensation, a commit answered
by an error and a timeout). Two processes, workers or requests give every pair of
racing actors, and every property that speaks of two actors is violated by a
mutant within these bounds. Two keys give a second operation after a compensated
first one. Windows, queues, channels and retention hold one element, so that the
limit is met: 256 results in the replay window and 40 queued phrases are the
same code at another size. The frames of `Segmentation` are fewer,
with thresholds scaled down and in the same order (padding < cut, pause < cut).

Fairness (`live`, `fallback_starvation`, `interrupted_completion`). Weak fairness of the steps of a request that has arrived,
of each worker's and consumer's loop, of the realtime side, of the stream
goroutines and of clocks that end leases and deadlines: Go runs every runnable
goroutine, the loops poll for ever, handlers return or time out. Nothing is
assumed about clients and users (arrivals, reading events and chunks), about the
services behind a stream, about faults, or about a request that stops on its own.
Faults are finite, so eventually a worker succeeds; under that assumption
`sessions/README.md` calls every failure after `SaveEndIntent` recoverable.
Liveness is checked without symmetry.

Deadlock is not checked: each part stops when its bound is reached or its
requests have returned, and a system at rest is no error.

## 4. Proofs

For every value of the constants (any number of requests, processes, keys, turns
and faults), from the named assumptions of the module a theorem is about: that
bounds are natural numbers, that `None` and `Absent` are no member of the sets they
stand beside, that kinds of threads are disjoint, that nobody says more turns or
segments than there are. TLC evaluates each assumption on the run of its module.

* `SessionStore_proofs`. `StoreInv`, the conjunction of the type invariant,
  `Interlock`, `OneUnresolved`, `ActiveOwnership`, `CompletedIntentTerminal`,
  `LeaseOwned` and `OperationStateValid`, is inductive. `Interlock` is proved
  from the guards of `BeginStartOperation` and `SaveEndIntent`. `ActiveOwnership`
  needs the others: activation names one operation because at most one is
  unresolved (`OneUnresolved`) and a created session has no completed one.
  `SettledForGood` follows per transaction.
* `RealtimeControl_proofs`. `RealtimeInv` strengthens the two media properties
  (`StoppedReleased`, `RunningOwned`) by `ExecMatches`, what holds while a call
  executes: a Start runs in `starting` or `running` under its own operation, a
  Stop in `stopping`. `NoOverlapHolds` and `NoTakeoverHolds` are step properties
  over it.
* `SessionLifecycle_proofs`. `LifecycleInv` adds to both `ThreadInv`: where a
  thread may be (`ThreadTypeOK`), that a request past its first read has a key
  (`Keyed`), that a compensating request has a claim id (`Claimed`), that a
  driver of an end has seen an intent (`DriversIntended`), and that the lock of a
  process is held by a request or by its own worker (`Hosted`).
  `UnresolvedFreezes` needs `DriversIntended`: an end attempt with a stale read
  can transition the session only if an intent exists, and then no operation is
  unresolved. `StoreImplemented` and `RuntimeImplemented` show that the
  composition only takes steps of its components, `ContractHolds` that it
  implements `SessionContract!SafeSpec` under `gate <- Gate`.
  For the answers `AnswerInv` adds to `AckTruthful` that whoever compensates, and
  every compensating Stop it has sent, belongs to an operation that was given up
  (`StopsCovered`). A given-up operation is never completed and a completed one
  never given up, so no such Stop, however late, belongs to an operation that
  activated the session (`NoStopOfActivated`).
  For the lease, `SingleEndDriver` and `DriverHoldsLease` are inductive only
  together: two attempts would have to hold one lease, and none begins under a
  completed intent. Every step keeps the lease, closes the intent, takes the
  lease while nobody holds a live one, or gives it up after its attempt. The
  theorem rests on attempts being shorter than leases (section 5).
* `Mode_proofs`, about `ModeSystem`. `ModeInv` says that whatever is known outside
  a coordinator (a result in its replay window, an answer, a device's view or the
  refresh on its way) is a state the coordinator was in, and that of two states
  of one runtime the one of the later generation is not older. This carries
  `ViewForward`. For `NoStaleTurn` it is enough that a turn commits only at the
  generation it was opened under, and that no known generation is ahead of the
  coordinator's. For the
  stream it says that every event is covered by its coordinator (a past
  generation, or the frozen transition), follows an event, or the initial mode,
  of the generation before, and is later than those before it: so a command that
  recovers an uncertain publication can only repeat the pending event.
  `ProjectionLatest` is inductive once recorded events are known to be of the
  stream.
  `ChannelInv`, about `ControlChannel`: commands ascend from those carried out over the one
  in hand to the queue (`CommandsInOrder`), none that was refused is among them
  (`RefusalsTrue`), and while the channel lives the answers, the hand and the queue
  together are all that arrived, each once (`AllThere`).
* `Api_proofs`, one invariant per component.
  - `DeliveryInv`: a worker between claim and answer is the only one that holds
    the attempt, which is claimed and unsent; what a retry supersedes was never
    accepted and is held by nobody. `AtMostOnceHolds` assumes `~Idempotent`: no
    provider of the repository deduplicates, and with one a repeated request is
    not a second delivery.
  - `DeviceInv`: what each request has checked before the statement it is at
    (`CallOK`), one code per bound device, keys that point to rows of their
    account; the row of an uncommitted session is nobody else's.
  - `BindingInv`: a consumed challenge is in the hands of one request, and one
    that proved a binding is never given back.
  - `AccountInv`: an account that waits for its first session is known to
    nobody; a code is in the hands of one login; the insert of a phone number
    finds no row of the old digest (`RowFacts`).
  - `ConfigInv`: versions are distinct and are `1 .. n`, a key has one row, and
    nobody has seen a version that is not stored. The row lock is not in it: the
    two unique indexes alone carry `KeyedAnswers`, the lock only saves conflicts.
  - `CorrectionInv`: a corrected turn is resolved, and no worker writes a
    resolved turn; storing, scheduling and leases need not be looked at.
  - `PageInv`: the start whose controller the page holds has put into the shared
    refs exactly what it has come to; without a controller they hold what an end,
    or leaving the page, is giving up. Like the property it is given up when the
    control is used while an end awaits its answer. `UnansweredInv`: a start whose
    creation was not answered is over before it calls /start, so the session the
    server may still create for it stays created.
  - `SettingsInv`, for `ShownCurrent`: updates are numbered by the revisions of the screen
    and one runs at a time (`Numbered`); each version has one writer (`Wrote`); a readback
    is no older than its write (`ReadsOn`), and updates made after the page was told of a
    write post behind it (`InTurn`). So the last version, if its writer told the page,
    is the one the page knows (`KnowsLast`).
* `Audio_proofs`.
  - `WakeInv`: no caller has an epoch ahead of the controller's, a run is younger
    than every fence, and a callback of the present epoch finds it enabled.
  - `GateInv`: an attempt in progress is unanswered and nobody is about to answer
    for it; what is being published is unanswered too. Timers need no clause: one
    that fires late finds another attempt or state.
  - `ManagerInv`: whoever is past the lifecycle lock holds it alone; a closed
    source is not open, a failed close is remembered by the source; a media loop
    that runs is the registered one; a report in progress pins its loop or is
    known to be over. `MediaAccounted` and `ReportsOwn` follow from it.
  - `TtsInv`, playback by playback (`PlaybackOK`): while a cut playback speaks its
    tombstone keeps it back, once it is being shipped `halted` does, and a piece in hand
    is at most one behind the cut; what is shipped and what is left make what was said.
    An interruption marks its playbacks in some order; that nothing else comes to the
    list of tombstones is a lemma by induction on that order (`MarksAll`).
  - `SegmentInv`, for `SpeechHeardOnce`: the frames of what the segmenter keeps, of the
    events of one frame, of each turn that is listened to and of the gate are apart
    (`Apart`), and the turn in flight has what the segmenter has but for the frame on its
    way (`InFlight`); so whatever a wake word moves or a failure drops had one holder. The
    events that one frame can leave behind are listed (`SegmenterOK`), what is kept before
    an utterance is never speech (`QuietBefore`), and every frame of a turn continues the
    one before it up to the frame read last (`RunTo`).
* `Connections_proofs`. `ConnectionInv`: the record of a generation is that of the
  Open that made it, and only the registered, unclosed generation has one; it is
  attached once its Open is past attaching; one Close at a time works on a
  generation. So an Open that returns finds its transport registered or closed.
  `OutputInv`, for `PlayedHeard`: a replay operation that is accepted has sounded; a
  request that completes one played the turn to its end, and is answered "ok" only for
  an accepted one; a round waits for the request of its own turn and marks what is
  accepted. It relates the two databases through the answers on their way alone.
* `Turn_proofs`. `TurnInv` is stated turn by turn (`TurnOK`: where the turn is, what
  its phrases have come to, what its bill holds) beside the queues, in which a turn
  stands once and at its stage. A call that is spent is a phrase answered, or belongs
  to the settlement; while the turn is open nothing is owed or merged, afterwards what
  is finished is merged, owed or billed, and these three do not overlap. The step that
  needs the most is `Finalize`: every spent call of a finished phrase is in the summary
  only because the summary covers all segments, and that is so unless the final
  overtook a phrase of the timer (`overtaken`), the case `BilledOnce` exempts.
  `SpokenInv`, for `SpokenInOrder`: what a turn said is its text up to some piece L
  (`Counts`). While its phrases are live, L is the end of the phrases taken, or, behind
  the first failure or refusal, no later than it, and every translated piece of a taken
  phrase was said or is left for the settlement (`LiveOK`); the settlement waits for every
  phrase that has a call (`WaitsOK`), so that what remains to be said is exactly the
  pieces after L (`RestOK`). Chunks of it that are refused leave gaps: then what was said
  only ascends (`SaidInOrder`, by `OrderedRises` for any set of pieces).
  `PlaybackInv` is stated utterance by utterance. What was cut off is refused from then
  on, has nothing queued, and its running task is dead or past its last chunk and past
  any retry (`SilentOK`): `SilentAfterInterrupt`. The first phrases of an utterance ascend
  from what was heard over the running task and the queue to the next one offered
  (`OrderOK`): `PhrasesInOrder`. Both need that the scheduler has a task exactly while the
  player is busy (`WorkerOK`).
  `ScreenInv` relates the page to the messages still in the channel: a subtitle is that
  of the turn heard last and of no settled one (`NoStale`), and over a live connection
  the final of an interpreted turn is displayed or in the channel (`FinalsArrive`), for
  which phrases and replies must be of turns of their mode (`ModesKept`).

The invariants of `SessionStore` and `RealtimeControl` are proved and in no run of
their own any more: the lifecycle run executes both modules, and the theorems
hold for every instance. They are properties of arbitrary callers; through
`StoreImplemented` and `RuntimeImplemented` they hold of the composition.

What a recursive function leaves of a list (`Without`, `MarkAll`) is proved without the
library's induction theorems, which take an operator: a set of numbers with zero and the
successor of each member has all of them (`UpTo`, from the well-foundedness of `<`). The
lemma gives the existence of the function (`KeptExists`) and then what its values are.

Model-checked only:

* `ActiveMediaOwned` and `ActiveEndReleased` are not invariants for every value of the
  constants: section 6 has the traces, which need more starts or faults than the run.
* `ResolvedAccepted` compares recursive rules over all configurations of three languages;
  their module cannot be proved about.
* Liveness (`ContractFulfilled`, `MessageSettles`, `TurnsRecorded`, `UsageCounted`,
  `StreamsAnswer`) is out of reach of the installed provers.


## 5. What is abstracted, and assumed

Sessions

* Attempts are shorter than leases (`sessions/service.go:84`, `end_recovery.go:42`),
  so a lease does not expire under a running attempt; a difference of clocks
  between the process and PostgreSQL that eats the margin, and a transaction that
  commits after its context ended, are excluded.
* Replay records live ten minutes, far longer than any call; `ReplayTTL` is a
  step of a session at rest. The capacity of the replay table is not modelled.
* Readiness checks, authorization and validation are steps that may fail.
* A call repeated by the same worker while the first is in flight is one call:
  both carry the same replay key.
* The caller of `ConsumeRuntimeFailure` is not in the repository. The model
  delivers a notification while the runtime is failed and its media released.
* `TrustSessionReader` (local mode without a database) is not modelled.
* Peer connections: a second offer of a key with another SDP and state reports of a
  transport are left out. Control channel: whether a message is valid and what its
  handler answers are free choices.

Delivery, records, accounts, configurations

* Cooldown and quota of phone challenges, and decoding errors of stream entries,
  are left out. A code, token or address is a value; hashing is injective.
* `Devices`: a request whose signature does not verify is refused before it writes and
  is not a step; which accounts may ask for a code, and a conflict of a repeated key
  with another body, are left out.
* The provider's answer is accepted, refused, temporary or unknown; which messages
  a channel renders is data.
* `LanguageRules` is about configurations whose first pair is the spoken direction
  (`SpokenFirst`): the snapshot of the API takes the direction from
  `language_pairs[0]`.

Speech

* Texts and audio are data except in `PhraseStabilizer`; whether a final text still
  contains the phrases, whether two chunks fit one segment, and what the classifier
  takes for speech, are free choices.
* Left out: assistant turns as turns, the batch path without streaming
  recognition, best-effort subtitle events, the memory of retired utterances, the
  ids that make an enqueue idempotent, a scheduler used again after Stop, and
  trivial replies in `PhraseStabilizer`.
* `TtsChannel`: a chunk makes one piece, whatever its container; calls without a session
  are left out. `WakeControl`: the engine is external and may call a handler at any time
  after it was given it.
* A property exempts what the code does not promise: `SpeechHeardOnce` a session
  that was aborted, `SpokenInOrder` phrases overtaken by a late timer,
  `StreamsAnswer` a recognizer that stalls (section 6), `MessageSettles` two faults
  (section 6), `SessionsAccounted` a session whose creation was not answered
  (section 6).

Page

* Updates of the configuration wait for the first version of the startup; the wake
  listener's states are left out. Sessions that ended are not told apart.

## 6. Findings

1. `stale_stop`: a Stop is answered from the record `stop:<reason>` of the session.
   Compensation and the web client use the same reason. If an operation was
   compensated less than ten minutes ago and another one was activated since, the
   end of the session receives the recorded answer, the session is moved to
   `ended` and its media keeps running.
2. `two_compensators`: `sessions/README.md` says that one request owns a
   compensation; the code lets every retry re-enter under the persisted claim,
   so two processes send a Stop. The model shows no harm of it.
3. `fallback_starvation`: one retry that is refused ends every round of the
   fallback worker before it lists the turns that failed whole.
4. `device_challenge`: the statement that asks for a device's nonce deletes the expired
   one in a WITH clause and inserts in the same snapshot; it returns the expired row,
   which was never used, and so does every later request. The device gets no token.
5. `interrupted_completion`: a playback that is cancelled between its first chunk
   and the publication, or while it drains, keeps the track for good.
6. `candidate_order`: the page posts the end of gathering ahead of candidates that
   still wait for the remote description.
7. `phrase_tail`: the cursor over the transcript loses the blank between two
   phrases, and the rest of the utterance is taken for a revision.

Limits of the properties that a reader should know, met while modelling and not
reported as findings, since no text of the repository promises otherwise:

* With `RealtimeRestarts = TRUE`, three starts and two faults, `ActiveMediaOwned`
  fails: a request that was slow sends the Start of an operation compensated
  meanwhile; the restart has cleared the records that would have stopped it; its
  media belongs to no operation when another key is activated. Without restarts it
  takes three starts and four faults: a Start that listens and then fails clears its
  replay record, and a late call of a compensated key runs once another key's
  pipeline has died.
* With three faults (crash, expiry of a replay record, timeout of a late Start),
  media may be left running under a session that is ended from `created`, where
  `endCreated` sends no Stop by design. Two failed activations in a row reuse the
  recorded Stop of the first.
* Runtime manager: two closes of one source may race (`manager.go:834-862`); a
  Stop may give up and leave a "stopping" entry; the close of a Start that fails may
  be lost. A transport whose close failed keeps the error: later closes repeat it.
* Mode: with an uncertain publication the projection may be one generation ahead.
  A frozen transition that another command recovers does not interrupt playback.
  An operation id repeated after its eviction conflicts with its outbox row.
* Delivery: with two faults, two workers may hold one stream entry; one claims
  and crashes, the other acknowledges it as a duplicate (`worker.go:215-221`), and
  the attempt stays in sending. After a manual retry was delivered the fallback
  may still play. A restore that always fails blocks those behind it.
* Usage: a partly priced stage makes the summary a conflict; an account merged
  into the owner is shown its own lineage only; a fact refused for good, also
  for a missing session, is acknowledged without a row.
* Turns: after a revised final text, or a failed translation of the rest, finished
  phrases are not billed; revised text speaks the whole translation again; what is
  left of one turn may be spoken after live phrases of the next; after a fatal
  error remaining finals are stranded.
* Playback: synthesis of an assistant's or fallback playback is not cancelled by a
  wake word before it plays; phrases of an utterance of the old mode are accepted
  if nothing of it was queued at the switch; an untargeted interruption may hit the
  next playback.
* Segmentation: when a session is cancelled with a full queue, or with turns behind
  a failed one, those turns are neither closed nor queued (`segment/service.go:261`,
  `159-161`, `339-342`). A turn refused while its audio is pushed drops the rest.
* Streams: the recognizer's Finish has no timeout and its reader no deadline; a
  service that stalls holds the segment worker until the session ends.
* Command gate: the executor of a superseded attempt may have applied its command
  although "canceled" was published; an id beyond the retention opens again.
* Page: when the answer to the creation of a session is lost after the server created
  it, nobody ends the session: the start has no id (`use-voice-session.ts:1025-1028`),
  its catch (`1409-1480`) ends nothing, and the next start creates another one under a
  key of its own (`lingow-api.ts:264-292`). One fault suffices. The session stays
  `created` and is never started; `SessionsAccounted` exempts it while that is so.
* Page: an end that overlaps a start may leave a running session its control does
  not end; unmounting ends no session; the answer of a pending update replaces a
  newer version; turns stored behind the polling cursor are not polled; a snapshot
  of the mode that arrives after a turn of the new mode silences its subtitles.

## 7. Not modelled, and what comes next

* Wire types and OpenAPI documents, environment, routing, logs, metrics, rendering
  and sign-in pages: no protocol state of their own.
* Provider formats (SMTP, WeCom, Qwen messages), signal processing: data.
* Provisioning of devices, the device SDK's state store and reconnect loop, and the
  mobile client: they have state worth modelling and are left out for their size
  beside the parts above.
* Process shutdown, other than as a crash or a cancelled context.

A theorem to come: `ActiveMediaOwned` and `ActiveEndReleased` under conditions on restarts
and faults that exclude the traces of section 6.
