---------------------------- MODULE Mode_proofs ----------------------------
(***************************************************************************)
(* The mode of a session, for every number of operations, turns, runtimes, *)
(* consumers and faults: what anybody outside a coordinator knows of it is *)
(* a state the coordinator was in; a state of a later generation is never  *)
(* of an earlier time; and the stream holds the events of a runtime in the *)
(* order of their generations.  The four properties follow.                *)
(*                                                                         *)
(* At the end, the channel that brings the commands of a client: what it   *)
(* concludes from the answers, for any rooms of the queue and the buffer.  *)
(***************************************************************************)
EXTENDS ModeSystem, ControlChannel, SequenceTheorems, TLAPS

-----------------------------------------------------------------------------
(* The inductive invariant. *)

CoordRecord == [state : States, pending : Transitions \cup {Absent}, window : Seq(Records)]
ModeCall == [cmd : Commands, found : ModeRuntimes \cup {Absent}]
TurnRecord == [at : {"new", "open", "gated", "committed", "dropped"}, state : States \cup {Absent}]
OpRecord == [at : OpPlaces, cmd : Commands \cup {Absent}]

ModeTypes ==
    /\ inst \in ModeRuntimes /\ clock \in 0 .. MaxClock
    /\ coord \in [ModeRuntimes -> CoordRecord]
    /\ stream \in Seq(Transitions)
    /\ modeCalls \subseteq ModeCall
    /\ \A c \in modeCalls : c.cmd \in Commands /\ c.found \in ModeRuntimes \cup {Absent}
    /\ answer \in [Ops -> Results \cup {Conflict, Failure, Absent}]
    /\ turn \in [Turns -> TurnRecord]
    /\ \A t \in Turns : turn[t].at \in {"open", "gated"} => turn[t].state \in States
    /\ view \in States \cup {Absent} /\ refreshed \in States \cup {Absent}
    /\ op \in [Ops -> OpRecord]
    /\ \A o \in Ops : op[o].at \in {"called", "uncertain"} => op[o].cmd \in Commands

\* An instance that was not started is as it will start.
CoordOK(i) ==
    LET c == coord[i] IN
    /\ c.state.inst = i /\ c.state.gen <= clock + 1 /\ c.state.at <= clock
    /\ i > inst => c.state.gen = 1 /\ c.pending = Absent
    /\ c.pending # Absent => /\ c.pending.state.inst = i /\ c.pending.state.gen = c.state.gen + 1
                             /\ c.pending.state.gen <= clock + 1 /\ c.pending.state.at <= clock
                             /\ c.pending.state.at >= c.state.at /\ c.pending.from = c.state.mode
    /\ c.state.gen # 1 \/ c.state.mode = InitialMode
CoordFacts == \A i \in ModeRuntimes : CoordOK(i)

CallFacts == \A c \in modeCalls : c.found # Absent => c.found <= inst

Knows(s) ==
    \/ \E i \in ModeRuntimes : \/ s = coord[i].state
                               \/ \E k \in DOMAIN coord[i].window : s = coord[i].window[k].result.state
    \/ \E o \in Ops : answer[o] \in Results /\ s = answer[o].state
    \/ s # Absent /\ s \in {view, refreshed}

KnownFacts ==
    \A s \in States : Knows(s) =>
        /\ s.gen <= coord[s.inst].state.gen /\ s.at <= coord[s.inst].state.at
        /\ \A r \in States : Knows(r) /\ r.inst = s.inst /\ r.gen < s.gen => r.at <= s.at

\* The view has left every instance an answer may still come from.
ViewFacts ==
    /\ view # Absent => view.inst <= inst
    /\ refreshed # Absent => refreshed.inst <= inst /\ (view # Absent => view.inst <= refreshed.inst)
    /\ \A o \in Ops \ VoiceOps : op[o].at \in {"called", "uncertain"} =>
          view # Absent /\ op[o].cmd.inst \in retired \cup {view.inst}

\* The events of a runtime, one per generation.
Covered(e) ==
    LET c == coord[e.state.inst] IN
    \/ e.state.gen <= c.state.gen /\ e.state.at <= c.state.at
    \/ c.pending # Absent /\ e = c.pending
Follows(k) ==
    \/ stream[k].state.gen = 2 /\ stream[k].from = InitialMode
    \/ \E l \in 1 .. k - 1 : /\ stream[l].state.inst = stream[k].state.inst
                             /\ stream[l].state.gen = stream[k].state.gen - 1
                             /\ stream[l].state.mode = stream[k].from
Later(k) ==
    \A l \in 1 .. k - 1 : stream[l].state.inst = stream[k].state.inst =>
        stream[l].state.gen < stream[k].state.gen /\ stream[l].state.at <= stream[k].state.at
Entered(i) ==
    \E k \in DOMAIN stream :
        stream[k].state.inst = i /\ stream[k].state.gen = coord[i].state.gen /\ stream[k].state.mode = coord[i].state.mode
StreamFacts ==
    /\ \A k \in DOMAIN stream : Covered(stream[k]) /\ Follows(k) /\ Later(k) /\ stream[k].state.gen >= 2
    /\ \A i \in ModeRuntimes : coord[i].state.gen = 1 \/ Entered(i)

\* The row of the projection is the latest of the recorded events.
ProjectionFacts ==
    /\ delivered <= Len(stream) /\ delivered \in Nat
    /\ hold \in [Consumers -> Nat] /\ \A c \in Consumers : hold[c] <= delivered
    /\ \A e \in pel : e \in 1 .. delivered
    /\ recorded \subseteq ToSet(stream)
    /\ projection # Absent => projection \in recorded
    /\ ProjectionLatest

ModeInv == ModeTypes /\ CoordFacts /\ CallFacts /\ KnownFacts /\ ViewFacts /\ StreamFacts /\ ProjectionFacts

\* Every initial state satisfies the mode invariant.
LEMMA ModeInitInv == SystemInit => ModeInv
<1> SUFFICES ASSUME SystemInit PROVE ModeInv
  OBVIOUS
<1>1. \A i \in ModeRuntimes : NewCoordinator(i, 0) \in CoordRecord
  <2>1. SUFFICES ASSUME NEW i \in ModeRuntimes PROVE NewCoordinator(i, 0) \in CoordRecord
    OBVIOUS
  <2>2. [inst |-> i, mode |-> InitialMode, gen |-> 1, at |-> 0] \in States
    BY ModeAssumption DEF States
  <2> QED BY <2>2 DEF NewCoordinator, CoordRecord
<1>2. \A i \in ModeRuntimes :
          /\ coord[i].state.inst = i /\ coord[i].state.mode = InitialMode
          /\ coord[i].state.gen = 1 /\ coord[i].state.at = 0
          /\ coord[i].pending = Absent /\ coord[i].window = <<>>
  <2>1. SUFFICES ASSUME NEW i \in ModeRuntimes
                 PROVE  /\ coord[i].state.inst = i /\ coord[i].state.mode = InitialMode
                        /\ coord[i].state.gen = 1 /\ coord[i].state.at = 0
                        /\ coord[i].pending = Absent /\ coord[i].window = <<>>
    OBVIOUS
  <2>2. coord[i] = NewCoordinator(i, 0)
    BY DEF SystemInit, ModeInit
  <2> QED BY <2>2 DEF NewCoordinator
<1>3. ModeTypes
  <2>1. turn \in [Turns -> TurnRecord] /\ \A t \in Turns : turn[t].at = "new"
    BY DEF SystemInit, ModeInit, TurnRecord
  <2>2. op \in [Ops -> OpRecord] /\ \A o \in Ops : op[o].at = "new"
    BY DEF SystemInit, ClientInit, OpRecord, OpPlaces
  <2>3. inst \in ModeRuntimes /\ clock \in 0 .. MaxClock
    BY ModeAssumption DEF SystemInit, ModeInit, ModeRuntimes
  <2>4. coord \in [ModeRuntimes -> CoordRecord] /\ stream \in Seq(Transitions) /\ modeCalls = {}
        /\ answer \in [Ops -> Results \cup {Conflict, Failure, Absent}]
        /\ view = Absent /\ refreshed = Absent
    BY <1>1 DEF SystemInit, ModeInit, ClientInit
  <2> QED BY <2>1, <2>2, <2>3, <2>4 DEF ModeTypes
<1>5. CoordFacts
  BY <1>2 DEF SystemInit, ModeInit, CoordFacts, CoordOK
<1>6. KnownFacts
  <2>1. \A o \in Ops : answer[o] \notin Results
    BY ModeAssumption DEF SystemInit, ModeInit
  <2>2. \A s \in States : Knows(s) => \E i \in ModeRuntimes : s = coord[i].state
    <3>1. SUFFICES ASSUME NEW s \in States, Knows(s) PROVE \E i \in ModeRuntimes : s = coord[i].state
      OBVIOUS
    <3>2. \A i \in ModeRuntimes : DOMAIN coord[i].window = {}
      BY <1>2
    <3> QED BY <2>1, <3>1, <3>2 DEF SystemInit, ClientInit, Knows
  <2>3. \A s \in States : s.inst \in ModeRuntimes
    BY DEF States
  <2> QED BY <1>2, <2>2, <2>3 DEF KnownFacts
<1>8. CallFacts /\ ViewFacts
  BY DEF SystemInit, ModeInit, ClientInit, CallFacts, ViewFacts
<1>9. StreamFacts
  <2>1. DOMAIN stream = {}
    BY DEF SystemInit, ModeInit
  <2> QED BY <1>2, <2>1 DEF StreamFacts
<1>7. ProjectionFacts
  BY DEF SystemInit, ModeInit, ProjectionInit, ProjectionFacts, ProjectionLatest
<1> QED BY <1>3, <1>5, <1>6, <1>7, <1>8, <1>9 DEF ModeInv

\* The replay window holds the new record and records it already held.
LEMMA RememberedIs ==
  ASSUME NEW w \in Seq(Records), NEW r \in Records
  PROVE  /\ Remember(w, r) \in Seq(Records)
         /\ \A k \in DOMAIN Remember(w, r) :
               Remember(w, r)[k] = r \/ \E j \in DOMAIN w : Remember(w, r)[k] = w[j]
<1>1. CASE Len(w) < Window
  BY <1>1 DEF Remember
<1>2. CASE ~(Len(w) < Window)
  <2>1. Len(w) >= 1
    BY <1>2, ModeAssumption
  <2>2. Tail(w) \in Seq(Records) /\ Len(Tail(w)) = Len(w) - 1 /\ \A k \in 1 .. Len(w) - 1 : Tail(w)[k] = w[k + 1]
    BY <2>1
  <2> DEFINE v == Tail(w)
  <2>3. Remember(w, r) = Append(v, r)
    BY <1>2 DEF Remember
  <2>4. \A k \in 1 .. Len(v) : k + 1 \in 1 .. Len(w) /\ v[k] = w[k + 1]
    BY <2>1, <2>2
  <2> HIDE DEF v
  <2> QED BY <2>2, <2>3, <2>4 DEF v
<1> QED BY <1>1, <1>2

\* What writing one coordinator changes.
LEMMA CoordWrites ==
  ASSUME ModeTypes, NEW i \in ModeRuntimes, NEW c \in CoordRecord, coord' = [coord EXCEPT ![i] = c]
  PROVE  /\ coord' \in [ModeRuntimes -> CoordRecord] /\ coord'[i] = c
         /\ \A j \in ModeRuntimes : j # i => coord'[j] = coord[j]
BY DEF ModeTypes

-----------------------------------------------------------------------------
(* What is known. *)

CoordGrows ==
    \A i \in ModeRuntimes : /\ coord'[i].state \in States /\ coord'[i].state.inst = i
                            /\ coord'[i].state.gen >= coord[i].state.gen
                            /\ coord'[i].state.at >= coord[i].state.at
NewsOnly == \A s \in States : Knows(s)' => Knows(s) \/ \E i \in ModeRuntimes : s = coord'[i].state

\* If coordinators only go forward, and the only news is what they say, then
\* what is known stays in order.
LEMMA KnownMove ==
  ASSUME ModeTypes, KnownFacts, CoordGrows, NewsOnly
  PROVE  KnownFacts'
<1>0. \A i \in ModeRuntimes : coord[i].state \in States /\ coord[i].state.gen \in Nat /\ coord[i].state.at \in Nat
  BY ModeAssumption DEF ModeTypes, CoordRecord, States
<1>1. \A s \in States : s.inst \in ModeRuntimes /\ s.gen \in Nat /\ s.at \in Nat
  BY ModeAssumption DEF States
<1>2. ASSUME NEW s \in States, Knows(s)'
      PROVE  s.gen <= coord'[s.inst].state.gen /\ s.at <= coord'[s.inst].state.at
  BY <1>0, <1>1, <1>2 DEF NewsOnly, CoordGrows, KnownFacts
<1>3. ASSUME NEW s \in States, Knows(s)', NEW r \in States, Knows(r)', r.inst = s.inst, r.gen < s.gen
      PROVE  r.at <= s.at
  <2>1. CASE Knows(s) /\ Knows(r)
    BY <1>3, <2>1 DEF KnownFacts
  <2>2. CASE s = coord'[s.inst].state
    BY <1>1, <1>2, <1>3, <2>2
  <2>3. CASE r = coord'[r.inst].state /\ Knows(s)
    BY <1>0, <1>1, <1>2, <1>3, <2>3
  <2>4. (Knows(s) \/ s = coord'[s.inst].state) /\ (Knows(r) \/ r = coord'[r.inst].state)
    BY <1>3 DEF NewsOnly, CoordGrows
  <2> QED BY <2>1, <2>2, <2>3, <2>4
<1> QED BY <1>2, <1>3 DEF KnownFacts

\* No coordinator moved.
LEMMA CoordRests ==
  ASSUME ModeTypes, CoordFacts, coord' = coord
  PROVE  CoordGrows
BY ModeAssumption DEF ModeTypes, CoordFacts, CoordOK, CoordGrows, CoordRecord, States

-----------------------------------------------------------------------------
(* Publishing a transition, for the first time or again. *)

Prepared(i, p) ==
    /\ i <= inst /\ p.state.inst = i
    /\ p.state.gen = coord[i].state.gen + 1 /\ p.state.gen <= clock' + 1
    /\ p.state.at >= coord[i].state.at /\ p.state.at <= clock'
    /\ p.from = coord[i].state.mode
    /\ coord[i].pending \in {Absent, p}
    /\ clock' \in 0 .. MaxClock /\ clock' >= clock

\* What the step makes of the coordinator: it enters the state, or keeps the
\* transition frozen, which then may be in the stream.
Enters(i, p) ==
    /\ stream' = StreamWith(p)
    /\ coord'[i].state = p.state /\ coord'[i].pending = Absent
Freezes(i, p) ==
    /\ stream' \in {stream, StreamWith(p)}
    /\ coord'[i].state = coord[i].state /\ coord'[i].pending = p
OthersRest(i) == \A j \in ModeRuntimes : j # i => coord'[j] = coord[j]
WindowsOnly ==
    \A i \in ModeRuntimes : \A k \in DOMAIN coord'[i].window :
        \/ \E m \in DOMAIN coord[i].window : coord'[i].window[k] = coord[i].window[m]
        \/ coord'[i].window[k].result.state = coord'[i].state

\* commitPending either enters the published state or keeps the transition
\* frozen.
LEMMA CommitShape ==
  ASSUME ModeInv, NEW i \in ModeRuntimes, NEW p \in Transitions, NEW ok \in BOOLEAN, CommitPending(i, p, ok)
  PROVE  /\ coord' \in [ModeRuntimes -> CoordRecord] /\ OthersRest(i) /\ WindowsOnly
         /\ IF ok THEN Enters(i, p) ELSE Freezes(i, p)
<1>0. ModeTypes /\ coord[i] \in CoordRecord
  BY DEF ModeInv, ModeTypes
<1>1. stream' \in {stream, StreamWith(p)} /\ (ok => stream' = StreamWith(p))
  BY DEF CommitPending, Publish
<1>2. CASE ok
  <2> DEFINE r == [cmd |-> p.cmd, result |-> Applied(p)]
             w == Remember(coord[i].window, r)
  <2>1. p.state \in States /\ p.cmd \in Commands
    BY DEF Transitions
  <2>2. r \in Records /\ r.result.state = p.state
    BY <2>1 DEF Records, Results, Applied
  <2>3. coord[i].window \in Seq(Records)
    BY <1>0 DEF CoordRecord
  <2> HIDE DEF r
  <2>4. /\ w \in Seq(Records)
        /\ \A k \in DOMAIN w : w[k] = r \/ \E m \in DOMAIN coord[i].window : w[k] = coord[i].window[m]
    BY <2>2, <2>3, RememberedIs
  <2>5. coord' = [coord EXCEPT ![i] = [state |-> p.state, pending |-> Absent, window |-> w]]
    BY <1>2 DEF CommitPending, Committed, r
  <2> HIDE DEF w
  <2> DEFINE c == [state |-> p.state, pending |-> Absent, window |-> w]
  <2>6. c \in CoordRecord /\ c.state = p.state /\ c.pending = Absent /\ c.window = w
    BY <2>1, <2>4 DEF CoordRecord
  <2>7. coord' = [coord EXCEPT ![i] = c]
    BY <2>5
  <2> HIDE DEF c
  <2>8. /\ coord' \in [ModeRuntimes -> CoordRecord] /\ coord'[i] = c
        /\ \A j \in ModeRuntimes : j # i => coord'[j] = coord[j]
    BY <1>0, <2>6, <2>7, CoordWrites
  <2>9. WindowsOnly
    BY <2>2, <2>4, <2>6, <2>8 DEF WindowsOnly
  <2> QED BY <1>1, <1>2, <2>6, <2>8, <2>9 DEF Enters, OthersRest
<1>3. CASE ~ok
  <2> DEFINE c == [coord[i] EXCEPT !.pending = p]
  <2>1. c \in CoordRecord /\ c.state = coord[i].state /\ c.pending = p /\ c.window = coord[i].window
    BY <1>0 DEF CoordRecord
  <2>2. coord' = [coord EXCEPT ![i] = c]
    BY <1>3 DEF CommitPending
  <2> HIDE DEF c
  <2>3. /\ coord' \in [ModeRuntimes -> CoordRecord] /\ coord'[i] = c
        /\ \A j \in ModeRuntimes : j # i => coord'[j] = coord[j]
    BY <1>0, <2>1, <2>2, CoordWrites
  <2>4. WindowsOnly
    BY <2>1, <2>3 DEF WindowsOnly
  <2> QED BY <1>1, <1>3, <2>1, <2>3, <2>4 DEF Freezes, OthersRest
<1> QED BY <1>2, <1>3

\* The numbers in states and events are numbers.
LEMMA CoordNumbers ==
  ASSUME ModeTypes
  PROVE  /\ clock \in Nat /\ inst \in Nat /\ \A i \in ModeRuntimes : i \in Nat
         /\ \A s \in States : s.inst \in ModeRuntimes /\ s.gen \in Nat \ {0} /\ s.at \in Nat
         /\ \A i \in ModeRuntimes : coord[i].state \in States /\ coord[i].pending \in Transitions \cup {Absent}
         /\ \A e \in Transitions : e.state \in States
         /\ Absent \notin Transitions
<1>1. \A s \in States : s.inst \in ModeRuntimes /\ s.gen \in Nat \ {0} /\ s.at \in Nat
  BY ModeAssumption DEF States
<1>2. \A e \in Transitions : e.state \in States
  BY DEF Transitions
<1>3. \A i \in ModeRuntimes : coord[i].state \in States /\ coord[i].pending \in Transitions \cup {Absent}
  BY DEF ModeTypes, CoordRecord
<1>4. clock \in Nat /\ inst \in Nat /\ \A i \in ModeRuntimes : i \in Nat
  BY ModeAssumption DEF ModeTypes, ModeRuntimes
<1> QED BY <1>1, <1>2, <1>3, <1>4, ModeAssumption

\* Entering or freezing a prepared transition keeps what holds of coordinators.
LEMMA CommitCoords ==
  ASSUME ModeInv, NEW i \in ModeRuntimes, NEW p \in Transitions, Prepared(i, p), inst' = inst,
         OthersRest(i), Enters(i, p) \/ Freezes(i, p)
  PROVE  CoordFacts' /\ CoordGrows
<1>1. \A j \in ModeRuntimes : coord[j].state.inst = j
  BY DEF ModeInv, CoordFacts, CoordOK
<1>2. p.state \in States
  BY DEF Transitions
<1>3. CoordGrows
  BY <1>1, <1>2, CoordNumbers DEF ModeInv, CoordGrows, OthersRest, Enters, Freezes, Prepared
<1>4. ASSUME NEW j \in ModeRuntimes, j # i PROVE CoordOK(j)'
  <2>1. coord'[j] = coord[j]
    BY <1>4 DEF OthersRest
  <2>2. coord[j].pending # Absent => coord[j].pending.state \in States
    BY CoordNumbers DEF ModeInv
  <2>3. clock' >= clock /\ clock' \in Nat
    BY DEF Prepared
  <2> QED BY <2>1, <2>2, <2>3, CoordNumbers DEF ModeInv, CoordFacts, CoordOK
<1>5. CASE Enters(i, p)
  <2>1. LET c == coord'[i] IN
        /\ c.state.inst = i /\ c.state.gen <= clock' + 1 /\ c.state.at <= clock'
        /\ i <= inst' /\ c.pending = Absent /\ c.state.gen # 1
    BY <1>2, <1>5, CoordNumbers DEF ModeInv, Enters, Prepared
  <2>2. CoordOK(i)'
    BY <2>1, CoordNumbers DEF ModeInv, CoordOK
  <2>9. CoordFacts'
    BY <1>4, <2>2 DEF CoordFacts, CoordOK
  <2> QED BY <2>9, <1>3
<1>6. CASE Freezes(i, p)
  <2>1. LET c == coord'[i] IN
        /\ c.state = coord[i].state /\ c.pending = p /\ i <= inst'
        /\ p.state.inst = i /\ p.state.gen = c.state.gen + 1 /\ p.state.gen <= clock' + 1
        /\ p.state.at <= clock' /\ p.state.at >= c.state.at /\ p.from = c.state.mode
        /\ clock' >= clock /\ clock' \in Nat
    BY <1>6 DEF Freezes, Prepared
  <2>2. /\ coord[i].state.inst = i /\ coord[i].state.gen <= clock + 1 /\ coord[i].state.at <= clock
        /\ coord[i].state.gen # 1 \/ coord[i].state.mode = InitialMode
    BY DEF ModeInv, CoordFacts, CoordOK
  <2>3. LET c == coord'[i] IN
        /\ c.state.inst = i /\ c.state.gen <= clock' + 1 /\ c.state.at <= clock'
        /\ c.state.gen # 1 \/ c.state.mode = InitialMode
    BY <2>1, <2>2, CoordNumbers DEF ModeInv
  <2>4. CoordOK(i)'
    BY <2>1, <2>3, CoordNumbers DEF ModeInv, CoordOK
  <2>9. CoordFacts'
    BY <1>4, <2>4 DEF CoordFacts, CoordOK
  <2> QED BY <2>9, <1>3
<1> QED BY <1>3, <1>5, <1>6

\* A frozen or new transition has no successor in the stream.
LEMMA NextEvent ==
  ASSUME ModeInv, NEW i \in ModeRuntimes, NEW p \in Transitions, Prepared(i, p)
  PROVE  \A k \in DOMAIN stream : stream[k].state.inst = i /\ stream[k] # p =>
            stream[k].state.gen <= coord[i].state.gen /\ stream[k].state.at <= coord[i].state.at
BY DEF ModeInv, StreamFacts, Covered, Prepared

StreamWrites(p) ==
    /\ stream' \in Seq(Transitions) /\ Len(stream') = Len(stream) + 1
    /\ stream'[Len(stream) + 1] = p /\ \A k \in DOMAIN stream : stream'[k] = stream[k]

\* The outbox knows the event already, or appends it.
LEMMA StreamCases ==
  ASSUME stream \in Seq(Transitions), NEW p \in Transitions
  PROVE  \/ StreamWith(p) = stream /\ \E k \in DOMAIN stream : stream[k] = p
         \/ /\ \A k \in DOMAIN stream : stream[k] # p
            /\ stream' = StreamWith(p) => StreamWrites(p)
BY DEF StreamWith, ToSet, StreamWrites

\* An event the coordinator has covered stays covered.
LEMMA StaysCovered ==
  ASSUME ModeInv, NEW i \in ModeRuntimes, NEW p \in Transitions, Prepared(i, p), OthersRest(i),
         Enters(i, p) \/ Freezes(i, p), NEW e \in Transitions, Covered(e)
  PROVE  Covered(e)'
<1>0. ModeTypes
  BY DEF ModeInv
<1>1. e.state \in States /\ p.state \in States
  BY <1>0, CoordNumbers
<1>2. CASE e.state.inst # i
  BY <1>0, <1>1, <1>2, CoordNumbers DEF Covered, OthersRest
<1>3. CASE e.state.inst = i
  <2>1. (e.state.gen <= coord[i].state.gen /\ e.state.at <= coord[i].state.at) \/ (coord[i].pending # Absent /\ e = p)
    BY <1>3 DEF Covered, Prepared
  <2>2. CASE Enters(i, p)
    <3>1. coord'[i].state = p.state /\ p.state.gen >= coord[i].state.gen /\ p.state.at >= coord[i].state.at
      BY <2>2, <1>0, <1>1, CoordNumbers DEF Enters, Prepared
    <3>2. e.state.gen <= p.state.gen /\ e.state.at <= p.state.at
      BY <2>1, <3>1, <1>0, <1>1, CoordNumbers
    <3> QED BY <1>3, <3>1, <3>2 DEF Covered
  <2>3. CASE Freezes(i, p)
    <3>1. coord'[i].state = coord[i].state /\ coord'[i].pending = p /\ p # Absent
      BY <2>3, <1>0, CoordNumbers DEF Freezes
    <3> QED BY <1>3, <2>1, <3>1 DEF Covered
  <2> QED BY <2>2, <2>3
<1> QED BY <1>2, <1>3

\* Entering or freezing a prepared transition keeps the order of the stream.
LEMMA CommitStream ==
  ASSUME ModeInv, NEW i \in ModeRuntimes, NEW p \in Transitions, Prepared(i, p),
         OthersRest(i), Enters(i, p) \/ Freezes(i, p)
  PROVE  StreamFacts' /\ stream' \in Seq(Transitions)
<1>0. /\ ModeTypes /\ stream \in Seq(Transitions) /\ p.state \in States
      /\ \A k \in DOMAIN stream : stream[k] \in Transitions
  <2>1. stream \in Seq(Transitions)
    BY DEF ModeInv, ModeTypes
  <2> QED BY <2>1, CoordNumbers DEF ModeInv
<1>5. /\ coord[i].state.gen \in Nat \ {0} /\ p.state.gen \in Nat /\ coord[i].state.at \in Nat /\ p.state.at \in Nat
      /\ p.state.gen = coord[i].state.gen + 1 /\ p.state.at >= coord[i].state.at
      /\ p.state.inst = i /\ p.from = coord[i].state.mode
  BY <1>0, CoordNumbers DEF Prepared
<1>1. Covered(p)'
  BY <1>0, CoordNumbers DEF Enters, Freezes, Covered, Prepared
<1>2. ASSUME NEW j \in ModeRuntimes, coord[j].state.gen = 1 \/ Entered(j),
             \A k \in DOMAIN stream : k \in DOMAIN stream' /\ stream'[k] = stream[k],
             Enters(i, p) => \E k \in DOMAIN stream' : stream'[k] = p
      PROVE  coord'[j].state.gen = 1 \/ Entered(j)'
  <2>1. CASE coord'[j].state = coord[j].state
    BY <1>2, <2>1 DEF Entered
  <2>2. CASE j = i /\ Enters(i, p)
    BY <1>2, <2>2 DEF Entered, Enters, Prepared
  <2> QED BY <2>1, <2>2 DEF OthersRest, Freezes
<1>3. CASE stream' = stream
  <2>1. \A k \in DOMAIN stream : Follows(k)' /\ Later(k)' /\ stream'[k].state.gen >= 2
    BY <1>3 DEF ModeInv, StreamFacts, Follows, Later
  <2>2. ASSUME NEW k \in DOMAIN stream PROVE Covered(stream[k])'
    <3>1. PICK e \in Transitions : e = stream[k] /\ Covered(e)
      BY <1>0 DEF ModeInv, StreamFacts
    <3>2. Covered(e)'
      BY <3>1, StaysCovered
    <3> QED BY <1>3, <3>1, <3>2 DEF Covered
  <2>3. Enters(i, p) => \E k \in DOMAIN stream : stream[k] = p
    <3>1. SUFFICES ASSUME Enters(i, p) PROVE \E k \in DOMAIN stream : stream[k] = p
      OBVIOUS
    <3>2. StreamWith(p) = stream
      BY <1>3, <3>1 DEF Enters
    <3>3. CASE StreamWrites(p)
      BY <1>3, <1>0, <3>3 DEF StreamWrites
    <3> QED BY <1>0, <1>3, <3>2, <3>3, StreamCases
  <2>4. \A j \in ModeRuntimes : coord'[j].state.gen = 1 \/ Entered(j)'
    BY <1>2, <1>3, <2>3 DEF ModeInv, StreamFacts
  <2> QED BY <1>0, <1>3, <2>1, <2>2, <2>4 DEF StreamFacts
<1>4. CASE StreamWrites(p) /\ \A k \in DOMAIN stream : stream[k] # p
  <2> DEFINE n == Len(stream) + 1
  <2>0. /\ n \in Nat \ {0} /\ DOMAIN stream = 1 .. n - 1 /\ DOMAIN stream' = 1 .. n
        /\ stream'[n] = p /\ \A k \in 1 .. n - 1 : stream'[k] = stream[k]
    BY <1>0, <1>4 DEF StreamWrites
  <2> HIDE DEF n
  <2>1. PICK m : m = n
    OBVIOUS
  <2>2. /\ m \in Nat \ {0} /\ DOMAIN stream = 1 .. m - 1 /\ DOMAIN stream' = 1 .. m
        /\ stream'[m] = p /\ \A k \in 1 .. m - 1 : stream'[k] = stream[k]
    BY <2>0, <2>1
  <2>3. \A k \in 1 .. m - 1 : Follows(k)' /\ Later(k)' /\ stream'[k].state.gen >= 2
    <3>1. SUFFICES ASSUME NEW k \in 1 .. m - 1 PROVE Follows(k)' /\ Later(k)' /\ stream'[k].state.gen >= 2
      OBVIOUS
    <3>2. \A l \in 1 .. k - 1 : l \in 1 .. m - 1 /\ stream'[l] = stream[l]
      BY <2>2, <3>1
    <3>3. stream'[k] = stream[k] /\ Follows(k) /\ Later(k) /\ stream[k].state.gen >= 2
      BY <2>2, <3>1 DEF ModeInv, StreamFacts
    <3> QED BY <3>2, <3>3 DEF Follows, Later
  <2>4. ASSUME NEW k \in 1 .. m - 1 PROVE Covered(stream[k])'
    <3>1. PICK e \in Transitions : e = stream[k] /\ Covered(e)
      BY <1>0, <2>2 DEF ModeInv, StreamFacts
    <3>2. Covered(e)'
      BY <3>1, StaysCovered
    <3>3. stream'[k] = e
      BY <2>2, <3>1
    <3> QED BY <3>2, <3>3 DEF Covered
  <2>5. Covered(stream[m])'
    BY <1>1, <2>2 DEF Covered
  <2>6. p.state.gen >= 2 /\ p.state.inst = i /\ p.state.gen - 1 = coord[i].state.gen /\ p.from = coord[i].state.mode
    BY <1>5
  <2>7. Follows(m)'
    <3>1. CASE coord[i].state.gen = 1
      <4>1. p.from = InitialMode /\ p.state.gen = 2
        BY <3>1, <2>6, <1>0, CoordNumbers DEF ModeInv, CoordFacts, CoordOK
      <4> QED BY <4>1, <2>2 DEF Follows
    <3>2. CASE Entered(i)
      <4>1. PICK k \in 1 .. m - 1 : /\ stream[k].state.inst = i /\ stream[k].state.gen = coord[i].state.gen
                                   /\ stream[k].state.mode = coord[i].state.mode
        BY <3>2, <2>2 DEF Entered
      <4>2. stream'[k] = stream[k]
        BY <2>2
      <4> QED BY <2>2, <2>6, <4>1, <4>2 DEF Follows
    <3> QED BY <3>1, <3>2 DEF ModeInv, StreamFacts
  <2>8. Later(m)'
    <3>1. SUFFICES ASSUME NEW l \in 1 .. m - 1, stream[l].state.inst = i
                   PROVE  stream[l].state.gen < p.state.gen /\ stream[l].state.at <= p.state.at
      BY <2>2, <2>6 DEF Later
    <3>2. stream[l].state.gen <= coord[i].state.gen /\ stream[l].state.at <= coord[i].state.at
      BY <3>1, <2>2, <1>4, NextEvent
    <3>3. stream[l] \in Transitions
      BY <2>2, <1>0
    <3>4. stream[l].state.gen \in Nat /\ stream[l].state.at \in Nat
      BY <3>3, <1>0, CoordNumbers
    <3> QED BY <3>2, <3>4, <1>5
  <2>9. \A j \in ModeRuntimes : coord'[j].state.gen = 1 \/ Entered(j)'
    <3>1. \A k \in DOMAIN stream : k \in DOMAIN stream' /\ stream'[k] = stream[k]
      BY <2>2
    <3>2. \E k \in DOMAIN stream' : stream'[k] = p
      BY <2>2
    <3> QED BY <1>2, <3>1, <3>2 DEF ModeInv, StreamFacts
  <2>10. \A k \in 1 .. m : Covered(stream[k])' /\ Follows(k)' /\ Later(k)' /\ stream'[k].state.gen >= 2
    <3>1. \A k \in 1 .. m : k = m \/ k \in 1 .. m - 1
      BY <2>2
    <3>2. stream'[m].state.gen >= 2
      BY <2>2, <2>6
    <3> QED BY <2>3, <2>4, <2>5, <2>7, <2>8, <3>1, <3>2
  <2> QED BY <1>4, <2>2, <2>9, <2>10 DEF StreamFacts, StreamWrites
<1> QED BY <1>0, <1>3, <1>4, StreamCases DEF Enters, Freezes

-----------------------------------------------------------------------------
(* Steps that leave coordinators and stream alone. *)

\* A step that leaves coordinators and stream alone and tells nothing new keeps
\* the invariant.
LEMMA QuietStep ==
  ASSUME ModeInv, coord' = coord, stream' = stream, clock' = clock, inst' = inst,
         NewsOnly, ModeTypes', CallFacts', ViewFacts', ProjectionFacts'
  PROVE  ModeInv'
<1>1. CoordFacts' /\ StreamFacts'
  BY DEF ModeInv, CoordFacts, CoordOK, StreamFacts, Covered, Follows, Later, Entered
<1>2. KnownFacts'
  BY CoordRests, KnownMove DEF ModeInv
<1> QED BY <1>1, <1>2 DEF ModeInv

\* The stream only grows: what was delivered and recorded is still in it.
LEMMA ProjectionRests ==
  ASSUME ModeInv, UNCHANGED projectionVars,
         \/ stream' = stream
         \/ \E p \in Transitions : stream' = StreamWith(p)
  PROVE  ProjectionFacts'
<1>1. stream \in Seq(Transitions)
  BY DEF ModeInv, ModeTypes
<1>2. /\ Len(stream') \in Nat /\ Len(stream) \in Nat /\ Len(stream') >= Len(stream)
      /\ ToSet(stream) \subseteq ToSet(stream')
  <2>1. ASSUME NEW p \in Transitions, StreamWrites(p)
        PROVE  /\ Len(stream') \in Nat /\ Len(stream) \in Nat /\ Len(stream') >= Len(stream)
               /\ ToSet(stream) \subseteq ToSet(stream')
    BY <1>1, <2>1 DEF StreamWrites, ToSet
  <2>2. CASE stream' = stream
    BY <1>1, <2>2
  <2> QED BY <1>1, <2>1, <2>2, StreamCases
<1>3. UNCHANGED <<delivered, pel, hold, projected, recorded, projection>>
  BY DEF projectionVars
<1>4. ProjectionLatest'
  BY <1>3 DEF ModeInv, ProjectionFacts, ProjectionLatest
<1> QED BY <1>2, <1>3, <1>4 DEF ModeInv, ProjectionFacts

\* What answering a call changes.
LEMMA AnswerWrites ==
  ASSUME ModeTypes, NEW call \in modeCalls, NEW a \in Results \cup {Conflict, Failure}, Answers(call, a)
  PROVE  /\ answer' \in [Ops -> Results \cup {Conflict, Failure, Absent}]
         /\ \A o \in Ops : answer'[o] = answer[o] \/ answer'[o] = a
         /\ \A c \in modeCalls' : c \in modeCalls
<1>1. call.cmd.op \in Ops
  BY DEF ModeTypes, Commands
<1> QED BY <1>1 DEF ModeTypes, Answers

\* Neither an error nor nothing is a result.
LEMMA NoResult == Conflict \notin Results /\ Failure \notin Results /\ Absent \notin Results
BY ModeAssumption DEF Conflict, Failure, Results

\* The parts a step of a call leaves alone.
CallRest == UNCHANGED <<inst, turn, clientVars, projectionVars>>

\* An answer that says nothing new.
LEMMA AnswerStep ==
  ASSUME ModeInv, NEW call \in modeCalls, NEW a \in Results \cup {Conflict, Failure}, Answers(call, a),
         a \in Results => Knows(a.state),
         UNCHANGED <<coord, stream, clock>>, CallRest
  PROVE  ModeInv'
<1>0. /\ coord' = coord /\ stream' = stream /\ clock' = clock /\ inst' = inst /\ turn' = turn
      /\ view' = view /\ refreshed' = refreshed /\ op' = op /\ retired' = retired
  BY DEF CallRest, clientVars
<1>1. /\ answer' \in [Ops -> Results \cup {Conflict, Failure, Absent}]
      /\ \A o \in Ops : answer'[o] = answer[o] \/ answer'[o] = a
      /\ \A c \in modeCalls' : c \in modeCalls
  BY AnswerWrites DEF ModeInv
<1>2. NewsOnly
  BY <1>0, <1>1, NoResult DEF NewsOnly, Knows
<1>3. ModeTypes' /\ CallFacts' /\ ViewFacts'
  BY <1>0, <1>1 DEF ModeInv, ModeTypes, CallFacts, ViewFacts
<1>4. ProjectionFacts'
  BY <1>0, ProjectionRests DEF CallRest
<1> QED BY <1>0, <1>2, <1>3, <1>4, QuietStep

-----------------------------------------------------------------------------
(* A call that publishes.                                                   *)

\* Publishing a prepared transition, for the first time or again, keeps the
\* invariant.
LEMMA PublishStep ==
  ASSUME ModeInv, NEW i \in ModeRuntimes, NEW p \in Transitions, NEW ok \in BOOLEAN,
         Prepared(i, p), CommitPending(i, p, ok), CallRest,
         answer' \in [Ops -> Results \cup {Conflict, Failure, Absent}],
         \A c \in modeCalls' : c \in modeCalls,
         \A o \in Ops : answer'[o] \in Results =>
            answer'[o] = answer[o] \/ (ok /\ answer'[o].state = p.state)
  PROVE  ModeInv'
<1>0. /\ inst' = inst /\ turn' = turn /\ view' = view /\ refreshed' = refreshed
      /\ op' = op /\ retired' = retired
  BY DEF CallRest, clientVars
<1>1. /\ coord' \in [ModeRuntimes -> CoordRecord] /\ OthersRest(i) /\ WindowsOnly
      /\ IF ok THEN Enters(i, p) ELSE Freezes(i, p)
  BY CommitShape
<1>2. CoordFacts' /\ CoordGrows
  BY <1>0, <1>1, CommitCoords
<1>3. StreamFacts' /\ stream' \in Seq(Transitions)
  BY <1>1, CommitStream
<1>4. NewsOnly
  <2>1. SUFFICES ASSUME NEW s \in States, Knows(s)' PROVE Knows(s) \/ \E j \in ModeRuntimes : s = coord'[j].state
    BY DEF NewsOnly
  <2>2. CASE \E j \in ModeRuntimes : s = coord'[j].state
    BY <2>2
  <2>3. CASE \E j \in ModeRuntimes : \E k \in DOMAIN coord'[j].window : s = coord'[j].window[k].result.state
    BY <1>1, <2>3 DEF WindowsOnly, Knows
  <2>4. CASE \E o \in Ops : answer'[o] \in Results /\ s = answer'[o].state
    BY <1>1, <2>4 DEF Knows, Enters
  <2>5. CASE s # Absent /\ s \in {view, refreshed}
    BY <2>5 DEF Knows
  <2> QED BY <1>0, <2>1, <2>2, <2>3, <2>4, <2>5 DEF Knows
<1>5. KnownFacts'
  BY <1>2, <1>4, KnownMove DEF ModeInv
<1>6. clock' \in 0 .. MaxClock
  BY DEF Prepared
<1>7. ModeTypes' /\ CallFacts' /\ ViewFacts'
  BY <1>0, <1>1, <1>3, <1>6 DEF ModeInv, ModeTypes, CallFacts, ViewFacts
<1>8. ProjectionFacts'
  BY <1>1, ProjectionRests DEF CallRest, Enters, Freezes
<1> QED BY <1>2, <1>3, <1>5, <1>7, <1>8 DEF ModeInv

\* The call has found the coordinator of a runtime that was started.
LEMMA FoundCoordinator ==
  ASSUME ModeInv, NEW call \in modeCalls, call.found # Absent
  PROVE  call.found \in ModeRuntimes /\ call.found <= inst /\ call.cmd \in Commands
BY DEF ModeInv, ModeTypes, CallFacts

\* The answer to a published transition carries its state.
LEMMA AppliedIs ==
  ASSUME NEW p \in Transitions
  PROVE  Applied(p) \in Results /\ Applied(p).state = p.state
<1>1. p.state \in States
  BY DEF Transitions
<1> QED BY <1>1 DEF Applied, Results

\* A frozen transition is published again.
LEMMA FrozenPrepared ==
  ASSUME ModeInv, NEW i \in ModeRuntimes, i <= inst, coord[i].pending # Absent, clock' = clock
  PROVE  coord[i].pending \in Transitions /\ Prepared(i, coord[i].pending)
<1>1. ModeTypes /\ coord[i].pending \in Transitions
  BY CoordNumbers DEF ModeInv
<1>2. CoordOK(i)
  BY DEF ModeInv, CoordFacts
<1>3. clock \in 0 .. MaxClock
  BY DEF ModeInv, ModeTypes
<1> QED BY <1>1, <1>2, <1>3, CoordNumbers DEF Prepared, CoordOK

\* A remembered command is answered as it was before.
LEMMA ReplayStep ==
  ASSUME ModeInv, NEW call \in modeCalls, call.found # Absent, ReplaySwitch(call), CallRest
  PROVE  ModeInv'
<1> DEFINE i == call.found
<1>1. i \in ModeRuntimes
  BY FoundCoordinator
<1>2. PICK r \in ToSet(coord[i].window) :
          /\ Answers(call, IF r.cmd = call.cmd THEN r.result ELSE Failure)
          /\ UNCHANGED <<coord, stream, clock, modeFaults>>
  BY DEF ReplaySwitch
<1>3. coord[i].window \in Seq(Records)
  BY <1>1 DEF ModeInv, ModeTypes, CoordRecord
<1>4. PICK k \in DOMAIN coord[i].window : r = coord[i].window[k]
  BY DEF ToSet
<1>5. r \in Records
  BY <1>3, <1>4
<1>6. r.result \in Results /\ Knows(r.result.state)
  BY <1>1, <1>4, <1>5 DEF Records, Knows
<1>7. CASE r.cmd = call.cmd
  BY <1>2, <1>6, <1>7, AnswerStep
<1>8. CASE r.cmd # call.cmd
  BY <1>2, <1>8, AnswerStep, NoResult
<1> QED BY <1>7, <1>8

\* A frozen transition is published again, for its own command or before
\* another.
LEMMA ResumeStep ==
  ASSUME ModeInv, NEW call \in modeCalls, call.found # Absent, Resume(call) \/ Recover(call), CallRest
  PROVE  ModeInv'
<1>1. PICK i \in ModeRuntimes : i = call.found /\ i <= inst
  BY FoundCoordinator
<1>2. PICK p \in Transitions : p = coord[i].pending /\ Prepared(i, p)
  BY <1>1, FrozenPrepared DEF Resume, Recover
<1>3. PICK ok \in BOOLEAN :
          /\ CommitPending(i, p, ok)
          /\ \/ Answers(call, IF ok THEN Applied(p) ELSE Failure)
             \/ UNCHANGED <<modeCalls, answer>>
             \/ ~ok /\ Answers(call, Failure)
  BY <1>1, <1>2 DEF Resume, Recover
<1>4. ModeTypes
  BY DEF ModeInv
<1>5. CASE ok /\ Answers(call, Applied(p))
  <2>1. /\ answer' \in [Ops -> Results \cup {Conflict, Failure, Absent}]
        /\ \A o \in Ops : answer'[o] = answer[o] \/ answer'[o] = Applied(p)
        /\ \A c \in modeCalls' : c \in modeCalls
    BY <1>4, <1>5, AnswerWrites, AppliedIs
  <2> QED BY ZenonT(40), <1>2, <1>3, <1>5, <2>1, AppliedIs, PublishStep
<1>6. CASE Answers(call, Failure)
  <2>1. /\ answer' \in [Ops -> Results \cup {Conflict, Failure, Absent}]
        /\ \A o \in Ops : answer'[o] = answer[o] \/ answer'[o] = Failure
        /\ \A c \in modeCalls' : c \in modeCalls
    BY <1>4, <1>6, AnswerWrites
  <2> QED BY <1>2, <1>3, <2>1, NoResult, PublishStep
<1>7. CASE UNCHANGED <<modeCalls, answer>>
  <2>1. answer' \in [Ops -> Results \cup {Conflict, Failure, Absent}]
    BY <1>4, <1>7 DEF ModeTypes
  <2> QED BY <1>2, <1>3, <1>7, <2>1, PublishStep
<1> QED BY <1>3, <1>5, <1>6, <1>7

\* A switch to the mode that is on: the state gets a new time, nothing is published.
LEMMA UnchangedStep ==
  ASSUME ModeInv, NEW call \in modeCalls, NEW i \in ModeRuntimes, NEW s \in States, NEW r \in Results,
         call.found = i, i <= inst, coord[i].pending = Absent, clock < MaxClock, clock' = Now,
         s = [coord[i].state EXCEPT !.at = Now], r.state = s,
         coord' = [coord EXCEPT ![i] = [state |-> s, pending |-> Absent,
                       window |-> Remember(coord[i].window, [cmd |-> call.cmd, result |-> r])]],
         Answers(call, r), UNCHANGED <<stream, modeFaults>>, CallRest
  PROVE  ModeInv'
<1>0. /\ stream' = stream /\ inst' = inst /\ turn' = turn
      /\ view' = view /\ refreshed' = refreshed /\ op' = op /\ retired' = retired
  BY DEF CallRest, clientVars
<1>1. ModeTypes /\ coord[i] \in CoordRecord /\ call.cmd \in Commands /\ clock \in 0 .. MaxClock
  BY FoundCoordinator DEF ModeInv, ModeTypes
<1> DEFINE q == [cmd |-> call.cmd, result |-> r]
           w == Remember(coord[i].window, q)
<1>2. q \in Records /\ q.result = r
  BY <1>1 DEF Records
<1>3. coord[i].window \in Seq(Records)
  BY <1>1 DEF CoordRecord
<1> HIDE DEF q
<1>4. /\ w \in Seq(Records)
      /\ \A k \in DOMAIN w : w[k] = q \/ \E m \in DOMAIN coord[i].window : w[k] = coord[i].window[m]
  BY <1>2, <1>3, RememberedIs
<1> DEFINE c == [state |-> s, pending |-> Absent, window |-> w]
<1>5. coord' = [coord EXCEPT ![i] = c]
  BY DEF q
<1> HIDE DEF w
<1>6. c \in CoordRecord /\ c.state = s /\ c.pending = Absent /\ c.window = w
  BY <1>4 DEF CoordRecord
<1> HIDE DEF c
<1>7. /\ coord' \in [ModeRuntimes -> CoordRecord] /\ coord'[i] = c
      /\ \A j \in ModeRuntimes : j # i => coord'[j] = coord[j]
  BY <1>1, <1>5, <1>6, CoordWrites
<1>8. coord[i].state \in States /\ coord[i].state.at \in Nat /\ coord[i].state.gen \in Nat /\ clock \in Nat
  BY <1>1, CoordNumbers
<1>9. /\ s.inst = coord[i].state.inst /\ s.gen = coord[i].state.gen /\ s.mode = coord[i].state.mode
      /\ s.at = clock + 1
  BY <1>8 DEF States, Now
<1>10. \A j \in ModeRuntimes : CoordOK(j)
  BY DEF ModeInv, CoordFacts
<1>11. coord[i].state.inst = i /\ coord[i].state.at <= clock
  BY <1>10 DEF CoordOK
<1>12. clock' = clock + 1 /\ clock' \in 0 .. MaxClock
  BY <1>1, ModeAssumption DEF Now
<1>13. CoordGrows
  BY <1>6, <1>7, <1>8, <1>9, <1>10, <1>11, CoordNumbers DEF CoordGrows, CoordOK, ModeInv
<1>14. CoordFacts'
  <2>1. CoordOK(i)'
    BY <1>0, <1>6, <1>7, <1>8, <1>9, <1>10, <1>11, <1>12 DEF CoordOK
  <2>2. ASSUME NEW j \in ModeRuntimes, j # i PROVE CoordOK(j)'
    <3>1. coord'[j] = coord[j] /\ CoordOK(j)
      BY <1>7, <1>10, <2>2
    <3>2. coord[j].state \in States /\ (coord[j].pending # Absent => coord[j].pending.state \in States)
      BY <1>1, CoordNumbers
    <3> QED BY <1>0, <1>8, <1>12, <3>1, <3>2, CoordNumbers, <1>1 DEF CoordOK
  <2> QED BY <2>1, <2>2 DEF CoordFacts
<1>15. /\ answer' \in [Ops -> Results \cup {Conflict, Failure, Absent}]
       /\ \A o \in Ops : answer'[o] = answer[o] \/ answer'[o] = r
       /\ \A d \in modeCalls' : d \in modeCalls
  BY <1>1, AnswerWrites
<1>16. NewsOnly
  <2>1. SUFFICES ASSUME NEW z \in States, Knows(z)' PROVE Knows(z) \/ \E j \in ModeRuntimes : z = coord'[j].state
    BY DEF NewsOnly
  <2>2. CASE \E j \in ModeRuntimes : \E k \in DOMAIN coord'[j].window : z = coord'[j].window[k].result.state
    <3>1. PICK j \in ModeRuntimes : \E k \in DOMAIN coord'[j].window : z = coord'[j].window[k].result.state
      BY <2>2
    <3>2. CASE j # i
      BY <1>7, <3>1, <3>2 DEF Knows
    <3>3. CASE j = i
      <4>1. PICK k \in DOMAIN w : z = w[k].result.state
        BY <1>6, <1>7, <3>1, <3>3
      <4>2. w[k] = q => z = coord'[i].state
        BY <1>2, <1>6, <1>7, <4>1
      <4> QED BY <1>4, <4>1, <4>2 DEF Knows
    <3> QED BY <3>2, <3>3
  <2>3. CASE \E o \in Ops : answer'[o] \in Results /\ z = answer'[o].state
    BY <1>6, <1>7, <1>15, <2>3 DEF Knows
  <2> QED BY <1>0, <2>1, <2>2, <2>3 DEF Knows
<1>17. KnownFacts'
  BY <1>13, <1>16, KnownMove DEF ModeInv
<1>18. StreamFacts'
  <2>1. ASSUME NEW k \in DOMAIN stream PROVE Covered(stream[k])' /\ Follows(k)' /\ Later(k)' /\ stream'[k].state.gen >= 2
    <3>1. PICK e \in Transitions : e = stream[k] /\ Covered(e) /\ e.state \in States
      BY <1>1, CoordNumbers DEF ModeInv, ModeTypes, StreamFacts
    <3>2. ASSUME e.state.inst = i PROVE Covered(stream[k])'
      <4>1. e.state.gen <= coord[i].state.gen /\ e.state.at <= coord[i].state.at
        BY <3>1, <3>2 DEF Covered
      <4>2. e.state.gen <= coord'[i].state.gen /\ e.state.at <= coord'[i].state.at
        BY <4>1, <3>1, <1>6, <1>7, <1>8, <1>9, <1>11, CoordNumbers, <1>1
      <4> QED BY <1>0, <3>1, <3>2, <4>2 DEF Covered
    <3>3. ASSUME e.state.inst # i PROVE Covered(stream[k])'
      <4>1. coord'[e.state.inst] = coord[e.state.inst]
        BY <1>7, <3>1, <3>3, CoordNumbers, <1>1
      <4> QED BY <1>0, <3>1, <4>1 DEF Covered
    <3>4. Follows(k)' /\ Later(k)' /\ stream'[k].state.gen >= 2
      BY <1>0, <2>1 DEF ModeInv, StreamFacts, Follows, Later
    <3> QED BY <3>2, <3>3, <3>4
  <2>2. \A j \in ModeRuntimes : coord'[j].state.gen = 1 \/ Entered(j)'
    BY <1>0, <1>6, <1>7, <1>9 DEF ModeInv, StreamFacts, Entered
  <2> QED BY <1>0, <2>1, <2>2 DEF StreamFacts
<1>19. ModeTypes' /\ CallFacts' /\ ViewFacts'
  BY <1>0, <1>7, <1>12, <1>15 DEF ModeInv, ModeTypes, CallFacts, ViewFacts
<1>20. ProjectionFacts'
  BY <1>0, ProjectionRests DEF CallRest
<1> QED BY <1>14, <1>17, <1>18, <1>19, <1>20 DEF ModeInv

\* Compare-and-switch proper.
LEMMA ExecuteStep ==
  ASSUME ModeInv, NEW call \in modeCalls, call.found # Absent, ExecuteSwitch(call), CallRest
  PROVE  ModeInv'
<1>1. PICK i \in ModeRuntimes : i = call.found /\ i <= inst /\ call.cmd \in Commands
  BY FoundCoordinator
<1>2. PICK c \in CoordRecord : c = coord[i]
  BY <1>1 DEF ModeInv, ModeTypes
<1>3. ModeTypes /\ clock \in 0 .. MaxClock /\ CoordOK(i)
  BY DEF ModeInv, ModeTypes, CoordFacts
<1>4. CASE Answers(call, Conflict) /\ UNCHANGED <<coord, stream, clock, modeFaults>>
  BY <1>4, NoResult, AnswerStep
<1>5. ASSUME c.pending = Absent, ~Outdated(call.cmd, c), clock < MaxClock, clock' = Now,
             call.cmd.target # c.state.mode,
             NEW ok \in BOOLEAN, CommitPending(i, Prepare(c, call.cmd), ok),
             Answers(call, IF ok THEN Applied(Prepare(c, call.cmd)) ELSE Failure)
      PROVE  ModeInv'
  <2>1. PICK p : p = Prepare(c, call.cmd)
    OBVIOUS
  <2>2. /\ c.state \in States /\ c.state.gen \in Nat /\ c.state.at \in Nat
        /\ c.state.inst = i /\ c.state.gen <= clock + 1 /\ c.state.at <= clock
    BY <1>2, <1>3, CoordNumbers DEF CoordOK
  <2>3. clock + 1 \in 0 .. MaxClock /\ clock' = clock + 1 /\ c.state.gen + 1 \in 1 .. MaxClock + 1
    BY <1>3, <1>5, <2>2, ModeAssumption DEF Now
  <2>4. [inst |-> c.state.inst, mode |-> call.cmd.target, gen |-> c.state.gen + 1, at |-> Now] \in States
    BY <1>1, <2>2, <2>3 DEF States, Commands, Now
  <2>5. c.state.mode \in Modes
    BY <2>2 DEF States
  <2>6. p \in Transitions
    BY <1>1, <2>1, <2>4, <2>5 DEF Prepare, Transitions
  <2>7. /\ p.state.inst = i /\ p.state.gen = c.state.gen + 1 /\ p.state.at = clock + 1
        /\ p.from = c.state.mode
    BY <2>1, <2>2 DEF Prepare, Now
  <2>8. Prepared(i, p)
    BY <1>1, <1>2, <1>3, <1>5, <2>2, <2>3, <2>7 DEF Prepared
  <2>9. CASE ok
    <3>1. Answers(call, Applied(p))
      BY <1>5, <2>1, <2>9
    <3>2. /\ answer' \in [Ops -> Results \cup {Conflict, Failure, Absent}]
          /\ \A o \in Ops : answer'[o] = answer[o] \/ answer'[o] = Applied(p)
          /\ \A d \in modeCalls' : d \in modeCalls
      BY <1>3, <2>6, <3>1, AnswerWrites, AppliedIs
    <3> QED BY ZenonT(40), <1>5, <2>1, <2>6, <2>8, <2>9, <3>2, AppliedIs, PublishStep
  <2>10. CASE ~ok
    <3>1. /\ answer' \in [Ops -> Results \cup {Conflict, Failure, Absent}]
          /\ \A o \in Ops : answer'[o] = answer[o] \/ answer'[o] = Failure
          /\ \A d \in modeCalls' : d \in modeCalls
      BY <1>3, <1>5, <2>10, AnswerWrites
    <3> QED BY <1>5, <2>1, <2>6, <2>8, <2>10, <3>1, NoResult, PublishStep
  <2> QED BY <2>9, <2>10
<1>6. ASSUME c.pending = Absent, clock < MaxClock, clock' = Now,
             NEW s, s = [c.state EXCEPT !.at = Now],
             NEW r, r = [status |-> "unchanged", state |-> s],
             coord' = [coord EXCEPT ![i] = [state |-> s, pending |-> Absent,
                          window |-> Remember(c.window, [cmd |-> call.cmd, result |-> r])]],
             Answers(call, r), UNCHANGED <<stream, modeFaults>>
      PROVE  ModeInv'
  <2>1. c.state \in States /\ clock + 1 \in 0 .. MaxClock
    BY <1>3, <1>6, ModeAssumption DEF CoordRecord
  <2>2. s \in States
    BY <1>6, <2>1 DEF States, Now
  <2>3. r \in Results /\ r.state = s
    BY <1>6, <2>2 DEF Results
  <2> QED BY <1>1, <1>2, <1>6, <2>2, <2>3, UnchangedStep
<1> QED
  <2>1. c.pending = Absent
    BY <1>1, <1>2 DEF ExecuteSwitch
  <2>2. CASE Outdated(call.cmd, c)
    BY <1>1, <1>2, <1>4, <2>2 DEF ExecuteSwitch
  <2>3. CASE ~Outdated(call.cmd, c) /\ call.cmd.target # c.state.mode
    BY <1>1, <1>2, <1>5, <2>1, <2>3 DEF ExecuteSwitch
  <2>4. CASE ~Outdated(call.cmd, c) /\ call.cmd.target = c.state.mode
    BY <1>1, <1>2, <1>6, <2>1, <2>4 DEF ExecuteSwitch
  <2> QED BY <2>2, <2>3, <2>4

\* modeCoordinator.Switch, whichever way it goes.
LEMMA SwitchStep ==
  ASSUME ModeInv, NEW call \in modeCalls, Switch(call), UNCHANGED <<clientVars, projectionVars>>
  PROVE  ModeInv'
<1>1. CallRest /\ call.found # Absent
  BY DEF Switch, CallRest
<1> QED BY <1>1, ReplayStep, ResumeStep, ExecuteStep DEF Switch

-----------------------------------------------------------------------------
(* Runtimes, calls and turns. *)

\* A new runtime starts with a coordinator nobody has heard of.
LEMMA StartRuntimeStep ==
  ASSUME ModeInv, StartRuntime, UNCHANGED <<clientVars, projectionVars>>
  PROVE  ModeInv'
<1>0. /\ stream' = stream /\ modeCalls' = modeCalls /\ answer' = answer /\ turn' = turn
      /\ view' = view /\ refreshed' = refreshed /\ op' = op /\ retired' = retired
      /\ inst' = inst + 1 /\ clock' = clock + 1
  BY DEF StartRuntime, clientVars, Now
<1>1. ModeTypes /\ inst \in ModeRuntimes /\ clock \in 0 .. MaxClock
  BY DEF ModeInv, ModeTypes
<1>2. PICK i : i = inst + 1
  OBVIOUS
<1>3. i \in ModeRuntimes /\ clock + 1 \in 0 .. MaxClock /\ inst \in Nat /\ clock \in Nat /\ i = inst'
  BY <1>0, <1>1, <1>2, ModeAssumption DEF StartRuntime, ModeRuntimes
<1> DEFINE s == [inst |-> i, mode |-> InitialMode, gen |-> 1, at |-> clock + 1]
           c == [state |-> s, pending |-> Absent, window |-> <<>>]
<1>4. s \in States /\ s.inst = i /\ s.mode = InitialMode /\ s.gen = 1 /\ s.at = clock + 1
  BY <1>3, ModeAssumption DEF States
<1>5. coord' = [coord EXCEPT ![i] = c]
  BY <1>2 DEF StartRuntime, NewCoordinator, Now
<1> HIDE DEF s
<1>6. c \in CoordRecord /\ c.state = s /\ c.pending = Absent /\ c.window = <<>>
  BY <1>4 DEF CoordRecord
<1> HIDE DEF c
<1>7. /\ coord' \in [ModeRuntimes -> CoordRecord] /\ coord'[i] = c
      /\ \A j \in ModeRuntimes : j # i => coord'[j] = coord[j]
  BY <1>1, <1>3, <1>5, <1>6, CoordWrites
<1>8. coord[i].state.gen = 1 /\ coord[i].pending = Absent /\ coord[i].state.at <= clock
  BY <1>2, <1>3 DEF ModeInv, CoordFacts, CoordOK
<1>9. coord[i].state.at \in Nat /\ \A j \in ModeRuntimes : coord[j].state \in States /\ coord[j].state.at \in Nat /\ coord[j].state.gen \in Nat
  BY <1>1, <1>3, CoordNumbers
<1>10. \A j \in ModeRuntimes : CoordOK(j)
  BY DEF ModeInv, CoordFacts
<1>11. CoordGrows
  BY <1>3, <1>4, <1>6, <1>7, <1>8, <1>9, <1>10 DEF CoordGrows, CoordOK
<1>12. CoordFacts'
  <2>1. CoordOK(i)'
    BY <1>0, <1>3, <1>4, <1>6, <1>7 DEF CoordOK
  <2>2. ASSUME NEW j \in ModeRuntimes, j # i PROVE CoordOK(j)'
    <3>1. coord'[j] = coord[j] /\ CoordOK(j) /\ j \in Nat
      BY <1>1, <1>7, <1>10, <2>2, CoordNumbers
    <3>2. coord[j].pending # Absent => coord[j].pending.state \in States
      BY <1>1, CoordNumbers
    <3> QED BY <1>0, <1>1, <1>3, <1>9, <3>1, <3>2, CoordNumbers DEF CoordOK
  <2> QED BY <2>1, <2>2 DEF CoordFacts
<1>13. NewsOnly
  <2>1. SUFFICES ASSUME NEW z \in States, Knows(z)' PROVE Knows(z) \/ \E j \in ModeRuntimes : z = coord'[j].state
    BY DEF NewsOnly
  <2>2. CASE \E j \in ModeRuntimes : \E k \in DOMAIN coord'[j].window : z = coord'[j].window[k].result.state
    <3>1. PICK j \in ModeRuntimes : \E k \in DOMAIN coord'[j].window : z = coord'[j].window[k].result.state
      BY <2>2
    <3>2. j # i
      BY <1>6, <1>7, <3>1
    <3> QED BY <1>7, <3>1, <3>2 DEF Knows
  <2> QED BY <1>0, <2>1, <2>2 DEF Knows
<1>14. KnownFacts'
  BY <1>11, <1>13, KnownMove DEF ModeInv
<1>15. ModeTypes'
  BY <1>0, <1>3, <1>7 DEF ModeInv, ModeTypes
<1>16. CallFacts' /\ ViewFacts'
  <2>1. \A x \in ModeRuntimes : x <= inst => x <= inst + 1
    BY <1>3 DEF ModeRuntimes
  <2>2. \A d \in modeCalls : d.found # Absent => d.found \in ModeRuntimes
    BY <1>1 DEF ModeTypes
  <2>3. (view # Absent => view.inst \in ModeRuntimes) /\ (refreshed # Absent => refreshed.inst \in ModeRuntimes)
    BY <1>1, CoordNumbers DEF ModeTypes
  <2> QED BY <1>0, <2>1, <2>2, <2>3 DEF ModeInv, CallFacts, ViewFacts
\* No event names the runtime that starts.
<1>17. \A k \in DOMAIN stream : stream[k] \in Transitions /\ stream[k].state.inst # i
  <2>1. SUFFICES ASSUME NEW k \in DOMAIN stream PROVE stream[k] \in Transitions /\ stream[k].state.inst # i
    OBVIOUS
  <2>2. PICK e \in Transitions : e = stream[k] /\ Covered(e) /\ e.state.gen >= 2 /\ e.state \in States
    BY <1>1, CoordNumbers DEF ModeInv, ModeTypes, StreamFacts
  <2>3. e.state.gen \in Nat
    BY <1>1, <2>2, CoordNumbers
  <2> QED BY <1>8, <2>2, <2>3 DEF Covered
<1>18. StreamFacts'
  <2>1. ASSUME NEW k \in DOMAIN stream PROVE Covered(stream[k])' /\ Follows(k)' /\ Later(k)' /\ stream'[k].state.gen >= 2
    <3>1. PICK e \in Transitions : e = stream[k] /\ Covered(e) /\ e.state \in States /\ e.state.inst # i
      BY <1>1, <1>17, CoordNumbers DEF ModeInv, ModeTypes, StreamFacts
    <3>2. coord'[e.state.inst] = coord[e.state.inst]
      BY <1>1, <1>7, <3>1, CoordNumbers
    <3>3. Covered(stream[k])'
      BY <1>0, <3>1, <3>2 DEF Covered
    <3> QED BY <1>0, <2>1, <3>3 DEF ModeInv, StreamFacts, Follows, Later
  <2>2. \A j \in ModeRuntimes : coord'[j].state.gen = 1 \/ Entered(j)'
    BY <1>0, <1>4, <1>6, <1>7 DEF ModeInv, StreamFacts, Entered
  <2> QED BY <1>0, <2>1, <2>2 DEF StreamFacts
<1>19. ProjectionFacts'
  BY <1>0, ProjectionRests
<1> QED BY <1>12, <1>14, <1>15, <1>16, <1>18, <1>19 DEF ModeInv

\* Runtimes stop or are forgotten; calls find their coordinator or are lost.
LEMMA CallSteps ==
  ASSUME ModeInv, UNCHANGED <<clientVars, projectionVars>>,
         \/ StopRuntime \/ ForgetRuntimes
         \/ \E c \in modeCalls : FindSession(c) \/ LoseCall(c)
  PROVE  ModeInv'
<1>0. /\ coord' = coord /\ stream' = stream /\ clock' = clock /\ inst' = inst
      /\ view' = view /\ refreshed' = refreshed /\ op' = op /\ retired' = retired
  BY DEF StopRuntime, ForgetRuntimes, FindSession, LoseCall, clientVars
<1>1. ProjectionFacts'
  BY <1>0, ProjectionRests
<1>2. ViewFacts'
  BY <1>0 DEF ModeInv, ViewFacts
<1>3. ModeTypes /\ inst \in ModeRuntimes
  BY DEF ModeInv, ModeTypes
<1>4. ASSUME NEW c \in modeCalls, FindSession(c) \/ LoseCall(c), Answers(c, Failure) PROVE ModeInv'
  BY <1>0, <1>4, NoResult, AnswerStep DEF FindSession, LoseCall, CallRest
<1>5. CASE StopRuntime
  <2>1. modeCalls' = modeCalls /\ answer' = answer /\ turn' = turn
    BY <1>5 DEF StopRuntime
  <2> QED BY <1>0, <1>1, <1>2, <2>1, QuietStep DEF NewsOnly, Knows, ModeInv, ModeTypes, CallFacts
<1>6. CASE ForgetRuntimes
  <2>1. modeCalls' = {} /\ \A o \in Ops : answer'[o] = answer[o] \/ answer'[o] = Failure
    BY <1>6 DEF ForgetRuntimes
  <2>2. answer' \in [Ops -> Results \cup {Conflict, Failure, Absent}]
    BY <1>3, <1>6 DEF ForgetRuntimes, ModeTypes
  <2>3. NewsOnly
    BY <1>0, <2>1, NoResult DEF NewsOnly, Knows
  <2>4. \A t \in Turns : turn'[t].at \in {"open", "gated"} => turn'[t] = turn[t]
    <3>1. SUFFICES ASSUME NEW t \in Turns, turn'[t].at \in {"open", "gated"} PROVE turn'[t] = turn[t]
      OBVIOUS
    <3>2. turn'[t] = IF turn[t].at \in {"open", "gated"} THEN [turn[t] EXCEPT !.at = "dropped"] ELSE turn[t]
      BY <1>6 DEF ForgetRuntimes
    <3> QED BY <3>1, <3>2
  <2>6. turn' \in [Turns -> TurnRecord]
    <3>1. \A t \in Turns : turn[t] \in TurnRecord
      BY <1>3 DEF ModeTypes
    <3>2. \A t \in Turns : [turn[t] EXCEPT !.at = "dropped"] \in TurnRecord
      BY <3>1 DEF TurnRecord
    <3> QED BY <1>6, <3>1, <3>2 DEF ForgetRuntimes
  <2>5. ModeTypes' /\ CallFacts'
    BY <1>0, <1>3, <2>1, <2>2, <2>4, <2>6 DEF ModeTypes, CallFacts
  <2> QED BY <1>0, <1>1, <1>2, <2>3, <2>5, QuietStep
<1>7. ASSUME NEW c \in modeCalls, modeCalls' = (modeCalls \ {c}) \cup {[c EXCEPT !.found = inst]},
             answer' = answer, turn' = turn
      PROVE  ModeInv'
  <2> DEFINE d == [c EXCEPT !.found = inst]
  <2>1. d \in ModeCall /\ d.cmd \in Commands /\ d.found = inst
    BY <1>3 DEF ModeTypes, ModeCall
  <2>2. modeCalls' = (modeCalls \ {c}) \cup {d}
    BY <1>7
  <2> HIDE DEF d
  <2>3. ModeTypes'
    BY <1>0, <1>3, <1>7, <2>1, <2>2 DEF ModeTypes
  <2>4. CallFacts'
    <3>1. inst <= inst
      BY <1>3 DEF ModeRuntimes
    <3> QED BY <1>0, <2>1, <2>2, <3>1 DEF ModeInv, CallFacts
  <2>5. NewsOnly
    BY <1>0, <1>7 DEF NewsOnly, Knows
  <2> QED BY <1>0, <1>1, <1>2, <2>3, <2>4, <2>5, QuietStep
<1> QED BY <1>4, <1>5, <1>6, <1>7 DEF FindSession, LoseCall

\* Turns open, pass the gate and commit.
LEMMA TurnSteps ==
  ASSUME ModeInv, UNCHANGED <<clientVars, projectionVars>>,
         \E t \in Turns : OpenTurn(t) \/ GateTurn(t) \/ CommitTurn(t)
  PROVE  ModeInv'
<1>0. /\ coord' = coord /\ stream' = stream /\ clock' = clock /\ inst' = inst
      /\ modeCalls' = modeCalls /\ answer' = answer
      /\ view' = view /\ refreshed' = refreshed /\ op' = op /\ retired' = retired
  BY DEF OpenTurn, GateTurn, CommitTurn, clientVars
<1>1. ModeTypes
  BY DEF ModeInv
<1>2. PICK t \in Turns : OpenTurn(t) \/ GateTurn(t) \/ CommitTurn(t)
  OBVIOUS
<1>3. turn[t] \in TurnRecord /\ turn \in [Turns -> TurnRecord]
  BY <1>1 DEF ModeTypes
<1>4. \E r \in TurnRecord : /\ turn' = [turn EXCEPT ![t] = r]
                            /\ r.at \in {"open", "gated"} => r.state \in States
  <2>1. CASE OpenTurn(t)
    <3>1. coord[inst].state \in States
      BY <1>1 DEF ModeTypes, CoordRecord
    <3> DEFINE r == [at |-> "open", state |-> coord[inst].state]
    <3>2. r \in TurnRecord /\ r.state \in States
      BY <3>1 DEF TurnRecord
    <3> QED BY <2>1, <3>2 DEF OpenTurn
  <2>2. CASE GateTurn(t)
    <3>1. turn[t].state \in States
      BY <1>1, <2>2 DEF ModeTypes, GateTurn
    <3>2. \A p \in {"gated", "dropped"} : [turn[t] EXCEPT !.at = p] \in TurnRecord /\ [turn[t] EXCEPT !.at = p].state = turn[t].state
      BY <1>3 DEF TurnRecord
    <3>3. \E p \in {"gated", "dropped"} : turn' = [turn EXCEPT ![t] = [turn[t] EXCEPT !.at = p]]
      BY <2>2 DEF GateTurn
    <3> QED BY <3>1, <3>2, <3>3
  <2>3. CASE CommitTurn(t)
    <3>1. turn[t].state \in States
      BY <1>1, <2>3 DEF ModeTypes, CommitTurn
    <3>2. \A p \in {"committed", "dropped"} : [turn[t] EXCEPT !.at = p] \in TurnRecord /\ [turn[t] EXCEPT !.at = p].state = turn[t].state
      BY <1>3 DEF TurnRecord
    <3>3. \E p \in {"committed", "dropped"} : turn' = [turn EXCEPT ![t] = [turn[t] EXCEPT !.at = p]]
      BY <2>3 DEF CommitTurn
    <3> QED BY <3>1, <3>2, <3>3
  <2> QED BY <1>2, <2>1, <2>2, <2>3
<1>5. PICK r \in TurnRecord : /\ turn' = [turn EXCEPT ![t] = r]
                              /\ r.at \in {"open", "gated"} => r.state \in States
  BY <1>4
<1>6. turn' \in [Turns -> TurnRecord] /\ \A u \in Turns : turn'[u] = IF u = t THEN r ELSE turn[u]
  BY <1>3, <1>5
<1>7. ModeTypes'
  BY <1>0, <1>1, <1>5, <1>6 DEF ModeTypes
<1>8. CallFacts' /\ ViewFacts' /\ NewsOnly
  BY <1>0 DEF ModeInv, CallFacts, ViewFacts, NewsOnly, Knows
<1>9. ProjectionFacts'
  BY <1>0, ProjectionRests
<1> QED BY <1>0, <1>7, <1>8, <1>9, QuietStep

-----------------------------------------------------------------------------
(* Clients. *)

\* applyModeLocked takes the snapshot or keeps the view, and remembers the
\* instance it leaves.
LEMMA ObserveIs ==
  ASSUME NEW s, s # Absent, Observe(s)
  PROVE  /\ view' \in {view, s} /\ view' # Absent
         /\ retired \subseteq retired'
         /\ view # Absent => view.inst \in retired' \cup {view'.inst}
         /\ view # Absent /\ s.inst \in retired \cup {view.inst} => view'.inst = view.inst
<1>1. CASE Applies(s)
  BY <1>1 DEF Observe, Applies, Newer
<1>2. CASE ~Applies(s)
  BY <1>2 DEF Observe, Applies
<1> QED BY <1>1, <1>2

\* Refresh reads the state at one time and applies it at another.
LEMMA RefreshSteps ==
  ASSUME ModeInv, RefreshRead \/ RefreshApply, UNCHANGED projectionVars
  PROVE  ModeInv'
<1>0. /\ coord' = coord /\ stream' = stream /\ clock' = clock /\ inst' = inst
      /\ modeCalls' = modeCalls /\ answer' = answer /\ turn' = turn /\ op' = op
  BY DEF RefreshRead, RefreshApply, modeVars
<1>1. ModeTypes /\ ViewFacts
  BY DEF ModeInv
<1>2. coord[inst].state \in States /\ coord[inst].state.inst = inst /\ inst \in ModeRuntimes /\ inst <= inst
  BY <1>1 DEF ModeInv, ModeTypes, CoordRecord, CoordFacts, CoordOK, ModeRuntimes
<1>3. CallFacts' /\ ProjectionFacts'
  BY <1>0, ProjectionRests DEF ModeInv, CallFacts
<1>4. CASE RefreshRead
  <2>1. view' = view /\ retired' = retired /\ refreshed' = coord[inst].state
    BY <1>4 DEF RefreshRead
  <2>2. ModeTypes' /\ ViewFacts'
    BY <1>0, <1>1, <1>2, <2>1 DEF ModeTypes, ViewFacts
  <2>3. NewsOnly
    BY <1>0, <1>2, <2>1 DEF NewsOnly, Knows
  <2> QED BY <1>0, <1>3, <2>2, <2>3, QuietStep
<1>5. CASE RefreshApply
  <2>1. PICK s \in States : s = refreshed /\ s # Absent /\ s.inst <= inst
    BY <1>1, <1>5 DEF ModeTypes, ViewFacts, RefreshApply
  <2>2. Observe(s) /\ refreshed' = Absent
    BY <1>5, <2>1 DEF RefreshApply
  <2>3. /\ view' \in {view, s} /\ view' # Absent
        /\ retired \subseteq retired'
        /\ view # Absent => view.inst \in retired' \cup {view'.inst}
    BY <2>1, <2>2, ObserveIs
  <2>4. ModeTypes'
    BY <1>0, <1>1, <2>2, <2>3 DEF ModeTypes
  <2>5. ViewFacts'
    BY <1>0, <1>1, <2>1, <2>2, <2>3 DEF ViewFacts
  <2>6. NewsOnly
    BY <1>0, <2>1, <2>2, <2>3 DEF NewsOnly, Knows
  <2> QED BY <1>0, <1>3, <2>4, <2>5, <2>6, QuietStep
<1> QED BY <1>4, <1>5

\* A command on its way, of an instance the view has seen.
LEMMA SendStep ==
  ASSUME ModeInv, UNCHANGED projectionVars, NEW o \in Ops, NEW cmd \in Commands, SendCommand(o, cmd),
         o \notin VoiceOps => view # Absent /\ cmd.inst \in retired \cup {view.inst}
  PROVE  ModeInv'
<1>0. /\ coord' = coord /\ stream' = stream /\ clock' = clock /\ inst' = inst
      /\ answer' = answer /\ turn' = turn
      /\ view' = view /\ refreshed' = refreshed /\ retired' = retired
  BY DEF SendCommand
<1>1. ModeTypes /\ ViewFacts
  BY DEF ModeInv
<1> DEFINE r == [at |-> "called", cmd |-> cmd]
           d == [cmd |-> cmd, found |-> Absent]
<1>2. r \in OpRecord /\ r.cmd = cmd
  BY DEF OpRecord, OpPlaces
<1>3. d \in ModeCall /\ d.cmd = cmd /\ d.found = Absent
  BY DEF ModeCall
<1>4. op' = [op EXCEPT ![o] = r] /\ modeCalls' = modeCalls \cup {d}
  BY DEF SendCommand
<1> HIDE DEF r, d
<1>5. op' \in [Ops -> OpRecord] /\ \A q \in Ops : op'[q] = IF q = o THEN r ELSE op[q]
  BY <1>1, <1>2, <1>4 DEF ModeTypes
<1>6. ModeTypes'
  BY <1>0, <1>1, <1>2, <1>3, <1>4, <1>5 DEF ModeTypes
<1>7. CallFacts'
  BY <1>0, <1>3, <1>4 DEF ModeInv, CallFacts
<1>8. ViewFacts'
  BY <1>0, <1>1, <1>2, <1>5 DEF ViewFacts
<1>9. ProjectionFacts' /\ NewsOnly
  BY <1>0, ProjectionRests DEF NewsOnly, Knows
<1> QED BY <1>0, <1>6, <1>7, <1>8, <1>9, QuietStep

\* A command names the instance of the state it was made from.
LEMMA CommandIs ==
  ASSUME NEW o \in Ops, NEW s \in States, NEW target \in Modes
  PROVE  Command(o, s, target) \in Commands /\ Command(o, s, target).inst = s.inst
BY DEF Command, Commands, States

\* SwitchOperation, its repetition, and the voice command.
LEMMA SendSteps ==
  ASSUME ModeInv, UNCHANGED projectionVars, NEW o \in Ops, BeginCommand(o) \/ RetryCommand(o) \/ Speak(o)
  PROVE  ModeInv'
<1>0. ModeTypes /\ ViewFacts
  BY DEF ModeInv
<1>1. CASE BeginCommand(o)
  <2>1. PICK target \in Modes : SendCommand(o, Command(o, view, target))
    BY <1>1 DEF BeginCommand
  <2>2. PICK s \in States : s = view /\ view # Absent
    BY <1>0, <1>1 DEF ModeTypes, BeginCommand
  <2>3. Command(o, s, target) \in Commands /\ Command(o, s, target).inst = view.inst
    BY <2>2, CommandIs
  <2> QED BY <2>1, <2>2, <2>3, SendStep
<1>2. CASE RetryCommand(o)
  <2>1. o \notin VoiceOps /\ op[o].at = "uncertain" /\ SendCommand(o, op[o].cmd)
    BY <1>2 DEF RetryCommand
  <2>2. op[o].cmd \in Commands
    BY <1>0, <2>1 DEF ModeTypes
  <2>3. view # Absent /\ op[o].cmd.inst \in retired \cup {view.inst}
    BY <1>0, <2>1 DEF ViewFacts
  <2> QED BY <2>1, <2>2, <2>3, SendStep
<1>3. CASE Speak(o)
  <2>1. PICK target \in Modes : SendCommand(o, Command(o, coord[inst].state, target))
    BY <1>3 DEF Speak
  <2>2. coord[inst].state \in States
    BY <1>0 DEF ModeTypes, CoordRecord
  <2>3. Command(o, coord[inst].state, target) \in Commands
    BY <2>2, CommandIs
  <2> QED BY <1>3, <2>1, <2>3, SendStep DEF Speak
<1> QED BY <1>1, <1>2, <1>3

\* An answer arrives, fits or not, and is observed.
LEMMA ReceiveStep ==
  ASSUME ModeInv, UNCHANGED projectionVars, NEW o \in Ops, Receive(o)
  PROVE  ModeInv'
<1>0. /\ coord' = coord /\ stream' = stream /\ clock' = clock /\ inst' = inst
      /\ modeCalls' = modeCalls /\ turn' = turn /\ refreshed' = refreshed
      /\ op[o].at = "called" /\ answer' = [answer EXCEPT ![o] = Absent]
  BY DEF Receive
<1>1. ModeTypes /\ ViewFacts /\ op[o].cmd \in Commands /\ op[o] \in OpRecord
  BY <1>0 DEF ModeInv, ModeTypes
<1>2. /\ answer' \in [Ops -> Results \cup {Conflict, Failure, Absent}]
      /\ \A q \in Ops : answer'[q] \in Results => answer'[q] = answer[q]
  BY <1>0, <1>1, NoResult DEF ModeTypes
<1>3. /\ op' \in [Ops -> OpRecord]
      /\ \A q \in Ops : op'[q].cmd = op[q].cmd /\ (op'[q].at \in {"called", "uncertain"} => op[q].at \in {"called", "uncertain"})
  <2>1. PICK p \in OpPlaces : op' = [op EXCEPT ![o] = [op[o] EXCEPT !.at = p]]
    BY DEF Receive, Settle, OpPlaces
  <2> DEFINE r == [op[o] EXCEPT !.at = p]
  <2>2. r \in OpRecord /\ r.cmd = op[o].cmd
    BY <1>1 DEF OpRecord
  <2>3. op' = [op EXCEPT ![o] = r]
    BY <2>1
  <2> HIDE DEF r
  <2>4. op' \in [Ops -> OpRecord] /\ \A q \in Ops : op'[q] = IF q = o THEN r ELSE op[q]
    BY <1>1, <2>2, <2>3 DEF ModeTypes
  <2> QED BY <1>0, <2>2, <2>4
<1>4. \/ view' = view /\ retired' = retired
      \/ /\ o \notin VoiceOps /\ answer[o] \in Results /\ Fits(op[o].cmd, answer[o])
         /\ Observe(answer[o].state)
  BY DEF Receive
<1>5. /\ view' \in States \cup {Absent}
      /\ view' = view \/ (answer[o] \in Results /\ view' = answer[o].state)
      /\ view # Absent => view'.inst = view.inst /\ view' # Absent
      /\ retired \subseteq retired'
      /\ view' # Absent => view # Absent
  <2>1. CASE view' = view /\ retired' = retired
    BY <1>1, <2>1 DEF ModeTypes
  <2>2. ASSUME o \notin VoiceOps, answer[o] \in Results, Fits(op[o].cmd, answer[o]), Observe(answer[o].state)
        PROVE  /\ view' \in {view, answer[o].state} /\ answer[o].state \in States /\ view # Absent
               /\ view' # Absent /\ view'.inst = view.inst /\ retired \subseteq retired'
    <3>1. answer[o].state \in States /\ answer[o].state # Absent
      BY <2>2, ModeAssumption DEF Results
    <3>2. view # Absent /\ op[o].cmd.inst \in retired \cup {view.inst}
      BY <1>0, <1>1, <2>2 DEF ViewFacts
    <3>3. answer[o].state.inst = op[o].cmd.inst
      BY <2>2 DEF Fits
    <3> QED BY <2>2, <3>1, <3>2, <3>3, ObserveIs
  <2> QED BY <1>1, <1>4, <2>1, <2>2 DEF ModeTypes
<1>6. ModeTypes'
  BY <1>0, <1>1, <1>2, <1>3, <1>5 DEF ModeTypes
<1>7. ViewFacts'
  BY <1>0, <1>1, <1>3, <1>5 DEF ViewFacts
<1>8. NewsOnly
  BY <1>0, <1>2, <1>5 DEF NewsOnly, Knows
<1>9. CallFacts' /\ ProjectionFacts'
  BY <1>0, ProjectionRests DEF ModeInv, CallFacts
<1> QED BY <1>0, <1>6, <1>7, <1>8, <1>9, QuietStep

-----------------------------------------------------------------------------
(* Consumers. *)

\* Within the stream, the later generation of a runtime has the later time.
LEMMA EventsOrdered ==
  ASSUME ModeInv, NEW k \in DOMAIN stream, NEW l \in DOMAIN stream,
         stream[k].state.inst = stream[l].state.inst, stream[k].state.gen <= stream[l].state.gen
  PROVE  stream[k].state.at <= stream[l].state.at
<1>1. ModeTypes /\ stream \in Seq(Transitions)
  BY DEF ModeInv, ModeTypes
<1>2. /\ stream[k].state.gen \in Nat /\ stream[k].state.at \in Nat
      /\ stream[l].state.gen \in Nat /\ stream[l].state.at \in Nat /\ k \in Nat /\ l \in Nat
  BY <1>1, CoordNumbers
<1>3. k < l => k \in 1 .. l - 1
  BY <1>1, <1>2
<1>4. l < k => l \in 1 .. k - 1
  BY <1>1, <1>2
<1>5. Later(k) /\ Later(l)
  BY DEF ModeInv, StreamFacts
<1>6. CASE k < l
  BY <1>3, <1>5, <1>6 DEF Later
<1>7. CASE l < k
  <2>1. stream[l].state.gen < stream[k].state.gen
    BY <1>4, <1>5, <1>7 DEF Later
  <2> QED BY <1>2, <2>1
<1>8. CASE k = l
  BY <1>2, <1>8
<1> QED BY <1>2, <1>6, <1>7, <1>8

\* Project of the repository: event row and projection row together.
LEMMA RecordStep ==
  ASSUME ModeInv, NEW k \in DOMAIN stream, Record(stream[k]), stream' = stream
  PROVE  /\ recorded' \subseteq ToSet(stream')
         /\ projection' # Absent => projection' \in recorded'
         /\ ProjectionLatest'
<1>1. /\ stream \in Seq(Transitions) /\ ProjectionFacts /\ ModeTypes
  BY DEF ModeInv, ModeTypes
<1>2. PICK e \in Transitions : e = stream[k] /\ e # Absent /\ e \in ToSet(stream)
  BY <1>1, ModeAssumption DEF ToSet
<1>3. CASE e \in recorded
  BY <1>1, <1>2, <1>3 DEF Record, ProjectionFacts, ProjectionLatest
<1>4. ASSUME e \notin recorded, projection = Absent
      PROVE  ProjectionLatest' /\ recorded' = recorded \cup {e} /\ projection' = e
  <2>1. recorded = {} /\ recorded' = {e} /\ projection' = e
    BY <1>1, <1>2, <1>4 DEF Record, ShouldAdvance, ProjectionFacts, ProjectionLatest
  <2>2. e.state.at \in Nat /\ e.state.at >= e.state.at
    BY <1>1, CoordNumbers
  <2> QED BY <1>2, <2>1, <2>2 DEF ProjectionLatest
<1>5. ASSUME e \notin recorded, projection # Absent
      PROVE  ProjectionLatest' /\ recorded' = recorded \cup {e} /\ projection' \in {e, projection}
  <2>1. PICK l \in DOMAIN stream : stream[l] = projection
    BY <1>1, <1>5 DEF ProjectionFacts, ToSet
  <2>2. PICK p \in Transitions : p = projection /\ p = stream[l] /\ p \in recorded
    BY <1>1, <1>5, <2>1 DEF ProjectionFacts
  <2>3. /\ e.state.gen \in Nat /\ e.state.at \in Nat /\ p.state.gen \in Nat /\ p.state.at \in Nat
    BY <1>1, CoordNumbers
  <2>4. \A x \in recorded : x.state.at \in Nat /\ p.state.at >= x.state.at
    <3>1. \A x \in recorded : x \in Transitions
      BY <1>1 DEF ProjectionFacts, ToSet
    <3> QED BY <1>1, <2>2, <3>1, CoordNumbers DEF ProjectionFacts, ProjectionLatest
  <2>5. recorded' = recorded \cup {e} /\ projection' = IF ShouldAdvance(e) THEN e ELSE p
    BY <1>2, <1>5, <2>2 DEF Record
  <2>6. CASE ShouldAdvance(e)
    <3>1. e.state.at >= p.state.at
      <4>1. CASE p.state.inst = e.state.inst
        <5>1. p.state.gen <= e.state.gen
          BY <1>5, <2>2, <2>3, <2>6, <4>1 DEF ShouldAdvance
        <5> QED BY <1>2, <2>2, <2>3, <4>1, <5>1, EventsOrdered
      <4>2. CASE p.state.inst # e.state.inst
        BY <1>5, <2>2, <2>3, <2>6, <4>2 DEF ShouldAdvance
      <4> QED BY <4>1, <4>2
    <3>2. \A x \in recorded \cup {e} : e.state.at >= x.state.at
      BY <2>3, <2>4, <3>1
    <3> QED BY <1>2, <2>2, <2>5, <2>6, <3>2 DEF ProjectionLatest
  <2>7. CASE ~ShouldAdvance(e)
    <3>1. p.state.at >= e.state.at
      <4>1. CASE p.state.inst = e.state.inst
        <5>1. e.state.gen <= p.state.gen
          BY <1>5, <2>2, <2>3, <2>7, <4>1 DEF ShouldAdvance
        <5> QED BY <1>2, <2>2, <2>3, <4>1, <5>1, EventsOrdered
      <4>2. CASE p.state.inst # e.state.inst
        BY <1>5, <2>2, <2>3, <2>7, <4>2 DEF ShouldAdvance
      <4> QED BY <4>1, <4>2
    <3>2. \A x \in recorded \cup {e} : p.state.at >= x.state.at
      BY <2>4, <3>1
    <3> QED BY <1>2, <1>5, <2>2, <2>5, <2>7, <3>2 DEF ProjectionLatest
  <2> QED BY <2>2, <2>5, <2>6, <2>7
<1> QED BY <1>1, <1>2, <1>3, <1>4, <1>5 DEF ProjectionFacts

\* Consumers claim, read, project and acknowledge, or crash.
LEMMA ConsumerSteps ==
  ASSUME ModeInv, NEW c \in Consumers, ConsumerStep(c) \/ (ConsumerCrash(c) /\ Unfaulty), UNCHANGED clientVars
  PROVE  ModeInv'
<1>0. /\ coord' = coord /\ stream' = stream /\ clock' = clock /\ inst' = inst
      /\ modeCalls' = modeCalls /\ answer' = answer /\ turn' = turn
      /\ view' = view /\ refreshed' = refreshed /\ op' = op /\ retired' = retired
  BY DEF ConsumerStep, Unfaulty, clientVars
<1>1. ModeTypes' /\ CallFacts' /\ ViewFacts' /\ NewsOnly
  BY <1>0 DEF ModeInv, ModeTypes, CallFacts, ViewFacts, NewsOnly, Knows
<1>2. ProjectionFacts /\ stream \in Seq(Transitions) /\ Len(stream) \in Nat
  BY DEF ModeInv, ModeTypes
\* What is handed out and held.
<1>3. /\ delivered' <= Len(stream) /\ delivered' \in Nat
      /\ hold' \in [Consumers -> Nat] /\ \A d \in Consumers : hold'[d] <= delivered'
      /\ \A e \in pel' : e \in 1 .. delivered'
  <2>1. ASSUME NEW h \in 0 .. delivered, hold' = [hold EXCEPT ![c] = h] \/ hold' = hold,
               delivered' = delivered, pel' \subseteq pel
        PROVE  /\ delivered' <= Len(stream) /\ delivered' \in Nat
               /\ hold' \in [Consumers -> Nat] /\ \A d \in Consumers : hold'[d] <= delivered'
               /\ \A e \in pel' : e \in 1 .. delivered'
    BY <1>2, <2>1 DEF ProjectionFacts
  <2>2. CASE ClaimEvent(c)
    <3>1. PICK e \in pel : hold' = [hold EXCEPT ![c] = e]
      BY <2>2 DEF ClaimEvent
    <3>2. e \in 0 .. delivered
      BY <1>2 DEF ProjectionFacts
    <3> QED BY <2>1, <2>2, <3>1, <3>2 DEF ClaimEvent
  <2>3. CASE ReadNew(c)
    <3>1. /\ delivered < Len(stream) /\ delivered' = delivered + 1 /\ pel' = pel \cup {delivered + 1}
          /\ hold' = [hold EXCEPT ![c] = delivered + 1]
      BY <2>3 DEF ReadNew
    <3> QED BY <1>2, <3>1 DEF ProjectionFacts
  <2>4. CASE Project(c) \/ Ack(c) \/ ConsumerCrash(c)
    <3>1. 0 \in 0 .. delivered
      BY <1>2 DEF ProjectionFacts
    <3>2. /\ hold' = [hold EXCEPT ![c] = 0] \/ hold' = hold
          /\ delivered' = delivered /\ pel' \subseteq pel
      BY <2>4 DEF Project, Ack, ConsumerCrash
    <3> QED BY <2>1, <3>1, <3>2
  <2> QED BY <2>2, <2>3, <2>4 DEF ConsumerStep
\* What is recorded.
<1>4. /\ recorded' \subseteq ToSet(stream')
      /\ projection' # Absent => projection' \in recorded'
      /\ ProjectionLatest'
  <2>1. CASE recorded' = recorded /\ projection' = projection
    BY <1>0, <1>2, <2>1 DEF ProjectionFacts, ProjectionLatest
  <2>2. ASSUME hold[c] # 0, Record(stream[hold[c]])
        PROVE  /\ recorded' \subseteq ToSet(stream')
               /\ projection' # Absent => projection' \in recorded'
               /\ ProjectionLatest'
    <3>1. PICK k : k = hold[c]
      OBVIOUS
    <3>2. k \in DOMAIN stream
      BY <1>2, <2>2, <3>1 DEF ProjectionFacts
    <3> QED BY <1>0, <2>2, <3>1, <3>2, RecordStep
  <2> QED BY <2>1, <2>2 DEF ConsumerStep, ClaimEvent, ReadNew, Project, Ack, ConsumerCrash
<1>5. ProjectionFacts'
  BY <1>0, <1>3, <1>4 DEF ProjectionFacts
<1> QED BY <1>0, <1>1, <1>5, QuietStep

-----------------------------------------------------------------------------
(* The invariant, and what follows from it. *)

\* The mode invariant is inductive.
LEMMA ModeInvHolds == SystemSpec => []ModeInv
<1>1. SystemInit => ModeInv
  BY ModeInitInv
<1>2. ModeInv /\ [SystemNext]_systemVars => ModeInv'
  <2> SUFFICES ASSUME ModeInv, [SystemNext]_systemVars PROVE ModeInv'
    OBVIOUS
  <2>1. CASE ModeStep /\ UNCHANGED <<clientVars, projectionVars>>
    <3>1. CASE StartRuntime
      BY <2>1, <3>1, StartRuntimeStep
    <3>2. CASE \/ StopRuntime \/ ForgetRuntimes
               \/ \E c \in modeCalls : FindSession(c) \/ LoseCall(c)
      BY <2>1, <3>2, CallSteps
    <3>3. CASE \E c \in modeCalls : Switch(c)
      BY <2>1, <3>3, SwitchStep
    <3>4. CASE \E t \in Turns : OpenTurn(t) \/ GateTurn(t) \/ CommitTurn(t)
      BY <2>1, <3>4, TurnSteps
    <3> QED BY <2>1, <3>1, <3>2, <3>3, <3>4 DEF ModeStep
  <2>2. CASE ClientStep /\ UNCHANGED projectionVars
    BY <2>2, RefreshSteps, SendSteps, ReceiveStep DEF ClientStep
  <2>3. CASE \E c \in Consumers : Consume(c) \/ (ConsumerCrash(c) /\ Unfaulty /\ UNCHANGED clientVars)
    BY <2>3, ConsumerSteps DEF Consume
  <2>4. CASE UNCHANGED systemVars
    <3>1. /\ coord' = coord /\ stream' = stream /\ clock' = clock /\ inst' = inst
          /\ modeCalls' = modeCalls /\ answer' = answer /\ turn' = turn
          /\ view' = view /\ refreshed' = refreshed /\ op' = op /\ retired' = retired
          /\ UNCHANGED projectionVars
      BY <2>4 DEF systemVars, modeVars, clientVars
    <3>2. ModeTypes' /\ CallFacts' /\ ViewFacts' /\ NewsOnly
      BY <3>1 DEF ModeInv, ModeTypes, CallFacts, ViewFacts, NewsOnly, Knows
    <3>3. ProjectionFacts'
      BY <3>1, ProjectionRests
    <3> QED BY <3>1, <3>2, <3>3, QuietStep
  <2> QED BY <2>1, <2>2, <2>3, <2>4 DEF SystemNext
<1> QED BY <1>1, <1>2, PTL DEF SystemSpec

\* modeCoordinator.Switch, CommitPending and the outbox (mode_coordinator.go):
\* the stream of a runtime has one event per generation, each leaving the mode
\* the one before it entered, whatever fails, is repeated or forgotten.
THEOREM EventPerGenerationHolds == SystemSpec => []EventPerGeneration
<1>1. ModeInv => EventPerGeneration
  <2> SUFFICES ASSUME ModeInv PROVE EventPerGeneration
    OBVIOUS
  <2>1. ASSUME NEW k \in DOMAIN stream
        PROVE  /\ \/ stream[k].state.gen <= coord[stream[k].state.inst].state.gen
                  \/ stream[k] = coord[stream[k].state.inst].pending
               /\ Follows(k)
               /\ \A l \in 1 .. k - 1 : stream[l].state.inst = stream[k].state.inst =>
                     stream[l].state.gen < stream[k].state.gen
    BY DEF ModeInv, StreamFacts, Covered, Later
  <2>2. ASSUME NEW i \in ModeRuntimes
        PROVE  /\ coord[i].pending # Absent => coord[i].pending.state.gen = coord[i].state.gen + 1
               /\ (coord[i].state.gen = 1 /\ coord[i].state.mode = InitialMode) \/ Entered(i)
    BY DEF ModeInv, CoordFacts, CoordOK, StreamFacts
  <2> QED BY <2>1, <2>2 DEF EventPerGeneration, Follows, Entered
<1> QED BY <1>1, ModeInvHolds, PTL

\* shouldAdvance and the WHERE clause of Project (mode_event_projection.go): the
\* row is never behind an event that was recorded.
THEOREM ProjectionLatestHolds == SystemSpec => []ProjectionLatest
<1>1. ModeInv => ProjectionLatest
  BY DEF ModeInv, ProjectionFacts
<1> QED BY <1>1, ModeInvHolds, PTL

\* modeCoordinator.commitTurn: a turn opened before a switch that anybody knows
\* of does not commit.
THEOREM NoStaleTurnHolds == SystemSpec => NoStaleTurn
<1> DEFINE Fresh == \A t \in Turns :
             turn'[t].at = "committed" /\ turn[t].at # "committed" => ~SeenLater(turn[t].state)
<1>1. ModeInv /\ [SystemNext]_systemVars => [Fresh]_systemVars
  <2> SUFFICES ASSUME ModeInv, SystemNext, NEW t \in Turns,
                      turn'[t].at = "committed", turn[t].at # "committed", SeenLater(turn[t].state)
               PROVE  FALSE
    OBVIOUS
  <2>1. ModeTypes /\ turn[t] \in TurnRecord
    BY DEF ModeInv, ModeTypes
  <2>2. CommitTurn(t)
    <3>1. turn' # turn
      OBVIOUS
    <3>2. ~(ClientStep /\ UNCHANGED projectionVars)
      BY <3>1 DEF ClientStep, RefreshRead, RefreshApply, BeginCommand, RetryCommand, Speak, Receive, SendCommand, modeVars
    <3>3. ~(\E c \in Consumers : Consume(c) \/ (ConsumerCrash(c) /\ Unfaulty /\ UNCHANGED clientVars))
      BY <3>1 DEF Consume, ConsumerStep, Unfaulty
    <3>4. ModeStep
      BY <3>2, <3>3 DEF SystemNext
    <3>5. ~ForgetRuntimes
      <4>1. SUFFICES ASSUME ForgetRuntimes PROVE FALSE
        OBVIOUS
      <4>2. turn'[t] = IF turn[t].at \in {"open", "gated"} THEN [turn[t] EXCEPT !.at = "dropped"] ELSE turn[t]
        BY <4>1 DEF ForgetRuntimes
      <4> QED BY <2>1, <4>2 DEF TurnRecord
    <3>6. PICK u \in Turns : OpenTurn(u) \/ GateTurn(u) \/ CommitTurn(u)
      BY <3>1, <3>4, <3>5 DEF ModeStep, StartRuntime, StopRuntime, FindSession, Switch, LoseCall
    <3>7. u = t /\ ~OpenTurn(u) /\ ~GateTurn(u)
      BY <2>1, <3>6 DEF ModeInv, ModeTypes, TurnRecord, OpenTurn, GateTurn, CommitTurn
    <3> QED BY <3>6, <3>7
  <2>3. PICK s \in States : s = turn[t].state
    BY <2>1, <2>2 DEF ModeTypes, CommitTurn
  <2>4. Current(coord[s.inst].state, t)
    <3>1. turn'[t] = [turn[t] EXCEPT !.at = IF Current(coord[turn[t].state.inst].state, t) THEN "committed" ELSE "dropped"]
      BY <2>1, <2>2 DEF CommitTurn, ModeTypes
    <3> QED BY <2>1, <2>3, <3>1 DEF TurnRecord
  <2>5. coord[s.inst].state.gen = s.gen
    BY <2>3, <2>4 DEF Current
  <2>6. PICK r \in States : Knows(r) /\ r.inst = s.inst /\ r.gen > s.gen
    <3>1. SeenLater(s)
      BY <2>3
    <3>2. CASE \E o \in Ops : answer[o] \in Results /\ answer[o].state.inst = s.inst /\ answer[o].state.gen > s.gen
      <4>1. PICK o \in Ops : answer[o] \in Results /\ answer[o].state.inst = s.inst /\ answer[o].state.gen > s.gen
        BY <3>2
      <4>2. answer[o].state \in States
        BY <4>1 DEF Results
      <4> QED BY <4>1, <4>2 DEF Knows
    <3>3. CASE view # Absent /\ view.inst = s.inst /\ view.gen > s.gen
      BY <2>1, <3>3 DEF Knows, ModeTypes
    <3> QED BY <3>1, <3>2, <3>3 DEF SeenLater
  <2>7. r.gen <= coord[r.inst].state.gen
    BY <2>6 DEF ModeInv, KnownFacts
  <2> QED BY <2>1, <2>5, <2>6, <2>7, CoordNumbers
<1> QED BY <1>1, ModeInvHolds, PTL DEF SystemSpec, NoStaleTurn

\* applyModeLocked of the device SDK: a device's snapshot never goes back, in
\* whatever order answers and refreshes arrive.
THEOREM ViewForwardHolds == SystemSpec => ViewForward
<1> DEFINE Forward == view # Absent =>
             \/ view'.inst > view.inst
             \/ view'.inst = view.inst /\ view'.gen >= view.gen /\ view'.at >= view.at
<1>1. ModeInv /\ [SystemNext]_systemVars => [Forward]_systemVars
  <2> SUFFICES ASSUME ModeInv, SystemNext, view # Absent PROVE Forward
    OBVIOUS
  <2>1. ModeTypes /\ ViewFacts /\ view \in States /\ view.inst \in Nat /\ view.gen \in Nat /\ view.at \in Nat
    <3>1. ModeTypes /\ ViewFacts /\ view \in States
      BY DEF ModeInv, ModeTypes
    <3>2. ModeRuntimes \subseteq Nat
      BY ModeAssumption DEF ModeRuntimes
    <3> QED BY <3>1, <3>2, CoordNumbers
  <2>2. CASE view' = view
    BY <2>1, <2>2
  <2>3. ASSUME NEW s \in States, Knows(s), Observe(s), view' # view,
               s.inst >= view.inst
        PROVE  Forward
    <3>1. view' = s /\ Newer(s)
      BY <2>3 DEF Observe, Applies
    <3>2. s.gen \in Nat /\ s.at \in Nat /\ s.inst \in Nat
      BY <2>1, CoordNumbers
    <3>3. CASE s.inst = view.inst /\ s.gen > view.gen
      <4>1. view.at <= s.at
        BY <2>1, <2>3, <3>3 DEF ModeInv, KnownFacts, Knows
      <4> QED BY <2>1, <3>1, <3>2, <3>3, <4>1
    <3> QED BY <2>1, <2>3, <3>1, <3>2, <3>3 DEF Newer
  <2>4. CASE RefreshApply
    <3>1. PICK s \in States : s = refreshed /\ s # Absent /\ s.inst >= view.inst
      BY <2>1, <2>4 DEF RefreshApply, ModeTypes, ViewFacts
    <3>2. Knows(s) /\ Observe(s)
      BY <2>4, <3>1 DEF Knows, RefreshApply
    <3> QED BY <2>2, <2>3, <3>1, <3>2
  <2>5. ASSUME NEW o \in Ops, Receive(o), view' # view PROVE Forward
    <3>1. /\ o \notin VoiceOps /\ answer[o] \in Results /\ Fits(op[o].cmd, answer[o])
          /\ Observe(answer[o].state) /\ op[o].at = "called"
      BY <2>5 DEF Receive
    <3>2. PICK s \in States : s = answer[o].state /\ s # Absent
      BY <3>1, ModeAssumption DEF Results
    <3>3. Knows(s)
      BY <3>1, <3>2 DEF Knows
    <3>4. s.inst \in retired \cup {view.inst}
      BY <2>1, <3>1, <3>2 DEF ViewFacts, Fits
    <3>5. view'.inst = view.inst
      BY <3>1, <3>2, <3>4, ObserveIs
    <3>6. view' = s
      BY <2>5, <3>1, <3>2 DEF Observe
    <3> QED BY <2>1, <2>3, <2>5, <3>1, <3>2, <3>3, <3>5, <3>6
  <2> QED BY <2>2, <2>4, <2>5 DEF SystemNext, ClientStep, RefreshRead, BeginCommand, RetryCommand, Speak,
                                  SendCommand, Consume, clientVars
<1> QED BY <1>1, ModeInvHolds, PTL DEF SystemSpec, ViewForward

-----------------------------------------------------------------------------
(* The uplink of mode commands: what a client can conclude from its answers.   *)

AnswerRecord == [for : Nat, is : {"none", "result", "error", "unavailable"}]

ChannelTypes ==
    /\ arrived \in Nat
    /\ queue \in Seq(Nat \ {NoRequest}) /\ applied \in Seq(Nat)
    /\ sent \in Seq(AnswerRecord) /\ responses \in Seq(AnswerRecord)
    /\ sender \in [at : {"receive", "send", "done"}, response : AnswerRecord]
    /\ runner \in [at : {"receive", "handle", "switch", "answer_result", "answer_error", "done"}, for : Nat]
    /\ runner.at \in {"receive", "done"} <=> runner.for = NoRequest

\* The requests of the answers ws that are refusals, and of the others.
Refuses(ws) == {ws[i].for : i \in {j \in 1 .. Len(ws) : Refused(ws[j].is)}}
Handles(ws) == {ws[i].for : i \in {j \in 1 .. Len(ws) : ~Refused(ws[j].is)}}

\* Sorted: what is queued came behind what is in hand, and behind what was carried out.
CommandsInOrder(last, rs, run, done) ==
    /\ \A i, j \in 1 .. Len(rs) : i < j => rs[i] < rs[j]
    /\ \A i, j \in 1 .. Len(done) : i < j => done[i] < done[j]
    /\ \A i \in 1 .. Len(rs) : rs[i] <= last /\ (run.for # NoRequest => run.for < rs[i])
    /\ run.for # NoRequest => run.for <= last
    /\ \A k \in 1 .. Len(done) :
          /\ done[k] <= last /\ \A i \in 1 .. Len(rs) : done[k] < rs[i]
          /\ run.for # NoRequest =>
                done[k] <= run.for /\ (run.at # "answer_result" => done[k] < run.for)

\* Nobody is told that a command is unavailable which is, or was, carried out.
RefusalsTrue(last, rs, run, done, ws) ==
    \A r \in Refuses(ws) :
        /\ r # NoRequest /\ r <= last /\ r # run.for
        /\ \A i \in 1 .. Len(rs) : rs[i] # r
        /\ \A k \in 1 .. Len(done) : done[k] # r

\* While the channel lives nothing is lost and nothing is answered twice.
AllThere(last, rs, run, ws) ==
    /\ \A i, j \in 1 .. Len(ws) :
          i < j /\ ~Refused(ws[i].is) /\ ~Refused(ws[j].is) => ws[i].for < ws[j].for
    /\ \A h \in Handles(ws) :
          /\ h # NoRequest /\ h <= last /\ (run.for # NoRequest => h < run.for)
          /\ \A i \in 1 .. Len(rs) : h < rs[i]
          /\ h \notin Refuses(ws)
    /\ \A r \in 1 .. last : \/ r \in Refuses(ws) \/ r \in Handles(ws) \/ r = run.for
                            \/ \E i \in 1 .. Len(rs) : rs[i] = r
    /\ Len(ws) + (IF run.for = NoRequest THEN 0 ELSE 1) + Len(rs) = last

ChannelInv ==
    /\ ChannelTypes
    /\ CommandsInOrder(arrived, queue, runner, applied)
    /\ RefusalsTrue(arrived, queue, runner, applied, Written)
    /\ ~cancelled => AllThere(arrived, queue, runner, Written)
    /\ closer = "returned" => runner.at = "done" /\ sender.at = "done"

\* The answers that a list has, and one more.
LEMMA AnswersAppend ==
  ASSUME NEW ws \in Seq(AnswerRecord), NEW a \in AnswerRecord
  PROVE  /\ Append(ws, a) \in Seq(AnswerRecord) /\ Len(Append(ws, a)) = Len(ws) + 1
         /\ Refused(a.is) => Refuses(Append(ws, a)) = Refuses(ws) \cup {a.for} /\ Handles(Append(ws, a)) = Handles(ws)
         /\ ~Refused(a.is) => Refuses(Append(ws, a)) = Refuses(ws) /\ Handles(Append(ws, a)) = Handles(ws) \cup {a.for}
<1>1. PICK v : v = Append(ws, a)
  OBVIOUS
<1>2. /\ v \in Seq(AnswerRecord) /\ Len(v) = Len(ws) + 1 /\ Len(ws) \in Nat
      /\ \A i \in 1 .. Len(ws) : v[i] = ws[i]
      /\ v[Len(ws) + 1] = a
  BY <1>1, AppendProperties, LenProperties
<1>3. PICK n : n = Len(v)
  OBVIOUS
<1>4. /\ n \in 1 .. Len(v) /\ v[n] = a
      /\ \A i \in 1 .. Len(ws) : i \in 1 .. Len(v)
      /\ \A i \in 1 .. Len(v) : i \in 1 .. Len(ws) \/ i = n
  BY <1>2, <1>3
<1>5. CASE Refused(a.is)
  <2>1. \A r \in Refuses(v) : r \in Refuses(ws) \cup {a.for}
    BY <1>2, <1>4 DEF Refuses
  <2>2. \A r \in Refuses(ws) \cup {a.for} : r \in Refuses(v)
    BY <1>2, <1>4, <1>5 DEF Refuses
  <2>3. \A r \in Handles(v) : r \in Handles(ws)
    BY <1>2, <1>4, <1>5 DEF Handles
  <2>4. \A r \in Handles(ws) : r \in Handles(v)
    BY <1>2, <1>4 DEF Handles
  <2>5. Refuses(v) = Refuses(ws) \cup {a.for}
    BY <2>1, <2>2
  <2>6. Handles(v) = Handles(ws)
    BY <2>3, <2>4
  <2> QED
    BY <1>1, <1>2, <1>5, <2>5, <2>6
<1>6. CASE ~Refused(a.is)
  <2>1. \A r \in Handles(v) : r \in Handles(ws) \cup {a.for}
    BY <1>2, <1>4 DEF Handles
  <2>2. \A r \in Handles(ws) \cup {a.for} : r \in Handles(v)
    BY <1>2, <1>4, <1>6 DEF Handles
  <2>3. \A r \in Refuses(v) : r \in Refuses(ws)
    BY <1>2, <1>4, <1>6 DEF Refuses
  <2>4. \A r \in Refuses(ws) : r \in Refuses(v)
    BY <1>2, <1>4 DEF Refuses
  <2>5. Handles(v) = Handles(ws) \cup {a.for}
    BY <2>1, <2>2
  <2>6. Refuses(v) = Refuses(ws)
    BY <2>3, <2>4
  <2> QED
    BY <1>1, <1>2, <1>6, <2>5, <2>6
<1> QED
  BY <1>5, <1>6

\* The answer that the sender holds, in a list of its own.
InSender == IF sender.at = "send" THEN <<sender.response>> ELSE <<>>

\* The answers written, with the one in the sender's hand.
LEMMA WrittenTypes ==
  ASSUME ChannelTypes
  PROVE  /\ InSender \in Seq(AnswerRecord) /\ sent \o InSender \in Seq(AnswerRecord)
         /\ Written = (sent \o InSender) \o responses /\ Written \in Seq(AnswerRecord)
<1>1. InSender \in Seq(AnswerRecord)
  BY DEF ChannelTypes, InSender
<1>2. sent \o InSender \in Seq(AnswerRecord)
  BY <1>1, ConcatProperties DEF ChannelTypes
<1>3. Written = (sent \o InSender) \o responses
  BY DEF Written, InSender
<1> QED
  BY <1>1, <1>2, <1>3, ConcatProperties DEF ChannelTypes

\* An answer that is queued is the last one written.
LEMMA WrittenGrows ==
  ASSUME ChannelTypes, NEW a \in AnswerRecord, responses' = Append(responses, a), UNCHANGED <<sent, sender>>
  PROVE  Written' = Append(Written, a)
<1>1. PICK front : front = sent \o InSender
  OBVIOUS
<1>2. front \in Seq(AnswerRecord) /\ responses \in Seq(AnswerRecord) /\ Written = front \o responses
  BY <1>1, WrittenTypes DEF ChannelTypes
<1>3. Written' = front \o Append(responses, a)
  BY <1>1 DEF Written, InSender
<1>4. Append(responses, a) = responses \o <<a>> /\ <<a>> \in Seq(AnswerRecord)
  BY <1>2, AppendIsConcat
<1>5. (front \o responses) \o <<a>> = front \o (responses \o <<a>>)
  BY <1>2, <1>4, ConcatAssociative
<1>6. front \o responses \in Seq(AnswerRecord)
  BY <1>2, ConcatProperties
<1>7. Append(front \o responses, a) = (front \o responses) \o <<a>>
  BY <1>6, AppendIsConcat
<1> QED
  BY <1>2, <1>3, <1>4, <1>5, <1>7

\* An answer that is taken by the sender, and written, keeps its place.
LEMMA WrittenStays ==
  ASSUME ChannelTypes, SenderReceives \/ Sends
  PROVE  Written' = Written
<1>1. /\ sent \in Seq(AnswerRecord) /\ responses \in Seq(AnswerRecord) /\ sender.response \in AnswerRecord
  BY DEF ChannelTypes
<1>2. CASE SenderReceives
  <2>1. PICK h : h = Head(responses)
    OBVIOUS
  <2>2. PICK rest : rest = Tail(responses)
    OBVIOUS
  <2>3. responses # <<>> /\ sender.at = "receive"
    BY <1>2 DEF SenderReceives
  <2>4. h \in AnswerRecord /\ rest \in Seq(AnswerRecord) /\ <<h>> \in Seq(AnswerRecord)
    BY <1>1, <2>1, <2>2, <2>3, HeadTailProperties
  <2>5. responses = <<h>> \o rest
    BY <1>1, <2>1, <2>2, <2>3
  <2>6. Written' = (sent \o <<h>>) \o rest
    BY <1>2, <2>1, <2>2 DEF SenderReceives, Written
  <2>7. (sent \o <<h>>) \o rest = sent \o (<<h>> \o rest)
    BY <1>1, <2>4, ConcatAssociative
  <2>8. Written = (sent \o <<>>) \o responses
    BY <2>3 DEF Written
  <2>9. sent \o <<>> = sent
    BY <1>1, ConcatEmptySeq
  <2> QED
    BY <2>5, <2>6, <2>7, <2>8, <2>9
<1>3. CASE Sends
  <2>1. PICK h : h = sender.response
    OBVIOUS
  <2>2. sender.at = "send" /\ sent' = Append(sent, h) /\ responses' = responses /\ sender'.at = "receive"
    BY <1>3, <2>1 DEF Sends
  <2>3. Written = (sent \o <<h>>) \o responses
    BY <2>1, <2>2 DEF Written
  <2>4. Append(sent, h) = sent \o <<h>> /\ Append(sent, h) \in Seq(AnswerRecord)
    BY <1>1, <2>1, AppendIsConcat, AppendProperties
  <2>5. Written' = (Append(sent, h) \o <<>>) \o responses
    BY <2>2 DEF Written
  <2>6. Append(sent, h) \o <<>> = Append(sent, h)
    BY <2>4, ConcatEmptySeq
  <2> QED
    BY <2>3, <2>4, <2>5, <2>6
<1> QED
  BY <1>2, <1>3

\* An answer that could not be written is gone: no other comes.
LEMMA WrittenLoses ==
  ASSUME ChannelTypes, SendFails
  PROVE  \A r \in Refuses(Written') : r \in Refuses(Written)
<1>1. PICK h : h = sender.response
  OBVIOUS
<1>2. /\ sent \in Seq(AnswerRecord) /\ responses \in Seq(AnswerRecord) /\ h \in AnswerRecord
      /\ sender.at = "send" /\ sent' = sent /\ responses' = responses /\ sender'.at = "done"
  BY <1>1 DEF ChannelTypes, SendFails
<1>3. PICK old : old = Written
  OBVIOUS
<1>4. PICK new : new = Written'
  OBVIOUS
<1>5. PICK front : front = sent \o <<h>>
  OBVIOUS
<1>6. old = front \o responses /\ <<h>> \in Seq(AnswerRecord) /\ Len(<<h>>) = 1
  BY <1>1, <1>2, <1>3, <1>5 DEF Written
<1>7. new = sent \o responses
  <2>1. new = (sent \o <<>>) \o responses
    BY <1>2, <1>4 DEF Written
  <2> QED
    BY <1>2, <2>1, ConcatEmptySeq
<1>8. /\ front \in Seq(AnswerRecord) /\ Len(front) = Len(sent) + 1 /\ Len(sent) \in Nat /\ Len(responses) \in Nat
      /\ \A i \in 1 .. Len(sent) : front[i] = sent[i]
  <2>1. /\ sent \o <<h>> \in Seq(AnswerRecord) /\ Len(sent \o <<h>>) = Len(sent) + Len(<<h>>)
        /\ \A i \in 1 .. Len(sent) + Len(<<h>>) : (sent \o <<h>>)[i] = IF i <= Len(sent) THEN sent[i] ELSE <<h>>[i - Len(sent)]
    BY <1>2, <1>6, ConcatProperties
  <2>2. Len(sent) \in Nat /\ Len(responses) \in Nat
    BY <1>2, LenProperties
  <2>3. Len(front) = Len(sent) + 1 /\ front \in Seq(AnswerRecord)
    BY <1>5, <1>6, <2>1
  <2>4. \A i \in 1 .. Len(sent) : i \in 1 .. Len(sent) + Len(<<h>>) /\ i <= Len(sent)
    BY <1>6, <2>2
  <2> QED
    BY <1>5, <2>1, <2>2, <2>3, <2>4
<1>9. /\ Len(new) = Len(sent) + Len(responses)
      /\ \A i \in 1 .. Len(sent) + Len(responses) : new[i] = IF i <= Len(sent) THEN sent[i] ELSE responses[i - Len(sent)]
  BY <1>2, <1>7, ConcatProperties
<1>10. /\ Len(old) = Len(front) + Len(responses)
       /\ \A i \in 1 .. Len(front) + Len(responses) : old[i] = IF i <= Len(front) THEN front[i] ELSE responses[i - Len(front)]
  BY <1>2, <1>6, <1>8, ConcatProperties
<1>11. ASSUME NEW i \in 1 .. Len(new)
       PROVE  \E k \in 1 .. Len(old) : old[k] = new[i]
  <2>1. CASE i <= Len(sent)
    <3>1. i \in 1 .. Len(sent) /\ i \in 1 .. Len(old) /\ i <= Len(front) /\ i \in 1 .. Len(front) + Len(responses)
      BY <1>8, <1>9, <1>10, <2>1
    <3> QED
      BY <1>8, <1>9, <1>10, <2>1, <3>1
  <2>2. CASE ~(i <= Len(sent))
    <3>1. PICK k : k = i + 1
      OBVIOUS
    <3>2. k \in 1 .. Len(old) /\ k \in 1 .. Len(front) + Len(responses) /\ ~(k <= Len(front)) /\ k - Len(front) = i - Len(sent)
      BY <1>8, <1>9, <1>10, <2>2, <3>1
    <3>3. new[i] = responses[i - Len(sent)]
      BY <1>9, <2>2
    <3>4. old[k] = responses[k - Len(front)]
      BY <1>10, <3>2
    <3> QED
      BY <3>2, <3>3, <3>4
  <2> QED
    BY <2>1, <2>2
<1> QED
  BY <1>3, <1>4, <1>11 DEF Refuses

\* An answer names the number of a message.
LEMMA AnswersNumbered ==
  ASSUME ChannelTypes
  PROVE  /\ \A x \in Refuses(Written) : x \in Nat
         /\ \A x \in Handles(Written) : x \in Nat
<1>1. PICK ws : ws = Written
  OBVIOUS
<1>2. ws \in Seq(AnswerRecord)
  BY <1>1, WrittenTypes
<1>3. \A i \in 1 .. Len(ws) : ws[i] \in AnswerRecord
  BY <1>2
<1>4. \A i \in 1 .. Len(ws) : ws[i].for \in Nat
  BY <1>3 DEF AnswerRecord
<1> QED
  BY <1>1, <1>4 DEF Refuses, Handles

\* A step that leaves the commands alone and refuses none.
LEMMA QuietChannel ==
  ASSUME ChannelInv, ChannelTypes', UNCHANGED <<arrived, queue, runner, applied>>,
         \A r \in Refuses(Written') : r \in Refuses(Written),
         ~cancelled' => ~cancelled /\ Written' = Written,
         closer' = "returned" => runner.at = "done" /\ sender'.at = "done"
  PROVE  ChannelInv'
<1>1. CommandsInOrder(arrived', queue', runner', applied')
  BY DEF ChannelInv
<1>2. RefusalsTrue(arrived', queue', runner', applied', Written')
  BY DEF ChannelInv, RefusalsTrue
<1>3. ~cancelled' => AllThere(arrived', queue', runner', Written')
  BY DEF ChannelInv
<1> QED
  BY <1>1, <1>2, <1>3 DEF ChannelInv

\* A request that is not answered: it is queued, or the channel is ending.
LEMMA MessageArrives ==
  ASSUME ChannelInv, OnMessage, UNCHANGED responses
  PROVE  ChannelInv'
<1>1. ChannelTypes /\ arrived \in Nat /\ queue \in Seq(Nat \ {NoRequest})
  BY DEF ChannelInv, ChannelTypes
<1>2. PICK r : r = arrived + 1
  OBVIOUS
<1>3. /\ r \in Nat \ {NoRequest} /\ arrived' = r /\ UNCHANGED <<runner, sender, sent, applied, closer>>
      /\ r = arrived + 1
  BY <1>1, <1>2 DEF OnMessage, NoRequest
<1>4. Written' = Written
  BY <1>3 DEF Written
<1>5. runner.for \in Nat /\ applied \in Seq(Nat)
  BY <1>1 DEF ChannelTypes
<1>6. \A k \in 1 .. Len(applied) : applied[k] \in Nat
  BY <1>5
<1>7. \A i \in 1 .. Len(queue) : queue[i] \in Nat /\ queue[i] # NoRequest
  BY <1>1
<1>8. /\ CommandsInOrder(arrived, queue, runner, applied)
      /\ RefusalsTrue(arrived, queue, runner, applied, Written)
      /\ ~cancelled => AllThere(arrived, queue, runner, Written)
      /\ closer' = "returned" => runner'.at = "done" /\ sender'.at = "done"
  BY <1>3 DEF ChannelInv
<1>9. \A x \in Refuses(Written) : x \in Nat
  BY <1>1, AnswersNumbered
<1>10. \A x \in Handles(Written) : x \in Nat
  BY <1>1, AnswersNumbered
<1>11. CASE queue' = queue
  <2>1. cancelled'
    <3>1. queue # Append(queue, r)
      <4>1. Len(Append(queue, r)) = Len(queue) + 1 /\ Len(queue) \in Nat
        BY <1>1, <1>3, AppendProperties, LenProperties
      <4> QED
        BY <4>1
    <3>2. responses # Append(responses, Answer(r, "unavailable"))
      <4>1. responses \in Seq(AnswerRecord) /\ Answer(r, "unavailable") \in AnswerRecord
        BY <1>1, <1>3 DEF ChannelTypes, Answer, AnswerRecord
      <4>2. /\ Len(Append(responses, Answer(r, "unavailable"))) = Len(responses) + 1
            /\ Len(responses) \in Nat
        BY <4>1, AppendProperties, LenProperties
      <4> QED
        BY <4>2
    <3>3. \/ cancelled /\ cancelled' = cancelled
          \/ queue' = Append(queue, r)
          \/ Overload(r)
      BY <1>2 DEF OnMessage
    <3>4. Overload(r) => (cancelled /\ cancelled' = cancelled) \/ cancelled'
      BY <3>2 DEF Overload, StopAndClose
    <3> QED
      BY <1>11, <3>1, <3>3, <3>4
  <2>2. ChannelTypes'
    BY <1>1, <1>3, <1>11 DEF ChannelTypes
  <2>3. CommandsInOrder(r, queue, runner, applied)
    BY <1>1, <1>3, <1>5, <1>6, <1>7, <1>8 DEF CommandsInOrder
  <2>4. RefusalsTrue(r, queue, runner, applied, Written)
    BY <1>1, <1>3, <1>8, <1>9 DEF RefusalsTrue
  <2> QED
    BY <1>3, <1>4, <1>8, <1>11, <2>1, <2>2, <2>3, <2>4 DEF ChannelInv
<1>12. CASE queue' = Append(queue, r) /\ cancelled' = cancelled
  <2>1. PICK new : new = queue'
    OBVIOUS
  <2>2. PICK n : n = Len(new)
    OBVIOUS
  <2>3. /\ new \in Seq(Nat \ {NoRequest}) /\ n = Len(queue) + 1 /\ Len(queue) \in Nat
        /\ \A i \in 1 .. Len(queue) : new[i] = queue[i]
        /\ new[n] = r
    BY <1>1, <1>3, <1>12, <2>1, <2>2, AppendProperties, LenProperties
  <2>4. \A i \in 1 .. n : i \in 1 .. Len(queue) \/ i = n
    BY <2>3
  <2>5. n \in 1 .. n /\ \A i \in 1 .. Len(queue) : i \in 1 .. n /\ i < n
    BY <2>3
  <2>6. ChannelTypes'
    BY <1>1, <1>3, <1>12, <2>1, <2>3 DEF ChannelTypes
  <2>7. CommandsInOrder(r, new, runner, applied)
    <3>1. \A i, j \in 1 .. n : i < j => new[i] < new[j]
      <4> SUFFICES ASSUME NEW i \in 1 .. n, NEW j \in 1 .. n, i < j
                   PROVE  new[i] < new[j]
        OBVIOUS
      <4>1. i \in 1 .. Len(queue) /\ queue[i] <= arrived
        BY <1>8, <2>3 DEF CommandsInOrder
      <4>2. CASE j = n
        BY <1>1, <1>3, <1>7, <2>3, <4>1, <4>2
      <4>3. CASE j \in 1 .. Len(queue)
        BY <1>8, <2>3, <4>1, <4>3 DEF CommandsInOrder
      <4> QED
        BY <2>4, <4>2, <4>3
    <3>2. ASSUME NEW i \in 1 .. n
          PROVE  new[i] <= r /\ (runner.for # NoRequest => runner.for < new[i])
      <4>1. CASE i = n
        BY <1>1, <1>3, <1>5, <1>8, <2>3, <4>1 DEF CommandsInOrder
      <4>2. CASE i \in 1 .. Len(queue)
        <5>1. new[i] = queue[i] /\ queue[i] <= arrived /\ (runner.for # NoRequest => runner.for < queue[i])
          BY <1>8, <2>3, <4>2 DEF CommandsInOrder
        <5> QED
          BY <1>1, <1>3, <1>7, <4>2, <5>1
      <4> QED
        BY <2>4, <4>1, <4>2
    <3>3. ASSUME NEW k \in 1 .. Len(applied)
          PROVE  applied[k] <= r /\ \A i \in 1 .. n : applied[k] < new[i]
      <4>1. applied[k] <= arrived /\ applied[k] \in Nat
        BY <1>6, <1>8 DEF CommandsInOrder
      <4>2. ASSUME NEW i \in 1 .. n
            PROVE  applied[k] < new[i]
        <5>1. CASE i = n
          BY <1>1, <1>3, <2>3, <4>1, <5>1
        <5>2. CASE i \in 1 .. Len(queue)
          BY <1>8, <2>3, <5>2 DEF CommandsInOrder
        <5> QED
          BY <2>4, <5>1, <5>2
      <4> QED
        BY <1>1, <1>3, <4>1, <4>2
    <3>4. runner.for # NoRequest => runner.for <= r
      BY <1>1, <1>3, <1>5, <1>8 DEF CommandsInOrder
    <3> QED
      BY <1>8, <2>2, <3>1, <3>2, <3>3, <3>4 DEF CommandsInOrder
  <2>8. RefusalsTrue(r, new, runner, applied, Written)
    <3> SUFFICES ASSUME NEW x \in Refuses(Written)
                 PROVE  /\ x # NoRequest /\ x <= r /\ x # runner.for
                        /\ \A i \in 1 .. Len(new) : new[i] # x
                        /\ \A k \in 1 .. Len(applied) : applied[k] # x
      BY DEF RefusalsTrue
    <3>1. /\ x \in Nat /\ x # NoRequest /\ x <= arrived /\ x # runner.for
          /\ \A i \in 1 .. Len(queue) : queue[i] # x
          /\ \A k \in 1 .. Len(applied) : applied[k] # x
      BY <1>8, <1>9 DEF RefusalsTrue
    <3>2. x <= r /\ x # r
      BY <1>1, <1>3, <3>1
    <3>3. \A i \in 1 .. Len(new) : new[i] # x
      BY <2>2, <2>3, <2>4, <3>1, <3>2
    <3> QED
      BY <3>1, <3>2, <3>3
  <2>9. ASSUME ~cancelled
        PROVE  AllThere(r, new, runner, Written)
    <3>1. AllThere(arrived, queue, runner, Written)
      BY <1>8, <2>9
    <3>2. ASSUME NEW h \in Handles(Written)
          PROVE  /\ h # NoRequest /\ h <= r /\ (runner.for # NoRequest => h < runner.for)
                 /\ \A i \in 1 .. Len(new) : h < new[i]
                 /\ h \notin Refuses(Written)
      <4>1. /\ h \in Nat /\ h # NoRequest /\ h <= arrived /\ (runner.for # NoRequest => h < runner.for)
            /\ \A i \in 1 .. Len(queue) : h < queue[i]
            /\ h \notin Refuses(Written)
        BY <1>10, <3>1 DEF AllThere
      <4>2. h < r /\ h <= r
        BY <1>1, <1>3, <4>1
      <4>3. \A i \in 1 .. Len(new) : h < new[i]
        BY <2>2, <2>3, <2>4, <4>1, <4>2
      <4> QED
        BY <4>1, <4>2, <4>3
    <3>3. ASSUME NEW x \in 1 .. r
          PROVE  \/ x \in Refuses(Written) \/ x \in Handles(Written) \/ x = runner.for
                 \/ \E i \in 1 .. Len(new) : new[i] = x
      <4>1. CASE x = r
        BY <2>2, <2>3, <2>5, <4>1
      <4>2. CASE x # r
        <5>1. x \in 1 .. arrived
          BY <1>1, <1>3, <4>2
        <5>2. \/ x \in Refuses(Written) \/ x \in Handles(Written) \/ x = runner.for
              \/ \E i \in 1 .. Len(queue) : queue[i] = x
          BY <3>1, <5>1 DEF AllThere
        <5> QED
          BY <2>2, <2>3, <2>5, <5>2
      <4> QED
        BY <4>1, <4>2
    <3>4. Len(Written) + (IF runner.for = NoRequest THEN 0 ELSE 1) + Len(new) = r
      <4>1. Len(Written) \in Nat
        BY <1>1, WrittenTypes, LenProperties
      <4>2. Len(Written) + (IF runner.for = NoRequest THEN 0 ELSE 1) + Len(queue) = arrived
        BY <3>1 DEF AllThere
      <4>3. PICK held : held = IF runner.for = NoRequest THEN 0 ELSE 1
        OBVIOUS
      <4>4. held \in Nat /\ Len(Written) + held + Len(queue) = arrived
        BY <4>2, <4>3
      <4>5. Len(Written) + held + Len(new) = r
        BY <1>1, <1>3, <2>2, <2>3, <4>1, <4>4
      <4> QED
        BY <4>3, <4>5
    <3>5. \A i, j \in 1 .. Len(Written) :
            i < j /\ ~Refused(Written[i].is) /\ ~Refused(Written[j].is) => Written[i].for < Written[j].for
      BY <3>1 DEF AllThere
    <3> QED
      BY <3>2, <3>3, <3>4, <3>5 DEF AllThere
  <2> QED
    BY <1>3, <1>4, <1>8, <1>12, <2>1, <2>6, <2>7, <2>8, <2>9 DEF ChannelInv
<1> QED
  BY <1>3, <1>11, <1>12 DEF OnMessage

\* A request that finds the queue full is told so, if there is room to.
LEMMA MessageRefused ==
  ASSUME ChannelInv, OnMessage, responses' # responses
  PROVE  ChannelInv'
<1>1. /\ ChannelTypes /\ arrived \in Nat /\ queue \in Seq(Nat \ {NoRequest}) /\ applied \in Seq(Nat)
      /\ runner.for \in Nat
  BY DEF ChannelInv, ChannelTypes
<1>2. PICK r : r = arrived + 1
  OBVIOUS
<1>3. /\ r \in Nat \ {NoRequest} /\ arrived' = r /\ UNCHANGED <<runner, sender, sent, applied, closer>>
      /\ r = arrived + 1
  BY <1>1, <1>2 DEF OnMessage, NoRequest
<1>4. PICK a : a = Answer(r, "unavailable")
  OBVIOUS
<1>5. a \in AnswerRecord /\ a.for = r /\ Refused(a.is)
  BY <1>3, <1>4 DEF Answer, AnswerRecord, Refused
<1>6. responses' = Append(responses, a) /\ queue' = queue /\ cancelled' = cancelled
  BY <1>2, <1>4 DEF OnMessage, Overload
<1>7. Written' = Append(Written, a)
  BY <1>1, <1>3, <1>5, <1>6, WrittenGrows
<1>8. PICK ws : ws = Written
  OBVIOUS
<1>9. PICK vs : vs = Written'
  OBVIOUS
<1>10. /\ ws \in Seq(AnswerRecord) /\ vs = Append(ws, a) /\ vs \in Seq(AnswerRecord)
       /\ Len(vs) = Len(ws) + 1 /\ Len(ws) \in Nat
       /\ Refuses(vs) = Refuses(ws) \cup {r} /\ Handles(vs) = Handles(ws)
  BY <1>1, <1>5, <1>7, <1>8, <1>9, WrittenTypes, AnswersAppend, LenProperties
<1>11. ChannelTypes'
  <2>1. responses' \in Seq(AnswerRecord)
    BY <1>1, <1>5, <1>6, AppendProperties DEF ChannelTypes
  <2> QED
    BY <1>1, <1>3, <1>6, <2>1 DEF ChannelTypes
<1>12. \A i \in 1 .. Len(queue) : queue[i] \in Nat
  BY <1>1
<1>13. \A k \in 1 .. Len(applied) : applied[k] \in Nat
  BY <1>1
<1>14. /\ CommandsInOrder(arrived, queue, runner, applied)
       /\ RefusalsTrue(arrived, queue, runner, applied, ws)
       /\ ~cancelled => AllThere(arrived, queue, runner, ws)
       /\ closer' = "returned" => runner'.at = "done" /\ sender'.at = "done"
  BY <1>3, <1>8 DEF ChannelInv
<1>15. CommandsInOrder(r, queue, runner, applied)
  BY <1>1, <1>3, <1>12, <1>13, <1>14 DEF CommandsInOrder
<1>16. RefusalsTrue(r, queue, runner, applied, vs)
  <2> SUFFICES ASSUME NEW x \in Refuses(vs)
               PROVE  /\ x # NoRequest /\ x <= r /\ x # runner.for
                      /\ \A i \in 1 .. Len(queue) : queue[i] # x
                      /\ \A k \in 1 .. Len(applied) : applied[k] # x
    BY DEF RefusalsTrue
  <2>1. CASE x = r
    <3>1. \A i \in 1 .. Len(queue) : queue[i] <= arrived
      BY <1>14 DEF CommandsInOrder
    <3>2. \A k \in 1 .. Len(applied) : applied[k] <= arrived
      BY <1>14 DEF CommandsInOrder
    <3>3. runner.for # NoRequest => runner.for <= arrived
      BY <1>14 DEF CommandsInOrder
    <3> QED
      BY <1>1, <1>3, <1>12, <1>13, <2>1, <3>1, <3>2, <3>3
  <2>2. CASE x \in Refuses(ws)
    <3>1. /\ x # NoRequest /\ x <= arrived /\ x # runner.for
          /\ \A i \in 1 .. Len(queue) : queue[i] # x
          /\ \A k \in 1 .. Len(applied) : applied[k] # x
      BY <1>14, <2>2 DEF RefusalsTrue
    <3>2. x \in Nat
      BY <1>1, <1>8, <2>2, AnswersNumbered
    <3> QED
      BY <1>1, <1>3, <3>1, <3>2
  <2> QED
    BY <1>10, <2>1, <2>2
<1>17. ASSUME ~cancelled
       PROVE  AllThere(r, queue, runner, vs)
  <2>1. AllThere(arrived, queue, runner, ws)
    BY <1>14, <1>17
  <2>2. ASSUME NEW i \in 1 .. Len(vs), NEW j \in 1 .. Len(vs),
               i < j, ~Refused(vs[i].is), ~Refused(vs[j].is)
        PROVE  vs[i].for < vs[j].for
    <3>1. vs[Len(ws) + 1] = a /\ \A k \in 1 .. Len(ws) : vs[k] = ws[k]
      BY <1>5, <1>10, AppendProperties
    <3>2. i # Len(ws) + 1 /\ j # Len(ws) + 1
      BY <1>5, <2>2, <3>1
    <3>3. i \in 1 .. Len(ws) /\ j \in 1 .. Len(ws)
      BY <1>10, <3>2
    <3> QED
      BY <2>1, <2>2, <3>1, <3>3 DEF AllThere
  <2>3. ASSUME NEW h \in Handles(vs)
        PROVE  /\ h # NoRequest /\ h <= r /\ (runner.for # NoRequest => h < runner.for)
               /\ \A i \in 1 .. Len(queue) : h < queue[i]
               /\ h \notin Refuses(vs)
    <3>1. /\ h # NoRequest /\ h <= arrived /\ (runner.for # NoRequest => h < runner.for)
          /\ \A i \in 1 .. Len(queue) : h < queue[i]
          /\ h \notin Refuses(ws)
      BY <1>10, <2>1 DEF AllThere
    <3>2. h \in Nat
      BY <1>1, <1>8, <1>10, AnswersNumbered
    <3>3. h <= r /\ h # r
      BY <1>1, <1>3, <3>1, <3>2
    <3> QED
      BY <1>10, <3>1, <3>3
  <2>4. ASSUME NEW x \in 1 .. r
        PROVE  \/ x \in Refuses(vs) \/ x \in Handles(vs) \/ x = runner.for
               \/ \E i \in 1 .. Len(queue) : queue[i] = x
    <3>1. x = r \/ x \in 1 .. arrived
      BY <1>1, <1>3
    <3> QED
      BY <1>10, <2>1, <3>1 DEF AllThere
  <2>5. PICK held : held = IF runner.for = NoRequest THEN 0 ELSE 1
    OBVIOUS
  <2>6. held \in Nat /\ Len(ws) + held + Len(queue) = arrived /\ Len(queue) \in Nat
    BY <1>1, <2>1, <2>5, LenProperties DEF AllThere
  <2>7. Len(vs) + held + Len(queue) = r
    BY <1>1, <1>3, <1>10, <2>6
  <2> QED
    BY <2>2, <2>3, <2>4, <2>5, <2>7 DEF AllThere
<1> QED
  BY <1>3, <1>6, <1>9, <1>11, <1>14, <1>15, <1>16, <1>17 DEF ChannelInv

\* The runner takes the next command in hand.
LEMMA CommandTaken ==
  ASSUME ChannelInv, WorkerReceives
  PROVE  ChannelInv'
<1>1. /\ ChannelTypes /\ arrived \in Nat /\ queue \in Seq(Nat \ {NoRequest}) /\ applied \in Seq(Nat)
      /\ runner.at = "receive" /\ runner.for = NoRequest /\ queue # <<>>
  BY DEF ChannelInv, ChannelTypes, WorkerReceives
<1>2. PICK h : h = Head(queue)
  OBVIOUS
<1>3. PICK rest : rest = Tail(queue)
  OBVIOUS
<1>4. PICK run : run = [at |-> "handle", for |-> h]
  OBVIOUS
<1>5. /\ h \in Nat \ {NoRequest} /\ h = queue[1] /\ rest \in Seq(Nat \ {NoRequest})
      /\ Len(rest) = Len(queue) - 1 /\ Len(queue) \in Nat /\ Len(queue) >= 1
      /\ \A i \in 1 .. Len(rest) : rest[i] = queue[i + 1]
  BY <1>1, <1>2, <1>3, HeadTailProperties, LenProperties, EmptySeq
<1>6. /\ runner' = run /\ queue' = rest /\ run.at = "handle" /\ run.for = h /\ h # NoRequest
      /\ UNCHANGED <<arrived, responses, sender, sent, applied, cancelled, open, closer>>
  BY <1>2, <1>3, <1>4, <1>5 DEF WorkerReceives
<1>7. Written' = Written
  BY <1>6 DEF Written
<1>8. ChannelTypes'
  BY <1>1, <1>4, <1>5, <1>6 DEF ChannelTypes
<1>9. \A i \in 1 .. Len(rest) : i + 1 \in 1 .. Len(queue) /\ rest[i] = queue[i + 1] /\ 1 < i + 1
  BY <1>5
<1>10. 1 \in 1 .. Len(queue)
  BY <1>5
<1>11. \A i \in 1 .. Len(queue) : i = 1 \/ (i - 1 \in 1 .. Len(rest) /\ rest[i - 1] = queue[i])
  <2> SUFFICES ASSUME NEW i \in 1 .. Len(queue), i # 1
               PROVE  i - 1 \in 1 .. Len(rest) /\ rest[i - 1] = queue[i]
    OBVIOUS
  <2>1. PICK k : k = i - 1
    OBVIOUS
  <2>2. k \in 1 .. Len(rest) /\ k + 1 = i
    BY <1>5, <2>1
  <2> QED
    BY <1>5, <2>1, <2>2
<1>12. /\ CommandsInOrder(arrived, queue, runner, applied)
       /\ RefusalsTrue(arrived, queue, runner, applied, Written)
       /\ ~cancelled => AllThere(arrived, queue, runner, Written)
       /\ closer # "returned"
  BY <1>1 DEF ChannelInv
<1>13. \A k \in 1 .. Len(applied) : applied[k] \in Nat
  BY <1>1
<1>14. CommandsInOrder(arrived, rest, run, applied)
  <2>1. \A i, j \in 1 .. Len(rest) : i < j => rest[i] < rest[j]
    <3> SUFFICES ASSUME NEW i \in 1 .. Len(rest), NEW j \in 1 .. Len(rest), i < j
                 PROVE  rest[i] < rest[j]
      OBVIOUS
    <3>1. i + 1 \in 1 .. Len(queue) /\ j + 1 \in 1 .. Len(queue) /\ i + 1 < j + 1
      BY <1>9
    <3> QED
      BY <1>9, <1>12, <3>1 DEF CommandsInOrder
  <2>2. \A i \in 1 .. Len(rest) : rest[i] <= arrived /\ h < rest[i]
    BY <1>5, <1>9, <1>10, <1>12 DEF CommandsInOrder
  <2>3. h <= arrived
    BY <1>5, <1>10, <1>12 DEF CommandsInOrder
  <2>4. ASSUME NEW k \in 1 .. Len(applied)
        PROVE  /\ applied[k] <= arrived /\ applied[k] < h /\ applied[k] <= h
               /\ \A i \in 1 .. Len(rest) : applied[k] < rest[i]
    <3>1. applied[k] <= arrived /\ \A i \in 1 .. Len(queue) : applied[k] < queue[i]
      BY <1>12 DEF CommandsInOrder
    <3>2. applied[k] < h
      BY <1>5, <1>10, <3>1
    <3>3. applied[k] <= h
      BY <1>5, <1>13, <3>2
    <3> QED
      BY <1>9, <3>1, <3>2, <3>3
  <2> QED
    BY <1>6, <1>12, <2>1, <2>2, <2>3, <2>4 DEF CommandsInOrder
<1>15. RefusalsTrue(arrived, rest, run, applied, Written)
  BY <1>5, <1>6, <1>9, <1>10, <1>12 DEF RefusalsTrue
<1>16. ASSUME ~cancelled
       PROVE  AllThere(arrived, rest, run, Written)
  <2>1. AllThere(arrived, queue, runner, Written)
    BY <1>12, <1>16
  <2>2. \A i, j \in 1 .. Len(Written) :
          i < j /\ ~Refused(Written[i].is) /\ ~Refused(Written[j].is) => Written[i].for < Written[j].for
    BY <2>1 DEF AllThere
  <2>3. \A d \in Handles(Written) :
          /\ d # NoRequest /\ d <= arrived /\ d < h
          /\ \A i \in 1 .. Len(rest) : d < rest[i]
          /\ d \notin Refuses(Written)
    BY <1>5, <1>9, <1>10, <2>1 DEF AllThere
  <2>4. \A r \in 1 .. arrived : \/ r \in Refuses(Written) \/ r \in Handles(Written) \/ r = h
                                \/ \E i \in 1 .. Len(rest) : rest[i] = r
    <3> SUFFICES ASSUME NEW r \in 1 .. arrived, r \notin Refuses(Written), r \notin Handles(Written), r # h
                 PROVE  \E i \in 1 .. Len(rest) : rest[i] = r
      OBVIOUS
    <3>1. \E i \in 1 .. Len(queue) : queue[i] = r
      BY <1>1, <2>1 DEF AllThere, NoRequest
    <3> QED
      BY <1>5, <1>11, <3>1
  <2>5. Len(Written) + 1 + Len(rest) = arrived
    <3>1. Len(Written) \in Nat
      BY <1>1, WrittenTypes, LenProperties
    <3>2. Len(Written) + 0 + Len(queue) = arrived
      BY <1>1, <2>1 DEF AllThere
    <3>3. Len(rest) \in Nat /\ Len(queue) = Len(rest) + 1
      BY <1>5
    <3> QED
      BY <3>1, <3>2, <3>3
  <2> QED
    BY <1>6, <2>2, <2>3, <2>4, <2>5 DEF AllThere
<1> QED
  BY <1>6, <1>7, <1>8, <1>12, <1>14, <1>15, <1>16 DEF ChannelInv

\* The command in hand moves on, and is carried out or not.
LEMMA CommandMoves ==
  ASSUME ChannelInv, HandleMessage \/ Dispatch
  PROVE  ChannelInv'
<1>1. /\ ChannelTypes /\ arrived \in Nat /\ queue \in Seq(Nat \ {NoRequest}) /\ applied \in Seq(Nat)
      /\ runner.at \in {"handle", "switch"} /\ runner.for \in Nat /\ runner.for # NoRequest
  BY DEF ChannelInv, ChannelTypes, HandleMessage, Dispatch
<1>2. /\ UNCHANGED <<arrived, queue, responses, sender, sent, cancelled, open, closer>>
      /\ closer # "returned"
  BY <1>1 DEF HandleMessage, Dispatch, ChannelInv
<1>3. Written' = Written
  BY <1>2 DEF Written
<1>4. PICK r : r = runner.for
  OBVIOUS
<1>5. PICK at \in {"switch", "answer_result", "answer_error"} :
        /\ runner' = [runner EXCEPT !.at = at]
        /\ \/ applied' = applied /\ at # "answer_result"
           \/ applied' = Append(applied, r) /\ at = "answer_result"
  <2>1. CASE HandleMessage
    BY <2>1 DEF HandleMessage
  <2>2. CASE Dispatch
    BY <1>4, <2>2 DEF Dispatch
  <2> QED
    BY <2>1, <2>2
<1>6. /\ runner' \in [at : {"receive", "handle", "switch", "answer_result", "answer_error", "done"}, for : Nat]
      /\ runner'.at = at /\ runner'.for = r
  BY <1>1, <1>4, <1>5 DEF ChannelTypes
<1>7. /\ CommandsInOrder(arrived, queue, runner, applied)
      /\ RefusalsTrue(arrived, queue, runner, applied, Written)
      /\ ~cancelled => AllThere(arrived, queue, runner, Written)
  BY DEF ChannelInv
<1>8. ~cancelled' => AllThere(arrived', queue', runner', Written')
  BY <1>2, <1>3, <1>4, <1>6, <1>7 DEF AllThere
<1>9. CASE applied' = applied /\ at # "answer_result"
  <2>1. ChannelTypes'
    BY <1>1, <1>2, <1>4, <1>6, <1>9 DEF ChannelTypes
  <2>2. CommandsInOrder(arrived', queue', runner', applied')
    BY <1>1, <1>2, <1>4, <1>6, <1>7, <1>9 DEF CommandsInOrder
  <2>3. RefusalsTrue(arrived', queue', runner', applied', Written')
    BY <1>2, <1>3, <1>4, <1>6, <1>7, <1>9 DEF RefusalsTrue
  <2> QED
    BY <1>2, <1>8, <2>1, <2>2, <2>3 DEF ChannelInv
<1>10. CASE applied' = Append(applied, r) /\ at = "answer_result"
  <2>1. PICK done : done = applied'
    OBVIOUS
  <2>2. PICK n : n = Len(done)
    OBVIOUS
  <2>3. /\ done \in Seq(Nat) /\ n = Len(applied) + 1 /\ Len(applied) \in Nat
        /\ \A k \in 1 .. Len(applied) : done[k] = applied[k]
        /\ done[n] = r
    BY <1>1, <1>4, <1>10, <2>1, <2>2, AppendProperties, LenProperties
  <2>4. \A k \in 1 .. n : k \in 1 .. Len(applied) \/ k = n
    BY <2>3
  <2>5. ChannelTypes'
    BY <1>1, <1>2, <1>4, <1>6, <1>10, <2>1, <2>3 DEF ChannelTypes
  <2>6. \A k \in 1 .. Len(applied) : applied[k] \in Nat /\ applied[k] <= arrived /\ applied[k] < r
    BY <1>1, <1>4, <1>7 DEF CommandsInOrder
  <2>7. CommandsInOrder(arrived, queue, runner', done)
    <3>1. \A i, j \in 1 .. n : i < j => done[i] < done[j]
      <4> SUFFICES ASSUME NEW i \in 1 .. n, NEW j \in 1 .. n, i < j
                   PROVE  done[i] < done[j]
        OBVIOUS
      <4>1. i \in 1 .. Len(applied)
        BY <2>3
      <4>2. CASE j = n
        BY <2>3, <2>6, <4>1, <4>2
      <4>3. CASE j \in 1 .. Len(applied)
        BY <1>7, <2>3, <4>1, <4>3 DEF CommandsInOrder
      <4> QED
        BY <2>4, <4>2, <4>3
    <3>2. ASSUME NEW k \in 1 .. n
          PROVE  /\ done[k] <= arrived /\ done[k] <= r
                 /\ \A i \in 1 .. Len(queue) : done[k] < queue[i]
      <4>1. CASE k = n
        <5>1. done[k] = r /\ r <= arrived /\ \A i \in 1 .. Len(queue) : r < queue[i]
          BY <1>1, <1>4, <1>7, <2>3, <4>1 DEF CommandsInOrder
        <5> QED
          BY <1>1, <1>4, <5>1
      <4>2. CASE k \in 1 .. Len(applied)
        <5>1. done[k] = applied[k] /\ \A i \in 1 .. Len(queue) : applied[k] < queue[i]
          BY <1>7, <2>3, <4>2 DEF CommandsInOrder
        <5> QED
          BY <1>1, <1>4, <2>6, <4>2, <5>1
      <4> QED
        BY <2>4, <4>1, <4>2
    <3> QED
      BY <1>4, <1>6, <1>7, <1>10, <2>2, <3>1, <3>2 DEF CommandsInOrder
  <2>8. RefusalsTrue(arrived, queue, runner', done, Written)
    <3> SUFFICES ASSUME NEW x \in Refuses(Written)
                 PROVE  /\ x # NoRequest /\ x <= arrived /\ x # runner'.for
                        /\ \A i \in 1 .. Len(queue) : queue[i] # x
                        /\ \A k \in 1 .. Len(done) : done[k] # x
      BY DEF RefusalsTrue
    <3>1. /\ x # NoRequest /\ x <= arrived /\ x # r
          /\ \A i \in 1 .. Len(queue) : queue[i] # x
          /\ \A k \in 1 .. Len(applied) : applied[k] # x
      BY <1>4, <1>7 DEF RefusalsTrue
    <3> QED
      BY <1>6, <2>2, <2>3, <2>4, <3>1
  <2> QED
    BY <1>2, <1>3, <1>8, <2>1, <2>5, <2>7, <2>8 DEF ChannelInv
<1> QED
  BY <1>5, <1>9, <1>10

\* The command in hand is answered, or given up with the channel.
LEMMA CommandAnswered ==
  ASSUME ChannelInv, WorkerAnswers
  PROVE  ChannelInv'
<1>1. /\ ChannelTypes /\ arrived \in Nat /\ queue \in Seq(Nat \ {NoRequest}) /\ applied \in Seq(Nat)
      /\ runner.at \in Answering /\ runner.for \in Nat /\ runner.for # NoRequest
  BY DEF ChannelInv, ChannelTypes, WorkerAnswers, Answering
<1>2. PICK r : r = runner.for
  OBVIOUS
<1>3. PICK a : a = Response
  OBVIOUS
<1>4. a \in AnswerRecord /\ a.for = r /\ ~Refused(a.is)
  BY <1>1, <1>2, <1>3 DEF Response, Answer, AnswerRecord, Refused
<1>5. /\ responses' = Append(responses, a) /\ runner' = [at |-> "receive", for |-> NoRequest]
      /\ UNCHANGED <<arrived, queue, sender, sent, applied, cancelled, open, closer>>
      /\ closer # "returned"
  BY <1>1, <1>3 DEF WorkerAnswers, ChannelInv, Answering
<1>6. Written' = Append(Written, a)
  BY <1>1, <1>4, <1>5, WrittenGrows
<1>7. PICK ws : ws = Written
  OBVIOUS
<1>8. PICK vs : vs = Written'
  OBVIOUS
<1>9. /\ ws \in Seq(AnswerRecord) /\ vs = Append(ws, a)
      /\ Len(vs) = Len(ws) + 1 /\ Len(ws) \in Nat
      /\ Refuses(vs) = Refuses(ws) /\ Handles(vs) = Handles(ws) \cup {r}
  BY <1>1, <1>4, <1>6, <1>7, <1>8, WrittenTypes, AnswersAppend, LenProperties
<1>10. ChannelTypes'
  <2>1. responses' \in Seq(AnswerRecord)
    BY <1>1, <1>4, <1>5, AppendProperties DEF ChannelTypes
  <2> QED
    BY <1>1, <1>5, <2>1 DEF ChannelTypes, NoRequest
<1>11. runner'.at = "receive" /\ runner'.for = NoRequest
  BY <1>5
<1>12. /\ CommandsInOrder(arrived, queue, runner, applied)
       /\ RefusalsTrue(arrived, queue, runner, applied, ws)
       /\ ~cancelled => AllThere(arrived, queue, runner, ws)
  BY <1>7 DEF ChannelInv
<1>13. CommandsInOrder(arrived, queue, runner', applied)
  BY <1>11, <1>12 DEF CommandsInOrder
<1>14. RefusalsTrue(arrived, queue, runner', applied, vs)
  BY <1>9, <1>11, <1>12 DEF RefusalsTrue
<1>15. ASSUME ~cancelled
       PROVE  AllThere(arrived, queue, runner', vs)
  <2>1. AllThere(arrived, queue, runner, ws)
    BY <1>12, <1>15
  <2>2. vs[Len(ws) + 1] = a /\ \A k \in 1 .. Len(ws) : vs[k] = ws[k]
    BY <1>4, <1>9, AppendProperties
  <2>3. ASSUME NEW k \in 1 .. Len(ws), ~Refused(ws[k].is)
        PROVE  ws[k].for < r
    <3>1. ws[k].for \in Handles(ws)
      BY <2>3 DEF Handles
    <3> QED
      BY <1>1, <1>2, <2>1, <3>1 DEF AllThere
  <2>4. ASSUME NEW i \in 1 .. Len(vs), NEW j \in 1 .. Len(vs),
               i < j, ~Refused(vs[i].is), ~Refused(vs[j].is)
        PROVE  vs[i].for < vs[j].for
    <3>1. i \in 1 .. Len(ws)
      BY <1>9, <2>4
    <3>2. CASE j = Len(ws) + 1
      BY <1>4, <2>2, <2>3, <2>4, <3>1, <3>2
    <3>3. CASE j \in 1 .. Len(ws)
      BY <2>1, <2>2, <2>4, <3>1, <3>3 DEF AllThere
    <3> QED
      BY <1>9, <3>2, <3>3
  <2>5. ASSUME NEW h \in Handles(vs)
        PROVE  /\ h # NoRequest /\ h <= arrived
               /\ \A i \in 1 .. Len(queue) : h < queue[i]
               /\ h \notin Refuses(vs)
    <3>1. CASE h = r
      BY <1>1, <1>2, <1>9, <1>12, <3>1 DEF CommandsInOrder, RefusalsTrue
    <3>2. CASE h \in Handles(ws)
      BY <1>9, <2>1, <3>2 DEF AllThere
    <3> QED
      BY <1>9, <3>1, <3>2
  <2>6. \A x \in 1 .. arrived : \/ x \in Refuses(vs) \/ x \in Handles(vs)
                                \/ \E i \in 1 .. Len(queue) : queue[i] = x
    BY <1>2, <1>9, <2>1 DEF AllThere
  <2>7. Len(vs) + 0 + Len(queue) = arrived
    <3>1. Len(ws) + 1 + Len(queue) = arrived /\ Len(queue) \in Nat
      BY <1>1, <2>1, LenProperties DEF AllThere
    <3> QED
      BY <1>9, <3>1
  <2> QED
    BY <1>11, <2>4, <2>5, <2>6, <2>7 DEF AllThere
<1> QED
  BY <1>5, <1>8, <1>10, <1>13, <1>14, <1>15 DEF ChannelInv

\* The runner gives up the command in hand with the channel.
LEMMA RunnerStops ==
  ASSUME ChannelInv, WorkerStops
  PROVE  ChannelInv'
<1>1. /\ runner' = [at |-> "done", for |-> NoRequest] /\ cancelled' /\ cancelled
      /\ UNCHANGED <<arrived, queue, responses, sender, sent, applied, closer>>
      /\ runner'.at = "done" /\ runner'.for = NoRequest
  BY DEF WorkerStops
<1>2. Written' = Written
  BY <1>1 DEF Written
<1>3. ChannelTypes'
  BY <1>1 DEF ChannelInv, ChannelTypes, NoRequest
<1>4. CommandsInOrder(arrived', queue', runner', applied')
  BY <1>1 DEF ChannelInv, CommandsInOrder
<1>5. RefusalsTrue(arrived', queue', runner', applied', Written')
  BY <1>1, <1>2 DEF ChannelInv, RefusalsTrue
<1> QED
  BY <1>1, <1>3, <1>4, <1>5 DEF ChannelInv

\* The sender takes, writes or loses an answer, and stops.
LEMMA SenderKeeps ==
  ASSUME ChannelInv, SenderReceives \/ Sends \/ SendFails \/ SenderStops
  PROVE  ChannelInv'
<1>1. ChannelTypes /\ UNCHANGED <<arrived, queue, runner, applied, closer>>
  BY DEF ChannelInv, SenderReceives, Sends, SendFails, SenderStops
<1>2. /\ sent \in Seq(AnswerRecord) /\ responses \in Seq(AnswerRecord) /\ sender.response \in AnswerRecord
      /\ sender.at \in {"receive", "send", "done"} /\ NoAnswer \in AnswerRecord
  BY <1>1 DEF ChannelTypes, NoAnswer, Answer, AnswerRecord, NoRequest
<1>3. closer' = "returned" => runner.at = "done" /\ sender'.at = "done"
  BY <1>1 DEF ChannelInv, SenderReceives, Sends, SendFails, SenderStops
<1>4. CASE SenderReceives
  <2>1. responses # <<>> /\ Head(responses) \in AnswerRecord /\ Tail(responses) \in Seq(AnswerRecord)
    BY <1>2, <1>4, HeadTailProperties DEF SenderReceives
  <2>2. ChannelTypes'
    BY <1>1, <1>4, <2>1 DEF ChannelTypes, SenderReceives
  <2>3. Written' = Written /\ cancelled' = cancelled
    BY <1>1, <1>4, WrittenStays DEF SenderReceives
  <2> QED
    BY <1>1, <1>3, <2>2, <2>3, QuietChannel
<1>5. CASE Sends
  <2>1. Append(sent, sender.response) \in Seq(AnswerRecord)
    BY <1>2, AppendProperties
  <2>2. ChannelTypes'
    BY <1>1, <1>2, <1>5, <2>1 DEF ChannelTypes, Sends
  <2>3. Written' = Written /\ cancelled' = cancelled
    BY <1>1, <1>5, WrittenStays DEF Sends
  <2> QED
    BY <1>1, <1>3, <2>2, <2>3, QuietChannel
<1>6. CASE SendFails
  <2>1. ChannelTypes' /\ cancelled'
    BY <1>1, <1>2, <1>6 DEF ChannelTypes, SendFails, StopAndClose
  <2> QED
    BY <1>1, <1>3, <1>6, <2>1, WrittenLoses, QuietChannel
<1>7. CASE SenderStops
  <2>1. ChannelTypes' /\ cancelled'
    BY <1>1, <1>2, <1>7 DEF ChannelTypes, SenderStops
  <2>2. Written' = Written
    BY <1>7 DEF SenderStops, Written
  <2> QED
    BY <1>1, <1>3, <2>1, <2>2, QuietChannel
<1> QED
  BY <1>4, <1>5, <1>6, <1>7

\* Every step keeps the invariant.
LEMMA ChannelInvStep ==
  ASSUME ChannelInv, [ControlNext]_controlVars
  PROVE  ChannelInv'
<1>1. ASSUME UNCHANGED <<arrived, queue, runner, responses, sender, sent, applied>>,
             cancelled' = cancelled \/ cancelled',
             closer' = "returned" => runner.at = "done" /\ sender'.at = "done"
      PROVE  ChannelInv'
  <2>1. Written' = Written
    BY <1>1 DEF Written
  <2>2. ChannelTypes'
    BY <1>1 DEF ChannelInv, ChannelTypes
  <2> QED
    BY <1>1, <2>1, <2>2, QuietChannel
<1>2. CASE UNCHANGED controlVars
  <2>1. /\ UNCHANGED <<arrived, queue, runner, responses, sender, sent, applied>>
        /\ cancelled' = cancelled /\ closer' = closer
    BY <1>2 DEF controlVars
  <2> QED
    BY <1>1, <2>1 DEF ChannelInv
<1>3. CASE ChannelEnds \/ CloseReceiver \/ ReceiverClosed
  <2>1. /\ UNCHANGED <<arrived, queue, runner, responses, sender, sent, applied>>
        /\ cancelled' = cancelled \/ cancelled'
        /\ closer' = "returned" => runner.at = "done" /\ sender'.at = "done"
    BY <1>3 DEF ChannelEnds, CloseReceiver, ReceiverClosed, StopAndClose, ChannelInv
  <2> QED
    BY <1>1, <2>1
<1>4. CASE OnMessage
  BY <1>4, MessageArrives, MessageRefused
<1> QED
  BY <1>2, <1>3, <1>4, CommandTaken, CommandMoves, CommandAnswered, RunnerStops, SenderKeeps DEF ControlNext

\* The invariant holds in every run.
LEMMA ChannelInvHolds == ControlSpec => []ChannelInv
<1>1. ControlInit => ChannelInv
  <2> SUFFICES ASSUME ControlInit
               PROVE  ChannelInv
    OBVIOUS
  <2>1. /\ arrived = 0 /\ queue = <<>> /\ applied = <<>> /\ closer = "none"
        /\ runner.for = NoRequest /\ runner.at = "receive" /\ sender.at = "receive"
    BY DEF ControlInit
  <2>2. PICK ws : ws = Written
    OBVIOUS
  <2>3. ws = <<>>
    BY <2>2 DEF ControlInit, Written
  <2>4. /\ \A S : <<>> \in Seq(S)
        /\ Len(<<>>) = 0 /\ 1 .. Len(<<>>) = {}
    OBVIOUS
  <2>5. ChannelTypes
    BY <2>4 DEF ControlInit, ChannelTypes, NoAnswer, Answer, AnswerRecord, NoRequest
  <2>6. Refuses(ws) = {} /\ Handles(ws) = {}
    BY <2>3, <2>4 DEF Refuses, Handles
  <2>7. CommandsInOrder(arrived, queue, runner, applied)
    BY <2>1, <2>4 DEF CommandsInOrder
  <2>8. RefusalsTrue(arrived, queue, runner, applied, ws)
    BY <2>6 DEF RefusalsTrue
  <2>9. AllThere(arrived, queue, runner, ws)
    BY <2>1, <2>3, <2>4, <2>6 DEF AllThere
  <2> QED
    BY <2>1, <2>2, <2>5, <2>7, <2>8, <2>9 DEF ChannelInv
<1> QED
  BY <1>1, ChannelInvStep, PTL DEF ControlSpec

\* While the channel lives every message of the client is queued, in hand or
\* answered, once, the accepted ones in their order; no command that was answered as
\* unavailable is carried out; and a close that returned leaves none in hand: for any
\* number of messages and any room in the queue and the buffer
\* (webrtc/control.go:119, 170).
THEOREM RequestsAccountedHolds == ControlSpec => []RequestsAccounted
<1>1. ChannelInv => RequestsAccounted
  <2> SUFFICES ASSUME ChannelInv
               PROVE  RequestsAccounted
    OBVIOUS
  <2>1. /\ ChannelTypes /\ arrived \in Nat /\ queue \in Seq(Nat \ {NoRequest}) /\ applied \in Seq(Nat)
        /\ runner.for \in Nat
    BY DEF ChannelInv, ChannelTypes
  <2>2. PICK ws : ws = Written
    OBVIOUS
  <2>3. ws \in Seq(AnswerRecord) /\ DOMAIN ws = 1 .. Len(ws) /\ Len(ws) \in Nat
    BY <2>1, <2>2, WrittenTypes, LenProperties
  <2>4. Overloaded = Refuses(ws) /\ Handled = Handles(ws)
    BY <2>2, <2>3 DEF Overloaded, Handled, Refuses, Handles
  <2>5. /\ CommandsInOrder(arrived, queue, runner, applied)
        /\ RefusalsTrue(arrived, queue, runner, applied, ws)
        /\ ~cancelled => AllThere(arrived, queue, runner, ws)
        /\ closer = "returned" => runner.at = "done" /\ sender.at = "done"
    BY <2>2 DEF ChannelInv
  <2>6. /\ DOMAIN applied = 1 .. Len(applied) /\ Range(applied) = {applied[k] : k \in 1 .. Len(applied)}
    <3>1. DOMAIN applied = 1 .. Len(applied)
      BY <2>1
    <3> QED
      BY <2>1, <3>1, RangeEquality
  <2>7. AppliedInOrder
    BY <2>4, <2>5, <2>6 DEF AppliedInOrder, Increasing, CommandsInOrder, RefusalsTrue
  <2>8. ASSUME ~cancelled
        PROVE  /\ HandledInOrder /\ Increasing(Behind)
               /\ \A done \in Handled, r \in Range(Behind) : done < r
               /\ Overloaded \cap (Handled \cup Range(Behind)) = {}
               /\ Overloaded \cup Handled \cup Range(Behind) = 1..arrived
               /\ Len(Written) + Len(Behind) = arrived
    <3>1. AllThere(arrived, queue, runner, ws)
      BY <2>5, <2>8
    <3>2. HandledInOrder
      BY <2>2, <2>3, <3>1 DEF HandledInOrder, AllThere
    <3>3. PICK b : b = Behind
      OBVIOUS
    <3>4. PICK n : n = IF runner.for = NoRequest THEN 0 ELSE 1
      OBVIOUS
    <3>5. /\ b \in Seq(Nat) /\ Len(b) = n + Len(queue) /\ n \in {0, 1} /\ Len(queue) \in Nat
          /\ n = 1 => runner.for # NoRequest /\ b[1] = runner.for
          /\ \A i \in 1 .. Len(queue) : b[i + n] = queue[i]
      <4>1. PICK hand : hand = InHand
        OBVIOUS
      <4>2. /\ hand \in Seq(Nat) /\ Len(hand) = n /\ n \in {0, 1}
            /\ n = 1 => runner.for # NoRequest /\ hand[1] = runner.for
        BY <2>1, <3>4, <4>1 DEF InHand
      <4>3. queue \in Seq(Nat) /\ Len(queue) \in Nat
        BY <2>1, LenProperties
      <4>4. /\ hand \o queue \in Seq(Nat) /\ Len(hand \o queue) = Len(hand) + Len(queue)
            /\ \A i \in 1 .. Len(hand) + Len(queue) : (hand \o queue)[i] = IF i <= Len(hand) THEN hand[i] ELSE queue[i - Len(hand)]
        BY <4>2, <4>3, ConcatProperties
      <4>5. b = hand \o queue
        BY <3>3, <4>1 DEF Behind
      <4>6. ASSUME NEW i \in 1 .. Len(queue)
            PROVE  b[i + n] = queue[i]
        <5>1. PICK k : k = i + n
          OBVIOUS
        <5>2. k \in 1 .. Len(hand) + Len(queue) /\ ~(k <= Len(hand)) /\ k - Len(hand) = i
          BY <4>2, <4>3, <5>1
        <5> QED
          BY <4>4, <4>5, <5>1, <5>2
      <4>7. n = 1 => b[1] = runner.for
        BY <4>2, <4>3, <4>4, <4>5
      <4> QED
        BY <4>2, <4>3, <4>4, <4>5, <4>6, <4>7
    <3>6. DOMAIN b = 1 .. Len(b) /\ Range(b) = {b[i] : i \in 1 .. Len(b)}
      <4>1. DOMAIN b = 1 .. Len(b)
        BY <3>5
      <4> QED
        BY <3>5, <4>1, RangeEquality
    <3>7. \A i \in 1 .. Len(b) : \/ n = 1 /\ i = 1 /\ b[i] = runner.for
                                 \/ i - n \in 1 .. Len(queue) /\ b[i] = queue[i - n]
      <4> SUFFICES ASSUME NEW i \in 1 .. Len(b), ~(n = 1 /\ i = 1)
                   PROVE  i - n \in 1 .. Len(queue) /\ b[i] = queue[i - n]
        BY <3>5
      <4>1. PICK k : k = i - n
        OBVIOUS
      <4>2. k \in 1 .. Len(queue) /\ k + n = i
        BY <3>5, <4>1
      <4> QED
        BY <3>5, <4>1, <4>2
    <3>8. Increasing(b)
      <4> SUFFICES ASSUME NEW i \in 1 .. Len(b), NEW j \in 1 .. Len(b), i < j
                   PROVE  b[i] < b[j]
        BY <3>6 DEF Increasing
      <4>1. PICK k : k = i - n
        OBVIOUS
      <4>2. PICK l : l = j - n
        OBVIOUS
      <4>3. l \in 1 .. Len(queue) /\ b[j] = queue[l]
        BY <3>5, <3>7, <4>2
      <4>4. CASE n = 1 /\ i = 1 /\ b[i] = runner.for
        BY <2>5, <3>5, <4>3, <4>4 DEF CommandsInOrder
      <4>5. CASE k \in 1 .. Len(queue) /\ b[i] = queue[k]
        <5>1. k < l
          BY <3>5, <4>1, <4>2
        <5> QED
          BY <2>5, <4>3, <4>5, <5>1 DEF CommandsInOrder
      <4> QED
        BY <3>7, <4>1, <4>4, <4>5
    <3>9. \A r \in Range(b) : \/ runner.for # NoRequest /\ r = runner.for
                              \/ \E i \in 1 .. Len(queue) : r = queue[i]
      BY <3>5, <3>6, <3>7
    <3>10. runner.for # NoRequest => runner.for \in Range(b)
      <4>1. runner.for # NoRequest => n = 1 /\ 1 \in 1 .. Len(b)
        BY <3>4, <3>5
      <4> QED
        BY <3>5, <3>6, <4>1
    <3>11. \A i \in 1 .. Len(queue) : queue[i] \in Range(b)
      <4>1. \A i \in 1 .. Len(queue) : i + n \in 1 .. Len(b)
        BY <3>5
      <4> QED
        BY <3>5, <3>6, <4>1
    <3>12. \A done \in Handled, r \in Range(b) : done < r
      BY <2>4, <3>1, <3>9 DEF AllThere
    <3>13. Overloaded \cap (Handled \cup Range(b)) = {}
      BY <2>4, <2>5, <3>1, <3>9 DEF AllThere, RefusalsTrue
    <3>14. ASSUME NEW r \in 1 .. arrived
           PROVE  r \in Overloaded \cup Handled \cup Range(b)
      <4>1. r # NoRequest
        BY <2>1 DEF NoRequest
      <4>2. \/ r \in Refuses(ws) \/ r \in Handles(ws) \/ r = runner.for
            \/ \E i \in 1 .. Len(queue) : queue[i] = r
        BY <3>1 DEF AllThere
      <4>3. CASE r = runner.for
        BY <3>10, <4>1, <4>3
      <4>4. CASE \E i \in 1 .. Len(queue) : queue[i] = r
        BY <3>11, <4>4
      <4> QED
        BY <2>4, <4>2, <4>3, <4>4
    <3>15. \A r \in Overloaded \cup Handled \cup Range(b) : r \in 1 .. arrived
      <4>1. \A r \in Overloaded \cup Handled : r \in Nat /\ r # NoRequest /\ r <= arrived
        BY <2>1, <2>2, <2>4, <2>5, <3>1, AnswersNumbered DEF AllThere, RefusalsTrue
      <4>2. \A r \in Range(b) : r \in Nat /\ r # NoRequest /\ r <= arrived
        BY <2>1, <2>5, <3>9 DEF CommandsInOrder
      <4> QED
        BY <2>1, <4>1, <4>2 DEF NoRequest
    <3>16. Len(ws) + Len(b) = arrived
      <4>1. Len(ws) + n + Len(queue) = arrived
        BY <3>1, <3>4 DEF AllThere
      <4> QED
        BY <2>3, <3>5, <4>1
    <3>17. Overloaded \cup Handled \cup Range(b) = 1 .. arrived
      BY <3>14, <3>15
    <3> QED
      BY <2>2, <3>2, <3>3, <3>8, <3>12, <3>13, <3>16, <3>17
  <2> QED
    BY <2>5, <2>7, <2>8 DEF RequestsAccounted, Accounted, ClosedIdle
<1> QED
  BY <1>1, ChannelInvHolds, PTL
=============================================================================
