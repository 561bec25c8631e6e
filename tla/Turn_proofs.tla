----------------------------- MODULE Turn_proofs -----------------------------
(* Proofs about the turns of a session and the phrases spoken of them.  Turns: *)
(* what was accepted for settlement is settled before its runtime is gone, and *)
(* every provider call is billed once; the invariant is stated turn by turn,   *)
(* over the values of talk, phrase and bill, so that a step that touches one   *)
(* turn has one turn to prove, and only the queues relate the turns to each    *)
(* other.  What a turn says follows its text, each piece once: the live phrases *)
(* spoke the pieces up to some piece, and the settlement the rest.  Phrases: they *)
(* are heard in their order, and an utterance that was cut off falls silent; the *)
(* invariant is stated utterance by utterance, over the scheduler's queue and  *)
(* running task.  The page that shows the turns: no settled turn keeps a       *)
(* subtitle and no final is lost; the invariant relates the page to the messages *)
(* still in the channel.                                                       *)
EXTENDS TurnPipeline, PhrasePlayback, VoiceScreen, FiniteSetTheorems, SequenceTheorems,
        WellFoundedInduction, TLAPS

TalkFields == {"at", "end", "epoch", "said", "taken", "late", "attached", "next", "failed", "left",
               "todo", "rest", "wait", "spoken", "revised", "overtaken", "aloud", "dropped"}
PhraseRecord == [at : {"none", "calling", "answered", "registered", "done", "tail"}, ok : BOOLEAN]
BillRecord == [spent : SUBSET Int, merged : SUBSET Int, owed : SUBSET Int,
               billed : SUBSET Int, twice : SUBSET Int]

\* The turns whose bill is open: none of their calls is charged yet.
OpenStages == {"new", "open", "final", "queued", "waiting"}
ChargedWhole(k) == k.at = "speaking" \/ (k.at = "closed" /\ k.end \in {"discarded", "committed", "superseded"})

TalkOK(k) ==
    /\ DOMAIN k = TalkFields
    /\ k.said \in 0 .. MaxSegments /\ k.taken \in 0 .. k.said /\ k.late \subseteq 1 .. k.taken
    /\ k.attached \in BOOLEAN
    /\ k.at \in {"final", "queued", "waiting"} => k.said > 0
    /\ k.at = "new" => ~k.attached /\ k.taken = 0
    /\ k.at \in OpenStages => ~k.revised
    /\ k.at \in {"new", "open", "final"} => ~k.overtaken
    /\ k.at \in {"queued", "waiting"} => k.taken = k.said /\ (~k.overtaken => k.late = {})
    /\ k.at \notin OpenStages => ~k.attached
    /\ k.at = "translating" => \A c \in k.todo : c \in Int /\ c <= 0
    /\ k.at = "settled" => k.end \in {"committed", "superseded"}
    /\ k.at = "speaking" => k.end = "committed"
    /\ k.end # "lost"

\* A phrase is published once it is taken, unless its timer is late.
PhrasesOK(k, p) ==
    /\ p \in [Segments -> PhraseRecord] /\ \A n \in Segments : p[n].at = "none" => p[n] = NoPhrase
    /\ k.at \in OpenStages /\ ~k.attached => \A n \in Segments : p[n].at = "none"
    /\ k.at \in OpenStages => \A n \in Segments : n > k.taken => p[n] = NoPhrase
    /\ k.attached /\ ~k.overtaken => \A n \in 1 .. k.taken : n \in k.late \/ p[n].at # "none"

\* A call of a live phrase is charged once the phrase is done, one of the
\* settlement with its turn, and none is charged twice.
BillOK(k, p, b) ==
    /\ b \in BillRecord /\ b.twice = {}
    /\ (b.owed \cup b.merged) \cap b.billed = {} /\ b.owed \cap b.merged = {}
    /\ b.owed \subseteq Segments
    /\ \A c \in b.owed \cup b.merged \cup b.billed : c \in Segments => p[c].at = "done"
    /\ \A c \in b.spent : c \in Segments => p[c].at \in {"answered", "registered", "done"}
    /\ k.at \in OpenStages => b.merged = {} /\ b.owed = {} /\ b.billed = {} /\ b.spent \subseteq Segments
    /\ k.at \in {"translating", "settled"} => b.billed \subseteq Segments
    /\ ChargedWhole(k) => b.merged = {}
    /\ (k.at \in {"translating", "settled"} \/ ChargedWhole(k)) /\ ~k.revised /\ ~k.overtaken =>
          \A c \in b.spent : (c \in Segments => p[c].at = "done") =>
              c \in b.merged \cup b.owed \cup b.billed

TurnOK(k, p, b) == TalkOK(k) /\ PhrasesOK(k, p) /\ BillOK(k, p, b)

\* A turn is where its stage says, and nowhere twice.
QueuesOK ==
    /\ capture \in TurnIds \cup {0}
    /\ capture # 0 => talk[capture].at = "open" /\ capture <= Len(script)
    /\ finals \in Seq(TurnIds) /\ settling \in Seq(TurnIds)
    /\ \A i \in DOMAIN finals : talk[finals[i]].at = "final"
    /\ \A i, j \in DOMAIN finals : finals[i] = finals[j] => i = j
    /\ \A i \in DOMAIN settling : talk[settling[i]].at = "queued"
    /\ \A i, j \in DOMAIN settling : settling[i] = settling[j] => i = j
    /\ loop = "gone" => capture = 0 /\ Unresolved = {} /\ (finals = <<>> \/ worker = "dead")

TurnsOK ==
    /\ DOMAIN talk = TurnIds /\ DOMAIN phrase = TurnIds /\ DOMAIN bill = TurnIds
    /\ \A t \in TurnIds : TurnOK(talk[t], phrase[t], bill[t])

TurnInv == script \in Scripts /\ TurnsOK /\ QueuesOK

\* A step that touches one turn keeps the invariant of each.
LEMMA TurnMoves ==
  ASSUME TurnsOK, NEW t \in TurnIds, NEW r, NEW p, NEW b, TurnOK(r, p, b),
         DOMAIN talk' = TurnIds, talk'[t] = r, \A u \in TurnIds \ {t} : talk'[u] = talk[u],
         DOMAIN phrase' = TurnIds, phrase'[t] = p, \A u \in TurnIds \ {t} : phrase'[u] = phrase[u],
         DOMAIN bill' = TurnIds, bill'[t] = b, \A u \in TurnIds \ {t} : bill'[u] = bill[u]
  PROVE  TurnsOK'
<1>1. ASSUME NEW u \in TurnIds PROVE TurnOK(talk'[u], phrase'[u], bill'[u])
  <2>1. CASE u = t
    BY <2>1
  <2>2. CASE u # t
    BY <2>2 DEF TurnsOK
  <2> QED BY <2>1, <2>2
<1> QED BY <1>1 DEF TurnsOK

\* A step that leaves the queues alone and takes no turn out of them.
LEMMA QueuesStay ==
  ASSUME TurnInv, NEW t \in TurnIds, UNCHANGED <<script, capture, finals, settling, loop, worker>>,
         \A u \in TurnIds \ {t} : talk'[u] = talk[u],
         \/ talk'[t].at = talk[t].at
         \/ /\ talk[t].at \notin {"open", "final", "queued"}
            /\ talk'[t].at \in {"queued", "waiting", "translating"} =>
                  talk[t].at \in {"queued", "waiting", "translating"}
  PROVE  QueuesOK'
<1>1. \A u \in TurnIds : talk'[u].at # talk[u].at => u = t
  OBVIOUS
<1>2. \A i \in DOMAIN finals : finals[i] \in TurnIds
  BY DEF TurnInv, QueuesOK
<1>3. \A i \in DOMAIN settling : settling[i] \in TurnIds
  BY DEF TurnInv, QueuesOK
<1>4. \A i \in DOMAIN finals' : talk'[finals'[i]].at = "final"
  BY <1>1, <1>2 DEF TurnInv, QueuesOK
<1>5. \A i \in DOMAIN settling' : talk'[settling'[i]].at = "queued"
  BY <1>1, <1>3 DEF TurnInv, QueuesOK
<1>6. Unresolved' \subseteq Unresolved
  BY <1>1 DEF Unresolved
<1>7. capture' # 0 => talk'[capture'].at = "open"
  BY <1>1 DEF TurnInv, QueuesOK
<1>8. /\ capture' \in TurnIds \cup {0} /\ (capture' # 0 => capture' <= Len(script'))
      /\ finals' \in Seq(TurnIds) /\ settling' \in Seq(TurnIds)
      /\ \A i, j \in DOMAIN finals' : finals'[i] = finals'[j] => i = j
      /\ \A i, j \in DOMAIN settling' : settling'[i] = settling'[j] => i = j
      /\ loop' = "gone" => capture' = 0 /\ Unresolved = {} /\ (finals' = <<>> \/ worker' = "dead")
  BY DEF TurnInv, QueuesOK
<1> QED BY <1>4, <1>5, <1>6, <1>7, <1>8 DEF QueuesOK

\* Every initial state satisfies the invariant of the turns.
LEMMA TurnInitInv == TurnsInit => TurnInv
<1> SUFFICES ASSUME TurnsInit PROVE TurnInv
  OBVIOUS
<1>1. ASSUME NEW t \in TurnIds PROVE TurnOK(talk[t], phrase[t], bill[t])
  <2>1. /\ talk[t].at = "new" /\ talk[t].end = "none" /\ talk[t].said = 0 /\ talk[t].taken = 0
        /\ talk[t].late = {} /\ talk[t].attached \in BOOLEAN /\ ~talk[t].attached
        /\ ~talk[t].revised /\ ~talk[t].overtaken /\ DOMAIN talk[t] = TalkFields
    BY <1>1 DEF TurnsInit, TalkFields
  <2>2. phrase[t] = [n \in Segments |-> NoPhrase]
    BY <1>1 DEF TurnsInit
  <2>3. bill[t] = [spent |-> {}, merged |-> {}, owed |-> {}, billed |-> {}, twice |-> {}]
    BY <1>1 DEF TurnsInit
  <2>4. TalkOK(talk[t])
    <3>1. MaxSegments \in Nat
      BY TurnsAssumption
    <3> QED BY <2>1, <3>1 DEF TalkOK, OpenStages
  <2>5. PhrasesOK(talk[t], phrase[t])
    BY <2>1, <2>2 DEF PhrasesOK, NoPhrase, PhraseRecord
  <2>6. BillOK(talk[t], phrase[t], bill[t])
    BY <2>1, <2>2, <2>3 DEF BillOK, BillRecord, ChargedWhole, OpenStages
  <2> QED BY <2>4, <2>5, <2>6 DEF TurnOK
<1>2. TurnsOK
  BY <1>1 DEF TurnsOK, TurnsInit
<1>3. QueuesOK
  BY DEF QueuesOK, TurnsInit
<1> QED BY <1>2, <1>3 DEF TurnInv, TurnsInit

\* Records of a turn that differ in some fields only.
Same(r, k, F) == DOMAIN r = TalkFields /\ \A f \in TalkFields \ F : r[f] = k[f]

\* The constants a step starts from.
LEMMA TurnParts ==
  ASSUME TurnInv, NEW t \in TurnIds
  PROVE  /\ TurnsOK /\ TalkOK(talk[t]) /\ PhrasesOK(talk[t], phrase[t]) /\ BillOK(talk[t], phrase[t], bill[t])
         /\ DOMAIN talk = TurnIds /\ DOMAIN phrase = TurnIds /\ DOMAIN bill = TurnIds
         /\ MaxSegments \in Nat
BY TurnsAssumption DEF TurnInv, TurnsOK, TurnOK

-----------------------------------------------------------------------------
\* A new turn receives audio.
LEMMA StartAudioInv == ASSUME TurnInv, NEW t \in TurnIds, StartAudio(t) PROVE TurnInv'
<1>1. PICK route \in BOOLEAN : talk' = [talk EXCEPT ![t].at = "open", ![t].epoch = epoch, ![t].attached = route]
  BY DEF StartAudio
<1>2. PICK k, p, b : k = talk[t] /\ p = phrase[t] /\ b = bill[t]
  OBVIOUS
<1>3. PICK e : e = epoch
  OBVIOUS
<1> DEFINE r == [k EXCEPT !.at = "open", !.epoch = e, !.attached = route]
<1>4. talk' = [talk EXCEPT ![t] = r]
  BY <1>1, <1>2, <1>3
<1>5. TalkOK(k) /\ PhrasesOK(k, p) /\ BillOK(k, p, b) /\ DOMAIN talk = TurnIds /\ k.at = "new"
  BY <1>2, TurnParts DEF StartAudio
<1>6. r.at = "open" /\ r.attached = route /\ Same(r, k, {"at", "epoch", "attached"})
  BY <1>5 DEF TalkOK, TalkFields, Same
<1> HIDE DEF r
<1>7. /\ r.said = k.said /\ r.taken = k.taken /\ r.late = k.late /\ r.revised = k.revised
      /\ r.overtaken = k.overtaken /\ r.end = k.end /\ DOMAIN r = TalkFields
  BY <1>6 DEF Same, TalkFields
<1>8. TalkOK(r)
  BY <1>5, <1>6, <1>7 DEF TalkOK, OpenStages
<1>9. PhrasesOK(r, p)
  BY <1>5, <1>6, <1>7 DEF PhrasesOK, OpenStages, TalkOK
<1>10. BillOK(r, p, b)
  BY <1>5, <1>6, <1>7 DEF BillOK, OpenStages, ChargedWhole
<1>11. TurnsOK'
  BY <1>2, <1>4, <1>8, <1>9, <1>10, TurnMoves, TurnParts DEF TurnOK, StartAudio
<1>12. QueuesOK'
  <2>1. \A u \in TurnIds \ {t} : talk'[u] = talk[u]
    BY <1>4, TurnParts
  <2>2. talk'[t].at = "open" /\ talk[t].at = "new"
    BY <1>2, <1>4, <1>5, <1>6, TurnParts
  <2>3. /\ capture' = t /\ t <= Len(script') /\ loop' = "running"
        /\ finals' = finals /\ settling' = settling
    BY DEF StartAudio
  <2>4. \A i \in DOMAIN finals : finals[i] \in TurnIds /\ finals[i] # t
    BY <2>2 DEF TurnInv, QueuesOK
  <2>5. \A i \in DOMAIN settling : settling[i] \in TurnIds /\ settling[i] # t
    BY <2>2 DEF TurnInv, QueuesOK
  <2> QED BY <2>1, <2>2, <2>3, <2>4, <2>5 DEF TurnInv, QueuesOK
<1> QED BY <1>11, <1>12 DEF TurnInv, StartAudio

\* One more segment is said.
LEMMA SayInv == ASSUME TurnInv, NEW t \in TurnIds, Say(t) PROVE TurnInv'
<1>2. PICK k, p, b : k = talk[t] /\ p = phrase[t] /\ b = bill[t]
  OBVIOUS
<1> DEFINE r == [k EXCEPT !.said = @ + 1]
<1>4. talk' = [talk EXCEPT ![t] = r]
  BY <1>2 DEF Say
<1>5. TalkOK(k) /\ PhrasesOK(k, p) /\ BillOK(k, p, b) /\ DOMAIN talk = TurnIds /\ MaxSegments \in Nat
  BY <1>2, TurnParts
<1>6. r.said = k.said + 1 /\ Same(r, k, {"said"})
  BY <1>5 DEF TalkOK, TalkFields, Same
<1> HIDE DEF r
<1>7. /\ r.at = k.at /\ r.taken = k.taken /\ r.late = k.late /\ r.revised = k.revised /\ r.todo = k.todo
      /\ r.overtaken = k.overtaken /\ r.end = k.end /\ DOMAIN r = TalkFields /\ r.attached = k.attached
  BY <1>6 DEF Same, TalkFields
<1>8. k.at = "open" /\ t <= Len(script) /\ k.said < script[t]
  <2>1. t # 0 /\ capture = t /\ k.said < script[t]
    BY <1>2 DEF TurnIds, Say
  <2> QED BY <1>2, <2>1 DEF TurnInv, QueuesOK
<1>9. script[t] \in Nat /\ script[t] <= MaxSegments
  <2>1. script \in Scripts /\ t \in DOMAIN script /\ script \in Seq(Nat)
    BY <1>8, TurnsAssumption DEF TurnInv, TurnIds
  <2> QED BY <2>1, TurnsAssumption
<1>10. TalkOK(r)
  BY <1>5, <1>6, <1>7, <1>8, <1>9 DEF TalkOK, OpenStages
<1>11. PhrasesOK(r, p)
  BY <1>5, <1>7 DEF PhrasesOK
<1>12. BillOK(r, p, b)
  BY <1>5, <1>7 DEF BillOK, ChargedWhole
<1>13. /\ DOMAIN talk' = TurnIds /\ talk'[t] = r
       /\ \A u \in TurnIds \ {t} : talk'[u] = talk[u]
  BY <1>4, <1>5
<1>14. TurnsOK'
  BY <1>2, <1>10, <1>11, <1>12, <1>13, TurnMoves, TurnParts DEF TurnOK, Say
<1>15. QueuesOK'
  BY <1>2, <1>7, <1>13, QueuesStay DEF Say
<1> QED BY <1>14, <1>15 DEF TurnInv, Say

\* What publishing phrase n does to the phrases of a turn.
Published(k, p, q, n) ==
    /\ q \in [Segments -> PhraseRecord] /\ \A m \in Segments \ {n} : q[m] = p[m]
    /\ \/ q[n] = p[n] /\ ~(k.attached /\ p[n] = NoPhrase)
       \/ k.attached /\ p[n] = NoPhrase /\ q[n].at = "calling"

\* Only a phrase without a call is unpublished.
LEMMA PublishedKeeps ==
  ASSUME NEW k, NEW p, NEW q, NEW n \in Segments, PhrasesOK(k, p), Published(k, p, q, n)
  PROVE  q \in [Segments -> PhraseRecord] /\ \A m \in Segments : q[m].at = "none" => q[m] = NoPhrase
BY DEF Published, PhrasesOK

\* ObservePhraseSubtitle publishes the phrase it is given and no other.
LEMMA StablePublishes ==
  ASSUME TurnInv, NEW t \in TurnIds, NEW n \in Segments, Stable(t, n, "calling")
  PROVE  /\ DOMAIN phrase' = TurnIds /\ \A u \in TurnIds \ {t} : phrase'[u] = phrase[u]
         /\ Published(talk[t], phrase[t], phrase'[t], n)
<1>1. phrase[t] \in [Segments -> PhraseRecord] /\ DOMAIN phrase = TurnIds
  BY TurnParts DEF PhrasesOK
<1>2. CASE talk[t].attached /\ phrase[t][n] = NoPhrase
  <2>1. phrase' = [phrase EXCEPT ![t][n].at = "calling"]
    BY <1>2 DEF Stable, Attached
  <2>2. PICK p : p = phrase[t]
    OBVIOUS
  <2> DEFINE q == [p EXCEPT ![n] = [NoPhrase EXCEPT !.at = "calling"]]
  <2>3. phrase' = [phrase EXCEPT ![t] = q]
    BY <1>2, <2>1, <2>2
  <2>4. q \in [Segments -> PhraseRecord] /\ q[n].at = "calling" /\ \A m \in Segments \ {n} : q[m] = p[m]
    BY <1>1, <2>2 DEF PhraseRecord, NoPhrase
  <2> HIDE DEF q
  <2> QED BY <1>1, <1>2, <2>2, <2>3, <2>4 DEF Published
<1>3. CASE ~(talk[t].attached /\ phrase[t][n] = NoPhrase)
  <2>1. phrase' = phrase
    BY <1>3 DEF Stable, Attached
  <2> QED BY <1>1, <1>3, <2>1 DEF Published
<1> QED BY <1>2, <1>3

\* A published phrase is charged to nobody yet.
LEMMA PublishedBill ==
  ASSUME NEW k, NEW p, NEW q, NEW b, NEW n \in Segments, BillOK(k, p, b), PhrasesOK(k, p), Published(k, p, q, n)
  PROVE  BillOK(k, q, b)
<1>2. \A m \in Segments : p[m].at \in {"answered", "registered", "done"} => q[m] = p[m]
  BY DEF Published, NoPhrase
<1>3. \A m \in Segments : q[m].at = "done" => q[m] = p[m]
  BY DEF Published, NoPhrase
<1> QED BY <1>2, <1>3 DEF BillOK

\* A partial publishes the next phrase at once.
LEMMA ObservePhraseInv == ASSUME TurnInv, NEW t \in TurnIds, ObservePhrase(t) PROVE TurnInv'
<1>2. PICK k, p, q, b, n : k = talk[t] /\ p = phrase[t] /\ q = phrase'[t] /\ b = bill[t] /\ n = talk[t].taken + 1
  OBVIOUS
<1> DEFINE r == [k EXCEPT !.taken = n]
<1>4. talk' = [talk EXCEPT ![t] = r]
  BY <1>2 DEF ObservePhrase
<1>5. TalkOK(k) /\ PhrasesOK(k, p) /\ BillOK(k, p, b) /\ DOMAIN talk = TurnIds /\ MaxSegments \in Nat
  BY <1>2, TurnParts
<1>6. r.taken = n /\ Same(r, k, {"taken"})
  BY <1>5 DEF TalkOK, TalkFields, Same
<1> HIDE DEF r
<1>7. /\ r.at = k.at /\ r.said = k.said /\ r.late = k.late /\ r.revised = k.revised /\ r.todo = k.todo
      /\ r.overtaken = k.overtaken /\ r.end = k.end /\ DOMAIN r = TalkFields /\ r.attached = k.attached
  BY <1>6 DEF Same, TalkFields
<1>8. k.at \in {"open", "final"} /\ n = k.taken + 1 /\ n <= k.said
  BY <1>2 DEF ObservePhrase
<1>9. n \in Segments /\ n > k.taken
  BY <1>5, <1>8 DEF TalkOK, Segments
<1>10. TalkOK(r)
  BY <1>5, <1>6, <1>7, <1>8, <1>9 DEF TalkOK, OpenStages
<1>11. /\ DOMAIN phrase' = TurnIds /\ \A u \in TurnIds \ {t} : phrase'[u] = phrase[u]
       /\ Published(k, p, q, n)
  BY <1>2, <1>9, StablePublishes DEF ObservePhrase
<1>12. PhrasesOK(r, q)
  <2>1. p[n] = NoPhrase
    BY <1>5, <1>8, <1>9 DEF PhrasesOK, OpenStages
  <2>2. q \in [Segments -> PhraseRecord] /\ \A m \in Segments : q[m].at = "none" => q[m] = NoPhrase
    BY <1>5, <1>9, <1>11, PublishedKeeps
  <2>3. r.at \in OpenStages /\ ~r.attached => \A m \in Segments : q[m].at = "none"
    BY <1>5, <1>7, <1>11, <2>1 DEF PhrasesOK, Published, NoPhrase
  <2>4. r.at \in OpenStages => \A m \in Segments : m > r.taken => q[m] = NoPhrase
    BY <1>5, <1>6, <1>7, <1>8, <1>9, <1>11 DEF PhrasesOK, Published, TalkOK, Segments
  <2>5. r.attached /\ ~r.overtaken => \A m \in 1 .. r.taken : m \in r.late \/ q[m].at # "none"
    <3> SUFFICES ASSUME r.attached, ~r.overtaken, NEW m \in 1 .. r.taken PROVE m \in r.late \/ q[m].at # "none"
      OBVIOUS
    <3>1. CASE m = n
      BY <1>7, <1>11, <2>1, <3>1 DEF Published
    <3>2. CASE m # n
      <4>1. m \in 1 .. k.taken /\ m \in Segments
        BY <1>5, <1>6, <1>8, <3>2 DEF TalkOK, Segments
      <4> QED BY <1>5, <1>7, <1>11, <3>2, <4>1 DEF PhrasesOK, Published
    <3> QED BY <3>1, <3>2
  <2> QED BY <2>2, <2>3, <2>4, <2>5 DEF PhrasesOK
<1>13. BillOK(r, q, b)
  <2>1. BillOK(k, q, b)
    BY <1>5, <1>9, <1>11, PublishedBill
  <2> QED BY <1>7, <2>1 DEF BillOK, ChargedWhole
<1>14. /\ DOMAIN talk' = TurnIds /\ talk'[t] = r
       /\ \A u \in TurnIds \ {t} : talk'[u] = talk[u]
  BY <1>4, <1>5
<1>15. TurnsOK'
  BY <1>2, <1>10, <1>11, <1>12, <1>13, <1>14, TurnMoves, TurnParts DEF TurnOK, ObservePhrase
<1>16. QueuesOK'
  BY <1>2, <1>7, <1>14, QueuesStay DEF ObservePhrase
<1> QED BY <1>15, <1>16 DEF TurnInv, ObservePhrase

\* The stability timer takes the next phrase, and publishes it later.
LEMMA TimerTakesInv == ASSUME TurnInv, NEW t \in TurnIds, TimerTakes(t) PROVE TurnInv'
<1>2. PICK k, p, b, n : k = talk[t] /\ p = phrase[t] /\ b = bill[t] /\ n = talk[t].taken + 1
  OBVIOUS
<1> DEFINE r == [k EXCEPT !.taken = n, !.late = @ \cup {n}]
<1>4. talk' = [talk EXCEPT ![t] = r]
  BY <1>2 DEF TimerTakes
<1>5. TalkOK(k) /\ PhrasesOK(k, p) /\ BillOK(k, p, b) /\ DOMAIN talk = TurnIds /\ MaxSegments \in Nat
  BY <1>2, TurnParts
<1>6. r.taken = n /\ r.late = k.late \cup {n} /\ Same(r, k, {"taken", "late"})
  BY <1>5 DEF TalkOK, TalkFields, Same
<1> HIDE DEF r
<1>7. /\ r.at = k.at /\ r.said = k.said /\ r.revised = k.revised /\ r.todo = k.todo
      /\ r.overtaken = k.overtaken /\ r.end = k.end /\ DOMAIN r = TalkFields /\ r.attached = k.attached
  BY <1>6 DEF Same, TalkFields
<1>8. k.at \in {"open", "final"} /\ n = k.taken + 1 /\ n <= k.said
  BY <1>2 DEF TimerTakes
<1>10. TalkOK(r)
  BY <1>5, <1>6, <1>7, <1>8 DEF TalkOK, OpenStages
<1>12. PhrasesOK(r, p)
  <2>1. r.at \in OpenStages => \A m \in Segments : m > r.taken => p[m] = NoPhrase
    BY <1>5, <1>6, <1>7, <1>8 DEF PhrasesOK, TalkOK, Segments
  <2>2. \A m \in 1 .. r.taken : m # n => m \in 1 .. k.taken
    BY <1>5, <1>6, <1>8 DEF TalkOK
  <2> QED BY <1>5, <1>6, <1>7, <2>1, <2>2 DEF PhrasesOK
<1>13. BillOK(r, p, b)
  BY <1>5, <1>7 DEF BillOK, ChargedWhole
<1>14. /\ DOMAIN talk' = TurnIds /\ talk'[t] = r
       /\ \A u \in TurnIds \ {t} : talk'[u] = talk[u]
  BY <1>4, <1>5
<1>15. TurnsOK'
  BY <1>2, <1>10, <1>12, <1>13, <1>14, TurnMoves, TurnParts DEF TurnOK, TimerTakes
<1>16. QueuesOK'
  BY <1>2, <1>7, <1>14, QueuesStay DEF TimerTakes
<1> QED BY <1>15, <1>16 DEF TurnInv, TimerTakes

\* The phrase the timer took is published, maybe behind the final.
LEMMA TimerPublishesInv == ASSUME TurnInv, NEW t \in TurnIds, TimerPublishes(t) PROVE TurnInv'
<1>1. PICK n \in talk[t].late : talk' = [talk EXCEPT ![t].late = @ \ {n}] /\ Stable(t, n, "calling")
  BY DEF TimerPublishes
<1>2. PICK k, p, q, b : k = talk[t] /\ p = phrase[t] /\ q = phrase'[t] /\ b = bill[t]
  OBVIOUS
<1> DEFINE r == [k EXCEPT !.late = @ \ {n}]
<1>4. talk' = [talk EXCEPT ![t] = r]
  BY <1>1, <1>2
<1>5. TalkOK(k) /\ PhrasesOK(k, p) /\ BillOK(k, p, b) /\ DOMAIN talk = TurnIds /\ MaxSegments \in Nat
  BY <1>2, TurnParts
<1>6. r.late = k.late \ {n} /\ Same(r, k, {"late"})
  BY <1>5 DEF TalkOK, TalkFields, Same
<1> HIDE DEF r
<1>7. /\ r.at = k.at /\ r.said = k.said /\ r.taken = k.taken /\ r.revised = k.revised /\ r.todo = k.todo
      /\ r.overtaken = k.overtaken /\ r.end = k.end /\ DOMAIN r = TalkFields /\ r.attached = k.attached
  BY <1>6 DEF Same, TalkFields
<1>9. n \in Segments /\ n <= k.taken
  BY <1>1, <1>2, <1>5 DEF TalkOK, Segments
<1>10. TalkOK(r)
  BY <1>5, <1>6, <1>7 DEF TalkOK
<1>11. /\ DOMAIN phrase' = TurnIds /\ \A u \in TurnIds \ {t} : phrase'[u] = phrase[u]
       /\ Published(k, p, q, n)
  BY <1>1, <1>2, <1>9, StablePublishes
<1>12. PhrasesOK(r, q)
  <2>1. q \in [Segments -> PhraseRecord] /\ \A m \in Segments : q[m].at = "none" => q[m] = NoPhrase
    BY <1>5, <1>9, <1>11, PublishedKeeps
  <2>3. r.at \in OpenStages /\ ~r.attached => \A m \in Segments : q[m].at = "none"
    BY <1>5, <1>7, <1>11 DEF PhrasesOK, Published
  <2>4. r.at \in OpenStages => \A m \in Segments : m > r.taken => q[m] = NoPhrase
    BY <1>5, <1>7, <1>9, <1>11 DEF PhrasesOK, Published, TalkOK, Segments
  <2>5. r.attached /\ ~r.overtaken => \A m \in 1 .. r.taken : m \in r.late \/ q[m].at # "none"
    <3> SUFFICES ASSUME r.attached, ~r.overtaken, NEW m \in 1 .. r.taken PROVE m \in r.late \/ q[m].at # "none"
      OBVIOUS
    <3>0. m \in 1 .. k.taken /\ m \in Segments
      BY <1>5, <1>7 DEF TalkOK, Segments
    <3>1. CASE m = n
      <4>1. p[n].at = "none" => p[n] = NoPhrase
        BY <1>5, <1>9 DEF PhrasesOK
      <4>2. CASE p[n] = NoPhrase
        BY <1>7, <1>11, <3>1, <4>2 DEF Published
      <4>3. CASE p[n].at # "none"
        BY <1>9, <1>11, <3>1, <4>3 DEF Published, NoPhrase
      <4> QED BY <4>1, <4>2, <4>3
    <3>2. CASE m # n
      BY <1>5, <1>6, <1>7, <1>11, <3>0, <3>2 DEF PhrasesOK, Published
    <3> QED BY <3>1, <3>2
  <2> QED BY <2>1, <2>3, <2>4, <2>5 DEF PhrasesOK
<1>13. BillOK(r, q, b)
  <2>1. BillOK(k, q, b)
    BY <1>5, <1>9, <1>11, PublishedBill
  <2> QED BY <1>7, <2>1 DEF BillOK, ChargedWhole
<1>14. /\ DOMAIN talk' = TurnIds /\ talk'[t] = r
       /\ \A u \in TurnIds \ {t} : talk'[u] = talk[u]
  BY <1>4, <1>5
<1>15. TurnsOK'
  BY <1>2, <1>10, <1>11, <1>12, <1>13, <1>14, TurnMoves, TurnParts DEF TurnOK, TimerPublishes
<1>16. QueuesOK'
  BY <1>2, <1>7, <1>14, QueuesStay DEF TimerPublishes
<1> QED BY <1>15, <1>16 DEF TurnInv, TimerPublishes

-----------------------------------------------------------------------------
\* Nothing is queued twice.
Distinct(s) == \A i, j \in DOMAIN s : s[i] = s[j] => i = j

\* The head of a queue without repetitions is not in its tail.
LEMMA TailDistinct ==
  ASSUME NEW S, NEW s \in Seq(S), s # <<>>, Distinct(s)
  PROVE  /\ Tail(s) \in Seq(S) /\ Distinct(Tail(s)) /\ Head(s) \in S /\ 1 \in DOMAIN s /\ s[1] = Head(s)
         /\ \A i \in DOMAIN Tail(s) : i + 1 \in DOMAIN s /\ Tail(s)[i] = s[i + 1] /\ Tail(s)[i] # Head(s)
<1>1. Len(s) \in Nat /\ Len(s) >= 1 /\ DOMAIN s = 1 .. Len(s)
  OBVIOUS
<1>2. Tail(s) \in Seq(S) /\ Head(s) \in S /\ Head(s) = s[1] /\ DOMAIN Tail(s) = 1 .. Len(s) - 1
  BY <1>1
<1>3. \A i \in DOMAIN Tail(s) : Tail(s)[i] = s[i + 1] /\ i + 1 \in DOMAIN s /\ i \in Nat
  BY <1>1, <1>2
<1>4. Distinct(Tail(s))
  <2> SUFFICES ASSUME NEW i \in DOMAIN Tail(s), NEW j \in DOMAIN Tail(s), Tail(s)[i] = Tail(s)[j] PROVE i = j
    BY DEF Distinct
  <2>1. i + 1 = j + 1
    BY <1>3 DEF Distinct
  <2> QED BY <1>3, <2>1
<1>5. \A i \in DOMAIN Tail(s) : Tail(s)[i] # Head(s)
  <2> SUFFICES ASSUME NEW i \in DOMAIN Tail(s), Tail(s)[i] = Head(s) PROVE FALSE
    OBVIOUS
  <2>1. i + 1 = 1
    BY <1>1, <1>2, <1>3 DEF Distinct
  <2> QED BY <1>2, <2>1
<1> QED BY <1>1, <1>2, <1>3, <1>4, <1>5

\* A turn that is not queued yet is queued once.
LEMMA AppendDistinct ==
  ASSUME NEW S, NEW s \in Seq(S), Distinct(s), NEW e \in S, \A i \in DOMAIN s : s[i] # e
  PROVE  /\ Append(s, e) \in Seq(S) /\ Distinct(Append(s, e))
         /\ \A i \in DOMAIN Append(s, e) : (i \in DOMAIN s /\ Append(s, e)[i] = s[i]) \/ Append(s, e)[i] = e
<1>1. Len(s) \in Nat /\ DOMAIN s = 1 .. Len(s)
  OBVIOUS
<1>2. Append(s, e) \in Seq(S) /\ DOMAIN Append(s, e) = 1 .. Len(s) + 1 /\ Append(s, e)[Len(s) + 1] = e
  BY <1>1
<1>3. \A i \in DOMAIN Append(s, e) : (i \in DOMAIN s /\ Append(s, e)[i] = s[i]) \/ i = Len(s) + 1
  BY <1>1, <1>2
<1>4. Distinct(Append(s, e))
  BY <1>2, <1>3 DEF Distinct
<1> QED BY <1>2, <1>3, <1>4

\* The invariant of the queues, in terms of repetitions.
LEMMA QueueParts ==
  ASSUME TurnInv
  PROVE  /\ finals \in Seq(TurnIds) /\ Distinct(finals) /\ \A i \in DOMAIN finals : finals[i] \in TurnIds
         /\ settling \in Seq(TurnIds) /\ Distinct(settling) /\ \A i \in DOMAIN settling : settling[i] \in TurnIds
         /\ \A i \in DOMAIN finals : talk[finals[i]].at = "final"
         /\ \A i \in DOMAIN settling : talk[settling[i]].at = "queued"
<1>1. finals \in Seq(TurnIds) /\ settling \in Seq(TurnIds)
  BY DEF TurnInv, QueuesOK
<1>2. (\A i \in DOMAIN finals : finals[i] \in TurnIds) /\ (\A i \in DOMAIN settling : settling[i] \in TurnIds)
  BY <1>1
<1> QED BY <1>1, <1>2 DEF TurnInv, QueuesOK, Distinct

\* What a step must leave for the queues to be in order.
LEMMA QueuesHold ==
  ASSUME capture' \in TurnIds \cup {0}, capture' # 0 => talk'[capture'].at = "open" /\ capture' <= Len(script'),
         finals' \in Seq(TurnIds), Distinct(finals)', \A i \in DOMAIN finals' : talk'[finals'[i]].at = "final",
         settling' \in Seq(TurnIds), Distinct(settling)', \A i \in DOMAIN settling' : talk'[settling'[i]].at = "queued",
         loop' = "gone" => capture' = 0 /\ Unresolved' = {} /\ (finals' = <<>> \/ worker' = "dead")
  PROVE  QueuesOK'
BY DEF QueuesOK, Distinct

\* The final of the voice activity detection hands the turn to the worker.
LEMMA EndSpeechInv == ASSUME TurnInv, NEW t \in TurnIds, EndSpeech(t) PROVE TurnInv'
<1>2. PICK k, p, b : k = talk[t] /\ p = phrase[t] /\ b = bill[t]
  OBVIOUS
<1> DEFINE r == [k EXCEPT !.at = "final"]
<1>4. talk' = [talk EXCEPT ![t] = r]
  BY <1>2 DEF EndSpeech
<1>5. TalkOK(k) /\ PhrasesOK(k, p) /\ BillOK(k, p, b) /\ DOMAIN talk = TurnIds /\ MaxSegments \in Nat
  BY <1>2, TurnParts
<1>6. r.at = "final" /\ Same(r, k, {"at"})
  BY <1>5 DEF TalkOK, TalkFields, Same
<1> HIDE DEF r
<1>7. /\ r.said = k.said /\ r.taken = k.taken /\ r.late = k.late /\ r.revised = k.revised /\ r.todo = k.todo
      /\ r.overtaken = k.overtaken /\ r.end = k.end /\ DOMAIN r = TalkFields /\ r.attached = k.attached
  BY <1>6 DEF Same, TalkFields
<1>8. k.at = "open" /\ k.said > 0 /\ loop # "gone"
  <2>1. t # 0 /\ capture = t /\ k.said > 0
    BY <1>2 DEF TurnIds, EndSpeech
  <2> QED BY <1>2, <2>1 DEF TurnInv, QueuesOK
<1>9. TalkOK(r)
  BY <1>5, <1>6, <1>7, <1>8 DEF TalkOK, OpenStages
<1>10. PhrasesOK(r, p)
  BY <1>5, <1>6, <1>7, <1>8 DEF PhrasesOK, OpenStages
<1>11. BillOK(r, p, b)
  BY <1>5, <1>6, <1>7, <1>8 DEF BillOK, ChargedWhole, OpenStages
<1>12. /\ DOMAIN talk' = TurnIds /\ talk'[t] = r
       /\ \A u \in TurnIds \ {t} : talk'[u] = talk[u]
  BY <1>4, <1>5
<1>13. TurnsOK'
  BY <1>2, <1>9, <1>10, <1>11, <1>12, TurnMoves, TurnParts DEF TurnOK, EndSpeech
<1>14. QueuesOK'
  <2>1. /\ finals' = Append(finals, t) /\ settling' = settling /\ capture' = 0 /\ loop' # "gone"
    BY <1>8 DEF EndSpeech
  <2>2. \A i \in DOMAIN finals : finals[i] # t
    BY <1>2, <1>8, QueueParts
  <2>3. /\ Append(finals, t) \in Seq(TurnIds) /\ Distinct(Append(finals, t))
        /\ \A i \in DOMAIN Append(finals, t) :
              (i \in DOMAIN finals /\ Append(finals, t)[i] = finals[i]) \/ Append(finals, t)[i] = t
    BY <2>2, AppendDistinct, QueueParts
  <2>4. \A i \in DOMAIN finals' : talk'[finals'[i]].at = "final"
    <3> SUFFICES ASSUME NEW i \in DOMAIN Append(finals, t) PROVE talk'[Append(finals, t)[i]].at = "final"
      BY <2>1
    <3>1. CASE Append(finals, t)[i] = t
      BY <1>6, <1>12, <3>1
    <3>2. CASE i \in DOMAIN finals /\ Append(finals, t)[i] = finals[i]
      <4>1. finals[i] \in TurnIds \ {t} /\ talk[finals[i]].at = "final"
        BY <2>2, <3>2, QueueParts
      <4> QED BY <1>12, <3>2, <4>1
    <3> QED BY <2>3, <3>1, <3>2
  <2>5. \A i \in DOMAIN settling' : talk'[settling'[i]].at = "queued"
    BY <1>2, <1>8, <1>12, <2>1, QueueParts
  <2>6. Distinct(finals)' /\ Distinct(settling)'
    BY <2>1, <2>3, QueueParts
  <2> QED BY <2>1, <2>3, <2>4, <2>5, <2>6, QueueParts, QueuesHold
<1> QED BY <1>13, <1>14 DEF TurnInv, EndSpeech

\* An abandoned turn owes the calls of its finished phrases.
LEMMA DiscardedTurn ==
  ASSUME TurnInv, NEW t \in TurnIds, NEW end \in {"discarded", "broken"}, talk[t].at \in {"open", "final"},
         Discarded(t, end), phrase' = phrase
  PROVE  /\ TurnsOK' /\ talk'[t].at = "closed" /\ \A u \in TurnIds \ {t} : talk'[u] = talk[u]
<1>2. PICK k, p, b : k = talk[t] /\ p = phrase[t] /\ b = bill[t]
  OBVIOUS
<1> DEFINE r == [k EXCEPT !.at = "closed", !.end = end, !.attached = FALSE]
           due == {n \in b.spent : p[n].at = "done"}
           c == IF k.attached THEN [b EXCEPT !.owed = due] ELSE b
<1>4. talk' = [talk EXCEPT ![t] = r]
  BY <1>2 DEF Discarded
<1>5. TalkOK(k) /\ PhrasesOK(k, p) /\ BillOK(k, p, b) /\ DOMAIN talk = TurnIds /\ DOMAIN bill = TurnIds
  BY <1>2, TurnParts
<1>6. r.at = "closed" /\ r.end = end /\ ~r.attached /\ r.attached \in BOOLEAN /\ Same(r, k, {"at", "end", "attached"})
  BY <1>5 DEF TalkOK, TalkFields, Same
<1>7. /\ DOMAIN bill' = TurnIds /\ bill'[t] = c /\ \A u \in TurnIds \ {t} : bill'[u] = bill[u]
  <2>1. CASE k.attached
    <3>1. bill' = [bill EXCEPT ![t] = c]
      BY <1>2, <2>1 DEF Discarded, Attached
    <3> QED BY <1>5, <3>1
  <2>2. CASE ~k.attached
    <3>1. bill' = bill
      BY <1>2, <2>2 DEF Discarded, Attached
    <3> QED BY <1>2, <1>5, <2>2, <3>1
  <2> QED BY <2>1, <2>2
<1>8. k.at \in OpenStages /\ k.at \in {"open", "final"}
  BY <1>2 DEF OpenStages
<1>9. /\ b \in BillRecord /\ b.twice = {} /\ b.merged = {} /\ b.owed = {} /\ b.billed = {} /\ b.spent \subseteq Segments
      /\ \A n \in b.spent : p[n].at \in {"answered", "registered", "done"}
  BY <1>5, <1>8 DEF BillOK
<1>10. /\ c \in BillRecord /\ c.twice = {} /\ c.merged = {} /\ c.billed = {} /\ c.spent = b.spent
       /\ c.owed = due
  <2>1. due \in SUBSET Int
    BY <1>9 DEF BillRecord
  <2>2. CASE k.attached
    BY <1>9, <2>1, <2>2 DEF BillRecord
  <2>3. CASE ~k.attached
    <3>1. \A n \in b.spent : FALSE
      BY <1>5, <1>8, <1>9, <2>3 DEF PhrasesOK
    <3> QED BY <1>9, <2>3, <3>1
  <2> QED BY <2>2, <2>3
<1> HIDE DEF r, c
<1>11. /\ r.said = k.said /\ r.taken = k.taken /\ r.late = k.late /\ r.revised = k.revised /\ r.todo = k.todo
       /\ r.overtaken = k.overtaken /\ DOMAIN r = TalkFields
  BY <1>6 DEF Same, TalkFields
<1>12. TalkOK(r)
  BY <1>5, <1>6, <1>8, <1>11 DEF TalkOK, OpenStages
<1>13. PhrasesOK(r, p)
  BY <1>5, <1>6 DEF PhrasesOK, OpenStages
<1>14. BillOK(r, p, c)
  <2>1. due \subseteq Segments /\ due \subseteq b.spent /\ \A n \in due : p[n].at = "done"
    BY <1>9
  <2>2. r.at \notin OpenStages /\ r.at \notin {"translating", "settled"}
    BY <1>6 DEF OpenStages
  <2>3. \A n \in c.spent : (n \in Segments => p[n].at = "done") => n \in due
    BY <1>9, <1>10
  <2> HIDE DEF due
  <2> QED BY <1>9, <1>10, <2>1, <2>2, <2>3 DEF BillOK
<1>15. /\ DOMAIN talk' = TurnIds /\ talk'[t] = r /\ \A u \in TurnIds \ {t} : talk'[u] = talk[u]
  BY <1>4, <1>5
<1>17. TurnOK(r, p, c)
  BY <1>12, <1>13, <1>14 DEF TurnOK
<1> HIDE DEF due
<1>18. TurnsOK'
  BY <1>2, <1>7, <1>15, <1>17, TurnMoves, TurnParts
<1> QED BY <1>6, <1>15, <1>18

\* A wake word closes the turn that is still speaking.
LEMMA CloseActiveInv == ASSUME TurnInv, CloseActive PROVE TurnInv'
<1>1. PICK t \in TurnIds : t = capture /\ talk[t].at = "open"
  BY DEF CloseActive, TurnInv, QueuesOK
<1>2. Discarded(t, "discarded") /\ phrase' = phrase
  BY <1>1 DEF CloseActive
<1>3. TurnsOK' /\ talk'[t].at = "closed" /\ \A u \in TurnIds \ {t} : talk'[u] = talk[u]
  BY <1>1, <1>2, DiscardedTurn
<1>4. capture' = 0 /\ finals' = finals /\ settling' = settling /\ loop' # "gone" /\ script' = script
  BY DEF CloseActive, TurnInv, QueuesOK
<1>5. \A i \in DOMAIN finals' : talk'[finals'[i]].at = "final"
  BY <1>1, <1>3, <1>4, QueueParts
<1>6. \A i \in DOMAIN settling' : talk'[settling'[i]].at = "queued"
  BY <1>1, <1>3, <1>4, QueueParts
<1>7. QueuesOK'
  BY <1>4, <1>5, <1>6, QueueParts, QueuesHold
<1> QED BY <1>3, <1>4, <1>7 DEF TurnInv

-----------------------------------------------------------------------------
\* The finals a worker leaves behind, and what it hands over.
LEMMA HandOverInv ==
  ASSUME TurnInv, NEW t \in TurnIds, finals # <<>>, t = Head(finals), finals' = Tail(finals), worker = "alive",
         HandOver(t), UNCHANGED <<script, capture, busy, epoch, refusals>>
  PROVE  TurnInv'
<1>2. PICK k, p, b, late : k = talk[t] /\ p = phrase[t] /\ b = bill[t] /\ late = (talk[t].late # {})
  OBVIOUS
<1> DEFINE r == [k EXCEPT !.at = "queued", !.taken = k.said, !.overtaken = late]
           q == [n \in Segments |-> IF k.attached /\ n > k.taken /\ n <= k.said
                                    THEN [NoPhrase EXCEPT !.at = "tail"] ELSE p[n]]
<1>4. talk' = [talk EXCEPT ![t] = r]
  BY <1>2 DEF HandOver
<1>5. TalkOK(k) /\ PhrasesOK(k, p) /\ BillOK(k, p, b) /\ DOMAIN talk = TurnIds /\ DOMAIN phrase = TurnIds
      /\ MaxSegments \in Nat
  BY <1>2, TurnParts
<1>6. r.at = "queued" /\ r.taken = k.said /\ r.overtaken = late /\ Same(r, k, {"at", "taken", "overtaken"})
  BY <1>5 DEF TalkOK, TalkFields, Same
<1>7. phrase' = [phrase EXCEPT ![t] = q]
  BY <1>2, <1>5 DEF HandOver, Attached, InTail
<1>8. k.at = "final" /\ talk[t].at = "final"
  BY <1>2, QueueParts, TailDistinct
<1>9. /\ \A n \in Segments : k.attached /\ n > k.taken /\ n <= k.said => q[n].at = "tail" /\ q[n] \in PhraseRecord
      /\ \A n \in Segments : ~(k.attached /\ n > k.taken /\ n <= k.said) => q[n] = p[n]
  BY DEF NoPhrase, PhraseRecord
<1>10. q \in [Segments -> PhraseRecord]
  <2>1. \A n \in Segments : p[n] \in PhraseRecord
    BY <1>5 DEF PhrasesOK
  <2>2. \A n \in Segments : q[n] \in PhraseRecord
    BY <1>9, <2>1
  <2> QED BY <2>2
<1> HIDE DEF r, q
<1>11. /\ r.said = k.said /\ r.late = k.late /\ r.revised = k.revised /\ r.todo = k.todo
       /\ r.attached = k.attached /\ r.end = k.end /\ DOMAIN r = TalkFields
  BY <1>6 DEF Same, TalkFields
<1>12. TalkOK(r)
  <2>1. k.said > 0 /\ k.said \in Nat /\ k.late \subseteq 1 .. k.said
    BY <1>5, <1>8 DEF TalkOK
  <2>3. ~late => k.late = {}
    BY <1>2
  <2>2. k.said \in 0 .. MaxSegments /\ k.attached \in BOOLEAN /\ ~k.revised /\ k.end # "lost"
    BY <1>5, <1>8 DEF TalkOK, OpenStages
  <2> QED BY <1>6, <1>11, <2>1, <2>2, <2>3 DEF TalkOK, OpenStages
<1>13. PhrasesOK(r, q)
  <2>1. \A n \in Segments : q[n].at = "none" => q[n] = NoPhrase
    BY <1>5, <1>9 DEF PhrasesOK
  <2>2. r.at \in OpenStages /\ ~r.attached => \A n \in Segments : q[n].at = "none"
    BY <1>5, <1>8, <1>9, <1>11 DEF PhrasesOK, OpenStages
  <2>3. \A n \in Segments : n > k.said => q[n] = NoPhrase
    BY <1>5, <1>8, <1>9 DEF PhrasesOK, OpenStages, TalkOK, Segments
  <2>4. ASSUME r.attached, ~r.overtaken, NEW n \in 1 .. r.taken PROVE n \in r.late \/ q[n].at # "none"
    <3>1. n \in Segments /\ n \in 1 .. k.said /\ k.taken \in 0 .. k.said
      BY <1>5, <1>6, <2>4 DEF TalkOK, Segments
    <3>2. CASE n > k.taken
      BY <1>9, <1>11, <2>4, <3>1, <3>2
    <3>3. CASE n <= k.taken
      <4>1. n \in 1 .. k.taken /\ k.attached /\ ~k.overtaken
        BY <1>5, <1>8, <1>11, <2>4, <3>1, <3>3 DEF TalkOK
      <4>2. q[n] = p[n]
        BY <1>9, <3>1, <3>3
      <4> QED BY <1>5, <1>11, <4>1, <4>2 DEF PhrasesOK
    <3> QED BY <3>1, <3>2, <3>3
  <2> QED BY <1>6, <1>10, <2>1, <2>2, <2>3, <2>4 DEF PhrasesOK
<1>14. BillOK(r, q, b)
  <2>1. k.at \in OpenStages /\ r.at \in OpenStages /\ r.at = "queued"
    BY <1>6, <1>8 DEF OpenStages
  <2>2. \A n \in Segments : p[n].at \in {"answered", "registered", "done"} => q[n] = p[n]
    <3>1. \A n \in Segments : n > k.taken => p[n].at = "none"
      BY <1>5, <2>1 DEF PhrasesOK, NoPhrase
    <3> QED BY <1>9, <3>1
  <2>3. b.merged = {} /\ b.owed = {} /\ b.billed = {} /\ b.spent \subseteq Segments /\ b \in BillRecord /\ b.twice = {}
    BY <1>5, <2>1 DEF BillOK
  <2>4. \A c \in b.spent : c \in Segments => q[c].at \in {"answered", "registered", "done"}
    BY <1>5, <2>2 DEF BillOK
  <2> QED BY <2>1, <2>3, <2>4 DEF BillOK, ChargedWhole
<1>15. /\ DOMAIN talk' = TurnIds /\ talk'[t] = r /\ \A u \in TurnIds \ {t} : talk'[u] = talk[u]
  BY <1>4, <1>5
<1>16. /\ DOMAIN phrase' = TurnIds /\ phrase'[t] = q /\ \A u \in TurnIds \ {t} : phrase'[u] = phrase[u]
  BY <1>5, <1>7
<1>17. TurnsOK'
  <2>1. TurnOK(r, q, b)
    BY <1>12, <1>13, <1>14 DEF TurnOK
  <2>2. bill' = bill
    BY DEF HandOver
  <2> QED BY <1>2, <1>15, <1>16, <2>1, <2>2, TurnMoves, TurnParts
<1>18. QueuesOK'
  <2>1. /\ settling' = Append(settling, t) /\ loop' = loop /\ capture' = capture /\ script' = script
    BY DEF HandOver
  <2>2. loop # "gone"
    BY DEF TurnInv, QueuesOK
  <2>3. \A i \in DOMAIN settling : settling[i] # t
    BY <1>8, QueueParts
  <2>4. /\ Append(settling, t) \in Seq(TurnIds) /\ Distinct(Append(settling, t))
        /\ \A i \in DOMAIN Append(settling, t) :
              (i \in DOMAIN settling /\ Append(settling, t)[i] = settling[i]) \/ Append(settling, t)[i] = t
    BY <2>3, AppendDistinct, QueueParts
  <2>5. \A i \in DOMAIN settling' : talk'[settling'[i]].at = "queued"
    <3> SUFFICES ASSUME NEW i \in DOMAIN Append(settling, t) PROVE talk'[Append(settling, t)[i]].at = "queued"
      BY <2>1
    <3>1. CASE Append(settling, t)[i] = t
      BY <1>6, <1>15, <3>1
    <3>2. CASE i \in DOMAIN settling /\ Append(settling, t)[i] = settling[i]
      <4>1. settling[i] \in TurnIds \ {t} /\ talk[settling[i]].at = "queued"
        BY <2>3, <3>2, QueueParts
      <4> QED BY <1>15, <3>2, <4>1
    <3> QED BY <2>4, <3>1, <3>2
  <2>6. /\ finals' \in Seq(TurnIds) /\ Distinct(finals')
        /\ \A i \in DOMAIN finals' : i + 1 \in DOMAIN finals /\ finals'[i] = finals[i + 1] /\ finals'[i] # t
    BY QueueParts, TailDistinct
  <2>7. \A i \in DOMAIN finals' : talk'[finals'[i]].at = "final"
    BY <1>15, <2>6, QueueParts
  <2>8. capture' \in TurnIds \cup {0} /\ (capture' # 0 => talk'[capture'].at = "open" /\ capture' <= Len(script'))
    BY <1>8, <1>15, <2>1 DEF TurnInv, QueuesOK
  <2>9. Distinct(settling)' /\ Distinct(finals)' /\ settling' \in Seq(TurnIds)
    BY <2>1, <2>4, <2>6
  <2> QED BY <2>1, <2>2, <2>5, <2>6, <2>7, <2>8, <2>9, QueuesHold
<1> QED BY <1>17, <1>18 DEF TurnInv

\* A final that is not accepted for settlement ends its turn.
LEMMA RejectedInv ==
  ASSUME TurnInv, NEW t \in TurnIds, NEW end \in {"discarded", "broken"}, finals # <<>>, t = Head(finals),
         finals' = Tail(finals), worker = "alive", Discarded(t, end), loop' = loop \/ loop' = "cancelled",
         UNCHANGED <<script, capture, phrase, settling>>
  PROVE  TurnInv'
<1>1. talk[t].at = "final"
  BY QueueParts, TailDistinct
<1>2. TurnsOK' /\ talk'[t].at = "closed" /\ \A u \in TurnIds \ {t} : talk'[u] = talk[u]
  BY <1>1, DiscardedTurn
<1>3. loop' # "gone"
  BY DEF TurnInv, QueuesOK
<1>4. /\ finals' \in Seq(TurnIds) /\ Distinct(finals')
      /\ \A i \in DOMAIN finals' : i + 1 \in DOMAIN finals /\ finals'[i] = finals[i + 1] /\ finals'[i] # t
  BY QueueParts, TailDistinct
<1>5. \A i \in DOMAIN finals' : talk'[finals'[i]].at = "final"
  BY <1>2, <1>4, QueueParts
<1>6. \A i \in DOMAIN settling' : talk'[settling'[i]].at = "queued"
  BY <1>1, <1>2, QueueParts
<1>7. capture' \in TurnIds \cup {0} /\ (capture' # 0 => talk'[capture'].at = "open" /\ capture' <= Len(script'))
  BY <1>1, <1>2 DEF TurnInv, QueuesOK
<1>8. Distinct(settling)' /\ Distinct(finals)' /\ settling' \in Seq(TurnIds)
  BY <1>4, QueueParts
<1>9. QueuesOK'
  BY <1>3, <1>4, <1>5, <1>6, <1>7, <1>8, QueuesHold
<1> QED BY <1>2, <1>9 DEF TurnInv

\* The segment worker finishes the next final.
LEMMA FinishSpeechInv == ASSUME TurnInv, FinishSpeech PROVE TurnInv'
<1>1. PICK t \in TurnIds : t = Head(finals)
  BY QueueParts, TailDistinct DEF FinishSpeech
<1>2. /\ finals # <<>> /\ finals' = Tail(finals) /\ worker = "alive"
      /\ UNCHANGED <<script, capture, busy, epoch, refusals>>
  BY DEF FinishSpeech
<1>3. CASE HandOver(t)
  BY <1>1, <1>2, <1>3, HandOverInv
<1>4. CASE Breaks(t)
  BY <1>1, <1>2, <1>4, RejectedInv DEF Breaks
<1>5. CASE Skipped(t)
  BY <1>1, <1>2, <1>5, RejectedInv DEF Skipped
<1> QED BY <1>1, <1>3, <1>4, <1>5 DEF FinishSpeech

\* The runtime ends once it has waited for what was accepted.
LEMMA LoopInv == ASSUME TurnInv, SwitchMode \/ EndLoop \/ RuntimeEnds \/ UNCHANGED turnVars PROVE TurnInv'
<1>1. UNCHANGED <<script, talk, phrase, bill, capture, finals, settling, worker>>
  BY DEF SwitchMode, EndLoop, RuntimeEnds, turnVars
<1>2. TurnsOK'
  BY <1>1 DEF TurnInv, TurnsOK
<1>3. Unresolved' = Unresolved
  BY <1>1 DEF Unresolved
<1>4. loop' = "gone" => capture' = 0 /\ Unresolved = {} /\ (finals' = <<>> \/ worker' = "dead")
  BY <1>1 DEF SwitchMode, EndLoop, RuntimeEnds, turnVars, Awaited, TurnInv, QueuesOK
<1>5. QueuesOK'
  BY <1>1, <1>3, <1>4 DEF TurnInv, QueuesOK
<1> QED BY <1>1, <1>2, <1>5 DEF TurnInv

-----------------------------------------------------------------------------
\* A phrase of a turn moves on; what its turn owes is its own.
LEMMA PhraseMoves ==
  ASSUME TurnInv, NEW t \in TurnIds, NEW n \in Segments,
         NEW q, NEW c, NEW r, r.at = talk[t].at, DOMAIN talk' = TurnIds, talk'[t] = r,
         \A u \in TurnIds \ {t} : talk'[u] = talk[u], TalkOK(r),
         DOMAIN phrase' = TurnIds, phrase'[t] = q, \A u \in TurnIds \ {t} : phrase'[u] = phrase[u],
         DOMAIN bill' = TurnIds, bill'[t] = c, \A u \in TurnIds \ {t} : bill'[u] = bill[u],
         PhrasesOK(r, q), BillOK(r, q, c), UNCHANGED <<script, capture, finals, settling, loop, worker>>
  PROVE  TurnInv'
<1>1. TurnsOK'
  BY TurnMoves, TurnParts DEF TurnOK
<1>2. QueuesOK'
  BY QueuesStay
<1> QED BY <1>1, <1>2 DEF TurnInv

\* A phrase that is not taken has no call; a call moves its phrase only.
LEMMA PhraseAdvances ==
  ASSUME NEW k, NEW p, NEW q, NEW n \in Segments, PhrasesOK(k, p), TalkOK(k),
         p[n].at \in {"calling", "answered", "registered"},
         q \in [Segments -> PhraseRecord], q[n].at # "none", \A m \in Segments \ {n} : q[m] = p[m]
  PROVE  /\ PhrasesOK(k, q) /\ (k.at \in OpenStages => k.attached)
<1>1. k.at \in OpenStages => k.attached
  BY DEF PhrasesOK
<1>2. \A m \in Segments : q[m].at = "none" => q[m] = NoPhrase
  BY DEF PhrasesOK
<1>3. k.at \in OpenStages => \A m \in Segments : m > k.taken => q[m] = NoPhrase
  BY DEF PhrasesOK, NoPhrase
<1>4. \A m \in Segments : p[m].at # "none" => q[m].at # "none"
  OBVIOUS
<1>5. 1 .. k.taken \subseteq Segments
  BY TurnsAssumption DEF TalkOK, Segments
<1>6. k.attached /\ ~k.overtaken => \A m \in 1 .. k.taken : m \in k.late \/ q[m].at # "none"
  BY <1>4, <1>5 DEF PhrasesOK
<1> QED BY <1>1, <1>2, <1>3, <1>6 DEF PhrasesOK

\* The provider answers, or the call fails.
LEMMA AnsweredInv == ASSUME TurnInv, NEW t \in TurnIds, NEW n \in Segments, Answered(t, n) PROVE TurnInv'
<1>1. PICK k, p, b : k = talk[t] /\ p = phrase[t] /\ b = bill[t]
  OBVIOUS
<1>2. /\ TalkOK(k) /\ PhrasesOK(k, p) /\ BillOK(k, p, b) /\ p[n].at = "calling"
      /\ DOMAIN talk = TurnIds /\ DOMAIN phrase = TurnIds /\ DOMAIN bill = TurnIds
  BY <1>1, TurnParts DEF Answered
<1>3. PICK well \in BOOLEAN, usage \in SUBSET {n} :
         /\ phrase' = [phrase EXCEPT ![t][n] = [at |-> "answered", ok |-> well]]
         /\ bill' = [bill EXCEPT ![t].spent = @ \cup usage]
  <2>1. p[n] \in PhraseRecord
    BY <1>2 DEF PhrasesOK
  <2>2. p[n] = [at |-> "calling", ok |-> p[n].ok] /\ p[n].ok \in BOOLEAN
    BY <1>2, <2>1 DEF PhraseRecord
  <2>3. ASSUME phrase' = [phrase EXCEPT ![t][n].at = "answered"]
        PROVE  phrase' = [phrase EXCEPT ![t][n] = [at |-> "answered", ok |-> p[n].ok]]
    <3>1. [phrase[t][n] EXCEPT !.at = "answered"] = [at |-> "answered", ok |-> p[n].ok]
      BY <1>1, <2>1 DEF PhraseRecord
    <3>2. phrase' = [phrase EXCEPT ![t][n] = [phrase[t][n] EXCEPT !.at = "answered"]]
      BY <2>3
    <3> QED BY <3>1, <3>2
  <2>4. {n} \in SUBSET {n}
    OBVIOUS
  <2> QED BY <2>2, <2>3, <2>4 DEF Answered
<1> DEFINE q == [p EXCEPT ![n] = [at |-> "answered", ok |-> well]]
           c == [b EXCEPT !.spent = @ \cup usage]
<1>4. phrase' = [phrase EXCEPT ![t] = q] /\ bill' = [bill EXCEPT ![t] = c]
  BY <1>1, <1>3
<1>5. q \in [Segments -> PhraseRecord] /\ q[n].at = "answered" /\ \A m \in Segments \ {n} : q[m] = p[m]
  BY <1>2 DEF PhrasesOK, PhraseRecord
<1>6. /\ c \in BillRecord /\ c.spent = b.spent \cup usage /\ c.merged = b.merged /\ c.owed = b.owed
      /\ c.billed = b.billed /\ c.twice = b.twice
  BY <1>2 DEF BillOK, BillRecord, Segments
<1> HIDE DEF q, c
<1>7. PhrasesOK(k, q)
  BY <1>2, <1>5, PhraseAdvances
<1>8. BillOK(k, q, c)
  <2>1. n \notin b.owed \cup b.merged \cup b.billed
    BY <1>2 DEF BillOK
  <2>2. \A x \in c.owed \cup c.merged \cup c.billed : x \in Segments => q[x].at = "done"
    BY <1>2, <1>5, <1>6, <2>1 DEF BillOK
  <2>3. \A x \in c.spent : x \in Segments => q[x].at \in {"answered", "registered", "done"}
    BY <1>2, <1>5, <1>6 DEF BillOK
  <2>4. \A x \in c.spent : (x \in Segments => q[x].at = "done") => x \in b.spent /\ (x \in Segments => p[x].at = "done")
    BY <1>5, <1>6
  <2>5. k.at \in OpenStages => c.spent \subseteq Segments
    BY <1>2, <1>6 DEF BillOK
  <2> QED BY <1>2, <1>6, <2>2, <2>3, <2>4, <2>5 DEF BillOK
<1>9. /\ talk' = talk /\ UNCHANGED <<script, capture, finals, settling, loop, worker>>
  BY DEF Answered
<1>10. /\ DOMAIN phrase' = TurnIds /\ phrase'[t] = q /\ \A u \in TurnIds \ {t} : phrase'[u] = phrase[u]
       /\ DOMAIN bill' = TurnIds /\ bill'[t] = c /\ \A u \in TurnIds \ {t} : bill'[u] = bill[u]
  BY <1>2, <1>4
<1> QED BY <1>1, <1>2, <1>7, <1>8, <1>9, <1>10, PhraseMoves

\* The phrase is admitted to the playback.
LEMMA AdmitInv == ASSUME TurnInv, NEW t \in TurnIds, NEW n \in Segments, Admit(t, n) PROVE TurnInv'
<1>1. PICK k, p, b : k = talk[t] /\ p = phrase[t] /\ b = bill[t]
  OBVIOUS
<1>2. /\ TalkOK(k) /\ PhrasesOK(k, p) /\ BillOK(k, p, b) /\ p[n].at = "answered"
      /\ DOMAIN talk = TurnIds /\ DOMAIN phrase = TurnIds /\ DOMAIN bill = TurnIds
  BY <1>1, TurnParts DEF Admit
<1> DEFINE q == [p EXCEPT ![n].at = "registered"]
<1>3. phrase' = [phrase EXCEPT ![t] = q] /\ bill' = bill
  BY <1>1 DEF Admit
<1>4. q \in [Segments -> PhraseRecord] /\ q[n].at = "registered" /\ \A m \in Segments \ {n} : q[m] = p[m]
  BY <1>2 DEF PhrasesOK, PhraseRecord
<1> HIDE DEF q
<1>5. PICK r : /\ DOMAIN talk' = TurnIds /\ talk'[t] = r /\ \A u \in TurnIds \ {t} : talk'[u] = talk[u]
               /\ Same(r, k, {"next", "spoken", "left", "failed"})
  <2>1. CASE ~Attached(t)
    <3>1. talk' = talk
      BY <2>1 DEF Admit
    <3>2. Same(k, k, {"next", "spoken", "left", "failed"})
      BY <1>2 DEF TalkOK, Same
    <3> QED BY <1>1, <1>2, <3>1, <3>2
  <2>2. CASE Attached(t)
    <3> DEFINE run == Run(t, n)
               offers == Ordered(Offers(t, n))
               good == UNION {PiecesOf(m) : m \in {m \in run : phrase[t][m].ok}}
    <3>1. PICK taken \in 0 .. Len(offers) :
             talk' = [talk EXCEPT
                ![t].next = @ + Cardinality(run),
                ![t].spoken = @ \o SubSeq(offers, 1, taken),
                ![t].left = @ \cup (good \ {offers[i] : i \in 1 .. taken}),
                ![t].failed = @ \/ Speakable(t, n) # run \/ taken < Len(offers)]
      BY <2>2 DEF Admit
    <3>2. PICK v1, v2, v3, v4 : talk' = [talk EXCEPT ![t].next = v1, ![t].spoken = v2, ![t].left = v3, ![t].failed = v4]
      BY <3>1
    <3> DEFINE r == [k EXCEPT !.next = v1, !.spoken = v2, !.left = v3, !.failed = v4]
    <3>3. talk' = [talk EXCEPT ![t] = r]
      BY <1>1, <3>2
    <3>4. Same(r, k, {"next", "spoken", "left", "failed"})
      BY <1>2 DEF TalkOK, TalkFields, Same
    <3> HIDE DEF r
    <3> QED BY <1>2, <3>3, <3>4
  <2> QED BY <2>1, <2>2
<1>6. /\ r.at = k.at /\ r.said = k.said /\ r.taken = k.taken /\ r.late = k.late /\ r.revised = k.revised
      /\ r.todo = k.todo /\ r.overtaken = k.overtaken /\ r.end = k.end /\ DOMAIN r = TalkFields
      /\ r.attached = k.attached
  BY <1>5 DEF Same, TalkFields
<1>7. TalkOK(r)
  BY <1>2, <1>6 DEF TalkOK
<1>8. PhrasesOK(k, q)
  BY <1>2, <1>4, PhraseAdvances
<1>9. PhrasesOK(r, q)
  BY <1>6, <1>8 DEF PhrasesOK
<1>10. BillOK(r, q, b)
  <2>1. n \notin b.owed \cup b.merged \cup b.billed
    BY <1>2 DEF BillOK
  <2>2. \A x \in b.owed \cup b.merged \cup b.billed : x \in Segments => q[x].at = "done"
    BY <1>2, <1>4, <2>1 DEF BillOK
  <2>3. \A x \in b.spent : x \in Segments => q[x].at \in {"answered", "registered", "done"}
    BY <1>2, <1>4 DEF BillOK
  <2>4. \A x \in b.spent : (x \in Segments => q[x].at = "done") => (x \in Segments => p[x].at = "done")
    BY <1>4
  <2> QED BY <1>2, <1>6, <2>2, <2>3, <2>4 DEF BillOK, ChargedWhole
<1>11. UNCHANGED <<script, capture, finals, settling, loop, worker>>
  BY DEF Admit
<1>12. DOMAIN phrase' = TurnIds /\ phrase'[t] = q /\ \A u \in TurnIds \ {t} : phrase'[u] = phrase[u]
  BY <1>2, <1>3
<1>13. r.at = talk[t].at /\ bill'[t] = b
  BY <1>1, <1>3, <1>6
<1> QED BY <1>2, <1>3, <1>5, <1>7, <1>9, <1>10, <1>11, <1>12, <1>13, PhraseMoves

\* A phrase ends; the call of a detached turn is owed.
LEMMA PhraseDoneInv == ASSUME TurnInv, NEW t \in TurnIds, NEW n \in Segments, PhraseDone(t, n) PROVE TurnInv'
<1>1. PICK k, p, b, usage : k = talk[t] /\ p = phrase[t] /\ b = bill[t] /\ usage = LateUsage(t, n)
  OBVIOUS
<1>2. /\ TalkOK(k) /\ PhrasesOK(k, p) /\ BillOK(k, p, b) /\ p[n].at = "registered"
      /\ DOMAIN talk = TurnIds /\ DOMAIN phrase = TurnIds /\ DOMAIN bill = TurnIds
  BY <1>1, TurnParts DEF PhraseDone
<1> DEFINE q == [p EXCEPT ![n].at = "done"]
           c == [b EXCEPT !.owed = @ \cup usage]
<1>3. phrase' = [phrase EXCEPT ![t] = q] /\ bill' = [bill EXCEPT ![t] = c]
  BY <1>1 DEF PhraseDone
<1>4. q \in [Segments -> PhraseRecord] /\ q[n].at = "done" /\ \A m \in Segments \ {n} : q[m] = p[m]
  BY <1>2 DEF PhrasesOK, PhraseRecord
<1>5. usage \subseteq {n} /\ (k.attached => usage = {}) /\ (~k.attached /\ n \in b.spent => n \in usage)
  BY <1>1 DEF LateUsage, Attached
<1>6. /\ c \in BillRecord /\ c.spent = b.spent /\ c.merged = b.merged /\ c.owed = b.owed \cup usage
      /\ c.billed = b.billed /\ c.twice = b.twice
  BY <1>2, <1>5 DEF BillOK, BillRecord, Segments
<1> HIDE DEF q, c
<1>7. PhrasesOK(k, q) /\ (k.at \in OpenStages => k.attached)
  BY <1>2, <1>4, PhraseAdvances
<1>8. BillOK(k, q, c)
  <2>1. n \notin b.owed \cup b.merged \cup b.billed
    BY <1>2 DEF BillOK
  <2>2. \A x \in c.owed \cup c.merged \cup c.billed : x \in Segments => q[x].at = "done"
    BY <1>2, <1>4, <1>5, <1>6 DEF BillOK
  <2>3. \A x \in c.spent : x \in Segments => q[x].at \in {"answered", "registered", "done"}
    BY <1>2, <1>4, <1>6 DEF BillOK
  <2>4. ~k.attached => \A x \in c.spent : (x \in Segments => q[x].at = "done") =>
            (x \in Segments => p[x].at = "done") \/ x \in c.owed
    BY <1>4, <1>5, <1>6
  <2>5. (c.owed \cup c.merged) \cap c.billed = {} /\ c.owed \cap c.merged = {} /\ c.owed \subseteq Segments
    BY <1>2, <1>5, <1>6, <2>1 DEF BillOK
  <2>6. k.at \in OpenStages => c.owed = {}
    BY <1>2, <1>5, <1>6, <1>7 DEF BillOK
  <2>7. k.at \in {"translating", "settled"} \/ ChargedWhole(k) => ~k.attached
    BY <1>2 DEF TalkOK, ChargedWhole, OpenStages
  <2> QED BY <1>2, <1>6, <2>2, <2>3, <2>4, <2>5, <2>6, <2>7 DEF BillOK
<1>9. /\ talk' = talk /\ UNCHANGED <<script, capture, finals, settling, loop, worker>>
  BY DEF PhraseDone
<1>10. /\ DOMAIN phrase' = TurnIds /\ phrase'[t] = q /\ \A u \in TurnIds \ {t} : phrase'[u] = phrase[u]
       /\ DOMAIN bill' = TurnIds /\ bill'[t] = c /\ \A u \in TurnIds \ {t} : bill'[u] = bill[u]
  BY <1>2, <1>3
<1> QED BY <1>1, <1>2, <1>7, <1>8, <1>9, <1>10, PhraseMoves

\* A late call is billed.
LEMMA BillLateInv == ASSUME TurnInv, NEW t \in TurnIds, BillLate(t) PROVE TurnInv'
<1>1. PICK k, p, b : k = talk[t] /\ p = phrase[t] /\ b = bill[t]
  OBVIOUS
<1>2. /\ TalkOK(k) /\ PhrasesOK(k, p) /\ BillOK(k, p, b)
      /\ DOMAIN talk = TurnIds /\ DOMAIN phrase = TurnIds /\ DOMAIN bill = TurnIds
  BY <1>1, TurnParts
<1>3. PICK n \in b.owed : bill' = [bill EXCEPT ![t] = [Charge(b, {n}) EXCEPT !.merged = b.merged]]
  BY <1>1 DEF BillLate
<1> DEFINE c == [Charge(b, {n}) EXCEPT !.merged = b.merged]
<1>4. /\ c \in BillRecord /\ c.spent = b.spent /\ c.merged = b.merged /\ c.owed = b.owed \ {n}
      /\ c.billed = b.billed \cup {n} /\ c.twice = b.twice \cup ({n} \cap b.billed)
  BY <1>2 DEF BillOK, BillRecord, Charge
<1>5. bill' = [bill EXCEPT ![t] = c]
  BY <1>3
<1> HIDE DEF c
<1>6. c.twice = {} /\ n \in Segments /\ n \notin b.merged
  BY <1>2, <1>4 DEF BillOK
<1>7. BillOK(k, p, c)
  <2>1. k.at \notin OpenStages
    BY <1>2 DEF BillOK
  <2>2. /\ (c.owed \cup c.merged) \cap c.billed = {} /\ c.owed \cap c.merged = {} /\ c.owed \subseteq Segments
        /\ c.owed \cup c.merged \cup c.billed = b.owed \cup b.merged \cup b.billed
    BY <1>2, <1>4, <1>6 DEF BillOK
  <2>3. k.at \in {"translating", "settled"} => c.billed \subseteq Segments
    BY <1>2, <1>4, <1>6 DEF BillOK
  <2>4. ChargedWhole(k) => c.merged = {}
    BY <1>2, <1>4 DEF BillOK
  <2>5. (k.at \in {"translating", "settled"} \/ ChargedWhole(k)) /\ ~k.revised /\ ~k.overtaken =>
          \A x \in c.spent : (x \in Segments => p[x].at = "done") => x \in c.merged \cup c.owed \cup c.billed
    BY <1>2, <1>4, <2>2 DEF BillOK
  <2>6. /\ \A x \in c.owed \cup c.merged \cup c.billed : x \in Segments => p[x].at = "done"
        /\ \A x \in c.spent : x \in Segments => p[x].at \in {"answered", "registered", "done"}
    BY <1>2, <1>4, <2>2 DEF BillOK
  <2> QED BY <1>4, <1>6, <2>1, <2>2, <2>3, <2>4, <2>5, <2>6 DEF BillOK
<1>8. /\ talk' = talk /\ phrase' = phrase /\ UNCHANGED <<script, capture, finals, settling, loop, worker>>
  BY DEF BillLate
<1>9. /\ DOMAIN bill' = TurnIds /\ bill'[t] = c /\ \A u \in TurnIds \ {t} : bill'[u] = bill[u]
  BY <1>2, <1>5
<1>10. TurnsOK'
  BY <1>1, <1>2, <1>7, <1>8, <1>9, TurnMoves, TurnParts DEF TurnOK
<1>11. QueuesOK'
  BY <1>8, QueuesStay
<1> QED BY <1>8, <1>10, <1>11 DEF TurnInv

\* The settlement worker takes the next turn.
LEMMA TakeFinalInv == ASSUME TurnInv, TakeFinal PROVE TurnInv'
<1>1. PICK t \in TurnIds : t = Head(settling) /\ talk[t].at = "queued"
  BY QueueParts, TailDistinct DEF TakeFinal
<1>2. PICK k, p, b, wait : /\ k = talk[t] /\ p = phrase[t] /\ b = bill[t]
                           /\ wait = {n \in Segments : phrase[t][n].at \notin {"none", "tail"}}
  OBVIOUS
<1> DEFINE r == [k EXCEPT !.at = "waiting", !.wait = wait]
<1>4. talk' = [talk EXCEPT ![t] = r]
  BY <1>1, <1>2 DEF TakeFinal
<1>5. TalkOK(k) /\ PhrasesOK(k, p) /\ BillOK(k, p, b) /\ DOMAIN talk = TurnIds /\ k.at = "queued"
  BY <1>1, <1>2, TurnParts
<1>6. r.at = "waiting" /\ Same(r, k, {"at", "wait"})
  BY <1>5 DEF TalkOK, TalkFields, Same
<1> HIDE DEF r
<1>7. /\ r.said = k.said /\ r.taken = k.taken /\ r.late = k.late /\ r.revised = k.revised /\ r.todo = k.todo
      /\ r.overtaken = k.overtaken /\ r.end = k.end /\ DOMAIN r = TalkFields /\ r.attached = k.attached
  BY <1>6 DEF Same, TalkFields
<1>8. TalkOK(r)
  BY <1>5, <1>6, <1>7 DEF TalkOK, OpenStages
<1>9. PhrasesOK(r, p)
  BY <1>5, <1>6, <1>7 DEF PhrasesOK, OpenStages
<1>10. BillOK(r, p, b)
  BY <1>5, <1>6, <1>7 DEF BillOK, ChargedWhole, OpenStages
<1>11. /\ DOMAIN talk' = TurnIds /\ talk'[t] = r /\ \A u \in TurnIds \ {t} : talk'[u] = talk[u]
  BY <1>4, <1>5
<1>12. UNCHANGED <<script, phrase, bill, capture, finals, loop, worker>> /\ settling' = Tail(settling) /\ settling # <<>>
  BY DEF TakeFinal
<1>13. TurnsOK'
  BY <1>2, <1>8, <1>9, <1>10, <1>11, <1>12, TurnMoves, TurnParts DEF TurnOK
<1>14. QueuesOK'
  <2>1. loop' # "gone"
    BY <1>1, <1>12 DEF TurnInv, QueuesOK, Unresolved
  <2>2. /\ settling' \in Seq(TurnIds) /\ Distinct(settling')
        /\ \A i \in DOMAIN settling' : i + 1 \in DOMAIN settling /\ settling'[i] = settling[i + 1] /\ settling'[i] # t
    BY <1>1, <1>12, QueueParts, TailDistinct
  <2>3. \A i \in DOMAIN settling' : talk'[settling'[i]].at = "queued"
    BY <1>11, <2>2, QueueParts
  <2>4. \A i \in DOMAIN finals' : talk'[finals'[i]].at = "final"
    BY <1>1, <1>11, <1>12, QueueParts
  <2>5. capture' \in TurnIds \cup {0} /\ (capture' # 0 => talk'[capture'].at = "open" /\ capture' <= Len(script'))
    BY <1>1, <1>11, <1>12 DEF TurnInv, QueuesOK
  <2>6. Distinct(settling)' /\ Distinct(finals)' /\ finals' \in Seq(TurnIds)
    BY <1>12, <2>2, QueueParts
  <2> QED BY <2>1, <2>2, <2>3, <2>4, <2>5, <2>6, QueuesHold
<1> QED BY <1>12, <1>13, <1>14 DEF TurnInv

-----------------------------------------------------------------------------
\* The settlement worker moves one turn on.
LEMMA SettlementMoves ==
  ASSUME TurnInv, NEW t \in TurnIds, NEW r, NEW c, talk' = [talk EXCEPT ![t] = r],
         DOMAIN bill' = TurnIds, bill'[t] = c, \A u \in TurnIds \ {t} : bill'[u] = bill[u],
         talk[t].at \in {"waiting", "translating", "settled", "speaking"}, r.at \notin OpenStages,
         r.at = "translating" => talk[t].at \in {"waiting", "translating"},
         TalkOK(r), BillOK(r, phrase[t], c),
         UNCHANGED <<script, phrase, capture, finals, settling, loop, worker>>
  PROVE  TurnInv'
<1>1. /\ DOMAIN talk' = TurnIds /\ talk'[t] = r /\ \A u \in TurnIds \ {t} : talk'[u] = talk[u]
  BY TurnParts
<1>2. PhrasesOK(talk[t], phrase[t]) /\ DOMAIN phrase = TurnIds /\ TurnsOK
  BY TurnParts
<1>3. ~r.attached
  BY DEF TalkOK
<1>4. PhrasesOK(r, phrase[t])
  BY <1>2, <1>3 DEF PhrasesOK
<1>5. TurnsOK'
  BY <1>1, <1>2, <1>4, TurnMoves DEF TurnOK
<1>6. QueuesOK'
  BY <1>1, QueuesStay DEF OpenStages
<1> QED BY <1>5, <1>6 DEF TurnInv

\* A set of integers none of which is positive has a greatest one.
LEMMA GreatestIsMember ==
  ASSUME NEW S, S # {}, \A x \in S : x \in Int /\ x <= 0
  PROVE  Max(S) \in S
<1> DEFINE T == {-x : x \in S}
<1>1. T \subseteq Nat /\ T # {}
  OBVIOUS
<1>2. PICK y \in T : \A z \in T : ~ (<<z, y>> \in OpToRel(<, Nat))
  BY <1>1, NatLessThanWellFounded, WFMin
<1>3. \A z \in T : ~ (z < y)
  BY <1>1, <1>2 DEF OpToRel
<1>4. PICK x \in S : y = -x
  OBVIOUS
<1>5. \A z \in S : x >= z
  <2> SUFFICES ASSUME NEW z \in S PROVE x >= z
    OBVIOUS
  <2>1. -z \in T /\ z \in Int /\ x \in Int
    OBVIOUS
  <2> HIDE DEF T
  <2> QED BY <1>3, <1>4, <2>1
<1> QED BY <1>5 DEF Max

\* What the summary of the phrases covers.
LEMMA CoveredParts ==
  ASSUME TurnInv, NEW t \in TurnIds, talk[t].at = "waiting"
  PROVE  /\ Covered(t) \subseteq Segments /\ Cardinality(Covered(t)) \in Nat
         /\ talk[t].attached /\ ~talk[t].overtaken =>
               /\ Covered(t) # {}
               /\ \A n \in Segments : phrase[t][n].at # "none" => n \in Covered(t)
<1>1. TalkOK(talk[t]) /\ PhrasesOK(talk[t], phrase[t]) /\ MaxSegments \in Nat
  BY TurnParts
<1>2. /\ talk[t].said \in Nat /\ talk[t].said <= MaxSegments /\ talk[t].said > 0 /\ talk[t].taken = talk[t].said
      /\ ~talk[t].overtaken => talk[t].late = {}
  BY <1>1 DEF TalkOK
<1>3. Covered(t) \subseteq 1 .. talk[t].said
  BY DEF Covered
<1>4. Covered(t) \subseteq Segments
  BY <1>1, <1>2, <1>3 DEF Segments
<1>5. IsFiniteSet(1 .. talk[t].said)
  BY <1>2, FS_Interval
<1>6. Cardinality(Covered(t)) \in Nat
  <2>1. IsFiniteSet(Covered(t))
    BY <1>3, <1>5, FS_Subset
  <2> QED BY <2>1, FS_CardinalityType
<1>7. ASSUME talk[t].attached, ~talk[t].overtaken
      PROVE  /\ Covered(t) # {}
             /\ \A n \in Segments : phrase[t][n].at # "none" => n \in Covered(t)
  <2>1. \A m \in 1 .. talk[t].said : phrase[t][m].at # "none"
    BY <1>1, <1>2, <1>7 DEF PhrasesOK
  <2>2. \A n \in 1 .. talk[t].said : n \in Covered(t)
    <3> SUFFICES ASSUME NEW n \in 1 .. talk[t].said PROVE n \in Covered(t)
      OBVIOUS
    <3>1. \A m \in 1 .. n : m \in 1 .. talk[t].said
      BY <1>2
    <3> QED BY <2>1, <3>1 DEF Covered
  <2>3. \A n \in Segments : phrase[t][n].at # "none" => n <= talk[t].said
    BY <1>1, <1>2 DEF PhrasesOK, OpenStages, NoPhrase, Segments
  <2>4. 1 \in 1 .. talk[t].said
    BY <1>2
  <2>5. \A n \in Segments : phrase[t][n].at # "none" => n \in 1 .. talk[t].said
    BY <1>2, <2>3 DEF Segments
  <2> QED BY <2>2, <2>4, <2>5
<1> QED BY <1>4, <1>6, <1>7

\* The summary of the phrases of a turn.
LEMMA DetachedInv ==
  ASSUME TurnInv, NEW t \in TurnIds, talk[t].at = "waiting", NEW todo, NEW rest, NEW merged, NEW revised \in BOOLEAN,
         Detached(t, todo, rest, merged, revised), \A c \in todo : c \in Int /\ c <= 0,
         merged \subseteq bill[t].spent, \A c \in merged : c \in Segments /\ phrase[t][c].at = "done",
         ~revised /\ ~talk[t].overtaken => \A c \in bill[t].spent : phrase[t][c].at = "done" => c \in merged,
         UNCHANGED <<script, phrase, capture, finals, settling, busy, loop, worker, epoch, refusals>>
  PROVE  TurnInv'
<1>2. PICK k, p, b : k = talk[t] /\ p = phrase[t] /\ b = bill[t]
  OBVIOUS
<1> DEFINE r == [k EXCEPT !.at = "translating", !.attached = FALSE, !.todo = todo, !.rest = rest, !.revised = revised]
           d == [b EXCEPT !.merged = merged]
<1>4. talk' = [talk EXCEPT ![t] = r] /\ bill' = [bill EXCEPT ![t] = d]
  BY <1>2 DEF Detached
<1>5. TalkOK(k) /\ PhrasesOK(k, p) /\ BillOK(k, p, b) /\ DOMAIN talk = TurnIds /\ DOMAIN bill = TurnIds /\ k.at = "waiting"
  BY <1>2, TurnParts
<1>6. /\ r.at = "translating" /\ ~r.attached /\ r.attached \in BOOLEAN /\ r.todo = todo /\ r.revised = revised
      /\ Same(r, k, {"at", "attached", "todo", "rest", "revised"})
  BY <1>5 DEF TalkOK, TalkFields, Same
<1>7. /\ d \in BillRecord /\ d.merged = merged /\ d.spent = b.spent /\ d.owed = b.owed /\ d.billed = b.billed
      /\ d.twice = b.twice
  <2>1. merged \in SUBSET Int
    BY DEF Segments
  <2> QED BY <1>5, <2>1 DEF BillOK, BillRecord
<1> HIDE DEF r, d
<1>8. /\ r.said = k.said /\ r.taken = k.taken /\ r.late = k.late
      /\ r.overtaken = k.overtaken /\ r.end = k.end /\ DOMAIN r = TalkFields
  BY <1>6 DEF Same, TalkFields
<1>9. TalkOK(r)
  BY <1>5, <1>6, <1>8 DEF TalkOK, OpenStages
<1>10. b.owed = {} /\ b.billed = {} /\ b.spent \subseteq Segments
  BY <1>5 DEF BillOK, OpenStages
<1>11. BillOK(r, p, d)
  <2>1. \A c \in merged : c \in Segments /\ p[c].at = "done"
    BY <1>2
  <2>2. ~r.revised /\ ~r.overtaken => \A c \in d.spent : (c \in Segments => p[c].at = "done") => c \in d.merged
    BY <1>2, <1>6, <1>7, <1>8, <1>10
  <2>3. r.at \notin OpenStages /\ ~ChargedWhole(r)
    BY <1>6 DEF OpenStages, ChargedWhole
  <2>4. d.twice = {} /\ \A c \in d.spent : c \in Segments => p[c].at \in {"answered", "registered", "done"}
    BY <1>5, <1>7 DEF BillOK
  <2> QED BY <1>7, <1>10, <2>1, <2>2, <2>3, <2>4 DEF BillOK
<1>12. DOMAIN bill' = TurnIds /\ bill'[t] = d /\ \A u \in TurnIds \ {t} : bill'[u] = bill[u]
  BY <1>4, <1>5
<1>13. r.at \notin OpenStages /\ talk[t].at \in {"waiting", "translating"}
  BY <1>6 DEF OpenStages
<1> QED BY <1>2, <1>4, <1>9, <1>11, <1>12, <1>13, SettlementMoves

\* FinalizePhraseSubtitleTurn: reused, revised or translated as a whole.
LEMMA FinalizeInv == ASSUME TurnInv, NEW t \in TurnIds, Finalize(t) PROVE TurnInv'
<1> DEFINE all == 1 .. talk[t].said * Pieces
           rest == {p \in all : SegmentOf(p) \notin Reused(t) \/ p \in talk[t].left}
           ended == {n \in Covered(t) : phrase[t][n].at = "done"}
           some == {-n : n \in Covered(t) \ Reused(t)} \cup Beyond(t)
<1>1. talk[t].at = "waiting" /\ UNCHANGED <<script, phrase, capture, finals, settling, busy, loop, worker, epoch, refusals>>
  BY DEF Finalize
<1>2. \/ Attached(t) /\ Covered(t) # {} /\ Detached(t, some, rest, ended \cap bill[t].spent, FALSE)
      \/ ~(Attached(t) /\ Covered(t) # {}) /\ Detached(t, {Whole}, all, {}, FALSE)
      \/ Detached(t, {Whole}, all, {}, TRUE)
  BY DEF Finalize
<1>3. /\ Covered(t) \subseteq Segments /\ Cardinality(Covered(t)) \in Nat
      /\ talk[t].attached /\ ~talk[t].overtaken =>
               /\ Covered(t) # {}
               /\ \A n \in Segments : phrase[t][n].at # "none" => n \in Covered(t)
  BY <1>1, CoveredParts
<1>4. /\ PhrasesOK(talk[t], phrase[t]) /\ BillOK(talk[t], phrase[t], bill[t])
  BY TurnParts
<1>5. bill[t].spent \subseteq Segments /\ \A c \in bill[t].spent : phrase[t][c].at \in {"answered", "registered", "done"}
  BY <1>1, <1>4 DEF BillOK, OpenStages
<1>6. \A c \in {Whole} : c \in Int /\ c <= 0
  BY DEF Whole
<1>7. CASE Attached(t) /\ Covered(t) # {} /\ Detached(t, some, rest, ended \cap bill[t].spent, FALSE)
  <2>1. \A c \in some : c \in Int /\ c <= 0
    <3>1. \A n \in Covered(t) : n \in Nat
      BY <1>3 DEF Segments
    <3>2. \A c \in Beyond(t) : c \in Int /\ c <= 0
      BY <1>3 DEF Beyond
    <3> QED BY <3>1, <3>2
  <2>2. \A c \in ended \cap bill[t].spent : c \in Segments /\ phrase[t][c].at = "done"
    BY <1>3
  <2>3. ~talk[t].overtaken => \A c \in bill[t].spent : phrase[t][c].at = "done" => c \in ended \cap bill[t].spent
    BY <1>3, <1>5, <1>7 DEF Attached
  <2> HIDE DEF all, rest, ended, some
  <2> QED BY <1>1, <1>7, <2>1, <2>2, <2>3, DetachedInv
<1>8. CASE ~(Attached(t) /\ Covered(t) # {}) /\ Detached(t, {Whole}, all, {}, FALSE)
  <2>1. ~talk[t].overtaken => \A c \in bill[t].spent : FALSE
    <3>1. CASE talk[t].attached
      BY <1>3, <1>8, <3>1 DEF Attached
    <3>2. CASE ~talk[t].attached
      BY <1>1, <1>4, <1>5, <3>2 DEF PhrasesOK, OpenStages
    <3> QED BY <3>1, <3>2
  <2> HIDE DEF all
  <2> QED BY <1>1, <1>6, <1>8, <2>1, DetachedInv
<1>9. CASE Detached(t, {Whole}, all, {}, TRUE)
  <2>1. PICK revised, none, todo, text : /\ revised = TRUE /\ none = {} /\ todo = {Whole} /\ text = all
                                         /\ Detached(t, todo, text, none, revised)
    BY <1>9
  <2>2. /\ revised \in BOOLEAN /\ none \subseteq bill[t].spent /\ \A c \in todo : c \in Int /\ c <= 0
        /\ \A c \in none : c \in Segments /\ phrase[t][c].at = "done"
    BY <1>6, <2>1
  <2>3. ~revised /\ ~talk[t].overtaken => \A c \in bill[t].spent : phrase[t][c].at = "done" => c \in none
    BY <2>1
  <2> HIDE DEF all, rest, ended, some
  <2>4. Detached(t, todo, text, none, revised)
    BY <2>1
  <2> QED BY <1>1, <2>2, <2>3, <2>4, DetachedInv
<1> HIDE DEF all, rest, ended, some
<1> QED BY <1>2, <1>7, <1>8, <1>9

\* The residual calls, and what they leave of the turn.
LEMMA TranslateRestInv == ASSUME TurnInv, NEW t \in TurnIds, TranslateRest(t) PROVE TurnInv'
<1>1. PICK k, p, b, call : k = talk[t] /\ p = phrase[t] /\ b = bill[t] /\ call = Max(talk[t].todo)
  OBVIOUS
<1>2. /\ TalkOK(k) /\ BillOK(k, p, b) /\ DOMAIN talk = TurnIds /\ DOMAIN bill = TurnIds
      /\ k.at = "translating" /\ k.todo # {} /\ p = phrase[t]
  BY <1>1, TurnParts DEF TranslateRest
<1>3. call \in k.todo /\ call \in Int /\ call <= 0
  <2>1. \A x \in k.todo : x \in Int /\ x <= 0
    BY <1>2 DEF TalkOK
  <2> QED BY <1>1, <1>2, <2>1, GreatestIsMember
<1>4. call \notin Segments
  BY <1>3 DEF Segments
<1>5. UNCHANGED <<script, phrase, capture, finals, settling, loop, worker, epoch, refusals>>
  BY DEF TranslateRest
<1>6. /\ b \in BillRecord /\ b.twice = {} /\ b.billed \subseteq Segments /\ b.owed \subseteq Segments
      /\ call \notin b.billed /\ call \notin b.owed
  BY <1>2, <1>4 DEF BillOK
<1>7. CASE /\ talk' = [talk EXCEPT ![t].todo = @ \ {call}]
           /\ bill' = [bill EXCEPT ![t].spent = @ \cup {call}, ![t].merged = @ \cup {call}]
  <2> DEFINE r == [k EXCEPT !.todo = @ \ {call}]
             d == [b EXCEPT !.spent = @ \cup {call}, !.merged = @ \cup {call}]
  <2>1. talk' = [talk EXCEPT ![t] = r] /\ bill' = [bill EXCEPT ![t] = d]
    BY <1>1, <1>7
  <2>2. r.todo = k.todo \ {call} /\ Same(r, k, {"todo"})
    BY <1>2 DEF TalkOK, TalkFields, Same
  <2>3. /\ d \in BillRecord /\ d.spent = b.spent \cup {call} /\ d.merged = b.merged \cup {call} /\ d.owed = b.owed
        /\ d.billed = b.billed /\ d.twice = b.twice
    BY <1>3, <1>6 DEF BillRecord
  <2> HIDE DEF r, d
  <2>4. /\ r.at = k.at /\ r.said = k.said /\ r.taken = k.taken /\ r.late = k.late /\ r.revised = k.revised
        /\ r.overtaken = k.overtaken /\ r.end = k.end /\ DOMAIN r = TalkFields /\ r.attached = k.attached
    BY <2>2 DEF Same, TalkFields
  <2>5. TalkOK(r)
    BY <1>2, <2>2, <2>4 DEF TalkOK
  <2>6. BillOK(r, p, d)
    <3>1. (d.owed \cup d.merged) \cap d.billed = {} /\ d.owed \cap d.merged = {}
      BY <1>2, <1>6, <2>3 DEF BillOK
    <3>2. \A c \in d.owed \cup d.merged \cup d.billed : c \in Segments => p[c].at = "done"
      BY <1>2, <1>4, <2>3 DEF BillOK
    <3>3. \A c \in d.spent : c \in Segments => p[c].at \in {"answered", "registered", "done"}
      BY <1>2, <1>4, <2>3 DEF BillOK
    <3>4. ~r.revised /\ ~r.overtaken =>
             \A c \in d.spent : (c \in Segments => p[c].at = "done") => c \in d.merged \cup d.owed \cup d.billed
      BY <1>2, <2>3, <2>4 DEF BillOK
    <3>5. r.at \notin OpenStages /\ ~ChargedWhole(r)
      BY <1>2, <2>4 DEF OpenStages, ChargedWhole
    <3> QED BY <1>6, <2>3, <3>1, <3>2, <3>3, <3>4, <3>5 DEF BillOK
  <2>7. DOMAIN bill' = TurnIds /\ bill'[t] = d /\ \A u \in TurnIds \ {t} : bill'[u] = bill[u]
    BY <1>2, <2>1
  <2>8. r.at \notin OpenStages /\ talk[t].at = "translating"
    BY <1>1, <1>2, <2>4 DEF OpenStages
  <2> QED BY <1>1, <1>5, <2>1, <2>5, <2>6, <2>7, <2>8, SettlementMoves
<1>8. ASSUME NEW usage \in SUBSET {call}, SettleTurn(t, "broken"),
             bill' = [bill EXCEPT ![t] = Charge([b EXCEPT !.spent = @ \cup usage], usage)]
      PROVE  TurnInv'
  <2> DEFINE r == [k EXCEPT !.at = "closed", !.end = "broken"]
             d == Charge([b EXCEPT !.spent = @ \cup usage], usage)
  <2>1. talk' = [talk EXCEPT ![t] = r] /\ bill' = [bill EXCEPT ![t] = d]
    BY <1>1, <1>8 DEF SettleTurn
  <2>2. r.at = "closed" /\ r.end = "broken" /\ Same(r, k, {"at", "end"})
    BY <1>2 DEF TalkOK, TalkFields, Same
  <2>3. /\ d \in BillRecord /\ d.spent = b.spent \cup usage /\ d.merged = {} /\ d.owed = b.owed \ usage
        /\ d.billed = b.billed \cup usage /\ d.twice = b.twice \cup (usage \cap b.billed)
    BY <1>3, <1>6 DEF BillRecord, Charge
  <2> HIDE DEF r, d
  <2>4. /\ r.said = k.said /\ r.taken = k.taken /\ r.late = k.late /\ r.revised = k.revised
        /\ r.overtaken = k.overtaken /\ DOMAIN r = TalkFields /\ r.attached = k.attached /\ r.todo = k.todo
    BY <2>2 DEF Same, TalkFields
  <2>5. TalkOK(r)
    BY <1>2, <2>2, <2>4 DEF TalkOK, OpenStages
  <2>6. BillOK(r, p, d)
    <3>1. (d.owed \cup d.merged) \cap d.billed = {} /\ d.twice = {}
      BY <1>2, <1>6, <2>3 DEF BillOK
    <3>2. \A c \in d.owed \cup d.merged \cup d.billed : c \in Segments => p[c].at = "done"
      BY <1>2, <1>4, <2>3 DEF BillOK
    <3>3. \A c \in d.spent : c \in Segments => p[c].at \in {"answered", "registered", "done"}
      BY <1>2, <1>4, <2>3 DEF BillOK
    <3>4. r.at \notin OpenStages /\ r.at \notin {"translating", "settled"} /\ ~ChargedWhole(r)
      BY <2>2 DEF OpenStages, ChargedWhole
    <3> QED BY <1>6, <2>3, <3>1, <3>2, <3>3, <3>4 DEF BillOK
  <2>7. DOMAIN bill' = TurnIds /\ bill'[t] = d /\ \A u \in TurnIds \ {t} : bill'[u] = bill[u]
    BY <1>2, <2>1
  <2>8. r.at \notin OpenStages /\ r.at # "translating" /\ talk[t].at = "translating"
    BY <1>1, <1>2, <2>2 DEF OpenStages
  <2> QED BY <1>1, <1>5, <2>1, <2>5, <2>6, <2>7, <2>8, SettlementMoves
<1> QED BY <1>1, <1>7, <1>8 DEF TranslateRest

\* A settled turn that gives up leaves its calls as they are.
LEMMA GivenUpInv ==
  ASSUME TurnInv, NEW t \in TurnIds, talk[t].at \in {"translating", "settled"}, SettleTurn(t, "broken"),
         UNCHANGED <<script, phrase, bill, capture, finals, settling, loop, worker>>
  PROVE  TurnInv'
<1>1. PICK k, p, b : k = talk[t] /\ p = phrase[t] /\ b = bill[t]
  OBVIOUS
<1>2. /\ TalkOK(k) /\ BillOK(k, p, b) /\ DOMAIN bill = TurnIds /\ k.at \in {"translating", "settled"}
  BY <1>1, TurnParts
<1> DEFINE r == [k EXCEPT !.at = "closed", !.end = "broken"]
<1>3. talk' = [talk EXCEPT ![t] = r]
  BY <1>1 DEF SettleTurn
<1>4. r.at = "closed" /\ r.end = "broken" /\ Same(r, k, {"at", "end"})
  BY <1>2 DEF TalkOK, TalkFields, Same
<1> HIDE DEF r
<1>5. /\ r.said = k.said /\ r.taken = k.taken /\ r.late = k.late /\ r.revised = k.revised
      /\ r.overtaken = k.overtaken /\ DOMAIN r = TalkFields /\ r.attached = k.attached /\ r.todo = k.todo
  BY <1>4 DEF Same, TalkFields
<1>6. TalkOK(r)
  BY <1>2, <1>4, <1>5 DEF TalkOK, OpenStages
<1>7. r.at \notin OpenStages /\ r.at \notin {"translating", "settled"} /\ ~ChargedWhole(r)
  BY <1>4 DEF OpenStages, ChargedWhole
<1>8. BillOK(r, p, b)
  BY <1>2, <1>7 DEF BillOK
<1> QED BY <1>1, <1>2, <1>3, <1>6, <1>7, <1>8, SettlementMoves

\* The mode commits the turn or drops it.
LEMMA CommitTalkInv == ASSUME TurnInv, NEW t \in TurnIds, CommitTalk(t) PROVE TurnInv'
<1>1. PICK k, p, b : k = talk[t] /\ p = phrase[t] /\ b = bill[t]
  OBVIOUS
<1>2. /\ TalkOK(k) /\ BillOK(k, p, b) /\ DOMAIN bill = TurnIds /\ k.at = "translating"
  BY <1>1, TurnParts DEF CommitTalk
<1>3. UNCHANGED <<script, phrase, bill, capture, finals, settling, loop, worker>>
  BY DEF CommitTalk
<1>4. loop # "gone"
  BY <1>1, <1>2 DEF TurnInv, QueuesOK, Unresolved
<1>5. CASE SettleTurn(t, "broken")
  BY <1>1, <1>2, <1>3, <1>5, GivenUpInv
<1>6. ASSUME NEW end \in {"committed", "superseded"}, talk' = [talk EXCEPT ![t].at = "settled", ![t].end = end]
      PROVE  TurnInv'
  <2> DEFINE r == [k EXCEPT !.at = "settled", !.end = end]
  <2>1. talk' = [talk EXCEPT ![t] = r]
    BY <1>1, <1>6
  <2>2. r.at = "settled" /\ r.end = end /\ Same(r, k, {"at", "end"})
    BY <1>2 DEF TalkOK, TalkFields, Same
  <2> HIDE DEF r
  <2>3. /\ r.said = k.said /\ r.taken = k.taken /\ r.late = k.late /\ r.revised = k.revised
        /\ r.overtaken = k.overtaken /\ DOMAIN r = TalkFields /\ r.attached = k.attached /\ r.todo = k.todo
    BY <2>2 DEF Same, TalkFields
  <2>4. TalkOK(r)
    BY <1>2, <2>2, <2>3 DEF TalkOK, OpenStages
  <2>5. r.at \notin OpenStages /\ ~ChargedWhole(r) /\ ~ChargedWhole(k) /\ k.at \notin OpenStages
    BY <1>2, <2>2 DEF OpenStages, ChargedWhole
  <2>6. BillOK(r, p, b)
    BY <1>2, <2>2, <2>3, <2>5 DEF BillOK
  <2>7. r.at # "translating" /\ talk[t].at = "translating"
    BY <1>1, <1>2, <2>2
  <2> QED BY <1>1, <1>2, <1>3, <2>1, <2>4, <2>5, <2>6, <2>7, SettlementMoves
<1>7. (IF talk[t].epoch = epoch THEN "committed" ELSE "superseded") \in {"committed", "superseded"}
  OBVIOUS
<1>8. PICK end \in {"committed", "superseded"} : end = IF talk[t].epoch = epoch THEN "committed" ELSE "superseded"
  BY <1>7
<1>9. \/ SettleTurn(t, "broken")
      \/ talk' = [talk EXCEPT ![t].at = "settled", ![t].end = end]
  BY <1>4, <1>8 DEF CommitTalk
<1> QED BY <1>5, <1>6, <1>9

\* The aggregated usage of a settled turn.
LEMMA ChargedInv ==
  ASSUME TurnInv, NEW t \in TurnIds, talk[t].at = "settled", NEW r,
         talk' = [talk EXCEPT ![t] = r], Same(r, talk[t], {"at", "end", "aloud"}),
         \/ r.at = "speaking" /\ r.end = "committed"
         \/ r.at = "closed" /\ r.end \in {"committed", "superseded"},
         bill' = [bill EXCEPT ![t] = Charge(bill[t], bill[t].merged)],
         UNCHANGED <<script, phrase, capture, finals, settling, loop, worker>>
  PROVE  TurnInv'
<1>1. PICK k, p, b : k = talk[t] /\ p = phrase[t] /\ b = bill[t]
  OBVIOUS
<1>2. /\ TalkOK(k) /\ BillOK(k, p, b) /\ DOMAIN bill = TurnIds /\ k.at = "settled"
  BY <1>1, TurnParts
<1> DEFINE d == Charge(b, b.merged)
<1>3. bill' = [bill EXCEPT ![t] = d]
  BY <1>1
<1>4. /\ d \in BillRecord /\ d.spent = b.spent /\ d.merged = {} /\ d.owed = b.owed \ b.merged
      /\ d.billed = b.billed \cup b.merged /\ d.twice = b.twice \cup (b.merged \cap b.billed)
  BY <1>2 DEF BillOK, BillRecord, Charge
<1> HIDE DEF d
<1>5. Same(r, k, {"at", "end", "aloud"})
  BY <1>1
<1>6. /\ r.said = k.said /\ r.taken = k.taken /\ r.late = k.late /\ r.revised = k.revised
      /\ r.overtaken = k.overtaken /\ DOMAIN r = TalkFields /\ r.attached = k.attached /\ r.todo = k.todo
  BY <1>5 DEF Same, TalkFields
<1>7. TalkOK(r)
  BY <1>2, <1>6 DEF TalkOK, OpenStages
<1>8. r.at \notin OpenStages /\ r.at \notin {"translating", "settled"}
  BY DEF OpenStages
<1>9. BillOK(r, p, d)
  <2>1. /\ (d.owed \cup d.merged) \cap d.billed = {} /\ d.owed \cap d.merged = {} /\ d.twice = {}
        /\ d.owed \subseteq Segments /\ d.owed \cup d.merged \cup d.billed = b.owed \cup b.merged \cup b.billed
    BY <1>2, <1>4 DEF BillOK
  <2>2. /\ \A c \in d.owed \cup d.merged \cup d.billed : c \in Segments => p[c].at = "done"
        /\ \A c \in d.spent : c \in Segments => p[c].at \in {"answered", "registered", "done"}
    BY <1>2, <1>4, <2>1 DEF BillOK
  <2>3. ~r.revised /\ ~r.overtaken =>
             \A c \in d.spent : (c \in Segments => p[c].at = "done") => c \in d.merged \cup d.owed \cup d.billed
    BY <1>2, <1>4, <1>6, <2>1 DEF BillOK
  <2> QED BY <1>4, <1>8, <2>1, <2>2, <2>3 DEF BillOK
<1>10. DOMAIN bill' = TurnIds /\ bill'[t] = d /\ \A u \in TurnIds \ {t} : bill'[u] = bill[u]
  BY <1>2, <1>3
<1> QED BY <1>1, <1>7, <1>8, <1>9, <1>10, SettlementMoves

\* The usage is published, and the turn goes on to be spoken, or the worker
\* gives up (service.go:482-498).
LEMMA BillTurnInv == ASSUME TurnInv, NEW t \in TurnIds, BillTurn(t) PROVE TurnInv'
<1>1. talk[t].at = "settled" /\ UNCHANGED <<script, phrase, capture, finals, settling, loop, worker>>
  BY DEF BillTurn
<1>2. DOMAIN talk[t] = TalkFields
  BY TurnParts DEF TalkOK
<1>3. CASE SettleTurn(t, "broken") /\ UNCHANGED bill
  BY <1>1, <1>3, GivenUpInv
<1>4. CASE bill' = [bill EXCEPT ![t] = Charge(bill[t], bill[t].merged)] /\ talk[t].end = "committed"
           /\ talk' = [talk EXCEPT ![t].at = "speaking"]
  <2> DEFINE r == [talk[t] EXCEPT !.at = "speaking"]
  <2>1. talk' = [talk EXCEPT ![t] = r]
    BY <1>4
  <2>2. r.at = "speaking" /\ r.end = "committed" /\ Same(r, talk[t], {"at", "end", "aloud"})
    BY <1>2, <1>4 DEF Same, TalkFields
  <2> HIDE DEF r
  <2> QED BY <1>1, <1>4, <2>1, <2>2, ChargedInv
<1>5. CASE bill' = [bill EXCEPT ![t] = Charge(bill[t], bill[t].merged)] /\ talk[t].end = "committed"
           /\ talk' = [talk EXCEPT ![t].at = "closed", ![t].aloud = FALSE]
  <2> DEFINE r == [talk[t] EXCEPT !.at = "closed", !.aloud = FALSE]
  <2>1. talk' = [talk EXCEPT ![t] = r]
    BY <1>5
  <2>2. r.at = "closed" /\ r.end = "committed" /\ Same(r, talk[t], {"at", "end", "aloud"})
    BY <1>2, <1>5 DEF Same, TalkFields
  <2> HIDE DEF r
  <2> QED BY <1>1, <1>5, <2>1, <2>2, ChargedInv
<1>6. CASE bill' = [bill EXCEPT ![t] = Charge(bill[t], bill[t].merged)] /\ SettleTurn(t, "superseded")
  <2> DEFINE r == [talk[t] EXCEPT !.at = "closed", !.end = "superseded"]
  <2>1. talk' = [talk EXCEPT ![t] = r]
    BY <1>6 DEF SettleTurn
  <2>2. r.at = "closed" /\ r.end = "superseded" /\ Same(r, talk[t], {"at", "end", "aloud"})
    BY <1>2 DEF Same, TalkFields
  <2> HIDE DEF r
  <2> QED BY <1>1, <1>6, <2>1, <2>2, ChargedInv
<1> QED BY <1>3, <1>4, <1>5, <1>6 DEF BillTurn

\* The remaining speech closes the turn.
LEMMA SpeakRestInv == ASSUME TurnInv, NEW t \in TurnIds, SpeakRest(t) PROVE TurnInv'
<1>1. PICK k, p, b : k = talk[t] /\ p = phrase[t] /\ b = bill[t]
  OBVIOUS
<1>2. /\ TalkOK(k) /\ BillOK(k, p, b) /\ DOMAIN bill = TurnIds /\ k.at = "speaking"
  BY <1>1, TurnParts DEF SpeakRest
<1>3. PICK v1, v2 : talk' = [talk EXCEPT ![t].at = "closed", ![t].dropped = v1, ![t].spoken = v2]
  BY DEF SpeakRest
<1> DEFINE r == [k EXCEPT !.at = "closed", !.dropped = v1, !.spoken = v2]
<1>4. talk' = [talk EXCEPT ![t] = r]
  BY <1>1, <1>3
<1>5. r.at = "closed" /\ Same(r, k, {"at", "dropped", "spoken"})
  BY <1>2 DEF TalkOK, TalkFields, Same
<1> HIDE DEF r
<1>6. /\ r.said = k.said /\ r.taken = k.taken /\ r.late = k.late /\ r.revised = k.revised /\ r.end = k.end
      /\ r.overtaken = k.overtaken /\ DOMAIN r = TalkFields /\ r.attached = k.attached /\ r.todo = k.todo
  BY <1>5 DEF Same, TalkFields
<1>7. TalkOK(r)
  BY <1>2, <1>5, <1>6 DEF TalkOK, OpenStages
<1>8. r.at \notin OpenStages /\ r.at \notin {"translating", "settled"} /\ ChargedWhole(k)
  BY <1>2, <1>5 DEF OpenStages, ChargedWhole
<1>9. BillOK(r, p, b)
  BY <1>2, <1>6, <1>8 DEF BillOK
<1>10. UNCHANGED <<script, phrase, bill, capture, finals, settling, loop, worker>>
  BY DEF SpeakRest
<1> QED BY <1>1, <1>2, <1>4, <1>7, <1>8, <1>9, <1>10, SettlementMoves

-----------------------------------------------------------------------------
\* Every step of the turns preserves their invariant.
LEMMA TurnStepInv == TurnInv /\ [TurnsNext]_turnVars => TurnInv'
<1> SUFFICES ASSUME TurnInv, [TurnsNext]_turnVars PROVE TurnInv'
  OBVIOUS
<1>1. CASE CloseActive
  BY <1>1, CloseActiveInv
<1>2. CASE SwitchMode \/ EndLoop \/ RuntimeEnds \/ UNCHANGED turnVars
  BY <1>2, LoopInv
<1>3. CASE FinishSpeech
  BY <1>3, FinishSpeechInv
<1>4. CASE TakeFinal
  BY <1>4, TakeFinalInv
<1>5. ASSUME NEW t \in TurnIds,
             \/ StartAudio(t) \/ Say(t) \/ ObservePhrase(t) \/ TimerTakes(t) \/ TimerPublishes(t)
             \/ EndSpeech(t) \/ BillLate(t)
      PROVE  TurnInv'
  BY <1>5, StartAudioInv, SayInv, ObservePhraseInv, TimerTakesInv, TimerPublishesInv, EndSpeechInv, BillLateInv
<1>6. ASSUME NEW t \in TurnIds, NEW n \in Segments, Answered(t, n) \/ Admit(t, n) \/ PhraseDone(t, n) PROVE TurnInv'
  BY <1>6, AnsweredInv, AdmitInv, PhraseDoneInv
<1>7. ASSUME NEW t \in TurnIds,
             Finalize(t) \/ TranslateRest(t) \/ CommitTalk(t) \/ BillTurn(t) \/ SpeakRest(t)
      PROVE  TurnInv'
  BY <1>7, FinalizeInv, TranslateRestInv, CommitTalkInv, BillTurnInv, SpeakRestInv
<1> QED BY <1>1, <1>2, <1>3, <1>4, <1>5, <1>6, <1>7 DEF TurnsNext

\* The invariant holds of every session's turns.
LEMMA TurnsInvariant == TurnsSpec => []TurnInv
<1>1. TurnsInit => TurnInv
  BY TurnInitInv
<1>2. TurnInv /\ [TurnsNext]_turnVars => TurnInv'
  BY TurnStepInv
<1> QED BY <1>1, <1>2, PTL DEF TurnsSpec

\* BilledOnce: no provider call of a turn is billed twice, and a turn that is discarded,
\* dropped or committed bills every call made for it, also those answered after
\* its phrases were detached.
THEOREM BilledOnceHolds == TurnsSpec => []BilledOnce
<1>1. TurnInv => BilledOnce
  <2> SUFFICES ASSUME TurnInv, NEW t \in TurnIds
               PROVE  /\ bill[t].twice = {}
                      /\ /\ talk[t].at = "closed" /\ talk[t].end \in {"discarded", "committed", "superseded"}
                         /\ ~talk[t].revised /\ ~talk[t].overtaken /\ ~Pending(t) /\ bill[t].owed = {}
                         => bill[t].spent \subseteq bill[t].billed
    BY DEF BilledOnce
  <2>1. BillOK(talk[t], phrase[t], bill[t])
    BY TurnParts
  <2>2. ASSUME talk[t].at = "closed", talk[t].end \in {"discarded", "committed", "superseded"},
               ~talk[t].revised, ~talk[t].overtaken, ~Pending(t), bill[t].owed = {}, NEW c \in bill[t].spent
        PROVE  c \in bill[t].billed
    <3>1. ChargedWhole(talk[t]) /\ bill[t].merged = {}
      BY <2>1, <2>2 DEF BillOK, ChargedWhole
    <3>2. c \in Segments => phrase[t][c].at = "done"
      BY <2>1, <2>2 DEF BillOK, Pending
    <3> QED BY <2>1, <2>2, <3>1, <3>2 DEF BillOK
  <2>3. bill[t].twice = {}
    BY <2>1 DEF BillOK
  <2> QED BY <2>2, <2>3
<1> QED BY <1>1, TurnsInvariant, PTL

\* FinalsOutliveMedia: a final that was accepted for settlement reaches the commit gate before its
\* runtime is gone, however the media loop ends.
THEOREM FinalsOutliveMediaHolds == TurnsSpec => []FinalsOutliveMedia
<1>1. TurnInv => FinalsOutliveMedia
  <2> SUFFICES ASSUME TurnInv, NEW t \in TurnIds PROVE talk[t].end # "lost"
    BY DEF FinalsOutliveMedia
  <2> QED BY TurnParts DEF TalkOK
<1> QED BY <1>1, TurnsInvariant, PTL

-----------------------------------------------------------------------------
(* Spoken phrases: the inductive invariant of the scheduler, its worker and    *)
(* the speech outputs.                                                         *)

TaskRecord ==
    [u : Utterances, phrases : Seq(Nat) \ {<<>>}, gen : Nat, tries : Nat, cancelled : BOOLEAN]
SchedRecord ==
    [gen : Nat, barrier : {"none", "superseded", "closed"}, closed : BOOLEAN,
     queue : Seq(TaskRecord), active : TaskRecord \cup {NoTask}]
UtteranceRecord ==
    [known : BOOLEAN, final : BOOLEAN, superseded : BOOLEAN, mode : Nat, next : Nat, waiting : Nat]
PlaybackIds == (Utterances \cup {"none", "fallback"}) \X Nat \X Nat
SpeechRecord ==
    [at : {"none", "wait", "synth", "chunks", "write", "cancel", "complete", "drain", "played", "failed"},
     id : PlaybackIds, dead : BOOLEAN, chunks : Nat, played : BOOLEAN]

PlaybackTypes ==
    /\ sched \in SchedRecord /\ utterance \in [Utterances -> UtteranceRecord]
    /\ speech \in [Players -> SpeechRecord]
    /\ mode \in Nat /\ heard \in [Utterances -> Nat] /\ after \in [Utterances -> Int]

\* The worker speaks one task at a time, and none of a generation to come.
WorkerOK(s, k) == (s.active = NoTask <=> k.at = "none") /\ s.active.gen <= s.gen

\* What was cut off is refused, has nothing queued, and its running task is
\* dead and past any retry: it writes the chunk it was about to, no other.
SilentOK(s, k, x, a, u) ==
    /\ -1 <= a /\ a <= 1
    /\ a # -1 =>
          /\ x.superseded \/ s.closed
          /\ \A i \in 1 .. Len(s.queue) : s.queue[i].u # u
          /\ s.active.u = u =>
                /\ k.dead \/ k.at \in {"played", "failed"}
                /\ s.active.cancelled \/ s.closed \/ s.active.gen < s.gen
                /\ a = 1 => k.at # "write"

\* The first phrases of an utterance are in order: heard, running, queued, offered.
OrderOK(s, x, h, u) ==
    LET first(k) == Head(k.phrases) IN
    /\ h < x.next
    /\ s.active.u = u => h <= first(s.active) /\ first(s.active) < x.next
    /\ \A i \in 1 .. Len(s.queue) : s.queue[i].u = u =>
          /\ h <= first(s.queue[i]) /\ first(s.queue[i]) < x.next
          /\ s.active.u = u => first(s.active) <= first(s.queue[i])
          /\ \A j \in 1 .. Len(s.queue) :
                j < i /\ s.queue[j].u = u => first(s.queue[j]) <= first(s.queue[i])

PlaybackInv ==
    /\ PlaybackTypes /\ WorkerOK(sched, speech["phrase"])
    /\ \A u \in Utterances : /\ SilentOK(sched, speech["phrase"], utterance[u], after[u], u)
                             /\ OrderOK(sched, utterance[u], heard[u], u)

-----------------------------------------------------------------------------
(* What Without leaves of a queue, by induction on the tasks it looked at.     *)

\* What Without keeps of the first n tasks, in terms of f, what it keeps of fewer.
KeptOf(f, q, us, n) ==
    IF n = 0 THEN <<>> ELSE IF q[n].u \in us THEN f[n - 1] ELSE Append(f[n - 1], q[n])

\* A set of numbers with zero and the successor of each member has all of them.
LEMMA UpTo ==
  ASSUME NEW T, NEW m \in Nat, 0 \in T, \A n \in 0 .. (m - 1) : n \in T => n + 1 \in T
  PROVE  \A n \in 0 .. m : n \in T
<1> DEFINE Bad == {n \in 0 .. m : n \notin T}
<1>1. SUFFICES ASSUME Bad # {} PROVE FALSE
  OBVIOUS
<1>2. Bad \subseteq Nat
  OBVIOUS
<1>3. PICK n \in Bad : \A k \in Bad : ~(<<k, n>> \in OpToRel(<, Nat))
  BY <1>1, <1>2, NatLessThanWellFounded, WFMin
<1>4. \A k \in Bad : ~(k < n)
  BY <1>2, <1>3 DEF OpToRel
<1>5. n # 0 /\ n - 1 \in 0 .. (m - 1)
  OBVIOUS
<1>6. n - 1 \in T
  BY <1>4, <1>5
<1> QED
  BY <1>5, <1>6

\* Such a function exists, by induction on the number of tasks.
LEMMA KeptExists ==
  ASSUME NEW S, NEW q \in Seq(S), NEW us
  PROVE  \E f : f = [n \in 0 .. Len(q) |-> KeptOf(f, q, us, n)]
<1> DEFINE Good(m) == \E f \in [0 .. m -> Seq(S)] : f = [n \in 0 .. m |-> KeptOf(f, q, us, n)]
<1> DEFINE T == {m \in 0 .. Len(q) : Good(m)}
<1>0. Len(q) \in Nat
  OBVIOUS
<1>1. 0 \in T
  <2> DEFINE f == [n \in 0 .. 0 |-> <<>>]
  <2>1. f \in [0 .. 0 -> Seq(S)] /\ f = [n \in 0 .. 0 |-> KeptOf(f, q, us, n)]
    BY DEF KeptOf
  <2>2. Good(0)
    BY <2>1
  <2> QED
    BY <1>0, <2>2
<1>2. ASSUME NEW k \in 0 .. (Len(q) - 1), k \in T PROVE k + 1 \in T
  <2> DEFINE m == k + 1
  <2>1. m \in 1 .. Len(q) /\ m \in 0 .. Len(q) /\ k \in Nat /\ m - 1 = k /\ m # 0
    BY <1>0
  <2>2. PICK f \in [0 .. k -> Seq(S)] : f = [n \in 0 .. k |-> KeptOf(f, q, us, n)]
    BY <1>2
  <2> DEFINE last == KeptOf(f, q, us, m)
  <2>3. last \in Seq(S)
    <3>1. q[m] \in S /\ f[k] \in Seq(S)
      BY <2>1
    <3> QED
      BY <3>1, <2>1 DEF KeptOf
  <2> HIDE DEF last
  <2> DEFINE g == [n \in 0 .. m |-> IF n = m THEN last ELSE f[n]]
  <2>4. g \in [0 .. m -> Seq(S)]
    BY <2>1, <2>3
  <2>5. ASSUME NEW n \in 0 .. m PROVE g[n] = KeptOf(g, q, us, n)
    <3>1. CASE n = m
      BY <3>1, <2>1 DEF KeptOf, last
    <3>2. CASE n # m
      <4>1. n \in 0 .. k
        BY <3>2, <2>1
      <4>2. f[n] = KeptOf(f, q, us, n)
        BY <4>1, <2>2
      <4>3. n # 0 => n - 1 \in 0 .. m /\ n - 1 # m
        BY <2>1
      <4>4. g[n] = f[n] /\ (n # 0 => g[n - 1] = f[n - 1])
        BY <3>2, <4>3
      <4> QED
        BY <4>2, <4>4 DEF KeptOf
    <3> QED
      BY <3>1, <3>2
  <2> HIDE DEF g
  <2>6. g = [n \in 0 .. m |-> KeptOf(g, q, us, n)]
    BY <2>4, <2>5
  <2> HIDE DEF m
  <2>7. Good(m)
    BY <2>4, <2>6
  <2> HIDE DEF Good
  <2>8. m \in T
    BY <2>1, <2>7
  <2> QED
    BY <2>8 DEF m
<1> HIDE DEF T
<1>3. \A n \in 0 .. Len(q) : n \in T
  BY <1>0, <1>1, <1>2, UpTo
<1> QED
  <2>1. Len(q) \in T
    BY <1>0, <1>3
  <2> QED
    BY <2>1 DEF T

\* Without is the last value of it.
LEMMA KeptIs ==
  ASSUME NEW S, NEW q \in Seq(S), NEW us
  PROVE  \E f : /\ \A n \in 0 .. Len(q) : f[n] = KeptOf(f, q, us, n)
                /\ Without(q, us) = f[Len(q)]
<1> DEFINE h == CHOOSE f : f = [n \in 0 .. Len(q) |-> KeptOf(f, q, us, n)]
<1>1. h = [n \in 0 .. Len(q) |-> KeptOf(h, q, us, n)]
  BY KeptExists
<1>2. Without(q, us) = h[Len(q)]
  BY DEF Without, KeptOf
<1> HIDE DEF h
<1>3. \A n \in 0 .. Len(q) : h[n] = KeptOf(h, q, us, n)
  BY <1>1
<1> QED
  BY <1>2, <1>3

\* r is what is left of q: its tasks in their order, none of them of us.
Left(r, q, n, us) ==
    \E h \in [1 .. Len(r) -> 1 .. n] :
       /\ \A i \in 1 .. Len(r) : r[i] = q[h[i]] /\ q[h[i]].u \notin us
       /\ \A i, j \in 1 .. Len(r) : i < j => h[i] < h[j]

\* Dropping the tasks of us from a queue leaves the others in their order.
LEMMA WithoutKeeps ==
  ASSUME NEW S, NEW q \in Seq(S), NEW us
  PROVE  Without(q, us) \in Seq(S) /\ Left(Without(q, us), q, Len(q), us)
<1>0. Len(q) \in Nat
  OBVIOUS
<1>1. PICK f : /\ \A n \in 0 .. Len(q) : f[n] = KeptOf(f, q, us, n)
               /\ Without(q, us) = f[Len(q)]
  BY KeptIs
<1> DEFINE T == {m \in 0 .. Len(q) : f[m] \in Seq(S) /\ Left(f[m], q, m, us)}
<1>2. 0 \in T
  <2>1. f[0] = <<>> /\ 0 \in 0 .. Len(q)
    BY <1>0, <1>1 DEF KeptOf
  <2>2. Left(<<>>, q, 0, us)
    <3> DEFINE r == <<>>
    <3>1. 1 .. Len(r) = {}
      OBVIOUS
    <3> HIDE DEF r
    <3> DEFINE h == [i \in {} |-> 0]
    <3>2. h \in [1 .. Len(r) -> 1 .. 0]
      BY <3>1
    <3> HIDE DEF h
    <3>3. Left(r, q, 0, us)
      BY <3>1, <3>2 DEF Left
    <3> QED
      BY <3>3 DEF r
  <2>3. f[0] \in Seq(S) /\ Left(f[0], q, 0, us)
    BY <2>1, <2>2
  <2> QED
    BY <2>1, <2>3
<1>3. ASSUME NEW k \in 0 .. (Len(q) - 1), k \in T PROVE k + 1 \in T
  <2> DEFINE m == k + 1
  <2>1. m \in 0 .. Len(q) /\ m \in 1 .. Len(q) /\ k \in Nat /\ m - 1 = k /\ m # 0
    BY <1>0
  <2>2. f[m] = IF q[m].u \in us THEN f[k] ELSE Append(f[k], q[m])
    BY <1>1, <2>1 DEF KeptOf
  <2> HIDE DEF m
  <2>3. f[k] \in Seq(S) /\ Left(f[k], q, k, us) /\ q[m] \in S
    BY <1>3, <2>1
  <2> DEFINE r == f[k]
  <2> HIDE DEF r
  <2>4. PICK h \in [1 .. Len(r) -> 1 .. k] :
           /\ \A i \in 1 .. Len(r) : r[i] = q[h[i]] /\ q[h[i]].u \notin us
           /\ \A i, j \in 1 .. Len(r) : i < j => h[i] < h[j]
    BY <2>3 DEF Left, r
  <2>5. Len(r) \in Nat /\ r \in Seq(S)
    BY <2>3 DEF r
  <2>6. CASE q[m].u \in us
    <3>1. f[m] = r
      BY <2>2, <2>6 DEF r
    <3>2. h \in [1 .. Len(r) -> 1 .. m]
      BY <2>1
    <3>3. Left(r, q, m, us)
      BY <3>2, <2>4 DEF Left
    <3> QED
      BY <3>1, <3>3, <2>1, <2>5 DEF m
  <2>7. CASE q[m].u \notin us
    <3> DEFINE s == Append(r, q[m])
    <3> DEFINE g == [i \in 1 .. (Len(r) + 1) |-> IF i = Len(r) + 1 THEN m ELSE h[i]]
    <3>1. f[m] = s
      BY <2>2, <2>7 DEF r
    <3>2. s \in Seq(S) /\ Len(s) = Len(r) + 1 /\ s[Len(r) + 1] = q[m]
          /\ \A i \in 1 .. Len(r) : s[i] = r[i]
      BY <2>3, <2>5, AppendProperties
    <3> HIDE DEF s
    <3>3. g \in [1 .. Len(s) -> 1 .. m]
      BY <2>1, <2>5, <3>2
    <3>4. \A i \in 1 .. Len(s) : s[i] = q[g[i]] /\ q[g[i]].u \notin us
      BY <2>4, <2>5, <2>7, <3>2
    <3>5. \A i, j \in 1 .. Len(s) : i < j => g[i] < g[j]
      <4>1. \A i \in 1 .. Len(r) : h[i] \in Nat /\ h[i] < m
        BY <2>1, <2>4
      <4> SUFFICES ASSUME NEW i \in 1 .. Len(s), NEW j \in 1 .. Len(s), i < j
                   PROVE  g[i] < g[j]
        OBVIOUS
      <4>2. i \in 1 .. Len(r) /\ g[i] = h[i]
        BY <2>5, <3>2
      <4>3. CASE j = Len(r) + 1
        BY <3>2, <4>1, <4>2, <4>3
      <4>4. CASE j # Len(r) + 1
        <5>1. j \in 1 .. Len(r) /\ g[j] = h[j]
          BY <2>5, <3>2, <4>4
        <5> QED
          BY <2>4, <4>2, <5>1
      <4> QED
        BY <4>3, <4>4
    <3> HIDE DEF g
    <3>6. Left(s, q, m, us)
      BY <3>3, <3>4, <3>5 DEF Left
    <3> QED
      BY <3>1, <3>2, <3>6, <2>1 DEF m
  <2> QED
    BY <2>6, <2>7
<1> HIDE DEF T
<1>4. \A n \in 0 .. Len(q) : n \in T
  BY <1>0, <1>2, <1>3, UpTo
<1>5. Len(q) \in T
  BY <1>0, <1>4
<1> QED
  BY <1>1, <1>5 DEF T

Ended == {"played", "failed"}

\* The speech output of one playback moves on: it neither starts nor is
\* forgotten, stays dead until its end, and writes only while it is not dead.
Onward(k, l) ==
    /\ l.at = "none" <=> k.at = "none"
    /\ k.dead \/ k.at \in Ended => l.dead \/ l.at \in Ended
    /\ l.at = "write" => k.at = "write" \/ (~k.dead /\ k.at \notin Ended)

\* A step that only moves the speech outputs on keeps the invariant.
LEMMA OnwardStep ==
  ASSUME PlaybackInv, UNCHANGED <<sched, utterance, mode, heard, after>>,
         speech' \in [Players -> SpeechRecord], Onward(speech["phrase"], speech'["phrase"])
  PROVE  PlaybackInv'
<1>1. PlaybackTypes'
  BY DEF PlaybackInv, PlaybackTypes
<1>2. WorkerOK(sched, speech["phrase"])'
  BY DEF PlaybackInv, WorkerOK, Onward
<1>3. ASSUME NEW u \in Utterances
      PROVE  SilentOK(sched, speech["phrase"], utterance[u], after[u], u)'
  <2>1. SilentOK(sched, speech["phrase"], utterance[u], after[u], u)
    BY DEF PlaybackInv
  <2>2. speech["phrase"].dead \in BOOLEAN /\ speech'["phrase"].dead \in BOOLEAN
    BY DEF PlaybackInv, PlaybackTypes, SpeechRecord, Players
  <2> QED
    BY <2>1, <2>2 DEF SilentOK, Onward, Ended
<1>4. ASSUME NEW u \in Utterances PROVE OrderOK(sched, utterance[u], heard[u], u)'
  <2>1. OrderOK(sched, utterance[u], heard[u], u)
    BY DEF PlaybackInv
  <2> QED
    BY <2>1 DEF OrderOK
<1> QED
  BY <1>1, <1>2, <1>3, <1>4 DEF PlaybackInv

\* A step of one speech output that leaves its place for another one of it.
LEMMA GoOnward ==
  ASSUME PlaybackInv, NEW p \in Players, NEW at, Go(p, at), speech[p].at # "none",
         at \in {"synth", "chunks", "cancel", "complete", "drain", "played", "failed"},
         at \in Ended \/ speech[p].at \notin Ended
  PROVE  /\ speech' \in [Players -> SpeechRecord]
         /\ Onward(speech["phrase"], speech'["phrase"])
<1> DEFINE k == speech[p]
<1> DEFINE r == IF at \in {"played", "failed"} THEN [Resting EXCEPT !.at = at] ELSE [k EXCEPT !.at = at]
<1>1. speech \in [Players -> SpeechRecord] /\ k \in SpeechRecord
  BY DEF PlaybackInv, PlaybackTypes
<1>2. speech' = [speech EXCEPT ![p] = r]
  BY DEF Go
<1>3. Resting \in SpeechRecord
  BY DEF Resting, NoId, SpeechRecord, PlaybackIds
<1>4. r \in SpeechRecord /\ r.at = at /\ (at \notin Ended => r.dead = k.dead)
  BY <1>1, <1>3 DEF SpeechRecord, Ended
<1> HIDE DEF r
<1>5. speech' \in [Players -> SpeechRecord]
  BY <1>1, <1>2, <1>4
<1>6. Onward(speech["phrase"], speech'["phrase"])
  <2>1. CASE p = "phrase"
    <3>1. speech'["phrase"] = r /\ k = speech["phrase"]
      BY <1>1, <1>2, <2>1 DEF Players
    <3> QED
      BY <3>1, <1>4 DEF Onward, Ended
  <2>2. CASE p # "phrase"
    <3>1. speech'["phrase"] = speech["phrase"]
      BY <1>1, <1>2, <2>2 DEF Players
    <3> QED
      BY <3>1 DEF Onward
  <2> QED
    BY <2>1, <2>2
<1> QED
  BY <1>5, <1>6

\* A playback waits for the track, until it has it or is dead.
LEMMA WaitStep == ASSUME PlaybackInv, NEW p \in Players, WaitForAvailable(p) PROVE PlaybackInv'
<1> USE DEF Ended
<1>1. /\ speech' \in [Players -> SpeechRecord]
      /\ Onward(speech["phrase"], speech'["phrase"])
  <2>1. CASE Go(p, "failed")
    BY <2>1, GoOnward DEF WaitForAvailable
  <2>2. CASE Go(p, "synth")
    BY <2>2, GoOnward DEF WaitForAvailable
  <2> QED
    BY <2>1, <2>2 DEF WaitForAvailable
<1> QED
  BY <1>1, OnwardStep DEF WaitForAvailable

\* A synthesis starts, or gives its reservation back.
LEMMA StreamStep == ASSUME PlaybackInv, NEW p \in Players, StartStream(p) PROVE PlaybackInv'
<1> USE DEF Ended
<1>1. /\ speech' \in [Players -> SpeechRecord]
      /\ Onward(speech["phrase"], speech'["phrase"])
  <2>1. CASE Go(p, "failed")
    BY <2>1, GoOnward DEF StartStream
  <2>2. CASE Go(p, "chunks")
    BY <2>2, GoOnward DEF StartStream
  <2> QED
    BY <2>1, <2>2 DEF StartStream
<1> QED
  BY <1>1, OnwardStep DEF StartStream

\* A stream that ends or breaks goes on to its settlement.
LEMMA EndStreamStep == ASSUME PlaybackInv, NEW p \in Players, EndStream(p) PROVE PlaybackInv'
<1> USE DEF Ended
<1>1. /\ speech' \in [Players -> SpeechRecord]
      /\ Onward(speech["phrase"], speech'["phrase"])
  <2>1. PICK at \in {"cancel", "complete", "played", "failed"} : Go(p, at)
    BY DEF EndStream
  <2> QED
    BY <2>1, GoOnward DEF EndStream
<1> QED
  BY <1>1, OnwardStep DEF EndStream

\* A settlement that begins drains the track or ends the playback.
LEMMA BeginCompleteStep == ASSUME PlaybackInv, NEW p \in Players, BeginComplete(p) PROVE PlaybackInv'
<1> USE DEF Ended
<1>1. /\ speech' \in [Players -> SpeechRecord]
      /\ Onward(speech["phrase"], speech'["phrase"])
  <2>1. PICK at \in {"drain", "played", "failed"} : Go(p, at)
    BY DEF BeginComplete
  <2> QED
    BY <2>1, GoOnward DEF BeginComplete
<1> QED
  BY <1>1, OnwardStep DEF BeginComplete

\* A drain ends the playback.
LEMMA EndCompleteStep == ASSUME PlaybackInv, NEW p \in Players, EndComplete(p) PROVE PlaybackInv'
<1> USE DEF Ended
<1>1. /\ speech' \in [Players -> SpeechRecord]
      /\ Onward(speech["phrase"], speech'["phrase"])
  <2>1. PICK at \in {"played", "failed"} : Go(p, at)
    BY DEF EndComplete
  <2> QED
    BY <2>1, GoOnward DEF EndComplete
<1> QED
  BY <1>1, OnwardStep DEF EndComplete

\* A cancelled playback ends.
LEMMA CancelStep == ASSUME PlaybackInv, NEW p \in Players, CancelPlayback(p) PROVE PlaybackInv'
<1> USE DEF Ended
<1>1. /\ speech' \in [Players -> SpeechRecord]
      /\ Onward(speech["phrase"], speech'["phrase"])
  BY GoOnward DEF CancelPlayback
<1> QED
  BY <1>1, OnwardStep DEF CancelPlayback

\* A record written over one speech output by hand.
LEMMA SpokeOnward ==
  ASSUME PlaybackInv, NEW p \in Players, NEW r \in SpeechRecord, speech' = [speech EXCEPT ![p] = r],
         Onward(speech[p], r)
  PROVE  /\ speech' \in [Players -> SpeechRecord] /\ speech'[p] = r
         /\ Onward(speech["phrase"], speech'["phrase"])
<1>1. speech \in [Players -> SpeechRecord]
  BY DEF PlaybackInv, PlaybackTypes
<1>2. speech' \in [Players -> SpeechRecord] /\ speech'[p] = r
  BY <1>1
<1>3. CASE p = "phrase"
  BY <1>2, <1>3
<1>4. CASE p # "phrase"
  <2>1. speech'["phrase"] = speech["phrase"]
    BY <1>1, <1>4 DEF Players
  <2> QED
    BY <1>2, <2>1 DEF Onward
<1> QED
  BY <1>2, <1>3, <1>4

\* A chunk is taken to be written only by a playback that is not dead.
LEMMA TakeChunkStep == ASSUME PlaybackInv, NEW p \in Players, TakeChunk(p) PROVE PlaybackInv'
<1> DEFINE k == speech[p]
<1>1. k \in SpeechRecord /\ k.at = "chunks" /\ speech \in [Players -> SpeechRecord]
  BY DEF PlaybackInv, PlaybackTypes, TakeChunk
<1>2. PICK at \in {"cancel", "write"} : /\ speech' = [speech EXCEPT ![p].at = at, ![p].played = TRUE]
                                        /\ at = "write" => ~k.dead
  BY DEF TakeChunk
<1> DEFINE r == [k EXCEPT !.at = at, !.played = TRUE]
<1>3. r \in SpeechRecord /\ r.at = at /\ r.dead = k.dead
  BY <1>1 DEF SpeechRecord
<1>4. speech' = [speech EXCEPT ![p] = r]
  BY <1>1, <1>2
<1> HIDE DEF r
<1>5. Onward(k, r)
  BY <1>1, <1>2, <1>3 DEF Onward, Ended
<1>6. speech' \in [Players -> SpeechRecord] /\ Onward(speech["phrase"], speech'["phrase"])
  BY <1>3, <1>4, <1>5, SpokeOnward
<1> QED
  BY <1>6, OnwardStep DEF TakeChunk

\* A chunk reaches the track: a running task is heard, and a dead one falls
\* silent by it.
LEMMA HeardStep ==
  ASSUME PlaybackInv, speech["phrase"].at = "write",
         speech' = [speech EXCEPT !["phrase"].at = "chunks", !["phrase"].chunks = @ + 1],
         heard' = [heard EXCEPT ![sched.active.u] = Head(sched.active.phrases)],
         after' = [after EXCEPT ![sched.active.u] = IF @ = -1 THEN -1 ELSE @ + 1],
         UNCHANGED <<sched, utterance, mode>>
  PROVE  PlaybackInv'
<1> DEFINE k == speech["phrase"]
<1> DEFINE l == [k EXCEPT !.at = "chunks", !.chunks = @ + 1]
<1> DEFINE v == sched.active.u
<1> DEFINE first == Head(sched.active.phrases)
<1> DEFINE more == IF after[v] = -1 THEN -1 ELSE after[v] + 1
<1>1. PlaybackTypes /\ k \in SpeechRecord /\ sched \in SchedRecord /\ WorkerOK(sched, k)
  BY DEF PlaybackInv, PlaybackTypes, Players
<1>2. l \in SpeechRecord /\ l.at = "chunks" /\ l.dead = k.dead /\ k.dead \in BOOLEAN
  <2>1. k.chunks + 1 \in Nat /\ k.dead \in BOOLEAN
    BY <1>1 DEF SpeechRecord
  <2>2. l = [k EXCEPT !.at = "chunks", !.chunks = k.chunks + 1]
    BY <1>1 DEF SpeechRecord
  <2> HIDE DEF k, l
  <2> QED
    BY <1>1, <2>1, <2>2 DEF SpeechRecord
<1>3. sched.active \in TaskRecord /\ v \in Utterances /\ first \in Nat
  <2>1. sched.active # NoTask /\ sched.active \in TaskRecord \cup {NoTask}
    BY <1>1 DEF WorkerOK, SchedRecord
  <2>2. sched.active \in TaskRecord
    BY <2>1
  <2>3. sched.active.phrases \in Seq(Nat) /\ sched.active.phrases # <<>>
    BY <2>2 DEF TaskRecord
  <2> QED
    BY <2>2, <2>3, HeadTailProperties DEF TaskRecord
<1>4. speech' \in [Players -> SpeechRecord] /\ speech'["phrase"] = l
  BY <1>1, <1>2 DEF PlaybackTypes, Players
<1> HIDE DEF l, first
<1>5. more \in Int /\ after' = [after EXCEPT ![v] = more] /\ heard' = [heard EXCEPT ![v] = first]
  BY <1>1, <1>3 DEF PlaybackTypes, first
<1> HIDE DEF more
<1>6. PlaybackTypes'
  BY <1>1, <1>3, <1>4, <1>5 DEF PlaybackTypes
<1>7. WorkerOK(sched, speech["phrase"])'
  BY <1>1, <1>2, <1>4 DEF WorkerOK
<1>8. ASSUME NEW u \in Utterances
      PROVE  SilentOK(sched, speech["phrase"], utterance[u], after[u], u)'
  <2>1. SilentOK(sched, k, utterance[u], after[u], u)
    BY DEF PlaybackInv
  <2>2. CASE u = v
    <3>1. after'[u] = more /\ after[u] \in Int
      BY <1>1, <1>3, <1>5, <2>2 DEF PlaybackTypes
    <3>2. after[u] # -1 => after[u] = 0
      BY <2>1, <2>2, <3>1 DEF SilentOK
    <3>3. after[u] # -1 => k.dead
      BY <2>1, <2>2 DEF SilentOK
    <3> QED
      BY <1>2, <1>4, <2>1, <2>2, <3>1, <3>2, <3>3 DEF SilentOK, more
  <2>3. CASE u # v
    <3>1. after'[u] = after[u]
      BY <1>1, <1>5, <2>3 DEF PlaybackTypes
    <3> QED
      BY <2>1, <2>3, <3>1, <1>2, <1>4 DEF SilentOK
  <2> QED
    BY <2>2, <2>3
<1>9. ASSUME NEW u \in Utterances PROVE OrderOK(sched, utterance[u], heard[u], u)'
  <2>1. OrderOK(sched, utterance[u], heard[u], u)
    BY DEF PlaybackInv
  <2>2. CASE u = v
    <3>1. heard'[u] = first
      BY <1>1, <1>3, <1>5, <2>2 DEF PlaybackTypes
    <3> QED
      BY <1>3, <2>1, <2>2, <3>1 DEF OrderOK, first
  <2>3. CASE u # v
    <3>1. heard'[u] = heard[u]
      BY <1>1, <1>5, <2>3 DEF PlaybackTypes
    <3> QED
      BY <2>1, <3>1 DEF OrderOK
  <2> QED
    BY <2>2, <2>3
<1> QED
  BY <1>6, <1>7, <1>8, <1>9 DEF PlaybackInv

\* A publish: it reaches the track, or it fails and the playback is cancelled.
LEMMA WriteChunkStep == ASSUME PlaybackInv, NEW p \in Players, WriteChunk(p) PROVE PlaybackInv'
<1>1. CASE Go(p, "cancel") /\ UNCHANGED <<heard, after>>
  <2>1. speech' \in [Players -> SpeechRecord] /\ Onward(speech["phrase"], speech'["phrase"])
    BY <1>1, GoOnward DEF WriteChunk, Ended
  <2> QED
    BY <1>1, <2>1, OnwardStep DEF WriteChunk
<1>2. CASE /\ speech' = [speech EXCEPT ![p].at = "chunks", ![p].chunks = @ + 1]
           /\ p # "phrase" /\ UNCHANGED <<heard, after>>
  <2> DEFINE r == [speech[p] EXCEPT !.at = "chunks", !.chunks = @ + 1]
  <2>1. speech \in [Players -> SpeechRecord] /\ speech[p] \in SpeechRecord /\ speech[p].at = "write"
    BY DEF PlaybackInv, PlaybackTypes, WriteChunk
  <2>2. r \in SpeechRecord /\ speech' = [speech EXCEPT ![p] = r] /\ r.at = "chunks" /\ r.dead = speech[p].dead
    BY <1>2, <2>1 DEF SpeechRecord
  <2> HIDE DEF r
  <2>3. Onward(speech[p], r)
    BY <2>1, <2>2 DEF Onward, Ended
  <2>4. speech' \in [Players -> SpeechRecord] /\ Onward(speech["phrase"], speech'["phrase"])
    BY <2>2, <2>3, SpokeOnward
  <2> QED
    BY <1>2, <2>4, OnwardStep DEF WriteChunk
<1>3. CASE /\ speech' = [speech EXCEPT ![p].at = "chunks", ![p].chunks = @ + 1]
           /\ p = "phrase"
           /\ heard' = [heard EXCEPT ![sched.active.u] = Head(sched.active.phrases)]
           /\ after' = [after EXCEPT ![sched.active.u] = IF @ = -1 THEN -1 ELSE @ + 1]
  BY <1>3, HeardStep DEF WriteChunk
<1> QED
  BY <1>1, <1>2, <1>3 DEF WriteChunk

\* Every initial state satisfies the invariant.
LEMMA PlaybackInitInv == ASSUME PlaybackInit PROVE PlaybackInv
<1> USE DEF PlaybackInit
<1>1. Resting \in SpeechRecord /\ Resting.at = "none"
  BY DEF Resting, NoId, SpeechRecord, PlaybackIds
<1>2. sched \in SchedRecord /\ sched.active = NoTask /\ sched.queue = <<>>
  BY DEF SchedRecord
<1>3. NoTask.gen = 0 /\ NoTask.u = "none"
  BY DEF NoTask
<1>4. utterance \in [Utterances -> UtteranceRecord]
  BY DEF UtteranceRecord
<1>5. PlaybackTypes
  BY <1>1, <1>2, <1>4 DEF PlaybackTypes, Players
<1>6. WorkerOK(sched, speech["phrase"])
  BY <1>1, <1>2, <1>3 DEF WorkerOK, Players
<1>7. ASSUME NEW u \in Utterances
      PROVE  /\ SilentOK(sched, speech["phrase"], utterance[u], after[u], u)
             /\ OrderOK(sched, utterance[u], heard[u], u)
  <2>1. u # "none" /\ sched.active.u # u
    BY <1>2, <1>3, PlaybackAssumption
  <2>2. Len(sched.queue) = 0
    BY <1>2
  <2>3. after[u] = -1 /\ heard[u] = 0 /\ utterance[u].next = 1
    OBVIOUS
  <2> HIDE DEF PlaybackInit
  <2> QED
    BY <2>1, <2>2, <2>3 DEF SilentOK, OrderOK
<1> QED
  BY <1>5, <1>6, <1>7 DEF PlaybackInv

\* A queue that is left of another one: the places its tasks had there.
Embeds(r, q, h) ==
    /\ h \in [1 .. Len(r) -> 1 .. Len(q)]
    /\ \A i \in 1 .. Len(r) : r[i].u = q[h[i]].u /\ Head(r[i].phrases) = Head(q[h[i]].phrases)
    /\ \A i, j \in 1 .. Len(r) : i < j => h[i] < h[j]
Shrinks(r, q) == \E h : Embeds(r, q, h)

\* A queue whose tasks keep their utterance and first phrase is left of itself.
LEMMA SameShrinks ==
  ASSUME NEW q \in Seq(TaskRecord), NEW r \in Seq(TaskRecord), Len(r) = Len(q),
         \A i \in 1 .. Len(q) : r[i].u = q[i].u /\ Head(r[i].phrases) = Head(q[i].phrases)
  PROVE  Shrinks(r, q)
<1> DEFINE h == [i \in 1 .. Len(q) |-> i]
<1>1. Len(q) \in Nat
  OBVIOUS
<1>2. h \in [1 .. Len(r) -> 1 .. Len(q)]
  BY <1>1
<1>3. \A i \in 1 .. Len(r) : h[i] = i
  OBVIOUS
<1> HIDE DEF h
<1>4. Embeds(r, q, h)
  BY <1>1, <1>2, <1>3 DEF Embeds
<1> QED
  BY <1>4 DEF Shrinks

\* Nothing is left of any queue.
LEMMA EmptyShrinks == ASSUME NEW q PROVE Shrinks(<<>>, q)
<1> DEFINE r == <<>>
<1> DEFINE h == [i \in {} |-> 0]
<1>1. 1 .. Len(r) = {}
  OBVIOUS
<1>2. h \in [1 .. Len(r) -> 1 .. Len(q)]
  BY <1>1
<1> HIDE DEF h, r
<1>3. Embeds(r, q, h)
  BY <1>1, <1>2 DEF Embeds
<1> QED
  BY <1>3 DEF Shrinks, r

\* The tail is left of a queue.
LEMMA TailShrinks == ASSUME NEW q \in Seq(TaskRecord), q # <<>> PROVE Shrinks(Tail(q), q)
<1> DEFINE r == Tail(q)
<1> DEFINE h == [i \in 1 .. Len(r) |-> i + 1]
<1>1. Len(q) \in Nat /\ Len(r) = Len(q) - 1 /\ \A i \in 1 .. Len(r) : r[i] = q[i + 1]
  BY HeadTailProperties
<1> HIDE DEF r
<1>2. h \in [1 .. Len(r) -> 1 .. Len(q)] /\ \A i \in 1 .. Len(r) : h[i] = i + 1
  BY <1>1
<1> HIDE DEF h
<1>3. Embeds(r, q, h)
  BY <1>1, <1>2 DEF Embeds
<1> QED
  BY <1>3 DEF Shrinks, r

\* What Without keeps is left of a queue, and not of the utterances us.
LEMMA WithoutShrinks ==
  ASSUME NEW q \in Seq(TaskRecord), NEW us
  PROVE  /\ Without(q, us) \in Seq(TaskRecord) /\ Shrinks(Without(q, us), q)
         /\ \A i \in 1 .. Len(Without(q, us)) : Without(q, us)[i].u \notin us
<1> DEFINE r == Without(q, us)
<1>1. r \in Seq(TaskRecord) /\ Left(r, q, Len(q), us)
  BY WithoutKeeps
<1> HIDE DEF r
<1>2. PICK h \in [1 .. Len(r) -> 1 .. Len(q)] :
         /\ \A i \in 1 .. Len(r) : r[i] = q[h[i]] /\ q[h[i]].u \notin us
         /\ \A i, j \in 1 .. Len(r) : i < j => h[i] < h[j]
  BY <1>1 DEF Left
<1>3. Embeds(r, q, h)
  BY <1>2 DEF Embeds
<1>4. \A i \in 1 .. Len(r) : r[i].u \notin us
  BY <1>2
<1> QED
  BY <1>1, <1>3, <1>4 DEF Shrinks, r

\* What is left of an ordered queue is ordered.
LEMMA OrderLeft ==
  ASSUME NEW s \in SchedRecord, NEW s2 \in SchedRecord, NEW x \in UtteranceRecord, NEW x2 \in UtteranceRecord,
         NEW h \in Nat, NEW u \in Utterances, OrderOK(s, x, h, u), x.next <= x2.next,
         s2.active.u = s.active.u, s2.active.phrases = s.active.phrases, Shrinks(s2.queue, s.queue),
         "none" \notin Utterances
  PROVE  OrderOK(s2, x2, h, u)
<1> DEFINE q == s.queue
<1> DEFINE r == s2.queue
<1> DEFINE first(k) == Head(k.phrases)
<1>1. q \in Seq(TaskRecord) /\ r \in Seq(TaskRecord) /\ x.next \in Nat /\ x2.next \in Nat
  BY DEF SchedRecord, UtteranceRecord
<1>2. \A k \in TaskRecord : first(k) \in Nat
  BY HeadTailProperties DEF TaskRecord
<1>3. PICK g : Embeds(r, q, g)
  BY DEF Shrinks
<1>4. \A i \in 1 .. Len(r) : /\ g[i] \in 1 .. Len(q) /\ r[i].u = q[g[i]].u /\ first(r[i]) = first(q[g[i]])
                             /\ first(r[i]) \in Nat
  BY <1>1, <1>2, <1>3 DEF Embeds
<1>5. \A i, j \in 1 .. Len(r) : i < j => g[i] < g[j]
  BY <1>3 DEF Embeds
<1>6. s.active.u = u => first(s.active) \in Nat
  <2>1. SUFFICES ASSUME s.active.u = u PROVE s.active \in TaskRecord
    BY <1>2
  <2>2. s.active \in TaskRecord \cup {NoTask}
    BY DEF SchedRecord
  <2> QED
    BY <2>1, <2>2 DEF NoTask
<1>7. h < x2.next /\ (s2.active.u = u => h <= first(s2.active) /\ first(s2.active) < x2.next)
  BY <1>1, <1>6 DEF OrderOK
<1>8. ASSUME NEW i \in 1 .. Len(r), r[i].u = u
      PROVE  /\ h <= first(r[i]) /\ first(r[i]) < x2.next
             /\ s2.active.u = u => first(s2.active) <= first(r[i])
  <2>1. g[i] \in 1 .. Len(q) /\ q[g[i]].u = u /\ first(r[i]) = first(q[g[i]]) /\ first(r[i]) \in Nat
    BY <1>4, <1>8
  <2>2. /\ h <= first(q[g[i]]) /\ first(q[g[i]]) < x.next
        /\ s.active.u = u => first(s.active) <= first(q[g[i]])
    BY <2>1 DEF OrderOK
  <2>3. h <= first(r[i]) /\ first(r[i]) < x.next
    BY <2>1, <2>2
  <2>4. s2.active.u = u => first(s2.active) <= first(r[i])
    BY <2>1, <2>2
  <2> HIDE DEF first
  <2> QED
    BY <1>1, <2>1, <2>3, <2>4
<1>9. ASSUME NEW i \in 1 .. Len(r), NEW j \in 1 .. Len(r), r[i].u = u, r[j].u = u, j < i
      PROVE  first(r[j]) <= first(r[i])
  <2>1. /\ g[i] \in 1 .. Len(q) /\ q[g[i]].u = u /\ first(r[i]) = first(q[g[i]])
        /\ g[j] \in 1 .. Len(q) /\ q[g[j]].u = u /\ first(r[j]) = first(q[g[j]])
    BY <1>4, <1>9
  <2>2. g[j] < g[i]
    BY <1>5, <1>9
  <2>3. first(q[g[j]]) <= first(q[g[i]])
    BY <2>1, <2>2 DEF OrderOK
  <2> QED
    BY <2>1, <2>3
<1> QED
  BY <1>7, <1>8, <1>9 DEF OrderOK

\* The scheduler's running task is the same, and its generation no younger.
Kept(s, s2) ==
    /\ s2.active.u = s.active.u /\ s2.active.phrases = s.active.phrases
    /\ s2.active.gen = s.active.gen /\ (s.active.cancelled => s2.active.cancelled)
    /\ s2.active = NoTask <=> s.active = NoTask
    /\ s.gen <= s2.gen /\ (s.closed => s2.closed)

\* An utterance is as it was with respect to a cut, or it is cut off now.
CutOrNot(s, s2, k2, x2, a, a2, u) ==
    \/ a2 = a
    \/ /\ a = -1 /\ a2 = 0 /\ (x2.superseded \/ s2.closed)
       /\ \A i \in 1 .. Len(s2.queue) : s2.queue[i].u # u
       /\ s2.active.u = u => /\ k2.dead \/ k2.at \in Ended
                             /\ s2.active.cancelled \/ s2.closed \/ s2.active.gen < s2.gen

\* A step that takes from the queue, moves the running task on, and may cut off
\* utterances keeps the invariant.
LEMMA ShrinkStep ==
  ASSUME PlaybackInv, PlaybackTypes', heard' = heard,
         Kept(sched, sched'), Shrinks(sched'.queue, sched.queue),
         Onward(speech["phrase"], speech'["phrase"]),
         \A u \in Utterances :
            /\ utterance[u].next <= utterance'[u].next
            /\ utterance[u].superseded => utterance'[u].superseded
            /\ CutOrNot(sched, sched', speech'["phrase"], utterance'[u], after[u], after'[u], u)
  PROVE  PlaybackInv'
<1> DEFINE k == speech["phrase"]
<1> DEFINE l == speech'["phrase"]
<1>1. /\ sched \in SchedRecord /\ sched' \in SchedRecord
      /\ k.dead \in BOOLEAN /\ l.dead \in BOOLEAN /\ sched.gen \in Nat /\ sched'.gen \in Nat
      /\ sched.active.gen \in Nat /\ sched.active.gen <= sched.gen
      /\ sched.closed \in BOOLEAN /\ sched'.closed \in BOOLEAN
      /\ sched.active.cancelled \in BOOLEAN /\ sched'.active.cancelled \in BOOLEAN
  <2>1. sched \in SchedRecord /\ sched' \in SchedRecord /\ WorkerOK(sched, k)
    BY DEF PlaybackInv, PlaybackTypes
  <2>2. \A t \in TaskRecord \cup {NoTask} : t.gen \in Nat /\ t.cancelled \in BOOLEAN
    <3>1. NoTask.gen \in Nat /\ NoTask.cancelled \in BOOLEAN
      BY DEF NoTask
    <3>2. \A t \in TaskRecord : t.gen \in Nat /\ t.cancelled \in BOOLEAN
      BY DEF TaskRecord
    <3> QED
      BY <3>1, <3>2
  <2>3. k \in SpeechRecord /\ l \in SpeechRecord
    BY DEF PlaybackInv, PlaybackTypes, Players
  <2> QED
    BY <2>1, <2>2, <2>3 DEF SchedRecord, SpeechRecord, WorkerOK
<1>2. WorkerOK(sched, speech["phrase"])'
  <2>1. WorkerOK(sched, k)
    BY DEF PlaybackInv
  <2> QED
    BY <1>1, <2>1 DEF WorkerOK, Kept, Onward
<1>3. ASSUME NEW u \in Utterances
      PROVE  SilentOK(sched, speech["phrase"], utterance[u], after[u], u)'
  <2>1. SilentOK(sched, k, utterance[u], after[u], u)
    BY DEF PlaybackInv
  <2>2. CASE after'[u] = after[u]
    <3>1. PICK g : Embeds(sched'.queue, sched.queue, g)
      BY DEF Shrinks
    <3>2. (\A i \in 1 .. Len(sched.queue) : sched.queue[i].u # u)
          => \A i \in 1 .. Len(sched'.queue) : sched'.queue[i].u # u
      BY <3>1 DEF Embeds
    <3>3. utterance[u].superseded => utterance'[u].superseded
      OBVIOUS
    <3> QED
      BY <1>1, <2>1, <2>2, <3>2, <3>3 DEF SilentOK, Kept, Onward, Ended
  <2>3. CASE after'[u] # after[u]
    <3>1. /\ after'[u] = 0 /\ (utterance'[u].superseded \/ sched'.closed)
          /\ \A i \in 1 .. Len(sched'.queue) : sched'.queue[i].u # u
          /\ sched'.active.u = u => /\ l.dead \/ l.at \in Ended
                                    /\ \/ sched'.active.cancelled \/ sched'.closed
                                       \/ sched'.active.gen < sched'.gen
      BY <2>3 DEF CutOrNot
    <3> QED
      BY <3>1 DEF SilentOK, Ended
  <2> QED
    BY <2>2, <2>3
<1>4. ASSUME NEW u \in Utterances PROVE OrderOK(sched, utterance[u], heard[u], u)'
  <2>1. OrderOK(sched, utterance[u], heard[u], u)
    BY DEF PlaybackInv
  <2>2. heard[u] \in Nat /\ utterance[u] \in UtteranceRecord /\ utterance'[u] \in UtteranceRecord
    BY DEF PlaybackInv, PlaybackTypes
  <2>3. utterance[u].next <= utterance'[u].next
    OBVIOUS
  <2>4. OrderOK(sched', utterance'[u], heard[u], u)
    BY <1>1, <2>1, <2>2, <2>3, OrderLeft, PlaybackAssumption DEF Kept
  <2> QED
    BY <2>4
<1> QED
  BY <1>2, <1>3, <1>4 DEF PlaybackInv

\* An utterance is opened: nothing is queued or cut off by it.
LEMMA ResetStep == ASSUME PlaybackInv, NEW u \in Utterances, ResetUtterance(u) PROVE PlaybackInv'
<1>1. PlaybackTypes
  BY DEF PlaybackInv
<1>2. PlaybackTypes'
  BY <1>1 DEF ResetUtterance, PlaybackTypes, SchedRecord, UtteranceRecord
<1>3. sched'.queue = sched.queue /\ sched.queue \in Seq(TaskRecord) /\ Kept(sched, sched')
  BY <1>1 DEF ResetUtterance, PlaybackTypes, SchedRecord, Kept
<1>4. Shrinks(sched'.queue, sched.queue)
  BY <1>3, SameShrinks
<1>5. \A v \in Utterances : utterance[v].next <= utterance'[v].next
                            /\ utterance'[v].superseded = utterance[v].superseded
  BY <1>1 DEF ResetUtterance, PlaybackTypes, UtteranceRecord
<1>6. speech' = speech /\ after' = after /\ heard' = heard
  BY DEF ResetUtterance
<1> QED
  BY <1>2, <1>3, <1>4, <1>5, <1>6, ShrinkStep DEF CutOrNot, Onward

\* A fallback playback is not one of the phrase worker.
LEMMA FallbackStep == ASSUME PlaybackInv, StartFallback PROVE PlaybackInv'
<1> DEFINE r == Started(<<"fallback", 0, 0>>)
<1>1. speech \in [Players -> SpeechRecord] /\ speech' = [speech EXCEPT !["fallback"] = r]
  BY DEF PlaybackInv, PlaybackTypes, StartFallback
<1>2. r \in SpeechRecord
  <2>1. <<"fallback", 0, 0>> \in PlaybackIds
    BY DEF PlaybackIds
  <2> QED
    BY <2>1 DEF Started, Resting, NoId, SpeechRecord
<1> HIDE DEF r
<1>3. speech' \in [Players -> SpeechRecord] /\ speech'["phrase"] = speech["phrase"]
  BY <1>1, <1>2 DEF Players
<1>4. Onward(speech["phrase"], speech'["phrase"])
  BY <1>3 DEF Onward
<1> QED
  BY <1>3, <1>4, OnwardStep DEF StartFallback

\* A step that leaves the scheduler, the outputs and the listener alone.
LEMMA StillStep ==
  ASSUME PlaybackInv, UNCHANGED <<sched, utterance, speech, heard, after>>, mode' \in Nat PROVE PlaybackInv'
<1> USE DEF PlaybackInv
<1>1. PlaybackTypes'
  BY DEF PlaybackTypes
<1>2. WorkerOK(sched, speech["phrase"])'
  BY DEF WorkerOK
<1>3. \A u \in Utterances : SilentOK(sched, speech["phrase"], utterance[u], after[u], u)'
  BY DEF SilentOK
<1>4. \A u \in Utterances : OrderOK(sched, utterance[u], heard[u], u)'
  BY DEF OrderOK
<1> QED
  BY <1>1, <1>2, <1>3, <1>4

\* An accepted phrase is the last one offered; no other utterance changes.
LEMMA OfferKeeps ==
  ASSUME PlaybackTypes, NEW u \in Utterances, NEW final \in BOOLEAN, Offer(u, utterance[u].next, final)
  PROVE  /\ utterance' \in [Utterances -> UtteranceRecord]
         /\ utterance'[u].next = utterance[u].next + 1
         /\ \A v \in Utterances \ {u} : utterance'[v] = utterance[v]
         /\ \A v \in Utterances : utterance[v].next <= utterance'[v].next
                                  /\ utterance'[v].superseded = utterance[v].superseded
<1> DEFINE x == utterance[u]
<1> DEFINE y == [x EXCEPT !.next = x.next + 1, !.waiting = 0, !.known = TRUE, !.final = final]
<1>1. utterance \in [Utterances -> UtteranceRecord] /\ x \in UtteranceRecord /\ x.next \in Nat
  BY DEF PlaybackTypes, UtteranceRecord
<1>2. y \in UtteranceRecord /\ y.next = x.next + 1 /\ y.superseded = x.superseded
  <2> HIDE DEF x
  <2>1. x.next + 1 \in Nat
    BY <1>1
  <2> QED
    BY <1>1, <2>1 DEF UtteranceRecord
<1>3. utterance' = [utterance EXCEPT ![u] = y]
  BY <1>1 DEF Offer
<1> HIDE DEF y
<1>4. \A v \in Utterances : utterance[v].next \in Nat
  BY <1>1 DEF UtteranceRecord
<1> QED
  BY <1>1, <1>2, <1>3, <1>4

\* A phrase joined to others leaves the first one first.
LEMMA FirstStays ==
  ASSUME NEW s \in Seq(Nat), s # <<>>, NEW n \in Nat
  PROVE  Append(s, n) \in Seq(Nat) \ {<<>>} /\ Head(Append(s, n)) = Head(s)
  BY AppendProperties, HeadTailAppend

\* A phrase that joins the queue's tail leaves its first phrase the first.
LEMMA MergeStep ==
  ASSUME PlaybackInv, NEW u \in Utterances, Enqueue(u),
         Mergeable(u, utterance[u].next = LastPhrase(u)),
         sched' = [sched EXCEPT !.queue[Len(sched.queue)].phrases = Append(@, utterance[u].next)],
         Offer(u, utterance[u].next, utterance[u].next = LastPhrase(u))
  PROVE  PlaybackInv'
<1> DEFINE q == sched.queue
<1> DEFINE t == q[Len(q)]
<1> DEFINE n == utterance[u].next
<1> DEFINE ph == Append(t.phrases, n)
<1> DEFINE r == [q EXCEPT ![Len(q)] = [t EXCEPT !.phrases = ph]]
<1>1. PlaybackTypes
  BY DEF PlaybackInv
<1>2. q \in Seq(TaskRecord) /\ q # <<>> /\ Len(q) \in 1 .. Len(q) /\ n \in Nat
  BY <1>1 DEF Mergeable, PlaybackTypes, SchedRecord, UtteranceRecord
<1>3. t \in TaskRecord
  BY <1>2
<1>4. t.phrases \in Seq(Nat) /\ t.phrases # <<>>
  BY <1>3 DEF TaskRecord
<1>5. ph \in Seq(Nat) \ {<<>>} /\ Head(ph) = Head(t.phrases)
  BY <1>2, <1>4, FirstStays
<1> HIDE DEF ph
<1> DEFINE t2 == [t EXCEPT !.phrases = ph]
<1>6. t2 \in TaskRecord /\ t2.u = t.u /\ Head(t2.phrases) = Head(t.phrases)
  BY <1>3, <1>5 DEF TaskRecord
<1>7. sched' = [sched EXCEPT !.queue = r]
  BY <1>1 DEF PlaybackTypes, SchedRecord, ph
<1> HIDE DEF t2
<1>8. /\ r \in Seq(TaskRecord) /\ Len(r) = Len(q)
      /\ \A i \in 1 .. Len(q) : r[i] = IF i = Len(q) THEN t2 ELSE q[i]
  BY <1>2, <1>6, ExceptSeq DEF t2
<1> HIDE DEF r
<1>9. Shrinks(r, q)
  <2>1. \A i \in 1 .. Len(q) : r[i].u = q[i].u /\ Head(r[i].phrases) = Head(q[i].phrases)
    BY <1>6, <1>8
  <2> QED
    BY <1>2, <1>8, <2>1, SameShrinks
<1>10. sched' \in SchedRecord /\ sched'.queue = r /\ Kept(sched, sched')
  <2>1. sched' \in SchedRecord /\ sched'.queue = r
    BY <1>1, <1>7, <1>8 DEF PlaybackTypes, SchedRecord
  <2>2. sched'.active = sched.active /\ sched'.gen = sched.gen /\ sched'.closed = sched.closed
        /\ sched.gen \in Nat
    BY <1>1, <1>7 DEF PlaybackTypes, SchedRecord
  <2> QED
    BY <2>1, <2>2 DEF Kept
<1>11. /\ utterance' \in [Utterances -> UtteranceRecord]
       /\ \A v \in Utterances : utterance[v].next <= utterance'[v].next
                                /\ utterance'[v].superseded = utterance[v].superseded
  BY <1>1, <1>2, OfferKeeps
<1>12. PlaybackTypes'
  BY <1>1, <1>10, <1>11 DEF Enqueue, PlaybackTypes
<1> QED
  BY <1>9, <1>10, <1>11, <1>12, ShrinkStep DEF Enqueue, CutOrNot, Onward

\* A phrase that follows the queue is past all that were offered before it.
LEMMA QueueStep ==
  ASSUME PlaybackInv, NEW u \in Utterances, Enqueue(u),
         ~Refused(u, utterance[u].next = LastPhrase(u)),
         sched' = [sched EXCEPT !.queue =
            Append(@, [NoTask EXCEPT !.u = u, !.phrases = <<utterance[u].next>>, !.gen = sched.gen])],
         Offer(u, utterance[u].next, utterance[u].next = LastPhrase(u))
  PROVE  PlaybackInv'
<1> DEFINE q == sched.queue
<1> DEFINE n == utterance[u].next
<1> DEFINE t == [NoTask EXCEPT !.u = u, !.phrases = <<n>>, !.gen = sched.gen]
<1> DEFINE r == Append(q, t)
<1>1. PlaybackTypes
  BY DEF PlaybackInv
<1>2. q \in Seq(TaskRecord) /\ Len(q) \in Nat /\ n \in Nat /\ sched.gen \in Nat
  BY <1>1 DEF PlaybackTypes, SchedRecord, UtteranceRecord
<1>3. t \in TaskRecord /\ t.u = u /\ Head(t.phrases) = n
  <2>1. <<n>> \in Seq(Nat) \ {<<>>} /\ Head(<<n>>) = n
    BY <1>2
  <2> QED
    BY <1>2, <2>1 DEF NoTask, TaskRecord
<1> HIDE DEF t
<1>4. /\ r \in Seq(TaskRecord) /\ Len(r) = Len(q) + 1 /\ r[Len(q) + 1] = t
      /\ \A i \in 1 .. Len(q) : r[i] = q[i]
  BY <1>2, <1>3, AppendProperties
<1>5. sched' = [sched EXCEPT !.queue = r]
  BY <1>1 DEF PlaybackTypes, SchedRecord, t
<1> HIDE DEF r
<1>6. sched' \in SchedRecord /\ sched'.queue = r /\ sched'.active = sched.active /\ sched'.gen = sched.gen
      /\ sched'.closed = sched.closed
  BY <1>1, <1>4, <1>5 DEF PlaybackTypes, SchedRecord
<1>7. /\ utterance' \in [Utterances -> UtteranceRecord]
      /\ utterance'[u].next = n + 1 /\ utterance'[u].superseded = utterance[u].superseded
      /\ \A v \in Utterances \ {u} : utterance'[v] = utterance[v]
  BY <1>1, <1>2, OfferKeeps
<1>8. PlaybackTypes' /\ WorkerOK(sched, speech["phrase"])'
  BY <1>1, <1>6, <1>7 DEF Enqueue, PlaybackTypes, PlaybackInv, WorkerOK
<1>9. after[u] = -1
  <2>1. ~utterance[u].superseded /\ ~sched.closed
    BY DEF Refused
  <2>2. SilentOK(sched, speech["phrase"], utterance[u], after[u], u)
    BY DEF PlaybackInv
  <2> QED
    BY <2>1, <2>2 DEF SilentOK
<1>10. ASSUME NEW v \in Utterances
       PROVE  SilentOK(sched, speech["phrase"], utterance[v], after[v], v)'
  <2>1. SilentOK(sched, speech["phrase"], utterance[v], after[v], v)
    BY DEF PlaybackInv
  <2>2. speech' = speech /\ after' = after
    BY DEF Enqueue
  <2>3. CASE v = u
    BY <1>9, <2>2, <2>3 DEF SilentOK
  <2>4. CASE v # u
    <3>1. (\A i \in 1 .. Len(q) : q[i].u # v) => \A i \in 1 .. Len(r) : r[i].u # v
      BY <1>2, <1>3, <1>4, <2>4
    <3> QED
      BY <1>6, <1>7, <2>1, <2>2, <2>4, <3>1 DEF SilentOK
  <2> QED
    BY <2>3, <2>4
<1>11. ASSUME NEW v \in Utterances PROVE OrderOK(sched, utterance[v], heard[v], v)'
  <2>1. OrderOK(sched, utterance[v], heard[v], v)
    BY DEF PlaybackInv
  <2>2. heard' = heard /\ heard[v] \in Nat
    BY <1>1 DEF Enqueue, PlaybackTypes
  <2>3. CASE v # u
    <3>1. \A i \in 1 .. Len(r) : r[i].u = v => i \in 1 .. Len(q) /\ r[i] = q[i]
      BY <1>2, <1>3, <1>4, <2>3
    <3> QED
      BY <1>6, <1>7, <2>1, <2>2, <2>3, <3>1 DEF OrderOK
  <2>4. CASE v = u
    <3>1. \A i \in 1 .. Len(r) : \/ i \in 1 .. Len(q) /\ r[i] = q[i]
                                 \/ i = Len(q) + 1 /\ Head(r[i].phrases) = n
      BY <1>2, <1>3, <1>4
    <3>2. \A k \in TaskRecord : Head(k.phrases) \in Nat
      BY HeadTailProperties DEF TaskRecord
    <3>3. \A i \in 1 .. Len(q) : Head(q[i].phrases) \in Nat
      BY <1>2, <3>2
    <3>4. sched.active.u = v => Head(sched.active.phrases) \in Nat
      <4>1. SUFFICES ASSUME sched.active.u = v PROVE sched.active \in TaskRecord
        BY <3>2
      <4>2. sched.active \in TaskRecord \cup {NoTask} /\ v # NoTask.u
        BY <1>1, PlaybackAssumption DEF PlaybackTypes, SchedRecord, NoTask
      <4> QED
        BY <4>1, <4>2
    <3>5. heard[v] < n /\ n < n + 1 /\ utterance'[v].next = n + 1
      BY <1>2, <1>7, <2>1, <2>4 DEF OrderOK
    <3>6. ASSUME NEW i \in 1 .. Len(r), r[i].u = v
          PROVE  /\ heard[v] <= Head(r[i].phrases) /\ Head(r[i].phrases) < n + 1
                 /\ sched.active.u = v => Head(sched.active.phrases) <= Head(r[i].phrases)
      <4>1. CASE i \in 1 .. Len(q) /\ r[i] = q[i]
        BY <1>2, <2>1, <2>2, <2>4, <3>3, <3>6, <4>1 DEF OrderOK
      <4>2. CASE i = Len(q) + 1 /\ Head(r[i].phrases) = n
        BY <1>2, <2>1, <2>2, <2>4, <3>4, <4>2 DEF OrderOK
      <4> QED
        BY <3>1, <4>1, <4>2
    <3>7. ASSUME NEW i \in 1 .. Len(r), NEW j \in 1 .. Len(r), r[i].u = v, r[j].u = v, j < i
          PROVE  Head(r[j].phrases) <= Head(r[i].phrases)
      <4>1. j \in 1 .. Len(q) /\ r[j] = q[j]
        BY <1>2, <1>4, <3>7
      <4>2. CASE i \in 1 .. Len(q) /\ r[i] = q[i]
        BY <2>1, <2>4, <3>7, <4>1, <4>2 DEF OrderOK
      <4>3. CASE i = Len(q) + 1 /\ Head(r[i].phrases) = n
        <5>1. Head(q[j].phrases) < n
          BY <2>1, <2>4, <3>7, <4>1 DEF OrderOK
        <5> QED
          BY <1>2, <3>3, <4>1, <4>3, <5>1
      <4> QED
        BY <3>1, <4>2, <4>3
    <3>8. sched.active.u = v => heard[v] <= Head(sched.active.phrases) /\ Head(sched.active.phrases) < n + 1
      BY <1>2, <2>1, <2>4, <3>4 DEF OrderOK
    <3>9. OrderOK(sched', utterance'[v], heard[v], v)
      <4>1. sched'.queue = r /\ sched'.active = sched.active /\ utterance'[v].next = n + 1
        BY <1>6, <3>5
      <4>2. heard[v] < n + 1
        BY <1>2, <2>2, <3>5
      <4> HIDE DEF n, q
      <4> QED
        BY <3>6, <3>7, <3>8, <4>1, <4>2 DEF OrderOK
    <3> QED
      BY <2>2, <3>9
  <2> QED
    BY <2>3, <2>4
<1> QED
  BY <1>8, <1>10, <1>11 DEF PlaybackInv

\* An offer, with all its outcomes.
LEMMA EnqueueStep == ASSUME PlaybackInv, NEW u \in Utterances, Enqueue(u) PROVE PlaybackInv'
<1> DEFINE n == utterance[u].next
<1> DEFINE final == n = LastPhrase(u)
<1>1. PlaybackTypes
  BY DEF PlaybackInv
<1>2. CASE /\ UNCHANGED sched
           /\ \/ utterance' = [utterance EXCEPT ![u].next = n + 1, ![u].waiting = 0]
              \/ utterance' = [utterance EXCEPT ![u].waiting = sched.gen]
  <2>1. sched.queue \in Seq(TaskRecord) /\ Kept(sched, sched') /\ sched.gen \in Nat /\ n \in Nat
    BY <1>1, <1>2 DEF PlaybackTypes, SchedRecord, UtteranceRecord, Kept
  <2>2. /\ utterance' \in [Utterances -> UtteranceRecord]
        /\ \A v \in Utterances : utterance[v].next <= utterance'[v].next
                                 /\ utterance'[v].superseded = utterance[v].superseded
    <3>1. utterance \in [Utterances -> UtteranceRecord]
      BY <1>1 DEF PlaybackTypes
    <3>2. PICK y \in UtteranceRecord : /\ utterance' = [utterance EXCEPT ![u] = y]
                                      /\ n <= y.next /\ y.superseded = utterance[u].superseded
      <4> DEFINE x == utterance[u]
      <4> DEFINE y1 == [x EXCEPT !.next = n + 1, !.waiting = 0]
      <4> DEFINE y2 == [x EXCEPT !.waiting = sched.gen]
      <4>1. x \in UtteranceRecord
        BY <3>1
      <4>2. y1 \in UtteranceRecord /\ n <= y1.next /\ y1.superseded = x.superseded
        <5>1. n + 1 \in Nat /\ n <= n + 1
          BY <2>1
        <5> HIDE DEF x, n
        <5> QED
          BY <4>1, <5>1 DEF UtteranceRecord
      <4>3. y2 \in UtteranceRecord /\ n <= y2.next /\ y2.superseded = x.superseded
        BY <2>1, <4>1 DEF UtteranceRecord
      <4>4. utterance' = [utterance EXCEPT ![u] = y1] \/ utterance' = [utterance EXCEPT ![u] = y2]
        BY <1>2, <3>1
      <4> HIDE DEF y1, y2
      <4> QED
        BY <4>2, <4>3, <4>4
    <3>3. \A v \in Utterances : utterance[v].next \in Nat
      BY <3>1 DEF UtteranceRecord
    <3> QED
      BY <3>1, <3>2, <3>3
  <2>3. PlaybackTypes'
    BY <1>1, <1>2, <2>2 DEF Enqueue, PlaybackTypes
  <2>4. Shrinks(sched'.queue, sched.queue)
    BY <1>2, <2>1, SameShrinks
  <2> QED
    BY <2>1, <2>2, <2>3, <2>4, ShrinkStep DEF Enqueue, CutOrNot, Onward
<1>3. CASE ~Refused(u, final) /\ Mergeable(u, final) /\ Offer(u, n, final)
           /\ sched' = [sched EXCEPT !.queue[Len(sched.queue)].phrases = Append(@, n)]
  BY <1>3, MergeStep
<1>4. CASE ~Refused(u, final) /\ Offer(u, n, final)
           /\ sched' = [sched EXCEPT !.queue =
                 Append(@, [NoTask EXCEPT !.u = u, !.phrases = <<n>>, !.gen = sched.gen])]
  BY <1>4, QueueStep
<1> QED
  BY <1>2, <1>3, <1>4 DEF Enqueue

\* The worker takes the head of the queue: it drops one of an old generation.
LEMMA StaleStep ==
  ASSUME PlaybackInv, PopTask, Head(sched.queue).gen # sched.gen PROVE PlaybackInv'
<1>1. PlaybackTypes /\ sched.queue \in Seq(TaskRecord) /\ sched.queue # <<>> /\ sched.gen \in Nat
  BY DEF PlaybackInv, PlaybackTypes, SchedRecord, PopTask
<1>2. Tail(sched.queue) \in Seq(TaskRecord) /\ Shrinks(Tail(sched.queue), sched.queue)
  BY <1>1, TailShrinks, HeadTailProperties
<1>3. sched' = [sched EXCEPT !.queue = Tail(sched.queue)] /\ UNCHANGED speech
  BY <1>1 DEF PopTask, PlaybackTypes, SchedRecord
<1>4. sched' \in SchedRecord /\ sched'.queue = Tail(sched.queue)
      /\ sched'.active = sched.active /\ sched'.gen = sched.gen /\ sched'.closed = sched.closed
  BY <1>1, <1>2, <1>3 DEF PlaybackTypes, SchedRecord
<1>5. PlaybackTypes' /\ Kept(sched, sched')
  BY <1>1, <1>3, <1>4 DEF PlaybackTypes, PopTask, Kept
<1>6. utterance' = utterance /\ after' = after /\ heard' = heard
      /\ \A u \in Utterances : utterance[u].next <= utterance[u].next
  BY <1>1 DEF PopTask, PlaybackTypes, UtteranceRecord
<1> QED
  BY <1>2, <1>3, <1>4, <1>5, <1>6, ShrinkStep DEF CutOrNot, Onward

\* A task of the present generation leaves the queue's head for the worker.
LEMMA TakeTaskStep ==
  ASSUME PlaybackInv, PopTask, Head(sched.queue).gen = sched.gen PROVE PlaybackInv'
<1> DEFINE q == sched.queue
<1> DEFINE r == Tail(q)
<1> DEFINE t == Head(q)
<1> DEFINE t2 == [t EXCEPT !.tries = @ + 1]
<1> DEFINE k2 == Started(<<t.u, Head(t.phrases), t.tries>>)
<1>1. PlaybackTypes /\ sched \in SchedRecord /\ q \in Seq(TaskRecord) /\ q # <<>> /\ Len(q) \in Nat \ {0}
  BY DEF PlaybackInv, PlaybackTypes, SchedRecord, PopTask
<1>2. t \in TaskRecord /\ t = q[1] /\ r \in Seq(TaskRecord) /\ Len(r) = Len(q) - 1
      /\ \A i \in 1 .. Len(r) : r[i] = q[i + 1]
  BY <1>1, HeadTailProperties
<1>3. sched' = [sched EXCEPT !.queue = r, !.active = t2] /\ speech' = [speech EXCEPT !["phrase"] = k2]
  BY <1>1 DEF PopTask, SchedRecord
<1> HIDE DEF t, r
<1>4. t2 \in TaskRecord /\ t2.u = t.u /\ t2.phrases = t.phrases /\ t2.gen = t.gen /\ t2 # NoTask
  <2>1. t.tries + 1 \in Nat /\ t.u # "none"
    BY <1>2, PlaybackAssumption DEF TaskRecord
  <2>2. t2 = [t EXCEPT !.tries = t.tries + 1]
    BY <1>2 DEF TaskRecord
  <2>3. t2 \in TaskRecord /\ t2.u = t.u /\ t2.phrases = t.phrases /\ t2.gen = t.gen
    BY <1>2, <2>1, <2>2 DEF TaskRecord
  <2>4. NoTask.u = "none"
    BY DEF NoTask
  <2> QED
    BY <2>1, <2>3, <2>4
<1>5. \A k \in TaskRecord : Head(k.phrases) \in Nat
  BY HeadTailProperties DEF TaskRecord
<1>6. k2 \in SpeechRecord /\ k2.at = "wait"
  <2>1. <<t.u, Head(t.phrases), t.tries>> \in PlaybackIds
    BY <1>2, <1>5 DEF TaskRecord, PlaybackIds
  <2> QED
    BY <2>1 DEF Started, Resting, SpeechRecord
<1> HIDE DEF t2, k2
<1>7. sched' \in SchedRecord /\ sched'.queue = r /\ sched'.active = t2 /\ sched'.gen = sched.gen
      /\ sched'.closed = sched.closed
  BY <1>1, <1>2, <1>3, <1>4 DEF SchedRecord
<1>8. speech' \in [Players -> SpeechRecord] /\ speech'["phrase"] = k2
  BY <1>1, <1>3, <1>6 DEF PlaybackTypes, Players
<1>9. PlaybackTypes'
  BY <1>1, <1>7, <1>8 DEF PlaybackTypes, PopTask
<1>10. t.gen = sched.gen /\ sched.gen \in Nat
  BY <1>1 DEF t, SchedRecord
<1>11. WorkerOK(sched, speech["phrase"])'
  BY <1>4, <1>6, <1>7, <1>8, <1>10 DEF WorkerOK
<1>12. ASSUME NEW u \in Utterances
       PROVE  SilentOK(sched, speech["phrase"], utterance[u], after[u], u)'
  <2>1. SilentOK(sched, speech["phrase"], utterance[u], after[u], u)
    BY DEF PlaybackInv
  <2>2. UNCHANGED <<after, utterance>>
    BY DEF PopTask
  <2>3. (\A i \in 1 .. Len(q) : q[i].u # u) => t2.u # u /\ \A i \in 1 .. Len(r) : r[i].u # u
    <3>1. SUFFICES ASSUME \A i \in 1 .. Len(q) : q[i].u # u
                   PROVE  t2.u # u /\ \A i \in 1 .. Len(r) : r[i].u # u
      OBVIOUS
    <3>2. 1 \in 1 .. Len(q) /\ \A i \in 1 .. Len(r) : i + 1 \in 1 .. Len(q)
      BY <1>1, <1>2
    <3> QED
      BY <1>2, <1>4, <3>1, <3>2
  <2> QED
    BY <1>7, <2>1, <2>2, <2>3 DEF SilentOK
<1>13. ASSUME NEW u \in Utterances PROVE OrderOK(sched, utterance[u], heard[u], u)'
  <2>1. OrderOK(sched, utterance[u], heard[u], u)
    BY DEF PlaybackInv
  <2>2. UNCHANGED <<heard, utterance>>
    BY DEF PopTask
  <2>3. t.u = u => heard[u] <= Head(t.phrases) /\ Head(t.phrases) < utterance[u].next
    BY <1>1, <1>2, <2>1 DEF OrderOK
  <2>4. ASSUME NEW i \in 1 .. Len(r), r[i].u = u
        PROVE  /\ heard[u] <= Head(r[i].phrases) /\ Head(r[i].phrases) < utterance[u].next
               /\ t.u = u => Head(t.phrases) <= Head(r[i].phrases)
    <3>1. i + 1 \in 1 .. Len(q) /\ r[i] = q[i + 1] /\ 1 \in 1 .. Len(q) /\ 1 < i + 1
      BY <1>1, <1>2
    <3> QED
      BY <1>2, <2>1, <2>4, <3>1 DEF OrderOK
  <2>5. ASSUME NEW i \in 1 .. Len(r), NEW j \in 1 .. Len(r), r[i].u = u, r[j].u = u, j < i
        PROVE  Head(r[j].phrases) <= Head(r[i].phrases)
    <3>1. /\ i + 1 \in 1 .. Len(q) /\ r[i] = q[i + 1] /\ j + 1 \in 1 .. Len(q) /\ r[j] = q[j + 1]
          /\ j + 1 < i + 1
      BY <1>1, <1>2, <2>5
    <3> QED
      BY <2>1, <2>5, <3>1 DEF OrderOK
  <2>6. heard[u] < utterance[u].next
    BY <2>1 DEF OrderOK
  <2> QED
    BY <1>4, <1>7, <2>2, <2>3, <2>4, <2>5, <2>6 DEF OrderOK
<1> QED
  BY <1>9, <1>11, <1>12, <1>13 DEF PlaybackInv

\* The worker takes the head, stale or not.
LEMMA PopTaskStep == ASSUME PlaybackInv, PopTask PROVE PlaybackInv'
  BY StaleStep, TakeTaskStep

\* A task is done: it leaves the worker, or comes first in the queue once more.
LEMMA FinishTaskStep == ASSUME PlaybackInv, FinishTask PROVE PlaybackInv'
<1> DEFINE q == sched.queue
<1> DEFINE t == sched.active
<1>1. PlaybackTypes /\ sched \in SchedRecord /\ q \in Seq(TaskRecord) /\ Len(q) \in Nat
  BY DEF PlaybackInv, PlaybackTypes, SchedRecord
<1>2. t \in TaskRecord
  BY <1>1 DEF FinishTask, SchedRecord
<1>3. PICK r : /\ sched' = [sched EXCEPT !.active = NoTask, !.queue = r]
               /\ r = IF CanRetry(t) THEN Requeued(t) ELSE q
  BY <1>1 DEF FinishTask, SchedRecord
<1>4. /\ r \in Seq(TaskRecord) /\ Len(r) \in Nat
      /\ \/ r = q
         \/ /\ CanRetry(t) /\ Len(r) = Len(q) + 1 /\ r[1] = t
            /\ \A i \in 1 .. Len(q) : r[i + 1] = q[i]
            /\ \A i \in 2 .. Len(r) : i - 1 \in 1 .. Len(q) /\ r[i] = q[i - 1]
  <2>1. CASE ~CanRetry(t)
    BY <1>1, <1>3, <2>1
  <2>2. CASE CanRetry(t)
    <3>1. <<t>> \in Seq(TaskRecord) /\ Len(<<t>>) = 1 /\ <<t>>[1] = t
      BY <1>2
    <3>2. r = <<t>> \o q
      BY <1>3, <2>2 DEF Requeued
    <3>3. /\ r \in Seq(TaskRecord) /\ Len(r) = 1 + Len(q)
          /\ \A i \in 1 .. 1 + Len(q) : r[i] = IF i <= 1 THEN <<t>>[i] ELSE q[i - 1]
      BY <1>1, <3>1, <3>2, ConcatProperties
    <3> QED
      BY <1>1, <2>2, <3>1, <3>3
  <2> QED
    BY <2>1, <2>2
<1>5. sched' \in SchedRecord /\ sched'.queue = r /\ sched'.active = NoTask /\ sched'.gen = sched.gen
      /\ sched'.closed = sched.closed /\ sched.gen \in Nat
  BY <1>1, <1>3, <1>4 DEF SchedRecord
<1>6. Resting \in SpeechRecord /\ Resting.at = "none"
  BY DEF Resting, NoId, SpeechRecord, PlaybackIds
<1>7. speech' \in [Players -> SpeechRecord] /\ speech'["phrase"] = Resting
  BY <1>1, <1>6 DEF FinishTask, PlaybackTypes, Players
<1>8. NoTask.gen = 0 /\ NoTask.u = "none"
  BY DEF NoTask
<1>9. PlaybackTypes' /\ WorkerOK(sched, speech["phrase"])'
  BY <1>1, <1>5, <1>6, <1>7, <1>8 DEF FinishTask, PlaybackTypes, WorkerOK
<1>10. ASSUME NEW u \in Utterances
       PROVE  SilentOK(sched, speech["phrase"], utterance[u], after[u], u)'
  <2>1. SilentOK(sched, speech["phrase"], utterance[u], after[u], u)
    BY DEF PlaybackInv
  <2>2. UNCHANGED <<after, utterance>>
    BY DEF FinishTask
  <2>3. after[u] # -1 => \A i \in 1 .. Len(r) : r[i].u # u
    <3>1. SUFFICES ASSUME after[u] # -1 PROVE \A i \in 1 .. Len(r) : r[i].u # u
      OBVIOUS
    <3>2. \A i \in 1 .. Len(q) : q[i].u # u
      BY <2>1, <3>1 DEF SilentOK
    <3>3. CanRetry(t) => t.u # u
      <4>1. SUFFICES ASSUME CanRetry(t), t.u = u PROVE FALSE
        OBVIOUS
      <4>2. t.cancelled \/ sched.closed \/ t.gen < sched.gen
        BY <2>1, <3>1, <4>1 DEF SilentOK
      <4>3. ~t.cancelled /\ ~sched.closed /\ t.gen = sched.gen
        BY <4>1 DEF CanRetry
      <4> QED
        BY <1>5, <4>2, <4>3
    <3>4. CASE r = q
      BY <3>2, <3>4
    <3>5. CASE r # q
      <4>1. /\ CanRetry(t) /\ r[1] = t
            /\ \A i \in 2 .. Len(r) : i - 1 \in 1 .. Len(q) /\ r[i] = q[i - 1]
        BY <1>4, <3>5
      <4>2. t.u # u /\ \A i \in 1 .. Len(r) : i = 1 \/ i \in 2 .. Len(r)
        BY <1>4, <3>3, <4>1
      <4> QED
        BY <3>2, <4>1, <4>2
    <3> QED
      BY <3>4, <3>5
  <2>4. sched'.active.u # u
    BY <1>5, <1>8, PlaybackAssumption
  <2> QED
    BY <1>5, <2>1, <2>2, <2>3, <2>4 DEF SilentOK
<1>11. ASSUME NEW u \in Utterances PROVE OrderOK(sched, utterance[u], heard[u], u)'
  <2>1. OrderOK(sched, utterance[u], heard[u], u)
    BY DEF PlaybackInv
  <2>2. UNCHANGED <<heard, utterance>>
    BY DEF FinishTask
  <2>3. sched'.active.u # u
    BY <1>5, <1>8, PlaybackAssumption
  <2>4. CASE r = q
    BY <1>5, <2>1, <2>2, <2>3, <2>4 DEF OrderOK
  <2>5. CASE r # q
    <3>1. /\ Len(r) = Len(q) + 1 /\ r[1] = t
          /\ \A i \in 2 .. Len(r) : i - 1 \in 1 .. Len(q) /\ r[i] = q[i - 1]
      BY <1>4, <2>5
    <3>2. Head(t.phrases) \in Nat
      BY <1>2, HeadTailProperties DEF TaskRecord
    <3>3. ASSUME NEW i \in 1 .. Len(r), r[i].u = u
          PROVE  heard[u] <= Head(r[i].phrases) /\ Head(r[i].phrases) < utterance[u].next
      <4>1. CASE i = 1
        BY <2>1, <3>1, <3>3, <4>1 DEF OrderOK
      <4>2. CASE i # 1
        <5>1. i \in 2 .. Len(r)
          BY <1>4, <4>2
        <5> QED
          BY <2>1, <3>1, <3>3, <5>1 DEF OrderOK
      <4> QED
        BY <4>1, <4>2
    <3>4. ASSUME NEW i \in 1 .. Len(r), NEW j \in 1 .. Len(r), r[i].u = u, r[j].u = u, j < i
          PROVE  Head(r[j].phrases) <= Head(r[i].phrases)
      <4>1. i \in 2 .. Len(r)
        BY <1>4, <3>4
      <4>2. i - 1 \in 1 .. Len(q) /\ r[i] = q[i - 1]
        BY <3>1, <4>1
      <4>3. CASE j = 1
        BY <2>1, <3>1, <3>4, <4>2, <4>3 DEF OrderOK
      <4>4. CASE j # 1
        <5>1. j \in 2 .. Len(r)
          BY <1>4, <4>4
        <5>2. j - 1 \in 1 .. Len(q) /\ r[j] = q[j - 1] /\ j - 1 < i - 1
          BY <3>1, <3>4, <5>1
        <5> QED
          BY <2>1, <3>4, <4>2, <5>2 DEF OrderOK
      <4> QED
        BY <4>3, <4>4
    <3>5. heard[u] < utterance[u].next
      BY <2>1 DEF OrderOK
    <3> QED
      BY <1>5, <2>2, <2>3, <3>3, <3>4, <3>5 DEF OrderOK
  <2> QED
    BY <2>4, <2>5
<1> QED
  BY <1>9, <1>10, <1>11 DEF PlaybackInv

\* A cut leaves the running task dead, at the place where it is.
LEMMA KillOnward ==
  ASSUME PlaybackInv, Kill
  PROVE  /\ speech' \in [Players -> SpeechRecord] /\ Onward(speech["phrase"], speech'["phrase"])
         /\ sched.active # NoTask => speech'["phrase"].dead
<1> DEFINE k == speech["phrase"]
<1>1. speech \in [Players -> SpeechRecord] /\ k \in SpeechRecord /\ k.dead \in BOOLEAN
  BY DEF PlaybackInv, PlaybackTypes, SpeechRecord, Players
<1>2. PICK b \in BOOLEAN : b = (k.dead \/ sched.active # NoTask)
  OBVIOUS
<1>3. speech' = [speech EXCEPT !["phrase"].dead = b]
  BY <1>1, <1>2 DEF Kill, Players
<1> DEFINE l == [k EXCEPT !.dead = b]
<1>4. l \in SpeechRecord /\ l.at = k.at /\ l.dead = b
  <2> HIDE DEF k
  <2> QED
    BY <1>1 DEF SpeechRecord
<1>5. speech' = [speech EXCEPT !["phrase"] = l]
  BY <1>1, <1>3
<1> HIDE DEF l
<1>6. Onward(k, l)
  BY <1>2, <1>4 DEF Onward, Ended
<1>7. speech' \in [Players -> SpeechRecord] /\ speech'["phrase"] = l /\ Onward(k, speech'["phrase"])
  BY <1>4, <1>5, <1>6, SpokeOnward DEF Players
<1>8. sched.active # NoTask => b
  BY <1>2
<1> QED
  BY <1>4, <1>7, <1>8

\* A cut starts the count of the utterances that it cuts off for the first time.
LEMMA MarkCuts ==
  ASSUME PlaybackTypes, NEW us, Mark(us)
  PROVE  /\ after' \in [Utterances -> Int]
         /\ \A u \in Utterances : after'[u] = after[u] \/ (u \in us /\ after[u] = -1 /\ after'[u] = 0)
  BY DEF PlaybackTypes, Mark

\* A wake word and a stop begin a new generation with an empty queue.
LEMMA BarredStep ==
  ASSUME PlaybackInv, NEW us, NEW reason \in {"superseded", "closed"}, NEW c \in BOOLEAN,
         sched' = [Barred(reason) EXCEPT !.closed = c], sched.closed => c,
         Kill, Mark(us), UNCHANGED <<mode, heard>>,
         utterance' \in [Utterances -> UtteranceRecord],
         \A u \in Utterances : /\ utterance'[u].next = utterance[u].next
                               /\ utterance[u].superseded => utterance'[u].superseded
                               /\ u \in us => utterance'[u].superseded \/ c
  PROVE  PlaybackInv'
<1>1. PlaybackTypes /\ sched \in SchedRecord /\ sched.gen \in Nat /\ WorkerOK(sched, speech["phrase"])
  BY DEF PlaybackInv, PlaybackTypes, SchedRecord
<1>2. /\ sched' \in SchedRecord /\ sched'.queue = <<>> /\ sched'.active = sched.active
      /\ sched'.gen = sched.gen + 1 /\ sched'.closed = c
  <2> DEFINE b == IF sched.barrier = "closed" THEN sched.barrier ELSE reason
  <2>1. b \in {"none", "superseded", "closed"} /\ sched.gen + 1 \in Nat /\ <<>> \in Seq(TaskRecord)
    BY <1>1 DEF SchedRecord
  <2>2. sched' = [sched EXCEPT !.gen = sched.gen + 1, !.queue = <<>>, !.barrier = b, !.closed = c]
    BY <1>1 DEF Barred, SchedRecord
  <2> HIDE DEF b
  <2> QED
    BY <1>1, <2>1, <2>2 DEF SchedRecord
<1>3. /\ speech' \in [Players -> SpeechRecord] /\ Onward(speech["phrase"], speech'["phrase"])
      /\ sched.active # NoTask => speech'["phrase"].dead
  BY KillOnward
<1>4. /\ after' \in [Utterances -> Int]
      /\ \A u \in Utterances : after'[u] = after[u] \/ (u \in us /\ after[u] = -1 /\ after'[u] = 0)
  BY <1>1, MarkCuts
<1>5. PlaybackTypes'
  BY <1>1, <1>2, <1>3, <1>4 DEF PlaybackTypes
<1>6. Kept(sched, sched') /\ Shrinks(sched'.queue, sched.queue)
  BY <1>1, <1>2, EmptyShrinks DEF Kept
<1>7. ASSUME NEW u \in Utterances
      PROVE  /\ utterance[u].next <= utterance'[u].next
             /\ utterance[u].superseded => utterance'[u].superseded
             /\ CutOrNot(sched, sched', speech'["phrase"], utterance'[u], after[u], after'[u], u)
  <2>1. utterance[u].next \in Nat /\ utterance'[u].next = utterance[u].next
    BY <1>1 DEF PlaybackTypes, UtteranceRecord
  <2>2. \A i \in 1 .. Len(sched'.queue) : sched'.queue[i].u # u
    BY <1>2
  <2>3. sched.active.u = u => sched.active # NoTask
    BY PlaybackAssumption DEF NoTask
  <2>4. sched'.active.gen < sched'.gen
    <3>1. sched.active \in TaskRecord \cup {NoTask}
      BY <1>1 DEF SchedRecord
    <3>2. sched.active.gen \in Nat
      BY <3>1 DEF TaskRecord, NoTask
    <3> QED
      BY <1>1, <1>2, <3>2 DEF WorkerOK
  <2>5. CutOrNot(sched, sched', speech'["phrase"], utterance'[u], after[u], after'[u], u)
    BY <1>2, <1>3, <1>4, <2>2, <2>3, <2>4 DEF CutOrNot
  <2> QED
    BY <2>1, <2>5
<1> QED
  BY <1>3, <1>5, <1>6, <1>7, ShrinkStep

\* A wake word supersedes the utterances it knows.
LEMMA WakeWordStep == ASSUME PlaybackInv, WakeWord PROVE PlaybackInv'
<1> DEFINE known == {u \in Utterances : utterance[u].known}
<1>1. PlaybackTypes /\ sched \in SchedRecord /\ sched.closed = FALSE
  BY DEF PlaybackInv, PlaybackTypes, WakeWord, SchedRecord
<1>2. sched' = [Barred("superseded") EXCEPT !.closed = FALSE]
  BY <1>1 DEF WakeWord, Barred, SchedRecord
<1>3. ASSUME NEW u \in Utterances
      PROVE  /\ utterance'[u] \in UtteranceRecord /\ utterance'[u].next = utterance[u].next
             /\ utterance[u].superseded => utterance'[u].superseded
             /\ u \in known => utterance'[u].superseded
  <2>1. utterance[u] \in UtteranceRecord
    BY <1>1 DEF PlaybackTypes
  <2>2. utterance'[u] = [Superseded(known)[u] EXCEPT !.known = FALSE]
    BY DEF WakeWord
  <2>3. Superseded(known)[u] = IF u \in known THEN [utterance[u] EXCEPT !.superseded = TRUE] ELSE utterance[u]
    BY DEF Superseded
  <2>4. CASE u \in known
    <3>1. utterance'[u] = [utterance[u] EXCEPT !.superseded = TRUE, !.known = FALSE]
      BY <2>1, <2>2, <2>3, <2>4 DEF UtteranceRecord
    <3> QED
      BY <2>1, <3>1 DEF UtteranceRecord
  <2>5. CASE u \notin known
    <3>1. utterance'[u] = [utterance[u] EXCEPT !.known = FALSE]
      BY <2>2, <2>3, <2>5
    <3> QED
      BY <2>1, <2>5, <3>1 DEF UtteranceRecord
  <2> QED
    BY <2>4, <2>5
<1>4. utterance' \in [Utterances -> UtteranceRecord]
  BY <1>3 DEF WakeWord
<1> QED
  BY <1>1, <1>2, <1>3, <1>4, BarredStep DEF WakeWord

\* A stop closes the session for all of them.
LEMMA StopSessionStep == ASSUME PlaybackInv, StopSession PROVE PlaybackInv'
<1>1. PlaybackTypes
  BY DEF PlaybackInv
<1>2. utterance' = utterance /\ utterance \in [Utterances -> UtteranceRecord]
  BY <1>1 DEF StopSession, PlaybackTypes
<1> QED
  BY <1>2, BarredStep DEF StopSession

\* A mode switch drops the work of the old mode, and kills its running task.
LEMMA DropOldModeStep == ASSUME PlaybackInv, DropOldMode PROVE PlaybackInv'
<1> DEFINE old == {t.u : t \in {t \in (ToSet(sched.queue) \cup {sched.active}) \ {NoTask} :
                                   utterance[t.u].mode < mode}}
<1> DEFINE q == sched.queue
<1>1. PlaybackTypes /\ sched \in SchedRecord /\ q \in Seq(TaskRecord)
  BY DEF PlaybackInv, PlaybackTypes, SchedRecord
<1>2. old \subseteq Utterances
  <2>1. ToSet(q) \subseteq TaskRecord
    BY <1>1 DEF ToSet
  <2>2. (ToSet(q) \cup {sched.active}) \ {NoTask} \subseteq TaskRecord
    BY <1>1, <2>1 DEF SchedRecord
  <2>3. \A t \in TaskRecord : t.u \in Utterances
    BY DEF TaskRecord
  <2> QED
    BY <2>2, <2>3
<1>3. PICK o : o = old
  OBVIOUS
<1>4. PICK b \in BOOLEAN : b = (sched.active.cancelled \/ sched.active.u \in o)
  OBVIOUS
<1>5. /\ sched' = [sched EXCEPT !.queue = Without(q, o), !.active.cancelled = b]
      /\ utterance' = Superseded(o)
      /\ IF sched.active.u \in o THEN Kill ELSE UNCHANGED speech
      /\ Mark(o)
      /\ UNCHANGED <<mode, heard>>
  BY <1>1, <1>3, <1>4 DEF DropOldMode, SchedRecord
<1> HIDE DEF old
<1>6. o \subseteq Utterances
  BY <1>2, <1>3
<1> DEFINE r == Without(q, o)
<1>7. r \in Seq(TaskRecord) /\ Shrinks(r, q) /\ \A i \in 1 .. Len(r) : r[i].u \notin o
  BY <1>1, WithoutShrinks
<1> HIDE DEF r
<1> DEFINE t2 == [sched.active EXCEPT !.cancelled = b]
<1>8. /\ t2 \in TaskRecord \cup {NoTask} /\ t2.u = sched.active.u /\ t2.phrases = sched.active.phrases
      /\ t2.gen = sched.active.gen /\ t2.cancelled = b /\ (t2 = NoTask <=> sched.active = NoTask)
  <2>1. CASE sched.active = NoTask
    <3>1. NoTask.u = "none" /\ NoTask.cancelled = FALSE
      BY DEF NoTask
    <3>2. b = FALSE
      BY <1>4, <1>6, <2>1, <3>1, PlaybackAssumption
    <3>3. t2 = NoTask
      <4>1. t2 = [NoTask EXCEPT !.cancelled = FALSE]
        BY <2>1, <3>2
      <4>2. NoTask = [f \in DOMAIN NoTask |-> NoTask[f]] /\ NoTask["cancelled"] = FALSE
        BY DEF NoTask
      <4> QED
        BY <4>1, <4>2
    <3> QED
      BY <2>1, <3>1, <3>2, <3>3
  <2>2. CASE sched.active # NoTask
    <3>1. sched.active \in TaskRecord
      BY <1>1, <2>2 DEF SchedRecord
    <3>2. /\ t2 \in TaskRecord /\ t2.u = sched.active.u /\ t2.phrases = sched.active.phrases
          /\ t2.gen = sched.active.gen /\ t2.cancelled = b
      BY <3>1 DEF TaskRecord
    <3>3. t2.u # "none" /\ NoTask.u = "none"
      BY <3>2, PlaybackAssumption DEF TaskRecord, NoTask
    <3> QED
      BY <2>2, <3>2, <3>3
  <2> QED
    BY <2>1, <2>2
<1>9. sched' = [sched EXCEPT !.queue = r, !.active = t2]
  BY <1>1, <1>5 DEF SchedRecord, r
<1> HIDE DEF t2
<1>10. /\ sched' \in SchedRecord /\ sched'.queue = r /\ sched'.active = t2 /\ sched'.gen = sched.gen
       /\ sched'.closed = sched.closed /\ sched.gen \in Nat
  BY <1>1, <1>7, <1>8, <1>9 DEF SchedRecord
<1>11. /\ speech' \in [Players -> SpeechRecord] /\ Onward(speech["phrase"], speech'["phrase"])
       /\ sched.active.u \in o => speech'["phrase"].dead
  <2>1. CASE sched.active.u \in o
    <3>1. sched.active # NoTask
      BY <1>6, <2>1, PlaybackAssumption DEF NoTask
    <3> QED
      BY <1>5, <2>1, <3>1, KillOnward
  <2>2. CASE sched.active.u \notin o
    BY <1>1, <1>5, <2>2 DEF PlaybackTypes, Onward
  <2> QED
    BY <2>1, <2>2
<1>12. /\ after' \in [Utterances -> Int]
       /\ \A u \in Utterances : after'[u] = after[u] \/ (u \in o /\ after[u] = -1 /\ after'[u] = 0)
  BY <1>1, <1>5, MarkCuts
<1>13. ASSUME NEW u \in Utterances
       PROVE  /\ utterance'[u] \in UtteranceRecord /\ utterance[u].next <= utterance'[u].next
              /\ utterance[u].superseded => utterance'[u].superseded
              /\ u \in o => utterance'[u].superseded
  <2>1. utterance[u] \in UtteranceRecord /\ utterance[u].next \in Nat
    BY <1>1 DEF PlaybackTypes, UtteranceRecord
  <2>2. utterance'[u] = IF u \in o THEN [utterance[u] EXCEPT !.superseded = TRUE] ELSE utterance[u]
    BY <1>5 DEF Superseded
  <2>3. CASE u \in o
    <3>1. PICK x \in UtteranceRecord : x = utterance[u] /\ x.next \in Nat
      BY <2>1
    <3>2. PICK y : y = [x EXCEPT !.superseded = TRUE]
      OBVIOUS
    <3>3. y \in UtteranceRecord /\ y.next = x.next /\ y.superseded
      BY <3>2 DEF UtteranceRecord
    <3> QED
      BY <2>2, <2>3, <3>1, <3>2, <3>3
  <2>4. CASE u \notin o
    BY <2>1, <2>2, <2>4
  <2> QED
    BY <2>3, <2>4
<1>14. utterance' \in [Utterances -> UtteranceRecord]
  BY <1>5, <1>13 DEF Superseded
<1>15. PlaybackTypes'
  BY <1>1, <1>5, <1>10, <1>11, <1>12, <1>14 DEF PlaybackTypes
<1>16. Kept(sched, sched') /\ Shrinks(sched'.queue, sched.queue)
  <2>1. sched.active.cancelled => b
    BY <1>4
  <2>2. sched'.active.cancelled = b /\ sched'.gen = sched.gen /\ sched.gen <= sched.gen
    BY <1>8, <1>10
  <2> QED
    BY <1>7, <1>8, <1>10, <2>1, <2>2 DEF Kept
<1>17. ASSUME NEW u \in Utterances
       PROVE  CutOrNot(sched, sched', speech'["phrase"], utterance'[u], after[u], after'[u], u)
  <2>1. CASE after'[u] = after[u]
    BY <2>1 DEF CutOrNot
  <2>2. CASE after'[u] # after[u]
    <3>1. u \in o /\ after[u] = -1 /\ after'[u] = 0
      BY <1>12, <2>2
    <3>2. utterance'[u].superseded /\ \A i \in 1 .. Len(r) : r[i].u # u
      BY <1>7, <1>13, <3>1
    <3>3. sched'.active.u = u => speech'["phrase"].dead /\ sched'.active.cancelled
      BY <1>4, <1>8, <1>10, <1>11, <3>1
    <3> QED
      BY <1>10, <3>1, <3>2, <3>3 DEF CutOrNot
  <2> QED
    BY <2>1, <2>2
<1> QED
  BY <1>5, <1>11, <1>13, <1>15, <1>16, <1>17, ShrinkStep

\* The steps of one speech output.
LEMMA SpeechNextStep ==
  ASSUME PlaybackInv, NEW p \in Players, SpeechNext(p) PROVE PlaybackInv'
  BY WaitStep, StreamStep, TakeChunkStep, WriteChunkStep, EndStreamStep, BeginCompleteStep,
     EndCompleteStep, CancelStep DEF SpeechNext

\* A cutter's own steps, which touch its track and the mode.
LEMMA CutterStep ==
  ASSUME PlaybackInv,
         \/ ReadCurrent \/ BeginModeSwitch \/ CommitModeSwitch \/ \E c \in Cutters : Interrupt(c)
  PROVE  PlaybackInv'
<1>1. mode \in Nat
  BY DEF PlaybackInv, PlaybackTypes
<1>2. UNCHANGED <<sched, utterance, speech, heard, after>> /\ mode' \in Nat
  <2>1. CASE ReadCurrent \/ BeginModeSwitch
    BY <1>1, <2>1 DEF ReadCurrent, BeginModeSwitch
  <2>2. CASE CommitModeSwitch
    BY <2>2 DEF CommitModeSwitch
  <2>3. CASE \E c \in Cutters : Interrupt(c)
    BY <1>1, <2>3 DEF Interrupt
  <2> QED
    BY <2>1, <2>2, <2>3
<1> QED
  BY <1>2, StillStep

\* Every step of the specification keeps the invariant.
LEMMA PlaybackNextInv == ASSUME PlaybackInv, [PlaybackNext]_playbackVars PROVE PlaybackInv'
<1>1. CASE \E u \in Utterances : ResetUtterance(u) \/ Enqueue(u)
  BY <1>1, ResetStep, EnqueueStep
<1>2. CASE PopTask \/ FinishTask \/ StartFallback
  BY <1>2, PopTaskStep, FinishTaskStep, FallbackStep
<1>3. CASE \E p \in Players : SpeechNext(p)
  BY <1>3, SpeechNextStep
<1>4. CASE WakeWord \/ DropOldMode \/ StopSession
  BY <1>4, WakeWordStep, DropOldModeStep, StopSessionStep
<1>5. CASE ReadCurrent \/ BeginModeSwitch \/ CommitModeSwitch \/ \E c \in Cutters : Interrupt(c)
  BY <1>5, CutterStep
<1>6. CASE UNCHANGED playbackVars
  BY <1>6, StillStep DEF playbackVars, PlaybackInv, PlaybackTypes
<1> QED
  BY <1>1, <1>2, <1>3, <1>4, <1>5, <1>6 DEF PlaybackNext

\* The invariant holds whatever phrases, cuts and faults there are.
LEMMA PlaybackInvHolds == PlaybackSpec => []PlaybackInv
<1>1. PlaybackInit => PlaybackInv
  BY PlaybackInitInv
<1>2. PlaybackInv /\ [PlaybackNext]_playbackVars => PlaybackInv'
  BY PlaybackNextInv
<1> QED
  BY <1>1, <1>2, PTL DEF PlaybackSpec

(* An utterance that a wake word, a mode switch or a stop cut off is not heard *)
(* again but for the one chunk that was on its way: not by a retry, not by a   *)
(* producer that waited for room, not by a chunk merged into a queued task     *)
(* (phrase_playback.go:408-500, 661-695).                                      *)
THEOREM SilentAfterInterruptHolds == PlaybackSpec => []SilentAfterInterrupt
<1>1. PlaybackInv => SilentAfterInterrupt
  BY DEF PlaybackInv, SilentOK, SilentAfterInterrupt
<1> QED
  BY <1>1, PlaybackInvHolds, PTL

\* Only a chunk that reaches the track changes what was heard of an utterance.
LEMMA HeardForward ==
  ASSUME PlaybackInv, [PlaybackNext]_playbackVars, NEW u \in Utterances PROVE heard'[u] >= heard[u]
<1>1. heard \in [Utterances -> Nat] /\ heard[u] \in Nat
  BY DEF PlaybackInv, PlaybackTypes
<1>2. CASE heard' = heard
  BY <1>1, <1>2
<1>3. CASE heard' # heard
  <2>1. PICK p \in Players : WriteChunk(p)
    BY <1>3 DEF PlaybackNext, playbackVars, ResetUtterance, Enqueue, PopTask, FinishTask, StartFallback,
                SpeechNext, WaitForAvailable, StartStream, TakeChunk, EndStream, BeginComplete, EndComplete,
                CancelPlayback, WakeWord, ReadCurrent, BeginModeSwitch, CommitModeSwitch, DropOldMode,
                Interrupt, StopSession
  <2>2. heard' = [heard EXCEPT ![sched.active.u] = Head(sched.active.phrases)]
    BY <1>3, <2>1 DEF WriteChunk
  <2>3. OrderOK(sched, utterance[u], heard[u], u)
    BY DEF PlaybackInv
  <2>4. CASE sched.active.u = u
    <3>1. heard[u] <= Head(sched.active.phrases)
      BY <2>3, <2>4 DEF OrderOK
    <3>2. Head(sched.active.phrases) \in Nat
      <4>1. sched.active \in TaskRecord \cup {NoTask} /\ NoTask.u = "none"
        BY DEF PlaybackInv, PlaybackTypes, SchedRecord, NoTask
      <4>2. sched.active \in TaskRecord
        BY <2>4, <4>1, PlaybackAssumption
      <4> QED
        BY <4>2, HeadTailProperties DEF TaskRecord
    <3>3. heard'[u] = Head(sched.active.phrases)
      BY <1>1, <2>2, <2>4
    <3> QED
      BY <1>1, <3>1, <3>2, <3>3
  <2>5. CASE sched.active.u # u
    BY <1>1, <2>2, <2>5
  <2> QED
    BY <2>4, <2>5
<1> QED
  BY <1>2, <1>3

(* The phrases of an utterance are heard in the order they were translated,    *)
(* through retries, merges into the queue's tail and dropped generations       *)
(* (phrase_playback.go:297-406, 661-695).                                      *)
THEOREM PhrasesInOrderHolds == PlaybackSpec => PhrasesInOrder
<1>1. PlaybackInv /\ [PlaybackNext]_playbackVars
      => [\A u \in Utterances : heard'[u] >= heard[u]]_playbackVars
  BY HeardForward
<1> QED
  BY <1>1, PlaybackInvHolds, PTL DEF PlaybackSpec, PhrasesInOrder

-----------------------------------------------------------------------------
\* The page that shows the turns: no stale subtitle, no lost final.

ShownRecord == [turns : Seq(SpokenTurns), replies : SUBSET SpokenTurns,
                partial : SpokenTurns \cup {NoTurn},
                phrases : SUBSET [turn : SpokenTurns, status : {"stable", "translated"}]]
SpokenRecord == [at : {"none", "live", "final"}, mode : Nat, partials : Nat,
                 phrase : {"none", "stable", "translated"}]
MessageRecord == [kind : {"partial", "stable", "translated", "final", "reply"}, turn : SpokenTurns]

ScreenTypes ==
    /\ transcript \in ShownRecord
    /\ spoken \in [SpokenTurns -> SpokenRecord]
    /\ channel \in Seq(MessageRecord)
    /\ stored \in SUBSET SpokenTurns
    /\ settled \in SUBSET SpokenTurns
    /\ activeTurn \in SpokenTurns \cup {NoTurn}
    /\ modeNow \in Nat
    /\ running \in BOOLEAN
    /\ poll.turns \in SUBSET SpokenTurns /\ DOMAIN poll = {"under", "turns", "cursor"}

ElementsOf(seq) == {seq[n] : n \in 1 .. Len(seq)}

\* A phrase is of an interpreted turn, a reply of one that the assistant answered.
ModesKept(sp, shown, ch) ==
    /\ \A p \in shown.phrases : sp[p.turn].at # "none" /\ Interprets(sp[p.turn].mode)
    /\ \A n \in 1 .. Len(ch) :
        LET t == ch[n].turn IN
        /\ ch[n].kind \in {"stable", "translated"} => sp[t].at # "none" /\ Interprets(sp[t].mode)
        /\ ch[n].kind = "reply" => sp[t].at # "none" /\ ~Interprets(sp[t].mode)

\* The subtitle is that of the turn that was heard last, and of none that is settled.
NoStale(shown, done, active) ==
    /\ \A i, j \in 1 .. Len(shown.turns) : shown.turns[i] = shown.turns[j] => i = j
    /\ ElementsOf(shown.turns) \subseteq done
    /\ shown.partial # NoTurn => shown.partial = active
    /\ shown.partial \notin done
    /\ \A p \in shown.phrases : p.turn \notin done

FinalsArrive(sp, shown, ch) ==
    \A t \in SpokenTurns :
        sp[t].at = "final" /\ Interprets(sp[t].mode) =>
            \/ t \in ElementsOf(shown.turns)
            \/ \E n \in 1 .. Len(ch) : ch[n] = [kind |-> "final", turn |-> t]

ScreenInv ==
    /\ ScreenTypes
    /\ ModesKept(spoken, transcript, channel)
    /\ NoStale(transcript, settled, activeTurn)
    /\ running /\ link = "up" => FinalsArrive(spoken, transcript, channel)

\* The turns of a poll in ascending order: each once.
LEMMA AscendingLists ==
  ASSUME NEW turns \in SUBSET SpokenTurns
  PROVE  /\ Ascending(turns) \in Seq(turns)
         /\ ElementsOf(Ascending(turns)) = turns
         /\ \A i, j \in 1 .. Len(Ascending(turns)) : Ascending(turns)[i] = Ascending(turns)[j] => i = j
<1>1. turns \subseteq Nat /\ IsFiniteSet(turns)
  <2>1. SpokenTurns \subseteq Nat /\ IsFiniteSet(SpokenTurns)
    BY VoiceScreenAssumption, FS_Interval DEF SpokenTurns
  <2> QED
    BY <2>1, FS_Subset
<1>2. PICK size : size = Cardinality(turns)
  OBVIOUS
<1>3. size \in Nat
  BY <1>1, <1>2, FS_CardinalityType
<1>4. PICK count : count = [t \in turns |-> Cardinality({u \in turns : u < t})]
  OBVIOUS
<1>5. ASSUME NEW t \in turns
      PROVE  /\ IsFiniteSet({u \in turns : u < t}) /\ count[t] = Cardinality({u \in turns : u < t})
             /\ count[t] \in Nat /\ count[t] < size
  <2>1. {u \in turns : u < t} \subseteq turns \ {t}
    BY <1>1
  <2>2. IsFiniteSet(turns \ {t}) /\ Cardinality(turns \ {t}) = size - 1
    BY <1>1, <1>2, FS_RemoveElement
  <2>3. /\ IsFiniteSet({u \in turns : u < t})
        /\ Cardinality({u \in turns : u < t}) <= Cardinality(turns \ {t})
    BY <2>1, <2>2, FS_Subset
  <2>4. count[t] = Cardinality({u \in turns : u < t})
    BY <1>4
  <2>5. count[t] \in Nat
    BY <2>3, <2>4, FS_CardinalityType
  <2>6. count[t] <= size - 1
    BY <2>2, <2>3, <2>4
  <2>7. count[t] < size
    BY <1>3, <2>5, <2>6
  <2> QED
    BY <2>3, <2>4, <2>5, <2>7
<1>6. ASSUME NEW t \in turns, NEW u \in turns, t < u
      PROVE  count[t] < count[u]
  <2>1. PICK low : low = {v \in turns : v < t}
    OBVIOUS
  <2>2. PICK high : high = {v \in turns : v < u}
    OBVIOUS
  <2>3. t \notin low /\ low \cup {t} \subseteq high
    <3>1. \A v \in low : v \in turns /\ v < t /\ v \in Nat
      BY <1>1, <2>1
    <3>2. t \in Nat /\ u \in Nat
      BY <1>1
    <3>3. \A v \in low : v \in turns /\ v < u
      BY <1>6, <3>1, <3>2
    <3>4. low \subseteq high
      BY <2>2, <3>3
    <3>5. t \in high
      BY <1>6, <2>2
    <3>6. t \notin low
      BY <3>1, <3>2
    <3> QED
      BY <3>4, <3>5, <3>6
  <2>4. IsFiniteSet(low) /\ IsFiniteSet(high) /\ count[t] = Cardinality(low) /\ count[u] = Cardinality(high)
    BY <1>5, <2>1, <2>2
  <2>5. IsFiniteSet(low \cup {t}) /\ Cardinality(low \cup {t}) = Cardinality(low) + 1
    BY <2>3, <2>4, FS_AddElement
  <2>6. Cardinality(low \cup {t}) <= Cardinality(high)
    BY <2>3, <2>4, FS_Subset
  <2>7. count[t] \in Nat /\ count[u] \in Nat
    BY <1>5
  <2>8. count[t] + 1 <= count[u]
    BY <2>4, <2>5, <2>6
  <2> QED
    BY <2>7, <2>8
<1>7. \A t, u \in turns : count[t] = count[u] => t = u
  <2> SUFFICES ASSUME NEW t \in turns, NEW u \in turns, t # u
               PROVE  count[t] # count[u]
    OBVIOUS
  <2>1. t < u \/ u < t
    BY <1>1
  <2>2. count[t] \in Nat /\ count[u] \in Nat
    BY <1>5
  <2>3. CASE t < u
    <3>1. count[t] < count[u]
      BY <1>6, <2>3
    <3> QED
      BY <2>2, <3>1
  <2>4. CASE u < t
    <3>1. count[u] < count[t]
      BY <1>6, <2>4
    <3> QED
      BY <2>2, <3>1
  <2> QED
    BY <2>1, <2>3, <2>4
<1>8. ASSUME NEW n \in 1 .. size
      PROVE  \E t \in turns : count[t] = n - 1
  <2>1. SUFFICES ASSUME \A t \in turns : count[t] # n - 1
                 PROVE  FALSE
    OBVIOUS
  <2>2. PICK top : top = size - 1
    OBVIOUS
  <2>3. top \in Nat /\ top \in Int /\ 0 \in Int /\ n - 1 \in 0 .. top
    BY <1>3, <2>2
  <2>4. IsFiniteSet(0 .. top) /\ Cardinality(0 .. top) = top - 0 + 1
    BY <2>3, FS_Interval
  <2>5. Cardinality(0 .. top) = size
    BY <1>3, <2>2, <2>4
  <2>6. PICK others : others = (0 .. top) \ {n - 1}
    OBVIOUS
  <2>7. IsFiniteSet(others) /\ Cardinality(others) = size - 1
    <3>1. PICK m : m = n - 1
      OBVIOUS
    <3>2. PICK all : all = 0 .. top
      OBVIOUS
    <3>3. IsFiniteSet(all) /\ m \in all /\ Cardinality(all) = size
      BY <2>3, <2>4, <2>5, <3>1, <3>2
    <3>4. IsFiniteSet(all \ {m}) /\ Cardinality(all \ {m}) = Cardinality(all) - 1
      BY <3>3, FS_RemoveElement
    <3>5. others = all \ {m}
      BY <2>6, <3>1, <3>2
    <3> QED
      BY <3>3, <3>4, <3>5
  <2>8. ASSUME NEW t \in turns
        PROVE  count[t] \in 0 .. top
    <3>1. count[t] \in Nat /\ count[t] < size
      BY <1>5
    <3> QED
      BY <1>3, <2>2, <3>1
  <2>9. \A t \in turns : count[t] \in others
    BY <2>1, <2>6, <2>8
  <2>10. count = [t \in turns |-> count[t]]
    BY <1>4
  <2>11. count \in [turns -> others]
    BY <2>9, <2>10
  <2>12. Cardinality(others) < Cardinality(turns)
    BY <1>2, <1>3, <2>7
  <2>13. \E x, y \in turns : x # y /\ count[x] = count[y]
    BY <1>1, <2>7, <2>11, <2>12, FS_PigeonHole
  <2> QED
    BY <1>7, <2>13
<1>9. PICK list : list = Ascending(turns)
  OBVIOUS
<1>10. list = [n \in 1 .. size |-> CHOOSE t \in turns : Cardinality({u \in turns : u < t}) = n - 1]
  BY <1>2, <1>9 DEF Ascending
<1>11. \A n \in 1 .. size : list[n] \in turns /\ count[list[n]] = n - 1
  <2> SUFFICES ASSUME NEW n \in 1 .. size
               PROVE  list[n] \in turns /\ count[list[n]] = n - 1
    OBVIOUS
  <2>1. \E t \in turns : Cardinality({u \in turns : u < t}) = n - 1
    BY <1>5, <1>8
  <2>2. list[n] = CHOOSE t \in turns : Cardinality({u \in turns : u < t}) = n - 1
    BY <1>10
  <2>3. list[n] \in turns /\ Cardinality({u \in turns : u < list[n]}) = n - 1
    BY <2>1, <2>2
  <2> QED
    BY <1>5, <2>3
<1>12. DOMAIN list = 1 .. size
  BY <1>10
<1>13. list \in [1 .. size -> turns]
  BY <1>10, <1>11
<1>14. list \in Seq(turns) /\ Len(list) = size
  BY <1>3, <1>12, <1>13
<1>15. ASSUME NEW i \in 1 .. size, NEW j \in 1 .. size, list[i] = list[j]
       PROVE  i = j
  <2>1. i - 1 = j - 1
    BY <1>11, <1>15
  <2> QED
    BY <2>1
<1>16. ASSUME NEW t \in turns
       PROVE  \E n \in 1 .. size : list[n] = t
  <2>1. PICK n : n = count[t] + 1
    OBVIOUS
  <2>2. count[t] \in Nat /\ count[t] < size
    BY <1>5
  <2>3. n \in 1 .. size /\ n - 1 = count[t]
    BY <1>3, <2>1, <2>2
  <2>4. list[n] \in turns /\ count[list[n]] = count[t]
    BY <1>11, <2>3
  <2> QED
    BY <1>7, <2>3, <2>4
<1>17. ElementsOf(list) = {list[n] : n \in 1 .. size}
  BY <1>14 DEF ElementsOf
<1>18. ElementsOf(list) = turns
  BY <1>11, <1>16, <1>17
<1> QED
  BY <1>9, <1>14, <1>15, <1>18

\* Turns behind those that are shown.
LEMMA ShownBehind ==
  ASSUME NEW S, NEW s \in Seq(S), NEW e \in Seq(S), ElementsOf(s) \cap ElementsOf(e) = {},
         \A i, j \in 1 .. Len(s) : s[i] = s[j] => i = j,
         \A i, j \in 1 .. Len(e) : e[i] = e[j] => i = j
  PROVE  /\ s \o e \in Seq(S)
         /\ ElementsOf(s \o e) = ElementsOf(s) \cup ElementsOf(e)
         /\ \A i, j \in 1 .. Len(s \o e) : (s \o e)[i] = (s \o e)[j] => i = j
<1>1. Len(s) \in Nat /\ Len(e) \in Nat
  BY LenProperties
<1>2. /\ s \o e \in Seq(S) /\ Len(s \o e) = Len(s) + Len(e)
      /\ \A i \in 1 .. Len(s \o e) : (s \o e)[i] = IF i <= Len(s) THEN s[i] ELSE e[i - Len(s)]
  BY ConcatProperties
<1>3. PICK c : c = s \o e
  OBVIOUS
<1>4. \A i \in 1 .. Len(c) : \/ i \in 1 .. Len(s) /\ c[i] = s[i]
                             \/ i - Len(s) \in 1 .. Len(e) /\ c[i] = e[i - Len(s)]
  BY <1>1, <1>2, <1>3
<1>5. \A i \in 1 .. Len(s) : i \in 1 .. Len(c) /\ c[i] = s[i]
  BY <1>1, <1>2, <1>3
<1>6. \A i \in 1 .. Len(e) : i + Len(s) \in 1 .. Len(c) /\ c[i + Len(s)] = e[i]
  <2> SUFFICES ASSUME NEW i \in 1 .. Len(e)
               PROVE  i + Len(s) \in 1 .. Len(c) /\ c[i + Len(s)] = e[i]
    OBVIOUS
  <2>1. PICK k : k = i + Len(s)
    OBVIOUS
  <2>2. k \in 1 .. Len(c) /\ ~(k <= Len(s)) /\ k - Len(s) = i
    BY <1>1, <1>2, <1>3, <2>1
  <2> QED
    BY <1>2, <1>3, <2>1, <2>2
<1>7. ElementsOf(c) = ElementsOf(s) \cup ElementsOf(e)
  <2>1. \A x \in ElementsOf(c) : x \in ElementsOf(s) \cup ElementsOf(e)
    BY <1>4 DEF ElementsOf
  <2>2. \A x \in ElementsOf(s) : x \in ElementsOf(c)
    BY <1>5 DEF ElementsOf
  <2>3. \A x \in ElementsOf(e) : x \in ElementsOf(c)
    BY <1>6 DEF ElementsOf
  <2> QED
    BY <2>1, <2>2, <2>3
<1>8. ASSUME NEW i \in 1 .. Len(c), NEW j \in 1 .. Len(c), c[i] = c[j]
      PROVE  i = j
  <2>1. \A k, l : k \in 1 .. Len(s) /\ l \in 1 .. Len(e) => s[k] # e[l]
    BY DEF ElementsOf
  <2>2. \/ i \in 1 .. Len(s) /\ j \in 1 .. Len(s) /\ s[i] = s[j]
        \/ i - Len(s) \in 1 .. Len(e) /\ j - Len(s) \in 1 .. Len(e) /\ e[i - Len(s)] = e[j - Len(s)]
    <3>1. \/ i \in 1 .. Len(s) /\ c[i] = s[i]
          \/ i - Len(s) \in 1 .. Len(e) /\ c[i] = e[i - Len(s)]
      BY <1>4
    <3>2. \/ j \in 1 .. Len(s) /\ c[j] = s[j]
          \/ j - Len(s) \in 1 .. Len(e) /\ c[j] = e[j - Len(s)]
      BY <1>4
    <3>3. PICK x : x = i - Len(s)
      OBVIOUS
    <3>4. PICK y : y = j - Len(s)
      OBVIOUS
    <3> QED
      BY <1>8, <2>1, <3>1, <3>2, <3>3, <3>4
  <2>3. i \in Int /\ j \in Int
    BY <1>8
  <2> QED
    BY <1>1, <2>2, <2>3
<1> QED
  BY <1>2, <1>3, <1>7, <1>8

\* A list without repetition is as long as its set is large.
LEMMA OnceEach ==
  ASSUME NEW s \in Seq(SpokenTurns), \A i, j \in 1 .. Len(s) : s[i] = s[j] => i = j
  PROVE  Cardinality(ElementsOf(s)) = Len(s)
<1>1. Len(s) \in Nat /\ s \in [1 .. Len(s) -> SpokenTurns]
  BY LenProperties
<1>2. s \in Bijection(1 .. Len(s), ElementsOf(s))
  BY <1>1 DEF Bijection, Injection, Surjection, IsInjective, ElementsOf
<1>3. IsFiniteSet(1 .. Len(s)) /\ Cardinality(1 .. Len(s)) = Len(s)
  BY <1>1, FS_Interval
<1>4. ExistsBijection(1 .. Len(s), ElementsOf(s))
  BY <1>2 DEF ExistsBijection
<1> QED
  BY <1>3, <1>4, FS_Bijection

\* The head of the channel is taken.
LEMMA ChannelTail ==
  ASSUME ScreenTypes, channel # <<>>, channel' = Tail(channel)
  PROVE  /\ channel' \in Seq(MessageRecord) /\ Head(channel) \in MessageRecord
         /\ 1 \in 1 .. Len(channel) /\ channel[1] = Head(channel)
         /\ \A n \in 1 .. Len(channel') : n + 1 \in 1 .. Len(channel) /\ channel'[n] = channel[n + 1]
         /\ \A n \in 1 .. Len(channel) : n = 1 \/ (n - 1 \in 1 .. Len(channel') /\ channel'[n - 1] = channel[n])
<1>1. channel \in Seq(MessageRecord) /\ Len(channel) \in Nat /\ Len(channel) >= 1
  BY LenProperties, EmptySeq DEF ScreenTypes
<1>2. /\ channel' \in Seq(MessageRecord) /\ Head(channel) \in MessageRecord
      /\ Head(channel) = channel[1] /\ Len(channel') = Len(channel) - 1
      /\ \A n \in 1 .. Len(channel') : channel'[n] = channel[n + 1]
  BY <1>1, HeadTailProperties
<1>3. \A n \in 1 .. Len(channel') : n + 1 \in 1 .. Len(channel)
  BY <1>1, <1>2
<1>4. \A n \in 1 .. Len(channel) : n = 1 \/ (n - 1 \in 1 .. Len(channel') /\ channel'[n - 1] = channel[n])
  <2> SUFFICES ASSUME NEW n \in 1 .. Len(channel), n # 1
               PROVE  n - 1 \in 1 .. Len(channel') /\ channel'[n - 1] = channel[n]
    OBVIOUS
  <2>1. PICK k : k = n - 1
    OBVIOUS
  <2>2. k \in 1 .. Len(channel') /\ k + 1 = n
    BY <1>1, <1>2, <2>1
  <2> QED
    BY <1>2, <2>1, <2>2
<1> QED
  BY <1>1, <1>2, <1>3, <1>4

\* A message is sent.
LEMMA ChannelAppends ==
  ASSUME channel \in Seq(MessageRecord), NEW m \in MessageRecord, channel' = Append(channel, m)
  PROVE  /\ channel' \in Seq(MessageRecord)
         /\ \A n \in 1 .. Len(channel) : n \in 1 .. Len(channel') /\ channel'[n] = channel[n]
         /\ \E n \in 1 .. Len(channel') : channel'[n] = m
         /\ \A n \in 1 .. Len(channel') : (n \in 1 .. Len(channel) /\ channel'[n] = channel[n]) \/ channel'[n] = m
<1>1. Len(channel) \in Nat
  BY LenProperties
<1>2. /\ channel' \in Seq(MessageRecord) /\ Len(channel') = Len(channel) + 1
      /\ \A n \in 1 .. Len(channel) : channel'[n] = channel[n]
      /\ channel'[Len(channel) + 1] = m
  BY AppendProperties
<1>3. Len(channel') \in 1 .. Len(channel') /\ channel'[Len(channel')] = m
  BY <1>1, <1>2
<1>4. \A n \in 1 .. Len(channel) : n \in 1 .. Len(channel')
  BY <1>1, <1>2
<1>5. \A n \in 1 .. Len(channel') : n \in 1 .. Len(channel) \/ n = Len(channel')
  BY <1>1, <1>2
<1> QED
  BY <1>2, <1>3, <1>4, <1>5

\* What realtime sends of a turn of whose mode it stays.
LEMMA RealtimeSends ==
  ASSUME ScreenInv, NEW t \in SpokenTurns, NEW r \in SpokenRecord, NEW m \in MessageRecord,
         spoken' = [spoken EXCEPT ![t] = r], channel' = Append(channel, m), m.turn = t,
         r.at # "none", spoken[t].at # "none" => r.mode = spoken[t].mode,
         m.kind \in {"stable", "translated"} => Interprets(r.mode),
         m.kind = "reply" => ~Interprets(r.mode),
         r.at = "final" /\ Interprets(r.mode) =>
            spoken[t].at = "final" \/ m = [kind |-> "final", turn |-> t],
         UNCHANGED <<modeNow, stored, transcript, settled, activeTurn, poll, link, running>>
  PROVE  ScreenInv'
<1>1. ScreenTypes
  BY DEF ScreenInv
<1>2. /\ channel' \in Seq(MessageRecord)
      /\ \A n \in 1 .. Len(channel) : n \in 1 .. Len(channel') /\ channel'[n] = channel[n]
      /\ \E n \in 1 .. Len(channel') : channel'[n] = m
      /\ \A n \in 1 .. Len(channel') : (n \in 1 .. Len(channel) /\ channel'[n] = channel[n]) \/ channel'[n] = m
  BY <1>1, ChannelAppends DEF ScreenTypes
<1>3. spoken \in [SpokenTurns -> SpokenRecord]
  BY <1>1 DEF ScreenTypes
<1>4. spoken' \in [SpokenTurns -> SpokenRecord]
  BY <1>3
<1>5. spoken'[t] = r /\ \A u \in SpokenTurns : u # t => spoken'[u] = spoken[u]
  BY <1>3
<1>6. \A u \in SpokenTurns : spoken[u].at # "none" => spoken'[u].at # "none" /\ spoken'[u].mode = spoken[u].mode
  BY <1>5
<1>7. ScreenTypes'
  BY <1>1, <1>2, <1>4 DEF ScreenTypes
<1>8. ModesKept(spoken', transcript', channel')
  <2>1. ModesKept(spoken, transcript, channel)
    BY DEF ScreenInv
  <2>2. ASSUME NEW p \in transcript'.phrases
        PROVE  spoken'[p.turn].at # "none" /\ Interprets(spoken'[p.turn].mode)
    <3>1. p.turn \in SpokenTurns
      BY <1>7 DEF ScreenTypes, ShownRecord
    <3>2. spoken[p.turn].at # "none" /\ Interprets(spoken[p.turn].mode)
      BY <2>1 DEF ModesKept
    <3> QED
      BY <1>6, <3>1, <3>2
  <2>3. ASSUME NEW n \in 1 .. Len(channel')
        PROVE  /\ channel'[n].kind \in {"stable", "translated"} =>
                     spoken'[channel'[n].turn].at # "none" /\ Interprets(spoken'[channel'[n].turn].mode)
               /\ channel'[n].kind = "reply" =>
                     spoken'[channel'[n].turn].at # "none" /\ ~Interprets(spoken'[channel'[n].turn].mode)
    <3>1. CASE channel'[n] = m
      BY <1>5, <3>1
    <3>2. CASE n \in 1 .. Len(channel) /\ channel'[n] = channel[n]
      <4>1. /\ channel[n].kind \in {"stable", "translated"} =>
                  spoken[channel[n].turn].at # "none" /\ Interprets(spoken[channel[n].turn].mode)
            /\ channel[n].kind = "reply" =>
                  spoken[channel[n].turn].at # "none" /\ ~Interprets(spoken[channel[n].turn].mode)
        BY <2>1, <3>2 DEF ModesKept
      <4>2. channel[n].turn \in SpokenTurns
        <5>1. channel \in Seq(MessageRecord)
          BY <1>1 DEF ScreenTypes
        <5>2. channel[n] \in MessageRecord
          BY <3>2, <5>1, ElementOfSeq
        <5> QED
          BY <5>2 DEF MessageRecord
      <4> QED
        BY <1>6, <3>2, <4>1, <4>2
    <3> QED
      BY <1>2, <3>1, <3>2
  <2> QED
    BY <2>2, <2>3 DEF ModesKept
<1>9. NoStale(transcript', settled', activeTurn')
  BY DEF ScreenInv
<1>10. ASSUME running', link' = "up"
       PROVE  FinalsArrive(spoken', transcript', channel')
  <2>1. FinalsArrive(spoken, transcript, channel)
    BY <1>10 DEF ScreenInv
  <2> SUFFICES ASSUME NEW u \in SpokenTurns, spoken'[u].at = "final", Interprets(spoken'[u].mode)
               PROVE  \/ u \in ElementsOf(transcript'.turns)
                      \/ \E n \in 1 .. Len(channel') : channel'[n] = [kind |-> "final", turn |-> u]
    BY DEF FinalsArrive
  <2>2. CASE spoken[u].at = "final"
    <3>1. Interprets(spoken[u].mode)
      BY <1>6, <2>2
    <3>2. \/ u \in ElementsOf(transcript.turns)
          \/ \E n \in 1 .. Len(channel) : channel[n] = [kind |-> "final", turn |-> u]
      BY <2>1, <2>2, <3>1 DEF FinalsArrive
    <3> QED
      BY <1>2, <3>2
  <2>3. CASE spoken[u].at # "final"
    <3>1. u = t /\ m = [kind |-> "final", turn |-> t]
      BY <1>5, <2>3
    <3> QED
      BY <1>2, <3>1
  <2> QED
    BY <2>2, <2>3
<1> QED
  BY <1>7, <1>8, <1>9, <1>10 DEF ScreenInv

\* The three kinds of things that realtime sends.
LEMMA PartialSent ==
  ASSUME ScreenInv, NEW t \in SpokenTurns, SendPartial(t)
  PROVE  ScreenInv'
<1>1. PICK r : r = [spoken[t] EXCEPT !.at = "live", !.partials = @ + 1,
                      !.mode = IF spoken[t].at = "none" THEN modeNow ELSE @]
  OBVIOUS
<1>2. spoken[t] \in SpokenRecord /\ modeNow \in Nat
  BY DEF ScreenInv, ScreenTypes
<1>3. /\ r \in SpokenRecord /\ r.at = "live"
      /\ spoken[t].at # "none" => r.mode = spoken[t].mode
  <2>1. PICK old : old = spoken[t]
    OBVIOUS
  <2>2. old \in SpokenRecord /\ old.mode \in Nat /\ old.partials + 1 \in Nat
    BY <1>2, <2>1 DEF SpokenRecord
  <2>3. PICK kept : kept = IF old.at = "none" THEN modeNow ELSE old.mode
    OBVIOUS
  <2>4. kept \in Nat
    BY <1>2, <2>2, <2>3
  <2>5. r = [old EXCEPT !.at = "live", !.partials = old.partials + 1, !.mode = kept]
    BY <1>1, <2>1, <2>3
  <2>6. r \in SpokenRecord /\ r.at = "live" /\ r.mode = kept
    BY <2>2, <2>4, <2>5 DEF SpokenRecord
  <2> QED
    BY <2>1, <2>3, <2>6
<1>4. PICK m : m = [kind |-> "partial", turn |-> t]
  OBVIOUS
<1>5. m \in MessageRecord /\ m.turn = t /\ m.kind = "partial"
  BY <1>4 DEF MessageRecord
<1>6. spoken' = [spoken EXCEPT ![t] = r] /\ channel' = Append(channel, m)
  BY <1>1, <1>4 DEF SendPartial, Turn, SendOver
<1>7. UNCHANGED <<modeNow, stored, transcript, settled, activeTurn, poll, link, running>>
  BY DEF SendPartial, pageState
<1> QED
  BY <1>3, <1>5, <1>6, <1>7, RealtimeSends

\* A phrase that became stable, or its translation, is of an interpreted turn.
LEMMA PhraseSent ==
  ASSUME ScreenInv, NEW t \in SpokenTurns, SendPhrase(t)
  PROVE  ScreenInv'
<1>1. PICK status \in {"stable", "translated"} :
         /\ spoken' = [spoken EXCEPT ![t] = [spoken[t] EXCEPT !.phrase = status]]
         /\ channel' = Append(channel, [kind |-> status, turn |-> t])
  BY DEF SendPhrase, Turn, SendOver
<1>2. PICK r : r = [spoken[t] EXCEPT !.phrase = status]
  OBVIOUS
<1>3. spoken[t] \in SpokenRecord /\ spoken[t].at # "none" /\ Interprets(spoken[t].mode)
  BY DEF ScreenInv, ScreenTypes, SendPhrase
<1>4. r \in SpokenRecord /\ r.at = spoken[t].at /\ r.mode = spoken[t].mode
  BY <1>2, <1>3 DEF SpokenRecord
<1>5. PICK m : m = [kind |-> status, turn |-> t]
  OBVIOUS
<1>6. m \in MessageRecord /\ m.turn = t /\ m.kind = status
  BY <1>5 DEF MessageRecord
<1>7. spoken' = [spoken EXCEPT ![t] = r] /\ channel' = Append(channel, m)
  BY <1>1, <1>2, <1>5
<1>8. UNCHANGED <<modeNow, stored, transcript, settled, activeTurn, poll, link, running>>
  BY DEF SendPhrase, pageState
<1>9. m.kind # "reply"
  BY <1>6
<1>10. Interprets(r.mode)
  BY <1>3, <1>4
<1> QED
  BY <1>3, <1>4, <1>6, <1>7, <1>8, <1>9, <1>10, RealtimeSends

\* The final of an interpreted turn, or the assistant's reply, goes into the channel.
LEMMA FinalSent ==
  ASSUME ScreenInv, NEW t \in SpokenTurns, SendFinal(t)
  PROVE  ScreenInv'
<1>1. PICK r : r = [spoken[t] EXCEPT !.at = "final"]
  OBVIOUS
<1>2. spoken[t] \in SpokenRecord /\ spoken[t].mode = modeNow
  BY DEF ScreenInv, ScreenTypes, SendFinal
<1>3. r \in SpokenRecord /\ r.at = "final" /\ r.mode = spoken[t].mode
  BY <1>1, <1>2 DEF SpokenRecord
<1>4. PICK m : m = [kind |-> IF Interprets(modeNow) THEN "final" ELSE "reply", turn |-> t]
  OBVIOUS
<1>5. /\ m \in MessageRecord /\ m.turn = t /\ m.kind \in {"final", "reply"}
      /\ m.kind = "reply" => ~Interprets(r.mode)
      /\ Interprets(r.mode) => m = [kind |-> "final", turn |-> t]
  BY <1>2, <1>3, <1>4 DEF MessageRecord
<1>6. spoken' = [spoken EXCEPT ![t] = r] /\ channel' = Append(channel, m)
  BY <1>1, <1>4 DEF SendFinal, Turn, SendOver
<1>7. UNCHANGED <<modeNow, stored, transcript, settled, activeTurn, poll, link, running>>
  BY DEF SendFinal, pageState
<1>8. m.kind \notin {"stable", "translated"} /\ r.at # "none"
  BY <1>3, <1>5
<1> QED
  BY <1>3, <1>5, <1>6, <1>7, <1>8, RealtimeSends

\* What clearing subtitles leaves of the transcript.
LEMMA Clears ==
  ASSUME ScreenTypes, NEW turns \in SUBSET SpokenTurns
  PROVE  /\ Cleared(turns) \in ShownRecord
         /\ Cleared(turns).turns = transcript.turns /\ Cleared(turns).replies = transcript.replies
         /\ Cleared(turns).partial = IF transcript.partial \in turns THEN NoTurn ELSE transcript.partial
         /\ Cleared(turns).phrases = {p \in transcript.phrases : p.turn \notin turns}
<1>1. PICK left : left = {p \in transcript.phrases : p.turn \notin turns}
  OBVIOUS
<1>2. PICK shown : shown = IF transcript.partial \in turns THEN NoTurn ELSE transcript.partial
  OBVIOUS
<1>3. Cleared(turns) = [transcript EXCEPT !.partial = shown, !.phrases = left]
  BY <1>1, <1>2 DEF Cleared
<1>4. transcript \in ShownRecord
  BY DEF ScreenTypes
<1>5. left \in SUBSET [turn : SpokenTurns, status : {"stable", "translated"}]
  BY <1>1, <1>4 DEF ShownRecord
<1>6. shown \in SpokenTurns \cup {NoTurn}
  BY <1>2, <1>4 DEF ShownRecord
<1> QED
  BY <1>1, <1>2, <1>3, <1>4, <1>5, <1>6 DEF ShownRecord

\* A step of the page: realtime's state stays, messages leave the channel.
LEMMA PageStep ==
  ASSUME ScreenInv, transcript' \in ShownRecord, settled' \in SUBSET SpokenTurns,
         activeTurn' \in SpokenTurns \cup {NoTurn}, running' \in BOOLEAN,
         channel' \in Seq(MessageRecord), stored' \in SUBSET SpokenTurns, modeNow' \in Nat,
         \A n \in 1 .. Len(channel') : \E k \in 1 .. Len(channel) : channel'[n] = channel[k],
         poll'.turns \in SUBSET SpokenTurns, DOMAIN poll' = {"under", "turns", "cursor"},
         \A p \in transcript'.phrases : spoken[p.turn].at # "none" /\ Interprets(spoken[p.turn].mode),
         NoStale(transcript', settled', activeTurn'),
         running' /\ link' = "up" => FinalsArrive(spoken, transcript', channel'),
         UNCHANGED spoken
  PROVE  ScreenInv'
<1>1. ScreenTypes'
  BY DEF ScreenInv, ScreenTypes
<1>2. ModesKept(spoken', transcript', channel')
  BY DEF ScreenInv, ModesKept
<1> QED
  BY <1>1, <1>2 DEF ScreenInv

\* A step that neither the transcript nor the channel feels.
LEMMA QuietScreen ==
  ASSUME ScreenInv, UNCHANGED <<spoken, channel, transcript, settled, activeTurn, running>>,
         stored' \in SUBSET SpokenTurns, modeNow' \in Nat,
         poll'.turns \in SUBSET SpokenTurns, DOMAIN poll' = {"under", "turns", "cursor"},
         link' = link \/ link' = "over"
  PROVE  ScreenInv'
<1>1. ScreenTypes'
  BY DEF ScreenInv, ScreenTypes
<1> QED
  BY <1>1 DEF ScreenInv

\* What stays shown, and the final that is taken from the channel.
LEMMA FinalsStay ==
  ASSUME FinalsArrive(spoken, transcript, channel),
         ElementsOf(transcript.turns) \subseteq ElementsOf(transcript'.turns),
         \A n \in 1 .. Len(channel), t \in SpokenTurns :
            channel[n] = [kind |-> "final", turn |-> t] =>
                \/ t \in ElementsOf(transcript'.turns)
                \/ \E k \in 1 .. Len(channel') : channel'[k] = channel[n]
  PROVE  FinalsArrive(spoken, transcript', channel')
<1> SUFFICES ASSUME NEW t \in SpokenTurns, spoken[t].at = "final", Interprets(spoken[t].mode)
             PROVE  \/ t \in ElementsOf(transcript'.turns)
                    \/ \E n \in 1 .. Len(channel') : channel'[n] = [kind |-> "final", turn |-> t]
  BY DEF FinalsArrive
<1>1. \/ t \in ElementsOf(transcript.turns)
      \/ \E n \in 1 .. Len(channel) : channel[n] = [kind |-> "final", turn |-> t]
  BY DEF FinalsArrive
<1> QED
  BY <1>1

\* Settling turns ends their subtitles.
LEMMA SettledCleared ==
  ASSUME ScreenInv, NEW turns \in SUBSET SpokenTurns, Settle(turns),
         transcript'.partial = Cleared(turns).partial, transcript'.phrases = Cleared(turns).phrases
  PROVE  /\ settled' \in SUBSET SpokenTurns /\ activeTurn' \in SpokenTurns \cup {NoTurn}
         /\ transcript'.partial # NoTurn => transcript'.partial = activeTurn'
         /\ transcript'.partial \notin settled'
         /\ \A p \in transcript'.phrases : p.turn \notin settled'
         /\ \A p \in transcript'.phrases : spoken[p.turn].at # "none" /\ Interprets(spoken[p.turn].mode)
<1>1. ScreenTypes
  BY DEF ScreenInv
<1>2. /\ Cleared(turns).partial = IF transcript.partial \in turns THEN NoTurn ELSE transcript.partial
      /\ Cleared(turns).phrases = {p \in transcript.phrases : p.turn \notin turns}
  BY <1>1, Clears
<1>3. settled \in SUBSET SpokenTurns /\ activeTurn \in SpokenTurns \cup {NoTurn} /\ NoTurn \notin SpokenTurns
  BY <1>1, VoiceScreenAssumption DEF ScreenTypes, SpokenTurns, NoTurn
<1>4. /\ transcript.partial # NoTurn => transcript.partial = activeTurn
      /\ transcript.partial \notin settled
      /\ \A p \in transcript.phrases : p.turn \notin settled
      /\ \A p \in transcript.phrases : spoken[p.turn].at # "none" /\ Interprets(spoken[p.turn].mode)
  BY DEF ScreenInv, NoStale, ModesKept
<1>5. settled' = settled \cup turns /\ activeTurn' = IF activeTurn \in turns THEN NoTurn ELSE activeTurn
  BY DEF Settle
<1>6. settled' \in SUBSET SpokenTurns /\ activeTurn' \in SpokenTurns \cup {NoTurn}
  BY <1>3, <1>5
<1>7. transcript'.partial # NoTurn => transcript'.partial = activeTurn'
  BY <1>2, <1>4, <1>5
<1>8. transcript'.partial \notin settled'
  BY <1>2, <1>3, <1>4, <1>5
<1>9. \A p \in transcript'.phrases : p \in transcript.phrases /\ p.turn \notin turns
  BY <1>2
<1>10. \A p \in transcript'.phrases : p.turn \notin settled'
  BY <1>4, <1>5, <1>9
<1> QED
  BY <1>4, <1>6, <1>7, <1>8, <1>9, <1>10

\* The page's reactions to a message of each kind.
LEMMA MessageTaken ==
  ASSUME ScreenInv, channel # <<>>, channel' = Tail(channel),
         transcript' \in ShownRecord, settled' \in SUBSET SpokenTurns,
         activeTurn' \in SpokenTurns \cup {NoTurn},
         \A p \in transcript'.phrases : spoken[p.turn].at # "none" /\ Interprets(spoken[p.turn].mode),
         NoStale(transcript', settled', activeTurn'),
         running /\ link = "up" =>
            /\ ElementsOf(transcript.turns) \subseteq ElementsOf(transcript'.turns)
            /\ Head(channel).kind = "final" => Head(channel).turn \in ElementsOf(transcript'.turns),
         UNCHANGED <<spoken, modeNow, stored, poll, link, running>>
  PROVE  ScreenInv'
<1>1. ScreenTypes
  BY DEF ScreenInv
<1>2. /\ channel' \in Seq(MessageRecord) /\ Head(channel) \in MessageRecord
      /\ 1 \in 1 .. Len(channel) /\ channel[1] = Head(channel)
      /\ \A n \in 1 .. Len(channel') : n + 1 \in 1 .. Len(channel) /\ channel'[n] = channel[n + 1]
      /\ \A n \in 1 .. Len(channel) : n = 1 \/ (n - 1 \in 1 .. Len(channel') /\ channel'[n - 1] = channel[n])
  BY <1>1, ChannelTail
<1>3. \A n \in 1 .. Len(channel') : \E k \in 1 .. Len(channel) : channel'[n] = channel[k]
  BY <1>2
<1>4. ASSUME running', link' = "up"
      PROVE  FinalsArrive(spoken, transcript', channel')
  <2>1. FinalsArrive(spoken, transcript, channel)
    BY <1>4 DEF ScreenInv
  <2>2. /\ ElementsOf(transcript.turns) \subseteq ElementsOf(transcript'.turns)
        /\ Head(channel).kind = "final" => Head(channel).turn \in ElementsOf(transcript'.turns)
    BY <1>4
  <2>3. ASSUME NEW n \in 1 .. Len(channel), NEW t \in SpokenTurns,
               channel[n] = [kind |-> "final", turn |-> t]
        PROVE  \/ t \in ElementsOf(transcript'.turns)
               \/ \E k \in 1 .. Len(channel') : channel'[k] = channel[n]
    <3>1. CASE n = 1
      <4>1. Head(channel).kind = "final" /\ Head(channel).turn = t
        BY <1>2, <2>3, <3>1
      <4> QED
        BY <2>2, <4>1
    <3>2. CASE n # 1
      BY <1>2, <3>2
    <3> QED
      BY <3>1, <3>2
  <2> QED
    BY <2>1, <2>2, <2>3, FinalsStay
<1>5. /\ running' \in BOOLEAN /\ stored' \in SUBSET SpokenTurns /\ modeNow' \in Nat
      /\ poll'.turns \in SUBSET SpokenTurns /\ DOMAIN poll' = {"under", "turns", "cursor"}
  BY <1>1 DEF ScreenTypes
<1> QED
  BY <1>2, <1>3, <1>4, <1>5, PageStep

\* A message that changes nothing the page shows.
LEMMA MessageKept ==
  ASSUME ScreenInv, channel # <<>>, channel' = Tail(channel),
         UNCHANGED <<transcript, settled, activeTurn>>,
         running /\ link = "up" => Head(channel).kind # "final",
         UNCHANGED <<spoken, modeNow, stored, poll, link, running>>
  PROVE  ScreenInv'
<1>1. /\ transcript' \in ShownRecord /\ settled' \in SUBSET SpokenTurns
      /\ activeTurn' \in SpokenTurns \cup {NoTurn}
  BY DEF ScreenInv, ScreenTypes
<1>2. NoStale(transcript', settled', activeTurn')
  BY DEF ScreenInv
<1>3. \A p \in transcript'.phrases : spoken[p.turn].at # "none" /\ Interprets(spoken[p.turn].mode)
  BY DEF ScreenInv, ModesKept
<1> QED
  BY <1>1, <1>2, <1>3, MessageTaken

\* What is shown is settled, and its phrases are of interpreted turns.
LEMMA ShownFacts ==
  ASSUME ScreenInv
  PROVE  /\ transcript.turns \in Seq(SpokenTurns) /\ Displayed = ElementsOf(transcript.turns)
         /\ Displayed \subseteq settled /\ NoTurn \notin SpokenTurns
         /\ transcript.phrases \in SUBSET [turn : SpokenTurns, status : {"stable", "translated"}]
         /\ \A p \in transcript.phrases : spoken[p.turn].at # "none" /\ Interprets(spoken[p.turn].mode)
BY VoiceScreenAssumption
   DEF ScreenInv, ScreenTypes, ShownRecord, NoStale, ModesKept, Displayed, ElementsOf, SpokenTurns, NoTurn

\* A subtitle of a turn that is not settled: the turn becomes the active one.
LEMMA PartialTaken ==
  ASSUME ScreenInv, channel # <<>>, channel' = Tail(channel), Head(channel).kind = "partial",
         Head(channel).turn \notin settled,
         transcript' = SetPartial(Head(channel).turn), activeTurn' = Head(channel).turn,
         UNCHANGED settled, UNCHANGED <<spoken, modeNow, stored, poll, link, running>>
  PROVE  ScreenInv'
<1>1. PICK t : t = Head(channel).turn
  OBVIOUS
<1>2. t \in SpokenTurns
  BY <1>1, ChannelTail DEF ScreenInv, MessageRecord
<1>3. t \notin Displayed
  BY <1>1, ShownFacts
<1>4. transcript' = [transcript EXCEPT !.partial = t]
  BY <1>1, <1>3 DEF SetPartial
<1>5. transcript \in ShownRecord /\ settled \in SUBSET SpokenTurns
  BY DEF ScreenInv, ScreenTypes
<1>6. /\ transcript' \in ShownRecord /\ transcript'.partial = t
      /\ transcript'.turns = transcript.turns /\ transcript'.phrases = transcript.phrases
  BY <1>2, <1>4, <1>5 DEF ShownRecord
<1>7. NoStale(transcript', settled', activeTurn')
  BY <1>1, <1>6 DEF ScreenInv, NoStale
<1>8. \A p \in transcript'.phrases : spoken[p.turn].at # "none" /\ Interprets(spoken[p.turn].mode)
  BY <1>6, ShownFacts
<1> QED
  BY <1>1, <1>2, <1>5, <1>6, <1>7, <1>8, MessageTaken

\* A phrase of a turn that is not settled, in place of an older one of that turn.
LEMMA PhraseTaken ==
  ASSUME ScreenInv, channel # <<>>, channel' = Tail(channel),
         Head(channel).kind \in {"stable", "translated"}, Head(channel).turn \notin settled,
         transcript' = AddPhrase(Head(channel).turn, Head(channel).kind),
         UNCHANGED <<settled, activeTurn>>, UNCHANGED <<spoken, modeNow, stored, poll, link, running>>
  PROVE  ScreenInv'
<1>1. PICK t : t = Head(channel).turn
  OBVIOUS
<1>2. PICK status : status = Head(channel).kind
  OBVIOUS
<1>3. /\ t \in SpokenTurns /\ 1 \in 1 .. Len(channel) /\ channel[1] = Head(channel)
  BY <1>1, ChannelTail DEF ScreenInv, MessageRecord
<1>4. spoken[t].at # "none" /\ Interprets(spoken[t].mode)
  BY <1>1, <1>3 DEF ScreenInv, ModesKept
<1>5. CASE transcript' = transcript
  BY <1>2, <1>5, MessageKept
<1>6. CASE transcript' # transcript
  <2>1. PICK phrases : phrases = {p \in transcript.phrases : p.turn # t} \cup {[turn |-> t, status |-> status]}
    OBVIOUS
  <2>2. transcript' = [transcript EXCEPT !.phrases = phrases]
    BY <1>1, <1>2, <1>6, <2>1 DEF AddPhrase
  <2>3. transcript \in ShownRecord /\ settled \in SUBSET SpokenTurns /\ activeTurn \in SpokenTurns \cup {NoTurn}
    BY DEF ScreenInv, ScreenTypes
  <2>4. status \in {"stable", "translated"}
    BY <1>2
  <2>5. phrases \in SUBSET [turn : SpokenTurns, status : {"stable", "translated"}]
    BY <1>3, <2>1, <2>4, ShownFacts
  <2>6. /\ transcript' \in ShownRecord /\ transcript'.partial = transcript.partial
        /\ transcript'.turns = transcript.turns /\ transcript'.phrases = phrases
    BY <2>2, <2>3, <2>5 DEF ShownRecord
  <2>7. \A p \in phrases : p \in transcript.phrases \/ p.turn = t
    BY <2>1
  <2>8. NoStale(transcript', settled', activeTurn')
    BY <1>1, <2>6, <2>7 DEF ScreenInv, NoStale
  <2>9. \A p \in transcript'.phrases : spoken[p.turn].at # "none" /\ Interprets(spoken[p.turn].mode)
    BY <1>4, <2>6, <2>7, ShownFacts
  <2>10. Head(channel).kind # "final"
    BY <1>2, <2>4
  <2> QED
    BY <2>3, <2>6, <2>8, <2>9, <2>10, MessageTaken
<1> QED
  BY <1>5, <1>6

\* The assistant's reply settles its turn and ends the subtitle it had.
LEMMA ReplyTaken ==
  ASSUME ScreenInv, channel # <<>>, channel' = Tail(channel), Head(channel).kind = "reply",
         transcript' = [(IF activeTurn = Head(channel).turn THEN ClearPartial ELSE transcript)
                          EXCEPT !.replies = @ \cup {Head(channel).turn}],
         Settle({Head(channel).turn}), UNCHANGED <<spoken, modeNow, stored, poll, link, running>>
  PROVE  ScreenInv'
<1>1. PICK t : t = Head(channel).turn
  OBVIOUS
<1>2. /\ t \in SpokenTurns /\ 1 \in 1 .. Len(channel) /\ channel[1] = Head(channel)
  BY <1>1, ChannelTail DEF ScreenInv, MessageRecord
<1>3. ~Interprets(spoken[t].mode)
  BY <1>1, <1>2 DEF ScreenInv, ModesKept
<1>4. /\ transcript \in ShownRecord /\ settled \in SUBSET SpokenTurns
      /\ activeTurn \in SpokenTurns \cup {NoTurn}
  BY DEF ScreenInv, ScreenTypes
<1>5. PICK base : base = IF activeTurn = t THEN ClearPartial ELSE transcript
  OBVIOUS
<1>6. /\ base \in ShownRecord /\ base.turns = transcript.turns
      /\ activeTurn = t => base.partial = NoTurn /\ base.phrases = {}
      /\ activeTurn # t => base = transcript
  <2>1. CASE activeTurn = t
    <3>1. base = [transcript EXCEPT !.partial = NoTurn, !.phrases = {}]
      BY <1>5, <2>1 DEF ClearPartial
    <3> QED
      BY <1>4, <2>1, <3>1 DEF ShownRecord
  <2>2. CASE activeTurn # t
    BY <1>4, <1>5, <2>2
  <2> QED
    BY <2>1, <2>2
<1>7. PICK replies : replies = base.replies \cup {t}
  OBVIOUS
<1>8. transcript' = [base EXCEPT !.replies = replies]
  BY <1>1, <1>5, <1>7
<1>9. replies \in SUBSET SpokenTurns
  BY <1>2, <1>6, <1>7 DEF ShownRecord
<1>10. /\ transcript' \in ShownRecord /\ transcript'.turns = transcript.turns
       /\ transcript'.partial = base.partial /\ transcript'.phrases = base.phrases
  BY <1>6, <1>8, <1>9 DEF ShownRecord
<1>11. settled' = settled \cup {t} /\ activeTurn' = IF activeTurn = t THEN NoTurn ELSE activeTurn
  BY <1>1 DEF Settle
<1>12. \A p \in transcript'.phrases : p \in transcript.phrases
  BY <1>6, <1>10
<1>13. \A p \in transcript'.phrases : p.turn # t
  BY <1>3, <1>12, ShownFacts
<1>14. NoStale(transcript, settled, activeTurn)
  BY DEF ScreenInv
<1>15. /\ transcript'.partial # NoTurn => transcript'.partial = activeTurn'
       /\ transcript'.partial \notin settled'
  <2>1. CASE activeTurn = t
    <3>1. NoTurn \notin settled'
      BY <1>2, <1>4, <1>11, ShownFacts
    <3> QED
      BY <1>6, <1>10, <2>1, <3>1
  <2>2. CASE activeTurn # t
    <3>1. transcript'.partial = transcript.partial /\ activeTurn' = activeTurn
      BY <1>6, <1>10, <1>11, <2>2
    <3>2. transcript.partial # t
      BY <1>2, <1>14, <2>2, ShownFacts DEF NoStale
    <3> QED
      BY <1>11, <1>14, <3>1, <3>2 DEF NoStale
  <2> QED
    BY <2>1, <2>2
<1>16. NoStale(transcript', settled', activeTurn')
  <2>1. \A p \in transcript'.phrases : p.turn \notin settled'
    BY <1>11, <1>12, <1>13, <1>14 DEF NoStale
  <2>2. /\ \A i, j \in 1 .. Len(transcript'.turns) : transcript'.turns[i] = transcript'.turns[j] => i = j
        /\ ElementsOf(transcript'.turns) \subseteq settled'
    BY <1>10, <1>11, <1>14 DEF NoStale
  <2> QED
    BY <1>15, <2>1, <2>2 DEF NoStale
<1>17. \A p \in transcript'.phrases : spoken[p.turn].at # "none" /\ Interprets(spoken[p.turn].mode)
  BY <1>12, ShownFacts
<1>18. settled' \in SUBSET SpokenTurns /\ activeTurn' \in SpokenTurns \cup {NoTurn}
  BY <1>2, <1>4, <1>11
<1>19. Head(channel).kind # "final" /\ ElementsOf(transcript.turns) \subseteq ElementsOf(transcript'.turns)
  BY <1>10
<1> QED
  BY <1>10, <1>16, <1>17, <1>18, <1>19, MessageTaken

\* Turns that are shown below what is shown.
LEMMA TurnsShown ==
  ASSUME ScreenInv, NEW turns \in SUBSET SpokenTurns, Settle(turns),
         NEW list \in Seq(SpokenTurns), ElementsOf(list) = turns \ Displayed,
         \A i, j \in 1 .. Len(list) : list[i] = list[j] => i = j,
         transcript' = [Cleared(turns) EXCEPT !.turns = transcript.turns \o list]
  PROVE  /\ transcript' \in ShownRecord
         /\ settled' \in SUBSET SpokenTurns /\ activeTurn' \in SpokenTurns \cup {NoTurn}
         /\ NoStale(transcript', settled', activeTurn')
         /\ ElementsOf(transcript'.turns) = ElementsOf(transcript.turns) \cup turns
         /\ \A p \in transcript'.phrases : spoken[p.turn].at # "none" /\ Interprets(spoken[p.turn].mode)
<1>1. PICK base : base = Cleared(turns)
  OBVIOUS
<1>2. base \in ShownRecord /\ base.turns = transcript.turns
  BY <1>1, Clears DEF ScreenInv
<1>3. PICK shown : shown = transcript.turns \o list
  OBVIOUS
<1>4. ElementsOf(transcript.turns) \cap ElementsOf(list) = {} /\ transcript.turns \in Seq(SpokenTurns)
  BY ShownFacts
<1>5. \A i, j \in 1 .. Len(transcript.turns) : transcript.turns[i] = transcript.turns[j] => i = j
  BY DEF ScreenInv, NoStale
<1>6. /\ shown \in Seq(SpokenTurns)
      /\ ElementsOf(shown) = ElementsOf(transcript.turns) \cup ElementsOf(list)
      /\ \A i, j \in 1 .. Len(shown) : shown[i] = shown[j] => i = j
  <2>1. PICK old : old = transcript.turns
    OBVIOUS
  <2>2. /\ old \in Seq(SpokenTurns) /\ ElementsOf(old) \cap ElementsOf(list) = {}
        /\ \A i, j \in 1 .. Len(old) : old[i] = old[j] => i = j
    BY <1>4, <1>5, <2>1
  <2>3. /\ old \o list \in Seq(SpokenTurns)
        /\ ElementsOf(old \o list) = ElementsOf(old) \cup ElementsOf(list)
        /\ \A i, j \in 1 .. Len(old \o list) : (old \o list)[i] = (old \o list)[j] => i = j
    BY <2>2, ShownBehind
  <2> QED
    BY <1>3, <2>1, <2>3
<1>7. transcript' = [base EXCEPT !.turns = shown]
  BY <1>1, <1>3
<1>8. /\ transcript' \in ShownRecord /\ transcript'.turns = shown
      /\ transcript'.partial = base.partial /\ transcript'.phrases = base.phrases
  BY <1>2, <1>6, <1>7 DEF ShownRecord
<1>9. /\ settled' \in SUBSET SpokenTurns /\ activeTurn' \in SpokenTurns \cup {NoTurn}
      /\ transcript'.partial # NoTurn => transcript'.partial = activeTurn'
      /\ transcript'.partial \notin settled'
      /\ \A p \in transcript'.phrases : p.turn \notin settled'
      /\ \A p \in transcript'.phrases : spoken[p.turn].at # "none" /\ Interprets(spoken[p.turn].mode)
  BY <1>1, <1>8, SettledCleared
<1>10. ElementsOf(transcript'.turns) = ElementsOf(transcript.turns) \cup turns
  <2>1. ElementsOf(transcript.turns) = Displayed
    BY ShownFacts
  <2> QED
    BY <1>6, <1>8, <2>1
<1>11. ElementsOf(transcript'.turns) \subseteq settled'
  BY <1>10, ShownFacts DEF Settle
<1>12. NoStale(transcript', settled', activeTurn')
  <2>1. \A i, j \in 1 .. Len(transcript'.turns) : transcript'.turns[i] = transcript'.turns[j] => i = j
    <3>1. \A i, j \in 1 .. Len(shown) : shown[i] = shown[j] => i = j
      BY <1>6
    <3>2. transcript'.turns = shown
      BY <1>8
    <3> QED
      BY <3>1, <3>2
  <2> QED
    BY <1>9, <1>11, <2>1 DEF NoStale
<1> QED
  BY <1>8, <1>9, <1>10, <1>12

\* A final is shown, once, and settles its turn.
LEMMA FinalTaken ==
  ASSUME ScreenInv, channel # <<>>, channel' = Tail(channel), Head(channel).kind = "final",
         transcript' = AddTurn(Head(channel).turn), Settle({Head(channel).turn}),
         UNCHANGED <<spoken, modeNow, stored, poll, link, running>>
  PROVE  ScreenInv'
<1>1. PICK t : t = Head(channel).turn
  OBVIOUS
<1>2. t \in SpokenTurns
  BY <1>1, ChannelTail DEF ScreenInv, MessageRecord
<1>3. PICK list : list = IF t \in Displayed THEN <<>> ELSE <<t>>
  OBVIOUS
<1>4. /\ list \in Seq(SpokenTurns) /\ ElementsOf(list) = {t} \ Displayed
      /\ \A i, j \in 1 .. Len(list) : list[i] = list[j] => i = j
  <2>1. CASE t \in Displayed
    <3>1. list = <<>> /\ Len(list) = 0 /\ list \in Seq(SpokenTurns)
      BY <1>3, <2>1
    <3>2. 1 .. Len(list) = {}
      BY <3>1
    <3> QED
      BY <2>1, <3>1, <3>2 DEF ElementsOf
  <2>2. CASE t \notin Displayed
    <3>1. list = <<t>> /\ Len(list) = 1 /\ list[1] = t /\ list \in Seq(SpokenTurns)
      BY <1>2, <1>3, <2>2
    <3>2. 1 .. Len(list) = {1}
      BY <3>1
    <3>3. ElementsOf(list) = {t}
      BY <3>1, <3>2 DEF ElementsOf
    <3> QED
      BY <2>2, <3>1, <3>2, <3>3
  <2> QED
    BY <2>1, <2>2
<1>5. transcript' = [Cleared({t}) EXCEPT !.turns = transcript.turns \o list]
  <2>1. PICK base : base = Cleared({t})
    OBVIOUS
  <2>2. base \in ShownRecord /\ base.turns = transcript.turns
    BY <1>2, <2>1, Clears DEF ScreenInv
  <2>3. transcript.turns \in Seq(SpokenTurns)
    BY ShownFacts
  <2>4. CASE t \in Displayed
    <3>1. transcript' = base
      BY <1>1, <2>1, <2>4 DEF AddTurn
    <3>2. transcript.turns \o list = transcript.turns
      BY <1>3, <2>3, <2>4
    <3>3. base = [base EXCEPT !.turns = transcript.turns]
      BY <2>2 DEF ShownRecord
    <3> QED
      BY <2>1, <3>1, <3>2, <3>3
  <2>5. CASE t \notin Displayed
    <3>1. transcript' = [base EXCEPT !.turns = Append(base.turns, t)]
      BY <1>1, <2>1, <2>5 DEF AddTurn
    <3>2. transcript.turns \o list = Append(transcript.turns, t)
      BY <1>2, <1>3, <2>3, <2>5
    <3> QED
      BY <2>1, <2>2, <3>1, <3>2
  <2> QED
    BY <2>4, <2>5
<1>6. {t} \in SUBSET SpokenTurns /\ Settle({t})
  BY <1>1, <1>2
<1>7. /\ transcript' \in ShownRecord
      /\ settled' \in SUBSET SpokenTurns /\ activeTurn' \in SpokenTurns \cup {NoTurn}
      /\ NoStale(transcript', settled', activeTurn')
      /\ ElementsOf(transcript'.turns) = ElementsOf(transcript.turns) \cup {t}
      /\ \A p \in transcript'.phrases : spoken[p.turn].at # "none" /\ Interprets(spoken[p.turn].mode)
  BY <1>4, <1>5, <1>6, TurnsShown
<1>8. /\ ElementsOf(transcript.turns) \subseteq ElementsOf(transcript'.turns)
      /\ Head(channel).turn \in ElementsOf(transcript'.turns)
  BY <1>1, <1>7
<1> QED
  BY <1>7, <1>8, MessageTaken

\* Whatever message is taken, on a live connection or a dead one.
LEMMA DataMessageHandled ==
  ASSUME ScreenInv, OnDataMessage
  PROVE  ScreenInv'
<1>1. channel # <<>> /\ channel' = Tail(channel) /\ UNCHANGED <<spoken, modeNow, stored, poll, link, running>>
  BY DEF OnDataMessage
<1>2. CASE ~(running /\ link = "up")
  <2>1. UNCHANGED <<transcript, settled, activeTurn>>
    BY <1>2 DEF OnDataMessage
  <2> QED
    BY <1>1, <1>2, <2>1, MessageKept
<1>3. CASE running /\ link = "up"
  <2>1. Take(Head(channel))
    BY <1>3 DEF OnDataMessage
  <2>2. Head(channel).turn \in SpokenTurns
    BY <1>1, ChannelTail DEF ScreenInv, MessageRecord
  <2>3. CASE /\ Head(channel).kind = "partial" /\ Head(channel).turn \notin settled
             /\ transcript' = SetPartial(Head(channel).turn)
             /\ activeTurn' = Head(channel).turn /\ UNCHANGED settled
    BY <1>1, <2>3, PartialTaken
  <2>4. CASE /\ Head(channel).kind \in {"stable", "translated"} /\ Head(channel).turn \notin settled
             /\ transcript' = AddPhrase(Head(channel).turn, Head(channel).kind)
             /\ UNCHANGED <<settled, activeTurn>>
    BY <1>1, <2>4, PhraseTaken
  <2>5. CASE /\ Head(channel).kind = "reply"
             /\ transcript' = [(IF activeTurn = Head(channel).turn THEN ClearPartial ELSE transcript)
                                 EXCEPT !.replies = @ \cup {Head(channel).turn}]
             /\ Settle({Head(channel).turn})
    BY <1>1, <2>5, ReplyTaken
  <2>6. CASE /\ Head(channel).kind = "final"
             /\ transcript' = AddTurn(Head(channel).turn)
             /\ Settle({Head(channel).turn})
    BY <1>1, <2>6, FinalTaken
  <2>7. CASE Head(channel).kind # "final" /\ UNCHANGED <<transcript, settled, activeTurn>>
    BY <1>1, <2>7, MessageKept
  <2> QED
    BY <2>1, <2>2, <2>3, <2>4, <2>5, <2>6, <2>7 DEF Take, TakesFinal
<1> QED
  BY <1>2, <1>3

\* A poll brings the recorded turns.
LEMMA PollApplied ==
  ASSUME ScreenInv, PollApplies
  PROVE  ScreenInv'
<1>1. UNCHANGED <<spoken, modeNow, channel, stored, link, running>>
  BY DEF PollApplies, realtimeVars
<1>2. ScreenTypes
  BY DEF ScreenInv
<1>3. poll'.turns \in SUBSET SpokenTurns /\ DOMAIN poll' = {"under", "turns", "cursor"}
  <2>1. CASE running
    BY <2>1 DEF PollApplies
  <2>2. CASE ~running
    BY <1>2, <2>2 DEF PollApplies, ScreenTypes
  <2> QED
    BY <2>1, <2>2
<1>4. \A n \in 1 .. Len(channel') : \E k \in 1 .. Len(channel) : channel'[n] = channel[k]
  BY <1>1
<1>5. /\ running' \in BOOLEAN /\ channel' \in Seq(MessageRecord) /\ stored' \in SUBSET SpokenTurns /\ modeNow' \in Nat
  BY <1>1, <1>2 DEF ScreenTypes
<1>6. CASE ~running
  <2>1. UNCHANGED <<transcript, settled, activeTurn>>
    BY <1>6 DEF PollApplies
  <2>2. stored' \in SUBSET SpokenTurns /\ modeNow' \in Nat
    BY <1>5
  <2> QED
    BY <1>1, <1>3, <2>1, <2>2, QuietScreen
<1>7. CASE running
  <2>1. PICK turns : turns = poll.turns
    OBVIOUS
  <2>2. turns \in SUBSET SpokenTurns
    BY <1>2, <2>1 DEF ScreenTypes
  <2>3. transcript' = SetTurns(turns) /\ Settle(turns)
    BY <1>7, <2>1 DEF PollApplies
  <2>4. PICK list : list = Ascending(turns \ Displayed)
    OBVIOUS
  <2>5. /\ list \in Seq(turns \ Displayed) /\ ElementsOf(list) = turns \ Displayed
        /\ \A i, j \in 1 .. Len(list) : list[i] = list[j] => i = j
    <3>1. turns \ Displayed \in SUBSET SpokenTurns
      BY <2>2
    <3> QED
      BY <2>4, <3>1, AscendingLists
  <2>6. list \in Seq(SpokenTurns)
    BY <2>2, <2>5
  <2>7. transcript' = [Cleared(turns) EXCEPT !.turns = transcript.turns \o list]
    <3>1. PICK base : base = Cleared(turns)
      OBVIOUS
    <3>2. base.turns = transcript.turns
      BY <1>2, <2>2, <3>1, Clears
    <3>3. transcript' = [base EXCEPT !.turns = base.turns \o list]
      BY <2>3, <2>4, <3>1 DEF SetTurns
    <3> QED
      BY <3>1, <3>2, <3>3
  <2>8. /\ transcript' \in ShownRecord
        /\ settled' \in SUBSET SpokenTurns /\ activeTurn' \in SpokenTurns \cup {NoTurn}
        /\ NoStale(transcript', settled', activeTurn')
        /\ ElementsOf(transcript'.turns) = ElementsOf(transcript.turns) \cup turns
        /\ \A p \in transcript'.phrases : spoken[p.turn].at # "none" /\ Interprets(spoken[p.turn].mode)
    BY <2>2, <2>3, <2>5, <2>6, <2>7, TurnsShown
  <2>9. ASSUME running', link' = "up"
        PROVE  FinalsArrive(spoken, transcript', channel')
    <3>1. FinalsArrive(spoken, transcript, channel)
      BY <1>1, <2>9 DEF ScreenInv
    <3> QED
      BY <1>1, <2>8, <3>1 DEF FinalsArrive
  <2> QED
    BY <1>1, <1>3, <1>4, <1>5, <2>8, <2>9, PageStep
<1> QED
  BY <1>6, <1>7

\* A mode that ends the subtitles of the turn that was heard last.
LEMMA ModeApplied ==
  ASSUME ScreenInv, NEW next \in 0 .. MaxSwitches, ApplyModeSnapshot(next)
  PROVE  ScreenInv'
<1>1. UNCHANGED <<spoken, modeNow, channel, stored, poll, link, running>>
  BY DEF ApplyModeSnapshot, realtimeVars
<1>2. /\ ScreenTypes /\ transcript \in ShownRecord /\ settled \in SUBSET SpokenTurns
      /\ activeTurn \in SpokenTurns \cup {NoTurn} /\ NoTurn \notin SpokenTurns
  BY ShownFacts DEF ScreenInv, ScreenTypes
<1>3. /\ running' \in BOOLEAN /\ channel' \in Seq(MessageRecord) /\ stored' \in SUBSET SpokenTurns /\ modeNow' \in Nat
      /\ poll'.turns \in SUBSET SpokenTurns /\ DOMAIN poll' = {"under", "turns", "cursor"}
  BY <1>1, <1>2 DEF ScreenTypes
<1>4. CASE UNCHANGED <<transcript, settled, activeTurn>>
  BY <1>1, <1>3, <1>4, QuietScreen
<1>5. CASE /\ transcript' = ClearPartial
           /\ settled' = IF activeTurn = NoTurn THEN settled ELSE settled \cup {activeTurn}
           /\ activeTurn' = NoTurn
  <2>1. transcript' = [transcript EXCEPT !.partial = NoTurn, !.phrases = {}]
    BY <1>5 DEF ClearPartial
  <2>2. /\ transcript' \in ShownRecord /\ transcript'.partial = NoTurn
        /\ transcript'.phrases = {} /\ transcript'.turns = transcript.turns
    BY <1>2, <2>1 DEF ShownRecord
  <2>3. settled' \in SUBSET SpokenTurns /\ settled \subseteq settled' /\ activeTurn' \in SpokenTurns \cup {NoTurn}
    BY <1>2, <1>5
  <2>4. NoTurn \notin settled'
    BY <1>2, <2>3
  <2>5. NoStale(transcript', settled', activeTurn')
    BY <2>2, <2>3, <2>4 DEF ScreenInv, NoStale
  <2>6. \A n \in 1 .. Len(channel') : \E k \in 1 .. Len(channel) : channel'[n] = channel[k]
    BY <1>1
  <2>7. ASSUME running', link' = "up"
        PROVE  FinalsArrive(spoken, transcript', channel')
    BY <1>1, <2>2, <2>7 DEF ScreenInv, FinalsArrive
  <2>8. \A p \in transcript'.phrases : spoken[p.turn].at # "none" /\ Interprets(spoken[p.turn].mode)
    BY <2>2
  <2> QED
    BY <1>1, <1>3, <2>2, <2>3, <2>5, <2>6, <2>7, <2>8, PageStep
<1> QED
  BY <1>4, <1>5 DEF ApplyModeSnapshot, pageState

\* The end of the session empties the page.
LEMMA ScreenEnds ==
  ASSUME ScreenInv, EndShown
  PROVE  ScreenInv'
<1>1. UNCHANGED <<spoken, modeNow, channel, stored, poll, link>> /\ running' = FALSE
  BY DEF EndShown, realtimeVars
<1>2. transcript' = EmptyScreen /\ settled' = {} /\ activeTurn' = NoTurn
  BY DEF EndShown
<1>3. ScreenTypes
  BY DEF ScreenInv
<1>4. /\ running' \in BOOLEAN /\ channel' \in Seq(MessageRecord) /\ stored' \in SUBSET SpokenTurns /\ modeNow' \in Nat
      /\ poll'.turns \in SUBSET SpokenTurns /\ DOMAIN poll' = {"under", "turns", "cursor"}
  BY <1>1, <1>3 DEF ScreenTypes
<1>5. <<>> \in Seq(SpokenTurns) /\ Len(<<>>) = 0
  OBVIOUS
<1>6. /\ transcript' \in ShownRecord /\ transcript'.turns = <<>> /\ transcript'.phrases = {}
      /\ transcript'.partial = NoTurn
  BY <1>2, <1>5 DEF EmptyScreen, ShownRecord
<1>7. 1 .. Len(transcript'.turns) = {}
  BY <1>5, <1>6
<1>8. NoStale(transcript', settled', activeTurn')
  BY <1>2, <1>6, <1>7 DEF NoStale, ElementsOf
<1>9. \A n \in 1 .. Len(channel') : \E k \in 1 .. Len(channel) : channel'[n] = channel[k]
  BY <1>1
<1>10. settled' \in SUBSET SpokenTurns /\ activeTurn' \in SpokenTurns \cup {NoTurn}
  BY <1>2
<1>11. \A p \in transcript'.phrases : spoken[p.turn].at # "none" /\ Interprets(spoken[p.turn].mode)
  BY <1>6
<1> QED
  BY <1>1, <1>4, <1>6, <1>8, <1>9, <1>10, <1>11, PageStep

\* Every step of the page and of realtime keeps the invariant.
LEMMA ScreenInvStep ==
  ASSUME ScreenInv, ScreenNext
  PROVE  ScreenInv'
<1>1. ScreenTypes
  BY DEF ScreenInv
<1>2. /\ stored \in SUBSET SpokenTurns /\ modeNow \in Nat /\ poll.turns \in SUBSET SpokenTurns
      /\ DOMAIN poll = {"under", "turns", "cursor"}
  BY <1>1 DEF ScreenTypes
<1>3. ASSUME NEW t \in SpokenTurns, SendPartial(t)
      PROVE  ScreenInv'
  BY <1>3, PartialSent
<1>4. ASSUME NEW t \in SpokenTurns, SendPhrase(t)
      PROVE  ScreenInv'
  BY <1>4, PhraseSent
<1>5. ASSUME NEW t \in SpokenTurns, SendFinal(t)
      PROVE  ScreenInv'
  BY <1>5, FinalSent
<1>6. ASSUME NEW t \in SpokenTurns, StoreTurn(t)
      PROVE  ScreenInv'
  <2>1. stored' \in SUBSET SpokenTurns
    BY <1>2, <1>6 DEF StoreTurn
  <2>2. UNCHANGED <<spoken, modeNow, channel, transcript, settled, activeTurn, poll, link, running>>
    BY <1>6 DEF StoreTurn, pageState
  <2> QED
    BY <1>2, <2>1, <2>2, QuietScreen
<1>7. CASE SwitchRuntimeMode
  <2>1. modeNow' \in Nat
    BY <1>2, <1>7 DEF SwitchRuntimeMode
  <2>2. UNCHANGED <<spoken, stored, channel, transcript, settled, activeTurn, poll, link, running>>
    BY <1>7 DEF SwitchRuntimeMode, pageState
  <2> QED
    BY <1>2, <2>1, <2>2, QuietScreen
<1>8. CASE OnDataMessage
  BY <1>8, DataMessageHandled
<1>9. CASE PollReads
  <2>1. poll' = [poll EXCEPT !.under = TRUE, !.turns = {t \in stored : t > poll.cursor}]
    BY <1>9 DEF PollReads
  <2>2. poll'.turns = {t \in stored : t > poll.cursor} /\ DOMAIN poll' = {"under", "turns", "cursor"}
    BY <1>2, <2>1
  <2>3. poll'.turns \in SUBSET SpokenTurns
    BY <1>2, <2>2
  <2>4. UNCHANGED <<spoken, stored, modeNow, channel, transcript, settled, activeTurn, link, running>>
    BY <1>9 DEF PollReads, realtimeVars, pageState
  <2> QED
    BY <1>2, <2>2, <2>3, <2>4, QuietScreen
<1>10. CASE PollApplies
  BY <1>10, PollApplied
<1>11. CASE ReadMode
  <2>1. UNCHANGED <<spoken, stored, modeNow, channel, transcript, settled, activeTurn, poll, link, running>>
    BY <1>11 DEF ReadMode, realtimeVars, pageState
  <2> QED
    BY <1>2, <2>1, QuietScreen
<1>12. ASSUME NEW next \in 0 .. MaxSwitches, ApplyModeSnapshot(next)
       PROVE  ScreenInv'
  BY <1>12, ModeApplied
<1>13. CASE MediaEnds
  <2>1. UNCHANGED <<spoken, stored, modeNow, channel, transcript, settled, activeTurn, poll, running>> /\ link' = "over"
    BY <1>13 DEF MediaEnds, realtimeVars, pageState
  <2> QED
    BY <1>2, <2>1, QuietScreen
<1>14. CASE EndShown
  BY <1>14, ScreenEnds
<1> QED
  BY <1>3, <1>4, <1>5, <1>6, <1>7, <1>8, <1>9, <1>10, <1>11, <1>12, <1>13, <1>14 DEF ScreenNext

\* The page before the session's first message.
LEMMA ScreenInvInit ==
  ASSUME ScreenInit
  PROVE  ScreenInv
<1>1. <<>> \in Seq(SpokenTurns) /\ <<>> \in Seq(MessageRecord) /\ Len(<<>>) = 0
  OBVIOUS
<1>2. /\ transcript \in ShownRecord /\ transcript.turns = <<>> /\ transcript.phrases = {}
      /\ transcript.partial = NoTurn
  BY <1>1 DEF ScreenInit, EmptyScreen, ShownRecord
<1>3. spoken \in [SpokenTurns -> SpokenRecord] /\ \A t \in SpokenTurns : spoken[t].at = "none"
  BY DEF ScreenInit, SpokenRecord
<1>4. channel = <<>> /\ 1 .. Len(channel) = {} /\ 1 .. Len(transcript.turns) = {}
  BY <1>1, <1>2 DEF ScreenInit
<1>5. ScreenTypes
  BY <1>1, <1>2, <1>3 DEF ScreenInit, ScreenTypes
<1>6. ModesKept(spoken, transcript, channel)
  BY <1>2, <1>4 DEF ModesKept
<1>7. NoStale(transcript, settled, activeTurn)
  BY <1>2, <1>4 DEF NoStale, ElementsOf, ScreenInit
<1>8. FinalsArrive(spoken, transcript, channel)
  BY <1>3 DEF FinalsArrive
<1> QED
  BY <1>5, <1>6, <1>7, <1>8 DEF ScreenInv

\* The page's invariant holds in every run.
LEMMA ScreenInvHolds == ScreenSpec => []ScreenInv
<1>1. ScreenInit => ScreenInv
  BY ScreenInvInit
<1>2. ScreenInv /\ [ScreenNext]_screenVars => ScreenInv'
  <2> SUFFICES ASSUME ScreenInv, [ScreenNext]_screenVars
               PROVE  ScreenInv'
    OBVIOUS
  <2>1. CASE ScreenNext
    BY <2>1, ScreenInvStep
  <2>2. CASE UNCHANGED screenVars
    <3>1. UNCHANGED <<spoken, channel, transcript, settled, activeTurn, running, stored, modeNow, poll, link>>
      BY <2>2 DEF screenVars
    <3>2. /\ stored' \in SUBSET SpokenTurns /\ modeNow' \in Nat
          /\ poll'.turns \in SUBSET SpokenTurns /\ DOMAIN poll' = {"under", "turns", "cursor"}
      BY <3>1 DEF ScreenInv, ScreenTypes
    <3> QED
      BY <3>1, <3>2, QuietScreen
  <2> QED
    BY <2>1, <2>2
<1> QED
  BY <1>1, <1>2, PTL DEF ScreenSpec

\* No turn that is settled keeps a subtitle, whatever of it comes late, and a
\* final that came over a live connection is shown, once: for any number of
\* turns, subtitles, switches and messages under way (use-voice-session.ts:746-802,
\* 1169-1320).
THEOREM ScreenTruthfulHolds == ScreenSpec => []ScreenTruthful
<1>1. ScreenInv => ScreenTruthful
  <2> SUFFICES ASSUME ScreenInv
               PROVE  ScreenTruthful
    OBVIOUS
  <2>1. /\ transcript.turns \in Seq(SpokenTurns) /\ Displayed = ElementsOf(transcript.turns)
        /\ Displayed \subseteq settled
    BY ShownFacts
  <2>2. NoStale(transcript, settled, activeTurn)
    BY DEF ScreenInv
  <2>3. Cardinality(Displayed) = Len(transcript.turns)
    <3>1. PICK list : list = transcript.turns
      OBVIOUS
    <3>2. list \in Seq(SpokenTurns) /\ \A i, j \in 1 .. Len(list) : list[i] = list[j] => i = j
      BY <2>1, <2>2, <3>1 DEF NoStale
    <3>3. Cardinality(ElementsOf(list)) = Len(list)
      BY <3>2, OnceEach
    <3> QED
      BY <2>1, <3>1, <3>3
  <2>4. transcript.partial \notin settled \cup Displayed
    BY <2>1, <2>2 DEF NoStale
  <2>5. \A p \in transcript.phrases : p.turn \notin settled \cup Displayed
    BY <2>1, <2>2 DEF NoStale
  <2>6. running /\ link = "up" =>
          \A t \in SpokenTurns :
              spoken[t].at = "final" /\ Interprets(spoken[t].mode) => t \in Displayed \/ Sent(t)
    BY <2>1 DEF ScreenInv, FinalsArrive, Sent
  <2> QED
    BY <2>3, <2>4, <2>5, <2>6 DEF ScreenTruthful
<1> QED
  BY <1>1, ScreenInvHolds, PTL

-----------------------------------------------------------------------------

\* What a turn says, number by number of its text.
Counts(s) == s \in Seq(Nat) /\ \A i \in 1 .. Len(s) : s[i] = i

\* What the live phrases spoke: the pieces of the text up to some piece, and
\* behind a failure or a refusal none.
LiveOK(k, p) ==
    LET L == Len(k.spoken) IN
    /\ k.next \in 1 .. MaxSegments + 1 /\ k.failed \in BOOLEAN
    /\ ~k.attached => L = 0
    /\ L <= (k.next - 1) * Pieces
    /\ \A x \in k.left : x \in Nat /\ L < x
    /\ ~k.failed => L = (k.next - 1) * Pieces /\ k.left = {}
    /\ \A m \in Segments : m < k.next =>
          /\ p[m].at \in {"registered", "done"}
          /\ ~k.failed => p[m].ok
          /\ p[m].ok => \A x \in PiecesOf(m) : x <= L \/ x \in k.left
          /\ ~p[m].ok => L <= (m - 1) * Pieces

\* The settlement waits for every phrase that has a call.
WaitsOK(k, p) == \A n \in Segments : p[n].at \in {"none", "tail"} \/ n \in k.wait

\* A turn that lost chunks of its rest still speaks in order.
SaidInOrder(k) == IF k.dropped THEN k.at = "closed" /\ Rises(k.spoken) ELSE Counts(k.spoken)

\* What is left to be spoken begins where the live phrases stopped.
RestOK(k) ==
    /\ k.at \in {"translating", "settled", "speaking"} =>
          Len(k.spoken) <= k.said * Pieces /\ k.rest = Len(k.spoken) + 1 .. k.said * Pieces
    /\ k.at = "closed" /\ k.end = "committed" /\ k.aloud /\ ~k.dropped => Len(k.spoken) = k.said * Pieces

SpokenOK(k, p) ==
    ~k.revised /\ ~k.overtaken =>
        /\ SaidInOrder(k) /\ RestOK(k)
        /\ k.at \in OpenStages => LiveOK(k, p)
        /\ k.at = "waiting" => WaitsOK(k, p)

SpokenInv == \A t \in TurnIds : SpokenOK(talk[t], phrase[t])
\* The pieces of a phrase come behind those of the phrases before it.
LEMMA PieceSteps ==
  ASSUME NEW a \in Nat, NEW b \in Nat
  PROVE  /\ a * Pieces \in Nat /\ (a + 1) * Pieces = a * Pieces + Pieces
         /\ a <= b => a * Pieces <= b * Pieces
         /\ a < b => a * Pieces + Pieces <= b * Pieces
<1>1. Pieces \in Nat \ {0}
  BY TurnsAssumption
<1> QED
  BY <1>1

\* Every piece belongs to one phrase.
LEMMA SegmentSpan ==
  ASSUME NEW x \in Nat \ {0}
  PROVE  /\ SegmentOf(x) \in Nat \ {0} /\ (SegmentOf(x) - 1) * Pieces < x /\ x <= SegmentOf(x) * Pieces
<1>1. Pieces \in Nat \ {0}
  BY TurnsAssumption
<1> QED
  BY <1>1 DEF SegmentOf
\* The numbers of an interval in their order.
LEMMA OrderedInterval ==
  ASSUME NEW a \in Nat, NEW b \in Nat, a <= b
  PROVE  Ordered(a + 1 .. b) = [i \in 1 .. b - a |-> a + i]
<1>1. Cardinality(a + 1 .. b) = b - a
  <2>1. Cardinality(a + 1 .. b) = IF a + 1 > b THEN 0 ELSE b - (a + 1) + 1
    BY FS_Interval
  <2> QED BY <2>1
<1>2. ASSUME NEW i \in 1 .. b - a
      PROVE  (CHOOSE x \in a + 1 .. b : Cardinality({y \in a + 1 .. b : y <= x}) = i) = a + i
  <2>1. ASSUME NEW x \in a + 1 .. b PROVE Cardinality({y \in a + 1 .. b : y <= x}) = x - a
    <3>1. {y \in a + 1 .. b : y <= x} = a + 1 .. x
      OBVIOUS
    <3>2. Cardinality(a + 1 .. x) = x - a
      BY FS_Interval
    <3> QED BY <3>1, <3>2
  <2>2. a + i \in a + 1 .. b /\ \A x \in a + 1 .. b : x - a = i => x = a + i
    OBVIOUS
  <2>3. /\ Cardinality({y \in a + 1 .. b : y <= a + i}) = i
        /\ \A x \in a + 1 .. b : Cardinality({y \in a + 1 .. b : y <= x}) = i => x = a + i
    <3>1. (a + i) - a = i
      OBVIOUS
    <3> QED BY <2>1, <2>2, <3>1
  <2> QED BY <2>2, <2>3
<1> QED BY <1>1, <1>2 DEF Ordered

\* The members of a finite set of numbers in their order.
LEMMA OrderedRises ==
  ASSUME NEW T \in SUBSET Nat, IsFiniteSet(T)
  PROVE  Ordered(T) \in Seq(T) /\ Rises(Ordered(T))
<1> DEFINE below(x) == {y \in T : y <= x}
           rank == [x \in T |-> Cardinality(below(x))]
<1>1. PICK n \in Nat : n = Cardinality(T)
  BY FS_CardinalityType
<1>2. ASSUME NEW x \in T PROVE IsFiniteSet(below(x)) /\ Cardinality(below(x)) \in 1 .. n
  <2>1. below(x) \in SUBSET T /\ x \in below(x)
    OBVIOUS
  <2>2. IsFiniteSet(below(x)) /\ Cardinality(below(x)) <= n
    BY <1>1, <2>1, FS_Subset
  <2>3. Cardinality(below(x)) \in Nat /\ Cardinality(below(x)) # 0
    BY <2>1, <2>2, FS_CardinalityType, FS_EmptySet
  <2> HIDE DEF below
  <2> QED BY <2>2, <2>3
<1>3. ASSUME NEW x \in T, NEW y \in T, x < y PROVE Cardinality(below(x)) < Cardinality(below(y))
  <2>1. below(x) \in SUBSET below(y) /\ below(x) # below(y)
    <3>1. x \in Nat /\ y \in Nat /\ \A z \in T : z \in Nat
      OBVIOUS
    <3>2. \A z \in T : z <= x => z <= y
      BY <1>3, <3>1
    <3>3. y <= y /\ ~(y <= x)
      BY <1>3, <3>1
    <3>4. \A z \in below(x) : z \in below(y)
      BY <3>2
    <3>5. y \in below(y) /\ y \notin below(x)
      BY <3>3
    <3> HIDE DEF below
    <3> QED BY <3>4, <3>5
  <2>2. /\ Cardinality(below(x)) <= Cardinality(below(y))
        /\ Cardinality(below(x)) # Cardinality(below(y))
    BY <1>2, <2>1, FS_Subset
  <2> HIDE DEF below
  <2> QED BY <1>2, <2>2
<1>4. rank \in [T -> 1 .. n] /\ \A x \in T : rank[x] = Cardinality(below(x))
  BY <1>2
<1> HIDE DEF below, rank
<1>5. rank \in Injection(T, 1 .. n)
  <2>1. ASSUME NEW x \in T, NEW y \in T, rank[x] = rank[y] PROVE x = y
    <3>1. rank[x] \in 1 .. n /\ ~(rank[x] < rank[x])
      BY <1>4
    <3>2. ~(x < y) /\ ~(y < x)
      BY <1>3, <1>4, <2>1, <3>1
    <3> QED BY <3>2
  <2> QED BY <1>4, <2>1 DEF Injection, IsInjective
<1>6. rank \in Surjection(T, 1 .. n)
  <2>1. IsFiniteSet(1 .. n) /\ Cardinality(1 .. n) = n
    BY FS_Interval
  <2> QED BY <1>1, <1>5, <2>1, FS_Injection
<1>7. ASSUME NEW i \in 1 .. n
      PROVE  Ordered(T)[i] \in T /\ rank[Ordered(T)[i]] = i
  <2>1. \E x \in T : Cardinality({y \in T : y <= x}) = i
    BY <1>4, <1>6 DEF Surjection, below
  <2>2. Ordered(T)[i] = CHOOSE x \in T : Cardinality({y \in T : y <= x}) = i
    BY <1>1 DEF Ordered
  <2> QED BY <1>4, <2>1, <2>2 DEF below
<1>8. DOMAIN Ordered(T) = 1 .. n /\ Ordered(T) = [i \in 1 .. n |-> Ordered(T)[i]]
  BY <1>1 DEF Ordered
<1>9. Ordered(T) \in Seq(T) /\ Len(Ordered(T)) = n
  <2>1. PICK o : o = Ordered(T)
    OBVIOUS
  <2>2. o \in [1 .. n -> T]
    BY <1>7, <1>8, <2>1
  <2>3. o \in Seq(T) /\ Len(o) = n
    BY <1>1, <2>2
  <2> QED BY <2>1, <2>3
<1>10. ASSUME NEW i \in 1 .. n - 1 PROVE Ordered(T)[i] < Ordered(T)[i + 1]
  <2>1. i \in 1 .. n /\ i + 1 \in 1 .. n
    BY <1>1
  <2>2. PICK a \in T, b \in T : a = Ordered(T)[i] /\ b = Ordered(T)[i + 1] /\ rank[a] = i /\ rank[b] = i + 1
    BY <1>7, <2>1
  <2>3. a # b /\ ~(b < a)
    BY <1>3, <1>4, <2>1, <2>2
  <2> QED BY <2>2, <2>3
<1> QED BY <1>9, <1>10 DEF Rises

\* What follows behind the text said so far keeps the order.
LEMMA RisesOn ==
  ASSUME NEW s, Counts(s), NEW T \in SUBSET Nat, IsFiniteSet(T), \A x \in T : Len(s) < x
  PROVE  Rises(s \o Ordered(T))
<1>1. PICK o \in Seq(Nat) : o = Ordered(T) /\ Rises(o) /\ \A i \in 1 .. Len(o) : o[i] \in T
  <2>1. PICK u : u = Ordered(T)
    OBVIOUS
  <2>2. u \in Seq(T) /\ Rises(u)
    BY <2>1, OrderedRises
  <2>3. \A i \in 1 .. Len(u) : u[i] \in T
    BY <2>2, ElementOfSeq
  <2>4. u \in Seq(Nat)
    <3>1. T \subseteq Nat
      OBVIOUS
    <3> QED BY <2>2, <3>1, SeqMonotonic
  <2> QED BY <2>1, <2>2, <2>3, <2>4
<1>2. s \in Seq(Nat) /\ Len(s) \in Nat /\ Len(o) \in Nat /\ \A i \in 1 .. Len(s) : s[i] = i
  BY DEF Counts
<1>3. /\ Len(s \o o) = Len(s) + Len(o)
      /\ \A i \in 1 .. Len(s) : (s \o o)[i] = i
      /\ \A i \in 1 .. Len(o) : (s \o o)[Len(s) + i] = o[i]
  BY <1>2
<1>4. ASSUME NEW i \in 1 .. Len(s) + Len(o) - 1 PROVE (s \o o)[i] < (s \o o)[i + 1]
  <2>1. CASE i < Len(s)
    BY <1>2, <1>3, <2>1
  <2>2. CASE i = Len(s)
    <3>1. (s \o o)[i] = i /\ (s \o o)[i + 1] = o[1] /\ 1 \in 1 .. Len(o)
      BY <1>2, <1>3, <2>2
    <3> QED BY <1>1, <2>2, <3>1
  <2>3. CASE i > Len(s)
    <3>1. PICK j \in 1 .. Len(o) - 1 : i = Len(s) + j
      <4>1. i - Len(s) \in 1 .. Len(o) - 1 /\ i = Len(s) + (i - Len(s))
        BY <1>2, <2>3
      <4> QED BY <4>1
    <3>2. j \in 1 .. Len(o) /\ j + 1 \in 1 .. Len(o) /\ i + 1 = Len(s) + (j + 1)
      BY <1>2, <3>1
    <3>3. (s \o o)[i] = o[j] /\ (s \o o)[i + 1] = o[j + 1] /\ o[j] < o[j + 1]
      BY <1>1, <1>3, <3>1, <3>2 DEF Rises
    <3> QED BY <3>3
  <2> QED BY <1>2, <2>1, <2>2, <2>3
<1> QED BY <1>1, <1>3, <1>4 DEF Rises

\* More of the text, said after what was said already.
LEMMA CountsOn ==
  ASSUME NEW s, Counts(s), NEW rest \in Seq(Nat), NEW n \in 0 .. Len(rest),
         \A i \in 1 .. n : rest[i] = Len(s) + i
  PROVE  Counts(s \o SubSeq(rest, 1, n)) /\ Len(s \o SubSeq(rest, 1, n)) = Len(s) + n
<1> DEFINE u == SubSeq(rest, 1, n)
<1>1. s \in Seq(Nat) /\ Len(s) \in Nat /\ \A i \in 1 .. Len(s) : s[i] = i
  BY DEF Counts
<1>2. n \in Nat /\ u \in Seq(Nat) /\ Len(u) = n /\ \A i \in 1 .. n : u[i] = Len(s) + i
  OBVIOUS
<1> HIDE DEF u
<1>3. s \o u \in Seq(Nat) /\ Len(s \o u) = Len(s) + n
  BY <1>1, <1>2
<1>4. ASSUME NEW i \in 1 .. Len(s) + n PROVE (s \o u)[i] = i
  <2>1. CASE i <= Len(s)
    BY <1>1, <1>2, <2>1
  <2>2. CASE i > Len(s)
    <3>1. (s \o u)[i] = u[i - Len(s)] /\ i - Len(s) \in 1 .. n
      BY <1>1, <1>2, <2>2
    <3>2. u[i - Len(s)] = Len(s) + (i - Len(s))
      BY <1>2, <3>1
    <3> QED BY <1>1, <3>1, <3>2
  <2> QED BY <1>1, <1>2, <2>1, <2>2
<1>5. s \o u = s \o SubSeq(rest, 1, n)
  BY DEF u
<1>6. Counts(s \o u)
  BY <1>3, <1>4 DEF Counts
<1> QED BY <1>3, <1>5, <1>6

\* Speech that counts its text rises.
LEMMA CountsRises == ASSUME NEW s, Counts(s) PROVE Rises(s)
BY DEF Counts, Rises
\* The members of a set that follow on each other from a number on.
LEMMA FirstMissing ==
  ASSUME NEW a \in Nat, NEW b \in Nat, a <= b, NEW R
  PROVE  \E e \in a .. b : (\A m \in a .. e - 1 : m \in R) /\ (e = b \/ e \notin R)
<1> DEFINE Ends == {e \in a .. b : e = b \/ e \notin R}
<1>1. b \in Ends /\ Ends \subseteq Nat /\ Ends # {}
  OBVIOUS
<1>2. PICK e \in Ends : \A d \in Ends : ~(<<d, e>> \in OpToRel(<, Nat))
  BY <1>1, NatLessThanWellFounded, WFMin
<1>3. \A d \in Ends : ~(d < e)
  BY <1>1, <1>2 DEF OpToRel
<1>4. ASSUME NEW m \in a .. e - 1 PROVE m \in R
  <2>1. m \in a .. b /\ m < e /\ m # b
    OBVIOUS
  <2> QED BY <1>3, <2>1
<1> QED BY <1>4

\* The phrases that may be spoken when phrase n is answered are those from the
\* next one to the first that is not ready.
LEMMA RunIs ==
  ASSUME NEW t \in TurnIds, NEW n \in Segments, NEW a, a = talk[t].next, a \in 1 .. MaxSegments + 1
  PROVE  \E e \in a .. MaxSegments + 1 :
            Run(t, n) = a .. e - 1 /\ (n \in a .. MaxSegments => n # e)
                /\ \A m \in Run(t, n) : m \in Segments /\ (m = n \/ phrase[t][m].at \in {"registered", "done"})
<1> DEFINE ready == {m \in Segments : m = n \/ phrase[t][m].at \in {"registered", "done"}}
<1>1. MaxSegments \in Nat
  BY TurnsAssumption
<1>2. PICK e \in a .. MaxSegments + 1 : (\A m \in a .. e - 1 : m \in ready) /\ (e = MaxSegments + 1 \/ e \notin ready)
  <2>1. PICK b \in Nat : b = MaxSegments + 1
    BY <1>1
  <2>2. a \in Nat /\ a <= b
    BY <1>1, <2>1
  <2> HIDE DEF ready
  <2>3. \E e \in a .. b : (\A m \in a .. e - 1 : m \in ready) /\ (e = b \/ e \notin ready)
    BY <2>2, FirstMissing
  <2> QED BY <2>1, <2>3
<1>3. Run(t, n) = {m \in ready : m >= a /\ a .. m \subseteq ready}
  BY DEF Run
<1>4. e \notin ready /\ n \in ready
  BY <1>1, <1>2 DEF Segments
<1>5. \A m \in ready : m \in Nat
  BY DEF Segments
<1>6. ASSUME NEW m \in Run(t, n) PROVE m \in a .. e - 1
  <2>1. m \in ready /\ m >= a /\ a .. m \subseteq ready /\ m \in Nat
    BY <1>3, <1>5, <1>6
  <2>2. m < e
    BY <1>1, <1>4, <2>1
  <2> QED BY <1>1, <2>1, <2>2
<1>7. ASSUME NEW m \in a .. e - 1 PROVE m \in Run(t, n)
  <2>1. a .. m \subseteq a .. e - 1
    BY <1>1
  <2> QED BY <1>1, <1>2, <1>3, <2>1
<1>8. Run(t, n) = a .. e - 1
  BY <1>6, <1>7
<1>9. \A m \in Run(t, n) : m \in Segments /\ (m = n \/ phrase[t][m].at \in {"registered", "done"})
  BY <1>3
<1> HIDE DEF ready
<1> QED BY <1>4, <1>8, <1>9

\* Of these, the ones offered are those before the first that failed.
LEMMA SpeakableIs ==
  ASSUME NEW t \in TurnIds, NEW n \in Segments, NEW a \in Nat, NEW e \in Nat, a <= e, Run(t, n) = a .. e - 1
  PROVE  \E y \in a .. e :
            /\ Speakable(t, n) = a .. y - 1
            /\ talk[t].failed => y = a
            /\ ~talk[t].failed => (\A m \in a .. y - 1 : phrase[t][m].ok) /\ (y = e \/ ~phrase[t][y].ok)
<1>1. Speakable(t, n) = {m \in a .. e - 1 : ~talk[t].failed /\ \A l \in a .. e - 1 : l <= m => phrase[t][l].ok}
  BY DEF Speakable
<1>2. CASE talk[t].failed
  <2>1. Speakable(t, n) = a .. a - 1
    BY <1>1, <1>2
  <2> QED BY <1>2, <2>1
<1>3. CASE ~talk[t].failed
  <2> DEFINE good == {m \in a .. e - 1 : phrase[t][m].ok}
  <2>1. PICK y \in a .. e : (\A m \in a .. y - 1 : m \in good) /\ (y = e \/ y \notin good)
    <3> HIDE DEF good
    <3> QED BY FirstMissing
  <2>2. y = e \/ ~phrase[t][y].ok
    BY <2>1
  <2>3. \A m \in a .. y - 1 : phrase[t][m].ok
    BY <2>1
  <2>4. ASSUME NEW m \in Speakable(t, n) PROVE m \in a .. y - 1
    <3>1. m \in a .. e - 1 /\ \A l \in a .. e - 1 : l <= m => phrase[t][l].ok
      BY <1>1, <2>4
    <3>2. CASE m >= y
      <4>1. y \in a .. e - 1 /\ y <= m /\ y # e
        BY <3>1, <3>2
      <4> QED BY <2>2, <3>1, <4>1
    <3> QED BY <3>1, <3>2
  <2>5. ASSUME NEW m \in a .. y - 1 PROVE m \in Speakable(t, n)
    <3>1. m \in a .. e - 1 /\ \A l \in a .. e - 1 : l <= m => l \in a .. y - 1
      OBVIOUS
    <3> QED BY <1>1, <1>3, <2>3, <3>1
  <2>6. Speakable(t, n) = a .. y - 1
    BY <2>4, <2>5
  <2> QED BY <1>3, <2>2, <2>3, <2>6
<1> QED BY <1>2, <1>3

\* The pieces of consecutive phrases are consecutive.
LEMMA PiecesSpan ==
  ASSUME NEW a \in Nat \ {0}, NEW y \in Nat, a <= y
  PROVE  /\ UNION {PiecesOf(m) : m \in a .. y - 1} = (a - 1) * Pieces + 1 .. (y - 1) * Pieces
         /\ (a - 1) * Pieces \in Nat /\ (y - 1) * Pieces \in Nat /\ (a - 1) * Pieces <= (y - 1) * Pieces
<1>1. a - 1 \in Nat /\ y - 1 \in Nat /\ a - 1 <= y - 1 /\ y \in Nat
  OBVIOUS
<1>2. (a - 1) * Pieces \in Nat /\ (y - 1) * Pieces \in Nat /\ (a - 1) * Pieces <= (y - 1) * Pieces
  BY <1>1, PieceSteps
<1>3. PICK A \in Nat, Y \in Nat : A = (a - 1) * Pieces /\ Y = (y - 1) * Pieces
  BY <1>2
<1>4. ASSUME NEW m \in a .. y - 1 PROVE PiecesOf(m) \subseteq A + 1 .. Y
  <2>1. m \in Nat /\ m - 1 \in Nat /\ a - 1 <= m - 1 /\ m <= y - 1
    OBVIOUS
  <2>2. (m - 1) * Pieces \in Nat /\ m * Pieces \in Nat /\ A <= (m - 1) * Pieces /\ m * Pieces <= Y
    BY <1>1, <1>3, <2>1, PieceSteps
  <2>3. PICK b \in Nat, c \in Nat : b = (m - 1) * Pieces /\ c = m * Pieces
    BY <2>2
  <2>4. PiecesOf(m) = b + 1 .. c /\ A <= b /\ c <= Y
    BY <2>2, <2>3 DEF PiecesOf
  <2> QED BY <2>4
<1>5. ASSUME NEW x \in A + 1 .. Y PROVE \E m \in a .. y - 1 : x \in PiecesOf(m)
  <2>1. x \in Nat \ {0} /\ A < x /\ x <= Y
    OBVIOUS
  <2>2. PICK m \in Nat \ {0} : (m - 1) * Pieces < x /\ x <= m * Pieces
    BY <2>1, SegmentSpan
  <2>3. m - 1 \in Nat /\ (m - 1) * Pieces \in Nat /\ m * Pieces \in Nat
    BY <2>2, PieceSteps
  <2>4. m >= a
    <3>1. CASE m <= a - 1
      <4>1. m * Pieces <= A
        BY <1>1, <1>3, <3>1, PieceSteps
      <4>2. PICK c \in Nat : c = m * Pieces
        BY <2>3
      <4> QED BY <2>1, <2>2, <4>1, <4>2
    <3> QED BY <3>1
  <2>5. m <= y - 1
    <3>1. CASE y - 1 <= m - 1
      <4>1. Y <= (m - 1) * Pieces
        BY <1>1, <1>3, <2>3, <3>1, PieceSteps
      <4>2. PICK c \in Nat : c = (m - 1) * Pieces
        BY <2>3
      <4> QED BY <2>1, <2>2, <4>1, <4>2
    <3> QED BY <3>1
  <2>6. x \in PiecesOf(m)
    <3>1. PICK b \in Nat, c \in Nat : b = (m - 1) * Pieces /\ c = m * Pieces
      BY <2>3
    <3>2. PiecesOf(m) = b + 1 .. c /\ b < x /\ x <= c
      BY <2>2, <3>1 DEF PiecesOf
    <3> QED BY <2>1, <3>2
  <2> QED BY <2>4, <2>5, <2>6
<1>6. UNION {PiecesOf(m) : m \in a .. y - 1} = A + 1 .. Y
  BY <1>4, <1>5
<1> QED BY <1>2, <1>3, <1>6
\* What admission does to a turn whose phrases a .. e - 1 are run, of which those
\* before y are offered: their pieces are A + 1 .. Y.
Admitted(k, p, r, q, a, y, e, A, Y, taken) ==
    LET good == UNION {PiecesOf(m) : m \in {m \in a .. e - 1 : p[m].ok}} IN
    /\ a = k.next /\ a <= y /\ y <= e /\ e <= MaxSegments + 1
    /\ k.failed => y = a
    /\ ~k.failed => (\A m \in a .. y - 1 : p[m].ok) /\ (y = e \/ ~p[y].ok)
    /\ A = (a - 1) * Pieces /\ Y = (y - 1) * Pieces /\ taken \in 0 .. Y - A
    /\ r.next = e /\ r.attached /\ r.left = k.left \cup (good \ A + 1 .. A + taken)
    /\ r.failed = (k.failed \/ y # e \/ taken < Y - A) /\ Len(r.spoken) = Len(k.spoken) + taken
    /\ \A m \in Segments : q[m].ok = p[m].ok /\ (m < e => q[m].at \in {"registered", "done"})

\* The phrases that are admitted, the pieces that are taken of them and those
\* that are left keep the account of what was spoken.
LEMMA AdmitLive ==
  ASSUME NEW k, NEW p, NEW r, NEW q, LiveOK(k, p), Counts(k.spoken),
         NEW a \in Nat, NEW y \in Nat, NEW e \in Nat, NEW A \in Nat, NEW Y \in Nat, NEW taken,
         Admitted(k, p, r, q, a, y, e, A, Y, taken)
  PROVE  LiveOK(r, q)
<1> DEFINE good == UNION {PiecesOf(m) : m \in {m \in a .. e - 1 : p[m].ok}}
<1>1. /\ a = k.next /\ a <= y /\ y <= e /\ e <= MaxSegments + 1
      /\ taken \in Nat /\ taken <= Y - A /\ r.next = e /\ r.attached /\ Len(r.spoken) = Len(k.spoken) + taken
  BY DEF Admitted
<1>2. /\ k.failed => y = a
      /\ ~k.failed => (\A m \in a .. y - 1 : p[m].ok) /\ (y = e \/ ~p[y].ok)
  BY DEF Admitted
<1>3. r.left = k.left \cup (good \ A + 1 .. A + taken) /\ r.failed = (k.failed \/ y # e \/ taken < Y - A)
  BY DEF Admitted
<1>4. /\ A = (a - 1) * Pieces /\ Y = (y - 1) * Pieces
      /\ \A m \in Segments : q[m].ok = p[m].ok /\ (m < e => q[m].at \in {"registered", "done"})
  BY DEF Admitted
<1>5. /\ a \in 1 .. MaxSegments + 1 /\ k.failed \in BOOLEAN /\ Len(k.spoken) \in Nat /\ MaxSegments \in Nat
      /\ Pieces \in Nat \ {0}
  BY <1>1, TurnsAssumption DEF LiveOK, Counts
<1>6. PICK L \in Nat, M \in Nat : L = Len(k.spoken) /\ M = L + taken
  BY <1>1, <1>5
<1>7. /\ L <= A /\ \A x \in k.left : x \in Nat /\ L < x
      /\ ~k.failed => L = A /\ k.left = {}
      /\ \A m \in Segments : m < a =>
          /\ ~k.failed => p[m].ok
          /\ p[m].ok => \A x \in PiecesOf(m) : x <= L \/ x \in k.left
          /\ ~p[m].ok => L <= (m - 1) * Pieces
  BY <1>1, <1>4, <1>6 DEF LiveOK
<1>8. k.failed => taken = 0
  <2>1. k.failed => Y = A
    BY <1>2, <1>4
  <2> QED BY <1>1, <2>1
<1>9. ASSUME NEW m \in Segments
      PROVE  /\ (m - 1) * Pieces \in Nat /\ m * Pieces \in Nat /\ m \in Nat
             /\ PiecesOf(m) = (m - 1) * Pieces + 1 .. m * Pieces
             /\ m < a => m * Pieces <= A
             /\ a <= m => A <= (m - 1) * Pieces
             /\ y <= m => Y <= (m - 1) * Pieces
             /\ m < y => m * Pieces <= Y
  <2>1. m \in Nat /\ m - 1 \in Nat /\ a - 1 \in Nat /\ y - 1 \in Nat
    BY <1>1, <1>5 DEF Segments
  <2>2. (m - 1) * Pieces \in Nat /\ m * Pieces \in Nat
    BY <2>1, PieceSteps
  <2>3. m < a => m * Pieces <= A
    <3>1. m < a => m <= a - 1
      BY <2>1
    <3> QED BY <1>4, <2>1, <3>1, PieceSteps
  <2>4. a <= m => A <= (m - 1) * Pieces
    <3>1. a <= m => a - 1 <= m - 1
      BY <2>1
    <3> QED BY <1>4, <2>1, <3>1, PieceSteps
  <2>5. y <= m => Y <= (m - 1) * Pieces
    <3>1. y <= m => y - 1 <= m - 1
      BY <2>1
    <3> QED BY <1>4, <2>1, <3>1, PieceSteps
  <2>6. m < y => m * Pieces <= Y
    <3>1. m < y => m <= y - 1
      BY <2>1
    <3> QED BY <1>4, <2>1, <3>1, PieceSteps
  <2> QED BY <2>1, <2>2, <2>3, <2>4, <2>5, <2>6 DEF PiecesOf
<1>10. \A m \in a .. e - 1 : m \in Segments /\ m \in Nat /\ a <= m /\ m < e
  BY <1>1, <1>5 DEF Segments
<1>11. \A x \in good : \E m \in a .. e - 1 : p[m].ok /\ x \in PiecesOf(m)
  OBVIOUS
<1>12. \A m \in a .. e - 1 : p[m].ok => PiecesOf(m) \subseteq good
  OBVIOUS
<1> HIDE DEF good
<1>13. \A x \in good : x \in Nat /\ A < x
  <2> SUFFICES ASSUME NEW x \in good PROVE x \in Nat /\ A < x
    OBVIOUS
  <2>1. PICK m \in a .. e - 1 : p[m].ok /\ x \in PiecesOf(m)
    BY <1>11
  <2>2. PICK b \in Nat, c \in Nat : b = (m - 1) * Pieces /\ c = m * Pieces /\ PiecesOf(m) = b + 1 .. c /\ A <= b
    BY <1>9, <1>10
  <2> QED BY <2>1, <2>2
<1>14. \A x \in r.left : x \in Nat /\ M < x
  <2> SUFFICES ASSUME NEW x \in r.left PROVE x \in Nat /\ M < x
    OBVIOUS
  <2>1. x \in k.left \/ (x \in good /\ x \notin A + 1 .. A + taken)
    BY <1>3
  <2>2. CASE x \in k.left
    <3>1. k.failed
      BY <1>7, <2>2
    <3> QED BY <1>1, <1>6, <1>7, <1>8, <2>2, <3>1
  <2>3. CASE x \in good /\ x \notin A + 1 .. A + taken
    <3>1. x \in Nat /\ A < x /\ ~(x <= A + taken)
      BY <1>1, <1>13, <2>3
    <3> QED BY <1>1, <1>6, <1>7, <3>1
  <2> QED BY <2>1, <2>2, <2>3
<1>15. M <= Y /\ Y <= (e - 1) * Pieces /\ (e - 1) * Pieces \in Nat
  <2>1. e - 1 \in Nat /\ y - 1 \in Nat /\ y - 1 <= e - 1
    BY <1>1, <1>5
  <2>2. Y <= (e - 1) * Pieces /\ (e - 1) * Pieces \in Nat
    BY <1>4, <2>1, PieceSteps
  <2> QED BY <1>1, <1>6, <1>7, <2>2
<1>16. ASSUME ~r.failed PROVE M = (e - 1) * Pieces /\ r.left = {} /\ \A m \in Segments : m < e => p[m].ok
  <2>1. ~k.failed /\ y = e /\ ~(taken < Y - A)
    BY <1>3, <1>16
  <2>2. ~k.failed /\ y = e /\ taken = Y - A
    BY <1>1, <2>1
  <2>3. L = A /\ k.left = {}
    BY <1>7, <2>2
  <2>4. M = Y
    BY <1>6, <2>2, <2>3
  <2>5. good \subseteq A + 1 .. A + taken
    <3> SUFFICES ASSUME NEW x \in good PROVE x \in A + 1 .. A + taken
      OBVIOUS
    <3>1. PICK m \in a .. e - 1 : p[m].ok /\ x \in PiecesOf(m)
      BY <1>11
    <3>2. PICK b \in Nat, c \in Nat : b = (m - 1) * Pieces /\ c = m * Pieces /\ PiecesOf(m) = b + 1 .. c /\ c <= Y
      <4>1. m \in Segments /\ m < y
        BY <1>10, <2>2
      <4> QED BY <1>9, <4>1
    <3>3. x \in Nat /\ A < x /\ x <= Y
      BY <1>13, <3>1, <3>2
    <3> QED BY <1>1, <2>2, <3>3
  <2>6. \A m \in Segments : m < e => p[m].ok
    <3> SUFFICES ASSUME NEW m \in Segments, m < e PROVE p[m].ok
      OBVIOUS
    <3>1. m < a \/ m \in a .. y - 1
      <4>1. m \in Nat /\ m < y
        BY <1>9, <2>2
      <4> QED BY <4>1
    <3>2. CASE m < a
      BY <1>7, <2>2, <3>2
    <3>3. CASE m \in a .. y - 1
      BY <1>2, <2>2, <3>3
    <3> QED BY <3>1, <3>2, <3>3
  <2>7. M = (e - 1) * Pieces
    BY <1>4, <2>2, <2>4
  <2>8. r.left = {}
    BY <1>3, <2>3, <2>5
  <2> QED BY <2>6, <2>7, <2>8
<1>17. ASSUME NEW m \in Segments, m < e, p[m].ok, NEW x \in PiecesOf(m) PROVE x <= M \/ x \in r.left
  <2>1. x \in Nat
    <3>1. PICK b \in Nat, c \in Nat : b = (m - 1) * Pieces /\ c = m * Pieces /\ PiecesOf(m) = b + 1 .. c
      BY <1>9
    <3> QED BY <1>17, <3>1
  <2>2. CASE m < a
    <3>1. x <= L \/ x \in k.left
      BY <1>7, <1>17, <2>2
    <3> QED BY <1>1, <1>3, <1>6, <2>1, <3>1
  <2>3. CASE m >= a
    <3>1. m \in a .. e - 1
      BY <1>9, <1>17, <2>3
    <3>2. x \in good
      BY <1>12, <1>17, <3>1
    <3>3. CASE x \in A + 1 .. A + taken
      <4>1. L = A
        <5>1. ~k.failed
          BY <1>8, <3>3
        <5> QED BY <1>7, <5>1
      <4> QED BY <1>1, <1>6, <2>1, <3>3, <4>1
    <3>4. x \notin A + 1 .. A + taken => x \in r.left
      BY <1>3, <3>2
    <3> QED BY <3>3, <3>4
  <2> QED BY <1>9, <2>2, <2>3
<1>18. ASSUME NEW m \in Segments, m < e, ~p[m].ok PROVE M <= (m - 1) * Pieces
  <2>1. CASE m < a
    <3>1. k.failed /\ L <= (m - 1) * Pieces
      BY <1>7, <1>18, <2>1
    <3> QED BY <1>1, <1>6, <1>8, <3>1
  <2>2. CASE m >= a
    <3>1. PICK b \in Nat : b = (m - 1) * Pieces /\ A <= b /\ (y <= m => Y <= b)
      BY <1>9, <2>2
    <3>2. k.failed => M <= b
      BY <1>1, <1>6, <1>7, <1>8, <3>1
    <3>3. ~k.failed => y <= m
      <4>1. m < y => m \in a .. y - 1
        BY <1>9, <2>2
      <4> QED BY <1>2, <1>9, <1>18, <4>1
    <3> QED BY <1>15, <3>1, <3>2, <3>3
  <2> QED BY <1>9, <2>1, <2>2
<1>19. e \in 1 .. MaxSegments + 1 /\ r.failed \in BOOLEAN /\ M <= (e - 1) * Pieces /\ Len(r.spoken) = M
  <2>1. e \in 1 .. MaxSegments + 1 /\ Len(r.spoken) = M
    BY <1>1, <1>5, <1>6
  <2>2. r.failed \in BOOLEAN
    BY <1>3
  <2>3. M <= (e - 1) * Pieces
    BY <1>15
  <2> QED BY <2>1, <2>2, <2>3
<1> QED BY <1>1, <1>4, <1>14, <1>16, <1>17, <1>18, <1>19 DEF LiveOK
\* A phrase that was admitted stays admitted, with the same translation.
PhrasesKept(p, q) ==
    \A m \in Segments : p[m].at \in {"registered", "done"} =>
        q[m].at \in {"registered", "done"} /\ q[m].ok = p[m].ok

\* A step that touches one turn keeps what the others spoke.
LEMMA SpokenMoves ==
  ASSUME SpokenInv, NEW t \in TurnIds, SpokenOK(talk'[t], phrase'[t]),
         \A u \in TurnIds \ {t} : talk'[u] = talk[u], \A u \in TurnIds \ {t} : phrase'[u] = phrase[u]
  PROVE  SpokenInv'
<1>1. ASSUME NEW u \in TurnIds PROVE SpokenOK(talk'[u], phrase'[u])
  <2>1. CASE u = t
    BY <2>1
  <2>2. CASE u # t
    BY <2>2 DEF SpokenInv
  <2> QED BY <2>1, <2>2
<1> QED BY <1>1 DEF SpokenInv

\* Nothing is dropped before the turn is closed.
LEMMA NotDropped ==
  ASSUME NEW k, NEW p, SpokenOK(k, p), ~k.revised, ~k.overtaken, k.at # "closed"
  PROVE  ~k.dropped /\ Counts(k.spoken)
BY DEF SpokenOK, SaidInOrder

\* A turn that is still open speaks no more than before.
LEMMA OpenSpoken ==
  ASSUME NEW k, NEW p, NEW r, NEW q, SpokenOK(k, p), k.at \in OpenStages, r.at \in OpenStages,
         Same(r, k, {"at", "epoch", "attached", "said", "taken", "late", "overtaken", "wait"}),
         ~r.attached => ~k.attached, ~r.overtaken => ~k.overtaken, PhrasesKept(p, q),
         r.at = "waiting" /\ ~r.overtaken => WaitsOK(r, q)
  PROVE  SpokenOK(r, q)
<1>1. /\ r.spoken = k.spoken /\ r.next = k.next /\ r.failed = k.failed /\ r.left = k.left /\ r.revised = k.revised
  BY DEF Same, TalkFields
<1>2. SUFFICES ASSUME ~r.revised, ~r.overtaken
               PROVE  SaidInOrder(r) /\ RestOK(r) /\ LiveOK(r, q) /\ (r.at = "waiting" => WaitsOK(r, q))
  BY DEF SpokenOK
<1>3. SaidInOrder(r) /\ LiveOK(k, p)
  <2>1. SaidInOrder(k) /\ LiveOK(k, p) /\ r.dropped = k.dropped
    BY <1>1, <1>2 DEF SpokenOK, Same, TalkFields
  <2> QED BY <1>1, <2>1 DEF SaidInOrder, OpenStages
<1>4. RestOK(r)
  BY DEF RestOK, OpenStages
<1>5. LiveOK(r, q)
  BY <1>1, <1>3 DEF LiveOK, PhrasesKept
<1> QED BY <1>1, <1>2, <1>3, <1>4, <1>5

\* A turn that is closed or being settled has only its rest to account for.
LEMMA ClosedSpoken ==
  ASSUME NEW k, NEW p, NEW r, NEW q, SpokenOK(k, p), r.at \notin OpenStages,
         r.spoken = k.spoken, r.revised = k.revised, r.overtaken = k.overtaken, RestOK(k) => RestOK(r),
         r.dropped = k.dropped, k.at = "closed" => r.at = "closed"
  PROVE  SpokenOK(r, q)
<1>1. SUFFICES ASSUME ~r.revised, ~r.overtaken PROVE SaidInOrder(r) /\ RestOK(r)
  BY DEF SpokenOK, OpenStages
<1> QED BY <1>1 DEF SpokenOK, SaidInOrder

\* A turn whose phrases move on while it stays where it is.
LEMMA SameSpoken ==
  ASSUME NEW k, NEW p, NEW r, NEW q, SpokenOK(k, p), Same(r, k, {"taken", "late"}), PhrasesKept(p, q),
         k.at = "waiting" /\ ~k.overtaken /\ WaitsOK(k, p) => WaitsOK(r, q)
  PROVE  SpokenOK(r, q)
<1>1. /\ r.spoken = k.spoken /\ r.revised = k.revised /\ r.overtaken = k.overtaken
      /\ r.at = k.at /\ r.attached = k.attached
      /\ r.end = k.end /\ r.said = k.said /\ r.rest = k.rest /\ r.aloud = k.aloud /\ r.dropped = k.dropped
      /\ Same(r, k, {"at", "epoch", "attached", "said", "taken", "late", "overtaken", "wait"})
  BY DEF Same, TalkFields
<1>2. CASE r.revised \/ r.overtaken
  BY <1>2 DEF SpokenOK
<1>3. CASE ~r.revised /\ ~r.overtaken /\ r.at \in OpenStages
  <2>1. r.at = "waiting" => WaitsOK(r, q)
    BY <1>1, <1>3 DEF SpokenOK
  <2> QED BY <1>1, <1>3, <2>1, OpenSpoken
<1>4. CASE r.at \notin OpenStages
  <2>1. RestOK(k) => RestOK(r)
    BY <1>1 DEF RestOK
  <2> QED BY <1>1, <1>4, <2>1, ClosedSpoken
<1> QED BY <1>2, <1>3, <1>4

\* A turn begins without a word, and goes on without one.
LEMMA StartAudioSpoken == ASSUME TurnInv, SpokenInv, NEW t \in TurnIds, StartAudio(t) PROVE SpokenInv'
<1>1. PICK route \in BOOLEAN : talk' = [talk EXCEPT ![t].at = "open", ![t].epoch = epoch, ![t].attached = route]
  BY DEF StartAudio
<1>2. PICK k, p, e : k = talk[t] /\ p = phrase[t] /\ e = epoch
  OBVIOUS
<1> DEFINE r == [k EXCEPT !.at = "open", !.epoch = e, !.attached = route]
<1>3. talk' = [talk EXCEPT ![t] = r]
  BY <1>1, <1>2
<1>4. TalkOK(k) /\ DOMAIN talk = TurnIds /\ k.at = "new" /\ SpokenOK(k, p)
  BY <1>2, TurnParts DEF StartAudio, SpokenInv
<1>5. r.at = "open" /\ Same(r, k, {"at", "epoch", "attached"})
  BY <1>4 DEF TalkOK, TalkFields, Same
<1> HIDE DEF r
<1>6. SpokenOK(r, p)
  <2>1. /\ ~k.attached /\ r.overtaken = k.overtaken
        /\ Same(r, k, {"at", "epoch", "attached", "said", "taken", "late", "overtaken", "wait"})
    BY <1>4, <1>5 DEF TalkOK, Same, TalkFields
  <2>2. PhrasesKept(p, p) /\ k.at \in OpenStages /\ r.at \in OpenStages /\ r.at # "waiting"
    BY <1>4, <1>5 DEF PhrasesKept, OpenStages
  <2> QED BY <1>4, <2>1, <2>2, OpenSpoken
<1>7. talk'[t] = r /\ phrase' = phrase /\ \A u \in TurnIds \ {t} : talk'[u] = talk[u]
  BY <1>3, <1>4 DEF StartAudio
<1> QED BY <1>2, <1>6, <1>7, SpokenMoves

\* A segment that is said, taken by the timer or ended by the VAD.
LEMMA ListenSpoken ==
  ASSUME TurnInv, SpokenInv, NEW t \in TurnIds, Say(t) \/ TimerTakes(t) \/ EndSpeech(t)
  PROVE  SpokenInv'
<1>1. PICK k, p : k = talk[t] /\ p = phrase[t]
  OBVIOUS
<1>2. TalkOK(k) /\ DOMAIN talk = TurnIds /\ SpokenOK(k, p) /\ phrase' = phrase
  BY <1>1, TurnParts DEF SpokenInv, Say, TimerTakes, EndSpeech
<1>3. k.at \in {"open", "final"}
  BY <1>1 DEF Say, TimerTakes, EndSpeech, TurnInv, QueuesOK, TurnIds
<1>4. PICK r : /\ talk' = [talk EXCEPT ![t] = r] /\ r.at \in {"open", "final"}
               /\ Same(r, k, {"at", "said", "taken", "late"})
  <2>1. CASE Say(t)
    <3> DEFINE r == [k EXCEPT !.said = @ + 1]
    <3>1. talk' = [talk EXCEPT ![t] = r]
      BY <1>1, <2>1 DEF Say
    <3>2. r.at = k.at /\ Same(r, k, {"at", "said", "taken", "late"})
      BY <1>2 DEF TalkOK, TalkFields, Same
    <3> HIDE DEF r
    <3> QED BY <1>3, <3>1, <3>2
  <2>2. CASE TimerTakes(t)
    <3>1. PICK n : n = k.taken + 1
      OBVIOUS
    <3> DEFINE r == [k EXCEPT !.taken = n, !.late = @ \cup {n}]
    <3>2. talk' = [talk EXCEPT ![t] = r]
      BY <1>1, <2>2, <3>1 DEF TimerTakes
    <3>3. r.at = k.at /\ Same(r, k, {"at", "said", "taken", "late"})
      BY <1>2 DEF TalkOK, TalkFields, Same
    <3> HIDE DEF r
    <3> QED BY <1>3, <3>2, <3>3
  <2>3. CASE EndSpeech(t)
    <3> DEFINE r == [k EXCEPT !.at = "final"]
    <3>1. talk' = [talk EXCEPT ![t] = r]
      BY <1>1, <2>3 DEF EndSpeech
    <3>2. r.at = "final" /\ Same(r, k, {"at", "said", "taken", "late"})
      BY <1>2 DEF TalkOK, TalkFields, Same
    <3> HIDE DEF r
    <3> QED BY <3>1, <3>2
  <2> QED BY <2>1, <2>2, <2>3
<1>5. SpokenOK(r, p)
  <2>1. /\ r.attached = k.attached /\ r.overtaken = k.overtaken
        /\ Same(r, k, {"at", "epoch", "attached", "said", "taken", "late", "overtaken", "wait"})
    BY <1>4 DEF Same, TalkFields
  <2>2. PhrasesKept(p, p) /\ k.at \in OpenStages /\ r.at \in OpenStages /\ r.at # "waiting"
    BY <1>3, <1>4 DEF PhrasesKept, OpenStages
  <2> QED BY <1>2, <2>1, <2>2, OpenSpoken
<1>6. talk'[t] = r /\ \A u \in TurnIds \ {t} : talk'[u] = talk[u]
  BY <1>2, <1>4
<1> QED BY <1>1, <1>2, <1>5, <1>6, SpokenMoves

\* A phrase that is published was none before.
LEMMA PublishedKept ==
  ASSUME NEW k, NEW p, NEW q, NEW n \in Segments, Published(k, p, q, n)
  PROVE  PhrasesKept(p, q)
BY DEF Published, PhrasesKept, NoPhrase

\* A phrase that is published, by a partial or by the stability timer.
LEMMA PublishSpoken ==
  ASSUME TurnInv, SpokenInv, NEW t \in TurnIds, ObservePhrase(t) \/ TimerPublishes(t)
  PROVE  SpokenInv'
<1>1. PICK k, p, q : k = talk[t] /\ p = phrase[t] /\ q = phrase'[t]
  OBVIOUS
<1>2. TalkOK(k) /\ DOMAIN talk = TurnIds /\ SpokenOK(k, p) /\ MaxSegments \in Nat
  BY <1>1, TurnParts DEF SpokenInv
<1>3. PICK r, n :
         /\ n \in Segments
         /\ talk' = [talk EXCEPT ![t] = r] /\ Same(r, k, {"taken", "late"}) /\ Stable(t, n, "calling")
         /\ k.at = "waiting" => k.late # {}
  <2>1. CASE ObservePhrase(t)
    <3>1. PICK n : n = k.taken + 1
      OBVIOUS
    <3> DEFINE r == [k EXCEPT !.taken = n]
    <3>2. talk' = [talk EXCEPT ![t] = r] /\ Stable(t, n, "calling") /\ k.at # "waiting"
      BY <1>1, <2>1, <3>1 DEF ObservePhrase
    <3>3. Same(r, k, {"taken", "late"})
      BY <1>2 DEF TalkOK, TalkFields, Same
    <3>4. n \in Segments
      BY <1>1, <1>2, <2>1, <3>1 DEF ObservePhrase, TalkOK, Segments
    <3> HIDE DEF r
    <3> QED BY <3>2, <3>3, <3>4
  <2>2. CASE TimerPublishes(t)
    <3>1. PICK n \in k.late : talk' = [talk EXCEPT ![t].late = @ \ {n}] /\ Stable(t, n, "calling")
      BY <1>1, <2>2 DEF TimerPublishes
    <3> DEFINE r == [k EXCEPT !.late = @ \ {n}]
    <3>2. talk' = [talk EXCEPT ![t] = r] /\ k.late # {}
      BY <1>1, <3>1
    <3>3. Same(r, k, {"taken", "late"})
      BY <1>2 DEF TalkOK, TalkFields, Same
    <3>4. n \in Segments
      BY <1>2, <3>1 DEF TalkOK, Segments
    <3> HIDE DEF r
    <3> QED BY <3>1, <3>2, <3>3, <3>4
  <2> QED BY <2>1, <2>2
<1>4. /\ DOMAIN phrase' = TurnIds /\ \A u \in TurnIds \ {t} : phrase'[u] = phrase[u]
      /\ Published(k, p, q, n)
  BY <1>1, <1>3, StablePublishes
<1>5. SpokenOK(r, q)
  <2>1. ~(k.at = "waiting" /\ ~k.overtaken)
    BY <1>2, <1>3 DEF TalkOK
  <2>2. PhrasesKept(p, q)
    BY <1>3, <1>4, PublishedKept
  <2> QED BY <1>2, <1>3, <2>1, <2>2, SameSpoken
<1>6. talk'[t] = r /\ \A u \in TurnIds \ {t} : talk'[u] = talk[u]
  BY <1>2, <1>3
<1> QED BY <1>1, <1>4, <1>5, <1>6, SpokenMoves
\* A step of one phrase's call.
LEMMA OnePhrase ==
  ASSUME TurnInv, NEW t \in TurnIds, NEW n \in Segments, NEW x, phrase' = [phrase EXCEPT ![t][n] = x]
  PROVE  /\ \A u \in TurnIds \ {t} : phrase'[u] = phrase[u]
         /\ phrase'[t][n] = x /\ \A m \in Segments \ {n} : phrase'[t][m] = phrase[t][m]
<1>1. phrase[t] \in [Segments -> PhraseRecord] /\ DOMAIN phrase = TurnIds
  BY TurnParts DEF PhrasesOK
<1>2. PICK p : p = phrase[t]
  OBVIOUS
<1> DEFINE q == [p EXCEPT ![n] = x]
<1>3. phrase' = [phrase EXCEPT ![t] = q]
  BY <1>2
<1>4. q[n] = x /\ \A m \in Segments \ {n} : q[m] = p[m]
  BY <1>1, <1>2
<1> HIDE DEF q
<1> QED BY <1>1, <1>2, <1>3, <1>4

\* A call that is answered, and a phrase that is done.
LEMMA CallSpoken ==
  ASSUME TurnInv, SpokenInv, NEW t \in TurnIds, NEW n \in Segments, Answered(t, n) \/ PhraseDone(t, n)
  PROVE  SpokenInv'
<1>1. PICK k, p, q : k = talk[t] /\ p = phrase[t] /\ q = phrase'[t]
  OBVIOUS
<1>2. TalkOK(k) /\ SpokenOK(k, p) /\ talk' = talk /\ p[n] \in PhraseRecord
  BY <1>1, TurnParts DEF SpokenInv, Answered, PhraseDone, PhrasesOK
<1>3. PICK x : /\ phrase' = [phrase EXCEPT ![t][n] = x]
               /\ \/ p[n].at = "calling" /\ x.at = "answered"
                  \/ p[n].at = "registered" /\ x.at = "done" /\ x.ok = p[n].ok
  <2>1. CASE phrase' = [phrase EXCEPT ![t][n].at = "answered"] /\ p[n].at = "calling"
    <3> DEFINE x == [p[n] EXCEPT !.at = "answered"]
    <3>1. phrase' = [phrase EXCEPT ![t][n] = x]
      BY <1>1, <2>1
    <3>2. x.at = "answered"
      BY <1>2 DEF PhraseRecord
    <3> HIDE DEF x
    <3> QED BY <2>1, <3>1, <3>2
  <2>2. CASE phrase' = [phrase EXCEPT ![t][n].at = "done"] /\ p[n].at = "registered"
    <3> DEFINE x == [p[n] EXCEPT !.at = "done"]
    <3>1. phrase' = [phrase EXCEPT ![t][n] = x]
      BY <1>1, <2>2
    <3>2. x.at = "done" /\ x.ok = p[n].ok
      BY <1>2 DEF PhraseRecord
    <3> HIDE DEF x
    <3> QED BY <2>2, <3>1, <3>2
  <2>3. CASE phrase' = [phrase EXCEPT ![t][n] = [at |-> "answered", ok |-> TRUE]] /\ p[n].at = "calling"
    <3> DEFINE x == [at |-> "answered", ok |-> TRUE]
    <3>1. phrase' = [phrase EXCEPT ![t][n] = x] /\ x.at = "answered"
      BY <2>3
    <3> HIDE DEF x
    <3> QED BY <2>3, <3>1
  <2> QED BY <1>1, <2>1, <2>2, <2>3 DEF Answered, PhraseDone
<1>4. /\ \A u \in TurnIds \ {t} : phrase'[u] = phrase[u]
      /\ q[n] = x /\ \A m \in Segments \ {n} : q[m] = p[m]
  <2>1. phrase' = [phrase EXCEPT ![t][n] = x]
    BY <1>3
  <2>2. /\ \A u \in TurnIds \ {t} : phrase'[u] = phrase[u]
        /\ phrase'[t][n] = x /\ \A m \in Segments \ {n} : phrase'[t][m] = phrase[t][m]
    BY <2>1, OnePhrase
  <2> QED BY <1>1, <2>2
<1>5. SpokenOK(k, q)
  <2>1. PhrasesKept(p, q) /\ (WaitsOK(k, p) => WaitsOK(k, q))
    BY <1>3, <1>4 DEF PhrasesKept, WaitsOK
  <2>2. Same(k, k, {"taken", "late"})
    BY <1>2 DEF Same, TalkOK
  <2> QED BY <1>2, <2>1, <2>2, SameSpoken
<1> QED BY <1>1, <1>2, <1>4, <1>5, SpokenMoves

\* A turn that is abandoned before its settlement is not committed.
LEMMA DiscardedSpoken ==
  ASSUME TurnInv, SpokenInv, NEW t \in TurnIds, NEW end \in {"discarded", "broken"}, Discarded(t, end),
         phrase' = phrase
  PROVE  SpokenInv'
<1>1. PICK k, p : k = talk[t] /\ p = phrase[t]
  OBVIOUS
<1>2. TalkOK(k) /\ SpokenOK(k, p) /\ DOMAIN talk = TurnIds
  BY <1>1, TurnParts DEF SpokenInv
<1> DEFINE r == [k EXCEPT !.at = "closed", !.end = end, !.attached = FALSE]
<1>3. talk' = [talk EXCEPT ![t] = r]
  BY <1>1 DEF Discarded
<1>4. r.at = "closed" /\ r.end = end /\ Same(r, k, {"at", "end", "attached"})
  BY <1>2 DEF TalkOK, TalkFields, Same
<1> HIDE DEF r
<1>5. r.spoken = k.spoken /\ r.revised = k.revised /\ r.overtaken = k.overtaken /\ r.dropped = k.dropped
  BY <1>4 DEF Same, TalkFields
<1>6. RestOK(r) /\ r.at \notin OpenStages
  BY <1>4 DEF RestOK, OpenStages
<1>7. SpokenOK(r, p)
  BY <1>2, <1>4, <1>5, <1>6, ClosedSpoken
<1>8. talk'[t] = r /\ \A u \in TurnIds \ {t} : talk'[u] = talk[u]
  BY <1>2, <1>3
<1> QED BY <1>1, <1>7, <1>8, SpokenMoves

\* A turn that is handed over for settlement: its tail was not published before.
LEMMA HandOverSpoken ==
  ASSUME TurnInv, SpokenInv, NEW t \in TurnIds, talk[t].at = "final", HandOver(t)
  PROVE  SpokenInv'
<1>1. PICK k, p, late : k = talk[t] /\ p = phrase[t] /\ late = (talk[t].late # {})
  OBVIOUS
<1>2. /\ TalkOK(k) /\ PhrasesOK(k, p) /\ SpokenOK(k, p) /\ DOMAIN talk = TurnIds /\ DOMAIN phrase = TurnIds
      /\ k.at = "final"
  BY <1>1, TurnParts DEF SpokenInv
<1> DEFINE r == [k EXCEPT !.at = "queued", !.taken = k.said, !.overtaken = late]
           q == [n \in Segments |-> IF k.attached /\ n > k.taken /\ n <= k.said
                                    THEN [NoPhrase EXCEPT !.at = "tail"] ELSE p[n]]
<1>3. talk' = [talk EXCEPT ![t] = r] /\ phrase' = [phrase EXCEPT ![t] = q]
  BY <1>1, <1>2 DEF HandOver, Attached, InTail
<1>4. r.at = "queued" /\ Same(r, k, {"at", "taken", "overtaken"})
  BY <1>2 DEF TalkOK, TalkFields, Same
<1>5. PhrasesKept(p, q)
  <2>1. \A n \in Segments : n > k.taken => p[n] = NoPhrase
    BY <1>2 DEF PhrasesOK, OpenStages
  <2>2. \A n \in Segments : p[n].at \in {"registered", "done"} => ~(n > k.taken)
    BY <2>1 DEF NoPhrase
  <2>3. \A n \in Segments : ~(n > k.taken) => q[n] = p[n]
    OBVIOUS
  <2> HIDE DEF q
  <2> QED BY <2>2, <2>3 DEF PhrasesKept
<1> HIDE DEF r, q
<1>6. SpokenOK(r, q)
  <2>1. /\ r.attached = k.attached /\ ~k.overtaken
        /\ Same(r, k, {"at", "epoch", "attached", "said", "taken", "late", "overtaken", "wait"})
    BY <1>2, <1>4 DEF Same, TalkFields, TalkOK
  <2>2. k.at \in OpenStages /\ r.at \in OpenStages /\ r.at # "waiting"
    BY <1>2, <1>4 DEF OpenStages
  <2> QED BY <1>2, <1>5, <2>1, <2>2, OpenSpoken
<1>7. /\ talk'[t] = r /\ \A u \in TurnIds \ {t} : talk'[u] = talk[u]
      /\ phrase'[t] = q /\ \A u \in TurnIds \ {t} : phrase'[u] = phrase[u]
  BY <1>2, <1>3
<1> QED BY <1>1, <1>6, <1>7, SpokenMoves

\* The segment worker finishes the next final.
LEMMA FinishSpeechSpoken == ASSUME TurnInv, SpokenInv, FinishSpeech PROVE SpokenInv'
<1>1. PICK t \in TurnIds : t = Head(finals) /\ talk[t].at = "final"
  BY QueueParts, TailDistinct DEF FinishSpeech
<1>2. CASE HandOver(t)
  BY <1>1, <1>2, HandOverSpoken
<1>3. CASE Breaks(t)
  BY <1>3, DiscardedSpoken DEF Breaks
<1>4. CASE Skipped(t)
  BY <1>4, DiscardedSpoken DEF Skipped
<1> QED BY <1>1, <1>2, <1>3, <1>4 DEF FinishSpeech

\* The settlement worker takes a turn and notes the calls it waits for.
LEMMA TakeFinalSpoken == ASSUME TurnInv, SpokenInv, TakeFinal PROVE SpokenInv'
<1>1. PICK t \in TurnIds : t = Head(settling) /\ talk[t].at = "queued"
  BY QueueParts, TailDistinct DEF TakeFinal
<1>2. PICK k, p, wait : /\ k = talk[t] /\ p = phrase[t]
                        /\ wait = {n \in Segments : phrase[t][n].at \notin {"none", "tail"}}
  OBVIOUS
<1>3. TalkOK(k) /\ SpokenOK(k, p) /\ DOMAIN talk = TurnIds /\ k.at = "queued" /\ phrase' = phrase
  BY <1>1, <1>2, TurnParts DEF SpokenInv, TakeFinal
<1> DEFINE r == [k EXCEPT !.at = "waiting", !.wait = wait]
<1>4. talk' = [talk EXCEPT ![t] = r]
  BY <1>1, <1>2 DEF TakeFinal
<1>5. r.at = "waiting" /\ r.wait = wait /\ Same(r, k, {"at", "wait"})
  BY <1>3 DEF TalkOK, TalkFields, Same
<1> HIDE DEF r
<1>6. WaitsOK(r, p)
  BY <1>2, <1>5 DEF WaitsOK
<1>7. SpokenOK(r, p)
  <2>1. /\ r.attached = k.attached /\ r.overtaken = k.overtaken
        /\ Same(r, k, {"at", "epoch", "attached", "said", "taken", "late", "overtaken", "wait"})
    BY <1>5 DEF Same, TalkFields
  <2>2. PhrasesKept(p, p) /\ k.at \in OpenStages /\ r.at \in OpenStages
    BY <1>3, <1>5 DEF PhrasesKept, OpenStages
  <2> QED BY <1>3, <1>6, <2>1, <2>2, OpenSpoken
<1>8. talk'[t] = r /\ \A u \in TurnIds \ {t} : talk'[u] = talk[u]
  BY <1>3, <1>4
<1> QED BY <1>2, <1>3, <1>7, <1>8, SpokenMoves
\* What the scheduler is offered when phrase n is answered and a is the next to be
\* spoken: of the phrases a .. e - 1 that may be spoken now those before y, whose
\* pieces A + 1 .. Y it gets in the order of the text.
OffersOK(t, n, a, e, y, A, Y) ==
    /\ Run(t, n) = a .. e - 1 /\ Cardinality(Run(t, n)) = e - a /\ a <= y /\ y <= e /\ e <= MaxSegments + 1
    /\ \A m \in Run(t, n) : m \in Segments /\ (m = n \/ phrase[t][m].at \in {"registered", "done"})
    /\ talk[t].failed => y = a
    /\ ~talk[t].failed => (\A m \in a .. y - 1 : phrase[t][m].ok) /\ (y = e \/ ~phrase[t][y].ok)
    /\ (Speakable(t, n) # Run(t, n)) = (y # e)
    /\ A = (a - 1) * Pieces /\ Y = (y - 1) * Pieces /\ A <= Y
    /\ Ordered(Offers(t, n)) = [i \in 1 .. Y - A |-> A + i]

\* There are such phrases whenever a phrase is answered.
LEMMA OffersAre ==
  ASSUME NEW t \in TurnIds, NEW n \in Segments, talk[t].next \in 1 .. MaxSegments + 1
  PROVE  \E e \in Nat, y \in Nat, A \in Nat, Y \in Nat : OffersOK(t, n, talk[t].next, e, y, A, Y)
<1>1. PICK a : a = talk[t].next /\ a \in 1 .. MaxSegments + 1
  OBVIOUS
<1>2. MaxSegments \in Nat /\ a \in Nat \ {0}
  BY <1>1, TurnsAssumption
<1>3. PICK e \in a .. MaxSegments + 1 :
         Run(t, n) = a .. e - 1
             /\ \A m \in Run(t, n) : m \in Segments /\ (m = n \/ phrase[t][m].at \in {"registered", "done"})
  BY <1>1, RunIs
<1>4. e \in Nat /\ a <= e /\ e <= MaxSegments + 1
  BY <1>2
<1>5. PICK y \in a .. e :
            /\ Speakable(t, n) = a .. y - 1
            /\ talk[t].failed => y = a
            /\ ~talk[t].failed => (\A m \in a .. y - 1 : phrase[t][m].ok) /\ (y = e \/ ~phrase[t][y].ok)
  BY <1>2, <1>3, <1>4, SpeakableIs
<1>6. y \in Nat /\ a <= y /\ y <= e
  BY <1>2, <1>4, <1>5
<1>7. Cardinality(Run(t, n)) = e - a
  <2>1. PICK w \in Int, z \in Int : w = a /\ z = e - 1
    BY <1>2, <1>4
  <2>2. Cardinality(w .. z) = IF w > z THEN 0 ELSE z - w + 1
    BY FS_Interval
  <2> QED BY <1>3, <1>4, <2>1, <2>2
<1>8. (Speakable(t, n) # Run(t, n)) = (y # e)
  <2>1. CASE y = e
    BY <1>3, <1>5, <2>1
  <2>2. CASE y # e
    <3>1. y \in a .. e - 1 /\ y \notin a .. y - 1
      BY <1>4, <1>6, <2>2
    <3> QED BY <1>3, <1>5, <2>2, <3>1
  <2> QED BY <2>1, <2>2
<1>9. /\ UNION {PiecesOf(m) : m \in a .. y - 1} = (a - 1) * Pieces + 1 .. (y - 1) * Pieces
      /\ (a - 1) * Pieces \in Nat /\ (y - 1) * Pieces \in Nat /\ (a - 1) * Pieces <= (y - 1) * Pieces
  BY <1>2, <1>6, PiecesSpan
<1>10. PICK A \in Nat, Y \in Nat : A = (a - 1) * Pieces /\ Y = (y - 1) * Pieces /\ A <= Y
  BY <1>9
<1>11. Offers(t, n) = A + 1 .. Y
  BY <1>5, <1>9, <1>10 DEF Offers
<1>12. Ordered(Offers(t, n)) = [i \in 1 .. Y - A |-> A + i]
  BY <1>10, <1>11, OrderedInterval
<1>13. OffersOK(t, n, a, e, y, A, Y)
  BY <1>3, <1>4, <1>5, <1>6, <1>7, <1>8, <1>10, <1>12 DEF OffersOK
<1> QED BY <1>1, <1>4, <1>6, <1>13

\* The pieces that are taken continue the text.
LEMMA AdmitTurn ==
  ASSUME TurnInv, NEW t \in TurnIds, NEW n \in Segments, Admit(t, n), talk[t].attached,
         LiveOK(talk[t], phrase[t]), Counts(talk[t].spoken)
  PROVE  \E r : /\ talk' = [talk EXCEPT ![t] = r] /\ Same(r, talk[t], {"next", "spoken", "left", "failed"})
                /\ Counts(r.spoken) /\ LiveOK(r, phrase'[t])
<1>1. PICK k, p, q : k = talk[t] /\ p = phrase[t] /\ q = phrase'[t]
  OBVIOUS
<1>2. /\ TalkOK(k) /\ p[n] \in PhraseRecord /\ p[n].at = "answered" /\ k.attached /\ LiveOK(k, p) /\ Counts(k.spoken)
      /\ DOMAIN talk = TurnIds
  BY <1>1, TurnParts DEF PhrasesOK, Admit
<1>3. PICK a \in Nat : a = k.next /\ a \in 1 .. MaxSegments + 1
  BY <1>2, TurnsAssumption DEF LiveOK
<1>4. PICK e \in Nat, y \in Nat, A \in Nat, Y \in Nat : OffersOK(t, n, a, e, y, A, Y)
  <2>1. talk[t].next \in 1 .. MaxSegments + 1 /\ a = talk[t].next
    BY <1>1, <1>3
  <2>2. \E e \in Nat, y \in Nat, A \in Nat, Y \in Nat : OffersOK(t, n, talk[t].next, e, y, A, Y)
    BY <2>1, OffersAre
  <2> QED BY <2>1, <2>2
<1>5. /\ Run(t, n) = a .. e - 1 /\ Cardinality(Run(t, n)) = e - a /\ a <= y /\ y <= e /\ e <= MaxSegments + 1
      /\ (Speakable(t, n) # Run(t, n)) = (y # e)
      /\ A = (a - 1) * Pieces /\ Y = (y - 1) * Pieces /\ A <= Y
      /\ Ordered(Offers(t, n)) = [i \in 1 .. Y - A |-> A + i]
  BY <1>4 DEF OffersOK
<1>6. \A m \in a .. e - 1 : m \in Segments /\ (m = n \/ p[m].at \in {"registered", "done"})
  BY <1>1, <1>4 DEF OffersOK
<1>7. /\ k.failed => y = a
      /\ ~k.failed => (\A m \in a .. y - 1 : p[m].ok) /\ (y = e \/ ~p[y].ok)
  BY <1>1, <1>4 DEF OffersOK
<1>8. e \in Nat /\ MaxSegments \in Nat /\ e <= MaxSegments + 1 /\ a <= e
  BY <1>3, <1>5, TurnsAssumption
<1>9. PICK offers, good :
         /\ offers = [i \in 1 .. Y - A |-> A + i]
         /\ good = UNION {PiecesOf(m) : m \in {m \in a .. e - 1 : p[m].ok}}
  OBVIOUS
<1>10. offers \in Seq(Nat) /\ Len(offers) = Y - A /\ \A i \in 1 .. Y - A : offers[i] = A + i
  <2>1. Y - A \in Nat
    BY <1>4, <1>5
  <2> QED BY <1>9, <2>1
<1>11. PICK taken, v1, v2, v3, v4 :
          /\ taken \in 0 .. Y - A
          /\ talk' = [talk EXCEPT ![t].next = v1, ![t].spoken = v2, ![t].left = v3, ![t].failed = v4]
          /\ v1 = k.next + (e - a) /\ v2 = k.spoken \o SubSeq(offers, 1, taken)
          /\ v3 = k.left \cup (good \ {offers[i] : i \in 1 .. taken}) /\ v4 = (k.failed \/ y # e \/ taken < Y - A)
  <2> DEFINE run == Run(t, n)
             pieces == Ordered(Offers(t, n))
             fine == UNION {PiecesOf(m) : m \in {m \in run : phrase[t][m].ok}}
  <2>1. PICK taken \in 0 .. Len(pieces) :
             talk' = [talk EXCEPT
                ![t].next = @ + Cardinality(run),
                ![t].spoken = @ \o SubSeq(pieces, 1, taken),
                ![t].left = @ \cup (fine \ {pieces[i] : i \in 1 .. taken}),
                ![t].failed = @ \/ Speakable(t, n) # run \/ taken < Len(pieces)]
    BY <1>1, <1>2 DEF Admit, Attached
  <2>2. pieces = offers /\ Len(pieces) = Y - A /\ Cardinality(run) = e - a
    BY <1>5, <1>9, <1>10
  <2>3. fine = good
    BY <1>1, <1>5, <1>9
  <2>4. (Speakable(t, n) # run) = (y # e)
    BY <1>5
  <2> HIDE DEF run, pieces, fine
  <2>5. PICK v1, v2, v3, v4 :
           /\ v1 = talk[t].next + Cardinality(run) /\ v2 = talk[t].spoken \o SubSeq(pieces, 1, taken)
           /\ v3 = talk[t].left \cup (fine \ {pieces[i] : i \in 1 .. taken})
           /\ v4 = (talk[t].failed \/ Speakable(t, n) # run \/ taken < Len(pieces))
    OBVIOUS
  <2>6. talk' = [talk EXCEPT ![t].next = v1, ![t].spoken = v2, ![t].left = v3, ![t].failed = v4]
    BY <2>1, <2>5
  <2>7. v1 = k.next + (e - a)
    BY <1>1, <2>2, <2>5
  <2>8. v2 = k.spoken \o SubSeq(offers, 1, taken)
    BY <1>1, <2>2, <2>5
  <2>9. v3 = k.left \cup (good \ {offers[i] : i \in 1 .. taken})
    BY <1>1, <2>2, <2>3, <2>5
  <2>10. v4 = (k.failed \/ y # e \/ taken < Y - A)
    BY <1>1, <2>2, <2>4, <2>5
  <2>11. taken \in 0 .. Y - A
    BY <2>1, <2>2
  <2> QED BY <2>6, <2>7, <2>8, <2>9, <2>10, <2>11
<1>12. taken \in Nat /\ taken <= Y - A
  <2>1. taken \in 0 .. Y - A
    BY <1>11
  <2>2. Y - A \in Nat
    BY <1>4, <1>5
  <2> QED BY <2>1, <2>2
<1>13. {offers[i] : i \in 1 .. taken} = A + 1 .. A + taken
  <2>1. \A i \in 1 .. taken : i \in 1 .. Y - A
    BY <1>12
  <2>2. \A i \in 1 .. taken : offers[i] = A + i
    BY <1>10, <2>1
  <2>3. \A x \in A + 1 .. A + taken : x - A \in 1 .. taken /\ x = A + (x - A)
    BY <1>12
  <2>4. \A x \in A + 1 .. A + taken : x \in {offers[i] : i \in 1 .. taken}
    BY <2>2, <2>3
  <2>5. \A i \in 1 .. taken : offers[i] \in A + 1 .. A + taken
    BY <1>12, <2>2
  <2> QED BY <2>4, <2>5
<1>14. v3 = k.left \cup (good \ A + 1 .. A + taken)
  BY <1>11, <1>13
<1> DEFINE r == [k EXCEPT !.next = v1, !.spoken = v2, !.left = v3, !.failed = v4]
<1>15. talk' = [talk EXCEPT ![t] = r]
  BY <1>1, <1>11
<1>16. r.next = v1 /\ r.spoken = v2 /\ r.left = v3 /\ r.failed = v4 /\ Same(r, k, {"next", "spoken", "left", "failed"})
  BY <1>2 DEF TalkOK, TalkFields, Same
<1> HIDE DEF r
<1>17. r.attached /\ r.next = e
  <2>1. a + (e - a) = e
    BY <1>3, <1>4
  <2> QED BY <1>2, <1>3, <1>11, <1>16, <2>1 DEF Same, TalkFields
<1>18. taken > 0 => Len(k.spoken) = A
  <2>1. k.failed => taken = 0
    BY <1>5, <1>7, <1>12
  <2>2. ~k.failed => Len(k.spoken) = A
    BY <1>2, <1>3, <1>5 DEF LiveOK
  <2> QED BY <1>12, <2>1, <2>2
<1>19. Counts(r.spoken) /\ Len(r.spoken) = Len(k.spoken) + taken
  <2>1. \A i \in 1 .. taken : offers[i] = Len(k.spoken) + i
    <3> SUFFICES ASSUME NEW i \in 1 .. taken PROVE offers[i] = Len(k.spoken) + i
      OBVIOUS
    <3>1. i \in 1 .. Y - A /\ taken > 0
      BY <1>5, <1>12
    <3> QED BY <1>10, <1>18, <3>1
  <2>2. taken \in 0 .. Len(offers)
    BY <1>10, <1>11
  <2>3. PICK s : s = k.spoken
    OBVIOUS
  <2>4. Counts(s) /\ \A i \in 1 .. taken : offers[i] = Len(s) + i
    BY <1>2, <2>1, <2>3
  <2>5. Counts(s \o SubSeq(offers, 1, taken)) /\ Len(s \o SubSeq(offers, 1, taken)) = Len(s) + taken
    BY <1>10, <2>2, <2>4, CountsOn
  <2> QED BY <1>11, <1>16, <2>3, <2>5
<1>20. \A m \in Segments : q[m].ok = p[m].ok /\ (m < e => q[m].at \in {"registered", "done"})
  <2> DEFINE x == [p[n] EXCEPT !.at = "registered"]
  <2>1. phrase' = [phrase EXCEPT ![t][n] = x]
    BY <1>1 DEF Admit
  <2>2. x.at = "registered" /\ x.ok = p[n].ok
    BY <1>2 DEF PhraseRecord
  <2> HIDE DEF x
  <2>3. /\ \A u \in TurnIds \ {t} : phrase'[u] = phrase[u]
        /\ phrase'[t][n] = x /\ \A m \in Segments \ {n} : phrase'[t][m] = phrase[t][m]
    BY <2>1, OnePhrase
  <2>4. \A m \in Segments : q[m].ok = p[m].ok
    BY <1>1, <2>2, <2>3
  <2>5. ASSUME NEW m \in Segments, m < e PROVE m = n \/ p[m].at \in {"registered", "done"}
    <3>1. CASE m < a
      BY <1>2, <1>3, <3>1 DEF LiveOK
    <3>2. CASE m >= a
      <4>1. m \in a .. e - 1
        BY <1>8, <2>5, <3>2 DEF Segments
      <4> QED BY <1>6, <4>1
    <3>3. m \in Nat
      BY DEF Segments
    <3> QED BY <3>1, <3>2, <3>3
  <2>6. \A m \in Segments : m < e => q[m].at \in {"registered", "done"}
    BY <1>1, <2>2, <2>3, <2>5
  <2> QED BY <2>4, <2>6
<1>21. Admitted(k, p, r, q, a, y, e, A, Y, taken)
  <2>1. /\ a = k.next /\ a <= y /\ y <= e /\ e <= MaxSegments + 1
        /\ A = (a - 1) * Pieces /\ Y = (y - 1) * Pieces /\ taken \in 0 .. Y - A
    BY <1>3, <1>5, <1>8, <1>11
  <2>2. /\ k.failed => y = a
        /\ ~k.failed => (\A m \in a .. y - 1 : p[m].ok) /\ (y = e \/ ~p[y].ok)
    BY <1>7
  <2>3. r.left = k.left \cup (good \ A + 1 .. A + taken)
    BY <1>14, <1>16
  <2>4. r.failed = (k.failed \/ y # e \/ taken < Y - A)
    BY <1>11, <1>16
  <2> QED BY <1>9, <1>17, <1>19, <1>20, <2>1, <2>2, <2>3, <2>4 DEF Admitted
<1>22. LiveOK(r, q)
  BY <1>2, <1>8, <1>21, AdmitLive
<1> QED BY <1>1, <1>15, <1>16, <1>19, <1>22

\* A phrase that is admitted, in its turn or behind it.
LEMMA AdmitSpoken == ASSUME TurnInv, SpokenInv, NEW t \in TurnIds, NEW n \in Segments, Admit(t, n) PROVE SpokenInv'
<1>1. PICK k, p, q : k = talk[t] /\ p = phrase[t] /\ q = phrase'[t]
  OBVIOUS
<1>2. /\ TalkOK(k) /\ SpokenOK(k, p) /\ p[n] \in PhraseRecord /\ p[n].at = "answered" /\ DOMAIN talk = TurnIds
  BY <1>1, TurnParts DEF SpokenInv, PhrasesOK, Admit
<1> DEFINE x == [p[n] EXCEPT !.at = "registered"]
<1>3. phrase' = [phrase EXCEPT ![t][n] = x] /\ x.at = "registered"
  BY <1>1, <1>2 DEF Admit, PhraseRecord
<1> HIDE DEF x
<1>4. /\ \A u \in TurnIds \ {t} : phrase'[u] = phrase[u]
      /\ phrase'[t][n] = x /\ \A m \in Segments \ {n} : phrase'[t][m] = phrase[t][m]
  BY <1>3, OnePhrase
<1>5. PhrasesKept(p, q) /\ \A m \in Segments : p[m].at \notin {"none", "tail"} \/ q[m].at = p[m].at
  BY <1>1, <1>2, <1>4 DEF PhrasesKept
<1>6. CASE ~k.attached
  <2>1. talk' = talk
    BY <1>1, <1>6 DEF Admit, Attached
  <2>2. WaitsOK(k, p) => WaitsOK(k, q)
    BY <1>5 DEF WaitsOK
  <2>3. Same(k, k, {"taken", "late"})
    BY <1>2 DEF Same, TalkOK
  <2>4. SpokenOK(k, q)
    BY <1>2, <1>5, <2>2, <2>3, SameSpoken
  <2> QED BY <1>1, <1>4, <2>1, <2>4, SpokenMoves
<1>7. CASE k.attached
  <2>1. k.at \in OpenStages /\ ~k.revised
    BY <1>2, <1>7 DEF TalkOK
  <2>2. PICK r : /\ talk' = [talk EXCEPT ![t] = r] /\ Same(r, k, {"next", "spoken", "left", "failed"})
                 /\ ~k.overtaken => Counts(r.spoken) /\ LiveOK(r, q)
    <3>1. CASE ~k.overtaken
      <4>1. LiveOK(talk[t], phrase[t]) /\ Counts(talk[t].spoken)
        <5>1. LiveOK(k, p)
          BY <1>2, <2>1, <3>1 DEF SpokenOK
        <5>2. k.at # "closed"
          BY <2>1 DEF OpenStages
        <5> QED BY <1>1, <1>2, <2>1, <3>1, <5>1, <5>2, NotDropped
      <4> QED BY <1>1, <1>7, <4>1, AdmitTurn
    <3>2. CASE k.overtaken
      <4> DEFINE run == Run(t, n)
                 offers == Ordered(Offers(t, n))
                 good == UNION {PiecesOf(m) : m \in {m \in run : phrase[t][m].ok}}
      <4>1. PICK taken \in 0 .. Len(offers) :
               talk' = [talk EXCEPT
                ![t].next = @ + Cardinality(run),
                ![t].spoken = @ \o SubSeq(offers, 1, taken),
                ![t].left = @ \cup (good \ {offers[i] : i \in 1 .. taken}),
                ![t].failed = @ \/ Speakable(t, n) # run \/ taken < Len(offers)]
        BY <1>1, <1>7 DEF Admit, Attached
      <4>2. PICK v1, v2, v3, v4 :
               talk' = [talk EXCEPT ![t].next = v1, ![t].spoken = v2, ![t].left = v3, ![t].failed = v4]
        BY <4>1
      <4> DEFINE r == [k EXCEPT !.next = v1, !.spoken = v2, !.left = v3, !.failed = v4]
      <4>3. talk' = [talk EXCEPT ![t] = r]
        BY <1>1, <4>2
      <4>4. Same(r, k, {"next", "spoken", "left", "failed"})
        BY <1>2 DEF TalkOK, TalkFields, Same
      <4> HIDE DEF r
      <4> QED BY <3>2, <4>3, <4>4
    <3> QED BY <3>1, <3>2
  <2>3. r.at = k.at /\ r.revised = k.revised /\ r.overtaken = k.overtaken /\ r.wait = k.wait
    BY <2>2 DEF Same, TalkFields
  <2>4. SpokenOK(r, q)
    <3>1. RestOK(r)
      BY <2>1, <2>3 DEF RestOK, OpenStages
    <3>2. k.at = "waiting" /\ ~k.overtaken => WaitsOK(r, q)
      BY <1>2, <1>5, <2>1, <2>3 DEF WaitsOK, SpokenOK
    <3>3. ~k.overtaken => ~r.dropped
      <4>1. r.dropped = k.dropped /\ k.at # "closed"
        BY <2>1, <2>2 DEF Same, TalkFields, OpenStages
      <4> QED BY <1>2, <2>1, <4>1, NotDropped
    <3>4. ~k.overtaken => SaidInOrder(r)
      BY <2>2, <3>3 DEF SaidInOrder
    <3> QED BY <2>2, <2>3, <3>1, <3>2, <3>4 DEF SpokenOK
  <2>5. talk'[t] = r /\ \A u \in TurnIds \ {t} : talk'[u] = talk[u]
    BY <1>2, <2>2
  <2> QED BY <1>1, <1>4, <2>4, <2>5, SpokenMoves
<1> QED BY <1>6, <1>7
\* What the settlement finds unspoken: when every call it waited for is done and
\* admitted, the pieces behind those the live phrases spoke.
LEMMA RestIs ==
  ASSUME TurnInv, NEW t \in TurnIds, talk[t].at = "waiting", talk[t].attached, ~talk[t].overtaken, Awaiting(t) = {},
         LiveOK(talk[t], phrase[t]), WaitsOK(talk[t], phrase[t]), Counts(talk[t].spoken)
  PROVE  /\ Len(talk[t].spoken) <= talk[t].said * Pieces
         /\ {x \in 1 .. talk[t].said * Pieces : SegmentOf(x) \notin Reused(t) \/ x \in talk[t].left}
               = Len(talk[t].spoken) + 1 .. talk[t].said * Pieces
<1>1. PICK k, p : k = talk[t] /\ p = phrase[t]
  OBVIOUS
<1>2. TalkOK(k) /\ PhrasesOK(k, p) /\ MaxSegments \in Nat /\ k.at = "waiting" /\ ~k.overtaken
  BY <1>1, TurnParts
<1>3. k.said \in 1 .. MaxSegments /\ k.taken = k.said /\ k.said \in Nat
  BY <1>2 DEF TalkOK
<1>4. PICK L \in Nat, S \in Nat, a \in Nat \ {0} :
         L = Len(k.spoken) /\ S = k.said * Pieces /\ a = k.next /\ L <= (a - 1) * Pieces
  <2>1. Len(k.spoken) \in Nat /\ k.said * Pieces \in Nat
    <3>1. k.said * Pieces \in Nat
      BY <1>3, PieceSteps
    <3> QED BY <1>1, <3>1 DEF Counts
  <2>2. k.next \in Nat \ {0} /\ Len(k.spoken) <= (k.next - 1) * Pieces
    BY <1>1, <1>2 DEF LiveOK
  <2> QED BY <2>1, <2>2
<1>5. \A m \in Segments : m < a =>
          /\ p[m].at \in {"registered", "done"}
          /\ p[m].ok => \A x \in PiecesOf(m) : x <= L \/ x \in k.left
          /\ ~p[m].ok => L <= (m - 1) * Pieces
  BY <1>1, <1>4 DEF LiveOK
<1>6. \A x \in k.left : x \in Nat /\ L < x
  BY <1>1, <1>4 DEF LiveOK
<1>7. \A m \in Segments : p[m].at \notin {"none", "tail"} => p[m].at = "done" /\ m < a
  <2>1. \A m \in Segments : p[m].at \notin {"none", "tail"} => m \in k.wait
    BY <1>1 DEF WaitsOK
  <2>2. \A m \in k.wait : p[m].at = "done" /\ ~(m >= a)
    BY <1>1, <1>4 DEF Awaiting
  <2>3. \A m \in Segments : m \in Nat
    BY DEF Segments
  <2> QED BY <1>4, <2>1, <2>2, <2>3
<1>8. \A m \in Segments : m < a => m <= k.said
  <2>1. \A m \in Segments : m > k.taken => p[m].at = "none"
    BY <1>2 DEF PhrasesOK, OpenStages, NoPhrase
  <2>2. \A m \in Segments : m \in Nat
    BY DEF Segments
  <2> QED BY <1>3, <1>5, <2>1, <2>2
<1>9. L <= S
  <2>1. a - 1 <= k.said
    <3>1. CASE a = 1
      BY <1>3, <3>1
    <3>2. CASE a # 1
      <4>1. a - 1 \in Segments /\ a - 1 < a
        BY <1>1, <1>2, <1>4, <3>2 DEF LiveOK, Segments
      <4> QED BY <1>8, <4>1
    <3> QED BY <3>1, <3>2
  <2>2. a - 1 \in Nat /\ k.said \in Nat
    BY <1>3, <1>4
  <2>3. (a - 1) * Pieces \in Nat /\ (a - 1) * Pieces <= S
    BY <1>4, <2>1, <2>2, PieceSteps
  <2> QED BY <1>4, <2>3
<1>10. \A m \in 1 .. k.said : m \in Covered(t)
  <2>1. \A m \in 1 .. k.said : p[m].at # "none"
    <3>1. k.late = {}
      BY <1>2 DEF TalkOK
    <3> QED BY <1>1, <1>2, <1>3, <3>1 DEF PhrasesOK
  <2> SUFFICES ASSUME NEW m \in 1 .. k.said PROVE m \in Covered(t)
    OBVIOUS
  <2>2. \A l \in 1 .. m : l \in 1 .. k.said
    BY <1>3
  <2> QED BY <1>1, <2>1, <2>2 DEF Covered
<1>11. \A m \in 1 .. k.said : m \in Segments /\ (m \in Reused(t)) = (p[m] = [at |-> "done", ok |-> TRUE])
  <2>1. 1 .. k.said \subseteq Segments
    BY <1>2, <1>3 DEF Segments
  <2> QED BY <1>1, <1>10, <2>1 DEF Reused
<1>12. \A m \in Segments : p[m] \in PhraseRecord
  BY <1>2 DEF PhrasesOK
<1>13. ASSUME NEW x \in 1 .. S PROVE (SegmentOf(x) \notin Reused(t) \/ x \in k.left) <=> L < x
  <2>1. PICK m : m = SegmentOf(x)
    OBVIOUS
  <2>2. m \in Nat \ {0} /\ (m - 1) * Pieces < x /\ x <= m * Pieces /\ x \in Nat
    BY <2>1, SegmentSpan
  <2>3. (m - 1) * Pieces \in Nat /\ m * Pieces \in Nat /\ m - 1 \in Nat
    BY <2>2, PieceSteps
  <2>4. PICK b \in Nat, c \in Nat : b = (m - 1) * Pieces /\ c = m * Pieces /\ b < x /\ x <= c
    BY <2>2, <2>3
  <2>5. m \in 1 .. k.said
    <3>1. CASE k.said <= m - 1
      <4>1. S <= b
        <5>1. k.said * Pieces <= (m - 1) * Pieces
          BY <1>3, <2>3, <3>1, PieceSteps
        <5> QED BY <1>4, <2>4, <5>1
      <4> QED BY <1>4, <2>2, <2>4, <4>1
    <3> QED BY <1>3, <2>2, <3>1
  <2>6. x \in PiecesOf(m)
    BY <2>2, <2>4 DEF PiecesOf
  <2>7. m \in Segments /\ (m \in Reused(t)) = (p[m] = [at |-> "done", ok |-> TRUE]) /\ p[m] \in PhraseRecord
    BY <1>11, <1>12, <2>5
  <2>8. ASSUME L < x, m \in Reused(t) PROVE x \in k.left
    <3>1. p[m].at = "done" /\ p[m].ok
      BY <2>7, <2>8
    <3>2. m < a
      BY <1>7, <2>7, <3>1
    <3>3. x <= L \/ x \in k.left
      BY <1>5, <2>6, <2>7, <3>1, <3>2
    <3> QED BY <1>4, <2>2, <2>8, <3>3
  <2>9. ASSUME x <= L PROVE m \in Reused(t) /\ x \notin k.left
    <3>1. m < a
      <4>1. CASE a - 1 <= m - 1
        <5>1. (a - 1) * Pieces <= b /\ (a - 1) * Pieces \in Nat
          <6>1. a - 1 \in Nat
            BY <1>4
          <6> QED BY <2>3, <2>4, <4>1, <6>1, PieceSteps
        <5> QED BY <1>4, <2>2, <2>4, <2>9, <5>1
      <4> QED BY <1>4, <2>2, <4>1
    <3>2. p[m].at = "done"
      BY <1>5, <1>7, <2>7, <3>1
    <3>3. p[m].ok
      <4>1. ~p[m].ok => L <= b
        BY <1>5, <2>4, <2>7, <3>1
      <4> QED BY <1>4, <2>2, <2>4, <2>9, <4>1
    <3>4. p[m] = [at |-> "done", ok |-> TRUE]
      <4>1. p[m].ok = TRUE
        BY <2>7, <3>3 DEF PhraseRecord
      <4> QED BY <2>7, <3>2, <4>1 DEF PhraseRecord
    <3>5. x \notin k.left
      BY <1>4, <1>6, <2>2, <2>9
    <3> QED BY <2>7, <3>4, <3>5
  <2>10. L < x \/ x <= L
    BY <1>4, <2>2
  <2>11. ~(L < x /\ x <= L)
    BY <1>4, <2>2
  <2> QED BY <2>1, <2>8, <2>9, <2>10, <2>11
<1>14. {x \in 1 .. S : SegmentOf(x) \notin Reused(t) \/ x \in k.left} = L + 1 .. S
  <2>1. \A x \in 1 .. S : x \in L + 1 .. S <=> L < x
    BY <1>4
  <2>2. \A x \in L + 1 .. S : x \in 1 .. S
    BY <1>4
  <2> QED BY <1>13, <2>1, <2>2
<1> QED BY <1>1, <1>4, <1>9, <1>14
\* The summary of the phrases leaves the rest to be spoken.
LEMMA DetachedSpoken ==
  ASSUME TurnInv, SpokenInv, NEW t \in TurnIds, talk[t].at = "waiting", NEW todo, NEW rest, NEW merged, NEW revised \in BOOLEAN,
         Detached(t, todo, rest, merged, revised), phrase' = phrase,
         ~revised /\ ~talk[t].overtaken /\ LiveOK(talk[t], phrase[t]) /\ WaitsOK(talk[t], phrase[t])
                  /\ Counts(talk[t].spoken) =>
            /\ Len(talk[t].spoken) <= talk[t].said * Pieces
            /\ rest = Len(talk[t].spoken) + 1 .. talk[t].said * Pieces
  PROVE  SpokenInv'
<1>1. PICK k, p : k = talk[t] /\ p = phrase[t]
  OBVIOUS
<1>2. TalkOK(k) /\ SpokenOK(k, p) /\ DOMAIN talk = TurnIds /\ k.at = "waiting"
  BY <1>1, TurnParts DEF SpokenInv
<1> DEFINE r == [k EXCEPT !.at = "translating", !.attached = FALSE, !.todo = todo, !.rest = rest, !.revised = revised]
<1>3. talk' = [talk EXCEPT ![t] = r]
  BY <1>1 DEF Detached
<1>4. /\ r.at = "translating" /\ r.rest = rest /\ r.revised = revised
      /\ Same(r, k, {"at", "attached", "todo", "rest", "revised"})
  BY <1>2 DEF TalkOK, TalkFields, Same
<1> HIDE DEF r
<1>5. r.spoken = k.spoken /\ r.said = k.said /\ r.overtaken = k.overtaken /\ r.dropped = k.dropped
  BY <1>4 DEF Same, TalkFields
<1>6. SpokenOK(r, p)
  <2> SUFFICES ASSUME ~r.revised, ~r.overtaken
               PROVE  SaidInOrder(r) /\ RestOK(r)
    BY <1>4 DEF SpokenOK, OpenStages
  <2>1. ~k.dropped /\ Counts(k.spoken) /\ LiveOK(k, p) /\ WaitsOK(k, p)
    <3>1. ~k.revised /\ ~k.overtaken /\ k.at # "closed" /\ k.at \in OpenStages
      BY <1>2, <1>5 DEF OpenStages, TalkOK
    <3>2. LiveOK(k, p) /\ WaitsOK(k, p)
      BY <1>2, <3>1 DEF SpokenOK
    <3> QED BY <1>2, <3>1, <3>2, NotDropped
  <2>2. Len(k.spoken) <= k.said * Pieces /\ rest = Len(k.spoken) + 1 .. k.said * Pieces
    BY <1>1, <1>4, <1>5, <2>1
  <2> QED BY <1>4, <1>5, <2>1, <2>2 DEF RestOK, SaidInOrder
<1>7. talk'[t] = r /\ \A u \in TurnIds \ {t} : talk'[u] = talk[u]
  BY <1>2, <1>3
<1> QED BY <1>1, <1>6, <1>7, SpokenMoves

\* FinalizePhraseSubtitleTurn: reused, revised or translated as a whole.
LEMMA FinalizeSpoken == ASSUME TurnInv, SpokenInv, NEW t \in TurnIds, Finalize(t) PROVE SpokenInv'
<1> DEFINE all == 1 .. talk[t].said * Pieces
           rest == {x \in all : SegmentOf(x) \notin Reused(t) \/ x \in talk[t].left}
           ended == {n \in Covered(t) : phrase[t][n].at = "done"}
           some == {-n : n \in Covered(t) \ Reused(t)} \cup Beyond(t)
<1>1. talk[t].at = "waiting" /\ phrase' = phrase /\ (Attached(t) => Awaiting(t) = {})
  BY DEF Finalize
<1>2. \/ Attached(t) /\ Covered(t) # {} /\ Detached(t, some, rest, ended \cap bill[t].spent, FALSE)
      \/ ~(Attached(t) /\ Covered(t) # {}) /\ Detached(t, {Whole}, all, {}, FALSE)
      \/ Detached(t, {Whole}, all, {}, TRUE)
  BY DEF Finalize
<1>3. talk[t].attached /\ ~talk[t].overtaken => Covered(t) # {}
  BY <1>1, CoveredParts
<1>4. CASE Attached(t) /\ Covered(t) # {} /\ Detached(t, some, rest, ended \cap bill[t].spent, FALSE)
  <2>1. ~talk[t].overtaken /\ LiveOK(talk[t], phrase[t]) /\ WaitsOK(talk[t], phrase[t]) /\ Counts(talk[t].spoken) =>
            /\ Len(talk[t].spoken) <= talk[t].said * Pieces
            /\ rest = Len(talk[t].spoken) + 1 .. talk[t].said * Pieces
    BY <1>1, <1>4, RestIs DEF Attached
  <2> HIDE DEF all, rest, ended, some
  <2> QED BY <1>1, <1>4, <2>1, DetachedSpoken
<1>5. CASE ~(Attached(t) /\ Covered(t) # {}) /\ Detached(t, {Whole}, all, {}, FALSE)
  <2>1. ~talk[t].overtaken /\ LiveOK(talk[t], phrase[t]) =>
            /\ Len(talk[t].spoken) <= talk[t].said * Pieces
            /\ all = Len(talk[t].spoken) + 1 .. talk[t].said * Pieces
    <3> SUFFICES ASSUME ~talk[t].overtaken, LiveOK(talk[t], phrase[t])
                 PROVE  /\ Len(talk[t].spoken) <= talk[t].said * Pieces
                        /\ all = Len(talk[t].spoken) + 1 .. talk[t].said * Pieces
      OBVIOUS
    <3>1. Len(talk[t].spoken) = 0
      BY <1>3, <1>5 DEF Attached, LiveOK
    <3>2. talk[t].said \in Nat
      BY TurnParts DEF TalkOK
    <3>3. talk[t].said * Pieces \in Nat
      BY <3>2, PieceSteps
    <3> QED BY <3>1, <3>3
  <2> HIDE DEF all
  <2> QED BY <1>1, <1>5, <2>1, DetachedSpoken
<1>6. CASE Detached(t, {Whole}, all, {}, TRUE)
  <2>1. PICK revised, none, todo, text : /\ revised = TRUE /\ none = {} /\ todo = {Whole} /\ text = all
                                         /\ Detached(t, todo, text, none, revised)
    BY <1>6
  <2>2. revised \in BOOLEAN /\ revised
    BY <2>1
  <2> HIDE DEF all, rest, ended, some
  <2>3. Detached(t, todo, text, none, revised)
    BY <2>1
  <2> QED BY <1>1, <2>2, <2>3, DetachedSpoken
<1> HIDE DEF all, rest, ended, some
<1> QED BY <1>2, <1>4, <1>5, <1>6

\* A turn on its way through the settlement keeps its rest until it is spoken.
LEMMA SettlingSpoken ==
  ASSUME TurnInv, SpokenInv, NEW t \in TurnIds, talk[t].at \in {"translating", "settled"}, NEW r,
         talk' = [talk EXCEPT ![t] = r], Same(r, talk[t], {"at", "end", "todo", "aloud"}), phrase' = phrase,
         \/ r.at \in {"translating", "settled", "speaking"}
         \/ r.at = "closed" /\ (r.end # "committed" \/ ~r.aloud)
  PROVE  SpokenInv'
<1>1. PICK k, p : k = talk[t] /\ p = phrase[t]
  OBVIOUS
<1>2. SpokenOK(k, p) /\ DOMAIN talk = TurnIds /\ k.at \in {"translating", "settled"}
  BY <1>1, TurnParts DEF SpokenInv
<1>3. Same(r, k, {"at", "end", "todo", "aloud"})
  BY <1>1
<1>4. /\ r.spoken = k.spoken /\ r.revised = k.revised /\ r.overtaken = k.overtaken /\ r.said = k.said
      /\ r.rest = k.rest /\ r.dropped = k.dropped /\ k.at # "closed"
  BY <1>2, <1>3 DEF Same, TalkFields
<1>5. r.at \notin OpenStages
  BY DEF OpenStages
<1>6. RestOK(k) => RestOK(r)
  BY <1>2, <1>4 DEF RestOK
<1>7. SpokenOK(r, p)
  BY <1>2, <1>4, <1>5, <1>6, ClosedSpoken
<1>8. talk'[t] = r /\ \A u \in TurnIds \ {t} : talk'[u] = talk[u]
  BY <1>2
<1> QED BY <1>1, <1>7, <1>8, SpokenMoves

\* A turn that leaves the settlement without speaking its rest.
LEMMA SettleTurnSpoken ==
  ASSUME TurnInv, SpokenInv, NEW t \in TurnIds, talk[t].at \in {"translating", "settled"},
         NEW end \in {"broken", "lost", "superseded"}, SettleTurn(t, end), phrase' = phrase
  PROVE  SpokenInv'
<1>1. PICK k : k = talk[t]
  OBVIOUS
<1> DEFINE r == [k EXCEPT !.at = "closed", !.end = end]
<1>2. talk' = [talk EXCEPT ![t] = r]
  BY <1>1 DEF SettleTurn
<1>3. r.at = "closed" /\ r.end = end /\ Same(r, k, {"at", "end", "todo", "aloud"})
  BY <1>1, TurnParts DEF TalkOK, TalkFields, Same
<1> HIDE DEF r
<1>4. Same(r, talk[t], {"at", "end", "todo", "aloud"}) /\ r.end # "committed"
  BY <1>1, <1>3
<1> QED BY <1>2, <1>3, <1>4, SettlingSpoken

\* The residual calls, the commit and the bill of a turn.
LEMMA SettleSpoken ==
  ASSUME TurnInv, SpokenInv, NEW t \in TurnIds, TranslateRest(t) \/ CommitTalk(t) \/ BillTurn(t)
  PROVE  SpokenInv'
<1>1. PICK k : k = talk[t]
  OBVIOUS
<1>2. DOMAIN k = TalkFields /\ k.at \in {"translating", "settled"} /\ phrase' = phrase
  BY <1>1, TurnParts DEF TalkOK, TranslateRest, CommitTalk, BillTurn
<1>3. CASE \E end \in {"broken", "lost", "superseded"} : SettleTurn(t, end)
  BY <1>1, <1>2, <1>3, SettleTurnSpoken
<1>4. CASE talk' = [talk EXCEPT ![t].todo = @ \ {Max(talk[t].todo)}]
  <2>1. PICK call : call = Max(talk[t].todo)
    OBVIOUS
  <2> DEFINE r == [k EXCEPT !.todo = @ \ {call}]
  <2>2. talk' = [talk EXCEPT ![t] = r]
    BY <1>1, <1>4, <2>1
  <2>3. r.at = k.at /\ Same(r, k, {"at", "end", "todo", "aloud"})
    BY <1>2 DEF TalkFields, Same
  <2> HIDE DEF r
  <2>4. Same(r, talk[t], {"at", "end", "todo", "aloud"}) /\ r.at \in {"translating", "settled", "speaking"}
    BY <1>1, <1>2, <2>3
  <2> QED BY <1>1, <1>2, <2>2, <2>4, SettlingSpoken
<1>5. CASE \E end : talk' = [talk EXCEPT ![t].at = "settled", ![t].end = end]
  <2>1. PICK end : talk' = [talk EXCEPT ![t].at = "settled", ![t].end = end]
    BY <1>5
  <2> DEFINE r == [k EXCEPT !.at = "settled", !.end = end]
  <2>2. talk' = [talk EXCEPT ![t] = r]
    BY <1>1, <2>1
  <2>3. r.at = "settled" /\ Same(r, k, {"at", "end", "todo", "aloud"})
    BY <1>2 DEF TalkFields, Same
  <2> HIDE DEF r
  <2>4. Same(r, talk[t], {"at", "end", "todo", "aloud"}) /\ r.at \in {"translating", "settled", "speaking"}
    BY <1>1, <2>3
  <2> QED BY <1>1, <1>2, <2>2, <2>4, SettlingSpoken
<1>6. CASE talk' = [talk EXCEPT ![t].at = "speaking"]
  <2> DEFINE r == [k EXCEPT !.at = "speaking"]
  <2>2. talk' = [talk EXCEPT ![t] = r]
    BY <1>1, <1>6
  <2>3. r.at = "speaking" /\ Same(r, k, {"at", "end", "todo", "aloud"})
    BY <1>2 DEF TalkFields, Same
  <2> HIDE DEF r
  <2>4. Same(r, talk[t], {"at", "end", "todo", "aloud"}) /\ r.at \in {"translating", "settled", "speaking"}
    BY <1>1, <2>3
  <2> QED BY <1>1, <1>2, <2>2, <2>4, SettlingSpoken
<1>7. CASE talk' = [talk EXCEPT ![t].at = "closed", ![t].aloud = FALSE]
  <2> DEFINE r == [k EXCEPT !.at = "closed", !.aloud = FALSE]
  <2>2. talk' = [talk EXCEPT ![t] = r]
    BY <1>1, <1>7
  <2>3. r.at = "closed" /\ ~r.aloud /\ Same(r, k, {"at", "end", "todo", "aloud"})
    BY <1>2 DEF TalkFields, Same
  <2> HIDE DEF r
  <2>4. Same(r, talk[t], {"at", "end", "todo", "aloud"})
    BY <1>1, <2>3
  <2> QED BY <1>1, <1>2, <2>2, <2>3, <2>4, SettlingSpoken
<1>8. TranslateRest(t) => \/ SettleTurn(t, "broken")
                          \/ talk' = [talk EXCEPT ![t].todo = @ \ {Max(talk[t].todo)}]
  BY DEF TranslateRest
<1>9. CommitTalk(t) => \/ SettleTurn(t, "broken") \/ SettleTurn(t, "lost")
                       \/ \E end : talk' = [talk EXCEPT ![t].at = "settled", ![t].end = end]
  BY DEF CommitTalk
<1>10. BillTurn(t) => \/ SettleTurn(t, "broken") \/ SettleTurn(t, "superseded")
                      \/ talk' = [talk EXCEPT ![t].at = "speaking"]
                      \/ talk' = [talk EXCEPT ![t].at = "closed", ![t].aloud = FALSE]
  BY DEF BillTurn
<1>11. \A end \in {"broken", "lost", "superseded"} : SettleTurn(t, end) => SpokenInv'
  BY <1>3
<1> QED BY <1>4, <1>5, <1>6, <1>7, <1>8, <1>9, <1>10, <1>11

\* The rest is spoken, but for the chunks the scheduler refuses.
LEMMA SpeakRestSpoken == ASSUME TurnInv, SpokenInv, NEW t \in TurnIds, SpeakRest(t) PROVE SpokenInv'
<1>1. PICK k, p : k = talk[t] /\ p = phrase[t]
  OBVIOUS
<1>2. TalkOK(k) /\ SpokenOK(k, p) /\ DOMAIN talk = TurnIds /\ k.at = "speaking" /\ phrase' = phrase
  <2>1. SpokenOK(k, p)
    BY <1>1 DEF SpokenInv
  <2>2. talk[t].at = "speaking" /\ phrase' = phrase
    BY DEF SpeakRest
  <2> QED BY <1>1, <2>1, <2>2, TurnParts
<1>3. PICK rest, refused :
        /\ rest = k.rest /\ refused \in SUBSET {SegmentOf(x) : x \in rest}
        /\ talk' = [talk EXCEPT ![t].at = "closed", ![t].dropped = refused # {},
               ![t].spoken = @ \o Ordered({x \in rest : SegmentOf(x) \notin refused})]
  BY <1>1 DEF SpeakRest
<1>4. PICK T : T = {x \in rest : SegmentOf(x) \notin refused}
  OBVIOUS
<1>5. PICK v1, v2 : v1 = (refused # {}) /\ v2 = k.spoken \o Ordered(T)
  OBVIOUS
<1> DEFINE r == [k EXCEPT !.at = "closed", !.dropped = v1, !.spoken = v2]
<1>6. talk' = [talk EXCEPT ![t] = r]
  BY <1>1, <1>3, <1>4, <1>5
<1>7. r.at = "closed" /\ r.dropped = v1 /\ r.spoken = v2 /\ Same(r, k, {"at", "dropped", "spoken"})
  BY <1>2 DEF TalkOK, TalkFields, Same
<1> HIDE DEF r
<1>8. r.revised = k.revised /\ r.overtaken = k.overtaken /\ r.said = k.said
  BY <1>7 DEF Same, TalkFields
<1>9. SpokenOK(r, p)
  <2> SUFFICES ASSUME ~r.revised, ~r.overtaken
               PROVE  SaidInOrder(r) /\ RestOK(r)
    BY <1>7 DEF SpokenOK, OpenStages
  <2>1. Counts(k.spoken) /\ RestOK(k)
    BY <1>2, <1>8 DEF SpokenOK, SaidInOrder
  <2>2. PICK s : s = k.spoken /\ Counts(s)
    BY <2>1
  <2>3. PICK L \in Nat, S \in Nat : L = Len(s) /\ S = k.said * Pieces
    <3>1. k.said \in Nat
      BY <1>2 DEF TalkOK
    <3>2. k.said * Pieces \in Nat
      BY <3>1, PieceSteps
    <3>3. Len(s) \in Nat
      BY <2>2 DEF Counts
    <3> QED BY <3>2, <3>3
  <2>4. L <= S /\ rest = L + 1 .. S
    BY <1>2, <1>3, <2>1, <2>2, <2>3 DEF RestOK
  <2>5. CASE refused = {}
    <3>1. T = L + 1 .. S /\ S - L \in Nat
      BY <1>4, <2>3, <2>4, <2>5
    <3>2. Ordered(T) = [i \in 1 .. S - L |-> L + i]
      BY <2>3, <2>4, <3>1, OrderedInterval
    <3>3. PICK o : o = Ordered(T)
      OBVIOUS
    <3>4. o \in Seq(Nat) /\ Len(o) = S - L /\ \A i \in 1 .. S - L : o[i] = L + i
      BY <2>3, <3>1, <3>2, <3>3
    <3>5. SubSeq(o, 1, S - L) = o
      BY <3>4
    <3>6. Counts(s \o o) /\ Len(s \o o) = S
      <4>1. S - L \in 0 .. Len(o) /\ L + (S - L) = S
        BY <2>3, <3>1, <3>4
      <4>2. \A i \in 1 .. S - L : o[i] = Len(s) + i
        BY <2>3, <3>4
      <4>3. /\ Counts(s \o SubSeq(o, 1, S - L))
            /\ Len(s \o SubSeq(o, 1, S - L)) = Len(s) + (S - L)
        BY <2>2, <3>4, <4>1, <4>2, CountsOn
      <4> QED BY <2>3, <3>5, <4>1, <4>3
    <3>7. r.spoken = s \o o /\ r.dropped = FALSE
      BY <1>5, <1>7, <2>2, <2>5, <3>3
    <3> QED BY <1>7, <1>8, <2>3, <3>6, <3>7 DEF RestOK, SaidInOrder
  <2>6. CASE refused # {}
    <3>1. T \in SUBSET Nat /\ T \in SUBSET (L + 1 .. S) /\ \A x \in T : L < x
      BY <1>4, <2>3, <2>4
    <3>2. IsFiniteSet(T)
      <4>1. IsFiniteSet(L + 1 .. S)
        <5>1. L + 1 \in Int /\ S \in Int
          BY <2>3
        <5> QED BY <5>1, FS_Interval
      <4> QED BY <3>1, <4>1, FS_Subset
    <3>3. Rises(s \o Ordered(T))
      BY <2>2, <2>3, <3>1, <3>2, RisesOn
    <3>4. r.spoken = s \o Ordered(T) /\ r.dropped = TRUE
      BY <1>5, <1>7, <2>2, <2>6
    <3> QED BY <1>7, <3>3, <3>4 DEF RestOK, SaidInOrder
  <2> QED BY <2>5, <2>6
<1>10. talk'[t] = r /\ \A u \in TurnIds \ {t} : talk'[u] = talk[u]
  BY <1>2, <1>6
<1> QED BY <1>1, <1>2, <1>9, <1>10, SpokenMoves

\* Every step of the turns keeps the account of what was spoken.
LEMMA SpokenStepInv == TurnInv /\ SpokenInv /\ [TurnsNext]_turnVars => SpokenInv'
<1> SUFFICES ASSUME TurnInv, SpokenInv, [TurnsNext]_turnVars PROVE SpokenInv'
  OBVIOUS
<1>1. CASE CloseActive
  <2>1. capture \in TurnIds /\ Discarded(capture, "discarded") /\ phrase' = phrase
    BY <1>1 DEF CloseActive, TurnInv, QueuesOK
  <2> QED BY <2>1, DiscardedSpoken
<1>2. CASE SwitchMode \/ EndLoop \/ RuntimeEnds \/ (\E t \in TurnIds : BillLate(t)) \/ UNCHANGED turnVars
  <2>1. talk' = talk /\ phrase' = phrase
    BY <1>2 DEF SwitchMode, EndLoop, RuntimeEnds, BillLate, turnVars
  <2> QED BY <2>1 DEF SpokenInv
<1>3. CASE FinishSpeech
  BY <1>3, FinishSpeechSpoken
<1>4. CASE TakeFinal
  BY <1>4, TakeFinalSpoken
<1>5. ASSUME NEW t \in TurnIds,
             \/ StartAudio(t) \/ Say(t) \/ ObservePhrase(t) \/ TimerTakes(t) \/ TimerPublishes(t)
             \/ EndSpeech(t)
      PROVE  SpokenInv'
  BY <1>5, StartAudioSpoken, ListenSpoken, PublishSpoken
<1>6. ASSUME NEW t \in TurnIds, NEW n \in Segments, Answered(t, n) \/ Admit(t, n) \/ PhraseDone(t, n)
      PROVE  SpokenInv'
  BY <1>6, CallSpoken, AdmitSpoken
<1>7. ASSUME NEW t \in TurnIds,
             Finalize(t) \/ TranslateRest(t) \/ CommitTalk(t) \/ BillTurn(t) \/ SpeakRest(t)
      PROVE  SpokenInv'
  BY <1>7, FinalizeSpoken, SettleSpoken, SpeakRestSpoken
<1> QED BY <1>1, <1>2, <1>3, <1>4, <1>5, <1>6, <1>7 DEF TurnsNext

\* Nothing is spoken at first.
LEMMA SpokenInit == TurnsInit => SpokenInv
<1> SUFFICES ASSUME TurnsInit, NEW t \in TurnIds PROVE SpokenOK(talk[t], phrase[t])
  BY DEF SpokenInv
<1>1. PICK k : k = talk[t]
  OBVIOUS
<1>2. /\ k.at = "new" /\ k.next = 1 /\ k.failed = FALSE /\ k.left = {} /\ k.spoken = <<>>
      /\ k.dropped = FALSE
  BY <1>1 DEF TurnsInit
<1>3. Counts(k.spoken) /\ SaidInOrder(k) /\ Len(k.spoken) = 0
  BY <1>2 DEF Counts, SaidInOrder
<1>4. RestOK(k)
  BY <1>2 DEF RestOK
<1>5. \A m \in Segments : ~(m < 1)
  BY DEF Segments
<1>6. (k.next - 1) * Pieces = 0 /\ k.next \in 1 .. MaxSegments + 1 /\ Len(k.spoken) <= (k.next - 1) * Pieces
  BY <1>2, <1>3, TurnsAssumption
<1>7. LiveOK(k, phrase[t])
  <2>1. \A m \in Segments : ~(m < k.next)
    BY <1>2, <1>5
  <2> QED BY <1>2, <1>3, <1>6, <2>1 DEF LiveOK
<1> QED BY <1>1, <1>2, <1>3, <1>4, <1>7 DEF SpokenOK

\* SpokenInOrder: what is spoken of a turn follows its text piece by piece and never
\* twice, and a turn that is committed to be spoken is spoken whole, although phrases
\* are answered in any order, fail or are refused and the rest comes from the settlement;
\* of a rest that loses chunks, what is spoken still ascends.
THEOREM SpokenInOrderHolds == TurnsSpec => []SpokenInOrder
<1>1. TurnsInit => SpokenInv
  BY SpokenInit
<1>2. TurnInv /\ SpokenInv /\ [TurnsNext]_turnVars => SpokenInv'
  BY SpokenStepInv
<1>3. SpokenInv => SpokenInOrder
  <2> SUFFICES ASSUME SpokenInv, NEW t \in TurnIds, ~talk[t].revised, ~talk[t].overtaken
               PROVE  /\ Rises(talk[t].spoken)
                      /\ talk[t].at = "closed" /\ talk[t].end = "committed" /\ talk[t].aloud /\ ~talk[t].dropped =>
                            Len(talk[t].spoken) = talk[t].said * Pieces
    BY DEF SpokenInOrder
  <2>1. SaidInOrder(talk[t]) /\ RestOK(talk[t])
    BY DEF SpokenInv, SpokenOK
  <2> QED BY <2>1, CountsRises DEF RestOK, SaidInOrder
<1> QED BY <1>1, <1>2, <1>3, TurnsInvariant, PTL DEF TurnsSpec
=============================================================================
