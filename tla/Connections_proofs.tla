-------------------------- MODULE Connections_proofs --------------------------
(***************************************************************************)
(* No Close leaves a peer connection behind: whatever Opens and Closes of  *)
(* one session interleave, and whichever of their steps fail, an open      *)
(* transport can be reached by the next Close or is in the hands of its    *)
(* Open, for every number of them.                                         *)
(* And of the fallback playback of turns, which another process asks for:  *)
(* what is marked as played was heard.                                     *)
(***************************************************************************)
EXTENDS Connections, AutomaticOutput, TLAPS

-----------------------------------------------------------------------------
(* The types of the variables, and what holds between the steps of a call.    *)

OpenRecord ==
    [at : {"idle", "refused", "reserve", "join", "create", "attach", "answer", "discard", "opened"},
     key : OfferKeys \cup {"none"}, gen : Opens \cup {NoOpen}, conn : Opens \cup {NoOpen}]
CloserRecord ==
    [at : {"idle", "wait", "again", "close", "finish ok", "finish error", "closed", "error"},
     gen : Opens \cup {NoOpen}, waits : Closers \cup {0}]
GenerationRecord == [closer : Closers \cup {0}, closed : BOOLEAN, record : Opens \cup {NoOpen}]
ConnectionRecord == [opening : BOOLEAN, failed : BOOLEAN, attached : BOOLEAN]
TransportRecord == [state : {"none", "open", "closed"}, closeErr : BOOLEAN]

ConnectionTypes ==
    /\ opens \in [Opens -> OpenRecord] /\ closers \in [Closers -> CloserRecord]
    /\ registered \in Opens \cup {NoOpen}
    /\ generations \in [Opens -> GenerationRecord] /\ records \in [Opens -> ConnectionRecord]
    /\ transports \in [Opens -> TransportRecord]

\* The stages of an Open that has made a connection and not returned yet.
Making == {"create", "attach", "answer"}

\* A generation that nobody closed is the registered one, and has the record of
\* an Open of its own.
GenerationOK(g) ==
    LET c == generations[g].record IN
    /\ opens[g].at = "idle" => ~generations[g].closed /\ generations[g].closer = 0 /\ registered # g
    /\ c # NoOpen => /\ registered = g /\ ~generations[g].closed
                     /\ opens[c].gen = g /\ opens[c].conn = c
                     /\ opens[c].at \in {"create", "attach"} \/ records[c].attached
                     /\ opens[c].at \in Making => records[c].opening

OpenOK(o) ==
    LET x == opens[o] IN
    /\ x.at = "idle" => \A g \in Opens : generations[g].record # o
    /\ x.at \notin {"idle", "refused"} => x.gen \in Opens
    /\ x.gen # NoOpen => registered = x.gen \/ generations[x.gen].closed
    /\ x.at = "reserve" => \A g \in Opens : generations[g].record # o
    /\ x.at \in Making => x.conn = o
    /\ x.at \in {"idle", "reserve", "create"} => transports[o].state = "none"
    /\ x.at \in {"idle", "reserve", "create", "attach"} => ~records[o].attached
    /\ x.at = "join" => x.conn \in Opens
    /\ records[o].opening => x.at \in Making /\ generations[x.gen].record = o
    /\ x.at = "answer" => records[o].opening \/ transports[o].state = "closed"

CloserOK(k) ==
    LET x == closers[k] IN
    /\ x.at \in {"close", "finish ok", "finish error"} =>
          x.gen \in Opens /\ registered = x.gen /\ generations[x.gen].closer = k
    /\ x.at = "finish ok" => generations[x.gen].closed

ConnectionInv ==
    /\ ConnectionTypes
    /\ \A g \in Opens : GenerationOK(g)
    /\ \A o \in Opens : OpenOK(o)
    /\ \A k \in Closers : CloserOK(k)
    /\ TransportsOwned

\* Every initial state satisfies the invariant of the peer connections.
LEMMA ConnectionsInitInv == ConnectionsInit => ConnectionInv
<1> SUFFICES ASSUME ConnectionsInit PROVE ConnectionInv
  OBVIOUS
<1>0. NoOpen \notin Opens
  BY ConnectionsAssumption DEF NoOpen, Opens
<1>1. opens \in [Opens -> OpenRecord] /\ \A o \in Opens : opens[o].at = "idle" /\ opens[o].gen = NoOpen
  BY DEF ConnectionsInit, OpenRecord
<1>2. closers \in [Closers -> CloserRecord] /\ \A k \in Closers : closers[k].at = "idle"
  BY DEF ConnectionsInit, CloserRecord
<1>3. /\ generations \in [Opens -> GenerationRecord]
      /\ \A g \in Opens : generations[g].record = NoOpen /\ ~generations[g].closed /\ generations[g].closer = 0
  BY DEF ConnectionsInit, GenerationRecord
<1>4. records \in [Opens -> ConnectionRecord] /\ \A o \in Opens : ~records[o].opening /\ ~records[o].attached
  BY DEF ConnectionsInit, ConnectionRecord
<1>5. transports \in [Opens -> TransportRecord] /\ \A o \in Opens : transports[o].state = "none"
  BY DEF ConnectionsInit, TransportRecord
<1>6. registered = NoOpen
  BY DEF ConnectionsInit
<1>7. ConnectionTypes
  BY <1>1, <1>2, <1>3, <1>4, <1>5, <1>6 DEF ConnectionTypes
<1>8. \A g \in Opens : GenerationOK(g)
  BY <1>0, <1>3, <1>6 DEF GenerationOK
<1>9. \A o \in Opens : OpenOK(o)
  BY <1>0, <1>1, <1>3, <1>4, <1>5 DEF OpenOK, Making
<1>10. \A k \in Closers : CloserOK(k)
  BY <1>2 DEF CloserOK
<1>11. TransportsOwned
  BY <1>5 DEF TransportsOwned
<1> QED BY <1>7, <1>8, <1>9, <1>10, <1>11 DEF ConnectionInv

\* No Open and no Close bears the number of nobody.
LEMMA OpenNumbers == NoOpen \notin Opens /\ 0 \notin Closers
BY ConnectionsAssumption DEF NoOpen, Opens, Closers

\* Moving an Open on writes nothing but where it is.
LEMMA OpenMoves ==
  ASSUME ConnectionInv, NEW o \in Opens,
         NEW at \in {"refused", "join", "create", "attach", "answer", "discard", "opened"}, OpenAt(o, at)
  PROVE  /\ opens' \in [Opens -> OpenRecord] /\ \A p \in Opens : p # o => opens'[p] = opens[p]
         /\ opens'[o].at = at /\ opens'[o].gen = opens[o].gen /\ opens'[o].conn = opens[o].conn
<1> DEFINE r == [opens[o] EXCEPT !.at = at]
<1>1. opens' = [opens EXCEPT ![o] = r] /\ opens \in [Opens -> OpenRecord]
  BY DEF OpenAt, ConnectionInv, ConnectionTypes
<1>2. r \in OpenRecord /\ r.at = at /\ r.gen = opens[o].gen /\ r.conn = opens[o].conn
  BY <1>1 DEF OpenRecord
<1> HIDE DEF r
<1> QED BY <1>1, <1>2

\* Moving a Close on writes nothing but where it is.
LEMMA CloserMoves ==
  ASSUME ConnectionInv, NEW k \in Closers,
         NEW at \in {"again", "finish ok", "finish error", "closed", "error"}, CloserAt(k, at)
  PROVE  /\ closers' \in [Closers -> CloserRecord] /\ \A l \in Closers : l # k => closers'[l] = closers[l]
         /\ closers'[k].at = at /\ closers'[k].gen = closers[k].gen
<1> DEFINE r == [closers[k] EXCEPT !.at = at]
<1>1. closers' = [closers EXCEPT ![k] = r] /\ closers \in [Closers -> CloserRecord]
  BY DEF CloserAt, ConnectionInv, ConnectionTypes
<1>2. r \in CloserRecord /\ r.at = at /\ r.gen = closers[k].gen
  BY <1>1 DEF CloserRecord
<1> HIDE DEF r
<1> QED BY <1>1, <1>2

\* An Open finds the session's generation, or makes it.
LEMMA GetOrCreateStep == ASSUME ConnectionInv, NEW o \in Opens, GetOrCreate(o) PROVE ConnectionInv'
<1>1. opens[o].at = "idle" /\ UNCHANGED <<closers, generations, records, transports>>
  BY DEF GetOrCreate
<1>2. CASE OpenAt(o, "refused") /\ UNCHANGED registered
  <2>1. /\ opens' \in [Opens -> OpenRecord] /\ \A p \in Opens : p # o => opens'[p] = opens[p]
        /\ opens'[o].at = "refused" /\ opens'[o].gen = opens[o].gen
    BY <1>2, OpenMoves
  <2>2. ConnectionTypes'
    BY <1>1, <1>2, <2>1 DEF ConnectionInv, ConnectionTypes
  <2>3. \A g \in Opens : GenerationOK(g)'
    <3> SUFFICES ASSUME NEW g \in Opens PROVE GenerationOK(g)'
      OBVIOUS
    <3>1. generations[g].record \in Opens \cup {NoOpen} /\ generations[g].record # o
      BY <1>1 DEF ConnectionInv, ConnectionTypes, GenerationRecord, OpenOK
    <3>2. opens'[g].at = "idle" => opens[g].at = "idle"
      BY <2>1
    <3> QED BY <1>1, <1>2, <2>1, <3>1, <3>2 DEF ConnectionInv, GenerationOK
  <2>4. \A p \in Opens : OpenOK(p)'
    BY <1>1, <1>2, <2>1 DEF ConnectionInv, OpenOK, Making
  <2>5. \A k \in Closers : CloserOK(k)'
    BY <1>1, <1>2 DEF ConnectionInv, CloserOK
  <2>6. TransportsOwned'
    BY <1>1, <1>2, <2>1 DEF ConnectionInv, TransportsOwned, OpenOK
  <2> QED BY <2>2, <2>3, <2>4, <2>5, <2>6 DEF ConnectionInv
<1>3. ASSUME NEW k \in OfferKeys,
             registered' = IF registered = NoOpen THEN o ELSE registered,
             opens' = [opens EXCEPT ![o].at = "reserve", ![o].key = k, ![o].gen = registered']
      PROVE  ConnectionInv'
  <2>1. PICK q \in OpenRecord, g \in Opens : q = opens[o] /\ g = registered' /\ (registered # NoOpen => g = registered)
    BY <1>3 DEF ConnectionInv, ConnectionTypes
  <2> DEFINE r == [q EXCEPT !.at = "reserve", !.key = k, !.gen = g]
  <2>2. opens' = [opens EXCEPT ![o] = r]
    BY <1>3, <2>1
  <2>3. r \in OpenRecord /\ r.at = "reserve" /\ r.gen = g
    BY DEF OpenRecord
  <2> HIDE DEF r
  <2>4. opens' \in [Opens -> OpenRecord] /\ \A p \in Opens : opens'[p] = IF p = o THEN r ELSE opens[p]
    BY <2>2, <2>3 DEF ConnectionInv, ConnectionTypes
  <2>5. ConnectionTypes'
    BY <1>1, <2>1, <2>4 DEF ConnectionInv, ConnectionTypes
  <2>6. \A h \in Opens : GenerationOK(h)'
    <3> SUFFICES ASSUME NEW h \in Opens PROVE GenerationOK(h)'
      OBVIOUS
    <3>1. opens'[h].at = "idle" => registered' # h
      BY <1>3, <2>3, <2>4 DEF ConnectionInv, GenerationOK
    <3>2. generations[h].record # o
      BY <1>1 DEF ConnectionInv, OpenOK
    <3>3. generations[h].record # NoOpen => registered' = h
      BY <1>3, OpenNumbers DEF ConnectionInv, GenerationOK
    <3>4. generations[h].record \in Opens \cup {NoOpen}
      BY DEF ConnectionInv, ConnectionTypes, GenerationRecord
    <3> QED BY <1>1, <2>3, <2>4, <3>1, <3>2, <3>3, <3>4 DEF ConnectionInv, GenerationOK
  <2>7. \A p \in Opens : OpenOK(p)'
    <3>1. OpenOK(o)'
      BY <1>1, <2>1, <2>3, <2>4 DEF ConnectionInv, OpenOK, Making
    <3>2. \A p \in Opens : p # o => OpenOK(p)'
      BY <1>1, <1>3, <2>4 DEF ConnectionInv, OpenOK
    <3> QED BY <3>1, <3>2
  <2>8. \A l \in Closers : CloserOK(l)'
    <3> SUFFICES ASSUME NEW l \in Closers PROVE CloserOK(l)'
      OBVIOUS
    <3>1. closers[l].at \in {"close", "finish ok", "finish error"} => registered \in Opens
      BY DEF ConnectionInv, CloserOK
    <3>2. registered \in Opens => registered' = registered
      BY <1>3, OpenNumbers
    <3>3. CloserOK(l)
      BY DEF ConnectionInv
    <3> QED BY <1>1, <3>1, <3>2, <3>3 DEF CloserOK
  <2>9. TransportsOwned'
    BY <1>1, <1>3, <2>3, <2>4 DEF ConnectionInv, TransportsOwned, OpenOK
  <2> QED BY <2>5, <2>6, <2>7, <2>8, <2>9 DEF ConnectionInv
<1>4. CASE \E k \in OfferKeys :
              /\ registered' = IF registered = NoOpen THEN o ELSE registered
              /\ opens' = [opens EXCEPT ![o].at = "reserve", ![o].key = k, ![o].gen = registered']
  BY <1>3, <1>4
<1> QED BY <1>2, <1>4 DEF GetOrCreate

\* A record that is there is that of the Open which made it.
LEMMA RecordOwn ==
  ASSUME ConnectionInv, NEW g \in Opens, generations[g].record # NoOpen
  PROVE  /\ generations[g].record \in Opens /\ registered = g /\ ~generations[g].closed
         /\ opens[generations[g].record].gen = g /\ opens[generations[g].record].conn = generations[g].record
BY DEF ConnectionInv, ConnectionTypes, GenerationRecord, GenerationOK

\* An Open that only moves on, out of the way of its record, keeps the invariant.
LEMMA OpenStays ==
  ASSUME ConnectionInv, NEW o \in Opens, NEW r \in OpenRecord, opens' = [opens EXCEPT ![o] = r],
         UNCHANGED <<closers, registered, generations>>,
         opens[o].at \notin {"idle", "refused"}, r.at \in {"refused", "join", "opened"}, r.gen = opens[o].gen,
         r.at = "join" => r.conn \in Opens,
         records' \in [Opens -> ConnectionRecord], transports' \in [Opens -> TransportRecord],
         ~records'[o].opening, records'[o].attached = records[o].attached,
         transports'[o].state = "open" =>
             transports[o].state = "open" /\ opens[o].at \notin {"attach", "discard"},
         \A p \in Opens : p # o => records'[p] = records[p] /\ transports'[p] = transports[p],
         \A g \in Opens : generations[g].record = o =>
             r.conn = opens[o].conn /\ opens[o].at \notin {"create", "attach"}
  PROVE  ConnectionInv'
<1>1. opens' \in [Opens -> OpenRecord] /\ \A p \in Opens : opens'[p] = IF p = o THEN r ELSE opens[p]
  BY DEF ConnectionInv, ConnectionTypes
<1>2. ConnectionTypes'
  BY <1>1 DEF ConnectionInv, ConnectionTypes
<1>3. \A g \in Opens : GenerationOK(g)'
  <2> SUFFICES ASSUME NEW g \in Opens PROVE GenerationOK(g)'
    OBVIOUS
  <2>1. CASE generations[g].record = NoOpen
    BY <1>1, <2>1 DEF ConnectionInv, GenerationOK
  <2>2. CASE generations[g].record # NoOpen
    <3>1. generations[g].record \in Opens
      BY <2>2, RecordOwn
    <3> QED BY <1>1, <2>2, <3>1 DEF ConnectionInv, GenerationOK, Making
  <2> QED BY <2>1, <2>2
<1>4. \A p \in Opens : OpenOK(p)'
  <2>1. OpenOK(o)'
    BY <1>1 DEF ConnectionInv, OpenOK, Making
  <2>2. \A p \in Opens : p # o => OpenOK(p)'
    BY <1>1 DEF ConnectionInv, OpenOK
  <2> QED BY <2>1, <2>2
<1>5. \A k \in Closers : CloserOK(k)'
  BY DEF ConnectionInv, CloserOK
<1>6. TransportsOwned'
  BY <1>1 DEF ConnectionInv, TransportsOwned
<1> QED BY <1>2, <1>3, <1>4, <1>5, <1>6 DEF ConnectionInv

\* An Open reserves the session's connection, joins it, or is refused.
LEMMA ReserveStep == ASSUME ConnectionInv, NEW o \in Opens, Reserve(o) PROVE ConnectionInv'
<1> DEFINE g == opens[o].gen
           c == generations[g].record
<1>1. opens[o].at = "reserve" /\ UNCHANGED <<closers, registered, transports>> /\ opens \in [Opens -> OpenRecord]
  BY DEF Reserve, ConnectionInv, ConnectionTypes
<1>2. /\ g \in Opens /\ c \in Opens \cup {NoOpen} /\ ~records[o].opening
      /\ transports[o].state = "none" /\ ~records[o].attached
      /\ \A h \in Opens : generations[h].record # o
      /\ records \in [Opens -> ConnectionRecord] /\ transports \in [Opens -> TransportRecord]
  BY <1>1 DEF ConnectionInv, ConnectionTypes, OpenOK, GenerationRecord, Making
<1>3. CASE OpenAt(o, "refused") /\ UNCHANGED <<generations, records>>
  <2> DEFINE r == [opens[o] EXCEPT !.at = "refused"]
  <2>1. opens' = [opens EXCEPT ![o] = r]
    BY <1>1, <1>3 DEF OpenAt
  <2>2. r \in OpenRecord /\ r.at = "refused" /\ r.gen = g
    BY <1>1 DEF OpenRecord
  <2> HIDE DEF r
  <2> QED BY <1>1, <1>2, <1>3, <2>1, <2>2, OpenStays
<1>4. CASE /\ c # NoOpen
           /\ opens' = [opens EXCEPT
                ![o].at = IF opens[c].key # opens[o].key THEN "refused" ELSE "join",
                ![o].conn = c]
           /\ UNCHANGED <<generations, records>>
  <2>1. PICK q \in OpenRecord, d \in Opens, at \in {"refused", "join"} :
            q = opens[o] /\ d = c /\ at = IF opens[c].key # opens[o].key THEN "refused" ELSE "join"
    BY <1>1, <1>2, <1>4
  <2> DEFINE r == [q EXCEPT !.at = at, !.conn = d]
  <2>2. opens' = [opens EXCEPT ![o] = r]
    BY <1>1, <1>4, <2>1
  <2>3. r \in OpenRecord /\ r.at = at /\ r.gen = q.gen /\ r.conn = d
    BY DEF OpenRecord
  <2> HIDE DEF r
  <2>4. r \in OpenRecord /\ r.at \in {"refused", "join", "opened"} /\ r.gen = opens[o].gen /\ r.conn \in Opens
    BY <2>1, <2>3
  <2>5. UNCHANGED <<closers, registered, generations, records, transports>>
    BY <1>1, <1>4
  <2> QED BY <1>1, <1>2, <2>2, <2>4, <2>5, OpenStays
<1>5. CASE /\ ~generations[g].closed /\ c = NoOpen
           /\ opens' = [opens EXCEPT ![o].at = "create", ![o].conn = o]
           /\ generations' = [generations EXCEPT ![g].record = o]
           /\ records' = [records EXCEPT ![o].opening = TRUE]
  <2>1. PICK q \in OpenRecord, h \in Opens : q = opens[o] /\ h = g
    BY <1>1, <1>2
  <2> DEFINE r == [q EXCEPT !.at = "create", !.conn = o]
  <2>2. opens' = [opens EXCEPT ![o] = r]
    BY <1>1, <1>5, <2>1
  <2>3. r \in OpenRecord /\ r.at = "create" /\ r.gen = h /\ r.conn = o
    BY <2>1 DEF OpenRecord
  <2> HIDE DEF r
  <2>4. opens' \in [Opens -> OpenRecord] /\ \A p \in Opens : opens'[p] = IF p = o THEN r ELSE opens[p]
    BY <1>1, <2>2, <2>3
  <2>5. /\ generations' \in [Opens -> GenerationRecord] /\ generations'[h].record = o
        /\ \A f \in Opens : /\ f # h => generations'[f] = generations[f]
                            /\ generations'[f].closed = generations[f].closed
                            /\ generations'[f].closer = generations[f].closer
    BY <1>5, <2>1 DEF ConnectionInv, ConnectionTypes, GenerationRecord
  <2>6. /\ records' \in [Opens -> ConnectionRecord] /\ records'[o].opening
        /\ \A p \in Opens : (p # o => records'[p] = records[p]) /\ records'[p].attached = records[p].attached
    BY <1>5 DEF ConnectionInv, ConnectionTypes, ConnectionRecord
  <2>7. registered = h /\ ~generations[h].closed /\ \A f \in Opens : generations[f].record = NoOpen
    <3>1. registered = h
      BY <1>1, <1>5, <2>1, OpenNumbers DEF ConnectionInv, OpenOK
    <3> QED BY <1>5, <2>1, <3>1, RecordOwn
  <2>8. ConnectionTypes'
    BY <1>1, <2>4, <2>5, <2>6 DEF ConnectionInv, ConnectionTypes
  <2>9. \A f \in Opens : GenerationOK(f)'
    <3>1. \A f \in Opens : f # h => generations'[f].record = NoOpen
      BY <2>5, <2>7
    <3>2. \A f \in Opens : opens'[f].at = "idle" => opens[f].at = "idle"
      BY <2>3, <2>4
    <3>3. opens'[h].at # "idle"
      BY <2>7, <3>2 DEF ConnectionInv, GenerationOK
    <3> QED BY <1>1, <2>3, <2>4, <2>5, <2>6, <2>7, <3>1, <3>2, <3>3 DEF ConnectionInv, GenerationOK
  <2>10. \A p \in Opens : OpenOK(p)'
    <3>1. OpenOK(o)'
      BY <1>1, <1>2, <2>3, <2>4, <2>5, <2>6, <2>7 DEF OpenOK, Making
    <3>2. \A p \in Opens : p # o => OpenOK(p)'
      <4> SUFFICES ASSUME NEW p \in Opens, p # o PROVE OpenOK(p)'
        OBVIOUS
      <4>1. ~records[p].opening
        BY <2>7, OpenNumbers DEF ConnectionInv, ConnectionTypes, OpenRecord, OpenOK, Making
      <4>2. \A f \in Opens : generations'[f].record # p
        BY <2>5, <2>7, OpenNumbers
      <4>3. opens[p].gen \in Opens \cup {NoOpen}
        BY DEF ConnectionInv, ConnectionTypes, OpenRecord
      <4> QED BY <1>1, <2>4, <2>5, <2>6, <4>1, <4>2, <4>3 DEF ConnectionInv, OpenOK
    <3> QED BY <3>1, <3>2
  <2>11. \A k \in Closers : CloserOK(k)'
    BY <1>1, <2>5 DEF ConnectionInv, CloserOK
  <2>12. TransportsOwned'
    BY <1>1, <1>2, <2>4, <2>7, OpenNumbers DEF ConnectionInv, TransportsOwned
  <2> QED BY <2>8, <2>9, <2>10, <2>11, <2>12 DEF ConnectionInv
<1> QED BY <1>3, <1>4, <1>5 DEF Reserve

\* The record of an Open that is being made, and only that, is the open one.
LEMMA MakingRecord ==
  ASSUME ConnectionInv, NEW o \in Opens, opens[o].at \in Making
  PROVE  /\ opens[o].gen \in Opens /\ opens[o].conn = o /\ opens[o] \in OpenRecord
         /\ records[o].opening <=> generations[opens[o].gen].record = o
         /\ \A g \in Opens : g # opens[o].gen => generations[g].record # o
         /\ Present(o) <=> records[o].opening
<1>1. opens[o].gen \in Opens /\ opens[o].conn = o /\ opens[o] \in OpenRecord
  BY DEF ConnectionInv, ConnectionTypes, OpenOK, Making
<1>2. records[o].opening => generations[opens[o].gen].record = o
  BY DEF ConnectionInv, OpenOK
<1>3. \A g \in Opens : generations[g].record = o => g = opens[o].gen /\ records[o].opening /\ ~generations[g].closed
  BY OpenNumbers DEF ConnectionInv, GenerationOK
<1>4. Present(o) <=> ~generations[opens[o].gen].closed /\ generations[opens[o].gen].record = o
  BY <1>1 DEF Present
<1> QED BY <1>1, <1>2, <1>3, <1>4

\* A failing Open gives its reservation back, and its transport is closed or
\* about to be.
LEMMA Unreserved ==
  ASSUME ConnectionInv, NEW o \in Opens, opens[o].at \in Making, Unreserve(o),
         NEW at \in {"refused", "discard"}, OpenAt(o, at), at = "discard" \/ transports[o].state # "open",
         UNCHANGED <<closers, registered, transports>>
  PROVE  ConnectionInv'
<1>1. PICK g \in Opens : g = opens[o].gen
  BY MakingRecord
<1>2. /\ opens' \in [Opens -> OpenRecord] /\ \A p \in Opens : p # o => opens'[p] = opens[p]
      /\ opens'[o].at = at /\ opens'[o].gen = g
  BY <1>1, OpenMoves
<1>3. /\ records' \in [Opens -> ConnectionRecord] /\ ~records'[o].opening
      /\ \A p \in Opens : p # o => records'[p] = records[p]
  <2>1. PICK q \in ConnectionRecord : q = records[o]
    BY DEF ConnectionInv, ConnectionTypes
  <2> DEFINE r == [q EXCEPT !.opening = FALSE, !.failed = TRUE]
  <2>2. records' = [records EXCEPT ![o] = r]
    BY <2>1 DEF Unreserve
  <2>3. r \in ConnectionRecord /\ ~r.opening
    BY DEF ConnectionRecord
  <2> HIDE DEF r
  <2> QED BY <2>2, <2>3 DEF ConnectionInv, ConnectionTypes
<1>4. /\ generations' \in [Opens -> GenerationRecord]
      /\ \A f \in Opens : /\ generations'[f].record # o
                          /\ generations'[f].closed = generations[f].closed
                          /\ generations'[f].closer = generations[f].closer
                          /\ IF generations[f].record = o THEN generations'[f].record = NoOpen
                             ELSE generations'[f].record = generations[f].record
  <2>1. CASE records[o].opening
    <3>1. generations' = [generations EXCEPT ![g].record = NoOpen] /\ generations[g].record = o
      BY <1>1, <2>1, MakingRecord DEF Unreserve
    <3>2. \A f \in Opens : f # g => generations[f].record # o
      BY <1>1, MakingRecord
    <3> QED BY <3>1, <3>2, OpenNumbers DEF ConnectionInv, ConnectionTypes, GenerationRecord
  <2>2. CASE ~records[o].opening
    BY <1>1, <2>2, MakingRecord DEF Unreserve, ConnectionInv, ConnectionTypes
  <2> QED BY <2>1, <2>2
<1>5. ConnectionTypes'
  BY <1>2, <1>3, <1>4 DEF ConnectionInv, ConnectionTypes
<1>6. \A f \in Opens : GenerationOK(f)'
  <2> SUFFICES ASSUME NEW f \in Opens PROVE GenerationOK(f)'
    OBVIOUS
  <2>1. opens'[f].at = "idle" => opens[f].at = "idle"
    BY <1>2 DEF Making
  <2>2. CASE generations'[f].record = NoOpen
    BY <1>4, <2>1, <2>2 DEF ConnectionInv, GenerationOK
  <2>3. CASE generations'[f].record # NoOpen
    <3>1. /\ generations'[f].record = generations[f].record /\ generations[f].record \in Opens
          /\ generations[f].record # o
      BY <1>4, <2>3, RecordOwn
    <3> QED BY <1>2, <1>3, <1>4, <2>1, <2>3, <3>1 DEF ConnectionInv, GenerationOK
  <2> QED BY <2>2, <2>3
<1>7. \A p \in Opens : OpenOK(p)'
  <2>1. OpenOK(o)'
    <3>1. registered = g \/ generations[g].closed
      BY <1>1, OpenNumbers DEF ConnectionInv, OpenOK
    <3> QED BY <1>2, <1>3, <1>4, <3>1 DEF OpenOK, Making
  <2>2. \A p \in Opens : p # o => OpenOK(p)'
    <3> SUFFICES ASSUME NEW p \in Opens, p # o PROVE OpenOK(p)'
      OBVIOUS
    <3>1. opens[p].gen \in Opens \cup {NoOpen}
      BY DEF ConnectionInv, ConnectionTypes, OpenRecord
    <3>2. \A f \in Opens : generations'[f].record = p <=> generations[f].record = p
      BY <1>4, OpenNumbers
    <3>3. records[p].opening => opens[p].gen \in Opens
      BY DEF ConnectionInv, OpenOK, Making
    <3> QED BY <1>2, <1>3, <1>4, <3>1, <3>2, <3>3 DEF ConnectionInv, OpenOK
  <2> QED BY <2>1, <2>2
<1>8. \A k \in Closers : CloserOK(k)'
  BY <1>4 DEF ConnectionInv, CloserOK
<1>9. TransportsOwned'
  <2> SUFFICES ASSUME NEW p \in Opens, transports[p].state = "open", opens'[p].at \notin {"attach", "discard"}
               PROVE  registered # NoOpen /\ generations'[registered].record = p
    BY DEF TransportsOwned
  <2>1. p # o
    BY <1>2
  <2>2. registered # NoOpen /\ generations[registered].record = p
    BY <1>2, <2>1 DEF ConnectionInv, TransportsOwned
  <2>3. registered \in Opens
    BY <2>2 DEF ConnectionInv, ConnectionTypes
  <2> QED BY <1>4, <2>1, <2>2, <2>3
<1> QED BY <1>5, <1>6, <1>7, <1>8, <1>9 DEF ConnectionInv

\* A transport is created, or the reservation goes.
LEMMA CreateStep == ASSUME ConnectionInv, NEW o \in Opens, CreateTransport(o) PROVE ConnectionInv'
<1>1. opens[o].at = "create" /\ opens[o].at \in Making /\ transports[o].state = "none"
      /\ UNCHANGED <<closers, registered>>
  BY DEF CreateTransport, Making, ConnectionInv, OpenOK
<1>2. CASE Unreserve(o) /\ OpenAt(o, "refused") /\ UNCHANGED transports
  BY <1>1, <1>2, Unreserved
<1>3. CASE /\ transports' = [transports EXCEPT ![o].state = "open"]
           /\ OpenAt(o, "attach") /\ UNCHANGED <<generations, records>>
  <2>1. /\ opens' \in [Opens -> OpenRecord] /\ \A p \in Opens : p # o => opens'[p] = opens[p]
        /\ opens'[o].at = "attach" /\ opens'[o].gen = opens[o].gen /\ opens'[o].conn = opens[o].conn
    BY <1>3, OpenMoves
  <2>2. transports' \in [Opens -> TransportRecord] /\ \A p \in Opens : p # o => transports'[p] = transports[p]
    BY <1>3 DEF ConnectionInv, ConnectionTypes, TransportRecord
  <2>3. ConnectionTypes'
    BY <1>1, <1>3, <2>1, <2>2 DEF ConnectionInv, ConnectionTypes
  <2>4. \A g \in Opens : GenerationOK(g)'
    <3> SUFFICES ASSUME NEW g \in Opens PROVE GenerationOK(g)'
      OBVIOUS
    <3>1. generations[g].record # NoOpen => generations[g].record \in Opens
      BY RecordOwn
    <3>2. opens'[g].at = "idle" => opens[g].at = "idle"
      BY <2>1
    <3>3. \A p \in Opens : /\ opens'[p].gen = opens[p].gen /\ opens'[p].conn = opens[p].conn
                           /\ opens[p].at \in {"create", "attach"} => opens'[p].at \in {"create", "attach"}
                           /\ opens'[p].at \in Making => opens[p].at \in Making
      BY <1>1, <2>1
    <3> QED BY <1>1, <1>3, <3>1, <3>2, <3>3 DEF ConnectionInv, GenerationOK
  <2>5. \A p \in Opens : OpenOK(p)'
    <3>1. OpenOK(o)'
      BY <1>1, <1>3, <2>1 DEF ConnectionInv, OpenOK, Making
    <3>2. \A p \in Opens : p # o => OpenOK(p)'
      BY <1>1, <1>3, <2>1, <2>2 DEF ConnectionInv, OpenOK
    <3> QED BY <3>1, <3>2
  <2>6. \A k \in Closers : CloserOK(k)'
    BY <1>1, <1>3 DEF ConnectionInv, CloserOK
  <2>7. TransportsOwned'
    BY <1>1, <1>3, <2>1, <2>2 DEF ConnectionInv, TransportsOwned
  <2> QED BY <2>3, <2>4, <2>5, <2>6, <2>7 DEF ConnectionInv
<1> QED BY <1>2, <1>3 DEF CreateTransport

\* A transport is attached to the record it was made for, or to be discarded.
LEMMA AttachStep == ASSUME ConnectionInv, NEW o \in Opens, AttachOpenTransport(o) PROVE ConnectionInv'
<1>1. /\ opens[o].at = "attach" /\ opens[o].at \in Making
      /\ UNCHANGED <<closers, registered, generations, transports>>
  BY DEF AttachOpenTransport, Making
<1>2. PICK at \in {"answer", "discard"} :
          /\ OpenAt(o, at)
          /\ at = "answer" => records[o].opening /\ records' = [records EXCEPT ![o].attached = TRUE]
          /\ at = "discard" => ~records[o].opening /\ records' = records
  BY <1>1, MakingRecord DEF AttachOpenTransport, Attachable
<1>3. /\ opens' \in [Opens -> OpenRecord] /\ \A p \in Opens : p # o => opens'[p] = opens[p]
      /\ opens'[o].at = at /\ opens'[o].gen = opens[o].gen /\ opens'[o].conn = opens[o].conn
  BY <1>2, OpenMoves
<1>4. /\ records' \in [Opens -> ConnectionRecord] /\ (at = "answer" => records'[o].attached)
      /\ \A p \in Opens : records'[p].opening = records[p].opening /\ (p # o => records'[p] = records[p])
  <2>1. CASE at = "answer"
    <3>1. PICK q \in ConnectionRecord : q = records[o]
      BY DEF ConnectionInv, ConnectionTypes
    <3> DEFINE r == [q EXCEPT !.attached = TRUE]
    <3>2. records' = [records EXCEPT ![o] = r] /\ records \in [Opens -> ConnectionRecord]
      BY <1>2, <2>1, <3>1 DEF ConnectionInv, ConnectionTypes
    <3>3. r \in ConnectionRecord /\ r.opening = q.opening /\ r.attached
      BY DEF ConnectionRecord
    <3> HIDE DEF r
    <3> QED BY <3>1, <3>2, <3>3
  <2>2. CASE at = "discard"
    BY <1>2, <2>2 DEF ConnectionInv, ConnectionTypes
  <2> QED BY <2>1, <2>2
<1>5. ConnectionTypes'
  BY <1>1, <1>3, <1>4 DEF ConnectionInv, ConnectionTypes
<1>6. \A g \in Opens : GenerationOK(g)'
  <2> SUFFICES ASSUME NEW g \in Opens PROVE GenerationOK(g)'
    OBVIOUS
  <2>1. generations[g].record # NoOpen => generations[g].record \in Opens
    BY RecordOwn
  <2>2. opens'[g].at = "idle" => opens[g].at = "idle"
    BY <1>3
  <2>3. generations[g].record = o => at = "answer"
    BY <1>1, <1>2, MakingRecord
  <2> QED BY <1>1, <1>2, <1>3, <1>4, <2>1, <2>2, <2>3 DEF ConnectionInv, GenerationOK, Making
<1>7. \A p \in Opens : OpenOK(p)'
  <2>1. OpenOK(o)'
    BY <1>1, <1>2, <1>3, <1>4 DEF ConnectionInv, OpenOK, Making
  <2>2. \A p \in Opens : p # o => OpenOK(p)'
    BY <1>1, <1>3, <1>4 DEF ConnectionInv, OpenOK
  <2> QED BY <2>1, <2>2
<1>8. \A k \in Closers : CloserOK(k)'
  BY <1>1 DEF ConnectionInv, CloserOK
<1>9. TransportsOwned'
  <2>1. at = "answer" => registered # NoOpen /\ generations[registered].record = o
    BY <1>1, <1>2, MakingRecord, RecordOwn, OpenNumbers
  <2> QED BY <1>1, <1>3, <2>1 DEF ConnectionInv, TransportsOwned
<1> QED BY <1>5, <1>6, <1>7, <1>8, <1>9 DEF ConnectionInv

\* An Open fails, and gives its reservation back.
LEMMA AnswerFailsStep == ASSUME ConnectionInv, NEW o \in Opens, AnswerFails(o) PROVE ConnectionInv'
<1>1. opens[o].at = "answer" /\ opens[o].at \in Making /\ UNCHANGED <<closers, registered, transports>> /\ Unreserve(o)
  BY DEF AnswerFails, Making
<1>2. PICK at \in {"refused", "discard"} : OpenAt(o, at) /\ (at = "discard" \/ ~records[o].opening)
  BY DEF AnswerFails
<1>3. ~records[o].opening => transports[o].state # "open"
  BY <1>1 DEF ConnectionInv, OpenOK
<1> QED BY <1>1, <1>2, <1>3, Unreserved

\* Whether an Open completes or finds its record gone, it is no longer being made.
LEMMA CompleteOpenStep == ASSUME ConnectionInv, NEW o \in Opens, CompleteOpen(o) PROVE ConnectionInv'
<1>1. /\ opens[o].at = "answer" /\ opens[o].at \in Making
      /\ UNCHANGED <<closers, registered, generations, transports>>
  BY DEF CompleteOpen, Making
<1>2. PICK at \in {"refused", "join"}, q \in ConnectionRecord, x \in OpenRecord :
          /\ q = records[o] /\ x = opens[o] /\ OpenAt(o, at)
          /\ \/ records' = [records EXCEPT ![o] = [q EXCEPT !.opening = FALSE]]
             \/ records' = [records EXCEPT ![o] = [q EXCEPT !.opening = FALSE, !.failed = TRUE]]
  <2>1. records[o] \in ConnectionRecord /\ opens[o] \in OpenRecord
    BY DEF ConnectionInv, ConnectionTypes
  <2> QED BY <2>1 DEF CompleteOpen
<1>3. PICK w \in ConnectionRecord : records' = [records EXCEPT ![o] = w] /\ ~w.opening /\ w.attached = q.attached
  <2>1. /\ [q EXCEPT !.opening = FALSE] \in ConnectionRecord
        /\ ~[q EXCEPT !.opening = FALSE].opening /\ [q EXCEPT !.opening = FALSE].attached = q.attached
    BY DEF ConnectionRecord
  <2>2. /\ [q EXCEPT !.opening = FALSE, !.failed = TRUE] \in ConnectionRecord
        /\ ~[q EXCEPT !.opening = FALSE, !.failed = TRUE].opening
        /\ [q EXCEPT !.opening = FALSE, !.failed = TRUE].attached = q.attached
    BY DEF ConnectionRecord
  <2> QED BY <1>2, <2>1, <2>2
<1>4. /\ records' \in [Opens -> ConnectionRecord] /\ ~records'[o].opening
      /\ records'[o].attached = records[o].attached /\ \A p \in Opens : p # o => records'[p] = records[p]
  BY <1>2, <1>3 DEF ConnectionInv, ConnectionTypes
<1> DEFINE r == [x EXCEPT !.at = at]
<1>5. opens' = [opens EXCEPT ![o] = r]
  BY <1>2 DEF OpenAt
<1>6. r \in OpenRecord /\ r.at = at /\ r.gen = opens[o].gen /\ r.conn = opens[o].conn
  BY <1>2 DEF OpenRecord
<1>7. opens[o].conn = o /\ transports \in [Opens -> TransportRecord]
  BY <1>1 DEF ConnectionInv, ConnectionTypes, OpenOK
<1> HIDE DEF r
<1>8. /\ UNCHANGED <<closers, registered, generations>> /\ transports' \in [Opens -> TransportRecord]
      /\ opens[o].at \notin {"idle", "refused", "create", "attach", "discard"}
      /\ r.at \in {"refused", "join", "opened"} /\ r.conn \in Opens
  BY <1>1, <1>6, <1>7
<1>9. /\ \A p \in Opens : p # o => records'[p] = records[p] /\ transports'[p] = transports[p]
      /\ transports'[o].state = "open" => transports[o].state = "open"
  BY <1>1, <1>4
<1> QED BY <1>4, <1>5, <1>6, <1>8, <1>9, OpenStays

\* The Opens that joined a connection return with it.
LEMMA ReturnStep == ASSUME ConnectionInv, NEW o \in Opens, ReturnOpen(o) PROVE ConnectionInv'
<1>1. opens[o].at = "join" /\ UNCHANGED <<closers, registered, generations, records, transports>>
  BY DEF ReturnOpen, serverVars
<1>2. ~records[o].opening
  BY <1>1 DEF ConnectionInv, OpenOK, Making
<1>3. PICK at \in {"refused", "opened"} : OpenAt(o, at)
  BY DEF ReturnOpen
<1>4. PICK x \in OpenRecord : x = opens[o]
  BY DEF ConnectionInv, ConnectionTypes
<1> DEFINE r == [x EXCEPT !.at = at]
<1>5. opens' = [opens EXCEPT ![o] = r]
  BY <1>3, <1>4 DEF OpenAt
<1>6. r \in OpenRecord /\ r.at = at /\ r.gen = opens[o].gen /\ r.conn = opens[o].conn
  BY <1>4 DEF OpenRecord
<1>7. records \in [Opens -> ConnectionRecord] /\ transports \in [Opens -> TransportRecord]
  BY DEF ConnectionInv, ConnectionTypes
<1> HIDE DEF r
<1> QED BY <1>1, <1>2, <1>5, <1>6, <1>7, OpenStays

\* A transport that nobody can reach is closed.
LEMMA DiscardStep == ASSUME ConnectionInv, NEW o \in Opens, Discard(o) PROVE ConnectionInv'
<1>1. /\ opens[o].at = "discard" /\ UNCHANGED <<closers, registered, generations, records>>
      /\ OpenAt(o, "refused") /\ transports' = [transports EXCEPT ![o].state = "closed"]
  BY DEF Discard
<1>2. ~records[o].opening
  BY <1>1 DEF ConnectionInv, OpenOK, Making
<1>3. PICK x \in OpenRecord : x = opens[o]
  BY DEF ConnectionInv, ConnectionTypes
<1> DEFINE r == [x EXCEPT !.at = "refused"]
<1>4. opens' = [opens EXCEPT ![o] = r]
  BY <1>1, <1>3 DEF OpenAt
<1>5. r \in OpenRecord /\ r.at = "refused" /\ r.gen = opens[o].gen /\ r.conn = opens[o].conn
  BY <1>3 DEF OpenRecord
<1>6. records \in [Opens -> ConnectionRecord]
  BY DEF ConnectionInv, ConnectionTypes
<1>7. /\ transports' \in [Opens -> TransportRecord] /\ transports'[o].state = "closed"
      /\ \A p \in Opens : p # o => transports'[p] = transports[p]
  BY <1>1 DEF ConnectionInv, ConnectionTypes, TransportRecord
<1> HIDE DEF r
<1> QED BY <1>1, <1>2, <1>4, <1>5, <1>6, <1>7, OpenStays

\* A Close that touches no connection keeps what is known of them.
LEMMA CloserStays ==
  ASSUME ConnectionInv, UNCHANGED <<opens, registered, records, transports>>,
         closers' \in [Closers -> CloserRecord], generations' \in [Opens -> GenerationRecord],
         \A g \in Opens : /\ generations'[g].closed = generations[g].closed
                          /\ generations'[g].record = generations[g].record
                          /\ opens[g].at = "idle" => generations'[g].closer = 0,
         \A k \in Closers : CloserOK(k)'
  PROVE  ConnectionInv'
<1>1. ConnectionTypes'
  BY DEF ConnectionInv, ConnectionTypes
<1>2. \A g \in Opens : GenerationOK(g)'
  BY DEF ConnectionInv, GenerationOK
<1>3. \A o \in Opens : OpenOK(o)'
  <2> SUFFICES ASSUME NEW o \in Opens PROVE OpenOK(o)'
    OBVIOUS
  <2>1. opens[o].gen \in Opens \cup {NoOpen} /\ (records[o].opening => opens[o].gen \in Opens)
    BY DEF ConnectionInv, ConnectionTypes, OpenRecord, OpenOK, Making
  <2> QED BY <2>1 DEF ConnectionInv, OpenOK
<1>4. TransportsOwned'
  BY DEF ConnectionInv, ConnectionTypes, TransportsOwned
<1> QED BY <1>1, <1>2, <1>3, <1>4 DEF ConnectionInv

\* Only one Close is at work on the registered session.
LEMMA OneCloser ==
  ASSUME ConnectionInv, NEW k \in Closers, closers[k].at \in {"close", "finish ok", "finish error"}
  PROVE  /\ closers[k].gen \in Opens /\ registered = closers[k].gen /\ generations[registered].closer = k
         /\ \A l \in Closers : l # k => closers[l].at \notin {"close", "finish ok", "finish error"}
<1>1. closers[k].gen \in Opens /\ registered = closers[k].gen /\ generations[closers[k].gen].closer = k
  BY DEF ConnectionInv, CloserOK
<1>2. SUFFICES ASSUME NEW l \in Closers, closers[l].at \in {"close", "finish ok", "finish error"} PROVE l = k
  BY <1>1
<1>3. registered = closers[l].gen /\ generations[closers[l].gen].closer = l
  BY <1>2 DEF ConnectionInv, CloserOK
<1> QED BY <1>1, <1>3

\* A Close finds nothing to do, waits for another one, or begins.
LEMMA BeginCloseStep == ASSUME ConnectionInv, NEW k \in Closers, BeginCloseSession(k) PROVE ConnectionInv'
<1>1. UNCHANGED <<opens, registered, records, transports>>
  BY DEF BeginCloseSession
<1>2. /\ closers \in [Closers -> CloserRecord] /\ generations \in [Opens -> GenerationRecord]
      /\ registered \in Opens \cup {NoOpen}
      /\ \A g \in Opens : opens[g].at = "idle" => generations[g].closer = 0 /\ registered # g
  BY DEF ConnectionInv, ConnectionTypes, GenerationOK
<1>3. CASE CloserAt(k, "closed") /\ UNCHANGED generations
  <2>1. /\ closers' \in [Closers -> CloserRecord] /\ \A l \in Closers : l # k => closers'[l] = closers[l]
        /\ closers'[k].at = "closed"
    BY <1>3, CloserMoves
  <2>2. \A l \in Closers : CloserOK(l)'
    BY <1>1, <1>3, <2>1 DEF ConnectionInv, CloserOK
  <2> QED BY <1>1, <1>2, <1>3, <2>1, <2>2, CloserStays
<1>4. CASE /\ registered # NoOpen /\ UNCHANGED generations
           /\ closers' = [closers EXCEPT ![k] = [at |-> "wait", gen |-> registered,
                                                 waits |-> generations[registered].closer]]
  <2>1. PICK g \in Opens, w \in Closers \cup {0} : g = registered /\ w = generations[registered].closer
    BY <1>2, <1>4 DEF GenerationRecord
  <2> DEFINE r == [at |-> "wait", gen |-> g, waits |-> w]
  <2>2. r \in CloserRecord /\ r.at = "wait"
    BY DEF CloserRecord
  <2>3. closers' = [closers EXCEPT ![k] = r]
    BY <1>4, <2>1
  <2> HIDE DEF r
  <2>4. \A l \in Closers : closers'[l] = IF l = k THEN r ELSE closers[l]
    BY <1>2, <2>3
  <2>5. \A l \in Closers : CloserOK(l)'
    <3>1. CloserOK(k)'
      BY <2>2, <2>4 DEF CloserOK
    <3>2. ASSUME NEW l \in Closers, l # k PROVE CloserOK(l)'
      <4>1. closers'[l] = closers[l] /\ CloserOK(l)
        BY <2>4, <3>2 DEF ConnectionInv
      <4> QED BY <1>1, <1>4, <4>1 DEF CloserOK
    <3> QED BY <3>1, <3>2
  <2> QED BY <1>1, <1>2, <1>4, <2>2, <2>3, <2>5, CloserStays
<1>5. CASE /\ registered # NoOpen /\ generations[registered].closer = 0
           /\ closers' = [closers EXCEPT ![k] = [at |-> "close", gen |-> registered, waits |-> 0]]
           /\ generations' = [generations EXCEPT ![registered].closer = k]
  <2>1. PICK g \in Opens : g = registered
    BY <1>2, <1>5
  <2> DEFINE r == [at |-> "close", gen |-> g, waits |-> 0]
  <2>2. r \in CloserRecord /\ r.at = "close" /\ r.gen = g
    BY DEF CloserRecord
  <2>3. closers' = [closers EXCEPT ![k] = r]
    BY <1>5, <2>1
  <2> HIDE DEF r
  <2>4. /\ generations' \in [Opens -> GenerationRecord] /\ generations'[g].closer = k
        /\ \A f \in Opens : /\ generations'[f].closed = generations[f].closed
                            /\ generations'[f].record = generations[f].record
                            /\ f # g => generations'[f] = generations[f]
    BY <1>2, <1>5, <2>1 DEF GenerationRecord
  <2>5. \A l \in Closers : closers[l].at \notin {"close", "finish ok", "finish error"}
    BY <1>5, OpenNumbers DEF ConnectionInv, CloserOK
  <2>6. \A l \in Closers : CloserOK(l)'
    BY <1>1, <1>2, <2>1, <2>2, <2>3, <2>4, <2>5 DEF CloserOK
  <2>7. \A f \in Opens : opens[f].at = "idle" => generations'[f].closer = 0
    BY <1>2, <2>1, <2>4
  <2> QED BY <1>1, <1>2, <2>2, <2>3, <2>4, <2>6, <2>7, CloserStays
<1> QED BY <1>3, <1>4, <1>5 DEF BeginCloseSession

\* A Close that waited looks again, or gives up.
LEMMA AwaitCloseStep == ASSUME ConnectionInv, NEW k \in Closers, AwaitClose(k) PROVE ConnectionInv'
<1>1. UNCHANGED <<opens, registered, generations, records, transports>>
  BY DEF AwaitClose, serverVars
<1>2. PICK at \in {"again", "error"} : CloserAt(k, at)
  BY DEF AwaitClose
<1>3. /\ closers' \in [Closers -> CloserRecord] /\ \A l \in Closers : l # k => closers'[l] = closers[l]
      /\ closers'[k].at = at
  BY <1>2, CloserMoves
<1>4. \A l \in Closers : CloserOK(l)'
  BY <1>1, <1>3 DEF ConnectionInv, CloserOK
<1>5. /\ generations \in [Opens -> GenerationRecord]
      /\ \A g \in Opens : opens[g].at = "idle" => generations[g].closer = 0
  BY DEF ConnectionInv, ConnectionTypes, GenerationOK
<1> QED BY <1>1, <1>3, <1>4, <1>5, CloserStays

\* A finished Close forgets the session, or leaves it to the next Close.
LEMMA FinishCloseStep == ASSUME ConnectionInv, NEW k \in Closers, FinishClose(k) PROVE ConnectionInv'
<1>1. closers[k].at \in {"finish ok", "finish error"} /\ UNCHANGED <<opens, records, transports>>
  BY DEF FinishClose
<1>2. PICK g \in Opens : /\ g = closers[k].gen /\ registered = g /\ generations[g].closer = k
                         /\ \A l \in Closers : l # k => closers[l].at \notin {"close", "finish ok", "finish error"}
  BY <1>1, OneCloser
<1>3. PICK at \in {"closed", "error"} : CloserAt(k, at)
  BY DEF FinishClose
<1>4. /\ closers' \in [Closers -> CloserRecord] /\ \A l \in Closers : l # k => closers'[l] = closers[l]
      /\ closers'[k].at = at
  BY <1>3, CloserMoves
<1>5. \A l \in Closers : CloserOK(l)'
  BY <1>2, <1>4 DEF CloserOK
<1>6. CASE closers[k].at = "finish ok"
  <2>1. registered' = NoOpen /\ UNCHANGED generations /\ generations[g].closed
    BY <1>2, <1>6 DEF FinishClose, ConnectionInv, CloserOK
  <2>2. \A f \in Opens : generations[f].record = NoOpen
    BY <1>2, <2>1, RecordOwn
  <2>3. ConnectionTypes'
    BY <1>1, <1>4, <2>1 DEF ConnectionInv, ConnectionTypes
  <2>4. \A f \in Opens : GenerationOK(f)'
    BY <1>1, <2>1, <2>2, OpenNumbers DEF ConnectionInv, GenerationOK
  <2>5. \A o \in Opens : OpenOK(o)'
    <3> SUFFICES ASSUME NEW o \in Opens PROVE OpenOK(o)'
      OBVIOUS
    <3>1. opens[o].gen # NoOpen => generations[opens[o].gen].closed
      BY <1>2, <2>1 DEF ConnectionInv, OpenOK
    <3>2. OpenOK(o)
      BY DEF ConnectionInv
    <3> QED BY <1>1, <2>1, <3>1, <3>2 DEF OpenOK
  <2>6. TransportsOwned'
    BY <1>1, <1>2, <2>1, <2>2, OpenNumbers DEF ConnectionInv, TransportsOwned
  <2> QED BY <1>5, <2>3, <2>4, <2>5, <2>6 DEF ConnectionInv
<1>7. CASE closers[k].at = "finish error"
  <2>1. generations' = [generations EXCEPT ![g].closer = 0] /\ UNCHANGED registered
    BY <1>2, <1>7 DEF FinishClose
  <2>2. /\ generations' \in [Opens -> GenerationRecord]
        /\ \A f \in Opens : /\ generations'[f].closed = generations[f].closed
                            /\ generations'[f].record = generations[f].record
                            /\ opens[f].at = "idle" => generations'[f].closer = 0
    BY <2>1 DEF ConnectionInv, ConnectionTypes, GenerationRecord, GenerationOK
  <2> QED BY <1>1, <1>4, <1>5, <2>1, <2>2, CloserStays
<1> QED BY <1>1, <1>6, <1>7

\* A successful close takes the record, and a transport that was attached to it
\* is closed; a failing one keeps both, and closes at most the transport.
LEMMA CloseSessionStep == ASSUME ConnectionInv, NEW k \in Closers, CloseSession(k) PROVE ConnectionInv'
<1>1. closers[k].at = "close" /\ UNCHANGED <<opens, registered>>
  BY DEF CloseSession
<1>2. PICK g \in Opens : /\ g = closers[k].gen /\ registered = g /\ generations[g].closer = k
                         /\ \A l \in Closers : l # k => closers[l].at \notin {"close", "finish ok", "finish error"}
  BY <1>1, OneCloser
<1>3. PICK c \in Opens \cup {NoOpen} : c = generations[g].record
  BY DEF ConnectionInv, ConnectionTypes, GenerationRecord
<1>4. /\ \A f \in Opens : f # g => generations[f].record = NoOpen
      /\ \A o \in Opens : records[o].opening => o = c
  <2>1. \A f \in Opens : f # g => generations[f].record = NoOpen
    BY <1>2, RecordOwn
  <2>2. \A o \in Opens : records[o].opening => generations[opens[o].gen].record = o /\ opens[o].gen \in Opens
    BY DEF ConnectionInv, OpenOK, Making
  <2> QED BY <1>3, <2>1, <2>2, OpenNumbers
<1>5. c # NoOpen => /\ c \in Opens
                    /\ opens[c].at \notin {"create", "attach"} => records[c].attached
                    /\ opens[c].at \in {"idle", "reserve", "create", "attach"} => ~records[c].attached
  BY <1>2, <1>3 DEF ConnectionInv, GenerationOK, OpenOK
<1>6. \/ /\ transports' = transports /\ (c # NoOpen => ~records[c].attached)
      \/ /\ c # NoOpen /\ records[c].attached
         /\ \/ transports' = [transports EXCEPT ![c].state = "closed"]
            \/ transports' = [transports EXCEPT ![c] = [state |-> "closed", closeErr |-> TRUE]]
            \/ transports' = transports /\ generations' = generations /\ records' = records
  BY <1>2, <1>3 DEF CloseSession
<1>7. /\ transports' \in [Opens -> TransportRecord]
      /\ \A o \in Opens : \/ transports'[o] = transports[o]
                          \/ o = c /\ records[o].attached /\ transports'[o].state = "closed"
  <2>1. PICK T \in [Opens -> TransportRecord] : T = transports
    BY DEF ConnectionInv, ConnectionTypes
  <2>2. CASE transports' = transports
    BY <2>1, <2>2
  <2>3. CASE c # NoOpen /\ records[c].attached /\ transports' = [transports EXCEPT ![c].state = "closed"]
    BY <1>5, <2>1, <2>3 DEF TransportRecord
  <2>4. CASE c # NoOpen /\ records[c].attached
             /\ transports' = [transports EXCEPT ![c] = [state |-> "closed", closeErr |-> TRUE]]
    BY <1>5, <2>1, <2>4 DEF TransportRecord
  <2> QED BY <1>6, <2>2, <2>3, <2>4
<1>8. CASE /\ CloserAt(k, "finish ok") /\ generations' = [generations EXCEPT ![g].closed = TRUE, ![g].record = NoOpen]
           /\ records' = IF c # NoOpen /\ records[c].opening
                         THEN [records EXCEPT ![c].opening = FALSE, ![c].failed = TRUE] ELSE records
           /\ c # NoOpen /\ records[c].attached => transports'[c].state = "closed"
  <2>1. /\ closers' \in [Closers -> CloserRecord] /\ \A l \in Closers : l # k => closers'[l] = closers[l]
        /\ closers'[k].at = "finish ok" /\ closers'[k].gen = g
    BY <1>2, <1>8, CloserMoves
  <2>2. /\ generations' \in [Opens -> GenerationRecord] /\ generations'[g].closed /\ generations'[g].closer = k
        /\ \A f \in Opens : /\ generations'[f].record = NoOpen /\ generations'[f].closer = generations[f].closer
                            /\ (f # g => generations'[f] = generations[f])
    <3>1. PICK q \in GenerationRecord : q = generations[g]
      BY DEF ConnectionInv, ConnectionTypes
    <3> DEFINE r == [q EXCEPT !.closed = TRUE, !.record = NoOpen]
    <3>2. generations' = [generations EXCEPT ![g] = r]
      BY <1>8, <3>1
    <3>3. r \in GenerationRecord /\ r.closed /\ r.closer = q.closer /\ r.record = NoOpen
      BY DEF GenerationRecord
    <3> HIDE DEF r
    <3> QED BY <1>2, <1>4, <3>1, <3>2, <3>3 DEF ConnectionInv, ConnectionTypes
  <2>3. /\ records' \in [Opens -> ConnectionRecord]
        /\ \A o \in Opens : ~records'[o].opening /\ records'[o].attached = records[o].attached
    <3>1. CASE c # NoOpen /\ records[c].opening
      <4>1. PICK q \in ConnectionRecord : q = records[c]
        BY <1>5, <3>1 DEF ConnectionInv, ConnectionTypes
      <4> DEFINE r == [q EXCEPT !.opening = FALSE, !.failed = TRUE]
      <4>2. records' = [records EXCEPT ![c] = r]
        BY <1>8, <3>1, <4>1
      <4>3. r \in ConnectionRecord /\ ~r.opening /\ r.attached = q.attached
        BY DEF ConnectionRecord
      <4> HIDE DEF r
      <4> QED BY <1>4, <1>5, <3>1, <4>1, <4>2, <4>3 DEF ConnectionInv, ConnectionTypes
    <3>2. CASE ~(c # NoOpen /\ records[c].opening)
      BY <1>4, <1>8, <3>2, OpenNumbers DEF ConnectionInv, ConnectionTypes
    <3> QED BY <3>1, <3>2
  <2>4. ConnectionTypes'
    BY <1>1, <1>7, <2>1, <2>2, <2>3 DEF ConnectionInv, ConnectionTypes
  <2>5. \A f \in Opens : GenerationOK(f)'
    <3> SUFFICES ASSUME NEW f \in Opens PROVE GenerationOK(f)'
      OBVIOUS
    <3>1. opens[f].at = "idle" => f # g /\ ~generations[f].closed /\ generations[f].closer = 0 /\ registered # f
      BY <1>2 DEF ConnectionInv, GenerationOK
    <3> QED BY <1>1, <2>2, <3>1 DEF GenerationOK
  <2>6. \A o \in Opens : OpenOK(o)'
    <3> SUFFICES ASSUME NEW o \in Opens PROVE OpenOK(o)'
      OBVIOUS
    <3>1. opens[o].gen \in Opens \cup {NoOpen}
      BY DEF ConnectionInv, ConnectionTypes, OpenRecord
    <3>2. opens[o].gen # NoOpen => registered = opens[o].gen \/ generations'[opens[o].gen].closed
      BY <2>2, <3>1 DEF ConnectionInv, OpenOK
    <3>3. opens[o].at = "answer" => transports'[o].state = "closed"
      <4>1. CASE o = c /\ opens[o].at = "answer"
        BY <1>5, <1>8, <4>1, OpenNumbers
      <4>2. CASE o # c /\ opens[o].at = "answer"
        BY <1>4, <1>7, <4>2 DEF ConnectionInv, OpenOK
      <4> QED BY <4>1, <4>2
    <3>4. opens[o].at \in {"idle", "reserve", "create"} => transports'[o].state = "none"
      BY <1>7 DEF ConnectionInv, OpenOK
    <3> QED BY <1>1, <2>2, <2>3, <3>1, <3>2, <3>3, <3>4, OpenNumbers DEF ConnectionInv, OpenOK
  <2>7. \A l \in Closers : CloserOK(l)'
    <3>1. CloserOK(k)'
      BY <1>1, <1>2, <2>1, <2>2 DEF CloserOK
    <3>2. ASSUME NEW l \in Closers, l # k PROVE CloserOK(l)'
      <4>1. closers'[l].at \notin {"close", "finish ok", "finish error"}
        BY <1>2, <2>1, <3>2
      <4> QED BY <4>1 DEF CloserOK
    <3> QED BY <3>1, <3>2
  <2>8. TransportsOwned'
    <3> SUFFICES ASSUME NEW o \in Opens, transports'[o].state = "open" PROVE opens[o].at \in {"attach", "discard"}
      BY <1>1 DEF TransportsOwned
    <3>1. transports[o].state = "open"
      BY <1>7
    <3>2. CASE o = c
      <4>1. ~records[o].attached
        BY <1>8, <3>2, OpenNumbers
      <4>2. opens[o].at # "create"
        BY <3>1 DEF ConnectionInv, OpenOK
      <4> QED BY <1>5, <3>2, <4>1, <4>2, OpenNumbers
    <3>3. CASE o # c
      BY <1>2, <1>3, <3>1, <3>3 DEF ConnectionInv, TransportsOwned
    <3> QED BY <3>2, <3>3
  <2> QED BY <2>4, <2>5, <2>6, <2>7, <2>8 DEF ConnectionInv
<1>9. CASE CloserAt(k, "finish error") /\ UNCHANGED <<generations, records>>
  <2>1. /\ closers' \in [Closers -> CloserRecord] /\ \A l \in Closers : l # k => closers'[l] = closers[l]
        /\ closers'[k].at = "finish error" /\ closers'[k].gen = g
    BY <1>2, <1>9, CloserMoves
  <2>2. ConnectionTypes'
    BY <1>1, <1>7, <1>9, <2>1 DEF ConnectionInv, ConnectionTypes
  <2>3. \A f \in Opens : GenerationOK(f)'
    BY <1>1, <1>9 DEF ConnectionInv, GenerationOK
  <2>4. \A o \in Opens : OpenOK(o)'
    <3> SUFFICES ASSUME NEW o \in Opens PROVE OpenOK(o)'
      OBVIOUS
    <3>1. opens[o].at \in {"idle", "reserve", "create"} => transports'[o].state = "none"
      BY <1>7 DEF ConnectionInv, OpenOK
    <3>2. opens[o].at = "answer" => records[o].opening \/ transports'[o].state = "closed"
      BY <1>7 DEF ConnectionInv, OpenOK
    <3>3. OpenOK(o)
      BY DEF ConnectionInv
    <3> QED BY <1>1, <1>9, <3>1, <3>2, <3>3 DEF OpenOK
  <2>5. \A l \in Closers : CloserOK(l)'
    <3>1. CloserOK(k)'
      BY <1>1, <1>2, <1>9, <2>1 DEF CloserOK
    <3>2. ASSUME NEW l \in Closers, l # k PROVE CloserOK(l)'
      <4>1. closers'[l].at \notin {"close", "finish ok", "finish error"}
        BY <1>2, <2>1, <3>2
      <4> QED BY <4>1 DEF CloserOK
    <3> QED BY <3>1, <3>2
  <2>6. TransportsOwned'
    BY <1>1, <1>7, <1>9 DEF ConnectionInv, TransportsOwned
  <2> QED BY <2>2, <2>3, <2>4, <2>5, <2>6 DEF ConnectionInv
<1>10. c # NoOpen /\ records[c].attached /\ transports' = [transports EXCEPT ![c].state = "closed"]
         => transports'[c].state = "closed"
  BY <1>5 DEF ConnectionInv, ConnectionTypes, TransportRecord
<1> QED BY <1>2, <1>3, <1>8, <1>9, <1>10 DEF CloseSession

\* What the pages do writes nothing of the connections.
LEMMA PageStays ==
  ASSUME ConnectionInv, UNCHANGED <<opens, closers, serverVars>>
  PROVE  ConnectionInv'
<1>1. UNCHANGED <<opens, closers, registered, generations, records, transports>>
  BY DEF serverVars
<1>2. ConnectionTypes'
  BY <1>1 DEF ConnectionInv, ConnectionTypes
<1>3. \A g \in Opens : GenerationOK(g)'
  BY <1>1 DEF ConnectionInv, GenerationOK
<1>4. \A o \in Opens : OpenOK(o)'
  <2> SUFFICES ASSUME NEW o \in Opens PROVE OpenOK(o)'
    OBVIOUS
  <2>1. OpenOK(o)
    BY DEF ConnectionInv
  <2> QED BY <1>1, <2>1 DEF OpenOK
<1>5. \A k \in Closers : CloserOK(k)'
  BY <1>1 DEF ConnectionInv, CloserOK
<1>6. TransportsOwned'
  BY <1>1 DEF ConnectionInv, TransportsOwned
<1> QED BY <1>2, <1>3, <1>4, <1>5, <1>6 DEF ConnectionInv

\* Every step of the connections keeps their invariant.
LEMMA ConnectionStep == ASSUME ConnectionInv, [ConnectionsNext]_connectionVars PROVE ConnectionInv'
<1>1. ASSUME NEW o \in Opens,
             \/ GetOrCreate(o) \/ Reserve(o) \/ CreateTransport(o) \/ AttachOpenTransport(o)
             \/ AnswerFails(o) \/ CompleteOpen(o) \/ ReturnOpen(o) \/ Discard(o)
      PROVE  ConnectionInv'
  BY <1>1, GetOrCreateStep, ReserveStep, CreateStep, AttachStep, AnswerFailsStep, CompleteOpenStep,
     ReturnStep, DiscardStep
<1>2. ASSUME NEW o \in Opens,
             \/ Gather(o) \/ GatheringEnds(o) \/ OfferAnswered(o) \/ RemoteDescribed(o) \/ AddCandidates(o)
      PROVE  ConnectionInv'
  BY <1>2, PageStays DEF Gather, GatheringEnds, OfferAnswered, RemoteDescribed, AddCandidates
<1>3. ASSUME NEW k \in Closers,
             BeginCloseSession(k) \/ AwaitClose(k) \/ CloseSession(k) \/ FinishClose(k)
      PROVE  ConnectionInv'
  BY <1>3, BeginCloseStep, AwaitCloseStep, CloseSessionStep, FinishCloseStep
<1>4. CASE UNCHANGED connectionVars
  BY <1>4, PageStays DEF connectionVars, serverVars
<1> QED BY <1>1, <1>2, <1>3, <1>4 DEF ConnectionsNext

\* However Opens, Closes and failures interleave, every open peer connection is
\* the record of the registered session, or in the hands of an Open that is
\* about to attach or close it.
THEOREM TransportsOwnedHolds == ConnectionsSpec => []TransportsOwned
<1>1. ConnectionInv => TransportsOwned
  BY DEF ConnectionInv
<1> QED BY <1>1, ConnectionsInitInv, ConnectionStep, PTL DEF ConnectionsSpec

-----------------------------------------------------------------------------
\* The fallback playback of a turn: what is marked played was heard.

OperationRecord == [status : {"none", "processing", "accepted"},
                    token : Processes \cup {Nil}, expired : BOOLEAN]
RequestRecord == [at : RequestPlaces, turn : Turns \cup {Nil}]
RunRecord == [status : RunStatuses, trigger : {Nil, "configured_route", "long_sentence"},
              targets : SUBSET Targets, version : Nat, fresh : BOOLEAN]
RoundPlaces == {"idle", "retry", "recover", "restore", "target", "call", "wait", "mark",
                "create", "restored"}
RoundRecord == [at : RoundPlaces, turns : SUBSET Turns, targets : SUBSET Targets,
                turn : Turns \cup {Nil}, seen : Nat]
ConfigRecord == [version : Nat, spoken : BOOLEAN]

OutputTypes ==
    /\ operation \in [Turns -> OperationRecord]
    /\ request \in [Processes -> RequestRecord]
    /\ sounded \in [Turns -> Nat]
    /\ run \in [Turns -> RunRecord]
    /\ round \in [Processes -> RoundRecord]
    /\ config \in ConfigRecord

\* A request on its way names a turn; it completes what was played to its end,
\* and is answered "ok" for what is accepted.
RequestSound(req, op, heardOften) ==
    req.at # "none" =>
        /\ req.turn \in Turns
        /\ req.at = "complete" => heardOften[req.turn] > 0
        /\ req.at = "ok" => op[req.turn].status = "accepted"

\* A round waits for the request of its own turn, and marks what is accepted.
RoundSound(rnd, req, op) ==
    /\ rnd.at \in {"call", "wait", "mark"} => rnd.turn \in Turns
    /\ rnd.at = "wait" => req.turn = rnd.turn
    /\ rnd.at = "mark" => op[rnd.turn].status = "accepted"

OutputInv ==
    /\ OutputTypes
    /\ \A t \in Turns : operation[t].status = "accepted" => sounded[t] > 0
    /\ \A t \in Turns : run[t].status \in {"fallback_played", "restored"} =>
            operation[t].status = "accepted"
    /\ \A p \in Processes : RequestSound(request[p], operation, sounded)
    /\ \A p \in Processes : RoundSound(round[p], request[p], operation)

\* The parts of the invariant that a step must restore.
LEMMA OutputParts ==
  ASSUME OutputTypes',
         \A t \in Turns : operation'[t].status = "accepted" => sounded'[t] > 0,
         \A t \in Turns : run'[t].status \in {"fallback_played", "restored"} =>
            operation'[t].status = "accepted",
         \A p \in Processes : RequestSound(request'[p], operation', sounded'),
         \A p \in Processes : RoundSound(round'[p], request'[p], operation')
  PROVE  OutputInv'
BY DEF OutputInv, RequestSound, RoundSound

\* A step of the API side keeps the invariant if it marks nothing as played
\* and takes no round into a request.
LEMMA QuietOutput ==
  ASSUME OutputInv, UNCHANGED replayVars,
         config' \in ConfigRecord, run' \in [Turns -> RunRecord],
         round' \in [Processes -> RoundRecord],
         \A t \in Turns : run'[t].status \in {"fallback_played", "restored"} =>
            run[t].status \in {"fallback_played", "restored"},
         \A p \in Processes : \/ round'[p] = round[p]
                              \/ /\ round'[p].at \notin {"wait", "mark"}
                                 /\ round'[p].at = "call" => round'[p].turn \in Turns
  PROVE  OutputInv'
<1>1. OutputTypes'
  BY DEF OutputInv, OutputTypes, replayVars
<1>2. \A t \in Turns : operation'[t].status = "accepted" => sounded'[t] > 0
  BY DEF OutputInv, replayVars
<1>3. \A t \in Turns : run'[t].status \in {"fallback_played", "restored"} =>
            operation'[t].status = "accepted"
  BY DEF OutputInv, replayVars
<1>4. \A p \in Processes : RequestSound(request'[p], operation', sounded')
  BY DEF OutputInv, replayVars
<1>5. \A p \in Processes : RoundSound(round'[p], request'[p], operation')
  BY DEF OutputInv, RoundSound, replayVars
<1> QED
  BY <1>1, <1>2, <1>3, <1>4, <1>5, OutputParts

\* A step of the API side that leaves the runs as they are.
LEMMA QuietRound ==
  ASSUME OutputInv, UNCHANGED <<replayVars, run>>, config' \in ConfigRecord,
         NEW p \in Processes, NEW r \in RoundRecord, round' = [round EXCEPT ![p] = r],
         r.at \notin {"wait", "mark"}, r.at = "call" => r.turn \in Turns
  PROVE  OutputInv'
<1>1. /\ round \in [Processes -> RoundRecord]
      /\ run \in [Turns -> RunRecord]
  BY DEF OutputInv, OutputTypes
<1>2. /\ round' \in [Processes -> RoundRecord]
      /\ run' = run
      /\ \A q \in Processes : round'[q] = IF q = p THEN r ELSE round[q]
  BY <1>1
<1> QED
  BY <1>1, <1>2, QuietOutput

\* A step of a request's handler.
LEMMA HandlerOutput ==
  ASSUME OutputInv, UNCHANGED turnVars,
         NEW p \in Processes, request[p].at # "none",
         NEW place \in RequestPlaces \ {"none"}, request' = [request EXCEPT ![p].at = place],
         operation' \in [Turns -> OperationRecord], sounded' \in [Turns -> Nat],
         \A t \in Turns : operation[t].status = "accepted" => operation'[t].status = "accepted",
         \A t \in Turns : operation'[t].status = "accepted" => sounded'[t] > 0,
         \A t \in Turns : sounded[t] > 0 => sounded'[t] > 0,
         place = "complete" => sounded'[request[p].turn] > 0,
         place = "ok" => operation'[request[p].turn].status = "accepted"
  PROVE  OutputInv'
<1>1. /\ request \in [Processes -> RequestRecord]
      /\ round \in [Processes -> RoundRecord]
      /\ run \in [Turns -> RunRecord]
      /\ config \in ConfigRecord
  BY DEF OutputInv, OutputTypes
<1>2. /\ request' \in [Processes -> RequestRecord]
      /\ request'[p].at = place
      /\ \A q \in Processes : request'[q].turn = request[q].turn
      /\ \A q \in Processes : q # p => request'[q] = request[q]
  BY <1>1 DEF RequestRecord
<1>3. request[p].turn \in Turns
  BY DEF OutputInv, RequestSound
<1>4. OutputTypes'
  BY <1>1, <1>2 DEF OutputTypes, turnVars
<1>5. \A t \in Turns : run'[t].status \in {"fallback_played", "restored"} =>
            operation'[t].status = "accepted"
  BY DEF OutputInv, turnVars
<1>6. \A q \in Processes : RequestSound(request'[q], operation', sounded')
  <2> SUFFICES ASSUME NEW q \in Processes
               PROVE  RequestSound(request'[q], operation', sounded')
    OBVIOUS
  <2>1. CASE q = p
    BY <1>2, <1>3, <2>1 DEF RequestSound
  <2>2. CASE q # p
    BY <1>2, <2>2 DEF OutputInv, RequestSound
  <2> QED
    BY <2>1, <2>2
<1>7. \A q \in Processes : RoundSound(round'[q], request'[q], operation')
  BY <1>2 DEF OutputInv, RoundSound, turnVars
<1> QED
  BY <1>4, <1>5, <1>6, <1>7, OutputParts

\* The initial state.
LEMMA OutputInvInit == AutomaticInit => OutputInv
<1> SUFFICES ASSUME AutomaticInit
             PROVE  OutputInv
  OBVIOUS
<1>1. OutputTypes
  BY DEF AutomaticInit, ReplayInit, OutputTypes, NoOperation, OperationRecord, NoRequest, RequestRecord,
         RequestPlaces, NoRun, RunRecord, RunStatuses, NoRound, RoundRecord, RoundPlaces, ConfigRecord
<1> QED
  BY <1>1 DEF AutomaticInit, ReplayInit, OutputInv, NoOperation, NoRequest, NoRun, NoRound, RequestSound,
              RoundSound

\* What the settlements make of a run is never "played".
LEMMA RunStatusKind ==
  ASSUME NEW settled, NEW targets
  PROVE  /\ RunStatus(settled, targets) \in RunStatuses
         /\ RunStatus(settled, targets) \notin {"fallback_played", "restored"}
BY DEF RunStatus, RunStatuses

\* A refreshed run.
LEMMA RefreshedRun ==
  ASSUME OutputInv, NEW t \in Turns, Refresh(t)
  PROVE  /\ run' \in [Turns -> RunRecord]
         /\ \A s \in Turns : run'[s].status \in {"fallback_played", "restored"} =>
                run[s].status \in {"fallback_played", "restored"}
<1>1. run \in [Turns -> RunRecord]
  BY DEF OutputInv, OutputTypes
<1>2. PICK v : v = RunStatus(settlement'[t], run[t].targets)
  OBVIOUS
<1>3. run' = [run EXCEPT ![t].status = v, ![t].fresh = FALSE]
  BY <1>2 DEF Refresh
<1>4. v \in RunStatuses /\ v \notin {"fallback_played", "restored"}
  BY <1>2, RunStatusKind
<1> QED
  BY <1>1, <1>3, <1>4 DEF RunRecord

\* Scheduling, settling and configuring.
LEMMA ScheduleOutput ==
  ASSUME OutputInv, NEW t \in Turns, NEW targets \in SUBSET Targets,
         NEW trigger \in {"configured_route", "long_sentence"}, Schedule(t, targets, trigger)
  PROVE  OutputInv'
<1>1. /\ run \in [Turns -> RunRecord] /\ config \in ConfigRecord /\ round \in [Processes -> RoundRecord]
  BY DEF OutputInv, OutputTypes
<1>2. config.version \in Nat
  BY <1>1 DEF ConfigRecord
<1> DEFINE r == [status |-> "pending", trigger |-> trigger, targets |-> targets,
                 version |-> config.version, fresh |-> FALSE]
<1>3. r \in RunRecord /\ r.status = "pending"
  BY <1>2 DEF RunRecord, RunStatuses
<1>4. run' = [run EXCEPT ![t] = r] /\ UNCHANGED <<replayVars, config, round>>
  BY DEF Schedule
<1> HIDE DEF r
<1>5. /\ run' \in [Turns -> RunRecord]
      /\ \A s \in Turns : run'[s].status \in {"fallback_played", "restored"} =>
            run[s].status \in {"fallback_played", "restored"}
  BY <1>1, <1>3, <1>4
<1> QED
  BY <1>1, <1>4, <1>5, QuietOutput

\* A settlement refreshes the run, and never to "played".
LEMMA SettleOutput ==
  ASSUME OutputInv, NEW t \in Turns, NEW x \in Targets,
         NEW outcome \in {"sent", "failed", "unknown"}, Settle(t, x, outcome)
  PROVE  OutputInv'
<1>1. config \in ConfigRecord /\ round \in [Processes -> RoundRecord]
  BY DEF OutputInv, OutputTypes
<1>2. Refresh(t) /\ UNCHANGED <<replayVars, config, round>>
  BY DEF Settle
<1> QED
  BY <1>1, <1>2, RefreshedRun, QuietOutput

\* The user retries a message, or chooses a configuration.
LEMMA UserOutput ==
  ASSUME OutputInv,
         \/ \E t \in Turns, x \in Targets : UserRetry(t, x)
         \/ \E spoken \in BOOLEAN : UserConfig(spoken)
  PROVE  OutputInv'
<1>1. /\ run \in [Turns -> RunRecord] /\ config \in ConfigRecord /\ round \in [Processes -> RoundRecord]
  BY DEF OutputInv, OutputTypes
<1>2. UNCHANGED <<replayVars, run, round>>
  BY DEF UserRetry, UserConfig
<1>3. config' \in ConfigRecord
  BY <1>1 DEF UserRetry, UserConfig, ConfigRecord
<1> QED
  BY <1>1, <1>2, <1>3, QuietOutput

\* The lease on a fallback runs out.
LEMMA FallbackLeaseOutput ==
  ASSUME OutputInv, NEW t \in Turns, FallbackLeaseExpires(t)
  PROVE  OutputInv'
<1>1. /\ run \in [Turns -> RunRecord] /\ config \in ConfigRecord /\ round \in [Processes -> RoundRecord]
  BY DEF OutputInv, OutputTypes
<1>2. /\ run' \in [Turns -> RunRecord]
      /\ \A s \in Turns : run'[s].status = run[s].status
  BY <1>1 DEF FallbackLeaseExpires, RunRecord
<1>3. UNCHANGED <<replayVars, config, round>>
  BY DEF FallbackLeaseExpires
<1> QED
  BY <1>1, <1>2, <1>3, QuietOutput

\* The steps of a round outside its request.
LEMMA ListOutput ==
  ASSUME OutputInv, NEW p \in Processes, List(p)
  PROVE  OutputInv'
<1>1. PICK r \in RoundRecord : /\ r.at \in {"idle", "retry", "recover", "restore"}
                               /\ round' = [round EXCEPT ![p] = r]
  <2>1. RetryCandidates \in SUBSET Turns /\ RecoveryCandidates \in SUBSET Turns
        /\ RestoreCandidates \in SUBSET Turns
    BY DEF RetryCandidates, RecoveryCandidates, RestoreCandidates
  <2>2. NoRound \in RoundRecord /\ NoRound.at = "idle"
    BY DEF NoRound, RoundRecord, RoundPlaces
  <2>3. \A place \in {"retry", "recover", "restore"}, turns \in SUBSET Turns :
            /\ [NoRound EXCEPT !.at = place, !.turns = turns] \in RoundRecord
            /\ [NoRound EXCEPT !.at = place, !.turns = turns].at = place
    BY DEF NoRound, RoundRecord, RoundPlaces
  <2>4. \/ Lists(p, "retry", RetryCandidates) \/ Lists(p, "recover", RecoveryCandidates)
        \/ Lists(p, "restore", RestoreCandidates) \/ EndRound(p)
    BY DEF List
  <2> QED
    BY <2>1, <2>2, <2>3, <2>4 DEF Lists, EndRound
<1>2. UNCHANGED <<replayVars, run>> /\ config' = config /\ config \in ConfigRecord
  BY DEF List, OutputInv, OutputTypes
<1> QED
  BY <1>1, <1>2, QuietRound

\* The worker reads the failed targets of a run.
LEMMA RetryTurnOutput ==
  ASSUME OutputInv, NEW p \in Processes, NEW t \in Turns, RetryTurn(p, t)
  PROVE  OutputInv'
<1>1. /\ round[p] \in RoundRecord /\ run[t] \in RunRecord
  BY DEF OutputInv, OutputTypes
<1>2. PICK failed \in SUBSET Targets, place \in {"target", "retry"} :
        round' = [round EXCEPT ![p] = [round[p] EXCEPT !.turns = round[p].turns \ {t}, !.turn = t,
                                            !.at = place, !.targets = failed]]
  <2> DEFINE failed == {x \in WithStatus(settlement[t], run[t].targets, "failed") :
                            outbound[t][x].attempts < MaxAutomaticTargetAttempts}
             place == IF run[t].status = "partially_succeeded" /\ failed # {} THEN "target" ELSE "retry"
  <2>1. failed \in SUBSET Targets
    BY <1>1 DEF WithStatus, RunRecord
  <2>2. place \in {"target", "retry"}
    OBVIOUS
  <2>3. round' = [round EXCEPT ![p] = [round[p] EXCEPT !.turns = round[p].turns \ {t}, !.turn = t,
                                            !.at = place, !.targets = failed]]
    BY DEF RetryTurn
  <2> HIDE DEF failed, place
  <2> QED
    BY <2>1, <2>2, <2>3
<1> DEFINE r == [round[p] EXCEPT !.turns = round[p].turns \ {t}, !.turn = t,
                                            !.at = place, !.targets = failed]
<1>3. r \in RoundRecord /\ r.at = place
  BY <1>1 DEF RoundRecord, RoundPlaces
<1>4. UNCHANGED <<replayVars, run>> /\ config' = config /\ config \in ConfigRecord
  BY DEF RetryTurn, OutputInv, OutputTypes
<1>5. round' = [round EXCEPT ![p] = r]
  BY <1>2
<1> HIDE DEF r
<1> QED
  BY <1>3, <1>4, <1>5, QuietRound

\* It retries one, or its round ends.
LEMMA RetryTargetOutput ==
  ASSUME OutputInv, NEW p \in Processes, NEW x \in Targets, RetryTarget(p, x)
  PROVE  OutputInv'
<1>1. /\ round \in [Processes -> RoundRecord] /\ run \in [Turns -> RunRecord]
      /\ config' \in ConfigRecord /\ UNCHANGED replayVars
  BY DEF OutputInv, OutputTypes, RetryTarget
<1>2. PICK t : t = round[p].turn
  OBVIOUS
<1>3. /\ run' \in [Turns -> RunRecord]
      /\ \A s \in Turns : run'[s].status \in {"fallback_played", "restored"} =>
            run[s].status \in {"fallback_played", "restored"}
  <2>1. CASE run' = run
    BY <1>1, <2>1
  <2>2. CASE Refresh(t)
    <3>1. CASE t \in Turns
      BY <2>2, <3>1, RefreshedRun
    <3>2. CASE t \notin Turns
      <4>1. run' = run
        BY <1>1, <2>2, <3>2 DEF Refresh
      <4> QED
        BY <1>1, <4>1
    <3> QED
      BY <3>1, <3>2
  <2> QED
    BY <1>2, <2>1, <2>2 DEF RetryTarget
<1>4. PICK r \in RoundRecord : r.at \in {"retry", "target", "idle"} /\ round' = [round EXCEPT ![p] = r]
  <2>1. CASE EndRound(p)
    <3>1. NoRound \in RoundRecord /\ NoRound.at = "idle"
      BY DEF NoRound, RoundRecord, RoundPlaces
    <3> QED
      BY <2>1, <3>1 DEF EndRound
  <2>2. CASE ~EndRound(p)
    <3> DEFINE rest == round[p].targets \ {x}
               place == IF rest = {} THEN "retry" ELSE "target"
               r == [round[p] EXCEPT !.targets = rest, !.at = place]
    <3>1. round' = [round EXCEPT ![p] = r]
      BY <2>2 DEF RetryTarget
    <3>2. place \in {"retry", "target"}
      OBVIOUS
    <3>3. r \in RoundRecord /\ r.at = place
      BY <1>1 DEF RoundRecord, RoundPlaces
    <3> HIDE DEF r, place
    <3> QED
      BY <3>1, <3>2, <3>3
  <2> QED
    BY <2>1, <2>2
<1>5. /\ round' \in [Processes -> RoundRecord]
      /\ \A q \in Processes : round'[q] = IF q = p THEN r ELSE round[q]
  BY <1>1, <1>4
<1> QED
  BY <1>1, <1>3, <1>4, <1>5, QuietOutput

\* It claims the fallback: the round of a call has a turn.
LEMMA ClaimFallbackOutput ==
  ASSUME OutputInv, NEW p \in Processes, NEW t \in Turns, ClaimFallback(p, t)
  PROVE  OutputInv'
<1>1. /\ round \in [Processes -> RoundRecord] /\ run \in [Turns -> RunRecord]
      /\ config' \in ConfigRecord /\ UNCHANGED replayVars
  BY DEF OutputInv, OutputTypes, ClaimFallback
<1>2. round[p] \in RoundRecord /\ round[p].at = "recover"
  BY <1>1 DEF ClaimFallback, In
<1>3. /\ run' \in [Turns -> RunRecord]
      /\ \A s \in Turns : run'[s].status \in {"fallback_played", "restored"} =>
            run[s].status \in {"fallback_played", "restored"}
  BY <1>1 DEF ClaimFallback, RunRecord, RunStatuses
<1>4. PICK r \in RoundRecord : /\ r.at \in {"call", "recover", "idle"} /\ round' = [round EXCEPT ![p] = r]
                               /\ r.at = "call" => r.turn = t
  <2>1. CASE EndRound(p)
    <3>1. NoRound \in RoundRecord /\ NoRound.at = "idle"
      BY DEF NoRound, RoundRecord, RoundPlaces
    <3> QED
      BY <2>1, <3>1 DEF EndRound
  <2>2. CASE round' = [round EXCEPT ![p] = [@ EXCEPT !.turns = round[p].turns \ {t}, !.turn = t, !.at = "call"]]
    <3> DEFINE r == [round[p] EXCEPT !.turns = round[p].turns \ {t}, !.turn = t, !.at = "call"]
    <3>1. r \in RoundRecord /\ r.at = "call" /\ r.turn = t
      BY <1>2 DEF RoundRecord, RoundPlaces
    <3>2. round' = [round EXCEPT ![p] = r]
      BY <2>2
    <3> HIDE DEF r
    <3> QED
      BY <3>1, <3>2
  <2>3. CASE round' = [round EXCEPT ![p].turns = @ \ {t}]
    <3> DEFINE r == [round[p] EXCEPT !.turns = round[p].turns \ {t}]
    <3>1. r \in RoundRecord /\ r.at = "recover"
      BY <1>2 DEF RoundRecord, RoundPlaces
    <3>2. round' = [round EXCEPT ![p] = r]
      BY <2>3
    <3> HIDE DEF r
    <3> QED
      BY <3>1, <3>2
  <2> QED
    BY <2>1, <2>2, <2>3 DEF ClaimFallback
<1>5. /\ round' \in [Processes -> RoundRecord]
      /\ \A q \in Processes : round'[q] = IF q = p THEN r ELSE round[q]
  BY <1>1, <1>4
<1> QED
  BY <1>1, <1>3, <1>4, <1>5, QuietOutput

\* It reads the configuration before a restore.
LEMMA RestoreTurnOutput ==
  ASSUME OutputInv, NEW p \in Processes, NEW t \in Turns, RestoreTurn(p, t)
  PROVE  OutputInv'
<1>1. /\ round[p] \in RoundRecord /\ config \in ConfigRecord
      /\ config' = config /\ UNCHANGED <<replayVars, run>>
  BY DEF OutputInv, OutputTypes, RestoreTurn
<1>2. CASE EndRound(p)
  <2>1. NoRound \in RoundRecord /\ NoRound.at = "idle" /\ round' = [round EXCEPT ![p] = NoRound]
    BY <1>2 DEF NoRound, RoundRecord, RoundPlaces, EndRound
  <2> QED
    BY <1>1, <2>1, QuietRound
<1>3. CASE ~EndRound(p)
  <2> DEFINE place == IF run[t].trigger = "long_sentence" \/ config.version > run[t].version
                          \/ config.spoken THEN "restored" ELSE "create"
             r == [round[p] EXCEPT !.turns = round[p].turns \ {t}, !.turn = t,
                                   !.seen = config.version, !.at = place]
  <2>1. round' = [round EXCEPT ![p] = r]
    BY <1>3 DEF RestoreTurn
  <2>2. place \in {"restored", "create"}
    OBVIOUS
  <2> HIDE DEF place
  <2>3. r \in RoundRecord /\ r.at = place
    BY <1>1, <2>2 DEF RoundRecord, RoundPlaces, ConfigRecord
  <2> HIDE DEF r
  <2> QED
    BY <1>1, <2>1, <2>2, <2>3, QuietRound
<1> QED
  BY <1>2, <1>3

\* It creates the restoring configuration.
LEMMA CreateConfigOutput ==
  ASSUME OutputInv, NEW p \in Processes, CreateConfig(p)
  PROVE  OutputInv'
<1>1. /\ round[p] \in RoundRecord /\ UNCHANGED <<replayVars, run>> /\ config' \in ConfigRecord
  <2>1. config \in ConfigRecord
    BY DEF OutputInv, OutputTypes
  <2>2. PICK v \in Nat : v = config.version + 1
    BY <2>1 DEF ConfigRecord
  <2>3. config' = config \/ config' = [version |-> v, spoken |-> TRUE]
    BY <2>2 DEF CreateConfig
  <2>4. [version |-> v, spoken |-> TRUE] \in ConfigRecord
    BY DEF ConfigRecord
  <2>5. config' \in ConfigRecord
    BY <2>1, <2>3, <2>4
  <2> QED
    BY <2>5 DEF OutputInv, OutputTypes, CreateConfig
<1> DEFINE r == [round[p] EXCEPT !.at = "restored"]
<1>2. r \in RoundRecord /\ r.at = "restored"
  BY <1>1 DEF RoundRecord, RoundPlaces
<1>3. round' = [round EXCEPT ![p] = r]
  BY DEF CreateConfig, RoundGoes
<1> HIDE DEF r
<1> QED
  BY <1>1, <1>2, <1>3, QuietRound

\* It marks a run restored that was marked played.
LEMMA MarkRestoredOutput ==
  ASSUME OutputInv, NEW p \in Processes, MarkRestored(p)
  PROVE  OutputInv'
<1>1. /\ round \in [Processes -> RoundRecord] /\ run \in [Turns -> RunRecord]
      /\ config' \in ConfigRecord /\ UNCHANGED replayVars
  BY DEF OutputInv, OutputTypes, MarkRestored
<1>2. PICK t : t = round[p].turn
  OBVIOUS
<1>3. /\ run' \in [Turns -> RunRecord]
      /\ \A s \in Turns : run'[s].status \in {"fallback_played", "restored"} =>
            run[s].status \in {"fallback_played", "restored"}
  <2>1. \/ run' = run
        \/ run[t].status = "fallback_played" /\ run' = [run EXCEPT ![t].status = "restored"]
    BY <1>2 DEF MarkRestored
  <2> QED
    BY <1>1, <2>1 DEF RunRecord, RunStatuses
<1>4. PICK r \in RoundRecord : r.at \in {"restore", "idle"} /\ round' = [round EXCEPT ![p] = r]
  <2> DEFINE r == [NoRound EXCEPT !.at = "restore", !.turns = round[p].turns]
  <2>1. NoRound \in RoundRecord /\ NoRound.at = "idle"
    BY DEF NoRound, RoundRecord, RoundPlaces
  <2>2. r \in RoundRecord /\ r.at = "restore"
    <3>1. round[p].turns \in SUBSET Turns
      BY <1>1 DEF RoundRecord
    <3> QED
      BY <3>1 DEF NoRound, RoundRecord, RoundPlaces
  <2>3. round' = [round EXCEPT ![p] = NoRound] \/ round' = [round EXCEPT ![p] = r]
    BY DEF MarkRestored, Onward, EndRound
  <2> HIDE DEF r
  <2> QED
    BY <2>1, <2>2, <2>3
<1>5. /\ round' \in [Processes -> RoundRecord]
      /\ \A q \in Processes : round'[q] = IF q = p THEN r ELSE round[q]
  BY <1>1, <1>4
<1> QED
  BY <1>1, <1>3, <1>4, <1>5, QuietOutput

\* The steps of a round around its request.
LEMMA CallOutput ==
  ASSUME OutputInv, NEW p \in Processes, Call(p)
  PROVE  OutputInv'
<1>1. /\ request \in [Processes -> RequestRecord] /\ round \in [Processes -> RoundRecord]
      /\ UNCHANGED <<operation, sounded, run, config>>
  BY DEF Call, OutputInv, OutputTypes
<1>2. round[p].turn \in Turns
  BY DEF Call, In, OutputInv, RoundSound
<1> DEFINE q == [at |-> "claim", turn |-> round[p].turn]
           r == [round[p] EXCEPT !.at = "wait"]
<1>3. q \in RequestRecord /\ q.at = "claim" /\ q.turn = round[p].turn
  BY <1>2 DEF RequestRecord, RequestPlaces
<1>4. r \in RoundRecord /\ r.at = "wait" /\ r.turn = round[p].turn
  BY <1>1 DEF RoundRecord, RoundPlaces
<1>5. request' = [request EXCEPT ![p] = q] /\ round' = [round EXCEPT ![p] = r]
  BY DEF Call, RoundGoes
<1> HIDE DEF q, r
<1>6. /\ request' \in [Processes -> RequestRecord] /\ round' \in [Processes -> RoundRecord]
      /\ \A o \in Processes : request'[o] = IF o = p THEN q ELSE request[o]
      /\ \A o \in Processes : round'[o] = IF o = p THEN r ELSE round[o]
  BY <1>1, <1>3, <1>4, <1>5
<1>7. OutputTypes'
  BY <1>1, <1>6 DEF OutputInv, OutputTypes
<1>8. \A o \in Processes : RequestSound(request'[o], operation', sounded')
  BY <1>1, <1>2, <1>3, <1>6 DEF OutputInv, RequestSound
<1>9. \A o \in Processes : RoundSound(round'[o], request'[o], operation')
  BY <1>1, <1>2, <1>3, <1>4, <1>6 DEF OutputInv, RoundSound
<1> QED
  BY <1>1, <1>7, <1>8, <1>9, OutputParts DEF OutputInv

\* The answer "ok" is read: the operation of the round's turn is accepted.
LEMMA AnswerOutput ==
  ASSUME OutputInv, NEW p \in Processes, Answer(p)
  PROVE  OutputInv'
<1>1. /\ request \in [Processes -> RequestRecord] /\ round \in [Processes -> RoundRecord]
      /\ UNCHANGED <<operation, sounded, run, config>>
  BY DEF Answer, OutputInv, OutputTypes
<1>2. request[p].turn \in Turns /\ request[p].turn = round[p].turn
  BY DEF Answer, In, OutputInv, RequestSound, RoundSound
<1>3. NoRequest \in RequestRecord /\ NoRequest.at = "none"
  BY DEF NoRequest, RequestRecord, RequestPlaces
<1>4. PICK r \in RoundRecord : /\ round' = [round EXCEPT ![p] = r]
                               /\ r.at \in {"idle", "mark"}
                               /\ r.at = "mark" => r.turn = round[p].turn /\ request[p].at = "ok"
  <2>1. CASE EndRound(p)
    <3>1. NoRound \in RoundRecord /\ NoRound.at = "idle"
      BY DEF NoRound, RoundRecord, RoundPlaces
    <3> QED
      BY <2>1, <3>1 DEF EndRound
  <2>2. CASE At(p, "ok") /\ RoundGoes(p, "mark")
    <3> DEFINE r == [round[p] EXCEPT !.at = "mark"]
    <3>1. r \in RoundRecord /\ r.at = "mark" /\ r.turn = round[p].turn
      BY <1>1 DEF RoundRecord, RoundPlaces
    <3>2. round' = [round EXCEPT ![p] = r] /\ request[p].at = "ok"
      BY <2>2 DEF RoundGoes, At
    <3> HIDE DEF r
    <3> QED
      BY <3>1, <3>2
  <2> QED
    BY <2>1, <2>2 DEF Answer
<1>5. request' = [request EXCEPT ![p] = NoRequest]
  BY DEF Answer
<1>6. /\ request' \in [Processes -> RequestRecord] /\ round' \in [Processes -> RoundRecord]
      /\ \A o \in Processes : request'[o] = IF o = p THEN NoRequest ELSE request[o]
      /\ \A o \in Processes : round'[o] = IF o = p THEN r ELSE round[o]
  BY <1>1, <1>3, <1>4, <1>5
<1>7. OutputTypes'
  BY <1>1, <1>6 DEF OutputInv, OutputTypes
<1>8. \A o \in Processes : RequestSound(request'[o], operation', sounded')
  BY <1>1, <1>3, <1>6 DEF OutputInv, RequestSound
<1>9. \A o \in Processes : RoundSound(round'[o], request'[o], operation')
  <2> SUFFICES ASSUME NEW o \in Processes
               PROVE  RoundSound(round'[o], request'[o], operation')
    OBVIOUS
  <2>1. CASE o # p
    BY <1>1, <1>6, <2>1 DEF OutputInv, RoundSound
  <2>2. CASE o = p
    <3>1. request[p].at = "ok" => operation[request[p].turn].status = "accepted"
      BY DEF OutputInv, RequestSound
    <3> QED
      BY <1>1, <1>2, <1>4, <1>6, <2>2, <3>1 DEF RoundSound
  <2> QED
    BY <2>1, <2>2
<1> QED
  BY <1>1, <1>7, <1>8, <1>9, OutputParts DEF OutputInv

\* The run is marked played.
LEMMA MarkPlayedOutput ==
  ASSUME OutputInv, NEW p \in Processes, MarkPlayed(p)
  PROVE  OutputInv'
<1>1. /\ round \in [Processes -> RoundRecord] /\ run \in [Turns -> RunRecord]
      /\ config' = config /\ UNCHANGED replayVars
  BY DEF OutputInv, OutputTypes, MarkPlayed
<1>2. PICK t : t = round[p].turn
  OBVIOUS
<1>3. t \in Turns /\ operation[t].status = "accepted"
  BY <1>2 DEF MarkPlayed, In, OutputInv, RoundSound
<1>4. /\ run' \in [Turns -> RunRecord]
      /\ \A s \in Turns : run'[s].status \in {"fallback_played", "restored"} =>
            operation[s].status = "accepted"
  <2>1. \/ run' = run
        \/ run' = [run EXCEPT ![t].status = "fallback_played", ![t].fresh = FALSE]
    BY <1>2 DEF MarkPlayed
  <2> QED
    BY <1>1, <1>3, <2>1 DEF RunRecord, RunStatuses, OutputInv
<1>5. PICK r \in RoundRecord : r.at \in {"recover", "idle"} /\ round' = [round EXCEPT ![p] = r]
  <2> DEFINE r == [NoRound EXCEPT !.at = "recover", !.turns = round[p].turns]
  <2>1. NoRound \in RoundRecord /\ NoRound.at = "idle"
    BY DEF NoRound, RoundRecord, RoundPlaces
  <2>2. r \in RoundRecord /\ r.at = "recover"
    <3>1. round[p].turns \in SUBSET Turns
      BY <1>1 DEF RoundRecord
    <3> QED
      BY <3>1 DEF NoRound, RoundRecord, RoundPlaces
  <2>3. round' = [round EXCEPT ![p] = NoRound] \/ round' = [round EXCEPT ![p] = r]
    BY DEF MarkPlayed, Onward, EndRound
  <2> HIDE DEF r
  <2> QED
    BY <2>1, <2>2, <2>3
<1>6. /\ round' \in [Processes -> RoundRecord]
      /\ \A q \in Processes : round'[q] = IF q = p THEN r ELSE round[q]
  BY <1>1, <1>5
<1>7. OutputTypes'
  BY <1>1, <1>4, <1>6 DEF OutputInv, OutputTypes, replayVars
<1>8. \A q \in Processes : RoundSound(round'[q], request'[q], operation')
  BY <1>1, <1>5, <1>6 DEF OutputInv, RoundSound, replayVars
<1> QED
  BY <1>1, <1>4, <1>7, <1>8, OutputParts DEF OutputInv, replayVars

\* The API process ends, or nobody is there to read an answer.
LEMMA GoneOutput ==
  ASSUME OutputInv, NEW p \in Processes, ApiCrash(p) \/ Unread(p)
  PROVE  OutputInv'
<1>1. /\ request \in [Processes -> RequestRecord] /\ round \in [Processes -> RoundRecord]
      /\ UNCHANGED <<operation, sounded, run, config>>
  BY DEF ApiCrash, Unread, turnVars, OutputInv, OutputTypes
<1>2. NoRequest \in RequestRecord /\ NoRequest.at = "none"
  BY DEF NoRequest, RequestRecord, RequestPlaces
<1>3. NoRound \in RoundRecord /\ NoRound.at = "idle"
  BY DEF NoRound, RoundRecord, RoundPlaces
<1>4. \/ round' = [round EXCEPT ![p] = NoRound] /\ request' = request
      \/ round[p].at # "wait" /\ round' = round /\ request' = [request EXCEPT ![p] = NoRequest]
  BY DEF ApiCrash, Unread, EndRound, In, turnVars
<1>5. /\ request' \in [Processes -> RequestRecord] /\ round' \in [Processes -> RoundRecord]
      /\ \A o \in Processes : request'[o] = request[o]
                                   \/ (o = p /\ request'[o] = NoRequest /\ round[p].at # "wait" /\ round'[p] = round[p])
      /\ \A o \in Processes : round'[o] = round[o] \/ round'[o] = NoRound
      /\ request' = request \/ round' = round
  BY <1>1, <1>2, <1>3, <1>4
<1>6. OutputTypes'
  BY <1>1, <1>5 DEF OutputInv, OutputTypes
<1>7. \A o \in Processes : RequestSound(request'[o], operation', sounded')
  BY <1>1, <1>2, <1>5 DEF OutputInv, RequestSound
<1>8. \A o \in Processes : RoundSound(round'[o], request'[o], operation')
  BY <1>1, <1>2, <1>3, <1>5 DEF OutputInv, RoundSound
<1> QED
  BY <1>1, <1>6, <1>7, <1>8, OutputParts DEF OutputInv

\* The realtime side.
LEMMA ClaimOperationOutput ==
  ASSUME OutputInv, NEW p \in Processes, ClaimOperation(p), UNCHANGED turnVars
  PROVE  OutputInv'
<1>1. /\ operation \in [Turns -> OperationRecord] /\ sounded \in [Turns -> Nat] /\ sounded' = sounded
      /\ request[p].at = "claim" /\ "claim" # "none"
  BY DEF ClaimOperation, At, OutputInv, OutputTypes
<1>2. PICK t \in Turns : t = request[p].turn
  BY <1>1 DEF OutputInv, RequestSound
<1> DEFINE o == [status |-> "processing", token |-> p, expired |-> FALSE]
<1>3. o \in OperationRecord /\ o.status = "processing"
  BY DEF OperationRecord
<1> HIDE DEF o
<1>4. CASE Claimable(t) /\ operation' = [operation EXCEPT ![t] = o] /\ RequestGoes(p, "play")
  <2>1. /\ operation' \in [Turns -> OperationRecord]
        /\ \A s \in Turns : operation'[s] = IF s = t THEN o ELSE operation[s]
        /\ operation[t].status # "accepted"
    BY <1>1, <1>3, <1>4 DEF Claimable
  <2>2. "play" \in RequestPlaces \ {"none"} /\ request' = [request EXCEPT ![p].at = "play"]
    BY <1>4 DEF RequestPlaces, RequestGoes
  <2>3. \A s \in Turns : operation'[s].status = "accepted" => sounded'[s] > 0
    BY <1>1, <1>3, <2>1 DEF OutputInv
  <2> QED
    BY <1>1, <2>1, <2>2, <2>3, HandlerOutput
<1>5. CASE operation' = operation /\ \/ RequestGoes(p, "ok") /\ operation[t].status = "accepted"
                                     \/ RequestGoes(p, "error")
  <2>1. PICK place \in RequestPlaces \ {"none", "complete"} :
            /\ request' = [request EXCEPT ![p].at = place]
            /\ place = "ok" => operation[t].status = "accepted"
    BY <1>5 DEF RequestPlaces, RequestGoes
  <2>2. \A s \in Turns : operation'[s].status = "accepted" => sounded'[s] > 0
    BY <1>1, <1>5 DEF OutputInv
  <2> QED
    BY <1>1, <1>2, <1>5, <2>1, <2>2, HandlerOutput
<1> QED
  BY <1>2, <1>4, <1>5 DEF ClaimOperation, o

\* Playback starts, ends or breaks off; what ends it was heard.
LEMMA PlaybackOutput ==
  ASSUME OutputInv, NEW p \in Processes, StartPlayback(p) \/ FinishPlayback(p) \/ RealtimeCrash(p),
         UNCHANGED turnVars
  PROVE  OutputInv'
<1>1. /\ operation \in [Turns -> OperationRecord] /\ sounded \in [Turns -> Nat] /\ operation' = operation
      /\ request[p].at # "none"
  BY DEF StartPlayback, FinishPlayback, RealtimeCrash, At, OutputInv, OutputTypes
<1>2. PICK t \in Turns : t = request[p].turn
  BY <1>1 DEF OutputInv, RequestSound
<1>3. PICK n : n = sounded[t] + 1
  OBVIOUS
<1>4. n \in Nat /\ n > 0
  BY <1>1, <1>3
<1>5. PICK place \in RequestPlaces \ {"none", "ok"} :
        /\ request' = [request EXCEPT ![p].at = place]
        /\ \/ sounded' = sounded /\ place # "complete"
           \/ sounded' = [sounded EXCEPT ![t] = n]
  BY <1>2, <1>3 DEF StartPlayback, FinishPlayback, RealtimeCrash, RequestPlaces, RequestGoes
<1>6. /\ sounded' \in [Turns -> Nat]
      /\ \A s \in Turns : sounded[s] > 0 => sounded'[s] > 0
      /\ place = "complete" => sounded'[t] > 0
  BY <1>1, <1>4, <1>5
<1>7. \A s \in Turns : operation'[s].status = "accepted" => sounded'[s] > 0
  BY <1>1, <1>6 DEF OutputInv
<1> QED
  BY <1>1, <1>2, <1>5, <1>6, <1>7, HandlerOutput

\* The operation is completed by the request that played it.
LEMMA CompleteOutput ==
  ASSUME OutputInv, NEW p \in Processes, CompleteOperation(p), UNCHANGED turnVars
  PROVE  OutputInv'
<1>1. /\ operation \in [Turns -> OperationRecord] /\ sounded \in [Turns -> Nat] /\ sounded' = sounded
      /\ request[p].at = "complete" /\ "complete" # "none"
  BY DEF CompleteOperation, At, OutputInv, OutputTypes
<1>2. PICK t \in Turns : t = request[p].turn /\ sounded[t] > 0
  BY <1>1 DEF OutputInv, RequestSound
<1> DEFINE o == [status |-> "accepted", token |-> Nil, expired |-> FALSE]
<1>3. o \in OperationRecord /\ o.status = "accepted"
  BY DEF OperationRecord
<1> HIDE DEF o
<1>4. CASE operation' = [operation EXCEPT ![t] = o] /\ RequestGoes(p, "ok")
  <2>1. /\ operation' \in [Turns -> OperationRecord]
        /\ \A s \in Turns : operation'[s] = IF s = t THEN o ELSE operation[s]
    BY <1>1, <1>3, <1>4
  <2>2. "ok" \in RequestPlaces \ {"none"} /\ request' = [request EXCEPT ![p].at = "ok"]
    BY <1>4 DEF RequestPlaces, RequestGoes
  <2>3. \A s \in Turns : operation'[s].status = "accepted" => sounded'[s] > 0
    BY <1>1, <1>2, <2>1 DEF OutputInv
  <2> QED
    BY <1>1, <1>2, <1>3, <2>1, <2>2, <2>3, HandlerOutput
<1>5. CASE operation' = operation /\ \/ RequestGoes(p, "ok") /\ operation[t].status = "accepted"
                                     \/ RequestGoes(p, "error")
  <2>1. PICK place \in RequestPlaces \ {"none", "complete"} :
            /\ request' = [request EXCEPT ![p].at = place]
            /\ place = "ok" => operation[t].status = "accepted"
    BY <1>5 DEF RequestPlaces, RequestGoes
  <2>2. \A s \in Turns : operation'[s].status = "accepted" => sounded'[s] > 0
    BY <1>1, <1>5 DEF OutputInv
  <2> QED
    BY <1>1, <1>2, <1>5, <2>1, <2>2, HandlerOutput
<1> QED
  BY <1>2, <1>4, <1>5 DEF CompleteOperation, o

\* An abort takes back only what is in progress.
LEMMA AbortOutput ==
  ASSUME OutputInv, NEW p \in Processes, AbortOperation(p), UNCHANGED turnVars
  PROVE  OutputInv'
<1>1. /\ operation \in [Turns -> OperationRecord] /\ sounded \in [Turns -> Nat] /\ sounded' = sounded
      /\ request[p].at = "abort" /\ "abort" # "none"
  BY DEF AbortOperation, At, OutputInv, OutputTypes
<1>2. PICK t \in Turns : t = request[p].turn
  BY <1>1 DEF OutputInv, RequestSound
<1>3. NoOperation \in OperationRecord /\ NoOperation.status = "none"
  BY DEF NoOperation, OperationRecord
<1>4. \/ operation' = operation
      \/ operation[t].status = "processing" /\ operation' = [operation EXCEPT ![t] = NoOperation]
  BY <1>2 DEF AbortOperation, Owns
<1>5. /\ operation' \in [Turns -> OperationRecord]
      /\ \A s \in Turns : operation'[s].status = "accepted" <=> operation[s].status = "accepted"
  BY <1>1, <1>3, <1>4
<1>6. "error" \in RequestPlaces \ {"none"} /\ request' = [request EXCEPT ![p].at = "error"]
  BY DEF AbortOperation, RequestPlaces, RequestGoes
<1>7. \A s \in Turns : operation'[s].status = "accepted" => sounded'[s] > 0
  BY <1>1, <1>5 DEF OutputInv
<1> QED
  BY <1>1, <1>5, <1>6, <1>7, HandlerOutput

\* A claim that expires stays in progress.
LEMMA ExpireOutput ==
  ASSUME OutputInv, NEW t \in Turns, RealtimeExpires(t)
  PROVE  OutputInv'
<1>1. /\ operation \in [Turns -> OperationRecord]
      /\ UNCHANGED <<request, sounded, run, round, config>>
  BY DEF RealtimeExpires, ClaimExpires, turnVars, OutputInv, OutputTypes
<1>2. /\ operation' \in [Turns -> OperationRecord]
      /\ \A s \in Turns : operation'[s].status = operation[s].status
  BY <1>1 DEF RealtimeExpires, ClaimExpires, OperationRecord
<1>3. OutputTypes'
  BY <1>1, <1>2 DEF OutputInv, OutputTypes
<1>4. \A o \in Processes : RequestSound(request'[o], operation', sounded')
  BY <1>1, <1>2 DEF OutputInv, RequestSound
<1>5. \A o \in Processes : RoundSound(round'[o], request'[o], operation')
  BY <1>1, <1>2 DEF OutputInv, RoundSound
<1> QED
  BY <1>1, <1>2, <1>3, <1>4, <1>5, OutputParts DEF OutputInv

\* Every step keeps the invariant.
LEMMA OutputInvStep == OutputInv /\ [AutomaticNext]_automaticVars => OutputInv'
<1> SUFFICES ASSUME OutputInv, [AutomaticNext]_automaticVars
             PROVE  OutputInv'
  OBVIOUS
<1>1. ASSUME NEW p \in Processes, RoundStep(p)
      PROVE  OutputInv'
  BY <1>1, ListOutput, CallOutput, AnswerOutput, MarkPlayedOutput, CreateConfigOutput, MarkRestoredOutput,
     RetryTurnOutput, ClaimFallbackOutput, RestoreTurnOutput, RetryTargetOutput DEF RoundStep
<1>2. ASSUME NEW p \in Processes, Handle(p)
      PROVE  OutputInv'
  BY <1>2, ClaimOperationOutput, PlaybackOutput, CompleteOutput, AbortOutput DEF Handle, HandlerStep
<1>3. CASE UNCHANGED automaticVars
  <2>1. UNCHANGED <<operation, request, sounded, run, round, config>>
    BY <1>3 DEF automaticVars, replayVars, turnVars
  <2> QED
    BY <2>1 DEF OutputInv, OutputTypes, RequestSound, RoundSound
<1>4. CASE AutomaticNext
  BY <1>1, <1>2, <1>4, ScheduleOutput, SettleOutput, UserOutput, FallbackLeaseOutput, ExpireOutput,
     GoneOutput, PlaybackOutput DEF AutomaticNext
<1> QED
  BY <1>3, <1>4

\* The invariant holds in every reachable state.
LEMMA OutputInvHolds == AutomaticSpec => []OutputInv
<1> QED
  BY OutputInvInit, OutputInvStep, PTL DEF AutomaticSpec

(* A run that is marked played, or whose spoken output is restored, was played *)
(* to its end and is recorded as accepted: an answer is "ok" only for an       *)
(* accepted operation, which nothing takes back, however requests, crashes and *)
(* lost answers interleave (fallback_playback.go, postgres_settlement.go:31).  *)
THEOREM PlayedHeardHolds == AutomaticSpec => []PlayedHeard
<1>1. OutputInv => PlayedHeard
  BY DEF OutputInv, PlayedHeard
<1> QED
  BY <1>1, OutputInvHolds, PTL
=============================================================================
