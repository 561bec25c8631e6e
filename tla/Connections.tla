------------------------------ MODULE Connections ------------------------------
(***************************************************************************)
(* The peer connections of one session: MemoryConnectionManager with its   *)
(* transports (webrtc/memory.go, webrtc/pion_transport.go), and the pages  *)
(* that offer them and post their ICE candidates (webrtc-session.ts).  The *)
(* manager's lock, a session's lock and the work outside of both are steps *)
(* of their own.  A session's generation, a connection, its transport and  *)
(* its page are named by the Open that made them.                          *)
(***************************************************************************)
EXTENDS Naturals, Sequences

CONSTANTS
    MaxOpens,        \* offers
    MaxCloses,       \* closes of the session
    OfferKeys,       \* their idempotency keys
    Followed,        \* the offers whose page's candidates are followed
    MaxCandidates,   \* ICE candidates a page gathers
    MaxNetFaults     \* failing creations, answers, closes and lost requests

ASSUME ConnectionsAssumption ==
    /\ MaxOpens \in Nat /\ MaxCloses \in Nat
    /\ MaxCandidates \in Nat /\ MaxNetFaults \in Nat

Opens == 1 .. MaxOpens
Closers == 1 .. MaxCloses
NoOpen == 0

VARIABLES
    opens,         \* the calls of Open: where, key, generation, connection joined
    closers,       \* the calls of Close
    registered,    \* the generation in the manager's table
    generations,   \* its closer, whether it is closed, its only record
    records,       \* each connection: opening, its error, attached transport
    transports,    \* "none", "open" or "closed", and the close error that stays
    pages,         \* the page of each connection
    posts,         \* its candidate requests, in the order of its promise queue
    remote,        \* candidates the transport took, and the end marker
    netFaults

connectionVars == <<opens, closers, registered, generations, records, transports,
                    pages, posts, remote, netFaults>>
serverVars == <<registered, generations, records, transports>>
pageSideVars == <<pages, posts, remote>>

ConnectionsInit ==
    /\ opens = [o \in Opens |-> [at |-> "idle", key |-> "none", gen |-> NoOpen, conn |-> NoOpen]]
    /\ closers = [k \in Closers |-> [at |-> "idle", gen |-> NoOpen, waits |-> 0]]
    /\ registered = NoOpen
    /\ generations = [o \in Opens |-> [closer |-> 0, closed |-> FALSE, record |-> NoOpen]]
    /\ records = [o \in Opens |-> [opening |-> FALSE, failed |-> FALSE, attached |-> FALSE]]
    /\ transports = [o \in Opens |-> [state |-> "none", closeErr |-> FALSE]]
    /\ pages = [o \in Opens |-> [gathered |-> 0, ended |-> FALSE, pending |-> <<>>,
                                 answered |-> FALSE, described |-> FALSE, refused |-> FALSE]]
    /\ posts = [o \in Opens |-> <<>>]
    /\ remote = [o \in Opens |-> [taken |-> <<>>, ended |-> FALSE, missing |-> FALSE]]
    /\ netFaults = 0

NetFault == netFaults < MaxNetFaults /\ netFaults' = netFaults + 1
NoNetFault == UNCHANGED netFaults
OpenAt(o, at) == opens' = [opens EXCEPT ![o].at = at]
CloserAt(k, at) == closers' = [closers EXCEPT ![k].at = at]

----------------------------------------------------------------------------
(* Open                                                                     *)

\* The session's generation is looked up or registered under the manager's lock.
GetOrCreate(o) ==
    /\ opens[o].at = "idle" /\ \A p \in 1 .. o - 1 : opens[p].at # "idle"
    /\ \E key \in OfferKeys :
         IF registered # NoOpen /\ generations[registered].closer # 0
         THEN OpenAt(o, "refused") /\ UNCHANGED registered
         ELSE /\ registered' = IF registered = NoOpen THEN o ELSE registered
              /\ opens' = [opens EXCEPT ![o].at = "reserve", ![o].key = key,
                                        ![o].gen = registered']
    /\ UNCHANGED <<closers, generations, records, transports, pageSideVars, netFaults>>

\* Under the session's lock: the same key joins, another connection refuses.
Reserve(o) ==
    /\ opens[o].at = "reserve"
    /\ LET g == opens[o].gen
           c == generations[g].record
       IN CASE generations[g].closed -> OpenAt(o, "refused") /\ UNCHANGED <<generations, records>>
            [] ~generations[g].closed /\ c # NoOpen ->
                 /\ opens' = [opens EXCEPT
                      ![o].at = IF opens[c].key # opens[o].key THEN "refused" ELSE "join",
                      ![o].conn = c]
                 /\ UNCHANGED <<generations, records>>
            [] OTHER ->
                 /\ opens' = [opens EXCEPT ![o].at = "create", ![o].conn = o]
                 /\ generations' = [generations EXCEPT ![g].record = o]
                 /\ records' = [records EXCEPT ![o].opening = TRUE]
    /\ UNCHANGED <<closers, registered, transports, pageSideVars, netFaults>>

Present(o) == ~generations[opens[o].gen].closed /\ generations[opens[o].gen].record = opens[o].conn

\* completeOpenFailure: the reservation goes, unless a Close took it.
Unreserve(o) ==
    /\ records' = [records EXCEPT ![o].opening = FALSE, ![o].failed = TRUE]
    /\ generations' = IF records[o].opening
                      THEN [generations EXCEPT ![opens[o].gen].record = NoOpen] ELSE generations

CreateTransport(o) ==
    /\ opens[o].at = "create"
    /\ \/ /\ NoNetFault
          /\ transports' = [transports EXCEPT ![o].state = "open"]
          /\ OpenAt(o, "attach") /\ UNCHANGED <<generations, records>>
       \/ /\ NetFault
          /\ Unreserve(o) /\ OpenAt(o, "refused") /\ UNCHANGED transports
    /\ UNCHANGED <<closers, registered, pageSideVars>>

\* Bug: a transport is attached whatever became of its record.
Attachable_Always(o) == TRUE

\* The record may have been closed while the transport was created.
Attachable(o) == Present(o)

AttachOpenTransport(o) ==
    /\ opens[o].at = "attach"
    /\ IF Attachable(o)
       THEN OpenAt(o, "answer") /\ records' = [records EXCEPT ![o].attached = TRUE]
       ELSE OpenAt(o, "discard") /\ UNCHANGED records
    /\ UNCHANGED <<closers, registered, generations, transports, pageSideVars, netFaults>>

\* The answer fails, also because a Close has closed the transport meanwhile.
AnswerFails(o) ==
    /\ opens[o].at = "answer"
    /\ IF transports[o].state = "open" THEN NetFault ELSE NoNetFault
    /\ OpenAt(o, IF records[o].opening THEN "discard" ELSE "refused")
    /\ Unreserve(o)
    /\ UNCHANGED <<closers, registered, transports, pageSideVars>>

\* completeOpenSuccess: a record that a Close took is closed already.
CompleteOpen(o) ==
    /\ opens[o].at = "answer"
    /\ IF Present(o)
       THEN OpenAt(o, "join") /\ records' = [records EXCEPT ![o].opening = FALSE]
       ELSE OpenAt(o, "refused")
            /\ records' = [records EXCEPT ![o].opening = FALSE, ![o].failed = TRUE]
    /\ UNCHANGED <<closers, registered, generations, transports, pageSideVars, netFaults>>

\* completedOpenResult, also for the Opens that joined.
ReturnOpen(o) ==
    /\ opens[o].at = "join" /\ ~records[opens[o].conn].opening
    /\ OpenAt(o, IF Present(o) /\ ~records[opens[o].conn].failed THEN "opened" ELSE "refused")
    /\ UNCHANGED <<closers, serverVars, pageSideVars, netFaults>>

\* A transport nobody can reach is closed by its Open, without a deadline; its
\* peer connection goes whatever errors the close reports.
Discard(o) ==
    /\ opens[o].at = "discard"
    /\ transports' = [transports EXCEPT ![o].state = "closed"]
    /\ OpenAt(o, "refused")
    /\ UNCHANGED <<closers, registered, generations, records, pageSideVars, netFaults>>

----------------------------------------------------------------------------
(* Close                                                                    *)

BeginCloseSession(k) ==
    /\ closers[k].at = "idle" \/ closers[k].at = "again"
    /\ IF registered = NoOpen
       THEN CloserAt(k, "closed") /\ UNCHANGED generations
       ELSE IF generations[registered].closer # 0
       THEN /\ closers' = [closers EXCEPT ![k] = [at |-> "wait", gen |-> registered,
                                                  waits |-> generations[registered].closer]]
            /\ UNCHANGED generations
       ELSE /\ closers' = [closers EXCEPT ![k] = [at |-> "close", gen |-> registered, waits |-> 0]]
            /\ generations' = [generations EXCEPT ![registered].closer = k]
    /\ UNCHANGED <<opens, registered, records, transports, pageSideVars, netFaults>>

\* The other Close has finished and this one looks again, or its time is up.
AwaitClose(k) ==
    /\ closers[k].at = "wait"
    /\ \/ closers[closers[k].waits].at \notin {"close", "finish ok", "finish error"}
          /\ CloserAt(k, "again") /\ NoNetFault
       \/ CloserAt(k, "error") /\ NetFault
    /\ UNCHANGED <<opens, serverVars, pageSideVars>>

\* closeSession holds the session's lock throughout.  A transport's first close
\* closes the peer connection and keeps its error for every later one; with a
\* cancelled context it does nothing.  A failing close reopens the session.
CloseSession(k) ==
    /\ closers[k].at = "close"
    /\ LET g == closers[k].gen
           c == generations[g].record
           Released ==
               /\ generations' = [generations EXCEPT ![g].closed = TRUE, ![g].record = NoOpen]
               /\ records' = IF c # NoOpen /\ records[c].opening
                             THEN [records EXCEPT ![c].opening = FALSE, ![c].failed = TRUE]
                             ELSE records
               /\ CloserAt(k, "finish ok")
           Kept == CloserAt(k, "finish error") /\ UNCHANGED <<generations, records>>
       IN \/ /\ c # NoOpen => ~records[c].attached
             /\ Released /\ NoNetFault /\ UNCHANGED transports
          \/ /\ c # NoOpen /\ records[c].attached
             /\ \/ /\ ~transports[c].closeErr
                   /\ transports' = [transports EXCEPT ![c].state = "closed"]
                   /\ Released /\ NoNetFault
                \/ /\ transports[c].state = "open" /\ NetFault /\ Kept
                   /\ \/ UNCHANGED transports
                      \/ transports' = [transports EXCEPT ![c] = [state |-> "closed", closeErr |-> TRUE]]
                \/ /\ transports[c].closeErr
                   /\ Kept /\ NoNetFault /\ UNCHANGED transports
    /\ UNCHANGED <<opens, registered, pageSideVars>>

FinishClose(k) ==
    /\ closers[k].at \in {"finish ok", "finish error"}
    /\ IF closers[k].at = "finish ok"
       THEN registered' = NoOpen /\ UNCHANGED generations
       ELSE generations' = [generations EXCEPT ![closers[k].gen].closer = 0] /\ UNCHANGED registered
    /\ CloserAt(k, IF closers[k].at = "finish ok" THEN "closed" ELSE "error")
    /\ UNCHANGED <<opens, records, transports, pageSideVars, netFaults>>

----------------------------------------------------------------------------
(* The page's candidates                                                    *)

Page(c, changes) == pages' = [pages EXCEPT ![c] = changes]
Batch(candidates, done) == [candidates |-> candidates, done |-> done]

Offering(c) == c \in Followed /\ opens[c].at # "idle" /\ opens[c].conn = c

\* onicecandidate: before the answer a candidate waits, after it one is posted.
Gather(c) ==
    /\ Offering(c) /\ ~pages[c].ended /\ pages[c].gathered < MaxCandidates
    /\ LET n == pages[c].gathered + 1 IN
       IF pages[c].answered
       THEN /\ Page(c, [pages[c] EXCEPT !.gathered = n])
            /\ posts' = [posts EXCEPT ![c] = Append(@, Batch(<<n>>, FALSE))]
       ELSE /\ Page(c, [pages[c] EXCEPT !.gathered = n, !.pending = Append(@, n)])
            /\ UNCHANGED posts
    /\ UNCHANGED <<opens, closers, serverVars, remote, netFaults>>

\* The end marker is posted at once, also before the candidates that wait for
\* the remote description.
GatheringEnds(c) ==
    /\ Offering(c) /\ ~pages[c].ended
    /\ Page(c, [pages[c] EXCEPT !.ended = TRUE])
    /\ posts' = IF pages[c].answered
                THEN [posts EXCEPT ![c] = Append(@, Batch(<<>>, TRUE))] ELSE posts
    /\ UNCHANGED <<opens, closers, serverVars, remote, netFaults>>

OfferAnswered(c) ==
    /\ opens[c].at = "opened" /\ opens[c].conn = c /\ ~pages[c].answered
    /\ Page(c, [pages[c] EXCEPT !.answered = TRUE])
    /\ UNCHANGED <<opens, closers, serverVars, posts, remote, netFaults>>

RemoteDescribed(c) ==
    /\ pages[c].answered /\ ~pages[c].described
    /\ Page(c, [pages[c] EXCEPT !.described = TRUE, !.pending = <<>>])
    /\ posts' = [posts EXCEPT ![c] = @
         \o (IF pages[c].pending # <<>> THEN <<Batch(pages[c].pending, FALSE)>> ELSE <<>>)
         \o (IF pages[c].ended THEN <<Batch(<<>>, TRUE)>> ELSE <<>>)]
    /\ UNCHANGED <<opens, closers, serverVars, remote, netFaults>>

\* Each request waits for the one before it.
NextPost(c) == 1 .. (IF posts[c] = <<>> THEN 0 ELSE 1)

Without(s, n) == SubSeq(s, 1, n - 1) \o SubSeq(s, n + 1, Len(s))

\* AddCandidates takes nothing new after the end marker, and what it took of a
\* request that failed stays.
Takes(c) == registered # NoOpen /\ generations[registered].record = c
            /\ ~generations[registered].closed /\ ~records[c].opening /\ records[c].attached

AddCandidates(c) ==
    /\ \E n \in NextPost(c) :
         LET post == posts[c][n]
             open == Takes(c) /\ ~remote[c].ended /\ transports[c].state = "open"
         IN /\ posts' = [posts EXCEPT ![c] = Without(@, n)]
            /\ \/ /\ open /\ NoNetFault
                  /\ remote' = [remote EXCEPT ![c].taken = @ \o post.candidates,
                       ![c].ended = post.done,
                       ![c].missing = post.done /\ Len(remote[c].taken) < pages[c].gathered]
                  /\ UNCHANGED pages
               \/ /\ open /\ NetFault
                  /\ \E taken \in 0 .. Len(post.candidates) :
                       remote' = [remote EXCEPT ![c].taken = @ \o SubSeq(post.candidates, 1, taken)]
                  /\ Page(c, [pages[c] EXCEPT !.refused = TRUE])
               \/ /\ ~open /\ NoNetFault /\ UNCHANGED remote
                  /\ Page(c, [pages[c] EXCEPT !.refused = @ \/ ~remote[c].ended])
    /\ UNCHANGED <<opens, closers, serverVars>>

----------------------------------------------------------------------------
ConnectionsNext ==
    \/ \E o \in Opens :
        \/ GetOrCreate(o) \/ Reserve(o) \/ CreateTransport(o) \/ AttachOpenTransport(o)
        \/ AnswerFails(o) \/ CompleteOpen(o) \/ ReturnOpen(o) \/ Discard(o)
        \/ Gather(o) \/ GatheringEnds(o) \/ OfferAnswered(o) \/ RemoteDescribed(o)
        \/ AddCandidates(o)
    \/ \E k \in Closers :
        BeginCloseSession(k) \/ AwaitClose(k) \/ CloseSession(k) \/ FinishClose(k)

ConnectionsSpec == ConnectionsInit /\ [][ConnectionsNext]_connectionVars

----------------------------------------------------------------------------
(* Properties                                                               *)

\* A peer connection that is open is the one of the registered session, where
\* the next Close finds it, or its Open is about to attach or close it; so a
\* Close that succeeds beside an Open at any of its points leaves none behind,
\* and a session never has two (webrtc/memory.go, Open and Close).
TransportsOwned ==
    \A o \in Opens : transports[o].state = "open" =>
        \/ registered # NoOpen /\ generations[registered].record = o
        \/ opens[o].at \in {"attach", "discard"}

\* "ICE candidates and the end marker must reach the server in order"
\* (webrtc-session.ts:265), as the comment has it, without exception: a page
\* none of whose requests failed has all its candidates at the server.
EndComesLast ==
    \A c \in Opens : remote[c].missing => pages[c].refused
=============================================================================
