------------------------------ MODULE VoicePage ------------------------------
(***************************************************************************)
(* The voice session of the web page                                       *)
(* (apps/web/src/features/voice/hooks/use-voice-session.ts): start and end *)
(* are asynchronous functions over the same refs of the hook.  Each await  *)
(* is a point where the user, another start or end, or the server may do   *)
(* something; start looks after every await whether it is still wanted.    *)
(* A session and a peer connection are named by the start that made them.  *)
(***************************************************************************)
EXTENDS Naturals, FiniteSets

CONSTANTS
    MaxStarts,      \* calls of start
    MaxEnds,        \* calls of end
    MaxPageFaults   \* requests that fail

ASSUME VoicePageAssumption ==
    MaxStarts \in Nat \ {0} /\ MaxEnds \in Nat \ {0} /\ MaxPageFaults \in Nat

Starts == 1 .. MaxStarts
Ends == 1 .. MaxEnds
NoStart == 0

VARIABLES
    page,         \* the refs: whose session, media, ticket and abort controller
    aborted,      \* starts whose signal is aborted
    minting,      \* the session of the ticket refresh in flight
    starts,       \* what each start awaits
    ends,         \* what each end awaits, and the session it read
    peers,        \* peer connections that are open
    server,       \* the sessions at the API
    starting,     \* start requests the server has not handled
    requests,     \* end requests the server has not handled
    lost,         \* sessions the page could not end, or left
    unanswered,   \* starts that got no answer to the creation of their session
    overlapped,   \* the control was used while an end awaited its answer
    pageFaults

pageVars == <<page, aborted, minting, starts, ends, peers, server, starting,
              requests, lost, unanswered, overlapped, pageFaults>>

Idle == [running |-> FALSE, polling |-> FALSE, phase |-> "idle", abort |-> NoStart,
         session |-> NoStart, media |-> NoStart, ticket |-> NoStart]

PageInit ==
    /\ page = Idle
    /\ aborted = {} /\ peers = {} /\ starting = {} /\ requests = {} /\ lost = {}
    /\ unanswered = {}
    /\ minting = NoStart
    /\ starts = [i \in Starts |-> "idle"]
    /\ ends = [e \in Ends |-> [at |-> "idle", session |-> NoStart]]
    /\ server = [i \in Starts |-> "none"]
    /\ overlapped = FALSE
    /\ pageFaults = 0

PageFault == pageFaults < MaxPageFaults /\ pageFaults' = pageFaults + 1

----------------------------------------------------------------------------
(* start                                                                    *)

BeginStart(i) ==
    /\ starts[i] = "idle" /\ \A j \in 1 .. i - 1 : starts[j] # "idle"
    /\ page' = [page EXCEPT !.running = TRUE, !.abort = i, !.phase = "listening"]
    /\ starts' = [starts EXCEPT ![i] = "auth"]
    /\ UNCHANGED <<aborted, ends, peers, requests>>

\* ensureStartupActive.
Wanted(i) == i \notin aborted /\ page.abort = i /\ page.running

Proceed(i, refs, to) ==
    /\ Wanted(i)
    /\ page' = refs
    /\ starts' = [starts EXCEPT ![i] = to]
    /\ UNCHANGED <<peers, requests>>

\* A start that is no longer wanted closes what it alone holds: a connection it
\* has not handed over, and the session it has not published.
Cancelled(i, owned, unclaimed) ==
    /\ ~Wanted(i)
    /\ page' = [page EXCEPT !.session = IF @ = i THEN NoStart ELSE @,
                            !.abort = IF @ = i THEN NoStart ELSE @]
    /\ starts' = [starts EXCEPT ![i] = "done"]
    /\ peers' = peers \ unclaimed
    /\ requests' = requests \cup {<<"start", i, i>> : s \in owned}

\* A start that failed releases the media and ends the session it published.
Failed(i, partial) ==
    /\ Wanted(i)
    /\ page' = Idle
    /\ starts' = [starts EXCEPT ![i] = "done"]
    /\ peers' = peers \ (partial \cup {page.media})
    /\ requests' = requests \cup {<<"start", i, s>> : s \in {page.session} \ {NoStart}}

Answered(i, at, refs, to) ==
    /\ starts[i] = at
    /\ Proceed(i, refs, to) \/ Cancelled(i, {}, {})
    /\ UNCHANGED <<aborted, minting, ends, server, starting, lost, unanswered, overlapped, pageFaults>>

\* The sign-in, and the question whether automatic delivery has a target.
Authenticated(i) == Answered(i, "auth", page, "create")

\* POST /voice-sessions: the server creates, also after its caller gave up; the
\* answer arrives later.
ServerCreates(i) ==
    /\ starts[i] = "create" \/ i \in unanswered
    /\ server[i] = "none"
    /\ server' = [server EXCEPT ![i] = "created"]
    /\ UNCHANGED <<page, aborted, minting, starts, ends, peers, starting,
                   requests, lost, unanswered, overlapped, pageFaults>>

\* Bug: a start that was overtaken while it created its session forgets it.
SessionCreated_NotEnded(i) ==
    /\ starts[i] = "create" /\ server[i] # "none"
    /\ \/ Proceed(i, [page EXCEPT !.session = i], "config")
       \/ Cancelled(i, {}, {})
    /\ UNCHANGED <<aborted, minting, ends, server, starting, lost, unanswered, overlapped, pageFaults>>

\* The session becomes the page's, or is ended by the start nobody wants.
SessionCreated(i) ==
    /\ starts[i] = "create" /\ server[i] # "none"
    /\ \/ Proceed(i, [page EXCEPT !.session = i], "config")
       \/ Cancelled(i, {i}, {})
    /\ UNCHANGED <<aborted, minting, ends, server, starting, lost, unanswered, overlapped, pageFaults>>

LanguageConfigured(i) == Answered(i, "config", page, "ticket")

TicketMinted(i) == Answered(i, "ticket", [page EXCEPT !.ticket = i], "webrtc")

\* openWebRTCSession owns the peer connection until it returns.
PeerOpens(i) ==
    /\ starts[i] = "webrtc"
    /\ peers' = peers \cup {i}
    /\ starts' = [starts EXCEPT ![i] = "signal"]
    /\ UNCHANGED <<page, aborted, minting, ends, server, starting, requests,
                   lost, unanswered, overlapped, pageFaults>>

WebRTCOpened(i) ==
    /\ starts[i] = "signal"
    /\ \/ Proceed(i, [page EXCEPT !.media = i], "start") /\ starting' = starting \cup {i}
       \/ Cancelled(i, {}, {i}) /\ UNCHANGED starting
    /\ UNCHANGED <<aborted, minting, ends, server, lost, unanswered, overlapped, pageFaults>>

\* POST /start, which may be handled after its caller gave up.
ServerStarts(i) ==
    /\ i \in starting
    /\ starting' = starting \ {i}
    /\ server' = [server EXCEPT ![i] = IF @ = "created" THEN "active" ELSE @]
    /\ UNCHANGED <<page, aborted, minting, starts, ends, peers, requests, lost,
                   unanswered, overlapped, pageFaults>>

SessionStarted(i) ==
    /\ i \notin starting /\ server[i] = "active"
    /\ Answered(i, "start", [page EXCEPT !.phase = "active", !.polling = TRUE], "done")

\* A request of a start fails, in its signal or at the server, or its answer is
\* lost: the creation of a session gets no signal, and without its answer the
\* start knows no session that it could end.
StartCallFails(i) ==
    /\ starts[i] \notin {"idle", "done"}
    /\ \/ PageFault
       \/ starts[i] = "start" /\ i \in aborted /\ UNCHANGED pageFaults
       \/ starts[i] = "start" /\ server[i] = "ended" /\ UNCHANGED pageFaults
    /\ Failed(i, {i}) \/ Cancelled(i, {}, IF starts[i] = "signal" THEN {i} ELSE {})
    /\ unanswered' = unanswered \cup {j \in {i} : starts[j] = "create"}
    /\ UNCHANGED <<aborted, minting, ends, server, starting, lost, overlapped>>

----------------------------------------------------------------------------
(* end                                                                      *)

\* The media stay until realtime has observed the stop.
BeginEnd(e) ==
    /\ ends[e].at = "idle" /\ \A d \in 1 .. e - 1 : ends[d].at # "idle"
    /\ aborted' = aborted \cup ({page.abort} \ {NoStart})
    /\ IF page.session = NoStart
       THEN /\ page' = Idle
            /\ peers' = peers \ {page.media}
            /\ ends' = [ends EXCEPT ![e].at = "done"]
            /\ UNCHANGED requests
       ELSE /\ page' = [page EXCEPT !.running = FALSE, !.abort = NoStart, !.polling = FALSE]
            /\ ends' = [ends EXCEPT ![e] = [at |-> "waiting", session |-> page.session]]
            /\ requests' = requests \cup {<<"end", e, page.session>>}
            /\ UNCHANGED peers
    /\ UNCHANGED starts

\* After the answer, an error or the timeout, the refs of whatever session.
EndReturns(e) ==
    /\ ends[e].at = "waiting"
    /\ page' = [Idle EXCEPT !.running = page.running, !.abort = page.abort,
                            !.polling = page.polling]
    /\ peers' = peers \ {page.media}
    /\ ends' = [ends EXCEPT ![e].at = "done"]
    /\ UNCHANGED <<aborted, minting, starts, server, starting, requests, lost,
                   unanswered, overlapped, pageFaults>>

ServerEnds(r) ==
    /\ r \in requests
    /\ requests' = requests \ {r}
    /\ \/ server' = [server EXCEPT ![r[3]] = "ended"] /\ UNCHANGED <<lost, pageFaults>>
       \/ PageFault /\ lost' = lost \cup {r[3]} /\ UNCHANGED server
    /\ UNCHANGED <<page, aborted, minting, starts, ends, peers, starting, unanswered, overlapped>>

----------------------------------------------------------------------------
(* The control, the ticket cache, and leaving the page                      *)

Toggle ==
    /\ IF page.running \/ page.session # NoStart
       THEN \E e \in Ends : BeginEnd(e)
       ELSE \E i \in Starts : BeginStart(i)
    /\ overlapped' = (overlapped \/ \E e \in Ends : ends[e].at = "waiting")
    /\ UNCHANGED <<minting, server, starting, lost, unanswered, pageFaults>>

RefreshTicket ==
    /\ minting = NoStart /\ page.running /\ page.session # NoStart /\ page.polling
    /\ minting' = page.session
    /\ UNCHANGED <<page, aborted, starts, ends, peers, server, starting,
                   requests, lost, unanswered, overlapped, pageFaults>>

TicketRefreshed ==
    /\ minting # NoStart
    /\ page' = IF page.session = minting /\ page.running
               THEN [page EXCEPT !.ticket = minting] ELSE page
    /\ minting' = NoStart
    /\ UNCHANGED <<aborted, starts, ends, peers, server, starting, requests,
                   lost, unanswered, overlapped, pageFaults>>

\* The component unmounts: it releases the media and ends no session.
Leave ==
    /\ page # Idle
    /\ page' = [page EXCEPT !.running = FALSE, !.abort = NoStart,
                            !.polling = FALSE, !.media = NoStart]
    /\ aborted' = aborted \cup ({page.abort} \ {NoStart})
    /\ peers' = peers \ {page.media}
    /\ lost' = lost \cup ({page.session} \ {NoStart})
    \* No control is left.
    /\ starts' = [i \in Starts |-> IF starts[i] = "idle" THEN "done" ELSE starts[i]]
    /\ ends' = [e \in Ends |-> IF ends[e].at = "idle"
                                  THEN [at |-> "done", session |-> NoStart] ELSE ends[e]]
    /\ UNCHANGED <<minting, server, starting, requests, unanswered, overlapped, pageFaults>>

PageNext ==
    \/ Toggle
    \/ \E i \in Starts :
         \/ Authenticated(i) \/ ServerCreates(i) \/ SessionCreated(i)
         \/ LanguageConfigured(i) \/ TicketMinted(i) \/ PeerOpens(i)
         \/ WebRTCOpened(i) \/ ServerStarts(i) \/ SessionStarted(i)
         \/ StartCallFails(i)
    \/ \E e \in Ends : EndReturns(e)
    \/ \E r \in requests : ServerEnds(r)
    \/ RefreshTicket \/ TicketRefreshed \/ Leave

PageSpec == PageInit /\ [][PageNext]_pageVars

----------------------------------------------------------------------------
(* Properties                                                               *)

\* A session that lives at the server is the page's, or the answer to its creation
\* is still awaited, or its end request is on its way; a peer connection that is
\* open is the page's or is being opened; the cached ticket is the session's.
\* start (use-voice-session.ts:941-1485) is overtaken by end (812-867) at any of
\* its awaits, and each of its three ways out has to hand over or release exactly
\* what it holds.  A session whose creation failed to be answered (1025-1026) is
\* nobody's: the page cannot end what it was not told of.  Such a session stays as
\* it was created, and is never started.  Nothing of this holds once the control
\* is used while an end awaits its answer.
SessionsAccounted ==
    overlapped \/
    /\ \A s \in Starts \ lost : server[s] \in {"created", "active"} =>
          \/ page.session = s
          \/ starts[s] = "create"
          \/ \E r \in requests : r[3] = s
          \/ s \in unanswered /\ server[s] = "created"
    /\ \A c \in peers : page.media = c \/ starts[c] = "signal"
    /\ page.ticket # NoStart => page.ticket = page.session \/ page.session = NoStart
=============================================================================
