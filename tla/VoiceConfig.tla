----------------------------- MODULE VoiceConfig -----------------------------
(***************************************************************************)
(* The language configuration as the web page edits and shows it           *)
(* (use-voice-session.ts).  The user's updates run one after another; a    *)
(* spoken command or the restoring of spoken output writes versions of its *)
(* own and the page reads them back.  All of them share the same refs.     *)
(***************************************************************************)
EXTENDS Naturals, Sequences

CONSTANTS
    MaxUpdates,       \* updates by the user
    MaxWrites,        \* versions written by commands and restores
    MaxConfigFaults   \* requests or answers that are lost

ASSUME VoiceConfigAssumption ==
    MaxUpdates \in Nat /\ MaxWrites \in Nat /\ MaxConfigFaults \in Nat

Updates == 1 .. MaxUpdates
Writes == 1 .. MaxWrites
Unknown == 0

VARIABLES
    screen,       \* what is shown, what was applied last, its version
    updates,      \* where each update is, the version it expects, the answer
    readbacks,    \* reading back what a command or a restore wrote
    versions,     \* who wrote each version at the API
    configFaults

settingsVars == <<screen, updates, readbacks, versions, configFaults>>

\* The startup wrote the first version and showed it.
SettingsInit ==
    /\ screen = [shown |-> <<"start">>, applied |-> <<"start">>, known |-> 1,
                 status |-> "idle", revision |-> 0]
    /\ updates = [u \in Updates |->
                    [at |-> "idle", revision |-> 0, expected |-> Unknown, answer |-> "none"]]
    /\ readbacks = [w \in Writes |->
                     [at |-> "none", restored |-> FALSE, crossed |-> FALSE, revision |-> 0,
                      version |-> Unknown]]
    /\ versions = << <<"start">> >>
    /\ configFaults = 0

ConfigFault == configFaults < MaxConfigFaults /\ configFaults' = configFaults + 1

PendingUpdates == {u \in Updates : updates[u].at \notin {"idle", "done"}}
Latest(u) == updates[u].revision = screen.revision

----------------------------------------------------------------------------
(* Updates by the user                                                      *)

UpdateConfig(u) ==
    /\ updates[u].at = "idle" /\ \A j \in 1 .. u - 1 : updates[j].at # "idle"
    /\ screen' = [screen EXCEPT !.shown = <<"user", u>>, !.status = "saving", !.revision = @ + 1]
    /\ updates' = [updates EXCEPT ![u].at = "queued", ![u].revision = screen.revision + 1]
    /\ UNCHANGED <<readbacks, versions, configFaults>>

\* The request of step `at`, which expects version v.
Ask(u, at, v) ==
    updates' = [updates EXCEPT ![u] = [@ EXCEPT !.at = at, !.expected = v, !.answer = "none"]]

Finish(u) == updates' = [updates EXCEPT ![u].at = "done"]

\* The chain takes the next update when the one before it has settled.
RunUpdate(u) ==
    /\ updates[u].at = "queued" /\ \A j \in PendingUpdates : u <= j
    /\ IF screen.known = Unknown THEN Ask(u, "read", Unknown) ELSE Ask(u, "write", screen.known)
    /\ UNCHANGED <<screen, readbacks, versions, configFaults>>

Reads == {"read", "reread"}
Posts == {"write", "rewrite"}

\* The API answers, or refuses a version that is not the one before, or the
\* request or its answer is lost.
ServeConfig(u) ==
    /\ updates[u].at \in Reads \cup Posts /\ updates[u].answer = "none"
    /\ LET answer(a) == updates' = [updates EXCEPT ![u].answer = a]
           current == Len(versions)
           post == versions' = Append(versions, <<"user", u>>)
       IN
       \/ /\ updates[u].at \in Reads
          /\ updates' = [updates EXCEPT ![u].answer = "ok", ![u].expected = current]
          /\ UNCHANGED <<versions, configFaults>>
       \/ /\ updates[u].at \in Posts /\ updates[u].expected = current
          /\ post
          /\ \/ answer("ok") /\ UNCHANGED configFaults
             \/ answer("lost") /\ ConfigFault
       \/ /\ updates[u].at \in Posts /\ updates[u].expected # current
          /\ answer("conflict") /\ UNCHANGED <<versions, configFaults>>
       \/ answer("error") /\ ConfigFault /\ UNCHANGED versions
    /\ UNCHANGED <<screen, readbacks>>

\* The latest update is rolled back to what was applied last; a conflict makes
\* the version unknown.
FailUpdate(u) ==
    /\ updates[u].answer \in {"error", "lost", "conflict"}
    /\ updates[u].at = "write" => ~(updates[u].answer = "conflict" /\ Latest(u))
    /\ LET known == IF updates[u].answer = "conflict" THEN Unknown ELSE screen.known IN
       screen' = IF Latest(u)
                 THEN [screen EXCEPT !.shown = screen.applied, !.status = "failed", !.known = known]
                 ELSE [screen EXCEPT !.known = known]
    /\ Finish(u)

\* The latest update reads the version that was in its way, and is tried again.
RetryUpdate(u) ==
    /\ updates[u].at = "write" /\ updates[u].answer = "conflict" /\ Latest(u)
    /\ screen' = [screen EXCEPT !.known = Unknown]
    /\ Ask(u, "reread", Unknown)

\* A newer update supersedes the one that has read the current version.
ReadDone(u) ==
    /\ updates[u].at \in Reads /\ updates[u].answer = "ok"
    /\ \/ updates[u].at = "read" /\ Ask(u, "write", updates[u].expected) /\ UNCHANGED screen
       \/ /\ updates[u].at = "reread" /\ Latest(u)
          /\ screen' = [screen EXCEPT !.known = updates[u].expected]
          /\ Ask(u, "rewrite", updates[u].expected)
       \/ /\ updates[u].at = "reread" /\ ~Latest(u)
          /\ screen' = [screen EXCEPT !.known = Unknown]
          /\ Finish(u)

WriteDone(u) ==
    /\ updates[u].at \in Posts /\ updates[u].answer = "ok"
    /\ LET saved == [screen EXCEPT !.known = updates[u].expected + 1, !.applied = <<"user", u>>] IN
       screen' = IF Latest(u)
                 THEN [saved EXCEPT !.shown = <<"user", u>>, !.status = "applied"] ELSE saved
    /\ Finish(u)

ContinueConfig(u) ==
    /\ updates[u].answer # "none" /\ updates[u].at \in Reads \cup Posts
    /\ FailUpdate(u) \/ RetryUpdate(u) \/ ReadDone(u) \/ WriteDone(u)
    /\ UNCHANGED <<readbacks, versions, configFaults>>

----------------------------------------------------------------------------
(* Versions the page has to read back                                       *)

\* A spoken command, or the restoring of spoken output.
OtherWrite(w) ==
    /\ readbacks[w].at = "none" /\ \A j \in 1 .. w - 1 : readbacks[j].at # "none"
    /\ versions' = Append(versions, <<"other", w>>)
    /\ \E restored \in BOOLEAN :
         readbacks' = [readbacks EXCEPT ![w].at = "unread", ![w].restored = restored]
    /\ UNCHANGED <<screen, updates, configFaults>>

\* The poll that reports a restore waits for pending updates; the result of a
\* command comes over the data channel, where it may be lost.
Told(w) ==
    /\ readbacks[w].at = "unread"
    /\ \/ /\ readbacks[w].restored => PendingUpdates = {}
          /\ readbacks' = [readbacks EXCEPT ![w].at = "reading", ![w].revision = screen.revision,
                                            ![w].crossed = PendingUpdates # {}]
          /\ UNCHANGED configFaults
       \/ /\ ~readbacks[w].restored /\ ConfigFault
          /\ readbacks' = [readbacks EXCEPT ![w].at = "lost"]
    /\ UNCHANGED <<screen, updates, versions>>

ReadBack(w) ==
    /\ readbacks[w].at = "reading"
    /\ \/ /\ readbacks' = [readbacks EXCEPT ![w].at = "read", ![w].version = Len(versions)]
          /\ UNCHANGED configFaults
       \/ /\ ConfigFault
          /\ readbacks' = [readbacks EXCEPT ![w].at =
                                IF readbacks[w].restored THEN "unread" ELSE "lost"]
    /\ UNCHANGED <<screen, updates, versions>>

\* Bug: versions read back are shown as they arrive.
Shows_AnyVersion(w) == readbacks[w].revision = screen.revision

\* What was read is shown unless the user has changed the configuration since,
\* or a newer version is known.
Shows(w) ==
    /\ readbacks[w].revision = screen.revision
    /\ readbacks[w].version >= screen.known

ReadBackDone(w) ==
    /\ readbacks[w].at = "read"
    /\ screen' = IF Shows(w)
                 THEN LET c == versions[readbacks[w].version] IN
                      [screen EXCEPT !.shown = c, !.applied = c, !.status = "applied",
                                     !.known = readbacks[w].version]
                 ELSE screen
    /\ readbacks' = [readbacks EXCEPT ![w].at = "done"]
    /\ UNCHANGED <<updates, versions, configFaults>>

SettingsNext ==
    \/ \E u \in Updates : UpdateConfig(u) \/ RunUpdate(u) \/ ServeConfig(u) \/ ContinueConfig(u)
    \/ \E w \in Writes : OtherWrite(w) \/ Told(w) \/ ReadBack(w) \/ ReadBackDone(w)

SettingsSpec == SettingsInit /\ [][SettingsNext]_settingsVars

----------------------------------------------------------------------------
(* Property                                                                 *)

ConfigQuiet == PendingUpdates = {} /\ \A w \in Writes : readbacks[w].at \notin {"reading", "read"}

\* The page was not told of the current version, or told of a command's while
\* an update was pending: that update's answer may then undo the newer version.
Untold ==
    LET writer == versions[Len(versions)] IN
    \/ \E w \in Writes :
        /\ writer = <<"other", w>>
        /\ readbacks[w].at \in {"unread", "lost"} \/ readbacks[w].crossed
    \/ \E u \in Updates : writer = <<"user", u>> /\ updates[u].answer = "lost"

\* When nothing is under way and the page says that a configuration is applied,
\* it is the current one of the API, in whatever order updates, retries after a
\* conflict, spoken commands and restores were answered (updateConfig,
\* use-voice-session.ts:501-598; syncAutomaticOutputStatus, 717-741; the
\* readback of a command, 1223-1259).
ShownCurrent ==
    ConfigQuiet /\ screen.status = "applied" =>
        Untold \/ screen.shown = versions[Len(versions)]
=============================================================================
