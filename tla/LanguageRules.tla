--------------------------- MODULE LanguageRules ----------------------------
(***************************************************************************)
(* What a language configuration may say, how the API reports it to the    *)
(* realtime service, and how a spoken command is completed from it.        *)
(***************************************************************************)
EXTENDS Integers, Sequences, FiniteSets, SequencesExt

CONSTANTS
    Languages,        \* the catalog
    SourceLanguages,  \* languages the catalog supports as a source
    TargetLanguages,  \* languages the catalog supports as a target
    Unsaid            \* a slot a request or a command leaves empty

ASSUME LanguageAssumption == SourceLanguages \subseteq Languages /\ TargetLanguages \subseteq Languages

Direction == [source : Languages \cup {Unsaid}, target : Languages \cup {Unsaid}]
Route == [target : Languages \cup {Unsaid}, tts : BOOLEAN, delivery : BOOLEAN]
Configurations == [pairs : SeqOf(Direction, 2), routes : SeqOf(Route, 2)]
Arguments == [source : Languages \cup {Unsaid}, target : Languages \cup {Unsaid},
              mode : {Unsaid, "single", "bidirectional"}]

Pair(a, b) == [source |-> a, target |-> b]
BothWays(a, b) == <<Pair(a, b), Pair(b, a)>>
Spoken(x) == [target |-> x, tts |-> TRUE, delivery |-> FALSE]
Delivered(x) == [target |-> x, tts |-> FALSE, delivery |-> TRUE]

-----------------------------------------------------------------------------
\* validateP0LanguagePairs: two directions, supported, inverse to each other.
ValidPairs(pairs) ==
    /\ Len(pairs) = 2
    /\ \A p \in ToSet(pairs) :
        /\ p.source # p.target
        /\ p.source \in SourceLanguages /\ p.target \in TargetLanguages
        /\ Pair(p.target, p.source) \in ToSet(pairs)

\* normalizeOutputRoutes: every target is either spoken or delivered, at most
\* one is delivered; without routes every target is spoken.
ValidRoutes(pairs, routes) ==
    LET targets == {p.target : p \in ToSet(pairs)} IN
    routes # <<>> =>
        /\ {r.target : r \in ToSet(routes)} = targets
        /\ Len(routes) = Cardinality(targets)
        /\ \A r \in ToSet(routes) : r.tts # r.delivery
        /\ Cardinality({r \in ToSet(routes) : r.delivery}) <= 1

Normalized(pairs, routes) ==
    IF routes = <<>> THEN [i \in DOMAIN pairs |-> Spoken(pairs[i].target)] ELSE routes

Accepts(c) == ValidPairs(c.pairs) /\ ValidRoutes(c.pairs, c.routes)

OutputMode(routes) ==
    IF \A r \in ToSet(routes) : r.tts THEN "bidirectional" ELSE "single"

-----------------------------------------------------------------------------
\* The active configuration as the realtime service reads it: the first
\* direction and the mode; the routes are rebuilt from these.
CommandRoutes(source, target, mode) ==
    <<Spoken(target), IF mode = "single" THEN Delivered(source) ELSE Spoken(source)>>

Snapshot(c) ==
    LET first == c.pairs[1] IN
    [pairs |-> BothWays(first.source, first.target),
     routes |-> CommandRoutes(first.source, first.target, OutputMode(Normalized(c.pairs, c.routes)))]

Resolved(p, mode) == [outcome |-> "resolved", source |-> p.source, target |-> p.target, mode |-> mode]
Unclear(outcome) == [Resolved(Pair(Unsaid, Unsaid), Unsaid) EXCEPT !.outcome = outcome]

\* currentSingleDirection: the direction whose target alone is spoken.
SpokenDirections(snapshot) ==
    LET spoken == {r.target : r \in {x \in ToSet(snapshot.routes) : x.tts /\ ~x.delivery}} IN
    {p \in ToSet(snapshot.pairs) : spoken = {p.target}}

\* Bug: a command that names one language takes any direction with it.
Fitting_EitherSide(args, snapshot) ==
    {p \in ToSet(snapshot.pairs) : {args.source, args.target} \cap {p.source} # {}}

\* completeLanguageDirection: the directions one named language fits.
Fitting(args, snapshot) ==
    {p \in ToSet(snapshot.pairs) :
        \/ args.source # Unsaid /\ p.source = args.source
        \/ args.target # Unsaid /\ p.target = args.target}

Otherwise(mode) == IF mode = Unsaid THEN "bidirectional" ELSE mode

\* resolveLanguageArguments; `unchanged` leaves the configuration alone.
Resolve(args, snapshot) ==
    LET named == {args.source, args.target} \ {Unsaid}
        only(directions, mode) ==
            IF Cardinality(directions) = 1 THEN Resolved(CHOOSE p \in directions : TRUE, mode)
            ELSE Unclear("clarify")
    IN
    CASE args.source # Unsaid /\ args.target # Unsaid ->
            IF args.source = args.target THEN Unclear("invalid")
            ELSE Resolved(Pair(args.source, args.target), Otherwise(args.mode))
      [] named = {} /\ args.mode = Unsaid -> Unclear("unchanged")
      [] named = {} /\ args.mode = "single" -> only(SpokenDirections(snapshot), "single")
      [] named = {} /\ args.mode = "bidirectional" -> Resolved(snapshot.pairs[1], "bidirectional")
      [] OTHER -> only(Fitting(args, snapshot), Otherwise(args.mode))

\* configureFromCommand: the configuration a resolved command asks for.
FromCommand(r) ==
    [pairs |-> BothWays(r.source, r.target),
     routes |-> IF r.mode = "single" THEN CommandRoutes(r.source, r.target, "single") ELSE <<>>]

\* The page's settings, as it sends them and as it reads a configuration back.
FromPage(w) ==
    [pairs |-> BothWays(w.source, w.target), routes |-> CommandRoutes(w.source, w.target, w.mode)]

OnPage(c) ==
    LET spoken == SelectSeq(c.routes, LAMBDA r : r.tts)
        delivered == SelectSeq(c.routes, LAMBDA r : r.delivery)
    IN
    IF Len(spoken) = 1 /\ Len(delivered) = 1
    THEN [source |-> delivered[1].target, target |-> spoken[1].target, mode |-> "single"]
    ELSE [source |-> c.pairs[1].source, target |-> c.pairs[1].target, mode |-> "bidirectional"]

-----------------------------------------------------------------------------
VARIABLE sample   \* a request for a configuration

RulesInit == sample \in Configurations

Shown(c) == [c EXCEPT !.routes = Normalized(c.pairs, @)]
SpokenFirst(c) == OutputMode(c.routes) = "single" => Spoken(c.pairs[1].target) \in ToSet(c.routes)

\* A command completed from an accepted configuration keeps what was said, and
\* the API accepts it in the mode asked for (command_executor.go:165 rejects
\* any other answer) unless it names an unsupported language; the page then
\* shows what was said. Asking only for single output never guesses a direction
\* (apps/web/VOICE_COMMANDS.md:33) and, after a configuration made on the page,
\* never turns around the one in force.
ResolvedAccepted ==
    Accepts(sample) =>
        /\ LET page == OnPage(Shown(sample)) IN
            Accepts(FromPage(page)) /\ OnPage(FromPage(page)) = page
        /\ \A args \in Arguments :
            LET r == Resolve(args, Snapshot(sample))
                c == FromCommand(r)
            IN
            /\ r.outcome = "resolved" =>
                /\ args.source \in {Unsaid, r.source} /\ args.target \in {Unsaid, r.target}
                /\ args.mode \in {Unsaid, r.mode}
                /\ {r.source, r.target} \subseteq SourceLanguages \cap TargetLanguages =>
                    /\ Accepts(c)
                    /\ OutputMode(Normalized(c.pairs, c.routes)) = r.mode
                    /\ OnPage(Shown(c))
                         = [source |-> r.source, target |-> r.target, mode |-> r.mode]
            /\ args = [source |-> Unsaid, target |-> Unsaid, mode |-> "single"] =>
                IF OutputMode(Normalized(sample.pairs, sample.routes)) = "single"
                THEN SpokenFirst(sample) => <<r.source, r.target>> = <<sample.pairs[1].source, sample.pairs[1].target>>
                ELSE r.outcome = "clarify"
=============================================================================
