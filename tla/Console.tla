------------------------------- MODULE Console ------------------------------
(***************************************************************************)
(* The operator console: the runtime files that the alerts sink and the    *)
(* agent append to and the migration rewrites, the gateway with its cached *)
(* snapshot, the event stream, and the hook in the browser that shows a    *)
(* snapshot.  The gateway reads the alerts before the suggestions while    *)
(* both grow; the hook's first fetch and its stream both set the snapshot; *)
(* and three timers race with the answers they wait for.                   *)
(***************************************************************************)
EXTENDS RuntimeReader

CONSTANTS
  Alerts,     \* alerts
  Heads,      \* what names a suggestion
  Bundles,    \* evidence bundles
  Contexts,   \* contexts of a suggestion from before
  Answers,    \* answers of a provider
  Scenarios,  \* what the files hold, what will be appended, the report
  MaxFaults,  \* bound: broken connections, timeouts, restarts, torn lines, kills
  MaxWire,    \* bound: envelopes on the wire
  IdleLimit,  \* idle cycles before a heartbeat, 15 seconds' worth
  Local       \* the model the hook shows before anything arrives

\* What an agent of today writes, and what one of before has written.
Written == {Suggestion(h, b, a) : h \in Heads, b \in Bundles, a \in Answers}
Legacy == {LegacySuggestion(h, c, b, a) :
             h \in Heads, c \in Contexts, b \in Bundles, a \in Answers}
Staged == Written \cup {Upgrade(s) : s \in Legacy}
Records == Staged \cup Legacy

ASSUME ConsoleAssumption ==
  /\ MaxFaults \in Nat /\ MaxWire \in Nat \ {0} /\ IdleLimit \in Nat \ {0}
  /\ MaxFiles \in Nat \ {0} /\ RecordLimit \in Nat \ {0}

ASSUME PartsAssumption ==
  /\ Heads \subseteq [id : STRING, alert : STRING, ts : Int, scope : {"alert", "cluster"},
                      severity : STRING, first : Int, last : Int]
  /\ Bundles \subseteq [has : SUBSET STRING, similar : Nat, size : Nat, suspected : BOOLEAN,
                        gate : [invoke : BOOLEAN, lowEvidence : BOOLEAN] \cup {None}]
  /\ Contexts \subseteq [size : Nat, similar : Nat, has : SUBSET STRING]
  /\ Answers \subseteq [summary : STRING, hypotheses : Seq(STRING), actions : Seq(STRING),
                        confidence : Nat, basis : SUBSET STRING]
  /\ Torn \notin Alerts \cup Records
  /\ \A s \in Staged : None \notin {s.set, s.verdict, s.plan}

ASSUME ScenarioAssumption ==
  \A s \in Scenarios :
    /\ s.alerts \in Seq(Seq(Alerts \cup {Torn}))
    /\ s.suggestions \in Seq(Seq(Written \cup Legacy \cup {Torn}))
    /\ s.coming \in [alerts : Seq(Alerts), suggestions : Seq(Written), midnight : BOOLEAN,
                     unmount : BOOLEAN, migrations : Nat]

\* Times are seconds since 1970, or did not parse.  The feed has room for the
\* most it takes of one kind, one of the other, and the raw sample.
ASSUME FeedAssumption ==
  /\ None \notin Alerts \cup Records
  /\ \A x \in Alerts \cup Heads : x.ts \in Nat \cup {Unparsed}
  /\ \A s \in Scenarios : s.report.ts \in Int /\ s.report.raw \in Int /\ s.now \in Int
  /\ DayLength \in Nat \ {0} /\ PerKind \in Nat \ {0}
  /\ FeedLimit \in Nat /\ FeedLimit >= PerKind + 2

VARIABLES
  alertFiles, suggestionFiles,  \* sequences of files
  coming,      \* [alerts, suggestions] still to be appended
  report, now,
  migration,   \* [step, file, last, lines] of migrate_legacy_runtime
  written,     \* history: suggestions written to the files
  spoiled,     \* history: those lost by a rewrite that raced or was cut
  gateway,     \* "down", "starting" or "up"
  cache,       \* _snapshot_cache_payload, or None
  expired,     \* the cache is older than its TTL
  holder,      \* who holds the cache lock: "warm", "fetch", "stream" or None
  seen,        \* the alerts read by the holder, or None
  stream,      \* the generator: "none", "ask" or "sleep"
  sent, idle,  \* its previous_payload and idle_cycles
  wire,        \* envelopes on their way to the browser
  broken,      \* the connection is gone and the browser has not noticed yet
  fetch,       \* "none", "ask", "answered", "failed" or "done"
  response,    \* the snapshot in the answer, or None
  mounted,
  es,          \* the current event source; 0 before the first
  open,        \* event sources not closed
  timers,      \* handshake timers that have not fired and were not cleared
  armed,       \* handshakeTimer
  retries,     \* retry timers pending
  shown, latest, state, issue,  \* snapshot, latestDelta, connectionState, transportIssue
  overtaken,   \* history: the fetch replaced what the stream had sent and sent no more since
  faults

fileVars == <<alertFiles, suggestionFiles, coming, report, now, migration, written,
              spoiled>>
cacheVars == <<gateway, cache, expired, holder, seen>>
streamVars == <<stream, sent, idle, wire, broken>>
fetchVars == <<fetch, response>>
timerVars == <<mounted, es, open, timers, armed, retries>>
viewVars == <<shown, latest, state, issue, overtaken>>
vars == <<fileVars, cacheVars, streamVars, fetchVars, timerVars, viewVars, faults>>

Fault == faults < MaxFaults /\ faults' = faults + 1

-----------------------------------------------------------------------------
(* The files. *)

AppendTo(files, i, line) ==
  IF i > Len(files) THEN Append(files, <<line>>) ELSE [files EXCEPT ![i] = Append(@, line)]

\* An alert goes to the file of its own hour, a suggestion to that of the clock.
AppendAlert ==
  /\ coming.alerts # <<>>
  /\ coming' = [coming EXCEPT !.alerts = Tail(@)]
  /\ \E i \in 1..(Len(alertFiles) + 1) :
       alertFiles' = AppendTo(alertFiles, i, Head(coming.alerts))
  /\ UNCHANGED <<suggestionFiles, report, now, migration, written, spoiled, cacheVars,
                 streamVars, fetchVars, timerVars, viewVars, faults>>

\* What is appended to a file that a rewrite has read is lost with the rewrite.
AppendSuggestion ==
  /\ coming.suggestions # <<>>
  /\ coming' = [coming EXCEPT !.suggestions = Tail(@)]
  /\ \E i \in {Greatest(1, Len(suggestionFiles)), Len(suggestionFiles) + 1} :
       /\ suggestionFiles' = AppendTo(suggestionFiles, i, Head(coming.suggestions))
       /\ written' = written \cup {Head(coming.suggestions).id}
       /\ spoiled' = IF migration.step \in {"read", "truncated"} /\ migration.file = i
                     THEN spoiled \cup {Head(coming.suggestions).id} ELSE spoiled
  /\ UNCHANGED <<alertFiles, report, now, migration, cacheVars, streamVars, fetchVars,
                 timerVars, viewVars, faults>>

\* A writer dies in the middle of a line.  In the file the next line is glued to
\* the fragment, here it follows it: readers stop at the fragment, so both hide
\* it.  A line read while it is being written is not modelled.
TearLine ==
  /\ Fault
  /\ \/ /\ alertFiles # <<>>
        /\ alertFiles' = AppendTo(alertFiles, Len(alertFiles), Torn)
        /\ UNCHANGED suggestionFiles
     \/ /\ suggestionFiles # <<>> /\ migration.step \notin {"read", "truncated"}
        /\ suggestionFiles' = AppendTo(suggestionFiles, Len(suggestionFiles), Torn)
        /\ UNCHANGED alertFiles
  /\ UNCHANGED <<coming, report, now, migration, written, spoiled, cacheVars, streamVars,
                 fetchVars, timerVars, viewVars>>

Midnight ==
  /\ coming.midnight
  /\ coming' = [coming EXCEPT !.midnight = FALSE]
  /\ now' = (DayOf(now) + 1) * DayLength
  /\ UNCHANGED <<alertFiles, suggestionFiles, report, migration, written, spoiled, cacheVars,
                 streamVars, fetchVars, timerVars, viewVars, faults>>

IdleMigration == [step |-> "idle", file |-> 0, last |-> 0, lines |-> <<>>]

\* The next of the files listed at the start, or the end.
Onward ==
  migration' = IF migration.file = migration.last THEN IdleMigration
               ELSE [migration EXCEPT !.step = "scan", !.file = @ + 1, !.lines = <<>>]

\* Mutant of Rewritten: a file is read up to the first line that does not parse,
\* the way the gateway reads it.
RewrittenReadable(lines) ==
  LET read == ReadableLines(lines) IN [i \in 1..Len(read) |-> Upgrade(read[i])]

\* The text of a file after the upgrade; a line that does not parse ends the
\* migration before it writes the file.
Rewritten(lines) ==
  IF Torn \in Items(lines) THEN None ELSE [i \in 1..Len(lines) |-> Upgrade(lines[i])]

\* migrate_legacy_runtime: lists the files, and reads each of them whole.
MigrationStarts ==
  /\ migration.step = "idle" /\ coming.migrations > 0 /\ suggestionFiles # <<>>
  /\ coming' = [coming EXCEPT !.migrations = @ - 1]
  /\ migration' = [IdleMigration EXCEPT !.step = "scan", !.file = 1,
                                        !.last = Len(suggestionFiles)]
  /\ UNCHANGED <<alertFiles, suggestionFiles, report, now, written, spoiled, cacheVars,
                 streamVars, fetchVars, timerVars, viewVars, faults>>

\* A file in which nothing changes is not written.
MigrateRead ==
  /\ migration.step = "scan"
  /\ LET lines == suggestionFiles[migration.file]  text == Rewritten(lines) IN
     \/ text = None /\ migration' = IdleMigration
     \/ text = lines /\ Onward
     \/ text \notin {None, lines}
        /\ migration' = [migration EXCEPT !.step = "read", !.lines = text]
  /\ UNCHANGED <<alertFiles, suggestionFiles, coming, report, now, written, spoiled, cacheVars,
                 streamVars, fetchVars, timerVars, viewVars, faults>>

\* write_text truncates before it writes.
MigrateTruncate ==
  /\ migration.step = "read"
  /\ migration' = [migration EXCEPT !.step = "truncated"]
  /\ suggestionFiles' = [suggestionFiles EXCEPT ![migration.file] = <<>>]
  /\ UNCHANGED <<alertFiles, coming, report, now, written, spoiled, cacheVars, streamVars,
                 fetchVars, timerVars, viewVars, faults>>

\* The text is written from the start of the file, over what came meanwhile.
MigrateWrite ==
  /\ migration.step = "truncated"
  /\ suggestionFiles' = [suggestionFiles EXCEPT ![migration.file] = migration.lines]
  /\ Onward
  /\ UNCHANGED <<alertFiles, coming, report, now, written, spoiled, cacheVars, streamVars,
                 fetchVars, timerVars, viewVars, faults>>

MigrationDies ==
  /\ migration.step = "truncated" /\ Fault
  /\ migration' = IdleMigration
  /\ spoiled' = spoiled \cup {r.id : r \in Items(migration.lines)}
  /\ UNCHANGED <<alertFiles, suggestionFiles, coming, report, now, written, cacheVars,
                 streamVars, fetchVars, timerVars, viewVars>>

Writers ==
  \/ AppendAlert \/ AppendSuggestion \/ TearLine \/ Midnight
  \/ MigrationStarts \/ MigrateRead \/ MigrateTruncate \/ MigrateWrite \/ MigrationDies

-----------------------------------------------------------------------------
(* The gateway. *)

\* Mutant of Fresh: a payload stays good for ever.
FreshForEver == cache # None

Fresh == cache # None /\ ~expired

Heartbeat == [type |-> "heartbeat"]

\* The generator gets a payload: the first is sent whole, later ones with their
\* delta to what was sent last, or not at all.
Offer(payload) ==
  LET delta == IF sent = None THEN None ELSE StreamDelta(sent, payload) IN
  /\ stream' = "sleep"
  /\ IF sent = None \/ delta # None
     THEN /\ wire' = Append(wire, [type |-> IF sent = None THEN "snapshot" ELSE "delta",
                                   snapshot |-> payload, delta |-> delta])
          /\ sent' = payload /\ idle' = 0
     ELSE /\ wire' = IF idle + 1 >= IdleLimit THEN Append(wire, Heartbeat) ELSE wire
          /\ idle' = IF idle + 1 >= IdleLimit THEN 0 ELSE idle + 1
          /\ UNCHANGED sent
  /\ UNCHANGED <<broken, fetchVars>>

\* The request for the first snapshot gets its answer.
Answer(payload) ==
  /\ fetch' = "answered" /\ response' = payload
  /\ UNCHANGED streamVars

Asks(r) == IF r = "fetch" THEN fetch = "ask" ELSE stream = "ask"
Hand(r, payload) == IF r = "fetch" THEN Answer(payload) ELSE Offer(payload)

\* get_runtime_snapshot, before the lock and again behind it.
AnswerFromCache(r) ==
  /\ gateway = "up" /\ Asks(r) /\ holder # r /\ Fresh
  /\ Hand(r, cache)
  /\ UNCHANGED <<fileVars, cacheVars, timerVars, viewVars, faults>>

TakeLock(r) ==
  /\ gateway = "up" /\ Asks(r) /\ ~Fresh /\ holder = None
  /\ holder' = r
  /\ UNCHANGED <<fileVars, gateway, cache, expired, seen, streamVars, fetchVars, timerVars,
                 viewVars, faults>>

LoadAlerts ==
  /\ holder # None /\ seen = None
  /\ seen' = LoadRecentJsonl(alertFiles)
  /\ UNCHANGED <<fileVars, gateway, cache, expired, holder, streamVars, fetchVars, timerVars,
                 viewVars, faults>>

Snapshot(alerts) == LoadSnapshot(alerts, LoadRecentJsonl(suggestionFiles), report, now)

\* The holder's snapshot goes to the cache and to the holder; the first one
\* opens the gateway.
LoadRest ==
  /\ holder # None /\ seen # None
  /\ cache' = Snapshot(seen)
  /\ expired' = FALSE /\ holder' = None /\ seen' = None
  /\ IF holder = "warm" THEN gateway' = "up" /\ UNCHANGED <<streamVars, fetchVars>>
     ELSE Hand(holder, cache') /\ UNCHANGED gateway
  /\ UNCHANGED <<fileVars, timerVars, viewVars, faults>>

Expire ==
  /\ Fresh /\ expired' = TRUE
  /\ UNCHANGED <<fileVars, gateway, cache, holder, seen, streamVars, fetchVars, timerVars,
                 viewVars, faults>>

StreamWakes ==
  /\ stream = "sleep" /\ Len(wire) < MaxWire
  /\ stream' = "ask"
  /\ UNCHANGED <<fileVars, cacheVars, sent, idle, wire, broken, fetchVars, timerVars,
                 viewVars, faults>>

\* The generator is cancelled; the lock it may hold is released, and what its
\* thread reads is dropped.
CancelStream ==
  /\ stream' = "none" /\ sent' = None /\ idle' = 0 /\ wire' = <<>>
  /\ IF holder = "stream" THEN holder' = None /\ seen' = None ELSE UNCHANGED <<holder, seen>>

ConnectionBreaks ==
  /\ stream # "none" /\ Fault
  /\ CancelStream /\ broken' = TRUE
  /\ UNCHANGED <<fileVars, gateway, cache, expired, fetchVars, timerVars, viewVars>>

GatewayDies ==
  /\ gateway = "up" /\ Fault
  /\ gateway' = "down" /\ cache' = None /\ expired' = FALSE
  /\ holder' = None /\ seen' = None
  /\ stream' = "none" /\ sent' = None /\ idle' = 0 /\ wire' = <<>>
  /\ broken' = (broken \/ stream # "none")
  /\ fetch' = IF fetch = "ask" THEN "failed" ELSE fetch
  /\ UNCHANGED <<fileVars, response, timerVars, viewVars>>

\* Startup forces a load before the gateway serves.
GatewayStarts ==
  /\ gateway = "down"
  /\ gateway' = "starting" /\ holder' = "warm"
  /\ UNCHANGED <<fileVars, cache, expired, seen, streamVars, fetchVars, timerVars, viewVars,
                 faults>>

-----------------------------------------------------------------------------
(* The hook. *)

HookRecord(r) ==
  LET verdict == [r.verdict EXCEPT !.approval = (@ = TRUE)]
      plan == [r.plan EXCEPT !.approval = (@ = TRUE), !.write = (@ = TRUE),
                             !.actions = IF @ # <<>> THEN @ ELSE r.actions,
                             !.boundaries = IF @ # <<>> THEN @ ELSE <<"guidance only">>] IN
  [r EXCEPT !.verdict = verdict, !.plan = plan]
NormalizeSnapshot(s) ==
  [s EXCEPT !.suggestions = [i \in 1..Len(@) |-> HookRecord(@[i])]]

\* snapshotIntegrityIssue: no active suggestion, or one without its history.
IntegrityIssue(s) ==
  LET named == {i \in 1..Len(s.suggestions) : s.suggestions[i].id = s.default}
      active == IF named # {} THEN CHOOSE i \in named : \A j \in named : i <= j ELSE 1 IN
  \/ s.suggestions = <<>>
  \/ s.suggestions[active].timeline = <<>> \/ s.suggestions[active].telemetry = <<>>

Show(snapshot) ==
  IF IntegrityIssue(snapshot)
  THEN state' = "degraded" /\ issue' = TRUE /\ UNCHANGED shown
  ELSE shown' = NormalizeSnapshot(snapshot) /\ state' = "live" /\ issue' = FALSE

FetchArrives ==
  /\ mounted /\ fetch = "answered"
  /\ fetch' = "done" /\ response' = None
  /\ Show(response)
  /\ overtaken' = (/\ ~IntegrityIssue(response) /\ sent # None
                  /\ StreamDelta(response, sent) # None)
  /\ UNCHANGED <<fileVars, cacheVars, streamVars, timerVars, latest, faults>>

\* The answer is an error, or the request is aborted after 25 seconds.
FetchFails ==
  /\ mounted
  /\ \/ fetch = "failed" /\ UNCHANGED <<faults, holder, seen>>
     \/ /\ fetch \in {"ask", "answered"} /\ Fault
        /\ IF holder = "fetch" THEN holder' = None /\ seen' = None
           ELSE UNCHANGED <<holder, seen>>
  /\ fetch' = "done" /\ response' = None
  /\ state' = "fallback" /\ issue' = TRUE
  /\ UNCHANGED <<fileVars, gateway, cache, expired, streamVars, timerVars, shown, latest,
                 overtaken>>

\* connect: a new source, and the timer that waits for its first envelope.  It
\* errs when nobody listens.
Connect ==
  /\ es' = CHOOSE i \in 1..3 : i \notin timers \cup open /\ \A j \in 1..(i - 1) : j \in timers \cup open
  /\ open' = open \cup {es'} /\ timers' = timers \cup {es'} /\ armed' = es'
  /\ sent' = None /\ idle' = 0
  /\ IF gateway = "up"
     THEN stream' = "ask" /\ wire' = <<Heartbeat>> /\ broken' = FALSE
     ELSE stream' = "none" /\ wire' = <<>> /\ broken' = TRUE

RetryFires ==
  /\ mounted /\ retries > 0 /\ retries' = retries - 1
  /\ Connect
  /\ state' = IF state = "live" THEN "live" ELSE "connecting"
  /\ UNCHANGED <<fileVars, cacheVars, fetchVars, mounted, shown, latest, issue, overtaken,
                 faults>>

EnvelopeArrives ==
  /\ mounted /\ wire # <<>> /\ es \in open
  /\ wire' = Tail(wire)
  /\ timers' = timers \ {armed} /\ armed' = 0
  /\ LET envelope == Head(wire) IN
     IF envelope.type = "heartbeat" THEN UNCHANGED viewVars
     ELSE /\ Show(envelope.snapshot)
          /\ latest' = IF IntegrityIssue(envelope.snapshot) THEN latest ELSE envelope.delta
          /\ overtaken' = (overtaken /\ IntegrityIssue(envelope.snapshot))
  /\ UNCHANGED <<fileVars, cacheVars, stream, sent, idle, broken, fetchVars, mounted, es,
                 open, retries, faults>>

Degrade == /\ state' = IF state = "live" THEN "degraded" ELSE "fallback"
           /\ issue' = TRUE
           /\ UNCHANGED <<shown, latest, overtaken>>

\* Mutant of OnError: the handshake timer goes on.
OnErrorKeepsTimer ==
  /\ mounted /\ broken /\ es \in open
  /\ broken' = FALSE
  /\ open' = open \ {es} /\ retries' = retries + 1
  /\ Degrade
  /\ UNCHANGED <<fileVars, cacheVars, stream, sent, idle, wire, fetchVars, mounted, es,
                 timers, armed, faults>>

OnError ==
  /\ mounted /\ broken /\ es \in open
  /\ broken' = FALSE
  /\ timers' = timers \ {armed} /\ armed' = 0
  /\ open' = open \ {es} /\ retries' = retries + 1
  /\ Degrade
  /\ UNCHANGED <<fileVars, cacheVars, stream, sent, idle, wire, fetchVars, mounted, es, faults>>

\* No envelope within 8 seconds: whatever source is current is closed.
HandshakeFires ==
  /\ mounted
  /\ \E i \in timers : /\ timers' = timers \ {i}
                       /\ IF i \in open THEN Fault ELSE UNCHANGED faults
  /\ open' = open \ {es} /\ retries' = retries + 1 /\ broken' = FALSE
  /\ CancelStream /\ Degrade
  /\ UNCHANGED <<fileVars, gateway, cache, expired, fetchVars, mounted, es, armed>>

\* Both cleanups: the request is aborted, the timers and the source are closed.
Unmount ==
  /\ mounted /\ coming.unmount
  /\ mounted' = FALSE /\ open' = open \ {es}
  /\ timers' = timers \ {armed} /\ armed' = 0 /\ retries' = 0
  /\ CancelStream /\ broken' = FALSE
  /\ fetch' = "done" /\ response' = None
  /\ UNCHANGED <<fileVars, gateway, cache, expired, es, viewVars, faults>>

-----------------------------------------------------------------------------
Init ==
  /\ \E s \in Scenarios :
       /\ alertFiles = s.alerts /\ suggestionFiles = s.suggestions
       /\ coming = s.coming /\ report = s.report /\ now = s.now /\ faults = s.faults
       /\ written = {r.id : r \in (UNION {Items(s.suggestions[i]) :
                                            i \in 1..Len(s.suggestions)}) \ {Torn}}
  /\ migration = IdleMigration /\ spoiled = {}
  /\ gateway = "starting" /\ cache = None /\ expired = FALSE /\ holder = "warm" /\ seen = None
  /\ stream = "none" /\ sent = None /\ idle = 0 /\ wire = <<>> /\ broken = FALSE
  /\ fetch = "none" /\ response = None
  /\ mounted = FALSE /\ es = 0 /\ open = {} /\ timers = {} /\ armed = 0 /\ retries = 0
  /\ shown = Local /\ latest = None /\ state = "connecting" /\ issue = FALSE
  /\ overtaken = FALSE

\* The page is loaded once the gateway serves it: both effects run.
Mount ==
  /\ es = 0 /\ gateway = "up"
  /\ mounted' = TRUE /\ fetch' = "ask" /\ retries' = retries
  /\ Connect
  /\ UNCHANGED <<fileVars, cacheVars, response, viewVars, faults>>

Gateway ==
  \/ (\E r \in {"fetch", "stream"} : AnswerFromCache(r) \/ TakeLock(r))
  \/ LoadAlerts \/ LoadRest \/ Expire \/ StreamWakes \/ GatewayStarts

Hook == Mount \/ FetchArrives \/ FetchFails \/ RetryFires \/ EnvelopeArrives \/ OnError
        \/ HandshakeFires \/ Unmount

Next == Writers \/ Gateway \/ ConnectionBreaks \/ GatewayDies \/ Hook

Spec == Init /\ [][Next]_vars

\* A load ends, and a fresh payload reaches the generator that asked.
LoadEnds == holder # None /\ seen # None /\ holder' = None
StreamIsServed == Asks("stream") /\ gateway = "up" /\ holder # "stream" /\ Fresh
                  /\ stream' = "sleep"

\* The event loops run what is ready, and timers fire.  Answers to the first
\* request may be late for ever.
FairSpec ==
  /\ Spec
  /\ WF_holder(LoadEnds) /\ WF_stream(StreamIsServed)
  /\ \A r \in {"fetch", "stream"} : WF_vars(TakeLock(r))
  /\ WF_vars(LoadAlerts) /\ WF_vars(Expire) /\ WF_vars(StreamWakes)
  /\ WF_vars(GatewayStarts) /\ WF_vars(RetryFires) /\ WF_vars(EnvelopeArrives)
  /\ WF_vars(OnError)

-----------------------------------------------------------------------------
\* The browser follows the gateway on one connection: while the page is there,
\* exactly one source is open or one retry is pending.  The error handler, the
\* handshake timer and the retry timer may come in any order.
OneConnection ==
  /\ mounted => Cardinality(open) + retries = 1
  /\ ~mounted => open = {} /\ retries = 0

\* The newest suggestion is the one shown first, wherever clocks and midnight
\* put it, and a full feed still has the newest of every kind; the two panels
\* that name the scope agree unless the day has none or more than are listed.
NewestIsShown ==
  cache # None =>
    /\ cache.suggestions = <<>> => cache.suggestionTs = Unparsed
    /\ cache.suggestions # <<>> => /\ cache.suggestions[1].ts = cache.suggestionTs
                                   /\ cache.default = cache.suggestions[1].id
    /\ \A kind \in {"alert", "suggestion", "raw"} :
         LET newest == CASE kind = "alert" -> cache.alertTs
                         [] kind = "suggestion" -> cache.suggestionTs
                         [] OTHER -> report.raw IN
         newest # Unparsed => \E i \in Items(cache.feed) : i.kind = kind /\ i.ts = newest
    /\ \/ cache.closure = cache.stages.agentScope
       \/ cache.volume[2] \notin 1..RecordLimit

\* What a suggestion must look like where an operator reads it.
Guarded(r) ==
  /\ r.verdict.approval /\ r.plan.approval /\ ~r.plan.write
  /\ r.plan.mode = "human_gated"
  /\ (r.plan.status = "needs_evidence")
       <=> (r.verdict.disposition = "return_to_evidence_gather")
  /\ r.verdict.issues # <<>> => r.verdict.disposition = "return_to_evidence_gather"
  /\ r.set.items # <<>> => r.set.primary \in {i.id : i \in Items(r.set.items)}
  /\ r.plan.hypothesis \in {None, r.set.primary}

\* Whatever wrote a suggestion, agent, migration or an agent of before, the
\* console shows it behind the approval boundary: approval required by verdict
\* and draft, no write path, a draft that waits for evidence exactly when the
\* verdict sends it back, and a primary hypothesis that is one of those listed.
GuardedRecords == shown # Local => \A r \in Items(shown.suggestions) : Guarded(r)

\* A rewrite by the migration loses no suggestion, apart from those appended
\* while it ran and those of a rewrite that was cut off.
MigrationKeeps ==
  LET held == (UNION {Items(suggestionFiles[i]) : i \in 1..Len(suggestionFiles)}) \ {Torn} IN
  written \subseteq spoiled \cup {r.id : r \in held \cup Items(migration.lines)}

Current == Snapshot(LoadRecentJsonl(alertFiles))

\* When the files are quiet the console catches up: the gateway's delta from
\* what is shown to what the files hold is none, after any breaks, timeouts and
\* restarts.  Not so after the first fetch replaced a newer streamed snapshot,
\* which the stream does not send again, nor without any suggestion to show.
ConsoleCatchesUp ==
  <>[](\/ ~mounted \/ overtaken
       \/ Current.suggestions = <<>>
       \/ shown # Local /\ StreamDelta(shown, Current) = None)
=============================================================================
