-------------------------- MODULE HourlyRecompute ---------------------------
(***************************************************************************)
(* The hourly recompute: the scheduler's script, which asks for the        *)
(* repositories and posts one recompute per repository with a timeout and  *)
(* one retry, and the server's calls, each one transaction over the four   *)
(* metrics and the refresh log of a repository.  A call whose client gave  *)
(* up runs on beside the retry.                                            *)
(***************************************************************************)
EXTENDS Metrics, FiniteSetsExt

CONSTANTS
  Repos,
  Calls,         \* calls the server works on at a time
  Concurrency,   \* RECOMPUTE_CONCURRENCY
  \* Bounds: the first hour; hours a webhook is late; runs; and what is spent on hours and
  \* changes of rows, each 1, and on faults.
  FirstHour, MaxDelay, MaxRuns, Budget, FaultCost

ASSUME RecomputeOK ==
  /\ Concurrency \in Nat \ {0} /\ FirstHour \in Hours
  /\ {MaxDelay, MaxRuns, Budget, FaultCost} \subseteq Nat

Call == [pc: {"idle", "read", "write", "log", "refused"}, repo: Repos \cup {None},
         next: 1 .. 5, hour: Hours, serial: Nat,
         written: [MetricNames -> Counts],   \* upserted, not committed
         counts: Counts,                     \* read, not upserted yet
         errors: SUBSET MetricNames,
         base: [MetricNames -> Counts],      \* history: what it would have counted at its start
         overtaken: SUBSET MetricNames]      \* history: committed by another since it read them
NoCounts == [m \in MetricNames |-> [b \in Days |-> 0]]
NoCall == [pc |-> "idle", repo |-> None, next |-> 1, hour |-> 0, serial |-> 0,
           written |-> NoCounts, counts |-> [b \in Days |-> 0], errors |-> {},
           base |-> NoCounts, overtaken |-> {}]

Target == [state: {"none", "pending", "waiting", "ok", "failed"}, attempt: 0 .. 1,
           call: Calls \cup {None}]
NoTarget == [state |-> "none", attempt |-> 0, call |-> None]

LogRow == [status: {"none", "success", "failed"}, completed: Hours]

VARIABLES
  now,        \* the hour
  rows,       \* deployments, pull requests and attributions of each repository
  table,      \* the four bucket tables
  log,        \* metrics_refresh_log, by repository and hour
  call,       \* the server's calls
  target,     \* the script's state per repository
  run,        \* the script
  serials,    \* how many calls there were
  covered,    \* history: the newest call logged as a success, and its base
  rewound,    \* history: repositories in which a merge was taken back
  spent       \* of Budget

recomputeVars ==
  <<now, rows, table, log, call, target, run, serials, covered, rewound, spent>>
server == <<table, log, covered>>
script == <<target, run>>

RecomputeTypeOK ==
  /\ now \in Hours
  /\ rows \in [Repos -> Rows]
  /\ table \in [Repos -> [MetricNames -> Counts]]
  /\ log \in [Repos -> [Hours -> LogRow]]
  /\ call \in [Calls -> Call]
  /\ target \in [Repos -> Target]
  /\ run \in [pc: {"idle", "calling", "done"}, hour: Hours \cup {None}, exit: {0, 1}, nr: 0 .. MaxRuns]
  /\ serials \in Nat
  /\ covered \in [Repos -> [serial: Nat, completed: Hours, base: [MetricNames -> Counts],
                            disturbed: BOOLEAN]]
  /\ rewound \subseteq Repos
  /\ spent \in 0 .. Budget

RecomputeInit ==
  /\ now = FirstHour
  /\ rows = [r \in Repos |->
       [deployedAt |-> [x \in Deployments |-> None],
        pr |-> [p \in PRs |-> [opened |-> 0, merged |-> None, deployed |-> None]]]]
  /\ table = [r \in Repos |-> NoCounts]
  /\ log = [r \in Repos |-> [h \in Hours |-> [status |-> "none", completed |-> 0]]]
  /\ call = [c \in Calls |-> NoCall]
  /\ target = [r \in Repos |-> NoTarget]
  /\ run = [pc |-> "idle", hour |-> None, exit |-> 0, nr |-> 0]
  /\ serials = 0
  /\ covered = [r \in Repos |-> [serial |-> 0, completed |-> 0, base |-> NoCounts, disturbed |-> FALSE]]
  /\ rewound = {}
  /\ spent = 0

-----------------------------------------------------------------------------
(***************************************************************************)
(* What ingest leaves in the rows                                          *)
(***************************************************************************)

Spend(cost) == spent + cost <= Budget /\ spent' = spent + cost

Change(r, row) ==
  /\ Spend(1)
  /\ rows' = [rows EXCEPT ![r] = row]
  /\ UNCHANGED <<now, server, call, script, serials>>

\* Webhooks come at once, or late.
Lately == {t \in Hours : t <= now /\ t >= now - MaxDelay}

Merge(r, p, t) ==
  /\ rows[r].pr[p].merged = None /\ t \in Lately
  /\ Change(r, [rows[r] EXCEPT !.pr[p].merged = t])
  /\ UNCHANGED rewound

\* A deployment, with the merged pull requests that are in no deployment yet.
Ship(r, x, t) ==
  /\ rows[r].deployedAt[x] = None /\ t \in Lately
  /\ Change(r, [deployedAt |-> [rows[r].deployedAt EXCEPT ![x] = t],
                pr |-> [p \in PRs |->
                  IF rows[r].pr[p].deployed = None /\ rows[r].pr[p].merged # None
                       /\ rows[r].pr[p].merged <= t
                    THEN [rows[r].pr[p] EXCEPT !.deployed = t] ELSE rows[r].pr[p]]])
  /\ UNCHANGED rewound

\* A redelivered payload from before the merge.
Rewind(r, p) ==
  /\ rows[r].pr[p].merged # None
  /\ Change(r, [rows[r] EXCEPT !.pr[p].merged = None])
  /\ rewound' = rewound \cup {r}

Tick ==
  /\ now < LastHour
  /\ now' = now + 1
  /\ Spend(1)
  /\ UNCHANGED <<rows, server, call, script, serials, rewound>>

IngestStep ==
  \/ Tick
  \/ \E r \in Repos : \/ \E p \in PRs : Rewind(r, p) \/ \E t \in Hours : Merge(r, p, t)
                      \/ \E x \in Deployments, t \in Hours : Ship(r, x, t)

-----------------------------------------------------------------------------
(***************************************************************************)
(* run_hourly_recompute                                                    *)
(***************************************************************************)

Fault == Spend(FaultCost)

\* Once an hour.
Begin(pc, exit) ==
  /\ run.pc # "calling" /\ run.hour # now /\ run.nr < MaxRuns
  /\ run' = [pc |-> pc, hour |-> now, exit |-> exit, nr |-> run.nr + 1]

\* Enumeration: every repository that is not removed.
StartRun ==
  /\ Begin("calling", 0)
  /\ target' = [r \in Repos |-> [state |-> "pending", attempt |-> 0, call |-> None]]
  /\ UNCHANGED <<now, rows, server, call, serials, rewound, spent>>

EnumerationFails ==
  /\ Begin("done", 1)
  /\ Fault
  /\ UNCHANGED <<now, rows, server, call, target, serials, rewound>>

\* A retry keeps its place under the semaphore.
Started(r) == target[r].state = "waiting" \/ (target[r].state = "pending" /\ target[r].attempt = 1)
MayStart(r) ==
  \/ Started(r)
  \/ Cardinality({q \in Repos : Started(q)}) < Concurrency

BaseOf(r) == [m \in MetricNames |-> Counted(m, rows[r], now)]

Post(r, c) ==
  /\ run.pc = "calling" /\ target[r].state = "pending" /\ MayStart(r)
  /\ call[c].pc = "idle"
  /\ c = CHOOSE d \in Calls : call[d].pc = "idle"
  /\ serials' = serials + 1
  /\ call' = [call EXCEPT ![c] = [NoCall EXCEPT !.pc = "read", !.repo = r, !.hour = now,
                                                !.serial = serials + 1, !.base = BaseOf(r)]]
  /\ target' = [target EXCEPT ![r].state = "waiting", ![r].call = c]
  /\ UNCHANGED <<now, rows, server, run, rewound, spent>>

\* Fault: the retries have no end.
FaultyAgain(q) == IF q.state # "failed" THEN [q EXCEPT !.state = "pending", !.attempt = @ + 1, !.call = None] ELSE q
\* Once more, or no more.
Again(q) == IF q.attempt = 0 THEN [state |-> "pending", attempt |-> 1, call |-> None]
            ELSE [q EXCEPT !.state = "failed", !.call = None]

\* Fault: an error is not answered.
FaultyRespond(c, status) ==
  target' = [r \in Repos |->
    IF target[r].call = c /\ status = 200 THEN [target[r] EXCEPT !.state = "ok", !.call = None]
    ELSE target[r]]
\* The answer to whoever still waits for the call.
Respond(c, status) ==
  target' = [r \in Repos |->
    IF target[r].call # c THEN target[r]
    ELSE IF status = 200 THEN [target[r] EXCEPT !.state = "ok", !.call = None]
    ELSE Again(target[r])]

ConnectError(r) ==
  /\ run.pc = "calling" /\ target[r].state = "pending" /\ MayStart(r)
  /\ Fault
  /\ target' = [target EXCEPT ![r] = Again(@)]
  /\ UNCHANGED <<now, rows, server, call, run, serials, rewound>>

\* The server keeps computing.
ReadTimeout(r) ==
  /\ target[r].state = "waiting"
  /\ Fault
  /\ target' = [target EXCEPT ![r] = Again(@)]
  /\ UNCHANGED <<now, rows, server, call, run, serials, rewound>>

\* RemoteProtocolError: the server went away with the call.
ServerDies(c) ==
  /\ call[c].pc # "idle"
  /\ Fault
  /\ call' = [call EXCEPT ![c] = NoCall]
  /\ Respond(c, 503)
  /\ UNCHANGED <<now, rows, server, run, serials, rewound>>

\* Any other transport error leaves recompute_one, and gather, and run.
OtherTransportError(r) ==
  /\ target[r].state = "waiting"
  /\ Fault
  /\ run' = [run EXCEPT !.pc = "done", !.exit = 1]
  /\ target' = [q \in Repos |-> NoTarget]
  /\ UNCHANGED <<now, rows, server, call, serials, rewound>>

FinishRun ==
  /\ run.pc = "calling"
  /\ \A r \in Repos : target[r].state \in {"ok", "failed"}
  /\ run' = [run EXCEPT !.pc = "done",
                        !.exit = IF \E r \in Repos : target[r].state = "failed" THEN 1 ELSE 0]
  /\ UNCHANGED <<now, rows, server, call, target, serials, rewound, spent>>

-----------------------------------------------------------------------------
(***************************************************************************)
(* recompute_metrics: the four metrics in turn, then the refresh log       *)
(***************************************************************************)

Metric(c) == MetricFns[call[c].next]

Passed(entry) == [entry EXCEPT !.next = @ + 1, !.pc = IF entry.next = 4 THEN "log" ELSE "read"]

\* What one metric raises is caught, and the next one runs.
Read(c) ==
  LET counts == Counted(Metric(c), rows[call[c].repo], now) IN
  /\ call[c].pc = "read"
  /\ call' = [call EXCEPT ![c] =
       IF Metric(c) = "lead_time" /\ LeadTimeRaises(rows[call[c].repo], now)
         THEN Passed([call[c] EXCEPT !.errors = @ \cup {Metric(c)}])
       ELSE IF counts = [b \in Days |-> 0] THEN Passed(call[c])
       ELSE [call[c] EXCEPT !.pc = "write", !.counts = counts]]
  /\ UNCHANGED <<now, rows, server, script, serials, rewound, spent>>

\* The buckets of a metric that two calls both have rows for: the upsert of one waits for the
\* end of the other's transaction.
Common(f, g) == {b \in Days : f[b] > 0 /\ g[b] > 0}
Rivals(c) == {d \in Calls \ {c} : call[d].repo = call[c].repo}

Write(c) ==
  /\ call[c].pc = "write"
  /\ \A d \in Rivals(c) : Common(call[c].counts, call[d].written[Metric(c)]) = {}
  /\ call' = [call EXCEPT ![c] =
       Passed([call[c] EXCEPT !.written[Metric(c)] = call[c].counts, !.counts = NoCounts[Metric(c)]])]
  /\ UNCHANGED <<now, rows, server, script, serials, rewound, spent>>

\* The database ends the transaction: what is caught again, for this metric and those after
\* it, leaves nothing behind but a transaction that refuses.
Abort(c) ==
  /\ call[c].pc = "write"
  /\ call' = [call EXCEPT ![c] = [NoCall EXCEPT !.pc = "refused", !.repo = call[c].repo]]
  /\ UNCHANGED <<now, rows, server, script, serials, rewound>>

\* Two calls upsert the same buckets, each in the order its rows came in.
MetricDeadlock(c) ==
  /\ Abort(c)
  /\ \E d \in Rivals(c) : /\ call[d].pc = "write" /\ Metric(d) = Metric(c)
                          /\ Cardinality(Common(call[c].counts, call[d].counts)) > 1
  /\ UNCHANGED spent

DatabaseError(c) == Fault /\ Abort(c)

\* The refresh log refuses with the rest of an aborted transaction: rollback, and a 500.
RefuseLog(c) ==
  /\ call[c].pc = "refused"
  /\ call' = [call EXCEPT ![c] = NoCall]
  /\ Respond(c, 500)
  /\ UNCHANGED <<now, rows, server, run, serials, rewound, spent>>

\* Fault: ON CONFLICT DO NOTHING.
FaultyUpserted(old, new) == [b \in Days |-> IF old[b] = 0 THEN new[b] ELSE old[b]]
Upserted(old, new) == [b \in Days |-> IF new[b] > 0 THEN new[b] ELSE old[b]]

\* History: those that had read a metric by now and are to write it later.
HasRead(d) == {MetricFns[i] : i \in {j \in 1 .. 4 : j < call[d].next \/ (j = call[d].next /\ call[d].pc = "write")}}
Overtake(c) ==
  [d \in Calls |-> IF d = c THEN NoCall
                   ELSE IF d \in Rivals(c)
                     THEN [call[d] EXCEPT !.overtaken = @ \cup (HasRead(d) \ call[c].errors)]
                     ELSE call[d]]

\* History: the newest success, unless an older call came after it.
Covers(c, status) ==
  LET old == covered[call[c].repo] IN
  IF call[c].serial < old.serial THEN [old EXCEPT !.disturbed = TRUE]
  ELSE IF status = "success"
    THEN [serial |-> call[c].serial, completed |-> now, base |-> call[c].base, disturbed |-> FALSE]
    ELSE old

\* A recompute that failed is logged as such and answered with 200.
Commit(c) ==
  /\ call[c].pc = "log"
  /\ LET r == call[c].repo
         status == IF call[c].errors = {} THEN "success" ELSE "failed" IN
     /\ table' = [table EXCEPT ![r] = [m \in MetricNames |-> Upserted(@[m], call[c].written[m])]]
     /\ log' = [log EXCEPT ![r][call[c].hour] = [status |-> status, completed |-> now]]
     /\ covered' = [covered EXCEPT ![r] = Covers(c, status)]
  /\ call' = Overtake(c)
  /\ Respond(c, 200)
  /\ UNCHANGED <<now, rows, run, serials, rewound, spent>>

-----------------------------------------------------------------------------
ScriptStep == StartRun \/ FinishRun \/ \E r \in Repos, c \in Calls : Post(r, c)

ServerStep(c) == Read(c) \/ Write(c) \/ MetricDeadlock(c) \/ RefuseLog(c) \/ Commit(c)

RecomputeFaultStep ==
  \/ EnumerationFails
  \/ \E r \in Repos : ConnectError(r) \/ ReadTimeout(r) \/ OtherTransportError(r)
  \/ \E c \in Calls : ServerDies(c) \/ DatabaseError(c)

RecomputeNext ==
  IngestStep \/ ScriptStep \/ RecomputeFaultStep \/ \E c \in Calls : ServerStep(c)

RecomputeSpec == RecomputeInit /\ [][RecomputeNext]_recomputeVars

\* The script and the server's calls go on; neither time, nor rows, nor faults need to come.
RecomputeFairness ==
  /\ WF_recomputeVars(ScriptStep)
  /\ \A c \in Calls : WF_recomputeVars(ServerStep(c))

RecomputeFairSpec == RecomputeSpec /\ RecomputeFairness

-----------------------------------------------------------------------------
(***************************************************************************)
(* Properties                                                              *)
(***************************************************************************)

\* A count on a chart does not go down under the reader, although the recompute only looks
\* back to a moment within a day: in every bucket the views show in full, what a call commits
\* is at least what was there, except when the call had read before another one committed
\* (a straggler beside its retry) or a merge was taken back.
ShownCountsNeverFall ==
  [][\A r \in Repos \ rewound, m \in MetricNames : \A b \in Whole(now) :
       \/ table'[r][m][b] >= table[r][m][b]
       \/ \E c \in Calls : call[c].repo = r /\ call[c].pc = "log" /\ m \in call[c].overtaken
    ]_recomputeVars

\* get_metrics_freshness: from the newest success in the log.
LastRefresh(r) ==
  LET done == {log[r][h].completed : h \in {k \in Hours : log[r][k].status = "success"}} IN
  IF done = {} THEN None ELSE Max(done)
Freshness(r) ==
  IF LastRefresh(r) = None THEN "no_data"
  ELSE IF now - LastRefresh(r) > StaleHours THEN "stale" ELSE "ok"

\* Data shown as fresh is: behind "ok" there is a call that committed within the threshold,
\* and every bucket in full view holds at least what the rows said when that call began,
\* whatever failed, was retried or timed out since.  Stragglers and taken back merges aside.
FreshMeansCovered ==
  \A r \in Repos \ rewound :
    Freshness(r) = "ok" /\ ~covered[r].disturbed =>
      /\ now - covered[r].completed <= StaleHours
      /\ \A m \in MetricNames : \A b \in Whole(now) : table[r][m][b] >= covered[r].base[m][b]

\* Every run ends: no target waits for a slot that is never released, nor for a call that
\* waits for another.
RunEnds == run.pc = "calling" ~> run.pc # "calling"
=============================================================================
