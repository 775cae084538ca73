----------------------- MODULE HourlyRecomputeProofs ------------------------
(***************************************************************************)
(* Proofs about the hourly recompute, for any number of repositories,      *)
(* calls, rows and runs, and any calendar: what a metric counts in a       *)
(* bucket shown in full only grows while no merge is taken back, so that   *)
(* no commit puts less there than its call, an earlier success or the      *)
(* table had, and what is shown as fresh is.                               *)
(***************************************************************************)
EXTENDS HourlyRecompute, FiniteSetTheorems, WellFoundedInduction, TLAPS

(***************************************************************************)
(* What the metrics count.                                                 *)
(***************************************************************************)
LEMMA MetricsFour ==
  /\ MetricNames = {"deployment_frequency", "lead_time", "pr_cycle_time", "pr_throughput"}
  /\ \A i \in 1 .. 4 : MetricFns[i] \in MetricNames
  /\ \A i, j \in 1 .. 4 : MetricFns[i] = MetricFns[j] => i = j
<1>1. 1 .. 4 = {1, 2, 3, 4}
  OBVIOUS
<1>2. /\ MetricFns[1] = "deployment_frequency" /\ MetricFns[2] = "lead_time"
      /\ MetricFns[3] = "pr_cycle_time" /\ MetricFns[4] = "pr_throughput"
  BY DEF MetricFns
<1> QED
  BY <1>1, <1>2 DEF MetricNames

LEMMA DaysType ==
  /\ HoursPerDay \in Nat \ {0} /\ DaysPerWeek \in Nat \ {0} /\ LastHour \in Nat
  /\ \A t \in Hours : DayOf(t) \in Days /\ WeekStart(t) \in Int
  /\ Days \subseteq Nat /\ 0 \in Days
<1>1. /\ HoursPerDay \in Nat \ {0} /\ DaysPerWeek \in Nat \ {0} /\ LastHour \in Nat
  BY CalendarOK
<1>2. \A t \in Hours : t \div HoursPerDay \in Nat /\ t \div HoursPerDay <= LastHour \div HoursPerDay
  BY <1>1 DEF Hours
<1> QED
  BY <1>1, <1>2 DEF Days, DayOf, WeekStart, Hours

\* A moment is not before the day, nor the week, it belongs to.
LEMMA DayBegins ==
  ASSUME NEW t \in Hours
  PROVE  DayOf(t) * HoursPerDay <= t /\ WeekStart(t) * HoursPerDay <= t
<1>1. HoursPerDay \in Nat \ {0} /\ DaysPerWeek \in Nat \ {0} /\ t \in Nat
  BY CalendarOK DEF Hours
<1>2. DayOf(t) \in Nat /\ DayOf(t) * HoursPerDay <= t
  BY <1>1 DEF DayOf
<1>3. DayOf(t) % DaysPerWeek \in Nat
  BY <1>1, <1>2
<1>4. WeekStart(t) \in Int /\ WeekStart(t) <= DayOf(t)
  BY <1>2, <1>3 DEF WeekStart
<1>5. WeekStart(t) * HoursPerDay <= DayOf(t) * HoursPerDay
  BY <1>1, <1>2, <1>4
<1>6. WeekStart(t) * HoursPerDay \in Int /\ DayOf(t) * HoursPerDay \in Int
  BY <1>1, <1>2, <1>4
<1> QED
  BY <1>1, <1>2, <1>5, <1>6

\* Rows only got more: what was deployed, merged or attributed still is, then.
GrownTime(old, new) == old # None => new = old
Grown(old, new) ==
  /\ \A x \in Deployments : GrownTime(old.deployedAt[x], new.deployedAt[x])
  /\ \A p \in PRs : /\ new.pr[p].opened = old.pr[p].opened
                    /\ GrownTime(old.pr[p].merged, new.pr[p].merged)
                    /\ GrownTime(old.pr[p].deployed, new.pr[p].deployed)

\* The sample of a metric in a bucket.
Sample(m, row, at, b) ==
  CASE m = "deployment_frequency" -> FrequencyOf(row, at, b)
    [] m = "lead_time" -> LeadTimesOf(row, at, b)
    [] m = "pr_cycle_time" -> CycleTimesOf(row, at, b)
    [] m = "pr_throughput" -> MergedIn(row, at, b)

LEMMA SampleFinite ==
  ASSUME NEW m \in MetricNames, NEW row, NEW at, NEW b
  PROVE  /\ IsFiniteSet(Sample(m, row, at, b))
         /\ CountOf(m, row, at, b) = Cardinality(Sample(m, row, at, b))
         /\ CountOf(m, row, at, b) \in Nat
<1>1. IsFiniteSet(Deployments) /\ IsFiniteSet(PRs)
  BY CalendarOK
<1>2. Sample(m, row, at, b) \in SUBSET Deployments \/ Sample(m, row, at, b) \in SUBSET PRs
  BY MetricsFour DEF Sample, FrequencyOf, LeadTimesOf, CycleTimesOf, MergedIn
<1>3. IsFiniteSet(Sample(m, row, at, b))
  BY <1>1, <1>2, FS_Subset
<1>4. CountOf(m, row, at, b) = Cardinality(Sample(m, row, at, b))
  BY DEF CountOf, Sample
<1> QED
  BY <1>3, <1>4, FS_CardinalityType

LEMMA CountedType ==
  ASSUME NEW m \in MetricNames, NEW row, NEW at
  PROVE  /\ Counted(m, row, at) \in Counts
         /\ \A b \in Days : Counted(m, row, at)[b] = CountOf(m, row, at, b)
  BY SampleFinite DEF Counted, Counts

\* In a bucket that the later cutoff does not cut, the sample only grows.
LEMMA CountGrows ==
  ASSUME NEW m \in MetricNames, NEW old \in Rows, NEW new \in Rows, Grown(old, new),
         NEW at \in Hours, NEW later \in Hours, at <= later, NEW b \in Whole(later)
  PROVE  CountOf(m, old, at, b) <= CountOf(m, new, later, b)
<1>1. b \in Days /\ b \in Nat /\ b * HoursPerDay >= Cutoff(later)
  BY DaysType DEF Whole, Shown
<1>2. None \notin Hours /\ Cutoff(later) \in Int
  BY CalendarOK DEF Hours, Cutoff
<1>3. b * HoursPerDay \in Int
  BY <1>1, DaysType
<1>4. ASSUME NEW t \in Hours \cup {None}, NEW u \in Hours \cup {None}, GrownTime(t, u), Within(t, at),
             DayOf(t) = b \/ WeekStart(t) = b
      PROVE  u = t /\ t \in Hours /\ Within(u, later)
  <2>1. u = t /\ t \in Hours
    BY <1>4 DEF GrownTime, Within
  <2>2. b * HoursPerDay <= t
    BY <1>4, <2>1, DayBegins
  <2>3. t >= Cutoff(later)
    BY <1>1, <1>2, <1>3, <2>1, <2>2 DEF Hours
  <2> QED
    BY <1>2, <2>1, <2>3 DEF Within
<1>5. /\ \A x \in Deployments : old.deployedAt[x] \in Hours \cup {None} /\ new.deployedAt[x] \in Hours \cup {None}
      /\ \A p \in PRs : /\ old.pr[p].merged \in Hours \cup {None} /\ new.pr[p].merged \in Hours \cup {None}
                        /\ old.pr[p].deployed \in Hours \cup {None} /\ new.pr[p].deployed \in Hours \cup {None}
  BY DEF Rows, PullRequest
<1>6. FrequencyOf(old, at, b) \subseteq FrequencyOf(new, later, b)
  BY <1>4, <1>5 DEF FrequencyOf, Grown
<1>7. MergedIn(old, at, b) \subseteq MergedIn(new, later, b)
  BY <1>4, <1>5 DEF MergedIn, Grown
<1>8. LeadTimesOf(old, at, b) \subseteq LeadTimesOf(new, later, b)
  <2> SUFFICES ASSUME NEW p \in LeadTimesOf(old, at, b) PROVE p \in LeadTimesOf(new, later, b)
    OBVIOUS
  <2>1. /\ p \in PRs /\ Within(old.pr[p].deployed, at) /\ WeekStart(old.pr[p].deployed) = b
        /\ old.pr[p].merged # None /\ old.pr[p].deployed > old.pr[p].merged
    BY DEF LeadTimesOf
  <2>2. new.pr[p].deployed = old.pr[p].deployed /\ Within(new.pr[p].deployed, later)
    BY <1>4, <1>5, <2>1 DEF Grown
  <2>3. new.pr[p].merged = old.pr[p].merged
    BY <2>1 DEF Grown, GrownTime
  <2> QED
    BY <2>1, <2>2, <2>3 DEF LeadTimesOf
<1>9. CycleTimesOf(old, at, b) \subseteq CycleTimesOf(new, later, b)
  <2> SUFFICES ASSUME NEW p \in CycleTimesOf(old, at, b) PROVE p \in CycleTimesOf(new, later, b)
    OBVIOUS
  <2>1. p \in PRs /\ p \in MergedIn(old, at, b) /\ old.pr[p].merged > old.pr[p].opened
    BY DEF CycleTimesOf, MergedIn
  <2>2. p \in MergedIn(new, later, b) /\ new.pr[p].merged = old.pr[p].merged /\ new.pr[p].opened = old.pr[p].opened
    BY <1>7, <2>1 DEF Grown, GrownTime, MergedIn, Within
  <2> QED
    BY <2>1, <2>2 DEF CycleTimesOf
<1>10. Sample(m, old, at, b) \in SUBSET Sample(m, new, later, b)
  BY <1>6, <1>7, <1>8, <1>9, MetricsFour DEF Sample
<1> QED
  BY <1>10, SampleFinite, FS_Subset

-----------------------------------------------------------------------------
(***************************************************************************)
(* What a step is: ingest's, the script's, or one call's.                  *)
(***************************************************************************)
CallShape ==
  \A c \in Calls :
    /\ call[c].pc # "idle" => call[c].repo \in Repos
    /\ call[c].pc \in {"read", "write"} => call[c].next \in 1 .. 4
    /\ call[c].pc = "log" => call[c].next = 5

TypeInv == RecomputeTypeOK /\ CallShape

\* Rows change, or time passes; only a merge taken back takes something from the rows.
RowsMove ==
  /\ UNCHANGED <<table, log, covered, call, serials, target, run>>
  /\ now' \in Hours /\ now <= now' /\ spent' \in 0 .. Budget
  /\ rows' \in [Repos -> Rows]
  /\ rewound \subseteq rewound' /\ rewound' \subseteq Repos
  /\ \A r \in Repos \ rewound' : Grown(rows[r], rows'[r])

ScriptMoves ==
  /\ target' \in [Repos -> Target]
  /\ run' \in [pc: {"idle", "calling", "done"}, hour: Hours \cup {None}, exit: {0, 1}, nr: 0 .. MaxRuns]
  /\ spent' \in 0 .. Budget

\* The call c becomes q.
CallMoves(c, q) ==
  /\ UNCHANGED <<now, rows, table, log, covered, rewound>>
  /\ call' = [call EXCEPT ![c] = q]

LEMMA AgainType ==
  ASSUME NEW q \in Target
  PROVE  Again(q) \in Target
<1>1. [state |-> "pending", attempt |-> 1, call |-> None] \in Target
  BY DEF Target
<1>2. [q EXCEPT !.state = "failed", !.call = None] \in Target
  BY DEF Target
<1> QED
  BY <1>1, <1>2, Zenon DEF Again

LEMMA RespondType ==
  ASSUME RecomputeTypeOK, NEW c, NEW status, Respond(c, status)
  PROVE  target' \in [Repos -> Target]
<1>1. \A r \in Repos : target[r] \in Target
  BY DEF RecomputeTypeOK
<1>2. ASSUME NEW q \in Target
      PROVE  [q EXCEPT !.state = "ok", !.call = None] \in Target
  BY DEF Target
<1>3. ASSUME NEW r \in Repos
      PROVE  target'[r] \in Target
  <2>1. target'[r] = IF target[r].call # c THEN target[r]
                     ELSE IF status = 200 THEN [target[r] EXCEPT !.state = "ok", !.call = None]
                     ELSE Again(target[r])
    BY DEF Respond
  <2>2. target[r] \in Target /\ Again(target[r]) \in Target
    BY <1>1, AgainType
  <2>3. [target[r] EXCEPT !.state = "ok", !.call = None] \in Target
    BY <1>2, <2>2
  <2> QED
    BY <2>1, <2>2, <2>3, Zenon
<1>4. target' = [r \in Repos |-> target'[r]]
  BY Zenon DEF Respond
<1> QED
  BY <1>3, <1>4

\* The rows of one repository grow, and those of the others are what they were.
LEMMA OneRowGrows ==
  ASSUME NEW r \in Repos, rows \in [Repos -> Rows], NEW row \in Rows, Grown(rows[r], row),
         rows' = [rows EXCEPT ![r] = row]
  PROVE  rows' \in [Repos -> Rows] /\ \A q \in Repos : Grown(rows[q], rows'[q])
<1>1. \A q \in Repos : Grown(rows[q], rows[q])
  BY DEF Grown, GrownTime
<1> QED
  BY <1>1

LEMMA RowShape ==
  ASSUME RecomputeTypeOK, NEW r \in Repos
  PROVE  /\ rows[r] \in Rows
         /\ rows[r].deployedAt \in [Deployments -> Hours \cup {None}]
         /\ rows[r].pr \in [PRs -> PullRequest]
         /\ rows[r] = [deployedAt |-> rows[r].deployedAt, pr |-> rows[r].pr]
BY DEF RecomputeTypeOK, Rows

\* The row with another merge time.
LEMMA MergedAt ==
  ASSUME NEW old \in Rows, NEW p \in PRs, NEW u \in Hours \cup {None}
  PROVE  /\ [old EXCEPT !.pr[p].merged = u]
              = [deployedAt |-> old.deployedAt, pr |-> [old.pr EXCEPT ![p] = [old.pr[p] EXCEPT !.merged = u]]]
         /\ [old EXCEPT !.pr[p].merged = u] \in Rows
<1>1. [old EXCEPT !.pr[p].merged = u]
        = [deployedAt |-> old.deployedAt, pr |-> [old.pr EXCEPT ![p] = [old.pr[p] EXCEPT !.merged = u]]]
  BY DEF Rows
<1>2. old.pr[p] \in PullRequest /\ old.pr \in [PRs -> PullRequest] /\ old.deployedAt \in [Deployments -> Hours \cup {None}]
  BY DEF Rows
<1>3. [old.pr[p] EXCEPT !.merged = u] \in PullRequest
  BY <1>2 DEF PullRequest
<1>4. [deployedAt |-> old.deployedAt, pr |-> [old.pr EXCEPT ![p] = [old.pr[p] EXCEPT !.merged = u]]] \in Rows
  BY <1>2, <1>3 DEF Rows
<1> QED
  BY <1>1, <1>4

LEMMA SpendMoves ==
  ASSUME RecomputeTypeOK
  PROVE  /\ Spend(1) => spent' \in 0 .. Budget
         /\ Fault => spent' \in 0 .. Budget
         /\ \A t : t \in Hours => t <= t
BY RecomputeOK, CalendarOK DEF RecomputeTypeOK, Spend, Fault, Hours

LEMMA MergeMoves ==
  ASSUME RecomputeTypeOK, NEW r \in Repos, NEW p \in PRs, NEW t \in Hours, Merge(r, p, t)
  PROVE  RowsMove
<1> DEFINE row == [rows[r] EXCEPT !.pr[p].merged = t]
<1>1. rows[r] \in Rows /\ rows[r].pr[p] \in PullRequest /\ rows[r].pr[p].merged = None
  BY RowShape DEF Merge
<1>2. /\ row = [deployedAt |-> rows[r].deployedAt, pr |-> [rows[r].pr EXCEPT ![p] = [rows[r].pr[p] EXCEPT !.merged = t]]]
      /\ row \in Rows
  BY <1>1, MergedAt
<1>3. /\ rows' = [rows EXCEPT ![r] = row] /\ UNCHANGED <<now, table, log, covered, call, serials, target, run, rewound>>
      /\ Spend(1)
  BY DEF Merge, Change, server, script
<1> HIDE DEF row
<1>4. Grown(rows[r], row)
  BY <1>1, <1>2, RowShape DEF Grown, GrownTime, PullRequest
<1>5. rows' \in [Repos -> Rows] /\ \A q \in Repos : Grown(rows[q], rows'[q])
  BY <1>2, <1>3, <1>4, OneRowGrows DEF RecomputeTypeOK
<1> QED
  BY <1>3, <1>5, SpendMoves DEF RowsMove, RecomputeTypeOK

LEMMA ShipMoves ==
  ASSUME RecomputeTypeOK, NEW r \in Repos, NEW x \in Deployments, NEW t \in Hours, Ship(r, x, t)
  PROVE  RowsMove
<1> DEFINE at == [rows[r].deployedAt EXCEPT ![x] = t]
           pr == [p \in PRs |->
                   IF rows[r].pr[p].deployed = None /\ rows[r].pr[p].merged # None
                        /\ rows[r].pr[p].merged <= t
                     THEN [rows[r].pr[p] EXCEPT !.deployed = t] ELSE rows[r].pr[p]]
           row == [deployedAt |-> at, pr |-> pr]
<1>1. rows[r].deployedAt[x] = None /\ \A p \in PRs : rows[r].pr[p] \in PullRequest
  BY RowShape DEF Ship
<1>2. at \in [Deployments -> Hours \cup {None}] /\ \A y \in Deployments : GrownTime(rows[r].deployedAt[y], at[y])
  BY <1>1, RowShape DEF GrownTime
<1>3. \A p \in PRs : /\ pr[p] \in PullRequest /\ pr[p].opened = rows[r].pr[p].opened
                     /\ pr[p].merged = rows[r].pr[p].merged
                     /\ rows[r].pr[p].deployed = None \/ pr[p].deployed = rows[r].pr[p].deployed
  BY <1>1 DEF PullRequest
<1>4. /\ rows' = [rows EXCEPT ![r] = row] /\ UNCHANGED <<now, table, log, covered, call, serials, target, run, rewound>>
      /\ Spend(1)
  BY DEF Ship, Change, server, script
<1>5. pr \in [PRs -> PullRequest]
  BY <1>3
<1> HIDE DEF at, pr
<1>6. row \in Rows
  BY <1>2, <1>5 DEF Rows
<1>7. Grown(rows[r], row)
  BY <1>2, <1>3 DEF Grown, GrownTime
<1> HIDE DEF row
<1>8. rows' \in [Repos -> Rows] /\ \A q \in Repos : Grown(rows[q], rows'[q])
  BY <1>4, <1>6, <1>7, OneRowGrows DEF RecomputeTypeOK
<1> QED
  BY <1>4, <1>8, SpendMoves DEF RowsMove, RecomputeTypeOK

LEMMA RewindMoves ==
  ASSUME RecomputeTypeOK, NEW r \in Repos, NEW p \in PRs, Rewind(r, p)
  PROVE  RowsMove
<1> DEFINE row == [rows[r] EXCEPT !.pr[p].merged = None]
<1>1. row \in Rows
  BY RowShape, MergedAt
<1>2. /\ rows' = [rows EXCEPT ![r] = row] /\ UNCHANGED <<now, table, log, covered, call, serials, target, run>>
      /\ Spend(1) /\ rewound' = rewound \cup {r}
  BY DEF Rewind, Change, server, script
<1> HIDE DEF row
<1>3. \A q \in Repos \ rewound' : rows'[q] = rows[q]
  BY <1>2 DEF RecomputeTypeOK
<1>4. \A q \in Repos : Grown(rows[q], rows[q])
  BY DEF Grown, GrownTime
<1>5. rows' \in [Repos -> Rows]
  BY <1>1, <1>2 DEF RecomputeTypeOK
<1> QED
  BY <1>2, <1>3, <1>4, <1>5, SpendMoves DEF RowsMove, RecomputeTypeOK

LEMMA IngestMoves ==
  ASSUME RecomputeTypeOK, IngestStep
  PROVE  RowsMove
<1>1. CASE Tick
  <2>1. now' = now + 1 /\ now + 1 \in Hours
    BY <1>1, CalendarOK DEF Tick, RecomputeTypeOK, Hours
  <2>2. \A q \in Repos : Grown(rows[q], rows[q])
    BY DEF Grown, GrownTime
  <2>3. now <= now'
    BY <2>1, CalendarOK DEF RecomputeTypeOK, Hours
  <2>4. /\ UNCHANGED <<table, log, covered, call, serials, target, run, rows, rewound>>
        /\ Spend(1)
    BY <1>1 DEF Tick, server, script
  <2> QED
    BY <2>1, <2>2, <2>3, <2>4, SpendMoves DEF RowsMove, RecomputeTypeOK
<1> QED
  BY <1>1, MergeMoves, ShipMoves, RewindMoves DEF IngestStep

\* What a call keeps from its start to its end.
SameCall(q, e) ==
  q.repo = e.repo /\ q.serial = e.serial /\ q.base = e.base /\ q.overtaken = e.overtaken

\* The call goes on to the next metric.
NextMetric(q, e) ==
  q.next = e.next + 1 /\ q.pc = IF e.next = 4 THEN "log" ELSE "read"

LEMMA PassedIs ==
  ASSUME NEW e \in Call, e.next \in 1 .. 4
  PROVE  /\ Passed(e) \in Call /\ NextMetric(Passed(e), e) /\ SameCall(Passed(e), e)
         /\ Passed(e).written = e.written /\ Passed(e).errors = e.errors
<1>1. e.next + 1 \in 1 .. 5
  OBVIOUS
<1> QED
  BY <1>1 DEF Passed, Call, NextMetric, SameCall

LEMMA ZeroCounts ==
  /\ [b \in Days |-> 0] \in Counts
  /\ NoCounts \in [MetricNames -> Counts]
  /\ \A m \in MetricNames : NoCounts[m] = [b \in Days |-> 0]
  /\ NoCall \in Call
<1>1. [b \in Days |-> 0] \in Counts
  BY DEF Counts
<1>2. NoCounts \in [MetricNames -> Counts] /\ \A m \in MetricNames : NoCounts[m] = [b \in Days |-> 0]
  BY <1>1 DEF NoCounts
<1>3. 0 \in Hours
  BY CalendarOK DEF Hours
<1> QED
  BY <1>1, <1>2, <1>3 DEF NoCall, Call

LEMMA BaseType ==
  ASSUME NEW r
  PROVE  BaseOf(r) \in [MetricNames -> Counts]
BY CountedType DEF BaseOf

\* Posted: a new call, of the newest serial.
Posted(q) ==
  /\ q.pc = "read" /\ q.next = 1 /\ q.serial = serials + 1 /\ q.base = BaseOf(q.repo)
  /\ q.written = NoCounts /\ q.errors = {} /\ q.overtaken = {}

LEMMA PostMoves ==
  ASSUME TypeInv, NEW r \in Repos, NEW c \in Calls, Post(r, c)
  PROVE  /\ \E q \in Call : CallMoves(c, q) /\ Posted(q) /\ q.repo = r
         /\ ScriptMoves /\ serials' = serials + 1 /\ call[c].pc = "idle"
<1> DEFINE q == [NoCall EXCEPT !.pc = "read", !.repo = r, !.hour = now,
                               !.serial = serials + 1, !.base = BaseOf(r)]
<1>1. now \in Hours /\ serials + 1 \in Nat
  BY DEF TypeInv, RecomputeTypeOK
<1>2. q \in Call /\ Posted(q) /\ q.repo = r
  BY <1>1, ZeroCounts, BaseType DEF Call, Posted, NoCall
<1>3. CallMoves(c, q) /\ serials' = serials + 1 /\ call[c].pc = "idle"
  BY Zenon DEF Post, CallMoves, server
<1>4. target' \in [Repos -> Target]
  <2>1. target[r] \in Target
    BY DEF TypeInv, RecomputeTypeOK
  <2>2. [target[r] EXCEPT !.state = "waiting", !.call = c] \in Target
    BY <2>1 DEF Target
  <2>3. target' = [target EXCEPT ![r] = [target[r] EXCEPT !.state = "waiting", !.call = c]]
    BY DEF Post, TypeInv, RecomputeTypeOK, Target
  <2> QED
    BY <2>2, <2>3 DEF TypeInv, RecomputeTypeOK
<1>5. ScriptMoves
  BY <1>4 DEF ScriptMoves, Post, TypeInv, RecomputeTypeOK
<1> HIDE DEF q
<1> QED
  BY <1>2, <1>3, <1>5

\* What reading a metric makes of the call.
ReadInto(c, q) ==
  LET e == call[c]
      counts == Counted(Metric(c), rows[e.repo], now) IN
  /\ SameCall(q, e) /\ q.written = e.written
  /\ \/ q.pc = "write" /\ q.next = e.next /\ q.errors = e.errors /\ q.counts = counts
     \/ NextMetric(q, e) /\ q.errors = e.errors \cup {Metric(c)}
     \/ NextMetric(q, e) /\ q.errors = e.errors /\ counts = [b \in Days |-> 0]

LEMMA CallIs ==
  ASSUME TypeInv, NEW c \in Calls
  PROVE  /\ call[c] \in Call
         /\ call[c].pc \in {"read", "write"} => Metric(c) \in MetricNames
BY MetricsFour DEF TypeInv, RecomputeTypeOK, CallShape, Metric

LEMMA ReadMoves ==
  ASSUME TypeInv, NEW c \in Calls, Read(c)
  PROVE  /\ \E q \in Call : CallMoves(c, q) /\ ReadInto(c, q)
         /\ ScriptMoves /\ serials' = serials /\ call[c].pc = "read"
<1>1. call[c] \in Call /\ call[c].pc = "read" /\ call[c].next \in 1 .. 4 /\ Metric(c) \in MetricNames
  BY CallIs DEF Read, TypeInv, CallShape
<1> DEFINE e == call[c]
           counts == Counted(Metric(c), rows[e.repo], now)
           raised == [e EXCEPT !.errors = @ \cup {Metric(c)}]
           some == [e EXCEPT !.pc = "write", !.counts = counts]
           q == IF Metric(c) = "lead_time" /\ LeadTimeRaises(rows[e.repo], now) THEN Passed(raised)
                ELSE IF counts = [b \in Days |-> 0] THEN Passed(e) ELSE some
<1>2. CallMoves(c, q) /\ UNCHANGED <<target, run, spent, serials>>
  BY Zenon DEF Read, CallMoves, server, script
<1>3. ScriptMoves
  BY <1>2 DEF ScriptMoves, TypeInv, RecomputeTypeOK
<1>4. /\ raised \in Call /\ SameCall(raised, e) /\ raised.next = e.next
      /\ raised.written = e.written /\ raised.errors = e.errors \cup {Metric(c)}
  BY <1>1 DEF Call, SameCall
<1>5. counts \in Counts
  BY <1>1, CountedType
<1>6. /\ some \in Call /\ SameCall(some, e) /\ some.next = e.next
      /\ some.written = e.written /\ some.errors = e.errors /\ some.pc = "write" /\ some.counts = counts
  <2> HIDE DEF counts
  <2> QED
    BY <1>1, <1>5 DEF Call, SameCall
<1>7. /\ Passed(raised) \in Call /\ NextMetric(Passed(raised), e) /\ SameCall(Passed(raised), e)
      /\ Passed(raised).written = e.written /\ Passed(raised).errors = e.errors \cup {Metric(c)}
  <2> HIDE DEF raised
  <2> QED
    BY <1>1, <1>4, PassedIs DEF NextMetric, SameCall
<1>8. /\ Passed(e) \in Call /\ NextMetric(Passed(e), e) /\ SameCall(Passed(e), e)
      /\ Passed(e).written = e.written /\ Passed(e).errors = e.errors
  BY <1>1, PassedIs
<1>9. q \in Call /\ ReadInto(c, q)
  <2> HIDE DEF raised, some
  <2> QED
    BY <1>6, <1>7, <1>8 DEF ReadInto
<1> HIDE DEF q
<1> QED
  BY <1>1, <1>2, <1>3, <1>9

\* What upserting it makes of the call.
WroteInto(c, q) ==
  LET e == call[c] IN
  /\ SameCall(q, e) /\ NextMetric(q, e) /\ q.errors = e.errors
  /\ q.written = [e.written EXCEPT ![Metric(c)] = e.counts]

LEMMA WriteMoves ==
  ASSUME TypeInv, NEW c \in Calls, Write(c)
  PROVE  /\ \E q \in Call : CallMoves(c, q) /\ WroteInto(c, q)
         /\ ScriptMoves /\ serials' = serials /\ call[c].pc = "write"
<1>1. call[c] \in Call /\ call[c].pc = "write" /\ call[c].next \in 1 .. 4 /\ Metric(c) \in MetricNames
  BY CallIs DEF Write, TypeInv, CallShape
<1> DEFINE e == call[c]
           w == [e EXCEPT !.written[Metric(c)] = e.counts, !.counts = NoCounts[Metric(c)]]
           f == [e.written EXCEPT ![Metric(c)] = e.counts]
<1>2. CallMoves(c, Passed(w)) /\ UNCHANGED <<target, run, spent, serials>>
  BY Zenon DEF Write, CallMoves, server, script
<1>3. ScriptMoves
  BY <1>2 DEF ScriptMoves, TypeInv, RecomputeTypeOK
<1>4. f \in [MetricNames -> Counts] /\ NoCounts[Metric(c)] \in Counts
  BY <1>1, ZeroCounts DEF Call
<1>5. w = [e EXCEPT !.written = f, !.counts = NoCounts[Metric(c)]]
  BY <1>1 DEF Call
<1>6. w \in Call /\ SameCall(w, e) /\ w.next = e.next /\ w.errors = e.errors /\ w.written = f
  <2> HIDE DEF f
  <2> QED
    BY <1>1, <1>4, <1>5 DEF Call, SameCall
<1>7. /\ Passed(w) \in Call /\ NextMetric(Passed(w), w) /\ SameCall(Passed(w), w)
      /\ Passed(w).written = f /\ Passed(w).errors = e.errors
  <2> HIDE DEF w, f
  <2> QED
    BY <1>1, <1>6, PassedIs
<1>8. WroteInto(c, Passed(w))
  <2> HIDE DEF w
  <2> QED
    BY <1>6, <1>7 DEF WroteInto, NextMetric, SameCall
<1> HIDE DEF w
<1> QED
  BY <1>1, <1>2, <1>3, <1>7, <1>8

\* A call that dies, or is aborted, or whose log is refused, leaves nothing.
DroppedInto(q) == q \in Call /\ q.pc \in {"idle", "refused"} /\ q.serial = 0

LEMMA DropMoves ==
  ASSUME TypeInv, NEW c \in Calls,
         ServerDies(c) \/ MetricDeadlock(c) \/ DatabaseError(c) \/ RefuseLog(c)
  PROVE  /\ \E q : CallMoves(c, q) /\ DroppedInto(q) /\ (q.pc # "idle" => q.repo \in Repos)
         /\ ScriptMoves /\ serials' = serials
<1>1. NoCall \in Call /\ NoCall.pc = "idle" /\ NoCall.serial = 0
  BY ZeroCounts DEF NoCall
<1>2. RecomputeTypeOK
  BY DEF TypeInv
<1>3. CASE ServerDies(c) \/ RefuseLog(c)
  <2>1. CallMoves(c, NoCall) /\ UNCHANGED <<run, serials>>
    BY <1>3, Zenon DEF ServerDies, RefuseLog, CallMoves, server
  <2>2. target' \in [Repos -> Target]
    BY <1>2, <1>3, RespondType DEF ServerDies, RefuseLog
  <2>3. spent' \in 0 .. Budget
    BY <1>2, <1>3, SpendMoves DEF ServerDies, RefuseLog, RecomputeTypeOK
  <2>4. ScriptMoves
    BY <1>2, <2>1, <2>2, <2>3 DEF ScriptMoves, RecomputeTypeOK
  <2> QED
    BY <1>1, <2>1, <2>4 DEF DroppedInto
<1>4. CASE MetricDeadlock(c) \/ DatabaseError(c)
  <2> DEFINE q == [NoCall EXCEPT !.pc = "refused", !.repo = call[c].repo]
  <2>1. Abort(c)
    BY <1>4 DEF MetricDeadlock, DatabaseError
  <2>2. CallMoves(c, q) /\ UNCHANGED <<target, run, serials>> /\ call[c].pc = "write"
    BY <2>1, Zenon DEF Abort, CallMoves, server, script
  <2>3. call[c].repo \in Repos
    BY <2>2 DEF TypeInv, CallShape
  <2>4. DroppedInto(q) /\ q.repo \in Repos
    BY <1>1, <2>3 DEF Call, DroppedInto, NoCall
  <2>5. spent' \in 0 .. Budget
    BY <1>2, <1>4, SpendMoves DEF MetricDeadlock, DatabaseError, RecomputeTypeOK
  <2>6. ScriptMoves
    BY <1>2, <2>2, <2>5 DEF ScriptMoves, RecomputeTypeOK
  <2> HIDE DEF q
  <2> QED
    BY <2>2, <2>4, <2>6
<1> QED
  BY <1>3, <1>4

\* Only the script moves.
Alone == ScriptMoves /\ UNCHANGED <<now, rows, table, log, covered, rewound, call, serials>>

LEMMA ScriptAlone ==
  ASSUME TypeInv,
         \/ StartRun \/ FinishRun \/ EnumerationFails
         \/ \E r \in Repos : ConnectError(r) \/ ReadTimeout(r) \/ OtherTransportError(r)
  PROVE  Alone
<1>1. RecomputeTypeOK
  BY DEF TypeInv
<1>2. ASSUME NEW pc \in {"calling", "done"}, NEW exit \in {0, 1}, Begin(pc, exit)
      PROVE  run' \in [pc: {"idle", "calling", "done"}, hour: Hours \cup {None}, exit: {0, 1}, nr: 0 .. MaxRuns]
  <2>1. run.nr + 1 \in 0 .. MaxRuns
    BY <1>1, <1>2, RecomputeOK DEF Begin, RecomputeTypeOK
  <2> QED
    BY <1>1, <1>2, <2>1 DEF Begin, RecomputeTypeOK
<1>3. CASE StartRun
  <2>1. target' \in [Repos -> Target]
    BY <1>3 DEF StartRun, Target
  <2>2. Begin("calling", 0) /\ UNCHANGED <<now, rows, table, log, covered, rewound, call, serials, spent>>
    BY <1>3, Zenon DEF StartRun, server
  <2> QED
    BY <1>1, <1>2, <2>1, <2>2 DEF Alone, ScriptMoves, RecomputeTypeOK
<1>4. CASE EnumerationFails
  <2>1. Begin("done", 1) /\ Fault /\ UNCHANGED <<now, rows, table, log, covered, rewound, call, serials, target>>
    BY <1>4, Zenon DEF EnumerationFails, server
  <2> QED
    BY <1>1, <1>2, <2>1, SpendMoves DEF Alone, ScriptMoves, RecomputeTypeOK
<1>5. CASE FinishRun
  <2>1. UNCHANGED <<now, rows, table, log, covered, rewound, call, serials, target, spent>>
    BY <1>5, Zenon DEF FinishRun, server
  <2>2. PICK exit \in {0, 1} : run' = [run EXCEPT !.pc = "done", !.exit = exit]
    BY <1>5 DEF FinishRun
  <2> QED
    BY <1>1, <2>1, <2>2 DEF Alone, ScriptMoves, RecomputeTypeOK
<1>6. ASSUME NEW r \in Repos, ConnectError(r) \/ ReadTimeout(r)
      PROVE  Alone
  <2>1. /\ UNCHANGED <<now, rows, table, log, covered, rewound, call, serials, run>> /\ Fault
        /\ target' = [target EXCEPT ![r] = Again(target[r])]
    BY <1>1, <1>6 DEF ConnectError, ReadTimeout, server, RecomputeTypeOK
  <2>2. target[r] \in Target /\ Again(target[r]) \in Target
    BY <1>1, AgainType DEF RecomputeTypeOK
  <2>3. target' \in [Repos -> Target]
    BY <1>1, <2>1, <2>2 DEF RecomputeTypeOK
  <2> QED
    BY <1>1, <2>1, <2>3, SpendMoves DEF Alone, ScriptMoves, RecomputeTypeOK
<1>7. ASSUME NEW r \in Repos, OtherTransportError(r)
      PROVE  Alone
  <2>1. /\ UNCHANGED <<now, rows, table, log, covered, rewound, call, serials>> /\ Fault
        /\ target' = [q \in Repos |-> NoTarget] /\ run' = [run EXCEPT !.pc = "done", !.exit = 1]
    BY <1>7, Zenon DEF OtherTransportError, server
  <2>2. NoTarget \in Target
    BY DEF NoTarget, Target
  <2>3. target' \in [Repos -> Target]
    BY <2>1, <2>2
  <2> QED
    BY <1>1, <2>1, <2>3, SpendMoves DEF Alone, ScriptMoves, RecomputeTypeOK
<1> QED
  BY <1>3, <1>4, <1>5, <1>6, <1>7

\* What a commit leaves of the other calls, of the table and of the log.
OvertakenBy(c, d) == IF d \in Rivals(c) THEN HasRead(d) \ call[c].errors ELSE {}
StatusOf(c) == IF call[c].errors = {} THEN "success" ELSE "failed"
NewTable(c) == [m \in MetricNames |-> Upserted(table[call[c].repo][m], call[c].written[m])]

LEMMA CommitMoves ==
  ASSUME TypeInv, NEW c \in Calls, Commit(c)
  PROVE  /\ call[c] \in Call /\ call[c].pc = "log" /\ call[c].repo \in Repos /\ call[c].next = 5
         /\ call'[c] = NoCall /\ call' \in [Calls -> Call]
         /\ \A d \in Calls \ {c} :
              /\ call'[d] = [call[d] EXCEPT !.overtaken = call[d].overtaken \cup OvertakenBy(c, d)]
              /\ call[d] \in Call
         /\ NewTable(c) \in [MetricNames -> Counts]
         /\ table' = [table EXCEPT ![call[c].repo] = NewTable(c)]
         /\ log' = [log EXCEPT ![call[c].repo][call[c].hour] = [status |-> StatusOf(c), completed |-> now]]
         /\ log' \in [Repos -> [Hours -> LogRow]]
         /\ Covers(c, StatusOf(c)) \in [serial: Nat, completed: Hours, base: [MetricNames -> Counts], disturbed: BOOLEAN]
         /\ covered' = [covered EXCEPT ![call[c].repo] = Covers(c, StatusOf(c))]
         /\ ScriptMoves /\ UNCHANGED <<now, rows, serials, rewound>>
<1>1. /\ RecomputeTypeOK /\ call[c] \in Call /\ call[c].pc = "log" /\ call[c].repo \in Repos /\ call[c].next = 5
      /\ \A d \in Calls : call[d] \in Call
  BY CallIs DEF Commit, TypeInv, CallShape
<1>2. UNCHANGED <<now, rows, run, serials, rewound, spent>> /\ Respond(c, 200) /\ call' = Overtake(c)
  BY DEF Commit
<1>3. ScriptMoves
  BY <1>1, <1>2, RespondType DEF ScriptMoves, RecomputeTypeOK
<1>4. \A d \in Calls : HasRead(d) \subseteq MetricNames
  BY MetricsFour DEF HasRead
<1>5. call'[c] = NoCall /\ NoCall \in Call
  BY <1>2, ZeroCounts DEF Overtake
<1>6. ASSUME NEW d \in Calls \ {c}
      PROVE  /\ call'[d] = [call[d] EXCEPT !.overtaken = call[d].overtaken \cup OvertakenBy(c, d)]
             /\ call'[d] \in Call
  <2>1. call[d] \in Call /\ OvertakenBy(c, d) \subseteq MetricNames
    BY <1>1, <1>4 DEF OvertakenBy
  <2>2. [call[d] EXCEPT !.overtaken = call[d].overtaken \cup OvertakenBy(c, d)] \in Call
    BY <2>1 DEF Call
  <2>3. CASE d \in Rivals(c)
    <3>1. call'[d] = [call[d] EXCEPT !.overtaken = @ \cup (HasRead(d) \ call[c].errors)]
      BY <1>2, <2>3 DEF Overtake
    <3> QED
      BY <2>2, <2>3, <3>1 DEF OvertakenBy
  <2>4. CASE d \notin Rivals(c)
    <3>1. call'[d] = call[d] /\ OvertakenBy(c, d) = {}
      BY <1>2, <2>4 DEF Overtake, OvertakenBy
    <3>2. [call[d] EXCEPT !.overtaken = call[d].overtaken \cup {}] = call[d]
      BY <2>1 DEF Call
    <3> QED
      BY <2>2, <3>1, <3>2
  <2> QED
    BY <2>3, <2>4
<1>7. call' = [d \in Calls |-> call'[d]]
  BY <1>2, Zenon DEF Overtake
<1>8. call' \in [Calls -> Call]
  BY <1>5, <1>6, <1>7
<1>9. NewTable(c) \in [MetricNames -> Counts]
  <2> SUFFICES ASSUME NEW m \in MetricNames PROVE Upserted(table[call[c].repo][m], call[c].written[m]) \in Counts
    BY DEF NewTable
  <2>1. table[call[c].repo][m] \in Counts /\ call[c].written[m] \in Counts
    BY <1>1 DEF RecomputeTypeOK, Call
  <2> QED
    BY <2>1 DEF Upserted, Counts
<1>10. /\ table' = [table EXCEPT ![call[c].repo] = NewTable(c)]
       /\ log' = [log EXCEPT ![call[c].repo][call[c].hour] = [status |-> StatusOf(c), completed |-> now]]
       /\ covered' = [covered EXCEPT ![call[c].repo] = Covers(c, StatusOf(c))]
  BY <1>1, Zenon DEF Commit, NewTable, StatusOf
<1>11. log' \in [Repos -> [Hours -> LogRow]]
  <2>1. [status |-> StatusOf(c), completed |-> now] \in LogRow /\ call[c].hour \in Hours
    BY <1>1 DEF RecomputeTypeOK, LogRow, StatusOf, Call
  <2> QED
    BY <1>1, <1>10, <2>1 DEF RecomputeTypeOK
<1>12. Covers(c, StatusOf(c)) \in [serial: Nat, completed: Hours, base: [MetricNames -> Counts], disturbed: BOOLEAN]
  <2>1. covered[call[c].repo] \in [serial: Nat, completed: Hours, base: [MetricNames -> Counts], disturbed: BOOLEAN]
    BY <1>1 DEF RecomputeTypeOK
  <2>2. [covered[call[c].repo] EXCEPT !.disturbed = TRUE]
          \in [serial: Nat, completed: Hours, base: [MetricNames -> Counts], disturbed: BOOLEAN]
    BY <2>1
  <2>3. [serial |-> call[c].serial, completed |-> now, base |-> call[c].base, disturbed |-> FALSE]
          \in [serial: Nat, completed: Hours, base: [MetricNames -> Counts], disturbed: BOOLEAN]
    BY <1>1 DEF RecomputeTypeOK, Call
  <2> QED
    BY <2>1, <2>2, <2>3, Zenon DEF Covers
<1> QED
  BY <1>1, <1>2, <1>3, <1>5, <1>6, <1>8, <1>9, <1>10, <1>11, <1>12

-----------------------------------------------------------------------------
(***************************************************************************)
(* Types, with the shape of the calls they need.                           *)
(***************************************************************************)
LEMMA TypeInitially == RecomputeInit => TypeInv
<1> SUFFICES ASSUME RecomputeInit PROVE TypeInv
  OBVIOUS
<1>1. now \in Hours /\ 0 \in Hours
  BY RecomputeOK, CalendarOK DEF RecomputeInit, Hours
<1>2. rows \in [Repos -> Rows]
  BY <1>1 DEF RecomputeInit, Rows, PullRequest
<1>3. table \in [Repos -> [MetricNames -> Counts]]
  BY ZeroCounts DEF RecomputeInit
<1>4. log \in [Repos -> [Hours -> LogRow]]
  BY <1>1 DEF RecomputeInit, LogRow
<1>5. call \in [Calls -> Call]
  BY ZeroCounts DEF RecomputeInit
<1>6. target \in [Repos -> Target]
  BY DEF RecomputeInit, Target, NoTarget
<1>7. run \in [pc: {"idle", "calling", "done"}, hour: Hours \cup {None}, exit: {0, 1}, nr: 0 .. MaxRuns]
  BY RecomputeOK DEF RecomputeInit
<1>8. covered \in [Repos -> [serial: Nat, completed: Hours, base: [MetricNames -> Counts], disturbed: BOOLEAN]]
  BY <1>1, ZeroCounts DEF RecomputeInit
<1>9. serials \in Nat /\ rewound \subseteq Repos /\ spent \in 0 .. Budget
  BY RecomputeOK DEF RecomputeInit
<1>10. CallShape
  BY DEF RecomputeInit, CallShape, NoCall
<1> QED
  BY <1>1, <1>2, <1>3, <1>4, <1>5, <1>6, <1>7, <1>8, <1>9, <1>10 DEF TypeInv, RecomputeTypeOK

\* One call moves.
LEMMA OneCallTyped ==
  ASSUME TypeInv, NEW c \in Calls, NEW q \in Call, CallMoves(c, q), ScriptMoves, serials' \in Nat,
         q.pc # "idle" => q.repo \in Repos,
         q.pc \in {"read", "write"} => q.next \in 1 .. 4,
         q.pc = "log" => q.next = 5
  PROVE  TypeInv'
<1>1. call' \in [Calls -> Call] /\ call'[c] = q /\ \A d \in Calls \ {c} : call'[d] = call[d]
  BY DEF CallMoves, TypeInv, RecomputeTypeOK
<1>2. CallShape'
  BY <1>1 DEF TypeInv, CallShape
<1> QED
  BY <1>1, <1>2 DEF TypeInv, RecomputeTypeOK, CallMoves, ScriptMoves

\* Which way a step goes.
LEMMA StepMoves ==
  ASSUME TypeInv, RecomputeNext
  PROVE  \/ RowsMove
         \/ Alone
         \/ \E r \in Repos, c \in Calls : Post(r, c)
         \/ \E c \in Calls : ServerDies(c) \/ MetricDeadlock(c) \/ DatabaseError(c) \/ RefuseLog(c)
         \/ \E c \in Calls : Read(c) \/ Write(c)
         \/ \E c \in Calls : Commit(c)
<1>1. RecomputeTypeOK
  BY DEF TypeInv
<1> QED
  BY <1>1, IngestMoves, ScriptAlone DEF RecomputeNext, ScriptStep, ServerStep, RecomputeFaultStep

LEMMA TypeStep ==
  ASSUME TypeInv, [RecomputeNext]_recomputeVars
  PROVE  TypeInv'
<1>1. CASE UNCHANGED recomputeVars
  BY <1>1 DEF recomputeVars, TypeInv, RecomputeTypeOK, CallShape
<1>2. CASE RowsMove
  BY <1>2 DEF RowsMove, TypeInv, RecomputeTypeOK, CallShape
<1>3. CASE Alone
  BY <1>3 DEF Alone, ScriptMoves, TypeInv, RecomputeTypeOK, CallShape
<1>4. ASSUME NEW r \in Repos, NEW c \in Calls, Post(r, c)
      PROVE  TypeInv'
  <2>1. PICK q \in Call : CallMoves(c, q) /\ Posted(q) /\ q.repo = r
    BY <1>4, PostMoves
  <2>2. ScriptMoves /\ serials' \in Nat
    BY <1>4, PostMoves DEF TypeInv, RecomputeTypeOK
  <2> QED
    BY <2>1, <2>2, OneCallTyped DEF Posted
<1>5. ASSUME NEW c \in Calls, ServerDies(c) \/ MetricDeadlock(c) \/ DatabaseError(c) \/ RefuseLog(c)
      PROVE  TypeInv'
  <2>1. PICK q : CallMoves(c, q) /\ DroppedInto(q) /\ (q.pc # "idle" => q.repo \in Repos)
    BY <1>5, DropMoves
  <2>2. ScriptMoves /\ serials' \in Nat
    BY <1>5, DropMoves DEF TypeInv, RecomputeTypeOK
  <2> QED
    BY <2>1, <2>2, OneCallTyped DEF DroppedInto
<1>6. ASSUME NEW c \in Calls, NEW q \in Call, CallMoves(c, q), SameCall(q, call[c]),
             NextMetric(q, call[c]) \/ (q.next = call[c].next /\ q.pc = "write"),
             ScriptMoves, serials' = serials, call[c].pc \in {"read", "write"}
      PROVE  TypeInv'
  <2>1. call[c].next \in 1 .. 4 /\ call[c].repo \in Repos
    BY <1>6 DEF TypeInv, CallShape
  <2>2. serials' \in Nat
    BY <1>6 DEF TypeInv, RecomputeTypeOK
  <2> QED
    BY <1>6, <2>1, <2>2, OneCallTyped DEF SameCall, NextMetric
<1>7. ASSUME NEW c \in Calls, Read(c)
      PROVE  TypeInv'
  <2>1. PICK q \in Call : CallMoves(c, q) /\ ReadInto(c, q)
    BY <1>7, ReadMoves
  <2> QED
    BY <1>6, <1>7, <2>1, ReadMoves DEF ReadInto
<1>8. ASSUME NEW c \in Calls, Write(c)
      PROVE  TypeInv'
  <2>1. PICK q \in Call : CallMoves(c, q) /\ WroteInto(c, q)
    BY <1>8, WriteMoves
  <2> QED
    BY <1>6, <1>8, <2>1, WriteMoves DEF WroteInto
<1>9. ASSUME NEW c \in Calls, Commit(c)
      PROVE  TypeInv'
  <2>1. RecomputeTypeOK'
    <3>1. /\ call[c].repo \in Repos /\ NewTable(c) \in [MetricNames -> Counts]
          /\ table' = [table EXCEPT ![call[c].repo] = NewTable(c)]
      BY <1>9, CommitMoves
    <3>2. table' \in [Repos -> [MetricNames -> Counts]]
      BY <3>1 DEF TypeInv, RecomputeTypeOK
    <3>3. /\ Covers(c, StatusOf(c)) \in [serial: Nat, completed: Hours, base: [MetricNames -> Counts], disturbed: BOOLEAN]
          /\ covered' = [covered EXCEPT ![call[c].repo] = Covers(c, StatusOf(c))]
      BY <1>9, CommitMoves
    <3>4. covered' \in [Repos -> [serial: Nat, completed: Hours, base: [MetricNames -> Counts], disturbed: BOOLEAN]]
      BY <3>1, <3>3 DEF TypeInv, RecomputeTypeOK
    <3>5. /\ call' \in [Calls -> Call] /\ log' \in [Repos -> [Hours -> LogRow]]
          /\ ScriptMoves /\ UNCHANGED <<now, rows, serials, rewound>>
      BY <1>9, CommitMoves
    <3> QED
      BY <3>2, <3>4, <3>5 DEF TypeInv, RecomputeTypeOK, ScriptMoves
  <2>2. ASSUME NEW d \in Calls
        PROVE  /\ call'[d].pc # "idle" => call'[d].repo \in Repos
               /\ call'[d].pc \in {"read", "write"} => call'[d].next \in 1 .. 4
               /\ call'[d].pc = "log" => call'[d].next = 5
    <3>1. CASE d = c
      <4>1. call'[c] = NoCall /\ NoCall.pc = "idle"
        BY <1>9, CommitMoves DEF NoCall
      <4> QED
        BY <3>1, <4>1
    <3>2. CASE d # c
      <4>1. call'[d] = [call[d] EXCEPT !.overtaken = call[d].overtaken \cup OvertakenBy(c, d)] /\ call[d] \in Call
        BY <1>9, <3>2, CommitMoves
      <4>2. call'[d].pc = call[d].pc /\ call'[d].repo = call[d].repo /\ call'[d].next = call[d].next
        BY <4>1 DEF Call
      <4> QED
        BY <4>2 DEF TypeInv, CallShape
    <3> QED
      BY <3>1, <3>2
  <2> QED
    BY <2>1, <2>2 DEF TypeInv, CallShape
<1> QED
  BY <1>1, <1>2, <1>3, <1>4, <1>5, <1>7, <1>8, <1>9, StepMoves

\* Every variable has its type: of every call the server works on, however it came, its fields.
THEOREM RecomputeTypeCorrect == RecomputeSpec => []RecomputeTypeOK
<1>1. RecomputeInit => TypeInv
  BY TypeInitially
<1>2. TypeInv /\ [RecomputeNext]_recomputeVars => TypeInv'
  BY TypeStep
<1>3. TypeInv => RecomputeTypeOK
  BY DEF TypeInv
<1> QED
  BY <1>1, <1>2, <1>3, PTL DEF RecomputeSpec

-----------------------------------------------------------------------------
(***************************************************************************)
(* Counts compared in the buckets that are whole at a moment.              *)
(***************************************************************************)
Under(t, f, g) == \A m \in MetricNames : \A b \in Whole(t) : f[m][b] <= g[m][b]

LEMMA WholeType ==
  ASSUME NEW t, NEW b \in Whole(t)
  PROVE  b \in Days
BY DEF Whole, Shown

LEMMA CountNat ==
  ASSUME NEW f \in [MetricNames -> Counts], NEW m \in MetricNames, NEW b \in Days
  PROVE  f[m][b] \in Nat
BY DEF Counts

\* A bucket that is whole later is whole now.
LEMMA WholeShrinks ==
  ASSUME NEW t \in Hours, NEW u \in Hours, t <= u
  PROVE  Whole(u) \subseteq Whole(t)
<1>1. HoursPerDay \in Nat \ {0} /\ RecomputeDays \in Nat /\ ViewDays \in Int /\ t \in Nat /\ u \in Nat
  BY CalendarOK DEF Hours
<1>2. DayOf(t) \in Nat /\ DayOf(u) \in Nat /\ DayOf(t) <= DayOf(u)
  BY <1>1 DEF DayOf
<1>3. RecomputeDays * HoursPerDay \in Int
  BY <1>1
<1> SUFFICES ASSUME NEW b \in Whole(u) PROVE b \in Whole(t)
  OBVIOUS
<1>4. b \in Days
  BY WholeType
<1>5. b \in Nat
  BY <1>4, DaysType
<1>6. b * HoursPerDay \in Int
  BY <1>1, <1>5
<1> QED
  BY <1>1, <1>2, <1>3, <1>4, <1>5, <1>6 DEF Whole, Shown, Cutoff

LEMMA UnderLater ==
  ASSUME NEW t \in Hours, NEW u \in Hours, t <= u, NEW f, NEW g, Under(t, f, g)
  PROVE  Under(u, f, g)
BY WholeShrinks DEF Under

LEMMA UnderTrans ==
  ASSUME NEW t, NEW f \in [MetricNames -> Counts], NEW g \in [MetricNames -> Counts],
         NEW h \in [MetricNames -> Counts], Under(t, f, g), Under(t, g, h)
  PROVE  Under(t, f, h)
<1> SUFFICES ASSUME NEW m \in MetricNames, NEW b \in Whole(t) PROVE f[m][b] <= h[m][b]
  BY DEF Under
<1>1. f[m][b] \in Nat /\ g[m][b] \in Nat /\ h[m][b] \in Nat
  BY CountNat, WholeType
<1> QED
  BY <1>1 DEF Under

LEMMA UnderRefl ==
  ASSUME NEW t, NEW f \in [MetricNames -> Counts]
  PROVE  Under(t, f, f) /\ Under(t, NoCounts, f)
<1> SUFFICES ASSUME NEW m \in MetricNames, NEW b \in Whole(t)
             PROVE  f[m][b] <= f[m][b] /\ NoCounts[m][b] <= f[m][b]
  BY DEF Under
<1>1. f[m][b] \in Nat /\ NoCounts[m][b] = 0
  BY CountNat, WholeType, ZeroCounts
<1> QED
  BY <1>1

LEMMA BaseIs ==
  ASSUME NEW r, NEW m \in MetricNames
  PROVE  /\ BaseOf(r)[m] = Counted(m, rows[r], now)
         /\ \A b \in Days : BaseOf(r)[m][b] = CountOf(m, rows[r], now, b)
BY CountedType DEF BaseOf

\* What a call would count now it would count later, in the buckets that are whole then.
LEMMA BaseGrows ==
  ASSUME RecomputeTypeOK, RecomputeTypeOK', RowsMove, NEW r \in Repos \ rewound'
  PROVE  Under(now', BaseOf(r), BaseOf(r)')
<1>1. rows[r] \in Rows /\ rows'[r] \in Rows /\ now \in Hours /\ now' \in Hours /\ now <= now'
      /\ Grown(rows[r], rows'[r])
  BY DEF RowsMove, RecomputeTypeOK
<1> SUFFICES ASSUME NEW m \in MetricNames, NEW b \in Whole(now')
             PROVE  BaseOf(r)[m][b] <= BaseOf(r)'[m][b]
  BY DEF Under
<1>2. b \in Days
  BY WholeType
<1>3. BaseOf(r)[m][b] = CountOf(m, rows[r], now, b)
  BY <1>2, CountedType DEF BaseOf
<1>4. BaseOf(r)' = [k \in MetricNames |-> Counted(k, rows'[r], now')]
  BY DEF BaseOf
<1>5. BaseOf(r)'[m][b] = CountOf(m, rows'[r], now', b)
  BY <1>2, <1>4, CountedType
<1>6. CountOf(m, rows[r], now, b) <= CountOf(m, rows'[r], now', b)
  BY <1>1, CountGrows
<1> QED
  BY <1>3, <1>5, <1>6

-----------------------------------------------------------------------------
(***************************************************************************)
(* What holds of the calls, the table and the newest success: nothing      *)
(* exceeds the rows; a newer call began from at least what an older one    *)
(* did; and what a call is to write is at least what it began from, and,   *)
(* unless another committed since it read, at least what is there.         *)
(***************************************************************************)
Live(e) == e.pc \in {"read", "write", "log"}
Of(c, r) == Live(call[c]) /\ call[c].repo = r

\* The metrics that the call e is through with, and that raised nothing.
Finished(e) == {m \in MetricNames : \E i \in 1 .. 4 : i < e.next /\ m = MetricFns[i]} \ e.errors

\* What e holds does not exceed the counts in most.
CallUnder(t, e, most) ==
  /\ Under(t, e.base, most) /\ Under(t, e.written, most)
  /\ e.pc = "write" => \A b \in Whole(t) : e.counts[b] <= most[MetricFns[e.next]][b]

\* What e puts for metric m is at least what it began from, and at least what the table shows.
AtLeast(t, e, m, new, shown) ==
  \A b \in Whole(t) :
    /\ e.base[m][b] <= new[b]
    /\ m \in e.overtaken \/ shown[m][b] <= new[b]

CallAtLeast(t, e, shown) ==
  /\ \A m \in Finished(e) : AtLeast(t, e, m, e.written[m], shown)
  /\ e.pc = "write" => AtLeast(t, e, MetricFns[e.next], e.counts, shown)

\* The metrics come in turn: e has written only those it is through with, and raised in no later one.
InTurn(e) ==
  /\ \A m \in MetricNames \ Finished(e) : e.written[m] = NoCounts[m]
  /\ \A i \in 1 .. 4 : i >= e.next => MetricFns[i] \notin e.errors

SerialsOK ==
  /\ \A c \in Calls : call[c].serial <= serials
  /\ \A r \in Repos : covered[r].serial <= serials

TimesOK ==
  \A r \in Repos :
    /\ covered[r].completed <= now
    /\ \A h \in Hours : log[r][h].status = "success" =>
         /\ log[r][h].completed <= now
         /\ covered[r].disturbed \/ log[r][h].completed <= covered[r].completed

RowsCover ==
  \A r \in Repos \ rewound :
    /\ Under(now, covered[r].base, BaseOf(r)) /\ Under(now, table[r], BaseOf(r))
    /\ \A c \in Calls : Of(c, r) => CallUnder(now, call[c], BaseOf(r))

BasesInOrder ==
  \A r \in Repos \ rewound : \A c \in Calls : Of(c, r) =>
    /\ call[c].serial >= covered[r].serial => Under(now, covered[r].base, call[c].base)
    /\ \A d \in Calls : Of(d, r) /\ call[c].serial >= call[d].serial => Under(now, call[d].base, call[c].base)

WrittenCovers ==
  /\ \A c \in Calls : Live(call[c]) => InTurn(call[c])
  /\ \A r \in Repos \ rewound : \A c \in Calls : Of(c, r) => CallAtLeast(now, call[c], table[r])

TableCovers ==
  \A r \in Repos \ rewound : ~covered[r].disturbed => Under(now, covered[r].base, table[r])

CoverInv ==
  TypeInv /\ SerialsOK /\ TimesOK /\ RowsCover /\ BasesInOrder /\ WrittenCovers /\ TableCovers

LEMMA CoverTypes ==
  ASSUME TypeInv
  PROVE  /\ \A r \in Repos : /\ covered[r].base \in [MetricNames -> Counts] /\ table[r] \in [MetricNames -> Counts]
                             /\ covered[r].serial \in Nat /\ covered[r].completed \in Hours
                             /\ covered[r].disturbed \in BOOLEAN
         /\ \A c \in Calls : /\ call[c].base \in [MetricNames -> Counts] /\ call[c].written \in [MetricNames -> Counts]
                             /\ call[c].counts \in Counts /\ call[c].serial \in Nat /\ call[c].errors \subseteq MetricNames
         /\ serials \in Nat /\ now \in Hours
<1>1. \A r \in Repos : covered[r] \in [serial: Nat, completed: Hours, base: [MetricNames -> Counts], disturbed: BOOLEAN]
  BY DEF TypeInv, RecomputeTypeOK
<1>2. \A c \in Calls : call[c] \in Call
  BY CallIs
<1> QED
  BY <1>1, <1>2 DEF TypeInv, RecomputeTypeOK, Call

LEMMA CoverInitially == RecomputeInit => CoverInv
<1> SUFFICES ASSUME RecomputeInit PROVE CoverInv
  OBVIOUS
<1>1. \A c \in Calls : ~Live(call[c]) /\ call[c].serial = 0
  BY DEF RecomputeInit, Live, NoCall
<1>2. \A r \in Repos : covered[r].base = NoCounts /\ table[r] = NoCounts /\ covered[r].serial = 0 /\ covered[r].completed = 0
                       /\ \A h \in Hours : log[r][h].status = "none"
  BY DEF RecomputeInit
<1>3. SerialsOK
  BY <1>1, <1>2 DEF RecomputeInit, SerialsOK
<1>4. TimesOK
  BY <1>2, RecomputeOK, CalendarOK DEF RecomputeInit, TimesOK, Hours
<1>5. RowsCover
  BY <1>1, <1>2, UnderRefl, BaseType DEF RowsCover, Of
<1>6. BasesInOrder /\ WrittenCovers
  BY <1>1 DEF BasesInOrder, WrittenCovers, Of
<1>7. TableCovers
  BY <1>2, UnderRefl, ZeroCounts DEF TableCovers
<1> QED
  BY <1>3, <1>4, <1>5, <1>6, <1>7, TypeInitially DEF CoverInv

\* A step that changes nothing the invariant reads.
LEMMA CoverStays ==
  ASSUME CoverInv, TypeInv', UNCHANGED <<now, rows, table, log, covered, rewound, call, serials>>
  PROVE  CoverInv'
<1>1. \A r : BaseOf(r)' = BaseOf(r)
  BY DEF BaseOf
<1>2. SerialsOK' /\ TimesOK'
  BY DEF CoverInv, SerialsOK, TimesOK
<1>3. RowsCover'
  BY <1>1 DEF CoverInv, RowsCover, Of
<1>4. BasesInOrder' /\ WrittenCovers' /\ TableCovers'
  BY DEF CoverInv, BasesInOrder, WrittenCovers, TableCovers, Of
<1> QED
  BY <1>2, <1>3, <1>4 DEF CoverInv

LEMMA CallUnderLater ==
  ASSUME NEW t \in Hours, NEW u \in Hours, t <= u, NEW e \in Call, e.pc = "write" => e.next \in 1 .. 4,
         NEW most \in [MetricNames -> Counts], NEW more \in [MetricNames -> Counts],
         Under(u, most, more), CallUnder(t, e, most)
  PROVE  CallUnder(u, e, more)
<1>1. e.base \in [MetricNames -> Counts] /\ e.written \in [MetricNames -> Counts] /\ e.counts \in Counts
  BY DEF Call
<1>2. Under(u, e.base, most) /\ Under(u, e.written, most)
  BY UnderLater DEF CallUnder
<1>3. Under(u, e.base, more) /\ Under(u, e.written, more)
  BY <1>1, <1>2, UnderTrans
<1>4. ASSUME e.pc = "write", NEW b \in Whole(u)
      PROVE  e.counts[b] <= more[MetricFns[e.next]][b]
  <2>1. b \in Days /\ b \in Whole(t) /\ MetricFns[e.next] \in MetricNames
    BY <1>4, MetricsFour, WholeType, WholeShrinks
  <2>2. e.counts[b] \in Nat /\ most[MetricFns[e.next]][b] \in Nat /\ more[MetricFns[e.next]][b] \in Nat
    BY <1>1, <2>1, CountNat DEF Counts
  <2>3. e.counts[b] <= most[MetricFns[e.next]][b] /\ most[MetricFns[e.next]][b] <= more[MetricFns[e.next]][b]
    BY <1>4, <2>1 DEF CallUnder, Under
  <2> QED
    BY <2>2, <2>3
<1> QED
  BY <1>3, <1>4 DEF CallUnder

LEMMA CallAtLeastLater ==
  ASSUME NEW t \in Hours, NEW u \in Hours, t <= u, NEW e, NEW shown, CallAtLeast(t, e, shown)
  PROVE  CallAtLeast(u, e, shown)
BY WholeShrinks DEF CallAtLeast, AtLeast

LEMMA RowsMoveCovers ==
  ASSUME CoverInv, TypeInv', RowsMove
  PROVE  CoverInv'
<1>1. /\ TypeInv /\ now \in Hours /\ now' \in Hours /\ now <= now' /\ rewound \subseteq rewound'
      /\ UNCHANGED <<table, log, covered, call, serials>>
  BY DEF CoverInv, RowsMove, TypeInv, RecomputeTypeOK
<1>2. SerialsOK'
  BY <1>1 DEF CoverInv, SerialsOK
<1>3. TimesOK'
  <2> SUFFICES ASSUME NEW r \in Repos
               PROVE  /\ covered[r].completed <= now'
                      /\ \A h \in Hours : log[r][h].status = "success" =>
                           /\ log[r][h].completed <= now'
                           /\ covered[r].disturbed \/ log[r][h].completed <= covered[r].completed
    BY <1>1 DEF TimesOK
  <2>1. covered[r].completed \in Int /\ now \in Int /\ now' \in Int
        /\ \A h \in Hours : log[r][h] \in LogRow /\ log[r][h].completed \in Int
    BY <1>1, CoverTypes, CalendarOK DEF Hours, LogRow, TypeInv, RecomputeTypeOK
  <2>2. /\ covered[r].completed <= now
        /\ \A h \in Hours : log[r][h].status = "success" =>
             /\ log[r][h].completed <= now
             /\ covered[r].disturbed \/ log[r][h].completed <= covered[r].completed
    BY DEF CoverInv, TimesOK
  <2> QED
    BY <1>1, <2>1, <2>2
<1>4. ASSUME NEW r \in Repos \ rewound'
      PROVE  r \in Repos \ rewound /\ Under(now', BaseOf(r), BaseOf(r)')
             /\ BaseOf(r) \in [MetricNames -> Counts] /\ BaseOf(r)' \in [MetricNames -> Counts]
  <2>1. BaseOf(r)' = [k \in MetricNames |-> Counted(k, rows'[r], now')]
    BY DEF BaseOf
  <2> QED
    BY <1>1, <1>4, <2>1, BaseGrows, BaseType, CountedType DEF TypeInv
<1>5. RowsCover'
  <2> SUFFICES ASSUME NEW r \in Repos \ rewound'
               PROVE  /\ Under(now', covered[r].base, BaseOf(r)') /\ Under(now', table[r], BaseOf(r)')
                      /\ \A c \in Calls : Of(c, r) => CallUnder(now', call[c], BaseOf(r)')
    BY <1>1 DEF RowsCover, Of
  <2>1. /\ Under(now, covered[r].base, BaseOf(r)) /\ Under(now, table[r], BaseOf(r))
        /\ \A c \in Calls : Of(c, r) => CallUnder(now, call[c], BaseOf(r))
    BY <1>4 DEF CoverInv, RowsCover
  <2>2. Under(now', covered[r].base, BaseOf(r)) /\ Under(now', table[r], BaseOf(r))
    BY <1>1, <2>1, UnderLater
  <2>3. Under(now', covered[r].base, BaseOf(r)') /\ Under(now', table[r], BaseOf(r)')
    BY <1>1, <1>4, <2>2, CoverTypes, UnderTrans
  <2>4. ASSUME NEW c \in Calls, Of(c, r)
        PROVE  CallUnder(now', call[c], BaseOf(r)')
    <3>1. call[c] \in Call /\ (call[c].pc = "write" => call[c].next \in 1 .. 4)
      BY <1>1, CallIs DEF TypeInv, CallShape
    <3> QED
      BY <1>1, <1>4, <2>1, <2>4, <3>1, CallUnderLater
  <2> QED
    BY <2>3, <2>4
<1>6. BasesInOrder'
  BY <1>1, <1>4, UnderLater DEF CoverInv, BasesInOrder, Of
<1>7. WrittenCovers'
  BY <1>1, <1>4, CallAtLeastLater DEF CoverInv, WrittenCovers, Of
<1>8. TableCovers'
  BY <1>1, <1>4, UnderLater DEF CoverInv, TableCovers
<1> QED
  BY <1>2, <1>3, <1>5, <1>6, <1>7, <1>8 DEF CoverInv

\* One call moves: it is the one it was, or the newest.
LEMMA OneCallCovers ==
  ASSUME CoverInv, TypeInv', NEW c \in Calls, NEW q \in Call, CallMoves(c, q),
         serials <= serials', q.serial <= serials',
         Live(q) =>
           /\ InTurn(q)
           /\ q.repo \in Repos \ rewound =>
                CallUnder(now, q, BaseOf(q.repo)) /\ CallAtLeast(now, q, table[q.repo])
           /\ \/ Live(call[c]) /\ SameCall(q, call[c])
              \/ q.serial = serials + 1 /\ q.base = BaseOf(q.repo)
  PROVE  CoverInv'
<1>1. /\ TypeInv /\ call'[c] = q /\ \A d \in Calls \ {c} : call'[d] = call[d]
      /\ UNCHANGED <<now, rows, table, log, covered, rewound>>
  BY DEF CoverInv, CallMoves, TypeInv, RecomputeTypeOK
<1>2. \A r : BaseOf(r)' = BaseOf(r)
  BY <1>1 DEF BaseOf
<1>3. /\ serials \in Nat /\ serials' \in Nat /\ q.serial \in Nat
      /\ (\A d \in Calls : call[d].serial \in Nat /\ call[d].serial <= serials)
      /\ (\A r \in Repos : covered[r].serial \in Nat /\ covered[r].serial <= serials)
  BY <1>1, CoverTypes DEF CoverInv, SerialsOK, Call, TypeInv, RecomputeTypeOK
<1>4. SerialsOK'
  <2>1. \A d \in Calls : call'[d].serial <= serials'
    BY <1>1, <1>3
  <2>2. \A r \in Repos : covered'[r].serial <= serials'
    BY <1>1, <1>3
  <2> QED
    BY <2>1, <2>2 DEF SerialsOK
<1>5. TimesOK' /\ TableCovers'
  BY <1>1 DEF CoverInv, TimesOK, TableCovers
<1>6. RowsCover'
  <2> SUFFICES ASSUME NEW r \in Repos \ rewound
               PROVE  /\ Under(now, covered[r].base, BaseOf(r)) /\ Under(now, table[r], BaseOf(r))
                      /\ \A d \in Calls : Of(d, r)' => CallUnder(now, call'[d], BaseOf(r))
    BY <1>1, <1>2 DEF RowsCover
  <2>1. /\ Under(now, covered[r].base, BaseOf(r)) /\ Under(now, table[r], BaseOf(r))
        /\ \A d \in Calls : Of(d, r) => CallUnder(now, call[d], BaseOf(r))
    BY DEF CoverInv, RowsCover
  <2> QED
    BY <1>1, <2>1 DEF Of
<1>7. WrittenCovers'
  <2>1. \A d \in Calls : Live(call'[d]) => InTurn(call'[d])
    BY <1>1 DEF CoverInv, WrittenCovers
  <2>2. ASSUME NEW r \in Repos \ rewound, NEW d \in Calls, Of(d, r)'
        PROVE  CallAtLeast(now, call'[d], table[r])
    BY <1>1, <2>2 DEF CoverInv, WrittenCovers, Of
  <2> QED
    BY <1>1, <2>1, <2>2 DEF WrittenCovers
<1>8. BasesInOrder'
  <2> SUFFICES ASSUME NEW r \in Repos \ rewound, NEW d \in Calls, Of(d, r)'
               PROVE  /\ call'[d].serial >= covered[r].serial => Under(now, covered[r].base, call'[d].base)
                      /\ \A f \in Calls : Of(f, r)' /\ call'[d].serial >= call'[f].serial
                           => Under(now, call'[f].base, call'[d].base)
    BY <1>1 DEF BasesInOrder
  <2>1. \A f \in Calls \ {c} : Of(f, r)' => Of(f, r)
    BY <1>1 DEF Of
  <2>2. Of(c, r)' => Live(q) /\ q.repo = r
    BY <1>1 DEF Of
  <2>3. CASE (Live(call[c]) /\ SameCall(q, call[c])) \/ ~(Live(q) /\ q.repo = r)
    <3>1. Of(c, r)' => Of(c, r)
      BY <2>2, <2>3 DEF Of, SameCall
    <3>2. \A f \in Calls : Of(f, r)' => Of(f, r) /\ call'[f].serial = call[f].serial /\ call'[f].base = call[f].base
      BY <1>1, <2>1, <2>2, <2>3, <3>1 DEF SameCall
    <3> QED
      BY <3>2 DEF CoverInv, BasesInOrder
  <2>4. CASE Live(q) /\ q.repo = r /\ q.serial = serials + 1 /\ q.base = BaseOf(r)
    <3>1. Under(now, covered[r].base, BaseOf(r)) /\ \A f \in Calls : Of(f, r) => Under(now, call[f].base, BaseOf(r))
      BY DEF CoverInv, RowsCover, CallUnder
    <3>2. Under(now, BaseOf(r), BaseOf(r))
      BY UnderRefl, BaseType
    <3>3. CASE d = c
      <4>1. \A f \in Calls : Of(f, r)' => Under(now, call'[f].base, BaseOf(r))
        BY <1>1, <2>1, <2>4, <3>1, <3>2
      <4> QED
        BY <1>1, <2>4, <3>1, <3>3, <4>1
    <3>4. CASE d # c
      <4>1. Of(d, r) /\ call'[d] = call[d] /\ ~(call[d].serial >= q.serial)
        BY <1>1, <1>3, <2>1, <2>4, <3>4
      <4>2. /\ call[d].serial >= covered[r].serial => Under(now, covered[r].base, call[d].base)
            /\ \A f \in Calls \ {c} : Of(f, r) /\ call[d].serial >= call[f].serial
                 => Under(now, call[f].base, call[d].base)
        BY <4>1 DEF CoverInv, BasesInOrder
      <4> QED
        BY <1>1, <2>1, <4>1, <4>2
    <3> QED
      BY <3>3, <3>4
  <2> QED
    BY <2>2, <2>3, <2>4
<1> QED
  BY <1>4, <1>5, <1>6, <1>7, <1>8 DEF CoverInv

LEMMA PostCovers ==
  ASSUME CoverInv, TypeInv', NEW r \in Repos, NEW c \in Calls, Post(r, c)
  PROVE  CoverInv'
<1>1. TypeInv
  BY DEF CoverInv
<1>2. PICK q \in Call : CallMoves(c, q) /\ Posted(q) /\ q.repo = r
  BY <1>1, PostMoves
<1>3. serials' = serials + 1 /\ serials <= serials' /\ q.serial = serials + 1 /\ q.serial <= serials'
  <2>1. serials \in Nat /\ serials' = serials + 1
    BY <1>1, PostMoves, CoverTypes
  <2> QED
    BY <1>2, <2>1 DEF Posted
<1>4. Finished(q) = {}
  BY <1>2 DEF Finished, Posted
<1>5. InTurn(q)
  BY <1>2, <1>4 DEF InTurn, Posted
<1>6. CallUnder(now, q, BaseOf(r)) /\ CallAtLeast(now, q, table[r])
  BY <1>2, <1>4, UnderRefl, BaseType DEF Posted, CallUnder, CallAtLeast
<1> QED
  BY <1>2, <1>3, <1>5, <1>6, OneCallCovers DEF Posted

LEMMA DropCovers ==
  ASSUME CoverInv, TypeInv', NEW c \in Calls,
         ServerDies(c) \/ MetricDeadlock(c) \/ DatabaseError(c) \/ RefuseLog(c)
  PROVE  CoverInv'
<1>1. TypeInv
  BY DEF CoverInv
<1>2. PICK q : CallMoves(c, q) /\ DroppedInto(q)
  BY <1>1, DropMoves
<1>3. serials' = serials
  BY <1>1, DropMoves
<1>4. q \in Call /\ ~Live(q) /\ serials <= serials' /\ q.serial <= serials'
  BY <1>1, <1>2, <1>3, CoverTypes DEF DroppedInto, Live
<1> QED
  BY <1>2, <1>4, OneCallCovers

\* The metric a call is through with next.
LEMMA NextFinished ==
  ASSUME NEW e \in Call, NEW q \in Call, e.next \in 1 .. 4, q.next = e.next + 1, InTurn(e),
         q.errors \in {e.errors, e.errors \cup {MetricFns[e.next]}}
  PROVE  /\ MetricFns[e.next] \in MetricNames \ Finished(e)
         /\ Finished(q) = (Finished(e) \cup {MetricFns[e.next]}) \ q.errors
         /\ MetricFns[e.next] \notin e.errors
         /\ \A i \in 1 .. 4 : i >= q.next => MetricFns[i] \notin q.errors
<1>1. MetricFns[e.next] \in MetricNames
  BY MetricsFour
<1>2. \A i \in 1 .. 4 : i < q.next <=> i < e.next \/ i = e.next
  OBVIOUS
<1>3. MetricFns[e.next] \notin Finished(e)
  BY MetricsFour DEF Finished
<1>4. Finished(q) = (Finished(e) \cup {MetricFns[e.next]}) \ q.errors
  BY <1>1, <1>2 DEF Finished
<1>5. e.next >= e.next /\ MetricFns[e.next] \notin e.errors
  BY DEF InTurn
<1>6. ASSUME NEW i \in 1 .. 4, i >= q.next
      PROVE  MetricFns[i] \notin q.errors
  <2>1. i >= e.next /\ i # e.next
    BY <1>6
  <2>2. MetricFns[i] \notin e.errors /\ MetricFns[i] # MetricFns[e.next]
    BY <2>1, MetricsFour DEF InTurn
  <2> QED
    BY <2>2
<1> QED
  BY <1>1, <1>3, <1>4, <1>5, <1>6

\* What holds of a call that works on a metric.
LEMMA Working ==
  ASSUME CoverInv, NEW c \in Calls, call[c].pc \in {"read", "write"}
  PROVE  /\ TypeInv /\ call[c] \in Call /\ call[c].next \in 1 .. 4 /\ call[c].repo \in Repos
         /\ Live(call[c]) /\ InTurn(call[c]) /\ Metric(c) = MetricFns[call[c].next]
         /\ Metric(c) \in MetricNames
         /\ call[c].serial <= serials /\ serials \in Nat /\ call[c].serial \in Nat
         /\ call[c].base \in [MetricNames -> Counts] /\ call[c].written \in [MetricNames -> Counts]
         /\ call[c].repo \notin rewound =>
              CallUnder(now, call[c], BaseOf(call[c].repo)) /\ CallAtLeast(now, call[c], table[call[c].repo])
<1>1. TypeInv /\ Live(call[c]) /\ Of(c, call[c].repo)
  BY DEF CoverInv, Live, Of
<1>2. call[c].next \in 1 .. 4 /\ call[c].repo \in Repos
  BY <1>1 DEF TypeInv, CallShape
<1>3. InTurn(call[c])
  BY <1>1 DEF CoverInv, WrittenCovers
<1>4. call[c].repo \notin rewound =>
        CallUnder(now, call[c], BaseOf(call[c].repo)) /\ CallAtLeast(now, call[c], table[call[c].repo])
  BY <1>1, <1>2 DEF CoverInv, WrittenCovers, RowsCover
<1> QED
  BY <1>1, <1>2, <1>3, <1>4, CallIs, CoverTypes DEF Metric, CoverInv, SerialsOK

\* The rows count at least what the call began from and what the table shows.
LEMMA CountsSuffice ==
  ASSUME CoverInv, NEW c \in Calls, Live(call[c]), NEW r \in Repos \ rewound, call[c].repo = r,
         NEW m \in MetricNames, NEW e, SameCall(e, call[c])
  PROVE  AtLeast(now, e, m, BaseOf(r)[m], table[r])
<1>1. CallUnder(now, call[c], BaseOf(r)) /\ Under(now, table[r], BaseOf(r))
  BY DEF CoverInv, RowsCover, Of
<1> QED
  BY <1>1 DEF CallUnder, Under, AtLeast, SameCall

LEMMA ReadCovers ==
  ASSUME CoverInv, TypeInv', NEW c \in Calls, Read(c)
  PROVE  CoverInv'
<1> DEFINE e == call[c]
           r == call[c].repo
           m == MetricFns[call[c].next]
<1>1. /\ TypeInv /\ e \in Call /\ e.next \in 1 .. 4 /\ r \in Repos /\ Live(e) /\ InTurn(e) /\ Metric(c) = m
      /\ m \in MetricNames /\ e.serial <= serials
      /\ r \notin rewound => CallUnder(now, e, BaseOf(r)) /\ CallAtLeast(now, e, table[r])
      /\ serials \in Nat /\ e.base \in [MetricNames -> Counts] /\ e.written \in [MetricNames -> Counts]
  BY Working DEF Read
<1>2. PICK q \in Call : CallMoves(c, q) /\ ReadInto(c, q)
  BY <1>1, ReadMoves
<1>3. /\ SameCall(q, e) /\ q.written = e.written
      /\ \/ q.pc = "write" /\ q.next = e.next /\ q.errors = e.errors /\ q.counts = BaseOf(r)[m]
         \/ NextMetric(q, e) /\ q.errors = e.errors \cup {m}
         \/ NextMetric(q, e) /\ q.errors = e.errors /\ BaseOf(r)[m] = NoCounts[m]
  BY <1>1, <1>2, BaseIs, ZeroCounts DEF ReadInto
<1>4. serials' = serials /\ serials <= serials' /\ q.serial <= serials'
  BY <1>1, <1>3, ReadMoves DEF SameCall
<1>5. ASSUME r \notin rewound
      PROVE  AtLeast(now, q, m, BaseOf(r)[m], table[r])
  BY <1>1, <1>3, <1>5, CountsSuffice
<1>6. CASE q.pc = "write" /\ q.next = e.next /\ q.errors = e.errors /\ q.counts = BaseOf(r)[m]
  <2>1. Finished(q) = Finished(e) /\ InTurn(q)
    BY <1>1, <1>3, <1>6 DEF Finished, InTurn
  <2>2. ASSUME r \notin rewound
        PROVE  CallUnder(now, q, BaseOf(r)) /\ CallAtLeast(now, q, table[r])
    <3>1. \A b \in Whole(now) : BaseOf(r)[m][b] <= BaseOf(r)[m][b]
      BY <1>1, UnderRefl, BaseType DEF Under
    <3>2. CallUnder(now, q, BaseOf(r))
      BY <1>1, <1>3, <1>6, <2>2, <3>1 DEF CallUnder, SameCall
    <3>3. CallAtLeast(now, q, table[r])
      BY <1>1, <1>3, <1>5, <1>6, <2>1, <2>2 DEF CallAtLeast, AtLeast, SameCall
    <3> QED
      BY <3>2, <3>3
  <2> QED
    BY <1>1, <1>2, <1>3, <1>4, <2>1, <2>2, OneCallCovers DEF SameCall
<1>7. CASE NextMetric(q, e) /\ (q.errors = e.errors \cup {m} \/ (q.errors = e.errors /\ BaseOf(r)[m] = NoCounts[m]))
  <2>1. q.next = e.next + 1 /\ q.pc # "write"
    BY <1>7 DEF NextMetric
  <2>2. /\ m \in MetricNames \ Finished(e) /\ Finished(q) = (Finished(e) \cup {m}) \ q.errors /\ m \notin e.errors
        /\ \A i \in 1 .. 4 : i >= q.next => MetricFns[i] \notin q.errors
    <3>1. q.errors \in {e.errors, e.errors \cup {m}}
      BY <1>7
    <3> QED
      BY <1>1, <2>1, <3>1, NextFinished
  <2>3. Finished(q) \in {Finished(e), Finished(e) \cup {m}} /\ (m \in Finished(q) => BaseOf(r)[m] = NoCounts[m])
    <3>1. Finished(e) \cap e.errors = {}
      BY DEF Finished
    <3> QED
      BY <1>7, <2>2, <3>1
  <2>4. InTurn(q)
    BY <1>1, <1>3, <2>2, <2>3 DEF InTurn
  <2>5. ASSUME r \notin rewound
        PROVE  CallUnder(now, q, BaseOf(r)) /\ CallAtLeast(now, q, table[r])
    <3>1. CallUnder(now, q, BaseOf(r))
      BY <1>1, <1>3, <2>1, <2>5 DEF CallUnder, SameCall
    <3>2. m \in Finished(q) => q.written[m] = BaseOf(r)[m]
      BY <1>1, <1>3, <2>2, <2>3 DEF InTurn
    <3>3. \A k \in Finished(e) : AtLeast(now, q, k, q.written[k], table[r])
      BY <1>1, <1>3, <2>5 DEF CallAtLeast, AtLeast, SameCall
    <3>4. CallAtLeast(now, q, table[r])
      BY <1>5, <2>1, <2>3, <2>5, <3>2, <3>3 DEF CallAtLeast
    <3> QED
      BY <3>1, <3>4
  <2> QED
    BY <1>1, <1>2, <1>3, <1>4, <2>4, <2>5, OneCallCovers DEF SameCall
<1> QED
  BY <1>3, <1>6, <1>7

LEMMA WriteCovers ==
  ASSUME CoverInv, TypeInv', NEW c \in Calls, Write(c)
  PROVE  CoverInv'
<1> DEFINE e == call[c]
           r == call[c].repo
           m == MetricFns[call[c].next]
<1>1. /\ TypeInv /\ e \in Call /\ e.next \in 1 .. 4 /\ r \in Repos /\ Live(e) /\ InTurn(e) /\ Metric(c) = m
      /\ m \in MetricNames /\ e.serial <= serials /\ e.pc = "write"
      /\ r \notin rewound => CallUnder(now, e, BaseOf(r)) /\ CallAtLeast(now, e, table[r])
      /\ serials \in Nat /\ e.base \in [MetricNames -> Counts] /\ e.written \in [MetricNames -> Counts]
  BY Working DEF Write
<1>2. PICK q \in Call : CallMoves(c, q) /\ WroteInto(c, q)
  BY <1>1, WriteMoves
<1>3. /\ SameCall(q, e) /\ NextMetric(q, e) /\ q.errors = e.errors /\ q.next = e.next + 1 /\ q.pc # "write"
      /\ q.written = [e.written EXCEPT ![m] = e.counts]
  BY <1>1, <1>2 DEF WroteInto, NextMetric
<1>4. serials' = serials /\ serials <= serials' /\ q.serial <= serials'
  BY <1>1, <1>3, WriteMoves DEF SameCall
<1>5. /\ m \in MetricNames \ Finished(e) /\ Finished(q) = (Finished(e) \cup {m}) \ q.errors /\ m \notin e.errors
      /\ \A i \in 1 .. 4 : i >= q.next => MetricFns[i] \notin q.errors
  <2>1. q.errors \in {e.errors, e.errors \cup {m}}
    BY <1>3
  <2> QED
    BY <1>1, <1>3, <2>1, NextFinished
<1>6. Finished(q) = Finished(e) \cup {m}
  <2>1. Finished(e) \cap e.errors = {}
    BY DEF Finished
  <2> QED
    BY <1>3, <1>5, <2>1
<1>7. q.written[m] = e.counts /\ \A k \in MetricNames \ {m} : q.written[k] = e.written[k]
  BY <1>1, <1>3
<1>8. InTurn(q)
  BY <1>1, <1>5, <1>6, <1>7 DEF InTurn
<1>9. ASSUME r \notin rewound
      PROVE  CallUnder(now, q, BaseOf(r)) /\ CallAtLeast(now, q, table[r])
  <2>1. Under(now, q.written, BaseOf(r))
    BY <1>1, <1>7, <1>9 DEF CallUnder, Under
  <2>2. CallUnder(now, q, BaseOf(r))
    BY <1>1, <1>3, <1>9, <2>1 DEF CallUnder, SameCall
  <2>3. AtLeast(now, q, m, q.written[m], table[r])
    BY <1>1, <1>3, <1>7, <1>9 DEF CallAtLeast, AtLeast, SameCall
  <2>4. ASSUME NEW k \in Finished(e)
        PROVE  AtLeast(now, q, k, q.written[k], table[r])
    <3>1. k \in MetricNames \ {m}
      BY <1>5 DEF Finished
    <3> QED
      BY <1>1, <1>3, <1>7, <1>9, <3>1 DEF CallAtLeast, AtLeast, SameCall
  <2>5. CallAtLeast(now, q, table[r])
    BY <1>3, <1>6, <2>3, <2>4 DEF CallAtLeast
  <2> QED
    BY <2>2, <2>5
<1> QED
  BY <1>1, <1>2, <1>3, <1>4, <1>8, <1>9, OneCallCovers DEF SameCall

-----------------------------------------------------------------------------
(***************************************************************************)
(* A commit: in every bucket, what it leaves there is at least what was    *)
(* there, or the call had been overtaken; and at least what its call began *)
(* from, or the metric raised and left the bucket alone.                   *)
(***************************************************************************)
LEMMA Committing ==
  ASSUME CoverInv, NEW c \in Calls, Commit(c)
  PROVE  /\ TypeInv /\ call[c] \in Call /\ call[c].repo \in Repos /\ Of(c, call[c].repo)
         /\ Finished(call[c]) = MetricNames \ call[c].errors
         /\ \A m \in call[c].errors : call[c].written[m] = NoCounts[m]
<1>1. TypeInv /\ call[c] \in Call /\ call[c].repo \in Repos /\ call[c].pc = "log" /\ call[c].next = 5
  BY CommitMoves DEF CoverInv
<1>2. Of(c, call[c].repo) /\ InTurn(call[c])
  BY <1>1 DEF Of, Live, CoverInv, WrittenCovers
<1>3. ASSUME NEW m \in MetricNames
      PROVE  \E i \in 1 .. 4 : i < call[c].next /\ m = MetricFns[i]
  BY <1>1 DEF MetricNames
<1>4. Finished(call[c]) = MetricNames \ call[c].errors
  BY <1>3 DEF Finished
<1>5. call[c].errors \subseteq MetricNames
  BY <1>1 DEF Call
<1> QED
  BY <1>1, <1>2, <1>4, <1>5 DEF InTurn

LEMMA CommittedBucket ==
  ASSUME CoverInv, NEW c \in Calls, Commit(c), NEW r \in Repos \ rewound, r = call[c].repo,
         NEW m \in MetricNames, NEW b \in Whole(now)
  PROVE  /\ NewTable(c)[m][b] \in Nat /\ table[r][m][b] \in Nat /\ call[c].base[m][b] \in Nat
         /\ BaseOf(r)[m][b] \in Nat /\ covered[r].base[m][b] \in Nat
         /\ NewTable(c)[m][b] <= BaseOf(r)[m][b]
         /\ m \in call[c].errors => NewTable(c)[m][b] = table[r][m][b]
         /\ m \notin call[c].errors => call[c].base[m][b] <= NewTable(c)[m][b]
         /\ m \notin call[c].overtaken => table[r][m][b] <= NewTable(c)[m][b]
<1>1. /\ TypeInv /\ call[c] \in Call /\ Of(c, r) /\ Finished(call[c]) = MetricNames \ call[c].errors
      /\ \A k \in call[c].errors : call[c].written[k] = NoCounts[k]
  BY Committing
<1>2. b \in Days
  BY WholeType
<1>3. /\ call[c].written[m][b] \in Nat /\ table[r][m][b] \in Nat /\ call[c].base[m][b] \in Nat
      /\ BaseOf(r)[m][b] \in Nat /\ covered[r].base[m][b] \in Nat
  BY <1>1, <1>2, CoverTypes, BaseType, CountNat
<1>4. NewTable(c)[m][b] = IF call[c].written[m][b] > 0 THEN call[c].written[m][b] ELSE table[r][m][b]
  BY <1>2 DEF NewTable, Upserted
<1>5. call[c].written[m][b] <= BaseOf(r)[m][b] /\ table[r][m][b] <= BaseOf(r)[m][b]
  BY <1>1 DEF CoverInv, RowsCover, CallUnder, Under
<1>6. m \in call[c].errors => call[c].written[m][b] = 0
  BY <1>1, <1>2, ZeroCounts
<1>7. m \notin call[c].errors =>
        /\ call[c].base[m][b] <= call[c].written[m][b]
        /\ m \in call[c].overtaken \/ table[r][m][b] <= call[c].written[m][b]
  BY <1>1 DEF CoverInv, WrittenCovers, CallAtLeast, AtLeast
<1> QED
  BY <1>3, <1>4, <1>5, <1>6, <1>7

\* What the commit of c leaves of another call d.
LEMMA Bystander ==
  ASSUME TypeInv, NEW c \in Calls, Commit(c), NEW d \in Calls \ {c}
  PROVE  /\ call[d] \in Call
         /\ call'[d].pc = call[d].pc /\ call'[d].repo = call[d].repo /\ call'[d].next = call[d].next
         /\ call'[d].serial = call[d].serial /\ call'[d].base = call[d].base
         /\ call'[d].written = call[d].written /\ call'[d].counts = call[d].counts
         /\ call'[d].errors = call[d].errors
         /\ call'[d].overtaken = call[d].overtaken \cup OvertakenBy(c, d)
<1>1. call'[d] = [call[d] EXCEPT !.overtaken = call[d].overtaken \cup OvertakenBy(c, d)] /\ call[d] \in Call
  BY CommitMoves
<1> QED
  BY <1>1 DEF Call

LEMMA BystanderAtLeast ==
  ASSUME CoverInv, NEW c \in Calls, Commit(c), NEW d \in Calls \ {c},
         NEW r \in Repos \ rewound, r = call[c].repo, Of(d, r),
         NEW m \in MetricNames, m \in HasRead(d), NEW new, AtLeast(now, call[d], m, new, table[r])
  PROVE  AtLeast(now, call'[d], m, new, NewTable(c))
<1>1. TypeInv
  BY DEF CoverInv
<1>2. /\ call'[d].base = call[d].base
      /\ call'[d].overtaken = call[d].overtaken \cup OvertakenBy(c, d)
  BY <1>1, Bystander
<1>3. OvertakenBy(c, d) = HasRead(d) \ call[c].errors
  BY DEF OvertakenBy, Rivals, Of
<1>4. ASSUME NEW b \in Whole(now)
      PROVE  m \in call'[d].overtaken \/ NewTable(c)[m][b] <= new[b]
  <2>1. m \in call[d].overtaken \/ table[r][m][b] <= new[b]
    BY DEF AtLeast
  <2>2. m \in call[c].errors => NewTable(c)[m][b] = table[r][m][b]
    BY CommittedBucket
  <2> QED
    BY <1>2, <1>3, <2>1, <2>2
<1> QED
  BY <1>2, <1>4 DEF AtLeast

\* What the newest success becomes.
LEMMA CoversIs ==
  ASSUME TypeInv, NEW c \in Calls, call[c].repo \in Repos
  PROVE  LET old == covered[call[c].repo]
             new == Covers(c, StatusOf(c)) IN
         \/ call[c].serial < old.serial /\ new.disturbed = TRUE
              /\ new.serial = old.serial /\ new.base = old.base /\ new.completed = old.completed
         \/ ~(call[c].serial < old.serial) /\ call[c].errors = {} /\ new.disturbed = FALSE
              /\ new.serial = call[c].serial /\ new.base = call[c].base /\ new.completed = now
         \/ ~(call[c].serial < old.serial) /\ call[c].errors # {} /\ new = old
<1>1. covered[call[c].repo] \in [serial: Nat, completed: Hours, base: [MetricNames -> Counts], disturbed: BOOLEAN]
  BY DEF TypeInv, RecomputeTypeOK
<1> QED
  BY <1>1 DEF Covers, StatusOf

LEMMA CommitCovers ==
  ASSUME CoverInv, TypeInv', NEW c \in Calls, Commit(c)
  PROVE  CoverInv'
<1> DEFINE new == Covers(c, StatusOf(c))
<1>1. PICK r \in Repos : r = call[c].repo
  BY Committing
<1>2. /\ TypeInv /\ call[c] \in Call /\ call[c].pc = "log" /\ Of(c, r)
      /\ call'[c] = NoCall /\ table' = [table EXCEPT ![r] = NewTable(c)]
      /\ NewTable(c) \in [MetricNames -> Counts]
      /\ log' = [log EXCEPT ![r][call[c].hour] = [status |-> StatusOf(c), completed |-> now]]
      /\ covered' = [covered EXCEPT ![r] = new]
      /\ UNCHANGED <<now, rows, serials, rewound>>
  BY <1>1, Committing, CommitMoves
<1>3. /\ table \in [Repos -> [MetricNames -> Counts]] /\ covered'[r] = new /\ table'[r] = NewTable(c)
      /\ \A q \in Repos \ {r} : covered'[q] = covered[q] /\ table'[q] = table[q]
  BY <1>2 DEF TypeInv, RecomputeTypeOK
<1>4. \/ call[c].serial < covered[r].serial /\ new.disturbed = TRUE
           /\ new.serial = covered[r].serial /\ new.base = covered[r].base /\ new.completed = covered[r].completed
      \/ ~(call[c].serial < covered[r].serial) /\ call[c].errors = {} /\ new.disturbed = FALSE
           /\ new.serial = call[c].serial /\ new.base = call[c].base /\ new.completed = now
      \/ ~(call[c].serial < covered[r].serial) /\ call[c].errors # {} /\ new = covered[r]
  BY <1>1, <1>2, CoversIs
<1>5. /\ call[c].serial \in Nat /\ serials \in Nat /\ now \in Hours /\ now \in Int
      /\ \A q \in Repos : covered[q].serial \in Nat /\ covered[q].completed \in Int /\ covered[q].base \in [MetricNames -> Counts]
      /\ \A d \in Calls : call[d].serial \in Nat /\ call[d].base \in [MetricNames -> Counts]
  BY <1>2, CoverTypes, CalendarOK DEF Hours
<1>6. /\ ~Live(call'[c]) /\ \A q : ~Of(c, q)'
      /\ \A d \in Calls \ {c}, q \in Repos : Of(d, q)' <=> Of(d, q)
      /\ \A d \in Calls \ {c} : Live(call'[d]) <=> Live(call[d])
  <2>1. ~Live(call'[c])
    BY <1>2 DEF Live, NoCall
  <2>2. \A d \in Calls \ {c} : call'[d].pc = call[d].pc /\ call'[d].repo = call[d].repo
    BY <1>2, Bystander
  <2> QED
    BY <2>1, <2>2 DEF Of, Live
<1>7. \A q : BaseOf(q)' = BaseOf(q)
  BY <1>2 DEF BaseOf
<1>8. SerialsOK'
  <2>1. \A d \in Calls : call'[d].serial <= serials
    <3>1. call'[c].serial = 0 /\ 0 <= serials
      BY <1>2, <1>5 DEF NoCall
    <3>2. \A d \in Calls \ {c} : call'[d].serial = call[d].serial
      BY <1>2, Bystander
    <3> QED
      BY <3>1, <3>2 DEF CoverInv, SerialsOK
  <2>2. \A q \in Repos : covered'[q].serial <= serials
    BY <1>3, <1>4 DEF CoverInv, SerialsOK
  <2> QED
    BY <1>2, <2>1, <2>2 DEF SerialsOK
<1>9. TimesOK'
  <2> SUFFICES ASSUME NEW q \in Repos
               PROVE  /\ covered'[q].completed <= now
                      /\ \A h \in Hours : log'[q][h].status = "success" =>
                           /\ log'[q][h].completed <= now
                           /\ covered'[q].disturbed \/ log'[q][h].completed <= covered'[q].completed
    BY <1>2 DEF TimesOK
  <2>1. /\ covered[q].completed <= now
        /\ \A h \in Hours : log[q][h].status = "success" =>
             /\ log[q][h].completed <= now
             /\ covered[q].disturbed \/ log[q][h].completed <= covered[q].completed
    BY DEF CoverInv, TimesOK
  <2>2. CASE q # r
    <3>1. log'[q] = log[q]
      BY <1>2, <2>2 DEF TypeInv, RecomputeTypeOK
    <3> QED
      BY <1>3, <2>1, <2>2, <3>1
  <2>3. CASE q = r
    <3>1. log'[r] = [log[r] EXCEPT ![call[c].hour] = [status |-> StatusOf(c), completed |-> now]]
      BY <1>2 DEF TypeInv, RecomputeTypeOK
    <3>2. log[r] \in [Hours -> LogRow]
      BY <1>2 DEF TypeInv, RecomputeTypeOK
    <3>3. \A h \in Hours : log'[r][h] = log[r][h] \/ (log'[r][h].status = StatusOf(c) /\ log'[r][h].completed = now)
      BY <3>1, <3>2
    <3>4. StatusOf(c) = "success" => call[c].errors = {}
      BY DEF StatusOf
    <3>5. covered'[r].completed \in {covered[r].completed, now} /\ covered'[r].completed <= now
      BY <1>3, <1>4, <1>5, <2>1, <2>3
    <3>6. ASSUME NEW h \in Hours, log'[r][h].status = "success"
          PROVE  /\ log'[r][h].completed <= now
                 /\ covered'[r].disturbed \/ log'[r][h].completed <= covered'[r].completed
      <4>1. CASE log'[r][h] = log[r][h]
        BY <1>3, <1>4, <2>1, <2>3, <3>6, <4>1
      <4>2. CASE log'[r][h].status = StatusOf(c) /\ log'[r][h].completed = now
        BY <1>3, <1>4, <1>5, <3>4, <3>6, <4>2
      <4> QED
        BY <3>3, <4>1, <4>2
    <3> QED
      BY <2>3, <3>5, <3>6
  <2> QED
    BY <2>2, <2>3
<1>10. RowsCover'
  <2> SUFFICES ASSUME NEW q \in Repos \ rewound
               PROVE  /\ Under(now, covered'[q].base, BaseOf(q)) /\ Under(now, table'[q], BaseOf(q))
                      /\ \A d \in Calls : Of(d, q)' => CallUnder(now, call'[d], BaseOf(q))
    BY <1>2, <1>7 DEF RowsCover
  <2>1. /\ Under(now, covered[q].base, BaseOf(q)) /\ Under(now, table[q], BaseOf(q))
        /\ \A d \in Calls : Of(d, q) => CallUnder(now, call[d], BaseOf(q))
    BY DEF CoverInv, RowsCover
  <2>2. Under(now, covered'[q].base, BaseOf(q))
    <3>1. q = r => Under(now, call[c].base, BaseOf(q))
      BY <1>2, <2>1 DEF CallUnder
    <3> QED
      BY <1>3, <1>4, <2>1, <3>1
  <2>3. Under(now, table'[q], BaseOf(q))
    <3>1. q = r => Under(now, NewTable(c), BaseOf(q))
      BY <1>1, CommittedBucket DEF Under
    <3> QED
      BY <1>3, <2>1, <3>1
  <2>4. ASSUME NEW d \in Calls, Of(d, q)'
        PROVE  CallUnder(now, call'[d], BaseOf(q))
    <3>1. d # c /\ Of(d, q)
      BY <1>6, <2>4
    <3> QED
      BY <1>2, <2>1, <3>1, Bystander DEF CallUnder
  <2> QED
    BY <2>2, <2>3, <2>4
<1>11. BasesInOrder'
  <2> SUFFICES ASSUME NEW q \in Repos \ rewound, NEW d \in Calls, Of(d, q)'
               PROVE  /\ call'[d].serial >= covered'[q].serial => Under(now, covered'[q].base, call'[d].base)
                      /\ \A f \in Calls : Of(f, q)' /\ call'[d].serial >= call'[f].serial
                           => Under(now, call'[f].base, call'[d].base)
    BY <1>2 DEF BasesInOrder
  <2>1. d # c /\ Of(d, q) /\ \A f \in Calls : Of(f, q)' => f # c /\ Of(f, q)
    BY <1>6
  <2>2. /\ call[d].serial >= covered[q].serial => Under(now, covered[q].base, call[d].base)
        /\ \A f \in Calls : Of(f, q) /\ call[d].serial >= call[f].serial => Under(now, call[f].base, call[d].base)
    BY <2>1 DEF CoverInv, BasesInOrder
  <2>3. \A f \in Calls \ {c} : call'[f].serial = call[f].serial /\ call'[f].base = call[f].base
    BY <1>2, Bystander
  <2>4. call[d].serial >= covered'[q].serial => Under(now, covered'[q].base, call[d].base)
    BY <1>2, <1>3, <1>4, <2>2
  <2> QED
    BY <2>1, <2>2, <2>3, <2>4
<1>12. WrittenCovers'
  <2>1. ASSUME NEW d \in Calls, Live(call'[d])
        PROVE  InTurn(call'[d])
    <3>1. d # c /\ Live(call[d])
      BY <1>6, <2>1
    <3>2. InTurn(call[d])
      BY <3>1 DEF CoverInv, WrittenCovers
    <3> QED
      BY <1>2, <3>1, <3>2, Bystander DEF InTurn, Finished
  <2>2. ASSUME NEW q \in Repos \ rewound, NEW d \in Calls, Of(d, q)'
        PROVE  CallAtLeast(now, call'[d], table'[q])
    <3>1. d \in Calls \ {c} /\ Of(d, q)
      BY <1>6, <2>2
    <3>2. CallAtLeast(now, call[d], table[q])
      BY <3>1 DEF CoverInv, WrittenCovers
    <3>3. /\ call'[d].pc = call[d].pc /\ call'[d].next = call[d].next /\ call'[d].written = call[d].written
          /\ call'[d].counts = call[d].counts /\ Finished(call'[d]) = Finished(call[d])
          /\ call'[d].base = call[d].base /\ call'[d].overtaken = call[d].overtaken \cup OvertakenBy(c, d)
      BY <1>2, <3>1, Bystander DEF Finished
    <3>4. CASE q # r
      BY <1>3, <3>2, <3>3, <3>4 DEF CallAtLeast, AtLeast
    <3>5. CASE q = r
      <4>1. \A m \in Finished(call[d]) : m \in MetricNames /\ m \in HasRead(d)
        BY DEF Finished, HasRead
      <4>2. \A m \in Finished(call[d]) : AtLeast(now, call'[d], m, call[d].written[m], NewTable(c))
        BY <1>1, <3>1, <3>2, <3>5, <4>1, BystanderAtLeast DEF CallAtLeast
      <4>3. ASSUME call[d].pc = "write"
            PROVE  AtLeast(now, call'[d], MetricFns[call[d].next], call[d].counts, NewTable(c))
        <5>1. call[d].next \in 1 .. 4
          BY <1>2, <4>3 DEF TypeInv, CallShape
        <5>2. MetricFns[call[d].next] \in MetricNames /\ MetricFns[call[d].next] \in HasRead(d)
          BY <4>3, <5>1, MetricsFour DEF HasRead
        <5> QED
          BY <1>1, <3>1, <3>2, <3>5, <4>3, <5>2, BystanderAtLeast DEF CallAtLeast
      <4> QED
        BY <1>3, <3>3, <3>5, <4>2, <4>3 DEF CallAtLeast
    <3> QED
      BY <3>4, <3>5
  <2> QED
    BY <1>2, <2>1, <2>2 DEF WrittenCovers
<1>13. TableCovers'
  <2> SUFFICES ASSUME NEW q \in Repos \ rewound, ~covered'[q].disturbed
               PROVE  Under(now, covered'[q].base, table'[q])
    BY <1>2 DEF TableCovers
  <2>1. CASE q # r
    BY <1>3, <2>1 DEF CoverInv, TableCovers
  <2>2. CASE q = r /\ call[c].errors = {} /\ new.base = call[c].base
    BY <1>1, <1>3, <2>2, CommittedBucket DEF Under
  <2>3. CASE q = r /\ new = covered[r] /\ ~(call[c].serial < covered[r].serial)
    <3>1. Under(now, covered[r].base, table[r])
      BY <1>3, <2>3 DEF CoverInv, TableCovers
    <3>2. Under(now, covered[r].base, call[c].base)
      BY <1>2, <1>5, <2>3 DEF CoverInv, BasesInOrder
    <3>3. ASSUME NEW m \in MetricNames, NEW b \in Whole(now)
          PROVE  covered[r].base[m][b] <= NewTable(c)[m][b]
      <4>1. covered[r].base[m][b] <= table[r][m][b] /\ covered[r].base[m][b] <= call[c].base[m][b]
        BY <3>1, <3>2 DEF Under
      <4>2. /\ NewTable(c)[m][b] \in Nat /\ table[r][m][b] \in Nat /\ call[c].base[m][b] \in Nat
            /\ covered[r].base[m][b] \in Nat
            /\ NewTable(c)[m][b] = table[r][m][b] \/ call[c].base[m][b] <= NewTable(c)[m][b]
        BY <1>1, <2>3, CommittedBucket
      <4> QED
        BY <4>1, <4>2
    <3> QED
      BY <1>3, <2>3, <3>3 DEF Under
  <2> QED
    BY <1>3, <1>4, <2>1, <2>2, <2>3
<1> QED
  BY <1>8, <1>9, <1>10, <1>11, <1>12, <1>13 DEF CoverInv

LEMMA CoverStep ==
  ASSUME CoverInv, [RecomputeNext]_recomputeVars
  PROVE  CoverInv'
<1>1. TypeInv /\ TypeInv'
  BY TypeStep DEF CoverInv
<1>2. CASE UNCHANGED recomputeVars \/ Alone
  BY <1>1, <1>2, CoverStays DEF recomputeVars, Alone
<1> QED
  BY <1>1, <1>2, StepMoves, RowsMoveCovers, PostCovers, DropCovers, ReadCovers, WriteCovers, CommitCovers

\* The greatest of a set of hours is one of them.
LEMMA LatestIsThere ==
  ASSUME NEW S \in SUBSET Hours, S # {}
  PROVE  Max(S) \in S
<1> DEFINE Before == {LastHour - n : n \in S}
           R == {ss \in Nat \X Nat : ss[1] < ss[2]}
<1>1. Before \subseteq Nat /\ Before # {}
  <2>1. \A n \in S : LastHour - n \in Nat
    BY CalendarOK DEF Hours
  <2>2. PICK n : n \in S
    OBVIOUS
  <2>3. LastHour - n \in Before
    BY <2>2
  <2> QED
    BY <2>1, <2>3
<1>2. PICK x \in Before : \A y \in Before : <<y, x>> \notin R
  <2>1. IsWellFoundedOn(R, Nat)
    BY NatLessThanWellFounded DEF OpToRel
  <2> HIDE DEF R, Before
  <2> QED
    BY <1>1, <2>1, WFMin
<1>3. PICK m \in S : x = LastHour - m
  BY <1>2
<1>4. \A n \in S : m >= n
  <2> TAKE n \in S
  <2>1. ~(LastHour - n < x)
    BY <1>1, <1>2
  <2> QED
    BY <2>1, <1>3, CalendarOK DEF Hours
<1> QED
  BY <1>4 DEF Max

LEMMA FreshIsCovered == CoverInv => FreshMeansCovered
<1> SUFFICES ASSUME CoverInv, NEW r \in Repos \ rewound, Freshness(r) = "ok", ~covered[r].disturbed
             PROVE  /\ now - covered[r].completed <= StaleHours
                    /\ \A m \in MetricNames : \A b \in Whole(now) : table[r][m][b] >= covered[r].base[m][b]
  BY DEF FreshMeansCovered
<1> DEFINE done == {log[r][h].completed : h \in {k \in Hours : log[r][k].status = "success"}}
<1>1. /\ TypeInv /\ now \in Hours /\ covered[r].completed \in Hours /\ log[r] \in [Hours -> LogRow]
      /\ covered[r].base \in [MetricNames -> Counts] /\ table[r] \in [MetricNames -> Counts]
  BY CoverTypes DEF CoverInv, TypeInv, RecomputeTypeOK
<1>2. done \subseteq Hours
  BY <1>1 DEF LogRow
<1>3. \A t \in done : t <= covered[r].completed
  BY DEF CoverInv, TimesOK
<1>4. /\ LastRefresh(r) # None /\ ~(now - LastRefresh(r) > StaleHours)
      /\ LastRefresh(r) = IF done = {} THEN None ELSE Max(done)
  BY Zenon DEF Freshness, LastRefresh
<1> HIDE DEF done
<1>5. LastRefresh(r) \in done
  BY <1>2, <1>4, LatestIsThere
<1>6. now - covered[r].completed <= StaleHours
  <2>1. PICK t \in done : t = LastRefresh(r)
    BY <1>5
  <2>2. t <= covered[r].completed /\ ~(now - t > StaleHours)
    BY <1>3, <1>4, <2>1
  <2>3. t \in Int /\ now \in Int /\ covered[r].completed \in Int /\ StaleHours \in Int
    BY <1>1, <1>2, CalendarOK DEF Hours
  <2> QED
    BY <2>2, <2>3
<1>7. ASSUME NEW m \in MetricNames, NEW b \in Whole(now)
      PROVE  table[r][m][b] >= covered[r].base[m][b]
  <2>1. covered[r].base[m][b] <= table[r][m][b]
    BY DEF CoverInv, TableCovers, Under
  <2>2. covered[r].base[m][b] \in Nat /\ table[r][m][b] \in Nat
    BY <1>1, WholeType, CountNat
  <2> QED
    BY <2>1, <2>2
<1> QED
  BY <1>6, <1>7

\* The step formula of ShownCountsNeverFall.
CountsStand ==
  \A r \in Repos \ rewound, m \in MetricNames : \A b \in Whole(now) :
    \/ table'[r][m][b] >= table[r][m][b]
    \/ \E c \in Calls : call[c].repo = r /\ call[c].pc = "log" /\ m \in call[c].overtaken

LEMMA CountsStandStep ==
  ASSUME CoverInv, [RecomputeNext]_recomputeVars
  PROVE  CountsStand
<1>1. TypeInv
  BY DEF CoverInv
<1>2. ASSUME NEW r \in Repos, NEW m \in MetricNames, NEW b \in Whole(now)
      PROVE  table[r][m][b] \in Nat
  BY <1>1, CoverTypes, WholeType, CountNat
<1>3. ASSUME table' = table
      PROVE  CountsStand
  <2> SUFFICES ASSUME NEW r \in Repos \ rewound, NEW m \in MetricNames, NEW b \in Whole(now)
               PROVE  table[r][m][b] >= table[r][m][b]
    BY <1>3 DEF CountsStand
  <2> QED
    BY <1>2
<1>4. ASSUME NEW c \in Calls, Commit(c)
      PROVE  CountsStand
  <2> SUFFICES ASSUME NEW r \in Repos \ rewound, NEW m \in MetricNames, NEW b \in Whole(now),
                      ~(call[c].repo = r /\ call[c].pc = "log" /\ m \in call[c].overtaken)
               PROVE  table'[r][m][b] >= table[r][m][b]
    BY DEF CountsStand
  <2>1. /\ table' = [table EXCEPT ![call[c].repo] = NewTable(c)] /\ call[c].repo \in Repos /\ call[c].pc = "log"
    BY <1>1, <1>4, CommitMoves
  <2>2. CASE r # call[c].repo
    <3>1. table'[r] = table[r]
      BY <1>1, <2>1, <2>2 DEF TypeInv, RecomputeTypeOK
    <3> QED
      BY <1>2, <3>1
  <2>3. CASE r = call[c].repo
    <3>1. table'[r] = NewTable(c)
      BY <1>1, <2>1, <2>3 DEF TypeInv, RecomputeTypeOK
    <3>2. /\ NewTable(c)[m][b] \in Nat /\ table[r][m][b] \in Nat
          /\ m \notin call[c].overtaken => table[r][m][b] <= NewTable(c)[m][b]
      BY <1>4, <2>3, CommittedBucket
    <3>3. m \notin call[c].overtaken
      BY <2>1, <2>3
    <3> QED
      BY <3>1, <3>2, <3>3
  <2> QED
    BY <2>2, <2>3
<1>5. CASE UNCHANGED recomputeVars \/ Alone \/ RowsMove
  BY <1>3, <1>5 DEF recomputeVars, Alone, RowsMove
<1>6. ASSUME NEW r \in Repos, NEW c \in Calls, Post(r, c)
      PROVE  CountsStand
  <2>1. table' = table
    BY <1>6, Zenon DEF Post, server
  <2> QED
    BY <1>3, <2>1
<1>7. ASSUME NEW c \in Calls, ServerDies(c) \/ MetricDeadlock(c) \/ DatabaseError(c) \/ RefuseLog(c)
      PROVE  CountsStand
  <2>1. table' = table
    BY <1>1, <1>7, DropMoves DEF CallMoves
  <2> QED
    BY <1>3, <2>1
<1>8. ASSUME NEW c \in Calls, Read(c) \/ Write(c)
      PROVE  CountsStand
  <2>1. table' = table
    BY <1>1, <1>8, ReadMoves, WriteMoves DEF CallMoves
  <2> QED
    BY <1>3, <2>1
<1> QED
  BY <1>1, <1>4, <1>5, <1>6, <1>7, <1>8, StepMoves

\* What is shown as fresh is: behind "ok" is a success within the threshold, and every bucket in
\* full view holds at least what the rows said when its call began, whatever was retried, aborted,
\* timed out or failed since.
THEOREM FreshIsReallyCovered == RecomputeSpec => []FreshMeansCovered
<1>1. RecomputeInit => CoverInv
  BY CoverInitially
<1>2. CoverInv /\ [RecomputeNext]_recomputeVars => CoverInv'
  BY CoverStep
<1>3. CoverInv => FreshMeansCovered
  BY FreshIsCovered
<1> QED
  BY <1>1, <1>2, <1>3, PTL DEF RecomputeSpec

\* A count in a bucket in full view goes down only when a call that had been overtaken commits,
\* or a merge was taken back.
THEOREM CountsNeverFall == RecomputeSpec => ShownCountsNeverFall
<1>1. RecomputeInit => CoverInv
  BY CoverInitially
<1>2. CoverInv /\ [RecomputeNext]_recomputeVars => CoverInv'
  BY CoverStep
<1>3. CoverInv /\ [RecomputeNext]_recomputeVars => [CountsStand]_recomputeVars
  BY CountsStandStep
<1>4. RecomputeSpec => [][CountsStand]_recomputeVars
  BY <1>1, <1>2, <1>3, PTL DEF RecomputeSpec
<1> QED
  BY <1>4, Zenon DEF ShownCountsNeverFall, CountsStand
=============================================================================
