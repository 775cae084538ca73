------------------------------ MODULE Metrics -------------------------------
(***************************************************************************)
(* The arithmetic of the delivery metrics: days and weeks, the window of   *)
(* the recompute and that of the views, and what each metric counts from   *)
(* the rows of a repository.                                               *)
(*                                                                         *)
(* Time is in hours since a Monday.  A bucket is named by its day: that of *)
(* a weekly metric is the week's Monday.  Medians and percentiles are left *)
(* out; the sample they are taken from is counted.                         *)
(***************************************************************************)
EXTENDS Integers, FiniteSets

CONSTANTS
  HoursPerDay, DaysPerWeek,
  RecomputeDays,   \* RECOMPUTE_DAYS
  ViewDays,        \* the longest DaysWindow
  StaleHours,      \* STALE_THRESHOLD
  Deployments,     \* production deployments of a repository
  PRs,             \* its pull requests, all targeting the default branch
  None,            \* SQL NULL
  LastHour         \* bound: the end of time

ASSUME CalendarOK ==
  /\ HoursPerDay \in Nat \ {0} /\ DaysPerWeek \in Nat \ {0}
  /\ RecomputeDays \in Nat /\ ViewDays \in 0 .. RecomputeDays
  /\ StaleHours \in Nat /\ LastHour \in Nat
  /\ None \notin Int
  /\ IsFiniteSet(Deployments) /\ IsFiniteSet(PRs)

Hours == 0 .. LastHour
DayOf(t) == t \div HoursPerDay
Days == 0 .. DayOf(LastHour)
WeekStart(t) == DayOf(t) - (DayOf(t) % DaysPerWeek)
Cutoff(now) == now - RecomputeDays * HoursPerDay

\* The rows of a repository: when deployments were made, and for each pull request its
\* times and that of the deployment it is attributed to.
PullRequest == [opened: Hours, merged: Hours \cup {None}, deployed: Hours \cup {None}]
Rows == [deployedAt: [Deployments -> Hours \cup {None}], pr: [PRs -> PullRequest]]

MetricFns == <<"deployment_frequency", "lead_time", "pr_cycle_time", "pr_throughput">>
MetricNames == {MetricFns[i] : i \in 1 .. 4}

\* Fault: only what came since the last run is counted.
FaultyWithin(t, now) == t # None /\ t >= now - 2
Within(t, now) == t # None /\ t >= Cutoff(now)

FrequencyOf(rows, now, d) ==
  {x \in Deployments : Within(rows.deployedAt[x], now) /\ DayOf(rows.deployedAt[x]) = d}
LeadTimesOf(rows, now, w) ==
  {p \in PRs : /\ Within(rows.pr[p].deployed, now) /\ WeekStart(rows.pr[p].deployed) = w
               /\ rows.pr[p].merged # None /\ rows.pr[p].deployed > rows.pr[p].merged}
MergedIn(rows, now, w) ==
  {p \in PRs : Within(rows.pr[p].merged, now) /\ WeekStart(rows.pr[p].merged) = w}
CycleTimesOf(rows, now, w) ==
  {p \in MergedIn(rows, now, w) : rows.pr[p].merged > rows.pr[p].opened}

\* What a metric counts in a bucket.
CountOf(m, rows, now, b) ==
  Cardinality(CASE m = "deployment_frequency" -> FrequencyOf(rows, now, b)
                [] m = "lead_time" -> LeadTimesOf(rows, now, b)
                [] m = "pr_cycle_time" -> CycleTimesOf(rows, now, b)
                [] m = "pr_throughput" -> MergedIn(rows, now, b))

\* An attributed pull request whose merged_at is NULL: there is no subtracting it.
LeadTimeRaises(rows, now) ==
  \E p \in PRs : Within(rows.pr[p].deployed, now) /\ rows.pr[p].merged = None

\* A count per bucket; 0 stands for no row.
Counts == [Days -> Nat]
Counted(m, rows, now) == [b \in Days |-> CountOf(m, rows, now, b)]

\* The buckets a view of ViewDays shows, and those of them the cutoff cannot cut.
Shown(now) == {b \in Days : b >= DayOf(now) - ViewDays}
Whole(now) == {b \in Shown(now) : b * HoursPerDay >= Cutoff(now)}
=============================================================================
