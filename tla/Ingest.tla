------------------------------- MODULE Ingest -------------------------------
(***************************************************************************)
(* Webhook ingest: pull requests, production shipments (deployments and    *)
(* releases) and the attribution of merged pull requests to shipments, for *)
(* one GitHub repository tracked by several workspaces (tenants).          *)
(*                                                                         *)
(* GitHub's side is the environment: it emits payloads that carry the      *)
(* facts as they were when the event happened.  A delivery may arrive      *)
(* late, out of order, or be redelivered.  A shipment is ingested by one   *)
(* READ COMMITTED transaction per delivery: each statement reads what is   *)
(* committed when it runs, plus the transaction's own rows.                *)
(*                                                                         *)
(* Times are positive numbers; 0 is SQL NULL.                              *)
(***************************************************************************)
EXTENDS Integers, Sequences, FiniteSets

CONSTANTS
  Tenants,            \* workspaces: one Repository row each, once tracking
  InitiallyTracking,  \* the workspaces that track the repository at the start
  PRs,                \* pull requests of the repository
  Ids,                \* GitHub ids of deployments and of releases
  Environments,       \* names of deployment environments
  Branches,           \* branches a pull request may target
  DefaultBranch,      \* Repository.default_branch
  Workers,            \* dispatcher tasks running at the same time
  LookBack,           \* the window of a first shipment (30 days in the code)
  GitHubEvents,       \* the kinds of GitHub event an instance explores
  Ticks,              \* how far the clock may advance at an event (0: a tie)
  MaxEvents,          \* bound: length of the log of emitted payloads
  MaxRedeliveries,    \* bound: redeliveries
  MaxCrashes,         \* bound: dispatcher tasks lost or rolled back
  MaxEdits            \* bound: changes of settings by users

Sources == {"deployment", "release"}       \* SOURCE_DEPLOYMENT, SOURCE_RELEASE
Classes == {"undiscovered", "production", "other"}
Kinds == {"opened", "reopened", "closed", "merged", "converted_to_draft",
          "ready_for_review", "edited", "deployment", "failed_deployment",
          "release", "prerelease"}

ASSUME ConstantsOK ==
  /\ InitiallyTracking \subseteq Tenants
  /\ DefaultBranch \in Branches
  /\ LookBack \in Nat \ {0}
  /\ GitHubEvents \subseteq Kinds
  /\ Ticks \subseteq Nat
  /\ {MaxEvents, MaxRedeliveries, MaxCrashes, MaxEdits} \subseteq Nat

HandledPRActions ==
  {"opened", "reopened", "closed", "converted_to_draft", "ready_for_review"}

PullRequestPayload ==
  [event: {"pull_request"}, action: HandledPRActions \cup {"edited"}, pr: PRs,
   base: Branches, draft: BOOLEAN, mergedAt: Nat, closedAt: Nat]

\* "ships": a deployment status in state success, or a published release that
\* is neither a draft nor a prerelease.
ShipmentPayload ==
  [event: Sources, id: Ids, env: Environments, ships: BOOLEAN, at: Nat]

Payload == PullRequestPayload \cup ShipmentPayload

Row ==       \* the columns of a pull_requests row that ingest decides
  [known: BOOLEAN, base: Branches, mergedAt: Nat, closedAt: Nat, draft: BOOLEAN]
NoRow ==
  [known |-> FALSE, base |-> DefaultBranch, mergedAt |-> 0, closedAt |-> 0, draft |-> FALSE]

Event ==     \* a deployment_events row
  [tenant: Tenants, source: Sources, id: Ids, at: Nat]
Attribution ==
  [event: Event, pr: PRs]

VARIABLES
  \* GitHub
  now,         \* the clock that stamps GitHub's events
  pull,        \* pull requests as GitHub has them
  log,         \* every payload emitted, in order
  \* deliveries
  queue,       \* log entries whose delivery is waiting to be dispatched
  settled,     \* log entries a handler has finished with
  \* the database, committed state
  source,      \* Repository.deployment_source, "none" while not tracking
  class,       \* Environment rows: classification per workspace and name
  prRow,       \* pull_requests rows
  events,      \* deployment_events rows
  attributed,  \* deployment_attributions rows
  \* dispatcher tasks
  job,
  \* counters of the bounds
  spent

github == <<now, pull, log>>
settings == <<source, class>>
shipped == <<events, attributed>>
vars == <<github, queue, settled, settings, prRow, shipped, job, spent>>

(***************************************************************************)
(* A dispatcher task: the transaction of one shipment delivery.            *)
(***************************************************************************)
Job ==
  [pc: {"idle", "repo", "previous", "attribute"},
   delivery: Nat,
   todo: SUBSET Tenants,        \* repositories of the loop still to visit
   tenant: Tenants \cup {"none"},
   windowStart: Int,
   newEvents: SUBSET Event,     \* uncommitted inserts of this transaction
   newAttributed: SUBSET Attribution]
Idle ==
  [pc |-> "idle", delivery |-> 0, todo |-> {}, tenant |-> "none",
   windowStart |-> 0, newEvents |-> {}, newAttributed |-> {}]

TypeOK ==
  /\ now \in Nat
  /\ pull \in [PRs -> [state: {"none", "open", "closed", "merged"}, draft: BOOLEAN,
                       base: Branches, mergedAt: Nat, closedAt: Nat]]
  /\ log \in Seq(Payload)
  /\ queue \subseteq DOMAIN log /\ settled \subseteq DOMAIN log
  /\ source \in [Tenants -> Sources \cup {"none"}]
  /\ class \in [Tenants -> [Environments -> Classes]]
  /\ prRow \in [Tenants -> [PRs -> Row]]
  /\ events \subseteq Event
  /\ attributed \subseteq Attribution
  /\ job \in [Workers -> Job]
  /\ \A w \in Workers : job[w].pc # "idle" =>
       /\ job[w].delivery \in DOMAIN log
       /\ log[job[w].delivery] \in ShipmentPayload
  /\ \A w \in Workers : job[w].pc \in {"previous", "attribute"} =>
       job[w].tenant \in job[w].todo
  /\ spent \in [redeliveries: Nat, crashes: Nat, edits: Nat]

Init ==
  /\ now = 1
  /\ pull = [p \in PRs |-> [state |-> "none", draft |-> FALSE,
                            base |-> DefaultBranch, mergedAt |-> 0, closedAt |-> 0]]
  /\ log = <<>>
  /\ queue = {} /\ settled = {}
  /\ source = [t \in Tenants |-> IF t \in InitiallyTracking THEN "deployment" ELSE "none"]
  /\ class = [t \in Tenants |-> [e \in Environments |->
                IF t \in InitiallyTracking THEN "production" ELSE "undiscovered"]]
  /\ prRow = [t \in Tenants |-> [p \in PRs |-> NoRow]]
  /\ events = {} /\ attributed = {}
  /\ job = [w \in Workers |-> Idle]
  /\ spent = [redeliveries |-> 0, crashes |-> 0, edits |-> 0]

-----------------------------------------------------------------------------
(***************************************************************************)
(* GitHub (external): what happens to pull requests, and the payload that  *)
(* each event sends to the webhook.                                        *)
(***************************************************************************)
Emit(payload) ==
  /\ Len(log) < MaxEvents
  /\ log' = Append(log, payload)
  /\ queue' = queue \cup {Len(log) + 1}

\* Pull request p changes to pr, and GitHub sends action with its new state.
EmitPR(kind, action, p, pr) ==
  /\ kind \in GitHubEvents
  /\ pull' = [pull EXCEPT ![p] = pr]
  /\ Emit([event |-> "pull_request", action |-> action, pr |-> p, base |-> pr.base,
           draft |-> pr.draft, mergedAt |-> pr.mergedAt, closedAt |-> pr.closedAt])
  /\ UNCHANGED <<settled, settings, prRow, shipped, job, spent>>

Advance == \E d \in Ticks : now' = now + d

OpenPR(p) ==
  /\ Advance
  /\ pull[p].state = "none"
  /\ \E b \in Branches :
       EmitPR("opened", "opened", p, [pull[p] EXCEPT !.state = "open", !.base = b])

ClosePR(p) ==
  /\ Advance
  /\ pull[p].state = "open"
  /\ EmitPR("closed", "closed", p, [pull[p] EXCEPT !.state = "closed", !.closedAt = now'])

ReopenPR(p) ==
  /\ Advance
  /\ pull[p].state = "closed"
  /\ EmitPR("reopened", "reopened", p, [pull[p] EXCEPT !.state = "open", !.closedAt = 0])

\* GitHub sets closed_at as well as merged_at when a pull request is merged.
MergePR(p) ==
  /\ Advance
  /\ pull[p].state = "open" /\ ~pull[p].draft
  /\ EmitPR("merged", "closed", p,
            [pull[p] EXCEPT !.state = "merged", !.mergedAt = now', !.closedAt = now'])

ToggleDraft(p) ==
  /\ Advance
  /\ pull[p].state = "open"
  /\ LET kind == IF pull[p].draft THEN "ready_for_review" ELSE "converted_to_draft"
     IN  EmitPR(kind, kind, p, [pull[p] EXCEPT !.draft = ~pull[p].draft])

RetargetPR(p) ==
  /\ Advance
  /\ pull[p].state = "open"
  /\ \E b \in Branches \ {pull[p].base} :
       EmitPR("edited", "edited", p, [pull[p] EXCEPT !.base = b])

\* A deployment may report success more than once; each status has its time.
Ship(s, id, env) ==
  /\ Advance
  /\ \E ships \in BOOLEAN :
       /\ \/ s \in GitHubEvents /\ ships
          \/ s = "deployment" /\ "failed_deployment" \in GitHubEvents /\ ~ships
          \/ s = "release" /\ "prerelease" \in GitHubEvents /\ ~ships
       /\ Emit([event |-> s, id |-> id, env |-> env, ships |-> ships, at |-> now'])
  /\ UNCHANGED <<pull, settled, settings, prRow, shipped, job, spent>>

\* The Redeliver button in GitHub: the same payload again, as a new delivery.
Redeliver(i) ==
  /\ spent.redeliveries < MaxRedeliveries
  /\ i \in DOMAIN log \ queue
  /\ queue' = queue \cup {i}
  /\ spent' = [spent EXCEPT !.redeliveries = @ + 1]
  /\ UNCHANGED <<github, settled, settings, prRow, shipped, job>>

GitHubStep ==
  \/ \E p \in PRs : OpenPR(p) \/ ClosePR(p) \/ ReopenPR(p) \/ MergePR(p)
                      \/ ToggleDraft(p) \/ RetargetPR(p)
  \/ \E s \in Sources, id \in Ids, env \in Environments : Ship(s, id, env)

-----------------------------------------------------------------------------
(***************************************************************************)
(* Settings that owners change while deliveries are being handled.         *)
(***************************************************************************)
Edit ==
  /\ spent.edits < MaxEdits
  /\ spent' = [spent EXCEPT !.edits = @ + 1]
  /\ UNCHANGED <<github, queue, settled, prRow, shipped, job>>

\* A Repository row appears with the default source; discovery classifies the
\* environments GitHub lists for it by their name.
TrackRepo(t) ==
  /\ Edit
  /\ source[t] = "none"
  /\ source' = [source EXCEPT ![t] = "deployment"]
  /\ \E found \in [Environments -> Classes] : class' = [class EXCEPT ![t] = found]

\* PATCH /environments/{id}: only a discovered environment has a row.
UpdateEnvironment(t, e) ==
  /\ Edit
  /\ class[t][e] # "undiscovered"
  /\ \E c \in {"production", "other"} \ {class[t][e]} : class' = [class EXCEPT ![t][e] = c]
  /\ UNCHANGED source

\* PATCH /repos/{id}: what counts as a deployment.
UpdateRepo(t) ==
  /\ Edit
  /\ source[t] # "none"
  /\ \E s \in Sources \ {source[t]} : source' = [source EXCEPT ![t] = s]
  /\ UNCHANGED class

-----------------------------------------------------------------------------
(***************************************************************************)
(* handle_pull_request_event                                               *)
(***************************************************************************)
Tracking == {t \in Tenants : source[t] # "none"}

\* The values the handler derives from the payload, action by action.
MergedAtOf(m) == IF m.action = "reopened" THEN 0 ELSE m.mergedAt
ClosedAtOf(m) == IF m.action = "closed" /\ m.mergedAt = 0 THEN m.closedAt ELSE 0
DraftOf(m) ==
  \/ m.action = "converted_to_draft"
  \/ m.draft /\ m.action # "ready_for_review"

\* Faulty variants (named Faulty...): slips in the code that the properties
\* below must notice.  No specification uses them.
\* Here: a payload without base.ref, stored as it is.
FaultyUpsertNoBase(row, m) ==
  [known |-> TRUE, base |-> "", mergedAt |-> MergedAtOf(m),
   closedAt |-> ClosedAtOf(m), draft |-> DraftOf(m)]

\* Here: closed_at missing from the columns that the conflict updates.
FaultyUpsertKeepsClosed(row, m) ==
  [known |-> TRUE, base |-> m.base, mergedAt |-> MergedAtOf(m),
   closedAt |-> IF row.known THEN row.closedAt ELSE ClosedAtOf(m), draft |-> DraftOf(m)]

\* INSERT ... ON CONFLICT (tenant_id, repo_id, number) DO UPDATE: the update
\* leaves base_ref as the first insert stored it.
Upsert(row, m) ==
  [known |-> TRUE,
   base |-> IF row.known THEN row.base ELSE m.base,
   mergedAt |-> MergedAtOf(m),
   closedAt |-> ClosedAtOf(m),
   draft |-> DraftOf(m)]

\* One transaction of blind upserts, so it takes effect at its commit.
HandlePullRequest(i) ==
  /\ i \in queue
  /\ log[i].event = "pull_request"
  /\ queue' = queue \ {i}
  /\ settled' = settled \cup {i}
  /\ prRow' = IF log[i].action \notin HandledPRActions THEN prRow
              ELSE [t \in Tenants |-> IF t \in Tracking
                      THEN [prRow[t] EXCEPT ![log[i].pr] = Upsert(@, log[i])]
                      ELSE prRow[t]]
  /\ UNCHANGED <<github, settings, shipped, job, spent>>

-----------------------------------------------------------------------------
(***************************************************************************)
(* handle_deployment_status_event, handle_release_event and                *)
(* attribute_prs_to_deployment, as one dispatcher task w.                  *)
(***************************************************************************)
Delivery(w) == log[job[w].delivery]
EventOf(m, t) == [tenant |-> t, source |-> m.event, id |-> m.id, at |-> m.at]
SameKey(e, f) == e.tenant = f.tenant /\ e.source = f.source /\ e.id = f.id
HasKey(rows, e) == \E f \in rows : SameKey(e, f)

\* A payload that ships nothing, or a repository nobody tracks: SKIPPED.
SkipShipment(i) ==
  /\ i \in queue
  /\ log[i].event \in Sources
  /\ ~log[i].ships \/ Tracking = {}
  /\ queue' = queue \ {i}
  /\ settled' = settled \cup {i}
  /\ UNCHANGED <<github, settings, prRow, shipped, job, spent>>

\* SELECT the Repository rows; deployment_source is the value read here.
BeginShipment(w, i) ==
  /\ job[w].pc = "idle"
  /\ i \in queue
  /\ log[i].event \in Sources /\ log[i].ships
  /\ Tracking # {}
  /\ queue' = queue \ {i}
  /\ job' = [job EXCEPT ![w] =
               [Idle EXCEPT !.pc = "repo", !.delivery = i,
                            !.todo = {t \in Tenants : source[t] = log[i].event}]]
  /\ UNCHANGED <<github, settled, settings, prRow, shipped, spent>>

\* A release has no environment; a deployment counts only in a workspace that
\* classifies its environment as production, read when the loop gets there.
CountsIn(m, t) == m.event = "release" \/ class[t][m.env] = "production"

\* Here: the loop ends, as with break, where it should continue.
FaultyPassOver(w, t) == job' = [job EXCEPT ![w].todo = {}]

PassOver(w, t) == job' = [job EXCEPT ![w].todo = @ \ {t}]

SkipEnvironment(w, t) ==
  /\ job[w].pc = "repo" /\ t \in job[w].todo
  /\ ~CountsIn(Delivery(w), t)
  /\ PassOver(w, t)
  /\ UNCHANGED <<github, queue, settled, settings, prRow, shipped, spent>>

\* Here: looking for the row before inserting it, without a unique index.
FaultyNoWait(w, v, t) == FALSE

\* The unique index makes an insert wait for an uncommitted row of that key.
WaitsFor(w, v, t) ==
  /\ v # w
  /\ job[w].pc = "repo" /\ t \in job[w].todo
  /\ CountsIn(Delivery(w), t)
  /\ HasKey(job[v].newEvents, EventOf(Delivery(w), t))

\* INSERT ... ON CONFLICT DO NOTHING affected no row: already ingested.
DuplicateShipment(w, t) ==
  /\ job[w].pc = "repo" /\ t \in job[w].todo
  /\ CountsIn(Delivery(w), t)
  /\ HasKey(events, EventOf(Delivery(w), t))
  /\ PassOver(w, t)
  /\ UNCHANGED <<github, queue, settled, settings, prRow, shipped, spent>>

\* Here: attributing without looking at the number of inserted rows.
FaultyInsertAgain(w, t) ==
  /\ job[w].pc = "repo" /\ t \in job[w].todo
  /\ CountsIn(Delivery(w), t)
  /\ \A v \in Workers : ~WaitsFor(w, v, t)
  /\ job' = [job EXCEPT ![w].pc = "previous", ![w].tenant = t,
                        ![w].newEvents = @ \cup {EventOf(Delivery(w), t)}]
  /\ UNCHANGED <<github, queue, settled, settings, prRow, shipped, spent>>

InsertShipment(w, t) ==
  /\ job[w].pc = "repo" /\ t \in job[w].todo
  /\ CountsIn(Delivery(w), t)
  /\ \A v \in Workers : ~WaitsFor(w, v, t)
  /\ ~HasKey(events, EventOf(Delivery(w), t))
  /\ job' = [job EXCEPT ![w].pc = "previous", ![w].tenant = t,
                        ![w].newEvents = @ \cup {EventOf(Delivery(w), t)}]
  /\ UNCHANGED <<github, queue, settled, settings, prRow, shipped, spent>>

\* Here: the fixed look-back for every shipment.
FaultyNoEarlier(w) == {}

\* The latest shipment strictly before this one opens the window.
EarlierShipments(w) ==
  {e \in events \cup job[w].newEvents :
     e.tenant = job[w].tenant /\ e.at < Delivery(w).at}

\* Here: the oldest shipment, not the latest, opens the window.
FaultyReadOldest(w) ==
  /\ job[w].pc = "previous"
  /\ \/ /\ EarlierShipments(w) = {}
        /\ job' = [job EXCEPT ![w].pc = "attribute",
                              ![w].windowStart = Delivery(w).at - LookBack]
     \/ \E e \in EarlierShipments(w) :
          /\ \A f \in EarlierShipments(w) : f.at >= e.at
          /\ job' = [job EXCEPT ![w].pc = "attribute", ![w].windowStart = e.at]
  /\ UNCHANGED <<github, queue, settled, settings, prRow, shipped, spent>>

ReadPrevious(w) ==
  /\ job[w].pc = "previous"
  /\ \/ /\ EarlierShipments(w) = {}
        /\ job' = [job EXCEPT ![w].pc = "attribute",
                              ![w].windowStart = Delivery(w).at - LookBack]
     \/ \E e \in EarlierShipments(w) :
          /\ \A f \in EarlierShipments(w) : f.at <= e.at
          /\ job' = [job EXCEPT ![w].pc = "attribute", ![w].windowStart = e.at]
  /\ UNCHANGED <<github, queue, settled, settings, prRow, shipped, spent>>

\* Here: a window without its upper end.
FaultyOpenWindow(w) ==
  {p \in PRs : LET row == prRow[job[w].tenant][p] IN
     /\ row.known /\ row.base = DefaultBranch
     /\ row.mergedAt # 0
     /\ row.mergedAt > job[w].windowStart}

MergedInWindow(w) ==
  {p \in PRs : LET row == prRow[job[w].tenant][p] IN
     /\ row.known /\ row.base = DefaultBranch
     /\ row.mergedAt # 0
     /\ row.mergedAt > job[w].windowStart
     /\ row.mergedAt <= Delivery(w).at}

AttributePRs(w) ==
  /\ job[w].pc = "attribute"
  /\ LET new == EventOf(Delivery(w), job[w].tenant) IN
     job' = [job EXCEPT
       ![w].pc = "repo",
       ![w].todo = @ \ {job[w].tenant},
       ![w].tenant = "none",
       ![w].windowStart = 0,
       ![w].newAttributed = @ \cup {[event |-> new, pr |-> p] : p \in MergedInWindow(w)}]
  /\ UNCHANGED <<github, queue, settled, settings, prRow, shipped, spent>>

CommitShipment(w) ==
  /\ job[w].pc = "repo" /\ job[w].todo = {}
  /\ events' = events \cup job[w].newEvents
  /\ attributed' = attributed \cup job[w].newAttributed
  /\ settled' = settled \cup {job[w].delivery}
  /\ job' = [job EXCEPT ![w] = Idle]
  /\ UNCHANGED <<github, queue, settings, prRow, spent>>

\* The task dies, or an error rolls its transaction back; nobody retries it.
Abort(w) ==
  /\ job[w].pc # "idle"
  /\ spent.crashes < MaxCrashes
  /\ spent' = [spent EXCEPT !.crashes = @ + 1]
  /\ job' = [job EXCEPT ![w] = Idle]
  /\ UNCHANGED <<github, queue, settled, settings, prRow, shipped>>

\* Two tasks that visit workspaces in opposite orders wait for each other;
\* PostgreSQL rolls one of them back.
Deadlock(w) ==
  /\ \E v \in Workers, t, u \in Tenants : WaitsFor(w, v, t) /\ WaitsFor(v, w, u)
  /\ job' = [job EXCEPT ![w] = Idle]
  /\ UNCHANGED <<github, queue, settled, settings, prRow, shipped, spent>>

JobStep(w) ==
  \/ \E t \in Tenants : SkipEnvironment(w, t) \/ DuplicateShipment(w, t) \/ InsertShipment(w, t)
  \/ ReadPrevious(w) \/ AttributePRs(w) \/ CommitShipment(w) \/ Deadlock(w)

HandleDelivery(i) ==
  \/ HandlePullRequest(i)
  \/ SkipShipment(i)
  \/ \E w \in Workers : BeginShipment(w, i)

EditStep ==
  \E t \in Tenants : \/ TrackRepo(t) \/ UpdateRepo(t)
                     \/ \E e \in Environments : UpdateEnvironment(t, e)

Next ==
  \/ GitHubStep
  \/ \E i \in DOMAIN log : Redeliver(i) \/ HandleDelivery(i)
  \/ EditStep
  \/ \E w \in Workers : JobStep(w) \/ Abort(w)

Spec == Init /\ [][Next]_vars

(***************************************************************************)
(* The dispatcher is fair: a delivery is handled once it has arrived, and  *)
(* a task runs to its end.                                                 *)
(***************************************************************************)
FairSpec ==
  /\ Spec
  /\ WF_vars(\E i \in DOMAIN log : HandleDelivery(i))
  /\ \A w \in Workers : WF_vars(JobStep(w))

(***************************************************************************)
(* The environment the attribution heuristic is designed for: deliveries   *)
(* arrive in the order of the events, each handled before the next one.    *)
(***************************************************************************)
OrderedNext ==
  \/ GitHubStep
  \/ EditStep
  \/ \E w \in Workers : JobStep(w)
  \/ \E i \in queue :
       /\ \A j \in queue : i <= j
       /\ \A w \in Workers : job[w].pc = "idle"
       /\ HandleDelivery(i)

OrderedSpec == Init /\ [][OrderedNext]_vars

-----------------------------------------------------------------------------
(***************************************************************************)
(* Properties                                                              *)
(***************************************************************************)
\* A workspace counts a deployment or release once, however many copies of
\* its delivery are handled at the same time and whatever times they carry.
\* ON CONFLICT DO NOTHING on (tenant_id, source, deployment_id) is what the
\* ingest services rely on, together with the wait for an uncommitted row.
OneEventPerShipment ==
  \A e, f \in events : SameKey(e, f) => e = f

\* Whatever is attributed was really merged on GitHub, no later than the
\* shipment, in the same workspace; late, stale and repeated pull_request
\* payloads (including the reopened override of merged_at) never invent a merge.
AttributedWasMerged ==
  \A a \in attributed :
    /\ a.event \in events
    /\ prRow[a.event.tenant][a.pr].known
    /\ prRow[a.event.tenant][a.pr].base = DefaultBranch
    /\ 0 < pull[a.pr].mergedAt /\ pull[a.pr].mergedAt <= a.event.at

\* What a shipment carried is settled when the shipment is recorded: a later
\* delivery (a duplicate, a redelivery after more merges, an older deployment
\* arriving late) takes no attribution back and adds none to a recorded one.
AttributionIsFinal ==
  [][/\ attributed \subseteq attributed'
     /\ \A a \in attributed' : a.event \in events => a \in attributed]_vars

\* Handled in order, the rows mirror GitHub: once nothing is queued, a tracked
\* pull request has GitHub's merge time, its draft flag, and a closed_at
\* exactly when it is closed without being merged.
RowsMirrorGitHub ==
  queue = {} =>
    \A t \in Tenants, p \in PRs :
      prRow[t][p].known =>
        /\ prRow[t][p].mergedAt = pull[p].mergedAt
        /\ prRow[t][p].draft = pull[p].draft
        /\ prRow[t][p].closedAt = IF pull[p].state = "closed" THEN pull[p].closedAt ELSE 0

\* A delivered shipment ends up recorded in every workspace that counts it,
\* although tasks for copies of it wait for each other and may deadlock; the
\* only excuse is a workspace whose settings did not count it meanwhile.
ShipmentsAreRecorded ==
  \A t \in Tenants, s \in Sources, id \in Ids, env \in Environments :
    (\E i \in queue : /\ log[i].event = s /\ log[i].id = id
                     /\ log[i].env = env /\ log[i].ships)
      ~> \/ source[t] # s
         \/ s = "deployment" /\ class[t][env] # "production"
         \/ \E e \in events : e.tenant = t /\ e.source = s /\ e.id = id

\* The abstract ledger of workspace t, read off the committed rows.
LandedIn(t) ==
  [p \in PRs |-> IF prRow[t][p].known /\ prRow[t][p].base = DefaultBranch
                 THEN prRow[t][p].mergedAt ELSE 0]
EventsIn(t) == {e \in events : e.tenant = t}
WaitingIn(t) ==
  {p \in PRs : LandedIn(t)[p] # 0 /\ \A e \in EventsIn(t) : e.at < LandedIn(t)[p]}

Ledger(t) == INSTANCE ShipmentLedger WITH
  landed <- LandedIn(t),
  unshipped <- WaitingIn(t),
  shipped <- EventsIn(t),
  ledger <- {a \in attributed : a.event.tenant = t},
  Shipments <- Event

\* In order and without ties, attribution implements the ledger in every
\* workspace: each merged pull request goes to the first shipment after it.
ImplementsLedger ==
  /\ \A t \in Tenants : Ledger(t)!Init
  /\ [][\A t \in Tenants : [Ledger(t)!Next]_(Ledger(t)!vars)]_vars

\* docs/proposals/001-deployment-ingest.md:62: "A PR is attributed to the
\* first production deployment that follows its merge".
FirstShipmentOnly ==
  \A a, b \in attributed :
    a.pr = b.pr /\ a.event.tenant = b.event.tenant => a = b

\* docs/runbooks/webhook-redelivery.md:92 on redelivering a delivery that has
\* already succeeded: "The state we'd produce is identical".
RedeliveryChangesNothing ==
  [][\A i \in settled : HandlePullRequest(i) => UNCHANGED prRow]_vars

\* attribution_service.py:39 "Find PRs merged in window targeting default
\* branch": what is attributed was merged into the default branch.
AttributedTargetsDefault ==
  \A a \in attributed : pull[a.pr].base = DefaultBranch
=============================================================================
