---------------------------- MODULE IngestProofs ----------------------------
(***************************************************************************)
(* Proofs about webhook ingest, for any number of workspaces, pull         *)
(* requests, tasks and deliveries.  The inductive invariant says where     *)
(* every stored merge time comes from, and what an uncommitted row locks.  *)
(***************************************************************************)
EXTENDS Ingest, TLAPS

\* GitHub never takes a merge back: only a merged pull request has a time.
MergesAreFinal ==
  \A p \in PRs : pull[p].mergedAt # 0 => pull[p].state = "merged"

\* A payload, however old, tells the merge time GitHub still has, or none.
PayloadsTellTheMerge ==
  \A i \in DOMAIN log :
    log[i].event = "pull_request" /\ log[i].mergedAt # 0
      => log[i].mergedAt = pull[log[i].pr].mergedAt

RowsTellTheMerge ==
  \A t \in Tenants, p \in PRs :
    prRow[t][p].mergedAt # 0 => prRow[t][p].mergedAt = pull[p].mergedAt

\* An idle task has no transaction; a busy one has inserted rows of its own
\* delivery, at most one for each workspace it has visited.
OwnsItsRows(j) ==
  /\ j.pc = "idle" => j = Idle
  /\ \A e \in j.newEvents :
       /\ j.pc # "idle"
       /\ e = EventOf(log[j.delivery], e.tenant)
       /\ \/ e.tenant \notin j.todo
          \/ j.pc \in {"previous", "attribute"} /\ e.tenant = j.tenant
  /\ j.pc \in {"previous", "attribute"} =>
       EventOf(log[j.delivery], j.tenant) \in j.newEvents

TasksOwnTheirRows == \A w \in Workers : OwnsItsRows(job[w])

\* The unique index: an uncommitted row excludes its key from every other
\* transaction and from the committed rows.
KeysAreLocked ==
  \A w \in Workers : \A e \in job[w].newEvents :
    /\ ~HasKey(events, e)
    /\ \A v \in Workers \ {w} : ~HasKey(job[v].newEvents, e)

WasMerged(a) ==
  /\ prRow[a.event.tenant][a.pr].known
  /\ prRow[a.event.tenant][a.pr].base = DefaultBranch
  /\ 0 < pull[a.pr].mergedAt
  /\ pull[a.pr].mergedAt <= a.event.at

PendingAttributions ==
  \A w \in Workers : \A a \in job[w].newAttributed :
    a.event \in job[w].newEvents /\ WasMerged(a)

-----------------------------------------------------------------------------
(***************************************************************************)
(* Type correctness.                                                       *)
(***************************************************************************)
\* Appending a payload leaves every entry of the log in place.
LEMMA AppendKeeps ==
  ASSUME NEW S, NEW seq \in Seq(S), NEW x \in S
  PROVE  /\ Append(seq, x) \in Seq(S)
         /\ DOMAIN Append(seq, x) = DOMAIN seq \cup {Len(seq) + 1}
         /\ Len(seq) + 1 \notin DOMAIN seq
         /\ \A i \in DOMAIN seq : Append(seq, x)[i] = seq[i]
         /\ Append(seq, x)[Len(seq) + 1] = x
  OBVIOUS

\* The two kinds of payload are told apart by their event.
LEMMA PayloadKinds ==
  ASSUME NEW m \in Payload
  PROVE  /\ m.event = "pull_request" => m \in PullRequestPayload
         /\ m.event \in Sources => m \in ShipmentPayload
  BY DEF Payload, PullRequestPayload, ShipmentPayload, Sources

\* What Emit does to the log, given a well-formed payload.
LEMMA EmitType ==
  ASSUME TypeOK, NEW m \in Payload, Emit(m),
         UNCHANGED <<settled, job>>
  PROVE  /\ log' \in Seq(Payload)
         /\ (queue \subseteq DOMAIN log /\ settled \subseteq DOMAIN log)'
         /\ DOMAIN log' = DOMAIN log \cup {Len(log) + 1}
         /\ \A i \in DOMAIN log : log'[i] = log[i]
         /\ log'[Len(log) + 1] = m
         /\ (\A w \in Workers : job[w].pc # "idle" =>
               /\ job[w].delivery \in DOMAIN log
               /\ log[job[w].delivery] \in ShipmentPayload)'
  BY AppendKeeps DEF TypeOK, Emit

PRState == [state: {"none", "open", "closed", "merged"}, draft: BOOLEAN,
            base: Branches, mergedAt: Nat, closedAt: Nat]

LEMMA EmitPRType ==
  ASSUME TypeOK, NEW p \in PRs, NEW pr \in PRState, NEW kind,
         NEW action \in HandledPRActions \cup {"edited"},
         EmitPR(kind, action, p, pr), Advance, ConstantsOK
  PROVE  TypeOK'
<1> DEFINE m == [event |-> "pull_request", action |-> action, pr |-> p, base |-> pr.base,
                 draft |-> pr.draft, mergedAt |-> pr.mergedAt, closedAt |-> pr.closedAt]
<1>1. m \in Payload
  BY DEF Payload, PullRequestPayload, PRState
<1>2. Emit(m) /\ UNCHANGED <<settled, job>>
  BY DEF EmitPR
<1> HIDE DEF m
<1>3. now' \in Nat
  BY DEF Advance, ConstantsOK, TypeOK
<1>4. pull' \in [PRs -> PRState]
  BY DEF EmitPR, TypeOK, PRState
<1>5. UNCHANGED <<settled, source, class, prRow, events, attributed, job, spent>>
  BY DEF EmitPR, settings, shipped
<1> QED
  BY <1>1, <1>2, <1>3, <1>4, <1>5, EmitType DEF TypeOK, PRState

LEMMA GitHubType ==
  ASSUME TypeOK, GitHubStep, ConstantsOK
  PROVE  TypeOK'
<1>a. now' \in Nat
  <2>1. Advance
    BY Zenon DEF GitHubStep, OpenPR, ClosePR, ReopenPR, MergePR, ToggleDraft, RetargetPR, Ship
  <2> QED
    BY <2>1 DEF Advance, ConstantsOK, TypeOK
<1>b. pull \in [PRs -> PRState]
  BY DEF TypeOK, PRState
<1>1. ASSUME NEW p \in PRs, OpenPR(p) PROVE TypeOK'
  <2>1. PICK b \in Branches :
          EmitPR("opened", "opened", p, [pull[p] EXCEPT !.state = "open", !.base = b])
    BY Zenon, <1>1 DEF OpenPR
  <2>2. [pull[p] EXCEPT !.state = "open", !.base = b] \in PRState
    BY <1>b DEF PRState
  <2> QED
    BY <1>1, <2>1, <2>2, EmitPRType DEF OpenPR, HandledPRActions
<1>2. ASSUME NEW p \in PRs, ClosePR(p) PROVE TypeOK'
  <2>1. [pull[p] EXCEPT !.state = "closed", !.closedAt = now'] \in PRState
    BY <1>a, <1>b DEF PRState
  <2> QED
    BY <1>2, <2>1, EmitPRType DEF ClosePR, HandledPRActions
<1>3. ASSUME NEW p \in PRs, ReopenPR(p) PROVE TypeOK'
  <2>1. [pull[p] EXCEPT !.state = "open", !.closedAt = 0] \in PRState
    BY <1>b DEF PRState
  <2> QED
    BY <1>3, <2>1, EmitPRType DEF ReopenPR, HandledPRActions
<1>4. ASSUME NEW p \in PRs, MergePR(p) PROVE TypeOK'
  <2>1. [pull[p] EXCEPT !.state = "merged", !.mergedAt = now', !.closedAt = now'] \in PRState
    BY <1>a, <1>b DEF PRState
  <2> QED
    BY <1>4, <2>1, EmitPRType DEF MergePR, HandledPRActions
<1>5. ASSUME NEW p \in PRs, ToggleDraft(p) PROVE TypeOK'
  <2>1. [pull[p] EXCEPT !.draft = ~pull[p].draft] \in PRState
    BY <1>b DEF PRState
  <2> QED
    BY <1>5, <2>1, EmitPRType DEF ToggleDraft, HandledPRActions
<1>6. ASSUME NEW p \in PRs, RetargetPR(p) PROVE TypeOK'
  <2>1. PICK b \in Branches : EmitPR("edited", "edited", p, [pull[p] EXCEPT !.base = b])
    BY <1>6 DEF RetargetPR
  <2>2. [pull[p] EXCEPT !.base = b] \in PRState
    BY <1>b DEF PRState
  <2> QED
    BY <1>6, <2>1, <2>2, EmitPRType DEF RetargetPR
<1>7. ASSUME NEW s \in Sources, NEW id \in Ids, NEW env \in Environments, Ship(s, id, env)
      PROVE  TypeOK'
  <2>1. PICK ships \in BOOLEAN :
          Emit([event |-> s, id |-> id, env |-> env, ships |-> ships, at |-> now'])
    BY <1>7 DEF Ship
  <2> DEFINE m == [event |-> s, id |-> id, env |-> env, ships |-> ships, at |-> now']
  <2>2. m \in Payload
    BY <1>a DEF Payload, ShipmentPayload
  <2>3. Emit(m)
    BY <2>1
  <2> HIDE DEF m
  <2>4. UNCHANGED <<pull, settled, source, class, prRow, events, attributed, job, spent>>
    BY <1>7 DEF Ship, settings, shipped
  <2> QED
    BY <1>a, <2>2, <2>3, <2>4, EmitType DEF TypeOK
<1> QED
  BY <1>1, <1>2, <1>3, <1>4, <1>5, <1>6, <1>7 DEF GitHubStep

LEMMA DeliveryType ==
  ASSUME TypeOK, NEW w \in Workers, job[w].pc # "idle"
  PROVE  /\ job[w].delivery \in DOMAIN log
         /\ Delivery(w) \in ShipmentPayload
         /\ \A t \in Tenants : EventOf(Delivery(w), t) \in Event
  BY DEF TypeOK, Delivery, EventOf, Event, ShipmentPayload

\* An action that changes only one task's record keeps the types if the new
\* record is well-formed.
LEMMA JobType ==
  ASSUME TypeOK, NEW w \in Workers, NEW r \in Job,
         job' = [job EXCEPT ![w] = r],
         r.pc # "idle" => job[w].pc # "idle" /\ r.delivery = job[w].delivery,
         r.pc \in {"previous", "attribute"} => r.tenant \in r.todo,
         UNCHANGED <<now, pull, log, queue, settled, source, class, prRow, events, attributed>>,
         spent' \in [redeliveries: Nat, crashes: Nat, edits: Nat]
  PROVE  TypeOK'
  BY DEF TypeOK

LEMMA RowType ==
  ASSUME TypeOK, NEW m \in PullRequestPayload, NEW row \in Row
  PROVE  Upsert(row, m) \in Row
  BY DEF Upsert, MergedAtOf, ClosedAtOf, DraftOf, Row, PullRequestPayload

LEMMA PullRequestType ==
  ASSUME TypeOK, NEW i \in DOMAIN log, HandlePullRequest(i)
  PROVE  TypeOK'
<1> DEFINE m == log[i]
<1>1. m \in PullRequestPayload
  BY PayloadKinds DEF HandlePullRequest, TypeOK
<1>2. m.pr \in PRs
  BY <1>1 DEF PullRequestPayload
<1>3. prRow' \in [Tenants -> [PRs -> Row]]
  <2>1. ASSUME NEW t \in Tenants
        PROVE  [prRow[t] EXCEPT ![m.pr] = Upsert(@, m)] \in [PRs -> Row]
    BY <1>1, <1>2, RowType DEF TypeOK
  <2> QED
    BY <2>1 DEF HandlePullRequest, TypeOK
<1>4. UNCHANGED <<now, pull, log, source, class, events, attributed, job, spent>>
  BY DEF HandlePullRequest, github, settings, shipped
<1>5. queue' \subseteq queue /\ settled' = settled \cup {i}
  BY DEF HandlePullRequest
<1> QED
  BY <1>3, <1>4, <1>5 DEF TypeOK

LEMMA EditType ==
  ASSUME TypeOK, EditStep
  PROVE  TypeOK'
<1>1. UNCHANGED <<now, pull, log, queue, settled, prRow, events, attributed, job>>
  BY DEF EditStep, TrackRepo, UpdateRepo, UpdateEnvironment, Edit, github, shipped
<1>2. spent' \in [redeliveries: Nat, crashes: Nat, edits: Nat]
  <2>1. Edit
    BY DEF EditStep, TrackRepo, UpdateRepo, UpdateEnvironment
  <2>2. spent \in [redeliveries: Nat, crashes: Nat, edits: Nat]
    BY DEF TypeOK
  <2> QED
    BY <2>1, <2>2 DEF Edit
<1> DEFINE SettingsType == /\ source' \in [Tenants -> Sources \cup {"none"}]
                           /\ class' \in [Tenants -> [Environments -> Classes]]
<1>3. SettingsType
  <2>1. ASSUME NEW t \in Tenants, TrackRepo(t) PROVE SettingsType
    BY <2>1 DEF TrackRepo, TypeOK, Sources
  <2>2. ASSUME NEW t \in Tenants, UpdateRepo(t) PROVE SettingsType
    BY <2>2 DEF UpdateRepo, TypeOK
  <2>3. ASSUME NEW t \in Tenants, NEW e \in Environments, UpdateEnvironment(t, e)
        PROVE  SettingsType
    BY <2>3 DEF UpdateEnvironment, TypeOK, Classes
  <2> QED
    BY <2>1, <2>2, <2>3 DEF EditStep
<1> QED
  BY <1>1, <1>2, <1>3 DEF TypeOK

LEMMA BeginType ==
  ASSUME TypeOK, NEW w \in Workers, NEW i \in DOMAIN log, BeginShipment(w, i)
  PROVE  TypeOK'
<1> DEFINE todo == {t \in Tenants : source[t] = log[i].event}
           r == [Idle EXCEPT !.pc = "repo", !.delivery = i, !.todo = todo]
<1>1. i \in Nat /\ log[i] \in ShipmentPayload
  BY PayloadKinds DEF BeginShipment, TypeOK
<1>a. todo \subseteq Tenants
  OBVIOUS
<1> HIDE DEF todo
<1>b. Idle \in Job
  BY DEF Idle, Job
<1>2. r \in Job /\ r.pc = "repo" /\ r.delivery = i
  BY <1>1, <1>a, <1>b DEF Job
<1> USE DEF todo
<1>3. /\ job' = [job EXCEPT ![w] = r] /\ queue' \subseteq queue
      /\ UNCHANGED <<now, pull, log, settled, source, class, prRow, events, attributed, spent>>
  BY DEF BeginShipment, github, settings, shipped
<1> HIDE DEF r
<1> QED
  BY <1>1, <1>2, <1>3 DEF TypeOK

LEMMA JobStepType ==
  ASSUME TypeOK, NEW w \in Workers, JobStep(w) \/ Abort(w)
  PROVE  TypeOK'
<1> USE DEF github, settings, shipped
<1>a. job[w] \in Job
  BY DEF TypeOK
<1>b. spent \in [redeliveries: Nat, crashes: Nat, edits: Nat]
  BY DEF TypeOK
<1>1. ASSUME NEW t \in Tenants, SkipEnvironment(w, t) \/ DuplicateShipment(w, t)
      PROVE  TypeOK'
  <2>1. [job[w] EXCEPT !.todo = @ \ {t}] \in Job
    BY <1>a DEF Job
  <2>2. job' = [job EXCEPT ![w] = [job[w] EXCEPT !.todo = @ \ {t}]]
    BY <1>1 DEF SkipEnvironment, DuplicateShipment, PassOver, TypeOK
  <2>3. job[w].pc = "repo"
    BY <1>1 DEF SkipEnvironment, DuplicateShipment
  <2> QED
    BY <1>1, <1>a, <1>b, <2>1, <2>2, <2>3, JobType DEF SkipEnvironment, DuplicateShipment, Job
<1>2. ASSUME NEW t \in Tenants, InsertShipment(w, t) PROVE TypeOK'
  <2> DEFINE r == [job[w] EXCEPT !.pc = "previous", !.tenant = t,
                                 !.newEvents = @ \cup {EventOf(Delivery(w), t)}]
  <2>1. EventOf(Delivery(w), t) \in Event
    BY <1>2, DeliveryType DEF InsertShipment
  <2>2. r \in Job /\ r.delivery = job[w].delivery /\ r.tenant \in r.todo
    BY <1>a, <1>2, <2>1 DEF Job, InsertShipment
  <2>3. job' = [job EXCEPT ![w] = r]
    BY <1>2 DEF InsertShipment, TypeOK
  <2> HIDE DEF r
  <2> QED
    BY <1>2, <1>b, <2>2, <2>3, JobType DEF InsertShipment
<1>3. CASE ReadPrevious(w)
  <2>1. PICK start \in Int :
          job' = [job EXCEPT ![w].pc = "attribute", ![w].windowStart = start]
    <3>1. CASE EarlierShipments(w) = {}
      <4>1. Delivery(w).at - LookBack \in Int
        BY <1>3, DeliveryType, ConstantsOK DEF ReadPrevious, ShipmentPayload
      <4> QED
        BY <1>3, <3>1, <4>1 DEF ReadPrevious
    <3>2. ASSUME NEW e \in EarlierShipments(w),
                 job' = [job EXCEPT ![w].pc = "attribute", ![w].windowStart = e.at]
          PROVE  \E start \in Int :
                   job' = [job EXCEPT ![w].pc = "attribute", ![w].windowStart = start]
      <4>1. e.at \in Int
        BY <1>a DEF EarlierShipments, TypeOK, Job, Event
      <4> QED
        BY <3>2, <4>1
    <3> QED
      BY <1>3, <3>1, <3>2 DEF ReadPrevious
  <2> DEFINE r == [job[w] EXCEPT !.pc = "attribute", !.windowStart = start]
  <2>2. r \in Job /\ r.delivery = job[w].delivery /\ r.tenant \in r.todo
    BY <1>a, <1>3 DEF Job, ReadPrevious, TypeOK
  <2>3. job' = [job EXCEPT ![w] = r]
    BY <2>1 DEF TypeOK
  <2> HIDE DEF r
  <2> QED
    BY <1>3, <1>b, <2>2, <2>3, JobType DEF ReadPrevious
<1>4. CASE AttributePRs(w)
  <2> DEFINE new == {[event |-> EventOf(Delivery(w), job[w].tenant), pr |-> p] :
                       p \in MergedInWindow(w)}
             q == [job[w] EXCEPT !.pc = "repo", !.todo = @ \ {job[w].tenant}, !.tenant = "none"]
             all == job[w].newAttributed \cup new
             q0 == [q EXCEPT !.windowStart = 0]
             r == [q0 EXCEPT !.newAttributed = all]
  <2>1. job[w].tenant \in Tenants
    BY <1>4, <1>a DEF AttributePRs, TypeOK, Job
  <2>2. EventOf(Delivery(w), job[w].tenant) \in Event
    BY <1>4, <2>1, DeliveryType DEF AttributePRs
  <2>3. new \subseteq Attribution
    BY <2>2 DEF MergedInWindow, Attribution
  <2> HIDE DEF new
  <2>a. all \in SUBSET Attribution
    BY <1>a, <2>3 DEF Job
  <2>4. job' = [job EXCEPT ![w] = r]
    BY <1>4 DEF AttributePRs, TypeOK, new
  <2>5. q \in Job /\ q.delivery = job[w].delivery /\ q.pc = "repo"
    BY <1>a DEF Job
  <2> HIDE DEF q, all
  <2>b. q0 \in Job /\ q0.delivery = job[w].delivery /\ q0.pc = "repo"
    BY <2>5 DEF Job
  <2> HIDE DEF q0
  <2>6. r \in Job /\ r.delivery = job[w].delivery /\ r.pc = "repo"
    BY <2>a, <2>b DEF Job
  <2> HIDE DEF r
  <2> QED
    BY <1>4, <1>b, <2>4, <2>6, JobType DEF AttributePRs
<1>5. CASE CommitShipment(w)
  <2>1. /\ events' \subseteq Event /\ attributed' \subseteq Attribution
        /\ settled' \subseteq DOMAIN log
    BY <1>5, <1>a, DeliveryType DEF CommitShipment, TypeOK, Job
  <2>2. Idle \in Job /\ Idle.pc = "idle"
    BY DEF Idle, Job
  <2> QED
    BY <1>5, <2>1, <2>2 DEF CommitShipment, TypeOK
<1>6. CASE Abort(w) \/ Deadlock(w)
  <2>1. Idle \in Job /\ Idle.pc = "idle"
    BY DEF Idle, Job
  <2>2. spent' \in [redeliveries: Nat, crashes: Nat, edits: Nat]
    BY <1>6, <1>b DEF Abort, Deadlock
  <2> QED
    BY <1>6, <2>1, <2>2, JobType DEF Abort, Deadlock
<1> QED
  BY <1>1, <1>2, <1>3, <1>4, <1>5, <1>6 DEF JobStep

LEMMA InitType == Init => TypeOK
<1> SUFFICES ASSUME Init PROVE TypeOK
  OBVIOUS
<1>1. Idle \in Job /\ Idle.pc = "idle"
  BY DEF Idle, Job
<1>2. prRow \in [Tenants -> [PRs -> Row]]
  BY ConstantsOK DEF Init, NoRow, Row
<1>3. log \in Seq(Payload)
  BY DEF Init
<1>4. pull \in [PRs -> PRState]
  BY ConstantsOK DEF Init, PRState
<1>5. source \in [Tenants -> Sources \cup {"none"}] /\ class \in [Tenants -> [Environments -> Classes]]
  BY DEF Init, Sources, Classes
<1> QED
  BY <1>1, <1>2, <1>3, <1>4, <1>5 DEF Init, TypeOK, PRState

LEMMA NextType == TypeOK /\ [Next]_vars => TypeOK'
<1> SUFFICES ASSUME TypeOK, [Next]_vars PROVE TypeOK'
  OBVIOUS
<1>1. CASE UNCHANGED vars
  BY <1>1 DEF vars, github, settings, shipped, TypeOK, Delivery
<1>2. ASSUME NEW i \in DOMAIN log, Redeliver(i) PROVE TypeOK'
  <2>1. spent \in [redeliveries: Nat, crashes: Nat, edits: Nat]
    BY DEF TypeOK
  <2>2. spent' \in [redeliveries: Nat, crashes: Nat, edits: Nat]
    BY <1>2, <2>1 DEF Redeliver
  <2> QED
    BY <1>2, <2>2 DEF Redeliver, TypeOK, github, settings, shipped
<1>3. ASSUME NEW i \in DOMAIN log, SkipShipment(i) PROVE TypeOK'
  BY <1>3 DEF SkipShipment, TypeOK, github, settings, shipped
<1> QED
  BY <1>1, <1>2, <1>3, ConstantsOK, GitHubType, EditType, PullRequestType, BeginType,
     JobStepType DEF Next, HandleDelivery

\* Every variable keeps the type the tables and tasks give it.
THEOREM TypeCorrect == Spec => []TypeOK
  BY InitType, NextType, PTL DEF Spec
-----------------------------------------------------------------------------
(***************************************************************************)
(* Merge times: payloads and rows never tell a merge GitHub does not have. *)
(***************************************************************************)
MergeInv == TypeOK /\ MergesAreFinal /\ PayloadsTellTheMerge /\ RowsTellTheMerge

\* What every GitHub step does to merges: none is taken back, and the payload
\* tells the merge time that GitHub has after the step.
MergesKept ==
  /\ MergesAreFinal'
  /\ \A p \in PRs : pull[p].mergedAt # 0 => pull'[p].mergedAt = pull[p].mergedAt
  /\ \E m \in Payload :
       /\ Emit(m)
       /\ m.event = "pull_request" =>
            m.pr \in PRs /\ m.mergedAt = pull'[m.pr].mergedAt
  /\ UNCHANGED <<settled, source, class, prRow, events, attributed, job, spent>>

LEMMA EmitPRMerge ==
  ASSUME TypeOK, MergesAreFinal, NEW p \in PRs, NEW pr \in PRState, NEW kind,
         NEW action \in HandledPRActions \cup {"edited"},
         EmitPR(kind, action, p, pr),
         pull[p].state # "merged",
         pr.mergedAt # 0 => pr.state = "merged"
  PROVE  MergesKept
<1> DEFINE m == [event |-> "pull_request", action |-> action, pr |-> p, base |-> pr.base,
                 draft |-> pr.draft, mergedAt |-> pr.mergedAt, closedAt |-> pr.closedAt]
<1>1. m \in Payload
  BY DEF Payload, PullRequestPayload, PRState
<1>2. /\ Emit(m) /\ pull' = [pull EXCEPT ![p] = pr]
      /\ UNCHANGED <<settled, source, class, prRow, events, attributed, job, spent>>
  BY DEF EmitPR, settings, shipped
<1>3. pull \in [PRs -> PRState]
  BY DEF TypeOK, PRState
<1>4. m.pr = p /\ m.mergedAt = pr.mergedAt
  OBVIOUS
<1> HIDE DEF m
<1>5. pull[p].mergedAt = 0
  BY DEF MergesAreFinal
<1>6. MergesAreFinal' /\ m.mergedAt = pull'[m.pr].mergedAt
  BY <1>2, <1>3, <1>4 DEF MergesAreFinal
<1>7. \A q \in PRs : pull[q].mergedAt # 0 => pull'[q].mergedAt = pull[q].mergedAt
  BY <1>2, <1>3, <1>5
<1> QED
  BY <1>1, <1>2, <1>4, <1>6, <1>7 DEF MergesKept

LEMMA GitHubMerge ==
  ASSUME TypeOK, MergesAreFinal, GitHubStep, ConstantsOK
  PROVE  MergesKept
<1>a. now' \in Nat
  BY GitHubType DEF TypeOK
<1>b. pull \in [PRs -> PRState]
  BY DEF TypeOK, PRState
<1>c. \A p \in PRs : pull[p].state # "merged" => pull[p].mergedAt = 0
  BY DEF MergesAreFinal
<1>1. ASSUME NEW p \in PRs, OpenPR(p) PROVE MergesKept
  <2>1. PICK b \in Branches :
          EmitPR("opened", "opened", p, [pull[p] EXCEPT !.state = "open", !.base = b])
    BY Zenon, <1>1 DEF OpenPR
  <2> DEFINE pr == [pull[p] EXCEPT !.state = "open", !.base = b]
  <2>2. pr \in PRState /\ pr.mergedAt = 0 /\ pull[p].state # "merged"
    BY <1>b, <1>c, <1>1 DEF PRState, OpenPR
  <2>3. EmitPR("opened", "opened", p, pr)
    BY <2>1
  <2> HIDE DEF pr
  <2> QED
    BY <2>2, <2>3, EmitPRMerge DEF HandledPRActions
<1>2. ASSUME NEW p \in PRs, ClosePR(p) PROVE MergesKept
  <2> DEFINE pr == [pull[p] EXCEPT !.state = "closed", !.closedAt = now']
  <2>2. pr \in PRState /\ pr.mergedAt = 0 /\ pull[p].state # "merged"
    BY <1>a, <1>b, <1>c, <1>2 DEF PRState, ClosePR
  <2>3. EmitPR("closed", "closed", p, pr)
    BY <1>2 DEF ClosePR
  <2> HIDE DEF pr
  <2> QED
    BY <2>2, <2>3, EmitPRMerge DEF HandledPRActions
<1>3. ASSUME NEW p \in PRs, ReopenPR(p) PROVE MergesKept
  <2> DEFINE pr == [pull[p] EXCEPT !.state = "open", !.closedAt = 0]
  <2>2. pr \in PRState /\ pr.mergedAt = 0 /\ pull[p].state # "merged"
    BY <1>b, <1>c, <1>3 DEF PRState, ReopenPR
  <2>3. EmitPR("reopened", "reopened", p, pr)
    BY <1>3 DEF ReopenPR
  <2> HIDE DEF pr
  <2> QED
    BY <2>2, <2>3, EmitPRMerge DEF HandledPRActions
<1>4. ASSUME NEW p \in PRs, MergePR(p) PROVE MergesKept
  <2> DEFINE pr == [pull[p] EXCEPT !.state = "merged", !.mergedAt = now', !.closedAt = now']
  <2>2. pr \in PRState /\ pr.state = "merged" /\ pull[p].state # "merged"
    BY <1>a, <1>b, <1>4 DEF PRState, MergePR
  <2>3. EmitPR("merged", "closed", p, pr)
    BY <1>4 DEF MergePR
  <2> HIDE DEF pr
  <2> QED
    BY <2>2, <2>3, EmitPRMerge DEF HandledPRActions
<1>5. ASSUME NEW p \in PRs, ToggleDraft(p) PROVE MergesKept
  <2> DEFINE pr == [pull[p] EXCEPT !.draft = ~pull[p].draft]
             kind == IF pull[p].draft THEN "ready_for_review" ELSE "converted_to_draft"
  <2>2. pr \in PRState /\ pr.mergedAt = 0 /\ pull[p].state # "merged"
    BY <1>b, <1>c, <1>5 DEF PRState, ToggleDraft
  <2>3. EmitPR(kind, kind, p, pr) /\ kind \in HandledPRActions
    BY <1>5 DEF ToggleDraft, HandledPRActions
  <2> HIDE DEF pr, kind
  <2> QED
    BY <2>2, <2>3, EmitPRMerge
<1>6. ASSUME NEW p \in PRs, RetargetPR(p) PROVE MergesKept
  <2>1. PICK b \in Branches : EmitPR("edited", "edited", p, [pull[p] EXCEPT !.base = b])
    BY <1>6 DEF RetargetPR
  <2> DEFINE pr == [pull[p] EXCEPT !.base = b]
  <2>2. pr \in PRState /\ pr.mergedAt = 0 /\ pull[p].state # "merged"
    BY <1>b, <1>c, <1>6 DEF PRState, RetargetPR
  <2>3. EmitPR("edited", "edited", p, pr)
    BY <2>1
  <2> HIDE DEF pr
  <2> QED
    BY <2>2, <2>3, EmitPRMerge
<1>7. ASSUME NEW s \in Sources, NEW id \in Ids, NEW env \in Environments, Ship(s, id, env)
      PROVE  MergesKept
  <2>1. PICK ships \in BOOLEAN :
          Emit([event |-> s, id |-> id, env |-> env, ships |-> ships, at |-> now'])
    BY <1>7 DEF Ship
  <2> DEFINE m == [event |-> s, id |-> id, env |-> env, ships |-> ships, at |-> now']
  <2>2. m \in Payload /\ m.event # "pull_request" /\ Emit(m)
    BY <1>a, <2>1 DEF Payload, ShipmentPayload, Sources
  <2> HIDE DEF m
  <2>3. UNCHANGED <<pull, settled, source, class, prRow, events, attributed, job, spent>>
    BY <1>7 DEF Ship, settings, shipped
  <2> QED
    BY <2>2, <2>3 DEF MergesKept, MergesAreFinal
<1> QED
  BY <1>1, <1>2, <1>3, <1>4, <1>5, <1>6, <1>7 DEF GitHubStep

LEMMA MergeInvNext == MergeInv /\ [Next]_vars => MergeInv'
<1> SUFFICES ASSUME MergeInv, [Next]_vars PROVE MergeInv'
  OBVIOUS
<1> USE DEF MergeInv
<1>t. TypeOK'
  BY NextType
<1>1. CASE GitHubStep
  <2>1. MergesKept
    BY <1>1, GitHubMerge, ConstantsOK
  <2>2. PICK m \in Payload :
          /\ Emit(m)
          /\ m.event = "pull_request" => m.pr \in PRs /\ m.mergedAt = pull'[m.pr].mergedAt
    BY <2>1 DEF MergesKept
  <2>3. /\ DOMAIN log' = DOMAIN log \cup {Len(log) + 1}
        /\ \A i \in DOMAIN log : log'[i] = log[i]
        /\ log'[Len(log) + 1] = m
    BY <2>1, <2>2, EmitType DEF MergesKept
  <2>4. \A i \in DOMAIN log : log[i].event = "pull_request" => log[i].pr \in PRs
    BY PayloadKinds DEF TypeOK, PullRequestPayload
  <2>5. PayloadsTellTheMerge'
    BY <2>1, <2>2, <2>3, <2>4 DEF PayloadsTellTheMerge, MergesKept
  <2>6. RowsTellTheMerge'
    BY <2>1 DEF RowsTellTheMerge, MergesKept
  <2> QED
    BY <1>t, <2>1, <2>5, <2>6 DEF MergesKept
<1>2. ASSUME NEW i \in DOMAIN log, HandlePullRequest(i) PROVE MergeInv'
  <2>1. UNCHANGED <<pull, log>>
    BY <1>2 DEF HandlePullRequest, github
  <2>2. log[i].pr \in PRs /\ log[i].event = "pull_request"
    BY <1>2, PayloadKinds DEF HandlePullRequest, TypeOK, PullRequestPayload
  <2>3. \A row : Upsert(row, log[i]).mergedAt # 0
                   => Upsert(row, log[i]).mergedAt = pull[log[i].pr].mergedAt
    BY <1>2, <2>2 DEF Upsert, MergedAtOf, PayloadsTellTheMerge
  <2>4. ASSUME NEW t \in Tenants, NEW p \in PRs
        PROVE  \/ prRow'[t][p] = prRow[t][p]
               \/ p = log[i].pr /\ prRow'[t][p] = Upsert(prRow[t][p], log[i])
    BY <1>2, <2>2 DEF HandlePullRequest, TypeOK
  <2>5. RowsTellTheMerge'
    BY <2>1, <2>3, <2>4 DEF RowsTellTheMerge
  <2> QED
    BY <1>t, <2>1, <2>5 DEF MergesAreFinal, PayloadsTellTheMerge
<1> DEFINE Quiet == UNCHANGED <<pull, log, prRow>>
<1>3. CASE Quiet
  BY <1>t, <1>3 DEF MergesAreFinal, PayloadsTellTheMerge, RowsTellTheMerge
<1>4. ASSUME NEW i \in DOMAIN log, Redeliver(i) \/ SkipShipment(i) PROVE Quiet
  BY <1>4 DEF Redeliver, SkipShipment, github
<1>5. ASSUME EditStep PROVE Quiet
  BY <1>5 DEF EditStep, TrackRepo, UpdateRepo, UpdateEnvironment, Edit, github
<1>6. ASSUME NEW w \in Workers, JobStep(w) \/ Abort(w) PROVE Quiet
  BY Zenon, <1>6 DEF JobStep, Abort, SkipEnvironment, DuplicateShipment, InsertShipment, ReadPrevious,
     AttributePRs, CommitShipment, Deadlock, github
<1>7. ASSUME NEW w \in Workers, NEW i \in DOMAIN log, BeginShipment(w, i) PROVE Quiet
  BY <1>7 DEF BeginShipment, github
<1>8. ASSUME UNCHANGED vars PROVE Quiet
  BY <1>8 DEF vars, github
<1> QED
  BY <1>1, <1>2, <1>3, <1>4, <1>5, <1>6, <1>7, <1>8 DEF Next, HandleDelivery

-----------------------------------------------------------------------------
(***************************************************************************)
(* The unique index: one committed row for each shipment of a workspace.   *)
(***************************************************************************)
LockInv == TypeOK /\ TasksOwnTheirRows /\ KeysAreLocked /\ OneEventPerShipment

LEMMA KeyOfItself == \A e : SameKey(e, e)
  BY DEF SameKey

\* Nothing but the log grows: the locks are where they were.
LEMMA LockFrame ==
  ASSUME LockInv, TypeOK', UNCHANGED <<job, events>>,
         \A i \in DOMAIN log : log'[i] = log[i]
  PROVE  LockInv'
<1>1. TasksOwnTheirRows'
  <2> SUFFICES ASSUME NEW w \in Workers PROVE OwnsItsRows(job[w])'
    BY DEF TasksOwnTheirRows
  <2>1. CASE job[w].pc = "idle"
    <3>1. job[w].newEvents = {}
      BY <2>1 DEF LockInv, TasksOwnTheirRows, OwnsItsRows, Idle
    <3> QED
      BY <2>1, <3>1 DEF LockInv, TasksOwnTheirRows, OwnsItsRows
  <2>2. CASE job[w].pc # "idle"
    <3>1. log'[job[w].delivery] = log[job[w].delivery]
      BY <2>2 DEF LockInv, TypeOK
    <3> QED
      BY <2>2, <3>1 DEF LockInv, TasksOwnTheirRows, OwnsItsRows
  <2> QED
    BY <2>1, <2>2
<1>2. KeysAreLocked' /\ OneEventPerShipment'
  BY DEF LockInv, KeysAreLocked, OneEventPerShipment, HasKey
<1> QED
  BY <1>1, <1>2 DEF LockInv

\* One task moves on without locking a new key.
LEMMA LockJob ==
  ASSUME LockInv, TypeOK', NEW w \in Workers, NEW r,
         job' = [job EXCEPT ![w] = r], UNCHANGED <<log, events>>,
         OwnsItsRows(r), r.newEvents \subseteq job[w].newEvents
  PROVE  LockInv'
<1>1. job \in [Workers -> Job]
  BY DEF LockInv, TypeOK
<1>2. job'[w] = r /\ \A v \in Workers \ {w} : job'[v] = job[v]
  BY <1>1
<1>3. OwnsItsRows(r)'
  BY DEF OwnsItsRows
<1>4. TasksOwnTheirRows'
  BY <1>2, <1>3 DEF LockInv, TasksOwnTheirRows, OwnsItsRows
<1>5. \A v \in Workers : job'[v].newEvents \subseteq job[v].newEvents
  BY <1>2
<1>6. KeysAreLocked'
  BY <1>5 DEF LockInv, KeysAreLocked, HasKey
<1>7. OneEventPerShipment'
  BY DEF LockInv, OneEventPerShipment
<1> QED
  BY <1>4, <1>6, <1>7 DEF LockInv

LEMMA LockInsert ==
  ASSUME LockInv, TypeOK', NEW w \in Workers, NEW t \in Tenants, InsertShipment(w, t)
  PROVE  LockInv'
<1>a. PICK new : new = EventOf(Delivery(w), t)
  OBVIOUS
<1>b. PICK r : r = [job[w] EXCEPT !.pc = "previous", !.tenant = t, !.newEvents = @ \cup {new}]
  OBVIOUS
<1>1. job \in [Workers -> Job] /\ job[w] \in Job
  BY DEF LockInv, TypeOK
<1>2. /\ job[w].pc = "repo" /\ t \in job[w].todo
      /\ CountsIn(Delivery(w), t)
      /\ \A v \in Workers : ~WaitsFor(w, v, t)
      /\ ~HasKey(events, new)
      /\ UNCHANGED <<log, events>>
  BY <1>a DEF InsertShipment, github, shipped
<1>3. job' = [job EXCEPT ![w] = r]
  BY <1>1, <1>a, <1>b DEF InsertShipment
<1>4. job'[w] = r /\ \A v \in Workers \ {w} : job'[v] = job[v]
  BY <1>1, <1>3
<1>5. /\ r.pc = "previous" /\ r.tenant = t /\ r.todo = job[w].todo
      /\ r.newEvents = job[w].newEvents \cup {new} /\ r.delivery = job[w].delivery
  BY <1>1, <1>b DEF Job
<1>6. new.tenant = t /\ new = EventOf(log[r.delivery], new.tenant)
  BY <1>5, <1>a DEF EventOf, Delivery
<1>7. OwnsItsRows(r)'
  BY <1>2, <1>5, <1>6 DEF OwnsItsRows, LockInv, TasksOwnTheirRows
<1>8. TasksOwnTheirRows'
  BY <1>2, <1>4, <1>7 DEF LockInv, TasksOwnTheirRows, OwnsItsRows
<1>9. \A v \in Workers \ {w} : ~HasKey(job[v].newEvents, new)
  BY <1>2, <1>a DEF WaitsFor
<1>10. KeysAreLocked'
  <2> SUFFICES ASSUME NEW v \in Workers, NEW e \in job'[v].newEvents
               PROVE  /\ ~HasKey(events, e)
                      /\ \A u \in Workers \ {v} : ~HasKey(job'[u].newEvents, e)
    BY <1>2 DEF KeysAreLocked, HasKey
  <2>1. CASE v = w
    BY <1>2, <1>4, <1>5, <1>9, <2>1 DEF LockInv, KeysAreLocked
  <2>2. CASE v # w
    <3>1. e \in job[v].newEvents
      BY <1>4, <2>2
    <3>a. ~SameKey(new, e)
      BY <1>9, <2>2, <3>1 DEF HasKey, SameKey
    <3>2. ~HasKey(events, e) /\ \A u \in Workers \ {v} : ~HasKey(job[u].newEvents, e)
      BY <3>1 DEF LockInv, KeysAreLocked
    <3>b. job'[w].newEvents = job[w].newEvents \cup {new} /\ ~HasKey(job[w].newEvents, e)
      BY <1>4, <1>5, <2>2, <3>2
    <3>3. ~HasKey(job'[w].newEvents, e)
      BY <3>a, <3>b DEF HasKey, SameKey
    <3> QED
      BY <1>4, <3>2, <3>3
  <2> QED
    BY <2>1, <2>2
<1>11. OneEventPerShipment'
  BY <1>2 DEF LockInv, OneEventPerShipment
<1> QED
  BY <1>8, <1>10, <1>11 DEF LockInv

LEMMA LockCommit ==
  ASSUME LockInv, TypeOK', NEW w \in Workers, CommitShipment(w)
  PROVE  LockInv'
<1>1. job \in [Workers -> Job]
  BY DEF LockInv, TypeOK
<1>2. /\ log' = log /\ events' = events \cup job[w].newEvents
      /\ job' = [job EXCEPT ![w] = Idle]
  BY DEF CommitShipment, github
<1>3. /\ job'[w].pc = "idle" /\ job'[w] = Idle /\ job'[w].newEvents = {}
      /\ \A v \in Workers \ {w} : job'[v] = job[v]
  BY <1>1, <1>2 DEF Idle
<1>4. TasksOwnTheirRows'
  BY <1>2, <1>3 DEF LockInv, TasksOwnTheirRows, OwnsItsRows
<1>5. KeysAreLocked'
  <2> SUFFICES ASSUME NEW v \in Workers, NEW e \in job'[v].newEvents
               PROVE  /\ ~HasKey(events', e)
                      /\ \A u \in Workers \ {v} : ~HasKey(job'[u].newEvents, e)
    BY DEF KeysAreLocked, HasKey
  <2>1. v # w /\ e \in job[v].newEvents
    BY <1>3
  <2>2. ~HasKey(events, e) /\ \A u \in Workers \ {v} : ~HasKey(job[u].newEvents, e)
    BY <2>1 DEF LockInv, KeysAreLocked
  <2> QED
    BY <1>2, <1>3, <2>1, <2>2 DEF HasKey
<1>6. OneEventPerShipment'
  <2> SUFFICES ASSUME NEW e \in events', NEW f \in events', SameKey(e, f) PROVE e = f
    BY DEF OneEventPerShipment
  <2>1. CASE e \in job[w].newEvents /\ f \in job[w].newEvents
    <3>1. /\ e = EventOf(log[job[w].delivery], e.tenant)
          /\ f = EventOf(log[job[w].delivery], f.tenant)
      BY <2>1 DEF LockInv, TasksOwnTheirRows, OwnsItsRows
    <3> QED
      BY <3>1 DEF SameKey
  <2>2. CASE e \in events /\ f \in events
    BY <2>2 DEF LockInv, OneEventPerShipment
  <2>3. CASE e \in job[w].newEvents /\ f \in events
    BY <2>3 DEF LockInv, KeysAreLocked, HasKey, SameKey
  <2>4. CASE e \in events /\ f \in job[w].newEvents
    BY <2>4 DEF LockInv, KeysAreLocked, HasKey, SameKey
  <2> QED
    BY <1>2, <2>1, <2>2, <2>3, <2>4
<1> QED
  BY <1>4, <1>5, <1>6 DEF LockInv

LEMMA LockTask ==
  ASSUME LockInv, TypeOK', NEW w \in Workers, JobStep(w) \/ Abort(w)
  PROVE  LockInv'
<1>1. job \in [Workers -> Job] /\ job[w] \in Job /\ OwnsItsRows(job[w])
  BY DEF LockInv, TypeOK, TasksOwnTheirRows
<1>2. ASSUME NEW t \in Tenants, SkipEnvironment(w, t) \/ DuplicateShipment(w, t)
      PROVE  LockInv'
  <2> DEFINE r == [job[w] EXCEPT !.todo = @ \ {t}]
  <2>1. job' = [job EXCEPT ![w] = r] /\ UNCHANGED <<log, events>> /\ job[w].pc = "repo"
    BY <1>1, <1>2 DEF SkipEnvironment, DuplicateShipment, PassOver, github, shipped
  <2>2. /\ r.pc = job[w].pc /\ r.todo = job[w].todo \ {t} /\ r.newEvents = job[w].newEvents
        /\ r.delivery = job[w].delivery
    BY <1>1 DEF Job
  <2> HIDE DEF r
  <2>3. OwnsItsRows(r)
    BY <1>1, <2>1, <2>2 DEF OwnsItsRows
  <2> QED
    BY <2>1, <2>2, <2>3, LockJob
<1>3. CASE ReadPrevious(w)
  <2>1. PICK start : job' = [job EXCEPT ![w].pc = "attribute", ![w].windowStart = start]
    BY <1>3 DEF ReadPrevious
  <2> DEFINE r == [job[w] EXCEPT !.pc = "attribute", !.windowStart = start]
  <2>2. /\ job' = [job EXCEPT ![w] = r] /\ UNCHANGED <<log, events>> /\ job[w].pc = "previous"
    BY Zenon, <1>1, <1>3, <2>1 DEF ReadPrevious, github, shipped
  <2>3. /\ r.pc = "attribute" /\ r.todo = job[w].todo /\ r.newEvents = job[w].newEvents
        /\ r.tenant = job[w].tenant /\ r.delivery = job[w].delivery
    BY <1>1 DEF Job
  <2> HIDE DEF r
  <2>4. OwnsItsRows(r)
    BY <1>1, <2>2, <2>3 DEF OwnsItsRows
  <2> QED
    BY <2>2, <2>3, <2>4, LockJob
<1>4. CASE AttributePRs(w)
  <2> DEFINE new == {[event |-> EventOf(Delivery(w), job[w].tenant), pr |-> p] :
                       p \in MergedInWindow(w)}
             r == [job[w] EXCEPT !.pc = "repo", !.todo = @ \ {job[w].tenant},
                                 !.tenant = "none", !.windowStart = 0,
                                 !.newAttributed = @ \cup new]
  <2>1. job' = [job EXCEPT ![w] = r] /\ UNCHANGED <<log, events>>
    BY <1>1, <1>4 DEF AttributePRs, github, shipped
  <2>2. job[w].pc = "attribute"
    BY <1>4 DEF AttributePRs
  <2> HIDE DEF new
  <2>3. /\ r.pc = "repo" /\ r.todo = job[w].todo \ {job[w].tenant}
        /\ r.newEvents = job[w].newEvents /\ r.delivery = job[w].delivery
    BY <1>1 DEF Job
  <2> HIDE DEF r
  <2>4. OwnsItsRows(r)
    BY <1>1, <2>2, <2>3 DEF OwnsItsRows
  <2> QED
    BY <2>1, <2>3, <2>4, LockJob
<1>5. CASE Abort(w) \/ Deadlock(w)
  <2>1. job' = [job EXCEPT ![w] = Idle] /\ UNCHANGED <<log, events>>
    BY <1>5 DEF Abort, Deadlock, github, shipped
  <2>2. OwnsItsRows(Idle) /\ Idle.newEvents = {}
    BY DEF OwnsItsRows, Idle
  <2> QED
    BY <2>1, <2>2, LockJob
<1> QED
  BY <1>2, <1>3, <1>4, <1>5, LockInsert, LockCommit DEF JobStep

LEMMA LockInvNext == LockInv /\ [Next]_vars => LockInv'
<1> SUFFICES ASSUME LockInv, [Next]_vars PROVE LockInv'
  OBVIOUS
<1>t. TypeOK /\ TypeOK'
  BY NextType DEF LockInv
<1>1. CASE GitHubStep
  <2>1. UNCHANGED <<job, events>>
    BY Zenon, <1>1 DEF GitHubStep, OpenPR, ClosePR, ReopenPR, MergePR, ToggleDraft, RetargetPR, Ship,
       EmitPR, shipped
  <2>2. \E m : log' = Append(log, m) /\ log' \in Seq(Payload) /\ log \in Seq(Payload)
    BY Zenon, <1>1, <1>t DEF GitHubStep, OpenPR, ClosePR, ReopenPR, MergePR, ToggleDraft, RetargetPR,
       Ship, EmitPR, Emit, TypeOK
  <2>3. \A i \in DOMAIN log : log'[i] = log[i]
    BY <2>2
  <2> QED
    BY <1>t, <2>1, <2>3, LockFrame
<1> DEFINE Quiet == UNCHANGED <<log, job, events>>
<1>2. CASE Quiet
  BY <1>t, <1>2, LockFrame
<1>3. ASSUME NEW i \in DOMAIN log, Redeliver(i) \/ SkipShipment(i) \/ HandlePullRequest(i)
      PROVE  Quiet
  BY <1>3 DEF Redeliver, SkipShipment, HandlePullRequest, github, shipped
<1>4. ASSUME EditStep \/ UNCHANGED vars PROVE Quiet
  BY <1>4 DEF EditStep, TrackRepo, UpdateRepo, UpdateEnvironment, Edit, vars, github, shipped
<1>5. ASSUME NEW w \in Workers, NEW i \in DOMAIN log, BeginShipment(w, i) PROVE LockInv'
  <2> DEFINE r == [Idle EXCEPT !.pc = "repo", !.delivery = i,
                               !.todo = {t \in Tenants : source[t] = log[i].event}]
  <2>1. job' = [job EXCEPT ![w] = r] /\ UNCHANGED <<log, events>>
    BY <1>5 DEF BeginShipment, github, shipped
  <2>2. r.pc = "repo" /\ r.newEvents = {}
    BY DEF Idle
  <2> HIDE DEF r
  <2>3. OwnsItsRows(r)
    BY <2>2 DEF OwnsItsRows
  <2> QED
    BY <1>t, <2>1, <2>2, <2>3, LockJob
<1>6. ASSUME NEW w \in Workers, JobStep(w) \/ Abort(w) PROVE LockInv'
  BY <1>t, <1>6, LockTask
<1> QED
  BY <1>1, <1>2, <1>3, <1>4, <1>5, <1>6 DEF Next, HandleDelivery

-----------------------------------------------------------------------------
(***************************************************************************)
(* Attribution rests on both: what a task reads from the rows is a real    *)
(* merge, and the shipment it attributes to is a row of its own.           *)
(***************************************************************************)
\* A stored row stays, on the branch it was first stored with.
LEMMA RowsStay ==
  ASSUME TypeOK, [Next]_vars, NEW t \in Tenants, NEW p \in PRs, prRow[t][p].known
  PROVE  prRow'[t][p].known /\ prRow'[t][p].base = prRow[t][p].base
<1>1. ASSUME NEW i \in DOMAIN log, HandlePullRequest(i)
      PROVE  prRow'[t][p].known /\ prRow'[t][p].base = prRow[t][p].base
  <2>1. \/ prRow'[t][p] = prRow[t][p]
        \/ prRow'[t][p] = Upsert(prRow[t][p], log[i])
    BY <1>1 DEF HandlePullRequest, TypeOK
  <2> QED
    BY <2>1 DEF Upsert
<1> DEFINE Quiet == UNCHANGED prRow
<1>2. ASSUME GitHubStep \/ EditStep \/ UNCHANGED vars PROVE Quiet
  BY Zenon, <1>2 DEF GitHubStep, OpenPR, ClosePR, ReopenPR, MergePR, ToggleDraft, RetargetPR, Ship,
     EmitPR, EditStep, TrackRepo, UpdateRepo, UpdateEnvironment, Edit, vars
<1>3. ASSUME NEW i \in DOMAIN log, NEW w \in Workers,
             Redeliver(i) \/ SkipShipment(i) \/ BeginShipment(w, i)
      PROVE  Quiet
  BY <1>3 DEF Redeliver, SkipShipment, BeginShipment
<1>4. ASSUME NEW w \in Workers, JobStep(w) \/ Abort(w) PROVE Quiet
  BY Zenon, <1>4 DEF JobStep, Abort, SkipEnvironment, DuplicateShipment, InsertShipment, ReadPrevious,
     AttributePRs, CommitShipment, Deadlock
<1>5. ASSUME NEW i \in DOMAIN log, Redeliver(i) \/ SkipShipment(i) PROVE Quiet
  BY <1>5 DEF Redeliver, SkipShipment
<1> QED
  BY <1>1, <1>2, <1>3, <1>4, <1>5 DEF Next, HandleDelivery

\* A merge GitHub has stays, at its time.
LEMMA MergesStay ==
  ASSUME TypeOK, MergesAreFinal, [Next]_vars, NEW p \in PRs, pull[p].mergedAt # 0
  PROVE  pull'[p].mergedAt = pull[p].mergedAt
<1>1. CASE GitHubStep
  BY <1>1, GitHubMerge, ConstantsOK DEF MergesKept
<1> DEFINE Quiet == UNCHANGED pull
<1>2. ASSUME NEW i \in DOMAIN log, Redeliver(i) \/ SkipShipment(i) \/ HandlePullRequest(i)
      PROVE  Quiet
  BY <1>2 DEF Redeliver, SkipShipment, HandlePullRequest, github
<1>3. ASSUME EditStep \/ UNCHANGED vars PROVE Quiet
  BY <1>3 DEF EditStep, TrackRepo, UpdateRepo, UpdateEnvironment, Edit, vars, github
<1>4. ASSUME NEW w \in Workers, JobStep(w) \/ Abort(w) PROVE Quiet
  BY Zenon, <1>4 DEF JobStep, Abort, SkipEnvironment, DuplicateShipment, InsertShipment, ReadPrevious,
     AttributePRs, CommitShipment, Deadlock, github
<1>5. ASSUME NEW w \in Workers, NEW i \in DOMAIN log, BeginShipment(w, i) PROVE Quiet
  BY <1>5 DEF BeginShipment, github
<1> QED
  BY <1>1, <1>2, <1>3, <1>4, <1>5 DEF Next, HandleDelivery

LEMMA WasMergedStays ==
  ASSUME TypeOK, MergesAreFinal, [Next]_vars, NEW a \in Attribution, WasMerged(a)
  PROVE  WasMerged(a)'
<1>1. a.pr \in PRs /\ a.event.tenant \in Tenants
  BY DEF Attribution, Event
<1>2. pull'[a.pr].mergedAt = pull[a.pr].mergedAt
  BY <1>1, MergesStay DEF WasMerged, TypeOK
<1>3. /\ prRow'[a.event.tenant][a.pr].known
      /\ prRow'[a.event.tenant][a.pr].base = DefaultBranch
  BY <1>1, RowsStay DEF WasMerged
<1> QED
  BY <1>2, <1>3 DEF WasMerged

\* What AttributePRs reads from the rows are merges GitHub has.
LEMMA WindowHoldsMerges ==
  ASSUME MergeInv, LockInv, NEW w \in Workers, job[w].pc = "attribute",
         NEW p \in MergedInWindow(w)
  PROVE  LET a == [event |-> EventOf(Delivery(w), job[w].tenant), pr |-> p]
         IN  a.event \in job[w].newEvents /\ WasMerged(a)
<1>1. p \in PRs /\ job[w].tenant \in Tenants
  BY DEF MergedInWindow, LockInv, TypeOK, Job
<1>2. EventOf(Delivery(w), job[w].tenant) \in job[w].newEvents
  BY DEF LockInv, TasksOwnTheirRows, OwnsItsRows, Delivery
<1> DEFINE row == prRow[job[w].tenant][p]
<1>3. /\ row.known /\ row.base = DefaultBranch /\ row.mergedAt # 0
      /\ row.mergedAt <= Delivery(w).at
  BY DEF MergedInWindow
<1>4. row.mergedAt \in Nat /\ row.mergedAt = pull[p].mergedAt
  BY <1>1, <1>3 DEF MergeInv, RowsTellTheMerge, TypeOK, Row
<1> QED
  BY <1>2, <1>3, <1>4 DEF WasMerged, EventOf

AttributionInv == MergeInv /\ LockInv /\ PendingAttributions /\ AttributedWasMerged

LEMMA PendingNext == AttributionInv /\ [Next]_vars => PendingAttributions'
<1> SUFFICES ASSUME AttributionInv, [Next]_vars,
                    NEW w \in Workers, NEW a \in job'[w].newAttributed
             PROVE  a.event \in job'[w].newEvents /\ WasMerged(a)'
  BY DEF PendingAttributions, WasMerged
<1>a. TypeOK /\ MergesAreFinal /\ job[w] \in Job /\ job \in [Workers -> Job]
  BY DEF AttributionInv, MergeInv, TypeOK
<1> DEFINE Kept == /\ job'[w].newAttributed \subseteq job[w].newAttributed
                   /\ job[w].newEvents \subseteq job'[w].newEvents
           Emptied == job'[w].newAttributed = {}
<1>1. CASE Kept
  <2>1. a \in Attribution /\ a.event \in job'[w].newEvents /\ WasMerged(a)
    BY <1>a, <1>1 DEF AttributionInv, PendingAttributions, Job
  <2> QED
    BY <1>a, <2>1, WasMergedStays
<1>2. CASE UNCHANGED job
  BY <1>1, <1>2
<1>3. ASSUME NEW v \in Workers, AttributePRs(v)
      PROVE  a.event \in job'[w].newEvents /\ WasMerged(a)'
  <2>1. CASE w # v
    BY <1>1, <1>3, <1>a, <2>1 DEF AttributePRs
  <2>2. CASE w = v /\ a \notin job[w].newAttributed
    <3>1. PICK p \in MergedInWindow(w) :
            a = [event |-> EventOf(Delivery(w), job[w].tenant), pr |-> p]
      BY <1>3, <1>a, <2>2 DEF AttributePRs, Job
    <3>2. a.event \in job[w].newEvents /\ WasMerged(a)
      BY <1>3, <2>2, <3>1, WindowHoldsMerges DEF AttributePRs, AttributionInv
    <3>3. a \in Attribution
      BY <1>a, <3>1, <3>2 DEF Attribution, Job, MergedInWindow
    <3>4. job'[w].newEvents = job[w].newEvents
      BY <1>3, <1>a, <2>2 DEF AttributePRs, Job
    <3> QED
      BY <1>a, <3>2, <3>3, <3>4, WasMergedStays
  <2>3. CASE w = v /\ a \in job[w].newAttributed
    <3>1. job'[w].newEvents = job[w].newEvents
      BY <1>3, <1>a, <2>3 DEF AttributePRs, Job
    <3>2. a \in Attribution /\ a.event \in job[w].newEvents /\ WasMerged(a)
      BY <1>a, <2>3 DEF AttributionInv, PendingAttributions, Job
    <3> QED
      BY <1>a, <3>1, <3>2, WasMergedStays
  <2> QED
    BY <2>1, <2>2, <2>3
<1>4. ASSUME NEW v \in Workers, NEW t \in Tenants,
             SkipEnvironment(v, t) \/ DuplicateShipment(v, t) \/ InsertShipment(v, t)
      PROVE  Kept
  BY <1>4, <1>a DEF SkipEnvironment, DuplicateShipment, InsertShipment, PassOver, Job
<1>5. ASSUME NEW v \in Workers, ReadPrevious(v) PROVE Kept
  BY <1>5, <1>a DEF ReadPrevious, Job
<1>6. ASSUME NEW v \in Workers, CommitShipment(v) \/ Abort(v) \/ Deadlock(v)
      PROVE  Kept \/ Emptied
  BY <1>6, <1>a DEF CommitShipment, Abort, Deadlock, Idle
<1>7. ASSUME NEW v \in Workers, NEW i \in DOMAIN log, BeginShipment(v, i)
      PROVE  Kept \/ Emptied
  BY <1>7, <1>a DEF BeginShipment, Idle
<1>8. ASSUME NEW i \in DOMAIN log, Redeliver(i) \/ SkipShipment(i) \/ HandlePullRequest(i)
      PROVE  UNCHANGED job
  BY <1>8 DEF Redeliver, SkipShipment, HandlePullRequest
<1>9. ASSUME GitHubStep \/ EditStep \/ UNCHANGED vars PROVE UNCHANGED job
  BY Zenon, <1>9 DEF GitHubStep, OpenPR, ClosePR, ReopenPR, MergePR, ToggleDraft, RetargetPR, Ship,
     EmitPR, EditStep, TrackRepo, UpdateRepo, UpdateEnvironment, Edit, vars
<1>10. ~Emptied
  OBVIOUS
<1> QED
  BY <1>1, <1>2, <1>3, <1>4, <1>5, <1>6, <1>7, <1>8, <1>9, <1>10
     DEF Next, HandleDelivery, JobStep

\* Only CommitShipment writes the two tables, and it writes one task's rows.
LEMMA CommitsOnly ==
  ASSUME [Next]_vars
  PROVE  \/ UNCHANGED <<events, attributed>>
         \/ \E w \in Workers : /\ events' = events \cup job[w].newEvents
                               /\ attributed' = attributed \cup job[w].newAttributed
<1> DEFINE Quiet == UNCHANGED <<events, attributed>>
<1>1. ASSUME GitHubStep \/ EditStep \/ UNCHANGED vars PROVE Quiet
  BY Zenon, <1>1 DEF GitHubStep, OpenPR, ClosePR, ReopenPR, MergePR, ToggleDraft, RetargetPR, Ship,
     EmitPR, EditStep, TrackRepo, UpdateRepo, UpdateEnvironment, Edit, vars, shipped
<1>2. ASSUME NEW i \in DOMAIN log, Redeliver(i) \/ SkipShipment(i) \/ HandlePullRequest(i)
      PROVE  Quiet
  BY <1>2 DEF Redeliver, SkipShipment, HandlePullRequest, shipped
<1>3. ASSUME NEW i \in DOMAIN log, NEW w \in Workers, BeginShipment(w, i) PROVE Quiet
  BY <1>3 DEF BeginShipment, shipped
<1>4. ASSUME NEW w \in Workers, JobStep(w) \/ Abort(w), ~CommitShipment(w) PROVE Quiet
  BY Zenon, <1>4 DEF JobStep, Abort, SkipEnvironment, DuplicateShipment, InsertShipment, ReadPrevious,
     AttributePRs, Deadlock, shipped
<1> QED
  BY <1>1, <1>2, <1>3, <1>4 DEF Next, HandleDelivery, CommitShipment

LEMMA AttributedNext == AttributionInv /\ [Next]_vars => AttributedWasMerged'
<1> SUFFICES ASSUME AttributionInv, [Next]_vars, NEW a \in attributed'
             PROVE  a.event \in events' /\ WasMerged(a)'
  BY DEF AttributedWasMerged, WasMerged
<1>1. TypeOK /\ MergesAreFinal
  BY DEF AttributionInv, MergeInv
<1>2. CASE a \in attributed
  <2>1. a \in Attribution /\ a.event \in events /\ WasMerged(a)
    BY <1>1, <1>2 DEF AttributionInv, AttributedWasMerged, WasMerged, TypeOK
  <2> QED
    BY <1>1, <2>1, CommitsOnly, WasMergedStays
<1>3. CASE a \notin attributed
  <2>1. PICK w \in Workers : a \in job[w].newAttributed /\ events' = events \cup job[w].newEvents
    BY <1>3, CommitsOnly
  <2>2. a \in Attribution /\ a.event \in job[w].newEvents /\ WasMerged(a)
    BY <1>1, <2>1 DEF AttributionInv, PendingAttributions, TypeOK, Job
  <2> QED
    BY <1>1, <2>1, <2>2, WasMergedStays
<1> QED
  BY <1>2, <1>3

LEMMA AttributionInvInit == Init => AttributionInv
<1> SUFFICES ASSUME Init PROVE AttributionInv
  OBVIOUS
<1>1. TypeOK
  BY InitType
<1>2. MergeInv
  BY <1>1 DEF Init, MergeInv, MergesAreFinal, PayloadsTellTheMerge, RowsTellTheMerge, NoRow
<1>3. \A w \in Workers : job[w] = Idle
  BY DEF Init
<1>4. \A w \in Workers : /\ job[w].pc = "idle" /\ job[w].newEvents = {}
                         /\ job[w].newAttributed = {}
  BY <1>3 DEF Idle
<1>5. LockInv
  BY <1>1, <1>3, <1>4 DEF Init, LockInv, TasksOwnTheirRows, OwnsItsRows, KeysAreLocked,
     OneEventPerShipment
<1>6. PendingAttributions /\ AttributedWasMerged
  BY <1>4 DEF Init, PendingAttributions, AttributedWasMerged
<1> QED
  BY <1>2, <1>5, <1>6 DEF AttributionInv

\* The inductive invariant of webhook ingest.
THEOREM Invariance == Spec => []AttributionInv
<1>1. AttributionInv /\ [Next]_vars => AttributionInv'
  BY MergeInvNext, LockInvNext, PendingNext, AttributedNext DEF AttributionInv
<1> QED
  BY <1>1, AttributionInvInit, PTL DEF Spec

\* A workspace never counts a shipment twice, for any number of concurrent,
\* repeated and crossing deliveries.
THEOREM ShipmentCountedOnce == Spec => []OneEventPerShipment
<1>1. AttributionInv => OneEventPerShipment
  BY DEF AttributionInv, LockInv
<1> QED
  BY <1>1, Invariance, PTL

\* An attribution always names a pull request that GitHub had merged by the
\* time of the shipment, whatever stale payloads arrived in between.
THEOREM AttributionIsSound == Spec => []AttributedWasMerged
<1>1. AttributionInv => AttributedWasMerged
  BY DEF AttributionInv
<1> QED
  BY <1>1, Invariance, PTL

\* A recorded shipment gains and loses no attribution afterwards.
THEOREM AttributionSettled == Spec => AttributionIsFinal
<1> DEFINE A == /\ attributed \subseteq attributed'
                /\ \A a \in attributed' : a.event \in events => a \in attributed
<1>1. AttributionInv /\ [Next]_vars => [A]_vars
  <2> SUFFICES ASSUME AttributionInv, [Next]_vars PROVE A
    OBVIOUS
  <2>1. attributed \subseteq attributed'
    BY CommitsOnly
  <2>2. ASSUME NEW a \in attributed', a.event \in events, a \notin attributed PROVE FALSE
    <3>1. PICK w \in Workers : a \in job[w].newAttributed
      BY <2>2, CommitsOnly
    <3>2. a.event \in job[w].newEvents /\ ~HasKey(events, a.event)
      BY <3>1 DEF AttributionInv, PendingAttributions, LockInv, KeysAreLocked
    <3> QED
      BY <2>2, <3>2, KeyOfItself DEF HasKey
  <2> QED
    BY <2>1, <2>2
<1> QED
  BY <1>1, Invariance, PTL DEF Spec, AttributionIsFinal
=============================================================================
