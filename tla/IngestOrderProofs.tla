------------------------- MODULE IngestOrderProofs --------------------------
(***************************************************************************)
(* Proofs about deliveries handled in the order of the events, for any     *)
(* number of workspaces, pull requests and tasks: the rows mirror GitHub,  *)
(* and, when no two events share a time, attribution implements the        *)
(* abstract ledger.                                                        *)
(***************************************************************************)
EXTENDS IngestProofs

\* What waits is the newest part of the log.
QueueIsLatest ==
  \A i \in queue : \A j \in DOMAIN log : i < j => j \in queue

Busy(w) == job[w].pc # "idle"

\* While a task works, nothing newer than its delivery has been handled.
OneAtATime ==
  \A w \in Workers : Busy(w) =>
    /\ \A v \in Workers \ {w} : ~Busy(v)
    /\ \A i \in DOMAIN log : i \in queue <=> job[w].delivery < i

\* m is a payload that the handler stores in the rows of p.
Tells(m, p) ==
  m.event = "pull_request" /\ m.action \in HandledPRActions /\ m.pr = p

Mirrors(row, p) ==
  /\ row.mergedAt = pull[p].mergedAt
  /\ row.draft = pull[p].draft
  /\ row.closedAt = IF pull[p].state = "closed" THEN pull[p].closedAt ELSE 0

Told(m) == Upsert(NoRow, m)

\* The newest payload about a pull request tells its state on GitHub.
LastPayloadMirrors ==
  \A p \in PRs : \A i \in DOMAIN log :
    /\ Tells(log[i], p)
    /\ \A j \in DOMAIN log : i < j => ~Tells(log[j], p)
    => Mirrors(Told(log[i]), p)

SameState(row, told) ==
  row.mergedAt = told.mergedAt /\ row.draft = told.draft /\ row.closedAt = told.closedAt

\* A row of p stores payload i, the newest about p that was handled.
Stores(row, p, i) ==
  /\ i \in DOMAIN log \ queue
  /\ Tells(log[i], p)
  /\ SameState(row, Told(log[i]))
  /\ \A j \in DOMAIN log : i < j /\ Tells(log[j], p) => j \in queue

RowsFollow ==
  \A t \in Tenants, p \in PRs : prRow[t][p].known =>
    source[t] # "none" /\ \E i \in DOMAIN log : Stores(prRow[t][p], p, i)

OrderInv ==
  AttributionInv /\ now > 0 /\ QueueIsLatest /\ OneAtATime /\ LastPayloadMirrors /\ RowsFollow

-----------------------------------------------------------------------------
(***************************************************************************)
(* What GitHub announces: each step sends one payload m, of its time, and  *)
(* a handled payload tells all that changed about its pull request.        *)
(***************************************************************************)
MirroredFields(p) ==
  <<pull[p].state, pull[p].mergedAt, pull[p].closedAt, pull[p].draft>>

AnnouncesPR(m) ==
  /\ m.pr \in PRs /\ pull[m.pr].mergedAt = 0 /\ m.mergedAt \in {0, now'}
  /\ \A q \in PRs \ {m.pr} : pull'[q] = pull[q]
  /\ Tells(m, m.pr) => Mirrors(Told(m), m.pr)'
  /\ ~Tells(m, m.pr) => UNCHANGED MirroredFields(m.pr)

Announced(m) ==
  /\ Advance /\ Emit(m)
  /\ m.event = "pull_request" => AnnouncesPR(m)
  /\ m.event \in Sources => m.at = now' /\ UNCHANGED pull
  /\ UNCHANGED <<settled, source, class, prRow, events, attributed, job, spent>>

LEMMA EmitPRAnnounces ==
  ASSUME TypeOK, NEW p \in PRs, NEW pr \in PRState, NEW kind,
         NEW action \in HandledPRActions \cup {"edited"},
         EmitPR(kind, action, p, pr), Advance,
         pull[p].mergedAt = 0, pr.mergedAt \in {0, now'},
         action = "reopened" => pr.mergedAt = 0,
         action = "closed" => pr.state = (IF pr.mergedAt = 0 THEN "closed" ELSE "merged"),
         action \notin {"closed", "edited"} => pr.state # "closed",
         action = "converted_to_draft" => pr.draft = TRUE,
         action = "ready_for_review" => pr.draft = FALSE,
         action = "edited" => /\ pr.state = pull[p].state /\ pr.mergedAt = pull[p].mergedAt
                              /\ pr.closedAt = pull[p].closedAt /\ pr.draft = pull[p].draft
  PROVE  \E m \in Payload : Announced(m)
<1> DEFINE m == [event |-> "pull_request", action |-> action, pr |-> p, base |-> pr.base,
                 draft |-> pr.draft, mergedAt |-> pr.mergedAt, closedAt |-> pr.closedAt]
<1>1. m \in Payload
  BY DEF Payload, PullRequestPayload, PRState
<1>2. /\ Emit(m) /\ pull' = [pull EXCEPT ![p] = pr]
      /\ UNCHANGED <<settled, source, class, prRow, events, attributed, job, spent>>
  BY DEF EmitPR, settings, shipped
<1>3. /\ m.event = "pull_request" /\ m.pr = p /\ m.mergedAt = pr.mergedAt
      /\ m.closedAt = pr.closedAt /\ m.draft = pr.draft /\ m.action = action
  OBVIOUS
<1> HIDE DEF m
<1>4. pull \in [PRs -> PRState] /\ pull' \in [PRs -> PRState]
  BY <1>2 DEF TypeOK, PRState
<1>5. pull'[p] = pr /\ \A q \in PRs \ {p} : pull'[q] = pull[q]
  BY <1>2, <1>4
<1>6. ASSUME action # "edited" PROVE Mirrors(Told(m), p)'
  <2>1. Told(m).mergedAt = pr.mergedAt
    BY <1>3 DEF Told, Upsert, MergedAtOf
  <2>2. Told(m).closedAt = IF pr.state = "closed" THEN pr.closedAt ELSE 0
    BY <1>3, <1>6 DEF Told, Upsert, ClosedAtOf
  <2>3. Told(m).draft = pr.draft
    <3>1. DraftOf(m) <=> pr.draft
      BY <1>3, Zenon DEF DraftOf
    <3>2. pr.draft \in BOOLEAN /\ DraftOf(m) \in BOOLEAN
      BY <1>3 DEF PRState, DraftOf
    <3> QED
      BY <3>1, <3>2, Zenon DEF Told, Upsert
  <2> QED
    BY <1>5, <2>1, <2>2, <2>3 DEF Mirrors
<1>7. ASSUME action = "edited" PROVE UNCHANGED MirroredFields(p)
  BY <1>4, <1>5, <1>7 DEF MirroredFields, PRState
<1>8. AnnouncesPR(m)
  <2>1. Tells(m, m.pr) <=> action # "edited"
    BY <1>3 DEF Tells, HandledPRActions
  <2> QED
    BY <1>3, <1>5, <1>6, <1>7, <2>1 DEF AnnouncesPR
<1>9. m.event \notin Sources
  BY <1>3 DEF Sources
<1> QED
  BY <1>1, <1>2, <1>8, <1>9 DEF Announced

LEMMA GitHubAnnounces ==
  ASSUME TypeOK, MergesAreFinal, now > 0, GitHubStep
  PROVE  \E m \in Payload : Announced(m)
<1>a. now' \in Nat /\ now' > 0 /\ Advance
  <2>1. Advance
    BY Zenon DEF GitHubStep, OpenPR, ClosePR, ReopenPR, MergePR, ToggleDraft, RetargetPR, Ship
  <2> QED
    BY <2>1, ConstantsOK DEF Advance, ConstantsOK, TypeOK
<1>b. \A p \in PRs : pull[p] \in PRState
  BY DEF TypeOK, PRState
<1>c. \A p \in PRs : pull[p].state # "merged" => pull[p].mergedAt = 0
  BY DEF MergesAreFinal
<1> DEFINE Goal == \E m \in Payload : Announced(m)
<1> HIDE DEF Goal
<1>1. ASSUME NEW p \in PRs, OpenPR(p) PROVE Goal
  <2>1. PICK b \in Branches :
          EmitPR("opened", "opened", p, [pull[p] EXCEPT !.state = "open", !.base = b])
    BY Zenon, <1>1 DEF OpenPR
  <2> DEFINE pr == [pull[p] EXCEPT !.state = "open", !.base = b]
  <2>2. pr \in PRState /\ pr.state = "open" /\ pr.mergedAt = 0
    BY <1>1, <1>b, <1>c DEF PRState, OpenPR
  <2>3. EmitPR("opened", "opened", p, pr) /\ pull[p].mergedAt = 0
    BY <1>1, <1>c, <2>1 DEF OpenPR
  <2> HIDE DEF pr
  <2> QED
    BY <1>a, <2>2, <2>3, EmitPRAnnounces DEF HandledPRActions, Goal
<1>2. ASSUME NEW p \in PRs, ClosePR(p) PROVE Goal
  <2> DEFINE pr == [pull[p] EXCEPT !.state = "closed", !.closedAt = now']
  <2>1. pr \in PRState /\ pr.state = "closed" /\ pr.mergedAt = 0
    BY <1>2, <1>a, <1>b, <1>c DEF PRState, ClosePR
  <2>2. EmitPR("closed", "closed", p, pr) /\ pull[p].mergedAt = 0
    BY <1>2, <1>c DEF ClosePR
  <2> HIDE DEF pr
  <2> QED
    BY <1>a, <2>1, <2>2, EmitPRAnnounces DEF HandledPRActions, Goal
<1>3. ASSUME NEW p \in PRs, ReopenPR(p) PROVE Goal
  <2> DEFINE pr == [pull[p] EXCEPT !.state = "open", !.closedAt = 0]
  <2>1. pr \in PRState /\ pr.state = "open" /\ pr.mergedAt = 0
    BY <1>3, <1>b, <1>c DEF PRState, ReopenPR
  <2>2. EmitPR("reopened", "reopened", p, pr) /\ pull[p].mergedAt = 0
    BY <1>3, <1>c DEF ReopenPR
  <2> HIDE DEF pr
  <2> QED
    BY <1>a, <2>1, <2>2, EmitPRAnnounces DEF HandledPRActions, Goal
<1>4. ASSUME NEW p \in PRs, MergePR(p) PROVE Goal
  <2> DEFINE pr == [pull[p] EXCEPT !.state = "merged", !.mergedAt = now', !.closedAt = now']
  <2>1. pr \in PRState /\ pr.state = "merged" /\ pr.mergedAt = now'
    BY <1>a, <1>b DEF PRState
  <2>2. EmitPR("merged", "closed", p, pr) /\ pull[p].mergedAt = 0
    BY <1>4, <1>c DEF MergePR
  <2>3. pr.mergedAt \in {0, now'} /\ pr.state = (IF pr.mergedAt = 0 THEN "closed" ELSE "merged")
    BY <1>a, <2>1
  <2> HIDE DEF pr
  <2> QED
    BY <1>a, <2>1, <2>2, <2>3, EmitPRAnnounces DEF HandledPRActions, Goal
<1>5. ASSUME NEW p \in PRs, ToggleDraft(p) PROVE Goal
  <2> DEFINE pr == [pull[p] EXCEPT !.draft = ~pull[p].draft]
             kind == IF pull[p].draft THEN "ready_for_review" ELSE "converted_to_draft"
  <2>1. pr \in PRState /\ pr.state = "open" /\ pr.mergedAt = 0
    BY <1>5, <1>b, <1>c DEF PRState, ToggleDraft
  <2>2. pr.draft = ~pull[p].draft
    BY <1>b, Zenon DEF PRState
  <2>3. kind = "converted_to_draft" => pr.draft = TRUE
    BY <2>2, Zenon
  <2>4. kind = "ready_for_review" => pr.draft = FALSE
    BY <2>2, Zenon
  <2>5. EmitPR(kind, kind, p, pr) /\ pull[p].mergedAt = 0
    BY <1>5, <1>c DEF ToggleDraft
  <2>6. kind \in {"ready_for_review", "converted_to_draft"}
    BY Zenon
  <2> HIDE DEF pr, kind
  <2> QED
    BY <1>a, <2>1, <2>3, <2>4, <2>5, <2>6, EmitPRAnnounces DEF HandledPRActions, Goal
<1>6. ASSUME NEW p \in PRs, RetargetPR(p) PROVE Goal
  <2>1. PICK b \in Branches : EmitPR("edited", "edited", p, [pull[p] EXCEPT !.base = b])
    BY <1>6 DEF RetargetPR
  <2> DEFINE pr == [pull[p] EXCEPT !.base = b]
  <2>2. pr \in PRState /\ pr.mergedAt = 0
    BY <1>6, <1>b, <1>c DEF PRState, RetargetPR
  <2>3. /\ pr.state = pull[p].state /\ pr.mergedAt = pull[p].mergedAt
        /\ pr.closedAt = pull[p].closedAt /\ pr.draft = pull[p].draft
    BY <1>b DEF PRState
  <2>4. EmitPR("edited", "edited", p, pr) /\ pull[p].mergedAt = 0
    BY <1>6, <1>c, <2>1 DEF RetargetPR
  <2> HIDE DEF pr
  <2> QED
    BY <1>a, <2>2, <2>3, <2>4, EmitPRAnnounces DEF Goal
<1>7. ASSUME NEW s \in Sources, NEW id \in Ids, NEW env \in Environments, Ship(s, id, env)
      PROVE  Goal
  <2>1. PICK ships \in BOOLEAN :
          Emit([event |-> s, id |-> id, env |-> env, ships |-> ships, at |-> now'])
    BY <1>7 DEF Ship
  <2> DEFINE m == [event |-> s, id |-> id, env |-> env, ships |-> ships, at |-> now']
  <2>2. m \in Payload
    BY <1>a DEF Payload, ShipmentPayload
  <2>3. Emit(m) /\ m.event = s /\ m.at = now' /\ s # "pull_request"
    BY <2>1 DEF Sources
  <2> HIDE DEF m
  <2>4. UNCHANGED <<pull, settled, source, class, prRow, events, attributed, job, spent>>
    BY <1>7 DEF Ship, settings, shipped
  <2> QED
    BY <1>a, <2>2, <2>3, <2>4 DEF Announced, Goal
<1> QED
  BY <1>1, <1>2, <1>3, <1>4, <1>5, <1>6, <1>7 DEF GitHubStep, Goal
-----------------------------------------------------------------------------
(***************************************************************************)
(* The four kinds of step in order: GitHub announces something, the oldest *)
(* waiting delivery is taken, a task works, or nobody here hears of it.    *)
(***************************************************************************)
Taken(i) ==
  /\ i \in queue /\ \A j \in queue : i <= j
  /\ \A w \in Workers : ~Busy(w)
  /\ queue' = queue \ {i}
  /\ UNCHANGED <<now, pull, log, source, events, attributed>>
  /\ \/ HandlePullRequest(i)
     \/ log[i].event \in Sources /\ UNCHANGED <<prRow, job>>
     \/ UNCHANGED prRow /\ \E w \in Workers : BeginShipment(w, i)

Working(w) ==
  /\ JobStep(w) /\ Busy(w)
  /\ UNCHANGED <<now, pull, log, queue, source, prRow>>
  /\ \A v \in Workers \ {w} : job'[v] = job[v]
  /\ \/ job'[w] = Idle
     \/ job'[w].pc # "idle" /\ job'[w].delivery = job[w].delivery
  /\ CommitShipment(w) \/ UNCHANGED <<events, attributed>>

Unheard ==
  /\ UNCHANGED <<now, pull, log, queue, prRow, events, attributed, job>>
  /\ \A t \in Tenants : source[t] # "none" => source'[t] # "none"

LEMMA TakesInOrder ==
  ASSUME TypeOK, NEW i \in queue, \A j \in queue : i <= j,
         \A w \in Workers : job[w].pc = "idle", HandleDelivery(i)
  PROVE  Taken(i)
<1>1. CASE HandlePullRequest(i)
  BY <1>1 DEF HandlePullRequest, Taken, Busy, github, settings, shipped
<1>2. CASE SkipShipment(i)
  BY <1>2 DEF SkipShipment, Taken, Busy, github, settings, shipped
<1>3. ASSUME NEW w \in Workers, BeginShipment(w, i) PROVE Taken(i)
  <2>1. /\ queue' = queue \ {i}
        /\ UNCHANGED <<now, pull, log, source, events, attributed, prRow>>
    BY <1>3 DEF BeginShipment, github, settings, shipped
  <2> QED
    BY <1>3, <2>1 DEF Taken, Busy
<1> QED
  BY <1>1, <1>2, <1>3 DEF HandleDelivery

LEMMA WorksAlone ==
  ASSUME TypeOK, NEW w \in Workers, JobStep(w)
  PROVE  Working(w)
<1>1. job \in [Workers -> Job] /\ job[w] \in Job
  BY DEF TypeOK
<1>2. UNCHANGED <<now, pull, log, queue, source, prRow>>
  BY Zenon DEF JobStep, SkipEnvironment, DuplicateShipment, InsertShipment, ReadPrevious,
     AttributePRs, CommitShipment, Deadlock, github, settings
<1> DEFINE Alone == \A v \in Workers \ {w} : job'[v] = job[v]
           Goes == \/ job'[w] = Idle
                   \/ job'[w].pc # "idle" /\ job'[w].delivery = job[w].delivery
           Works == Alone /\ Goes /\ job[w].pc # "idle"
<1>3. ASSUME NEW t \in Tenants, SkipEnvironment(w, t) \/ DuplicateShipment(w, t) PROVE Works
  BY <1>1, <1>3 DEF SkipEnvironment, DuplicateShipment, PassOver, Job
<1>4. ASSUME NEW t \in Tenants, InsertShipment(w, t) PROVE Works
  BY <1>1, <1>4 DEF InsertShipment, Job
<1>5. ASSUME ReadPrevious(w) PROVE Works
  BY <1>1, <1>5 DEF ReadPrevious, Job
<1>6. ASSUME AttributePRs(w) PROVE Works
  BY <1>1, <1>6 DEF AttributePRs, Job
<1>7. ASSUME CommitShipment(w) PROVE Works
  BY <1>1, <1>7 DEF CommitShipment
<1>8. ASSUME Deadlock(w) PROVE Works
  <2>1. job[w].pc = "repo" /\ job' = [job EXCEPT ![w] = Idle]
    BY <1>8 DEF Deadlock, WaitsFor
  <2> QED
    BY <1>1, <2>1
<1>9. Works
  BY <1>3, <1>4, <1>5, <1>6, <1>7, <1>8 DEF JobStep
<1>10. CommitShipment(w) \/ UNCHANGED <<events, attributed>>
  BY Zenon DEF JobStep, SkipEnvironment, DuplicateShipment, InsertShipment, ReadPrevious,
     AttributePRs, Deadlock, shipped
<1> QED
  BY <1>2, <1>9, <1>10 DEF Working, Busy

LEMMA EditsUnheard ==
  ASSUME TypeOK, EditStep \/ UNCHANGED vars
  PROVE  Unheard
<1>1. UNCHANGED <<now, pull, log, queue, prRow, events, attributed, job>>
  BY DEF EditStep, TrackRepo, UpdateRepo, UpdateEnvironment, Edit, vars, github, shipped
<1> DEFINE Kept == \A t \in Tenants : source[t] # "none" => source'[t] # "none"
<1>2. ASSUME NEW t \in Tenants, TrackRepo(t) PROVE Kept
  BY <1>2 DEF TrackRepo, TypeOK
<1>3. ASSUME NEW t \in Tenants, UpdateRepo(t) PROVE Kept
  <2>1. PICK s \in Sources : source' = [source EXCEPT ![t] = s]
    BY <1>3 DEF UpdateRepo
  <2> QED
    BY <2>1 DEF TypeOK, Sources
<1>4. ASSUME NEW t \in Tenants, NEW e \in Environments, UpdateEnvironment(t, e) PROVE Kept
  BY <1>4 DEF UpdateEnvironment
<1>5. ASSUME UNCHANGED vars PROVE Kept
  BY <1>5 DEF vars, settings
<1>6. Kept
  BY <1>2, <1>3, <1>4, <1>5 DEF EditStep
<1> QED
  BY <1>1, <1>6 DEF Unheard

LEMMA OrderedSteps ==
  ASSUME TypeOK, MergesAreFinal, now > 0, [OrderedNext]_vars
  PROVE  \/ \E m \in Payload : Announced(m)
         \/ \E i \in queue : Taken(i)
         \/ \E w \in Workers : Working(w)
         \/ Unheard
  BY GitHubAnnounces, TakesInOrder, WorksAlone, EditsUnheard DEF OrderedNext

\* Handling in order is one way of handling: all that was proved before holds.
LEMMA OrderedIsNext ==
  ASSUME TypeOK, [OrderedNext]_vars
  PROVE  [Next]_vars
<1>1. queue \subseteq DOMAIN log
  BY DEF TypeOK
<1> QED
  BY <1>1 DEF OrderedNext, Next
-----------------------------------------------------------------------------
(***************************************************************************)
(* The order of the deliveries.                                            *)
(***************************************************************************)
\* Entry n of the log, its last, is m, and waits.
Appended(n, m) ==
  /\ n \notin DOMAIN log /\ queue \subseteq DOMAIN log
  /\ DOMAIN log' = DOMAIN log \cup {n}
  /\ \A i \in DOMAIN log : i \in Nat /\ i < n /\ log'[i] = log[i]
  /\ log'[n] = m
  /\ queue' = queue \cup {n}

LEMMA AnnouncedAppends ==
  ASSUME TypeOK, NEW m \in Payload, Announced(m)
  PROVE  \E n \in Nat : Appended(n, m)
<1>1. log \in Seq(Payload) /\ queue \subseteq DOMAIN log
  BY DEF TypeOK
<1>2. Len(log) + 1 \in Nat /\ \A i \in DOMAIN log : i \in Nat /\ i < Len(log) + 1
  BY <1>1
<1>3. log' = Append(log, m) /\ queue' = queue \cup {Len(log) + 1}
  BY DEF Announced, Emit
<1> QED
  BY <1>1, <1>2, <1>3, AppendKeeps DEF Appended

LEMMA QueueNext ==
  ASSUME OrderInv, [OrderedNext]_vars
  PROVE  QueueIsLatest' /\ OneAtATime'
<1>0. TypeOK /\ MergesAreFinal /\ now > 0 /\ QueueIsLatest /\ OneAtATime
  BY DEF OrderInv, AttributionInv, MergeInv
<1>a. \A i \in DOMAIN log : i \in Nat
  BY <1>0 DEF TypeOK
<1>b. queue \subseteq DOMAIN log
  BY <1>0 DEF TypeOK
<1>1. ASSUME NEW m \in Payload, Announced(m) PROVE QueueIsLatest' /\ OneAtATime'
  <2>1. PICK n \in Nat : Appended(n, m)
    BY <1>0, <1>1, AnnouncedAppends
  <2>2. QueueIsLatest'
    BY <1>0, <1>a, <2>1 DEF QueueIsLatest, Appended
  <2>3. OneAtATime'
    <3>1. job' = job
      BY <1>1 DEF Announced
    <3>2. \A w \in Workers : job[w].pc # "idle" => job[w].delivery \in DOMAIN log
      BY <1>0 DEF TypeOK
    <3> QED
      BY <1>0, <1>a, <2>1, <3>1, <3>2 DEF OneAtATime, Busy, Appended
  <2> QED
    BY <2>2, <2>3
<1>2. ASSUME NEW i \in queue, Taken(i) PROVE QueueIsLatest' /\ OneAtATime'
  <2>1. QueueIsLatest'
    BY <1>0, <1>2, <1>a, <1>b DEF QueueIsLatest, Taken
  <2>2. \A j \in DOMAIN log : j \in queue' <=> i < j
    BY <1>0, <1>2, <1>a, <1>b DEF QueueIsLatest, Taken
  <2>3. CASE UNCHANGED job
    BY <1>2, <2>1, <2>3 DEF OneAtATime, Busy, Taken
  <2>4. CASE \E w \in Workers : BeginShipment(w, i)
    <3>1. PICK w \in Workers : BeginShipment(w, i)
      BY <2>4
    <3>2. job'[w].delivery = i /\ \A v \in Workers \ {w} : job'[v] = job[v]
      BY <1>0, <3>1 DEF BeginShipment, TypeOK
    <3>3. \A v \in Workers \ {w} : ~(job'[v].pc # "idle")
      BY <1>2, <3>2 DEF Taken, Busy
    <3> QED
      BY <1>2, <2>1, <2>2, <3>2, <3>3 DEF OneAtATime, Busy, Taken
  <2> QED
    BY <1>2, <2>1, <2>3, <2>4 DEF Taken, HandlePullRequest
<1>3. ASSUME NEW w \in Workers, Working(w) PROVE QueueIsLatest' /\ OneAtATime'
  <2>1. QueueIsLatest'
    BY <1>0, <1>3 DEF QueueIsLatest, Working
  <2>2. \A v \in Workers : job'[v].pc # "idle" => job[v].pc # "idle" /\ job'[v].delivery = job[v].delivery
    BY <1>3 DEF Working, Busy, Idle
  <2> QED
    BY <1>0, <1>3, <2>1, <2>2 DEF OneAtATime, Busy, Working
<1>4. CASE Unheard
  BY <1>0, <1>4 DEF Unheard, QueueIsLatest, OneAtATime, Busy
<1> QED
  BY <1>0, <1>1, <1>2, <1>3, <1>4, OrderedSteps

-----------------------------------------------------------------------------
(***************************************************************************)
(* Rows mirror GitHub.                                                     *)
(***************************************************************************)
\* Whether a row mirrors a pull request depends on four fields of it.
LEMMA MirrorsFields ==
  ASSUME NEW row, NEW p, Mirrors(row, p), UNCHANGED MirroredFields(p)
  PROVE  Mirrors(row, p)'
  BY DEF Mirrors, MirroredFields

LEMMA LastPayloadNext ==
  ASSUME OrderInv, [OrderedNext]_vars
  PROVE  LastPayloadMirrors'
<1>0. TypeOK /\ MergesAreFinal /\ now > 0 /\ LastPayloadMirrors
  BY DEF OrderInv, AttributionInv, MergeInv
<1>1. ASSUME NEW m \in Payload, Announced(m) PROVE LastPayloadMirrors'
  <2>1. PICK n \in Nat : Appended(n, m)
    BY <1>0, <1>1, AnnouncedAppends
  <2> SUFFICES ASSUME NEW p \in PRs, NEW i \in DOMAIN log', NEW r, r = log'[i],
                      Tells(r, p), \A j \in DOMAIN log' : i < j => ~Tells(log'[j], p)
               PROVE  Mirrors(Told(r), p)'
    BY DEF LastPayloadMirrors, Mirrors
  <2>2. CASE i = n
    <3>1. r = m /\ m.pr = p /\ m.event = "pull_request"
      BY <2>1, <2>2 DEF Appended, Tells
    <3> QED
      BY <1>1, <2>2, <2>1, <3>1 DEF Announced, AnnouncesPR, Appended
  <2>3. CASE i # n
    <3>1. i \in DOMAIN log /\ r = log[i] /\ i < n /\ n \in DOMAIN log' /\ log'[n] = m
      BY <2>1, <2>3 DEF Appended
    <3>2. \A j \in DOMAIN log : i < j => ~Tells(log[j], p)
      BY <2>1 DEF Appended
    <3>3. Mirrors(Told(r), p)
      BY <1>0, <3>1, <3>2 DEF LastPayloadMirrors
    <3>4. ~Tells(m, p)
      BY <3>1
    <3>5. UNCHANGED MirroredFields(p)
      <4>1. CASE m.event = "pull_request" /\ m.pr = p
        BY <1>1, <3>4, <4>1 DEF Announced, AnnouncesPR
      <4>2. CASE m.event = "pull_request" /\ m.pr # p
        <5>1. pull'[p] = pull[p]
          BY <1>1, <4>2 DEF Announced, AnnouncesPR
        <5> QED
          BY <5>1 DEF MirroredFields
      <4>3. CASE m.event \in Sources
        BY <1>1, <4>3 DEF Announced, MirroredFields
      <4> QED
        BY <4>1, <4>2, <4>3 DEF Payload, PullRequestPayload, ShipmentPayload
    <3> QED
      BY <3>1, <3>3, <3>5, MirrorsFields
  <2> QED
    BY <2>2, <2>3
<1>2. ASSUME UNCHANGED <<pull, log>> PROVE LastPayloadMirrors'
  BY <1>0, <1>2 DEF LastPayloadMirrors, Mirrors
<1> QED
  BY <1>0, <1>1, <1>2, OrderedSteps DEF Taken, Working, Unheard

\* What an upsert stores of a payload does not depend on the row before.
LEMMA UpsertTells ==
  ASSUME NEW row, NEW m
  PROVE  SameState(Upsert(row, m), Told(m))
<1>1. ASSUME NEW r PROVE Upsert(r, m).mergedAt = MergedAtOf(m)
  BY DEF Upsert
<1>2. ASSUME NEW r PROVE Upsert(r, m).closedAt = ClosedAtOf(m)
  BY DEF Upsert
<1>3. ASSUME NEW r PROVE Upsert(r, m).draft = DraftOf(m)
  BY Zenon DEF Upsert
<1> QED
  BY <1>1, <1>2, <1>3, Zenon DEF SameState, Told

\* A row stores the same payload as long as nothing newer about p is handled.
LEMMA StoresStays ==
  ASSUME NEW row, NEW p, NEW i, Stores(row, p, i),
         DOMAIN log \subseteq DOMAIN log', i \notin queue',
         \A j \in DOMAIN log : log'[j] = log[j],
         \A j \in DOMAIN log' : Tells(log'[j], p) /\ j \notin queue' => j \in DOMAIN log \ queue
  PROVE  Stores(row, p, i)'
  BY DEF Stores

LEMMA RowsFollowNext ==
  ASSUME OrderInv, [OrderedNext]_vars
  PROVE  RowsFollow'
<1>0. TypeOK /\ MergesAreFinal /\ now > 0 /\ QueueIsLatest /\ RowsFollow
  BY DEF OrderInv, AttributionInv, MergeInv
<1>a. queue \subseteq DOMAIN log /\ \A i \in DOMAIN log : i \in Nat
  BY <1>0 DEF TypeOK
<1> SUFFICES ASSUME NEW t \in Tenants, NEW p \in PRs, NEW row, row = prRow'[t][p], row.known
             PROVE  source'[t] # "none" /\ \E i \in DOMAIN log' : Stores(row, p, i)'
  BY DEF RowsFollow, Stores
<1> DEFINE Goal == source'[t] # "none" /\ \E i \in DOMAIN log' : Stores(row, p, i)'
<1> HIDE DEF Goal
\* The row is as it was, and so is every handled payload about p.
<1>1. ASSUME row = prRow[t][p], source[t] # "none" => source'[t] # "none",
             DOMAIN log \subseteq DOMAIN log', \A j \in DOMAIN log : log'[j] = log[j],
             queue' \cap DOMAIN log \subseteq queue,
             \A j \in DOMAIN log' : Tells(log'[j], p) /\ j \notin queue' => j \in DOMAIN log \ queue
      PROVE  Goal
  <2>1. PICK i \in DOMAIN log : Stores(row, p, i)
    BY <1>0, <1>1 DEF RowsFollow
  <2>2. i \notin queue'
    BY <1>1, <2>1 DEF Stores
  <2>3. Stores(row, p, i)'
    BY <1>1, <2>1, <2>2, StoresStays
  <2> QED
    BY <1>0, <1>1, <2>1, <2>3 DEF RowsFollow, Goal
<1>2. ASSUME NEW m \in Payload, Announced(m) PROVE Goal
  <2>1. PICK n \in Nat : Appended(n, m)
    BY <1>0, <1>2, AnnouncedAppends
  <2>2. /\ DOMAIN log \subseteq DOMAIN log' /\ \A j \in DOMAIN log : log'[j] = log[j]
        /\ queue' \cap DOMAIN log \subseteq queue
        /\ \A j \in DOMAIN log' : j \notin queue' => j \in DOMAIN log \ queue
    BY <2>1 DEF Appended
  <2> QED
    BY <1>1, <1>2, <2>2 DEF Announced
<1>3. ASSUME NEW i \in queue, Taken(i), log[i].event \in Sources, UNCHANGED prRow PROVE Goal
  <2>1. ~Tells(log[i], p)
    BY <1>3 DEF Tells, Sources
  <2>2. UNCHANGED <<log, source>> /\ queue' = queue \ {i}
    BY <1>3 DEF Taken
  <2> QED
    BY <1>1, <1>3, <2>1, <2>2
<1>4. ASSUME NEW i \in queue, Taken(i), HandlePullRequest(i) PROVE Goal
  <2>1. UNCHANGED <<log, source>> /\ queue' = queue \ {i} /\ log[i].event = "pull_request"
    BY <1>4 DEF Taken, HandlePullRequest
  <2>2. log[i] \in PullRequestPayload /\ i \in DOMAIN log
    BY <1>0, <1>a, <2>1, PayloadKinds DEF TypeOK
  <2>3. CASE ~Tells(log[i], p) \/ source[t] = "none"
    <3>1. row = prRow[t][p]
      BY <1>0, <1>4, <2>2, <2>3 DEF HandlePullRequest, Tells, TypeOK, Tracking, PullRequestPayload
    <3>2. ~Tells(log[i], p)
      BY <1>0, <2>3, <3>1 DEF RowsFollow
    <3> QED
      BY <1>1, <2>1, <3>1, <3>2
  <2>4. CASE Tells(log[i], p) /\ source[t] # "none"
    <3>1. row = Upsert(prRow[t][p], log[i])
      BY <1>0, <1>4, <2>1, <2>4 DEF HandlePullRequest, Tells, TypeOK, Tracking
    <3>2. SameState(row, Told(log[i]))
      BY <3>1, UpsertTells
    <3>3. \A j \in DOMAIN log : i < j => j \in queue'
      BY <1>0, <1>a, <2>1, <2>2 DEF QueueIsLatest
    <3>4. Stores(row, p, i)'
      BY <2>1, <2>2, <2>4, <3>2, <3>3 DEF Stores
    <3> QED
      BY <2>1, <2>2, <2>4, <3>4 DEF Goal
  <2> QED
    BY <2>3, <2>4
<1>5. ASSUME NEW i \in queue, Taken(i) PROVE Goal
  BY <1>3, <1>4, <1>5 DEF Taken, BeginShipment
<1>6. ASSUME UNCHANGED <<log, queue, prRow>>, source[t] # "none" => source'[t] # "none" PROVE Goal
  BY <1>1, <1>6
<1> QED
  BY <1>0, <1>2, <1>5, <1>6, OrderedSteps DEF Working, Unheard, Goal

LEMMA OrderInvInit == Init => OrderInv
  BY AttributionInvInit DEF Init, OrderInv, QueueIsLatest, OneAtATime, Busy, Idle,
     LastPayloadMirrors, RowsFollow, NoRow

LEMMA OrderInvNext == OrderInv /\ [OrderedNext]_vars => OrderInv'
<1> SUFFICES ASSUME OrderInv, [OrderedNext]_vars PROVE OrderInv'
  OBVIOUS
<1>0. AttributionInv /\ TypeOK /\ MergesAreFinal /\ now > 0
  BY DEF OrderInv, AttributionInv, MergeInv
<1>1. [Next]_vars
  BY <1>0, OrderedIsNext
<1>2. AttributionInv'
  BY <1>0, <1>1, MergeInvNext, LockInvNext, PendingNext, AttributedNext DEF AttributionInv
<1>3. now' > 0
  <2>1. now \in Nat /\ \A d \in Ticks : d \in Nat
    BY <1>0, ConstantsOK DEF TypeOK, ConstantsOK
  <2>2. Advance \/ now' = now
    BY <1>0, OrderedSteps DEF Announced, Taken, Working, Unheard
  <2> QED
    BY <1>0, <2>1, <2>2 DEF Advance
<1> QED
  BY <1>2, <1>3, QueueNext, LastPayloadNext, RowsFollowNext DEF OrderInv

\* With nothing left to handle, the newest payload about a pull request is in
\* its rows, and that payload tells what GitHub has.
LEMMA RowsCaughtUp == OrderInv => RowsMirrorGitHub
<1> SUFFICES ASSUME OrderInv, queue = {}, NEW t \in Tenants, NEW p \in PRs, prRow[t][p].known
             PROVE  Mirrors(prRow[t][p], p)
  BY DEF RowsMirrorGitHub, Mirrors
<1>1. PICK i \in DOMAIN log : Stores(prRow[t][p], p, i)
  BY DEF OrderInv, RowsFollow
<1>2. Mirrors(Told(log[i]), p)
  BY <1>1 DEF OrderInv, LastPayloadMirrors, Stores
<1> QED
  BY <1>1, <1>2 DEF Stores, SameState, Mirrors

\* Handled in the order of the events, and whatever users change meanwhile,
\* the stored rows agree with GitHub whenever no delivery waits.
THEOREM RowsMirror == OrderedSpec => []RowsMirrorGitHub
  BY OrderInvInit, OrderInvNext, RowsCaughtUp, PTL DEF OrderedSpec
-----------------------------------------------------------------------------
(***************************************************************************)
(* Times: the tables hold what the deliveries handled so far told, so      *)
(* every time in them is earlier than that of whatever is handled next.    *)
(***************************************************************************)
\* The clock advances at every event.
NoTies == 0 \notin Ticks

\* The time a payload tells, 0 for a pull request that is not merged.
Stamp(m) == IF m.event = "pull_request" THEN m.mergedAt ELSE m.at

InTime ==
  \A j \in DOMAIN log :
    /\ Stamp(log[j]) <= now
    /\ log[j].event \in Sources => log[j].at > 0
    /\ Stamp(log[j]) # 0 => \A i \in DOMAIN log : i < j => Stamp(log[i]) < Stamp(log[j])

\* GitHub announces nothing about a pull request after its merge.
MergeIsLast ==
  \A i, j \in DOMAIN log :
    /\ log[i].event = "pull_request" /\ log[i].mergedAt # 0 /\ i < j
    /\ log[j].event = "pull_request"
    => log[j].pr # log[i].pr

\* A recorded event has the time of a delivery whose task has ended.
EventsWereDelivered ==
  \A e \in events : \E i \in DOMAIN log \ queue :
    /\ log[i].event \in Sources /\ log[i].at = e.at
    /\ \A w \in Workers : Busy(w) => i # job[w].delivery

\* What the ledger of t says that w's shipment carries.
Takes(w, t) ==
  {p \in WaitingIn(t) : EventsIn(t) = {} => LandedIn(t)[p] > Delivery(w).at - LookBack}

Attributing(w, t) == job[w].pc \in {"previous", "attribute"} /\ job[w].tenant = t

\* A task attributes what waits in each workspace it has inserted an event for.
AttributesWhatWaits ==
  \A w \in Workers : Busy(w) => \A t \in Tenants, p \in PRs :
    [event |-> EventOf(Delivery(w), t), pr |-> p] \in job[w].newAttributed
     <=> /\ EventOf(Delivery(w), t) \in job[w].newEvents
         /\ ~Attributing(w, t)
         /\ p \in Takes(w, t)

\* The window opens at the workspace's latest event, or looks back.
OpensAt(t, start, at) ==
  \/ EventsIn(t) = {} /\ start = at - LookBack
  \/ \E e \in EventsIn(t) : start = e.at /\ \A f \in EventsIn(t) : f.at <= e.at

WindowOpensAtLast ==
  \A w \in Workers :
    job[w].pc = "attribute" => OpensAt(job[w].tenant, job[w].windowStart, Delivery(w).at)

StampInv == OrderInv /\ InTime /\ MergeIsLast /\ EventsWereDelivered
RefinementInv == StampInv /\ AttributesWhatWaits /\ WindowOpensAtLast

LEMMA OrderFacts ==
  ASSUME OrderInv
  PROVE  /\ TypeOK /\ MergesAreFinal /\ now > 0 /\ QueueIsLatest /\ OneAtATime /\ RowsFollow
         /\ PayloadsTellTheMerge /\ TasksOwnTheirRows /\ KeysAreLocked /\ PendingAttributions
         /\ queue \subseteq DOMAIN log /\ \A i \in DOMAIN log : i \in Nat /\ log[i] \in Payload
  BY DEF OrderInv, AttributionInv, MergeInv, LockInv, TypeOK

LEMMA StampType ==
  ASSUME NEW m \in Payload
  PROVE  Stamp(m) \in Nat
  BY DEF Stamp, Payload, PullRequestPayload, ShipmentPayload, Sources

LEMMA InTimeNext ==
  ASSUME NoTies, StampInv, [OrderedNext]_vars
  PROVE  InTime' /\ MergeIsLast'
<1>0. /\ TypeOK /\ MergesAreFinal /\ now > 0 /\ PayloadsTellTheMerge
      /\ \A i \in DOMAIN log : i \in Nat /\ log[i] \in Payload
      /\ InTime /\ MergeIsLast
  BY OrderFacts DEF StampInv
<1>1. ASSUME NEW m \in Payload, Announced(m) PROVE InTime' /\ MergeIsLast'
  <2>1. PICK n \in Nat : Appended(n, m)
    BY <1>0, <1>1, AnnouncedAppends
  <2>2. now \in Nat /\ now' \in Nat /\ now < now'
    BY <1>0, <1>1, ConstantsOK DEF Announced, Advance, NoTies, TypeOK, ConstantsOK
  <2>3. m.event = "pull_request" \/ m.event \in Sources
    BY DEF Payload, PullRequestPayload, ShipmentPayload
  <2>4. Stamp(m) \in {0, now'} /\ (m.event \in Sources => m.at = now' /\ Stamp(m) = now')
    BY <1>1, <2>3 DEF Announced, AnnouncesPR, Stamp, Sources
  <2>5. \A i \in DOMAIN log : log'[i] = log[i] /\ i < n /\ Stamp(log[i]) \in Nat /\ Stamp(log[i]) <= now
    BY <1>0, <2>1, StampType DEF Appended, InTime
  <2>6. InTime'
    <3> SUFFICES ASSUME NEW j \in DOMAIN log', NEW r, r = log'[j]
                 PROVE  /\ Stamp(r) <= now'
                        /\ r.event \in Sources => r.at > 0
                        /\ Stamp(r) # 0 => \A i \in DOMAIN log' : i < j => Stamp(log'[i]) < Stamp(r)
      BY DEF InTime
    <3>1. CASE j = n
      <4>1. r = m /\ \A i \in DOMAIN log' : i < j => i \in DOMAIN log
        BY <2>1, <3>1 DEF Appended
      <4>2. ASSUME NEW i \in DOMAIN log, Stamp(r) # 0 PROVE Stamp(log'[i]) < Stamp(r)
        BY <2>2, <2>4, <2>5, <4>1, <4>2
      <4> QED
        BY <2>2, <2>4, <4>1, <4>2
    <3>2. CASE j # n
      <4>1. j \in DOMAIN log /\ r = log[j] /\ j < n
        BY <2>1, <2>5, <3>2 DEF Appended
      <4>2. \A i \in DOMAIN log' : i < j => i \in DOMAIN log /\ log'[i] = log[i]
        BY <1>0, <2>1, <4>1 DEF Appended
      <4>3. Stamp(r) <= now'
        BY <2>2, <2>5, <4>1
      <4> QED
        BY <1>0, <4>1, <4>2, <4>3 DEF InTime
    <3> QED
      BY <3>1, <3>2
  <2>7. MergeIsLast'
    <3> SUFFICES ASSUME NEW i \in DOMAIN log', NEW j \in DOMAIN log', i < j,
                        log'[i].event = "pull_request", log'[i].mergedAt # 0,
                        log'[j].event = "pull_request"
                 PROVE  log'[j].pr # log'[i].pr
      BY DEF MergeIsLast
    <3>1. i \in DOMAIN log /\ log'[i] = log[i]
      BY <1>0, <2>1 DEF Appended
    <3>2. CASE j = n
      <4>1. log'[j] = m /\ pull[m.pr].mergedAt = 0
        BY <1>1, <2>1, <3>2 DEF Appended, Announced, AnnouncesPR
      <4> QED
        BY <1>0, <3>1, <4>1 DEF PayloadsTellTheMerge
    <3>3. CASE j # n
      <4>1. j \in DOMAIN log /\ log'[j] = log[j]
        BY <2>1, <3>3 DEF Appended
      <4> QED
        BY <1>0, <3>1, <4>1 DEF MergeIsLast
    <3> QED
      BY <3>2, <3>3
  <2> QED
    BY <2>6, <2>7
<1>2. ASSUME UNCHANGED <<now, log>> PROVE InTime' /\ MergeIsLast'
  BY <1>0, <1>2 DEF InTime, MergeIsLast
<1> QED
  BY <1>0, <1>1, <1>2, OrderedSteps DEF Taken, Working, Unheard

\* A busy task's delivery is the newest one handled.
LEMMA HandledBefore ==
  ASSUME StampInv, NEW w \in Workers, Busy(w)
  PROVE  /\ job[w].delivery \in DOMAIN log \ queue /\ Delivery(w).event \in Sources
         /\ Delivery(w).at = Stamp(Delivery(w)) /\ Delivery(w).at \in Nat /\ Delivery(w).at # 0
         /\ \A i \in DOMAIN log \ queue :
              i # job[w].delivery => Stamp(log[i]) < Delivery(w).at
<1>0. /\ TypeOK /\ OneAtATime /\ InTime /\ queue \subseteq DOMAIN log
      /\ \A i \in DOMAIN log : i \in Nat /\ log[i] \in Payload
  BY OrderFacts DEF StampInv
<1> DEFINE d == job[w].delivery
<1>1. d \in DOMAIN log /\ Delivery(w) = log[d] /\ log[d] \in ShipmentPayload
  BY <1>0 DEF TypeOK, Busy, Delivery
<1>2. \A i \in DOMAIN log : i \in queue <=> d < i
  BY <1>0 DEF OneAtATime
<1>3. log[d].event \in Sources /\ log[d].at \in Nat
  BY <1>1 DEF ShipmentPayload
<1>4. log[d].at = Stamp(log[d]) /\ log[d].at > 0
  BY <1>0, <1>1, <1>3 DEF Stamp, Sources, InTime
<1> HIDE DEF d
<1>5. d \notin queue
  BY <1>0, <1>1, <1>2
<1>6. ASSUME NEW i \in DOMAIN log \ queue, i # d PROVE Stamp(log[i]) < log[d].at
  <2>1. i < d
    BY <1>0, <1>1, <1>2, <1>6
  <2> QED
    BY <1>0, <1>1, <1>3, <1>4, <2>1 DEF InTime
<1> QED
  BY <1>1, <1>3, <1>4, <1>5, <1>6 DEF d

LEMMA DeliveredNext ==
  ASSUME StampInv, [OrderedNext]_vars
  PROVE  EventsWereDelivered'
<1>0. /\ TypeOK /\ MergesAreFinal /\ now > 0 /\ TasksOwnTheirRows
      /\ \A i \in DOMAIN log : i \in Nat /\ log[i] \in Payload
      /\ EventsWereDelivered /\ OneAtATime
  BY OrderFacts DEF StampInv
<1> SUFFICES ASSUME NEW e \in events'
             PROVE  \E i \in DOMAIN log' \ queue' :
                      /\ log'[i].event \in Sources /\ log'[i].at = e.at
                      /\ \A w \in Workers : job'[w].pc # "idle" => i # job'[w].delivery
  BY DEF EventsWereDelivered, Busy
<1> DEFINE From(i) == /\ i \in DOMAIN log' \ queue'
                      /\ log'[i].event \in Sources /\ log'[i].at = e.at
                      /\ \A w \in Workers : job'[w].pc # "idle" => i # job'[w].delivery
           Goal == \E i \in DOMAIN log' : From(i)
\* An event recorded before is still from an ended delivery, if no task takes it up.
<1>1. ASSUME e \in events, DOMAIN log \ queue \subseteq DOMAIN log' \ queue',
             \A j \in DOMAIN log : log'[j] = log[j],
             \A w \in Workers, j \in DOMAIN log \ queue :
               job'[w].pc # "idle" /\ j = job'[w].delivery
                 => job[w].pc # "idle" /\ j = job[w].delivery
      PROVE  Goal
  <2>1. PICK i \in DOMAIN log \ queue :
           /\ log[i].event \in Sources /\ log[i].at = e.at
           /\ \A w \in Workers : job[w].pc # "idle" => i # job[w].delivery
    BY <1>0, <1>1 DEF EventsWereDelivered, Busy
  <2> QED
    BY <1>1, <2>1
<1>2. ASSUME NEW m \in Payload, Announced(m) PROVE Goal
  <2>1. PICK n \in Nat : Appended(n, m)
    BY <1>0, <1>2, AnnouncedAppends
  <2>2. UNCHANGED <<events, job>>
    BY <1>2 DEF Announced
  <2> QED
    BY <1>1, <2>1, <2>2 DEF Appended
<1>3. ASSUME NEW i \in queue, Taken(i) PROVE Goal
  <2>1. UNCHANGED <<log, events>> /\ queue' = queue \ {i}
    BY <1>3 DEF Taken
  <2>2. CASE UNCHANGED job
    BY <1>1, <2>1, <2>2
  <2>3. CASE \E w \in Workers : BeginShipment(w, i)
    <3>1. PICK w \in Workers : BeginShipment(w, i)
      BY <2>3
    <3>2. job'[w].delivery = i /\ \A v \in Workers \ {w} : job'[v] = job[v]
      BY <1>0, <3>1 DEF BeginShipment, TypeOK
    <3> QED
      BY <1>1, <2>1, <3>2
  <2> QED
    BY <1>3, <2>2, <2>3 DEF Taken, HandlePullRequest
<1>4. ASSUME NEW w \in Workers, Working(w) PROVE Goal
  <2>1. UNCHANGED <<log, queue>> /\ Busy(w) /\ \A v \in Workers \ {w} : job'[v] = job[v]
    BY <1>4 DEF Working
  <2>2. CASE e \in events
    <3>1. job'[w].pc # "idle" => job[w].pc # "idle" /\ job'[w].delivery = job[w].delivery
      BY <1>4 DEF Working, Busy, Idle
    <3> QED
      BY <1>1, <2>1, <2>2, <3>1
  <2>3. CASE e \notin events
    <3>1. CommitShipment(w)
      BY <1>4, <2>3 DEF Working
    <3>2. e \in job[w].newEvents /\ job'[w] = Idle
      BY <1>0, <2>3, <3>1 DEF CommitShipment, TypeOK
    <3>3. e = EventOf(Delivery(w), e.tenant)
      BY <1>0, <3>2 DEF TasksOwnTheirRows, OwnsItsRows, Delivery
    <3>4. e.at = Delivery(w).at
      BY <3>3 DEF EventOf
    <3>5. \A v \in Workers : job'[v].pc = "idle"
      BY <1>0, <2>1, <3>2 DEF OneAtATime, Busy, Idle
    <3> DEFINE d == job[w].delivery
    <3>6. d \in DOMAIN log \ queue /\ log[d].event \in Sources /\ log[d].at = e.at
      BY <2>1, <3>4, HandledBefore DEF Delivery
    <3> HIDE DEF d
    <3>7. From(d)
      BY <2>1, <3>5, <3>6
    <3> QED
      BY <3>6, <3>7, <2>1
  <2> QED
    BY <2>2, <2>3
<1>5. ASSUME UNCHANGED <<log, queue, events, job>> PROVE Goal
  BY <1>1, <1>5
<1>6. Goal
  BY <1>0, <1>2, <1>3, <1>4, <1>5, OrderedSteps DEF Unheard
<1> QED
  BY <1>6

\* What a row says was merged was merged before the shipment being handled.
LEMMA LandedBefore ==
  ASSUME StampInv, NEW w \in Workers, Busy(w), NEW t \in Tenants, NEW p \in PRs,
         LandedIn(t)[p] # 0
  PROVE  LandedIn(t)[p] \in Nat /\ LandedIn(t)[p] < Delivery(w).at
<1>1. /\ prRow[t][p].known /\ prRow[t][p].base = DefaultBranch
      /\ LandedIn(t)[p] = prRow[t][p].mergedAt
  BY DEF LandedIn
<1>2. PICK i \in DOMAIN log : Stores(prRow[t][p], p, i)
  BY <1>1, OrderFacts DEF StampInv, RowsFollow
<1>3. LandedIn(t)[p] = MergedAtOf(log[i])
  BY <1>1, <1>2 DEF Stores, SameState, Told, Upsert
<1>4. LandedIn(t)[p] = Stamp(log[i]) /\ log[i].event \notin Sources /\ i \in DOMAIN log \ queue
  BY <1>2, <1>3 DEF MergedAtOf, Stamp, Stores, Tells, Sources
<1>5. i # job[w].delivery
  BY <1>4, HandledBefore DEF Delivery
<1>6. Stamp(log[i]) \in Nat
  BY OrderFacts, StampType DEF StampInv
<1> QED
  BY <1>4, <1>5, <1>6, HandledBefore

\* So were the events recorded before.
LEMMA RecordedBefore ==
  ASSUME StampInv, NEW w \in Workers, Busy(w), NEW e \in events
  PROVE  e.at \in Nat /\ e.at < Delivery(w).at
<1>1. PICK i \in DOMAIN log \ queue :
        /\ log[i].event \in Sources /\ log[i].at = e.at /\ i # job[w].delivery
  BY DEF StampInv, EventsWereDelivered
<1>2. Stamp(log[i]) = e.at /\ Stamp(log[i]) \in Nat
  BY <1>1, OrderFacts, StampType DEF StampInv, Stamp, Sources
<1> QED
  BY <1>1, <1>2, HandledBefore

-----------------------------------------------------------------------------
(***************************************************************************)
(* A task attributes what waits: it works alone, so neither the rows nor   *)
(* the events change under it.                                             *)
(***************************************************************************)
LEMMA LedgerKept ==
  ASSUME UNCHANGED <<prRow, events>>, NEW t \in Tenants
  PROVE  LandedIn(t)' = LandedIn(t) /\ EventsIn(t)' = EventsIn(t) /\ WaitingIn(t)' = WaitingIn(t)
  BY DEF LandedIn, EventsIn, WaitingIn

LEMMA TakesKept ==
  ASSUME UNCHANGED <<prRow, events>>, NEW w \in Workers, Delivery(w)' = Delivery(w),
         NEW t \in Tenants
  PROVE  /\ Takes(w, t)' = Takes(w, t)
         /\ \A start : OpensAt(t, start, Delivery(w).at)' <=> OpensAt(t, start, Delivery(w).at)
  BY LedgerKept DEF Takes, OpensAt

\* A task's own events are at the time of its delivery.
LEMMA OwnEvents ==
  ASSUME TasksOwnTheirRows, NEW w \in Workers, NEW e \in job[w].newEvents
  PROVE  e = EventOf(Delivery(w), e.tenant) /\ e.at = Delivery(w).at
<1>1. e = EventOf(Delivery(w), e.tenant)
  BY DEF TasksOwnTheirRows, OwnsItsRows, Delivery
<1>2. \A t : EventOf(Delivery(w), t).at = Delivery(w).at
  BY DEF EventOf
<1> QED
  BY <1>1, <1>2

\* The latest of the workspace's events is the latest strictly before the
\* shipment, and the task's own inserts are not before it.
LEMMA EarlierAreAll ==
  ASSUME StampInv, NEW w \in Workers, job[w].pc = "previous"
  PROVE  EarlierShipments(w) = EventsIn(job[w].tenant)
<1>0. TypeOK /\ TasksOwnTheirRows
  BY OrderFacts DEF StampInv
<1>1. Busy(w)
  BY DEF Busy
<1>2. \A e \in events : e.at < Delivery(w).at
  BY <1>1, RecordedBefore
<1>3. Delivery(w).at \in Nat
  BY <1>1, HandledBefore
<1>4. \A e \in job[w].newEvents : e.at = Delivery(w).at
  BY <1>0, OwnEvents
<1> QED
  BY <1>2, <1>3, <1>4 DEF EarlierShipments, EventsIn

\* The window holds exactly what waits.
LEMMA WindowIsWhatWaits ==
  ASSUME StampInv, NEW w \in Workers, job[w].pc = "attribute",
         OpensAt(job[w].tenant, job[w].windowStart, Delivery(w).at)
  PROVE  MergedInWindow(w) = Takes(w, job[w].tenant)
<1> DEFINE t == job[w].tenant
<1>1. Busy(w) /\ t \in Tenants /\ TypeOK
  <2>1. TypeOK
    BY OrderFacts DEF StampInv
  <2>2. job[w] \in Job /\ job[w].tenant \in job[w].todo
    BY <2>1 DEF TypeOK
  <2> QED
    BY <2>1, <2>2 DEF Job, Busy
<1>2. \A e \in EventsIn(t) : e.at \in Nat
  BY <1>1, RecordedBefore DEF EventsIn
<1>3. LookBack \in Nat /\ Delivery(w).at \in Nat
  BY <1>1, HandledBefore, ConstantsOK DEF ConstantsOK
<1>4. ASSUME NEW p \in PRs
      PROVE  p \in MergedInWindow(w) <=> p \in Takes(w, t)
  <2> DEFINE landed == LandedIn(t)[p]
             row == prRow[t][p]
  <2>1. row.mergedAt \in Nat /\ landed = IF row.known /\ row.base = DefaultBranch THEN row.mergedAt ELSE 0
    BY <1>1 DEF TypeOK, Row, LandedIn
  <2>2. p \in MergedInWindow(w) <=>
          landed # 0 /\ landed > job[w].windowStart /\ landed <= Delivery(w).at
    BY <2>1 DEF MergedInWindow
  <2>3. landed # 0 => landed < Delivery(w).at
    BY <1>1, LandedBefore
  <2>4. p \in Takes(w, t) <=>
          /\ landed # 0 /\ \A e \in EventsIn(t) : e.at < landed
          /\ EventsIn(t) = {} => landed > Delivery(w).at - LookBack
    BY DEF Takes, WaitingIn
  <2>5. landed \in Nat
    BY <2>1
  <2> HIDE DEF landed, row
  <2>6. CASE EventsIn(t) = {} /\ job[w].windowStart = Delivery(w).at - LookBack
    BY <1>3, <2>2, <2>3, <2>4, <2>5, <2>6
  <2>7. CASE \E e \in EventsIn(t) :
               job[w].windowStart = e.at /\ \A f \in EventsIn(t) : f.at <= e.at
    <3>1. PICK e \in EventsIn(t) :
            job[w].windowStart = e.at /\ \A f \in EventsIn(t) : f.at <= e.at
      BY <2>7
    <3>2. landed > e.at <=> \A f \in EventsIn(t) : f.at < landed
      BY <1>2, <2>5, <3>1
    <3> QED
      BY <1>2, <1>3, <2>2, <2>3, <2>4, <2>5, <3>1, <3>2
  <2> QED
    BY <2>6, <2>7 DEF OpensAt
<1> QED
  BY <1>4 DEF MergedInWindow, Takes, WaitingIn

\* The pending attributions of one task, a record of them and its delivery.
AttributesRight(w) ==
  \A t \in Tenants, p \in PRs :
    [event |-> EventOf(Delivery(w), t), pr |-> p] \in job[w].newAttributed
     <=> /\ EventOf(Delivery(w), t) \in job[w].newEvents
         /\ ~Attributing(w, t)
         /\ p \in Takes(w, t)

LEMMA AttributesRightNext ==
  ASSUME RefinementInv, NEW w \in Workers, Working(w), Busy(w)'
  PROVE  AttributesRight(w)' /\ (job'[w].pc = "attribute" =>
                                   OpensAt(job[w].tenant, job'[w].windowStart, Delivery(w).at)
                                     /\ job'[w].tenant = job[w].tenant)
<1>0. /\ StampInv /\ TypeOK /\ TasksOwnTheirRows /\ PendingAttributions
      /\ job \in [Workers -> Job] /\ job[w] \in Job
  BY OrderFacts DEF RefinementInv, StampInv, TypeOK
<1>1. JobStep(w) /\ job'[w].pc # "idle" /\ UNCHANGED <<prRow, log>> /\ Busy(w)
  BY DEF Working, Busy
<1>2. UNCHANGED events /\ ~CommitShipment(w) /\ ~Deadlock(w)
  <2>1. ~CommitShipment(w)
    BY <1>0, <1>1 DEF CommitShipment, Idle
  <2>2. ~Deadlock(w)
    BY <1>0, <1>1 DEF Deadlock, Idle
  <2> QED
    BY <2>1, <2>2 DEF Working
<1>3. job'[w].delivery = job[w].delivery /\ Delivery(w)' = Delivery(w)
  BY <1>1 DEF Working, Idle, Delivery
<1>4. \A t \in Tenants : Takes(w, t)' = Takes(w, t)
  BY <1>1, <1>2, <1>3, TakesKept
<1>5. AttributesRight(w)
  BY <1>1 DEF RefinementInv, AttributesWhatWaits, AttributesRight
<1>6. \A t, u \in Tenants, p, q \in PRs :
         /\ EventOf(Delivery(w), t) = EventOf(Delivery(w), u) => t = u
         /\ [event |-> EventOf(Delivery(w), t), pr |-> p] = [event |-> EventOf(Delivery(w), u), pr |-> q]
              => t = u /\ p = q
  BY DEF EventOf
<1> DEFINE Opens == job'[w].pc = "attribute" =>
                      /\ OpensAt(job[w].tenant, job'[w].windowStart, Delivery(w).at)
                      /\ job'[w].tenant = job[w].tenant
           Rows == job'[w].newAttributed
           Right == \A t \in Tenants, p \in PRs :
                      [event |-> EventOf(Delivery(w), t), pr |-> p] \in Rows
                       <=> /\ EventOf(Delivery(w), t) \in job'[w].newEvents
                           /\ ~(job'[w].pc \in {"previous", "attribute"} /\ job'[w].tenant = t)
                           /\ p \in Takes(w, t)
<1>7. Right => AttributesRight(w)'
  BY <1>3, <1>4 DEF AttributesRight, Attributing
<1>8. ASSUME NEW t \in Tenants, SkipEnvironment(w, t) \/ DuplicateShipment(w, t)
      PROVE  Right /\ Opens
  BY <1>0, <1>5, <1>8 DEF SkipEnvironment, DuplicateShipment, PassOver, Job, AttributesRight, Attributing
<1>9. ASSUME NEW u \in Tenants, InsertShipment(w, u) PROVE Right /\ Opens
  <2>1. /\ job[w].pc = "repo" /\ u \in job[w].todo /\ job'[w].pc = "previous" /\ job'[w].tenant = u
        /\ job'[w].newEvents = job[w].newEvents \cup {EventOf(Delivery(w), u)}
        /\ job'[w].newAttributed = job[w].newAttributed
    BY <1>0, <1>9 DEF InsertShipment, Job
  <2>2. EventOf(Delivery(w), u) \notin job[w].newEvents
    <3>1. EventOf(Delivery(w), u).tenant = u
      BY DEF EventOf
    <3> QED
      BY <1>0, <2>1, <3>1 DEF TasksOwnTheirRows, OwnsItsRows
  <2>3. \A t \in Tenants, p \in PRs :
          [event |-> EventOf(Delivery(w), t), pr |-> p] \in job[w].newAttributed
            <=> EventOf(Delivery(w), t) \in job[w].newEvents /\ p \in Takes(w, t)
    BY <1>5, <2>1 DEF AttributesRight, Attributing
  <2> QED
    BY <1>6, <2>1, <2>2, <2>3
<1>10. ASSUME ReadPrevious(w) PROVE Right /\ Opens
  <2>1. /\ job[w].pc = "previous" /\ job'[w].pc = "attribute" /\ job'[w].tenant = job[w].tenant
        /\ job'[w].newEvents = job[w].newEvents /\ job'[w].newAttributed = job[w].newAttributed
    BY <1>0, <1>10 DEF ReadPrevious, Job
  <2>2. Right
    BY <1>5, <2>1 DEF AttributesRight, Attributing
  <2>3. EarlierShipments(w) = EventsIn(job[w].tenant)
    BY <1>0, <2>1, EarlierAreAll
  <2>4. OpensAt(job[w].tenant, job'[w].windowStart, Delivery(w).at)
    BY <1>0, <1>10, <2>3 DEF ReadPrevious, Job, OpensAt
  <2> QED
    BY <2>1, <2>2, <2>4
<1>11. ASSUME AttributePRs(w) PROVE Right /\ Opens
  <2> DEFINE u == job[w].tenant
             new == EventOf(Delivery(w), u)
  <2>1. /\ job[w].pc = "attribute" /\ job'[w].pc = "repo"
        /\ job'[w].newEvents = job[w].newEvents
        /\ job'[w].newAttributed =
             job[w].newAttributed \cup {[event |-> new, pr |-> p] : p \in MergedInWindow(w)}
    BY <1>0, <1>11 DEF AttributePRs, Job
  <2>2. u \in Tenants /\ new \in job[w].newEvents
    BY <1>0, <2>1 DEF TypeOK, Job, TasksOwnTheirRows, OwnsItsRows, Delivery
  <2>3. MergedInWindow(w) = Takes(w, u)
    BY <1>0, <2>1, WindowIsWhatWaits DEF RefinementInv, WindowOpensAtLast
  <2>4. Takes(w, u) \subseteq PRs
    BY DEF Takes, WaitingIn
  <2>5. \A t \in Tenants, p \in PRs :
          [event |-> EventOf(Delivery(w), t), pr |-> p] \in job[w].newAttributed
            <=> EventOf(Delivery(w), t) \in job[w].newEvents /\ t # u /\ p \in Takes(w, t)
    BY <1>5, <2>1 DEF AttributesRight, Attributing
  <2> HIDE DEF u
  <2>6. ASSUME NEW t \in Tenants, NEW p \in PRs
        PROVE  [event |-> EventOf(Delivery(w), t), pr |-> p] \in Rows
                 <=> EventOf(Delivery(w), t) \in job[w].newEvents /\ p \in Takes(w, t)
    <3>1. [event |-> EventOf(Delivery(w), t), pr |-> p] \in Rows
            <=> \/ [event |-> EventOf(Delivery(w), t), pr |-> p] \in job[w].newAttributed
                \/ t = u /\ p \in Takes(w, u)
      <4> DEFINE x == [event |-> EventOf(Delivery(w), t), pr |-> p]
      <4>1. \A q \in PRs : x = [event |-> new, pr |-> q] <=> t = u /\ p = q
        BY <1>6, <2>2
      <4> HIDE DEF x
      <4>2. x \in Rows <=> \/ x \in job[w].newAttributed
                           \/ \E q \in Takes(w, u) : x = [event |-> new, pr |-> q]
        BY <2>1, <2>3
      <4>3. (\E q \in Takes(w, u) : x = [event |-> new, pr |-> q]) <=> t = u /\ p \in Takes(w, u)
        BY <2>4, <4>1
      <4> QED
        BY <4>2, <4>3 DEF x
    <3> QED
      BY <2>2, <2>5, <3>1
  <2> QED
    BY <2>1, <2>6
<1> QED
  BY <1>1, <1>2, <1>7, <1>8, <1>9, <1>10, <1>11 DEF JobStep

LEMMA AttributingNext ==
  ASSUME RefinementInv, [OrderedNext]_vars
  PROVE  AttributesWhatWaits' /\ WindowOpensAtLast'
<1>0. /\ StampInv /\ TypeOK /\ MergesAreFinal /\ now > 0 /\ OneAtATime
      /\ AttributesWhatWaits /\ WindowOpensAtLast
  BY OrderFacts DEF RefinementInv, StampInv
<1> DEFINE Right(w) == /\ AttributesRight(w)
                       /\ job[w].pc = "attribute" =>
                            OpensAt(job[w].tenant, job[w].windowStart, Delivery(w).at)
           Goal == \A w \in Workers : Busy(w)' => Right(w)'
<1>1. Goal => AttributesWhatWaits' /\ WindowOpensAtLast'
  BY DEF AttributesWhatWaits, WindowOpensAtLast, AttributesRight, Busy
\* The task, its delivery, the rows and the events are as they were.
<1>2. ASSUME UNCHANGED <<prRow, events>>, NEW w \in Workers, job'[w] = job[w],
             Delivery(w)' = Delivery(w), Busy(w)
      PROVE  Right(w)'
  <2>1. Right(w)
    BY <1>0, <1>2 DEF AttributesWhatWaits, WindowOpensAtLast, AttributesRight
  <2>2. \A t \in Tenants : Takes(w, t)' = Takes(w, t)
    BY <1>2, TakesKept
  <2>3. AttributesRight(w)'
    BY <1>2, <2>1, <2>2 DEF AttributesRight, Attributing
  <2>4. ASSUME job[w].pc = "attribute"
        PROVE  OpensAt(job[w].tenant, job[w].windowStart, Delivery(w).at)'
    <3>1. job[w].tenant \in Tenants
      <4>1. job[w] \in Job /\ job[w].tenant \in job[w].todo
        BY <1>0, <2>4 DEF TypeOK
      <4> QED
        BY <4>1 DEF Job
    <3>2. EventsIn(job[w].tenant)' = EventsIn(job[w].tenant)
      BY <1>2 DEF EventsIn
    <3> QED
      BY <1>2, <2>1, <2>4, <3>2 DEF OpensAt
  <2> QED
    BY <1>2, <2>3, <2>4
<1>3. ASSUME NEW m \in Payload, Announced(m) PROVE Goal
  <2>1. PICK n \in Nat : Appended(n, m)
    BY <1>0, <1>3, AnnouncedAppends
  <2>2. \A w \in Workers : Busy(w) => Delivery(w)' = Delivery(w)
    BY <1>0, <1>3, <2>1 DEF Announced, Appended, TypeOK, Busy, Delivery
  <2> QED
    BY <1>2, <1>3, <2>2 DEF Announced, Busy
<1>4. ASSUME NEW i \in queue, Taken(i) PROVE Goal
  <2>1. CASE UNCHANGED job
    BY <1>4, <2>1 DEF Taken, Busy
  <2>2. ASSUME NEW w \in Workers, BeginShipment(w, i) PROVE Goal
    <3>1. /\ job'[w].pc = "repo" /\ job'[w].newEvents = {} /\ job'[w].newAttributed = {}
          /\ \A v \in Workers \ {w} : job'[v] = job[v]
      BY <1>0, <2>2 DEF BeginShipment, TypeOK, Idle
    <3>2. Right(w)'
      BY <3>1 DEF AttributesRight
    <3>3. \A v \in Workers \ {w} : ~Busy(v)'
      BY <1>4, <3>1 DEF Taken, Busy
    <3> QED
      BY <3>2, <3>3
  <2> QED
    BY <1>4, <2>1, <2>2 DEF Taken, HandlePullRequest
<1>5. ASSUME NEW w \in Workers, Working(w) PROVE Goal
  <2>1. \A v \in Workers \ {w} : ~Busy(v)'
    BY <1>0, <1>5 DEF Working, OneAtATime, Busy
  <2>2. ASSUME Busy(w)' PROVE Right(w)'
    <3>1. AttributesRight(w)'
      BY <1>5, <2>2, AttributesRightNext
    <3>2. Delivery(w)' = Delivery(w) /\ UNCHANGED <<prRow, events>>
      BY <1>0, <1>5, <2>2 DEF Working, Busy, Idle, Delivery, CommitShipment, TypeOK
    <3>3. ASSUME job'[w].pc = "attribute"
          PROVE  OpensAt(job[w].tenant, job[w].windowStart, Delivery(w).at)'
      <4>1. OpensAt(job[w].tenant, job'[w].windowStart, Delivery(w).at) /\ job'[w].tenant = job[w].tenant
        BY <1>5, <2>2, <3>3, AttributesRightNext
      <4>2. EventsIn(job[w].tenant)' = EventsIn(job[w].tenant)
        BY <3>2, <4>1 DEF EventsIn
      <4> QED
        BY <3>2, <4>1, <4>2 DEF OpensAt
    <3> QED
      BY <3>1, <3>3
  <2> QED
    BY <2>1, <2>2
<1>6. ASSUME Unheard PROVE Goal
  BY <1>2, <1>6 DEF Unheard, Busy, Delivery
<1> HIDE DEF Goal
<1>7. Goal
  BY <1>0, <1>3, <1>4, <1>5, <1>6, OrderedSteps
<1> QED
  BY <1>1, <1>7

LEMMA RefinementInvInit == Init => RefinementInv
  BY OrderInvInit DEF Init, RefinementInv, StampInv, InTime, MergeIsLast, EventsWereDelivered,
     AttributesWhatWaits, WindowOpensAtLast, Busy, Idle

LEMMA RefinementInvNext ==
  ASSUME NoTies, RefinementInv, [OrderedNext]_vars
  PROVE  RefinementInv'
  BY OrderInvNext, InTimeNext, DeliveredNext, AttributingNext DEF RefinementInv, StampInv

-----------------------------------------------------------------------------
(***************************************************************************)
(* Each step is a step of every workspace's ledger, or a stutter.          *)
(***************************************************************************)
LedgerStep(t) == [Ledger(t)!Next]_(Ledger(t)!vars)

LEMMA LedgerStutters ==
  ASSUME UNCHANGED <<prRow, events, attributed>>, NEW t \in Tenants
  PROVE  LedgerStep(t)
  BY DEF LedgerStep, Ledger!vars, LandedIn, EventsIn, WaitingIn

LEMMA LedgerInit ==
  ASSUME Init, NEW t \in Tenants
  PROVE  Ledger(t)!Init
<1>1. LandedIn(t) = [p \in PRs |-> 0]
  BY DEF Init, LandedIn, NoRow
<1>2. WaitingIn(t) = {}
  BY <1>1 DEF WaitingIn
<1> QED
  BY <1>1, <1>2 DEF Init, Ledger!Init, EventsIn

\* Handling a payload lands its pull request, or tells nothing new of it.
LEMMA PayloadLands ==
  ASSUME RefinementInv, NEW i \in queue, Taken(i), HandlePullRequest(i), NEW t \in Tenants
  PROVE  LedgerStep(t)
<1>0. /\ StampInv /\ TypeOK /\ RowsFollow /\ QueueIsLatest /\ queue \subseteq DOMAIN log
      /\ InTime /\ MergeIsLast /\ EventsWereDelivered
      /\ \A j \in DOMAIN log : j \in Nat /\ log[j] \in Payload
  BY OrderFacts DEF RefinementInv, StampInv
<1> DEFINE p == log[i].pr
<1>1. i \in DOMAIN log /\ log[i].event = "pull_request" /\ log[i] \in PullRequestPayload /\ p \in PRs
  <2>1. i \in DOMAIN log /\ log[i].event = "pull_request"
    BY <1>0 DEF HandlePullRequest
  <2> QED
    BY <1>0, <2>1, PayloadKinds DEF PullRequestPayload
<1>2. UNCHANGED <<events, attributed>> /\ EventsIn(t)' = EventsIn(t)
  BY DEF Taken, EventsIn
<1>3. \/ prRow'[t] = prRow[t]
      \/ log[i].action \in HandledPRActions /\ prRow'[t] = [prRow[t] EXCEPT ![p] = Upsert(@, log[i])]
  BY <1>0 DEF HandlePullRequest, TypeOK
<1>4. \A q \in PRs \ {p} : prRow'[t][q] = prRow[t][q]
  BY <1>0, <1>1, <1>3 DEF TypeOK
<1>5. \A q \in PRs \ {p} : LandedIn(t)'[q] = LandedIn(t)[q]
  BY <1>4 DEF LandedIn
<1>6. LandedIn(t)' \in [PRs -> Nat] /\ LandedIn(t) \in [PRs -> Nat]
  <2>1. TypeOK'
    BY <1>0, <1>1, PullRequestType
  <2> QED
    BY <1>0, <2>1 DEF LandedIn, TypeOK, Row
<1> HIDE DEF p
<1>7. CASE LandedIn(t)'[p] = LandedIn(t)[p]
  <2>1. LandedIn(t)' = LandedIn(t)
    BY <1>1, <1>5, <1>6, <1>7
  <2>2. WaitingIn(t)' = WaitingIn(t)
    BY <1>2, <2>1 DEF WaitingIn
  <2> QED
    BY <1>2, <2>1, <2>2 DEF LedgerStep, Ledger!vars
<1>8. CASE LandedIn(t)'[p] # LandedIn(t)[p]
  <2>1. log[i].action \in HandledPRActions /\ prRow'[t][p] = Upsert(prRow[t][p], log[i])
    <3>1. prRow'[t] # prRow[t]
      BY <1>8 DEF LandedIn
    <3> QED
      BY <1>0, <1>1, <1>3, <3>1 DEF TypeOK, p
  <2>2. Tells(log[i], p)
    BY <1>1, <2>1 DEF Tells, p
  \* A pull request that had landed was merged: it has no later payload.
  <2>3. LandedIn(t)[p] = 0
    <3> SUFFICES ASSUME LandedIn(t)[p] # 0 PROVE FALSE
      OBVIOUS
    <3>1. prRow[t][p].known /\ LandedIn(t)[p] = prRow[t][p].mergedAt
      BY <1>1 DEF LandedIn
    <3>2. PICK j \in DOMAIN log : Stores(prRow[t][p], p, j)
      BY <1>0, <1>1, <3>1 DEF RowsFollow
    <3>3. MergedAtOf(log[j]) # 0
      BY <3>1, <3>2 DEF Stores, SameState, Told, Upsert
    <3>4. log[j].event = "pull_request" /\ log[j].mergedAt # 0 /\ log[j].pr = p /\ j \notin queue
      BY <3>2, <3>3 DEF MergedAtOf, Stores, Tells
    <3>5. j < i
      BY <1>0, <1>1, <3>4 DEF QueueIsLatest
    <3> QED
      BY <1>0, <1>1, <3>4, <3>5 DEF MergeIsLast, p
  <2>4. LandedIn(t)'[p] # 0 /\ LandedIn(t)'[p] = prRow'[t][p].mergedAt
    BY <1>1, <1>8, <2>3 DEF LandedIn
  <2>5. LandedIn(t)'[p] = Stamp(log[i]) /\ Stamp(log[i]) # 0
    BY <1>1, <2>1, <2>4 DEF Upsert, MergedAtOf, Stamp
  <2>6. \A e \in EventsIn(t) : e.at < LandedIn(t)'[p]
    <3> SUFFICES ASSUME NEW e \in EventsIn(t) PROVE e.at < Stamp(log[i])
      BY <2>5
    <3>1. PICK j \in DOMAIN log \ queue : log[j].event \in Sources /\ log[j].at = e.at
      BY <1>0 DEF EventsIn, EventsWereDelivered
    <3>2. Stamp(log[j]) = e.at /\ j < i
      BY <1>0, <1>1, <3>1 DEF Stamp, Sources, QueueIsLatest
    <3> QED
      BY <1>0, <1>1, <2>5, <3>2 DEF InTime
  <2>7. WaitingIn(t)' = WaitingIn(t) \cup {p}
    BY <1>1, <1>2, <1>5, <2>4, <2>6 DEF WaitingIn
  <2>8. Ledger(t)!Land(p)
    BY <1>2, <1>5, <1>6, <2>3, <2>4, <2>7 DEF Ledger!Land
  <2> QED
    BY <1>1, <2>8 DEF LedgerStep, Ledger!Next
<1> QED
  BY <1>7, <1>8

\* The commit of a shipment is, in each workspace that counts it, the
\* shipment of the ledger; in the others nothing happens.
LEMMA CommitShips ==
  ASSUME RefinementInv, NEW w \in Workers, Working(w), CommitShipment(w), NEW t \in Tenants
  PROVE  LedgerStep(t)
<1>0. /\ StampInv /\ TypeOK /\ TasksOwnTheirRows /\ PendingAttributions /\ KeysAreLocked
      /\ AttributesWhatWaits /\ Busy(w)
  BY OrderFacts DEF RefinementInv, StampInv, Working
<1> DEFINE s == EventOf(Delivery(w), t)
           pending == {a \in job[w].newAttributed : a.event.tenant = t}
<1>1. /\ UNCHANGED prRow /\ LandedIn(t)' = LandedIn(t) /\ job[w].pc = "repo"
      /\ events' = events \cup job[w].newEvents
      /\ attributed' = attributed \cup job[w].newAttributed
  BY DEF Working, CommitShipment, LandedIn
<1>2. s.tenant = t /\ s.at = Delivery(w).at
  BY DEF EventOf
<1>3. \A e \in job[w].newEvents : e.tenant = t => e = s
  BY <1>0, OwnEvents
<1>4. \A a \in job[w].newAttributed :
        a.event \in job[w].newEvents /\ a.pr \in PRs /\ a = [event |-> a.event, pr |-> a.pr]
  BY <1>0 DEF PendingAttributions, TypeOK, Job, Attribution
<1>5. \A p \in PRs : [event |-> s, pr |-> p] \in job[w].newAttributed
                       <=> s \in job[w].newEvents /\ p \in Takes(w, t)
  BY <1>0, <1>1 DEF AttributesWhatWaits, Attributing
<1>6. s \in Event
  BY <1>0, DeliveryType DEF Busy
<1>7. {a \in attributed' : a.event.tenant = t} = {a \in attributed : a.event.tenant = t} \cup pending
  BY <1>1
<1> HIDE DEF s
<1>8. CASE s \notin job[w].newEvents
  <2>1. EventsIn(t)' = EventsIn(t)
    BY <1>1, <1>3, <1>8 DEF EventsIn
  <2>2. pending = {}
    BY <1>3, <1>4, <1>8
  <2>3. WaitingIn(t)' = WaitingIn(t)
    BY <1>1, <2>1 DEF WaitingIn
  <2> HIDE DEF pending
  <2>4. {a \in attributed' : a.event.tenant = t} = {a \in attributed : a.event.tenant = t}
    BY <1>7, <2>2
  <2> QED
    BY <1>1, <2>1, <2>3, <2>4 DEF LedgerStep, Ledger!vars
<1>9. CASE s \in job[w].newEvents
  <2>1. EventsIn(t)' = EventsIn(t) \cup {s}
    BY <1>1, <1>2, <1>3, <1>9 DEF EventsIn
  <2>2. s \notin EventsIn(t)
    BY <1>0, <1>9, KeyOfItself DEF KeysAreLocked, HasKey, EventsIn
  <2>4. Takes(w, t) \subseteq PRs
    BY DEF Takes, WaitingIn
  <2>5. pending = {[event |-> s, pr |-> p] : p \in Takes(w, t)}
    <3>1. ASSUME NEW a \in pending PROVE a \in {[event |-> s, pr |-> p] : p \in Takes(w, t)}
      <4>1. a.event = s /\ a.pr \in PRs /\ a = [event |-> s, pr |-> a.pr] /\ a \in job[w].newAttributed
        BY <1>3, <1>4
      <4>2. a.pr \in Takes(w, t)
        BY <1>5, <4>1
      <4> QED
        BY <4>1, <4>2
    <3>2. ASSUME NEW p \in Takes(w, t) PROVE [event |-> s, pr |-> p] \in pending
      BY <1>2, <1>5, <1>9, <2>4
    <3> HIDE DEF pending
    <3> QED
      BY <3>1, <3>2
  <2>6. WaitingIn(t)' = {}
    <3>1. \A p \in PRs : LandedIn(t)[p] # 0 => LandedIn(t)[p] \in Nat /\ LandedIn(t)[p] < s.at
      BY <1>0, <1>2, LandedBefore
    <3>2. s.at \in Nat
      BY <1>0, <1>2, HandledBefore
    <3> QED
      BY <1>1, <2>1, <3>1, <3>2 DEF WaitingIn
  <2> HIDE DEF pending
  <2>7. PICK r : r = s
    OBVIOUS
  <2>8. Ledger(t)!Carried(r) = Takes(w, t)
    BY <1>2, <2>7 DEF Ledger!Carried, Takes
  <2>9. /\ r \in EventsIn(t)' /\ r \in Event
        /\ Ledger(t)!ShipOut(r)
    BY <1>1, <1>6, <1>7, <2>1, <2>2, <2>5, <2>6, <2>7, <2>8 DEF Ledger!ShipOut
  <2> QED
    BY <2>9 DEF LedgerStep, Ledger!Next
<1> QED
  BY <1>8, <1>9

\* In order and without ties, every workspace's tables implement the abstract
\* ledger: a merged pull request goes to the first shipment after it.
THEOREM ImplementsTheLedger ==
  ASSUME NoTies
  PROVE  OrderedSpec => ImplementsLedger
<1>1. Init => RefinementInv /\ \A t \in Tenants : Ledger(t)!Init
  BY RefinementInvInit, LedgerInit
<1>2. RefinementInv /\ [OrderedNext]_vars => RefinementInv'
  BY RefinementInvNext
<1>3. RefinementInv /\ [OrderedNext]_vars
        => [\A t \in Tenants : [Ledger(t)!Next]_(Ledger(t)!vars)]_vars
  <2> SUFFICES ASSUME RefinementInv, [OrderedNext]_vars, NEW t \in Tenants PROVE LedgerStep(t)
    BY DEF LedgerStep
  <2>1. TypeOK /\ MergesAreFinal /\ now > 0
    BY OrderFacts DEF RefinementInv, StampInv
  <2>2. ASSUME NEW i \in queue, Taken(i) PROVE LedgerStep(t)
    BY <2>2, PayloadLands, LedgerStutters DEF Taken
  <2>3. ASSUME NEW w \in Workers, Working(w) PROVE LedgerStep(t)
    BY <2>3, CommitShips, LedgerStutters DEF Working
  <2> QED
    BY <2>1, <2>2, <2>3, OrderedSteps, LedgerStutters DEF Announced, Unheard
<1> QED
  BY <1>1, <1>2, <1>3, PTL DEF OrderedSpec, ImplementsLedger

-----------------------------------------------------------------------------
(***************************************************************************)
(* One shipment for each pull request.                                     *)
(***************************************************************************)
\* What has been attributed waits no longer.
LEMMA AttributedWaitsNoMore ==
  ASSUME OrderInv, NEW a \in attributed
  PROVE  a.pr \notin WaitingIn(a.event.tenant)
<1> DEFINE t == a.event.tenant
<1>1. /\ a.event \in events /\ t \in Tenants /\ a.pr \in PRs
      /\ a.event.at \in Nat /\ pull[a.pr].mergedAt \in Nat
      /\ pull[a.pr].mergedAt <= a.event.at
  <2>1. TypeOK /\ a \in Attribution /\ AttributedWasMerged
    BY OrderFacts DEF OrderInv, AttributionInv, TypeOK
  <2> QED
    BY <2>1 DEF AttributedWasMerged, TypeOK, Attribution, Event
<1>2. LandedIn(t)[a.pr] # 0 => LandedIn(t)[a.pr] = pull[a.pr].mergedAt
  BY <1>1 DEF LandedIn, OrderInv, AttributionInv, MergeInv, RowsTellTheMerge
<1>3. a.event \in EventsIn(t)
  BY <1>1 DEF EventsIn
<1> HIDE DEF t
<1>4. ASSUME a.pr \in WaitingIn(t) PROVE FALSE
  BY <1>1, <1>2, <1>3, <1>4 DEF WaitingIn
<1> QED
  BY <1>4 DEF t

LEMMA FirstShipmentNext ==
  ASSUME RefinementInv, FirstShipmentOnly, [OrderedNext]_vars
  PROVE  FirstShipmentOnly'
<1>0. /\ OrderInv /\ TypeOK /\ MergesAreFinal /\ now > 0 /\ TasksOwnTheirRows /\ PendingAttributions
      /\ AttributesWhatWaits
  BY OrderFacts DEF RefinementInv, StampInv
<1>1. CASE UNCHANGED attributed
  BY <1>1 DEF FirstShipmentOnly
<1>2. ASSUME NEW w \in Workers, Working(w), CommitShipment(w) PROVE FirstShipmentOnly'
  <2>1. attributed' = attributed \cup job[w].newAttributed
    BY <1>2 DEF CommitShipment
  <2>2. ASSUME NEW a \in job[w].newAttributed
        PROVE  /\ a.event = EventOf(Delivery(w), a.event.tenant)
               /\ a = [event |-> a.event, pr |-> a.pr]
               /\ a.pr \in WaitingIn(a.event.tenant)
    <3>1. /\ a.event \in job[w].newEvents /\ a.event.tenant \in Tenants /\ a.pr \in PRs
          /\ a = [event |-> a.event, pr |-> a.pr]
      BY <1>0 DEF PendingAttributions, TypeOK, Job, Attribution, Event
    <3>2. a.event = EventOf(Delivery(w), a.event.tenant)
      BY <1>0, <3>1, OwnEvents
    <3>3. a.pr \in Takes(w, a.event.tenant)
      BY <1>0, <1>2, <3>1, <3>2 DEF AttributesWhatWaits, Working
    <3> QED
      BY <3>1, <3>2, <3>3 DEF Takes
  <2> SUFFICES ASSUME NEW a \in attributed', NEW b \in attributed',
                      a.pr = b.pr, a.event.tenant = b.event.tenant
               PROVE  a = b
    BY DEF FirstShipmentOnly
  <2>3. CASE a \in job[w].newAttributed /\ b \in job[w].newAttributed
    BY <2>2, <2>3
  <2>4. CASE a \notin job[w].newAttributed /\ b \notin job[w].newAttributed
    BY <2>1, <2>4 DEF FirstShipmentOnly
  <2>5. CASE a \in job[w].newAttributed /\ b \notin job[w].newAttributed
    BY <1>0, <2>1, <2>2, <2>5, AttributedWaitsNoMore
  <2>6. CASE a \notin job[w].newAttributed /\ b \in job[w].newAttributed
    BY <1>0, <2>1, <2>2, <2>6, AttributedWaitsNoMore
  <2> QED
    BY <2>3, <2>4, <2>5, <2>6
<1> QED
  BY <1>0, <1>1, <1>2, OrderedSteps DEF Announced, Taken, Working, Unheard

\* What the proposal says of attribution, a pull request goes to the first
\* production deployment that follows its merge, is true of deliveries
\* handled in order: no later shipment carries it again.
THEOREM FirstShipmentInOrder ==
  ASSUME NoTies
  PROVE  OrderedSpec => []FirstShipmentOnly
<1>1. Init => RefinementInv /\ FirstShipmentOnly
  BY RefinementInvInit DEF Init, FirstShipmentOnly
<1>2. RefinementInv /\ FirstShipmentOnly /\ [OrderedNext]_vars
        => (RefinementInv /\ FirstShipmentOnly)'
  BY RefinementInvNext, FirstShipmentNext
<1> QED
  BY <1>1, <1>2, PTL DEF OrderedSpec
=============================================================================
