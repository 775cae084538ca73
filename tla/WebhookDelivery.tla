--------------------------- MODULE WebhookDelivery ---------------------------
(***************************************************************************)
(* The webhook endpoint and the dispatcher behind it: what happens to one  *)
(* delivery between GitHub's POST and the audit row it leaves.             *)
(*                                                                         *)
(* A request that passes the signature, content type and size checks       *)
(* inserts a webhook_events row, answers 200 and goes on as a background   *)
(* task that runs every handler registered for the event in one session,   *)
(* committing after each.  Receipt and outcome are transactions of their   *)
(* own.  A rejected request leaves no trace and is not modelled.  GitHub   *)
(* may send a delivery more than once, also while it is being handled.     *)
(***************************************************************************)
EXTENDS Integers

CONSTANTS
  Deliveries,      \* X-GitHub-Delivery ids
  EVENT_HANDLERS,  \* how many handlers are registered for the delivery's event
  Tasks,           \* requests being served, each with its background task
  MaxSends,        \* bound: how often GitHub sends one delivery
  MaxCrashes,      \* bound: crashes and unreachable databases
  None             \* no delivery

ASSUME ConstantsOK ==
  /\ EVENT_HANDLERS \in [Deliveries -> Nat]
  /\ {MaxSends, MaxCrashes} \subseteq Nat
  /\ None \notin Deliveries

Terminal == {"no_handler", "skipped", "failed", "succeeded"}
Handlers(d) == 1 .. EVENT_HANDLERS[d]

VARIABLES
  row,           \* webhook_events.status per delivery, "none" without a row
  acknowledged,  \* deliveries GitHub got a 200 for
  task,          \* the requests and their background tasks
  applied,       \* committed work: <<delivery, run, handler>>
  \* What happened, kept for the properties only.
  raised,        \* <<delivery, run, handler>> of handlers that raised
  finished,      \* dispatches that recorded their outcome
  lost,          \* deliveries a crash took a task of
  \* Counters of the bounds; sent also numbers the runs of a delivery.
  sent, crashes

vars == <<row, acknowledged, task, applied, raised, finished, lost, sent, crashes>>

Task ==
  [pc: {"idle", "arrived", "accepted", "handler", "commit", "outcome"},
   delivery: Deliveries \cup {None}, run: Nat,
   next: Nat,               \* the handler whose turn it is
   done: SUBSET Nat, skipped: SUBSET Nat, failed: SUBSET Nat,   \* handlers, by outcome
   pending: SUBSET Nat]     \* handlers with work the session has not committed
Idle ==
  [pc |-> "idle", delivery |-> None, run |-> 0, next |-> 1,
   done |-> {}, skipped |-> {}, failed |-> {}, pending |-> {}]

Work == Deliveries \X Nat \X Nat

TypeOK ==
  /\ row \in [Deliveries -> {"none", "received"} \cup Terminal]
  /\ acknowledged \subseteq Deliveries /\ lost \subseteq Deliveries
  /\ task \in [Tasks -> Task]
  /\ \A w \in Tasks : task[w].pc # "idle" => task[w].delivery \in Deliveries
  /\ \A w \in Tasks : task[w].pc \in {"handler", "commit"} =>
       task[w].next \in Handlers(task[w].delivery)
  /\ applied \subseteq Work /\ raised \subseteq Work
  /\ finished \subseteq Task
  /\ sent \in [Deliveries -> Nat] /\ crashes \in Nat

Init ==
  /\ row = [d \in Deliveries |-> "none"]
  /\ acknowledged = {} /\ lost = {}
  /\ task = [w \in Tasks |-> Idle]
  /\ applied = {} /\ raised = {} /\ finished = {}
  /\ sent = [d \in Deliveries |-> 0] /\ crashes = 0

-----------------------------------------------------------------------------
\* POST /webhooks/github, with a valid request (external: GitHub sends it).
Receive(w, d) ==
  /\ task[w].pc = "idle"
  /\ sent[d] < MaxSends
  /\ sent' = [sent EXCEPT ![d] = @ + 1]
  /\ task' = [task EXCEPT ![w] =
       [Idle EXCEPT !.pc = "arrived", !.delivery = d, !.run = sent[d] + 1]]
  /\ UNCHANGED <<row, acknowledged, applied, raised, finished, lost, crashes>>

\* Faulty variants (named Faulty...) are slips the properties must notice; no
\* specification uses them.  Here: ON CONFLICT DO UPDATE.
FaultyRecordReceived(w) ==
  /\ task[w].pc = "arrived"
  /\ row' = [row EXCEPT ![task[w].delivery] = "received"]
  /\ task' = [task EXCEPT ![w].pc = "accepted"]
  /\ UNCHANGED <<acknowledged, applied, raised, finished, lost, sent, crashes>>

\* INSERT ... ON CONFLICT (delivery_id) DO NOTHING, committed.
RecordReceived(w) ==
  /\ task[w].pc = "arrived"
  /\ row' = [row EXCEPT ![task[w].delivery] = IF @ = "none" THEN "received" ELSE @]
  /\ task' = [task EXCEPT ![w].pc = "accepted"]
  /\ UNCHANGED <<acknowledged, applied, raised, finished, lost, sent, crashes>>

\* Here: nothing is recorded for an event without handlers.
FaultyRespond(w) ==
  /\ task[w].pc = "accepted"
  /\ acknowledged' = acknowledged \cup {task[w].delivery}
  /\ task' = IF EVENT_HANDLERS[task[w].delivery] = 0
               THEN [task EXCEPT ![w] = Idle] ELSE [task EXCEPT ![w].pc = "handler"]
  /\ UNCHANGED <<row, applied, raised, finished, lost, sent, crashes>>

\* The 200, after which the background task starts; whether the row was there
\* before is not looked at.
Respond(w) ==
  /\ task[w].pc = "accepted"
  /\ acknowledged' = acknowledged \cup {task[w].delivery}
  /\ task' = [task EXCEPT ![w].pc =
       IF EVENT_HANDLERS[task[w].delivery] = 0 THEN "outcome" ELSE "handler"]
  /\ UNCHANGED <<row, applied, raised, finished, lost, sent, crashes>>

-----------------------------------------------------------------------------
(***************************************************************************)
(* _dispatch_event                                                         *)
(***************************************************************************)
\* Here: one handler too many.
FaultyNextHandler(t) ==
  [t EXCEPT !.next = @ + 1, !.pending = {},
            !.pc = IF t.next > EVENT_HANDLERS[t.delivery] THEN "outcome" ELSE "handler"]

\* What task t becomes when its current handler is through.
NextHandler(t) ==
  [t EXCEPT !.next = @ + 1, !.pending = {},
            !.pc = IF t.next = EVENT_HANDLERS[t.delivery] THEN "outcome" ELSE "handler"]
WorkOf(t, k) == <<t.delivery, t.run, k>>

\* A handler flushes part of its work.
HandlerWrites(w) ==
  /\ task[w].pc = "handler"
  /\ task' = [task EXCEPT ![w].pending = @ \cup {task[w].next}]
  /\ UNCHANGED <<row, acknowledged, applied, raised, finished, lost, sent, crashes>>

HandlerReturns(w) ==
  /\ task[w].pc = "handler"
  /\ \/ task' = [task EXCEPT ![w].pc = "commit", ![w].done = @ \cup {task[w].next}]
     \/ task' = [task EXCEPT ![w].pc = "commit", ![w].skipped = @ \cup {task[w].next}]
  /\ UNCHANGED <<row, acknowledged, applied, raised, finished, lost, sent, crashes>>

CommitHandler(w) ==
  /\ task[w].pc = "commit"
  /\ applied' = applied \cup {WorkOf(task[w], k) : k \in task[w].pending}
  /\ task' = [task EXCEPT ![w] = NextHandler(@)]
  /\ UNCHANGED <<row, acknowledged, raised, finished, lost, sent, crashes>>

\* What the error makes of task t: the current handler has failed, whatever
\* it returned before its commit raised.
Failing(t) ==
  [t EXCEPT !.failed = @ \cup {t.next}, !.done = @ \ {t.next}, !.skipped = @ \ {t.next}]

\* Here: without the rollback.
FaultyHandlerRaises(w) ==
  /\ task[w].pc \in {"handler", "commit"}
  /\ task' = [task EXCEPT ![w] = [NextHandler(Failing(@)) EXCEPT !.pending = task[w].pending]]
  /\ raised' = raised \cup {WorkOf(task[w], task[w].next)}
  /\ UNCHANGED <<row, acknowledged, applied, finished, lost, sent, crashes>>

\* The handler or its commit raises: the session is rolled back and the next
\* handler has its turn.
HandlerRaises(w) ==
  /\ task[w].pc \in {"handler", "commit"}
  /\ task' = [task EXCEPT ![w] = NextHandler(Failing(@))]
  /\ raised' = raised \cup {WorkOf(task[w], task[w].next)}
  /\ UNCHANGED <<row, acknowledged, applied, finished, lost, sent, crashes>>

\* Here: the skipped handlers are looked at before the failed ones.
FaultyStatus(t) ==
  IF EVENT_HANDLERS[t.delivery] = 0 THEN "no_handler"
  ELSE IF t.skipped # {} /\ t.done = {} THEN "skipped"
  ELSE IF t.failed # {} THEN "failed"
  ELSE "succeeded"

Status(t) ==
  IF EVENT_HANDLERS[t.delivery] = 0 THEN "no_handler"
  ELSE IF t.failed # {} THEN "failed"
  ELSE IF t.done = {} THEN "skipped"
  ELSE "succeeded"

\* record_webhook_outcome: the last dispatch to finish decides the status.
RecordOutcome(w) ==
  LET t == task[w] IN
  /\ t.pc = "outcome"
  /\ row' = [row EXCEPT ![t.delivery] = IF @ = "none" THEN @ ELSE Status(t)]
  /\ finished' = finished \cup {t}
  /\ task' = [task EXCEPT ![w] = Idle]
  /\ UNCHANGED <<acknowledged, applied, raised, lost, sent, crashes>>

\* Tasks die with their process, or with the database connection they need to
\* record a receipt or an outcome; the session of a handler is rolled back.
Crash ==
  /\ crashes < MaxCrashes
  /\ crashes' = crashes + 1
  /\ \E down \in SUBSET {w \in Tasks : task[w].pc # "idle"} :
       /\ task' = [w \in Tasks |-> IF w \in down THEN Idle ELSE task[w]]
       /\ lost' = lost \cup {task[w].delivery : w \in down}
  /\ UNCHANGED <<row, acknowledged, applied, raised, finished, sent>>

TaskStep(w) ==
  \/ RecordReceived(w) \/ Respond(w)
  \/ HandlerReturns(w) \/ CommitHandler(w) \/ HandlerRaises(w)
  \/ RecordOutcome(w)

Next ==
  \/ \E w \in Tasks : TaskStep(w) \/ HandlerWrites(w) \/ \E d \in Deliveries : Receive(w, d)
  \/ Crash

Spec == Init /\ [][Next]_vars

\* The event loop goes on with every request and background task it has.
FairSpec == Spec /\ \A w \in Tasks : WF_vars(TaskStep(w))

-----------------------------------------------------------------------------
(***************************************************************************)
(* Properties                                                              *)
(***************************************************************************)
\* server/README.md:201: every accepted delivery is recorded.  A delivery that
\* GitHub got a 200 for has a row, and the row says "received" exactly until a
\* dispatch of it has recorded its outcome, whatever crashes and repeated
\* sends come in between: the rows the runbook's query for stuck deliveries
\* finds are those whose dispatch is running or died.
NothingLostSilently ==
  /\ \A d \in acknowledged : row[d] # "none"
  /\ \A d \in Deliveries : row[d] \in Terminal <=> \E f \in finished : f.delivery = d

\* A terminal status is true of a dispatch that ran every handler: "succeeded"
\* and "skipped" of one in which none raised, "failed" of one in which some did.
AuditIsHonest ==
  \A d \in Deliveries : row[d] \in Terminal =>
    \E f \in finished :
      /\ f.delivery = d
      /\ Handlers(d) = f.done \cup f.skipped \cup f.failed
      /\ row[d] = "no_handler" <=> Handlers(d) = {}
      /\ row[d] = "failed" <=> f.failed # {}
      /\ row[d] = "skipped" => f.done = {}

\* A handler that raised leaves nothing behind, although the handlers after it
\* commit in the same session.
FailedHandlersLeaveNothing == applied \cap raised = {}

\* A recorded delivery gets its outcome unless a crash took a task of it.
DeliveriesAreSettled ==
  \A d \in Deliveries : row[d] = "received" ~> row[d] \in Terminal \/ d \in lost
=============================================================================
