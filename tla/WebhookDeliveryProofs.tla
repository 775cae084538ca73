------------------------ MODULE WebhookDeliveryProofs ------------------------
(***************************************************************************)
(* Proofs about webhook deliveries, for any number of deliveries, handlers *)
(* and concurrent tasks.                                                   *)
(***************************************************************************)
EXTENDS WebhookDelivery, TLAPS

Ran(t) == t.done \cup t.skipped \cup t.failed

\* What a task has behind it: its row from "accepted" on, and every handler
\* before the current one.
TasksOK ==
  \A w \in Tasks : LET t == task[w] IN
    /\ t.pc \in {"accepted", "handler", "commit", "outcome"} => row[t.delivery] # "none"
    /\ t.pc \in {"arrived", "accepted"} => Ran(t) = {} /\ t.next = 1
    /\ t.pc = "handler" => Ran(t) = 1 .. (t.next - 1)
    /\ t.pc = "commit" => Ran(t) = 1 .. t.next
    /\ t.pc = "outcome" => Ran(t) = Handlers(t.delivery)

\* A terminal status is the status of a dispatch that finished.
RowsOK ==
  /\ \A f \in finished : f.delivery \in Deliveries /\ Ran(f) = Handlers(f.delivery)
  /\ \A d \in acknowledged : row[d] # "none"
  /\ \A f \in finished : row[f.delivery] \in Terminal
  /\ \A d \in Deliveries : row[d] \in Terminal =>
       \E f \in finished : f.delivery = d /\ row[d] = Status(f)

\* Runs of a delivery are numbered as they are sent, so tasks do not share one.
RunsOK ==
  /\ \A w \in Tasks : task[w].pc # "idle" =>
       1 <= task[w].run /\ task[w].run <= sent[task[w].delivery]
  /\ \A v, w \in Tasks :
       task[v].pc # "idle" /\ task[w].pc # "idle" /\ task[v].delivery = task[w].delivery
         /\ task[v].run = task[w].run => v = w

\* A task's work is that of the current handler, which has neither committed
\* nor raised; what is committed or raised belongs to a handler before it.
WorkOK ==
  /\ \A x \in applied \cup raised : x[1] \in Deliveries /\ x[2] <= sent[x[1]]
  /\ \A w \in Tasks : LET t == task[w] IN
       /\ t.pending \subseteq IF t.pc \in {"handler", "commit"} THEN {t.next} ELSE {}
       /\ t.pc # "idle" => \A x \in applied \cup raised :
            x[1] = t.delivery /\ x[2] = t.run => x[3] < t.next

IInv ==
  /\ TypeOK /\ TasksOK /\ RowsOK /\ RunsOK /\ WorkOK
  /\ FailedHandlersLeaveNothing

-----------------------------------------------------------------------------
LEMMA Initially == Init => IInv
  BY ConstantsOK DEF Init, IInv, TypeOK, TasksOK, RowsOK, RunsOK, WorkOK, FailedHandlersLeaveNothing,
       Idle, Task, Terminal, Ran

\* A new request has a run number of its own.
LEMMA ReceiveKeeps ==
  ASSUME IInv, NEW w \in Tasks, NEW d \in Deliveries, Receive(w, d)
  PROVE  IInv'
<1> USE DEF IInv
<1>1. TypeOK'
  <2>1. sent[d] \in Nat
    BY DEF TypeOK
  <2>2. [Idle EXCEPT !.pc = "arrived", !.delivery = d, !.run = sent[d] + 1] \in Task
    <3>1. Idle \in Task
      BY DEF Idle, Task
    <3>2. sent[d] + 1 \in Nat /\ "arrived" \in {"arrived"}
      BY <2>1
    <3> QED
      BY <3>1, <3>2 DEF Task
  <2>3. /\ task' \in [Tasks -> Task]
        /\ task'[w].pc = "arrived" /\ task'[w].delivery = d
        /\ \A v \in Tasks \ {w} : task'[v] = task[v]
    BY <2>2 DEF TypeOK, Receive, Idle
  <2> QED
    BY <2>1, <2>3 DEF TypeOK, Receive
<1>2. TasksOK'
  BY DEF TypeOK, TasksOK, Receive, Idle, Ran
<1>3. RowsOK'
  BY DEF RowsOK, Receive, Ran, Status
<1>4. RunsOK'
  BY DEF TypeOK, RunsOK, Receive, Idle, Task
<1>5. WorkOK'
  BY DEF TypeOK, WorkOK, Receive, Idle, Task, Work
<1>6. FailedHandlersLeaveNothing'
  BY DEF FailedHandlersLeaveNothing, Receive
<1> QED
  BY <1>1, <1>2, <1>3, <1>4, <1>5, <1>6

LEMMA RecordReceivedKeeps ==
  ASSUME IInv, NEW w \in Tasks, RecordReceived(w)
  PROVE  IInv'
<1> USE DEF IInv
<1>1. task[w].delivery \in Deliveries
  BY DEF TypeOK, RecordReceived
<1>2. \A d \in Deliveries : row'[d] = row[d] \/ (row[d] = "none" /\ row'[d] = "received")
  <2>1. row \in [Deliveries -> {"none", "received"} \cup Terminal]
    BY DEF TypeOK
  <2> QED
    BY <1>1, <2>1 DEF RecordReceived
<1>3. TypeOK'
  BY <1>1 DEF TypeOK, RecordReceived, Task
<1>4. TasksOK'
  BY <1>1, <1>2 DEF TypeOK, TasksOK, RecordReceived, Ran
<1>5. RowsOK'
  <2>1. ASSUME NEW d \in Deliveries
        PROVE  /\ row'[d] \in Terminal <=> row[d] \in Terminal
               /\ row[d] \in Terminal => row'[d] = row[d]
               /\ row[d] # "none" => row'[d] # "none"
    BY <1>2 DEF Terminal
  <2>2. finished' = finished /\ acknowledged' = acknowledged /\ acknowledged \subseteq Deliveries
    BY DEF RecordReceived, TypeOK
  <2>3. \A f \in finished' : f.delivery \in Deliveries /\ Ran(f) = Handlers(f.delivery)
    BY <2>2 DEF RowsOK
  <2>4. \A d \in acknowledged' : row'[d] # "none"
    BY <2>1, <2>2 DEF RowsOK
  <2>5. \A f \in finished' : row'[f.delivery] \in Terminal
    BY <2>1, <2>2, <2>3 DEF RowsOK
  <2>6. \A d \in Deliveries : row'[d] \in Terminal =>
          \E f \in finished' : f.delivery = d /\ row'[d] = Status(f)
    BY <2>1, <2>2 DEF RowsOK
  <2> QED
    BY <2>3, <2>4, <2>5, <2>6 DEF RowsOK, Ran, Status
<1>6. RunsOK'
  BY DEF TypeOK, RunsOK, RecordReceived, Task
<1>7. WorkOK'
  BY DEF TypeOK, WorkOK, RecordReceived, Task
<1>8. FailedHandlersLeaveNothing'
  BY DEF FailedHandlersLeaveNothing, RecordReceived
<1> QED
  BY <1>3, <1>4, <1>5, <1>6, <1>7, <1>8

LEMMA RespondKeeps ==
  ASSUME IInv, NEW w \in Tasks, Respond(w)
  PROVE  IInv'
<1> USE DEF IInv
<1>1. /\ task[w].delivery \in Deliveries /\ EVENT_HANDLERS[task[w].delivery] \in Nat
      /\ task[w].next = 1 /\ Ran(task[w]) = {} /\ row[task[w].delivery] # "none"
  BY ConstantsOK DEF TypeOK, TasksOK, Respond
<1>2. TypeOK'
  BY <1>1 DEF TypeOK, Respond, Task, Handlers
<1>3. TasksOK'
  BY <1>1 DEF TypeOK, TasksOK, Respond, Ran, Handlers
<1>4. RowsOK'
  BY <1>1 DEF TypeOK, RowsOK, Respond, Ran, Status
<1>5. RunsOK'
  BY DEF TypeOK, RunsOK, Respond, Task
<1>6. WorkOK'
  BY DEF TypeOK, WorkOK, Respond, Task
<1>7. FailedHandlersLeaveNothing'
  BY DEF FailedHandlersLeaveNothing, Respond
<1> QED
  BY <1>2, <1>3, <1>4, <1>5, <1>6, <1>7

LEMMA HandlerWritesKeeps ==
  ASSUME IInv, NEW w \in Tasks, HandlerWrites(w)
  PROVE  IInv'
<1> USE DEF IInv
<1>1. TypeOK'
  BY DEF TypeOK, HandlerWrites, Task
<1>2. TasksOK'
  BY DEF TypeOK, TasksOK, HandlerWrites, Ran
<1>3. RowsOK'
  BY DEF RowsOK, HandlerWrites, Ran, Status
<1>4. RunsOK'
  BY DEF TypeOK, RunsOK, HandlerWrites, Task
<1>5. WorkOK'
  BY DEF TypeOK, WorkOK, HandlerWrites, Task
<1>6. FailedHandlersLeaveNothing'
  BY DEF FailedHandlersLeaveNothing, HandlerWrites
<1> QED
  BY <1>1, <1>2, <1>3, <1>4, <1>5, <1>6

LEMMA HandlerReturnsKeeps ==
  ASSUME IInv, NEW w \in Tasks, HandlerReturns(w)
  PROVE  IInv'
<1> USE DEF IInv
<1>1. task[w] \in Task /\ task[w].next \in Nat \ {0} /\ task[w].pc = "handler"
  BY DEF TypeOK, HandlerReturns, Task, Handlers
<1>2. Ran(task'[w]) = Ran(task[w]) \cup {task[w].next} /\ task'[w].next = task[w].next
  BY <1>1 DEF TypeOK, HandlerReturns, Task, Ran
<1>3. TypeOK'
  BY <1>1 DEF TypeOK, HandlerReturns, Task
<1>4. TasksOK'
  <2>1. Ran(task'[w]) = 1 .. task'[w].next
    BY <1>1, <1>2 DEF TasksOK
  <2> QED
    <3>1. /\ task'[w].pc = "commit" /\ task'[w].delivery = task[w].delivery
          /\ \A v \in Tasks \ {w} : task'[v] = task[v]
          /\ UNCHANGED row
      BY <1>1 DEF TypeOK, HandlerReturns, Task
    <3> QED
      BY Zenon, <1>1, <2>1, <3>1 DEF TasksOK
<1>5. RowsOK'
  BY DEF RowsOK, HandlerReturns, Ran, Status
<1>6. RunsOK'
  BY DEF TypeOK, RunsOK, HandlerReturns, Task
<1>7. WorkOK'
  BY DEF TypeOK, WorkOK, HandlerReturns, Task
<1>8. FailedHandlersLeaveNothing'
  BY DEF FailedHandlersLeaveNothing, HandlerReturns
<1> QED
  BY <1>3, <1>4, <1>5, <1>6, <1>7, <1>8

\* What NextHandler makes of task t whose handlers up to the current one ran.
LEMMA NextHandlerOK ==
  ASSUME NEW t \in Task, t.delivery \in Deliveries, t.next \in Handlers(t.delivery),
         Ran(t) = 1 .. t.next
  PROVE  LET n == NextHandler(t) IN
         /\ n \in Task /\ n.delivery = t.delivery /\ n.run = t.run /\ Ran(n) = Ran(t)
         /\ n.pc \in {"handler", "outcome"} /\ n.pending = {} /\ n.next = t.next + 1
         /\ n.pc = "handler" => n.next \in Handlers(n.delivery) /\ Ran(n) = 1 .. (n.next - 1)
         /\ n.pc = "outcome" => Ran(n) = Handlers(n.delivery)
<1> DEFINE n == NextHandler(t)
<1>1. EVENT_HANDLERS[t.delivery] \in Nat /\ t.next \in 1 .. EVENT_HANDLERS[t.delivery]
  BY ConstantsOK DEF Handlers
<1>2. /\ n \in Task /\ n.delivery = t.delivery /\ n.run = t.run
      /\ n.done = t.done /\ n.skipped = t.skipped /\ n.failed = t.failed
      /\ n.pending = {} /\ n.next = t.next + 1
      /\ n.pc = IF t.next = EVENT_HANDLERS[t.delivery] THEN "outcome" ELSE "handler"
  <2>1. CASE t.next = EVENT_HANDLERS[t.delivery]
    <3>1. n = [t EXCEPT !.next = t.next + 1, !.pending = {}, !.pc = "outcome"]
      BY <2>1 DEF NextHandler
    <3>2. t.next + 1 \in Nat
      BY DEF Task
    <3> HIDE DEF n
    <3> QED
      BY <2>1, <3>1, <3>2 DEF Task
  <2>2. CASE t.next # EVENT_HANDLERS[t.delivery]
    <3>1. n = [t EXCEPT !.next = t.next + 1, !.pending = {}, !.pc = "handler"]
      BY <2>2 DEF NextHandler
    <3>2. t.next + 1 \in Nat
      BY DEF Task
    <3> HIDE DEF n
    <3> QED
      BY <2>2, <3>1, <3>2 DEF Task
  <2> QED
    BY <2>1, <2>2
<1>3. Ran(n) = Ran(t)
  BY <1>2 DEF Ran
<1> QED
  BY <1>1, <1>2, <1>3 DEF Handlers

LEMMA CommitHandlerKeeps ==
  ASSUME IInv, NEW w \in Tasks, CommitHandler(w)
  PROVE  IInv'
<1> USE DEF IInv
<1> DEFINE t == task[w]
           n == NextHandler(t)
<1>1. /\ t \in Task /\ t.delivery \in Deliveries /\ t.next \in Handlers(t.delivery)
      /\ t.pc = "commit" /\ Ran(t) = 1 .. t.next /\ row[t.delivery] # "none"
      /\ t.next \in Nat /\ t.run \in Nat /\ t.pending \subseteq {t.next}
      /\ 1 <= t.run /\ t.run <= sent[t.delivery]
  BY DEF TypeOK, TasksOK, RunsOK, WorkOK, CommitHandler, Task
<1>2. /\ n \in Task /\ n.delivery = t.delivery /\ n.run = t.run
      /\ n.pc \in {"handler", "outcome"} /\ n.pending = {} /\ n.next = t.next + 1
      /\ n.pc = "handler" => n.next \in Handlers(n.delivery) /\ Ran(n) = 1 .. (n.next - 1)
      /\ n.pc = "outcome" => Ran(n) = Handlers(n.delivery)
  BY <1>1, NextHandlerOK
<1>3. task' = [task EXCEPT ![w] = n] /\ applied' \subseteq applied \cup {WorkOf(t, t.next)}
  BY <1>1 DEF CommitHandler
<1>4. UNCHANGED <<row, acknowledged, raised, finished, lost, sent, crashes>>
  BY DEF CommitHandler
<1> HIDE DEF n
<1>5. TypeOK'
  BY <1>1, <1>2, <1>3, <1>4 DEF TypeOK, WorkOf, Work
<1>6. TasksOK'
  BY <1>1, <1>2, <1>3, <1>4 DEF TypeOK, TasksOK
<1>7. RowsOK'
  BY <1>4 DEF RowsOK, Ran, Status
<1>8. RunsOK'
  BY <1>1, <1>2, <1>3, <1>4 DEF TypeOK, RunsOK
<1>9. WorkOK'
  <2>1. \A x \in (applied \cup raised)' : x \in applied \cup raised \/ x = <<t.delivery, t.run, t.next>>
    BY <1>3, <1>4 DEF WorkOf
  <2>2. /\ task'[w] = n /\ \A v \in Tasks \ {w} : task'[v] = task[v]
        /\ sent' = sent
    BY <1>3, <1>4 DEF TypeOK
  <2>3. \A x \in (applied \cup raised)' : x[1] \in Deliveries /\ x[2] <= sent[x[1]]
    BY <1>1, <2>1 DEF WorkOK
  <2>4. \A v \in Tasks \ {w} : task[v].pc # "idle" =>
          \A x \in (applied \cup raised)' :
            x[1] = task[v].delivery /\ x[2] = task[v].run => x[3] < task[v].next
    BY <1>1, <2>1 DEF WorkOK, RunsOK
  <2>5. \A x \in (applied \cup raised)' : x[1] = n.delivery /\ x[2] = n.run => x[3] < n.next
    <3> SUFFICES ASSUME NEW x \in (applied \cup raised)', x[1] = n.delivery, x[2] = n.run
                 PROVE  x[3] < n.next
      OBVIOUS
    <3>1. CASE x = <<t.delivery, t.run, t.next>>
      BY <1>1, <1>2, <3>1
    <3>2. CASE x \in applied \cup raised
      <4>1. x[3] < t.next /\ x[3] \in Nat
        BY <1>1, <1>2, <3>2 DEF WorkOK, TypeOK, Work
      <4> QED
        BY <1>1, <1>2, <4>1
    <3> QED
      BY <2>1, <3>1, <3>2
  <2> QED
    BY <1>2, <2>2, <2>3, <2>4, <2>5 DEF WorkOK
<1>10. FailedHandlersLeaveNothing'
  BY <1>1, <1>3, <1>4 DEF FailedHandlersLeaveNothing, WorkOK, WorkOf
<1> QED
  BY <1>5, <1>6, <1>7, <1>8, <1>9, <1>10

LEMMA HandlerRaisesKeeps ==
  ASSUME IInv, NEW w \in Tasks, HandlerRaises(w)
  PROVE  IInv'
<1> USE DEF IInv
<1> DEFINE t == task[w]
           n == NextHandler(Failing(t))
<1>1. /\ t \in Task /\ t.delivery \in Deliveries /\ t.next \in Handlers(t.delivery)
      /\ t.pc \in {"handler", "commit"} /\ row[t.delivery] # "none"
      /\ t.next \in Nat \ {0} /\ t.run \in Nat
      /\ 1 <= t.run /\ t.run <= sent[t.delivery]
  BY DEF TypeOK, TasksOK, RunsOK, HandlerRaises, Task, Handlers
<1>2. /\ Failing(t) \in Task /\ Failing(t).delivery = t.delivery
      /\ Failing(t).run = t.run /\ Failing(t).next = t.next
      /\ Ran(Failing(t)) = 1 .. t.next
  <2>1. Ran(t) = 1 .. (t.next - 1) \/ Ran(t) = 1 .. t.next
    BY <1>1 DEF TasksOK
  <2>2. Ran(Failing(t)) = Ran(t) \cup {t.next}
    BY <1>1 DEF Failing, Ran, Task
  <2> QED
    <3>1. /\ Failing(t) \in Task /\ Failing(t).delivery = t.delivery
          /\ Failing(t).run = t.run /\ Failing(t).next = t.next
      BY <1>1 DEF Failing, Task
    <3>2. Ran(Failing(t)) = 1 .. t.next
      BY <1>1, <2>1, <2>2
    <3> QED
      BY <3>1, <3>2
<1>3. /\ n \in Task /\ n.delivery = t.delivery /\ n.run = t.run
      /\ n.pc \in {"handler", "outcome"} /\ n.pending = {} /\ n.next = t.next + 1
      /\ n.pc = "handler" => n.next \in Handlers(n.delivery) /\ Ran(n) = 1 .. (n.next - 1)
      /\ n.pc = "outcome" => Ran(n) = Handlers(n.delivery)
  BY <1>1, <1>2, NextHandlerOK
<1>4. task' = [task EXCEPT ![w] = n] /\ raised' = raised \cup {WorkOf(t, t.next)}
  BY DEF HandlerRaises
<1>5. UNCHANGED <<row, acknowledged, applied, finished, lost, sent, crashes>>
  BY DEF HandlerRaises
<1> HIDE DEF n
<1>6. TypeOK'
  BY <1>1, <1>3, <1>4, <1>5 DEF TypeOK, WorkOf, Work
<1>7. TasksOK'
  BY <1>1, <1>3, <1>4, <1>5 DEF TypeOK, TasksOK
<1>8. RowsOK'
  BY <1>5 DEF RowsOK, Ran, Status
<1>9. RunsOK'
  BY <1>1, <1>3, <1>4, <1>5 DEF TypeOK, RunsOK
<1>10. WorkOK'
  <2>1. \A x \in (applied \cup raised)' : x \in applied \cup raised \/ x = <<t.delivery, t.run, t.next>>
    BY <1>4, <1>5 DEF WorkOf
  <2>2. /\ task'[w] = n /\ \A v \in Tasks \ {w} : task'[v] = task[v]
        /\ sent' = sent
    BY <1>4, <1>5 DEF TypeOK
  <2>3. \A x \in (applied \cup raised)' : x[1] \in Deliveries /\ x[2] <= sent[x[1]]
    BY <1>1, <2>1 DEF WorkOK
  <2>4. \A v \in Tasks \ {w} : task[v].pc # "idle" =>
          \A x \in (applied \cup raised)' :
            x[1] = task[v].delivery /\ x[2] = task[v].run => x[3] < task[v].next
    BY <1>1, <2>1 DEF WorkOK, RunsOK
  <2>5. \A x \in (applied \cup raised)' : x[1] = n.delivery /\ x[2] = n.run => x[3] < n.next
    <3> SUFFICES ASSUME NEW x \in (applied \cup raised)', x[1] = n.delivery, x[2] = n.run
                 PROVE  x[3] < n.next
      OBVIOUS
    <3>1. CASE x = <<t.delivery, t.run, t.next>>
      BY <1>1, <1>3, <3>1
    <3>2. CASE x \in applied \cup raised
      <4>1. x[3] < t.next /\ x[3] \in Nat
        BY <1>1, <1>3, <3>2 DEF WorkOK, TypeOK, Work
      <4> QED
        BY <1>1, <1>3, <4>1
    <3> QED
      BY <2>1, <3>1, <3>2
  <2> QED
    BY <1>3, <2>2, <2>3, <2>4, <2>5 DEF WorkOK
<1>11. FailedHandlersLeaveNothing'
  BY <1>1, <1>4, <1>5 DEF FailedHandlersLeaveNothing, WorkOK, WorkOf
<1> QED
  BY <1>6, <1>7, <1>8, <1>9, <1>10, <1>11

LEMMA RecordOutcomeKeeps ==
  ASSUME IInv, NEW w \in Tasks, RecordOutcome(w)
  PROVE  IInv'
<1> USE DEF IInv
<1> DEFINE t == task[w]
           d == t.delivery
<1>1. /\ t \in Task /\ t.pc = "outcome" /\ d \in Deliveries
      /\ Ran(t) = Handlers(d) /\ row[d] # "none"
  BY DEF TypeOK, TasksOK, RecordOutcome
<1>2. /\ row' = [row EXCEPT ![d] = Status(t)] /\ finished' = finished \cup {t}
      /\ task' = [task EXCEPT ![w] = Idle]
      /\ UNCHANGED <<acknowledged, applied, raised, lost, sent, crashes>>
  BY <1>1 DEF RecordOutcome
<1>3. Status(t) \in Terminal
  BY DEF Status, Terminal
<1> HIDE DEF t
<1>4. TypeOK'
  BY <1>1, <1>2, <1>3 DEF TypeOK, Idle, Task
<1>5. TasksOK'
  BY <1>1, <1>2, <1>3 DEF TypeOK, TasksOK, Idle, Ran, Terminal
<1>6. RowsOK'
  BY <1>1, <1>2, <1>3 DEF TypeOK, RowsOK, Terminal
<1>7. RunsOK'
  BY <1>1, <1>2 DEF TypeOK, RunsOK, Idle
<1>8. WorkOK'
  BY <1>1, <1>2 DEF TypeOK, WorkOK, Idle
<1>9. FailedHandlersLeaveNothing'
  BY <1>2 DEF FailedHandlersLeaveNothing
<1> QED
  BY <1>4, <1>5, <1>6, <1>7, <1>8, <1>9

LEMMA CrashKeeps ==
  ASSUME IInv, Crash
  PROVE  IInv'
<1> USE DEF IInv
<1>1. PICK down \in SUBSET {w \in Tasks : task[w].pc # "idle"} :
        /\ task' = [w \in Tasks |-> IF w \in down THEN Idle ELSE task[w]]
        /\ lost' = lost \cup {task[w].delivery : w \in down}
        /\ crashes' = crashes + 1
        /\ UNCHANGED <<row, acknowledged, applied, raised, finished, sent>>
  BY DEF Crash
<1>2. TypeOK'
  BY <1>1 DEF TypeOK, Idle, Task
<1>3. TasksOK'
  BY <1>1 DEF TypeOK, TasksOK, Idle, Ran
<1>4. RowsOK'
  BY <1>1 DEF RowsOK, Ran, Status
<1>5. RunsOK'
  BY <1>1 DEF TypeOK, RunsOK, Idle
<1>6. WorkOK'
  BY <1>1 DEF TypeOK, WorkOK, Idle
<1>7. FailedHandlersLeaveNothing'
  BY <1>1 DEF FailedHandlersLeaveNothing
<1> QED
  BY <1>2, <1>3, <1>4, <1>5, <1>6, <1>7

LEMMA StepKeeps == IInv /\ [Next]_vars => IInv'
<1>1. CASE UNCHANGED vars
  <2> USE <1>1 DEF vars, IInv
  <2>1. IInv => TypeOK'
    BY DEF TypeOK
  <2>2. IInv => TasksOK'
    BY DEF TasksOK, Ran
  <2>3. IInv => RowsOK'
    BY DEF RowsOK, Ran, Status
  <2>4. IInv => RunsOK'
    BY DEF RunsOK
  <2>5. IInv => WorkOK'
    BY DEF WorkOK
  <2>6. IInv => FailedHandlersLeaveNothing'
    BY DEF FailedHandlersLeaveNothing
  <2> QED
    BY <2>1, <2>2, <2>3, <2>4, <2>5, <2>6
<1>2. CASE Next
  BY <1>2, ReceiveKeeps, RecordReceivedKeeps, RespondKeeps, HandlerWritesKeeps,
     HandlerReturnsKeeps, CommitHandlerKeeps, HandlerRaisesKeeps, RecordOutcomeKeeps, CrashKeeps
     DEF Next, TaskStep
<1> QED
  BY <1>1, <1>2

-----------------------------------------------------------------------------
\* Every reachable state satisfies the inductive invariant: tasks, rows, runs
\* and work fit together as the dispatcher's code assumes.
THEOREM Invariance == Spec => []IInv
  BY Initially, StepKeeps, PTL DEF Spec

\* The rows and the dispatcher's tasks always have their types.
THEOREM TypeCorrect == Spec => []TypeOK
<1>1. IInv => TypeOK
  BY DEF IInv
<1> QED
  BY <1>1, Invariance, PTL

\* No acknowledged delivery is lost silently: its row stays "received" exactly
\* until a dispatch of it has recorded an outcome.
THEOREM StuckRowsShow == Spec => []NothingLostSilently
<1>1. IInv => NothingLostSilently
  BY DEF IInv, RowsOK, NothingLostSilently
<1> QED
  BY <1>1, Invariance, PTL

\* A terminal status is true of a dispatch that ran all of its handlers.
THEOREM StatusIsTrue == Spec => []AuditIsHonest
<1>1. IInv => AuditIsHonest
  <2> SUFFICES ASSUME IInv, NEW d \in Deliveries, row[d] \in Terminal
               PROVE  \E f \in finished :
                        /\ f.delivery = d
                        /\ Handlers(d) = f.done \cup f.skipped \cup f.failed
                        /\ row[d] = "no_handler" <=> Handlers(d) = {}
                        /\ row[d] = "failed" <=> f.failed # {}
                        /\ row[d] = "skipped" => f.done = {}
    BY DEF AuditIsHonest
  <2>1. PICK f \in finished : f.delivery = d /\ row[d] = Status(f)
    BY DEF IInv, RowsOK
  <2>2. Ran(f) = Handlers(d)
    BY <2>1 DEF IInv, RowsOK
  <2>3. Handlers(d) = {} <=> EVENT_HANDLERS[d] = 0
    BY ConstantsOK DEF Handlers
  <2> QED
    BY <2>1, <2>2, <2>3 DEF Status, Ran
<1> QED
  BY <1>1, Invariance, PTL

\* Whatever the handlers after it commit, a handler that raised leaves nothing.
THEOREM RollbackIsComplete == Spec => []FailedHandlersLeaveNothing
<1>1. IInv => FailedHandlersLeaveNothing
  BY DEF IInv
<1> QED
  BY <1>1, Invariance, PTL
=============================================================================
