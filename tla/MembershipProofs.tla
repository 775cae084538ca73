-------------------------- MODULE MembershipProofs --------------------------
(***************************************************************************)
(* Proofs about workspaces, for any number of users, invitations and       *)
(* overlapping requests.                                                   *)
(***************************************************************************)
EXTENDS Membership, TLAPS

CountersOK == mailed \subseteq Invitations \X Nat /\ spent \in Nat
DataOK == RowsOK /\ RequestsOK /\ CountersOK

\* A request that is replaced by a well-formed one leaves all well-formed.
LEMMA BecomeOK ==
  ASSUME RequestsOK, NEW r \in Requests, NEW q \in Request, Loaded(q), Become(r, q)
  PROVE  RequestsOK'
  BY DEF RequestsOK, Become, Loaded

LEMMA IdleOK == Idle \in Request /\ Loaded(Idle)
  BY DEF Idle, Request, Loaded

LEMMA DoneOK ==
  ASSUME RequestsOK, NEW r \in Requests, Done(r)
  PROVE  RequestsOK'
  BY IdleOK, BecomeOK DEF Done

\* A request being served has a caller and a workspace.
LEMMA CallerOK ==
  ASSUME RequestsOK, NEW r \in Requests, request[r].pc # "idle"
  PROVE  /\ request[r] \in Request /\ Loaded(request[r])
         /\ request[r].user \in Users /\ request[r].ws \in Workspaces
  BY DEF RequestsOK, Loaded

\* What no action but a few looks at.
LEMMA CountersKept ==
  ASSUME CountersOK, UNCHANGED <<mailed, spent>>
  PROVE  CountersOK'
  BY DEF CountersOK

LEMMA RowsKept ==
  ASSUME RowsOK, UNCHANGED rows
  PROVE  RowsOK'
  BY DEF RowsOK, rows

\* A request whose pc alone changes.
LEMMA PcChanged ==
  ASSUME NEW q \in Request,
         NEW pc \in {"idle", "authorised", "owner", "invitee", "demote", "promote",
                     "seat", "write", "mail", "select"}
  PROVE  LET n == [q EXCEPT !.pc = pc] IN
         /\ n \in Request /\ n.pc = pc /\ n.op = q.op /\ n.user = q.user /\ n.ws = q.ws
         /\ n.target = q.target /\ n.seen = q.seen /\ n.inv = q.inv
  BY DEF Request

\* Setting one flag of an invitation leaves its workspace alone, and so does a
\* new token.
LEMMA InvitationChanged ==
  ASSUME NEW inv \in Invitation
  PROVE  /\ [inv EXCEPT !.expired = TRUE] \in Invitation
         /\ [inv EXCEPT !.expired = TRUE].ws = inv.ws
         /\ [inv EXCEPT !.revoked = TRUE] \in Invitation
         /\ [inv EXCEPT !.revoked = TRUE].ws = inv.ws
         /\ [inv EXCEPT !.redeemed = TRUE] \in Invitation
         /\ [inv EXCEPT !.redeemed = TRUE].ws = inv.ws
<1>1. [inv EXCEPT !.expired = TRUE] \in Invitation
  BY Zenon DEF Invitation
<1>2. [inv EXCEPT !.revoked = TRUE] \in Invitation
  BY Zenon DEF Invitation
<1>3. [inv EXCEPT !.redeemed = TRUE] \in Invitation
  BY Zenon DEF Invitation
<1>4. [inv EXCEPT !.expired = TRUE].ws = inv.ws
  BY DEF Invitation
<1>5. [inv EXCEPT !.revoked = TRUE].ws = inv.ws
  BY DEF Invitation
<1>6. [inv EXCEPT !.redeemed = TRUE].ws = inv.ws
  BY DEF Invitation
<1> QED
  BY Zenon, <1>1, <1>2, <1>3, <1>4, <1>5, <1>6

LEMMA TokenChanged ==
  ASSUME NEW inv \in Invitation, NEW token \in Nat
  PROVE  /\ [inv EXCEPT !.token = token, !.expired = FALSE] \in Invitation
         /\ [inv EXCEPT !.token = token, !.expired = FALSE].ws = inv.ws
<1>1. [inv EXCEPT !.token = token, !.expired = FALSE] \in Invitation
  BY Zenon DEF Invitation
<1>2. [inv EXCEPT !.token = token, !.expired = FALSE].ws = inv.ws
  BY DEF Invitation
<1> QED
  BY Zenon, <1>1, <1>2

\* Steps that only move a request along.
LEMMA ReadsOK ==
  ASSUME DataOK, NEW r \in Requests,
         \/ ReadMember(r) \/ ReadOwner(r) \/ ReadTarget(r) \/ Demote(r) \/ CountMembers(r)
         \/ CheckInvitee(r) \/ CheckOpen(r) \/ ReadInvitation(r) \/ ReadSeat(r)
  PROVE  DataOK'
<1> DEFINE p == request[r]
           w == request[r].ws
<1>0. RowsOK /\ RequestsOK /\ CountersOK
  BY DEF DataOK
<1>1. request[r].pc # "idle" /\ UNCHANGED <<rows, mailed, spent>>
  BY ZenonT(20) DEF ReadMember, ReadOwner, ReadTarget, Demote, CountMembers, CheckInvitee, CheckOpen,
         ReadInvitation, ReadSeat, At
<1>2. p \in Request /\ Loaded(p) /\ p.user \in Users /\ w \in Workspaces
  BY <1>0, <1>1, CallerOK
<1>3. \A u \in Users : seat[w][u].id \in Nat /\ seat[w][u].role \in {"none", "member", "owner"}
  BY <1>0, <1>2 DEF RowsOK, Seat
<1>4. RequestsOK'
  <2>1. CASE ReadMember(r)
    <3>1. PICK u \in Users : seat[w][u].role = "member" /\ LoadMember(r, u)
      BY <2>1 DEF ReadMember
    <3>2. p.op \in {"remove", "leave"}
      BY <2>1 DEF ReadMember, At
    <3> DEFINE q == [p EXCEPT !.pc = "write", !.target = u,
                              !.row = seat[w][u].id, !.seen = seat[w][u].role]
    <3>3. Become(r, q)
      BY <3>1 DEF LoadMember
    <3>4. /\ q \in Request /\ q.pc = "write" /\ q.op = p.op /\ q.user = p.user /\ q.ws = w
          /\ q.target = u /\ q.seen = "member"
      BY <1>2, <1>3, <3>1 DEF Request
    <3> HIDE DEF q
    <3>5. Loaded(q)
      BY <1>2, <3>2, <3>4 DEF Loaded, InvitationOperations
    <3> QED
      BY <1>0, <3>3, <3>4, <3>5, BecomeOK
  <2>2. CASE ReadOwner(r)
    <3> DEFINE q == [p EXCEPT !.pc = "owner", !.row = seat[w][p.user].id]
    <3>1. Become(r, q)
      BY <2>2 DEF ReadOwner
    <3>2. q \in Request /\ q.pc = "owner" /\ q.user = p.user /\ q.ws = w
      BY Zenon, <1>2, <1>3 DEF Request
    <3> HIDE DEF q
    <3>3. Loaded(q)
      BY <1>2, <3>2 DEF Loaded
    <3> QED
      BY <1>0, <3>1, <3>2, <3>3, BecomeOK
  <2>3. CASE ReadTarget(r)
    <3>1. PICK u \in Seated(w) \ {p.user} :
            Become(r, [p EXCEPT !.pc = "demote", !.target = u,
                                !.targetRow = seat[w][u].id, !.seen = seat[w][u].role])
      BY Zenon, <2>3 DEF ReadTarget
    <3>2. u \in Users \ {p.user} /\ seat[w][u].role # "none"
      BY <3>1 DEF Seated
    <3>3. p.op = "transfer"
      BY Zenon, <2>3 DEF ReadTarget, At
    <3> DEFINE q == [p EXCEPT !.pc = "demote", !.target = u,
                              !.targetRow = seat[w][u].id, !.seen = seat[w][u].role]
    <3>4. Become(r, q)
      BY <3>1
    <3>5. /\ q \in Request /\ q.pc = "demote" /\ q.op = p.op /\ q.user = p.user /\ q.ws = w
          /\ q.target = u /\ q.seen # "none"
      BY <1>2, <1>3, <3>2 DEF Request
    <3> HIDE DEF q
    <3>6. Loaded(q)
      BY <1>2, <3>2, <3>3, <3>5 DEF Loaded
    <3> QED
      BY <1>0, <3>4, <3>5, <3>6, BecomeOK
  <2>4. CASE Demote(r)
    <3> DEFINE q == [p EXCEPT !.pc = "promote"]
    <3>1. Become(r, q) /\ p.pc = "demote"
      BY <2>4 DEF Demote, Step, At
    <3>2. /\ q \in Request /\ q.pc = "promote" /\ q.op = p.op /\ q.user = p.user /\ q.ws = w
          /\ q.target = p.target /\ q.seen = p.seen
      BY <1>2, PcChanged
    <3> HIDE DEF q
    <3>3. Loaded(q)
      BY <1>2, <3>1, <3>2 DEF Loaded
    <3> QED
      BY <1>0, <3>1, <3>2, <3>3, BecomeOK
  <2>5. CASE CountMembers(r)
    <3> DEFINE q == [p EXCEPT !.pc = "write"]
    <3>1. Become(r, q) /\ p.op = "delete"
      BY <2>5 DEF CountMembers, Step, At
    <3>2. q \in Request /\ q.pc = "write" /\ q.op = p.op /\ q.user = p.user /\ q.ws = w
      BY <1>2, PcChanged
    <3> HIDE DEF q
    <3>3. Loaded(q)
      BY <1>2, <3>1, <3>2 DEF Loaded, InvitationOperations
    <3> QED
      BY <1>0, <3>1, <3>2, <3>3, BecomeOK
  <2>6. CASE CheckInvitee(r)
    <3>1. PICK u \in Users : Become(r, [p EXCEPT !.pc = "invitee", !.target = u])
      BY Zenon, <2>6 DEF CheckInvitee
    <3> DEFINE q == [p EXCEPT !.pc = "invitee", !.target = u]
    <3>2. Become(r, q)
      BY <3>1
    <3>3. q \in Request /\ q.pc = "invitee" /\ q.user = p.user /\ q.ws = w /\ q.target = u
      BY <1>2 DEF Request
    <3> HIDE DEF q
    <3>4. Loaded(q)
      BY <1>2, <3>3 DEF Loaded
    <3> QED
      BY <1>0, <3>2, <3>3, <3>4, BecomeOK
  <2>7. CASE CheckOpen(r)
    <3> DEFINE q == [p EXCEPT !.pc = "write"]
    <3>1. Become(r, q) /\ p.pc = "invitee" /\ p.op = "invite"
      BY <2>7 DEF CheckOpen, Step, At
    <3>2. /\ q \in Request /\ q.pc = "write" /\ q.op = p.op /\ q.user = p.user /\ q.ws = w
          /\ q.target = p.target
      BY <1>2, PcChanged
    <3> HIDE DEF q
    <3>3. Loaded(q)
      BY <1>2, <3>1, <3>2 DEF Loaded, InvitationOperations
    <3> QED
      BY <1>0, <3>1, <3>2, <3>3, BecomeOK
  <2>8. CASE ReadInvitation(r)
    <3>1. PICK i \in Invitations : Become(r, [p EXCEPT !.pc = "write", !.inv = i])
      BY Zenon, <2>8 DEF ReadInvitation
    <3> DEFINE q == [p EXCEPT !.pc = "write", !.inv = i]
    <3>2. Become(r, q) /\ p.op \in {"resend", "revoke"}
      BY Zenon, <2>8, <3>1 DEF ReadInvitation, At
    <3>3. /\ q \in Request /\ q.pc = "write" /\ q.op = p.op /\ q.user = p.user /\ q.ws = w
          /\ q.inv = i
      BY <1>2 DEF Request
    <3> HIDE DEF q
    <3>4. Loaded(q)
      BY <1>2, <3>2, <3>3 DEF Loaded
    <3> QED
      BY <1>0, <3>2, <3>3, <3>4, BecomeOK
  <2>9. CASE ReadSeat(r)
    <3> DEFINE q == [p EXCEPT !.pc = "write", !.seen = seat[w][p.user].role]
    <3>1. Become(r, q) /\ p.pc = "seat"
      BY <2>9 DEF ReadSeat
    <3>2. /\ q \in Request /\ q.pc = "write" /\ q.op = p.op /\ q.user = p.user /\ q.ws = w
          /\ q.inv = p.inv
      BY <1>2, <1>3 DEF Request
    <3> HIDE DEF q
    <3>3. Loaded(q)
      BY <1>2, <3>1, <3>2 DEF Loaded
    <3> QED
      BY <1>0, <3>1, <3>2, <3>3, BecomeOK
  <2> QED
    BY <2>1, <2>2, <2>3, <2>4, <2>5, <2>6, <2>7, <2>8, <2>9
<1> QED
  BY <1>0, <1>1, <1>4, RowsKept, CountersKept DEF DataOK

\* Steps that write no row of a workspace or a user.
LEMMA SimpleWritesOK ==
  ASSUME DataOK, NEW r \in Requests,
         SendInvitation(r) \/ GiveUp(r) \/ SelectWorkspace(r)
  PROVE  DataOK'
<1>0. RowsOK /\ RequestsOK /\ CountersOK
  BY DEF DataOK
<1>1. request[r].pc # "idle" /\ Done(r)
  BY DEF SendInvitation, GiveUp, SelectWorkspace
<1>2. /\ request[r] \in Request /\ Loaded(request[r])
      /\ request[r].user \in Users /\ request[r].ws \in Workspaces
  BY <1>0, <1>1, CallerOK
<1>3. RequestsOK'
  BY <1>0, <1>1, DoneOK
<1>4. CASE SendInvitation(r)
  <2>1. /\ mailed' = mailed \cup {<<request[r].inv, request[r].token>>}
        /\ UNCHANGED rows /\ spent' = spent
        /\ request[r].pc = "mail"
    BY <1>4 DEF SendInvitation
  <2>2. request[r].inv \in Invitations /\ request[r].token \in Nat
    BY <1>2, <2>1 DEF Loaded, Request
  <2>3. CountersOK'
    BY <1>0, <2>1, <2>2 DEF CountersOK
  <2> QED
    BY <1>0, <1>3, <2>1, <2>3, RowsKept DEF DataOK
<1>5. CASE GiveUp(r)
  <2>1. UNCHANGED rows /\ UNCHANGED <<mailed, spent>>
    BY <1>5 DEF GiveUp
  <2> QED
    BY <1>0, <1>3, <2>1, RowsKept, CountersKept DEF DataOK
<1>6. CASE SelectWorkspace(r)
  <2>1. /\ lastActive' = [lastActive EXCEPT ![request[r].user] = request[r].ws]
        /\ workspace[request[r].ws] = "live"
        /\ UNCHANGED <<workspace, seat, invitation>> /\ UNCHANGED <<mailed, spent>>
    BY <1>6 DEF SelectWorkspace
  <2>2. RowsOK'
    BY <1>0, <1>2, <2>1 DEF RowsOK
  <2> QED
    BY <1>0, <1>3, <2>1, <2>2, CountersKept DEF DataOK
<1> QED
  BY <1>4, <1>5, <1>6

\* A seat that is written: its workspace is live, or nobody sits there.
LEMMA SeatWritten ==
  ASSUME RowsOK, NEW w \in Workspaces, NEW u \in Users, NEW s \in Seat,
         s.role = "none" \/ workspace[w] = "live",
         seat' = [seat EXCEPT ![w][u] = s],
         UNCHANGED <<workspace, invitation, lastActive>>
  PROVE  RowsOK'
<1>1. seat' \in [Workspaces -> [Users -> Seat]]
  BY DEF RowsOK
<1>2. \A x \in Workspaces, v \in Users : seat'[x][v].role # "none" => workspace'[x] = "live"
  BY DEF RowsOK
<1> QED
  BY <1>1, <1>2 DEF RowsOK

\* An invitation that is written: its workspace is live, or it has none.
LEMMA InvitationWritten ==
  ASSUME RowsOK, NEW i \in Invitations, NEW inv \in Invitation,
         inv.ws = None \/ workspace[inv.ws] = "live",
         invitation' = [invitation EXCEPT ![i] = inv],
         UNCHANGED <<workspace, seat, lastActive>>
  PROVE  RowsOK'
  BY DEF RowsOK

\* The writes of membership_service and create_workspace.
LEMMA MembershipWritesOK ==
  ASSUME DataOK, LocksOK, NEW r \in Requests, DeleteMember(r) \/ Promote(r) \/ DeleteTenant(r)
  PROVE  DataOK'
<1> DEFINE w == request[r].ws
           t == request[r].target
<1>0. RowsOK /\ RequestsOK /\ CountersOK
  BY DEF DataOK
<1>1. request[r].pc # "idle" /\ Done(r) /\ UNCHANGED <<mailed, spent>>
  BY ZenonT(20) DEF DeleteMember, Promote, DeleteTenant, At
<1>2. request[r] \in Request /\ Loaded(request[r]) /\ request[r].user \in Users /\ w \in Workspaces
  BY <1>0, <1>1, CallerOK
<1>3. RequestsOK'
  BY <1>0, <1>1, DoneOK
<1>s. seat \in [Workspaces -> [Users -> Seat]]
  BY <1>0 DEF RowsOK
<1>4. CASE DeleteMember(r)
  <2>0. /\ seat' = IF seat[w][t].id = request[r].row
                     THEN [seat EXCEPT ![w][t].role = "none"] ELSE seat
        /\ UNCHANGED <<workspace, invitation, lastActive>>
        /\ request[r].pc = "write" /\ request[r].op \in {"remove", "leave"}
    BY <1>4 DEF DeleteMember, At
  <2>1. t \in Users
    BY <1>2, <2>0 DEF Loaded
  <2>2. CASE seat[w][t].id = request[r].row
    <3> DEFINE s == [seat[w][t] EXCEPT !.role = "none"]
    <3>1. seat[w][t] \in Seat
      BY <1>2, <1>s, <2>1
    <3>2. s \in Seat /\ s.role = "none"
      BY <3>1 DEF Seat
    <3>3. seat' = [seat EXCEPT ![w][t] = s]
      BY Zenon, <2>0, <2>2
    <3> HIDE DEF s
    <3>4. RowsOK'
      BY Zenon, <1>0, <1>2, <2>0, <2>1, <3>2, <3>3, SeatWritten
    <3> QED
      BY <1>0, <1>1, <1>3, <3>4, CountersKept DEF DataOK
  <2>3. CASE seat[w][t].id # request[r].row
    <3>1. UNCHANGED rows
      BY Zenon, <2>0, <2>3 DEF rows
    <3> QED
      BY <1>0, <1>1, <1>3, <3>1, RowsKept, CountersKept DEF DataOK
  <2> QED
    BY <2>2, <2>3
<1>5. CASE Promote(r)
  <2> DEFINE demoted == [seat[w] EXCEPT ![request[r].user].role = "member"]
             promoted == [demoted EXCEPT ![t].role = "owner"]
  <2>0. /\ \/ seat' = [seat EXCEPT ![w] = promoted]
           \/ seat' = [seat EXCEPT ![w] = demoted]
        /\ UNCHANGED <<workspace, invitation, lastActive>>
        /\ request[r].pc = "promote"
    BY Zenon, <1>5 DEF Promote, At
  <2>1. t \in Users
    BY <1>2, <2>0 DEF Loaded
  <2>2. seat[w] \in [Users -> Seat]
    BY <1>2, <1>s
  <2>3. demoted \in [Users -> Seat]
    BY <1>2, <2>2 DEF Seat
  <2>4. promoted \in [Users -> Seat]
    <3> HIDE DEF demoted
    <3> QED
      BY <2>1, <2>3 DEF Seat
  <2> HIDE DEF demoted, promoted
  <2>5. seat' \in [Workspaces -> [Users -> Seat]]
    BY <1>s, <1>2, <2>0, <2>3, <2>4
  <2>6. \A x \in Workspaces \ {w} : seat'[x] = seat[x]
    BY <1>s, <1>2, <2>0
  <2>7. workspace[w] = "live"
    BY <1>0, <1>2, <2>0 DEF RowsOK, IsRow, LocksOK
  <2>8. \A x \in Workspaces, u \in Users : seat'[x][u].role # "none" => workspace[x] = "live"
    BY <1>0, <2>6, <2>7 DEF RowsOK
  <2>9. RowsOK'
    BY <1>0, <2>0, <2>5, <2>8 DEF RowsOK
  <2> QED
    BY <1>0, <1>1, <1>3, <2>9, CountersKept DEF DataOK
<1>6. CASE DeleteTenant(r)
  <2> DEFINE emptied == [u \in Users |-> [seat[w][u] EXCEPT !.role = "none"]]
             gone == [NoInvitation EXCEPT !.used = TRUE]
  <2>0. /\ seat' = [seat EXCEPT ![w] = emptied]
        /\ workspace' = [workspace EXCEPT ![w] = "deleted"]
        /\ invitation' = [i \in Invitations |->
                            IF invitation[i].ws = w THEN gone ELSE invitation[i]]
        /\ lastActive' = [u \in Users |-> IF lastActive[u] = w THEN None ELSE lastActive[u]]
    BY <1>6 DEF DeleteTenant
  <2>a. \A u \in Users : seat[w][u] \in Seat
    BY <1>s, <1>2
  <2>b. \A u \in Users : [seat[w][u] EXCEPT !.role = "none"] \in Seat
    BY <2>a DEF Seat
  <2>1. \A u \in Users : [seat[w][u] EXCEPT !.role = "none"].role = "none"
    BY <2>a DEF Seat
  <2>2. emptied \in [Users -> Seat] /\ \A u \in Users : emptied[u].role = "none"
    BY <2>b, <2>1
  <2>3. gone \in Invitation /\ gone.ws = None
    BY DEF Invitation, NoInvitation
  <2> HIDE DEF emptied, gone
  <2>4. /\ seat' \in [Workspaces -> [Users -> Seat]]
        /\ \A u \in Users : seat'[w][u].role = "none"
        /\ \A x \in Workspaces \ {w} : seat'[x] = seat[x]
    BY <1>s, <1>2, <2>0, <2>2
  <2>5. /\ workspace' \in [Workspaces -> {"unborn", "live", "deleted"}]
        /\ \A x \in Workspaces \ {w} : workspace'[x] = workspace[x]
    BY <1>0, <1>2, <2>0 DEF RowsOK
  <2>6. invitation \in [Invitations -> Invitation]
    BY <1>0 DEF RowsOK
  <2>7. /\ invitation' \in [Invitations -> Invitation]
        /\ \A i \in Invitations : \/ invitation'[i].ws = None
                                  \/ invitation'[i] = invitation[i] /\ invitation[i].ws # w
    BY <2>0, <2>3, <2>6
  <2>8. \A i \in Invitations : invitation'[i].ws # None => workspace'[invitation'[i].ws] = "live"
    <3> SUFFICES ASSUME NEW i \in Invitations, invitation'[i].ws # None
                 PROVE  workspace'[invitation'[i].ws] = "live"
      OBVIOUS
    <3>1. invitation'[i] = invitation[i] /\ invitation[i].ws # w
      BY <2>7
    <3>2. invitation[i].ws \in Workspaces
      BY <2>6, <3>1 DEF Invitation
    <3>3. workspace[invitation[i].ws] = "live"
      BY <1>0, <3>1 DEF RowsOK
    <3> QED
      BY <2>5, <3>1, <3>2, <3>3
  <2>9. /\ lastActive' \in [Users -> Workspaces \cup {None}]
        /\ \A u \in Users : lastActive'[u] # None => workspace'[lastActive'[u]] = "live"
    BY <1>0, <2>0, <2>5 DEF RowsOK
  <2>10. \A x \in Workspaces, u \in Users : seat'[x][u].role # "none" => workspace'[x] = "live"
    BY <1>0, <2>4, <2>5 DEF RowsOK
  <2>11. RowsOK'
    BY <2>4, <2>5, <2>7, <2>8, <2>9, <2>10 DEF RowsOK
  <2> QED
    BY <1>0, <1>1, <1>3, <2>11, CountersKept DEF DataOK
<1> QED
  BY <1>4, <1>5, <1>6

\* The writes of invitation_service and routes/me.
LEMMA InvitationWritesOK ==
  ASSUME DataOK, NEW r \in Requests,
         CreateInvitation(r) \/ ResendInvitation(r) \/ RevokeInvitation(r) \/ Join(r)
  PROVE  DataOK'
<1> DEFINE p == request[r]
           w == request[r].ws
           i == request[r].inv
<1>0. RowsOK /\ RequestsOK /\ CountersOK
  BY DEF DataOK
<1>1. p.pc = "write" /\ UNCHANGED <<mailed, spent>>
  BY ZenonT(20) DEF CreateInvitation, ResendInvitation, RevokeInvitation, Join, At
<1>2. p \in Request /\ Loaded(p) /\ p.user \in Users /\ w \in Workspaces
  BY <1>0, <1>1, CallerOK
<1>v. invitation \in [Invitations -> Invitation]
  BY <1>0 DEF RowsOK
<1>l. \A j \in Invitations : invitation[j].ws = None \/ workspace[invitation[j].ws] = "live"
  BY <1>0 DEF RowsOK
<1>3. CASE CreateInvitation(r)
  <2> DEFINE new == [NoInvitation EXCEPT !.ws = w, !.to = p.target, !.used = TRUE]
  <2>0. /\ p.op = "invite" /\ workspace[w] = "live"
        /\ UNCHANGED <<workspace, seat, lastActive>>
        /\ \E j \in Invitations :
             /\ invitation' = [invitation EXCEPT ![j] = new]
             /\ Become(r, [p EXCEPT !.pc = "mail", !.inv = j])
    BY Zenon, <1>3 DEF CreateInvitation, At
  <2>1. p.target \in Users
    BY <1>1, <1>2, <2>0 DEF Loaded
  <2>2. PICK j \in Invitations : /\ invitation' = [invitation EXCEPT ![j] = new]
                                 /\ Become(r, [p EXCEPT !.pc = "mail", !.inv = j])
    BY Zenon, <2>0
  <2>3. new \in Invitation /\ new.ws = w
    BY <1>2, <2>1 DEF Invitation, NoInvitation
  <2> HIDE DEF new
  <2>4. RowsOK'
    BY <1>0, <2>0, <2>2, <2>3, InvitationWritten
  <2>5. RequestsOK'
    <3> DEFINE q == [p EXCEPT !.pc = "mail", !.inv = j]
    <3>1. q \in Request /\ q.pc = "mail" /\ q.user = p.user /\ q.ws = w /\ q.inv = j
      BY <1>2 DEF Request
    <3>2. Become(r, q)
      BY <2>2
    <3> HIDE DEF q
    <3>3. Loaded(q)
      BY <1>2, <3>1 DEF Loaded
    <3> QED
      BY <1>0, <3>1, <3>2, <3>3, BecomeOK
  <2> QED
    BY <1>0, <1>1, <2>4, <2>5, CountersKept DEF DataOK
<1>4. CASE ResendInvitation(r)
  <2> DEFINE inv == [invitation[i] EXCEPT !.token = invitation[i].token + 1, !.expired = FALSE]
             q == [p EXCEPT !.pc = "mail", !.token = invitation[i].token + 1]
  <2>0. /\ p.op = "resend"
        /\ invitation' = [invitation EXCEPT ![i].token = @ + 1, ![i].expired = FALSE]
        /\ Become(r, q)
        /\ UNCHANGED <<workspace, seat, lastActive>>
    BY <1>4 DEF ResendInvitation, At
  <2>1. i \in Invitations
    BY <1>1, <1>2, <2>0 DEF Loaded
  <2>2. invitation[i] \in Invitation
    BY <1>v, <2>1
  <2>3. invitation[i].token + 1 \in Nat
    BY <2>2 DEF Invitation
  <2>4. q \in Request /\ q.pc = "mail" /\ q.user = p.user /\ q.ws = w /\ q.inv = i
    BY <1>2, <2>3 DEF Request
  <2>5. inv \in Invitation /\ inv.ws = invitation[i].ws
    BY Zenon, <2>2, <2>3, TokenChanged
  <2>6. invitation' = [invitation EXCEPT ![i] = inv]
    BY Zenon, <2>0
  <2> HIDE DEF inv, q
  <2>a. inv.ws = None \/ workspace[inv.ws] = "live"
    BY <1>l, <2>1, <2>5
  <2>7. RowsOK'
    BY <1>0, <2>0, <2>1, <2>a, <2>5, <2>6, InvitationWritten
  <2>8. Loaded(q)
    BY <1>2, <2>1, <2>4 DEF Loaded
  <2>9. RequestsOK'
    BY <1>0, <2>0, <2>4, <2>8, BecomeOK
  <2> QED
    BY <1>0, <1>1, <2>7, <2>9, CountersKept DEF DataOK
<1>5. CASE RevokeInvitation(r)
  <2> DEFINE inv == [invitation[i] EXCEPT !.revoked = TRUE]
  <2>0. /\ p.op \in {"revoke", "decline"}
        /\ invitation' = [invitation EXCEPT ![i].revoked = TRUE]
        /\ Done(r)
        /\ UNCHANGED <<workspace, seat, lastActive>>
    BY <1>5 DEF RevokeInvitation, At
  <2>1. i \in Invitations
    BY <1>1, <1>2, <2>0 DEF Loaded, InvitationOperations
  <2>2. invitation[i] \in Invitation
    BY <1>v, <2>1
  <2>3. inv \in Invitation /\ inv.ws = invitation[i].ws
    BY <2>2, InvitationChanged
  <2>4. invitation' = [invitation EXCEPT ![i] = inv]
    BY Zenon, <2>0
  <2> HIDE DEF inv
  <2>a. inv.ws = None \/ workspace[inv.ws] = "live"
    BY <1>l, <2>1, <2>3
  <2>5. RowsOK'
    BY <1>0, <2>0, <2>1, <2>a, <2>3, <2>4, InvitationWritten
  <2>6. RequestsOK'
    BY <1>0, <2>0, DoneOK
  <2> QED
    BY <1>0, <1>1, <2>5, <2>6, CountersKept DEF DataOK
<1>6. CASE Join(r)
  <2> DEFINE inv == [invitation[i] EXCEPT !.redeemed = TRUE]
             s == [role |-> "member", id |-> seat[w][p.user].id + 1]
             q == [p EXCEPT !.pc = "select"]
  <2>0. /\ p.op \in {"redeem", "accept"} /\ workspace[w] = "live"
        /\ seat' = IF p.seen = "none"
                     THEN [seat EXCEPT ![w][p.user] = [role |-> "member", id |-> @.id + 1]]
                     ELSE seat
        /\ invitation' = [invitation EXCEPT ![i].redeemed = TRUE]
        /\ workspace' = workspace
    BY <1>6 DEF Join, At
  <2>1. \/ p.op = "accept" /\ lastActive' = [lastActive EXCEPT ![p.user] = w] /\ Done(r)
        \/ lastActive' = lastActive /\ Become(r, q)
    BY <1>6 DEF Join, Step
  <2>2. i \in Invitations
    BY <1>1, <1>2, <2>0 DEF Loaded, InvitationOperations
  <2>3. invitation[i] \in Invitation
    BY <1>v, <2>2
  <2>4. inv \in Invitation /\ inv.ws = invitation[i].ws
    BY <2>3, InvitationChanged
  <2>5. invitation' = [invitation EXCEPT ![i] = inv]
    BY Zenon, <2>0
  <2>6. seat[w][p.user] \in Seat
    BY <1>0, <1>2 DEF RowsOK
  <2>7. s \in Seat
    BY <2>6 DEF Seat
  <2>8. seat' = [seat EXCEPT ![w][p.user] = s] \/ seat' = seat
    BY <2>0
  <2>9. q \in Request /\ q.pc = "select" /\ q.user = p.user /\ q.ws = w
    BY <1>2, PcChanged
  <2> HIDE DEF inv, s, q
  <2>10. RequestsOK'
    <3>1. Loaded(q)
      BY <1>2, <2>9 DEF Loaded
    <3> QED
      BY <1>0, <2>1, <2>9, <3>1, DoneOK, BecomeOK
  <2>11. /\ invitation' \in [Invitations -> Invitation]
         /\ \A j \in Invitations : invitation'[j].ws # None => workspace'[invitation'[j].ws] = "live"
    BY <1>v, <1>l, <2>0, <2>2, <2>4, <2>5
  <2>s. seat \in [Workspaces -> [Users -> Seat]]
    BY <1>0 DEF RowsOK
  <2>12. seat' \in [Workspaces -> [Users -> Seat]]
    BY <1>2, <2>s, <2>7, <2>8
  <2>f. \A x \in Workspaces, v \in Users : seat[x][v].role # "none" => workspace[x] = "live"
    BY <1>0 DEF RowsOK
  <2>13. \A x \in Workspaces, v \in Users : seat'[x][v].role # "none" => workspace'[x] = "live"
    <3>1. \A x \in Workspaces \ {w} : seat'[x] = seat[x]
      BY <2>s, <2>8
    <3> QED
      BY <2>0, <2>f, <3>1
  <2>14. /\ lastActive' \in [Users -> Workspaces \cup {None}]
         /\ \A u \in Users : lastActive'[u] # None => workspace'[lastActive'[u]] = "live"
    BY <1>0, <1>2, <2>0, <2>1 DEF RowsOK
  <2>15. RowsOK'
    BY <1>0, <2>0, <2>11, <2>12, <2>13, <2>14 DEF RowsOK
  <2> QED
    BY <1>0, <1>1, <2>10, <2>15, CountersKept DEF DataOK
<1> QED
  BY <1>3, <1>4, <1>5, <1>6

\* Requests that arrive, and the passing of time.
LEMMA ArrivalsOK ==
  ASSUME DataOK, NEW r \in Requests, Arrival(r)
  PROVE  DataOK'
<1>0. RowsOK /\ RequestsOK /\ CountersOK
  BY DEF DataOK
<1>1. PICK u \in Users :
        \/ \E w \in Workspaces : \/ \E op \in OwnerOperations \cup {"leave"} : Authorise(r, op, u, w)
                                 \/ CreateWorkspace(r, u, w) \/ ReadSelection(r, u, w)
        \/ \E op \in InvitationOperations, i \in Invitations : ReadOwnInvitation(r, op, u, i)
  BY DEF Arrival
<1>2. ASSUME mailed' = mailed, NEW op, Arrive(r, op)
      PROVE  CountersOK'
  BY <1>0, <1>2 DEF CountersOK, Arrive
<1>3. ASSUME NEW w \in Workspaces, NEW op \in OwnerOperations \cup {"leave"}, Authorise(r, op, u, w)
      PROVE  DataOK'
  <2> DEFINE q == [Idle EXCEPT !.pc = "authorised", !.op = op, !.user = u, !.ws = w]
  <2>0. /\ Arrive(r, op) /\ mailed' = mailed
        /\ seat[w][u].role # "none"
        /\ lastActive' = [lastActive EXCEPT ![u] = w]
        /\ Become(r, q)
        /\ UNCHANGED <<workspace, seat, invitation>>
    BY <1>3 DEF Authorise
  <2>1. q \in Request /\ Loaded(q)
    BY DEF Idle, Request, Loaded, Endpoints
  <2> HIDE DEF q
  <2>2. RequestsOK'
    BY <1>0, <2>0, <2>1, BecomeOK
  <2>3. RowsOK'
    BY <1>0, <2>0 DEF RowsOK
  <2> QED
    BY <1>2, <2>0, <2>2, <2>3 DEF DataOK
<1>4. ASSUME NEW w \in Workspaces, CreateWorkspace(r, u, w) PROVE DataOK'
  <2> DEFINE s == [role |-> "owner", id |-> 1]
  <2>0. /\ Arrive(r, "create") /\ mailed' = mailed /\ request' = request
        /\ workspace' = [workspace EXCEPT ![w] = "live"]
        /\ seat' = [seat EXCEPT ![w][u] = s]
        /\ lastActive' = [lastActive EXCEPT ![u] = w]
        /\ invitation' = invitation
    BY <1>4 DEF CreateWorkspace
  <2>1. s \in Seat
    BY DEF Seat
  <2> HIDE DEF s
  <2>2. RowsOK'
    <3>1. /\ workspace' \in [Workspaces -> {"unborn", "live", "deleted"}]
          /\ \A x \in Workspaces : workspace'[x] = "live" \/ workspace'[x] = workspace[x]
          /\ workspace'[w] = "live"
      BY <1>0, <2>0 DEF RowsOK
    <3>2. /\ seat' \in [Workspaces -> [Users -> Seat]]
          /\ \A x \in Workspaces \ {w} : seat'[x] = seat[x]
      BY <1>0, <2>0, <2>1 DEF RowsOK
    <3>a. \A x \in Workspaces, v \in Users : seat[x][v].role # "none" => workspace[x] = "live"
      BY <1>0 DEF RowsOK
    <3>3. \A x \in Workspaces, v \in Users : seat'[x][v].role # "none" => workspace'[x] = "live"
      BY <3>1, <3>2, <3>a
    <3>4. \A j \in Invitations : invitation[j].ws # None => invitation[j].ws \in Workspaces
      BY <1>0 DEF RowsOK, Invitation
    <3>5. \A j \in Invitations : invitation'[j].ws # None => workspace'[invitation'[j].ws] = "live"
      BY <1>0, <2>0, <3>1, <3>4 DEF RowsOK
    <3>6. /\ lastActive' \in [Users -> Workspaces \cup {None}]
          /\ \A v \in Users : lastActive'[v] # None => workspace'[lastActive'[v]] = "live"
      BY <1>0, <2>0, <3>1 DEF RowsOK
    <3> QED
      BY <1>0, <2>0, <3>1, <3>2, <3>3, <3>5, <3>6 DEF RowsOK
  <2>3. RequestsOK'
    BY <1>0, <2>0 DEF RequestsOK
  <2> QED
    BY <1>2, <2>0, <2>2, <2>3 DEF DataOK
<1>5. ASSUME NEW w \in Workspaces, ReadSelection(r, u, w) PROVE DataOK'
  <2> DEFINE q == [Idle EXCEPT !.pc = "select", !.op = "select", !.user = u, !.ws = w]
  <2>0. Arrive(r, "select") /\ mailed' = mailed /\ UNCHANGED rows /\ Become(r, q)
    BY <1>5 DEF ReadSelection
  <2>1. q \in Request /\ Loaded(q)
    BY DEF Idle, Request, Loaded, Endpoints
  <2> HIDE DEF q
  <2>2. RequestsOK'
    BY <1>0, <2>0, <2>1, BecomeOK
  <2> QED
    BY <1>0, <1>2, <2>0, <2>2, RowsKept DEF DataOK
<1>6. ASSUME NEW op \in InvitationOperations, NEW i \in Invitations, ReadOwnInvitation(r, op, u, i)
      PROVE  DataOK'
  <2> DEFINE q == [Idle EXCEPT !.pc = IF op = "decline" THEN "write" ELSE "seat",
                              !.op = op, !.user = u, !.ws = invitation[i].ws, !.inv = i]
  <2>0. Arrive(r, op) /\ Open(i) /\ mailed' = mailed /\ UNCHANGED rows /\ Become(r, q)
    BY <1>6 DEF ReadOwnInvitation
  <2>1. invitation[i].ws \in Workspaces
    BY <1>0, <2>0 DEF Open, RowsOK, Invitation
  <2>2. q \in Request /\ Loaded(q)
    BY <2>1 DEF Idle, Request, Loaded, Endpoints, InvitationOperations
  <2> HIDE DEF q
  <2>3. RequestsOK'
    BY <1>0, <2>0, <2>2, BecomeOK
  <2> QED
    BY <1>0, <1>2, <2>0, <2>3, RowsKept DEF DataOK
<1> QED
  BY <1>1, <1>3, <1>4, <1>5, <1>6

LEMMA ExpiryOK ==
  ASSUME DataOK, ExpireOldInvitations \/ \E i \in Invitations : Expire(i)
  PROVE  DataOK'
<1>0. RowsOK /\ RequestsOK /\ CountersOK
  BY DEF DataOK
<1>1. UNCHANGED <<workspace, seat, lastActive, mailed, request, spent>>
  BY ZenonT(20) DEF Expire, ExpireOldInvitations
<1>v. invitation \in [Invitations -> Invitation]
  BY <1>0 DEF RowsOK
<1> DEFINE Kept == /\ invitation' \in [Invitations -> Invitation]
                   /\ \A j \in Invitations : invitation'[j].ws = invitation[j].ws
<1>2. ASSUME NEW i \in Invitations, Expire(i) PROVE Kept
  <2> DEFINE inv == [invitation[i] EXCEPT !.expired = TRUE]
  <2>1. inv \in Invitation /\ inv.ws = invitation[i].ws
    BY <1>v, InvitationChanged
  <2>2. invitation' = [invitation EXCEPT ![i] = inv]
    BY <1>v, <1>2 DEF Expire
  <2> HIDE DEF inv
  <2> QED
    BY <1>v, <2>1, <2>2
<1>3. ASSUME ExpireOldInvitations PROVE Kept
  <2> DEFINE inv(j) == [invitation[j] EXCEPT !.revoked = TRUE]
  <2>1. \A j \in Invitations : inv(j) \in Invitation /\ inv(j).ws = invitation[j].ws
    BY <1>v, InvitationChanged
  <2>2. invitation' = [j \in Invitations |->
                         IF Open(j) /\ invitation[j].expired THEN inv(j) ELSE invitation[j]]
    BY <1>3 DEF ExpireOldInvitations
  <2> HIDE DEF inv
  <2> QED
    BY <1>v, <2>1, <2>2
<1>4. Kept
  BY <1>2, <1>3
<1>5. RowsOK'
  BY <1>0, <1>1, <1>4 DEF RowsOK
<1>6. RequestsOK'
  BY <1>0, <1>1 DEF RequestsOK
<1> QED
  BY <1>0, <1>1, <1>5, <1>6, CountersKept DEF DataOK

LEMMA DataNext ==
  ASSUME DataOK, LocksOK, [Next]_vars
  PROVE  DataOK'
<1>1. CASE UNCHANGED vars
  <2>1. UNCHANGED rows /\ UNCHANGED <<mailed, spent>> /\ request' = request
    BY <1>1 DEF vars
  <2>2. RequestsOK'
    BY <2>1 DEF RequestsOK, DataOK
  <2> QED
    BY <2>1, <2>2, RowsKept, CountersKept DEF DataOK
<1>2. ASSUME NEW r \in Requests, Arrival(r) \/ RequestStep(r) PROVE DataOK'
  BY <1>2, ArrivalsOK, ReadsOK, SimpleWritesOK, MembershipWritesOK, InvitationWritesOK
     DEF RequestStep
<1> QED
  BY <1>1, <1>2, ExpiryOK DEF Next

\* The steps that write seats, and those that write invitations.
LEMMA SeatSteps ==
  ASSUME [Next]_vars, seat' # seat
  PROVE  \E r \in Requests :
           \/ DeleteMember(r) \/ Promote(r) \/ DeleteTenant(r) \/ Join(r)
           \/ \E u \in Users, w \in Workspaces : CreateWorkspace(r, u, w)
<1>1. Next
  BY DEF vars, rows
<1>2. ~ExpireOldInvitations /\ \A i \in Invitations : ~Expire(i)
  BY DEF ExpireOldInvitations, Expire
<1>3. ASSUME NEW r \in Requests, Arrival(r)
      PROVE  \E u \in Users, w \in Workspaces : CreateWorkspace(r, u, w)
  <2>1. /\ \A op, u, w : ~Authorise(r, op, u, w)
        /\ \A u, w : ~ReadSelection(r, u, w)
        /\ \A op, u, i : ~ReadOwnInvitation(r, op, u, i)
    BY Zenon DEF Authorise, ReadSelection, ReadOwnInvitation, rows
  <2> QED
    BY <1>3, <2>1 DEF Arrival
<1>4. ASSUME NEW r \in Requests, RequestStep(r)
      PROVE  DeleteMember(r) \/ Promote(r) \/ DeleteTenant(r) \/ Join(r)
  <2>1. /\ ~ReadMember(r) /\ ~ReadOwner(r) /\ ~ReadTarget(r) /\ ~Demote(r) /\ ~CountMembers(r)
        /\ ~CheckInvitee(r) /\ ~CheckOpen(r) /\ ~ReadInvitation(r) /\ ~ReadSeat(r)
    BY Zenon DEF rows, ReadMember, ReadOwner, ReadTarget, Demote, CountMembers, CheckInvitee,
           CheckOpen, ReadInvitation, ReadSeat
  <2>2. /\ ~CreateInvitation(r) /\ ~SendInvitation(r) /\ ~ResendInvitation(r)
        /\ ~RevokeInvitation(r) /\ ~SelectWorkspace(r) /\ ~GiveUp(r)
    BY Zenon DEF rows, CreateInvitation, SendInvitation, ResendInvitation, RevokeInvitation,
           SelectWorkspace, GiveUp
  <2> QED
    BY <1>4, <2>1, <2>2 DEF RequestStep
<1> QED
  BY <1>1, <1>2, <1>3, <1>4 DEF Next

LEMMA InvitationSteps ==
  ASSUME [Next]_vars, invitation' # invitation
  PROVE  \/ \E r \in Requests : \/ CreateInvitation(r) \/ ResendInvitation(r)
                               \/ RevokeInvitation(r) \/ Join(r) \/ DeleteTenant(r)
         \/ \E i \in Invitations : Expire(i)
         \/ ExpireOldInvitations
<1>1. Next
  BY DEF vars, rows
<1>2. ASSUME NEW r \in Requests PROVE ~Arrival(r)
  <2>1. /\ \A op, u, w : ~Authorise(r, op, u, w)
        /\ \A u, w : ~ReadSelection(r, u, w) /\ ~CreateWorkspace(r, u, w)
        /\ \A op, u, i : ~ReadOwnInvitation(r, op, u, i)
    BY Zenon DEF Authorise, ReadSelection, CreateWorkspace, ReadOwnInvitation, rows
  <2> QED
    BY <2>1 DEF Arrival
<1>3. ASSUME NEW r \in Requests, RequestStep(r)
      PROVE  CreateInvitation(r) \/ ResendInvitation(r) \/ RevokeInvitation(r) \/ Join(r)
               \/ DeleteTenant(r)
  <2>1. /\ ~ReadMember(r) /\ ~ReadOwner(r) /\ ~ReadTarget(r) /\ ~Demote(r) /\ ~CountMembers(r)
        /\ ~CheckInvitee(r) /\ ~CheckOpen(r) /\ ~ReadInvitation(r) /\ ~ReadSeat(r)
    BY Zenon DEF rows, ReadMember, ReadOwner, ReadTarget, Demote, CountMembers, CheckInvitee,
           CheckOpen, ReadInvitation, ReadSeat
  <2>2. /\ ~DeleteMember(r) /\ ~Promote(r) /\ ~SendInvitation(r)
        /\ ~SelectWorkspace(r) /\ ~GiveUp(r)
    BY Zenon DEF rows, DeleteMember, Promote, SendInvitation, SelectWorkspace, GiveUp
  <2> QED
    BY <1>3, <2>1, <2>2 DEF RequestStep
<1> QED
  BY <1>1, <1>2, <1>3 DEF Next

\* A row that is locked stays.
LEMMA LockedStays ==
  ASSUME DataOK, [Next]_vars, NEW w \in Workspaces, NEW u \in Users,
         seat[w][u].role # "none", Locked(w, u)
  PROVE  seat'[w][u].role # "none" /\ seat'[w][u].id = seat[w][u].id
<1> DEFINE Stays == seat'[w][u].role # "none" /\ seat'[w][u].id = seat[w][u].id
<1>1. CASE seat' = seat
  BY <1>1
<1>2. ASSUME NEW r \in Requests, DeleteMember(r) PROVE Stays
  BY <1>2 DEF DeleteMember, DataOK, RowsOK
<1>3. ASSUME NEW r \in Requests, Promote(r) PROVE Stays
  <2> DEFINE demoted == [seat[w] EXCEPT ![request[r].user].role = "member"]
             promoted == [demoted EXCEPT ![request[r].target].role = "owner"]
  <2>1. seat[w] \in [Users -> Seat]
    BY DEF DataOK, RowsOK
  <2>2. demoted \in [Users -> Seat] /\ demoted[u].id = seat[w][u].id /\ demoted[u].role # "none"
    BY <2>1 DEF Seat
  <2>3. promoted[u].id = seat[w][u].id /\ promoted[u].role # "none"
    BY <2>2 DEF Seat
  <2>0. seat \in [Workspaces -> [Users -> Seat]]
    BY DEF DataOK, RowsOK
  <2> DEFINE lower == [seat[request[r].ws] EXCEPT ![request[r].user].role = "member"]
             raise == [lower EXCEPT ![request[r].target].role = "owner"]
  <2>4. \/ seat' = [seat EXCEPT ![request[r].ws] = raise]
        \/ seat' = [seat EXCEPT ![request[r].ws] = lower]
    BY <1>3, Zenon DEF Promote
  <2>5. CASE request[r].ws # w
    <3> HIDE DEF lower, raise
    <3>1. seat'[w] = seat[w]
      BY <2>0, <2>4, <2>5
    <3> QED
      BY <3>1
  <2>6. CASE request[r].ws = w
    <3>1. lower = demoted /\ raise = promoted
      BY <2>6, Zenon
    <3> HIDE DEF lower, raise, demoted, promoted
    <3>2. seat'[w] = demoted \/ seat'[w] = promoted
      BY <2>0, <2>4, <2>6, <3>1
    <3>3. seat'[w][u] = demoted[u] \/ seat'[w][u] = promoted[u]
      BY <3>2
    <3> QED
      BY <2>2, <2>3, <3>3 DEF Stays
  <2> QED
    BY <2>5, <2>6
<1>4. ASSUME NEW r \in Requests, DeleteTenant(r) PROVE Stays
  BY <1>4 DEF DeleteTenant, DataOK, RowsOK
<1>5. ASSUME NEW r \in Requests, Join(r) PROVE Stays
  <2>1. ~(request[r].ws = w /\ request[r].user = u /\ request[r].seen = "none")
    BY <1>5 DEF Join
  <2>2. seat'[w][u] = seat[w][u]
    BY <1>5, <2>1 DEF Join, DataOK, RowsOK
  <2> QED
    BY <2>2
<1>6. ASSUME NEW r \in Requests, NEW v \in Users, NEW x \in Workspaces, CreateWorkspace(r, v, x)
      PROVE  Stays
  BY <1>6 DEF CreateWorkspace, DataOK, RowsOK
<1> QED
  BY <1>1, <1>2, <1>3, <1>4, <1>5, <1>6, SeatSteps

\* Only the flush of a transfer takes a request to its promotion.
LEMMA OnlyDemotePromotes ==
  ASSUME DataOK, [Next]_vars, NEW r \in Requests, request'[r].pc = "promote",
         request'[r] # request[r]
  PROVE  Demote(r)
<1> USE DEF DataOK, RequestsOK
<1>1. Next
  BY DEF vars
<1>2. request' # request
  OBVIOUS
<1>3. ASSUME NEW v \in Requests, NEW q, Become(v, q) PROVE v = r /\ q.pc = "promote"
  BY <1>3 DEF Become
<1>4. ASSUME NEW v \in Requests, Arrival(v) PROVE FALSE
  <2>1. ASSUME NEW q, q.pc # "promote" PROVE ~Become(v, q)
    BY <1>3, <2>1
  <2>2. \A op, u, w : ~Authorise(v, op, u, w)
    BY <2>1 DEF Authorise, Idle
  <2>3. \A u, w : ~ReadSelection(v, u, w)
    BY <2>1 DEF ReadSelection, Idle
  <2>4. \A u, w : ~CreateWorkspace(v, u, w)
    BY <1>2 DEF CreateWorkspace
  <2>5. ASSUME NEW op, NEW u, NEW i, ReadOwnInvitation(v, op, u, i) PROVE FALSE
    <3> DEFINE q == [Idle EXCEPT !.pc = IF op = "decline" THEN "write" ELSE "seat",
                                !.op = op, !.user = u, !.ws = invitation[i].ws, !.inv = i]
    <3>1. q.pc # "promote"
      BY DEF Idle
    <3> QED
      BY <2>1, <2>5, <3>1 DEF ReadOwnInvitation
  <2> QED
    BY <1>4, <2>2, <2>3, <2>4, <2>5 DEF Arrival
<1>5. ASSUME NEW v \in Requests, RequestStep(v) PROVE Demote(r)
  <2>1. request[v] \in Request
    OBVIOUS
  <2>2. ~Done(v)
    BY <1>3 DEF Done, Idle
  <2>a. ASSUME NEW q, q.pc # "promote" PROVE ~Become(v, q)
    BY <1>3, <2>a
  <2>b. ~ReadMember(v)
    <3> SUFFICES ASSUME NEW u \in Users, LoadMember(v, u) PROVE FALSE
      BY DEF ReadMember
    <3> QED
      BY <2>a, <2>1 DEF LoadMember, Request
  <2>c. ~ReadOwner(v)
    BY <2>a, <2>1 DEF ReadOwner, Request
  <2>d. ASSUME ReadTarget(v) PROVE FALSE
    <3>1. PICK u \in Seated(request[v].ws) \ {request[v].user} :
            Become(v, [request[v] EXCEPT !.pc = "demote", !.target = u,
                         !.targetRow = seat[request[v].ws][u].id,
                         !.seen = seat[request[v].ws][u].role])
      BY Zenon, <2>d DEF ReadTarget
    <3> QED
      BY <2>a, <2>1, <3>1 DEF Request
  <2>e. ~CountMembers(v) /\ ~CheckOpen(v)
    BY <2>a, <2>1 DEF CountMembers, CheckOpen, Step, Request
  <2>f. ASSUME CheckInvitee(v) PROVE FALSE
    <3>1. PICK u : Become(v, [request[v] EXCEPT !.pc = "invitee", !.target = u])
      BY Zenon, <2>f DEF CheckInvitee
    <3> QED
      BY <2>a, <2>1, <3>1 DEF Request
  <2>3. ~ReadMember(v) /\ ~ReadOwner(v) /\ ~ReadTarget(v) /\ ~CountMembers(v)
        /\ ~CheckInvitee(v) /\ ~CheckOpen(v)
    BY <2>b, <2>c, <2>d, <2>e, <2>f
  <2>g. ASSUME ReadInvitation(v) PROVE FALSE
    <3>1. PICK i : Become(v, [request[v] EXCEPT !.pc = "write", !.inv = i])
      BY Zenon, <2>g DEF ReadInvitation
    <3> QED
      BY <2>a, <2>1, <3>1 DEF Request
  <2>h. ASSUME CreateInvitation(v) PROVE FALSE
    <3>1. PICK i : Become(v, [request[v] EXCEPT !.pc = "mail", !.inv = i])
      BY Zenon, <2>h DEF CreateInvitation
    <3> QED
      BY <2>a, <2>1, <3>1 DEF Request
  <2>i. ~ReadSeat(v) /\ ~ResendInvitation(v)
    BY <2>a, <2>1 DEF ReadSeat, ResendInvitation, Request
  <2>4. /\ ~ReadInvitation(v) /\ ~ReadSeat(v) /\ ~CreateInvitation(v) /\ ~ResendInvitation(v)
    BY <2>g, <2>h, <2>i
  <2>5. ~Join(v)
    BY <1>3, <2>1, <2>2 DEF Join, Step, Request
  <2>6. /\ ~DeleteMember(v) /\ ~Promote(v) /\ ~DeleteTenant(v) /\ ~SendInvitation(v)
        /\ ~RevokeInvitation(v) /\ ~SelectWorkspace(v) /\ ~GiveUp(v)
    BY <2>2 DEF DeleteMember, Promote, DeleteTenant, SendInvitation, RevokeInvitation,
                SelectWorkspace, GiveUp
  <2>7. Demote(v) => v = r
    BY <1>3 DEF Demote, Step
  <2> QED
    BY <1>5, <2>3, <2>4, <2>5, <2>6, <2>7 DEF RequestStep
<1>6. ~ExpireOldInvitations /\ \A i \in Invitations : ~Expire(i)
  BY <1>2 DEF ExpireOldInvitations, Expire
<1> QED
  BY <1>1, <1>4, <1>5, <1>6 DEF Next

LEMMA LocksNext ==
  ASSUME DataOK, LocksOK, [Next]_vars
  PROVE  LocksOK'
<1> SUFFICES ASSUME NEW r \in Requests, request'[r].pc = "promote"
             PROVE  IsRow(request[r].ws, request[r].user, request[r].row)'
  BY DEF LocksOK
<1> DEFINE w == request[r].ws
           u == request[r].user
<1>1. CASE request'[r] = request[r]
  <2>1. request[r].pc = "promote" /\ w \in Workspaces /\ u \in Users
    BY <1>1, CallerOK DEF DataOK
  <2>2. seat[w][u].role # "none" /\ seat[w][u].id = request[r].row
    BY <2>1 DEF LocksOK, IsRow
  <2>3. Locked(w, u)
    BY <2>1 DEF Locked, LockedBy
  <2>4. seat'[w][u].role # "none" /\ seat'[w][u].id = seat[w][u].id
    BY <2>1, <2>2, <2>3, LockedStays
  <2> QED
    BY <1>1, <2>2, <2>4 DEF IsRow
<1>2. CASE request'[r] # request[r]
  <2>1. Demote(r)
    BY <1>2, OnlyDemotePromotes
  <2>2. IsRow(w, u, request[r].row) /\ seat' = seat
    BY <2>1 DEF Demote, rows
  <2>3. request[r] \in Request
    BY DEF DataOK, RequestsOK
  <2>4. request'[r] = [request[r] EXCEPT !.pc = "promote"]
    BY <2>1 DEF Demote, Step, Become, DataOK, RequestsOK
  <2>5. /\ request'[r].ws = w /\ request'[r].user = u
        /\ request'[r].row = request[r].row
    BY <2>3, <2>4 DEF Request
  <2> QED
    BY <2>2, <2>5 DEF IsRow
<1> QED
  BY <1>1, <1>2

LEMMA DataInit == Init => DataOK /\ LocksOK
<1> SUFFICES ASSUME Init PROVE DataOK /\ LocksOK
  OBVIOUS
<1>1. RequestsOK /\ LocksOK
  BY IdleOK DEF Init, RequestsOK, LocksOK, Idle
<1>2. PICK owner \in [Workspaces -> Users], members \in [Workspaces -> SUBSET Users] :
        seat = [w \in Workspaces |-> [u \in Users |->
                  IF workspace[w] = "unborn" THEN NoSeat
                  ELSE IF u = owner[w] THEN [role |-> "owner", id |-> 1]
                  ELSE IF u \in members[w] THEN [role |-> "member", id |-> 1]
                  ELSE NoSeat]]
  BY DEF Init
<1>3. /\ [role |-> "owner", id |-> 1] \in Seat /\ [role |-> "member", id |-> 1] \in Seat
      /\ NoSeat \in Seat /\ NoSeat.role = "none"
  BY DEF Seat, NoSeat
<1>4. seat \in [Workspaces -> [Users -> Seat]]
  BY <1>2, <1>3
<1>5. \A w \in Workspaces, u \in Users : seat[w][u].role # "none" => workspace[w] = "live"
  BY <1>2, <1>3 DEF Init
<1>6. NoInvitation \in Invitation /\ NoInvitation.ws = None
  BY DEF NoInvitation, Invitation
<1>7. RowsOK
  BY <1>4, <1>5, <1>6 DEF Init, RowsOK
<1> QED
  BY <1>1, <1>7 DEF Init, DataOK, CountersOK

\* Every request, row and lock stays well-formed, foreign keys included.
THEOREM TypeCorrect == Spec => []TypeOK
<1>1. TypeOK <=> DataOK /\ LocksOK
  BY DEF TypeOK, DataOK, CountersOK
<1>2. DataOK /\ LocksOK /\ [Next]_vars => (DataOK /\ LocksOK)'
  BY DataNext, LocksNext
<1> QED
  BY <1>1, <1>2, DataInit, PTL DEF Spec

\* The two unique indexes.
LEMMA OneOwnerNext ==
  ASSUME DataOK, AtMostOneOwner, [Next]_vars
  PROVE  AtMostOneOwner'
<1> SUFFICES ASSUME NEW w \in Workspaces, NEW u \in Users, NEW v \in Users,
                    seat'[w][u].role = "owner", seat'[w][v].role = "owner"
             PROVE  u = v
  BY DEF AtMostOneOwner
<1> USE DEF DataOK, RowsOK
<1>1. CASE \A x \in Users : seat'[w][x].role = "owner" => seat[w][x].role = "owner"
  BY <1>1 DEF AtMostOneOwner
<1>2. ASSUME NEW r \in Requests, Promote(r) PROVE u = v
  <2> DEFINE demoted == [seat[w] EXCEPT ![request[r].user].role = "member"]
             promoted == [demoted EXCEPT ![request[r].target].role = "owner"]
  <2>1. CASE request[r].ws # w \/ request[r].seen # "member"
    <3>a. seat'[w] = seat[w] \/ seat'[w] = demoted
      <4>1. CASE request[r].ws # w
        BY Zenon, <1>2, <4>1 DEF Promote
      <4>2. CASE request[r].ws = w /\ request[r].seen # "member"
        BY <1>2, <4>2 DEF Promote
      <4> QED
        BY <2>1, <4>1, <4>2
    <3>b. \A x \in Users : demoted[x].role = "owner" => seat[w][x].role = "owner"
      BY DEF Seat
    <3>1. \A x \in Users : seat'[w][x].role = "owner" => seat[w][x].role = "owner"
      BY <3>a, <3>b
    <3> QED
      BY <1>1, <3>1
  <2>2. CASE request[r].ws = w /\ request[r].seen = "member"
    <3>1. \A x \in Users \ {request[r].target} : demoted[x].role # "owner"
      BY <1>2, <2>2 DEF Promote
    <3>2. \A x \in Users \ {request[r].target} : promoted[x].role # "owner"
      BY <3>1
    <3>3. seat'[w] = promoted
      BY <1>2, <2>2 DEF Promote
    <3> QED
      BY <3>2, <3>3
  <2> QED
    BY <2>1, <2>2
<1>3. ASSUME NEW r \in Requests, DeleteMember(r)
      PROVE  \A x \in Users : seat'[w][x].role = "owner" => seat[w][x].role = "owner"
  BY <1>3 DEF DeleteMember
<1>4. ASSUME NEW r \in Requests, DeleteTenant(r)
      PROVE  \A x \in Users : seat'[w][x].role = "owner" => seat[w][x].role = "owner"
  BY <1>4 DEF DeleteTenant
<1>5. ASSUME NEW r \in Requests, Join(r)
      PROVE  \A x \in Users : seat'[w][x].role = "owner" => seat[w][x].role = "owner"
  BY <1>5 DEF Join
<1>6. ASSUME NEW r \in Requests, NEW y \in Users, NEW x \in Workspaces, CreateWorkspace(r, y, x)
      PROVE  u = v
  <2>1. CASE x # w
    BY <1>1, <1>6, <2>1 DEF CreateWorkspace
  <2>2. CASE x = w
    <3>1. \A z \in Users : seat[w][z].role = "none"
      BY <1>6, <2>2 DEF CreateWorkspace, Seat
    <3> QED
      BY <1>6, <2>2, <3>1 DEF CreateWorkspace
  <2> QED
    BY <2>1, <2>2
<1> QED
  BY <1>1, <1>2, <1>3, <1>4, <1>5, <1>6, SeatSteps

LEMMA OneOwnerInit == Init => AtMostOneOwner
<1> SUFFICES ASSUME Init PROVE AtMostOneOwner
  OBVIOUS
<1>1. PICK owner \in [Workspaces -> Users], members \in [Workspaces -> SUBSET Users] :
        seat = [w \in Workspaces |-> [u \in Users |->
                  IF workspace[w] = "unborn" THEN NoSeat
                  ELSE IF u = owner[w] THEN [role |-> "owner", id |-> 1]
                  ELSE IF u \in members[w] THEN [role |-> "member", id |-> 1]
                  ELSE NoSeat]]
  BY DEF Init
<1>2. \A w \in Workspaces, u \in Users : seat[w][u].role = "owner" => u = owner[w]
  BY <1>1 DEF NoSeat
<1> QED
  BY <1>2 DEF AtMostOneOwner

\* However many transfers overlap, a workspace never has two owners.
THEOREM NeverTwoOwners == Spec => []AtMostOneOwner
<1>1. DataOK /\ LocksOK /\ AtMostOneOwner /\ [Next]_vars
        => (DataOK /\ LocksOK /\ AtMostOneOwner)'
  BY DataNext, LocksNext, OneOwnerNext
<1> QED
  BY <1>1, DataInit, OneOwnerInit, PTL DEF Spec

\* What a step may do to an invitation.
LEMMA InvitationNext ==
  ASSUME DataOK, [Next]_vars, NEW i \in Invitations
  PROVE  \/ /\ Open(i)' => Open(i)
            /\ Open(i)' => invitation'[i].ws = invitation[i].ws /\ invitation'[i].to = invitation[i].to
         \/ /\ ~invitation[i].used
            /\ OpenFor(invitation'[i].ws, invitation'[i].to) = {}
            /\ \A j \in Invitations \ {i} : invitation'[j] = invitation[j]
<1> USE DEF DataOK, RowsOK
<1> DEFINE Shrinks ==
             /\ Open(i)' => Open(i)
             /\ Open(i)' => /\ invitation'[i].ws = invitation[i].ws
                            /\ invitation'[i].to = invitation[i].to
           Appears == /\ ~invitation[i].used
                      /\ OpenFor(invitation'[i].ws, invitation'[i].to) = {}
                      /\ \A j \in Invitations \ {i} : invitation'[j] = invitation[j]
<1>2. ASSUME NEW r \in Requests, CreateInvitation(r)
      PROVE  Shrinks \/ Appears
  <2> DEFINE new == [NoInvitation EXCEPT !.ws = request[r].ws, !.to = request[r].target,
                                        !.used = TRUE]
  <2>1. PICK j \in Invitations : ~invitation[j].used /\ invitation' = [invitation EXCEPT ![j] = new]
    BY <1>2 DEF CreateInvitation
  <2>2. new.ws = request[r].ws /\ new.to = request[r].target
    BY DEF NoInvitation
  <2>3. CASE j = i
    BY <1>2, <2>1, <2>2, <2>3 DEF CreateInvitation
  <2>4. CASE j # i
    BY <2>1, <2>4 DEF Open
  <2> QED
    BY <2>3, <2>4
<1>3. ASSUME NEW r \in Requests, ResendInvitation(r) PROVE Shrinks
  BY <1>3 DEF ResendInvitation, Open, Invitation
<1>4. ASSUME NEW r \in Requests, RevokeInvitation(r) PROVE Shrinks
  BY <1>4 DEF RevokeInvitation, Open, Invitation
<1>5. ASSUME NEW r \in Requests, Join(r) PROVE Shrinks
  BY <1>5 DEF Join, Open, Invitation
<1>6. ASSUME NEW r \in Requests, DeleteTenant(r) PROVE Shrinks
  BY <1>6 DEF DeleteTenant, Open, Invitation, NoInvitation
<1>7. ASSUME NEW j \in Invitations, Expire(j) PROVE Shrinks
  BY <1>7 DEF Expire, Open, Invitation
<1>8. ASSUME ExpireOldInvitations PROVE Shrinks
  BY <1>8 DEF ExpireOldInvitations, Open, Invitation
<1>9. Shrinks \/ Appears
  <2>1. CASE invitation' = invitation
    BY <2>1 DEF Open
  <2> HIDE DEF Shrinks, Appears
  <2> QED
    BY <2>1, <1>2, <1>3, <1>4, <1>5, <1>6, <1>7, <1>8, InvitationSteps
<1> QED
  BY <1>9

\* An address has one open invitation to a workspace at most.
THEOREM NeverTwoInvitations == Spec => []OneOpenInvitation
<1>1. Init => OneOpenInvitation
  BY DEF Init, OneOpenInvitation, Open, NoInvitation
<1>2. ASSUME DataOK, OneOpenInvitation, [Next]_vars PROVE OneOpenInvitation'
  <2> SUFFICES ASSUME NEW i \in Invitations, NEW j \in Invitations, Open(i)', Open(j)',
                      invitation'[i].ws = invitation'[j].ws, invitation'[i].to = invitation'[j].to,
                      i # j
               PROVE  FALSE
    BY DEF OneOpenInvitation
  <2>1. CASE invitation'[j] = invitation[j] /\ ~invitation[i].used
               /\ OpenFor(invitation'[i].ws, invitation'[i].to) = {}
    BY <2>1 DEF OpenFor, Open
  <2>2. CASE invitation'[i] = invitation[i] /\ ~invitation[j].used
               /\ OpenFor(invitation'[j].ws, invitation'[j].to) = {}
    BY <2>2 DEF OpenFor, Open
  <2>3. CASE /\ Open(i) /\ invitation'[i].ws = invitation[i].ws /\ invitation'[i].to = invitation[i].to
             /\ Open(j) /\ invitation'[j].ws = invitation[j].ws /\ invitation'[j].to = invitation[j].to
    BY <1>2, <2>3 DEF OneOpenInvitation
  <2> QED
    BY <1>2, <2>1, <2>2, <2>3, InvitationNext
<1>3. DataOK /\ LocksOK /\ OneOpenInvitation /\ [Next]_vars
        => (DataOK /\ LocksOK /\ OneOpenInvitation)'
  BY <1>2, DataNext, LocksNext
<1> QED
  BY <1>1, <1>3, DataInit, PTL DEF Spec

\* A redeemed or revoked invitation never opens again, whatever stale request
\* writes to it.
THEOREM ClosedForGood == Spec => ClosedInvitationsStayClosed
<1> DEFINE A == \A i \in Invitations : invitation[i].used /\ ~Open(i) => ~Open(i)'
<1>1. DataOK /\ LocksOK /\ [Next]_vars => (DataOK /\ LocksOK)'
  BY DataNext, LocksNext
<1>2. DataOK /\ [Next]_vars => [A]_vars
  BY InvitationNext
<1> QED
  BY <1>1, <1>2, DataInit, PTL DEF Spec, ClosedInvitationsStayClosed

\* The owner of a workspace is lost only to a request whose read was overtaken.
THEOREM OwnerIsKept == Spec => OwnerLostOnlyWhenOvertaken
<1> DEFINE A == \A w \in Workspaces :
                 HasOwner(w) /\ workspace'[w] = "live" /\ ~HasOwner(w)'
                   => \E r \in Requests : request[r].ws = w /\ Overtaken(r)
<1>1. DataOK /\ LocksOK /\ [Next]_vars => (DataOK /\ LocksOK)'
  BY DataNext, LocksNext
<1>2. ASSUME DataOK, [Next]_vars PROVE A
  <2> SUFFICES ASSUME NEW w \in Workspaces, NEW o \in Users, seat[w][o].role = "owner",
                      workspace'[w] = "live", ~HasOwner(w)'
               PROVE  \E r \in Requests : request[r].ws = w /\ Overtaken(r)
    BY DEF HasOwner
  <2> USE <1>2 DEF DataOK, RowsOK
  <2>1. \A u \in Users : seat'[w][u].role # "owner"
    BY DEF HasOwner
  <2>2. PICK r \in Requests :
          \/ DeleteMember(r) \/ Promote(r) \/ DeleteTenant(r) \/ Join(r)
          \/ \E u \in Users, x \in Workspaces : CreateWorkspace(r, u, x)
    BY <2>1, SeatSteps
  <2>3. CASE DeleteMember(r)
    <3>1. request[r].target = o /\ request[r].ws = w
      BY <2>1, <2>3 DEF DeleteMember
    <3>2. request[r].seen = "member"
      BY <2>3 DEF DeleteMember, At, RequestsOK, Loaded
    <3> QED
      BY <2>3, <3>1, <3>2 DEF DeleteMember, Overtaken
  <2>4. CASE Promote(r)
    <3> DEFINE demoted == [seat[w] EXCEPT ![request[r].user].role = "member"]
               promoted == [demoted EXCEPT ![request[r].target].role = "owner"]
    <3>1. At(r, "transfer", "promote") /\ request[r] \in Request
      BY <2>4 DEF Promote, RequestsOK
    <3>2. /\ request[r].user \in Users /\ request[r].target \in Users \ {request[r].user}
          /\ request[r].seen # "none"
      BY <3>1 DEF At, RequestsOK, Loaded
    <3>3. request[r].ws = w
      BY <2>1, <2>4 DEF Promote
    <3>4. CASE request[r].seen = "member"
      <4>1. seat'[w] = promoted
        BY <2>4, <3>3, <3>4 DEF Promote
      <4>2. promoted[request[r].target].role = "owner"
        BY <3>2 DEF Seat
      <4> QED
        BY <2>1, <3>2, <4>1, <4>2
    <3>5. CASE request[r].seen = "owner"
      <4>1. seat'[w] = demoted
        BY <2>4, <3>3, <3>5 DEF Promote
      <4>2. seat[w][request[r].target] = demoted[request[r].target]
        BY <3>2
      <4>3. seat[w][request[r].target].role # "owner"
        BY <2>1, <3>2, <4>1, <4>2
      <4> QED
        BY <3>1, <3>3, <3>5, <4>3 DEF Overtaken
    <3> QED
      BY <3>1, <3>2, <3>4, <3>5 DEF Request
  <2>5. CASE DeleteTenant(r)
    BY <2>1, <2>5 DEF DeleteTenant
  <2>6. CASE Join(r)
    BY <2>1, <2>6 DEF Join
  <2>7. ASSUME NEW u \in Users, NEW x \in Workspaces, CreateWorkspace(r, u, x) PROVE FALSE
    BY <2>1, <2>7 DEF CreateWorkspace
  <2> QED
    BY <2>2, <2>3, <2>4, <2>5, <2>6, <2>7
<1>3. DataOK /\ [Next]_vars => [A]_vars
  BY <1>2
<1> QED
  BY <1>1, <1>3, DataInit, PTL DEF Spec, OwnerLostOnlyWhenOvertaken
=============================================================================
