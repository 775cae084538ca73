----------------------------- MODULE Membership -----------------------------
(***************************************************************************)
(* Workspaces, their members and their invitations.                        *)
(*                                                                         *)
(* Every HTTP request runs in one database session: it authorises the      *)
(* caller, reads the rows it decides on, and writes.  The writes commit    *)
(* together, but each statement reads what is committed when it runs, so   *)
(* another request may commit between a request's reads and its writes.    *)
(* A request that fails a check, hits a constraint, updates a row that is  *)
(* gone, loses a deadlock or is cut off is rolled back: GiveUp.            *)
(***************************************************************************)
EXTENDS Integers, FiniteSets

CONSTANTS
  Workspaces,   \* ids of tenants rows; an id is never used again
  Users,        \* users; each has one verified address, named by the user
  Invitations,  \* ids of invitations rows
  Requests,     \* requests being served at the same time
  Operations,   \* the endpoints an instance explores
  MaxRequests   \* bound: requests in all

OwnerOperations == {"remove", "transfer", "delete", "invite", "resend", "revoke"}
InvitationOperations == {"redeem", "accept", "decline"}
Endpoints == OwnerOperations \cup InvitationOperations \cup {"leave", "select", "create"}

CONSTANT None   \* SQL NULL

ASSUME ConstantsOK ==
  /\ Operations \subseteq Endpoints
  /\ MaxRequests \in Nat
  /\ None \notin Workspaces \cup Users \cup Invitations

Seat ==         \* a tenant_users row; id tells a row from its successor
  [role: {"none", "member", "owner"}, id: Nat]
NoSeat == [role |-> "none", id |-> 0]

Invitation ==   \* an invitations row; ws is None before it is there and once deleted
  [ws: Workspaces \cup {None}, to: Users \cup {None}, token: Nat,
   expired: BOOLEAN, redeemed: BOOLEAN, revoked: BOOLEAN, used: BOOLEAN]
NoInvitation ==
  [ws |-> None, to |-> None, token |-> 0,
   expired |-> FALSE, redeemed |-> FALSE, revoked |-> FALSE, used |-> FALSE]

\* What a request remembers: its caller and workspace, the member it is about,
\* the ids of the rows it read and the role of the last one, the invitation
\* and the token to send.
Request ==
  [pc: {"idle", "authorised", "owner", "invitee", "demote", "promote",
        "seat", "write", "mail", "select"},
   op: Endpoints \cup {"none"}, user: Users \cup {None}, ws: Workspaces \cup {None},
   target: Users \cup {None}, row: Nat, targetRow: Nat, seen: {"none", "member", "owner"},
   inv: Invitations \cup {None}, token: Nat]
Idle ==
  [pc |-> "idle", op |-> "none", user |-> None, ws |-> None, target |-> None,
   row |-> 0, targetRow |-> 0, seen |-> "none", inv |-> None, token |-> 0]

\* What request q has loaded by the time it gets to a step.
Loaded(q) ==
  /\ q.pc # "idle" => q.user \in Users /\ q.ws \in Workspaces
  /\ q.pc \in {"demote", "promote"} =>
       q.op = "transfer" /\ q.target \in Users \ {q.user} /\ q.seen # "none"
  /\ q.pc = "invitee" => q.target \in Users
  /\ q.pc = "write" /\ q.op = "invite" => q.target \in Users
  /\ q.pc = "write" /\ q.op \in {"remove", "leave"} => q.target \in Users /\ q.seen = "member"
  /\ q.pc = "seat" => q.op \in {"redeem", "accept"}
  /\ q.pc \in {"seat", "mail"} => q.inv \in Invitations
  /\ q.pc = "write" /\ q.op \in InvitationOperations \cup {"resend", "revoke"}
       => q.inv \in Invitations

VARIABLES
  workspace,    \* tenants rows: "unborn", "live" or "deleted"
  seat,         \* tenant_users rows
  invitation,   \* invitations rows
  mailed,       \* the tokens that left the server in an email
  lastActive,   \* users.last_active_tenant_id
  request,      \* requests being served
  spent         \* requests served so far (bounded by MaxRequests)

rows == <<workspace, seat, invitation, lastActive>>
vars == <<rows, mailed, request, spent>>

\* Rows and their foreign keys.
RowsOK ==
  /\ workspace \in [Workspaces -> {"unborn", "live", "deleted"}]
  /\ seat \in [Workspaces -> [Users -> Seat]]
  /\ \A w \in Workspaces, u \in Users : seat[w][u].role # "none" => workspace[w] = "live"
  /\ invitation \in [Invitations -> Invitation]
  /\ \A i \in Invitations : invitation[i].ws # None => workspace[invitation[i].ws] = "live"
  /\ lastActive \in [Users -> Workspaces \cup {None}]
  /\ \A u \in Users : lastActive[u] # None => workspace[lastActive[u]] = "live"

RequestsOK ==
  /\ request \in [Requests -> Request]
  /\ \A r \in Requests : Loaded(request[r])

Seated(w) == {u \in Users : seat[w][u].role # "none"}
HasOwner(w) == \E u \in Users : seat[w][u].role = "owner"
Open(i) ==
  /\ invitation[i].ws # None
  /\ ~invitation[i].redeemed /\ ~invitation[i].revoked

\* Some workspaces exist already, each with an owner and perhaps members.
Init ==
  /\ workspace \in [Workspaces -> {"unborn", "live"}]
  /\ \E owner \in [Workspaces -> Users], members \in [Workspaces -> SUBSET Users] :
       seat = [w \in Workspaces |-> [u \in Users |->
                 IF workspace[w] = "unborn" THEN NoSeat
                 ELSE IF u = owner[w] THEN [role |-> "owner", id |-> 1]
                 ELSE IF u \in members[w] THEN [role |-> "member", id |-> 1]
                 ELSE NoSeat]]
  /\ invitation = [i \in Invitations |-> NoInvitation]
  /\ mailed = {}
  /\ lastActive = [u \in Users |-> None]
  /\ request = [r \in Requests |-> Idle]
  /\ spent = 0

-----------------------------------------------------------------------------
(***************************************************************************)
(* Requests                                                                *)
(***************************************************************************)
At(r, op, pc) == request[r].op = op /\ request[r].pc = pc
Become(r, new) == request' = [request EXCEPT ![r] = new]
Step(r, pc) == Become(r, [request[r] EXCEPT !.pc = pc])
Done(r) == Become(r, Idle)

Arrive(r, op) ==
  /\ request[r].pc = "idle"
  /\ op \in Operations
  /\ spent < MaxRequests
  /\ spent' = spent + 1

\* require_auth and require_owner: the role is read here and not looked at
\* again by the guard.  The workspace becomes the caller's last active one.
Authorise(r, op, u, w) ==
  /\ Arrive(r, op)
  /\ \/ op \in OwnerOperations /\ seat[w][u].role = "owner"
     \/ op = "leave" /\ seat[w][u].role # "none"
  /\ lastActive' = [lastActive EXCEPT ![u] = w]
  /\ Become(r, [Idle EXCEPT !.pc = "authorised", !.op = op, !.user = u, !.ws = w])
  /\ UNCHANGED <<workspace, seat, invitation, mailed>>

GiveUp(r) ==
  /\ request[r].pc # "idle"
  /\ Done(r)
  /\ UNCHANGED <<rows, mailed, spent>>

\* The demotion of a transfer holds a lock on its row until the commit.
LockedBy(v, w, u) ==
  /\ request[v].pc = "promote"
  /\ request[v].ws = w /\ request[v].user = u
Locked(w, u) == \E v \in Requests : LockedBy(v, w, u)
IsRow(w, u, id) == seat[w][u].role # "none" /\ seat[w][u].id = id

\* A row that is locked is not deleted.
LocksOK ==
  \A r \in Requests : request[r].pc = "promote" =>
    IsRow(request[r].ws, request[r].user, request[r].row)

TypeOK ==
  /\ RowsOK
  /\ RequestsOK
  /\ LocksOK
  /\ mailed \subseteq Invitations \X Nat
  /\ spent \in Nat

-----------------------------------------------------------------------------
(***************************************************************************)
(* membership_service, user_service.create_workspace                       *)
(***************************************************************************)
\* The row object of member u, as it is when it is read.
LoadMember(r, u) ==
  Become(r, [request[r] EXCEPT !.pc = "write", !.target = u,
               !.row = seat[request[r].ws][u].id, !.seen = seat[request[r].ws][u].role])

\* Here: remove_member and leave_tenant without the look at the role.
FaultyReadMember(r) ==
  /\ At(r, "remove", "authorised") \/ At(r, "leave", "authorised")
  /\ \E u \in Seated(request[r].ws) :
       /\ (u = request[r].user) <=> (request[r].op = "leave")
       /\ LoadMember(r, u)
  /\ UNCHANGED <<rows, mailed, spent>>

\* remove_member and leave_tenant: the row must be there and not be the owner's.
ReadMember(r) ==
  /\ At(r, "remove", "authorised") \/ At(r, "leave", "authorised")
  /\ \E u \in Users :
       /\ (u = request[r].user) <=> (request[r].op = "leave")
       /\ seat[request[r].ws][u].role = "member"
       /\ LoadMember(r, u)
  /\ UNCHANGED <<rows, mailed, spent>>

\* DELETE by the id that was read.  A row that is gone is only a warning.
DeleteMember(r) ==
  LET w == request[r].ws
      u == request[r].target
  IN
  /\ At(r, "remove", "write") \/ At(r, "leave", "write")
  /\ ~Locked(w, u)
  /\ seat' = IF seat[w][u].id = request[r].row
               THEN [seat EXCEPT ![w][u].role = "none"] ELSE seat
  /\ Done(r)
  /\ UNCHANGED <<workspace, invitation, lastActive, mailed, spent>>

\* transfer_ownership reads the caller's row, then the new owner's.
ReadOwner(r) ==
  /\ At(r, "transfer", "authorised")
  /\ seat[request[r].ws][request[r].user].role = "owner"
  /\ Become(r, [request[r] EXCEPT !.pc = "owner",
                  !.row = seat[request[r].ws][request[r].user].id])
  /\ UNCHANGED <<rows, mailed, spent>>

\* An owner's row that is set to "owner" is unchanged, and not written.
ReadTarget(r) ==
  /\ At(r, "transfer", "owner")
  /\ \E u \in Seated(request[r].ws) \ {request[r].user} :
       Become(r, [request[r] EXCEPT !.pc = "demote", !.target = u,
                    !.targetRow = seat[request[r].ws][u].id,
                    !.seen = seat[request[r].ws][u].role])
  /\ UNCHANGED <<rows, mailed, spent>>

\* The flush: the first UPDATE, which locks the row and is not yet committed.
Demote(r) ==
  /\ At(r, "transfer", "demote")
  /\ IsRow(request[r].ws, request[r].user, request[r].row)
  /\ ~Locked(request[r].ws, request[r].user)
  /\ Step(r, "promote")
  /\ UNCHANGED <<rows, mailed, spent>>

\* Here: without the partial unique index.
FaultyPromote(r) ==
  LET w == request[r].ws
      u == request[r].target
      demoted == [seat[w] EXCEPT ![request[r].user].role = "member"]
  IN
  /\ At(r, "transfer", "promote")
  /\ seat' = [seat EXCEPT ![w] = [demoted EXCEPT ![u].role = "owner"]]
  /\ Done(r)
  /\ UNCHANGED <<workspace, invitation, lastActive, mailed, spent>>

\* The second UPDATE and the commit, under the index that allows one owner.
Promote(r) ==
  LET w == request[r].ws
      u == request[r].target
      demoted == [seat[w] EXCEPT ![request[r].user].role = "member"]
  IN
  /\ At(r, "transfer", "promote")
  /\ IF request[r].seen = "member"
       THEN /\ IsRow(w, u, request[r].targetRow)
            /\ ~Locked(w, u)
            /\ \A v \in Users \ {u} : demoted[v].role # "owner"
            /\ seat' = [seat EXCEPT ![w] = [demoted EXCEPT ![u].role = "owner"]]
       ELSE seat' = [seat EXCEPT ![w] = demoted]
  /\ Done(r)
  /\ UNCHANGED <<workspace, invitation, lastActive, mailed, spent>>

CountMembers(r) ==
  /\ At(r, "delete", "authorised")
  /\ Cardinality(Seated(request[r].ws)) <= 1
  /\ Step(r, "write")
  /\ UNCHANGED <<rows, mailed, spent>>

\* Here: rows of the workspace without ON DELETE CASCADE or SET NULL.
FaultyDeleteTenant(r) ==
  LET w == request[r].ws IN
  /\ At(r, "delete", "write")
  /\ workspace[w] = "live"
  /\ workspace' = [workspace EXCEPT ![w] = "deleted"]
  /\ Done(r)
  /\ UNCHANGED <<seat, invitation, lastActive, mailed, spent>>

\* DELETE FROM tenants, with its cascades and SET NULLs.
DeleteTenant(r) ==
  LET w == request[r].ws IN
  /\ At(r, "delete", "write")
  /\ workspace[w] = "live"
  /\ \A u \in Users : ~Locked(w, u)
  /\ workspace' = [workspace EXCEPT ![w] = "deleted"]
  /\ seat' = [seat EXCEPT ![w] = [u \in Users |-> [seat[w][u] EXCEPT !.role = "none"]]]
  /\ invitation' = [i \in Invitations |->
                      IF invitation[i].ws = w
                        THEN [NoInvitation EXCEPT !.used = TRUE] ELSE invitation[i]]
  /\ lastActive' = [u \in Users |-> IF lastActive[u] = w THEN None ELSE lastActive[u]]
  /\ Done(r)
  /\ UNCHANGED <<mailed, spent>>

\* POST /workspaces: the row, the owner's seat and the selection in one commit.
CreateWorkspace(r, u, w) ==
  /\ Arrive(r, "create")
  /\ workspace[w] = "unborn"
  /\ workspace' = [workspace EXCEPT ![w] = "live"]
  /\ seat' = [seat EXCEPT ![w][u] = [role |-> "owner", id |-> 1]]
  /\ lastActive' = [lastActive EXCEPT ![u] = w]
  /\ UNCHANGED <<invitation, mailed, request>>
-----------------------------------------------------------------------------
(***************************************************************************)
(* invitation_service, for the owner                                       *)
(***************************************************************************)
\* create_invitation: the address is not a member's ...
CheckInvitee(r) ==
  /\ At(r, "invite", "authorised")
  /\ \E u \in Users \ Seated(request[r].ws) :
       Become(r, [request[r] EXCEPT !.pc = "invitee", !.target = u])
  /\ UNCHANGED <<rows, mailed, spent>>

OpenFor(w, u) == {i \in Invitations : Open(i) /\ invitation[i].ws = w /\ invitation[i].to = u}

\* ... it has no open invitation, expired or not, and the workspace is there.
CheckOpen(r) ==
  /\ At(r, "invite", "invitee")
  /\ OpenFor(request[r].ws, request[r].target) = {}
  /\ workspace[request[r].ws] = "live"
  /\ Step(r, "write")
  /\ UNCHANGED <<rows, mailed, spent>>

\* Here: trusting the look at the open invitations, without the unique index.
FaultyCreateInvitation(r) ==
  /\ At(r, "invite", "write")
  /\ workspace[request[r].ws] = "live"
  /\ \E i \in Invitations :
       /\ ~invitation[i].used
       /\ invitation' = [invitation EXCEPT ![i] =
            [NoInvitation EXCEPT !.ws = request[r].ws, !.to = request[r].target,
                                 !.used = TRUE]]
       /\ Become(r, [request[r] EXCEPT !.pc = "mail", !.inv = i])
  /\ UNCHANGED <<workspace, seat, lastActive, mailed, spent>>

\* INSERT, under the foreign key to the workspace and the index that allows
\* one open invitation per workspace and address.  The mail follows the commit.
CreateInvitation(r) ==
  /\ At(r, "invite", "write")
  /\ workspace[request[r].ws] = "live"
  /\ OpenFor(request[r].ws, request[r].target) = {}
  /\ \E i \in Invitations :
       /\ ~invitation[i].used
       /\ invitation' = [invitation EXCEPT ![i] =
            [NoInvitation EXCEPT !.ws = request[r].ws, !.to = request[r].target,
                                 !.used = TRUE]]
       /\ Become(r, [request[r] EXCEPT !.pc = "mail", !.inv = i])
  /\ UNCHANGED <<workspace, seat, lastActive, mailed, spent>>

SendInvitation(r) ==
  /\ request[r].pc = "mail"
  /\ mailed' = mailed \cup {<<request[r].inv, request[r].token>>}
  /\ Done(r)
  /\ UNCHANGED <<rows, spent>>

\* resend_invitation and revoke_invitation look at the row first; revoking
\* what is revoked returns at once.
ReadInvitation(r) ==
  /\ At(r, "resend", "authorised") \/ At(r, "revoke", "authorised")
  /\ \E i \in Invitations :
       /\ invitation[i].ws = request[r].ws
       /\ Open(i)
       /\ Become(r, [request[r] EXCEPT !.pc = "write", !.inv = i])
  /\ UNCHANGED <<rows, mailed, spent>>

\* Here: resending writes the whole row back as it was read, open.
FaultyResendInvitation(r) ==
  LET i == request[r].inv IN
  /\ At(r, "resend", "write")
  /\ invitation[i].ws # None
  /\ invitation' = [invitation EXCEPT ![i].token = @ + 1, ![i].expired = FALSE,
                                      ![i].redeemed = FALSE, ![i].revoked = FALSE]
  /\ Become(r, [request[r] EXCEPT !.pc = "mail", !.token = invitation[i].token + 1])
  /\ UNCHANGED <<workspace, seat, lastActive, mailed, spent>>

\* A new token and a new expiry, whatever happened to the row since the read.
ResendInvitation(r) ==
  LET i == request[r].inv IN
  /\ At(r, "resend", "write")
  /\ invitation[i].ws # None
  /\ invitation' = [invitation EXCEPT ![i].token = @ + 1, ![i].expired = FALSE]
  /\ Become(r, [request[r] EXCEPT !.pc = "mail", !.token = invitation[i].token + 1])
  /\ UNCHANGED <<workspace, seat, lastActive, mailed, spent>>

\* The write of revoke_invitation and of decline_invitation.
RevokeInvitation(r) ==
  /\ At(r, "revoke", "write") \/ At(r, "decline", "write")
  /\ invitation[request[r].inv].ws # None
  /\ invitation' = [invitation EXCEPT ![request[r].inv].revoked = TRUE]
  /\ Done(r)
  /\ UNCHANGED <<workspace, seat, lastActive, mailed, spent>>

-----------------------------------------------------------------------------
(***************************************************************************)
(* invitation_service and routes/me, for the invited user                  *)
(***************************************************************************)
\* redeem_invitation: whoever holds the current token of an open invitation.
\* accept and decline: the user the invitation is addressed to; an expired
\* invitation can still be declined.
ReadOwnInvitation(r, op, u, i) ==
  /\ Arrive(r, op)
  /\ Open(i)
  /\ \/ op = "redeem" /\ <<i, invitation[i].token>> \in mailed /\ ~invitation[i].expired
     \/ op = "accept" /\ invitation[i].to = u /\ ~invitation[i].expired
     \/ op = "decline" /\ invitation[i].to = u
  /\ Become(r, [Idle EXCEPT !.pc = IF op = "decline" THEN "write" ELSE "seat",
                            !.op = op, !.user = u, !.ws = invitation[i].ws, !.inv = i])
  /\ UNCHANGED <<rows, mailed>>

ReadSeat(r) ==
  /\ request[r].pc = "seat"
  /\ Become(r, [request[r] EXCEPT !.pc = "write",
                  !.seen = seat[request[r].ws][request[r].user].role])
  /\ UNCHANGED <<rows, mailed, spent>>

\* The new seat, unique per workspace and user, and redeemed_at in one commit;
\* redeem selects the workspace in a second one.
Join(r) ==
  LET w == request[r].ws
      u == request[r].user
      i == request[r].inv
  IN
  /\ At(r, "redeem", "write") \/ At(r, "accept", "write")
  /\ invitation[i].ws # None /\ workspace[w] = "live"
  /\ request[r].seen = "none" => seat[w][u].role = "none"
  /\ seat' = IF request[r].seen = "none"
               THEN [seat EXCEPT ![w][u] = [role |-> "member", id |-> @.id + 1]] ELSE seat
  /\ invitation' = [invitation EXCEPT ![i].redeemed = TRUE]
  /\ IF request[r].op = "accept"
       THEN lastActive' = [lastActive EXCEPT ![u] = w] /\ Done(r)
       ELSE UNCHANGED lastActive /\ Step(r, "select")
  /\ UNCHANGED <<workspace, mailed, spent>>

\* POST /me/active-workspace reads the caller's seat, then writes.
ReadSelection(r, u, w) ==
  /\ Arrive(r, "select")
  /\ u \in Seated(w)
  /\ Become(r, [Idle EXCEPT !.pc = "select", !.op = "select", !.user = u, !.ws = w])
  /\ UNCHANGED <<rows, mailed>>

SelectWorkspace(r) ==
  /\ request[r].pc = "select"
  /\ workspace[request[r].ws] = "live"
  /\ lastActive' = [lastActive EXCEPT ![request[r].user] = request[r].ws]
  /\ Done(r)
  /\ UNCHANGED <<workspace, seat, invitation, mailed, spent>>

-----------------------------------------------------------------------------
\* expires_at passes.
Expire(i) ==
  /\ Open(i) /\ ~invitation[i].expired
  /\ invitation' = [invitation EXCEPT ![i].expired = TRUE]
  /\ UNCHANGED <<workspace, seat, lastActive, mailed, request, spent>>

\* The nightly janitor's one UPDATE.
ExpireOldInvitations ==
  /\ \E i \in Invitations : Open(i) /\ invitation[i].expired
  /\ invitation' = [i \in Invitations |->
       IF Open(i) /\ invitation[i].expired
         THEN [invitation[i] EXCEPT !.revoked = TRUE] ELSE invitation[i]]
  /\ UNCHANGED <<workspace, seat, lastActive, mailed, request, spent>>

RequestStep(r) ==
  \/ ReadMember(r) \/ DeleteMember(r)
  \/ ReadOwner(r) \/ ReadTarget(r) \/ Demote(r) \/ Promote(r)
  \/ CountMembers(r) \/ DeleteTenant(r)
  \/ CheckInvitee(r) \/ CheckOpen(r) \/ CreateInvitation(r) \/ SendInvitation(r)
  \/ ReadInvitation(r) \/ ResendInvitation(r) \/ RevokeInvitation(r)
  \/ ReadSeat(r) \/ Join(r) \/ SelectWorkspace(r)
  \/ GiveUp(r)

Arrival(r) ==
  \E u \in Users :
    \/ \E w \in Workspaces : \/ \E op \in OwnerOperations \cup {"leave"} : Authorise(r, op, u, w)
                             \/ CreateWorkspace(r, u, w) \/ ReadSelection(r, u, w)
    \/ \E op \in InvitationOperations, i \in Invitations : ReadOwnInvitation(r, op, u, i)

Next ==
  \/ \E r \in Requests : Arrival(r) \/ RequestStep(r)
  \/ \E i \in Invitations : Expire(i)
  \/ ExpireOldInvitations

Spec == Init /\ [][Next]_vars

-----------------------------------------------------------------------------
(***************************************************************************)
(* Properties                                                              *)
(***************************************************************************)
\* However transfers overlap, a workspace never has two owners: the demotion is
\* flushed before the promotion under the partial unique index.
AtMostOneOwner ==
  \A w \in Workspaces, u, v \in Users :
    seat[w][u].role = "owner" /\ seat[w][v].role = "owner" => u = v

\* A request whose decision was overtaken: it read a member where the owner is
\* now, or it read an owner it need not promote who is no longer the owner.
Overtaken(r) ==
  LET w == request[r].ws
      u == request[r].target
  IN \/ /\ At(r, "remove", "write") \/ At(r, "leave", "write")
        /\ request[r].seen = "member" /\ seat[w][u].role = "owner"
     \/ /\ At(r, "transfer", "promote")
        /\ request[r].seen = "owner" /\ seat[w][u].role # "owner"

\* Only a request that acts on an overtaken read takes a workspace's owner
\* away; without an overlap every operation of membership_service keeps one.
OwnerLostOnlyWhenOvertaken ==
  [][\A w \in Workspaces :
       HasOwner(w) /\ workspace'[w] = "live" /\ ~HasOwner(w)'
         => \E r \in Requests : request[r].ws = w /\ Overtaken(r)]_vars

\* Once redeemed or revoked an invitation never opens again, although resend
\* writes a new token and expiry without looking at the row a second time.
ClosedInvitationsStayClosed ==
  [][\A i \in Invitations :
       invitation[i].used /\ ~Open(i) => ~Open(i)']_vars

\* An address has at most one open invitation to a workspace, however creations,
\* expiry and resends interleave.
OneOpenInvitation ==
  \A i, j \in Invitations :
    Open(i) /\ Open(j) /\ invitation[i].ws = invitation[j].ws
      /\ invitation[i].to = invitation[j].to => i = j

\* docs/proposals/004-accounts-and-workspaces.md:47: "there is no "no owner" or
\* "two owners" state at any point during an ownership transfer".
AlwaysAnOwner ==
  \A w \in Workspaces : workspace[w] = "live" => HasOwner(w)

\* routes/team.py:238 on deleting a workspace: "Only allowed when the owner is
\* the sole user."
OnlySoleUserDeletes ==
  [][\A w \in Workspaces :
       workspace[w] = "live" /\ workspace'[w] = "deleted" => Cardinality(Seated(w)) <= 1]_vars
=============================================================================
