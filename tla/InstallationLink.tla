-------------------------- MODULE InstallationLink --------------------------
(***************************************************************************)
(* How a workspace gets its repositories: installation intents, the claim  *)
(* of an intent by the setup page or by the sender of a webhook, links     *)
(* between workspaces and installations, and repository rows.              *)
(*                                                                         *)
(* A job is an HTTP request or the dispatcher's task for one webhook.  It  *)
(* awaits GitHub between its reads and its commit, so another job, or      *)
(* GitHub itself, may change what it decided on.  What a job has written   *)
(* but not committed is in its record, and so are its row locks.           *)
(***************************************************************************)
EXTENDS Integers, FiniteSets, FiniteSetsExt

CONSTANTS
  Tenants,      \* workspaces
  Users,        \* users, each with a GitHub account
  Owner,        \* the owner of each workspace: only owners get past require_owner
  Installs,     \* installation ids
  Org,          \* the account of an organisation
  Repos,        \* GitHub repositories
  Jobs,         \* requests and tasks at the same time
  None,         \* SQL NULL
  MaxPolls,     \* MAX_POLLS of the setup page
  MaxIntents, MaxInputs   \* bounds

ASSUME ConstantsOK ==
  /\ Owner \in [Tenants -> Users]
  /\ Org \notin Users
  /\ None \notin Installs \cup Users \cup Tenants
  /\ {MaxPolls, MaxIntents, MaxInputs} \subseteq Nat

Intents == 1 .. MaxIntents   \* in the order of created_at

Hook == [action: {"created", "deleted", "added", "removed"}, inst: Installs,
         sender: Users, repos: SUBSET Repos]

Intent == [user: Users \cup {None}, tenant: Tenants \cup {None},
           state: {"none", "open", "consumed"}, expired: BOOLEAN]
NoIntent == [user |-> None, tenant |-> None, state |-> "none", expired |-> FALSE]

Row == [inst: Installs \cup {None}, state: {"none", "tracked", "removed"}]
NoRow == [inst |-> None, state |-> "none"]

Operations == {"none", "mint", "claim", "add", "unlink", "created", "deleted", "added", "removed"}
Job == [pc: {"idle", "mint", "fetch", "sender", "consume", "attach", "link", "list", "sync",
             "tenants", "apply", "mark", "drop"},
        op: Operations,
        user: Users \cup {None}, tenant: Tenants \cup {None}, inst: Installs \cup {None},
        nonce: 0 .. MaxIntents, consumes: SUBSET Intents,
        writes: BOOLEAN,            \* holds the lock of the installation's row
        newLink: BOOLEAN,           \* has inserted the link of tenant and inst
        gone: BOOLEAN,              \* the link it will delete has been deleted by another
        repos: SUBSET Repos, payload: SUBSET Repos, tenants: SUBSET Tenants,
        marked: SUBSET (Tenants \X Repos),
        overtaken: SUBSET Tenants]  \* history: workspaces another commit changed under it
Idle == [pc |-> "idle", op |-> "none", user |-> None, tenant |-> None, inst |-> None,
         nonce |-> 0, consumes |-> {}, writes |-> FALSE, newLink |-> FALSE, gone |-> FALSE,
         repos |-> {}, payload |-> {}, tenants |-> {}, marked |-> {}, overtaken |-> {}]

Page == [state: {"closed", "claiming", "waiting", "ok", "error"},
         nonce: 0 .. MaxIntents, inst: Installs \cup {None}, polls: 0 .. MaxPolls]
ClosedPage == [state |-> "closed", nonce |-> 0, inst |-> None, polls |-> 0]

VARIABLES
  account,      \* GitHub: whose account an installation is on
  installed,    \* GitHub: installations there are
  granted,      \* GitHub: repositories an installation may see
  acted,        \* GitHub: who installed or configured what (history)
  hooks,        \* deliveries that have not been taken up
  installation, \* github_installations rows
  links,        \* tenant_installations rows
  repo,         \* repositories rows
  intent,       \* installation_intents rows
  begun,        \* how many intents requests have begun to mint
  job,          \* requests and tasks
  page,         \* the setup page in each user's browser
  spent         \* events, requests, failures and expiries, bounded by MaxInputs

github == <<account, installed, granted, acted, hooks>>
rows == <<installation, links, repo, intent>>
vars == <<github, rows, begun, job, page, spent>>

TypeOK ==
  /\ account \in [Installs -> Users \cup {Org}]
  /\ installed \subseteq Installs
  /\ granted \in [Installs -> SUBSET Repos]
  /\ acted \subseteq Users \X Installs
  /\ hooks \subseteq Hook
  /\ installation \in [Installs -> {"absent", "live", "removed"}]
  /\ links \subseteq Tenants \X Installs
  /\ \A l \in links : installation[l[2]] # "absent"
  /\ repo \in [Tenants -> [Repos -> Row]]
  /\ intent \in [Intents -> Intent]
  /\ begun \in 0 .. MaxIntents
  /\ job \in [Jobs -> Job]
  /\ page \in [Users -> Page]
  /\ spent \in [events: Nat, requests: Nat, failures: Nat, expiries: Nat]

Init ==
  /\ account \in [Installs -> Users \cup {Org}]
  /\ installed = {}
  /\ granted = [i \in Installs |-> {}]
  /\ acted = {}
  /\ hooks = {}
  /\ installation = [i \in Installs |-> "absent"]
  /\ links = {}
  /\ repo = [t \in Tenants |-> [p \in Repos |-> NoRow]]
  /\ intent = [n \in Intents |-> NoIntent]
  /\ begun = 0
  /\ job = [j \in Jobs |-> Idle]
  /\ page = [u \in Users |-> ClosedPage]
  /\ spent = [events |-> 0, requests |-> 0, failures |-> 0, expiries |-> 0]

-----------------------------------------------------------------------------
(***************************************************************************)
(* GitHub                                                                  *)
(***************************************************************************)

Spend(what) ==
  /\ spent.events + spent.requests + spent.failures + spent.expiries < MaxInputs
  /\ spent' = [spent EXCEPT ![what] = @ + 1]

MayConfigure(u, i) == account[i] \in {u, Org}
Elsewhere(i) == UNION {granted[k] : k \in installed \ {i}}

Emit(u, i, action, repos) ==
  /\ MayConfigure(u, i)
  /\ Spend("events")
  /\ hooks' = hooks \cup {[action |-> action, inst |-> i, sender |-> u, repos |-> repos]}
  /\ acted' = acted \cup {<<u, i>>}
  /\ UNCHANGED <<account, rows, begun, job, page>>

Install(u, i, repos) ==
  /\ i \notin installed /\ repos # {} /\ repos \cap Elsewhere(i) = {}
  /\ installed' = installed \cup {i}
  /\ granted' = [granted EXCEPT ![i] = repos]
  /\ Emit(u, i, "created", repos)

Uninstall(u, i) ==
  /\ i \in installed
  /\ installed' = installed \ {i}
  /\ granted' = [granted EXCEPT ![i] = {}]
  /\ Emit(u, i, "deleted", {})

Grant(u, i, p) ==
  /\ i \in installed /\ p \notin granted[i] \cup Elsewhere(i)
  /\ granted' = [granted EXCEPT ![i] = @ \cup {p}]
  /\ Emit(u, i, "added", {p})
  /\ UNCHANGED installed

Revoke(u, i, p) ==
  /\ i \in installed /\ p \in granted[i]
  /\ granted' = [granted EXCEPT ![i] = @ \ {p}]
  /\ Emit(u, i, "removed", {p})
  /\ UNCHANGED installed

GitHubStep ==
  \E u \in Users, i \in Installs :
    \/ \E repos \in SUBSET Repos : Install(u, i, repos)
    \/ Uninstall(u, i)
    \/ \E p \in Repos : Grant(u, i, p) \/ Revoke(u, i, p)

-----------------------------------------------------------------------------
(***************************************************************************)
(* Locks and answers                                                       *)
(***************************************************************************)

OpenOf(u) == {n \in Intents : intent[n].user = u /\ intent[n].state = "open"}
LiveOf(u) == {n \in OpenOf(u) : ~intent[n].expired}

At(j, pc) == job[j].pc = pc
Become(j, q) == job[j] = Idle /\ job' = [job EXCEPT ![j] = q]
Go(j, pc) == job' = [job EXCEPT ![j].pc = pc]

Holds(k) == IF job[k].pc \in {"fetch", "consume"} THEN {} ELSE job[k].consumes
Wanted(j) == IF job[j].op = "claim" THEN job[j].consumes
             ELSE job[j].consumes \cup OpenOf(job[j].user)
RowsOf(ts, i, S) == {r \in ts \X S : repo[r[1]][r[2]].state # "none" /\ repo[r[1]][r[2]].inst = i}

\* What j's next statement writes is locked by k.  Two mints never conflict: each
\* supersedes the intents it saw, and superseding one twice is superseding it.
Waits(j, k) ==
  LET q == job[j] IN
  \/ q.pc = "mint" /\ ~At(k, "mint") /\ Holds(k) \cap q.consumes # {}
  \/ q.pc = "consume" /\ Holds(k) \cap Wanted(j) # {}
  \/ q.inst = job[k].inst /\
       \/ q.pc = "attach" /\ ~q.writes /\ installation[q.inst] # "live" /\ job[k].writes
       \/ q.pc = "link" /\ job[k].newLink /\ q.tenant = job[k].tenant
       \/ q.pc = "sync" /\ ({q.tenant} \X q.repos) \cap job[k].marked # {}
       \/ q.pc = "apply" /\ ((q.tenants \X q.payload) \cup RowsOf(Tenants, q.inst, q.payload))
                              \cap job[k].marked # {}
       \/ q.pc = "mark" /\ RowsOf(Tenants, q.inst, Repos) \cap job[k].marked # {}
       \/ q.pc = "drop" /\ q.op = "deleted" /\ job[k].writes
Free(j) == \A k \in Jobs \ {j} : ~Waits(j, k)

\* j is done, and has changed links or rows of i in the workspaces ts.
Overtaking(j, i, ts, q) ==
  job' = [k \in Jobs |->
            IF k = j THEN q
            ELSE IF job[k].inst = i THEN [job[k] EXCEPT !.overtaken = @ \cup ts] ELSE job[k]]
End(j) == job' = [job EXCEPT ![j] = Idle]

\* Fault: the last 202 leaves the page waiting.
FaultyAnswer(u, state) == page' = [page EXCEPT ![u].state = state]

\* The answer of POST /installations/claim, as the setup page takes it.
Answer(u, state) ==
  page' = [page EXCEPT ![u].state =
             IF state = "waiting" /\ page[u].polls = MaxPolls THEN "error" ELSE state]
AnswerTo(j, state) ==
  IF job[j].op = "claim" THEN Answer(job[j].user, state) ELSE UNCHANGED page

Consumed(S) == [n \in Intents |-> IF n \in S THEN [intent[n] EXCEPT !.state = "consumed"]
                                  ELSE intent[n]]

\* Fault: the upsert has no WHERE.
FaultySynced(row, i, respectRemoved) ==
  IF row.state = "none" THEN [inst |-> i, state |-> "tracked"]
  ELSE [row EXCEPT !.state = "tracked"]

\* INSERT ... ON CONFLICT DO UPDATE of a repository row; the conflict leaves
\* installation_id alone, and only an explicit action brings back a removed row.
Synced(row, i, respectRemoved) ==
  IF row.state = "none" THEN [inst |-> i, state |-> "tracked"]
  ELSE IF respectRemoved /\ row.state = "removed" THEN row
  ELSE [row EXCEPT !.state = "tracked"]

SyncRepos(ts, i, repos, respectRemoved) ==
  repo' = [t \in Tenants |-> [p \in Repos |->
             IF t \in ts /\ p \in repos THEN Synced(repo[t][p], i, respectRemoved)
             ELSE repo[t][p]]]

SoftDelete(S) ==
  repo' = [t \in Tenants |-> [p \in Repos |->
             IF <<t, p>> \in S THEN [repo[t][p] EXCEPT !.state = "removed"] ELSE repo[t][p]]]

-----------------------------------------------------------------------------
(***************************************************************************)
(* Intents and claims                                                      *)
(***************************************************************************)

\* The UPDATE that supersedes the owner's open intents.
BeginMint(j, t) ==
  /\ begun < MaxIntents
  /\ Spend("requests")
  /\ begun' = begun + 1
  /\ Become(j, [Idle EXCEPT !.pc = "mint", !.op = "mint", !.user = Owner[t], !.tenant = t,
                            !.nonce = begun + 1, !.consumes = OpenOf(Owner[t])])
  /\ UNCHANGED <<github, rows, page>>

CommitIntent(j) ==
  /\ At(j, "mint") /\ Free(j)
  /\ intent' = [Consumed(job[j].consumes) EXCEPT ![job[j].nonce] =
                  [user |-> job[j].user, tenant |-> job[j].tenant, state |-> "open", expired |-> FALSE]]
  /\ End(j)
  /\ UNCHANGED <<github, installation, links, repo, begun, page, spent>>

ExpireIntent(n) ==
  /\ intent[n].state = "open" /\ ~intent[n].expired
  /\ Spend("expiries")
  /\ intent' = [intent EXCEPT ![n].expired = TRUE]
  /\ UNCHANGED <<github, installation, links, repo, begun, job, page>>

\* A user comes to the setup page with a nonce and an installation id, both from
\* the address bar.
OpenPage(u, n, i) ==
  /\ page[u].state \notin {"claiming", "waiting"}
  /\ intent[n].state # "none"
  /\ Spend("requests")
  /\ page' = [page EXCEPT ![u] = [state |-> "claiming", nonce |-> n, inst |-> i, polls |-> 0]]
  /\ UNCHANGED <<github, rows, begun, job>>

Polling(u) ==
  /\ page[u].state \in {"claiming", "waiting"} /\ page[u].polls < MaxPolls
  /\ \A j \in Jobs : job[j].op = "claim" => job[j].user # u

Mine(u) == intent[page[u].nonce].user = u
LinkedByIntent(u) == <<intent[page[u].nonce].tenant, page[u].inst>> \in links
Unusable(u) ==
  LET n == intent[page[u].nonce] IN
  \/ ~Mine(u)
  \/ n.state = "consumed" /\ ~LinkedByIntent(u)
  \/ n.state = "open" /\ n.expired

ClaimRefused(u) ==
  /\ Polling(u) /\ Unusable(u)
  /\ Answer(u, "error")
  /\ UNCHANGED <<github, rows, begun, job, spent>>

\* Bound already: the intent, if it is open, is consumed.
ClaimLinked(u) ==
  LET n == page[u].nonce IN
  /\ Polling(u) /\ ~Unusable(u) /\ LinkedByIntent(u)
  /\ intent[n].state = "open" => \A k \in Jobs : n \notin Holds(k)
  /\ intent' = Consumed({n})
  /\ Answer(u, "ok")
  /\ UNCHANGED <<github, installation, links, repo, begun, job, spent>>

BeginClaim(u, j) ==
  LET n == page[u].nonce IN
  /\ Polling(u) /\ ~Unusable(u) /\ ~LinkedByIntent(u)
  /\ Become(j, [Idle EXCEPT !.pc = "fetch", !.op = "claim", !.user = u, !.nonce = n,
                            !.tenant = intent[n].tenant, !.inst = page[u].inst,
                            !.consumes = {n}])
  /\ page' = [page EXCEPT ![u].polls = @ + 1]
  /\ UNCHANGED <<github, rows, begun, spent>>

\* GET /app/installations/{id}.
FetchFails(j) ==
  /\ At(j, "fetch")
  /\ job[j].inst \notin installed \/ account[job[j].inst] \notin {Org, job[j].user}
  /\ AnswerTo(j, "error") /\ End(j)
  /\ UNCHANGED <<github, rows, begun, spent>>

\* Fault: a pending claim spends the intent.
FaultyFetchPending(j) ==
  /\ At(j, "fetch") /\ job[j].inst \in installed /\ account[job[j].inst] = Org
  /\ intent' = Consumed(job[j].consumes)
  /\ AnswerTo(j, "waiting") /\ End(j)
  /\ UNCHANGED <<github, installation, links, repo, begun, spent>>

\* Only the webhook's sender is proof for an organisation: the intent stays open.
FetchPending(j) ==
  /\ At(j, "fetch") /\ job[j].inst \in installed /\ account[job[j].inst] = Org
  /\ AnswerTo(j, "waiting") /\ End(j)
  /\ UNCHANGED <<github, rows, begun, spent>>

\* Fault: any account will do.
FaultyFetchOwn(j) ==
  /\ At(j, "fetch") /\ job[j].inst \in installed /\ account[job[j].inst] # Org
  /\ Go(j, "consume")
  /\ UNCHANGED <<github, rows, begun, page, spent>>

FetchOwn(j) ==
  /\ At(j, "fetch") /\ job[j].inst \in installed /\ account[job[j].inst] = job[j].user
  /\ Go(j, "consume")
  /\ UNCHANGED <<github, rows, begun, page, spent>>

\* claim_by_sender: the newest live intent of the sender, or none.
NoIntentOfSender(j) ==
  /\ At(j, "sender") /\ LiveOf(job[j].user) = {}
  /\ Go(j, "tenants")
  /\ UNCHANGED <<github, rows, begun, page, spent>>

PickIntent(j) ==
  LET u == job[j].user
      n == Max(LiveOf(u))
  IN /\ At(j, "sender") /\ LiveOf(u) # {}
     /\ job' = [job EXCEPT ![j].pc = "consume", ![j].nonce = n, ![j].tenant = intent[n].tenant,
                           ![j].consumes = OpenOf(u)]
     /\ UNCHANGED <<github, rows, begun, page, spent>>

\* A statement that waited for a lock does not see the rows inserted meanwhile.
Consume(j) ==
  /\ At(j, "consume") /\ Free(j)
  /\ \E S \in {job[j].consumes, Wanted(j)} :
       job' = [job EXCEPT ![j].pc = "attach", ![j].consumes = S]
  /\ UNCHANGED <<github, rows, begun, page, spent>>

-----------------------------------------------------------------------------
(***************************************************************************)
(* bind_installation and add_repos                                         *)
(***************************************************************************)

\* Fault: the link of an installation whose row is not there.
FaultyAttach(j) ==
  /\ At(j, "attach") /\ Free(j)
  /\ job' = [job EXCEPT ![j].pc = IF <<job[j].tenant, job[j].inst>> \in links THEN "list" ELSE "link"]
  /\ UNCHANGED <<github, rows, begun, page, spent>>

\* The installation's row, then the link.  A row there is not is fetched from GitHub.
Attach(j) ==
  LET q == job[j]
      fresh == installation[q.inst] # "live"
  IN /\ At(j, "attach") /\ Free(j)
     /\ installation[q.inst] = "absent" /\ ~q.writes => q.inst \in installed
     /\ job' = [job EXCEPT ![j].writes = @ \/ fresh,
                           ![j].pc = IF <<q.tenant, q.inst>> \in links THEN "list" ELSE "link"]
     /\ UNCHANGED <<github, rows, begun, page, spent>>

InsertLink(j) ==
  /\ At(j, "link") /\ Free(j)
  /\ <<job[j].tenant, job[j].inst>> \notin links
  /\ job' = [job EXCEPT ![j].pc = "list", ![j].newLink = TRUE]
  /\ UNCHANGED <<github, rows, begun, page, spent>>

\* GET /installation/repositories; an explicit add takes the requested ones.
Listed(j) == IF job[j].op = "add" THEN job[j].repos ELSE granted[job[j].inst]
ListRepos(j) ==
  /\ At(j, "list")
  /\ job[j].inst \in installed /\ Listed(j) \subseteq granted[job[j].inst]
  /\ job' = [job EXCEPT ![j].pc = "sync", ![j].repos = Listed(j)]
  /\ UNCHANGED <<github, rows, begun, page, spent>>

\* GitHub knows nothing of the installation or of a requested repository, or the
\* unique index finds the link there already.
BindFails(j) ==
  LET q == job[j] IN
  /\ \/ At(j, "attach") /\ installation[q.inst] = "absent" /\ ~q.writes /\ q.inst \notin installed
     \/ At(j, "link") /\ <<q.tenant, q.inst>> \in links
     \/ At(j, "list") /\ ~(q.inst \in installed /\ Listed(j) \subseteq granted[q.inst])
  /\ AnswerTo(j, "error") /\ End(j)
  /\ UNCHANGED <<github, rows, begun, spent>>

\* A webhook's handler goes on after the commit of its bind.
AfterBind(q) == [Idle EXCEPT !.pc = "tenants", !.op = q.op, !.inst = q.inst, !.payload = q.payload]
IsHook(j) == job[j].op \in {"created", "deleted", "added", "removed"}

CommitSync(j) ==
  LET q == job[j] IN
  /\ At(j, "sync") /\ Free(j)
  /\ SyncRepos({q.tenant}, q.inst, q.repos, FALSE)
  /\ installation' = IF q.writes THEN [installation EXCEPT ![q.inst] = "live"] ELSE installation
  /\ links' = IF q.newLink THEN links \cup {<<q.tenant, q.inst>>} ELSE links
  /\ intent' = Consumed(q.consumes)
  /\ Overtaking(j, q.inst, {q.tenant}, IF IsHook(j) THEN AfterBind(q) ELSE Idle)
  /\ AnswerTo(j, "ok")
  /\ UNCHANGED <<github, begun, spent>>

\* _require_link; without a link the answer is 400 or 404 and nothing happens.
BeginAdd(j, t, i, repos) ==
  /\ Spend("requests") /\ <<t, i>> \in links /\ repos # {}
  /\ Become(j, [Idle EXCEPT !.pc = "list", !.op = "add", !.tenant = t, !.inst = i, !.repos = repos])
  /\ UNCHANGED <<github, rows, begun, page>>

RemoveRepo(t, p) ==
  /\ Spend("requests") /\ repo[t][p].state # "none"
  /\ \A k \in Jobs : <<t, p>> \notin job[k].marked
  /\ SoftDelete({<<t, p>>})
  /\ UNCHANGED <<github, installation, links, intent, begun, job, page>>

BeginUnlink(j, t, i) ==
  /\ Spend("requests") /\ <<t, i>> \in links
  /\ Become(j, [Idle EXCEPT !.pc = "mark", !.op = "unlink", !.tenant = t, !.inst = i])
  /\ UNCHANGED <<github, rows, begun, page>>

-----------------------------------------------------------------------------
(***************************************************************************)
(* The handlers of installation and installation_repositories              *)
(***************************************************************************)

\* created upserts the installation's row first; only deleted does not look at the sender.
TakeHook(j, h) ==
  /\ hooks' = hooks \ {h}
  /\ h.action = "created" => \A k \in Jobs : ~(job[k].inst = h.inst /\ job[k].writes)
  /\ Become(j, [Idle EXCEPT !.pc = IF h.action = "deleted" THEN "mark" ELSE "sender",
                            !.op = h.action, !.user = h.sender, !.inst = h.inst,
                            !.writes = (h.action = "created"), !.payload = h.repos])
  /\ UNCHANGED <<account, installed, granted, acted, rows, begun, page, spent>>

\* repositories events and deletions of an installation there is no row of.
SkipHook(j) ==
  /\ (At(j, "tenants") /\ job[j].op # "created") \/ At(j, "mark")
  /\ installation[job[j].inst] = "absent"
  /\ End(j)
  /\ UNCHANGED <<github, rows, begun, page, spent>>

\* Fault: every workspace.
FaultyLinkedTenants(i) == Tenants

LinkedTenants(i) == {t \in Tenants : <<t, i>> \in links}
ReadTenants(j) ==
  LET q == job[j] IN
  /\ At(j, "tenants")
  /\ q.op = "created" \/ installation[q.inst] # "absent"
  /\ job' = [job EXCEPT ![j].pc = "apply",
               ![j].tenants = IF q.op = "removed" THEN {} ELSE LinkedTenants(q.inst)]
  /\ UNCHANGED <<github, rows, begun, page, spent>>

\* A sync that leaves removed rows removed, or the one statement of removed.
ApplyHook(j) ==
  LET q == job[j]
      ts == {r[1] : r \in RowsOf(Tenants, q.inst, q.payload)}
  IN /\ At(j, "apply") /\ Free(j)
     /\ IF q.op = "removed" THEN SoftDelete(RowsOf(Tenants, q.inst, q.payload))
        ELSE SyncRepos(q.tenants, q.inst, q.payload, TRUE)
     /\ installation' = IF q.writes THEN [installation EXCEPT ![q.inst] = "live"] ELSE installation
     /\ Overtaking(j, q.inst, IF q.op = "removed" THEN ts ELSE q.tenants, Idle)
     /\ UNCHANGED <<github, links, intent, begun, page, spent>>

\* The UPDATE of unlink and of deleted takes the rows it finds ...
MarkRows(j) ==
  LET q == job[j] IN
  /\ At(j, "mark") /\ Free(j) /\ installation[q.inst] # "absent"
  /\ job' = [job EXCEPT ![j].pc = "drop", ![j].marked =
               RowsOf(IF q.op = "unlink" THEN {q.tenant} ELSE Tenants, q.inst, Repos)]
  /\ UNCHANGED <<github, rows, begun, page, spent>>

\* ... and the link, if it is still the one that was read, goes with them.
CommitUnlink(j) ==
  LET q == job[j] IN
  /\ At(j, "drop") /\ q.op = "unlink"
  /\ SoftDelete(q.marked)
  /\ links' = IF q.gone THEN links ELSE links \ {<<q.tenant, q.inst>>}
  /\ job' = [k \in Jobs |->
               IF k = j THEN Idle
               ELSE IF job[k].inst # q.inst THEN job[k]
               ELSE [job[k] EXCEPT !.overtaken = @ \cup {q.tenant},
                                   !.gone = @ \/ (job[k].op = "unlink" /\ job[k].tenant = q.tenant)]]
  /\ UNCHANGED <<github, installation, intent, begun, page, spent>>

CommitDeleted(j) ==
  LET q == job[j] IN
  /\ At(j, "drop") /\ q.op = "deleted" /\ Free(j)
  /\ SoftDelete(q.marked)
  /\ installation' = [installation EXCEPT ![q.inst] = "removed"]
  /\ Overtaking(j, q.inst, {r[1] : r \in q.marked}, Idle)
  /\ UNCHANGED <<github, links, intent, begun, page, spent>>

-----------------------------------------------------------------------------

\* An exception, or a crash: the transaction is rolled back, a webhook is lost and a
\* request is answered 500.
Fail(j) ==
  /\ job[j] # Idle
  /\ Spend("failures")
  /\ AnswerTo(j, "error") /\ End(j)
  /\ UNCHANGED <<github, rows, begun>>

\* Two jobs wait for each other: PostgreSQL ends one of the two.
Deadlock(j) ==
  /\ \E k \in Jobs \ {j} : Waits(j, k) /\ Waits(k, j)
  /\ AnswerTo(j, "error") /\ End(j)
  /\ UNCHANGED <<github, rows, begun, spent>>

JobStep(j) ==
  \/ CommitIntent(j) \/ FetchFails(j) \/ FetchPending(j) \/ FetchOwn(j)
  \/ NoIntentOfSender(j) \/ PickIntent(j) \/ Consume(j)
  \/ Attach(j) \/ InsertLink(j) \/ ListRepos(j) \/ BindFails(j) \/ CommitSync(j)
  \/ SkipHook(j) \/ ReadTenants(j) \/ ApplyHook(j)
  \/ MarkRows(j) \/ CommitUnlink(j) \/ CommitDeleted(j)
  \/ Deadlock(j)

PageStep(u) == ClaimRefused(u) \/ ClaimLinked(u) \/ \E j \in Jobs : BeginClaim(u, j)
HookStep == \E j \in Jobs, h \in hooks : TakeHook(j, h)

RequestStep ==
  \/ \E u \in Users, n \in Intents, i \in Installs : OpenPage(u, n, i)
  \/ \E t \in Tenants, p \in Repos : RemoveRepo(t, p)
  \/ \E j \in Jobs, t \in Tenants :
       \/ BeginMint(j, t)
       \/ \E i \in Installs : BeginUnlink(j, t, i) \/ \E S \in SUBSET Repos : BeginAdd(j, t, i, S)

SystemStep ==
  \/ \E j \in Jobs : JobStep(j)
  \/ \E u \in Users : PageStep(u)
  \/ HookStep

Next ==
  \/ SystemStep \/ RequestStep \/ GitHubStep
  \/ \E j \in Jobs : Fail(j)
  \/ \E n \in Intents : ExpireIntent(n)

Spec == Init /\ [][Next]_vars

\* Jobs run, pages poll and deliveries are taken up as long as there are any.
Fairness == WF_vars(SystemStep)
FairSpec == Spec /\ Fairness

-----------------------------------------------------------------------------
(***************************************************************************)
(* Properties                                                              *)
(***************************************************************************)

\* A workspace holds only what its owner proved control of: the account of a linked
\* installation, and of the installation of every repository row, is the owner's own,
\* or the owner configured it on GitHub.
Proven(t, i) == account[i] = Owner[t] \/ <<Owner[t], i>> \in acted
LinksAreProven ==
  /\ \A l \in links : Proven(l[1], l[2])
  /\ \A t \in Tenants, p \in Repos : repo[t][p].state # "none" => Proven(t, repo[t][p].inst)

\* Removal is sticky: a removed row is tracked again only by the commit of a bind or
\* of an add of its own workspace, never because GitHub says the repository was added.
Resurrected(t, p) == repo[t][p].state = "removed" /\ repo'[t][p].state = "tracked"
RemovalsAreSticky ==
  [][\A t \in Tenants, p \in Repos : Resurrected(t, p) =>
       \E j \in Jobs : At(j, "sync") /\ job[j].tenant = t /\ job'[j].pc # "sync"]_vars

\* A tracked repository of a workspace that is not linked is the work of a job that another
\* commit to that workspace overtook, or of one that tracked it again through another
\* installation than its row keeps: of requests and webhooks of one installation that do not
\* overlap, none leaves one behind.
Orphan(t, p) == repo[t][p].state = "tracked" /\ <<t, repo[t][p].inst>> \notin links
OrphansOnlyWhenOvertaken ==
  [][\A t \in Tenants, p \in Repos : Orphan(t, p)' /\ ~Orphan(t, p) =>
       \E j \in Jobs : /\ job'[j].pc # job[j].pc
                       /\ \/ t \in job[j].overtaken
                          \/ repo[t][p].state = "removed" /\ repo[t][p].inst # job[j].inst]_vars

\* The setup page comes to an answer.
PagesAnswer ==
  \A u \in Users : (page[u].state \in {"claiming", "waiting"}) ~> (page[u].state \in {"ok", "error"})

\* A webhook whose sender holds a live intent leaves the installation linked through an
\* intent of the sender, unless the installation is removed, an intent expires or a
\* handler fails: neither the setup page nor a deadlock with it loses the installation.
Announced(u, i) ==
  LiveOf(u) # {} /\ \E h \in hooks : h.inst = i /\ h.sender = u /\ h.action # "deleted"
LinkedBy(u, i) ==
  \E n \in Intents : intent[n].user = u /\ intent[n].state = "consumed" /\ <<intent[n].tenant, i>> \in links
InstallsGetLinked ==
  \A u \in {Owner[t] : t \in Tenants}, i \in Installs :
    Announced(u, i) ~> \/ LinkedBy(u, i)
                       \/ i \notin installed \/ spent.failures > 0 \/ spent.expiries > 0
=============================================================================
