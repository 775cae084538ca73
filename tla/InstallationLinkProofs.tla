----------------------- MODULE InstallationLinkProofs -----------------------
(***************************************************************************)
(* Proofs about linking installations, for any number of workspaces, users,*)
(* installations, repositories and jobs, and any page, intent and input    *)
(* bound.                                                                  *)
(***************************************************************************)
EXTENDS InstallationLink, WellFoundedInduction, TLAPS

Spent == [events: Nat, requests: Nat, failures: Nat, expiries: Nat]

\* An intent that was minted is of the owner of its workspace.
OfOwner(u, t) == t \in Tenants /\ u = Owner[t]
IntentsOK == \A n \in Intents : intent[n].user # None => OfOwner(intent[n].user, intent[n].tenant)

\* GitHub names as sender whoever acted.
HooksOK == \A h \in hooks : <<h.sender, h.inst>> \in acted

\* A page that was ever opened has a nonce and an installation.
PagesOK == \A u \in Users : page[u].state # "closed" => page[u].nonce \in Intents /\ page[u].inst \in Installs

\* What a job has proved by the time it is where it is.
Binding == {"consume", "attach", "link", "list", "sync"}
JobOK(q) ==
  /\ q.pc \notin {"idle", "mint"} => q.inst \in Installs
  /\ q.pc = "mint" => q.op = "mint" /\ OfOwner(q.user, q.tenant) /\ q.nonce \in Intents
  /\ q.pc = "fetch" => OfOwner(q.user, q.tenant) /\ q.op = "claim"
  /\ q.op = "claim" => q.user \in Users /\ page[q.user].state # "closed"
  /\ q.pc = "sender" => <<q.user, q.inst>> \in acted
  /\ q.pc \in {"mark", "drop"} => q.op = "deleted" \/ q.tenant \in Tenants
  /\ q.pc \in Binding => q.tenant \in Tenants /\ Proven(q.tenant, q.inst)
  /\ q.pc \in {"link", "list", "sync"} => q.writes \/ installation[q.inst] # "absent"
  /\ q.pc = "apply" => \A t \in q.tenants : Proven(t, q.inst)
  /\ \A r \in q.marked : repo[r[1]][r[2]].state # "none"

LinkInv ==
  /\ TypeOK /\ IntentsOK /\ HooksOK /\ PagesOK /\ LinksAreProven
  /\ \A j \in Jobs : JobOK(job[j])

\* What never shrinks: acts on GitHub, and rows and pages that were ever there.
Grows ==
  /\ account' = account /\ acted \subseteq acted'
  /\ \A i \in Installs : installation[i] # "absent" => installation'[i] # "absent"
  /\ \A t \in Tenants, p \in Repos : repo[t][p].state # "none" => repo'[t][p].state # "none"
  /\ \A u \in Users : page[u].state # "closed" => page'[u].state # "closed"

-----------------------------------------------------------------------------
LEMMA IdleIsJob == Idle \in Job /\ Idle.pc = "idle" /\ Idle.op = "none" /\ Idle.marked = {}
  BY ConstantsOK DEF Idle, Job, Operations

LEMMA IdleIsOK == JobOK(Idle)
  BY IdleIsJob DEF JobOK, Binding

LEMMA JobsStayOK ==
  ASSUME NEW q \in Job, JobOK(q), Grows
  PROVE  JobOK(q)'
<1>1. q.marked \subseteq Tenants \X Repos /\ q.tenants \subseteq Tenants
  BY DEF Job
<1>2. \A t, i : Proven(t, i) => Proven(t, i)'
  BY DEF Grows, Proven
<1>3. \A r \in q.marked : repo'[r[1]][r[2]].state # "none"
  <2> TAKE r \in q.marked
  <2>1. r[1] \in Tenants /\ r[2] \in Repos /\ repo[r[1]][r[2]].state # "none"
    BY <1>1 DEF JobOK
  <2> QED
    BY <2>1 DEF Grows
<1>4. q.pc \in {"link", "list", "sync"} => q.writes \/ installation'[q.inst] # "absent"
  BY DEF JobOK, Grows
<1>5. q.op = "claim" => q.user \in Users /\ page'[q.user].state # "closed"
  BY DEF JobOK, Grows
<1>6. q.pc = "sender" => <<q.user, q.inst>> \in acted'
  BY DEF JobOK, Grows
<1> QED
  BY <1>2, <1>3, <1>4, <1>5, <1>6 DEF JobOK, OfOwner

\* History does not matter to what a job has proved.
LEMMA HistoryIsFree ==
  ASSUME NEW q \in Job, JobOK(q), NEW o \in SUBSET Tenants, NEW g \in BOOLEAN
  PROVE  LET r == [q EXCEPT !.overtaken = o, !.gone = g] IN r \in Job /\ JobOK(r)
<1> DEFINE r == [q EXCEPT !.overtaken = o, !.gone = g]
<1>1. /\ r \in Job /\ r.pc = q.pc /\ r.op = q.op /\ r.user = q.user /\ r.tenant = q.tenant
      /\ r.inst = q.inst /\ r.nonce = q.nonce /\ r.writes = q.writes /\ r.tenants = q.tenants
      /\ r.marked = q.marked
  BY DEF Job
<1> HIDE DEF r
<1>2. JobOK(r)
  BY <1>1 DEF JobOK
<1> QED
  BY <1>1, <1>2 DEF r

LEMMA SpendCounts ==
  ASSUME spent \in Spent, NEW what \in {"events", "requests", "failures", "expiries"}, Spend(what)
  PROVE  spent' \in Spent
  BY DEF Spend, Spent

LEMMA LinkInitially == Init => LinkInv
<1> SUFFICES ASSUME Init PROVE LinkInv
  OBVIOUS
<1>1. TypeOK
  BY ConstantsOK, IdleIsJob DEF Init, TypeOK, NoRow, Row, NoIntent, Intent, Intents, ClosedPage, Page
<1>2. IntentsOK /\ HooksOK /\ PagesOK /\ LinksAreProven
  BY DEF Init, IntentsOK, HooksOK, PagesOK, LinksAreProven, NoRow, NoIntent, ClosedPage
<1> QED
  BY <1>1, <1>2, IdleIsOK DEF LinkInv, Init

\* The newest live intent is one of them: a set of naturals that is bounded has a greatest.
LEMMA NewestIsThere ==
  ASSUME NEW S \in SUBSET Intents, S # {}
  PROVE  Max(S) \in S
<1> DEFINE D == {MaxIntents - n : n \in S}
           R == {ss \in Nat \X Nat : ss[1] < ss[2]}
<1>1. D \subseteq Nat /\ D # {}
  <2>1. MaxIntents \in Nat
    BY ConstantsOK
  <2>2. \A n \in S : MaxIntents - n \in Nat
    BY <2>1 DEF Intents
  <2>3. D \subseteq Nat
    BY <2>2
  <2>4. PICK n : n \in S
    OBVIOUS
  <2>5. MaxIntents - n \in D
    BY <2>4
  <2> QED
    BY <2>3, <2>5
<1>2. PICK x \in D : \A y \in D : <<y, x>> \notin R
  <2>1. IsWellFoundedOn(R, Nat)
    BY NatLessThanWellFounded DEF OpToRel
  <2> HIDE DEF R, D
  <2> QED
    BY <1>1, <2>1, WFMin
<1>3. PICK m \in S : x = MaxIntents - m
  BY <1>2
<1>4. \A n \in S : m >= n
  <2> TAKE n \in S
  <2>1. ~(MaxIntents - n < x)
    BY <1>1, <1>2
  <2> QED
    BY <2>1, <1>3, ConstantsOK DEF Intents
<1> QED
  BY <1>4 DEF Max

\* The setup pages: no nonce and no installation is lost.
PagesMove ==
  /\ page' \in [Users -> Page] /\ PagesOK'
  /\ \A u \in Users : page[u].state # "closed" => page'[u].state # "closed"

\* A step of one job that writes no row keeps the invariant if the job proved what it has to.
LEMMA OneJob ==
  ASSUME LinkInv, NEW j \in Jobs, NEW q \in Job, JobOK(q), job' = [job EXCEPT ![j] = q],
         UNCHANGED <<github, rows>>, begun' \in 0 .. MaxIntents, PagesMove, spent' \in Spent
  PROVE  LinkInv'
<1>1. Grows
  BY DEF PagesMove, Grows, github, rows
<1>2. job' \in [Jobs -> Job] /\ \A k \in Jobs : job'[k] = IF k = j THEN q ELSE job[k]
  BY DEF LinkInv, TypeOK
<1>3. ASSUME NEW k \in Jobs PROVE JobOK(job[k])'
  <2>1. CASE k = j
    <3>1. JobOK(q)'
      BY <1>1, JobsStayOK
    <3> QED
      BY <1>2, <2>1, <3>1 DEF JobOK
  <2>2. CASE k # j
    <3> DEFINE r == job[k]
    <3>1. r \in Job /\ JobOK(r)
      BY DEF LinkInv, TypeOK
    <3>2. PICK p : p = r
      OBVIOUS
    <3>3. JobOK(p)'
      BY <1>1, <3>1, <3>2, JobsStayOK
    <3>4. job'[k] = p
      BY <1>2, <2>2, <3>2
    <3> QED
      BY <3>3, <3>4 DEF JobOK
  <2> QED
    BY <2>1, <2>2
<1>4. TypeOK'
  BY <1>2 DEF LinkInv, TypeOK, PagesMove, github, rows, Spent
<1>5. IntentsOK' /\ HooksOK' /\ PagesOK' /\ LinksAreProven'
  BY DEF LinkInv, IntentsOK, HooksOK, PagesMove, LinksAreProven, Proven, github, rows
<1> QED
  BY <1>3, <1>4, <1>5 DEF LinkInv

LEMMA PagesRest == LinkInv /\ UNCHANGED page => PagesMove
  BY DEF LinkInv, TypeOK, PagesOK, PagesMove

LEMMA AnswerMoves ==
  ASSUME LinkInv, NEW u \in Users, page[u].state # "closed",
         NEW state \in {"ok", "error", "waiting"}, Answer(u, state)
  PROVE  PagesMove
<1> DEFINE s == IF state = "waiting" /\ page[u].polls = MaxPolls THEN "error" ELSE state
           p == [page[u] EXCEPT !.state = s]
<1>1. page \in [Users -> Page] /\ PagesOK
  BY DEF LinkInv, TypeOK
<1>2. page' = [page EXCEPT ![u] = p]
  BY <1>1 DEF Answer
<1>3. s \in {"ok", "error", "waiting"}
  OBVIOUS
<1> HIDE DEF s
<1>4. p \in Page /\ p.state = s /\ p.nonce = page[u].nonce /\ p.inst = page[u].inst
  BY <1>1, <1>3 DEF Page
<1> HIDE DEF p
<1> QED
  BY <1>1, <1>2, <1>3, <1>4 DEF PagesMove, PagesOK

LEMMA AnswerToMoves ==
  ASSUME LinkInv, NEW j \in Jobs, NEW state \in {"ok", "error", "waiting"}, AnswerTo(j, state)
  PROVE  PagesMove
<1>1. CASE job[j].op = "claim"
  <2>1. job[j].user \in Users /\ page[job[j].user].state # "closed"
    BY <1>1 DEF LinkInv, JobOK
  <2>2. Answer(job[j].user, state)
    BY <1>1 DEF AnswerTo
  <2> QED
    BY <2>1, <2>2, AnswerMoves
<1>2. CASE job[j].op # "claim"
  BY <1>2, PagesRest DEF AnswerTo
<1> QED
  BY <1>1, <1>2

\* A job that ends, with an answer to its page or without.
LEMMA Ending ==
  ASSUME LinkInv, NEW j \in Jobs, job' = [job EXCEPT ![j] = Idle],
         UNCHANGED <<github, rows, begun>>, spent' \in Spent,
         UNCHANGED page \/ \E state \in {"ok", "error", "waiting"} : AnswerTo(j, state)
  PROVE  LinkInv'
<1>1. PagesMove
  BY PagesRest, AnswerToMoves
<1>2. begun' \in 0 .. MaxIntents
  BY DEF LinkInv, TypeOK
<1> QED
  BY <1>1, <1>2, IdleIsJob, IdleIsOK, OneJob

-----------------------------------------------------------------------------
\* Requests.

LEMMA BeginMintKeeps ==
  ASSUME LinkInv, NEW j \in Jobs, NEW t \in Tenants, BeginMint(j, t)
  PROVE  LinkInv'
<1> DEFINE q == [Idle EXCEPT !.pc = "mint", !.op = "mint", !.user = Owner[t], !.tenant = t,
                             !.nonce = begun + 1, !.consumes = OpenOf(Owner[t])]
<1>1. begun' \in 0 .. MaxIntents /\ begun + 1 \in Intents /\ begun' = begun + 1
  BY ConstantsOK DEF LinkInv, TypeOK, BeginMint, Intents
<1>2. OpenOf(Owner[t]) \subseteq Intents /\ Owner[t] \in Users
  BY ConstantsOK DEF OpenOf
<1>3. q \in Job /\ q.pc = "mint" /\ q.op = "mint" /\ q.user = Owner[t] /\ q.tenant = t
      /\ q.nonce = begun + 1 /\ q.marked = {}
  BY <1>1, <1>2, IdleIsJob DEF Job, Operations, Intents
<1>4. job' = [job EXCEPT ![j] = q]
  BY DEF BeginMint, Become
<1> HIDE DEF q
<1>5. JobOK(q)
  BY <1>1, <1>3 DEF JobOK, OfOwner, Binding
<1>6. spent' \in Spent
  BY SpendCounts DEF BeginMint, LinkInv, TypeOK, Spent
<1> QED
  BY <1>1, <1>3, <1>4, <1>5, <1>6, PagesRest, OneJob DEF BeginMint

LEMMA OpenPageKeeps ==
  ASSUME LinkInv, NEW u \in Users, NEW n \in Intents, NEW i \in Installs, OpenPage(u, n, i)
  PROVE  LinkInv'
<1> DEFINE p == [state |-> "claiming", nonce |-> n, inst |-> i, polls |-> 0]
<1>1. p \in Page
  BY ConstantsOK DEF Page, Intents
<1>2. PagesMove
  BY <1>1 DEF OpenPage, PagesMove, PagesOK, LinkInv, TypeOK
<1>3. spent' \in Spent
  BY SpendCounts DEF OpenPage, LinkInv, TypeOK, Spent
<1>4. Grows
  BY <1>2 DEF PagesMove, Grows, OpenPage, github, rows
<1>5. ASSUME NEW j \in Jobs PROVE JobOK(job[j])'
  <2>1. PICK q : q = job[j]
    OBVIOUS
  <2>2. JobOK(q)'
    BY <1>4, <2>1, JobsStayOK DEF LinkInv, TypeOK
  <2> QED
    BY <2>1, <2>2 DEF OpenPage, JobOK
<1>6. TypeOK'
  BY <1>2, <1>3 DEF LinkInv, TypeOK, PagesMove, OpenPage, github, rows, Spent
<1>7. IntentsOK' /\ HooksOK' /\ PagesOK' /\ LinksAreProven'
  BY <1>2 DEF LinkInv, IntentsOK, HooksOK, PagesMove, LinksAreProven, Proven, OpenPage, github, rows
<1> QED
  BY <1>5, <1>6, <1>7 DEF LinkInv

\* A page's nonce is of an intent, so of its user, once the intent is the user's.
LEMMA MineIsOfOwner ==
  ASSUME LinkInv, NEW u \in Users, Polling(u), Mine(u)
  PROVE  /\ page[u].state # "closed" /\ page[u].nonce \in Intents /\ page[u].inst \in Installs
         /\ intent[page[u].nonce].tenant \in Tenants /\ u = Owner[intent[page[u].nonce].tenant]
<1>1. page[u].state # "closed" /\ page[u].nonce \in Intents /\ page[u].inst \in Installs
  BY DEF LinkInv, PagesOK, Polling
<1> QED
  BY <1>1, ConstantsOK DEF LinkInv, IntentsOK, OfOwner, Mine

LEMMA BeginClaimKeeps ==
  ASSUME LinkInv, NEW u \in Users, NEW j \in Jobs, BeginClaim(u, j)
  PROVE  LinkInv'
<1> DEFINE n == page[u].nonce
           t == intent[page[u].nonce].tenant
           q == [Idle EXCEPT !.pc = "fetch", !.op = "claim", !.user = u, !.nonce = n,
                             !.tenant = t, !.inst = page[u].inst, !.consumes = {n}]
           p == [page[u] EXCEPT !.polls = page[u].polls + 1]
<1>1. /\ page[u].state # "closed" /\ n \in Intents /\ page[u].inst \in Installs
      /\ t \in Tenants /\ u = Owner[t]
  BY MineIsOfOwner DEF BeginClaim, Unusable
<1>2. /\ q \in Job /\ q.pc = "fetch" /\ q.op = "claim" /\ q.user = u /\ q.tenant = t
      /\ q.inst = page[u].inst /\ q.marked = {}
  <2>1. n \in 0 .. MaxIntents
    BY <1>1 DEF Intents
  <2> HIDE DEF n, t
  <2> QED
    BY <1>1, <2>1, IdleIsJob DEF Job, Operations
<1>3. job' = [job EXCEPT ![j] = q]
  BY DEF BeginClaim, Become
<1> HIDE DEF q
<1>4. JobOK(q)
  BY <1>1, <1>2 DEF JobOK, OfOwner, Binding
<1>5. page \in [Users -> Page] /\ PagesOK
  BY DEF LinkInv, TypeOK
<1>6. p \in Page /\ p.state = page[u].state /\ p.nonce = page[u].nonce /\ p.inst = page[u].inst
  <2>1. page[u].polls + 1 \in 0 .. MaxPolls
    BY <1>5, ConstantsOK DEF BeginClaim, Polling, Page
  <2> QED
    BY <1>5, <2>1 DEF Page
<1>7. page' = [page EXCEPT ![u] = p]
  BY <1>5 DEF BeginClaim
<1> HIDE DEF p
<1>8. PagesMove
  BY <1>5, <1>6, <1>7 DEF PagesMove, PagesOK
<1> QED
  BY <1>2, <1>3, <1>4, <1>8, OneJob DEF BeginClaim, LinkInv, TypeOK, Spent

LEMMA ClaimRefusedKeeps ==
  ASSUME LinkInv, NEW u \in Users, ClaimRefused(u)
  PROVE  LinkInv'
<1>1. PagesMove
  BY AnswerMoves DEF ClaimRefused, Polling
<1>2. Grows
  BY <1>1 DEF PagesMove, Grows, ClaimRefused, github, rows
<1>3. ASSUME NEW j \in Jobs PROVE JobOK(job[j])'
  <2>1. PICK q : q = job[j]
    OBVIOUS
  <2>2. JobOK(q)'
    BY <1>2, <2>1, JobsStayOK DEF LinkInv, TypeOK
  <2> QED
    BY <2>1, <2>2 DEF ClaimRefused, JobOK
<1>4. TypeOK'
  BY <1>1 DEF LinkInv, TypeOK, PagesMove, ClaimRefused, github, rows
<1>5. IntentsOK' /\ HooksOK' /\ PagesOK' /\ LinksAreProven'
  BY <1>1 DEF LinkInv, IntentsOK, HooksOK, PagesMove, LinksAreProven, Proven, ClaimRefused, github, rows
<1> QED
  BY <1>3, <1>4, <1>5 DEF LinkInv

LEMMA BeginAddKeeps ==
  ASSUME LinkInv, NEW j \in Jobs, NEW t \in Tenants, NEW i \in Installs, NEW S \in SUBSET Repos,
         BeginAdd(j, t, i, S)
  PROVE  LinkInv'
<1> DEFINE q == [Idle EXCEPT !.pc = "list", !.op = "add", !.tenant = t, !.inst = i, !.repos = S]
<1>1. /\ q \in Job /\ q.pc = "list" /\ q.op = "add" /\ q.tenant = t /\ q.inst = i /\ q.marked = {}
  BY IdleIsJob DEF Job, Operations
<1>2. job' = [job EXCEPT ![j] = q]
  BY DEF BeginAdd, Become
<1>3. Proven(t, i) /\ installation[i] # "absent"
  BY DEF BeginAdd, LinkInv, TypeOK, LinksAreProven
<1> HIDE DEF q
<1>4. JobOK(q)
  BY <1>1, <1>3 DEF JobOK, Binding
<1>5. spent' \in Spent
  BY SpendCounts DEF BeginAdd, LinkInv, TypeOK, Spent
<1> QED
  BY <1>1, <1>2, <1>4, <1>5, PagesRest, OneJob DEF BeginAdd, LinkInv, TypeOK

LEMMA BeginUnlinkKeeps ==
  ASSUME LinkInv, NEW j \in Jobs, NEW t \in Tenants, NEW i \in Installs, BeginUnlink(j, t, i)
  PROVE  LinkInv'
<1> DEFINE q == [Idle EXCEPT !.pc = "mark", !.op = "unlink", !.tenant = t, !.inst = i]
<1>1. /\ q \in Job /\ q.pc = "mark" /\ q.op = "unlink" /\ q.tenant = t /\ q.inst = i /\ q.marked = {}
  BY IdleIsJob DEF Job, Operations
<1>2. job' = [job EXCEPT ![j] = q]
  BY DEF BeginUnlink, Become
<1> HIDE DEF q
<1>3. JobOK(q)
  BY <1>1 DEF JobOK, Binding
<1>4. spent' \in Spent
  BY SpendCounts DEF BeginUnlink, LinkInv, TypeOK, Spent
<1> QED
  BY <1>1, <1>2, <1>3, <1>4, PagesRest, OneJob DEF BeginUnlink, LinkInv, TypeOK

-----------------------------------------------------------------------------
\* Jobs up to their commits.

LEMMA JobIsThere ==
  ASSUME LinkInv, NEW j \in Jobs
  PROVE  /\ job \in [Jobs -> Job] /\ job[j] \in Job /\ JobOK(job[j])
         /\ begun \in 0 .. MaxIntents /\ spent \in Spent
  BY DEF LinkInv, TypeOK, Spent

LEMMA Working ==
  ASSUME LinkInv, NEW j \in Jobs, NEW q \in Job, JobOK(q), job' = [job EXCEPT ![j] = q],
         UNCHANGED <<github, rows, begun, page, spent>>
  PROVE  LinkInv'
  BY PagesRest, JobIsThere, OneJob

\* Only the place in the program changes.
LEMMA GoKeeps ==
  ASSUME LinkInv, NEW j \in Jobs, NEW pc \in {"consume", "tenants"}, Go(j, pc),
         UNCHANGED <<github, rows, begun, page, spent>>,
         job[j].inst \in Installs,
         pc = "consume" => job[j].tenant \in Tenants /\ Proven(job[j].tenant, job[j].inst)
  PROVE  LinkInv'
<1> DEFINE q == [job[j] EXCEPT !.pc = pc]
<1>1. /\ q \in Job /\ q.pc = pc /\ q.op = job[j].op /\ q.user = job[j].user
      /\ q.tenant = job[j].tenant /\ q.inst = job[j].inst /\ q.marked = job[j].marked
  BY JobIsThere DEF Job
<1>2. job' = [job EXCEPT ![j] = q]
  BY JobIsThere DEF Go
<1> HIDE DEF q
<1>3. JobOK(q)
  BY <1>1, JobIsThere DEF JobOK, Binding
<1> QED
  BY <1>1, <1>2, <1>3, Working

LEMMA FetchKeeps ==
  ASSUME LinkInv, NEW j \in Jobs, FetchFails(j) \/ FetchPending(j) \/ FetchOwn(j)
  PROVE  LinkInv'
<1>1. CASE FetchFails(j) \/ FetchPending(j)
  BY <1>1, Ending, JobIsThere DEF FetchFails, FetchPending, End
<1>2. CASE FetchOwn(j)
  <2>1. /\ job[j].inst \in Installs /\ job[j].tenant \in Tenants
        /\ account[job[j].inst] = Owner[job[j].tenant]
    BY <1>2, JobIsThere DEF FetchOwn, At, JobOK, OfOwner
  <2> QED
    BY <1>2, <2>1, GoKeeps DEF FetchOwn, Proven
<1> QED
  BY <1>1, <1>2

LEMMA NoIntentOfSenderKeeps ==
  ASSUME LinkInv, NEW j \in Jobs, NoIntentOfSender(j)
  PROVE  LinkInv'
<1>1. job[j].inst \in Installs
  BY JobIsThere DEF NoIntentOfSender, At, JobOK
<1> QED
  BY <1>1, GoKeeps DEF NoIntentOfSender

LEMMA PickIntentKeeps ==
  ASSUME LinkInv, NEW j \in Jobs, PickIntent(j)
  PROVE  LinkInv'
<1>0. job[j] \in Job
  BY JobIsThere
<1> DEFINE u == job[j].user
           n == Max(LiveOf(u))
           t == intent[n].tenant
           q == [job[j] EXCEPT !.pc = "consume", !.nonce = n, !.tenant = t, !.consumes = OpenOf(u)]
<1>1. OpenOf(u) \subseteq Intents /\ LiveOf(u) \subseteq OpenOf(u)
  BY DEF OpenOf, LiveOf
<1>2. n \in LiveOf(u)
  BY <1>1, NewestIsThere DEF PickIntent
<1>3. n \in Intents /\ intent[n].user = u
  BY <1>1, <1>2 DEF OpenOf
<1>4. intent[n].state = "open" /\ job[j].pc = "sender" /\ <<u, job[j].inst>> \in acted
  BY <1>1, <1>2, JobIsThere DEF OpenOf, PickIntent, At, JobOK
<1>5. u \in Users
  BY <1>4 DEF LinkInv, TypeOK
<1>6. t \in Tenants /\ Owner[t] = u
  BY <1>3, <1>5, ConstantsOK DEF LinkInv, IntentsOK, OfOwner
<1>7. Proven(t, job[j].inst)
  BY <1>4, <1>6 DEF Proven
<1>8. job' = [job EXCEPT ![j] = q]
  BY JobIsThere DEF PickIntent
<1>9. n \in 0 .. MaxIntents
  BY <1>3 DEF Intents
<1> HIDE DEF n, t
<1>10. /\ q \in Job /\ q.pc = "consume" /\ q.op = job[j].op /\ q.user = u
       /\ q.tenant = t /\ q.inst = job[j].inst /\ q.marked = job[j].marked
  BY <1>1, <1>6, <1>9, <1>0 DEF Job
<1> HIDE DEF q
<1>11. JobOK(q)
  BY <1>4, <1>6, <1>7, <1>10, JobIsThere DEF JobOK, Binding
<1>12. UNCHANGED <<github, rows, begun, page, spent>>
  BY DEF PickIntent
<1> QED
  BY <1>8, <1>10, <1>11, <1>12, Working

LEMMA ConsumeKeeps ==
  ASSUME LinkInv, NEW j \in Jobs, Consume(j)
  PROVE  LinkInv'
<1>0. job[j] \in Job
  BY JobIsThere
<1>1. PICK S \in {job[j].consumes, Wanted(j)} :
        job' = [job EXCEPT ![j].pc = "attach", ![j].consumes = S]
  BY DEF Consume
<1>2. S \subseteq Intents
  BY JobIsThere DEF Wanted, OpenOf, Job
<1> DEFINE q == [job[j] EXCEPT !.pc = "attach", !.consumes = S]
<1>3. job' = [job EXCEPT ![j] = q]
  BY <1>1, JobIsThere
<1>4. /\ q \in Job /\ q.pc = "attach" /\ q.op = job[j].op /\ q.user = job[j].user
      /\ q.tenant = job[j].tenant /\ q.inst = job[j].inst /\ q.marked = job[j].marked
  BY <1>2, <1>0 DEF Job
<1> HIDE DEF q
<1>5. JobOK(q)
  BY <1>4, JobIsThere DEF JobOK, Binding, Consume, At
<1>6. UNCHANGED <<github, rows, begun, page, spent>>
  BY DEF Consume
<1> QED
  BY <1>3, <1>4, <1>5, <1>6, Working

\* The installation's row is there, or this job is writing it.
LEMMA AttachKeeps ==
  ASSUME LinkInv, NEW j \in Jobs, Attach(j)
  PROVE  LinkInv'
<1>0. job[j] \in Job
  BY JobIsThere
<1> DEFINE w == job[j].writes \/ installation[job[j].inst] # "live"
           pc == IF <<job[j].tenant, job[j].inst>> \in links THEN "list" ELSE "link"
           q == [job[j] EXCEPT !.writes = w, !.pc = pc]
<1>1. job' = [job EXCEPT ![j] = q]
  BY JobIsThere, Zenon DEF Attach
<1>2. w \in BOOLEAN /\ (w \/ installation[job[j].inst] = "live") /\ pc \in {"list", "link"}
  OBVIOUS
<1> HIDE DEF w, pc
<1>3. /\ q \in Job /\ q.pc = pc /\ q.op = job[j].op /\ q.user = job[j].user /\ q.writes = w
      /\ q.tenant = job[j].tenant /\ q.inst = job[j].inst /\ q.marked = job[j].marked
  BY <1>2, <1>0 DEF Job
<1> HIDE DEF q
<1>4. JobOK(q)
  BY <1>2, <1>3, JobIsThere DEF JobOK, Binding, Attach, At
<1>5. UNCHANGED <<github, rows, begun, page, spent>>
  BY DEF Attach
<1> QED
  BY <1>1, <1>3, <1>4, <1>5, Working

LEMMA InsertLinkKeeps ==
  ASSUME LinkInv, NEW j \in Jobs, InsertLink(j)
  PROVE  LinkInv'
<1>0. job[j] \in Job
  BY JobIsThere
<1> DEFINE q == [job[j] EXCEPT !.pc = "list", !.newLink = TRUE]
<1>1. job' = [job EXCEPT ![j] = q]
  BY JobIsThere DEF InsertLink
<1>2. /\ q \in Job /\ q.pc = "list" /\ q.op = job[j].op /\ q.user = job[j].user
      /\ q.writes = job[j].writes
      /\ q.tenant = job[j].tenant /\ q.inst = job[j].inst /\ q.marked = job[j].marked
  BY <1>0 DEF Job
<1> HIDE DEF q
<1>3. JobOK(q)
  BY <1>2, JobIsThere DEF JobOK, Binding, InsertLink, At
<1>4. UNCHANGED <<github, rows, begun, page, spent>>
  BY DEF InsertLink
<1> QED
  BY <1>1, <1>2, <1>3, <1>4, Working

LEMMA ListReposKeeps ==
  ASSUME LinkInv, NEW j \in Jobs, ListRepos(j)
  PROVE  LinkInv'
<1>0. job[j] \in Job
  BY JobIsThere
<1> DEFINE S == Listed(j)
           q == [job[j] EXCEPT !.pc = "sync", !.repos = S]
<1>1. S \subseteq Repos
  <2>1. job[j].inst \in Installs
    BY JobIsThere DEF ListRepos, At, JobOK
  <2> QED
    BY <2>1, JobIsThere DEF Listed, LinkInv, TypeOK, Job
<1>2. job' = [job EXCEPT ![j] = q]
  BY JobIsThere DEF ListRepos
<1> HIDE DEF S
<1>3. /\ q \in Job /\ q.pc = "sync" /\ q.op = job[j].op /\ q.user = job[j].user
      /\ q.writes = job[j].writes
      /\ q.tenant = job[j].tenant /\ q.inst = job[j].inst /\ q.marked = job[j].marked
  BY <1>1, <1>0 DEF Job
<1> HIDE DEF q
<1>4. JobOK(q)
  BY <1>3, JobIsThere DEF JobOK, Binding, ListRepos, At
<1>5. UNCHANGED <<github, rows, begun, page, spent>>
  BY DEF ListRepos
<1> QED
  BY <1>2, <1>3, <1>4, <1>5, Working

\* A link found in links is proven, and so are the workspaces a webhook is applied to.
LEMMA ReadTenantsKeeps ==
  ASSUME LinkInv, NEW j \in Jobs, ReadTenants(j)
  PROVE  LinkInv'
<1>0. job[j] \in Job
  BY JobIsThere
<1> DEFINE ts == IF job[j].op = "removed" THEN {} ELSE LinkedTenants(job[j].inst)
           q == [job[j] EXCEPT !.pc = "apply", !.tenants = ts]
<1>1. ts \subseteq Tenants /\ \A t \in ts : Proven(t, job[j].inst)
  BY DEF LinkedTenants, LinkInv, LinksAreProven
<1>2. job' = [job EXCEPT ![j] = q]
  BY JobIsThere DEF ReadTenants
<1> HIDE DEF ts
<1>3. /\ q \in Job /\ q.pc = "apply" /\ q.op = job[j].op /\ q.user = job[j].user
      /\ q.tenants = ts /\ q.inst = job[j].inst /\ q.marked = job[j].marked
  BY <1>1, <1>0 DEF Job
<1> HIDE DEF q
<1>4. JobOK(q)
  BY <1>1, <1>3, JobIsThere DEF JobOK, Binding, ReadTenants, At
<1>5. UNCHANGED <<github, rows, begun, page, spent>>
  BY DEF ReadTenants
<1> QED
  BY <1>2, <1>3, <1>4, <1>5, Working

\* Rows that are marked are there.
LEMMA MarkRowsKeeps ==
  ASSUME LinkInv, NEW j \in Jobs, MarkRows(j)
  PROVE  LinkInv'
<1>0. job[j] \in Job
  BY JobIsThere
<1> DEFINE ts == IF job[j].op = "unlink" THEN {job[j].tenant} ELSE Tenants
           S == RowsOf(ts, job[j].inst, Repos)
           q == [job[j] EXCEPT !.pc = "drop", !.marked = S]
<1>1. S \subseteq Tenants \X Repos /\ \A r \in S : repo[r[1]][r[2]].state # "none"
  <2>1. ts \subseteq Tenants
    BY JobIsThere DEF MarkRows, At, JobOK
  <2> HIDE DEF ts
  <2> QED
    BY <2>1 DEF RowsOf
<1>2. job' = [job EXCEPT ![j] = q]
  BY JobIsThere DEF MarkRows
<1> HIDE DEF S
<1>3. /\ q \in Job /\ q.pc = "drop" /\ q.op = job[j].op /\ q.user = job[j].user
      /\ q.tenant = job[j].tenant
      /\ q.inst = job[j].inst /\ q.marked = S
  BY <1>1, <1>0 DEF Job
<1> HIDE DEF q
<1>4. JobOK(q)
  BY <1>1, <1>3, JobIsThere DEF JobOK, Binding, MarkRows, At
<1>5. UNCHANGED <<github, rows, begun, page, spent>>
  BY DEF MarkRows
<1> QED
  BY <1>2, <1>3, <1>4, <1>5, Working

\* Whatever ends a job without a commit.
LEMMA EndingsKeep ==
  ASSUME LinkInv, NEW j \in Jobs, BindFails(j) \/ SkipHook(j) \/ Fail(j) \/ Deadlock(j)
  PROVE  LinkInv'
<1>1. CASE BindFails(j) \/ SkipHook(j) \/ Deadlock(j)
  BY <1>1, Ending, JobIsThere DEF BindFails, SkipHook, Deadlock, End
<1>2. CASE Fail(j)
  BY <1>2, Ending, JobIsThere, SpendCounts DEF Fail, End
<1> QED
  BY <1>1, <1>2

-----------------------------------------------------------------------------
\* GitHub, and what it announces.

LEMMA JobsRest ==
  ASSUME LinkInv, Grows, UNCHANGED job, NEW j \in Jobs
  PROVE  JobOK(job[j])'
<1>1. PICK q : q = job[j]
  OBVIOUS
<1>2. JobOK(q)'
  BY <1>1, JobIsThere, JobsStayOK
<1> QED
  BY <1>1, <1>2 DEF JobOK

LEMMA EmitKeeps ==
  ASSUME LinkInv, NEW u \in Users, NEW i \in Installs,
         NEW action \in {"created", "deleted", "added", "removed"}, NEW repos \in SUBSET Repos,
         Emit(u, i, action, repos),
         installed' \subseteq Installs, granted' \in [Installs -> SUBSET Repos]
  PROVE  LinkInv'
<1> DEFINE h == [action |-> action, inst |-> i, sender |-> u, repos |-> repos]
<1>1. h \in Hook /\ hooks' = hooks \cup {h} /\ acted' = acted \cup {<<u, i>>}
  BY DEF Emit, Hook
<1>2. spent' \in Spent
  <2>1. Spend("events")
    BY DEF Emit
  <2>2. spent \in Spent
    BY DEF LinkInv, TypeOK, Spent
  <2> QED
    BY <2>1, <2>2, SpendCounts
<1>3. UNCHANGED <<account, installation, links, repo, intent, begun, job, page>>
  BY DEF Emit, rows
<1>4. Grows
  BY <1>1, <1>3 DEF Grows
<1>5. HooksOK'
  <2>1. h.sender = u /\ h.inst = i
    OBVIOUS
  <2> HIDE DEF h
  <2> QED
    BY <1>1, <2>1 DEF LinkInv, HooksOK
<1> HIDE DEF h
<1>6. TypeOK'
  BY <1>1, <1>2, <1>3 DEF LinkInv, TypeOK, Spent
<1>7. IntentsOK' /\ PagesOK' /\ LinksAreProven'
  BY <1>1, <1>3 DEF LinkInv, IntentsOK, PagesOK, LinksAreProven, Proven
<1> QED
  BY <1>3, <1>4, <1>5, <1>6, <1>7, JobsRest DEF LinkInv

LEMMA GitHubStepKeeps ==
  ASSUME LinkInv, GitHubStep
  PROVE  LinkInv'
<1>1. installed \subseteq Installs /\ granted \in [Installs -> SUBSET Repos]
  BY DEF LinkInv, TypeOK
<1>2. PICK u \in Users, i \in Installs :
        \/ \E repos \in SUBSET Repos : Install(u, i, repos)
        \/ Uninstall(u, i)
        \/ \E p \in Repos : Grant(u, i, p) \/ Revoke(u, i, p)
  BY DEF GitHubStep
<1>3. ASSUME NEW repos \in SUBSET Repos, Install(u, i, repos) PROVE LinkInv'
  BY <1>1, <1>3, EmitKeeps DEF Install
<1>4. CASE Uninstall(u, i)
  BY <1>1, <1>4, EmitKeeps DEF Uninstall
<1>5. ASSUME NEW p \in Repos, Grant(u, i, p) PROVE LinkInv'
  BY <1>1, <1>5, EmitKeeps DEF Grant
<1>6. ASSUME NEW p \in Repos, Revoke(u, i, p) PROVE LinkInv'
  BY <1>1, <1>6, EmitKeeps DEF Revoke
<1> QED
  BY <1>2, <1>3, <1>4, <1>5, <1>6

LEMMA TakeHookKeeps ==
  ASSUME LinkInv, NEW j \in Jobs, NEW h \in hooks, TakeHook(j, h)
  PROVE  LinkInv'
<1> DEFINE op == h.action
           u == h.sender
           i == h.inst
           S == h.repos
           pc == IF h.action = "deleted" THEN "mark" ELSE "sender"
           w == h.action = "created"
           q == [Idle EXCEPT !.pc = pc, !.op = op, !.user = u, !.inst = i, !.writes = w, !.payload = S]
<1>1. h \in Hook /\ <<u, i>> \in acted
  BY DEF LinkInv, TypeOK, HooksOK
<1>2. /\ op \in {"created", "deleted", "added", "removed"} /\ i \in Installs
      /\ u \in Users /\ S \in SUBSET Repos
  BY <1>1 DEF Hook
<1>3. pc \in {"mark", "sender"} /\ (pc = "mark" => op = "deleted") /\ w \in BOOLEAN
  OBVIOUS
<1>4. job' = [job EXCEPT ![j] = q]
  BY DEF TakeHook, Become
<1> HIDE DEF pc, w, op, u, i, S
<1>5. q \in Job /\ q.pc = pc /\ q.op = op /\ q.user = u /\ q.inst = i /\ q.marked = {}
  <2>1. op \in Operations
    BY <1>2 DEF Operations
  <2> QED
    BY <1>2, <1>3, <2>1, IdleIsJob DEF Job
<1> HIDE DEF q
<1>6. JobOK(q)
  BY <1>1, <1>2, <1>3, <1>5 DEF JobOK, Binding
<1>7. UNCHANGED <<account, installed, granted, acted, rows, begun, page, spent>> /\ hooks' \subseteq hooks
  BY DEF TakeHook
<1>8. Grows
  BY <1>7 DEF Grows, rows
<1>9. job' \in [Jobs -> Job] /\ \A k \in Jobs : job'[k] = IF k = j THEN q ELSE job[k]
  BY <1>4, <1>5, JobIsThere
<1>10. ASSUME NEW k \in Jobs PROVE JobOK(job[k])'
  <2>1. PICK r : r = job'[k]
    OBVIOUS
  <2>2. r \in Job /\ JobOK(r)
    BY <1>5, <1>6, <1>9, <2>1, JobIsThere
  <2>3. JobOK(r)'
    BY <1>8, <2>2, JobsStayOK
  <2> QED
    BY <2>1, <2>3 DEF JobOK
<1>11. TypeOK' /\ IntentsOK' /\ HooksOK' /\ PagesOK' /\ LinksAreProven'
  BY <1>7, <1>9 DEF LinkInv, TypeOK, IntentsOK, HooksOK, PagesOK, LinksAreProven, Proven, rows
<1> QED
  BY <1>10, <1>11 DEF LinkInv

-----------------------------------------------------------------------------
\* What commits write.

LEMMA RowsWritten ==
  ASSUME LinkInv, Grows, UNCHANGED <<github, begun>>, spent' \in Spent, PagesMove,
         job' \in [Jobs -> Job], \A k \in Jobs : JobOK(job[k])',
         installation' \in [Installs -> {"absent", "live", "removed"}],
         links' \subseteq Tenants \X Installs,
         \A l \in links' : installation'[l[2]] # "absent" /\ Proven(l[1], l[2]),
         repo' \in [Tenants -> [Repos -> Row]],
         \A t \in Tenants, p \in Repos : repo'[t][p].state # "none" => Proven(t, repo'[t][p].inst),
         intent' \in [Intents -> Intent], IntentsOK'
  PROVE  LinkInv'
<1>1. TypeOK'
  BY DEF LinkInv, TypeOK, PagesMove, github, Spent
<1>2. HooksOK' /\ PagesOK'
  BY DEF LinkInv, HooksOK, PagesMove, github
<1>3. LinksAreProven'
  BY DEF LinksAreProven, Proven, github
<1> QED
  BY <1>1, <1>2, <1>3 DEF LinkInv

LEMMA ConsumedIsOK ==
  ASSUME LinkInv, NEW S
  PROVE  /\ Consumed(S) \in [Intents -> Intent]
         /\ \A n \in Intents : Consumed(S)[n].user = intent[n].user
                               /\ Consumed(S)[n].tenant = intent[n].tenant
<1>1. ASSUME NEW n \in Intents
      PROVE  LET r == [intent[n] EXCEPT !.state = "consumed"]
             IN  r \in Intent /\ r.user = intent[n].user /\ r.tenant = intent[n].tenant
  <2>1. intent[n] \in Intent
    BY DEF LinkInv, TypeOK
  <2> QED
    BY <2>1 DEF Intent
<1> QED
  BY <1>1 DEF Consumed, LinkInv, TypeOK

\* A sync writes rows of workspaces and of an installation that are proven.
LEMMA SyncIsProven ==
  ASSUME LinkInv, NEW ts \in SUBSET Tenants, NEW i \in Installs, NEW S, NEW b,
         \A t \in ts : Proven(t, i), SyncRepos(ts, i, S, b)
  PROVE  /\ repo' \in [Tenants -> [Repos -> Row]]
         /\ \A t \in Tenants, p \in Repos :
              /\ repo[t][p].state # "none" => repo'[t][p].state # "none"
              /\ repo'[t][p].state # "none" => Proven(t, repo'[t][p].inst)
<1>1. repo \in [Tenants -> [Repos -> Row]]
  BY DEF LinkInv, TypeOK
<1> DEFINE new(t, p) == IF t \in ts /\ p \in S THEN Synced(repo[t][p], i, b) ELSE repo[t][p]
<1>2. repo' = [t \in Tenants |-> [p \in Repos |-> new(t, p)]]
  BY DEF SyncRepos
<1>3. ASSUME NEW t \in Tenants, NEW p \in Repos
      PROVE  /\ new(t, p) \in Row
             /\ repo[t][p].state # "none" => new(t, p).state # "none"
             /\ new(t, p).state # "none" => Proven(t, new(t, p).inst)
  <2>1. repo[t][p] \in Row /\ (repo[t][p].state # "none" => Proven(t, repo[t][p].inst))
    BY <1>1 DEF LinkInv, LinksAreProven
  <2> DEFINE kept == [repo[t][p] EXCEPT !.state = "tracked"]
             made == [inst |-> i, state |-> "tracked"]
  <2>2. /\ kept \in Row /\ kept.inst = repo[t][p].inst /\ kept.state = "tracked"
        /\ made \in Row /\ made.inst = i /\ made.state = "tracked"
    BY <2>1 DEF Row
  <2>3. \/ new(t, p) = repo[t][p]
        \/ t \in ts /\ new(t, p) = made
        \/ repo[t][p].state # "none" /\ new(t, p) = kept
    BY DEF Synced
  <2> HIDE DEF new, kept, made
  <2> QED
    BY <2>1, <2>2, <2>3
<1> HIDE DEF new
<1> QED
  BY <1>2, <1>3

LEMMA SoftDeleteIsProven ==
  ASSUME LinkInv, NEW S, \A r \in S : repo[r[1]][r[2]].state # "none", SoftDelete(S)
  PROVE  /\ repo' \in [Tenants -> [Repos -> Row]]
         /\ \A t \in Tenants, p \in Repos :
              /\ repo[t][p].state # "none" => repo'[t][p].state # "none"
              /\ repo'[t][p].state # "none" => Proven(t, repo'[t][p].inst)
<1>1. repo \in [Tenants -> [Repos -> Row]]
  BY DEF LinkInv, TypeOK
<1> DEFINE gone(t, p) == [repo[t][p] EXCEPT !.state = "removed"]
           new(t, p) == IF <<t, p>> \in S THEN gone(t, p) ELSE repo[t][p]
<1>2. repo' = [t \in Tenants |-> [p \in Repos |-> new(t, p)]]
  BY DEF SoftDelete
<1>3. ASSUME NEW t \in Tenants, NEW p \in Repos
      PROVE  /\ new(t, p) \in Row
             /\ repo[t][p].state # "none" => new(t, p).state # "none"
             /\ new(t, p).state # "none" => Proven(t, new(t, p).inst)
  <2>1. repo[t][p] \in Row /\ (repo[t][p].state # "none" => Proven(t, repo[t][p].inst))
    BY <1>1 DEF LinkInv, LinksAreProven
  <2>2. gone(t, p) \in Row /\ gone(t, p).inst = repo[t][p].inst /\ gone(t, p).state = "removed"
    BY <2>1 DEF Row
  <2>3. <<t, p>> \in S => repo[t][p].state # "none"
    OBVIOUS
  <2> HIDE DEF gone
  <2> QED
    BY <2>1, <2>2, <2>3
<1> HIDE DEF new
<1> QED
  BY <1>2, <1>3

LEMMA OvertakingKeeps ==
  ASSUME LinkInv, Grows, NEW j \in Jobs, NEW i, NEW ts \in SUBSET Tenants, NEW q \in Job, JobOK(q),
         Overtaking(j, i, ts, q)
  PROVE  job' \in [Jobs -> Job] /\ \A k \in Jobs : JobOK(job[k])'
<1> DEFINE late(k) == [job[k] EXCEPT !.overtaken = job[k].overtaken \cup ts]
           new(k) == IF k = j THEN q ELSE IF job[k].inst = i THEN late(k) ELSE job[k]
<1>1. job' = [k \in Jobs |-> new(k)]
  BY DEF Overtaking
<1>2. ASSUME NEW k \in Jobs PROVE new(k) \in Job /\ JobOK(new(k))
  <2>1. job[k] \in Job /\ JobOK(job[k])
    BY JobIsThere
  <2>2. job[k].overtaken \cup ts \subseteq Tenants /\ job[k].gone \in BOOLEAN
    BY <2>1 DEF Job
  <2>3. late(k) = [job[k] EXCEPT !.overtaken = job[k].overtaken \cup ts, !.gone = job[k].gone]
    BY <2>1 DEF Job
  <2>4. late(k) \in Job /\ JobOK(late(k))
    <3> DEFINE o == job[k].overtaken \cup ts
               g == job[k].gone
               full == [job[k] EXCEPT !.overtaken = o, !.gone = g]
    <3>1. late(k) = full
      BY <2>3
    <3> HIDE DEF late
    <3>2. o \in SUBSET Tenants /\ g \in BOOLEAN
      BY <2>2
    <3> HIDE DEF o, g
    <3>3. full \in Job /\ JobOK(full)
      BY <2>1, <3>2, HistoryIsFree
    <3> QED
      BY <3>1, <3>3
  <2> HIDE DEF late
  <2> QED
    BY <2>1, <2>4
<1> HIDE DEF new
<1>3. job' \in [Jobs -> Job]
  BY <1>1, <1>2
<1>4. ASSUME NEW k \in Jobs PROVE JobOK(job[k])'
  <2>1. PICK r : r = job'[k]
    OBVIOUS
  <2>2. r \in Job /\ JobOK(r)
    BY <1>1, <1>2, <2>1
  <2>3. JobOK(r)'
    BY <2>2, JobsStayOK
  <2> QED
    BY <2>1, <2>3 DEF JobOK
<1> QED
  BY <1>3, <1>4

LEMMA RowsAreThere ==
  ASSUME LinkInv
  PROVE  /\ installation \in [Installs -> {"absent", "live", "removed"}]
         /\ links \subseteq Tenants \X Installs
         /\ \A l \in links : installation[l[2]] # "absent" /\ Proven(l[1], l[2])
         /\ repo \in [Tenants -> [Repos -> Row]]
         /\ \A t \in Tenants, p \in Repos : repo[t][p].state # "none" => Proven(t, repo[t][p].inst)
         /\ intent \in [Intents -> Intent] /\ IntentsOK
  BY DEF LinkInv, TypeOK, LinksAreProven

\* A step that writes intents only, and may be the last of a job.
LEMMA IntentsWritten ==
  ASSUME LinkInv, UNCHANGED <<github, installation, links, repo, begun>>, spent' \in Spent, PagesMove,
         intent' \in [Intents -> Intent], IntentsOK',
         UNCHANGED job \/ \E j \in Jobs : End(j)
  PROVE  LinkInv'
<1>1. Grows
  BY DEF Grows, PagesMove, github
<1>2. job' \in [Jobs -> Job]
  BY JobIsThere, IdleIsJob DEF End, LinkInv, TypeOK
<1>3. ASSUME NEW k \in Jobs PROVE JobOK(job[k])'
  <2>1. PICK r : r = job'[k]
    OBVIOUS
  <2>2. r = job[k] \/ r = Idle
    BY <2>1 DEF End, LinkInv, TypeOK
  <2>3. r \in Job /\ JobOK(r)
    BY <2>2, JobIsThere, IdleIsJob, IdleIsOK
  <2>4. JobOK(r)'
    BY <1>1, <2>3, JobsStayOK
  <2> QED
    BY <2>1, <2>4 DEF JobOK
<1> QED
  BY <1>1, <1>2, <1>3, RowsAreThere, RowsWritten

LEMMA CommitIntentKeeps ==
  ASSUME LinkInv, NEW j \in Jobs, CommitIntent(j)
  PROVE  LinkInv'
<1> DEFINE made == [user |-> job[j].user, tenant |-> job[j].tenant, state |-> "open", expired |-> FALSE]
           rest == Consumed(job[j].consumes)
<1>1. /\ job[j].nonce \in Intents /\ OfOwner(job[j].user, job[j].tenant)
  BY JobIsThere DEF CommitIntent, At, JobOK
<1>2. made \in Intent /\ made.user = job[j].user /\ made.tenant = job[j].tenant
  BY <1>1, ConstantsOK DEF OfOwner, Intent
<1>3. /\ rest \in [Intents -> Intent]
      /\ \A n \in Intents : rest[n].user = intent[n].user /\ rest[n].tenant = intent[n].tenant
  BY ConsumedIsOK
<1>4. intent' = [rest EXCEPT ![job[j].nonce] = made]
  BY DEF CommitIntent
<1> HIDE DEF made, rest
<1>5. intent' \in [Intents -> Intent]
  BY <1>1, <1>2, <1>3, <1>4
<1>6. IntentsOK'
  BY <1>1, <1>2, <1>3, <1>4, RowsAreThere DEF IntentsOK, OfOwner
<1>7. UNCHANGED <<github, installation, links, repo, begun, page, spent>> /\ End(j)
  BY DEF CommitIntent
<1> QED
  BY <1>5, <1>6, <1>7, PagesRest, JobIsThere, IntentsWritten

LEMMA ExpireIntentKeeps ==
  ASSUME LinkInv, NEW n \in Intents, ExpireIntent(n)
  PROVE  LinkInv'
<1> DEFINE r == [intent[n] EXCEPT !.expired = TRUE]
<1>1. intent[n] \in Intent /\ intent \in [Intents -> Intent]
  BY RowsAreThere
<1>2. r \in Intent /\ r.user = intent[n].user /\ r.tenant = intent[n].tenant
  BY <1>1 DEF Intent
<1>3. intent' = [intent EXCEPT ![n] = r]
  BY <1>1 DEF ExpireIntent
<1> HIDE DEF r
<1>4. intent' \in [Intents -> Intent]
  BY <1>1, <1>2, <1>3
<1>5. IntentsOK'
  BY <1>1, <1>2, <1>3, RowsAreThere DEF IntentsOK, OfOwner
<1>6. UNCHANGED <<github, installation, links, repo, begun, job, page>> /\ Spend("expiries")
  BY DEF ExpireIntent
<1>7. spent' \in Spent
  <2>1. spent \in Spent
    BY DEF LinkInv, TypeOK, Spent
  <2> QED
    BY <1>6, <2>1, SpendCounts
<1> QED
  BY <1>4, <1>5, <1>6, <1>7, PagesRest, IntentsWritten

LEMMA ClaimLinkedKeeps ==
  ASSUME LinkInv, NEW u \in Users, ClaimLinked(u)
  PROVE  LinkInv'
<1>1. intent' = Consumed({page[u].nonce}) /\ Answer(u, "ok") /\ page[u].state # "closed"
  BY DEF ClaimLinked, Polling
<1>2. PagesMove
  BY <1>1, AnswerMoves
<1>3. intent' \in [Intents -> Intent]
  BY <1>1, ConsumedIsOK
<1>4. IntentsOK'
  BY <1>1, ConsumedIsOK, RowsAreThere DEF IntentsOK, OfOwner
<1>5. UNCHANGED <<github, installation, links, repo, begun, job, spent>>
  BY DEF ClaimLinked
<1>6. spent' \in Spent
  BY <1>5 DEF LinkInv, TypeOK, Spent
<1> QED
  BY <1>2, <1>3, <1>4, <1>5, <1>6, IntentsWritten

\* The commit of a bind or an add: the rows, the link and the installation are of a workspace
\* that the job proved.
LEMMA CommitSyncKeeps ==
  ASSUME LinkInv, NEW j \in Jobs, CommitSync(j)
  PROVE  LinkInv'
<1> DEFINE t == job[j].tenant
           i == job[j].inst
           q == IF IsHook(j) THEN AfterBind(job[j]) ELSE Idle
<1>1. /\ job[j] \in Job /\ t \in Tenants /\ i \in Installs /\ Proven(t, i)
      /\ job[j].writes \/ installation[i] # "absent"
  BY JobIsThere DEF CommitSync, At, JobOK, Binding
<1>2. /\ SyncRepos({t}, i, job[j].repos, FALSE)
      /\ installation' = IF job[j].writes THEN [installation EXCEPT ![i] = "live"] ELSE installation
      /\ links' = IF job[j].newLink THEN links \cup {<<t, i>>} ELSE links
      /\ intent' = Consumed(job[j].consumes)
      /\ Overtaking(j, i, {t}, q)
      /\ AnswerTo(j, "ok")
      /\ UNCHANGED <<github, begun, spent>>
  BY DEF CommitSync
<1>3. /\ repo' \in [Tenants -> [Repos -> Row]]
      /\ \A s \in Tenants, p \in Repos :
           /\ repo[s][p].state # "none" => repo'[s][p].state # "none"
           /\ repo'[s][p].state # "none" => Proven(s, repo'[s][p].inst)
  <2>1. {t} \in SUBSET Tenants /\ \A s \in {t} : Proven(s, i)
    BY <1>1
  <2>2. SyncRepos({t}, i, job[j].repos, FALSE)
    BY <1>2
  <2> HIDE DEF t, i
  <2> QED
    BY <1>1, <2>1, <2>2, SyncIsProven
<1>4. /\ installation' \in [Installs -> {"absent", "live", "removed"}]
      /\ \A k \in Installs : installation[k] # "absent" => installation'[k] # "absent"
      /\ installation'[i] # "absent"
  BY <1>1, <1>2, RowsAreThere
<1>5. /\ links' \subseteq Tenants \X Installs
      /\ \A l \in links' : installation'[l[2]] # "absent" /\ Proven(l[1], l[2])
  BY <1>1, <1>2, <1>4, RowsAreThere
<1>6. intent' \in [Intents -> Intent] /\ IntentsOK'
  BY <1>2, ConsumedIsOK, RowsAreThere DEF IntentsOK, OfOwner
<1>7. PagesMove
  BY <1>2, AnswerToMoves
<1>8. Grows
  BY <1>2, <1>3, <1>4, <1>7 DEF Grows, PagesMove, github
<1>9. q \in Job /\ JobOK(q)
  <2>1. CASE IsHook(j)
    <3> DEFINE r == AfterBind(job[j])
    <3>1. r \in Job /\ r.pc = "tenants" /\ r.op = job[j].op /\ r.inst = i /\ r.marked = {}
      BY <1>1, IdleIsJob DEF AfterBind, Job
    <3> HIDE DEF r
    <3>2. JobOK(r)
      BY <1>1, <2>1, <3>1 DEF JobOK, Binding, IsHook
    <3> QED
      BY <2>1, <3>1, <3>2 DEF r
  <2>2. CASE ~IsHook(j)
    BY <2>2, IdleIsJob, IdleIsOK
  <2> QED
    BY <2>1, <2>2
<1> HIDE DEF q
<1>10. job' \in [Jobs -> Job] /\ \A k \in Jobs : JobOK(job[k])'
  BY <1>1, <1>2, <1>8, <1>9, OvertakingKeeps
<1> QED
  BY <1>2, <1>3, <1>4, <1>5, <1>6, <1>7, <1>8, <1>10, JobIsThere, RowsWritten

LEMMA RemoveRepoKeeps ==
  ASSUME LinkInv, NEW t \in Tenants, NEW p \in Repos, RemoveRepo(t, p)
  PROVE  LinkInv'
<1>1. SoftDelete({<<t, p>>}) /\ Spend("requests") /\ repo[t][p].state # "none"
  BY DEF RemoveRepo
<1>2. UNCHANGED <<github, installation, links, intent, begun, job, page>>
  BY DEF RemoveRepo
<1>3. \A r \in {<<t, p>>} : repo[r[1]][r[2]].state # "none"
  BY <1>1
<1>4. /\ repo' \in [Tenants -> [Repos -> Row]]
      /\ \A s \in Tenants, r \in Repos :
           /\ repo[s][r].state # "none" => repo'[s][r].state # "none"
           /\ repo'[s][r].state # "none" => Proven(s, repo'[s][r].inst)
  BY <1>1, <1>3, SoftDeleteIsProven
<1>5. PagesMove
  BY <1>2, PagesRest
<1>6. Grows
  BY <1>2, <1>4 DEF Grows, github
<1>7. job' \in [Jobs -> Job] /\ \A k \in Jobs : JobOK(job[k])'
  BY <1>2, <1>6, JobsRest DEF LinkInv, TypeOK
<1>8. spent' \in Spent
  <2>1. spent \in Spent
    BY DEF LinkInv, TypeOK, Spent
  <2> QED
    BY <1>1, <2>1, SpendCounts
<1>9. IntentsOK'
  BY <1>2, RowsAreThere DEF IntentsOK
<1> QED
  BY <1>2, <1>4, <1>5, <1>6, <1>7, <1>8, <1>9, RowsAreThere, RowsWritten

LEMMA ApplyHookKeeps ==
  ASSUME LinkInv, NEW j \in Jobs, ApplyHook(j)
  PROVE  LinkInv'
<1> DEFINE i == job[j].inst
           S == RowsOf(Tenants, i, job[j].payload)
           ts == IF job[j].op = "removed" THEN {r[1] : r \in S} ELSE job[j].tenants
<1>1. /\ job[j] \in Job /\ i \in Installs /\ job[j].tenants \in SUBSET Tenants
      /\ \A t \in job[j].tenants : Proven(t, i)
  BY JobIsThere DEF ApplyHook, At, JobOK, Job
<1>2. /\ \/ SoftDelete(S)
         \/ SyncRepos(job[j].tenants, i, job[j].payload, TRUE)
      /\ installation' = IF job[j].writes THEN [installation EXCEPT ![i] = "live"] ELSE installation
      /\ Overtaking(j, i, ts, Idle)
      /\ UNCHANGED <<github, links, intent, begun, page, spent>>
  BY DEF ApplyHook
<1>3. S \subseteq Tenants \X Repos /\ \A r \in S : repo[r[1]][r[2]].state # "none"
  <2>1. job[j].payload \subseteq Repos
    BY <1>1 DEF Job
  <2> QED
    BY <2>1 DEF RowsOf
<1>4. ts \in SUBSET Tenants
  BY <1>1, <1>3
<1> HIDE DEF S, ts
<1>5. /\ repo' \in [Tenants -> [Repos -> Row]]
      /\ \A s \in Tenants, p \in Repos :
           /\ repo[s][p].state # "none" => repo'[s][p].state # "none"
           /\ repo'[s][p].state # "none" => Proven(s, repo'[s][p].inst)
  <2>1. CASE SoftDelete(S)
    BY <1>3, <2>1, SoftDeleteIsProven
  <2>2. CASE SyncRepos(job[j].tenants, i, job[j].payload, TRUE)
    <3> HIDE DEF i
    <3> QED
      BY <1>1, <2>2, SyncIsProven
  <2> QED
    BY <1>2, <2>1, <2>2
<1>6. /\ installation' \in [Installs -> {"absent", "live", "removed"}]
      /\ \A k \in Installs : installation[k] # "absent" => installation'[k] # "absent"
  BY <1>1, <1>2, RowsAreThere
<1>7. PagesMove
  BY <1>2, PagesRest
<1>8. Grows
  BY <1>2, <1>5, <1>6 DEF Grows, github
<1>9. job' \in [Jobs -> Job] /\ \A k \in Jobs : JobOK(job[k])'
  BY <1>2, <1>4, <1>8, IdleIsJob, IdleIsOK, OvertakingKeeps
<1>10. IntentsOK' /\ spent' \in Spent
  BY <1>2, RowsAreThere, JobIsThere DEF IntentsOK
<1>11. /\ links' \subseteq Tenants \X Installs
       /\ \A l \in links' : installation'[l[2]] # "absent" /\ Proven(l[1], l[2])
  BY <1>2, <1>6, RowsAreThere
<1> QED
  BY <1>2, <1>5, <1>6, <1>7, <1>8, <1>9, <1>10, <1>11, RowsAreThere, RowsWritten

LEMMA CommitDeletedKeeps ==
  ASSUME LinkInv, NEW j \in Jobs, CommitDeleted(j)
  PROVE  LinkInv'
<1> DEFINE i == job[j].inst
           ts == {r[1] : r \in job[j].marked}
<1>1. /\ job[j] \in Job /\ i \in Installs /\ job[j].marked \subseteq Tenants \X Repos
      /\ \A r \in job[j].marked : repo[r[1]][r[2]].state # "none"
  BY JobIsThere DEF CommitDeleted, At, JobOK, Job
<1>2. /\ SoftDelete(job[j].marked)
      /\ installation' = [installation EXCEPT ![i] = "removed"]
      /\ Overtaking(j, i, ts, Idle)
      /\ UNCHANGED <<github, links, intent, begun, page, spent>>
  BY DEF CommitDeleted
<1>3. ts \in SUBSET Tenants
  BY <1>1
<1> HIDE DEF ts
<1>4. /\ repo' \in [Tenants -> [Repos -> Row]]
      /\ \A s \in Tenants, p \in Repos :
           /\ repo[s][p].state # "none" => repo'[s][p].state # "none"
           /\ repo'[s][p].state # "none" => Proven(s, repo'[s][p].inst)
  BY <1>1, <1>2, SoftDeleteIsProven
<1>5. /\ installation' \in [Installs -> {"absent", "live", "removed"}]
      /\ \A k \in Installs : installation[k] # "absent" => installation'[k] # "absent"
  BY <1>1, <1>2, RowsAreThere
<1>6. PagesMove
  BY <1>2, PagesRest
<1>7. Grows
  BY <1>2, <1>4, <1>5 DEF Grows, github
<1>8. job' \in [Jobs -> Job] /\ \A k \in Jobs : JobOK(job[k])'
  BY <1>2, <1>3, <1>7, IdleIsJob, IdleIsOK, OvertakingKeeps
<1>9. IntentsOK' /\ spent' \in Spent
  BY <1>2, RowsAreThere, JobIsThere DEF IntentsOK
<1>10. /\ links' \subseteq Tenants \X Installs
       /\ \A l \in links' : installation'[l[2]] # "absent" /\ Proven(l[1], l[2])
  BY <1>2, <1>5, RowsAreThere
<1> QED
  BY <1>2, <1>4, <1>5, <1>6, <1>7, <1>8, <1>9, <1>10, RowsAreThere, RowsWritten


\* Unlinking tells the other jobs of the workspace and the installation.
LEMMA CommitUnlinkKeeps ==
  ASSUME LinkInv, NEW j \in Jobs, CommitUnlink(j)
  PROVE  LinkInv'
<1> DEFINE i == job[j].inst
           t == job[j].tenant
           late(k) == job[k].overtaken \cup {t}
           gone(k) == job[k].gone \/ (job[k].op = "unlink" /\ job[k].tenant = t)
           told(k) == [job[k] EXCEPT !.overtaken = late(k), !.gone = gone(k)]
           new(k) == IF k = j THEN Idle ELSE IF job[k].inst # i THEN job[k] ELSE told(k)
<1>1. /\ job[j] \in Job /\ t \in Tenants
      /\ \A r \in job[j].marked : repo[r[1]][r[2]].state # "none"
  BY JobIsThere DEF JobOK, CommitUnlink, At
<1>2. /\ SoftDelete(job[j].marked)
      /\ links' \subseteq links
      /\ UNCHANGED <<github, installation, intent, begun, page, spent>>
  BY DEF CommitUnlink
<1>3. job' = [k \in Jobs |-> new(k)]
  BY Zenon DEF CommitUnlink
<1>4. /\ repo' \in [Tenants -> [Repos -> Row]]
      /\ \A s \in Tenants, p \in Repos :
           /\ repo[s][p].state # "none" => repo'[s][p].state # "none"
           /\ repo'[s][p].state # "none" => Proven(s, repo'[s][p].inst)
  BY <1>1, <1>2, SoftDeleteIsProven
<1>5. PagesMove
  BY <1>2, PagesRest
<1>6. Grows
  BY <1>2, <1>4 DEF Grows, github
<1>7. ASSUME NEW k \in Jobs PROVE new(k) \in Job /\ JobOK(new(k))
  <2>1. job[k] \in Job /\ JobOK(job[k])
    BY JobIsThere
  <2>2. late(k) \in SUBSET Tenants
    BY <1>1, <2>1 DEF Job
  <2>3. gone(k) \in BOOLEAN
    BY <2>1, Zenon DEF Job
  <2> HIDE DEF late, gone
  <2>4. told(k) \in Job /\ JobOK(told(k))
    BY <2>1, <2>2, <2>3, HistoryIsFree
  <2> HIDE DEF told
  <2> QED
    BY <2>1, <2>4, IdleIsJob, IdleIsOK
<1> HIDE DEF new
<1>8. job' \in [Jobs -> Job]
  BY <1>3, <1>7
<1>9. ASSUME NEW k \in Jobs PROVE JobOK(job[k])'
  <2>1. PICK r : r = job'[k]
    OBVIOUS
  <2>2. r \in Job /\ JobOK(r)
    BY <1>3, <1>7, <2>1
  <2>3. JobOK(r)'
    BY <1>6, <2>2, JobsStayOK
  <2> QED
    BY <2>1, <2>3 DEF JobOK
<1>10. IntentsOK' /\ spent' \in Spent
  BY <1>2, RowsAreThere, JobIsThere DEF IntentsOK
<1>11. /\ links' \subseteq Tenants \X Installs
       /\ \A l \in links' : installation'[l[2]] # "absent" /\ Proven(l[1], l[2])
  BY <1>2, RowsAreThere
<1> QED
  BY <1>2, <1>4, <1>5, <1>6, <1>8, <1>9, <1>10, <1>11, RowsAreThere, RowsWritten

-----------------------------------------------------------------------------
LEMMA JobStepKeeps ==
  ASSUME LinkInv, NEW j \in Jobs, JobStep(j)
  PROVE  LinkInv'
  BY CommitIntentKeeps, FetchKeeps, NoIntentOfSenderKeeps, PickIntentKeeps, ConsumeKeeps, AttachKeeps,
     InsertLinkKeeps, ListReposKeeps, EndingsKeep, CommitSyncKeeps, ReadTenantsKeeps, ApplyHookKeeps,
     MarkRowsKeeps, CommitUnlinkKeeps, CommitDeletedKeeps DEF JobStep

LEMMA PageStepKeeps ==
  ASSUME LinkInv, NEW u \in Users, PageStep(u)
  PROVE  LinkInv'
  BY ClaimRefusedKeeps, ClaimLinkedKeeps, BeginClaimKeeps DEF PageStep

LEMMA RequestStepKeeps ==
  ASSUME LinkInv, RequestStep
  PROVE  LinkInv'
  BY OpenPageKeeps, RemoveRepoKeeps, BeginMintKeeps, BeginUnlinkKeeps, BeginAddKeeps DEF RequestStep

LEMMA LinkNextKeeps == LinkInv /\ [Next]_vars => LinkInv'
<1> SUFFICES ASSUME LinkInv, [Next]_vars PROVE LinkInv'
  OBVIOUS
<1>1. CASE SystemStep
  BY <1>1, JobStepKeeps, PageStepKeeps, TakeHookKeeps DEF SystemStep, HookStep
<1>2. CASE RequestStep
  BY <1>2, RequestStepKeeps
<1>3. CASE GitHubStep
  BY <1>3, GitHubStepKeeps
<1>4. ASSUME NEW j \in Jobs, Fail(j) PROVE LinkInv'
  BY <1>4, EndingsKeep
<1>5. ASSUME NEW n \in Intents, ExpireIntent(n) PROVE LinkInv'
  BY <1>5, ExpireIntentKeeps
<1>6. CASE UNCHANGED vars
  <2>1. UNCHANGED <<github, rows, begun, job, page, spent>>
    BY <1>6 DEF vars
  <2>2. Grows
    BY <2>1 DEF Grows, github, rows
  <2>3. TypeOK' /\ IntentsOK' /\ HooksOK' /\ PagesOK' /\ LinksAreProven'
    BY <2>1 DEF LinkInv, TypeOK, IntentsOK, HooksOK, PagesOK, LinksAreProven, Proven, github, rows
  <2> QED
    BY <2>1, <2>2, <2>3, JobsRest DEF LinkInv
<1> QED
  BY <1>1, <1>2, <1>3, <1>4, <1>5, <1>6 DEF Next

\* The invariant, in every state requests, webhooks and pages can lead to.
THEOREM LinkInvariant == Spec => []LinkInv
<1> QED
  BY LinkInitially, LinkNextKeeps, PTL DEF Spec

\* Rows, jobs, pages and intents keep their types, and a link is of an installation that has a row.
THEOREM LinkTypeCorrect == Spec => []TypeOK
<1>1. LinkInv => TypeOK
  BY DEF LinkInv
<1> QED
  BY <1>1, LinkInvariant, PTL

\* A workspace never holds a link or a repository of an installation that its owner has not proved
\* control of, however claims, webhooks, adds, unlinks and failures interleave
\* (InstallationLinkService.claim, claim_by_sender, bind_installation).
THEOREM LinksStayProven == Spec => []LinksAreProven
<1>1. LinkInv => LinksAreProven
  BY DEF LinkInv
<1> QED
  BY <1>1, LinkInvariant, PTL

-----------------------------------------------------------------------------
\* No removed row is tracked again but by the commit of a bind or an add.
StickyStep ==
  \A t \in Tenants, p \in Repos : Resurrected(t, p) =>
    \E j \in Jobs : At(j, "sync") /\ job[j].tenant = t /\ job'[j].pc # "sync"

LEMMA SoftDeleteResurrectsNone ==
  ASSUME LinkInv, NEW S, SoftDelete(S), NEW t \in Tenants, NEW p \in Repos
  PROVE  ~Resurrected(t, p)
<1> DEFINE gone == [repo[t][p] EXCEPT !.state = "removed"]
<1>1. repo'[t][p] = gone \/ repo'[t][p] = repo[t][p]
  BY DEF SoftDelete
<1>2. gone.state = "removed"
  <2>1. repo[t][p] \in Row
    BY RowsAreThere
  <2> QED
    BY <2>1 DEF Row
<1> QED
  BY <1>1, <1>2 DEF Resurrected

\* The sync of a webhook leaves a removed row as it is, and any sync the rows of other workspaces.
LEMMA SyncResurrectsItsOwn ==
  ASSUME NEW ts, NEW i, NEW S, NEW b, SyncRepos(ts, i, S, b),
         NEW t \in Tenants, NEW p \in Repos, Resurrected(t, p)
  PROVE  t \in ts /\ ~b
<1>1. repo'[t][p] = IF t \in ts /\ p \in S THEN Synced(repo[t][p], i, b) ELSE repo[t][p]
  BY DEF SyncRepos
<1> QED
  BY <1>1 DEF Resurrected, Synced

LEMMA CommitSyncIsSticky ==
  ASSUME LinkInv, NEW j \in Jobs, CommitSync(j)
  PROVE  StickyStep
<1> SUFFICES ASSUME NEW t \in Tenants, NEW p \in Repos, Resurrected(t, p)
             PROVE  At(j, "sync") /\ job[j].tenant = t /\ job'[j].pc # "sync"
  BY DEF StickyStep
<1> DEFINE q == IF IsHook(j) THEN AfterBind(job[j]) ELSE Idle
<1>1. At(j, "sync") /\ SyncRepos({job[j].tenant}, job[j].inst, job[j].repos, FALSE)
      /\ Overtaking(j, job[j].inst, {job[j].tenant}, q)
  BY DEF CommitSync
<1>2. job[j].tenant = t
  <2> DEFINE ts == {job[j].tenant}
             i == job[j].inst
             S == job[j].repos
  <2>1. SyncRepos(ts, i, S, FALSE)
    BY <1>1
  <2> HIDE DEF ts, i, S
  <2>2. t \in ts
    BY <2>1, SyncResurrectsItsOwn
  <2> QED
    BY <2>2 DEF ts
<1>3. job'[j] = q
  BY <1>1 DEF Overtaking
<1>4. q.pc # "sync"
  BY IdleIsJob DEF AfterBind, Job
<1> QED
  BY <1>1, <1>2, <1>3, <1>4

LEMMA NextIsSticky ==
  ASSUME LinkInv, Next
  PROVE  StickyStep
<1>1. UNCHANGED repo => StickyStep
  BY DEF StickyStep, Resurrected
<1>2. (\A t \in Tenants, p \in Repos : ~Resurrected(t, p)) => StickyStep
  BY DEF StickyStep
<1>3. ASSUME NEW j \in Jobs, JobStep(j) PROVE StickyStep
  <2>1. CASE CommitSync(j)
    BY <2>1, CommitSyncIsSticky
  <2>2. CASE ApplyHook(j)
    BY <1>2, <2>2, SoftDeleteResurrectsNone, SyncResurrectsItsOwn DEF ApplyHook
  <2>3. CASE CommitUnlink(j) \/ CommitDeleted(j)
    BY <1>2, <2>3, SoftDeleteResurrectsNone DEF CommitUnlink, CommitDeleted
  <2>4. CASE ~(CommitSync(j) \/ ApplyHook(j) \/ CommitUnlink(j) \/ CommitDeleted(j))
    <3>1. UNCHANGED repo
      BY <1>3, <2>4 DEF JobStep, CommitIntent, FetchFails, FetchPending, FetchOwn, NoIntentOfSender,
           PickIntent, Consume, Attach, InsertLink, ListRepos, BindFails, SkipHook, ReadTenants,
           MarkRows, Deadlock, rows
    <3> QED
      BY <1>1, <3>1
  <2> QED
    BY <2>1, <2>2, <2>3, <2>4
<1>4. ASSUME NEW t \in Tenants, NEW p \in Repos, RemoveRepo(t, p) PROVE StickyStep
  BY <1>2, <1>4, SoftDeleteResurrectsNone DEF RemoveRepo
<1>5. CASE \E u \in Users : PageStep(u)
  BY <1>1, <1>5 DEF PageStep, ClaimRefused, ClaimLinked, BeginClaim, rows
<1>6. CASE HookStep
  BY <1>1, <1>6 DEF HookStep, TakeHook, rows
<1>7. CASE RequestStep
  BY <1>1, <1>4, <1>7 DEF RequestStep, OpenPage, BeginMint, BeginUnlink, BeginAdd, rows
<1>8. CASE GitHubStep
  BY <1>1, <1>8 DEF GitHubStep, Install, Uninstall, Grant, Revoke, Emit, rows
<1>9. CASE \E j \in Jobs : Fail(j)
  BY <1>1, <1>9 DEF Fail, rows
<1>10. CASE \E n \in Intents : ExpireIntent(n)
  BY <1>1, <1>10 DEF ExpireIntent
<1> QED
  BY <1>3, <1>5, <1>6, <1>7, <1>8, <1>9, <1>10 DEF Next, SystemStep

\* A repository that was removed is tracked again only by a bind or an add of its own workspace: no
\* webhook brings it back, whichever order they are applied in (sync_repos, respect_removed).
THEOREM RemovalsStaySticky == Spec => RemovalsAreSticky
<1>1. LinkInv /\ [Next]_vars => [StickyStep]_vars
  BY NextIsSticky
<1> QED
  BY <1>1, LinkInvariant, PTL DEF Spec, RemovalsAreSticky, StickyStep

-----------------------------------------------------------------------------
\* What a job has read of links and rows is still so, unless it was overtaken: the link it binds or
\* adds under, the links of the workspaces it applies a webhook to, and the rows it unlinks.
HistoryOK(q) ==
  /\ q.pc \in {"list", "sync"} /\ q.newLink = FALSE =>
       q.tenant \in q.overtaken \/ <<q.tenant, q.inst>> \in links
  /\ q.pc = "apply" => \A t \in q.tenants : t \in q.overtaken \/ <<t, q.inst>> \in links
  /\ q.pc = "drop" /\ q.op = "unlink" =>
       q.tenant \in q.overtaken \/ RowsOf({q.tenant}, q.inst, Repos) \subseteq q.marked

HistoryInv == LinkInv /\ \A j \in Jobs : HistoryOK(job[j])
Mindful == {"list", "sync", "apply", "drop"}

LEMMA HistoryRests ==
  ASSUME HistoryInv, NEW j \in Jobs, UNCHANGED <<links, repo>>,
         \A k \in Jobs \ {j} : job'[k] = job[k], HistoryOK(job[j])'
  PROVE  \A k \in Jobs : HistoryOK(job[k])'
  BY DEF HistoryInv, HistoryOK, RowsOf

LEMMA MindlessRest ==
  ASSUME HistoryInv, NEW j \in Jobs, UNCHANGED <<links, repo>>,
         NEW q, job' = [job EXCEPT ![j] = q], q.pc \notin Mindful
  PROVE  \A k \in Jobs : HistoryOK(job[k])'
<1>1. (\A k \in Jobs \ {j} : job'[k] = job[k]) /\ job'[j] = q
  BY JobIsThere DEF HistoryInv
<1>2. HistoryOK(job[j])'
  BY <1>1 DEF HistoryOK, Mindful
<1> QED
  BY <1>1, <1>2, HistoryRests

\* Steps that leave links and rows alone and take a job where it minds neither.
LEMMA MindlessSteps ==
  ASSUME HistoryInv, NEW j \in Jobs,
         \/ \E t \in Tenants : BeginMint(j, t)
         \/ \E t \in Tenants, i \in Installs : BeginUnlink(j, t, i)
         \/ \E u \in Users : BeginClaim(u, j)
         \/ \E h \in hooks : TakeHook(j, h)
  PROVE  links' = links /\ repo' = repo /\ \A k \in Jobs : HistoryOK(job[k])'
<1>1. ASSUME NEW t \in Tenants, BeginMint(j, t)
      PROVE  links' = links /\ repo' = repo /\ \A k \in Jobs : HistoryOK(job[k])'
  <2> DEFINE q == [Idle EXCEPT !.pc = "mint", !.op = "mint", !.user = Owner[t], !.tenant = t,
                               !.nonce = begun + 1, !.consumes = OpenOf(Owner[t])]
  <2>0. links' = links /\ repo' = repo
    BY <1>1 DEF BeginMint, rows
  <2>1. job' = [job EXCEPT ![j] = q]
    BY <1>1 DEF BeginMint, Become
  <2>2. q.pc = "mint"
    BY IdleIsJob DEF Job
  <2> HIDE DEF q
  <2>3. \A k \in Jobs : HistoryOK(job[k])'
    BY <2>0, <2>1, <2>2, MindlessRest DEF Mindful
  <2> QED
    BY <2>0, <2>3
<1>2. ASSUME NEW t \in Tenants, NEW i \in Installs, BeginUnlink(j, t, i)
      PROVE  links' = links /\ repo' = repo /\ \A k \in Jobs : HistoryOK(job[k])'
  <2> DEFINE q == [Idle EXCEPT !.pc = "mark", !.op = "unlink", !.tenant = t, !.inst = i]
  <2>0. links' = links /\ repo' = repo
    BY <1>2 DEF BeginUnlink, rows
  <2>1. job' = [job EXCEPT ![j] = q]
    BY <1>2 DEF BeginUnlink, Become
  <2>2. q.pc = "mark"
    BY IdleIsJob DEF Job
  <2> HIDE DEF q
  <2>3. \A k \in Jobs : HistoryOK(job[k])'
    BY <2>0, <2>1, <2>2, MindlessRest DEF Mindful
  <2> QED
    BY <2>0, <2>3
<1>3. ASSUME NEW u \in Users, BeginClaim(u, j)
      PROVE  links' = links /\ repo' = repo /\ \A k \in Jobs : HistoryOK(job[k])'
  <2> DEFINE n == page[u].nonce
             q == [Idle EXCEPT !.pc = "fetch", !.op = "claim", !.user = u, !.nonce = n,
                               !.tenant = intent[n].tenant, !.inst = page[u].inst, !.consumes = {n}]
  <2>0. links' = links /\ repo' = repo
    BY <1>3 DEF BeginClaim, rows
  <2>1. job' = [job EXCEPT ![j] = q]
    BY <1>3 DEF BeginClaim, Become
  <2>2. q.pc = "fetch"
    BY IdleIsJob DEF Job
  <2> HIDE DEF q
  <2>3. \A k \in Jobs : HistoryOK(job[k])'
    BY <2>0, <2>1, <2>2, MindlessRest DEF Mindful
  <2> QED
    BY <2>0, <2>3
<1>4. ASSUME NEW h \in hooks, TakeHook(j, h)
      PROVE  links' = links /\ repo' = repo /\ \A k \in Jobs : HistoryOK(job[k])'
  <2> DEFINE pc == IF h.action = "deleted" THEN "mark" ELSE "sender"
             w == h.action = "created"
             q == [Idle EXCEPT !.pc = pc, !.op = h.action, !.user = h.sender, !.inst = h.inst,
                               !.writes = w, !.payload = h.repos]
  <2>0. links' = links /\ repo' = repo
    BY <1>4 DEF TakeHook, rows
  <2>1. job' = [job EXCEPT ![j] = q]
    BY <1>4 DEF TakeHook, Become
  <2>2. q.pc = pc /\ pc \in {"mark", "sender"}
    BY IdleIsJob DEF Job
  <2> HIDE DEF q
  <2>3. \A k \in Jobs : HistoryOK(job[k])'
    BY <2>0, <2>1, <2>2, MindlessRest DEF Mindful
  <2> QED
    BY <2>0, <2>3
<1> QED
  BY <1>1, <1>2, <1>3, <1>4

LEMMA MindlessJobSteps ==
  ASSUME HistoryInv, NEW j \in Jobs,
         \/ CommitIntent(j) \/ FetchFails(j) \/ FetchPending(j) \/ FetchOwn(j) \/ NoIntentOfSender(j)
         \/ PickIntent(j) \/ Consume(j) \/ BindFails(j) \/ SkipHook(j) \/ Deadlock(j) \/ Fail(j)
  PROVE  \A k \in Jobs : HistoryOK(job[k])'
<1>1. UNCHANGED <<links, repo>>
  BY DEF CommitIntent, FetchFails, FetchPending, FetchOwn, NoIntentOfSender, PickIntent, Consume,
       BindFails, SkipHook, Deadlock, Fail, rows
<1>2. job \in [Jobs -> Job] /\ job[j] \in Job
  BY JobIsThere DEF HistoryInv
<1>3. CASE End(j)
  BY <1>1, <1>3, IdleIsJob, MindlessRest DEF End, Mindful
<1>4. ASSUME NEW pc, Go(j, pc), pc \notin Mindful PROVE \A k \in Jobs : HistoryOK(job[k])'
  <2> DEFINE q == [job[j] EXCEPT !.pc = pc]
  <2>1. job' = [job EXCEPT ![j] = q]
    BY <1>2, <1>4 DEF Go
  <2>2. q.pc = pc
    BY <1>2 DEF Job
  <2> HIDE DEF q
  <2> QED
    BY <1>1, <1>4, <2>1, <2>2, MindlessRest
<1>5. CASE PickIntent(j)
  <2> DEFINE u == job[j].user
             n == Max(LiveOf(u))
             q == [job[j] EXCEPT !.pc = "consume", !.nonce = n, !.tenant = intent[n].tenant,
                                 !.consumes = OpenOf(u)]
  <2>1. job' = [job EXCEPT ![j] = q]
    BY <1>2, <1>5 DEF PickIntent
  <2> HIDE DEF n
  <2>2. q.pc = "consume"
    BY <1>2 DEF Job
  <2> HIDE DEF q
  <2> QED
    BY <1>1, <2>1, <2>2, MindlessRest DEF Mindful
<1>6. CASE Consume(j)
  <2>1. PICK S : job' = [job EXCEPT ![j].pc = "attach", ![j].consumes = S]
    BY <1>6 DEF Consume
  <2> DEFINE q == [job[j] EXCEPT !.pc = "attach", !.consumes = S]
  <2>2. job' = [job EXCEPT ![j] = q]
    BY <1>2, <2>1
  <2>3. q.pc = "attach"
    BY <1>2 DEF Job
  <2> HIDE DEF q
  <2> QED
    BY <1>1, <2>2, <2>3, MindlessRest DEF Mindful
<1> QED
  BY <1>3, <1>4, <1>5, <1>6 DEF CommitIntent, FetchFails, FetchPending, FetchOwn, NoIntentOfSender,
       BindFails, SkipHook, Deadlock, Fail, Mindful

\* Steps that read links or rows.
LEMMA ReadingSteps ==
  ASSUME HistoryInv, NEW j \in Jobs,
         Attach(j) \/ InsertLink(j) \/ ListRepos(j) \/ ReadTenants(j) \/ MarkRows(j)
  PROVE  \A k \in Jobs : HistoryOK(job[k])'
<1>1. UNCHANGED <<links, repo>>
  BY DEF Attach, InsertLink, ListRepos, ReadTenants, MarkRows, rows
<1>2. job \in [Jobs -> Job] /\ job[j] \in Job
  BY JobIsThere DEF HistoryInv
<1>3. \A k \in Jobs \ {j} : job'[k] = job[k]
  BY <1>2 DEF Attach, InsertLink, ListRepos, ReadTenants, MarkRows
<1>4. HistoryOK(job[j])
  BY DEF HistoryInv
<1>5. CASE Attach(j)
  <2> DEFINE linked == <<job[j].tenant, job[j].inst>> \in links
             pc == IF linked THEN "list" ELSE "link"
             w == job[j].writes \/ installation[job[j].inst] # "live"
             q == [job[j] EXCEPT !.writes = w, !.pc = pc]
  <2>1. job' = [job EXCEPT ![j].writes = w, ![j].pc = pc]
    BY <1>5, Zenon DEF Attach
  <2> HIDE DEF w
  <2>2. job'[j] = q
    BY <1>2, <2>1
  <2>3. q.pc = pc /\ q.tenant = job[j].tenant /\ q.inst = job[j].inst
    BY <1>2 DEF Job
  <2> HIDE DEF q
  <2>4. HistoryOK(job[j])'
    BY <1>1, <2>2, <2>3 DEF HistoryOK
  <2> QED
    BY <1>1, <1>3, <2>4, HistoryRests
<1>6. CASE InsertLink(j)
  <2> DEFINE q == [job[j] EXCEPT !.pc = "list", !.newLink = TRUE]
  <2>1. job'[j] = q
    BY <1>2, <1>6 DEF InsertLink
  <2>2. q.pc = "list" /\ q.newLink = TRUE
    BY <1>2 DEF Job
  <2> HIDE DEF q
  <2>3. HistoryOK(job[j])'
    BY <2>1, <2>2 DEF HistoryOK
  <2> QED
    BY <1>1, <1>3, <2>3, HistoryRests
<1>7. CASE ListRepos(j)
  <2> DEFINE S == Listed(j)
             q == [job[j] EXCEPT !.pc = "sync", !.repos = S]
  <2>1. job'[j] = q /\ job[j].pc = "list"
    BY <1>2, <1>7 DEF ListRepos, At
  <2> HIDE DEF S
  <2>2. /\ q.pc = "sync" /\ q.newLink = job[j].newLink /\ q.tenant = job[j].tenant
        /\ q.inst = job[j].inst /\ q.overtaken = job[j].overtaken
    BY <1>2 DEF Job
  <2> HIDE DEF q
  <2>3. HistoryOK(job[j])'
    BY <1>1, <1>4, <2>1, <2>2 DEF HistoryOK
  <2> QED
    BY <1>1, <1>3, <2>3, HistoryRests
<1>8. CASE ReadTenants(j)
  <2> DEFINE ts == IF job[j].op = "removed" THEN {} ELSE LinkedTenants(job[j].inst)
             q == [job[j] EXCEPT !.pc = "apply", !.tenants = ts]
  <2>1. job'[j] = q
    BY <1>2, <1>8 DEF ReadTenants
  <2>2. \A t \in ts : <<t, job[j].inst>> \in links
    BY DEF LinkedTenants
  <2> HIDE DEF ts
  <2>3. q.pc = "apply" /\ q.tenants = ts /\ q.inst = job[j].inst
    BY <1>2 DEF Job
  <2> HIDE DEF q
  <2>4. HistoryOK(job[j])'
    BY <1>1, <2>1, <2>2, <2>3 DEF HistoryOK
  <2> QED
    BY <1>1, <1>3, <2>4, HistoryRests
<1>9. CASE MarkRows(j)
  <2> DEFINE S == RowsOf(IF job[j].op = "unlink" THEN {job[j].tenant} ELSE Tenants, job[j].inst, Repos)
             q == [job[j] EXCEPT !.pc = "drop", !.marked = S]
  <2>1. job'[j] = q
    BY <1>2, <1>9 DEF MarkRows
  <2>2. job[j].op = "unlink" => S = RowsOf({job[j].tenant}, job[j].inst, Repos)
    OBVIOUS
  <2> HIDE DEF S
  <2>3. /\ q.pc = "drop" /\ q.marked = S /\ q.op = job[j].op /\ q.tenant = job[j].tenant
        /\ q.inst = job[j].inst
    BY <1>2 DEF Job
  <2> HIDE DEF q
  <2>4. HistoryOK(job[j])'
    BY <1>1, <2>1, <2>2, <2>3 DEF HistoryOK, RowsOf
  <2> QED
    BY <1>1, <1>3, <2>4, HistoryRests
<1> QED
  BY <1>5, <1>6, <1>7, <1>8, <1>9

LEMMA BeginAddReads ==
  ASSUME HistoryInv, NEW j \in Jobs, NEW t, NEW i, NEW S, BeginAdd(j, t, i, S)
  PROVE  UNCHANGED <<links, repo>> /\ \A k \in Jobs : HistoryOK(job[k])'
<1> DEFINE q == [Idle EXCEPT !.pc = "list", !.op = "add", !.tenant = t, !.inst = i, !.repos = S]
<1>1. job \in [Jobs -> Job]
  BY JobIsThere DEF HistoryInv
<1>2. job' = [job EXCEPT ![j] = q] /\ UNCHANGED <<links, repo>> /\ <<t, i>> \in links
  BY DEF BeginAdd, Become, rows
<1>3. q.pc = "list" /\ q.tenant = t /\ q.inst = i
  BY IdleIsJob DEF Job
<1> HIDE DEF q
<1>4. HistoryOK(job[j])' /\ \A k \in Jobs \ {j} : job'[k] = job[k]
  BY <1>1, <1>2, <1>3 DEF HistoryOK
<1> QED
  BY <1>2, <1>4, HistoryRests

\* A commit tells every other job of the installation which workspaces it has changed.
Told(j, i, ts) ==
  \A k \in Jobs \ {j} :
    /\ job'[k].pc = job[k].pc /\ job'[k].op = job[k].op /\ job'[k].tenant = job[k].tenant
    /\ job'[k].inst = job[k].inst /\ job'[k].newLink = job[k].newLink
    /\ job'[k].tenants = job[k].tenants /\ job'[k].marked = job[k].marked
    /\ job[k].overtaken \subseteq job'[k].overtaken
    /\ job[k].inst = i => ts \subseteq job'[k].overtaken

LEMMA OvertakingTells ==
  ASSUME LinkInv, NEW j \in Jobs, NEW i, NEW ts, NEW q, Overtaking(j, i, ts, q)
  PROVE  Told(j, i, ts) /\ job'[j] = q
<1>1. job'[j] = q
  BY DEF Overtaking
<1> SUFFICES ASSUME NEW k \in Jobs \ {j}
             PROVE  /\ job'[k].pc = job[k].pc /\ job'[k].op = job[k].op /\ job'[k].tenant = job[k].tenant
                    /\ job'[k].inst = job[k].inst /\ job'[k].newLink = job[k].newLink
                    /\ job'[k].tenants = job[k].tenants /\ job'[k].marked = job[k].marked
                    /\ job[k].overtaken \subseteq job'[k].overtaken
                    /\ job[k].inst = i => ts \subseteq job'[k].overtaken
  BY <1>1 DEF Told
<1> DEFINE o == job[k].overtaken \cup ts
           late == [job[k] EXCEPT !.overtaken = o]
<1>2. job'[k] = IF job[k].inst = i THEN late ELSE job[k]
  BY DEF Overtaking
<1>3. job[k].overtaken \subseteq o /\ ts \subseteq o
  OBVIOUS
<1> HIDE DEF o
<1>4. job[k] \in Job
  BY JobIsThere
<1>5. /\ late.pc = job[k].pc /\ late.op = job[k].op /\ late.tenant = job[k].tenant
      /\ late.inst = job[k].inst /\ late.newLink = job[k].newLink
      /\ late.tenants = job[k].tenants /\ late.marked = job[k].marked /\ late.overtaken = o
  BY <1>4 DEF Job
<1> HIDE DEF late
<1> QED
  BY <1>2, <1>3, <1>5

LEMMA UnlinkingTells ==
  ASSUME LinkInv, NEW j \in Jobs, CommitUnlink(j)
  PROVE  Told(j, job[j].inst, {job[j].tenant}) /\ job'[j] = Idle
<1> DEFINE i == job[j].inst
           t == job[j].tenant
           late(k) == job[k].overtaken \cup {t}
           gone(k) == job[k].gone \/ (job[k].op = "unlink" /\ job[k].tenant = t)
           told(k) == [job[k] EXCEPT !.overtaken = late(k), !.gone = gone(k)]
           new(k) == IF k = j THEN Idle ELSE IF job[k].inst # i THEN job[k] ELSE told(k)
<1>1. job' = [k \in Jobs |-> new(k)]
  BY Zenon DEF CommitUnlink
<1>2. ASSUME NEW k \in Jobs \ {j}
      PROVE  /\ new(k).pc = job[k].pc /\ new(k).op = job[k].op /\ new(k).tenant = job[k].tenant
             /\ new(k).inst = job[k].inst /\ new(k).newLink = job[k].newLink
             /\ new(k).tenants = job[k].tenants /\ new(k).marked = job[k].marked
             /\ job[k].overtaken \subseteq new(k).overtaken
             /\ job[k].inst = i => {t} \subseteq new(k).overtaken
  <2>1. job[k] \in Job
    BY JobIsThere
  <2>2. job[k].overtaken \subseteq late(k) /\ {t} \subseteq late(k)
    OBVIOUS
  <2> HIDE DEF late, gone, t, i
  <2>3. /\ told(k).pc = job[k].pc /\ told(k).op = job[k].op /\ told(k).tenant = job[k].tenant
        /\ told(k).inst = job[k].inst /\ told(k).newLink = job[k].newLink
        /\ told(k).tenants = job[k].tenants /\ told(k).marked = job[k].marked
        /\ told(k).overtaken = late(k)
    BY <2>1 DEF Job
  <2> HIDE DEF told
  <2> QED
    BY <2>2, <2>3
<1>3. new(j) = Idle
  OBVIOUS
<1> HIDE DEF new
<1> QED
  BY <1>1, <1>2, <1>3 DEF Told

\* A row is made only for the installation and the workspaces of a commit, and keeps its installation.
RowsOnlyOf(i, ts) ==
  \A t \in Tenants, p \in Repos :
    repo'[t][p].state # "none" =>
      \/ repo[t][p].state # "none" /\ repo'[t][p].inst = repo[t][p].inst
      \/ t \in ts /\ repo'[t][p].inst = i

LEMMA HistoryWritten ==
  ASSUME HistoryInv, NEW j \in Jobs, NEW i, NEW ts, Told(j, i, ts), job'[j].pc \notin Mindful,
         \A l \in links : l \in links' \/ (l[2] = i /\ l[1] \in ts), RowsOnlyOf(i, ts)
  PROVE  \A k \in Jobs : HistoryOK(job[k])'
<1>1. HistoryOK(job[j])'
  BY DEF HistoryOK, Mindful
<1>2. ASSUME NEW k \in Jobs \ {j} PROVE HistoryOK(job[k])'
  <2> DEFINE q == job[k]
  <2>1. q \in Job /\ HistoryOK(q)
    BY JobIsThere DEF HistoryInv
  <2>2. PICK r : r = job'[k]
    OBVIOUS
  <2>3. /\ r.pc = q.pc /\ r.op = q.op /\ r.tenant = q.tenant /\ r.inst = q.inst
        /\ r.newLink = q.newLink /\ r.tenants = q.tenants /\ r.marked = q.marked
        /\ q.overtaken \subseteq r.overtaken /\ (q.inst = i => ts \subseteq r.overtaken)
    BY <2>2, Zenon DEF Told
  <2> HIDE DEF q
  <2>4. \A t : <<t, q.inst>> \in links => <<t, q.inst>> \in links' \/ t \in r.overtaken
    BY <2>3
  <2>5. ASSUME r.tenant \notin r.overtaken, r.pc = "drop", r.op = "unlink"
        PROVE  RowsOf({r.tenant}, r.inst, Repos)' \subseteq r.marked
    <3>1. r.tenant \in Tenants
      BY <2>1, <2>3, <2>5, JobIsThere DEF HistoryInv, JobOK, q
    <3>2. RowsOf({r.tenant}, r.inst, Repos) \subseteq r.marked
      BY <2>1, <2>3, <2>5 DEF HistoryOK
    <3>3. r.inst = i => r.tenant \notin ts
      BY <2>3, <2>5
    <3>4. ASSUME NEW p \in Repos, repo'[r.tenant][p].state # "none", repo'[r.tenant][p].inst = r.inst
          PROVE  repo[r.tenant][p].state # "none" /\ repo[r.tenant][p].inst = r.inst
      BY <3>1, <3>3, <3>4 DEF RowsOnlyOf
    <3> QED
      BY <3>2, <3>4 DEF RowsOf
  <2>6. r.pc \in {"list", "sync"} /\ r.newLink = FALSE =>
          r.tenant \in r.overtaken \/ <<r.tenant, r.inst>> \in links'
    BY <2>1, <2>3, <2>4 DEF HistoryOK
  <2>7. r.pc = "apply" => \A t \in r.tenants : t \in r.overtaken \/ <<t, r.inst>> \in links'
    BY <2>1, <2>3, <2>4 DEF HistoryOK
  <2> QED
    BY <2>2, <2>5, <2>6, <2>7 DEF HistoryOK
<1> QED
  BY <1>1, <1>2

RowSynced(t, p, ts, i, b) ==
  \/ repo'[t][p] = repo[t][p]
  \/ t \in ts /\ repo[t][p].state = "none" /\ repo'[t][p].inst = i
  \/ repo[t][p].state = "tracked" /\ repo'[t][p].inst = repo[t][p].inst
  \/ t \in ts /\ ~b /\ repo[t][p].state = "removed" /\ repo'[t][p].inst = repo[t][p].inst

LEMMA SyncedRow ==
  ASSUME LinkInv, NEW ts, NEW i, NEW S, NEW b \in BOOLEAN, SyncRepos(ts, i, S, b),
         NEW t \in Tenants, NEW p \in Repos
  PROVE  RowSynced(t, p, ts, i, b)
<1> DEFINE r == repo[t][p]
           kept == [r EXCEPT !.state = "tracked"]
           made == [inst |-> i, state |-> "tracked"]
<1>1. r \in Row
  BY RowsAreThere
<1>2. kept.inst = r.inst /\ made.inst = i
  BY <1>1 DEF Row
<1>3. repo'[t][p] = IF t \in ts /\ p \in S THEN Synced(r, i, b) ELSE r
  BY DEF SyncRepos
<1>4. Synced(r, i, b) = IF r.state = "none" THEN made
                        ELSE IF b /\ r.state = "removed" THEN r ELSE kept
  BY DEF Synced
<1>5. r.state \in {"none", "tracked", "removed"}
  BY <1>1 DEF Row
<1> HIDE DEF r, kept, made
<1> QED
  BY <1>2, <1>3, <1>4, <1>5 DEF r, RowSynced

LEMMA SoftDeletedRow ==
  ASSUME LinkInv, NEW S, SoftDelete(S), NEW t \in Tenants, NEW p \in Repos
  PROVE  /\ <<t, p>> \in S => repo'[t][p].state = "removed" /\ repo'[t][p].inst = repo[t][p].inst
         /\ <<t, p>> \notin S => repo'[t][p] = repo[t][p]
<1> DEFINE gone == [repo[t][p] EXCEPT !.state = "removed"]
<1>1. repo'[t][p] = IF <<t, p>> \in S THEN gone ELSE repo[t][p]
  BY DEF SoftDelete
<1>2. repo[t][p] \in Row
  BY RowsAreThere
<1>3. gone.state = "removed" /\ gone.inst = repo[t][p].inst
  BY <1>2 DEF Row
<1> HIDE DEF gone
<1> QED
  BY <1>1, <1>3

\* The commits, and what an orphan that is new after a commit shows.
OrphanStep ==
  \A t \in Tenants, p \in Repos : Orphan(t, p)' /\ ~Orphan(t, p) =>
    \E j \in Jobs : /\ job'[j].pc # job[j].pc
                    /\ \/ t \in job[j].overtaken
                       \/ repo[t][p].state = "removed" /\ repo[t][p].inst # job[j].inst

LEMMA CommitSyncMinds ==
  ASSUME HistoryInv, NEW j \in Jobs, CommitSync(j)
  PROVE  (\A k \in Jobs : HistoryOK(job[k])') /\ OrphanStep
<1> DEFINE t == job[j].tenant
           i == job[j].inst
           ts == {t}
           q == IF IsHook(j) THEN AfterBind(job[j]) ELSE Idle
<1>1. LinkInv /\ job[j].newLink \in BOOLEAN
  BY JobIsThere DEF HistoryInv, Job
<1>2. At(j, "sync") /\ SyncRepos(ts, i, job[j].repos, FALSE) /\ Overtaking(j, i, ts, q)
      /\ links' = IF job[j].newLink THEN links \cup {<<t, i>>} ELSE links
  BY DEF CommitSync
<1>3. q.pc \in {"tenants", "idle"}
  BY IdleIsJob DEF AfterBind, Job
<1>4. t \in job[j].overtaken \/ <<t, i>> \in links'
  BY <1>1, <1>2 DEF HistoryInv, HistoryOK, At
<1> HIDE DEF q
<1>5. Told(j, i, ts) /\ job'[j] = q
  BY <1>1, <1>2, OvertakingTells
<1>6. \A s \in Tenants, p \in Repos :
        \/ repo'[s][p] = repo[s][p]
        \/ s \in ts /\ repo[s][p].state = "none" /\ repo'[s][p].inst = i
        \/ repo[s][p].state = "tracked" /\ repo'[s][p].inst = repo[s][p].inst
        \/ s \in ts /\ repo[s][p].state = "removed" /\ repo'[s][p].inst = repo[s][p].inst
  <2> DEFINE S == job[j].repos
  <2>1. SyncRepos(ts, i, S, FALSE)
    BY <1>2
  <2> HIDE DEF ts, i, S
  <2>2. \A s \in Tenants, p \in Repos : RowSynced(s, p, ts, i, FALSE)
    BY <1>1, <2>1, SyncedRow
  <2> QED
    BY <2>2 DEF RowSynced
<1>7. RowsOnlyOf(i, ts)
  BY <1>6 DEF RowsOnlyOf
<1>8. \A l \in links : l \in links'
  BY <1>2
<1>9. \A k \in Jobs : HistoryOK(job[k])'
  BY <1>3, <1>5, <1>7, <1>8, HistoryWritten DEF Mindful
<1>10. job'[j].pc # job[j].pc
  BY <1>2, <1>3, <1>5 DEF At
<1>11. ASSUME NEW s \in Tenants, NEW p \in Repos, Orphan(s, p)', ~Orphan(s, p)
       PROVE  s \in job[j].overtaken \/ (repo[s][p].state = "removed" /\ repo[s][p].inst # i)
  BY <1>4, <1>6, <1>8, <1>11 DEF Orphan
<1> QED
  BY <1>9, <1>10, <1>11 DEF OrphanStep

LEMMA ApplyHookMinds ==
  ASSUME HistoryInv, NEW j \in Jobs, ApplyHook(j)
  PROVE  (\A k \in Jobs : HistoryOK(job[k])') /\ OrphanStep
<1> DEFINE i == job[j].inst
           T == job[j].tenants
           P == job[j].payload
           S == RowsOf(Tenants, i, P)
           ts == IF job[j].op = "removed" THEN {r[1] : r \in S} ELSE T
<1>1. LinkInv /\ At(j, "apply") /\ UNCHANGED links /\ Overtaking(j, i, ts, Idle)
  BY DEF ApplyHook, HistoryInv
<1>2. \/ SoftDelete(S)
      \/ SyncRepos(T, i, P, TRUE) /\ ts = T
  BY DEF ApplyHook
<1>3. \A t \in T : t \in job[j].overtaken \/ <<t, i>> \in links
  BY <1>1 DEF HistoryInv, HistoryOK, At
<1> HIDE DEF i, T, P, S, ts
<1>4. Told(j, i, ts) /\ job'[j] = Idle
  BY <1>1, OvertakingTells
<1>5. \A s \in Tenants, p \in Repos :
        \/ repo'[s][p] = repo[s][p]
        \/ s \in ts /\ s \in T /\ repo[s][p].state = "none" /\ repo'[s][p].inst = i
        \/ repo[s][p].state = "tracked" /\ repo'[s][p].inst = repo[s][p].inst
        \/ repo[s][p].state # "none" /\ repo'[s][p].state = "removed" /\ repo'[s][p].inst = repo[s][p].inst
  <2>1. CASE SoftDelete(S)
    <3>1. \A s \in Tenants, p \in Repos : <<s, p>> \in S => repo[s][p].state # "none"
      BY DEF S, RowsOf
    <3> QED
      BY <1>1, <2>1, <3>1, SoftDeletedRow
  <2>2. CASE SyncRepos(T, i, P, TRUE) /\ ts = T
    <3>1. \A s \in Tenants, p \in Repos : RowSynced(s, p, T, i, TRUE)
      BY <1>1, <2>2, SyncedRow
    <3> QED
      BY <2>2, <3>1 DEF RowSynced
  <2> QED
    BY <1>2, <2>1, <2>2
<1>6. RowsOnlyOf(i, ts)
  BY <1>5 DEF RowsOnlyOf
<1>7. \A k \in Jobs : HistoryOK(job[k])'
  BY <1>1, <1>4, <1>6, IdleIsJob, HistoryWritten DEF Mindful
<1>8. job'[j].pc # job[j].pc
  BY <1>1, <1>4, IdleIsJob DEF At
<1>9. ASSUME NEW s \in Tenants, NEW p \in Repos, Orphan(s, p)', ~Orphan(s, p)
      PROVE  s \in job[j].overtaken
  BY <1>1, <1>3, <1>5, <1>9 DEF Orphan
<1> QED
  BY <1>7, <1>8, <1>9 DEF OrphanStep

LEMMA CommitDeletedMinds ==
  ASSUME HistoryInv, NEW j \in Jobs, CommitDeleted(j)
  PROVE  (\A k \in Jobs : HistoryOK(job[k])') /\ OrphanStep
<1> DEFINE i == job[j].inst
           S == job[j].marked
           ts == {r[1] : r \in S}
<1>1. LinkInv /\ SoftDelete(S) /\ UNCHANGED links /\ Overtaking(j, i, ts, Idle)
  BY DEF CommitDeleted, HistoryInv
<1>2. \A s \in Tenants, p \in Repos : <<s, p>> \in S => repo[s][p].state # "none"
  BY <1>1, JobIsThere DEF JobOK
<1> HIDE DEF i, S, ts
<1>3. Told(j, i, ts) /\ job'[j] = Idle
  BY <1>1, OvertakingTells
<1>4. RowsOnlyOf(i, ts)
  BY <1>1, <1>2, SoftDeletedRow DEF RowsOnlyOf
<1>5. \A k \in Jobs : HistoryOK(job[k])'
  BY <1>1, <1>3, <1>4, IdleIsJob, HistoryWritten DEF Mindful
<1>6. OrphanStep
  BY <1>1, SoftDeletedRow DEF OrphanStep, Orphan
<1> QED
  BY <1>5, <1>6

\* The rows a workspace keeps of an installation it unlinks were written after they were marked.
LEMMA CommitUnlinkMinds ==
  ASSUME HistoryInv, NEW j \in Jobs, CommitUnlink(j)
  PROVE  (\A k \in Jobs : HistoryOK(job[k])') /\ OrphanStep
<1> DEFINE i == job[j].inst
           t == job[j].tenant
           S == job[j].marked
           ts == {t}
<1>1. LinkInv /\ At(j, "drop") /\ SoftDelete(S) /\ \A l \in links : l \in links' \/ l = <<t, i>>
  <2>1. /\ LinkInv /\ At(j, "drop") /\ SoftDelete(S)
        /\ links' = IF job[j].gone THEN links ELSE links \ {<<t, i>>}
    BY Zenon DEF CommitUnlink, HistoryInv
  <2> QED
    BY <2>1
<1>2. \A s \in Tenants, p \in Repos : <<s, p>> \in S => repo[s][p].state # "none"
  BY <1>1, JobIsThere DEF JobOK
<1>3. t \in job[j].overtaken \/ RowsOf({t}, i, Repos) \subseteq S
  <2>1. job[j].pc = "drop" /\ job[j].op = "unlink" /\ HistoryOK(job[j])
    BY Zenon DEF CommitUnlink, At, HistoryInv
  <2> QED
    BY <2>1 DEF HistoryOK
<1>4. Told(j, i, ts) /\ job'[j] = Idle
  BY <1>1, UnlinkingTells, Zenon
<1>5. \A l \in links : l \in links' \/ (l[2] = i /\ l[1] \in ts)
  BY <1>1
<1> HIDE DEF i, t, S, ts
<1>6. RowsOnlyOf(i, ts)
  BY <1>1, <1>2, SoftDeletedRow DEF RowsOnlyOf
<1>7. \A k \in Jobs : HistoryOK(job[k])'
  BY <1>4, <1>5, <1>6, IdleIsJob, HistoryWritten DEF Mindful
<1>8. job'[j].pc # job[j].pc
  BY <1>1, <1>4, IdleIsJob DEF At
<1>9. ASSUME NEW s \in Tenants, NEW p \in Repos, Orphan(s, p)', ~Orphan(s, p)
      PROVE  s \in job[j].overtaken
  <2>1. <<s, p>> \notin S /\ repo'[s][p] = repo[s][p] /\ repo[s][p].state = "tracked"
    BY <1>1, <1>9, SoftDeletedRow DEF Orphan
  <2>2. s = t /\ repo[s][p].inst = i
    BY <1>1, <1>9, <2>1 DEF Orphan
  <2>3. <<s, p>> \in RowsOf({t}, i, Repos)
    BY <2>1, <2>2 DEF RowsOf
  <2> QED
    BY <1>3, <2>1, <2>2, <2>3
<1> QED
  BY <1>7, <1>8, <1>9 DEF OrphanStep

LEMMA RemoveRepoMinds ==
  ASSUME HistoryInv, NEW t \in Tenants, NEW p \in Repos, RemoveRepo(t, p)
  PROVE  (\A k \in Jobs : HistoryOK(job[k])') /\ OrphanStep
<1>1. LinkInv /\ SoftDelete({<<t, p>>}) /\ repo[t][p].state # "none" /\ UNCHANGED <<links, job>>
  BY DEF RemoveRepo, HistoryInv
<1>2. ASSUME NEW s \in Tenants, NEW r \in Repos
      PROVE  \/ repo'[s][r] = repo[s][r]
             \/ /\ repo[s][r].state # "none"
                /\ repo'[s][r].state = "removed" /\ repo'[s][r].inst = repo[s][r].inst
  <2> DEFINE S == {<<t, p>>}
  <2>1. SoftDelete(S) /\ (<<s, r>> \in S => repo[s][r].state # "none")
    BY <1>1
  <2> HIDE DEF S
  <2> QED
    BY <1>1, <2>1, SoftDeletedRow
<1>3. ASSUME NEW k \in Jobs PROVE HistoryOK(job[k])'
  <2>0. PICK q : q = job[k]
    OBVIOUS
  <2>1. q \in Job /\ HistoryOK(q) /\ JobOK(q) /\ job'[k] = q
    BY <1>1, <2>0, JobIsThere DEF HistoryInv
  <2>2. ASSUME q.pc = "drop", q.op = "unlink"
        PROVE  RowsOf({q.tenant}, q.inst, Repos)' \subseteq RowsOf({q.tenant}, q.inst, Repos)
    <3>1. q.tenant \in Tenants
      BY <2>1, <2>2 DEF JobOK
    <3>2. ASSUME NEW r \in Repos, repo'[q.tenant][r].state # "none", repo'[q.tenant][r].inst = q.inst
          PROVE  repo[q.tenant][r].state # "none" /\ repo[q.tenant][r].inst = q.inst
      BY <1>2, <3>1, <3>2
    <3> QED
      BY <3>2 DEF RowsOf
  <2> QED
    BY <1>1, <2>1, <2>2 DEF HistoryOK
<1>4. OrphanStep
  BY <1>1, <1>2 DEF OrphanStep, Orphan
<1> QED
  BY <1>3, <1>4

\* Who leaves rows and links alone makes no orphan; who leaves jobs alone too, nothing to mind.
LEMMA RestMinds ==
  ASSUME HistoryInv, UNCHANGED <<links, repo>>
  PROVE  OrphanStep /\ (UNCHANGED job => \A k \in Jobs : HistoryOK(job[k])')
  BY DEF HistoryInv, HistoryOK, RowsOf, OrphanStep, Orphan

LEMMA NextMinds ==
  ASSUME HistoryInv, Next
  PROVE  (\A k \in Jobs : HistoryOK(job[k])') /\ OrphanStep
<1> DEFINE Minded == (\A k \in Jobs : HistoryOK(job[k])') /\ OrphanStep
<1>1. ASSUME NEW j \in Jobs, JobStep(j) PROVE Minded
  <2>1. CASE CommitSync(j)
    BY <2>1, CommitSyncMinds
  <2>2. CASE ApplyHook(j)
    BY <2>2, ApplyHookMinds
  <2>3. CASE CommitUnlink(j)
    BY <2>3, CommitUnlinkMinds
  <2>4. CASE CommitDeleted(j)
    BY <2>4, CommitDeletedMinds
  <2>5. CASE \/ CommitIntent(j) \/ FetchFails(j) \/ FetchPending(j) \/ FetchOwn(j) \/ NoIntentOfSender(j)
             \/ PickIntent(j) \/ Consume(j) \/ BindFails(j) \/ SkipHook(j) \/ Deadlock(j)
    <3>1. UNCHANGED <<links, repo>>
      BY <2>5 DEF CommitIntent, FetchFails, FetchPending, FetchOwn, NoIntentOfSender, PickIntent,
           Consume, BindFails, SkipHook, Deadlock, rows
    <3>2. \A k \in Jobs : HistoryOK(job[k])'
      BY <2>5, MindlessJobSteps
    <3> QED
      BY <3>1, <3>2, RestMinds
  <2>6. CASE Attach(j) \/ InsertLink(j) \/ ListRepos(j) \/ ReadTenants(j) \/ MarkRows(j)
    <3>1. UNCHANGED <<links, repo>>
      BY <2>6 DEF Attach, InsertLink, ListRepos, ReadTenants, MarkRows, rows
    <3>2. \A k \in Jobs : HistoryOK(job[k])'
      BY <2>6, ReadingSteps
    <3> QED
      BY <3>1, <3>2, RestMinds
  <2> HIDE DEF Minded
  <2> QED
    BY <1>1, <2>1, <2>2, <2>3, <2>4, <2>5, <2>6 DEF JobStep
<1>2. ASSUME NEW j \in Jobs
      PROVE  /\ \A t \in Tenants : BeginMint(j, t) => Minded
             /\ \A t \in Tenants, i \in Installs : BeginUnlink(j, t, i) => Minded
             /\ \A u \in Users : BeginClaim(u, j) => Minded
             /\ \A h \in hooks : TakeHook(j, h) => Minded
  BY MindlessSteps, RestMinds
<1>3. ASSUME NEW j \in Jobs, NEW t \in Tenants, NEW i \in Installs, NEW S \in SUBSET Repos,
             BeginAdd(j, t, i, S)
      PROVE  Minded
  BY <1>3, BeginAddReads, RestMinds
<1>4. ASSUME NEW j \in Jobs, Fail(j) PROVE Minded
  BY <1>4, MindlessJobSteps, RestMinds DEF Fail, rows
<1>5. ASSUME NEW t \in Tenants, NEW p \in Repos, RemoveRepo(t, p) PROVE Minded
  BY <1>5, RemoveRepoMinds
<1>6. ASSUME UNCHANGED <<links, repo, job>> PROVE Minded
  BY <1>6, RestMinds
<1> HIDE DEF Minded
<1>7. ASSUME \E u \in Users : PageStep(u) PROVE Minded
  <2>1. ASSUME NEW u \in Users, ClaimRefused(u) \/ ClaimLinked(u) PROVE UNCHANGED <<links, repo, job>>
    BY <2>1 DEF ClaimRefused, ClaimLinked, rows
  <2> QED
    BY <1>2, <1>6, <1>7, <2>1 DEF PageStep
<1>8. ASSUME RequestStep PROVE Minded
  <2>1. ASSUME NEW u \in Users, NEW n \in Intents, NEW i \in Installs, OpenPage(u, n, i)
        PROVE  UNCHANGED <<links, repo, job>>
    BY <2>1 DEF OpenPage, rows
  <2> QED
    BY <1>2, <1>3, <1>5, <1>6, <1>8, <2>1 DEF RequestStep
<1>9. ASSUME GitHubStep PROVE Minded
  BY <1>6, <1>9 DEF GitHubStep, Install, Uninstall, Grant, Revoke, Emit, rows
<1>10. ASSUME NEW n \in Intents, ExpireIntent(n) PROVE Minded
  BY <1>6, <1>10 DEF ExpireIntent
<1>11. Minded
  BY <1>1, <1>2, <1>4, <1>7, <1>8, <1>9, <1>10 DEF Next, SystemStep, HookStep
<1> QED
  BY <1>11 DEF Minded

\* Every new orphan is explained: a request or a webhook of an installation leaves a tracked repository
\* of a workspace that is not linked only if another commit overtook it, or if the row keeps another
\* installation (unlink, sync_repos, the order of the statements of bind_installation).
THEOREM OrphansStayExplained == Spec => OrphansOnlyWhenOvertaken
<1>1. Init => \A j \in Jobs : HistoryOK(job[j])
  BY IdleIsJob DEF Init, HistoryOK
<1>2. LinkInv /\ (\A j \in Jobs : HistoryOK(job[j])) /\ [Next]_vars
        => (\A j \in Jobs : HistoryOK(job[j]))' /\ [OrphanStep]_vars
  <2> SUFFICES ASSUME HistoryInv, [Next]_vars
               PROVE  (\A j \in Jobs : HistoryOK(job[j]))' /\ [OrphanStep]_vars
    BY DEF HistoryInv
  <2>1. CASE Next
    BY <2>1, NextMinds
  <2>2. CASE UNCHANGED vars
    BY <2>2, RestMinds DEF vars, rows
  <2> QED
    BY <2>1, <2>2
<1> QED
  BY <1>1, <1>2, LinkInvariant, PTL DEF Spec, OrphansOnlyWhenOvertaken, OrphanStep
=============================================================================
