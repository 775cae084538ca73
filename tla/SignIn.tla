------------------------------- MODULE SignIn -------------------------------
(***************************************************************************)
(* Signing in: a request's token is verified against a cached key set that *)
(* Clerk rotates, and its Clerk user is resolved to a user of ours, made   *)
(* with a workspace at the first request, found again by the GitHub        *)
(* account when Clerk renumbered it, or completed with that account later. *)
(***************************************************************************)
EXTENDS Integers, FiniteSets

CONSTANTS
  Logins,       \* requests
  ClerkUsers,   \* Clerk user ids
  Accounts,     \* GitHub accounts
  Keys,         \* signing keys
  UserIds,
  Nothing,
  MaxSignInInputs   \* bound: requests, what Clerk does, and what fails

ASSUME SignInOK ==
  /\ MaxSignInInputs \in Nat
  /\ Keys # {} /\ ClerkUsers # {} /\ UserIds # {}
  /\ Nothing \notin Accounts \cup UserIds \cup ClerkUsers \cup Keys
  /\ \A S \in SUBSET Keys : S # Nothing

\* A row of users, with the workspace it was made with.
UserRow == [clerk: ClerkUsers, account: Accounts \cup {Nothing}]
NoUser == [clerk |-> Nothing, account |-> Nothing]

Login == [pc: {"idle", "fetch", "store", "return", "lookup", "profile", "backfill", "find",
               "relink", "insert", "commit", "done"},
          clerk: ClerkUsers \cup {Nothing}, key: Keys \cup {Nothing},
          keys: SUBSET Keys, missed: BOOLEAN,          \* the key set read, and whether it was again
          account: Accounts \cup {Nothing},            \* of the profile
          user: UserIds \cup {Nothing},
          result: {"none", "ok", "unknown_key", "error"},
          steady: BOOLEAN,      \* history: its key was published all the while
          crossed: BOOLEAN,     \* history: it returned a cache that was not what it stored
          clerkFailed: BOOLEAN, \* history: a call of Clerk failed
          overtaken: BOOLEAN]   \* history: another request wrote users meanwhile
NoLogin == [pc |-> "idle", clerk |-> Nothing, key |-> Nothing, keys |-> {}, missed |-> FALSE,
            account |-> Nothing, user |-> Nothing, result |-> "none", steady |-> TRUE, crossed |-> FALSE,
            clerkFailed |-> FALSE, overtaken |-> FALSE]

VARIABLES
  published,   \* Clerk: its keys
  profile,     \* Clerk: the GitHub account of each user
  jwks,        \* _jwks_data: a set of keys, or Nothing
  aged,        \* _fetched_at is more than _ttl ago
  users,       \* users rows
  login,       \* the requests
  signInInputs \* bounded by MaxSignInInputs

signInVars == <<published, profile, jwks, aged, users, login, signInInputs>>
clerk == <<published, profile>>

SignInTypeOK ==
  /\ published \subseteq Keys
  /\ profile \in [ClerkUsers -> Accounts \cup {Nothing}]
  /\ jwks \in (SUBSET Keys) \cup {Nothing}
  /\ aged \in BOOLEAN
  /\ users \in [UserIds -> UserRow \cup {NoUser}]
  /\ login \in [Logins -> Login]
  /\ \A l \in Logins :
       login[l].pc \in {"backfill", "relink"} => login[l].user # Nothing /\ users[login[l].user] # NoUser
  /\ signInInputs \in 0 .. MaxSignInInputs

\* Clerk starts with some of its keys; the first user may have signed in before.
SignInInit ==
  /\ published = {CHOOSE k \in Keys : TRUE}
  /\ profile \in {f \in [ClerkUsers -> Accounts \cup {Nothing}] :
                    \A j, k \in ClerkUsers : f[j] = f[k] /\ f[j] # Nothing => j = k}
  /\ jwks = Nothing /\ aged = FALSE
  /\ LET first == CHOOSE u \in UserIds : TRUE IN
     \E row \in {NoUser} \cup [clerk: {CHOOSE k \in ClerkUsers : TRUE}, account: Accounts \cup {Nothing}] :
       users = [u \in UserIds |-> IF u = first THEN row ELSE NoUser]
  /\ login = [l \in Logins |-> NoLogin]
  /\ signInInputs = 0

SignInInput == signInInputs < MaxSignInInputs /\ signInInputs' = signInInputs + 1

-----------------------------------------------------------------------------
(***************************************************************************)
(* Clerk                                                                   *)
(***************************************************************************)

\* One key is replaced by another.
Rotate(k, new) ==
  /\ SignInInput /\ k \in published /\ new \notin published
  /\ published' = (published \ {k}) \cup {new}
  /\ login' = [l \in Logins |-> [login[l] EXCEPT !.steady = @ /\ login[l].key # k]]
  /\ UNCHANGED <<profile, jwks, aged, users>>

\* An account is linked, or moves to the user that Clerk made anew.
Link(k, a) ==
  /\ SignInInput /\ profile[k] # a
  /\ profile' = [j \in ClerkUsers |-> IF j = k THEN a ELSE IF profile[j] = a THEN Nothing ELSE profile[j]]
  /\ UNCHANGED <<published, jwks, aged, users, login>>

\* An hour passes.
Age ==
  /\ SignInInput /\ jwks # Nothing /\ ~aged
  /\ aged' = TRUE
  /\ UNCHANGED <<clerk, jwks, users, login>>

-----------------------------------------------------------------------------
(***************************************************************************)
(* ClerkJWTVerifier                                                        *)
(***************************************************************************)

EndLogin(l, result) == login' = [login EXCEPT ![l].pc = "done", ![l].result = result]

\* The claims are in hand: the key, and what became of it, matter no more.
Verified(q) == [q EXCEPT !.pc = "lookup", !.key = Nothing, !.steady = TRUE, !.crossed = FALSE]

\* Fault: the second look is at a key set read again and again.
FaultySearched(q, keys) ==
  IF q.key \in keys THEN Verified(q) ELSE [q EXCEPT !.pc = "fetch", !.missed = TRUE]
\* Fault: a key that is missing is unknown.
FaultySearchedOnce(q, keys) ==
  IF q.key \in keys THEN Verified(q)
  ELSE [q EXCEPT !.pc = "done", !.result = "unknown_key"]
\* The key is looked for; when it is missing, once more in a key set that is fetched anew.
Searched(q, keys) ==
  IF q.key \in keys THEN Verified(q)
  ELSE IF q.missed THEN [q EXCEPT !.pc = "done", !.result = "unknown_key"]
  ELSE [q EXCEPT !.pc = "fetch", !.missed = TRUE]

\* What stays in the cache: nothing after the first miss.
Kept(q, keys) == IF q.key \in keys \/ q.missed THEN keys ELSE Nothing

\* get_jwks from the cache, unless it is empty or aged.
Arrive(l, k, key) ==
  LET q == [NoLogin EXCEPT !.clerk = k, !.key = key, !.steady = key \in published] IN
  /\ login[l].pc = "idle" /\ l = CHOOSE m \in Logins : login[m].pc = "idle"
  /\ SignInInput
  /\ IF jwks = Nothing \/ aged
     THEN login' = [login EXCEPT ![l] = [q EXCEPT !.pc = "fetch"]] /\ UNCHANGED jwks
     ELSE login' = [login EXCEPT ![l] = Searched(q, jwks)] /\ jwks' = Kept(q, jwks)
  /\ UNCHANGED <<clerk, aged, users>>

FetchKeys(l) ==
  /\ login[l].pc = "fetch"
  /\ login' = [login EXCEPT ![l].pc = "store", ![l].keys = published]
  /\ UNCHANGED <<clerk, jwks, aged, users, signInInputs>>

\* An error of httpx is no AuthError.
KeysFail(l) ==
  /\ login[l].pc = "fetch"
  /\ SignInInput
  /\ login' = [login EXCEPT ![l].pc = "done", ![l].result = "error", ![l].clerkFailed = TRUE]
  /\ UNCHANGED <<clerk, jwks, aged, users>>

\* Closing the client is an await between the assignment and the return of the cache.
StoreKeys(l) ==
  /\ login[l].pc = "store"
  /\ login' = [login EXCEPT ![l].pc = "return"]
  /\ jwks' = login[l].keys
  /\ aged' = FALSE
  /\ UNCHANGED <<clerk, users, signInInputs>>

\* What is in the cache by now: a set another request stored, or None, which has no keys
\* to look through and ends the request with an error.
ReturnKeys(l) ==
  LET q == [login[l] EXCEPT !.keys = {}, !.crossed = @ \/ jwks # login[l].keys] IN
  /\ login[l].pc = "return"
  /\ IF jwks = Nothing
     THEN login' = [login EXCEPT ![l] = [q EXCEPT !.pc = "done", !.result = "error"]] /\ UNCHANGED jwks
     ELSE login' = [login EXCEPT ![l] = Searched(q, jwks)] /\ jwks' = Kept(q, jwks)
  /\ UNCHANGED <<clerk, aged, users, signInInputs>>

-----------------------------------------------------------------------------
(***************************************************************************)
(* get_or_create_user                                                      *)
(***************************************************************************)

Having(field, x) == {u \in UserIds : users[u] # NoUser /\ users[u][field] = x}
Holder(field, x) == IF Having(field, x) = {} THEN Nothing ELSE CHOOSE u \in Having(field, x) : TRUE

\* Rows being inserted that a write of this Clerk id or account has to wait for.
Uncommitted(l, k, a) ==
  {m \in Logins \ {l} : login[m].pc = "commit" /\ (login[m].clerk = k \/ (a # Nothing /\ login[m].account = a))}

\* A commit: history for whoever is under way.
Wrote(l, u) ==
  login' = [m \in Logins |->
    IF m = l THEN [login[l] EXCEPT !.pc = "done", !.result = "ok", !.user = u]
    ELSE [login[m] EXCEPT !.overtaken = @ \/ login[m].pc \notin {"idle", "done"}]]

\* The user by its Clerk id: known, to be completed, or to be made.
Lookup(l) ==
  LET u == Holder("clerk", login[l].clerk) IN
  /\ login[l].pc = "lookup"
  /\ login' = [login EXCEPT ![l].user = u,
       ![l].pc = IF u # Nothing /\ users[u].account # Nothing THEN "done" ELSE "profile",
       ![l].result = IF u # Nothing /\ users[u].account # Nothing THEN "ok" ELSE @]
  /\ UNCHANGED <<clerk, jwks, aged, users, signInInputs>>

\* Fault: the Clerk id is taken for the account's.
FaultyKnown(q, a) ==
  IF q.user # Nothing
  THEN IF a = Nothing THEN [q EXCEPT !.pc = "done", !.result = "ok"]
       ELSE [q EXCEPT !.pc = "backfill", !.account = q.clerk]
  ELSE [q EXCEPT !.pc = IF a = Nothing THEN "insert" ELSE "find", !.account = a]
\* What comes after the profile, or without it.
Known(q, a) ==
  IF q.user # Nothing
  THEN IF a = Nothing THEN [q EXCEPT !.pc = "done", !.result = "ok"]
       ELSE [q EXCEPT !.pc = "backfill", !.account = a]
  ELSE [q EXCEPT !.pc = IF a = Nothing THEN "insert" ELSE "find", !.account = a]

GetProfile(l) ==
  /\ login[l].pc = "profile"
  /\ login' = [login EXCEPT ![l] = Known(@, profile[login[l].clerk])]
  /\ UNCHANGED <<clerk, jwks, aged, users, signInInputs>>

ProfileFails(l) ==
  /\ login[l].pc = "profile"
  /\ SignInInput
  /\ login' = [login EXCEPT ![l] = Known([@ EXCEPT !.clerkFailed = TRUE], Nothing)]
  /\ UNCHANGED <<clerk, jwks, aged, users>>

\* _backfill_github_data.  When the account is another user's, the commit fails; its rollback
\* expires the user, and the handler that would log it reads the user again.
Backfill(l) ==
  LET a == login[l].account IN
  /\ login[l].pc = "backfill"
  /\ Uncommitted(l, Nothing, a) = {}
  /\ IF Having("account", a) \ {login[l].user} # {}
     THEN EndLogin(l, "error") /\ UNCHANGED users
     ELSE users' = [users EXCEPT ![login[l].user].account = a] /\ Wrote(l, login[l].user)
  /\ UNCHANGED <<clerk, jwks, aged, signInInputs>>

\* Fault: a Clerk id that is new is a user that is new.
FaultyFindByAccount(l) ==
  /\ login[l].pc = "find"
  /\ login' = [login EXCEPT ![l].pc = "insert"]
  /\ UNCHANGED <<clerk, jwks, aged, users, signInInputs>>
\* The user whose GitHub account it is.
FindByAccount(l) ==
  LET u == Holder("account", login[l].account) IN
  /\ login[l].pc = "find"
  /\ login' = [login EXCEPT ![l].user = u, ![l].pc = IF u = Nothing THEN "insert" ELSE "relink"]
  /\ UNCHANGED <<clerk, jwks, aged, users, signInInputs>>

Relink(l) ==
  LET k == login[l].clerk IN
  /\ login[l].pc = "relink"
  /\ Uncommitted(l, k, Nothing) = {}
  /\ IF Having("clerk", k) \ {login[l].user} # {}
     THEN EndLogin(l, "error") /\ UNCHANGED users
     ELSE users' = [users EXCEPT ![login[l].user].clerk = k] /\ Wrote(l, login[l].user)
  /\ UNCHANGED <<clerk, jwks, aged, signInInputs>>

\* Workspace and user are flushed outside the try that expects a concurrent request.
InsertUser(l) ==
  LET k == login[l].clerk
      a == login[l].account IN
  /\ login[l].pc = "insert"
  /\ Uncommitted(l, k, a) = {}
  /\ IF Having("clerk", k) # {} \/ (a # Nothing /\ Having("account", a) # {})
     THEN EndLogin(l, "error")
     ELSE login' = [login EXCEPT ![l].pc = "commit"]
  /\ UNCHANGED <<clerk, jwks, aged, users, signInInputs>>

CommitUser(l) ==
  LET u == CHOOSE u \in UserIds : users[u] = NoUser IN
  /\ login[l].pc = "commit"
  /\ \E u0 \in UserIds : users[u0] = NoUser
  /\ users' = [users EXCEPT ![u] = [clerk |-> login[l].clerk, account |-> login[l].account]]
  /\ Wrote(l, u)
  /\ UNCHANGED <<clerk, jwks, aged, signInInputs>>

\* The slot of a request that was answered serves another.
Leave(l) ==
  /\ login[l].pc = "done"
  /\ login' = [login EXCEPT ![l] = NoLogin]
  /\ UNCHANGED <<clerk, jwks, aged, users, signInInputs>>

-----------------------------------------------------------------------------
ClerkStep ==
  \/ \E k, new \in Keys : Rotate(k, new)
  \/ \E k \in ClerkUsers, a \in Accounts : Link(k, a)
  \/ Age

LoginStep(l) ==
  \/ FetchKeys(l) \/ StoreKeys(l) \/ ReturnKeys(l)
  \/ Lookup(l) \/ GetProfile(l) \/ Backfill(l) \/ FindByAccount(l) \/ Relink(l) \/ InsertUser(l) \/ CommitUser(l)

SignInNext ==
  \/ ClerkStep
  \/ \E l \in Logins : \/ LoginStep(l) \/ KeysFail(l) \/ ProfileFails(l) \/ Leave(l)
                       \/ \E k \in ClerkUsers, key \in Keys : Arrive(l, k, key)

SignInSpec == SignInInit /\ [][SignInNext]_signInVars

\* A request that has arrived goes on.
SignInFairness == \A l \in Logins : WF_signInVars(LoginStep(l))

-----------------------------------------------------------------------------
(***************************************************************************)
(* Properties                                                              *)
(***************************************************************************)

\* A key that Clerk publishes is known, however old the cache is and whoever drops or fills it
\* meanwhile: "unknown signing key" is said only of a key that was not published all the while,
\* or by a request that returned a key set which another had put in place of its own.
PublishedKeysAreKnown ==
  \A l \in Logins : login[l].result = "unknown_key" => ~login[l].steady \/ login[l].crossed

\* A request fails only when Clerk failed it, when another request wrote users or replaced its
\* key set while it was under way, or when its user and the owner of its GitHub account have
\* come to be two rows, which an earlier failure of Clerk is enough for.
Explained(l) ==
  \/ login'[l].clerkFailed \/ login'[l].overtaken \/ login'[l].crossed
  \/ login[l].user # Nothing /\ Having("account", login[l].account) \ {login[l].user} # {}
FailuresAreExplained ==
  [][\A l \in Logins : login'[l].result = "error" /\ login[l].result # "error" => Explained(l)]_signInVars

\* Requests are answered: none fetches keys for ever, nor waits for an insert that waits for
\* it.  There are finitely many here, so in the end none is left under way.
LoginsEnd == <>[](\A l \in Logins : login[l].pc \in {"idle", "done"})
=============================================================================
