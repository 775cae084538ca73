------------------------- MODULE SharedCacheProofs --------------------------
(***************************************************************************)
(* Proofs about the two components whose concurrent requests share a cache *)
(* of the process: signing in, with the keys of Clerk, for any number of   *)
(* requests, Clerk users, keys, accounts and users; and the GitHub client, *)
(* with the tokens of an installation, for any number of calls, tokens and *)
(* repositories and any size of page.                                      *)
(***************************************************************************)
EXTENDS SignIn, GitHubClient, SequenceTheorems, FiniteSetTheorems, TLAPS

-----------------------------------------------------------------------------
(***************************************************************************)
(* Signing in.                                                             *)
(***************************************************************************)

\* A request that is under way has a Clerk user, and a user it is to complete or relink has a row.
RowOK(q) ==
  /\ q.pc \notin {"idle", "done"} => q.clerk \in ClerkUsers
  /\ q.pc \in {"backfill", "relink"} => q.user # Nothing
  /\ q.pc \in {"profile", "backfill", "relink"} /\ q.user # Nothing => users[q.user] # NoUser

\* A key that is still being looked for was published before the fetch, and is among what the
\* fetch brought.
KeyOK(q) ==
  /\ q.pc \in {"fetch", "store", "return"} /\ q.steady => q.key \in published
  /\ q.pc \in {"store", "return"} /\ q.steady => q.key \in q.keys
  /\ q.pc # "done" => q.result = "none"
  /\ q.result = "unknown_key" => ~q.steady \/ q.crossed

\* What a request that no other overtook has read of users is still so.
ReadOK(q) ==
  ~q.overtaken =>
    /\ q.pc = "profile" /\ q.user = Nothing => Having("clerk", q.clerk) = {}
    /\ q.pc \in {"find", "relink", "insert"} => Having("clerk", q.clerk) = {}
    /\ q.pc = "insert" /\ q.account # Nothing => Having("account", q.account) = {}

LoginOK(q) == RowOK(q) /\ KeyOK(q) /\ ReadOK(q)

SignInInv ==
  /\ SignInTypeOK
  /\ \A l \in Logins : LoginOK(login[l])

-----------------------------------------------------------------------------
LEMMA NoLoginIsLogin == NoLogin \in Login /\ NoLogin.pc = "idle" /\ NoLogin.result = "none"
  BY DEF NoLogin, Login

LEMMA SignInInitially == SignInInit => SignInInv
<1> SUFFICES ASSUME SignInInit PROVE SignInInv
  OBVIOUS
<1>1. login \in [Logins -> Login] /\ \A l \in Logins : login[l].pc = "idle" /\ login[l].result = "none"
  BY NoLoginIsLogin DEF SignInInit
<1>2. users \in [UserIds -> UserRow \cup {NoUser}]
  BY SignInOK DEF SignInInit, UserRow, NoUser
<1>3. published \subseteq Keys /\ profile \in [ClerkUsers -> Accounts \cup {Nothing}]
  <2>1. (CHOOSE k \in Keys : TRUE) \in Keys
    BY SignInOK
  <2> QED
    BY <2>1 DEF SignInInit
<1>4. signInInputs \in 0 .. MaxSignInInputs
  BY SignInOK DEF SignInInit
<1>5. SignInTypeOK
  BY <1>1, <1>2, <1>3, <1>4 DEF SignInInit, SignInTypeOK
<1>6. \A l \in Logins : LoginOK(login[l])
  BY <1>1 DEF LoginOK, RowOK, KeyOK, ReadOK
<1> QED
  BY <1>5, <1>6 DEF SignInInv

\* A step of one request that writes no user keeps the invariant if what it makes of the request
\* is in order.
LEMMA OneLogin ==
  ASSUME SignInInv, NEW l \in Logins, NEW q \in Login,
         login' = [login EXCEPT ![l] = q], UNCHANGED <<published, profile, users>>,
         jwks' \in (SUBSET Keys) \cup {Nothing}, aged' \in BOOLEAN,
         signInInputs' \in 0 .. MaxSignInInputs,
         LoginOK(q)
  PROVE  SignInInv'
<1> USE DEF SignInInv
<1>1. login' \in [Logins -> Login] /\ login'[l] = q /\ \A m \in Logins \ {l} : login'[m] = login[m]
  BY DEF SignInTypeOK
<1>2. \A m \in Logins : LoginOK(login[m])'
  BY <1>1 DEF LoginOK, RowOK, KeyOK, ReadOK, Having
<1>3. SignInTypeOK'
  BY <1>1, <1>2 DEF SignInTypeOK, LoginOK, RowOK
<1> QED
  BY <1>2, <1>3

LEMMA SteadyReplaced ==
  ASSUME NEW q \in Login, NEW b \in BOOLEAN, NEW r, r = [q EXCEPT !.steady = b]
  PROVE  /\ r \in Login
         /\ r.pc = q.pc /\ r.user = q.user /\ r.overtaken = q.overtaken /\ r.clerk = q.clerk
         /\ r.account = q.account /\ r.key = q.key /\ r.keys = q.keys /\ r.result = q.result
         /\ r.crossed = q.crossed /\ r.steady = b
  BY DEF Login

\* Rotating marks the requests that look for the key as no longer steady.
LEMMA RotateKeeps ==
  ASSUME SignInInv, NEW k \in Keys, NEW new \in Keys, Rotate(k, new)
  PROVE  SignInInv'
<1> USE DEF SignInInv
<1> DEFINE still(l) == login[l].steady /\ login[l].key # k
           entry(l) == [login[l] EXCEPT !.steady = still(l)]
<1>0. login' = [l \in Logins |-> entry(l)]
  BY Zenon DEF Rotate
<1>1. \A l \in Logins :
        /\ login'[l] \in Login
        /\ login'[l].pc = login[l].pc /\ login'[l].user = login[l].user
        /\ login'[l].overtaken = login[l].overtaken /\ login'[l].clerk = login[l].clerk
        /\ login'[l].account = login[l].account /\ login'[l].key = login[l].key
        /\ login'[l].keys = login[l].keys /\ login'[l].result = login[l].result
        /\ login'[l].crossed = login[l].crossed
        /\ login'[l].steady => login[l].steady /\ login[l].key # k
        /\ entry(l) \in Login
  <2> TAKE l \in Logins
  <2>1. login[l] \in Login
    BY DEF SignInTypeOK
  <2>2. still(l) \in BOOLEAN
    BY Zenon
  <2>3. login'[l] = entry(l)
    BY <1>0, Zenon
  <2>4. still(l) => login[l].steady /\ login[l].key # k
    OBVIOUS
  <2> HIDE DEF still
  <2> QED
    BY <2>1, <2>2, <2>3, <2>4, SteadyReplaced
<1>2. \A l \in Logins : RowOK(login[l])' /\ ReadOK(login[l])'
  BY <1>1 DEF RowOK, ReadOK, LoginOK, Having, Rotate
<1>3. \A l \in Logins : KeyOK(login[l])'
  <2> TAKE l \in Logins
  <2>1. published' = (published \ {k}) \cup {new}
    BY DEF Rotate
  <2>2. KeyOK(login[l])
    BY DEF LoginOK
  <2> HIDE DEF entry, SignInInv
  <2>3. /\ login'[l].pc = login[l].pc /\ login'[l].key = login[l].key
        /\ login'[l].keys = login[l].keys /\ login'[l].result = login[l].result
        /\ login'[l].crossed = login[l].crossed
        /\ login'[l].steady => login[l].steady /\ login[l].key # k
    BY <1>1
  <2> QED
    BY <2>1, <2>2, <2>3 DEF KeyOK
<1>4. SignInTypeOK'
  <2> HIDE DEF entry
  <2>1. login' \in [Logins -> Login]
    BY <1>0, <1>1
  <2>2. published' \subseteq Keys /\ signInInputs' \in 0 .. MaxSignInInputs
    BY SignInOK DEF SignInTypeOK, Rotate, SignInInput
  <2>3. UNCHANGED <<profile, jwks, aged, users>>
    BY DEF Rotate
  <2> QED
    BY <2>1, <2>2, <2>3, <1>1 DEF SignInTypeOK
<1> QED
  BY <1>2, <1>3, <1>4 DEF LoginOK

LEMMA LinkKeeps ==
  ASSUME SignInInv, NEW k \in ClerkUsers, NEW a \in Accounts, Link(k, a)
  PROVE  SignInInv'
<1> USE DEF SignInInv
<1>1. SignInTypeOK'
  BY SignInOK DEF SignInTypeOK, Link, SignInInput
<1>2. \A l \in Logins : LoginOK(login[l])'
  BY DEF Link, LoginOK, RowOK, KeyOK, ReadOK, Having
<1> QED
  BY <1>1, <1>2

LEMMA AgeKeeps ==
  ASSUME SignInInv, Age
  PROVE  SignInInv'
<1> USE DEF SignInInv
<1>1. SignInTypeOK'
  BY SignInOK DEF SignInTypeOK, Age, SignInInput, clerk
<1>2. \A l \in Logins : LoginOK(login[l])'
  BY DEF Age, clerk, LoginOK, RowOK, KeyOK, ReadOK, Having
<1> QED
  BY <1>1, <1>2

\* A request that is verified has nothing more to do with its key.
LEMMA VerifiedIsInOrder ==
  ASSUME NEW q \in Login, q.result = "none", q.clerk \in ClerkUsers
  PROVE  Verified(q) \in Login /\ LoginOK(Verified(q))
  BY DEF Verified, Login, LoginOK, RowOK, KeyOK, ReadOK

\* The search for a key ends with "unknown signing key" only after a second look.
LEMMA SearchedIsInOrder ==
  ASSUME NEW q \in Login, NEW keys \in SUBSET Keys,
         q.result = "none", q.clerk \in ClerkUsers,
         q.steady => q.key \in published,
         q.missed /\ q.steady /\ ~q.crossed => q.key \in keys
  PROVE  Searched(q, keys) \in Login /\ LoginOK(Searched(q, keys))
<1>1. CASE q.key \in keys
  BY <1>1, VerifiedIsInOrder DEF Searched
<1>2. CASE q.key \notin keys /\ q.missed
  <2> DEFINE r == [q EXCEPT !.pc = "done", !.result = "unknown_key"]
  <2>1. r \in Login /\ r.pc = "done" /\ r.steady = q.steady /\ r.crossed = q.crossed
    BY DEF Login
  <2>2. ~q.steady \/ q.crossed
    BY <1>2
  <2>3. LoginOK(r)
    BY <2>1, <2>2 DEF LoginOK, RowOK, KeyOK, ReadOK
  <2>4. Searched(q, keys) = r
    BY <1>2 DEF Searched
  <2> QED
    BY <2>1, <2>3, <2>4
<1>3. CASE q.key \notin keys /\ ~q.missed
  <2> DEFINE r == [q EXCEPT !.pc = "fetch", !.missed = TRUE]
  <2>1. /\ r \in Login /\ r.pc = "fetch" /\ r.steady = q.steady /\ r.key = q.key /\ r.result = "none"
        /\ r.clerk = q.clerk
    BY DEF Login
  <2>2. LoginOK(r)
    BY <2>1 DEF LoginOK, RowOK, KeyOK, ReadOK
  <2>3. Searched(q, keys) = r
    BY <1>3 DEF Searched
  <2> QED
    BY <2>1, <2>2, <2>3
<1> QED
  BY <1>1, <1>2, <1>3

LEMMA ArriveKeeps ==
  ASSUME SignInInv, NEW l \in Logins, NEW k \in ClerkUsers, NEW key \in Keys, Arrive(l, k, key)
  PROVE  SignInInv'
<1> DEFINE q == [NoLogin EXCEPT !.clerk = k, !.key = key, !.steady = key \in published]
<1>1. /\ q \in Login /\ q.pc = "idle" /\ q.result = "none" /\ q.missed = FALSE /\ q.key = key
      /\ q.clerk = k
      /\ q.steady => key \in published
  <2>1. (key \in published) \in BOOLEAN
    OBVIOUS
  <2> QED
    BY <2>1 DEF NoLogin, Login
<1>2. signInInputs' \in 0 .. MaxSignInInputs /\ UNCHANGED <<published, profile, users, aged>>
  BY SignInOK DEF SignInInv, SignInTypeOK, Arrive, SignInInput, clerk
<1>3. aged' \in BOOLEAN /\ jwks \in (SUBSET Keys) \cup {Nothing}
  BY <1>2 DEF SignInInv, SignInTypeOK
<1>4. CASE jwks = Nothing \/ aged
  <2> DEFINE r == [q EXCEPT !.pc = "fetch"]
  <2>1. login' = [login EXCEPT ![l] = r] /\ jwks' = jwks
    BY <1>4 DEF Arrive
  <2>2. /\ r \in Login /\ r.pc = "fetch" /\ r.result = "none" /\ r.steady = q.steady /\ r.key = key
        /\ r.clerk = k
    <3> HIDE DEF q
    <3> QED
      BY <1>1 DEF Login
  <2>3. LoginOK(r)
    <3> HIDE DEF q, r
    <3> QED
      BY <1>1, <2>2 DEF LoginOK, RowOK, KeyOK, ReadOK
  <2> HIDE DEF q, r
  <2> QED
    BY <1>2, <1>3, <2>1, <2>2, <2>3, OneLogin
<1>5. CASE ~(jwks = Nothing \/ aged)
  <2>1. login' = [login EXCEPT ![l] = Searched(q, jwks)] /\ jwks' = Kept(q, jwks)
    BY <1>5 DEF Arrive
  <2> HIDE DEF q
  <2>2. jwks \in SUBSET Keys
    BY <1>3, <1>5
  <2>3. jwks' \in (SUBSET Keys) \cup {Nothing}
    BY <2>1, <2>2 DEF Kept
  <2>4. Searched(q, jwks) \in Login /\ LoginOK(Searched(q, jwks))
    BY <1>1, <2>2, SearchedIsInOrder
  <2> QED
    BY <1>2, <1>3, <2>1, <2>3, <2>4, OneLogin
<1> QED
  BY <1>4, <1>5

LEMMA FetchKeysKeeps ==
  ASSUME SignInInv, NEW l \in Logins, FetchKeys(l)
  PROVE  SignInInv'
<1> DEFINE q == [login[l] EXCEPT !.pc = "store", !.keys = published]
<1>1. login[l] \in Login /\ login[l].pc = "fetch" /\ LoginOK(login[l]) /\ published \in SUBSET Keys
  BY DEF SignInInv, SignInTypeOK, FetchKeys
<1>2. login' = [login EXCEPT ![l] = q]
  BY DEF FetchKeys, SignInInv, SignInTypeOK
<1>3. /\ q \in Login /\ q.pc = "store" /\ q.keys = published
      /\ q.key = login[l].key /\ q.steady = login[l].steady /\ q.result = login[l].result
      /\ q.crossed = login[l].crossed /\ q.clerk = login[l].clerk
  BY <1>1 DEF Login
<1> HIDE DEF q
<1>4. LoginOK(q)
  BY <1>1, <1>3 DEF LoginOK, RowOK, KeyOK, ReadOK
<1> QED
  BY <1>2, <1>3, <1>4, OneLogin DEF FetchKeys, clerk, SignInInv, SignInTypeOK

LEMMA KeysFailKeeps ==
  ASSUME SignInInv, NEW l \in Logins, KeysFail(l)
  PROVE  SignInInv'
<1> DEFINE q == [login[l] EXCEPT !.pc = "done", !.result = "error", !.clerkFailed = TRUE]
<1>1. login[l] \in Login
  BY DEF SignInInv, SignInTypeOK
<1>2. login' = [login EXCEPT ![l] = q]
  BY DEF KeysFail, SignInInv, SignInTypeOK
<1>3. q \in Login /\ q.pc = "done" /\ q.result = "error"
  BY <1>1 DEF Login
<1> HIDE DEF q
<1>4. LoginOK(q)
  BY <1>3 DEF LoginOK, RowOK, KeyOK, ReadOK
<1>5. signInInputs' \in 0 .. MaxSignInInputs
  BY SignInOK DEF SignInInv, SignInTypeOK, KeysFail, SignInInput
<1> QED
  BY <1>2, <1>3, <1>4, <1>5, OneLogin DEF KeysFail, clerk, SignInInv, SignInTypeOK

LEMMA StoreKeysKeeps ==
  ASSUME SignInInv, NEW l \in Logins, StoreKeys(l)
  PROVE  SignInInv'
<1> DEFINE q == [login[l] EXCEPT !.pc = "return"]
<1>1. login[l] \in Login /\ login[l].pc = "store" /\ LoginOK(login[l])
  BY DEF SignInInv, SignInTypeOK, StoreKeys
<1>2. login' = [login EXCEPT ![l] = q]
  BY DEF StoreKeys, SignInInv, SignInTypeOK
<1>3. /\ q \in Login /\ q.pc = "return" /\ q.keys = login[l].keys
      /\ q.key = login[l].key /\ q.steady = login[l].steady /\ q.result = login[l].result
      /\ q.crossed = login[l].crossed /\ q.clerk = login[l].clerk
  BY <1>1 DEF Login
<1>4. jwks' \in (SUBSET Keys) \cup {Nothing}
  BY <1>1 DEF StoreKeys, Login
<1> HIDE DEF q
<1>5. LoginOK(q)
  BY <1>1, <1>3 DEF LoginOK, RowOK, KeyOK, ReadOK
<1> QED
  BY <1>2, <1>3, <1>4, <1>5, OneLogin DEF StoreKeys, clerk, SignInInv, SignInTypeOK

\* What is returned is what was stored, or is marked as crossed.
LEMMA ReturnKeysKeeps ==
  ASSUME SignInInv, NEW l \in Logins, ReturnKeys(l)
  PROVE  SignInInv' /\ (jwks = Nothing => login'[l].crossed)
<1> DEFINE crossed == login[l].crossed \/ jwks # login[l].keys
           q == [login[l] EXCEPT !.keys = {}, !.crossed = crossed]
<1>1. /\ login[l] \in Login /\ login[l].pc = "return" /\ LoginOK(login[l])
      /\ jwks \in (SUBSET Keys) \cup {Nothing}
  BY DEF SignInInv, SignInTypeOK, ReturnKeys
<1>2. crossed \in BOOLEAN
  BY Zenon
<1>3. ~crossed => jwks = login[l].keys
  OBVIOUS
<1>4. CASE jwks = Nothing
  <2> DEFINE r == [q EXCEPT !.pc = "done", !.result = "error"]
  <2>1. login' = [login EXCEPT ![l] = r] /\ jwks' = jwks
    BY <1>4, Zenon DEF ReturnKeys
  <2>2. crossed
    BY <1>1, <1>4, SignInOK DEF Login
  <2> HIDE DEF crossed
  <2>3. r \in Login /\ r.pc = "done" /\ r.result = "error" /\ r.crossed = crossed
    BY <1>1, <1>2 DEF Login
  <2> HIDE DEF q, r
  <2>4. LoginOK(r)
    BY <2>3 DEF LoginOK, RowOK, KeyOK, ReadOK
  <2>5. SignInInv'
    BY <2>1, <2>3, <2>4, <1>1, OneLogin DEF ReturnKeys, clerk, SignInInv, SignInTypeOK
  <2>6. login'[l] = r
    BY <2>1 DEF SignInInv, SignInTypeOK
  <2> QED
    BY <2>2, <2>3, <2>5, <2>6
<1>5. CASE jwks # Nothing
  <2>1. login' = [login EXCEPT ![l] = Searched(q, jwks)] /\ jwks' = Kept(q, jwks)
    BY <1>5, Zenon DEF ReturnKeys
  <2>2. jwks \in SUBSET Keys
    BY <1>1, <1>5
  <2> HIDE DEF crossed
  <2>3. /\ q \in Login /\ q.pc = "return" /\ q.result = login[l].result /\ q.crossed = crossed
        /\ q.steady = login[l].steady /\ q.key = login[l].key /\ q.clerk = login[l].clerk
    BY <1>1, <1>2 DEF Login
  <2> HIDE DEF q
  <2>4. jwks' \in (SUBSET Keys) \cup {Nothing}
    BY <2>1, <2>2 DEF Kept
  <2>5. q.result = "none" /\ q.clerk \in ClerkUsers
    BY <1>1, <2>3 DEF LoginOK, KeyOK, RowOK
  <2>6. q.steady => q.key \in published
    BY <1>1, <2>3 DEF LoginOK, KeyOK
  <2>7. q.steady /\ ~q.crossed => q.key \in jwks
    BY <1>1, <1>3, <2>3 DEF LoginOK, KeyOK
  <2>8. Searched(q, jwks) \in Login /\ LoginOK(Searched(q, jwks))
    BY <2>2, <2>3, <2>5, <2>6, <2>7, SearchedIsInOrder
  <2> QED
    BY <1>5, <2>1, <2>4, <2>8, OneLogin DEF ReturnKeys, clerk, SignInInv, SignInTypeOK
<1> QED
  BY <1>4, <1>5

LEMMA LeaveKeeps ==
  ASSUME SignInInv, NEW l \in Logins, Leave(l)
  PROVE  SignInInv'
<1>1. LoginOK(NoLogin)
  BY NoLoginIsLogin DEF LoginOK, RowOK, KeyOK, ReadOK
<1> QED
  BY <1>1, NoLoginIsLogin, OneLogin DEF Leave, clerk, SignInInv, SignInTypeOK

LEMMA HolderFound ==
  ASSUME NEW field, NEW x
  PROVE  /\ Holder(field, x) = Nothing <=> Having(field, x) = {}
         /\ Holder(field, x) # Nothing => Holder(field, x) \in Having(field, x)
         /\ Having(field, x) \subseteq UserIds
         /\ \A u \in Having(field, x) : users[u] # NoUser
<1>1. Having(field, x) \subseteq UserIds /\ \A u \in Having(field, x) : users[u] # NoUser
  BY DEF Having
<1> HIDE DEF Having
<1>2. CASE Having(field, x) = {}
  BY <1>1, <1>2 DEF Holder
<1>3. CASE Having(field, x) # {}
  <2>1. Holder(field, x) \in Having(field, x)
    BY <1>3 DEF Holder
  <2> QED
    BY <1>1, <1>3, <2>1, SignInOK
<1> QED
  BY <1>2, <1>3

LEMMA LookupKeeps ==
  ASSUME SignInInv, NEW l \in Logins, Lookup(l)
  PROVE  SignInInv'
<1> DEFINE u == Holder("clerk", login[l].clerk)
           known == u # Nothing /\ users[u].account # Nothing
           q == [login[l] EXCEPT !.user = u, !.pc = IF known THEN "done" ELSE "profile",
                                 !.result = IF known THEN "ok" ELSE login[l].result]
<1>1. login[l] \in Login /\ login[l].pc = "lookup" /\ LoginOK(login[l])
  BY DEF SignInInv, SignInTypeOK, Lookup
<1>2. login' = [login EXCEPT ![l] = q]
  BY DEF Lookup, SignInInv, SignInTypeOK
<1>3. /\ u \in UserIds \cup {Nothing}
      /\ u = Nothing => Having("clerk", login[l].clerk) = {}
      /\ u # Nothing => users[u] # NoUser
  BY HolderFound
<1>4. known \in BOOLEAN
  OBVIOUS
<1> HIDE DEF u, known
<1>5. /\ q \in Login /\ q.user = u /\ q.clerk = login[l].clerk /\ q.pc \in {"done", "profile"}
      /\ q.pc = "profile" => q.result = login[l].result
      /\ q.result \in {"ok", login[l].result}
  BY <1>1, <1>3, <1>4 DEF Login
<1> HIDE DEF q
<1>6. LoginOK(q)
  <2>1. RowOK(q) /\ ReadOK(q)
    BY <1>1, <1>3, <1>5 DEF RowOK, ReadOK, LoginOK
  <2>2. KeyOK(q)
    BY <1>1, <1>5 DEF KeyOK, LoginOK
  <2> QED
    BY <2>1, <2>2 DEF LoginOK
<1> QED
  BY <1>2, <1>5, <1>6, OneLogin DEF Lookup, clerk, SignInInv, SignInTypeOK

LEMMA KnownIsInOrder ==
  ASSUME NEW q \in Login, q.pc = "profile", LoginOK(q), NEW a \in Accounts \cup {Nothing}
  PROVE  Known(q, a) \in Login /\ LoginOK(Known(q, a))
<1>1. CASE q.user # Nothing /\ a = Nothing
  <2> DEFINE r == [q EXCEPT !.pc = "done", !.result = "ok"]
  <2>1. r \in Login /\ r.pc = "done" /\ r.result = "ok"
    BY DEF Login
  <2>2. Known(q, a) = r
    BY <1>1 DEF Known
  <2> HIDE DEF r
  <2>3. LoginOK(r)
    BY <2>1 DEF LoginOK, RowOK, KeyOK, ReadOK
  <2> QED
    BY <2>1, <2>2, <2>3
<1>2. CASE q.user # Nothing /\ a # Nothing
  <2> DEFINE r == [q EXCEPT !.pc = "backfill", !.account = a]
  <2>1. /\ r \in Login /\ r.pc = "backfill" /\ r.result = q.result /\ r.user = q.user
        /\ r.clerk = q.clerk
    BY DEF Login
  <2>2. Known(q, a) = r
    BY <1>2 DEF Known
  <2> HIDE DEF r
  <2>3. LoginOK(r)
    BY <1>2, <2>1 DEF LoginOK, RowOK, KeyOK, ReadOK
  <2> QED
    BY <2>1, <2>2, <2>3
<1>3. CASE q.user = Nothing
  <2> DEFINE r == [q EXCEPT !.pc = IF a = Nothing THEN "insert" ELSE "find", !.account = a]
  <2>1. /\ r \in Login /\ r.pc = (IF a = Nothing THEN "insert" ELSE "find") /\ r.account = a
        /\ r.result = q.result /\ r.user = q.user /\ r.clerk = q.clerk /\ r.overtaken = q.overtaken
    BY DEF Login
  <2>2. Known(q, a) = r
    BY <1>3 DEF Known
  <2> HIDE DEF r
  <2>3. LoginOK(r)
    BY <1>3, <2>1 DEF LoginOK, RowOK, KeyOK, ReadOK
  <2> QED
    BY <2>1, <2>2, <2>3
<1> QED
  BY <1>1, <1>2, <1>3

LEMMA GetProfileKeeps ==
  ASSUME SignInInv, NEW l \in Logins, GetProfile(l)
  PROVE  SignInInv'
<1> DEFINE a == profile[login[l].clerk]
<1>1. login[l] \in Login /\ login[l].pc = "profile" /\ LoginOK(login[l])
  BY DEF SignInInv, SignInTypeOK, GetProfile
<1>2. a \in Accounts \cup {Nothing}
  BY <1>1 DEF SignInInv, SignInTypeOK, LoginOK, RowOK
<1>3. login' = [login EXCEPT ![l] = Known(login[l], a)]
  BY DEF GetProfile, SignInInv, SignInTypeOK
<1> HIDE DEF a
<1>4. Known(login[l], a) \in Login /\ LoginOK(Known(login[l], a))
  BY <1>1, <1>2, KnownIsInOrder
<1> QED
  BY <1>3, <1>4, OneLogin DEF GetProfile, clerk, SignInInv, SignInTypeOK

LEMMA ProfileFailsKeeps ==
  ASSUME SignInInv, NEW l \in Logins, ProfileFails(l)
  PROVE  SignInInv'
<1> DEFINE q == [login[l] EXCEPT !.clerkFailed = TRUE]
<1>1. login[l] \in Login /\ login[l].pc = "profile" /\ LoginOK(login[l])
  BY DEF SignInInv, SignInTypeOK, ProfileFails
<1>2. login' = [login EXCEPT ![l] = Known(q, Nothing)]
  BY DEF ProfileFails, SignInInv, SignInTypeOK
<1>3. /\ q \in Login /\ q.pc = "profile" /\ q.user = login[l].user /\ q.clerk = login[l].clerk
      /\ q.result = login[l].result /\ q.overtaken = login[l].overtaken /\ q.account = login[l].account
  BY <1>1 DEF Login
<1> HIDE DEF q
<1>4. LoginOK(q)
  BY <1>1, <1>3 DEF LoginOK, RowOK, KeyOK, ReadOK
<1>5. Known(q, Nothing) \in Login /\ LoginOK(Known(q, Nothing))
  BY <1>3, <1>4, KnownIsInOrder
<1>6. signInInputs' \in 0 .. MaxSignInInputs
  BY SignInOK DEF SignInInv, SignInTypeOK, ProfileFails, SignInInput
<1> QED
  BY <1>2, <1>5, <1>6, OneLogin DEF ProfileFails, clerk, SignInInv, SignInTypeOK

LEMMA FindByAccountKeeps ==
  ASSUME SignInInv, NEW l \in Logins, FindByAccount(l)
  PROVE  SignInInv'
<1> DEFINE u == Holder("account", login[l].account)
           q == [login[l] EXCEPT !.user = u, !.pc = IF u = Nothing THEN "insert" ELSE "relink"]
<1>1. login[l] \in Login /\ login[l].pc = "find" /\ LoginOK(login[l])
  BY DEF SignInInv, SignInTypeOK, FindByAccount
<1>2. login' = [login EXCEPT ![l] = q]
  BY DEF FindByAccount, SignInInv, SignInTypeOK
<1>3. /\ u \in UserIds \cup {Nothing}
      /\ u = Nothing => Having("account", login[l].account) = {}
      /\ u # Nothing => users[u] # NoUser
  BY HolderFound
<1> HIDE DEF u
<1>4. /\ q \in Login /\ q.user = u /\ q.clerk = login[l].clerk
      /\ q.pc = (IF u = Nothing THEN "insert" ELSE "relink")
      /\ q.result = login[l].result /\ q.overtaken = login[l].overtaken /\ q.account = login[l].account
  BY <1>1, <1>3 DEF Login
<1> HIDE DEF q
<1>5. LoginOK(q)
  BY <1>1, <1>3, <1>4 DEF LoginOK, RowOK, KeyOK, ReadOK
<1> QED
  BY <1>2, <1>4, <1>5, OneLogin DEF FindByAccount, clerk, SignInInv, SignInTypeOK

LEMMA EndLoginKeeps ==
  ASSUME SignInInv, NEW l \in Logins, EndLogin(l, "error"),
         UNCHANGED <<clerk, jwks, aged, users, signInInputs>>
  PROVE  SignInInv'
<1> DEFINE q == [login[l] EXCEPT !.pc = "done", !.result = "error"]
<1>1. login[l] \in Login
  BY DEF SignInInv, SignInTypeOK
<1>2. login' = [login EXCEPT ![l] = q]
  BY DEF EndLogin, SignInInv, SignInTypeOK
<1>3. q \in Login /\ q.pc = "done" /\ q.result = "error"
  BY <1>1 DEF Login
<1> HIDE DEF q
<1>4. LoginOK(q)
  BY <1>3 DEF LoginOK, RowOK, KeyOK, ReadOK
<1> QED
  BY <1>2, <1>3, <1>4, OneLogin DEF clerk, SignInInv, SignInTypeOK

\* A commit overtakes whoever has read users, and takes no row away.
LEMMA WroteKeeps ==
  ASSUME SignInInv, NEW l \in Logins, NEW u \in UserIds, Wrote(l, u),
         users' \in [UserIds -> UserRow \cup {NoUser}],
         \A v \in UserIds : users[v] # NoUser => users'[v] # NoUser,
         UNCHANGED <<clerk, jwks, aged, signInInputs>>
  PROVE  SignInInv'
<1> DEFINE late(m) == login[m].overtaken \/ login[m].pc \notin {"idle", "done"}
           entry(m) == IF m = l THEN [login[l] EXCEPT !.pc = "done", !.result = "ok", !.user = u]
                       ELSE [login[m] EXCEPT !.overtaken = late(m)]
<1>0. login' = [m \in Logins |-> entry(m)]
  BY Zenon DEF Wrote
<1>1. ASSUME NEW m \in Logins
      PROVE  entry(m) \in Login /\ LoginOK(login[m])'
  <2>1. login[m] \in Login /\ LoginOK(login[m]) /\ login'[m] = entry(m)
    BY <1>0, Zenon DEF SignInInv, SignInTypeOK
  <2>2. late(m) \in BOOLEAN
    BY Zenon
  <2>3. ~late(m) => login[m].pc \in {"idle", "done"}
    OBVIOUS
  <2>4. CASE m = l
    <3>1. entry(m) \in Login /\ entry(m).pc = "done" /\ entry(m).result = "ok"
      BY <2>1, <2>4 DEF Login
    <3> HIDE DEF entry
    <3> QED
      BY <2>1, <3>1 DEF LoginOK, RowOK, KeyOK, ReadOK
  <2>5. CASE m # l
    <3> HIDE DEF late
    <3>1. /\ entry(m) \in Login /\ entry(m).overtaken = late(m)
          /\ entry(m).pc = login[m].pc /\ entry(m).user = login[m].user
          /\ entry(m).clerk = login[m].clerk /\ entry(m).account = login[m].account
          /\ entry(m).key = login[m].key /\ entry(m).keys = login[m].keys
          /\ entry(m).result = login[m].result /\ entry(m).steady = login[m].steady
          /\ entry(m).crossed = login[m].crossed
      BY <2>1, <2>2, <2>5 DEF Login
    <3> HIDE DEF entry
    <3>2. RowOK(login[m])'
      BY <2>1, <3>1 DEF LoginOK, RowOK, Login
    <3>3. KeyOK(login[m])'
      BY <2>1, <3>1 DEF LoginOK, KeyOK, clerk
    <3>4. ReadOK(login[m])'
      BY <2>1, <2>3, <3>1 DEF ReadOK
    <3> QED
      BY <3>1, <3>2, <3>3, <3>4 DEF LoginOK
  <2> QED
    BY <2>4, <2>5
<1> HIDE DEF entry
<1>2. login' \in [Logins -> Login]
  BY <1>0, <1>1
<1>3. SignInTypeOK'
  BY <1>1, <1>2 DEF SignInInv, SignInTypeOK, LoginOK, RowOK, clerk
<1> QED
  BY <1>1, <1>3 DEF SignInInv

LEMMA BackfillKeeps ==
  ASSUME SignInInv, NEW l \in Logins, Backfill(l)
  PROVE  SignInInv'
<1> DEFINE a == login[l].account
           w == login[l].user
<1>1. /\ w \in UserIds /\ users[w] # NoUser /\ a \in Accounts \cup {Nothing}
      /\ users \in [UserIds -> UserRow \cup {NoUser}]
  BY DEF SignInInv, SignInTypeOK, Backfill, Login
<1>2. CASE Having("account", a) \ {w} # {}
  BY <1>2, EndLoginKeeps DEF Backfill
<1>3. CASE ~(Having("account", a) \ {w} # {})
  <2>1. /\ users' = [users EXCEPT ![w].account = a] /\ Wrote(l, w)
        /\ UNCHANGED <<clerk, jwks, aged, signInInputs>>
    BY <1>3 DEF Backfill
  <2> HIDE DEF a, w
  <2> DEFINE r == [users[w] EXCEPT !.account = a]
  <2>2. users' = [users EXCEPT ![w] = r]
    BY <1>1, <2>1
  <2>3. users[w] \in UserRow
    BY <1>1
  <2>4. r \in UserRow
    BY <1>1, <2>3 DEF UserRow
  <2> HIDE DEF r
  <2>5. r # NoUser
    BY <2>4, SignInOK DEF UserRow, NoUser
  <2> QED
    BY <1>1, <2>1, <2>2, <2>4, <2>5, WroteKeeps
<1> QED
  BY <1>2, <1>3

LEMMA RelinkKeeps ==
  ASSUME SignInInv, NEW l \in Logins, Relink(l)
  PROVE  SignInInv'
<1> DEFINE k == login[l].clerk
           w == login[l].user
<1>1. /\ w \in UserIds /\ users[w] # NoUser /\ k \in ClerkUsers
      /\ users \in [UserIds -> UserRow \cup {NoUser}]
  BY DEF SignInInv, SignInTypeOK, Relink, Login, LoginOK, RowOK
<1>2. CASE Having("clerk", k) \ {w} # {}
  BY <1>2, EndLoginKeeps DEF Relink
<1>3. CASE ~(Having("clerk", k) \ {w} # {})
  <2>1. /\ users' = [users EXCEPT ![w].clerk = k] /\ Wrote(l, w)
        /\ UNCHANGED <<clerk, jwks, aged, signInInputs>>
    BY <1>3 DEF Relink
  <2> HIDE DEF k, w
  <2> DEFINE r == [users[w] EXCEPT !.clerk = k]
  <2>2. users' = [users EXCEPT ![w] = r]
    BY <1>1, <2>1
  <2>3. users[w] \in UserRow
    BY <1>1
  <2>4. r \in UserRow
    BY <1>1, <2>3 DEF UserRow
  <2> HIDE DEF r
  <2>5. r # NoUser
    BY <2>4, SignInOK DEF UserRow, NoUser
  <2> QED
    BY <1>1, <2>1, <2>2, <2>4, <2>5, WroteKeeps
<1> QED
  BY <1>2, <1>3

LEMMA InsertUserKeeps ==
  ASSUME SignInInv, NEW l \in Logins, InsertUser(l)
  PROVE  SignInInv'
<1> DEFINE q == [login[l] EXCEPT !.pc = "commit"]
           taken == Having("clerk", login[l].clerk) # {}
                      \/ (login[l].account # Nothing /\ Having("account", login[l].account) # {})
<1>1. login[l] \in Login /\ login[l].pc = "insert" /\ LoginOK(login[l])
  BY DEF SignInInv, SignInTypeOK, InsertUser
<1>2. CASE taken
  BY <1>2, EndLoginKeeps DEF InsertUser
<1>3. CASE ~taken
  <2>1. login' = [login EXCEPT ![l] = q] /\ UNCHANGED <<clerk, jwks, aged, users, signInInputs>>
    BY <1>3 DEF InsertUser, SignInInv, SignInTypeOK
  <2>2. /\ q \in Login /\ q.pc = "commit" /\ q.clerk = login[l].clerk /\ q.result = login[l].result
    BY <1>1 DEF Login
  <2> HIDE DEF q
  <2>3. LoginOK(q)
    BY <1>1, <2>2 DEF LoginOK, RowOK, KeyOK, ReadOK
  <2> QED
    BY <2>1, <2>2, <2>3, OneLogin DEF clerk, SignInInv, SignInTypeOK
<1> QED
  BY <1>2, <1>3

LEMMA CommitUserKeeps ==
  ASSUME SignInInv, NEW l \in Logins, CommitUser(l)
  PROVE  SignInInv'
<1> DEFINE u == CHOOSE u \in UserIds : users[u] = NoUser
           r == [clerk |-> login[l].clerk, account |-> login[l].account]
<1>1. users' = [users EXCEPT ![u] = r] /\ Wrote(l, u) /\ UNCHANGED <<clerk, jwks, aged, signInInputs>>
  BY DEF CommitUser
<1>2. u \in UserIds
  BY DEF CommitUser
<1>3. users \in [UserIds -> UserRow \cup {NoUser}]
  BY DEF SignInInv, SignInTypeOK
<1>4. r \in UserRow
  BY DEF SignInInv, SignInTypeOK, CommitUser, Login, LoginOK, RowOK, UserRow
<1> HIDE DEF u, r
<1>5. r # NoUser
  BY <1>4, SignInOK DEF UserRow, NoUser
<1> QED
  BY <1>1, <1>2, <1>3, <1>4, <1>5, WroteKeeps

-----------------------------------------------------------------------------
LEMMA LoginStepKeeps ==
  ASSUME SignInInv, NEW l \in Logins, LoginStep(l)
  PROVE  SignInInv'
  BY FetchKeysKeeps, StoreKeysKeeps, ReturnKeysKeeps, LookupKeeps, GetProfileKeeps, BackfillKeeps,
     FindByAccountKeeps, RelinkKeeps, InsertUserKeeps, CommitUserKeeps DEF LoginStep

LEMMA SignInNextKeeps == SignInInv /\ [SignInNext]_signInVars => SignInInv'
<1> SUFFICES ASSUME SignInInv, [SignInNext]_signInVars PROVE SignInInv'
  OBVIOUS
<1>1. CASE ClerkStep
  BY <1>1, RotateKeeps, LinkKeeps, AgeKeeps DEF ClerkStep
<1>2. ASSUME NEW l \in Logins,
             LoginStep(l) \/ KeysFail(l) \/ ProfileFails(l) \/ Leave(l)
               \/ \E k \in ClerkUsers, key \in Keys : Arrive(l, k, key)
      PROVE  SignInInv'
  BY <1>2, LoginStepKeeps, KeysFailKeeps, ProfileFailsKeeps, LeaveKeeps, ArriveKeeps
<1>3. CASE UNCHANGED signInVars
  BY <1>3 DEF signInVars, SignInInv, SignInTypeOK, LoginOK, RowOK, KeyOK, ReadOK, Having
<1> QED
  BY <1>1, <1>2, <1>3 DEF SignInNext

\* The invariant, in every state a process can be in.
THEOREM SignInInvariant == SignInSpec => []SignInInv
<1> QED
  BY SignInInitially, SignInNextKeeps, PTL DEF SignInSpec

\* Requests, keys, rows and accounts keep their types, and a user that is about to be completed
\* or relinked has a row (ClerkJWTVerifier, get_or_create_user).
THEOREM SignInTypeCorrect == SignInSpec => []SignInTypeOK
<1>1. SignInInv => SignInTypeOK
  BY DEF SignInInv
<1> QED
  BY <1>1, SignInInvariant, PTL

\* A key that Clerk published all the while is never called unknown, unless the request returned
\* a key set that another request put in place of its own (ClerkJWTVerifier.verify).
THEOREM PublishedKeysStayKnown == SignInSpec => []PublishedKeysAreKnown
<1>1. SignInInv => PublishedKeysAreKnown
  BY DEF SignInInv, LoginOK, KeyOK, PublishedKeysAreKnown
<1> QED
  BY <1>1, SignInInvariant, PTL

-----------------------------------------------------------------------------
\* A step that makes a request fail has its reason.
FailuresStep ==
  \A l \in Logins : login'[l].result = "error" /\ login[l].result # "error" => Explained(l)

NoFailure == \A l \in Logins : login'[l].result \in {login[l].result, "ok", "none", "unknown_key"}

LEMMA OneFailure ==
  ASSUME SignInInv, NEW l \in Logins, NEW q, login' = [login EXCEPT ![l] = q],
         q.result = "error" /\ login[l].result # "error" => Explained(l)
  PROVE  FailuresStep
  BY DEF FailuresStep, SignInInv, SignInTypeOK

LEMMA NoneFails ==
  ASSUME SignInInv, NEW l \in Logins, NEW q, login' = [login EXCEPT ![l] = q],
         q.result \in {login[l].result, "ok", "none", "unknown_key"}
  PROVE  NoFailure
  BY DEF NoFailure, SignInInv, SignInTypeOK

LEMMA SearchedDoesNotFail ==
  ASSUME NEW q \in Login, NEW keys
  PROVE  Searched(q, keys).result \in {q.result, "unknown_key"}
  BY DEF Searched, Verified, Login

LEMMA KnownDoesNotFail ==
  ASSUME NEW q \in Login, NEW a
  PROVE  Known(q, a).result \in {q.result, "ok"}
  BY DEF Known, Login

LEMMA ClerkStepFailsNone ==
  ASSUME SignInInv, ClerkStep
  PROVE  NoFailure
<1>1. ASSUME NEW k \in Keys, NEW new \in Keys, Rotate(k, new) PROVE NoFailure
  BY <1>1 DEF Rotate, NoFailure, SignInInv, SignInTypeOK, Login
<1> QED
  BY <1>1 DEF ClerkStep, Link, Age, NoFailure

LEMMA ArriveFailsNone ==
  ASSUME SignInInv, NEW l \in Logins, NEW k \in ClerkUsers, NEW key \in Keys, Arrive(l, k, key)
  PROVE  NoFailure
<1> DEFINE q == [NoLogin EXCEPT !.clerk = k, !.key = key, !.steady = key \in published]
           r == [q EXCEPT !.pc = "fetch"]
<1>1. q \in Login /\ q.result = "none"
  <2>1. (key \in published) \in BOOLEAN
    OBVIOUS
  <2> QED
    BY <2>1 DEF NoLogin, Login
<1>2. \/ login' = [login EXCEPT ![l] = r]
      \/ login' = [login EXCEPT ![l] = Searched(q, jwks)]
  BY DEF Arrive
<1> HIDE DEF q
<1>3. r.result = "none" /\ Searched(q, jwks).result \in {"none", "unknown_key"}
  BY <1>1, SearchedDoesNotFail DEF Login
<1> HIDE DEF r
<1> QED
  BY <1>2, <1>3, NoneFails

LEMMA WroteFailsNone ==
  ASSUME SignInInv, NEW l \in Logins, NEW u, Wrote(l, u)
  PROVE  NoFailure
<1> SUFFICES ASSUME NEW m \in Logins
             PROVE  login'[m].result \in {login[m].result, "ok", "none", "unknown_key"}
  BY DEF NoFailure
<1> DEFINE late == login[m].overtaken \/ login[m].pc \notin {"idle", "done"}
<1>1. login[m] \in Login /\ login[l] \in Login
  BY DEF SignInInv, SignInTypeOK
<1>2. CASE m = l
  <2>1. login'[m] = [login[l] EXCEPT !.pc = "done", !.result = "ok", !.user = u]
    BY <1>2, Zenon DEF Wrote
  <2> QED
    BY <1>1, <2>1 DEF Login
<1>3. CASE m # l
  <2>1. login'[m] = [login[m] EXCEPT !.overtaken = late]
    BY <1>3, Zenon DEF Wrote
  <2> HIDE DEF late
  <2> QED
    BY <1>1, <2>1 DEF Login
<1> QED
  BY <1>2, <1>3

\* A call of Clerk that fails says so, and so does a cache that was taken from under a request.
LEMMA ClerksFailuresExplained ==
  ASSUME SignInInv, NEW l \in Logins, KeysFail(l) \/ ReturnKeys(l)
  PROVE  FailuresStep
<1>1. login[l] \in Login
  BY DEF SignInInv, SignInTypeOK
<1>2. CASE KeysFail(l)
  <2> DEFINE q == [login[l] EXCEPT !.pc = "done", !.result = "error", !.clerkFailed = TRUE]
  <2>1. login' = [login EXCEPT ![l] = q] /\ login'[l] = q
    BY <1>2 DEF KeysFail, SignInInv, SignInTypeOK
  <2>2. q.clerkFailed = TRUE
    BY <1>1 DEF Login
  <2> HIDE DEF q
  <2> QED
    BY <2>1, <2>2, OneFailure DEF Explained
<1>3. CASE ReturnKeys(l)
  <2> DEFINE crossed == login[l].crossed \/ jwks # login[l].keys
             q == [login[l] EXCEPT !.keys = {}, !.crossed = crossed]
             r == [q EXCEPT !.pc = "done", !.result = "error"]
  <2>1. IF jwks = Nothing THEN login' = [login EXCEPT ![l] = r]
        ELSE login' = [login EXCEPT ![l] = Searched(q, jwks)]
    BY <1>3, Zenon DEF ReturnKeys
  <2>2. jwks = Nothing => login'[l].crossed
    BY <1>3, ReturnKeysKeeps
  <2>3. crossed \in BOOLEAN
    BY Zenon
  <2> HIDE DEF crossed
  <2>4. q \in Login /\ q.result = login[l].result
    BY <1>1, <2>3 DEF Login
  <2> HIDE DEF q
  <2>5. Searched(q, jwks).result \in {login[l].result, "unknown_key"}
    BY <2>4, SearchedDoesNotFail
  <2> HIDE DEF r
  <2> QED
    BY <2>1, <2>2, <2>5, OneFailure DEF Explained
<1> QED
  BY <1>2, <1>3

\* The unique index fails a request that was overtaken, or whose account is another user's.
LEMMA IndexFailuresExplained ==
  ASSUME SignInInv, NEW l \in Logins, Backfill(l) \/ Relink(l) \/ InsertUser(l)
  PROVE  FailuresStep \/ NoFailure
<1> DEFINE q == [login[l] EXCEPT !.pc = "done", !.result = "error"]
           r == [login[l] EXCEPT !.pc = "commit"]
<1>1. login[l] \in Login /\ LoginOK(login[l])
  BY DEF SignInInv, SignInTypeOK
<1>2. ASSUME EndLogin(l, "error"), Explained(l) PROVE FailuresStep
  <2>1. login' = [login EXCEPT ![l] = q]
    BY <1>2 DEF EndLogin, SignInInv, SignInTypeOK
  <2> HIDE DEF q
  <2> QED
    BY <1>2, <2>1, OneFailure
<1>3. ASSUME EndLogin(l, "error"), login[l].overtaken PROVE Explained(l)
  <2>1. login'[l] = q
    BY <1>3 DEF EndLogin, SignInInv, SignInTypeOK
  <2>2. q.overtaken = login[l].overtaken
    BY <1>1 DEF Login
  <2> QED
    BY <1>3, <2>1, <2>2 DEF Explained
<1>4. CASE Backfill(l)
  BY <1>1, <1>2, <1>4, WroteFailsNone DEF Backfill, Explained, LoginOK, RowOK
<1>5. CASE Relink(l)
  BY <1>1, <1>2, <1>3, <1>5, WroteFailsNone DEF Relink, LoginOK, ReadOK
<1>6. CASE InsertUser(l)
  <2> DEFINE taken == Having("clerk", login[l].clerk) # {}
                        \/ (login[l].account # Nothing /\ Having("account", login[l].account) # {})
  <2>1. CASE taken
    <3>1. EndLogin(l, "error") /\ login[l].overtaken
      BY <1>1, <1>6, <2>1 DEF InsertUser, LoginOK, ReadOK
    <3> QED
      BY <1>2, <1>3, <3>1
  <2>2. CASE ~taken
    <3>1. login' = [login EXCEPT ![l] = r]
      BY <1>6, <2>2 DEF InsertUser, SignInInv, SignInTypeOK
    <3>2. r.result = login[l].result
      BY <1>1 DEF Login
    <3> HIDE DEF r
    <3> QED
      BY <3>1, <3>2, NoneFails
  <2> QED
    BY <2>1, <2>2
<1> QED
  BY <1>4, <1>5, <1>6

LEMMA OthersFailNone ==
  ASSUME SignInInv, NEW l \in Logins,
         \/ FetchKeys(l) \/ StoreKeys(l) \/ Lookup(l) \/ GetProfile(l) \/ ProfileFails(l)
         \/ FindByAccount(l) \/ CommitUser(l) \/ Leave(l)
  PROVE  NoFailure
<1>1. login[l] \in Login /\ login \in [Logins -> Login]
  BY DEF SignInInv, SignInTypeOK
<1>2. CASE FetchKeys(l)
  <2> DEFINE q == [login[l] EXCEPT !.pc = "store", !.keys = published]
  <2>1. login' = [login EXCEPT ![l] = q] /\ q.result = login[l].result
    BY <1>1, <1>2 DEF FetchKeys, Login
  <2> HIDE DEF q
  <2> QED
    BY <2>1, NoneFails
<1>3. CASE StoreKeys(l)
  <2> DEFINE q == [login[l] EXCEPT !.pc = "return"]
  <2>1. login' = [login EXCEPT ![l] = q] /\ q.result = login[l].result
    BY <1>1, <1>3 DEF StoreKeys, Login
  <2> HIDE DEF q
  <2> QED
    BY <2>1, NoneFails
<1>4. CASE Lookup(l)
  <2> DEFINE u == Holder("clerk", login[l].clerk)
             known == u # Nothing /\ users[u].account # Nothing
             q == [login[l] EXCEPT !.user = u, !.pc = IF known THEN "done" ELSE "profile",
                                   !.result = IF known THEN "ok" ELSE login[l].result]
  <2>1. login' = [login EXCEPT ![l] = q]
    BY <1>1, <1>4 DEF Lookup
  <2> HIDE DEF u, known
  <2>2. q.result \in {"ok", login[l].result}
    BY <1>1 DEF Login
  <2> HIDE DEF q
  <2> QED
    BY <2>1, <2>2, NoneFails
<1>5. CASE GetProfile(l)
  <2> DEFINE q == Known(login[l], profile[login[l].clerk])
  <2>1. login' = [login EXCEPT ![l] = q] /\ q.result \in {login[l].result, "ok"}
    BY <1>1, <1>5, KnownDoesNotFail DEF GetProfile
  <2> HIDE DEF q
  <2> QED
    BY <2>1, NoneFails
<1>6. CASE ProfileFails(l)
  <2> DEFINE p == [login[l] EXCEPT !.clerkFailed = TRUE]
             q == Known(p, Nothing)
  <2>1. login' = [login EXCEPT ![l] = q]
    BY <1>1, <1>6 DEF ProfileFails
  <2>2. p \in Login /\ p.result = login[l].result
    BY <1>1 DEF Login
  <2> HIDE DEF p
  <2>3. q.result \in {login[l].result, "ok"}
    BY <2>2, KnownDoesNotFail
  <2> HIDE DEF q
  <2> QED
    BY <2>1, <2>3, NoneFails
<1>7. CASE FindByAccount(l)
  <2> DEFINE u == Holder("account", login[l].account)
             q == [login[l] EXCEPT !.user = u, !.pc = IF u = Nothing THEN "insert" ELSE "relink"]
  <2>1. login' = [login EXCEPT ![l] = q]
    BY <1>1, <1>7 DEF FindByAccount
  <2> HIDE DEF u
  <2>2. q.result = login[l].result
    BY <1>1 DEF Login
  <2> HIDE DEF q
  <2> QED
    BY <2>1, <2>2, NoneFails
<1>8. CASE CommitUser(l)
  BY <1>8, WroteFailsNone DEF CommitUser
<1>9. CASE Leave(l)
  BY <1>9, NoLoginIsLogin, NoneFails DEF Leave
<1> QED
  BY <1>2, <1>3, <1>4, <1>5, <1>6, <1>7, <1>8, <1>9

LEMMA NextFailuresExplained ==
  ASSUME SignInInv, [SignInNext]_signInVars
  PROVE  [FailuresStep]_signInVars
<1>1. NoFailure => FailuresStep
  BY DEF NoFailure, FailuresStep
<1>2. CASE ClerkStep
  BY <1>1, <1>2, ClerkStepFailsNone
<1>3. ASSUME NEW l \in Logins,
             LoginStep(l) \/ KeysFail(l) \/ ProfileFails(l) \/ Leave(l)
               \/ \E k \in ClerkUsers, key \in Keys : Arrive(l, k, key)
      PROVE  FailuresStep
  BY <1>1, <1>3, ClerksFailuresExplained, IndexFailuresExplained, OthersFailNone, ArriveFailsNone
     DEF LoginStep
<1> QED
  BY <1>2, <1>3 DEF SignInNext

\* A request fails only for a reason: Clerk failed it, another request wrote users or took its
\* key set meanwhile, or its account is another user's (get_or_create_user, get_jwks).
THEOREM FailuresStayExplained == SignInSpec => FailuresAreExplained
<1>1. SignInInv /\ [SignInNext]_signInVars => [FailuresStep]_signInVars
  BY NextFailuresExplained
<1> QED
  BY <1>1, SignInInvariant, PTL DEF SignInSpec, FailuresAreExplained, FailuresStep

-----------------------------------------------------------------------------
(***************************************************************************)
(* The GitHub client.                                                      *)
(***************************************************************************)

(***************************************************************************)
(* Sequences and pages.                                                    *)
(***************************************************************************)
LEMMA ClientConstants ==
  /\ PageSize \in Nat \ {0} /\ MaxAttempts \in Nat \ {0} /\ MaxListed \in Nat \ {0}
  /\ MaxTokens \in Nat /\ MaxApiInputs \in Nat
  /\ \A c \in ApiCalls : Op[c] \in {"list_repos", "list_environments"}
BY ApiOK

LEMMA ToSetIs ==
  ASSUME NEW S, NEW s \in Seq(S)
  PROVE  /\ DOMAIN s = 1 .. Len(s) /\ Len(s) \in Nat /\ ToSet(s) \subseteq S
         /\ \A x : x \in ToSet(s) <=> \E i \in 1 .. Len(s) : x = s[i]
BY DEF ToSet

LEMMA AppendNew ==
  ASSUME NEW S, NEW s \in Seq(S), IsInjective(s), NEW x \in S, x \notin ToSet(s)
  PROVE  /\ Append(s, x) \in Seq(S) /\ IsInjective(Append(s, x))
         /\ Len(Append(s, x)) = Len(s) + 1 /\ ToSet(s) \subseteq ToSet(Append(s, x))
         /\ \A i \in 1 .. Len(s) : Append(s, x)[i] = s[i]
<1>1. /\ Append(s, x) \in Seq(S) /\ Len(Append(s, x)) = Len(s) + 1 /\ Append(s, x)[Len(s) + 1] = x
      /\ \A i \in 1 .. Len(s) : Append(s, x)[i] = s[i]
  BY AppendProperties
<1>2. \A y : y \in ToSet(s) <=> \E i \in 1 .. Len(s) : y = s[i]
  BY ToSetIs
<1>3. \A y : y \in ToSet(Append(s, x)) <=> \E i \in 1 .. Len(s) + 1 : y = Append(s, x)[i]
  <2> DEFINE t == Append(s, x)
  <2>1. t \in Seq(S) /\ Len(t) = Len(s) + 1
    BY <1>1
  <2> HIDE DEF t
  <2>2. \A y : y \in ToSet(t) <=> \E i \in 1 .. Len(t) : y = t[i]
    BY <2>1, ToSetIs
  <2> QED
    BY <2>1, <2>2 DEF t
<1>4. Len(s) \in Nat /\ DOMAIN s = 1 .. Len(s) /\ DOMAIN Append(s, x) = 1 .. Len(s) + 1
  BY <1>1, ToSetIs
<1>5. ToSet(s) \subseteq ToSet(Append(s, x))
  BY <1>1, <1>2, <1>3, <1>4
<1>6. IsInjective(Append(s, x))
  <2> SUFFICES ASSUME NEW i \in 1 .. Len(s) + 1, NEW j \in 1 .. Len(s) + 1, Append(s, x)[i] = Append(s, x)[j]
               PROVE  i = j
    BY <1>4 DEF IsInjective
  <2>1. \A k \in 1 .. Len(s) + 1 : k \in 1 .. Len(s) \/ k = Len(s) + 1
    BY <1>4
  <2>2. \A k \in 1 .. Len(s) : s[k] # x
    BY <1>2
  <2> QED
    BY <1>1, <1>4, <2>1, <2>2 DEF IsInjective
<1> QED
  BY <1>1, <1>5, <1>6

LEMMA RemovedAt ==
  ASSUME NEW S, NEW s \in Seq(S), IsInjective(s), NEW i \in DOMAIN s
  PROVE  /\ RemoveAt(s, i) \in Seq(S) /\ IsInjective(RemoveAt(s, i))
         /\ ToSet(s) \ {s[i]} \subseteq ToSet(RemoveAt(s, i))
<1>1. Len(s) \in Nat /\ DOMAIN s = 1 .. Len(s) /\ i \in 1 .. Len(s)
  BY ToSetIs
<1> DEFINE a == SubSeq(s, 1, i - 1)
           b == SubSeq(s, i + 1, Len(s))
<1>2. /\ a \in Seq(S) /\ Len(a) = i - 1 /\ \A j \in 1 .. i - 1 : a[j] = s[j]
  <2>1. \A j \in 1 .. i - 1 : s[j] \in S
    BY <1>1, ElementOfSeq
  <2> QED
    BY <1>1, <2>1, SubSeqProperties
<1>3. /\ b \in Seq(S) /\ Len(b) = Len(s) - i /\ \A j \in 1 .. Len(s) - i : b[j] = s[i + j]
  <2>1. \A j \in i + 1 .. Len(s) : s[j] \in S
    BY <1>1, ElementOfSeq
  <2> QED
    BY <1>1, <2>1, SubSeqProperties
<1>4. RemoveAt(s, i) = a \o b
  BY DEF RemoveAt
<1> HIDE DEF a, b
<1>5. /\ RemoveAt(s, i) \in Seq(S) /\ Len(RemoveAt(s, i)) = Len(s) - 1
      /\ \A j \in 1 .. Len(s) - 1 : RemoveAt(s, i)[j] = IF j < i THEN s[j] ELSE s[j + 1]
  <2>1. /\ a \o b \in Seq(S) /\ Len(a \o b) = Len(a) + Len(b)
        /\ \A j \in 1 .. Len(a) + Len(b) : (a \o b)[j] = IF j <= Len(a) THEN a[j] ELSE b[j - Len(a)]
    BY <1>2, <1>3, ConcatProperties
  <2>2. Len(a) + Len(b) = Len(s) - 1
    BY <1>1, <1>2, <1>3
  <2>3. ASSUME NEW j \in 1 .. Len(s) - 1
        PROVE  (a \o b)[j] = IF j < i THEN s[j] ELSE s[j + 1]
    <3>1. (a \o b)[j] = IF j <= i - 1 THEN a[j] ELSE b[j - (i - 1)]
      BY <1>2, <2>1, <2>2
    <3>2. CASE j < i
      <4>1. j <= i - 1 /\ j \in 1 .. i - 1
        BY <1>1, <3>2
      <4> QED
        BY <1>2, <3>1, <3>2, <4>1
    <3>3. CASE ~(j < i)
      <4>1. ~(j <= i - 1) /\ j - (i - 1) \in 1 .. Len(s) - i /\ i + (j - (i - 1)) = j + 1
        BY <1>1, <3>3
      <4> QED
        BY <1>3, <3>1, <3>3, <4>1
    <3> QED
      BY <3>2, <3>3
  <2> QED
    BY <1>4, <2>1, <2>2, <2>3
<1>6. DOMAIN RemoveAt(s, i) = 1 .. Len(s) - 1
  BY <1>5, ToSetIs
<1>7. IsInjective(RemoveAt(s, i))
  <2> SUFFICES ASSUME NEW j \in 1 .. Len(s) - 1, NEW k \in 1 .. Len(s) - 1,
                      RemoveAt(s, i)[j] = RemoveAt(s, i)[k]
               PROVE  j = k
    BY <1>6 DEF IsInjective
  <2>1. \A n \in 1 .. Len(s) - 1 : n \in 1 .. Len(s) /\ n + 1 \in 1 .. Len(s)
    BY <1>1
  <2>2. \A m, n \in 1 .. Len(s) : s[m] = s[n] => m = n
    BY <1>1 DEF IsInjective
  <2> DEFINE from(n) == IF n < i THEN n ELSE n + 1
  <2>3. from(j) \in 1 .. Len(s) /\ from(k) \in 1 .. Len(s) /\ s[from(j)] = s[from(k)]
    BY <1>5, <2>1
  <2>4. from(j) = from(k)
    <3> HIDE DEF from
    <3> QED
      BY <2>2, <2>3
  <2> QED
    BY <1>1, <2>4
<1>8. ASSUME NEW x \in ToSet(s) \ {s[i]}
      PROVE  x \in ToSet(RemoveAt(s, i))
  <2>1. PICK j \in 1 .. Len(s) : x = s[j]
    BY ToSetIs
  <2>2. j # i
    BY <2>1
  <2> DEFINE k == IF j < i THEN j ELSE j - 1
  <2>3. k \in 1 .. Len(s) - 1 /\ RemoveAt(s, i)[k] = s[j]
    BY <1>1, <1>5, <2>2
  <2> HIDE DEF k
  <2>4. \E n \in 1 .. Len(RemoveAt(s, i)) : x = RemoveAt(s, i)[n]
    BY <1>5, <2>1, <2>3
  <2> QED
    BY <1>5, <2>4, ToSetIs
<1> QED
  BY <1>5, <1>7, <1>8

\* The position j is on page n just when it follows the n - 1 pages before.
LEMMA PagePositions ==
  ASSUME NEW n \in Nat \ {0}, NEW j \in Nat \ {0}
  PROVE  /\ (n - 1) * PageSize \in Nat
         /\ (j + PageSize - 1) \div PageSize = n
              <=> (n - 1) * PageSize < j /\ j <= (n - 1) * PageSize + PageSize
<1> DEFINE k == (j + PageSize - 1) \div PageSize
           r == (j + PageSize - 1) % PageSize
<1>1. PageSize \in Nat /\ PageSize > 0 /\ n - 1 \in Nat
  BY ClientConstants
<1>2. k \in Nat /\ r \in Nat /\ r < PageSize /\ j + PageSize - 1 = PageSize * k + r
  BY <1>1
<1>3. (n - 1) * PageSize \in Nat /\ n * PageSize = (n - 1) * PageSize + PageSize
  BY <1>1
<1> HIDE DEF k, r
<1>4. k <= n \/ k * PageSize >= n * PageSize + PageSize
  BY <1>1, <1>2
<1>5. k >= n \/ k * PageSize + PageSize <= n * PageSize
  BY <1>1, <1>2
<1>6. k * PageSize \in Nat /\ n * PageSize \in Nat /\ PageSize * k = k * PageSize
  BY <1>1, <1>2
<1>7. k = n => k * PageSize = n * PageSize
  OBVIOUS
<1>8. k = n <=> (n - 1) * PageSize < j /\ j <= (n - 1) * PageSize + PageSize
  BY <1>1, <1>2, <1>3, <1>4, <1>5, <1>6, <1>7
<1> QED
  BY <1>3, <1>8 DEF k

LEMMA Between ==
  ASSUME NEW l \in Nat, NEW size \in Nat, NEW m \in Nat, NEW h,
         h = IF l + size <= m THEN l + size ELSE m, l <= m
  PROVE  h \in Nat /\ h <= m /\ l <= h /\ (h = m \/ h = l + size)
OBVIOUS

LEMMA Above ==
  ASSUME NEW l \in Nat, NEW h \in Nat, NEW j \in 1 .. h
  PROVE  j <= l \/ j \in l + 1 .. h
OBVIOUS

LEMMA Differ ==
  ASSUME NEW l \in Nat, NEW h \in Nat, NEW k, k = h - l
  PROVE  h = l + k
OBVIOUS

\* The pages are the repositories in their order: this one holds those from `from` on, PageSize
\* of them or what is left.
LEMMA PageIs ==
  ASSUME visible \in Seq(Listable), IsInjective(visible), NEW n \in Nat \ {0}
  PROVE  /\ IsFiniteSet(PageOf(n)) /\ Cardinality(PageOf(n)) \in Nat /\ PageOf(n) \subseteq Listable
         /\ (n - 1) * PageSize <= Len(visible) =>
              \E upto \in Nat :
                /\ upto = (n - 1) * PageSize + Cardinality(PageOf(n)) /\ upto <= Len(visible)
                /\ \A i \in 1 .. upto : i <= (n - 1) * PageSize \/ visible[i] \in PageOf(n)
                /\ upto = Len(visible) \/ upto = n * PageSize
<1> DEFINE lo == (n - 1) * PageSize
           hi == IF lo + PageSize <= Len(visible) THEN lo + PageSize ELSE Len(visible)
           I == {j \in DOMAIN visible : (j + PageSize - 1) \div PageSize = n}
           f == [i \in I |-> visible[i]]
<1>1. /\ PageSize \in Nat /\ PageSize > 0 /\ Len(visible) \in Nat /\ DOMAIN visible = 1 .. Len(visible)
      /\ lo \in Nat
  BY ClientConstants, ToSetIs
<1>a. lo + PageSize = n * PageSize
  BY ClientConstants
<1>2. I = lo + 1 .. hi
  <2>1. \A j \in 1 .. Len(visible) :
          (j + PageSize - 1) \div PageSize = n <=> lo < j /\ j <= lo + PageSize
    BY PagePositions
  <2>2. \A j \in I : j \in lo + 1 .. hi
    BY <1>1, <2>1
  <2>3. \A j \in lo + 1 .. hi : j \in I
    <3> TAKE j \in lo + 1 .. hi
    <3>1. j \in 1 .. Len(visible) /\ lo < j /\ j <= lo + PageSize
      BY <1>1
    <3> QED
      BY <1>1, <2>1, <3>1
  <2> QED
    BY <2>2, <2>3
<1>3. PageOf(n) = {visible[i] : i \in I}
  BY DEF PageOf
<1>4. \A i \in I : i \in 1 .. Len(visible) /\ visible[i] \in Listable
  BY <1>1, ElementOfSeq
<1>5. IsFiniteSet(I) /\ (lo <= Len(visible) => Cardinality(I) = hi - lo)
  <2>1. hi \in Int /\ lo + 1 \in Int
    BY <1>1
  <2> HIDE DEF I, hi
  <2>2. IsFiniteSet(lo + 1 .. hi) /\ Cardinality(lo + 1 .. hi) = IF lo + 1 > hi THEN 0 ELSE hi - (lo + 1) + 1
    BY <2>1, FS_Interval
  <2>3. lo <= Len(visible) => lo <= hi
    BY <1>1 DEF hi
  <2> QED
    BY <1>1, <1>2, <2>1, <2>2, <2>3
<1> HIDE DEF I, lo
<1>6. f \in Bijection(I, PageOf(n))
  <2>1. f \in [I -> PageOf(n)] /\ \A x \in PageOf(n) : \E i \in I : f[i] = x
    BY <1>3
  <2>2. \A i, j \in I : f[i] = f[j] => i = j
    BY <1>1, <1>4 DEF IsInjective
  <2> QED
    BY <2>1, <2>2 DEF Bijection, Injection, Surjection, IsInjective
<1>7. IsFiniteSet(PageOf(n)) /\ Cardinality(PageOf(n)) = Cardinality(I)
  <2>1. ExistsBijection(I, PageOf(n))
    BY <1>6 DEF ExistsBijection
  <2> QED
    BY <1>5, <2>1, FS_Bijection
<1>8. Cardinality(PageOf(n)) \in Nat /\ PageOf(n) \subseteq Listable
  BY <1>3, <1>4, <1>7, FS_CardinalityType
<1>9. hi = IF lo + PageSize <= Len(visible) THEN lo + PageSize ELSE Len(visible)
  OBVIOUS
<1> HIDE DEF hi, f
<1>10. ASSUME lo <= Len(visible)
      PROVE  /\ hi \in Nat /\ hi = lo + Cardinality(PageOf(n)) /\ hi <= Len(visible)
             /\ \A i \in 1 .. hi : i <= lo \/ visible[i] \in PageOf(n)
             /\ hi = Len(visible) \/ hi = n * PageSize
  <2>1. hi \in Nat /\ hi <= Len(visible) /\ lo <= hi /\ (hi = Len(visible) \/ hi = lo + PageSize)
    BY <1>1, <1>9, <1>10, Between
  <2>2. hi = Len(visible) \/ hi = n * PageSize
    BY <1>a, <2>1, Zenon
  <2>3. Cardinality(PageOf(n)) = hi - lo
    BY <1>5, <1>7, <1>10, Zenon
  <2>4. hi = lo + Cardinality(PageOf(n))
    <3>1. lo \in Nat /\ hi \in Nat
      BY <1>1, <2>1, Zenon
    <3> HIDE <1>1, <2>1
    <3> QED
      BY <2>3, <3>1, Differ, Zenon
  <2>5. ASSUME NEW i \in 1 .. hi
        PROVE  i <= lo \/ visible[i] \in PageOf(n)
    <3>1. i <= lo \/ i \in lo + 1 .. hi
      <4>1. lo \in Nat /\ hi \in Nat
        BY <1>1, <2>1, Zenon
      <4> QED
        BY <2>5, <4>1, Above, Zenon
    <3>2. i \in lo + 1 .. hi => visible[i] \in PageOf(n)
      BY <1>2, <1>3, Zenon
    <3> QED
      BY <3>1, <3>2, Zenon
  <2> QED
    BY <2>1, <2>2, <2>4, <2>5, Zenon
<1> QED
  BY <1>7, <1>8, <1>10 DEF lo

-----------------------------------------------------------------------------
(***************************************************************************)
(* The inductive invariant.                                                *)
(***************************************************************************)

\* Only a call that was tried again with a token of its own can end as unauthorized.
RequestOK(e) ==
  /\ e.pc # "done" => e.result = "none"
  /\ e.again /\ e.pc = "ask" => e.minted
  /\ e.result = "unauthorized" => e.again /\ e.minted

\* While nothing has left, the calls have read whole pages, and have what was on them.
Listing(e, seen) ==
  /\ e.steady \subseteq ToSet(seen)
  /\ ~e.shrunk =>
       /\ e.count = (e.page - 1) * PageSize /\ e.count <= Len(seen)
       /\ \A i \in 1 .. e.count : seen[i] \in e.listed

Complete(e, op) ==
  e.result = "ok" /\ op = "list_repos" /\ ~e.shrunk /\ e.count < MaxListed => e.steady \subseteq e.listed

CallOK(e, op, n, seen) ==
  /\ e \in ApiCall
  /\ e.pc \in {"store", "ask"} => e.token \in 1 .. n
  /\ RequestOK(e)
  /\ e.pc \notin {"idle", "done"} => Listing(e, seen)
  /\ Complete(e, op)

TokenState == [life: {"fresh", "margin", "expired"}, revoked: BOOLEAN]

SharedOK ==
  /\ tokens \in Seq(TokenState) /\ Len(tokens) <= MaxTokens
  /\ cache \in 0 .. Len(tokens)
  /\ visible \in Seq(Listable) /\ IsInjective(visible)
  /\ inputs \in 0 .. MaxApiInputs

ClientInv ==
  /\ SharedOK
  /\ api \in [ApiCalls -> ApiCall]
  /\ \A c \in ApiCalls : CallOK(api[c], Op[c], Len(tokens), visible)

-----------------------------------------------------------------------------
LEMMA ListableSeq == Visible0 \in Seq(Listable) /\ IsInjective(Visible0)
<1>1. Visible0 \in Seq(ToSet(Visible0)) /\ IsInjective(Visible0)
  BY ApiOK
<1>2. ToSet(Visible0) \subseteq Listable
  BY DEF Listable
<1> QED
  BY <1>1, <1>2

LEMMA NewCallIsOK ==
  ASSUME NEW op, NEW n, NEW seen
  PROVE  /\ CallOK(NoApiCall, op, n, seen)
         /\ NoApiCall.pc = "idle" /\ NoApiCall.result = "none" /\ ~NoApiCall.again
         /\ NoApiCall.page = 1 /\ NoApiCall.count = 0 /\ ~NoApiCall.shrunk
<1>1. 1 \in 1 .. MaxAttempts /\ 1 \in Nat \ {0} /\ 0 \in Nat /\ 0 \in 0 .. MaxTokens
  BY ClientConstants
<1> QED
  BY <1>1 DEF NoApiCall, ApiCall, CallOK, RequestOK, Complete, NoToken

LEMMA ClientInitially == ApiInit => ClientInv
<1> SUFFICES ASSUME ApiInit PROVE ClientInv
  OBVIOUS
<1>1. cache = 0 /\ tokens = <<>> /\ visible = Visible0 /\ inputs = 0
      /\ api = [c \in ApiCalls |-> NoApiCall]
  BY DEF ApiInit, NoToken
<1>2. SharedOK
  <2>1. tokens \in Seq(TokenState) /\ Len(tokens) = 0
    BY <1>1
  <2> QED
    BY <1>1, <2>1, ListableSeq, ClientConstants DEF SharedOK
<1>3. \A c \in ApiCalls : api[c] = NoApiCall
  BY <1>1
<1>4. \A c \in ApiCalls : CallOK(api[c], Op[c], Len(tokens), visible) /\ api[c] \in ApiCall
  <2> TAKE c \in ApiCalls
  <2>1. CallOK(NoApiCall, Op[c], Len(tokens), visible)
    BY NewCallIsOK
  <2> QED
    BY <1>3, <2>1 DEF CallOK
<1> QED
  BY <1>1, <1>2, <1>4 DEF ClientInv

-----------------------------------------------------------------------------
(***************************************************************************)
(* What happens to one entry.                                              *)
(***************************************************************************)
LEMMA Ended ==
  ASSUME NEW op, NEW n, NEW seen, NEW e, CallOK(e, op, n, seen),
         NEW r \in {"ok", "failed", "unauthorized"},
         r = "unauthorized" => e.again /\ e.minted,
         r = "ok" => op = "list_environments"
  PROVE  CallOK([e EXCEPT !.pc = "done", !.result = r], op, n, seen)
<1> DEFINE q == [e EXCEPT !.pc = "done", !.result = r]
<1>1. e \in ApiCall
  BY DEF CallOK
<1>2. q \in ApiCall /\ q.pc = "done" /\ q.result = r /\ q.again = e.again /\ q.minted = e.minted
  BY <1>1 DEF ApiCall
<1> HIDE DEF q
<1>3. RequestOK(q)
  BY <1>2 DEF RequestOK
<1>4. Complete(q, op)
  BY <1>2 DEF Complete
<1>5. CallOK(q, op, n, seen)
  BY <1>2, <1>3, <1>4 DEF CallOK
<1> QED
  BY <1>5 DEF q

LEMMA Retried ==
  ASSUME NEW op, NEW n, NEW seen, NEW e, CallOK(e, op, n, seen), e.tries < MaxAttempts
  PROVE  CallOK([e EXCEPT !.tries = @ + 1], op, n, seen)
<1> DEFINE q == [e EXCEPT !.tries = @ + 1]
<1>1. e \in ApiCall
  BY DEF CallOK
<1>2. e.tries + 1 \in 1 .. MaxAttempts
  BY <1>1, ClientConstants DEF ApiCall
<1>3. /\ q \in ApiCall /\ q.pc = e.pc /\ q.token = e.token /\ q.result = e.result /\ q.again = e.again
      /\ q.minted = e.minted /\ q.page = e.page /\ q.count = e.count /\ q.listed = e.listed
      /\ q.steady = e.steady /\ q.shrunk = e.shrunk
  BY <1>1, <1>2 DEF ApiCall
<1> HIDE DEF q
<1>4. RequestOK(q) /\ Complete(q, op) /\ (Listing(e, seen) => Listing(q, seen))
  BY <1>3 DEF CallOK, RequestOK, Complete, Listing
<1>5. CallOK(q, op, n, seen)
  BY <1>3, <1>4 DEF CallOK
<1> QED
  BY <1>5 DEF q

\* A request that begins, whether with the cached token or without.
LEMMA TokenedIsOK ==
  ASSUME SharedOK, NEW op, NEW e \in ApiCall, e.result = "none", ~e.again, Listing(e, visible)
  PROVE  CallOK(Tokened(e), op, Len(tokens), visible)
<1> DEFINE q == Tokened(e)
           pc == IF Usable(cache) THEN "ask" ELSE "mint"
           t == IF Usable(cache) THEN cache ELSE NoToken
<1>1. Len(tokens) \in Nat /\ Len(tokens) <= MaxTokens /\ cache \in 0 .. Len(tokens)
  BY ToSetIs DEF SharedOK
<1>2. pc \in {"ask", "mint"} /\ t \in 0 .. MaxTokens /\ (pc = "ask" => t \in 1 .. Len(tokens))
  BY <1>1, ClientConstants DEF Usable, NoToken
<1>3. q = [e EXCEPT !.pc = pc, !.token = t, !.minted = FALSE, !.tries = 1]
  BY DEF Tokened
<1>4. 1 \in 1 .. MaxAttempts
  BY ClientConstants
<1> HIDE DEF pc, t, q
<1>5. /\ q \in ApiCall /\ q.pc = pc /\ q.token = t /\ q.result = e.result /\ q.again = e.again
      /\ q.page = e.page /\ q.count = e.count /\ q.listed = e.listed
      /\ q.steady = e.steady /\ q.shrunk = e.shrunk
  BY <1>2, <1>3, <1>4 DEF ApiCall
<1>6. RequestOK(q) /\ Complete(q, op) /\ Listing(q, visible)
  BY <1>2, <1>5 DEF RequestOK, Complete, Listing
<1>7. CallOK(q, op, Len(tokens), visible)
  BY <1>2, <1>5, <1>6 DEF CallOK
<1> QED
  BY <1>7 DEF q

\* More tokens harm no call.
LEMMA MoreTokens ==
  ASSUME NEW op, NEW n \in Nat, NEW m \in Nat, n <= m, NEW seen, NEW e, CallOK(e, op, n, seen)
  PROVE  CallOK(e, op, m, seen)
BY DEF CallOK

LEMMA OneCallMoves ==
  ASSUME ClientInv, NEW c \in ApiCalls, NEW q,
         CallOK(q, Op[c], Len(tokens)', visible),
         api' = [api EXCEPT ![c] = q],
         SharedOK', visible' = visible, Len(tokens) <= Len(tokens)'
  PROVE  ClientInv'
<1>1. Len(tokens) \in Nat /\ Len(tokens)' \in Nat
  BY ToSetIs DEF ClientInv, SharedOK
<1>2. q \in ApiCall
  BY DEF CallOK
<1>3. api' \in [ApiCalls -> ApiCall] /\ \A d \in ApiCalls : api'[d] = IF d = c THEN q ELSE api[d]
  BY <1>2 DEF ClientInv
<1>4. ASSUME NEW d \in ApiCalls
      PROVE  CallOK(api[d], Op[d], Len(tokens), visible)'
  <2>1. CallOK(api[d], Op[d], Len(tokens)', visible)
    BY <1>1, MoreTokens DEF ClientInv
  <2>2. CallOK(api'[d], Op[d], Len(tokens)', visible)
    BY <1>3, <2>1
  <2> QED
    BY <2>2
<1> QED
  BY <1>3, <1>4 DEF ClientInv

-----------------------------------------------------------------------------
(***************************************************************************)
(* One lemma per action.                                                   *)
(***************************************************************************)
LEMMA TokensOfGitHub ==
  ASSUME ClientInv, NEW t \in DOMAIN tokens, ExpireToken(t) \/ RevokeToken(t)
  PROVE  ClientInv'
<1>1. /\ tokens \in Seq(TokenState) /\ Len(tokens) <= MaxTokens
      /\ cache \in 0 .. Len(tokens) /\ visible \in Seq(Listable) /\ IsInjective(visible)
      /\ inputs \in 0 .. MaxApiInputs
  BY DEF ClientInv, SharedOK
<1>2. Len(tokens) \in Nat /\ DOMAIN tokens = 1 .. Len(tokens)
  BY <1>1, ToSetIs
<1>3. cache' = cache /\ visible' = visible /\ api' = api
  BY DEF ExpireToken, RevokeToken
<1>4. inputs' \in 0 .. MaxApiInputs
  BY <1>1, ClientConstants DEF ExpireToken, RevokeToken, ApiInput
<1>5. tokens[t] \in TokenState
  BY <1>1, <1>2, ElementOfSeq
<1>6. \E s \in TokenState : tokens' = [tokens EXCEPT ![t] = s]
  <2>1. CASE ExpireToken(t)
    <3> DEFINE life == IF tokens[t].life = "fresh" THEN "margin" ELSE "expired"
    <3>1. tokens' = [tokens EXCEPT ![t] = [tokens[t] EXCEPT !.life = life]]
      BY <2>1 DEF ExpireToken
    <3>2. [tokens[t] EXCEPT !.life = life] \in TokenState
      BY <1>5 DEF TokenState
    <3> QED
      BY <3>1, <3>2
  <2>2. CASE RevokeToken(t)
    <3>1. tokens' = [tokens EXCEPT ![t] = [tokens[t] EXCEPT !.revoked = TRUE]]
      BY <2>2 DEF RevokeToken
    <3>2. [tokens[t] EXCEPT !.revoked = TRUE] \in TokenState
      BY <1>5 DEF TokenState
    <3> QED
      BY <3>1, <3>2
  <2> QED
    BY <2>1, <2>2
<1>7. tokens' \in Seq(TokenState) /\ Len(tokens)' = Len(tokens)
  BY <1>1, <1>2, <1>6, ExceptSeq
<1>8. SharedOK'
  BY <1>1, <1>3, <1>4, <1>7 DEF SharedOK
<1>9. \A c \in ApiCalls : CallOK(api[c], Op[c], Len(tokens), visible)'
  BY <1>3, <1>7 DEF ClientInv
<1> QED
  BY <1>3, <1>8, <1>9 DEF ClientInv

LEMMA RepositoryAdded ==
  ASSUME ClientInv, NEW p \in Newcomers, AddVisible(p)
  PROVE  ClientInv'
<1>1. /\ tokens \in Seq(TokenState) /\ Len(tokens) <= MaxTokens
      /\ cache \in 0 .. Len(tokens) /\ visible \in Seq(Listable) /\ IsInjective(visible)
      /\ inputs \in 0 .. MaxApiInputs
  BY DEF ClientInv, SharedOK
<1>2. cache' = cache /\ tokens' = tokens /\ api' = api /\ visible' = Append(visible, p)
  BY DEF AddVisible
<1>3. p \in Listable /\ p \notin ToSet(visible)
  BY DEF AddVisible, Listable
<1>4. inputs' \in 0 .. MaxApiInputs
  BY <1>1, ClientConstants DEF AddVisible, ApiInput
<1>5. /\ visible' \in Seq(Listable) /\ IsInjective(visible') /\ Len(visible') = Len(visible) + 1
      /\ ToSet(visible) \subseteq ToSet(visible')
      /\ \A i \in 1 .. Len(visible) : visible'[i] = visible[i]
  BY <1>1, <1>2, <1>3, AppendNew
<1>6. SharedOK'
  BY <1>1, <1>2, <1>4, <1>5 DEF SharedOK
<1>7. ASSUME NEW c \in ApiCalls
      PROVE  CallOK(api[c], Op[c], Len(tokens), visible)'
  <2> DEFINE e == api[c]
  <2>1. CallOK(e, Op[c], Len(tokens), visible)
    BY DEF ClientInv
  <2> HIDE DEF e
  <2>2. ASSUME Listing(e, visible)
        PROVE  Listing(e, visible')
    <3>1. Len(visible) \in Nat /\ e.count \in Nat
      BY <1>1, <2>1, ToSetIs DEF CallOK, ApiCall
    <3>2. e.steady \subseteq ToSet(visible')
      BY <1>5, <2>2 DEF Listing
    <3>3. ASSUME ~e.shrunk
          PROVE  /\ e.count = (e.page - 1) * PageSize /\ e.count <= Len(visible')
                 /\ \A i \in 1 .. e.count : visible'[i] \in e.listed
      <4>1. /\ e.count = (e.page - 1) * PageSize /\ e.count <= Len(visible)
            /\ \A i \in 1 .. e.count : visible[i] \in e.listed
        BY <2>2, <3>3 DEF Listing
      <4>2. \A i \in 1 .. e.count : i \in 1 .. Len(visible)
        BY <3>1, <4>1
      <4>3. e.count <= Len(visible')
        BY <1>5, <3>1, <4>1
      <4> QED
        BY <1>5, <4>1, <4>2, <4>3, Zenon
    <3> QED
      BY <3>2, <3>3 DEF Listing
  <2>3. CallOK(e, Op[c], Len(tokens), visible')
    BY <2>1, <2>2 DEF CallOK
  <2> QED
    BY <1>2, <2>3 DEF e
<1> QED
  BY <1>2, <1>6, <1>7 DEF ClientInv

\* A repository that leaves: the calls that are under way count as shrunk, and claim no more.
LEMMA RepositoryRemoved ==
  ASSUME ClientInv, NEW i \in DOMAIN visible, DropVisible(i)
  PROVE  ClientInv'
<1>1. /\ tokens \in Seq(TokenState) /\ Len(tokens) <= MaxTokens
      /\ cache \in 0 .. Len(tokens) /\ visible \in Seq(Listable) /\ IsInjective(visible)
      /\ inputs \in 0 .. MaxApiInputs
  BY DEF ClientInv, SharedOK
<1>2. cache' = cache /\ tokens' = tokens /\ visible' = RemoveAt(visible, i)
  BY DEF DropVisible
<1>3. inputs' \in 0 .. MaxApiInputs
  <2>1. inputs < MaxApiInputs /\ inputs' = inputs + 1
    BY DEF DropVisible, ApiInput
  <2> QED
    BY <1>1, <2>1, ClientConstants
<1>4. /\ visible' \in Seq(Listable) /\ IsInjective(visible')
      /\ ToSet(visible) \ {visible[i]} \subseteq ToSet(visible')
  BY <1>1, <1>2, RemovedAt
<1>5. SharedOK'
  BY <1>1, <1>2, <1>3, <1>4 DEF SharedOK
<1> DEFINE x == visible[i]
           q(e) == [e EXCEPT !.steady = @ \ {x}, !.shrunk = @ \/ e.pc # "idle"]
<1>6. api' = [c \in ApiCalls |-> q(api[c])]
  BY DEF DropVisible
<1> HIDE DEF x
<1>7. ASSUME NEW e, NEW op, CallOK(e, op, Len(tokens), visible)
      PROVE  CallOK(q(e), op, Len(tokens), visible')
  <2>1. e \in ApiCall
    BY <1>7 DEF CallOK
  <2>2. /\ q(e) \in ApiCall /\ q(e).pc = e.pc /\ q(e).token = e.token /\ q(e).result = e.result
        /\ q(e).again = e.again /\ q(e).minted = e.minted
        /\ q(e).steady = e.steady \ {x} /\ (e.pc # "idle" => q(e).shrunk)
    BY <2>1 DEF ApiCall
  <2> HIDE DEF q
  <2>3. RequestOK(q(e))
    BY <1>7, <2>2 DEF CallOK, RequestOK
  <2>4. Complete(q(e), op)
    BY <1>7, <2>2 DEF CallOK, RequestOK, Complete
  <2>5. e.pc \notin {"idle", "done"} => Listing(q(e), visible')
    <3> SUFFICES ASSUME e.pc \notin {"idle", "done"} PROVE Listing(q(e), visible')
      OBVIOUS
    <3>1. e.steady \subseteq ToSet(visible)
      BY <1>7 DEF CallOK, Listing
    <3>2. q(e).steady \subseteq ToSet(visible')
      BY <1>4, <2>2, <3>1 DEF x
    <3> QED
      BY <2>2, <3>2 DEF Listing
  <2> QED
    BY <1>7, <2>2, <2>3, <2>4, <2>5 DEF CallOK
<1> HIDE DEF q
<1>8. ASSUME NEW c \in ApiCalls
      PROVE  CallOK(api[c], Op[c], Len(tokens), visible)' /\ api'[c] \in ApiCall
  <2>1. CallOK(api[c], Op[c], Len(tokens), visible)
    BY DEF ClientInv
  <2>2. CallOK(q(api[c]), Op[c], Len(tokens), visible')
    BY <1>7, <2>1
  <2>3. api'[c] = q(api[c])
    BY <1>6
  <2>4. CallOK(api'[c], Op[c], Len(tokens), visible')
    BY <2>2, <2>3
  <2> QED
    BY <1>2, <2>4 DEF CallOK
<1>9. api' \in [ApiCalls -> ApiCall]
  BY <1>6, <1>8
<1> QED
  BY <1>5, <1>8, <1>9 DEF ClientInv

LEMMA TokenMinted ==
  ASSUME ClientInv, NEW c \in ApiCalls, Mint(c)
  PROVE  ClientInv'
<1>1. /\ tokens \in Seq(TokenState) /\ Len(tokens) < MaxTokens
      /\ cache \in 0 .. Len(tokens) /\ visible \in Seq(Listable) /\ IsInjective(visible)
      /\ inputs \in 0 .. MaxApiInputs
  BY DEF ClientInv, SharedOK, Mint
<1>2. cache' = cache /\ visible' = visible /\ inputs' = inputs
  BY DEF Mint
<1>3. Len(tokens) \in Nat
  BY <1>1, ToSetIs
<1>4. tokens' \in Seq(TokenState) /\ Len(tokens)' = Len(tokens) + 1
  <2> DEFINE new == [life |-> "fresh", revoked |-> FALSE]
  <2>1. new \in TokenState
    BY DEF TokenState
  <2>2. tokens' = Append(tokens, new)
    BY DEF Mint
  <2> HIDE DEF new
  <2>3. Append(tokens, new) \in Seq(TokenState) /\ Len(Append(tokens, new)) = Len(tokens) + 1
    BY <1>1, <2>1, AppendProperties
  <2> QED
    BY <2>2, <2>3
<1>5. SharedOK'
  BY <1>1, <1>2, <1>3, <1>4, ClientConstants DEF SharedOK
<1> DEFINE e == api[c]
           q == [e EXCEPT !.pc = "store", !.token = Len(tokens) + 1]
<1>6. CallOK(e, Op[c], Len(tokens), visible) /\ e.pc = "mint" /\ e \in ApiCall
  BY DEF ClientInv, CallOK, Mint
<1>7. api' = [api EXCEPT ![c] = q]
  BY DEF Mint
<1>8. Len(tokens) + 1 \in 0 .. MaxTokens /\ Len(tokens) + 1 \in 1 .. Len(tokens) + 1
  BY <1>1, <1>3, ClientConstants
<1> HIDE DEF e
<1>9. /\ q \in ApiCall /\ q.pc = "store" /\ q.token = Len(tokens) + 1 /\ q.result = e.result
      /\ q.again = e.again /\ q.minted = e.minted /\ q.page = e.page /\ q.count = e.count
      /\ q.listed = e.listed /\ q.steady = e.steady /\ q.shrunk = e.shrunk
  BY <1>6, <1>8 DEF ApiCall
<1> HIDE DEF q
<1>10. RequestOK(q) /\ Complete(q, Op[c]) /\ Listing(q, visible)
  BY <1>6, <1>9 DEF CallOK, RequestOK, Complete, Listing
<1>11. CallOK(q, Op[c], Len(tokens) + 1, visible)
  BY <1>8, <1>9, <1>10 DEF CallOK
<1>12. CallOK(q, Op[c], Len(tokens)', visible)
  BY <1>4, <1>11
<1>13. Len(tokens) <= Len(tokens)'
  BY <1>3, <1>4
<1> QED
  BY <1>2, <1>5, <1>7, <1>12, <1>13, OneCallMoves

LEMMA TokenStored ==
  ASSUME ClientInv, NEW c \in ApiCalls, StoreToken(c)
  PROVE  ClientInv'
<1> DEFINE e == api[c]
           q == [e EXCEPT !.pc = "ask", !.minted = TRUE, !.tries = 1]
<1>1. CallOK(e, Op[c], Len(tokens), visible) /\ e.pc = "store" /\ e \in ApiCall
  BY DEF ClientInv, CallOK, StoreToken
<1>2. api' = [api EXCEPT ![c] = q]
  BY DEF StoreToken
<1>3. cache' = e.token /\ tokens' = tokens /\ visible' = visible /\ inputs' = inputs
  BY DEF StoreToken
<1> HIDE DEF e
<1>4. 1 \in 1 .. MaxAttempts
  BY ClientConstants
<1>5. /\ q \in ApiCall /\ q.pc = "ask" /\ q.token = e.token /\ q.result = e.result
      /\ q.again = e.again /\ q.minted /\ q.page = e.page /\ q.count = e.count
      /\ q.listed = e.listed /\ q.steady = e.steady /\ q.shrunk = e.shrunk
  BY <1>1, <1>4 DEF ApiCall
<1> HIDE DEF q
<1>6. RequestOK(q) /\ Complete(q, Op[c]) /\ Listing(q, visible)
  BY <1>1, <1>5 DEF CallOK, RequestOK, Complete, Listing
<1>7. e.token \in 1 .. Len(tokens)
  BY <1>1 DEF CallOK
<1>8. CallOK(q, Op[c], Len(tokens), visible)
  BY <1>5, <1>6, <1>7 DEF CallOK
<1>9. SharedOK' /\ Len(tokens) <= Len(tokens)'
  <2>1. Len(tokens) \in Nat
    BY ToSetIs DEF ClientInv, SharedOK
  <2>2. cache' \in 0 .. Len(tokens)
    BY <1>3, <1>7, <2>1
  <2> QED
    BY <1>3, <2>1, <2>2 DEF ClientInv, SharedOK
<1> QED
  BY <1>2, <1>3, <1>8, <1>9, OneCallMoves

\* A step that changes nothing shared but perhaps the count of inputs.
LEMMA NothingShared ==
  ASSUME ClientInv, UNCHANGED <<cache, tokens, visible>>, inputs' = inputs \/ ApiInput
  PROVE  /\ SharedOK' /\ visible' = visible /\ Len(tokens)' = Len(tokens) /\ Len(tokens) <= Len(tokens)'
         /\ Len(tokens) \in Nat
<1>1. Len(tokens) \in Nat
  BY ToSetIs DEF ClientInv, SharedOK
<1>2. inputs' \in 0 .. MaxApiInputs
  BY ClientConstants DEF ClientInv, SharedOK, ApiInput
<1> QED
  BY <1>1, <1>2 DEF ClientInv, SharedOK

LEMMA CallEnds ==
  ASSUME ClientInv, NEW c \in ApiCalls, NEW r \in {"ok", "failed", "unauthorized"}, EndCall(c, r),
         r = "unauthorized" => api[c].again /\ api[c].minted,
         r = "ok" => Op[c] = "list_environments",
         UNCHANGED <<cache, tokens, visible>>, inputs' = inputs \/ ApiInput
  PROVE  ClientInv'
<1> DEFINE q == [api[c] EXCEPT !.pc = "done", !.result = r]
<1>1. api' = [api EXCEPT ![c] = q]
  BY DEF EndCall
<1>2. CallOK(q, Op[c], Len(tokens), visible)
  BY Ended DEF ClientInv
<1> HIDE DEF q
<1>3. /\ SharedOK' /\ visible' = visible /\ Len(tokens)' = Len(tokens) /\ Len(tokens) <= Len(tokens)'
  BY NothingShared
<1>4. CallOK(q, Op[c], Len(tokens)', visible)
  BY <1>2, <1>3
<1> QED
  BY <1>1, <1>3, <1>4, OneCallMoves

LEMMA CallBegins ==
  ASSUME ClientInv, NEW c \in ApiCalls, CallGitHub(c)
  PROVE  ClientInv'
<1> DEFINE e == [NoApiCall EXCEPT !.steady = ToSet(visible)]
           q == Tokened(e)
<1>1. SharedOK /\ visible \in Seq(Listable)
  BY DEF ClientInv, SharedOK
<1>2. UNCHANGED <<cache, tokens, visible, inputs>> /\ api' = [api EXCEPT ![c] = q]
  BY DEF CallGitHub
<1>3. Len(visible) \in Nat /\ ToSet(visible) \subseteq Listable
  BY <1>1, ToSetIs
<1>4. /\ CallOK(NoApiCall, Op[c], 0, visible)
      /\ NoApiCall.result = "none" /\ ~NoApiCall.again
      /\ NoApiCall.page = 1 /\ NoApiCall.count = 0 /\ ~NoApiCall.shrunk
  BY NewCallIsOK
<1>5. NoApiCall \in ApiCall
  BY <1>4 DEF CallOK
<1>6. /\ e \in ApiCall /\ e.result = "none" /\ ~e.again /\ e.page = 1 /\ e.count = 0
      /\ e.steady = ToSet(visible)
  <2> HIDE DEF NoApiCall
  <2> QED
    BY <1>3, <1>4, <1>5 DEF ApiCall
<1> HIDE DEF e
<1>7. Listing(e, visible)
  <2>1. PageSize \in Nat /\ (1 - 1) * PageSize = 0
    BY ClientConstants
  <2>2. e.count = (e.page - 1) * PageSize /\ e.count <= Len(visible) /\ 1 .. e.count = {}
    BY <1>3, <1>6, <2>1
  <2> QED
    BY <1>6, <2>2 DEF Listing
<1>8. CallOK(q, Op[c], Len(tokens), visible)
  BY <1>1, <1>6, <1>7, TokenedIsOK
<1> HIDE DEF q
<1>9. SharedOK' /\ visible' = visible /\ Len(tokens)' = Len(tokens) /\ Len(tokens) <= Len(tokens)'
  BY <1>2, NothingShared
<1>10. CallOK(q, Op[c], Len(tokens)', visible)
  BY <1>8, <1>9
<1> QED
  BY <1>2, <1>9, <1>10, OneCallMoves

LEMMA AttemptFails ==
  ASSUME ClientInv, NEW c \in ApiCalls, TransientError(c)
  PROVE  ClientInv'
<1>1. UNCHANGED <<cache, tokens, visible>> /\ ApiInput
  BY DEF TransientError
<1>2. CASE EndCall(c, "failed")
  BY <1>1, <1>2, CallEnds
<1>3. CASE api[c].tries < MaxAttempts /\ api' = [api EXCEPT ![c].tries = @ + 1]
  <2> DEFINE q == [api[c] EXCEPT !.tries = @ + 1]
  <2>1. api' = [api EXCEPT ![c] = q]
    BY <1>3
  <2>2. CallOK(q, Op[c], Len(tokens), visible)
    BY <1>3, Retried DEF ClientInv
  <2> HIDE DEF q
  <2>3. SharedOK' /\ visible' = visible /\ Len(tokens)' = Len(tokens) /\ Len(tokens) <= Len(tokens)'
    BY <1>1, NothingShared
  <2>4. CallOK(q, Op[c], Len(tokens)', visible)
    BY <2>2, <2>3
  <2> QED
    BY <2>1, <2>3, <2>4, OneCallMoves
<1> QED
  BY <1>2, <1>3 DEF TransientError

LEMMA OtherAnswer ==
  ASSUME ClientInv, NEW c \in ApiCalls, OtherStatus(c)
  PROVE  ClientInv'
<1>1. UNCHANGED <<cache, tokens, visible>> /\ ApiInput
  BY DEF OtherStatus
<1>2. CASE EndCall(c, "failed")
  BY <1>1, <1>2, CallEnds
<1>3. CASE Op[c] = "list_environments" /\ EndCall(c, "ok")
  BY <1>1, <1>3, CallEnds
<1> QED
  BY <1>2, <1>3 DEF OtherStatus

\* The first 401 evicts and mints, the second ends a call whose token was its own.
LEMMA NotAuthorized ==
  ASSUME ClientInv, NEW c \in ApiCalls, Unauthorized(c)
  PROVE  ClientInv'
<1> DEFINE e == api[c]
           q == [e EXCEPT !.again = TRUE, !.pc = "mint", !.tries = 1, !.token = NoToken,
                          !.minted = FALSE]
<1>1. UNCHANGED <<tokens, visible, inputs>> /\ e.pc = "ask"
  BY DEF Unauthorized
<1>2. CallOK(e, Op[c], Len(tokens), visible) /\ e \in ApiCall
  BY DEF ClientInv, CallOK
<1>3. CASE e.again /\ EndCall(c, "unauthorized") /\ UNCHANGED cache
  <2>1. e.minted
    BY <1>1, <1>2, <1>3 DEF CallOK, RequestOK
  <2> QED
    BY <1>1, <1>3, <2>1, CallEnds
<1>4. CASE cache' = NoToken /\ api' = [api EXCEPT ![c].again = TRUE, ![c].pc = "mint", ![c].tries = 1,
                                ![c].token = NoToken, ![c].minted = FALSE]
  <2>1. api' = [api EXCEPT ![c] = q]
    BY <1>4
  <2> HIDE DEF e
  <2>2. 1 \in 1 .. MaxAttempts /\ NoToken \in 0 .. MaxTokens
    BY ClientConstants DEF NoToken
  <2>3. /\ q \in ApiCall /\ q.pc = "mint" /\ q.result = e.result /\ q.page = e.page
        /\ q.count = e.count /\ q.listed = e.listed /\ q.steady = e.steady /\ q.shrunk = e.shrunk
    BY <1>2, <2>2 DEF ApiCall
  <2> HIDE DEF q
  <2>4. RequestOK(q) /\ Complete(q, Op[c]) /\ Listing(q, visible)
    BY <1>1, <1>2, <2>3 DEF CallOK, RequestOK, Complete, Listing
  <2>5. CallOK(q, Op[c], Len(tokens), visible)
    BY <2>3, <2>4 DEF CallOK
  <2>6. Len(tokens) \in Nat
    BY ToSetIs DEF ClientInv, SharedOK
  <2>7. SharedOK' /\ Len(tokens)' = Len(tokens) /\ Len(tokens) <= Len(tokens)'
    BY <1>1, <1>4, <2>6 DEF ClientInv, SharedOK, NoToken
  <2>8. CallOK(q, Op[c], Len(tokens)', visible)
    BY <2>5, <2>7
  <2> QED
    BY <1>1, <2>1, <2>7, <2>8, OneCallMoves
<1> QED
  BY <1>3, <1>4 DEF Unauthorized

\* What an answer adds to a call that nothing left meanwhile: it then has the first repositories
\* as far as it counts, and if some are still to come it has whole pages.
LEMMA PageRead ==
  ASSUME visible \in Seq(Listable), IsInjective(visible),
         NEW e \in ApiCall, Listing(e, visible), ~e.shrunk,
         NEW page, page = PageOf(e.page), NEW count, count = e.count + Cardinality(page)
  PROVE  /\ count \in Nat /\ count <= Len(visible)
         /\ \A i \in 1 .. count : visible[i] \in e.listed \cup page
         /\ count = Len(visible) \/ count = ((e.page + 1) - 1) * PageSize
<1>1. e.page \in Nat \ {0} /\ e.count \in Nat
  BY DEF ApiCall
<1>2. /\ e.count = (e.page - 1) * PageSize /\ e.count <= Len(visible)
      /\ \A i \in 1 .. e.count : visible[i] \in e.listed
  BY DEF Listing
<1>3. PICK upto \in Nat :
        /\ upto = (e.page - 1) * PageSize + Cardinality(PageOf(e.page)) /\ upto <= Len(visible)
        /\ \A i \in 1 .. upto : i <= (e.page - 1) * PageSize \/ visible[i] \in PageOf(e.page)
        /\ upto = Len(visible) \/ upto = e.page * PageSize
  <2>1. (e.page - 1) * PageSize <= Len(visible)
    BY <1>2, Zenon
  <2> QED
    BY <1>1, <2>1, PageIs, Zenon
<1>4. upto = count
  BY <1>2, <1>3, Zenon
<1>5. \A i \in 1 .. upto : i <= e.count \/ visible[i] \in page
  BY <1>2, <1>3, Zenon
<1>6. ASSUME NEW i \in 1 .. upto
      PROVE  visible[i] \in e.listed \cup page
  <2>1. i <= e.count => i \in 1 .. e.count
    BY <1>1, <1>3, <1>6
  <2> QED
    BY <1>2, <1>5, <2>1, Zenon
<1>7. (e.page + 1) - 1 = e.page
  BY <1>1
<1> QED
  BY <1>3, <1>4, <1>6, <1>7, Zenon

LEMMA PageAnswered ==
  ASSUME ClientInv, NEW c \in ApiCalls, Answered(c)
  PROVE  ClientInv'
<1> DEFINE e == api[c]
           page == PageOf(e.page)
           count == e.count + Cardinality(page)
           entry == [e EXCEPT !.count = count, !.listed = @ \cup page]
           last == [entry EXCEPT !.pc = "done", !.result = "ok"]
           more == [entry EXCEPT !.page = @ + 1, !.again = FALSE]
<1>1. UNCHANGED <<cache, tokens, visible, inputs>> /\ e.pc = "ask"
  BY DEF Answered
<1>2. CallOK(e, Op[c], Len(tokens), visible) /\ e \in ApiCall
  BY DEF ClientInv, CallOK
<1>3. visible \in Seq(Listable) /\ IsInjective(visible) /\ SharedOK
  BY DEF ClientInv, SharedOK
<1>4. \/ Op[c] = "list_environments" /\ EndCall(c, "ok")
      \/ Op[c] # "list_environments" /\ AllListed(count) /\ api' = [api EXCEPT ![c] = last]
      \/ ~AllListed(count) /\ api' = [api EXCEPT ![c] = Tokened(more)]
  BY DEF Answered
<1> HIDE DEF e
<1>5. Listing(e, visible) /\ e.result = "none" /\ e.steady \subseteq ToSet(visible)
  BY <1>1, <1>2 DEF CallOK, RequestOK, Listing
<1>6. /\ e.page \in Nat \ {0} /\ e.count \in Nat /\ e.listed \subseteq Listable
      /\ e.steady \subseteq Listable
  BY <1>2 DEF ApiCall
<1>7. Cardinality(page) \in Nat /\ page \subseteq Listable
  BY <1>3, <1>6, PageIs, Zenon
<1> HIDE DEF page
<1>8. count \in Nat
  BY <1>6, <1>7
<1>9. ~e.shrunk =>
        /\ count <= Len(visible) /\ \A i \in 1 .. count : visible[i] \in e.listed \cup page
        /\ count = Len(visible) \/ count = ((e.page + 1) - 1) * PageSize
  <2>1. page = PageOf(e.page) /\ count = e.count + Cardinality(page)
    BY DEF page
  <2> HIDE DEF count
  <2>2. ASSUME ~e.shrunk
        PROVE  /\ count <= Len(visible) /\ \A i \in 1 .. count : visible[i] \in e.listed \cup page
               /\ count = Len(visible) \/ count = ((e.page + 1) - 1) * PageSize
    <3> HIDE DEF entry, last, more
    <3>1. e \in ApiCall /\ Listing(e, visible) /\ ~e.shrunk
      BY <1>2, <1>5, <2>2
    <3>2. visible \in Seq(Listable) /\ IsInjective(visible)
      BY <1>3
    <3> HIDE DEF page
    <3> QED
      BY <2>1, <3>1, <3>2, PageRead
  <2> QED
    BY <2>2
<1> HIDE DEF count
<1>10. Len(visible) \in Nat /\ \A x : x \in ToSet(visible) <=> \E i \in 1 .. Len(visible) : x = visible[i]
  BY <1>3, ToSetIs
<1>11. /\ SharedOK' /\ visible' = visible /\ Len(tokens)' = Len(tokens) /\ Len(tokens) <= Len(tokens)'
  BY <1>1, NothingShared
<1>12. CASE Op[c] = "list_environments" /\ EndCall(c, "ok")
  BY <1>1, <1>12, CallEnds
<1>13. CASE AllListed(count) /\ api' = [api EXCEPT ![c] = last]
  <2>1. /\ last \in ApiCall /\ last.pc = "done" /\ last.result = "ok" /\ last.count = count
        /\ last.listed = e.listed \cup page /\ last.steady = e.steady /\ last.shrunk = e.shrunk
    BY <1>2, <1>6, <1>7, <1>8 DEF ApiCall
  <2> HIDE DEF last
  <2>2. ASSUME ~e.shrunk, count < MaxListed
        PROVE  e.steady \subseteq e.listed \cup page
    <3>1. count = Len(visible)
      <4>1. count <= Len(visible)
        BY <1>9, <2>2, Zenon
      <4>2. count >= Len(visible)
        BY <1>8, <1>13, <2>2, ClientConstants DEF AllListed
      <4> QED
        BY <1>8, <1>10, <4>1, <4>2
    <3>2. \A i \in 1 .. Len(visible) : visible[i] \in e.listed \cup page
      BY <1>9, <2>2, <3>1, Zenon
    <3> SUFFICES ASSUME NEW x \in e.steady PROVE x \in e.listed \cup page
      OBVIOUS
    <3>3. x \in ToSet(visible)
      BY <1>5
    <3>4. PICK i \in 1 .. Len(visible) : x = visible[i]
      BY <1>10, <3>3
    <3> QED
      BY <3>2, <3>4, Zenon
  <2>3. Complete(last, Op[c])
    BY <2>1, <2>2 DEF Complete
  <2>4. RequestOK(last)
    BY <2>1 DEF RequestOK
  <2>5. CallOK(last, Op[c], Len(tokens), visible)
    BY <2>1, <2>3, <2>4 DEF CallOK
  <2>6. CallOK(last, Op[c], Len(tokens)', visible)
    BY <1>11, <2>5
  <2> QED
    BY <1>11, <1>13, <2>6, OneCallMoves
<1>14. CASE ~AllListed(count) /\ api' = [api EXCEPT ![c] = Tokened(more)]
  <2>1. e.page + 1 \in Nat \ {0}
    BY <1>6
  <2>2. /\ more \in ApiCall /\ more.result = "none" /\ ~more.again /\ more.count = count
        /\ more.page = e.page + 1 /\ more.listed = e.listed \cup page /\ more.steady = e.steady
        /\ more.shrunk = e.shrunk
    BY <1>2, <1>5, <1>6, <1>7, <1>8, <2>1 DEF ApiCall
  <2> HIDE DEF more
  <2>3. ASSUME ~e.shrunk
        PROVE  count = ((e.page + 1) - 1) * PageSize
    <3>1. ~(count = Len(visible))
      BY <1>8, <1>10, <1>14 DEF AllListed
    <3> QED
      BY <1>9, <2>3, <3>1, Zenon
  <2>4. Listing(more, visible)
    <3>1. more.steady \subseteq ToSet(visible)
      BY <1>5, <2>2, Zenon
    <3>2. ASSUME ~more.shrunk
          PROVE  /\ more.count = (more.page - 1) * PageSize /\ more.count <= Len(visible)
                 /\ \A i \in 1 .. more.count : visible[i] \in more.listed
      <4>1. ~e.shrunk /\ more.count = count /\ more.listed = e.listed \cup page /\ more.page = e.page + 1
        BY <2>2, <3>2, Zenon
      <4>2. count = ((e.page + 1) - 1) * PageSize /\ count <= Len(visible)
        BY <1>9, <2>3, <4>1, Zenon
      <4>3. \A i \in 1 .. count : visible[i] \in e.listed \cup page
        BY <1>9, <4>1, Zenon
      <4>4. \A i \in 1 .. more.count : visible[i] \in more.listed
        BY <4>1, <4>3, Zenon
      <4>5. more.count = (more.page - 1) * PageSize /\ more.count <= Len(visible)
        <5>1. (more.page - 1) * PageSize = ((e.page + 1) - 1) * PageSize
          BY <4>1
        <5>2. more.count = (more.page - 1) * PageSize
          BY <4>1, <4>2, <5>1
        <5>3. more.count <= Len(visible)
          BY <4>1, <4>2
        <5> QED
          BY <5>2, <5>3
      <4> QED
        BY <4>4, <4>5
    <3> QED
      BY <3>1, <3>2, Zenon DEF Listing
  <2>5. CallOK(Tokened(more), Op[c], Len(tokens), visible)
    BY <1>3, <2>2, <2>4, TokenedIsOK
  <2>6. CallOK(Tokened(more), Op[c], Len(tokens)', visible)
    BY <1>11, <2>5
  <2> QED
    BY <1>11, <1>14, <2>6, OneCallMoves
<1> QED
  BY <1>4, <1>12, <1>13, <1>14

-----------------------------------------------------------------------------
LEMMA ClientStep ==
  ASSUME ClientInv, [ApiNext]_apiVars
  PROVE  ClientInv'
<1>1. CASE UNCHANGED apiVars
  BY <1>1 DEF apiVars, ClientInv, SharedOK
<1>2. CASE GitHubSide
  BY <1>2, TokensOfGitHub, RepositoryAdded, RepositoryRemoved DEF GitHubSide
<1>3. ASSUME NEW c \in ApiCalls,
             CallGitHub(c) \/ ApiStep(c) \/ TransientError(c) \/ OtherStatus(c)
      PROVE  ClientInv'
  BY <1>3, CallBegins, TokenMinted, TokenStored, NotAuthorized, PageAnswered, AttemptFails, OtherAnswer
     DEF ApiStep
<1> QED
  BY <1>1, <1>2, <1>3 DEF ApiNext

LEMMA ClientInvariant == ApiSpec => []ClientInv
  BY ClientInitially, ClientStep, PTL DEF ApiSpec

\* The cache, the tokens, the calls and the repositories keep their types: a call asks only with
\* a token that was minted, and no repository is listed by GitHub twice.
THEOREM ClientTypeCorrect == ApiSpec => []ApiTypeOK
<1>1. ClientInv => ApiTypeOK
  <2> SUFFICES ASSUME ClientInv PROVE ApiTypeOK
    OBVIOUS
  <2>1. tokens \in Seq(TokenState) /\ DOMAIN tokens = 1 .. Len(tokens)
    BY ToSetIs DEF ClientInv, SharedOK
  <2>2. tokens \in Seq([life : {"fresh", "margin", "expired"}, revoked : BOOLEAN])
    BY <2>1 DEF TokenState
  <2>3. \A c \in ApiCalls : api[c].pc \in {"store", "ask"} => api[c].token \in DOMAIN tokens
    BY <2>1 DEF ClientInv, CallOK
  <2> QED
    BY <2>2, <2>3 DEF ApiTypeOK, ClientInv, SharedOK
<1> QED
  BY <1>1, ClientInvariant, PTL

\* A call that fails with a 401 had been tried again, with a token minted for it.
THEOREM OnlyItsOwnTokenFails == ApiSpec => []UnauthorizedOnlyByItsOwn
<1>1. ClientInv => UnauthorizedOnlyByItsOwn
  BY DEF ClientInv, CallOK, RequestOK, UnauthorizedOnlyByItsOwn
<1> QED
  BY <1>1, ClientInvariant, PTL

\* A list that ends short of the limit has every repository that was visible all the while, for
\* any number of repositories and any size of page, if none left meanwhile.
THEOREM NothingSteadyIsMissed == ApiSpec => []ListsAreComplete
<1>1. ClientInv => ListsAreComplete
  BY DEF ClientInv, CallOK, Complete, ListsAreComplete
<1> QED
  BY <1>1, ClientInvariant, PTL
=============================================================================
