--------------------------- MODULE GitHubClient -----------------------------
(***************************************************************************)
(* The GitHub client of one installation: concurrent calls share a cached  *)
(* installation token, mint one when it is missing or about to expire,     *)
(* evict it on a 401 and try once more, retry what is transient, and page  *)
(* through the repositories of an installation that changes meanwhile.     *)
(***************************************************************************)
EXTENDS Integers, FiniteSets, SequencesExt

CONSTANTS
  ApiCalls,
  Op,                    \* what each call is: list_repos or list_environments
  Visible0, Newcomers,   \* repositories: in GitHub's order at first, and those added later
  PageSize,
  MaxAttempts,           \* _MAX_ATTEMPTS
  MaxListed,             \* _MAX_REPOS
  MaxTokens, MaxApiInputs   \* bounds: tokens, and what happens to tokens, repositories, requests

ASSUME ApiOK ==
  /\ Op \in [ApiCalls -> {"list_repos", "list_environments"}]
  /\ {PageSize, MaxAttempts, MaxListed} \subseteq Nat \ {0}
  /\ MaxTokens \in Nat /\ MaxApiInputs \in Nat
  /\ Visible0 \in Seq(ToSet(Visible0)) /\ IsInjective(Visible0)

Listable == ToSet(Visible0) \cup Newcomers
Token == 1 .. MaxTokens
NoToken == 0

ApiCall == [pc: {"idle", "mint", "store", "ask", "done"},
            token: 0 .. MaxTokens, again: BOOLEAN,   \* again: after a 401
            tries: 1 .. MaxAttempts,
            page: Nat \ {0}, count: Nat, listed: SUBSET Listable,
            result: {"none", "ok", "unauthorized", "failed"},
            minted: BOOLEAN,             \* history: its token was minted for this request
            steady: SUBSET Listable,     \* history: visible since the call began
            shrunk: BOOLEAN]             \* history: a repository left since
NoApiCall == [pc |-> "idle", token |-> NoToken, again |-> FALSE, tries |-> 1,
              page |-> 1, count |-> 0, listed |-> {}, result |-> "none", minted |-> FALSE,
              steady |-> {}, shrunk |-> FALSE]

VARIABLES
  cache,      \* _token_cache of the installation
  tokens,     \* what became of the tokens minted so far
  visible,    \* the installation's repositories
  api,        \* the calls
  inputs      \* bounded by MaxApiInputs

apiVars == <<cache, tokens, visible, api, inputs>>

ApiTypeOK ==
  /\ cache \in 0 .. Len(tokens)
  /\ tokens \in Seq([life: {"fresh", "margin", "expired"}, revoked: BOOLEAN]) /\ Len(tokens) <= MaxTokens
  /\ visible \in Seq(Listable) /\ IsInjective(visible)
  /\ api \in [ApiCalls -> ApiCall]
  /\ \A c \in ApiCalls : api[c].pc \in {"store", "ask"} => api[c].token \in DOMAIN tokens
  /\ inputs \in 0 .. MaxApiInputs

ApiInit ==
  /\ cache = NoToken /\ tokens = <<>>
  /\ visible = Visible0
  /\ api = [c \in ApiCalls |-> NoApiCall]
  /\ inputs = 0

ApiInput == inputs < MaxApiInputs /\ inputs' = inputs + 1

-----------------------------------------------------------------------------
(***************************************************************************)
(* GitHub                                                                  *)
(***************************************************************************)

Valid(t) == tokens[t].life # "expired" /\ ~tokens[t].revoked

\* First within _TOKEN_EXPIRY_MARGIN of its end, then past it.
ExpireToken(t) ==
  /\ ApiInput /\ tokens[t].life # "expired"
  /\ tokens' = [tokens EXCEPT ![t].life = IF @ = "fresh" THEN "margin" ELSE "expired"]
  /\ UNCHANGED <<cache, visible, api>>

RevokeToken(t) ==
  /\ ApiInput /\ ~tokens[t].revoked
  /\ tokens' = [tokens EXCEPT ![t].revoked = TRUE]
  /\ UNCHANGED <<cache, visible, api>>

AddVisible(p) ==
  /\ ApiInput /\ p \notin ToSet(visible)
  /\ visible' = Append(visible, p)
  /\ UNCHANGED <<cache, tokens, api>>

DropVisible(i) ==
  /\ ApiInput
  /\ visible' = RemoveAt(visible, i)
  /\ api' = [c \in ApiCalls |->
       [api[c] EXCEPT !.steady = @ \ {visible[i]}, !.shrunk = @ \/ api[c].pc # "idle"]]
  /\ UNCHANGED <<cache, tokens>>

GitHubSide ==
  \/ \E t \in DOMAIN tokens : ExpireToken(t) \/ RevokeToken(t)
  \/ \E p \in Newcomers : AddVisible(p)
  \/ \E i \in DOMAIN visible : DropVisible(i)

-----------------------------------------------------------------------------
(***************************************************************************)
(* get_installation_token                                                  *)
(***************************************************************************)

Usable(t) == t # NoToken /\ tokens[t].life = "fresh"

\* The cached token, or one to be minted.
Tokened(entry) ==
  [entry EXCEPT !.pc = IF Usable(cache) THEN "ask" ELSE "mint",
                !.token = IF Usable(cache) THEN cache ELSE NoToken,
                !.minted = FALSE, !.tries = 1]

\* GitHub mints; the answer is on its way.
Mint(c) ==
  /\ api[c].pc = "mint" /\ Len(tokens) < MaxTokens
  /\ tokens' = Append(tokens, [life |-> "fresh", revoked |-> FALSE])
  /\ api' = [api EXCEPT ![c].pc = "store", ![c].token = Len(tokens) + 1]
  /\ UNCHANGED <<cache, visible, inputs>>

StoreToken(c) ==
  /\ api[c].pc = "store"
  /\ cache' = api[c].token
  /\ api' = [api EXCEPT ![c].pc = "ask", ![c].minted = TRUE, ![c].tries = 1]
  /\ UNCHANGED <<tokens, visible, inputs>>

-----------------------------------------------------------------------------
(***************************************************************************)
(* list_repos, list_environments, _authed_request, _request_with_retry     *)
(***************************************************************************)

CallGitHub(c) ==
  /\ api[c].pc = "idle"
  /\ api' = [api EXCEPT ![c] = Tokened([NoApiCall EXCEPT !.steady = ToSet(visible)])]
  /\ UNCHANGED <<cache, tokens, visible, inputs>>

EndCall(c, result) == api' = [api EXCEPT ![c].pc = "done", ![c].result = result]

\* Fault: one attempt too many.
FaultyTransientError(c) ==
  /\ api[c].pc \in {"mint", "ask"}
  /\ ApiInput
  /\ IF api[c].tries <= MaxAttempts THEN api' = [api EXCEPT ![c].tries = @ + 1] ELSE EndCall(c, "failed")
  /\ UNCHANGED <<cache, tokens, visible>>
\* A transport error, 429, 502, 503 or 504: the same request again, or the error at last.
TransientError(c) ==
  /\ api[c].pc \in {"mint", "ask"}
  /\ ApiInput
  /\ IF api[c].tries < MaxAttempts THEN api' = [api EXCEPT ![c].tries = @ + 1] ELSE EndCall(c, "failed")
  /\ UNCHANGED <<cache, tokens, visible>>

\* Any other error status raises, the app JWT's 401 among them; not the 403 and 404 of
\* list_environments, which are an empty list.
OtherStatus(c) ==
  /\ api[c].pc \in {"mint", "ask"}
  /\ ApiInput
  /\ \/ EndCall(c, "failed")
     \/ api[c].pc = "ask" /\ Op[c] = "list_environments" /\ EndCall(c, "ok")
  /\ UNCHANGED <<cache, tokens, visible>>

\* Fault: the cached token is taken once more.
FaultyUnauthorized(c) ==
  /\ api[c].pc = "ask" /\ ~Valid(api[c].token)
  /\ IF api[c].again THEN EndCall(c, "unauthorized")
     ELSE api' = [api EXCEPT ![c] = Tokened([@ EXCEPT !.again = TRUE])]
  /\ UNCHANGED <<cache, tokens, visible, inputs>>
\* Fault: evicted, and retried for as long as it takes, with the token in hand.
FaultyEndlessUnauthorized(c) ==
  /\ api[c].pc = "ask" /\ ~Valid(api[c].token)
  /\ cache' = NoToken
  /\ api' = [api EXCEPT ![c].again = TRUE]
  /\ UNCHANGED <<tokens, visible, inputs>>
\* A 401: evict whatever is cached by now and mint, once.
Unauthorized(c) ==
  /\ api[c].pc = "ask" /\ ~Valid(api[c].token)
  /\ IF api[c].again THEN EndCall(c, "unauthorized") /\ UNCHANGED cache
     ELSE /\ cache' = NoToken
          /\ api' = [api EXCEPT ![c].again = TRUE, ![c].pc = "mint", ![c].tries = 1,
                                ![c].token = NoToken, ![c].minted = FALSE]
  /\ UNCHANGED <<tokens, visible, inputs>>

\* GitHub's.
PageOf(n) == {visible[i] : i \in {j \in DOMAIN visible : (j + PageSize - 1) \div PageSize = n}}

\* Fault: what is left is taken to be on the page that came.
FaultyAllListed(count) == count + PageSize > Len(visible) \/ count >= MaxListed
\* As many are collected as there are by this answer's total_count.
AllListed(count) == count >= Len(visible) \/ count >= MaxListed

Answered(c) ==
  LET page == PageOf(api[c].page)
      count == api[c].count + Cardinality(page)
      entry == [api[c] EXCEPT !.count = count, !.listed = @ \cup page] IN
  /\ api[c].pc = "ask" /\ Valid(api[c].token)
  /\ IF Op[c] = "list_environments" THEN EndCall(c, "ok")
     ELSE IF AllListed(count)
       THEN api' = [api EXCEPT ![c] = [entry EXCEPT !.pc = "done", !.result = "ok"]]
     ELSE api' = [api EXCEPT ![c] = Tokened([entry EXCEPT !.page = @ + 1, !.again = FALSE])]
  /\ UNCHANGED <<cache, tokens, visible, inputs>>

-----------------------------------------------------------------------------
ApiStep(c) == Mint(c) \/ StoreToken(c) \/ Unauthorized(c) \/ Answered(c)

ApiNext ==
  \/ GitHubSide
  \/ \E c \in ApiCalls : CallGitHub(c) \/ ApiStep(c) \/ TransientError(c) \/ OtherStatus(c)

ApiSpec == ApiInit /\ [][ApiNext]_apiVars

\* A call that was made goes on.
ApiFairness == \A c \in ApiCalls : WF_apiVars(ApiStep(c))

-----------------------------------------------------------------------------
(***************************************************************************)
(* Properties                                                              *)
(***************************************************************************)

\* Only a token minted for the very request can make it fail with a 401: what another call
\* left in the cache costs a retry and never an error.
UnauthorizedOnlyByItsOwn ==
  \A c \in ApiCalls : api[c].result = "unauthorized" => api[c].again /\ api[c].minted

\* What was visible all the while is listed, whatever was added meanwhile.  A repository that
\* leaves shifts the pages, and one that stays may then be missed.
ListsAreComplete ==
  \A c \in ApiCalls :
    api[c].result = "ok" /\ Op[c] = "list_repos" /\ ~api[c].shrunk /\ api[c].count < MaxListed =>
      api[c].steady \subseteq api[c].listed

\* Calls end: the 401s, the retries and the pages of a list that grows and shrinks.  There are
\* finitely many here, so in the end none is left under way.
CallsEnd == <>[](\A c \in ApiCalls : api[c].pc \in {"idle", "done"})
=============================================================================
