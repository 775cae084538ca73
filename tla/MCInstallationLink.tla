------------------------- MODULE MCInstallationLink -------------------------
(* An instance of InstallationLink for TLC, with SignIn, which every request *)
(* of it goes through first, and GitHubClient, which it asks for             *)
(* repositories.  The three share no state and each is started in any state  *)
(* the others can be in, so a behaviour is one of a single part, the others  *)
(* at rest: interleaving them would reach nothing new.                       *)
EXTENDS InstallationLink, GitHubClient, SignIn, TLC

CONSTANTS t1, t2, u1, v1, v2, v3, a1, a2

VARIABLE part

\* One owner of two workspaces that may share an installation; another user has none.
MCOwner == (t1 :> u1) @@ (t2 :> u1)
\* Calls meet in the token cache only.
MCOp == (a1 :> "list_repos") @@ (a2 :> "list_environments")
MCVisible == <<v1, v2, v3>>

LinkPart == part = "link" /\ UNCHANGED <<part, apiVars, signInVars>>
ApiPart == part = "github" /\ UNCHANGED <<part, vars, signInVars>>
SignInPart == part = "sign_in" /\ UNCHANGED <<part, vars, apiVars>>

MCInit ==
  /\ part \in {"link", "github", "sign_in"}
  /\ Init /\ ApiInit /\ SignInInit
  /\ part # "link" => account = [i \in Installs |-> Org]
  /\ part # "sign_in" =>
       users = [u \in UserIds |-> NoUser] /\ profile = [k \in ClerkUsers |-> Nothing]

MCNext ==
  \/ LinkPart /\ Next
  \/ ApiPart /\ ApiNext
  \/ SignInPart /\ SignInNext

MCSystemStep ==
  \/ LinkPart /\ SystemStep
  \/ ApiPart /\ \E c \in ApiCalls : ApiStep(c)
  \/ SignInPart /\ \E l \in Logins : LoginStep(l)

allVars == <<part, vars, apiVars, signInVars>>

\* What was begun goes on: the fairness of each part, which steps alone.
MCSpec == MCInit /\ [][MCNext]_allVars /\ WF_allVars(MCSystemStep)
=============================================================================
