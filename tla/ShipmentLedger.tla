--------------------------- MODULE ShipmentLedger ---------------------------
(***************************************************************************)
(* What attribution promises one workspace: a production shipment carries  *)
(* the pull requests that landed since the shipment before it, each of     *)
(* them once.  There are no windows here: a landed pull request waits in   *)
(* `unshipped` until the next shipment takes everything that waits.  Only  *)
(* the first shipment looks at ages: it leaves behind, for good, what      *)
(* landed LookBack or more before it.                                      *)
(***************************************************************************)
EXTENDS Integers

CONSTANTS PRs, Shipments, LookBack

VARIABLES
  landed,     \* when each pull request landed, 0 while it has not
  unshipped,  \* landed and not yet taken by a shipment
  shipped,    \* the shipments so far
  ledger      \* which shipment carried which pull request

vars == <<landed, unshipped, shipped, ledger>>

Init ==
  /\ landed = [p \in PRs |-> 0]
  /\ unshipped = {}
  /\ shipped = {}
  /\ ledger = {}

\* p lands, at whatever time.
Land(p) ==
  /\ landed[p] = 0
  /\ landed' \in [PRs -> Nat]
  /\ landed'[p] # 0
  /\ \A q \in PRs \ {p} : landed'[q] = landed[q]
  /\ unshipped' = unshipped \cup {p}
  /\ UNCHANGED <<shipped, ledger>>

Carried(s) ==
  {p \in unshipped : shipped = {} => landed[p] > s.at - LookBack}

ShipOut(s) ==
  /\ s \notin shipped
  /\ shipped' = shipped \cup {s}
  /\ ledger' = ledger \cup {[event |-> s, pr |-> p] : p \in Carried(s)}
  /\ unshipped' = {}
  /\ UNCHANGED landed

Next ==
  \/ \E p \in PRs : Land(p)
  \/ \E s \in shipped' : s \in Shipments /\ ShipOut(s)

Spec == Init /\ [][Next]_vars

\* A pull request is carried by at most one shipment (attribution_service
\* links it to "the first production deployment that follows its merge").
CarriedOnce ==
  \A a, b \in ledger : a.pr = b.pr => a = b

\* What has been carried no longer waits, and only landed work is carried.
Conserved ==
  \A a \in ledger : a.pr \notin unshipped /\ landed[a.pr] # 0 /\ a.event \in shipped
=============================================================================
