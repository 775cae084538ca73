------------------------ MODULE ShipmentLedgerProofs ------------------------
(***************************************************************************)
(* The abstract ledger keeps its promise: every pull request that landed   *)
(* is carried at most once, and never waits again afterwards.              *)
(***************************************************************************)
EXTENDS ShipmentLedger, TLAPS

LedgerInv ==
  /\ landed \in [PRs -> Nat]
  /\ unshipped \subseteq PRs
  /\ \A p \in unshipped : landed[p] # 0
  /\ \A a \in ledger : a = [event |-> a.event, pr |-> a.pr] /\ a.pr \in PRs
  /\ Conserved
  /\ CarriedOnce

LEMMA LandKeeps ==
  ASSUME LedgerInv, NEW p \in PRs, Land(p)
  PROVE  LedgerInv'
<1>1. /\ landed[p] = 0 /\ landed' \in [PRs -> Nat] /\ landed'[p] # 0
      /\ unshipped' = unshipped \cup {p} /\ shipped' = shipped /\ ledger' = ledger
      /\ \A q \in PRs \ {p} : landed'[q] = landed[q]
  BY DEF Land
<1>2. \A a \in ledger : a.pr # p
  BY <1>1 DEF LedgerInv, Conserved
<1>3. Conserved'
  BY <1>1, <1>2 DEF LedgerInv, Conserved
<1>4. CarriedOnce'
  BY <1>1 DEF LedgerInv, CarriedOnce
<1> QED
  BY <1>1, <1>3, <1>4 DEF LedgerInv

LEMMA ShipOutKeeps ==
  ASSUME LedgerInv, NEW s, ShipOut(s)
  PROVE  LedgerInv'
<1>1. /\ shipped' = shipped \cup {s} /\ unshipped' = {} /\ landed' = landed
      /\ ledger' = ledger \cup {[event |-> s, pr |-> p] : p \in Carried(s)}
  BY DEF ShipOut
<1>2. Carried(s) \subseteq unshipped
  BY DEF Carried
<1>3. ASSUME NEW a \in ledger'
      PROVE  \/ a \in ledger
             \/ a = [event |-> s, pr |-> a.pr] /\ a.pr \in unshipped
  BY <1>1, <1>2
<1>4. Conserved'
  BY <1>1, <1>3 DEF LedgerInv, Conserved
<1>5. CarriedOnce'
  <2> SUFFICES ASSUME NEW a \in ledger', NEW b \in ledger', a.pr = b.pr PROVE a = b
    BY DEF CarriedOnce
  <2>1. CASE a \in ledger /\ b \in ledger
    BY <2>1 DEF LedgerInv, CarriedOnce
  <2>2. CASE a \notin ledger /\ b \notin ledger
    BY <1>3, <2>2
  <2>3. CASE a \in ledger /\ b \notin ledger
    BY <1>3, <2>3 DEF LedgerInv, Conserved
  <2>4. CASE a \notin ledger /\ b \in ledger
    BY <1>3, <2>4 DEF LedgerInv, Conserved
  <2> QED
    BY <2>1, <2>2, <2>3, <2>4
<1>6. \A a \in ledger' : a = [event |-> a.event, pr |-> a.pr] /\ a.pr \in PRs
  BY <1>3 DEF LedgerInv
<1> QED
  BY <1>1, <1>4, <1>5, <1>6 DEF LedgerInv

\* At most one shipment carries a pull request, and what one carries has
\* landed and no longer waits for another.
THEOREM LedgerIsSound == Spec => [](CarriedOnce /\ Conserved)
<1>1. Init => LedgerInv
  BY DEF Init, LedgerInv, Conserved, CarriedOnce
<1>2. LedgerInv /\ [Next]_vars => LedgerInv'
  <2>1. LedgerInv /\ UNCHANGED vars => LedgerInv'
    BY DEF vars, LedgerInv, Conserved, CarriedOnce
  <2> QED
    BY <2>1, LandKeeps, ShipOutKeeps DEF Next
<1>3. LedgerInv => CarriedOnce /\ Conserved
  BY DEF LedgerInv
<1> QED
  BY <1>1, <1>2, <1>3, PTL DEF Spec
=============================================================================
