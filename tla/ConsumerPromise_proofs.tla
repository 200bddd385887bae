------------------------- MODULE ConsumerPromise_proofs -------------------------
(* What the promise to consumers is worth: its actions alone, whoever      *)
(* implements them, keep payable claims on disjoint documents.             *)
EXTENDS ConsumerPromise, TLAPS

LEMMA MovedStep ==
    ASSUME PromiseTypeOK, NEW refused \in SUBSET Claims, NEW paid \in SUBSET Claims,
           NEW keys \in SUBSET Keys, Moved(refused, paid, keys)
    PROVE  /\ PromiseTypeOK'
           /\ Payable' = paid \union (Payable \ refused)
           /\ \A c \in paid : grounds'[c] = keys
           /\ \A c \in Payable \ (refused \union paid) : grounds'[c] = grounds[c]
BY DEF Moved, PromiseTypeOK, Payable

(* No two payable claims ever share a document key, for any claims and     *)
(* keys: what a consumer of is_consumable relies on.                       *)
THEOREM PromiseSound == PromiseSpec => []DisjointGrounds
<1>1. PromiseInit => PromiseTypeOK /\ DisjointGrounds
  BY DEF PromiseInit, PromiseTypeOK, DisjointGrounds, Payable
<1>2. ASSUME PromiseTypeOK, DisjointGrounds, [PromiseNext]_promiseVars
      PROVE  PromiseTypeOK' /\ DisjointGrounds'
  <2>1. ASSUME NEW withdrawn \in SUBSET Payable, NEW refused \in SUBSET Claims,
               Moved(withdrawn \union refused, {}, {})
        PROVE  PromiseTypeOK' /\ DisjointGrounds'
    <3>1. Payable \subseteq Claims
      BY DEF Payable
    <3>2. /\ PromiseTypeOK'
          /\ Payable' = Payable \ (withdrawn \union refused)
          /\ \A c \in Payable \ (withdrawn \union refused) : grounds'[c] = grounds[c]
      BY <1>2, <2>1, <3>1, MovedStep
    <3>3. QED
      BY <1>2, <3>2 DEF DisjointGrounds
  <2>2. ASSUME NEW withdrawn \in SUBSET Payable, NEW c \in Claims,
               NEW keys \in SUBSET Keys, Pay(c, keys, withdrawn)
        PROVE  PromiseTypeOK' /\ DisjointGrounds'
    <3>1. c \notin Payable /\ Payable \subseteq Claims
      BY <2>2 DEF Pay, Payable
    <3>2. /\ PromiseTypeOK'
          /\ Payable' = {c} \union (Payable \ withdrawn)
          /\ grounds'[c] = keys
          /\ \A d \in Payable \ withdrawn : grounds'[d] = grounds[d]
      <4>1. Moved(withdrawn, {c}, keys)
        BY <2>2 DEF Pay
      <4>2. withdrawn \in SUBSET Claims /\ {c} \in SUBSET Claims
        BY <3>1
      <4>3. /\ PromiseTypeOK'
            /\ Payable' = {c} \union (Payable \ withdrawn)
            /\ \A e \in {c} : grounds'[e] = keys
            /\ \A d \in Payable \ (withdrawn \union {c}) : grounds'[d] = grounds[d]
        BY <1>2, <4>1, <4>2, MovedStep
      <4>4. QED
        BY <3>1, <4>3
    <3>3. \A d \in Payable \ withdrawn : grounds[d] \cap keys = {}
      BY <2>2 DEF Pay
    <3>4. QED
      BY <1>2, <3>1, <3>2, <3>3 DEF DisjointGrounds
  <2>3. ASSUME NEW withdrawn \in SUBSET Payable, Withdraw(withdrawn)
        PROVE  PromiseTypeOK' /\ DisjointGrounds'
    <3>1. withdrawn \union {} = withdrawn
      OBVIOUS
    <3>2. QED
      BY <2>1, <2>3, <3>1 DEF Withdraw
  <2>4. ASSUME NEW withdrawn \in SUBSET Payable, NEW c \in Claims, Refuse(c, withdrawn)
        PROVE  PromiseTypeOK' /\ DisjointGrounds'
    <3>1. Moved(withdrawn \union {c}, {}, {}) /\ {c} \in SUBSET Claims
      BY <2>4 DEF Refuse
    <3>2. QED
      BY <2>1, <3>1
  <2>5. CASE UNCHANGED promiseVars
    BY <1>2, <2>5 DEF promiseVars, PromiseTypeOK, DisjointGrounds, Payable
  <2>6. QED
    BY <1>2, <2>2, <2>3, <2>4, <2>5 DEF PromiseNext
<1>3. QED
  BY <1>1, <1>2, PTL DEF PromiseSpec
===============================================================================
