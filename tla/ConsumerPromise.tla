---------------------------- MODULE ConsumerPromise ----------------------------
(***************************************************************************)
(* What the contract promises a consumer that pays claims out: each claim  *)
(* is open, payable, or refused.  An open claim is settled once; payment   *)
(* can be withdrawn from any payable claims at any time, and refusal is    *)
(* final; and no two claims are payable on the same document key.          *)
(*                                                                         *)
(* Nothing here speaks of rounds, registries, cooldowns or policies.       *)
(* Module ClaimPromise shows that the claim ledger implements it.          *)
(***************************************************************************)
CONSTANTS
    Claims,         \* the claims that may ever be submitted
    Keys            \* the document keys a payable claim may rest on

VARIABLES
    stage,          \* "open", "payable" or "refused"
    grounds         \* the keys a payable claim rests on, {} otherwise

promiseVars == <<stage, grounds>>

PromiseTypeOK ==
    /\ stage \in [Claims -> {"open", "payable", "refused"}]
    /\ grounds \in [Claims -> SUBSET Keys]

Payable == {c \in Claims : stage[c] = "payable"}

PromiseInit ==
    /\ stage = [c \in Claims |-> "open"]
    /\ grounds = [c \in Claims |-> {}]

\* Claims `refused` and `paid` move to those stages, the others stay.
Moved(refused, paid, keys) ==
    /\ stage' = [c \in Claims |-> IF c \in paid THEN "payable"
                                  ELSE IF c \in refused THEN "refused"
                                  ELSE stage[c]]
    /\ grounds' = [c \in Claims |-> IF c \in paid THEN keys
                                    ELSE IF c \in refused THEN {}
                                    ELSE grounds[c]]

\* Claims stop being payable: they expire, their policy is revoked, or
\* another claim turns out to have committed their document earlier.
Withdraw(withdrawn) == withdrawn \subseteq Payable /\ Moved(withdrawn, {}, {})

\* An open claim is turned down, or withdrawn by its claimant.
Refuse(c, withdrawn) ==
    /\ stage[c] = "open"
    /\ withdrawn \subseteq Payable
    /\ Moved(withdrawn \union {c}, {}, {})

\* An open claim becomes payable, and no claim that shares a key stays so.
Pay(c, keys, withdrawn) ==
    /\ stage[c] = "open"
    /\ withdrawn \subseteq Payable
    /\ \A d \in Payable \ withdrawn : grounds[d] \cap keys = {}
    /\ Moved(withdrawn, {c}, keys)

PromiseNext ==
    \E withdrawn \in SUBSET Payable :
        \/ Withdraw(withdrawn)
        \/ \E c \in Claims :
              \/ Refuse(c, withdrawn)
              \/ \E keys \in SUBSET Keys : Pay(c, keys, withdrawn)

PromiseSpec == PromiseInit /\ [][PromiseNext]_promiseVars

(* The promise as a state predicate: payable claims rest on disjoint keys. *)
DisjointGrounds ==
    \A c, d \in Payable : c # d => grounds[c] \cap grounds[d] = {}
===============================================================================
