------------------------------ MODULE ClaimPromise ------------------------------
(***************************************************************************)
(* The claim ledger as a consumer sees it at the present instant: a claim  *)
(* is payable while is_consumable answers yes, refused once it is          *)
(* concluded and the answer is no, and open until then.                    *)
(***************************************************************************)
EXTENDS ClaimLedger

Open(c) ==
    c \in DOMAIN claims => claims[c].status \in {"PENDING", "RETRYABLE"}

ConsumableNow(c) == c \in DOMAIN claims /\ Consumable(c, now)

ClaimStage ==
    [c \in 1..MaxClaims |-> IF ConsumableNow(c) THEN "payable"
                            ELSE IF Open(c) THEN "open" ELSE "refused"]

ClaimGrounds ==
    [c \in 1..MaxClaims |-> IF ConsumableNow(c) THEN CarriedKeys(claims[c])
                                                ELSE {}]

Promise == INSTANCE ConsumerPromise
              WITH Claims <- 1..MaxClaims, Keys <- DocumentKeys,
                   stage <- ClaimStage, grounds <- ClaimGrounds

(* The ledger keeps the consumer's promise: every transaction, clock tick  *)
(* and policy change is a settlement of at most one open claim, the        *)
(* withdrawal of some payable ones, or invisible to a consumer.            *)
KeepsPromise == Promise!PromiseSpec
===============================================================================
