------------------------------- MODULE Ledger -------------------------------
(***************************************************************************)
(* What the bank promises: every order is debited once and then credited   *)
(* once, and a balance changes in no other way (steps 2 and 3 of           *)
(* labs_headers/banking.h:16-21).                                          *)
(***************************************************************************)
EXTENDS Transfers

CONSTANT InitialBalance

VARIABLES
  balance,  \* of each account
  stage     \* "ordered", then "debited", then "credited", for each order

ledgerVars == <<balance, stage>>

LedgerInit ==
  /\ balance = InitialBalance
  /\ stage = [i \in Orders |-> "ordered"]

Debit(i) ==
  /\ stage[i] = "ordered"
  /\ stage' = [stage EXCEPT ![i] = "debited"]
  /\ balance' = [balance EXCEPT ![Src(i)] = @ - Amount(i)]

Credit(i) ==
  /\ stage[i] = "debited"
  /\ stage' = [stage EXCEPT ![i] = "credited"]
  /\ balance' = [balance EXCEPT ![Dst(i)] = @ + Amount(i)]

LedgerNext == \E i \in Orders : Debit(i) \/ Credit(i)

LedgerSpec == LedgerInit /\ [][LedgerNext]_ledgerVars

\* No order waits for ever.
LedgerFairSpec ==
  /\ LedgerSpec
  /\ \A i \in Orders : WF_ledgerVars(Debit(i)) /\ WF_ledgerVars(Credit(i))
=============================================================================
