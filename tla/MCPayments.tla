---------------------------- MODULE MCPayments ------------------------------
(* The two ledgers of the module payment on small sets: the attempts of a  *)
(* prepaid order and the cash of delivered ones.  They share no table, so  *)
(* a behaviour exercises one, picked at the start, while the other rests.  *)
EXTENDS Payments, CashLedger, TLC

CONSTANT Ledgers    \* the ledgers to check

VARIABLE ledger

(* Partners are alike and so are orders: all but one order are one         *)
(* partner's, and the last is anybody's.  With two partners and three      *)
(* orders that is every division of them, up to names.                     *)
OnePartner == CHOOSE p \in Partners : TRUE
LastOrder == CHOOSE o \in CashOrders : TRUE

PaymentInit ==
    /\ ledger \in Ledgers
    /\ Init
    /\ LedgerInit
    /\ \A o \in CashOrders \ {LastOrder} : rider[o] = OnePartner
    /\ ledger = "attempts" => rider[LastOrder] = OnePartner

AttemptStep == ledger = "attempts" /\ Next /\ UNCHANGED <<ledgerVars, ledger>>

CashStep == ledger = "cash" /\ LedgerNext /\ UNCHANGED <<vars, ledger>>

(* Fairness asks nothing of a behaviour that has no callback.              *)
PaymentSpec ==
    /\ PaymentInit
    /\ [][AttemptStep \/ CashStep]_<<vars, ledgerVars, ledger>>
    /\ Fairness

=============================================================================
