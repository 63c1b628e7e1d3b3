----------------------------- MODULE CashLedger -----------------------------
(***************************************************************************)
(* The cash riders carry: booked once when a cash order is delivered, and  *)
(* remitted in batches, each batch one transaction that updates row after  *)
(* row while other batches do the same.                                    *)
(***************************************************************************)
EXTENDS FiniteSets

CONSTANTS
    CashOrders,     \* cash orders, picked up
    Partners,
    Remittances,    \* reconcile requests, each with a reference of its own
    None

ASSUME NoneAssumption == None \notin Partners \cup Remittances

VARIABLES
    rider,      \* who carries each order
    delivered,  \* the orders at delivered
    telling,    \* deliveries whose request has not yet told payment
    cash,       \* cash_collections, by order: its unique index
    remit,      \* what each reconcile request has done in its transaction
    asked       \* the batch each reconcile request was given

ledgerVars == <<rider, delivered, telling, cash, remit, asked>>

NoCash == [status |-> "none"]
NoBatch == [partner |-> None, orders |-> {}]

(* NewCollection.                                                          *)
Held(p) == [status |-> "held", partner |-> p, ref |-> None]

Cash == [status : {"held"}, partner : Partners, ref : {None}]
        \cup [status : {"remitted"}, partner : Partners, ref : Remittances]

Batch == [partner : Partners, orders : SUBSET CashOrders]

LedgerTypeOK ==
    /\ rider \in [CashOrders -> Partners]
    /\ delivered \subseteq CashOrders
    /\ telling \subseteq CashOrders
    /\ cash \in [CashOrders -> {NoCash} \cup Cash]
    /\ remit \in [Remittances -> [pc : {"new", "open", "ended"}, locked : SUBSET CashOrders]]
    /\ asked \in [Remittances -> {NoBatch} \cup Batch]

LedgerInit ==
    /\ rider \in [CashOrders -> Partners]
    /\ delivered = {}
    /\ telling = {}
    /\ cash = [o \in CashOrders |-> NoCash]
    /\ remit = [r \in Remittances |-> [pc |-> "new", locked |-> {}]]
    /\ asked = [r \in Remittances |-> NoBatch]

-----------------------------------------------------------------------------
(* The order reaches delivered: once, its compare-and-set sees to that.    *)
Deliver(o) ==
    /\ o \notin delivered
    /\ delivered' = delivered \cup {o}
    /\ telling' = telling \cup {o}
    /\ UNCHANGED <<rider, cash, remit, asked>>

(* tellPayment and RecordCashCollection: a row for the rider the delivery's *)
(* own event names, unless there is one.                                   *)
Record(o) ==
    /\ o \in telling
    /\ telling' = telling \ {o}
    /\ cash' = [cash EXCEPT ![o] = IF @ = NoCash THEN Held(rider[o]) ELSE @]
    /\ UNCHANGED <<rider, delivered, remit, asked>>

(* Payment is away, or the request dies; tellPayment drops the error.      *)
RecordFails(o) ==
    /\ o \in telling
    /\ telling' = telling \ {o}
    /\ UNCHANGED <<rider, delivered, cash, remit, asked>>

-----------------------------------------------------------------------------
Locked == UNION {remit[r].locked : r \in Remittances}

(* Reconcile: at least one collection, for one partner.                    *)
Begin(r, p, os) ==
    /\ remit[r].pc = "new"
    /\ os # {}
    /\ asked' = [asked EXCEPT ![r] = [partner |-> p, orders |-> os]]
    /\ remit' = [remit EXCEPT ![r].pc = "open"]
    /\ UNCHANGED <<rider, delivered, telling, cash>>

(* One row of Remit's loop: the update waits for the row's lock, finds it  *)
(* held and this partner's, and keeps it locked until the transaction ends. *)
Update(r, o) ==
    /\ remit[r].pc = "open"
    /\ o \in asked[r].orders \ Locked
    /\ cash[o].status = "held"
    /\ cash[o].partner = asked[r].partner
    /\ remit' = [remit EXCEPT ![r].locked = @ \cup {o}]
    /\ UNCHANGED <<rider, delivered, telling, cash, asked>>

(* A row is missing, somebody else's or remitted; or two batches wait for  *)
(* each other; or the connection goes: nothing moves.                      *)
Rollback(r) ==
    /\ remit[r].pc = "open"
    /\ remit' = [remit EXCEPT ![r] = [pc |-> "ended", locked |-> {}]]
    /\ UNCHANGED <<rider, delivered, telling, cash, asked>>

CommitWhatMoved(r) ==
    /\ remit[r].pc = "open"
    /\ remit[r].locked # {}
    /\ cash' = [o \in CashOrders |->
                  IF o \in remit[r].locked
                  THEN [cash[o] EXCEPT !.status = "remitted", !.ref = r] ELSE cash[o]]
    /\ remit' = [remit EXCEPT ![r] = [pc |-> "ended", locked |-> {}]]
    /\ UNCHANGED <<rider, delivered, telling, asked>>

(* Every row of the batch took its update.                                 *)
Commit(r) ==
    /\ remit[r].pc = "open"
    /\ remit[r].locked = asked[r].orders
    /\ cash' = [o \in CashOrders |->
                  IF o \in remit[r].locked
                  THEN [cash[o] EXCEPT !.status = "remitted", !.ref = r] ELSE cash[o]]
    /\ remit' = [remit EXCEPT ![r] = [pc |-> "ended", locked |-> {}]]
    /\ UNCHANGED <<rider, delivered, telling, asked>>

LedgerNext ==
    \/ \E o \in CashOrders : Deliver(o) \/ Record(o) \/ RecordFails(o)
    \/ \E r \in Remittances :
         \/ \E p \in Partners, os \in SUBSET CashOrders : Begin(r, p, os)
         \/ \E o \in CashOrders : Update(r, o)
         \/ Rollback(r) \/ Commit(r)

LedgerSpec == LedgerInit /\ [][LedgerNext]_ledgerVars

(* The request that delivered an order goes on until it told payment or    *)
(* failed to.                                                              *)
LedgerFairSpec == LedgerSpec /\ \A o \in CashOrders : WF_ledgerVars(Record(o) \/ RecordFails(o))

-----------------------------------------------------------------------------
(* "Every collection either moves to remitted together or none of them     *)
(* do": a reference stands on its whole batch or on nothing, whatever the  *)
(* other batches wanted, and only on the rows of the batch's own partner.  *)
BatchesAreWhole ==
    \A r \in Remittances :
        LET rows == {o \in CashOrders : cash[o].status = "remitted" /\ cash[o].ref = r} IN
        /\ rows # {} => rows = asked[r].orders
        /\ \A o \in rows : cash[o].partner = asked[r].partner

(* The ledger holds a rider to exactly the cash of orders they delivered.  *)
RidersOweWhatTheyDelivered ==
    \A o \in CashOrders : cash[o] # NoCash => o \in delivered /\ cash[o].partner = rider[o]

(* Cash is booked once and handed over once: a remitted row keeps its      *)
(* partner and its reference, and a held one can only be remitted.         *)
CashMovesOnce ==
    [][\A o \in CashOrders :
         /\ cash[o].status = "remitted" => cash'[o] = cash[o]
         /\ cash[o].status = "held" =>
              cash'[o] # NoCash /\ cash'[o].partner = cash[o].partner]_ledgerVars

(* CollectionUseCase.Record: "a crash between that write and this call is  *)
(* exactly the kind of gap a retry exists to close"; tellPayment: the      *)
(* ledger entry "is recoverable".  The cash of a delivered order is booked *)
(* in the end.                                                             *)
DeliveredCashIsBooked ==
    \A o \in CashOrders : o \in delivered ~> cash[o] # NoCash

-----------------------------------------------------------------------------
(* The inductive strengthening: what an open transaction has locked is     *)
(* held, its partner's, its batch's, and nobody else's.                    *)
LocksHold ==
    \A r \in Remittances :
        /\ remit[r].pc # "open" => remit[r].locked = {}
        /\ \A o \in remit[r].locked :
             /\ o \in asked[r].orders
             /\ cash[o].status = "held"
             /\ cash[o].partner = asked[r].partner
             /\ \A s \in Remittances : s # r => o \notin remit[s].locked

OpenBatchesShowNothing ==
    \A r \in Remittances : remit[r].pc # "ended" =>
        \A o \in CashOrders : cash[o].status = "remitted" => cash[o].ref # r

LedgerIInv ==
    /\ LedgerTypeOK
    /\ telling \subseteq delivered
    /\ RidersOweWhatTheyDelivered
    /\ LocksHold
    /\ OpenBatchesShowNothing
    /\ BatchesAreWhole

=============================================================================
