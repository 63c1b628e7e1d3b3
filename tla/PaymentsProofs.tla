---------------------------- MODULE PaymentsProofs --------------------------
(***************************************************************************)
(* The two ledgers of the module payment. For any orders, attempts and     *)
(* concurrent checkouts, callbacks and refunds: the books follow the       *)
(* gateway, and an order is placed only when an attempt of its own was     *)
(* captured. For any orders, riders and concurrent remittances: a batch is *)
(* remitted whole or not at all, the ledger holds a rider to the cash of   *)
(* their own deliveries only, and cash is handed over once.                *)
(***************************************************************************)
EXTENDS Payments, CashLedger, TLAPS

(* A payment that exists has the fields of one.                            *)
LEMMA PaymentExists ==
    ASSUME TypeOK, NEW a \in Attempts
    PROVE  /\ pay[a].status # "none" <=> pay[a] # NoPayment
           /\ pay[a].status # "none" => pay[a] \in Payment /\ pay[a].order \in Orders
BY DEF TypeOK, NoPayment, Payment

(* A callback, a checkout or a refund in flight has the fields of one.     *)
LEMMA ActiveHook ==
    ASSUME TypeOK, NEW h \in Hooks, hook[h].pc # "idle"
    PROVE  hook[h] \in Hook /\ hook[h].attempt \in Attempts /\ hook[h].word \in Word
BY DEF TypeOK, Hook, Idle

(* A refund that has gone past its first read has an attempt in its hand. *)
LEMMA ActiveRefund ==
    ASSUME TypeOK, NEW f \in Refunders, refund[f].pc # "idle"
    PROVE  refund[f] \in Refund /\ refund[f].attempt \in Attempts
BY DEF TypeOK, Refund, Idle

(* A checkout that has opened an attempt at the gateway is one of Buyers. *)
LEMMA OpenedBuyer ==
    ASSUME TypeOK, NEW b \in Buyers, buyer[b].pc = "opened"
    PROVE  /\ buyer[b].attempt \in Attempts /\ buyer[b].order \in Orders
           /\ buyer[b].at \in Nat
BY DEF TypeOK, Buyer, Idle

(* Only the system makes an order leave pending_payment for anything but   *)
(* cancelled, and nobody brings a cancelled one back.                      *)
LEMMA OthersDoNotPlace ==
    ASSUME NEW from \in Status, NEW to \in Status, NEW actor \in Actor \ {"system"},
           CanTransition(from, to, actor), to \notin {"pending_payment", "cancelled"}
    PROVE  from \notin {"pending_payment", "cancelled"}
BY DEF Status, Actor, CanTransition, Moves

(* An order with no attempt yet satisfies every part of the invariant. *)
LEMMA InitInv == Init => IInv
<1> SUFFICES ASSUME Init
             PROVE  IInv
  OBVIOUS
<1>1. TypeOK
  BY MaxRefundsAssumption
     DEF Init, TypeOK, InitialStatus, Status, Payment, NoPayment
<1>2. OneOpenAttempt /\ PlacedOrdersArePaid /\ BooksFollowTheGateway
  BY DEF Init, OneOpenAttempt, PendingForOrder, AttemptsFor, PlacedOrdersArePaid,
         BooksFollowTheGateway, NoPayment, InitialStatus
<1>3. BuyersHold /\ HooksHold /\ RefundsHold
  BY DEF Init, Idle, BuyersHold, HooksHold, RefundsHold
<1> QED BY <1>1, <1>2, <1>3 DEF IInv

(* Checkouts write nothing but their own memory until they insert.         *)
LEMMA CheckoutInv ==
    ASSUME IInv, NEW b \in Buyers,
           \/ \E o \in Orders : Start(b, o)
           \/ \E a \in Attempts : Open(b, a)
           \/ Resume(b) \/ GiveUp(b)
    PROVE  IInv'
<1>1. TypeOK /\ UNCHANGED <<order, pay, said, refunded, hook, refund>>
  BY DEF IInv, Start, Open, Resume, GiveUp
<1>2. TypeOK' /\ BuyersHold'
  <2>1. CASE \E o \in Orders : Start(b, o)
    BY <1>1, <2>1 DEF Start, TypeOK, Buyer, Idle, IInv, BuyersHold
  <2>2. CASE \E a \in Attempts : Open(b, a)
    <3>1. PICK a \in Attempts : Open(b, a)
      BY <2>2
    <3>2. buyer[b] \in Buyer /\ buyer[b].order \in Orders /\ made' \in Nat
      BY <1>1, <3>1 DEF Open, TypeOK, Buyer, Idle
    <3>3. buyer' = [buyer EXCEPT ![b] = [pc |-> "opened", order |-> buyer[b].order,
                                         attempt |-> a, at |-> made']]
      BY <3>1 DEF Open
    <3>4. [pc |-> "opened", order |-> buyer[b].order, attempt |-> a, at |-> made'] \in Buyer
      BY <3>2 DEF Buyer
    <3>5. TypeOK'
      BY <1>1, <3>2, <3>3, <3>4 DEF TypeOK
    <3>6. BuyersHold'
      BY <1>1, <3>1, <3>3 DEF Open, TypeOK, IInv, BuyersHold
    <3> QED BY <3>5, <3>6
  <2>3. CASE Resume(b) \/ GiveUp(b)
    BY <1>1, <2>3 DEF Resume, GiveUp, TypeOK, Idle, IInv, BuyersHold
  <2> QED BY <2>1, <2>2, <2>3
<1> QED BY <1>1, <1>2 DEF IInv, OneOpenAttempt, PendingForOrder, AttemptsFor,
         PlacedOrdersArePaid, BooksFollowTheGateway, HooksHold, HookHolds, RefundsHold,
         RefundHolds

(* The insert adds an attempt nobody refers to, to an order with none open. *)
LEMMA CreatePaymentInv ==
    ASSUME IInv, NEW b \in Buyers, CreatePayment(b)
    PROVE  IInv'
<1> DEFINE a == buyer[b].attempt
           o == buyer[b].order
           p == [order |-> o, at |-> buyer[b].at, status |-> "pending"]
<1>1. /\ TypeOK /\ buyer[b].pc = "opened" /\ PendingForOrder(o) = {}
      /\ pay' = [pay EXCEPT ![a] = p] /\ buyer' = [buyer EXCEPT ![b] = Idle]
      /\ UNCHANGED <<order, said, refunded, made, hook, refund>>
  BY DEF IInv, CreatePayment
<1>2. a \in Attempts /\ o \in Orders /\ p \in Payment /\ pay[a] = NoPayment
  BY <1>1, OpenedBuyer DEF Payment, IInv, BuyersHold
<1> HIDE DEF a, o
<1>3. TypeOK'
  BY <1>1, <1>2 DEF TypeOK
<1>4. \A x \in Attempts : x # a => pay'[x] = pay[x]
  BY <1>1 DEF TypeOK
<1>5. pay'[a] = p /\ p.status = "pending" /\ p.order = o
  BY <1>1, <1>2 DEF TypeOK
<1> HIDE DEF p
<1>6. OneOpenAttempt'
  <2> SUFFICES ASSUME NEW q \in Orders,
                      NEW x \in PendingForOrder(q)', NEW y \in PendingForOrder(q)'
               PROVE  x = y
    BY DEF OneOpenAttempt
  <2>1. x \in Attempts /\ y \in Attempts
    BY DEF PendingForOrder, AttemptsFor
  <2>2. \A z \in {x, y} : z # a => z \in PendingForOrder(q)
    BY <1>4, <2>1 DEF PendingForOrder, AttemptsFor
  <2>3. a \in {x, y} => q = o
    BY <1>5 DEF PendingForOrder, AttemptsFor
  <2>4. CASE x # a /\ y # a
    BY <2>2, <2>4 DEF IInv, OneOpenAttempt
  <2>5. CASE a \in {x, y}
    BY <1>1, <2>2, <2>3, <2>5
  <2> QED BY <2>4, <2>5
<1>7. PlacedOrdersArePaid'
  <2> SUFFICES ASSUME NEW q \in Orders, order[q] \notin {"pending_payment", "cancelled"}
               PROVE  \E x \in AttemptsFor(q)' : pay'[x].status \in {"captured", "refunded"}
    BY <1>1 DEF PlacedOrdersArePaid
  <2>1. PICK x \in AttemptsFor(q) : pay[x].status \in {"captured", "refunded"}
    BY DEF IInv, PlacedOrdersArePaid
  <2>2. x # a
    BY <1>2, <2>1 DEF NoPayment
  <2> QED BY <1>4, <2>1, <2>2 DEF AttemptsFor
<1>8. BooksFollowTheGateway'
  BY <1>1, <1>2, <1>4, <1>5 DEF IInv, BooksFollowTheGateway, NoPayment
<1>9. BuyersHold'
  <2> SUFFICES ASSUME NEW c \in Buyers, buyer'[c].pc = "opened"
               PROVE  /\ pay'[buyer'[c].attempt] = NoPayment
                      /\ \A d \in Buyers : (buyer'[d].pc = "opened" /\ d # c) =>
                            buyer'[d].attempt # buyer'[c].attempt
    BY DEF BuyersHold
  <2>1. c # b
    BY <1>1 DEF TypeOK, Idle
  <2>2. \A d \in Buyers : d # b => buyer'[d] = buyer[d]
    BY <1>1 DEF TypeOK
  <2>3. buyer'[b].pc # "opened"
    BY <1>1 DEF TypeOK, Idle
  <2>4. buyer[c].attempt # a /\ buyer[c].attempt \in Attempts
    BY <1>1, <2>1, <2>2, OpenedBuyer DEF IInv, BuyersHold, a
  <2> QED BY <1>4, <2>1, <2>2, <2>3, <2>4 DEF IInv, BuyersHold
<1>10. HooksHold'
  <2> SUFFICES ASSUME NEW h \in Hooks, hook[h].pc # "idle"
               PROVE  HookHolds(hook[h])'
    BY <1>1 DEF HooksHold
  <2>1. HookHolds(hook[h]) /\ hook[h].attempt \in Attempts
    BY <1>1, ActiveHook DEF IInv, HooksHold
  <2>2. hook[h].attempt # a
    BY <1>2, <2>1 DEF HookHolds, NoPayment
  <2> QED BY <1>1, <1>4, <2>1, <2>2 DEF HookHolds
<1>11. RefundsHold'
  <2> SUFFICES ASSUME NEW f \in Refunders, refund[f].pc # "idle"
               PROVE  RefundHolds(refund[f])'
    BY <1>1 DEF RefundsHold
  <2>1. RefundHolds(refund[f]) /\ refund[f].attempt \in Attempts
    BY <1>1, ActiveRefund DEF IInv, RefundsHold
  <2>2. refund[f].attempt # a
    BY <1>2, <2>1 DEF RefundHolds, NoPayment
  <2> QED BY <1>1, <1>4, <2>1, <2>2 DEF RefundHolds
<1> QED BY <1>3, <1>6, <1>7, <1>8, <1>9, <1>10, <1>11 DEF IInv

(* The gateway only ever says more.                                        *)
LEMMA GatewaySaysInv ==
    ASSUME IInv, NEW a \in Attempts, NEW w \in Word, GatewaySays(a, w)
    PROVE  IInv'
<1>1. /\ TypeOK /\ said' = [said EXCEPT ![a] = @ \cup {w}]
      /\ UNCHANGED <<order, pay, refunded, made, buyer, hook, refund>>
  BY DEF IInv, GatewaySays
<1>2. TypeOK'
  BY <1>1 DEF TypeOK
<1>3. \A x \in Attempts : said[x] \subseteq said'[x]
  BY <1>1 DEF TypeOK
<1>4. BooksFollowTheGateway'
  BY <1>1, <1>3 DEF IInv, BooksFollowTheGateway
<1>5. HooksHold'
  <2> SUFFICES ASSUME NEW h \in Hooks, hook[h].pc # "idle"
               PROVE  HookHolds(hook[h])'
    BY <1>1 DEF HooksHold
  <2>1. HookHolds(hook[h]) /\ hook[h].attempt \in Attempts
    BY <1>1, ActiveHook DEF IInv, HooksHold
  <2> QED BY <1>1, <1>3, <2>1 DEF HookHolds
<1> QED BY <1>1, <1>2, <1>4, <1>5 DEF IInv, OneOpenAttempt, PendingForOrder, AttemptsFor,
         PlacedOrdersArePaid, BuyersHold, RefundsHold, RefundHolds

(* A callback that only reads or only ends changes what it holds alone.    *)
LEMMA HookStepInv ==
    ASSUME IInv, NEW h \in Hooks,
           UNCHANGED <<order, pay, said, refunded, made, buyer, refund>>,
           \/ hook' = [hook EXCEPT ![h] = Idle]
           \/ \E a \in Attempts : \E w \in said[a] :
                 /\ pay[a].status # "none"
                 /\ hook' = [hook EXCEPT ![h] = [pc |-> "read", attempt |-> a, word |-> w]]
    PROVE  IInv'
<1>1. TypeOK
  BY DEF IInv
<1>2. TypeOK' /\ HooksHold'
  <2>1. CASE hook' = [hook EXCEPT ![h] = Idle]
    BY <1>1, <2>1 DEF TypeOK, IInv, HooksHold, HookHolds, Idle
  <2>2. ASSUME NEW a \in Attempts, NEW w \in said[a], pay[a].status # "none",
               hook' = [hook EXCEPT ![h] = [pc |-> "read", attempt |-> a, word |-> w]]
        PROVE  TypeOK' /\ HooksHold'
    <3>1. [pc |-> "read", attempt |-> a, word |-> w] \in Hook
      BY <1>1 DEF TypeOK, Hook
    <3>2. TypeOK'
      BY <1>1, <2>2, <3>1 DEF TypeOK
    <3>3. HooksHold'
      BY <1>1, <2>2 DEF TypeOK, IInv, HooksHold, HookHolds
    <3> QED BY <3>2, <3>3
  <2> QED BY <2>1, <2>2
<1> QED BY <1>2 DEF IInv, OneOpenAttempt, PendingForOrder, AttemptsFor,
         PlacedOrdersArePaid, BooksFollowTheGateway, BuyersHold, RefundsHold, RefundHolds

(* What a settlement - pending to captured or failed, captured to refunded *)
(* - leaves true, whoever makes it.                                        *)
LEMMA SettleFrame ==
    ASSUME IInv, NEW a \in Attempts, NEW s \in {"captured", "failed", "refunded"},
           pay' = [pay EXCEPT ![a].status = s], UNCHANGED <<order, made, buyer>>,
           \/ pay[a].status = "pending"
           \/ pay[a].status = "captured" /\ s = "refunded"
    PROVE  /\ pay' \in [Attempts -> {NoPayment} \cup Payment]
           /\ pay'[a].status = s
           /\ \A x \in Attempts : x # a => pay'[x] = pay[x]
           /\ OneOpenAttempt' /\ PlacedOrdersArePaid' /\ BuyersHold'
<1>1. TypeOK /\ pay[a] \in Payment
  BY PaymentExists DEF IInv, NoPayment
<1>2. pay' = [pay EXCEPT ![a] = [pay[a] EXCEPT !.status = s]]
  BY <1>1 DEF TypeOK
<1>3. [pay[a] EXCEPT !.status = s] \in Payment
      /\ [pay[a] EXCEPT !.status = s].status = s
      /\ [pay[a] EXCEPT !.status = s].order = pay[a].order
  BY <1>1 DEF Payment
<1>4. /\ pay' \in [Attempts -> {NoPayment} \cup Payment]
      /\ pay'[a].status = s /\ pay'[a].order = pay[a].order
      /\ \A x \in Attempts : x # a => pay'[x] = pay[x]
  BY <1>1, <1>2, <1>3 DEF TypeOK
<1>5. \A q \in Orders : AttemptsFor(q)' = AttemptsFor(q)
  BY <1>1, <1>4 DEF AttemptsFor, Payment
<1>6. \A q \in Orders : PendingForOrder(q)' \subseteq PendingForOrder(q)
  BY <1>4, <1>5 DEF PendingForOrder, AttemptsFor
<1>7. OneOpenAttempt'
  BY <1>6 DEF IInv, OneOpenAttempt
<1>8. PlacedOrdersArePaid'
  <2> SUFFICES ASSUME NEW q \in Orders, order[q] \notin {"pending_payment", "cancelled"}
               PROVE  \E x \in AttemptsFor(q)' : pay'[x].status \in {"captured", "refunded"}
    BY DEF PlacedOrdersArePaid
  <2>1. PICK x \in AttemptsFor(q) : pay[x].status \in {"captured", "refunded"}
    BY DEF IInv, PlacedOrdersArePaid
  <2>2. pay'[x].status \in {"captured", "refunded"}
    BY <1>4, <2>1 DEF AttemptsFor
  <2> QED BY <1>5, <2>1, <2>2
<1>9. BuyersHold'
  <2>1. \A b \in Buyers : buyer[b].pc = "opened" =>
           buyer[b].attempt \in Attempts /\ buyer[b].attempt # a
    BY <1>1, OpenedBuyer DEF IInv, BuyersHold, NoPayment, Payment
  <2> QED BY <1>4, <2>1 DEF IInv, BuyersHold
<1> QED BY <1>4, <1>7, <1>8, <1>9

(* A save settles an attempt the way the gateway said.                     *)
LEMMA SaveInv ==
    ASSUME IInv, NEW h \in Hooks, Save(h)
    PROVE  IInv'
<1> DEFINE a == hook[h].attempt
           w == hook[h].word
           s == Outcome(w)
<1>1. /\ TypeOK /\ hook[h].pc = "read" /\ pay[a].status = "pending"
      /\ pay' = [pay EXCEPT ![a].status = s]
      /\ hook' = [hook EXCEPT ![h].pc = "saved"]
      /\ UNCHANGED <<order, said, refunded, made, buyer, refund>>
  BY DEF IInv, Save
<1>2. hook[h] \in Hook /\ a \in Attempts /\ w \in Word /\ HookHolds(hook[h])
  BY <1>1, ActiveHook DEF IInv, HooksHold
<1>3. s \in {"captured", "failed"}
  BY DEF Outcome
<1>4. /\ pay' \in [Attempts -> {NoPayment} \cup Payment]
      /\ pay'[a].status = s
      /\ \A x \in Attempts : x # a => pay'[x] = pay[x]
      /\ OneOpenAttempt' /\ PlacedOrdersArePaid' /\ BuyersHold'
  <2> HIDE DEF a, s
  <2> QED BY <1>1, <1>2, <1>3, SettleFrame
<1>5. [hook[h] EXCEPT !.pc = "saved"] \in Hook /\ hook'[h].pc = "saved"
      /\ hook'[h].attempt = a /\ hook'[h].word = w
      /\ hook' = [hook EXCEPT ![h] = [hook[h] EXCEPT !.pc = "saved"]]
  BY <1>1, <1>2 DEF Hook, TypeOK
<1>6. TypeOK'
  BY <1>1, <1>4, <1>5 DEF TypeOK
<1>7. w \in said[a] /\ (s = "captured" => w = "paid") /\ (s = "failed" => w = "declined")
      /\ (w = "paid" => s = "captured") /\ (w # "paid" => s = "failed")
  BY <1>2 DEF HookHolds, Outcome, Word
<1> HIDE DEF a, w, s
<1>8. BooksFollowTheGateway'
  BY <1>1, <1>2, <1>3, <1>4, <1>7 DEF IInv, BooksFollowTheGateway
<1>9. HooksHold'
  <2> SUFFICES ASSUME NEW g \in Hooks, hook'[g].pc # "idle"
               PROVE  HookHolds(hook[g])'
    BY DEF HooksHold
  <2>1. CASE g = h
    BY <1>1, <1>3, <1>4, <1>5, <1>7, <2>1 DEF HookHolds
  <2>2. CASE g # h
    <3>1. hook'[g] = hook[g] /\ hook[g].attempt \in Attempts /\ HookHolds(hook[g])
      BY <1>1, <2>2, ActiveHook DEF IInv, HooksHold, TypeOK
    <3>2. hook[g].attempt = a => hook[g].pc # "saved"
      BY <1>1, <3>1 DEF HookHolds
    <3> QED BY <1>1, <1>3, <1>4, <3>1, <3>2 DEF HookHolds
  <2> QED BY <2>1, <2>2
<1>10. RefundsHold'
  <2> SUFFICES ASSUME NEW f \in Refunders, refund[f].pc # "idle"
               PROVE  RefundHolds(refund[f])'
    BY <1>1 DEF RefundsHold
  <2>1. RefundHolds(refund[f]) /\ refund[f].attempt \in Attempts
    BY <1>1, ActiveRefund DEF IInv, RefundsHold
  <2>2. refund[f].attempt # a
    BY <1>1, <2>1 DEF RefundHolds
  <2> QED BY <1>1, <1>4, <2>1, <2>2 DEF RefundHolds
<1> QED BY <1>4, <1>6, <1>8, <1>9, <1>10 DEF IInv

(* The order is told of what was saved: it is placed on a captured attempt *)
(* of its own, and cancelled otherwise.                                    *)
LEMMA TellInv ==
    ASSUME IInv, NEW h \in Hooks, Tell(h)
    PROVE  IInv'
<1> DEFINE a == hook[h].attempt
           o == pay[a].order
           to == IF hook[h].word = "paid" THEN "placed" ELSE "cancelled"
<1>1. /\ TypeOK /\ hook[h].pc = "saved" /\ order' = [order EXCEPT ![o] = to]
      /\ hook' = [hook EXCEPT ![h] = Idle]
      /\ UNCHANGED <<pay, said, refunded, made, buyer, refund>>
  BY DEF IInv, Tell
<1>2. a \in Attempts /\ HookHolds(hook[h])
  BY <1>1, ActiveHook DEF IInv, HooksHold
<1>3. o \in Orders /\ a \in AttemptsFor(o)
  BY <1>1, <1>2, PaymentExists DEF HookHolds, AttemptsFor
<1>4. to = "placed" => pay[a].status \in {"captured", "refunded"}
  BY <1>1, <1>2 DEF HookHolds
<1>5. to \in {"placed", "cancelled"}
  OBVIOUS
<1> HIDE DEF a, o, to
<1>6. TypeOK'
  BY <1>1, <1>5 DEF TypeOK, Status
<1>7. PlacedOrdersArePaid'
  BY <1>1, <1>3, <1>4, <1>5 DEF TypeOK, IInv, PlacedOrdersArePaid, AttemptsFor
<1>8. HooksHold'
  BY <1>1 DEF TypeOK, IInv, HooksHold, HookHolds, Idle
<1> QED BY <1>1, <1>6, <1>7, <1>8 DEF IInv, OneOpenAttempt, PendingForOrder, AttemptsFor,
         BooksFollowTheGateway, BuyersHold, RefundsHold, RefundHolds

(* Nobody else's move needs money.                                         *)
LEMMA OthersMoveInv ==
    ASSUME IInv, NEW o \in Orders, OthersMove(o)
    PROVE  IInv'
<1>1. /\ TypeOK
      /\ UNCHANGED <<pay, said, refunded, made, buyer, hook, refund>>
  BY DEF IInv, OthersMove
<1>2. PICK to \in Status, actor \in Actor \ {"system"} :
         CanTransition(order[o], to, actor) /\ order' = [order EXCEPT ![o] = to]
  BY DEF OthersMove
<1>3. TypeOK'
  BY <1>1, <1>2 DEF TypeOK
<1>4. to \notin {"pending_payment", "cancelled"} =>
         order[o] \notin {"pending_payment", "cancelled"}
  BY <1>1, <1>2, OthersDoNotPlace DEF TypeOK
<1>5. PlacedOrdersArePaid'
  BY <1>1, <1>2, <1>4 DEF TypeOK, IInv, PlacedOrdersArePaid, AttemptsFor
<1> QED BY <1>1, <1>3, <1>5 DEF IInv, OneOpenAttempt, PendingForOrder, AttemptsFor,
         BooksFollowTheGateway, BuyersHold, HooksHold, HookHolds, RefundsHold, RefundHolds

(* A refund holds on to an attempt that was captured.                      *)
LEMMA RefundStepInv ==
    ASSUME IInv, NEW f \in Refunders,
           \/ \E o \in Orders : ReadForRefund(f, o)
           \/ RefundFails(f)
    PROVE  IInv'
<1>1. TypeOK /\ UNCHANGED <<order, pay, said, refunded, made, buyer, hook>>
  BY DEF IInv, ReadForRefund, RefundFails
<1>2. \/ refund' = [refund EXCEPT ![f] = Idle]
      \/ \E a \in Attempts :
            /\ pay[a].status = "captured"
            /\ refund' = [refund EXCEPT ![f] = [pc |-> "read", attempt |-> a]]
  BY DEF ReadForRefund, RefundFails
<1>3. TypeOK' /\ RefundsHold'
  <2>1. CASE refund' = [refund EXCEPT ![f] = Idle]
    BY <1>1, <2>1 DEF TypeOK, IInv, RefundsHold, RefundHolds, Idle
  <2>2. ASSUME NEW a \in Attempts, pay[a].status = "captured",
               refund' = [refund EXCEPT ![f] = [pc |-> "read", attempt |-> a]]
        PROVE  TypeOK' /\ RefundsHold'
    BY <1>1, <2>2 DEF TypeOK, Refund, IInv, RefundsHold, RefundHolds
  <2> QED BY <1>2, <2>1, <2>2
<1> QED BY <1>1, <1>3 DEF IInv, OneOpenAttempt, PendingForOrder, AttemptsFor,
         PlacedOrdersArePaid, BooksFollowTheGateway, BuyersHold, HooksHold, HookHolds

(* The gateway is asked only for an attempt that was captured.             *)
LEMMA AskGatewayInv ==
    ASSUME IInv, NEW f \in Refunders, AskGateway(f)
    PROVE  IInv'
<1> DEFINE a == refund[f].attempt
<1>1. /\ TypeOK /\ refund[f].pc = "read" /\ refunded[a] < MaxRefunds
      /\ refunded' = [refunded EXCEPT ![a] = @ + 1]
      /\ refund' = [refund EXCEPT ![f].pc = "asked"]
      /\ UNCHANGED <<order, pay, said, made, buyer, hook>>
  BY DEF IInv, AskGateway
<1>2. refund[f] \in Refund /\ a \in Attempts /\ RefundHolds(refund[f])
  BY <1>1, ActiveRefund DEF IInv, RefundsHold
<1>3. refund'[f].pc = "asked" /\ refund'[f].attempt = a
      /\ refund' = [refund EXCEPT ![f] = [refund[f] EXCEPT !.pc = "asked"]]
      /\ [refund[f] EXCEPT !.pc = "asked"] \in Refund
  BY <1>1, <1>2 DEF TypeOK, Refund
<1>4. refunded[a] \in Nat /\ refunded'[a] = refunded[a] + 1
      /\ (\A x \in Attempts : x # a => refunded'[x] = refunded[x])
  BY <1>1, <1>2 DEF TypeOK
<1> HIDE DEF a
<1>5. TypeOK'
  BY <1>1, <1>2, <1>3, MaxRefundsAssumption DEF TypeOK
<1>6. BooksFollowTheGateway'
  BY <1>1, <1>2, <1>4 DEF IInv, BooksFollowTheGateway, RefundHolds, a
<1>7. RefundsHold'
  <2> SUFFICES ASSUME NEW g \in Refunders, refund'[g].pc # "idle"
               PROVE  RefundHolds(refund[g])'
    BY DEF RefundsHold
  <2>1. CASE g = f
    BY <1>1, <1>2, <1>3, <1>4, <2>1 DEF RefundHolds, a
  <2>2. CASE g # f
    <3>1. refund'[g] = refund[g] /\ refund[g].attempt \in Attempts /\ RefundHolds(refund[g])
      BY <1>1, <2>2, ActiveRefund DEF IInv, RefundsHold, TypeOK
    <3>2. refunded[refund[g].attempt] > 0 => refunded'[refund[g].attempt] > 0
      BY <1>4, <3>1
    <3> QED BY <1>1, <3>1, <3>2 DEF RefundHolds
  <2> QED BY <2>1, <2>2
<1> QED BY <1>1, <1>5, <1>6, <1>7 DEF IInv, OneOpenAttempt, PendingForOrder, AttemptsFor,
         PlacedOrdersArePaid, BuyersHold, HooksHold, HookHolds

(* A refund is recorded once the gateway was asked.                        *)
LEMMA SaveRefundInv ==
    ASSUME IInv, NEW f \in Refunders, SaveRefund(f)
    PROVE  IInv'
<1> DEFINE a == refund[f].attempt
<1>1. /\ TypeOK /\ refund[f].pc = "asked" /\ pay[a].status = "captured"
      /\ pay' = [pay EXCEPT ![a].status = "refunded"]
      /\ refund' = [refund EXCEPT ![f] = Idle]
      /\ UNCHANGED <<order, said, refunded, made, buyer, hook>>
  BY DEF IInv, SaveRefund
<1>2. a \in Attempts /\ refunded[a] > 0
  BY <1>1, ActiveRefund DEF IInv, RefundsHold, RefundHolds
<1> HIDE DEF a
<1>3. /\ pay' \in [Attempts -> {NoPayment} \cup Payment]
      /\ pay'[a].status = "refunded"
      /\ \A x \in Attempts : x # a => pay'[x] = pay[x]
      /\ OneOpenAttempt' /\ PlacedOrdersArePaid' /\ BuyersHold'
  BY <1>1, <1>2, SettleFrame
<1>4. TypeOK'
  BY <1>1, <1>3 DEF TypeOK
<1>5. BooksFollowTheGateway'
  BY <1>1, <1>2, <1>3 DEF IInv, BooksFollowTheGateway
<1>6. HooksHold'
  <2> SUFFICES ASSUME NEW h \in Hooks, hook[h].pc # "idle"
               PROVE  HookHolds(hook[h])'
    BY <1>1 DEF HooksHold
  <2>1. HookHolds(hook[h]) /\ hook[h].attempt \in Attempts
    BY <1>1, ActiveHook DEF IInv, HooksHold
  <2> QED BY <1>1, <1>3, <2>1 DEF HookHolds
<1>7. RefundsHold'
  <2> SUFFICES ASSUME NEW g \in Refunders, refund'[g].pc # "idle"
               PROVE  RefundHolds(refund[g])'
    BY DEF RefundsHold
  <2>1. g # f /\ refund'[g] = refund[g]
    BY <1>1 DEF TypeOK, Idle
  <2>2. refund[g].attempt \in Attempts /\ RefundHolds(refund[g])
    BY <1>1, <2>1, ActiveRefund DEF IInv, RefundsHold
  <2> QED BY <1>1, <1>3, <2>1, <2>2 DEF RefundHolds
<1> QED BY <1>3, <1>4, <1>5, <1>6, <1>7 DEF IInv

(* Every step keeps the invariant.                                         *)
LEMMA NextInv == IInv /\ [Next]_vars => IInv'
<1> SUFFICES ASSUME IInv, [Next]_vars
             PROVE  IInv'
  OBVIOUS
<1>1. ASSUME NEW h \in Hooks, NEW a \in Attempts, NEW w \in Word, Read(h, a, w)
      PROVE  IInv'
  BY <1>1, HookStepInv DEF Read, IInv, TypeOK
<1>2. ASSUME NEW h \in Hooks, Lose(h) \/ TellFails(h) \/ HookDies(h)
      PROVE  IInv'
  BY <1>2, HookStepInv DEF Lose, TellFails, HookDies
<1>3. CASE UNCHANGED vars
  BY <1>3 DEF vars, IInv, TypeOK, OneOpenAttempt, PendingForOrder, AttemptsFor,
     PlacedOrdersArePaid, BooksFollowTheGateway, BuyersHold, HooksHold, HookHolds,
     RefundsHold, RefundHolds
<1> QED BY <1>1, <1>2, <1>3, CheckoutInv, CreatePaymentInv, GatewaySaysInv, SaveInv, TellInv,
           OthersMoveInv, RefundStepInv, AskGatewayInv, SaveRefundInv DEF Next

(* IInv is an invariant: the payments table, the gateway, the orders and   *)
(* whatever is in flight always agree.                                     *)
THEOREM Invariant == Spec => []IInv
BY InitInv, NextInv, PTL DEF Spec

(* Tables and requests always have their types.                            *)
THEOREM TypeCorrect == Spec => []TypeOK
<1>1. IInv => TypeOK
  BY DEF IInv
<1> QED BY <1>1, Invariant, PTL

(* However many checkouts race, an order has at most one open attempt.     *)
THEOREM SingleOpenAttempt == Spec => []OneOpenAttempt
<1>1. IInv => OneOpenAttempt
  BY DEF IInv
<1> QED BY <1>1, Invariant, PTL

(* An order goes past waiting for its money only with a captured attempt.  *)
THEOREM PaidBeforePlaced == Spec => []PlacedOrdersArePaid
<1>1. IInv => PlacedOrdersArePaid
  BY DEF IInv
<1> QED BY <1>1, Invariant, PTL

(* The books never say more than the gateway did.                          *)
THEOREM TrueBooks == Spec => []BooksFollowTheGateway
<1>1. IInv => BooksFollowTheGateway
  BY DEF IInv
<1> QED BY <1>1, Invariant, PTL

(* A payment settles once, and captured is undone by a refund only.        *)
THEOREM Settlement == Spec => SettledOnce
<1> DEFINE Settled == \A a \in Attempts :
      /\ pay[a].status \in {"failed", "refunded"} => pay'[a] = pay[a]
      /\ pay[a].status = "captured" => pay'[a].status \in {"captured", "refunded"}
<1>1. IInv /\ [Next]_vars => Settled
  <2> SUFFICES ASSUME IInv, [Next]_vars, NEW a \in Attempts
               PROVE  /\ pay[a].status \in {"failed", "refunded"} => pay'[a] = pay[a]
                      /\ pay[a].status = "captured" => pay'[a].status \in {"captured", "refunded"}
    OBVIOUS
  <2> DEFINE Goal == /\ pay[a].status \in {"failed", "refunded"} => pay'[a] = pay[a]
                     /\ pay[a].status = "captured" => pay'[a].status \in {"captured", "refunded"}
  <2>1. ASSUME NEW b \in Buyers, CreatePayment(b)
        PROVE  Goal
    BY <2>1, OpenedBuyer DEF CreatePayment, IInv, TypeOK, BuyersHold, NoPayment
  <2>2. ASSUME NEW h \in Hooks, Save(h)
        PROVE  Goal
    BY <2>2, ActiveHook DEF Save, IInv, TypeOK
  <2>3. ASSUME NEW f \in Refunders, SaveRefund(f)
        PROVE  Goal
    <3> DEFINE x == refund[f].attempt
    <3>1. /\ x \in Attempts /\ pay[x].status = "captured"
          /\ pay' = [pay EXCEPT ![x].status = "refunded"] /\ UNCHANGED <<order, made, buyer>>
      BY <2>3, ActiveRefund DEF SaveRefund, IInv
    <3> HIDE DEF x
    <3>2. pay'[x].status = "refunded" /\ \A y \in Attempts : y # x => pay'[y] = pay[y]
      BY <3>1, SettleFrame
    <3> QED BY <3>1, <3>2
  <2>4. ASSUME UNCHANGED pay
        PROVE  Goal
    BY <2>4
  <2> QED BY <2>1, <2>2, <2>3, <2>4 DEF Next, vars, Start, Open, Resume, GiveUp, GatewaySays,
         Read, Lose, Tell, TellFails, HookDies, OthersMove, ReadForRefund, AskGateway,
         RefundFails
<1>2. Spec => [][Settled]_vars
  BY <1>1, Invariant, PTL DEF Spec
<1> QED BY <1>2 DEF SettledOnce

-----------------------------------------------------------------------------

(* A row of the ledger has the fields of one.                              *)
LEMMA CashExists ==
    ASSUME LedgerTypeOK, NEW o \in CashOrders, cash[o].status # "none"
    PROVE  /\ cash[o] \in Cash /\ cash[o] # NoCash
           /\ cash[o].status \in {"held", "remitted"} /\ cash[o].partner \in Partners
           /\ cash[o].status = "held" => cash[o].ref = None
           /\ cash[o].status = "remitted" => cash[o].ref \in Remittances
BY DEF LedgerTypeOK, Cash, NoCash

(* Nothing is delivered, booked or asked for yet.                          *)
LEMMA LedgerInitInv == LedgerInit => LedgerIInv
BY DEF LedgerInit, LedgerIInv, LedgerTypeOK, NoCash, RidersOweWhatTheyDelivered, LocksHold,
       OpenBatchesShowNothing, BatchesAreWhole

(* Deliveries, and bookings that fail, leave the ledger as it is.          *)
LEMMA DeliveryInv ==
    ASSUME LedgerIInv, NEW o \in CashOrders, Deliver(o) \/ RecordFails(o)
    PROVE  LedgerIInv'
<1>1. /\ delivered \subseteq delivered' /\ delivered' \subseteq CashOrders
      /\ telling' \subseteq delivered' /\ UNCHANGED <<rider, cash, remit, asked>>
  BY DEF LedgerIInv, LedgerTypeOK, Deliver, RecordFails
<1> QED BY <1>1 DEF LedgerIInv, LedgerTypeOK, RidersOweWhatTheyDelivered, LocksHold,
        OpenBatchesShowNothing, BatchesAreWhole

(* A booking adds a row where there was none, which no batch has touched.  *)
LEMMA RecordInv ==
    ASSUME LedgerIInv, NEW o \in CashOrders, Record(o)
    PROVE  LedgerIInv'
<1>1. /\ LedgerTypeOK /\ o \in telling /\ telling' = telling \ {o}
      /\ cash' = [cash EXCEPT ![o] = IF cash[o] = NoCash THEN Held(rider[o]) ELSE cash[o]]
      /\ UNCHANGED <<rider, delivered, remit, asked>>
  BY DEF LedgerIInv, Record
<1>2. Held(rider[o]) \in Cash /\ Held(rider[o]).status = "held"
      /\ Held(rider[o]).partner = rider[o]
  BY <1>1 DEF Held, Cash, LedgerTypeOK
<1>3. /\ \A x \in CashOrders : x # o \/ cash[o] # NoCash => cash'[x] = cash[x]
      /\ cash[o] = NoCash => cash'[o] = Held(rider[o])
  BY <1>1 DEF LedgerTypeOK
<1>4. LedgerTypeOK'
  BY <1>1, <1>2 DEF LedgerTypeOK
<1>5. RidersOweWhatTheyDelivered'
  BY <1>1, <1>2, <1>3 DEF LedgerIInv, RidersOweWhatTheyDelivered
<1>6. \A x \in CashOrders : cash[x].status # "none" => cash'[x] = cash[x]
  BY <1>3 DEF NoCash
<1>7. \A x \in CashOrders : cash'[x].status = "remitted" => cash'[x] = cash[x]
  BY <1>2, <1>3
<1>8. LocksHold'
  <2> SUFFICES ASSUME NEW r \in Remittances
               PROVE  /\ remit[r].pc # "open" => remit[r].locked = {}
                      /\ \A x \in remit[r].locked :
                           /\ x \in asked[r].orders
                           /\ cash'[x].status = "held"
                           /\ cash'[x].partner = asked[r].partner
                           /\ \A s \in Remittances : s # r => x \notin remit[s].locked
    BY <1>1 DEF LocksHold
  <2>1. remit[r].locked \subseteq CashOrders
    BY <1>1 DEF LedgerTypeOK
  <2> QED BY <1>6, <2>1 DEF LedgerIInv, LocksHold
<1>9. OpenBatchesShowNothing' /\ BatchesAreWhole'
  <2>1. \A x \in CashOrders : cash[x].status = "remitted" <=> cash'[x].status = "remitted"
    BY <1>6, <1>7
  <2>2. OpenBatchesShowNothing'
    BY <1>1, <1>7, <2>1 DEF LedgerIInv, OpenBatchesShowNothing
  <2>3. \A r \in Remittances :
           {x \in CashOrders : cash'[x].status = "remitted" /\ cash'[x].ref = r}
             = {x \in CashOrders : cash[x].status = "remitted" /\ cash[x].ref = r}
    BY <1>7, <2>1
  <2>4. BatchesAreWhole'
    BY <1>1, <1>7, <2>3 DEF LedgerIInv, BatchesAreWhole
  <2> QED BY <2>2, <2>4
<1>10. (telling \subseteq delivered)'
  BY <1>1 DEF LedgerIInv
<1> QED BY <1>4, <1>5, <1>8, <1>9, <1>10 DEF LedgerIInv

(* A batch that begins is new to the ledger.                               *)
LEMMA BeginInv ==
    ASSUME LedgerIInv, NEW r \in Remittances, NEW p \in Partners, NEW os \in SUBSET CashOrders,
           Begin(r, p, os)
    PROVE  LedgerIInv'
<1> DEFINE b == [partner |-> p, orders |-> os]
<1>1. /\ LedgerTypeOK /\ remit[r].pc = "new" /\ remit[r].locked = {}
      /\ asked' = [asked EXCEPT ![r] = b] /\ remit' = [remit EXCEPT ![r].pc = "open"]
      /\ UNCHANGED <<rider, delivered, telling, cash>>
  BY DEF LedgerIInv, LocksHold, Begin
<1>2. b \in Batch
  BY DEF Batch
<1> HIDE DEF b
<1>3. /\ remit'[r].pc = "open" /\ remit'[r].locked = {} /\ asked'[r] = b
      /\ \A s \in Remittances : s # r => remit'[s] = remit[s] /\ asked'[s] = asked[s]
  BY <1>1 DEF LedgerTypeOK
<1>4. LedgerTypeOK'
  BY <1>1, <1>2 DEF LedgerTypeOK
<1>5. LocksHold'
  BY <1>1, <1>2, <1>3 DEF LedgerIInv, LocksHold
<1>6. OpenBatchesShowNothing'
  BY <1>1, <1>3 DEF LedgerIInv, OpenBatchesShowNothing
<1>7. BatchesAreWhole'
  <2> SUFFICES ASSUME NEW s \in Remittances
               PROVE  LET rows == {o \in CashOrders : cash[o].status = "remitted" /\ cash[o].ref = s}
                      IN  /\ rows # {} => rows = asked'[s].orders
                          /\ \A o \in rows : cash[o].partner = asked'[s].partner
    BY <1>1 DEF BatchesAreWhole
  <2>1. CASE s = r
    BY <1>1, <2>1 DEF LedgerIInv, OpenBatchesShowNothing
  <2>2. CASE s # r
    BY <1>3, <2>2 DEF LedgerIInv, BatchesAreWhole
  <2> QED BY <2>1, <2>2
<1> QED BY <1>1, <1>4, <1>5, <1>6, <1>7 DEF LedgerIInv, RidersOweWhatTheyDelivered

(* A row that takes its update was held, of the right partner, and free.   *)
LEMMA UpdateInv ==
    ASSUME LedgerIInv, NEW r \in Remittances, NEW o \in CashOrders, Update(r, o)
    PROVE  LedgerIInv'
<1>1. /\ LedgerTypeOK /\ remit[r].pc = "open" /\ o \in asked[r].orders \ Locked
      /\ cash[o].status = "held" /\ cash[o].partner = asked[r].partner
      /\ remit' = [remit EXCEPT ![r].locked = @ \cup {o}]
      /\ UNCHANGED <<rider, delivered, telling, cash, asked>>
  BY DEF LedgerIInv, Update
<1>2. /\ \A s \in Remittances : remit'[s].pc = remit[s].pc
      /\ \A s \in Remittances : s # r => remit'[s] = remit[s]
      /\ remit'[r].locked = remit[r].locked \cup {o}
      /\ \A s \in Remittances : o \notin remit[s].locked
  BY <1>1 DEF LedgerTypeOK, Locked
<1>3. LedgerTypeOK'
  BY <1>1 DEF LedgerTypeOK
<1>4. LocksHold'
  BY <1>1, <1>2 DEF LedgerIInv, LocksHold
<1> QED BY <1>1, <1>2, <1>3, <1>4 DEF LedgerIInv, RidersOweWhatTheyDelivered, OpenBatchesShowNothing,
        BatchesAreWhole

(* A batch that is rolled back shows nothing and locks nothing.            *)
LEMMA RollbackInv ==
    ASSUME LedgerIInv, NEW r \in Remittances, Rollback(r)
    PROVE  LedgerIInv'
<1>1. /\ LedgerTypeOK /\ remit[r].pc = "open"
      /\ remit' = [remit EXCEPT ![r] = [pc |-> "ended", locked |-> {}]]
      /\ UNCHANGED <<rider, delivered, telling, cash, asked>>
  BY DEF LedgerIInv, Rollback
<1>2. /\ \A s \in Remittances : s # r => remit'[s] = remit[s]
      /\ remit'[r].pc = "ended" /\ remit'[r].locked = {}
  BY <1>1 DEF LedgerTypeOK
<1>3. LedgerTypeOK'
  BY <1>1 DEF LedgerTypeOK
<1>4. LocksHold'
  BY <1>1, <1>2 DEF LedgerIInv, LocksHold
<1> QED BY <1>1, <1>2, <1>3, <1>4 DEF LedgerIInv, RidersOweWhatTheyDelivered, OpenBatchesShowNothing,
        BatchesAreWhole

(* A batch that commits has locked exactly its rows, and no row of another. *)
LEMMA CommitInv ==
    ASSUME LedgerIInv, NEW r \in Remittances, Commit(r)
    PROVE  LedgerIInv'
<1> DEFINE L == remit[r].locked
<1>1. /\ LedgerTypeOK /\ remit[r].pc = "open" /\ L = asked[r].orders
      /\ cash' = [o \in CashOrders |->
                    IF o \in L THEN [cash[o] EXCEPT !.status = "remitted", !.ref = r]
                    ELSE cash[o]]
      /\ remit' = [remit EXCEPT ![r] = [pc |-> "ended", locked |-> {}]]
      /\ UNCHANGED <<rider, delivered, telling, asked>>
  BY DEF LedgerIInv, Commit
<1>2. /\ L \subseteq CashOrders
      /\ \A o \in L : /\ cash[o].status = "held" /\ cash[o].partner = asked[r].partner
                      /\ \A s \in Remittances : s # r => o \notin remit[s].locked
  BY <1>1 DEF LedgerIInv, LocksHold, LedgerTypeOK
<1>3. \A o \in L : cash[o] \in Cash /\ cash[o] # NoCash
  BY <1>1, <1>2, CashExists
<1> HIDE DEF L
<1>4. /\ \A o \in L : /\ cash'[o] \in Cash /\ cash'[o].status = "remitted"
                      /\ cash'[o].ref = r /\ cash'[o].partner = cash[o].partner
      /\ \A o \in CashOrders \ L : cash'[o] = cash[o]
  BY <1>1, <1>2, <1>3 DEF Cash
<1>5. /\ \A s \in Remittances : s # r => remit'[s] = remit[s]
      /\ remit'[r].pc = "ended" /\ remit'[r].locked = {}
  BY <1>1 DEF LedgerTypeOK
<1>6. LedgerTypeOK'
  BY <1>1, <1>4 DEF LedgerTypeOK
<1>7. RidersOweWhatTheyDelivered'
  <2> SUFFICES ASSUME NEW o \in CashOrders, cash'[o] # NoCash
               PROVE  o \in delivered /\ cash'[o].partner = rider[o]
    BY <1>1 DEF RidersOweWhatTheyDelivered
  <2>1. cash[o] # NoCash /\ cash'[o].partner = cash[o].partner
    BY <1>3, <1>4
  <2> QED BY <2>1 DEF LedgerIInv, RidersOweWhatTheyDelivered
<1>8. LocksHold'
  <2> SUFFICES ASSUME NEW s \in Remittances
               PROVE  /\ remit'[s].pc # "open" => remit'[s].locked = {}
                      /\ \A o \in remit'[s].locked :
                           /\ o \in asked[s].orders
                           /\ cash'[o].status = "held"
                           /\ cash'[o].partner = asked[s].partner
                           /\ \A t \in Remittances : t # s => o \notin remit'[t].locked
    <3> asked' = asked
      BY <1>1
    <3> QED BY DEF LocksHold
  <2>1. CASE s = r
    BY <1>2, <1>5, <2>1
  <2>2. CASE s # r
    <3>1. remit[s].locked \subseteq CashOrders \ L
      BY <1>1, <1>2, <2>2 DEF LedgerTypeOK
    <3> QED BY <1>4, <1>5, <2>2, <3>1 DEF LedgerIInv, LocksHold
  <2> QED BY <2>1, <2>2
<1>9. OpenBatchesShowNothing'
  <2> SUFFICES ASSUME NEW s \in Remittances, remit'[s].pc # "ended",
                      NEW o \in CashOrders, cash'[o].status = "remitted", cash'[o].ref = s
               PROVE  FALSE
    BY DEF OpenBatchesShowNothing
  <2>1. s # r /\ remit[s].pc # "ended"
    BY <1>5
  <2>2. cash'[o] = cash[o]
    BY <1>4, <2>1
  <2> QED BY <2>1, <2>2 DEF LedgerIInv, OpenBatchesShowNothing
<1>10. BatchesAreWhole'
  <2> SUFFICES ASSUME NEW s \in Remittances
               PROVE  LET rows == {o \in CashOrders : cash'[o].status = "remitted" /\ cash'[o].ref = s}
                      IN  /\ rows # {} => rows = asked[s].orders
                          /\ \A o \in rows : cash'[o].partner = asked[s].partner
    <3> asked' = asked
      BY <1>1
    <3> QED BY DEF BatchesAreWhole
  <2>1. CASE s = r
    <3>1. \A o \in CashOrders \ L : ~(cash'[o].status = "remitted" /\ cash'[o].ref = r)
      BY <1>1, <1>4 DEF LedgerIInv, OpenBatchesShowNothing
    <3>2. {o \in CashOrders : cash'[o].status = "remitted" /\ cash'[o].ref = r} = L
      BY <1>2, <1>4, <3>1
    <3>3. L = asked[r].orders
      BY <1>1, <1>2
    <3>4. \A o \in L : cash'[o].partner = asked[r].partner
      BY <1>2, <1>4
    <3> QED BY <2>1, <3>2, <3>3, <3>4
  <2>2. CASE s # r
    <3>1. {o \in CashOrders : cash'[o].status = "remitted" /\ cash'[o].ref = s}
            = {o \in CashOrders : cash[o].status = "remitted" /\ cash[o].ref = s}
      BY <1>2, <1>4, <2>2
    <3>2. \A o \in CashOrders : (cash'[o].status = "remitted" /\ cash'[o].ref = s)
                               => cash'[o] = cash[o]
      BY <1>4, <2>2
    <3> QED BY <3>1, <3>2 DEF LedgerIInv, BatchesAreWhole
  <2> QED BY <2>1, <2>2
<1> QED BY <1>1, <1>6, <1>7, <1>8, <1>9, <1>10 DEF LedgerIInv

(* Every step keeps the invariant.                                         *)
LEMMA LedgerNextInv == LedgerIInv /\ [LedgerNext]_ledgerVars => LedgerIInv'
<1> SUFFICES ASSUME LedgerIInv, [LedgerNext]_ledgerVars
             PROVE  LedgerIInv'
  OBVIOUS
<1>1. CASE UNCHANGED ledgerVars
  BY <1>1 DEF ledgerVars, LedgerIInv, LedgerTypeOK, RidersOweWhatTheyDelivered, LocksHold,
     OpenBatchesShowNothing, BatchesAreWhole
<1> QED BY <1>1, DeliveryInv, RecordInv, BeginInv, UpdateInv, RollbackInv, CommitInv DEF LedgerNext

(* LedgerIInv is an invariant: ledger, locks and batches always agree.           *)
THEOREM LedgerInvariant == LedgerSpec => []LedgerIInv
BY LedgerInitInv, LedgerNextInv, PTL DEF LedgerSpec

(* Ledger and requests always have their types: a held row has no          *)
(* reference and a remitted one has.                                       *)
THEOREM LedgerTypeCorrect == LedgerSpec => []LedgerTypeOK
<1>1. LedgerIInv => LedgerTypeOK
  BY DEF LedgerIInv
<1> QED BY <1>1, LedgerInvariant, PTL

(* A remittance moves its whole batch or nothing of it, and only rows of   *)
(* its own partner.                                                        *)
THEOREM WholeBatches == LedgerSpec => []BatchesAreWhole
<1>1. LedgerIInv => BatchesAreWhole
  BY DEF LedgerIInv
<1> QED BY <1>1, LedgerInvariant, PTL

(* The ledger holds a rider to exactly the cash of orders they delivered.  *)
THEOREM TrueDebts == LedgerSpec => []RidersOweWhatTheyDelivered
<1>1. LedgerIInv => RidersOweWhatTheyDelivered
  BY DEF LedgerIInv
<1> QED BY <1>1, LedgerInvariant, PTL

(* Cash is booked once and handed over once.                               *)
THEOREM OneHandover == LedgerSpec => CashMovesOnce
<1> DEFINE MovesOnce ==
      \A o \in CashOrders :
         /\ cash[o].status = "remitted" => cash'[o] = cash[o]
         /\ cash[o].status = "held" =>
              cash'[o] # NoCash /\ cash'[o].partner = cash[o].partner
<1>1. LedgerIInv /\ [LedgerNext]_ledgerVars => MovesOnce
  <2> SUFFICES ASSUME LedgerIInv, [LedgerNext]_ledgerVars, NEW o \in CashOrders
               PROVE  /\ cash[o].status = "remitted" => cash'[o] = cash[o]
                      /\ cash[o].status = "held" =>
                           cash'[o] # NoCash /\ cash'[o].partner = cash[o].partner
    OBVIOUS
  <2>1. ASSUME NEW x \in CashOrders, Record(x)
        PROVE  cash[o].status # "none" => cash'[o] = cash[o]
    BY <2>1 DEF Record, LedgerIInv, LedgerTypeOK, NoCash
  <2>2. ASSUME NEW r \in Remittances, Commit(r)
        PROVE  /\ cash[o].status = "remitted" => cash'[o] = cash[o]
               /\ cash[o].status = "held" =>
                    cash'[o].status # "none" /\ cash'[o].partner = cash[o].partner
    <3>1. o \in remit[r].locked => cash[o].status = "held"
      BY <2>2 DEF LedgerIInv, LocksHold
    <3>2. cash[o].status = "held" => cash[o] \in Cash
      BY CashExists DEF LedgerIInv
    <3> QED BY <2>2, <3>1, <3>2 DEF Commit, Cash
  <2>3. ASSUME UNCHANGED cash
        PROVE  cash'[o] = cash[o]
    BY <2>3
  <2> QED BY <2>1, <2>2, <2>3 DEF LedgerNext, ledgerVars, Deliver, RecordFails, Begin, Update, Rollback, NoCash
<1>2. LedgerSpec => [][MovesOnce]_ledgerVars
  BY <1>1, LedgerInvariant, PTL DEF LedgerSpec
<1> QED BY <1>2 DEF CashMovesOnce

=============================================================================
