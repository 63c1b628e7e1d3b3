------------------------------ MODULE Payments ------------------------------
(***************************************************************************)
(* Taking money online: checkouts, the gateway's callbacks and refunds,    *)
(* each a request that reads, decides and writes while others do the same, *)
(* against the payments table, the gateway and the order module.  The      *)
(* gateway delivers its word at least once, in any order.                  *)
(***************************************************************************)
EXTENDS OrderTable, FiniteSets

CONSTANTS
    Orders,     \* prepaid orders, each created in pending_payment
    Attempts,   \* payment ids, each minted once
    Buyers,     \* POST checkout in flight at once
    Hooks,      \* gateway callbacks being handled at once
    Refunders,  \* refunds in flight: the admin route and ticket resolution
    MaxRefunds  \* bound on what the gateway is asked to give back, per attempt

ASSUME MaxRefundsAssumption == MaxRefunds \in Nat

VARIABLES
    order,      \* orders.status, the order module's
    pay,        \* the payments table
    said,       \* what the gateway has said of each attempt
    refunded,   \* how often the gateway was asked to give an attempt back
    made,       \* attempts made so far: created_at, as a rank
    buyer, hook, refund     \* what each request in flight holds

vars == <<order, pay, said, refunded, made, buyer, hook, refund>>

Idle == [pc |-> "idle"]
NoPayment == [status |-> "none"]
Word == {"paid", "declined"}

Payment == [order : Orders, at : Nat,
            status : {"pending", "captured", "failed", "refunded"}]

Buyer == [pc : {"checked"}, order : Orders]
         \cup [pc : {"opened"}, order : Orders, attempt : Attempts, at : Nat]

Hook == [pc : {"read", "saved"}, attempt : Attempts, word : Word]

Refund == [pc : {"read", "asked"}, attempt : Attempts]

TypeOK ==
    /\ order \in [Orders -> Status]
    /\ pay \in [Attempts -> {NoPayment} \cup Payment]
    /\ said \in [Attempts -> SUBSET Word]
    /\ refunded \in [Attempts -> 0 .. MaxRefunds]
    /\ made \in Nat
    /\ buyer \in [Buyers -> {Idle} \cup Buyer]
    /\ hook \in [Hooks -> {Idle} \cup Hook]
    /\ refund \in [Refunders -> {Idle} \cup Refund]

Init ==
    /\ order = [o \in Orders |-> InitialStatus("online")]
    /\ pay = [a \in Attempts |-> NoPayment]
    /\ said = [a \in Attempts |-> {}]
    /\ refunded = [a \in Attempts |-> 0]
    /\ made = 0
    /\ buyer = [b \in Buyers |-> Idle]
    /\ hook = [h \in Hooks |-> Idle]
    /\ refund = [f \in Refunders |-> Idle]

AttemptsFor(o) == {a \in Attempts : pay[a].status # "none" /\ pay[a].order = o}
PendingForOrder(o) == {a \in AttemptsFor(o) : pay[a].status = "pending"}

-----------------------------------------------------------------------------
(* Checkout.Start: the order is the caller's, prepaid and waiting.         *)
Start(b, o) ==
    /\ buyer[b].pc = "idle"
    /\ order[o] = "pending_payment"
    /\ buyer' = [buyer EXCEPT ![b] = [pc |-> "checked", order |-> o]]
    /\ UNCHANGED <<order, pay, said, refunded, made, hook, refund>>

(* An attempt is open: the same checkout back.                             *)
Resume(b) ==
    /\ buyer[b].pc = "checked"
    /\ PendingForOrder(buyer[b].order) # {}
    /\ buyer' = [buyer EXCEPT ![b] = Idle]
    /\ UNCHANGED <<order, pay, said, refunded, made, hook, refund>>

(* None is: NewPayment under a new id, and gateway.Checkout.               *)
Open(b, a) ==
    /\ buyer[b].pc = "checked"
    /\ PendingForOrder(buyer[b].order) = {}
    /\ pay[a] = NoPayment
    /\ \A d \in Buyers : buyer[d].pc = "opened" => buyer[d].attempt # a
    /\ made < Cardinality(Attempts)
    /\ made' = made + 1
    /\ buyer' = [buyer EXCEPT ![b] = [pc |-> "opened", order |-> @.order, attempt |-> a,
                                      at |-> made']]
    /\ UNCHANGED <<order, pay, said, refunded, hook, refund>>

CreatePaymentWithoutTheIndex(b) ==
    LET k == buyer[b] IN
    /\ k.pc = "opened"
    /\ pay' = [pay EXCEPT ![k.attempt] =
                  [order |-> k.order, at |-> k.at, status |-> "pending"]]
    /\ buyer' = [buyer EXCEPT ![b] = Idle]
    /\ UNCHANGED <<order, said, refunded, made, hook, refund>>

(* CreatePayment: the insert, if the partial unique index on pending       *)
(* attempts lets it in.                                                    *)
CreatePayment(b) ==
    LET k == buyer[b] IN
    /\ k.pc = "opened"
    /\ PendingForOrder(k.order) = {}
    /\ pay' = [pay EXCEPT ![k.attempt] =
                  [order |-> k.order, at |-> k.at, status |-> "pending"]]
    /\ buyer' = [buyer EXCEPT ![b] = Idle]
    /\ UNCHANGED <<order, said, refunded, made, hook, refund>>

(* It does not, and the attempt that won is the answer; or the gateway is  *)
(* away, or the request dies.                                              *)
GiveUp(b) ==
    /\ buyer[b].pc # "idle"
    /\ buyer' = [buyer EXCEPT ![b] = Idle]
    /\ UNCHANGED <<order, pay, said, refunded, made, hook, refund>>

-----------------------------------------------------------------------------
(* The customer pays or does not, and the gateway says so: possibly both,  *)
(* one after the other, for one attempt.                                   *)
GatewaySays(a, w) ==
    /\ pay[a] # NoPayment
    /\ w \notin said[a]
    /\ said' = [said EXCEPT ![a] = @ \cup {w}]
    /\ UNCHANGED <<order, pay, refunded, made, buyer, hook, refund>>

ReadOnlyGoodNews(h, a, w) ==
    /\ hook[h].pc = "idle"
    /\ w \in said[a]
    /\ w = "paid"
    /\ pay[a].status = "pending"
    /\ hook' = [hook EXCEPT ![h] = [pc |-> "read", attempt |-> a, word |-> w]]
    /\ UNCHANGED <<order, pay, said, refunded, made, buyer, refund>>

(* apply, up to its write, for one delivery of something the gateway said, *)
(* the first or a later one.  A payment that already left pending is       *)
(* answered as success with nothing written, and so is not an action here. *)
Read(h, a, w) ==
    /\ hook[h].pc = "idle"
    /\ w \in said[a]
    /\ pay[a].status = "pending"
    /\ hook' = [hook EXCEPT ![h] = [pc |-> "read", attempt |-> a, word |-> w]]
    /\ UNCHANGED <<order, pay, said, refunded, made, buyer, refund>>

(* Capture or Fail, by what the gateway says.                              *)
Outcome(w) == IF w = "paid" THEN "captured" ELSE "failed"

SaveUnconditionally(h) ==
    LET k == hook[h] IN
    /\ k.pc = "read"
    /\ pay' = [pay EXCEPT ![k.attempt].status = Outcome(k.word)]
    /\ hook' = [hook EXCEPT ![h].pc = "saved"]
    /\ UNCHANGED <<order, said, refunded, made, buyer, refund>>

(* Save: the update names the status the request read.                     *)
Save(h) ==
    LET k == hook[h] IN
    /\ k.pc = "read"
    /\ pay[k.attempt].status = "pending"
    /\ pay' = [pay EXCEPT ![k.attempt].status = Outcome(k.word)]
    /\ hook' = [hook EXCEPT ![h].pc = "saved"]
    /\ UNCHANGED <<order, said, refunded, made, buyer, refund>>

(* payment_moved: somebody else's webhook won, and its outcome stands.     *)
Lose(h) ==
    /\ hook[h].pc = "read"
    /\ pay[hook[h].attempt].status # "pending"
    /\ hook' = [hook EXCEPT ![h] = Idle]
    /\ UNCHANGED <<order, pay, said, refunded, made, buyer, refund>>

TellBeforeSaving(h) ==
    LET k == hook[h]
        o == pay[k.attempt].order
        to == IF k.word = "paid" THEN "placed" ELSE "cancelled"
    IN
    /\ k.pc \in {"read", "saved"}
    /\ CanTransition(order[o], to, "system")
    /\ order' = [order EXCEPT ![o] = to]
    /\ hook' = [hook EXCEPT ![h] = Idle]
    /\ UNCHANGED <<pay, said, refunded, made, buyer, refund>>

(* MarkPaid or MarkPaymentFailed, when the order takes the move.           *)
Tell(h) ==
    LET k == hook[h]
        o == pay[k.attempt].order
        to == IF k.word = "paid" THEN "placed" ELSE "cancelled"
    IN
    /\ k.pc = "saved"
    /\ CanTransition(order[o], to, "system")
    /\ order' = [order EXCEPT ![o] = to]
    /\ hook' = [hook EXCEPT ![h] = Idle]
    /\ UNCHANGED <<pay, said, refunded, made, buyer, refund>>

(* When it does not, has just moved, or cannot be reached: an error, for   *)
(* the gateway to retry.  Or the process dies with its write done.         *)
TellFails(h) ==
    /\ hook[h].pc = "saved"
    /\ hook' = [hook EXCEPT ![h] = Idle]
    /\ UNCHANGED <<order, pay, said, refunded, made, buyer, refund>>

(* The process dies before its write.                                      *)
HookDies(h) ==
    /\ hook[h].pc = "read"
    /\ hook' = [hook EXCEPT ![h] = Idle]
    /\ UNCHANGED <<order, pay, said, refunded, made, buyer, refund>>

-----------------------------------------------------------------------------
(* Everybody else's moves on the order, one row of the table at a time.    *)
OthersMove(o) ==
    /\ \E to \in Status, actor \in Actor \ {"system"} :
         /\ CanTransition(order[o], to, actor)
         /\ order' = [order EXCEPT ![o] = to]
    /\ UNCHANGED <<pay, said, refunded, made, buyer, hook, refund>>

-----------------------------------------------------------------------------
(* LatestForOrder: by created_at, whatever its state.                      *)
IsLatestForOrder(a, o) ==
    /\ a \in AttemptsFor(o)
    /\ \A x \in AttemptsFor(o) : pay[x].at <= pay[a].at

(* Refund, up to the gateway: the latest attempt, if it is captured.       *)
ReadForRefund(f, o) ==
    /\ refund[f].pc = "idle"
    /\ \E a \in Attempts :
         /\ IsLatestForOrder(a, o)
         /\ pay[a].status = "captured"
         /\ refund' = [refund EXCEPT ![f] = [pc |-> "read", attempt |-> a]]
    /\ UNCHANGED <<order, pay, said, refunded, made, buyer, hook>>

AskGateway(f) ==
    /\ refund[f].pc = "read"
    /\ refunded[refund[f].attempt] < MaxRefunds
    /\ refunded' = [refunded EXCEPT ![refund[f].attempt] = @ + 1]
    /\ refund' = [refund EXCEPT ![f].pc = "asked"]
    /\ UNCHANGED <<order, pay, said, made, buyer, hook>>

SaveRefundFirst(f) ==
    LET a == refund[f].attempt IN
    /\ refund[f].pc \in {"read", "asked"}
    /\ pay[a].status = "captured"
    /\ pay' = [pay EXCEPT ![a].status = "refunded"]
    /\ refund' = [refund EXCEPT ![f] = Idle]
    /\ UNCHANGED <<order, said, refunded, made, buyer, hook>>

SaveRefund(f) ==
    LET a == refund[f].attempt IN
    /\ refund[f].pc = "asked"
    /\ pay[a].status = "captured"
    /\ pay' = [pay EXCEPT ![a].status = "refunded"]
    /\ refund' = [refund EXCEPT ![f] = Idle]
    /\ UNCHANGED <<order, said, refunded, made, buyer, hook>>

(* The gateway refuses, the save finds the payment moved, or the process   *)
(* dies.                                                                   *)
RefundFails(f) ==
    /\ refund[f].pc # "idle"
    /\ refund' = [refund EXCEPT ![f] = Idle]
    /\ UNCHANGED <<order, pay, said, refunded, made, buyer, hook>>

-----------------------------------------------------------------------------
Next ==
    \/ \E b \in Buyers :
         \/ \E o \in Orders : Start(b, o)
         \/ \E a \in Attempts : Open(b, a)
         \/ Resume(b) \/ CreatePayment(b) \/ GiveUp(b)
    \/ \E a \in Attempts, w \in Word : GatewaySays(a, w)
    \/ \E h \in Hooks :
         \/ \E a \in Attempts, w \in Word : Read(h, a, w)
         \/ Save(h) \/ Lose(h) \/ Tell(h) \/ TellFails(h) \/ HookDies(h)
    \/ \E o \in Orders : OthersMove(o)
    \/ \E f \in Refunders :
         \/ \E o \in Orders : ReadForRefund(f, o)
         \/ AskGateway(f) \/ SaveRefund(f) \/ RefundFails(f)

Spec == Init /\ [][Next]_vars

(* The gateway repeats itself about every attempt for ever; a callback     *)
(* that is being handled goes on, and though any of them may die before    *)
(* its write, not all of them do.  Nobody has to pay, cancel, check out or *)
(* ask for a refund.                                                       *)
Fairness ==
    /\ \A a \in Attempts : SF_vars(\E h \in Hooks, w \in Word : Read(h, a, w))
    /\ SF_vars(\E h \in Hooks : Save(h))
    /\ \A h \in Hooks : WF_vars(Lose(h) \/ Tell(h) \/ TellFails(h))

FairSpec == Spec /\ Fairness

-----------------------------------------------------------------------------
(* However many checkouts race, an order has at most one open attempt.     *)
OneOpenAttempt == \A o \in Orders : \A a, b \in PendingForOrder(o) : a = b

(* An order goes past waiting for its money only when some attempt of its  *)
(* own was captured: the table's "nobody but the system", seen end to end. *)
PlacedOrdersArePaid ==
    \A o \in Orders :
        order[o] \notin {"pending_payment", "cancelled"} =>
            \E a \in AttemptsFor(o) : pay[a].status \in {"captured", "refunded"}

(* The books never say more than the gateway did: captured was paid,       *)
(* failed was declined, refunded was asked for, and nothing is given back  *)
(* that was never captured.                                                *)
BooksFollowTheGateway ==
    \A a \in Attempts :
        /\ pay[a].status \in {"captured", "refunded"} => "paid" \in said[a]
        /\ pay[a].status = "failed" => "declined" \in said[a]
        /\ pay[a].status = "refunded" => refunded[a] > 0
        /\ refunded[a] > 0 => pay[a].status \in {"captured", "refunded"}

(* "A payment moves out of pending exactly once", whatever is replayed and *)
(* however late: captured is never undone but by a refund, and failed and  *)
(* refunded are final.                                                     *)
SettledOnce ==
    [][\A a \in Attempts :
         /\ pay[a].status \in {"failed", "refunded"} => pay'[a] = pay[a]
         /\ pay[a].status = "captured" => pay'[a].status \in {"captured", "refunded"}]_vars

-----------------------------------------------------------------------------
(* The inductive strengthening: what each request in memory relies on.     *)
BuyersHold ==
    \A b \in Buyers : buyer[b].pc = "opened" =>
        /\ pay[buyer[b].attempt] = NoPayment
        /\ \A d \in Buyers : (buyer[d].pc = "opened" /\ d # b) =>
              buyer[d].attempt # buyer[b].attempt

HookHolds(k) ==
    /\ k.word \in said[k.attempt]
    /\ pay[k.attempt].status # "none"
    /\ k.pc = "saved" => pay[k.attempt].status \in
          IF k.word = "paid" THEN {"captured", "refunded"} ELSE {"failed"}

HooksHold == \A h \in Hooks : hook[h].pc # "idle" => HookHolds(hook[h])

RefundHolds(k) ==
    /\ pay[k.attempt].status \in {"captured", "refunded"}
    /\ k.pc = "asked" => refunded[k.attempt] > 0

RefundsHold == \A f \in Refunders : refund[f].pc # "idle" => RefundHolds(refund[f])

IInv ==
    /\ TypeOK
    /\ OneOpenAttempt
    /\ PlacedOrdersArePaid
    /\ BooksFollowTheGateway
    /\ BuyersHold
    /\ HooksHold
    /\ RefundsHold

-----------------------------------------------------------------------------
(* Whatever the gateway says of an attempt is recorded in the end, though  *)
(* callbacks race and die.                                                 *)
EveryWordIsRecorded ==
    \A a \in Attempts : said[a] # {} ~> pay[a].status # "pending"

(* payment.md: "a webhook that captures a payment but cannot reach order   *)
(* returns an error for the caller to retry".  With a gateway that retries *)
(* for ever, a captured payment's order stops waiting for payment.         *)
CapturedOrdersMoveOn ==
    \A a \in Attempts, o \in Orders :
        (a \in AttemptsFor(o) /\ pay[a].status = "captured")
            ~> order[o] # "pending_payment"

(* RefundUseCase: "a payment already refunded returns success without      *)
(* asking the gateway again".                                              *)
RefundedOnce == \A a \in Attempts : refunded[a] <= 1

(* payment.md: "A payment can only be started for an order that is         *)
(* pending_payment".                                                       *)
StartedOnlyWhileWaiting ==
    [][\A a \in Attempts :
         (pay[a] = NoPayment /\ pay'[a] # NoPayment) =>
            order[pay'[a].order] = "pending_payment"]_vars

=============================================================================
