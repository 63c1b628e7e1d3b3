------------------------------- MODULE Orders -------------------------------
(***************************************************************************)
(* The order module's write path: TransitionUseCase.Execute run by several *)
(* requests at once against one orders table.  A request reads the order,  *)
(* decides, and writes with the status it read in the UPDATE's own WHERE   *)
(* clause; whatever another request did in between, only that comparison   *)
(* protects the history.  After the write the request tells the other      *)
(* modules, best-effort.  A request may die at any point.                  *)
(***************************************************************************)
EXTENDS Sequences, OrderTable

CONSTANTS
    Orders,     \* the order ids placements will use
    Calls,      \* requests in flight at once, across replicas
    Window,     \* order.cancellation_window, in clock ticks
    MaxTime     \* bound on the clock

ASSUME WindowAssumption == Window \in Nat
ASSUME MaxTimeAssumption == MaxTime \in Nat

VARIABLES
    status,     \* orders.status, "none" before the order is placed
    payment,    \* orders.payment_method, chosen with the order
    placedAt,   \* orders.placed_at
    events,     \* order_events, oldest first
    call,       \* what each request in flight holds in its memory
    told,       \* the statuses announced to dispatch, payment or the customer
    now         \* clock.Now()

vars == <<status, payment, placedAt, events, call, told, now>>

Event == [status : Status, actor : Actor, at : Nat]

Idle == [pc |-> "idle"]

Call ==
    {Idle} \cup
    [pc : {"decided", "written"}, order : Orders, from : Status, to : Status,
     actor : Actor, at : Nat]

TypeOK ==
    /\ status \in [Orders -> Status \cup {"none"}]
    /\ payment \in [Orders -> PaymentMethod]
    /\ placedAt \in [Orders -> Nat]
    /\ events \in [Orders -> Seq(Event)]
    /\ call \in [Calls -> Call]
    /\ told \in [Orders -> Seq(Status)]
    /\ now \in 0 .. MaxTime

Init ==
    /\ status = [o \in Orders |-> "none"]
    /\ payment \in [Orders -> PaymentMethod]
    /\ placedAt = [o \in Orders |-> 0]
    /\ events = [o \in Orders |-> <<>>]
    /\ call = [c \in Calls |-> Idle]
    /\ told = [o \in Orders |-> <<>>]
    /\ now = 0

-----------------------------------------------------------------------------
(* Placement, seen from here: NewOrder and Repository.Create, one          *)
(* transaction.  The rest of placing an order is module Placement's.       *)
Place(o) ==
    LET first == InitialStatus(payment[o]) IN
    /\ status[o] = "none"
    /\ status' = [status EXCEPT ![o] = first]
    /\ placedAt' = [placedAt EXCEPT ![o] = now]
    /\ events' = [events EXCEPT ![o] =
                    <<[status |-> first, actor |-> "customer", at |-> now]>>]
    /\ UNCHANGED <<payment, call, told, now>>

(* The statuses each way in can ask for: the customer's cancel route, the  *)
(* shop's four routes, the admin's general route, MarkPaid and             *)
(* MarkPaymentFailed, and Advance, which takes any status from a partner,  *)
(* an admin or the system and nobody else.                                 *)
MayAsk(actor, to) ==
    CASE actor = "customer" -> to = "cancelled"
      [] actor = "merchant" -> to \in {"accepted", "rejected", "preparing", "ready"}
      [] OTHER              -> to \in Status

(* A customer touches their own order, a shop its own shop's; dispatch has *)
(* checked a partner already, and an admin or the system may touch any.    *)
MayTouch(actor, mine) == actor \in {"customer", "merchant"} => mine

MayCustomerCancelIgnoringTheClock(o, t) ==
    CanTransition(status[o], "cancelled", "customer")

(* The clock's half of a customer's cancellation; the table is the other.  *)
MayCustomerCancel(o, t) ==
    /\ CanTransition(status[o], "cancelled", "customer")
    /\ t < placedAt[o] + Window

(* Execute up to its write: read the row, check the caller, the window, the *)
(* reason and the table, and stamp the event with the clock.  A request    *)
(* that is refused anywhere here changes nothing.                          *)
Load(c, o, to, actor, mine, reasonGiven) ==
    /\ call[c].pc = "idle"
    /\ status[o] # "none"
    /\ MayAsk(actor, to)
    /\ MayTouch(actor, mine)
    /\ (actor = "customer" /\ to = "cancelled") => MayCustomerCancel(o, now)
    /\ to = "rejected" => reasonGiven
    /\ CanTransition(status[o], to, actor)
    /\ call' = [call EXCEPT ![c] = [pc |-> "decided", order |-> o, from |-> status[o],
                                    to |-> to, actor |-> actor, at |-> now]]
    /\ UNCHANGED <<status, payment, placedAt, events, told, now>>

AppendUnconditionally(c) ==
    LET k == call[c] IN
    /\ k.pc = "decided"
    /\ status' = [status EXCEPT ![k.order] = k.to]
    /\ events' = [events EXCEPT ![k.order] =
                    Append(@, [status |-> k.to, actor |-> k.actor, at |-> k.at])]
    /\ call' = [call EXCEPT ![c] = [k EXCEPT !.pc = "written"]]
    /\ UNCHANGED <<payment, placedAt, told, now>>

(* AppendTransition: the status and its event in one transaction, if the   *)
(* row still has the status this request read.                             *)
AppendTransition(c) ==
    LET k == call[c] IN
    /\ k.pc = "decided"
    /\ status[k.order] = k.from
    /\ status' = [status EXCEPT ![k.order] = k.to]
    /\ events' = [events EXCEPT ![k.order] =
                    Append(@, [status |-> k.to, actor |-> k.actor, at |-> k.at])]
    /\ call' = [call EXCEPT ![c] = [k EXCEPT !.pc = "written"]]
    /\ UNCHANGED <<payment, placedAt, told, now>>

(* The UPDATE matched no row: order_moved, and nothing is written.         *)
OrderMoved(c) ==
    LET k == call[c] IN
    /\ k.pc = "decided"
    /\ status[k.order] # k.from
    /\ call' = [call EXCEPT ![c] = Idle]
    /\ UNCHANGED <<status, payment, placedAt, events, told, now>>

(* What a written status makes this request say, and to whom.              *)
TellDispatch(s) ==
    CASE s = "ready"                               -> {"offer"}
      [] s \in {"cancelled", "rejected", "failed"} -> {"withdraw"}
      [] OTHER                                     -> {}

TellPayment(s, method) ==
    IF s = "delivered" /\ method = "cash" THEN {"collect"} ELSE {}

TellCustomer(s) ==
    IF s \in {"picked_up"} \cup Terminal THEN {"notify"} ELSE {}

Saying(s, method) == TellDispatch(s) \cup TellPayment(s, method) \cup TellCustomer(s)

(* tellDispatch, tellPayment and tellCustomer, best-effort: their errors   *)
(* are dropped, and the request answers success either way.                *)
Tell(c) ==
    LET k == call[c] IN
    /\ k.pc = "written"
    /\ call' = [call EXCEPT ![c] = Idle]
    /\ \/ /\ Saying(k.to, payment[k.order]) # {}
          /\ told' = [told EXCEPT ![k.order] = Append(@, k.to)]
       \/ UNCHANGED told
    /\ UNCHANGED <<status, payment, placedAt, events, now>>

(* The process or its connection goes away with the request half done.     *)
Die(c) ==
    /\ call[c].pc # "idle"
    /\ call' = [call EXCEPT ![c] = Idle]
    /\ UNCHANGED <<status, payment, placedAt, events, told, now>>

Tick ==
    /\ now < MaxTime
    /\ now' = now + 1
    /\ UNCHANGED <<status, payment, placedAt, events, call, told>>

Next ==
    \/ \E o \in Orders : Place(o)
    \/ \E c \in Calls, o \in Orders, to \in Status, actor \in Actor,
          mine \in BOOLEAN, reasonGiven \in BOOLEAN :
            Load(c, o, to, actor, mine, reasonGiven)
    \/ \E c \in Calls :
         AppendTransition(c) \/ OrderMoved(c) \/ Tell(c) \/ Die(c)
    \/ Tick

Spec == Init /\ [][Next]_vars

-----------------------------------------------------------------------------
(* Every recorded history is one the table allows: it opens with the       *)
(* status the payment method starts in, every later entry is a legal move  *)
(* from the one before by an actor listed for it, and its last entry is    *)
(* the order's status.  Two requests deciding on the same read must not    *)
(* both be recorded (AppendTransition's "it happened once").               *)
HistoryIsLegal ==
    \A o \in Orders :
        IF status[o] = "none" THEN events[o] = <<>>
        ELSE /\ events[o] # <<>>
             /\ events[o][1].status = InitialStatus(payment[o])
             /\ \A i \in 1 .. Len(events[o]) - 1 :
                    CanTransition(events[o][i].status, events[o][i+1].status,
                                  events[o][i+1].actor)
             /\ events[o][Len(events[o])].status = status[o]

(* An event carries the clock its request read before it wrote, yet times  *)
(* never go backwards along a history: the order page and AcceptedAt read  *)
(* events in that order.                                                   *)
TimesNeverGoBack ==
    \A o \in Orders : \A i \in 1 .. Len(events[o]) - 1 :
        events[o][i].at <= events[o][i+1].at

(* Every cancellation by a customer was decided inside the free window and *)
(* before the kitchen started, whatever the shop was doing meanwhile.      *)
CustomersCancelInTime ==
    \A o \in Orders : \A i \in 2 .. Len(events[o]) :
        (events[o][i].status = "cancelled" /\ events[o][i].actor = "customer") =>
            /\ events[o][i].at < placedAt[o] + Window
            /\ \A j \in 1 .. i : events[o][j].status \notin {"preparing", "ready"}

(* No status is announced twice and none that the order never reached: the *)
(* other modules see at most one offer, one withdrawal and one collection  *)
(* for an order, although every request announces what it wrote.           *)
AnnouncedOnce ==
    \A o \in Orders : \A i \in 1 .. Len(told[o]) :
        /\ \E n \in 1 .. Len(events[o]) : events[o][n].status = told[o][i]
        /\ \A j \in 1 .. Len(told[o]) : told[o][j] = told[o][i] => j = i

(* A finished order never changes again, and its history with it, however  *)
(* many requests read it before it finished.                               *)
FinishedStaysFinished ==
    [][\A o \in Orders : status[o] \in Terminal =>
            status'[o] = status[o] /\ events'[o] = events[o]]_vars

(* The write path implements the lifecycle the module promises.            *)
Untimed(e) == [status |-> e.status, actor |-> e.actor]

WithoutTimes(es) == [i \in 1 .. Len(es) |-> Untimed(es[i])]

Lifecycle == INSTANCE OrderLifecycle WITH
    history <- [o \in Orders |-> WithoutTimes(events[o])]

ImplementsLifecycle == Lifecycle!Spec

-----------------------------------------------------------------------------
(* The inductive strengthening.  Along a history the rank strictly rises,  *)
(* so an order never returns to a status it left: the status comparison of *)
(* AppendTransition then means that nothing at all happened to the order   *)
(* since the request read it.                                              *)
RanksRise ==
    \A o \in Orders : \A i, j \in 1 .. Len(events[o]) :
        i < j => Rank(events[o][i].status) < Rank(events[o][j].status)

NothingFromTheFuture ==
    \A o \in Orders : \A i \in 1 .. Len(events[o]) : events[o][i].at <= now

(* What a request that has decided may rely on until it writes.            *)
DecisionHolds(k) ==
    /\ status[k.order] # "none"
    /\ CanTransition(k.from, k.to, k.actor)
    /\ Rank(k.from) <= Rank(status[k.order])
    /\ k.at <= now
    /\ status[k.order] = k.from => events[k.order][Len(events[k.order])].at <= k.at
    /\ (k.actor = "customer" /\ k.to = "cancelled") => k.at < placedAt[k.order] + Window

DecisionsHold == \A c \in Calls : call[c].pc = "decided" => DecisionHolds(call[c])

(* What a request that has written is about to announce: reached, by this  *)
(* request alone, and not announced before.                                *)
AnnouncementIsFresh(k) ==
    /\ \E n \in 1 .. Len(events[k.order]) : events[k.order][n].status = k.to
    /\ \A i \in 1 .. Len(told[k.order]) : told[k.order][i] # k.to

AnnouncementsAreFresh ==
    \A c \in Calls : call[c].pc = "written" =>
        /\ AnnouncementIsFresh(call[c])
        /\ \A d \in Calls : (call[d].pc = "written" /\ d # c
                                /\ call[d].order = call[c].order) => call[d].to # call[c].to

IInv ==
    /\ TypeOK
    /\ HistoryIsLegal
    /\ RanksRise
    /\ NothingFromTheFuture
    /\ TimesNeverGoBack
    /\ DecisionsHold
    /\ CustomersCancelInTime
    /\ AnnouncementsAreFresh
    /\ AnnouncedOnce

-----------------------------------------------------------------------------
(* StatusPlaced's comment: the free cancellation window runs from here.    *)
(* An order still inside the window counted from the moment it was placed  *)
(* can be cancelled by its customer.                                       *)
WindowRunsFromPlaced ==
    \A o \in Orders :
        (status[o] = "placed" /\ now < events[o][Len(events[o])].at + Window) =>
            MayCustomerCancel(o, now)

=============================================================================
