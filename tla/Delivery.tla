------------------------------ MODULE Delivery ------------------------------
(***************************************************************************)
(* What dispatch promises the order module and the customer, with nothing  *)
(* said about offers and their clocks, sweeps, requests in flight or rows  *)
(* written back stale: an order has one delivery; it is on the board,      *)
(* carried by somebody who agreed to, or over; goods that were collected   *)
(* stay with who collected them; and a rider moves the order only as far   *)
(* as the delivery has come.                                               *)
(***************************************************************************)
EXTENDS OrderTable

CONSTANTS Orders, Partners, None

VARIABLES
    order,      \* the order's status
    stage,      \* how far its delivery is
    carrier,    \* who has it, once somebody took it off the board
    agreed      \* who ever accepted it

delivery == <<order, stage, carrier, agreed>>

Taken == {"assigned", "collected"}
Over == {"delivered", "failed", "cancelled"}

Init ==
    /\ order = [o \in Orders |-> "preparing"]
    /\ stage = [o \in Orders |-> "none"]
    /\ carrier = [o \in Orders |-> None]
    /\ agreed = [o \in Orders |-> {}]

Goes(o, s, p) ==
    /\ stage' = [stage EXCEPT ![o] = s]
    /\ carrier' = [carrier EXCEPT ![o] = p]
    /\ UNCHANGED order

PutOnBoard(o) == stage[o] = "none" /\ Goes(o, "board", None) /\ UNCHANGED agreed

Accept(o, p) ==
    /\ stage[o] = "board"
    /\ Goes(o, "assigned", p)
    /\ agreed' = [agreed EXCEPT ![o] = @ \cup {p}]

(* Given up with the goods still on the counter.                           *)
GiveBack(o) == stage[o] = "assigned" /\ Goes(o, "board", None) /\ UNCHANGED agreed

Collect(o, p) ==
    stage[o] = "assigned" /\ p \in agreed[o] /\ Goes(o, "collected", p) /\ UNCHANGED agreed

Finish(o, s) == stage[o] = "collected" /\ Goes(o, s, carrier[o]) /\ UNCHANGED agreed

(* The order went away.  A delivery cancelled under way names somebody who *)
(* had agreed to it, and the rider with the goods if there is one.         *)
Cancel(o, p) ==
    /\ stage[o] \in {"board"} \cup Taken
    /\ stage[o] \in Taken => p \in agreed[o]
    /\ stage[o] = "collected" => p = carrier[o]
    /\ Goes(o, "cancelled", p)
    /\ UNCHANGED agreed

Ordered(o, to) == order' = [order EXCEPT ![o] = to] /\ UNCHANGED <<stage, carrier, agreed>>

(* Everybody but the rider moves the order as the table allows.            *)
OrderMoves(o, to) ==
    Ordered(o, to) /\ \E actor \in Actor \ {"partner"} : CanTransition(order[o], to, actor)

(* The stages in which a rider may report this of the order.               *)
Behind(to) == IF to = "picked_up" THEN {"collected"} \cup Over ELSE {to}

RiderMovesOrder(o, to) ==
    Ordered(o, to) /\ stage[o] \in Behind(to) /\ CanTransition(order[o], to, "partner")

(* Each of these takes the delivery to another stage, or the order to      *)
(* another status.                                                         *)
DeliveryMoves(o) ==
    \/ PutOnBoard(o) \/ GiveBack(o)
    \/ \E p \in Partners : Accept(o, p) \/ Collect(o, p)
    \/ \E p \in Partners \cup {None} : Cancel(o, p)
    \/ \E s \in {"delivered", "failed"} : Finish(o, s)

Next ==
    \E o \in Orders :
        \/ stage' # stage /\ DeliveryMoves(o)
        \/ order' # order /\ \E to \in Status : OrderMoves(o, to) \/ RiderMovesOrder(o, to)

Spec == Init /\ [][Next]_delivery

=============================================================================
