----------------------------- MODULE OrderTable -----------------------------
(***************************************************************************)
(* The order module's transition table: which status may follow which, and *)
(* who may make the move (order/domain/status.go).  Constant operators     *)
(* only; every module that moves an order takes its rules from here, as    *)
(* every use case takes them from CanTransition.                           *)
(***************************************************************************)
EXTENDS Naturals

Status == {"pending_payment", "placed", "accepted", "preparing", "ready",
           "picked_up", "delivered", "cancelled", "rejected", "failed"}

Actor == {"customer", "merchant", "partner", "admin", "system"}

PaymentMethod == {"cash", "online"}

InitialStatus(method) ==
    IF method = "online" THEN "pending_payment" ELSE "placed"

(* A status that IsTerminal has no row in the table.                       *)
Terminal == {"delivered", "cancelled", "rejected", "failed"}

(* The rows: from this status, this move exists, and this actor may make   *)
(* it.  A terminal status has none.                                        *)
Moves ==
    {<<"pending_payment", "placed">>} \X {"system"}
    \cup {<<"pending_payment", "cancelled">>} \X {"customer", "admin", "system"}
    \cup {<<"placed", "accepted">>, <<"placed", "rejected">>} \X {"merchant", "admin"}
    \cup {<<"placed", "cancelled">>} \X {"customer", "admin"}
    \cup {<<"accepted", "preparing">>} \X {"merchant"}
    \cup {<<"accepted", "rejected">>} \X {"merchant", "admin"}
    \cup {<<"accepted", "cancelled">>} \X {"customer", "admin"}
    \cup {<<"preparing", "ready">>} \X {"merchant"}
    \cup {<<"preparing", "cancelled">>, <<"ready", "cancelled">>} \X {"admin"}
    \cup {<<"ready", "picked_up">>, <<"picked_up", "delivered">>} \X {"partner"}
    \cup {<<"picked_up", "failed">>} \X {"partner", "admin"}

(* CanTransition as the caller sees it: the move is allowed.  The three    *)
(* refusals it tells apart all leave the order as it is.                   *)
CanTransition(from, to, actor) == <<<<from, to>>, actor>> \in Moves

NextStatuses(from, actor) == {to \in Status : CanTransition(from, to, actor)}

(* How far along its life a status is: every legal move goes up, which is  *)
(* why an order that left a status never returns to it.                    *)
Rank(s) ==
    IF s = "pending_payment" THEN 0
    ELSE IF s = "placed" THEN 1
    ELSE IF s = "accepted" THEN 2
    ELSE IF s = "preparing" THEN 3
    ELSE IF s = "ready" THEN 4
    ELSE IF s = "picked_up" THEN 5
    ELSE 6

=============================================================================
