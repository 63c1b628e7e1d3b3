--------------------------- MODULE OrderLifecycle ---------------------------
(***************************************************************************)
(* What the order module promises everybody else, with nothing said about  *)
(* requests, reads and writes: an order comes into being with one entry in *)
(* its history, and from then on its history only grows, one legal move at *)
(* a time, each made by somebody the table lists for it.                   *)
(***************************************************************************)
EXTENDS Sequences, OrderTable

CONSTANT Orders

VARIABLE history    \* history[o]: what happened to o, oldest first

Entry == [status : Status, actor : Actor]

Init == history = [o \in Orders |-> <<>>]

Place(o) ==
    /\ history[o] = <<>>
    /\ \E method \in PaymentMethod :
         history' = [history EXCEPT ![o] =
                        <<[status |-> InitialStatus(method), actor |-> "customer"]>>]

Move(o) ==
    /\ history[o] # <<>>
    /\ \E e \in Entry :
         /\ CanTransition(history[o][Len(history[o])].status, e.status, e.actor)
         /\ history' = [history EXCEPT ![o] = Append(@, e)]

Next == \E o \in Orders : Place(o) \/ Move(o)

Spec == Init /\ [][Next]_history

=============================================================================
