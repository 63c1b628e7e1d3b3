------------------------------- MODULE Carts --------------------------------
(***************************************************************************)
(* One customer's cart, edited from several devices at once and turned     *)
(* into orders.  A cart is read in three statements - its row, its lines,  *)
(* their options - changed in memory, and written back whole in one        *)
(* transaction with nothing that compares it with what is stored.  Carts   *)
(* of different customers share no row.                                    *)
(***************************************************************************)
EXTENDS Naturals, FiniteSets

CONSTANTS
    Carts,          \* the ids uc.ids.New("CRT") hands out, each once
    Lines,          \* those of New("CLN")
    Shops,
    Items,          \* items and combos; a different note is a different item
    Options,        \* the choices an item may be ordered with
    ShopOf,         \* the shop whose catalogue an item is in
    Requests,       \* requests in flight at once, of all the devices
    MaxLines,
    MaxQuantity,
    MaxOrders,      \* bound: how many orders are placed
    None            \* no cart, no item, no shop

ASSUME ShopAssumption == ShopOf \in [Items -> Shops]
ASSUME LimitsAssumption == MaxLines \in Nat /\ MaxQuantity \in Nat
ASSUME NoneAssumption == None \notin Carts \cup Shops \cup Items

VARIABLES
    cart,           \* carts, cart_lines, cart_line_options of this customer
    req,            \* what each request holds in its memory
    opened,         \* history: the shop each cart id was opened for
    chosen,         \* history: what each line id was added as
    orders          \* the baskets orders were made of

vars == <<cart, req, opened, chosen, orders>>

(* What a request may do with the cart once it is read; "ordered" is the   *)
(* Clear that PlaceUseCase asks for after its order.                       *)
Operations == {"add", "replace", "quantity", "remove", "address", "clear", "order"}

Line == [id : Lines, item : Items, options : SUBSET Options, quantity : 1..MaxQuantity]

(* The delivery point is left out: which one it is makes no difference to  *)
(* the rest of the cart.                                                   *)
Cart == [id : Carts, shop : Shops, lines : SUBSET Line]

NoCart == [id |-> None]

Idle == [pc |-> "idle"]

(* A request that is about to read, has read the row, the lines, and all.  *)
(* Every operation reads alike, so which one of "may" it is need not be    *)
(* known until then.                                                       *)
Request ==
    {Idle} \cup [pc : {"begun", "row", "lines", "read"},
                 may : {Operations, {"add"}, {"ordered"}}, cart : Cart \cup {NoCart}]

Choice == [item : Items, options : SUBSET Options]

NoChoice == [item |-> None]

(* Everything has its shape; quantities keep to their limit.               *)
TypeOK ==
    /\ cart \in Cart \cup {NoCart}
    /\ req \in [Requests -> Request]
    /\ opened \in [Carts -> Shops \cup {None}]
    /\ chosen \in [Lines -> Choice \cup {NoChoice}]
    /\ orders \subseteq Cart

Init ==
    /\ cart = NoCart
    /\ req = [r \in Requests |-> Idle]
    /\ opened = [c \in Carts |-> None]
    /\ chosen = [l \in Lines |-> NoChoice]
    /\ orders = {}

-----------------------------------------------------------------------------
(* Reading: OfUser, which every operation starts with.                     *)

(* The first query, of a new request or of what Replace or PlaceUseCase    *)
(* goes on with.                                                           *)
ReadRow(r) ==
    /\ req[r].pc \in {"idle", "begun"}
    /\ req' = [req EXCEPT ![r] =
                  [pc   |-> IF cart = NoCart THEN "read" ELSE "row",
                   may  |-> IF req[r] = Idle THEN Operations ELSE req[r].may,
                   cart |-> IF cart = NoCart THEN NoCart ELSE [cart EXCEPT !.lines = {}]]]
    /\ UNCHANGED <<cart, opened, chosen, orders>>

(* The lines stored now under a cart id read earlier.                      *)
LinesOf(id) == IF cart.id = id THEN cart.lines ELSE {}

Bare(lines) == {[l EXCEPT !.options = {}] : l \in lines}

ReadLinesOfTheCustomer(r) ==
    /\ req[r].pc = "row"
    /\ LET lines == IF cart = NoCart THEN {} ELSE Bare(cart.lines) IN
         req' = [req EXCEPT ![r].pc = IF lines = {} THEN "read" ELSE "lines",
                            ![r].cart.lines = lines]
    /\ UNCHANGED <<cart, opened, chosen, orders>>

(* linesOf, the first query.  With no lines there is no second.            *)
ReadLines(r) ==
    /\ req[r].pc = "row"
    /\ LET lines == Bare(LinesOf(req[r].cart.id)) IN
         req' = [req EXCEPT ![r].pc = IF lines = {} THEN "read" ELSE "lines",
                            ![r].cart.lines = lines]
    /\ UNCHANGED <<cart, opened, chosen, orders>>

ReadOptionsOfAnyLine(r) ==
    /\ req[r].pc = "lines"
    /\ LET found == UNION {m.options : m \in LinesOf(req[r].cart.id)} IN
         req' = [req EXCEPT ![r].pc = "read",
                            ![r].cart.lines = {[l EXCEPT !.options = found] : l \in @}]
    /\ UNCHANGED <<cart, opened, chosen, orders>>

(* linesOf, the second: each option goes to its line, and one whose line   *)
(* was not in the first answer is skipped.                                 *)
ReadOptions(r) ==
    /\ req[r].pc = "lines"
    /\ LET found(id) == UNION {m.options : m \in {n \in LinesOf(req[r].cart.id) : n.id = id}} IN
         req' = [req EXCEPT ![r].pc = "read",
                            ![r].cart.lines = {[l EXCEPT !.options = found(l.id)] : l \in @}]
    /\ UNCHANGED <<cart, opened, chosen, orders>>

-----------------------------------------------------------------------------
(* Writing.                                                                *)

SaveBesideAnother(r, c) ==
    /\ cart' = c
    /\ opened' = [opened EXCEPT ![c.id] = c.shop]
    /\ req' = [req EXCEPT ![r] = Idle]

(* Repository.Save: the upsert by id, the lines deleted and written again. *)
(* A cart that was deleted meanwhile is inserted again; next to another    *)
(* cart the index on user_id refuses it, which is one of Stop's cases.     *)
Save(r, c) ==
    /\ cart = NoCart \/ cart.id = c.id
    /\ cart' = c
    /\ opened' = [opened EXCEPT ![c.id] = c.shop]
    /\ req' = [req EXCEPT ![r] = Idle]

Ready(r, ops) == req[r].pc = "read" /\ ops \cap req[r].may # {}

(* What is left to do starts with reading the cart again.                  *)
Then(op) == [pc |-> "begun", may |-> {op}, cart |-> NoCart]

(* The cart an Add works on: the one read, or NewCart at the shop asked.   *)
Basket(r) ==
    IF req[r].cart # NoCart
    THEN {req[r].cart}
    ELSE [id : {i \in Carts : opened[i] = None}, shop : Shops, lines : {{}}]

SameSelection(l, m) == l.item = m.item /\ l.options = m.options

(* Cart.Add of a selection the cart does not hold: a new line, resolved    *)
(* from the catalogue of the cart's own shop.                              *)
AddNewLine(r) ==
    /\ Ready(r, {"add"})
    /\ \E c \in Basket(r), line \in Line :
         /\ ShopOf[line.item] = c.shop
         /\ chosen[line.id] = NoChoice
         /\ \A l \in c.lines : ~SameSelection(l, line)
         /\ Cardinality(c.lines) < MaxLines
         /\ Save(r, [c EXCEPT !.lines = @ \cup {line}])
         /\ chosen' = [chosen EXCEPT ![line.id] =
                          [item |-> line.item, options |-> line.options]]
    /\ UNCHANGED orders

WithQuantity(c, l, q) == [c EXCEPT !.lines = (@ \ {l}) \cup {[l EXCEPT !.quantity = q]}]

(* Cart.Add of one it holds: the quantities are added.                     *)
AddMore(r) ==
    /\ Ready(r, {"add"})
    /\ req[r].cart # NoCart
    /\ \E l \in req[r].cart.lines, q \in 1..MaxQuantity :
         /\ l.quantity + q <= MaxQuantity
         /\ Save(r, WithQuantity(req[r].cart, l, l.quantity + q))
    /\ UNCHANGED <<chosen, orders>>

(* Cart.SetQuantity, but for zero, which is Remove.                        *)
SetQuantity(r) ==
    /\ Ready(r, {"quantity"})
    /\ req[r].cart # NoCart
    /\ \E l \in req[r].cart.lines, q \in 1..MaxQuantity :
         Save(r, WithQuantity(req[r].cart, l, q))
    /\ UNCHANGED <<chosen, orders>>

(* The cart stays when its last line goes.                                 *)
Remove(r) ==
    /\ Ready(r, {"remove", "quantity"})
    /\ req[r].cart # NoCart
    /\ \E l \in req[r].cart.lines : Save(r, [req[r].cart EXCEPT !.lines = @ \ {l}])
    /\ UNCHANGED <<chosen, orders>>

(* It writes the rest of the copy back with the new delivery point.        *)
SetAddress(r) ==
    /\ Ready(r, {"address"})
    /\ req[r].cart # NoCart
    /\ Save(r, req[r].cart)
    /\ UNCHANGED <<chosen, orders>>

EndDeleting(r) ==
    /\ \/ Ready(r, {"clear", "ordered"}) /\ req' = [req EXCEPT ![r] = Idle]
       \/ Ready(r, {"replace"}) /\ req' = [req EXCEPT ![r] = Then("add")]
    /\ UNCHANGED <<opened, chosen, orders>>

(* Repository.Delete of the cart that was read, if it is still the one     *)
(* there is, lines and all.  Clear ends here; Replace goes on to Add.      *)
Delete(r) ==
    /\ req[r].pc = "read"
    /\ cart' = IF cart.id = req[r].cart.id THEN NoCart ELSE cart
    /\ EndDeleting(r)

(* PlaceUseCase on an orderable cart: the order takes the shop and the     *)
(* lines of the copy, and the cart module is asked to Clear.               *)
Order(r) ==
    /\ Ready(r, {"order"})
    /\ req[r].cart # NoCart
    /\ req[r].cart.lines # {}
    /\ Cardinality(orders) < MaxOrders
    /\ orders' = orders \cup {req[r].cart}
    /\ req' = [req EXCEPT ![r] = Then("ordered")]
    /\ UNCHANGED <<cart, opened, chosen>>

(* A rule of the domain, the catalogue or the storage refuses, or the      *)
(* process dies: nothing was written.                                      *)
Stop(r) ==
    /\ req[r] # Idle
    /\ req' = [req EXCEPT ![r] = Idle]
    /\ UNCHANGED <<cart, opened, chosen, orders>>

Next ==
    \E r \in Requests :
        \/ ReadRow(r) \/ ReadLines(r) \/ ReadOptions(r)
        \/ AddNewLine(r) \/ AddMore(r) \/ SetQuantity(r) \/ Remove(r)
        \/ SetAddress(r) \/ Delete(r) \/ Order(r) \/ Stop(r)

Spec == Init /\ [][Next]_vars

-----------------------------------------------------------------------------
Stored == IF cart = NoCart THEN {} ELSE {cart}

(* 0007_cart.up.sql: "a line from another shop has nowhere to go".  The    *)
(* stored cart and every basket ordered hold lines of their own shop only, *)
(* though the row, the lines and the write back are separate statements    *)
(* and the customer may have replaced the cart between any two.            *)
OneShop ==
    \A c \in Stored \cup orders :
        /\ opened[c.id] = c.shop
        /\ \A l \in c.lines : ShopOf[l.item] = c.shop

(* Cart and order stay within MaxLines and show no line twice, whatever    *)
(* copies were written over each other.                                    *)
WithinLimits ==
    \A c \in Stored \cup orders :
        /\ Cardinality(c.lines) <= MaxLines
        /\ \A l, m \in c.lines : l.id = m.id => l = m

(* A line of a cart or an order is an item the customer added under that   *)
(* id, with no choice they did not make.                                   *)
OnlyWhatWasChosen ==
    \A c \in Stored \cup orders : \A l \in c.lines :
        /\ chosen[l.id].item = l.item
        /\ l.options \subseteq chosen[l.id].options

(* Replace and Clear empty a cart the customer has seen: a cart never goes *)
(* except by a request that read that very cart, so one opened meanwhile   *)
(* on another device is neither deleted nor written over.                  *)
OnlyASeenCartGoes ==
    [][\A c \in Stored :
         cart'.id # c.id =>
            \E r \in Requests : Ready(r, {"clear", "ordered", "replace"})
                                /\ req[r].cart.id = c.id]_vars

(* resolve.go: "an item added without its required size is an order the    *)
(* kitchen cannot make".  A line is ordered with all the choices it was    *)
(* added with.                                                             *)
ChoicesReachTheOrder ==
    \A c \in orders : \A l \in c.lines : l.options = chosen[l.id].options

(* cart/application/service.go: "Clear empties the customer's cart once    *)
(* its contents have become an order".                                     *)
ClearedWasOrdered ==
    [][\A r \in Requests, c \in Stored :
         (Ready(r, {"ordered"}) /\ req'[r] = Idle /\ cart' = NoCart) =>
            \A l \in c.lines : \E o \in orders : \E m \in o.lines : m.id = l.id]_vars

-----------------------------------------------------------------------------
(* The inductive strengthening: what holds of the stored cart holds of     *)
(* every copy of it, so that any copy may be written back at any time.     *)
Sound(c) ==
    /\ opened[c.id] = c.shop
    /\ \A l \in c.lines :
         /\ ShopOf[l.item] = c.shop
         /\ chosen[l.id] # NoChoice
         /\ chosen[l.id].item = l.item
         /\ l.options \subseteq chosen[l.id].options
    /\ \A l, m \in c.lines : l.id = m.id => l = m
    /\ IsFiniteSet(c.lines)
    /\ Cardinality(c.lines) <= MaxLines

CopiesAreSound == \A r \in Requests : req[r] # Idle /\ req[r].cart # NoCart => Sound(req[r].cart)

IInv ==
    /\ TypeOK
    /\ \A c \in Stored \cup orders : Sound(c)
    /\ CopiesAreSound

=============================================================================
