----------------------------- MODULE Placement ------------------------------
(***************************************************************************)
(* Placing an order: PlaceUseCase.Execute run by several requests at once, *)
(* with the client's idempotency key.  The key is looked up first and      *)
(* claimed last, in two statements with the whole use case between them,   *)
(* and the order itself is written in a third; a request may die between   *)
(* any two.                                                                *)
(***************************************************************************)
EXTENDS Naturals, FiniteSets

CONSTANTS
    Orders,     \* the ids uc.ids.New("ORD") hands out, each once
    Customers,
    Keys,       \* idempotency keys clients generate
    Checkouts,  \* POST /v1/orders in flight at once
    Baskets,    \* what a cart can hold
    Nothing     \* no key, no order, no cart

ASSUME NothingAssumption == Nothing \notin Customers \cup Orders \cup Keys \cup Baskets

VARIABLES
    placed,     \* the orders table: whose each order is, and for which key
    claimed,    \* order_idempotency_keys: customer and key to order
    basketOf,   \* the cart module's view of each customer's cart
    placing,    \* what each request in flight holds in its memory
    answered    \* the successful answers sent, as <<customer, key, order>>

placementVars == <<placed, claimed, basketOf, placing, answered>>

NotPlacing == [pc |-> "idle"]

(* A request that has looked its key up, read the cart, written the order, *)
(* and claimed the key.                                                    *)
Placing ==
    {NotPlacing} \cup
    [pc : {"looked", "read", "created", "claimed"}, customer : Customers,
     key : Keys \cup {Nothing}, basket : Baskets \cup {Nothing}, order : Orders \cup {Nothing}]

(* The row does not hold the key; the model keeps it to say which key an   *)
(* order was placed with.                                                  *)
PlacedOrder == [customer : Customers, key : Keys \cup {Nothing}, basket : Baskets]

NoOrder == [customer |-> Nothing]

PlacementTypeOK ==
    /\ placed \in [Orders -> PlacedOrder \cup {NoOrder}]
    /\ claimed \in [Customers -> [Keys -> Orders \cup {Nothing}]]
    /\ basketOf \in [Customers -> Baskets \cup {Nothing}]
    /\ placing \in [Checkouts -> Placing]
    /\ answered \subseteq Customers \X (Keys \cup {Nothing}) \X Orders

PlacementInit ==
    /\ placed = [o \in Orders |-> NoOrder]
    /\ claimed = [c \in Customers |-> [k \in Keys |-> Nothing]]
    /\ basketOf \in [Customers -> Baskets \cup {Nothing}]
    /\ placing = [r \in Checkouts |-> NotPlacing]
    /\ answered = {}

-----------------------------------------------------------------------------
(* ByIdempotencyKey found the key: the same answer as the first time.      *)
AnswerAgain(r, c, k) ==
    /\ placing[r].pc = "idle"
    /\ k # Nothing
    /\ claimed[c][k] # Nothing
    /\ answered' = answered \cup {<<c, k, claimed[c][k]>>}
    /\ UNCHANGED <<placed, claimed, basketOf, placing>>

(* It did not, or the client sent none.                                    *)
LookUp(r, c, k) ==
    /\ placing[r].pc = "idle"
    /\ k # Nothing => claimed[c][k] = Nothing
    /\ placing' = [placing EXCEPT ![r] = [pc |-> "looked", customer |-> c, key |-> k,
                                  basket |-> Nothing, order |-> Nothing]]
    /\ UNCHANGED <<placed, claimed, basketOf, answered>>

(* cart.Current found something orderable.  The checks that follow -       *)
(* address, shop, reach, quote, rules - only read other modules.           *)
ReadCart(r) ==
    /\ placing[r].pc = "looked"
    /\ basketOf[placing[r].customer] # Nothing
    /\ placing' = [placing EXCEPT ![r].pc = "read", ![r].basket = basketOf[placing[r].customer]]
    /\ UNCHANGED <<placed, claimed, basketOf, answered>>

(* Any of the checks says no, or NewOrder does (the COD ceiling).          *)
Refuse(r) ==
    /\ placing[r].pc \in {"looked", "read"}
    /\ placing' = [placing EXCEPT ![r] = NotPlacing]
    /\ UNCHANGED <<placed, claimed, basketOf, answered>>

(* NewOrder under an id nobody has, and Repository.Create: the order, its  *)
(* lines and its first event in one transaction.                           *)
Create(r, o) ==
    /\ placing[r].pc = "read"
    /\ placed[o] = NoOrder
    /\ placed' = [placed EXCEPT ![o] = [customer |-> placing[r].customer, key |-> placing[r].key,
                                        basket |-> placing[r].basket]]
    /\ placing' = [placing EXCEPT ![r].pc = "created", ![r].order = o]
    /\ UNCHANGED <<claimed, basketOf, answered>>

ClaimOrDoNothing(r) ==
    /\ placing[r].pc = "created"
    /\ placing[r].key # Nothing
    /\ claimed' = [claimed EXCEPT ![placing[r].customer][placing[r].key] =
                      IF @ = Nothing THEN placing[r].order ELSE @]
    /\ placing' = [placing EXCEPT ![r].pc = "claimed"]
    /\ UNCHANGED <<placed, basketOf, answered>>

(* ClaimIdempotencyKey: a plain INSERT, so the primary key lets one in.    *)
Claim(r) ==
    /\ placing[r].pc = "created"
    /\ placing[r].key # Nothing
    /\ claimed[placing[r].customer][placing[r].key] = Nothing
    /\ claimed' = [claimed EXCEPT ![placing[r].customer][placing[r].key] = placing[r].order]
    /\ placing' = [placing EXCEPT ![r].pc = "claimed"]
    /\ UNCHANGED <<placed, basketOf, answered>>

(* The primary key refuses it: the request answers with an error, and the  *)
(* order it wrote stays.                                                   *)
ClaimTaken(r) ==
    /\ placing[r].pc = "created"
    /\ placing[r].key # Nothing
    /\ claimed[placing[r].customer][placing[r].key] # Nothing
    /\ placing' = [placing EXCEPT ![r] = NotPlacing]
    /\ UNCHANGED <<placed, claimed, basketOf, answered>>

(* cart.Clear, best-effort, and the answer.                                *)
Answer(r) ==
    /\ \/ placing[r].pc = "claimed"
       \/ placing[r].pc = "created" /\ placing[r].key = Nothing
    /\ \/ basketOf' = [basketOf EXCEPT ![placing[r].customer] = Nothing]
       \/ UNCHANGED basketOf
    /\ answered' = answered \cup {<<placing[r].customer, placing[r].key, placing[r].order>>}
    /\ placing' = [placing EXCEPT ![r] = NotPlacing]
    /\ UNCHANGED <<placed, claimed>>

(* The process or its database connection goes away.                       *)
Die(r) ==
    /\ placing[r].pc # "idle"
    /\ placing' = [placing EXCEPT ![r] = NotPlacing]
    /\ UNCHANGED <<placed, claimed, basketOf, answered>>

(* The customer edits their cart on any device: the cart module's whole    *)
(* interface, as placement can see it.  What a basket read in pieces may   *)
(* hold is in Carts; here it is a value that no property looks into.       *)
CartChanges(c) ==
    /\ basketOf' \in {[basketOf EXCEPT ![c] = b] : b \in Baskets \cup {Nothing}}
    /\ UNCHANGED <<placed, claimed, placing, answered>>

PlacementNext ==
    \/ \E r \in Checkouts, c \in Customers, k \in Keys \cup {Nothing} :
         AnswerAgain(r, c, k) \/ LookUp(r, c, k)
    \/ \E r \in Checkouts :
         \/ ReadCart(r) \/ Refuse(r) \/ Claim(r) \/ ClaimTaken(r)
         \/ Answer(r) \/ Die(r)
         \/ \E o \in Orders : Create(r, o)
    \/ \E c \in Customers : CartChanges(c)

PlacementSpec == PlacementInit /\ [][PlacementNext]_placementVars

-----------------------------------------------------------------------------
(* "The same answer as the first time, including the same order id": every *)
(* successful answer a key ever got names one order, though the requests   *)
(* raced, died or were repeated.                                           *)
OneAnswerPerKey ==
    \A a, b \in answered :
        (a[1] = b[1] /\ a[2] = b[2] /\ a[2] # Nothing) => a[3] = b[3]

(* A key leads to an order its own customer placed with that key, never to *)
(* somebody else's, though two customers' clients may generate one key.    *)
ClaimsAreTheKeysOwn ==
    \A c \in Customers, k \in Keys :
        claimed[c][k] # Nothing =>
            /\ placed[claimed[c][k]].customer = c
            /\ placed[claimed[c][k]].key = k

(* A successful answer names an order that is in the table, is that        *)
(* customer's, and that no other key of anybody's was answered with.       *)
AnswersAreTheCustomersOwn ==
    \A a \in answered :
        /\ placed[a[3]] # NoOrder
        /\ placed[a[3]].customer = a[1]
        /\ placed[a[3]].key = a[2]

(* Once a key leads to an order it leads there for good, and the order     *)
(* keeps the customer and the basket it was placed with.                   *)
KeysAreKept ==
    [][/\ \A c \in Customers, k \in Keys :
             claimed[c][k] # Nothing => claimed'[c][k] = claimed[c][k]
       /\ \A o \in Orders : placed[o] # NoOrder => placed'[o] = placed[o]]_placementVars

(* place.go: "A retry that created a second order would have the customer  *)
(* paying twice and the shop cooking twice."  One key makes one order.     *)
OneOrderPerKey ==
    \A c \in Customers, k \in Keys :
        Cardinality({o \in Orders : placed[o] # NoOrder
                        /\ placed[o].customer = c /\ placed[o].key = k}) <= 1

-----------------------------------------------------------------------------
(* The inductive strengthening: what a request in memory relies on.        *)
RequestHolds(q) ==
    /\ q.pc = "read" => q.basket # Nothing
    /\ q.pc \in {"created", "claimed"} =>
          /\ q.order # Nothing
          /\ placed[q.order] # NoOrder
          /\ placed[q.order].customer = q.customer
          /\ placed[q.order].key = q.key
    /\ q.pc = "claimed" => q.key # Nothing /\ claimed[q.customer][q.key] = q.order

RequestsHold == \A r \in Checkouts : placing[r].pc # "idle" => RequestHolds(placing[r])

(* An answer with a key was given out of the key table.                    *)
AnswersAreClaimed == \A a \in answered : a[2] # Nothing => claimed[a[1]][a[2]] = a[3]

PlacementIInv ==
    /\ PlacementTypeOK
    /\ RequestsHold
    /\ ClaimsAreTheKeysOwn
    /\ AnswersAreTheCustomersOwn
    /\ AnswersAreClaimed

=============================================================================
