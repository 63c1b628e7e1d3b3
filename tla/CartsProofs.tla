---------------------------- MODULE CartsProofs -----------------------------
(***************************************************************************)
(* A cart and the order made of it. For any shops, items, limits and       *)
(* devices: any copy of a cart in anybody's memory may be written back at  *)
(* any time, so the stored cart and every order stay within one shop, the  *)
(* limits, and the choices made. For any customers, keys, orders and       *)
(* concurrent requests: a key answers with one order, its own customer's,  *)
(* for good.                                                               *)
(***************************************************************************)
EXTENDS Carts, Placement, FiniteSetTheorems, TLAPS

(* Ids once used keep their meaning.                                       *)
Kept ==
    /\ \A i \in Carts : opened[i] # None => opened'[i] = opened[i]
    /\ \A i \in Lines : chosen[i] # NoChoice => chosen'[i] = chosen[i]

(* A cart is not the absence of one, nor is a choice.                      *)
LEMMA NothingIsNone ==
    /\ \A c \in Cart : c # NoCart /\ c.id # None /\ c.shop # None
    /\ \A x \in Choice : x # NoChoice
    /\ NoCart.id = None
BY NoneAssumption DEF Cart, NoCart, Choice, NoChoice

(* What a copy is checked against only ever grows.                         *)
LEMMA SoundStays ==
    ASSUME NEW c \in Cart, Sound(c), Kept
    PROVE  Sound(c)'
<1>1. c.id \in Carts /\ c.shop \in Shops /\ c.shop # None /\ c.lines \subseteq Line
  BY NothingIsNone DEF Cart
<1>2. opened'[c.id] = c.shop
  BY <1>1 DEF Sound, Kept
<1>3. \A l \in c.lines : l.id \in Lines /\ chosen'[l.id] = chosen[l.id]
  BY <1>1 DEF Sound, Kept, Line
<1> QED BY <1>2, <1>3 DEF Sound

(* A cart without lines is sound when its id and shop are.                 *)
LEMMA EmptiedIsSound ==
    ASSUME NEW c \in Cart, opened[c.id] = c.shop
    PROVE  /\ [c EXCEPT !.lines = {}] \in Cart
           /\ Sound([c EXCEPT !.lines = {}])
<1> DEFINE d == [c EXCEPT !.lines = {}]
<1>1. d \in Cart /\ d.id = c.id /\ d.shop = c.shop /\ d.lines = {}
  BY DEF Cart
<1>2. IsFiniteSet({}) /\ Cardinality({}) = 0
  BY FS_EmptySet
<1>3. Sound(d)
  BY <1>1, <1>2, LimitsAssumption DEF Sound
<1> QED BY <1>1, <1>3

(* A line with other options is otherwise the same line.                   *)
LEMMA WithOptions ==
    ASSUME NEW l \in Line, NEW o \in SUBSET Options
    PROVE  LET m == [l EXCEPT !.options = o]
           IN  m \in Line /\ m.id = l.id /\ m.item = l.item /\ m.options = o
BY DEF Line

(* Lines read again with options that were chosen, or fewer, or none, make *)
(* a sound copy of a sound cart.                                           *)
LEMMA OptionsReadAreSound ==
    ASSUME NEW c \in Cart, Sound(c), NEW f \in [Lines -> SUBSET Options],
           \A l \in c.lines : f[l.id] \subseteq chosen[l.id].options
    PROVE  LET d == [c EXCEPT !.lines = {[l EXCEPT !.options = f[l.id]] : l \in c.lines}]
           IN  d \in Cart /\ Sound(d)
<1> DEFINE with(l) == [l EXCEPT !.options = f[l.id]]
           lines == {with(l) : l \in c.lines}
           d == [c EXCEPT !.lines = lines]
<1>1. \A l \in c.lines : /\ l \in Line
                         /\ with(l) \in Line
                         /\ with(l).id = l.id
                         /\ with(l).item = l.item
                         /\ with(l).options = f[l.id]
  <2> SUFFICES ASSUME NEW l \in c.lines
               PROVE  /\ l \in Line
                      /\ with(l) \in Line
                      /\ with(l).id = l.id
                      /\ with(l).item = l.item
                      /\ with(l).options = f[l.id]
    OBVIOUS
  <2>1. l \in Line /\ f[l.id] \in SUBSET Options
    BY DEF Cart, Line
  <2> QED BY <2>1, WithOptions
<1>2. lines \subseteq Line
  BY <1>1
<1>3. d \in Cart /\ d.id = c.id /\ d.shop = c.shop /\ d.lines = lines
  BY <1>2 DEF Cart
<1>4. IsFiniteSet(lines) /\ Cardinality(lines) <= Cardinality(c.lines)
  <2> DEFINE g == [l \in c.lines |-> with(l)]
  <2>1. g \in Surjection(c.lines, lines)
    BY DEF Surjection
  <2>2. IsFiniteSet(c.lines)
    BY DEF Sound
  <2> HIDE DEF g, lines
  <2> QED BY <2>1, <2>2, FS_Surjection
<1>5. Cardinality(lines) <= MaxLines
  BY <1>4, LimitsAssumption, FS_CardinalityType DEF Sound
<1>6. \A m \in lines : /\ ShopOf[m.item] = c.shop
                       /\ chosen[m.id] # NoChoice
                       /\ chosen[m.id].item = m.item
                       /\ m.options \subseteq chosen[m.id].options
  <2> SUFFICES ASSUME NEW l \in c.lines
               PROVE  /\ ShopOf[with(l).item] = c.shop
                      /\ chosen[with(l).id] # NoChoice
                      /\ chosen[with(l).id].item = with(l).item
                      /\ with(l).options \subseteq chosen[with(l).id].options
    OBVIOUS
  <2> HIDE DEF with
  <2> QED BY <1>1 DEF Sound
<1>7. \A m, n \in lines : m.id = n.id => m = n
  <2> SUFFICES ASSUME NEW k \in c.lines, NEW l \in c.lines, with(k).id = with(l).id
               PROVE  with(k) = with(l)
    OBVIOUS
  <2>1. k.id = l.id
    BY <1>1
  <2>2. k = l
    BY <2>1 DEF Sound
  <2> QED BY <2>2
<1>8. opened[c.id] = c.shop
  BY DEF Sound
<1>9. Sound(d)
  <2> HIDE DEF lines, d
  <2> QED BY <1>3, <1>4, <1>5, <1>6, <1>7, <1>8 DEF Sound
<1> QED BY <1>3, <1>9

-----------------------------------------------------------------------------
(* Nothing is stored, held or ordered yet.                                 *)
LEMMA InitInv == Init => IInv
BY DEF Init, IInv, TypeOK, Request, Stored, CopiesAreSound, Idle

(* A step that only moves one request, to hold nothing or a sound copy.    *)
LEMMA HoldingInv ==
    ASSUME IInv, NEW r \in Requests, NEW q \in Request,
           req' = [req EXCEPT ![r] = q], UNCHANGED <<cart, opened, chosen, orders>>,
           q # Idle /\ q.cart # NoCart => Sound(q.cart)
    PROVE  IInv'
<1>1. TypeOK'
  BY DEF IInv, TypeOK
<1>2. (\A c \in Stored \cup orders : Sound(c))'
  BY DEF IInv, Stored, Sound
<1>3. CopiesAreSound'
  <2> SUFFICES ASSUME NEW s \in Requests, req'[s] # Idle, req'[s].cart # NoCart
               PROVE  Sound(req[s].cart)'
    BY DEF CopiesAreSound
  <2>1. Sound(req'[s].cart)
    BY DEF IInv, TypeOK, CopiesAreSound
  <2> QED BY <2>1 DEF Sound
<1> QED BY <1>1, <1>2, <1>3 DEF IInv

(* What a request holds is a cart of the right shape.                      *)
LEMMA HeldCart ==
    ASSUME IInv, NEW r \in Requests, req[r] # Idle, req[r].cart # NoCart
    PROVE  req[r] \in Request /\ req[r].cart \in Cart /\ Sound(req[r].cart)
BY DEF IInv, TypeOK, Request, CopiesAreSound

(* The stored cart, too.                                                   *)
LEMMA StoredCart ==
    ASSUME IInv, cart # NoCart
    PROVE  cart \in Cart /\ Sound(cart)
BY DEF IInv, TypeOK, Stored

(* Reading the row.                                                        *)
LEMMA ReadRowInv == ASSUME IInv, NEW r \in Requests, ReadRow(r) PROVE IInv'
<1> DEFINE q == [pc   |-> IF cart = NoCart THEN "read" ELSE "row",
                 may  |-> IF req[r] = Idle THEN Operations ELSE req[r].may,
                 cart |-> IF cart = NoCart THEN NoCart ELSE [cart EXCEPT !.lines = {}]]
<1>1. cart # NoCart => /\ [cart EXCEPT !.lines = {}] \in Cart
                       /\ Sound([cart EXCEPT !.lines = {}])
  BY StoredCart, EmptiedIsSound DEF Sound
<1>2. q.may \in {Operations, {"add"}, {"ordered"}}
  BY DEF IInv, TypeOK, Request
<1>3. q.cart \in Cart \cup {NoCart} /\ (q.cart # NoCart => Sound(q.cart))
  BY <1>1
<1>4. q \in Request
  <2>1. q.pc \in {"row", "read"}
    OBVIOUS
  <2>2. q = [pc |-> q.pc, may |-> q.may, cart |-> q.cart]
    OBVIOUS
  <2> HIDE DEF q
  <2> QED BY <1>2, <1>3, <2>1, <2>2 DEF Request
<1>5. req' = [req EXCEPT ![r] = q] /\ UNCHANGED <<cart, opened, chosen, orders>>
  BY DEF ReadRow
<1> HIDE DEF q
<1> QED BY <1>3, <1>4, <1>5, HoldingInv

(* A request that reads on keeps its shape.                                *)
LEMMA ReadingOn ==
    ASSUME IInv, NEW r \in Requests, req[r].pc \in {"row", "lines"}, req[r].cart # NoCart,
           NEW pc \in {"lines", "read"}, NEW c \in Cart, Sound(c),
           req' = [req EXCEPT ![r] = [req[r] EXCEPT !.pc = pc, !.cart = c]],
           UNCHANGED <<cart, opened, chosen, orders>>
    PROVE  IInv'
<1> DEFINE q == [req[r] EXCEPT !.pc = pc, !.cart = c]
<1>1. req[r] # Idle
  BY DEF Idle
<1>2. q \in Request /\ q.cart = c
  BY <1>1, HeldCart DEF Request
<1> HIDE DEF q
<1> QED BY <1>2, HoldingInv DEF q

(* Reading the lines, of the cart id that the row had.                     *)
LEMMA ReadLinesInv ==
    ASSUME IInv, NEW r \in Requests, req[r].cart # NoCart, ReadLines(r) PROVE IInv'
<1> DEFINE h == req[r].cart
           d == [h EXCEPT !.lines = Bare(LinesOf(h.id))]
<1>1. req[r].pc = "row" /\ req[r] # Idle
  BY DEF ReadLines, Idle
<1>2. req[r] \in Request /\ h \in Cart /\ Sound(h)
  BY <1>1, HeldCart
<1>3. d \in Cart /\ Sound(d)
  <2>1. CASE cart.id = h.id
    <3>1. cart # NoCart
      BY <1>2, <2>1, NothingIsNone
    <3>2. cart \in Cart /\ Sound(cart) /\ cart.shop = h.shop
      BY <3>1, <1>2, <2>1, StoredCart DEF Sound
    <3> DEFINE f == [i \in Lines |-> {}]
               e == [cart EXCEPT !.lines = {[l EXCEPT !.options = f[l.id]] : l \in cart.lines}]
    <3>3. e \in Cart /\ Sound(e)
      <4>1. f \in [Lines -> SUBSET Options]
        OBVIOUS
      <4>2. \A l \in cart.lines : l.id \in Lines
        BY <3>2 DEF Cart, Line
      <4>3. \A l \in cart.lines : f[l.id] \subseteq chosen[l.id].options
        BY <4>2
      <4> HIDE DEF f
      <4> QED BY <3>2, <4>1, <4>3, OptionsReadAreSound
    <3>4. {[l EXCEPT !.options = f[l.id]] : l \in cart.lines} = Bare(cart.lines)
      BY <3>2 DEF Bare, Cart, Line
    <3>5. e = d
      <4> DEFINE b == Bare(cart.lines)
      <4>1. e = [cart EXCEPT !.lines = b] /\ d = [h EXCEPT !.lines = b]
        BY <3>4, <2>1 DEF LinesOf
      <4> HIDE DEF b, e, d
      <4> QED BY <4>1, <3>2, <1>2, <2>1 DEF Cart
    <3> QED BY <3>3, <3>5
  <2>2. CASE cart.id # h.id
    <3>1. Bare(LinesOf(h.id)) = {}
      BY <2>2 DEF Bare, LinesOf
    <3> QED BY <3>1, <1>2, EmptiedIsSound DEF Sound
  <2> QED BY <2>1, <2>2
<1>4. \E pc \in {"lines", "read"} : req' = [req EXCEPT ![r] = [req[r] EXCEPT !.pc = pc, !.cart = d]]
  <2> DEFINE lines == Bare(LinesOf(h.id))
             pc == IF lines = {} THEN "read" ELSE "lines"
  <2>1. req' = [req EXCEPT ![r].pc = pc, ![r].cart.lines = lines]
    BY DEF ReadLines
  <2>2. pc \in {"lines", "read"}
    OBVIOUS
  <2>3. req \in [Requests -> Request]
    BY DEF IInv, TypeOK
  <2> HIDE DEF lines, pc
  <2>4. [req EXCEPT ![r].pc = pc, ![r].cart.lines = lines]
          = [req EXCEPT ![r] = [req[r] EXCEPT !.pc = pc, !.cart = [h EXCEPT !.lines = lines]]]
    BY <1>2, <2>3 DEF Request
  <2> QED BY <2>1, <2>2, <2>4 DEF lines
<1>5. UNCHANGED <<cart, opened, chosen, orders>>
  BY DEF ReadLines
<1> HIDE DEF d, h
<1> QED BY <1>1, <1>3, <1>4, <1>5, ReadingOn

(* Reading the options of the lines that are still there.                  *)
LEMMA ReadOptionsInv ==
    ASSUME IInv, NEW r \in Requests, req[r].cart # NoCart, ReadOptions(r) PROVE IInv'
<1> DEFINE h == req[r].cart
           found(id) == UNION {m.options : m \in {n \in LinesOf(h.id) : n.id = id}}
           f == [i \in Lines |-> found(i)]
           d == [h EXCEPT !.lines = {[l EXCEPT !.options = f[l.id]] : l \in h.lines}]
<1>1. req[r].pc = "lines" /\ req[r] # Idle
  BY DEF ReadOptions, Idle
<1>2. req[r] \in Request /\ h \in Cart /\ Sound(h)
  BY <1>1, HeldCart
<1>3. \A m \in LinesOf(h.id) : /\ m \in Line
                               /\ m.options \subseteq chosen[m.id].options
  <2> SUFFICES ASSUME NEW m \in LinesOf(h.id)
               PROVE  m \in Line /\ m.options \subseteq chosen[m.id].options
    OBVIOUS
  <2>1. cart.id = h.id /\ m \in cart.lines
    BY DEF LinesOf
  <2>2. cart # NoCart
    BY <1>2, <2>1, NothingIsNone
  <2> QED BY <2>1, <2>2, StoredCart DEF Sound, Cart
<1>4. f \in [Lines -> SUBSET Options]
  BY <1>3 DEF Line
<1>5. \A l \in h.lines : l.id \in Lines /\ f[l.id] \subseteq chosen[l.id].options
  BY <1>2, <1>3 DEF Cart, Line
<1>6. d \in Cart /\ Sound(d)
  <2> HIDE DEF f, h
  <2> QED BY <1>2, <1>4, <1>5, OptionsReadAreSound
<1>7. req' = [req EXCEPT ![r] = [req[r] EXCEPT !.pc = "read", !.cart = d]]
  <2> DEFINE lines == {[l EXCEPT !.options = found(l.id)] : l \in h.lines}
  <2>1. lines = {[l EXCEPT !.options = f[l.id]] : l \in h.lines}
    BY <1>5
  <2>2. req' = [req EXCEPT ![r].pc = "read", ![r].cart.lines = lines]
    <3>1. req \in [Requests -> Request]
      BY DEF IInv, TypeOK
    <3> QED BY <3>1, <1>2 DEF ReadOptions, Request
  <2>3. req \in [Requests -> Request]
    BY DEF IInv, TypeOK
  <2> HIDE DEF lines
  <2>4. [req EXCEPT ![r].pc = "read", ![r].cart.lines = lines]
          = [req EXCEPT ![r] = [req[r] EXCEPT !.pc = "read", !.cart = [h EXCEPT !.lines = lines]]]
    BY <1>2, <2>3 DEF Request
  <2> QED BY <2>1, <2>2, <2>4
<1>8. UNCHANGED <<cart, opened, chosen, orders>>
  BY DEF ReadOptions
<1> HIDE DEF d, h
<1> QED BY <1>1, <1>6, <1>7, <1>8, ReadingOn

-----------------------------------------------------------------------------
(* Writing back a copy that is sound once it is written.                   *)
LEMMA SaveInv ==
    ASSUME IInv, NEW r \in Requests, NEW c \in Cart, Save(r, c), Sound(c)', Kept,
           orders' = orders, chosen' \in [Lines -> Choice \cup {NoChoice}]
    PROVE  IInv'
<1>1. TypeOK'
  BY DEF IInv, TypeOK, Save, Request, Cart
<1>2. (\A d \in Stored \cup orders : Sound(d))'
  <2> SUFFICES ASSUME NEW d \in (Stored \cup orders)' PROVE Sound(d)'
    OBVIOUS
  <2>1. CASE d = c
    BY <2>1
  <2>2. CASE d \in orders
    <3>1. d \in Cart /\ Sound(d)
      BY <2>2 DEF IInv, TypeOK
    <3> QED BY <3>1, SoundStays
  <2>3. d = c \/ d \in orders
    BY DEF Stored, Save
  <2> QED BY <2>1, <2>2, <2>3
<1>3. CopiesAreSound'
  <2> SUFFICES ASSUME NEW s \in Requests, req'[s] # Idle, req'[s].cart # NoCart
               PROVE  Sound(req[s].cart)'
    BY DEF CopiesAreSound
  <2>1. req'[s] = req[s]
    BY DEF Save, IInv, TypeOK
  <2>2. req[s].cart \in Cart /\ Sound(req[s].cart)
    BY <2>1, HeldCart
  <2>3. PICK d \in Cart : d = req[s].cart /\ Sound(d)
    BY <2>2
  <2>4. Sound(d)'
    BY <2>3, SoundStays
  <2> QED BY <2>1, <2>3, <2>4 DEF Sound
<1> QED BY <1>1, <1>2, <1>3 DEF IInv

(* The cart an Add works on is the one read, or a new one at some shop.    *)
LEMMA BasketIsSound ==
    ASSUME IInv, NEW r \in Requests, Ready(r, {"add"}), NEW c \in Basket(r)
    PROVE  /\ c \in Cart
           /\ opened[c.id] \in {None, c.shop}
           /\ IsFiniteSet(c.lines) /\ Cardinality(c.lines) <= MaxLines
           /\ \A l \in c.lines : /\ ShopOf[l.item] = c.shop
                                 /\ chosen[l.id] # NoChoice
                                 /\ chosen[l.id].item = l.item
                                 /\ l.options \subseteq chosen[l.id].options
           /\ \A l, m \in c.lines : l.id = m.id => l = m
<1>1. req[r] # Idle
  BY DEF Ready, Idle
<1>2. CASE req[r].cart # NoCart
  BY <1>1, <1>2, HeldCart DEF Basket, Sound
<1>3. CASE req[r].cart = NoCart
  <2>1. c \in Cart /\ opened[c.id] = None /\ c.lines = {}
    BY <1>3 DEF Basket, Cart
  <2> QED BY <2>1, FS_EmptySet, LimitsAssumption
<1> QED BY <1>2, <1>3

(* A new line gets a new id, is of the cart's shop, and fits.              *)
LEMMA AddNewLineInv == ASSUME IInv, NEW r \in Requests, AddNewLine(r) PROVE IInv'
<1>1. PICK c \in Basket(r), line \in Line :
        /\ ShopOf[line.item] = c.shop
        /\ chosen[line.id] = NoChoice
        /\ Cardinality(c.lines) < MaxLines
        /\ Save(r, [c EXCEPT !.lines = @ \cup {line}])
        /\ chosen' = [chosen EXCEPT ![line.id] = [item |-> line.item, options |-> line.options]]
  BY DEF AddNewLine
<1> DEFINE d == [c EXCEPT !.lines = @ \cup {line}]
<1>2. Ready(r, {"add"}) /\ orders' = orders
  BY DEF AddNewLine
<1>3. /\ c \in Cart
      /\ opened[c.id] \in {None, c.shop}
      /\ IsFiniteSet(c.lines)
      /\ \A l \in c.lines : /\ ShopOf[l.item] = c.shop
                            /\ chosen[l.id] # NoChoice
                            /\ chosen[l.id].item = l.item
                            /\ l.options \subseteq chosen[l.id].options
      /\ \A l, m \in c.lines : l.id = m.id => l = m
  BY <1>2, BasketIsSound
<1>4. d \in Cart /\ d.id = c.id /\ d.shop = c.shop /\ d.lines = c.lines \cup {line}
  BY <1>3 DEF Cart
<1>5. /\ line.id \in Lines /\ [item |-> line.item, options |-> line.options] \in Choice
      /\ [item |-> line.item, options |-> line.options] # NoChoice
  BY NothingIsNone DEF Line, Choice
<1>6. chosen \in [Lines -> Choice \cup {NoChoice}] /\ opened \in [Carts -> Shops \cup {None}]
  BY DEF IInv, TypeOK
<1>7. opened' = [opened EXCEPT ![c.id] = c.shop]
  BY <1>1, <1>4 DEF Save
<1>8. Kept
  BY <1>1, <1>3, <1>5, <1>6, <1>7 DEF Kept
<1>9. chosen' \in [Lines -> Choice \cup {NoChoice}]
  BY <1>1, <1>5, <1>6
<1>10. opened'[d.id] = d.shop
  BY <1>3, <1>4, <1>6, <1>7 DEF Cart
<1>11. \A l \in d.lines : /\ ShopOf[l.item] = d.shop
                          /\ chosen'[l.id] # NoChoice
                          /\ chosen'[l.id].item = l.item
                          /\ l.options \subseteq chosen'[l.id].options
  <2> SUFFICES ASSUME NEW l \in d.lines
               PROVE  /\ ShopOf[l.item] = d.shop
                      /\ chosen'[l.id] # NoChoice
                      /\ chosen'[l.id].item = l.item
                      /\ l.options \subseteq chosen'[l.id].options
    OBVIOUS
  <2>1. CASE l = line
    BY <2>1, <1>1, <1>4, <1>5, <1>6
  <2>2. CASE l \in c.lines
    <3>1. l.id \in Lines
      BY <1>3, <2>2 DEF Cart, Line
    <3> QED BY <2>2, <3>1, <1>3, <1>4, <1>8 DEF Kept
  <2> HIDE DEF d
  <2> QED BY <2>1, <2>2, <1>4
<1>12. \A l, m \in d.lines : l.id = m.id => l = m
  <2>1. \A l \in c.lines : l.id # line.id
    BY <1>1, <1>3
  <2> HIDE DEF d
  <2> QED BY <2>1, <1>3, <1>4
<1>13. IsFiniteSet(d.lines) /\ Cardinality(d.lines) <= MaxLines
  <2>1. Cardinality(c.lines) \in Nat
    BY <1>3, FS_CardinalityType
  <2>2. /\ IsFiniteSet(c.lines \cup {line})
        /\ Cardinality(c.lines \cup {line}) =
             IF line \in c.lines THEN Cardinality(c.lines) ELSE Cardinality(c.lines) + 1
    <3>1. IsFiniteSet(c.lines)
      BY <1>3
    <3> QED BY <3>1, FS_AddElement
  <2>3. Cardinality(c.lines) < MaxLines
    BY <1>1
  <2>4. Cardinality(c.lines \cup {line}) <= MaxLines
    BY <2>1, <2>2, <2>3, LimitsAssumption
  <2>5. d.lines = c.lines \cup {line}
    BY <1>4
  <2> QED BY <2>2, <2>4, <2>5
<1>14. PICK e \in Cart : e = d
  BY <1>4
<1>15. Sound(e)'
  <2> HIDE DEF d
  <2> QED BY <1>10, <1>11, <1>12, <1>13, <1>14 DEF Sound
<1> QED BY <1>1, <1>2, <1>8, <1>9, <1>14, <1>15, SaveInv

(* A copy whose lines are some of those of a sound cart.                   *)
LEMMA FewerLinesAreSound ==
    ASSUME NEW c \in Cart, Sound(c), NEW lines \in SUBSET c.lines
    PROVE  LET d == [c EXCEPT !.lines = lines] IN d \in Cart /\ Sound(d)
<1> DEFINE d == [c EXCEPT !.lines = lines]
<1>1. d \in Cart /\ d.id = c.id /\ d.shop = c.shop /\ d.lines = lines
  BY DEF Cart
<1>2. IsFiniteSet(lines) /\ Cardinality(lines) <= MaxLines
  <2>1. IsFiniteSet(c.lines) /\ Cardinality(c.lines) \in Nat /\ Cardinality(c.lines) <= MaxLines
    BY FS_CardinalityType DEF Sound
  <2>2. IsFiniteSet(lines) /\ Cardinality(lines) <= Cardinality(c.lines)
    BY <2>1, FS_Subset
  <2>3. Cardinality(lines) \in Nat
    BY <2>2, FS_CardinalityType
  <2> QED BY <2>1, <2>2, <2>3, LimitsAssumption
<1>3. Sound(d)
  <2> HIDE DEF d
  <2> QED BY <1>1, <1>2 DEF Sound
<1> QED BY <1>1, <1>3

(* Another quantity on a line is no other line.                            *)
LEMMA QuantityIsSound ==
    ASSUME NEW c \in Cart, Sound(c), NEW l \in c.lines, NEW q \in 1..MaxQuantity
    PROVE  WithQuantity(c, l, q) \in Cart /\ Sound(WithQuantity(c, l, q))
<1> DEFINE m == [l EXCEPT !.quantity = q]
           lines == (c.lines \ {l}) \cup {m}
           d == WithQuantity(c, l, q)
<1>1. l \in Line /\ m \in Line /\ m.id = l.id /\ m.item = l.item /\ m.options = l.options
  BY DEF Cart, Line
<1>2. d \in Cart /\ d.id = c.id /\ d.shop = c.shop /\ d.lines = lines
  BY <1>1 DEF Cart, WithQuantity
<1>3. IsFiniteSet(lines) /\ Cardinality(lines) <= MaxLines
  <2>1. IsFiniteSet(c.lines) /\ Cardinality(c.lines) \in Nat /\ Cardinality(c.lines) <= MaxLines
    BY FS_CardinalityType DEF Sound
  <2>2. /\ IsFiniteSet(c.lines \ {l}) /\ Cardinality(c.lines \ {l}) = Cardinality(c.lines) - 1
    BY <2>1, FS_RemoveElement
  <2>3. Cardinality(c.lines \ {l}) \in Nat
    BY <2>2, FS_CardinalityType
  <2>4. IsFiniteSet(lines) /\ Cardinality(lines) <= Cardinality(c.lines \ {l}) + 1
    <3> HIDE DEF m
    <3> QED BY <2>2, <2>3, FS_AddElement
  <2>5. Cardinality(lines) \in Nat
    BY <2>4, FS_CardinalityType
  <2> HIDE DEF lines
  <2> QED BY <2>1, <2>2, <2>4, <2>5, LimitsAssumption
<1>4. \A k \in lines : /\ ShopOf[k.item] = c.shop
                       /\ chosen[k.id] # NoChoice
                       /\ chosen[k.id].item = k.item
                       /\ k.options \subseteq chosen[k.id].options
  <2> HIDE DEF m
  <2> QED BY <1>1 DEF Sound
<1>5. \A j, k \in lines : j.id = k.id => j = k
  <2>1. \A k \in c.lines \ {l} : k.id # m.id
    BY <1>1 DEF Sound
  <2> HIDE DEF m
  <2> QED BY <2>1 DEF Sound
<1>6. Sound(d)
  <2> HIDE DEF d, lines
  <2> QED BY <1>2, <1>3, <1>4, <1>5 DEF Sound
<1> QED BY <1>2, <1>6

(* Writing back a sound cart of the id that was read, nothing being added. *)
LEMMA SaveCopyInv ==
    ASSUME IInv, NEW r \in Requests, NEW c \in Cart, Sound(c), Save(r, c),
           UNCHANGED <<chosen, orders>>
    PROVE  IInv'
<1>1. opened \in [Carts -> Shops \cup {None}] /\ c.id \in Carts /\ opened[c.id] = c.shop
  BY DEF IInv, TypeOK, Sound, Cart
<1>2. Kept
  BY <1>1 DEF Kept, Save
<1>3. Sound(c)'
  BY <1>2, SoundStays
<1> QED BY <1>2, <1>3, SaveInv DEF IInv, TypeOK

(* The quantity, the removal and the address.                              *)
LEMMA EditInv ==
    ASSUME IInv, NEW r \in Requests, AddMore(r) \/ SetQuantity(r) \/ Remove(r) \/ SetAddress(r)
    PROVE  IInv'
<1>1. req[r] # Idle /\ req[r].cart # NoCart /\ UNCHANGED <<chosen, orders>>
  BY DEF AddMore, SetQuantity, Remove, SetAddress, Ready, Idle
<1>2. PICK c \in Cart : c = req[r].cart /\ Sound(c)
  BY <1>1, HeldCart
<1>3. CASE AddMore(r)
  <2>1. PICK l \in c.lines, q \in 1..MaxQuantity :
          l.quantity + q <= MaxQuantity /\ Save(r, WithQuantity(c, l, l.quantity + q))
    BY <1>2, <1>3 DEF AddMore
  <2>2. l.quantity + q \in 1..MaxQuantity
    BY <2>1, LimitsAssumption DEF Cart, Line
  <2>3. /\ WithQuantity(c, l, l.quantity + q) \in Cart
        /\ Sound(WithQuantity(c, l, l.quantity + q))
    BY <1>2, <2>2, QuantityIsSound
  <2> QED BY <1>1, <2>1, <2>3, SaveCopyInv
<1>4. CASE SetQuantity(r)
  <2>1. PICK l \in c.lines, q \in 1..MaxQuantity : Save(r, WithQuantity(c, l, q))
    BY <1>2, <1>4 DEF SetQuantity
  <2>2. WithQuantity(c, l, q) \in Cart /\ Sound(WithQuantity(c, l, q))
    BY <1>2, QuantityIsSound
  <2> QED BY <1>1, <2>1, <2>2, SaveCopyInv
<1>5. CASE Remove(r)
  <2>1. PICK l \in c.lines : Save(r, [c EXCEPT !.lines = c.lines \ {l}])
    BY <1>2, <1>5 DEF Remove
  <2>2. [c EXCEPT !.lines = c.lines \ {l}] \in Cart /\ Sound([c EXCEPT !.lines = c.lines \ {l}])
    BY <1>2, FewerLinesAreSound
  <2> QED BY <1>1, <2>1, <2>2, SaveCopyInv
<1>6. CASE SetAddress(r)
  BY <1>1, <1>2, <1>6, SaveCopyInv DEF SetAddress
<1> QED BY <1>3, <1>4, <1>5, <1>6

(* A deletion leaves less to keep.                                         *)
LEMMA DeleteInv == ASSUME IInv, NEW r \in Requests, Delete(r) PROVE IInv'
<1>1. \E q \in {Idle, Then("add")} : req' = [req EXCEPT ![r] = q]
  BY DEF Delete, EndDeleting
<1>2. UNCHANGED <<opened, chosen, orders>> /\ cart' \in {cart, NoCart}
  BY DEF Delete, EndDeleting
<1>3. TypeOK'
  BY <1>1, <1>2 DEF IInv, TypeOK, Request, Then
<1>4. (\A c \in Stored \cup orders : Sound(c))'
  BY <1>2 DEF IInv, Stored, Sound
<1>5. CopiesAreSound'
  <2> SUFFICES ASSUME NEW s \in Requests, req'[s] # Idle, req'[s].cart # NoCart
               PROVE  Sound(req[s].cart)'
    BY DEF CopiesAreSound
  <2>1. req'[s] = req[s]
    BY <1>1 DEF IInv, TypeOK, Then
  <2> QED BY <2>1, <1>2 DEF IInv, CopiesAreSound, Sound
<1> QED BY <1>3, <1>4, <1>5 DEF IInv

(* The order takes the copy as it is.                                      *)
LEMMA OrderInv == ASSUME IInv, NEW r \in Requests, Order(r) PROVE IInv'
<1>1. PICK c \in Cart : c = req[r].cart /\ Sound(c)
  BY HeldCart DEF Order, Ready, Idle
<1>2. /\ orders' = orders \cup {c}
      /\ req' = [req EXCEPT ![r] = Then("ordered")]
      /\ UNCHANGED <<cart, opened, chosen>>
  BY <1>1 DEF Order
<1>3. TypeOK'
  BY <1>1, <1>2 DEF IInv, TypeOK, Request, Then
<1>4. (\A d \in Stored \cup orders : Sound(d))'
  BY <1>1, <1>2 DEF IInv, Stored, Sound
<1>5. CopiesAreSound'
  <2> SUFFICES ASSUME NEW s \in Requests, req'[s] # Idle, req'[s].cart # NoCart
               PROVE  Sound(req[s].cart)'
    BY DEF CopiesAreSound
  <2>1. req'[s] = req[s]
    BY <1>2 DEF IInv, TypeOK, Then
  <2> QED BY <2>1, <1>2 DEF IInv, CopiesAreSound, Sound
<1> QED BY <1>3, <1>4, <1>5 DEF IInv

(* A request that stops holds nothing.                                     *)
LEMMA StopInv == ASSUME IInv, NEW r \in Requests, Stop(r) PROVE IInv'
<1>1. Idle \in Request
  BY DEF Request
<1> QED BY <1>1, HoldingInv DEF Stop

(* A request past the row holds a cart: what it reads on is not nothing.   *)
(* (Without one, ReadRow goes to "read" at once.)                          *)
HoldsARow == \A r \in Requests : req[r].pc \in {"row", "lines"} => req[r].cart # NoCart

(* So it is, at every step.                                                *)
LEMMA RowsHeld ==
    ASSUME IInv, HoldsARow, [Next]_vars
    PROVE  HoldsARow'
<1>1. ASSUME NEW s \in Requests, req'[s].pc \in {"row", "lines"} PROVE req'[s].cart # NoCart
  <2>1. CASE UNCHANGED vars
    BY <1>1, <2>1 DEF vars, HoldsARow
  <2>2. CASE Next
    <3>1. PICK r \in Requests :
            \/ ReadRow(r) \/ ReadLines(r) \/ ReadOptions(r)
            \/ AddNewLine(r) \/ AddMore(r) \/ SetQuantity(r) \/ Remove(r)
            \/ SetAddress(r) \/ Delete(r) \/ Order(r) \/ Stop(r)
      BY <2>2 DEF Next
    <3>2. CASE s # r
      <4>1. req'[s] = req[s]
        BY <3>1, <3>2 DEF IInv, TypeOK, ReadRow, ReadLines, ReadOptions, AddNewLine, AddMore,
           SetQuantity, Remove, SetAddress, Delete, EndDeleting, Order, Stop, Save
      <4> QED BY <1>1, <4>1 DEF HoldsARow
    <3>3. CASE s = r
      <4>1. CASE ReadRow(r)
        <5>1. cart = NoCart => req'[r].pc = "read"
          BY <4>1 DEF ReadRow, IInv, TypeOK
        <5>2. cart # NoCart => req'[r].cart = [cart EXCEPT !.lines = {}]
          BY <4>1 DEF ReadRow, IInv, TypeOK
        <5>3. cart # NoCart => [cart EXCEPT !.lines = {}] \in Cart
          BY StoredCart, EmptiedIsSound DEF Sound
        <5> QED BY <1>1, <3>3, <5>1, <5>2, <5>3, NothingIsNone
      <4>2. CASE ReadLines(r) \/ ReadOptions(r)
        <5>1. req[r] # Idle /\ req[r].cart # NoCart
          BY <4>2 DEF ReadLines, ReadOptions, HoldsARow, Idle
        <5>2. req[r] \in Request /\ req[r].cart \in Cart
          BY <5>1, HeldCart
        <5>3. \E pc, lines : req' = [req EXCEPT ![r].pc = pc, ![r].cart.lines = lines]
          BY <4>2 DEF ReadLines, ReadOptions
        <5>4. req'[r].cart.id = req[r].cart.id
          BY <5>2, <5>3 DEF Cart, Request, IInv, TypeOK
        <5> QED BY <3>3, <5>2, <5>4, NothingIsNone
      <4>3. CASE AddNewLine(r) \/ AddMore(r) \/ SetQuantity(r) \/ Remove(r)
                 \/ SetAddress(r) \/ Delete(r) \/ Order(r) \/ Stop(r)
        <5>1. req'[r] \in {Idle, Then("add"), Then("ordered")}
          BY <4>3 DEF IInv, TypeOK, AddNewLine, AddMore, SetQuantity, Remove, SetAddress,
             Delete, EndDeleting, Order, Stop, Save
        <5> QED BY <1>1, <3>3, <5>1 DEF Idle, Then
      <4> QED BY <3>1, <4>1, <4>2, <4>3
    <3> QED BY <3>2, <3>3
  <2> QED BY <2>1, <2>2
<1> QED BY <1>1 DEF HoldsARow

-----------------------------------------------------------------------------
(* Every step keeps the invariant.                                         *)
LEMMA NextInv == ASSUME IInv, HoldsARow, [Next]_vars PROVE IInv'
<1>1. CASE UNCHANGED vars
  BY <1>1 DEF vars, IInv, TypeOK, Stored, Sound, CopiesAreSound
<1>2. ASSUME NEW r \in Requests,
             \/ ReadRow(r) \/ ReadLines(r) \/ ReadOptions(r)
             \/ AddNewLine(r) \/ AddMore(r) \/ SetQuantity(r) \/ Remove(r)
             \/ SetAddress(r) \/ Delete(r) \/ Order(r) \/ Stop(r)
      PROVE  IInv'
  <2>1. CASE ReadRow(r)
    BY <2>1, ReadRowInv
  <2>2. CASE ReadLines(r)
    BY <2>2, ReadLinesInv DEF HoldsARow, ReadLines
  <2>3. CASE ReadOptions(r)
    BY <2>3, ReadOptionsInv DEF HoldsARow, ReadOptions
  <2>4. CASE AddNewLine(r)
    BY <2>4, AddNewLineInv
  <2>5. CASE AddMore(r) \/ SetQuantity(r) \/ Remove(r) \/ SetAddress(r)
    BY <2>5, EditInv
  <2>6. CASE Delete(r)
    BY <2>6, DeleteInv
  <2>7. CASE Order(r)
    BY <2>7, OrderInv
  <2>8. CASE Stop(r)
    BY <2>8, StopInv
  <2> QED BY <1>2, <2>1, <2>2, <2>3, <2>4, <2>5, <2>6, <2>7, <2>8
<1> QED BY <1>1, <1>2 DEF Next

(* The invariant holds for good.                                           *)
THEOREM Invariant == Spec => [](IInv /\ HoldsARow)
<1>1. Init => IInv /\ HoldsARow
  BY InitInv DEF Init, HoldsARow, Idle
<1>2. IInv /\ HoldsARow /\ [Next]_vars => (IInv /\ HoldsARow)'
  BY NextInv, RowsHeld
<1> QED BY <1>1, <1>2, PTL DEF Spec

(* Every variable keeps its shape, and quantities their limit.             *)
THEOREM TypeCorrect == Spec => []TypeOK
<1>1. IInv => TypeOK
  BY DEF IInv
<1> QED BY <1>1, Invariant, PTL

(* Carts and orders are of one shop, however many devices edit the cart.   *)
THEOREM OneShopAlways == Spec => []OneShop
<1>1. IInv => OneShop
  BY DEF IInv, Sound, OneShop
<1> QED BY <1>1, Invariant, PTL

(* Carts and orders keep to the limits and show no line twice.             *)
THEOREM LimitsAlways == Spec => []WithinLimits
<1>1. IInv => WithinLimits
  BY DEF IInv, Sound, WithinLimits
<1> QED BY <1>1, Invariant, PTL

(* No cart or order holds what its customer did not choose.                *)
THEOREM ChosenAlways == Spec => []OnlyWhatWasChosen
<1>1. IInv => OnlyWhatWasChosen
  BY DEF IInv, Sound, OnlyWhatWasChosen
<1> QED BY <1>1, Invariant, PTL

(* A cart goes only by a request that read that very cart.                 *)
THEOREM SeenCartsGo == Spec => OnlyASeenCartGoes
<1>1. ASSUME [Next]_vars, NEW c \in Stored, cart'.id # c.id
      PROVE  \E r \in Requests : Ready(r, {"clear", "ordered", "replace"})
                                 /\ req[r].cart.id = c.id
  <2>1. c = cart /\ cart # NoCart /\ cart' # cart
    BY <1>1 DEF Stored
  <2>2. PICK r \in Requests :
          \/ ReadRow(r) \/ ReadLines(r) \/ ReadOptions(r)
          \/ AddNewLine(r) \/ AddMore(r) \/ SetQuantity(r) \/ Remove(r)
          \/ SetAddress(r) \/ Delete(r) \/ Order(r) \/ Stop(r)
    BY <1>1, <2>1 DEF Next, vars
  <2>3. CASE Delete(r)
    BY <2>1, <2>3 DEF Delete, EndDeleting, Ready
  <2>4. CASE AddNewLine(r) \/ AddMore(r) \/ SetQuantity(r) \/ Remove(r) \/ SetAddress(r)
    <3>1. \E d : Save(r, d)
      BY <2>4 DEF AddNewLine, AddMore, SetQuantity, Remove, SetAddress
    <3>2. cart.id = cart'.id
      BY <2>1, <3>1 DEF Save
    <3> QED BY <1>1, <2>1, <3>2
  <2>5. CASE ReadRow(r) \/ ReadLines(r) \/ ReadOptions(r) \/ Order(r) \/ Stop(r)
    BY <2>1, <2>5 DEF ReadRow, ReadLines, ReadOptions, Order, Stop
  <2> QED BY <2>2, <2>3, <2>4, <2>5
<1>2. [Next]_vars => [\A c \in Stored :
                         cart'.id # c.id =>
                            \E r \in Requests : Ready(r, {"clear", "ordered", "replace"})
                                                /\ req[r].cart.id = c.id]_vars
  BY <1>1
<1> QED BY <1>2, PTL DEF Spec, OnlyASeenCartGoes

-----------------------------------------------------------------------------

(* A request that has started, and what it becomes by writing its basket   *)
(* or its order, are records of one set.                                   *)
Active == [pc : {"looked", "read", "created", "claimed"}, customer : Customers,
           key : Keys \cup {Nothing}, basket : Baskets \cup {Nothing}, order : Orders \cup {Nothing}]

(* A request's fields have their types.                                    *)
LEMMA ActiveRequest ==
    ASSUME PlacementTypeOK, NEW r \in Checkouts, placing[r].pc # "idle"
    PROVE  /\ placing[r].pc \in {"looked", "read", "created", "claimed"}
           /\ placing[r].customer \in Customers
           /\ placing[r].key \in Keys \cup {Nothing}
           /\ placing[r].basket \in Baskets \cup {Nothing}
           /\ placing[r].order \in Orders \cup {Nothing}
           /\ placing[r] \in Active
<1>1. placing[r] \in Active
  BY DEF PlacementTypeOK, Placing, NotPlacing, Active
<1> QED BY <1>1 DEF Active

(* Writing two of a request's fields leaves the other three of their type. *)
LEMMA RequestGoesOn ==
    ASSUME NEW q \in Active, NEW pc \in {"looked", "read", "created", "claimed"},
           NEW b \in Baskets \cup {Nothing}, NEW o \in Orders \cup {Nothing}
    PROVE  /\ [q EXCEPT !.pc = pc, !.basket = b] \in Placing
           /\ [q EXCEPT !.pc = pc, !.order = o] \in Placing
<1>1. [q EXCEPT !.pc = pc, !.basket = b] \in Active
  BY DEF Active
<1>2. [q EXCEPT !.pc = pc, !.order = o] \in Active
  BY DEF Active
<1>3. Active \subseteq Placing
  BY DEF Active, Placing
<1> QED BY <1>1, <1>2, <1>3

(* The system starts with empty tables and nothing in flight.              *)
LEMMA PlacementInitInv == PlacementInit => PlacementIInv
BY DEF PlacementInit, PlacementIInv, PlacementTypeOK, RequestsHold, ClaimsAreTheKeysOwn, Placing, NoOrder, NotPlacing,
       AnswersAreTheCustomersOwn, AnswersAreClaimed

(* A request that ends without an answer takes nothing with it.            *)
LEMMA EndInv ==
    ASSUME PlacementIInv, NEW r \in Checkouts, placing' = [placing EXCEPT ![r] = NotPlacing],
           UNCHANGED <<placed, claimed, answered>>, basketOf' \in [Customers -> Baskets \cup {Nothing}]
    PROVE  PlacementIInv'
<1>1. PlacementTypeOK'
  BY DEF PlacementIInv, PlacementTypeOK, Placing
<1>2. RequestsHold'
  BY DEF PlacementIInv, PlacementTypeOK, RequestsHold, RequestHolds, NotPlacing
<1> QED BY <1>1, <1>2 DEF PlacementIInv, ClaimsAreTheKeysOwn, AnswersAreTheCustomersOwn,
                         AnswersAreClaimed

(* An answer out of the key table.                                         *)
LEMMA AnswerAgainInv ==
    ASSUME PlacementIInv, NEW r \in Checkouts, NEW c \in Customers, NEW k \in Keys \cup {Nothing},
           AnswerAgain(r, c, k)
    PROVE  PlacementIInv'
<1> DEFINE o == claimed[c][k]
<1>1. k \in Keys /\ o \in Orders /\ PlacementTypeOK
  BY DEF AnswerAgain, PlacementIInv, PlacementTypeOK
<1>2. answered' = answered \cup {<<c, k, o>>} /\ UNCHANGED <<placed, claimed, basketOf, placing>>
  BY DEF AnswerAgain
<1>3. placed[o].customer = c /\ placed[o].key = k
  BY <1>1, NothingAssumption DEF PlacementIInv, ClaimsAreTheKeysOwn
<1>4. placed[o] # NoOrder
  BY <1>1, <1>3, NothingAssumption DEF PlacementTypeOK, NoOrder, PlacedOrder, PlacementIInv, ClaimsAreTheKeysOwn
<1> HIDE DEF o
<1>5. AnswersAreTheCustomersOwn'
  BY <1>2, <1>3, <1>4 DEF PlacementIInv, AnswersAreTheCustomersOwn
<1>6. AnswersAreClaimed'
  BY <1>2 DEF PlacementIInv, AnswersAreClaimed, o
<1>7. PlacementTypeOK'
  BY <1>1, <1>2 DEF PlacementTypeOK
<1> QED BY <1>2, <1>5, <1>6, <1>7 DEF PlacementIInv, RequestsHold, RequestHolds, ClaimsAreTheKeysOwn

(* A request advances in memory only.                                      *)
LEMMA LookUpInv ==
    ASSUME PlacementIInv, NEW r \in Checkouts, NEW c \in Customers, NEW k \in Keys \cup {Nothing},
           LookUp(r, c, k)
    PROVE  PlacementIInv'
<1>1. PlacementTypeOK'
  BY DEF LookUp, PlacementIInv, PlacementTypeOK, Placing
<1>2. RequestsHold'
  BY DEF LookUp, PlacementIInv, PlacementTypeOK, RequestsHold, RequestHolds
<1> QED BY <1>1, <1>2 DEF LookUp, PlacementIInv, ClaimsAreTheKeysOwn, AnswersAreTheCustomersOwn,
                         AnswersAreClaimed

(* Reading the cart (place.go, 101-115) keeps the invariant. *)
LEMMA ReadCartInv ==
    ASSUME PlacementIInv, NEW r \in Checkouts, ReadCart(r)
    PROVE  PlacementIInv'
<1>1. placing[r].pc = "looked" /\ PlacementTypeOK
  BY DEF ReadCart, PlacementIInv
<1>2. basketOf[placing[r].customer] \in Baskets /\ basketOf[placing[r].customer] # Nothing
  BY <1>1, ActiveRequest DEF ReadCart, PlacementTypeOK
<1>3. PlacementTypeOK'
  <2>1. [placing[r] EXCEPT !.pc = "read", !.basket = basketOf[placing[r].customer]] \in Placing
    BY <1>1, <1>2, ActiveRequest, RequestGoesOn
  <2>2. placing' \in [Checkouts -> Placing]
    BY <1>1, <2>1 DEF ReadCart, PlacementTypeOK
  <2> QED BY <1>1, <2>2 DEF ReadCart, PlacementTypeOK
<1>4. RequestsHold'
  BY <1>1, <1>2, ActiveRequest DEF ReadCart, PlacementIInv, PlacementTypeOK, RequestsHold, RequestHolds
<1> QED BY <1>3, <1>4 DEF ReadCart, PlacementIInv, ClaimsAreTheKeysOwn, AnswersAreTheCustomersOwn,
                         AnswersAreClaimed

(* A new order is under an id no claim, answer or other request refers to. *)
LEMMA CreateInv ==
    ASSUME PlacementIInv, NEW r \in Checkouts, NEW o \in Orders, Create(r, o)
    PROVE  PlacementIInv'
<1> DEFINE q == placing[r]
           row == [customer |-> q.customer, key |-> q.key, basket |-> q.basket]
<1>1. /\ q.pc = "read" /\ PlacementTypeOK /\ placed[o] = NoOrder
      /\ placed' = [placed EXCEPT ![o] = row]
      /\ placing' = [placing EXCEPT ![r].pc = "created", ![r].order = o]
      /\ UNCHANGED <<claimed, basketOf, answered>>
  BY DEF Create, PlacementIInv
<1>2. q.customer \in Customers /\ q.key \in Keys \cup {Nothing} /\ q.basket \in Baskets
  BY <1>1, ActiveRequest DEF PlacementIInv, RequestsHold, RequestHolds
<1>3. row \in PlacedOrder /\ row # NoOrder /\ row.customer = q.customer /\ row.key = q.key
  BY <1>2 DEF PlacedOrder, NoOrder
<1> HIDE DEF row
<1>4. PlacementTypeOK'
  <2>1. [q EXCEPT !.pc = "created", !.order = o] \in Placing
    BY <1>1, ActiveRequest, RequestGoesOn
  <2>2. placing' \in [Checkouts -> Placing]
    BY <1>1, <2>1 DEF PlacementTypeOK
  <2> QED BY <1>1, <1>3, <2>2 DEF PlacementTypeOK
<1>5. \A c \in Customers, k \in Keys : claimed[c][k] # o
  <2> SUFFICES ASSUME NEW c \in Customers, NEW k \in Keys, claimed[c][k] = o
               PROVE  FALSE
    OBVIOUS
  <2>1. placed[o].customer = c /\ placed[o].key = k
    BY NothingAssumption DEF PlacementIInv, ClaimsAreTheKeysOwn
  <2> QED BY <1>1, <2>1, NothingAssumption DEF NoOrder
<1>6. ClaimsAreTheKeysOwn'
  BY <1>1, <1>5 DEF PlacementIInv, PlacementTypeOK, ClaimsAreTheKeysOwn
<1>7. AnswersAreTheCustomersOwn'
  BY <1>1 DEF PlacementIInv, PlacementTypeOK, AnswersAreTheCustomersOwn
<1>8. RequestsHold'
  <2> SUFFICES ASSUME NEW s \in Checkouts, placing'[s].pc # "idle"
               PROVE  RequestHolds(placing[s])'
    BY DEF RequestsHold
  <2>1. CASE s = r
    BY <1>1, <1>3, <2>1, NothingAssumption, ActiveRequest DEF RequestHolds, PlacementTypeOK
  <2>2. CASE s # r
    <3>1. placing'[s] = placing[s] /\ RequestHolds(placing[s])
      BY <1>1, <2>2 DEF PlacementIInv, RequestsHold, PlacementTypeOK
    <3>2. placing[s].pc \in {"created", "claimed"} => placing[s].order # o
      BY <1>1, <3>1 DEF RequestHolds
    <3>3. placing[s].pc \in {"created", "claimed"} => placed'[placing[s].order] = placed[placing[s].order]
      BY <1>1, <3>1, <3>2, ActiveRequest DEF RequestHolds, PlacementTypeOK
    <3> QED BY <1>1, <3>1, <3>3 DEF RequestHolds
  <2> QED BY <2>1, <2>2
<1> QED BY <1>1, <1>4, <1>6, <1>7, <1>8 DEF PlacementIInv, AnswersAreClaimed

(* A claim takes a free key, and so disturbs no claim made before.         *)
LEMMA ClaimInv ==
    ASSUME PlacementIInv, NEW r \in Checkouts, Claim(r)
    PROVE  PlacementIInv'
<1> DEFINE q == placing[r]
<1>1. /\ q.pc = "created" /\ PlacementTypeOK /\ q.key # Nothing /\ claimed[q.customer][q.key] = Nothing
      /\ claimed' = [claimed EXCEPT ![q.customer][q.key] = q.order]
      /\ placing' = [placing EXCEPT ![r].pc = "claimed"]
      /\ UNCHANGED <<placed, basketOf, answered>>
  BY DEF Claim, PlacementIInv
<1>2. /\ q.customer \in Customers /\ q.key \in Keys /\ q.order \in Orders
      /\ placed[q.order] # NoOrder
      /\ placed[q.order].customer = q.customer /\ placed[q.order].key = q.key
      /\ q.order # Nothing
  BY <1>1, ActiveRequest DEF PlacementIInv, RequestsHold, RequestHolds
<1>3. PlacementTypeOK'
  <2>1. [placing[r] EXCEPT !.pc = "claimed"] \in Placing
    BY <1>1, <1>2, ActiveRequest DEF Active, Placing
  <2>2. placing' \in [Checkouts -> Placing]
    BY <1>1, <2>1 DEF PlacementTypeOK
  <2> QED BY <1>1, <1>2, <2>2 DEF PlacementTypeOK
<1>4. ClaimsAreTheKeysOwn'
  BY <1>1, <1>2 DEF PlacementIInv, PlacementTypeOK, ClaimsAreTheKeysOwn
<1>5. AnswersAreClaimed'
  BY <1>1, <1>2, NothingAssumption DEF PlacementIInv, PlacementTypeOK, AnswersAreClaimed
<1>6. RequestsHold'
  <2> SUFFICES ASSUME NEW s \in Checkouts, placing'[s].pc # "idle"
               PROVE  RequestHolds(placing[s])'
    BY DEF RequestsHold
  <2>1. CASE s = r
    BY <1>1, <1>2, <2>1, ActiveRequest DEF RequestHolds, PlacementTypeOK
  <2>2. CASE s # r
    <3>1. placing'[s] = placing[s] /\ RequestHolds(placing[s])
      BY <1>1, <2>2 DEF PlacementIInv, RequestsHold
    <3>2. /\ placing[s].customer \in Customers /\ placing[s].key \in Keys \cup {Nothing}
          /\ placing[s].order \in Orders \cup {Nothing}
      BY <1>1, <3>1, ActiveRequest
    <3> QED BY <1>1, <1>2, <3>1, <3>2 DEF RequestHolds, PlacementTypeOK
  <2> QED BY <2>1, <2>2
<1> QED BY <1>1, <1>3, <1>4, <1>5, <1>6 DEF PlacementIInv, AnswersAreTheCustomersOwn

(* A first answer names the order the request created, and, with a key,    *)
(* claimed.                                                                *)
LEMMA AnswerInv ==
    ASSUME PlacementIInv, NEW r \in Checkouts, Answer(r)
    PROVE  PlacementIInv'
<1> DEFINE q == placing[r]
           a == <<q.customer, q.key, q.order>>
<1>1. /\ PlacementTypeOK /\ q.pc \in {"created", "claimed"} /\ (q.pc = "created" => q.key = Nothing)
      /\ answered' = answered \cup {a}
      /\ placing' = [placing EXCEPT ![r] = NotPlacing]
      /\ UNCHANGED <<placed, claimed>>
  BY DEF Answer, PlacementIInv
<1>2. /\ q.customer \in Customers /\ q.key \in Keys \cup {Nothing} /\ q.order \in Orders
      /\ placed[q.order] # NoOrder
      /\ placed[q.order].customer = q.customer /\ placed[q.order].key = q.key
      /\ (q.key # Nothing => claimed[q.customer][q.key] = q.order)
  BY <1>1, ActiveRequest DEF PlacementIInv, RequestsHold, RequestHolds
<1>3. basketOf' \in [Customers -> Baskets \cup {Nothing}]
  BY <1>1 DEF Answer, PlacementTypeOK
<1>4. PlacementTypeOK'
  BY <1>1, <1>2, <1>3 DEF PlacementTypeOK, Placing
<1>5. AnswersAreTheCustomersOwn'
  BY <1>1, <1>2 DEF PlacementIInv, AnswersAreTheCustomersOwn
<1>6. AnswersAreClaimed'
  BY <1>1, <1>2 DEF PlacementIInv, AnswersAreClaimed
<1>7. RequestsHold'
  BY <1>1 DEF PlacementIInv, PlacementTypeOK, RequestsHold, RequestHolds, NotPlacing
<1> QED BY <1>1, <1>4, <1>5, <1>6, <1>7 DEF PlacementIInv, ClaimsAreTheKeysOwn

(* Whatever the customer does to the cart touches no order and no key.     *)
LEMMA CartChangesInv ==
    ASSUME PlacementIInv, NEW c \in Customers, CartChanges(c)
    PROVE  PlacementIInv'
<1>1. PlacementTypeOK'
  BY DEF CartChanges, PlacementIInv, PlacementTypeOK
<1> QED BY <1>1 DEF CartChanges, PlacementIInv, RequestsHold, RequestHolds, ClaimsAreTheKeysOwn,
                    AnswersAreTheCustomersOwn, AnswersAreClaimed

(* Every step of placing an order, and every stutter, keeps the invariant. *)
LEMMA PlacementNextInv == PlacementIInv /\ [PlacementNext]_placementVars => PlacementIInv'
<1> SUFFICES ASSUME PlacementIInv, [PlacementNext]_placementVars
             PROVE  PlacementIInv'
  OBVIOUS
<1>1. ASSUME NEW r \in Checkouts, \/ Refuse(r) \/ ClaimTaken(r) \/ Die(r)
      PROVE  PlacementIInv'
  BY <1>1, EndInv DEF Refuse, ClaimTaken, Die, PlacementIInv, PlacementTypeOK
<1>2. CASE UNCHANGED placementVars
  BY <1>2 DEF placementVars, PlacementIInv, PlacementTypeOK, RequestsHold, RequestHolds, ClaimsAreTheKeysOwn,
              AnswersAreTheCustomersOwn, AnswersAreClaimed
<1> QED BY <1>1, <1>2, AnswerAgainInv, LookUpInv, ReadCartInv, CreateInv, ClaimInv,
           AnswerInv, CartChangesInv DEF PlacementNext

(* IInv is an invariant: placement's tables and what its requests hold in  *)
(* memory always agree.                                                    *)
THEOREM PlacementInvariant == PlacementSpec => []PlacementIInv
BY PlacementInitInv, PlacementNextInv, PTL DEF PlacementSpec

(* Tables and requests always have their types.                            *)
THEOREM PlacementTypeCorrect == PlacementSpec => []PlacementTypeOK
<1>1. PlacementIInv => PlacementTypeOK
  BY DEF PlacementIInv
<1> QED BY <1>1, PlacementInvariant, PTL

(* All the answers a key ever got name one order.                          *)
THEOREM OneAnswer == PlacementSpec => []OneAnswerPerKey
<1>1. PlacementIInv => OneAnswerPerKey
  BY DEF PlacementIInv, AnswersAreClaimed, OneAnswerPerKey
<1> QED BY <1>1, PlacementInvariant, PTL

(* A key leads to an order its own customer placed with it.                *)
THEOREM OwnClaims == PlacementSpec => []ClaimsAreTheKeysOwn
<1>1. PlacementIInv => ClaimsAreTheKeysOwn
  BY DEF PlacementIInv
<1> QED BY <1>1, PlacementInvariant, PTL

(* A successful answer names an order the customer placed with that key.   *)
THEOREM OwnAnswers == PlacementSpec => []AnswersAreTheCustomersOwn
<1>1. PlacementIInv => AnswersAreTheCustomersOwn
  BY DEF PlacementIInv
<1> QED BY <1>1, PlacementInvariant, PTL

(* A claim is never withdrawn or re-pointed, and an order never changes    *)
(* hands.                                                                  *)
THEOREM ClaimsLast == PlacementSpec => KeysAreKept
<1> DEFINE ClaimsStand ==
      /\ \A c \in Customers, k \in Keys :
            claimed[c][k] # Nothing => claimed'[c][k] = claimed[c][k]
      /\ \A o \in Orders : placed[o] # NoOrder => placed'[o] = placed[o]
<1>1. PlacementIInv /\ [PlacementNext]_placementVars => ClaimsStand
  <2> SUFFICES ASSUME PlacementIInv, [PlacementNext]_placementVars
               PROVE  ClaimsStand
    OBVIOUS
  <2>1. ASSUME NEW r \in Checkouts, Claim(r)
        PROVE  ClaimsStand
    BY <2>1 DEF Claim
  <2>2. ASSUME NEW r \in Checkouts, NEW o \in Orders, Create(r, o)
        PROVE  ClaimsStand
    BY <2>2 DEF Create, PlacementIInv, PlacementTypeOK
  <2> QED BY <2>1, <2>2 DEF PlacementNext, placementVars, AnswerAgain, LookUp, ReadCart, Refuse, ClaimTaken,
                            Answer, Die, CartChanges
<1>2. PlacementSpec => [][ClaimsStand]_placementVars
  BY <1>1, PlacementInvariant, PTL DEF PlacementSpec
<1> QED BY <1>2 DEF KeysAreKept

=============================================================================
