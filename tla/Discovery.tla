------------------------------ MODULE Discovery ------------------------------
(***************************************************************************)
(* What a customer is shown.  A search asks the geo index how many shops a *)
(* radius holds, widens it, takes the nearest of them, and then reads each *)
(* shop's row in the merchant module; shops move, open and close between   *)
(* its statements.  Reach is the same question about one shop, asked when  *)
(* an order is placed, and answered by arithmetic instead of the index.    *)
(***************************************************************************)
EXTENDS Merchants

CONSTANTS
    Searches,       \* searches in flight
    Asked,          \* the kinds of shop they ask for, None for all
    Spot,           \* where the customers stand
    Metres,         \* how far each place is from there
    BaseRadius, Step, MaxExpansions, MinMerchants, AutoExpand,  \* the resolved policy
    FanOut,         \* searchFanOut
    Grid            \* the corners and places the borders of two rings are tried with

ASSUME PolicyAssumption ==
    /\ BaseRadius \in Nat \ {0} /\ Step \in Nat \ {0}
    /\ MaxExpansions \in Nat /\ MinMerchants \in Nat /\ AutoExpand \in BOOLEAN
    /\ FanOut \in Nat \ {0}
    /\ Metres \in [Pins -> Nat]

ASSUME GridAssumption == Grid \subseteq [lat : Int, lng : Int]

VARIABLES
    search,     \* each search: where it is, its level, what it has and has yet to read
    steady      \* each search: the shops nobody has touched since it began

dvars == <<search, steady>>
allVars == <<vars, dvars>>

NoSearch == [pc |-> "idle"]

DTypeOK ==
    /\ TypeOK
    /\ search \in [Searches -> {NoSearch} \cup
         [pc : {"settling", "settled", "reading", "answered"}, level : 0..MaxExpansions,
          type : Asked, todo : SUBSET Shops, cut : BOOLEAN, cards : SUBSET Shops]]
    /\ steady \in [Searches -> SUBSET Shops]

-----------------------------------------------------------------------------
(* The policy's ladder.                                                    *)
ClampLevel(level) == Greater(0, Lesser(level, MaxExpansions))

Radius(level) == BaseRadius + Step * ClampLevel(level)

Enough(n) == n >= MinMerchants

(* ResolveDivision of the customer's own place.                            *)
Here == DivisionContaining(Divisions, Spot, None)

(* MerchantsWithinRadius: active points of the customer's division.        *)
Within(radius) ==
    {s \in Shops : index[s].active /\ index[s].division = Here /\ Metres[index[s].pin] <= radius}

(* The first rung whose radius covers a distance; floor division turned    *)
(* into the ceiling of the source.                                         *)
LevelForRoundedDown(d) ==
    IF d <= BaseRadius THEN 0 ELSE ClampLevel((d - BaseRadius) \div Step)

LevelFor(d) ==
    IF d <= BaseRadius THEN 0 ELSE ClampLevel((d - BaseRadius + Step - 1) \div Step)

(* ReachUseCase: may this customer order from that shop, and how far out.  *)
Reach(row) ==
    IF row.division # Here \/ Metres[row.pin] > Radius(MaxExpansions)
    THEN [reachable |-> FALSE]
    ELSE [reachable |-> TRUE, level |-> LevelFor(Metres[row.pin])]

-----------------------------------------------------------------------------
Ask(q, level, type) ==
    /\ search[q] = NoSearch
    /\ search' = [search EXCEPT ![q] = [pc |-> "settling", level |-> ClampLevel(level),
                     type |-> type, todo |-> {}, cut |-> FALSE, cards |-> {}]]
    /\ steady' = [steady EXCEPT ![q] = Shops]
    /\ UNCHANGED vars

(* settle: one count per rung, each its own statement.                     *)
TooFew(level) ==
    AutoExpand /\ level < MaxExpansions /\ ~Enough(Cardinality(Within(Radius(level))))

Count(q) ==
    /\ search[q].pc = "settling"
    /\ \/ /\ TooFew(search[q].level)
          /\ search' = [search EXCEPT ![q].level = @ + 1]
       \/ /\ ~TooFew(search[q].level)
          /\ search' = [search EXCEPT ![q].pc = "settled"]
    /\ UNCHANGED <<vars, steady>>

(* The nearest FanOut shops, whatever they sell and whether open or not.   *)
ReadIndex(q) ==
    /\ search[q].pc = "settled"
    /\ LET near == Within(Radius(search[q].level)) IN
       \E found \in SUBSET near :
         /\ Cardinality(found) = IF Cardinality(near) > FanOut THEN FanOut ELSE Cardinality(near)
         /\ \A s \in found, t \in near \ found :
              Metres[index[s].pin] <= Metres[index[t].pin]
         /\ search' = [search EXCEPT ![q].pc = "reading", ![q].todo = found,
                                     ![q].cut = found # near]
    /\ UNCHANGED <<vars, steady>>

CardsOfTheIndex(q, s, past) == IF shops[s] = NoShop THEN {} ELSE {s}

(* Listed, and the filters of cards: a shop that is gone, not listed or of *)
(* another kind is left out.                                               *)
CardsOf(q, s, past) ==
    {t \in {s} \cap Known : /\ IsListed(shops[t], past)
                           /\ search[q].type \in {None, shops[t].type}}

ReadShop(q, s, past) ==
    /\ search[q].pc = "reading"
    /\ s \in search[q].todo
    /\ search' = [search EXCEPT ![q].todo = @ \ {s}, ![q].cards = @ \cup CardsOf(q, s, past)]
    /\ UNCHANGED <<vars, steady>>

AnswerSearch(q) ==
    /\ search[q].pc = "reading" /\ search[q].todo = {}
    /\ search' = [search EXCEPT ![q].pc = "answered"]
    /\ UNCHANGED <<vars, steady>>

Leave(q) ==
    /\ search[q].pc = "answered"
    /\ search' = [search EXCEPT ![q] = NoSearch]
    /\ steady' = [steady EXCEPT ![q] = {}]
    /\ UNCHANGED vars

Look(q) ==
    \/ \E level \in -1..MaxExpansions + 1, type \in Asked : Ask(q, level, type)
    \/ Count(q) \/ ReadIndex(q) \/ AnswerSearch(q) \/ Leave(q)
    \/ \E s \in Shops, past \in BOOLEAN : ReadShop(q, s, past)

(* A shop's owner or an admin moves; the histories note whom it touched.   *)
ShopsChange ==
    /\ Next
    /\ steady' = [q \in Searches |->
                    {s \in steady[q] : shops'[s] = shops[s] /\ index'[s] = index[s]}]
    /\ UNCHANGED search

DInit == Init /\ search = [q \in Searches |-> NoSearch] /\ steady = [q \in Searches |-> {}]

DNext == ShopsChange \/ \E q \in Searches : Look(q)

DSpec == DInit /\ [][DNext]_allVars

-----------------------------------------------------------------------------
Shown(q) == search[q].cards

(* A shop that is not approved, or away for good, while a search runs is   *)
(* not shown by it, whatever the index says of it after a decision or an   *)
(* edit that was cut short or lost a race (search.go, cards; service.go,   *)
(* Listed).  The types of both modules go with it.                         *)
ShownShopsAreListed ==
    /\ DTypeOK
    /\ \A q \in Searches : search[q].pc = "answered" =>
         \A s \in Shown(q) \cap steady[q] :
            shops[s].status = "approved" /\ shops[s].holiday # "forever"

(* The index and the arithmetic agree: of the shops nobody touched, a      *)
(* search shows exactly those listed ones that an order placed from the    *)
(* same spot may reach at the search's own level, unless the fan-out cut   *)
(* them off (search.go against reach.go, 62-97).                           *)
SearchAgreesWithReach ==
    \A q \in Searches : search[q].pc = "answered" =>
        \A s \in {t \in steady[q] : shops[t] # NoShop /\ index[t] = Published(shops[t])} :
            LET reach == Reach(shops[s])
                inReach == reach.reachable /\ reach.level <= search[q].level
            IN  /\ s \in Shown(q) => inReach
                /\ /\ inReach /\ ~search[q].cut
                   /\ shops[s].status = "approved" /\ shops[s].holiday = "none"
                   /\ search[q].type \in {None, shops[s].type}
                   => s \in Shown(q)

(* Divisions that share a border leave no place between them unserved,     *)
(* take none that their union does not hold, and share none (polygon.go,   *)
(* Contains; repository.go, DivisionContaining).  No request changes a     *)
(* boundary: asked before the first.                                       *)
BordersMeet ==
    calls = 0 => NoGapBetweenNeighbours(Grid) /\ NoOverlapOfNeighbours(Grid)
=============================================================================
