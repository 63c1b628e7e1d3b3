-------------------------- MODULE CatalogueProofs ---------------------------
(***************************************************************************)
(* For any sections, items, groups, combos, devices and customers: however *)
(* edits interleave, the menu refers to nothing that is gone, the limit on *)
(* sections gives by one edit in flight at most, and a customer is shown   *)
(* what stood while they read.                                             *)
(***************************************************************************)
EXTENDS Catalogue, FiniteSetTheorems, TLAPS

ItemRows == UNION {[I -> Item] : I \in SUBSET Items}

ItemGroups == UNION {[I -> SUBSET Groups] : I \in SUBSET Items}

Editing == {"items", "variants", "loaded", "checked"}

(* What a copy in an edit's memory may be relied on for.                   *)
CopyHolds(q) ==
    /\ q.pc \in Editing => DOMAIN q.groups = DOMAIN q.rows /\ DOMAIN q.rows \subseteq issued
    /\ q.pc = "checked" => q.category \in Categories
    /\ q.pc = "section" => q.id \in issued
    /\ q.pc \in {"combo", "lines"} => q.id \in Combos /\ q.id \in issued
    /\ q.pc = "members" => q.id = None \/ q.id \in issued

CopiesHold == \A r \in Requests : CopyHolds(req[r])

Whole ==
    /\ \A i \in Items : items[i] # None => sections[items[i].category] # None
    /\ \A b \in Combos : \A i \in lines[b] : items[i] # None
    /\ \A b \in Combos : lines[b] # {} => combos[b] # None
    /\ \A i \in Items : groups[i] # {} => items[i] # None

(* What a customer has read of the entries nobody wrote is still true.     *)
SectionsSeen(m) ==
    menu[m].pc # "idle" =>
        \A c \in Categories \cap untouched[m] :
            c \in menu[m].sections <=> sections[c] # None /\ sections[c].active

ItemsSeen(m) ==
    menu[m].pc \in {"items", "combos", "answered"} =>
        \A i \in Items \cap untouched[m] :
            /\ i \in menu[m].orderable <=> items[i] # None /\ Orderable(items[i], menu[m].now)
            /\ i \in menu[m].items <=> /\ items[i] # None /\ items[i].active
                                      /\ items[i].category \in menu[m].sections

CombosSeen(m) ==
    /\ menu[m].pc = "combos" =>
         \A b \in Combos \cap untouched[m] :
            b \in menu[m].combos <=> combos[b] # None /\ ComboOrderable(combos[b], menu[m].now)
    /\ menu[m].pc = "answered" =>
         \A b \in Combos \cap untouched[m] :
            b \in menu[m].combos <=> /\ combos[b] # None /\ ComboOrderable(combos[b], menu[m].now)
                                    /\ lines[b] \subseteq menu[m].orderable

MenusHold == \A m \in Readers : SectionsSeen(m) /\ ItemsSeen(m) /\ CombosSeen(m)

(* Creations that found room, and copies of sections that may be written   *)
(* back although their section is gone.                                    *)
Creating == {r \in Requests : req[r].pc = "listed" /\ RoomForASection(req[r].count)}

Holding == {r \in Requests : req[r].pc = "section"}

Held == {req[r].id : r \in Holding}

RoomLeft ==
    Cardinality(Existing(sections) \cup Held) + Cardinality(Creating)
        <= MaxCategories + Cardinality(Requests) - 1

IInv == TypeOK /\ CopiesHold /\ Whole /\ PrescriptionsOnlyFromPharmacies /\ MenusHold /\ RoomLeft

-----------------------------------------------------------------------------
(* Copies of rows and of groups, as sets and one by one.                   *)
LEMMA InRows ==
    /\ \A I \in SUBSET Items : \A f \in [I -> Item] : f \in ItemRows
    /\ \A I \in SUBSET Items : \A f \in [I -> SUBSET Groups] : f \in ItemGroups
    /\ \A f \in ItemRows : DOMAIN f \in SUBSET Items /\ f \in [DOMAIN f -> Item]
    /\ \A f \in ItemGroups : DOMAIN f \in SUBSET Items /\ f \in [DOMAIN f -> SUBSET Groups]
BY DEF ItemRows, ItemGroups

ItemEdit == [pc : Editing, kind : Kinds, category : Categories \cup {None}, rows : ItemRows, groups : ItemGroups]

ComboEdit == [pc : {"combo", "lines", "members"}, kind : Kinds, id : Combos \cup {None}, row : Combo,
              lines : SUBSET Items]

SectionEdit == [pc : {"section"}, kind : Kinds, id : Categories, row : Section]

(* An edit under way, by where it is.                                      *)
LEMMA EditFields ==
    ASSUME TypeOK, NEW r \in Requests
    PROVE  /\ req[r].pc \in Editing => req[r] \in ItemEdit
           /\ req[r].pc \in {"combo", "lines", "members"} => req[r] \in ComboEdit
           /\ req[r].pc = "section" => req[r] \in SectionEdit
           /\ req[r].pc = "counted" => req[r].id \in Categories /\ req[r].kind \in Kinds
           /\ req[r].pc = "shop" => req[r].kind \in Kinds
           /\ req[r].pc = "listed" => req[r].count \in 0..Cardinality(Categories)
           /\ req[r] # Idle <=> req[r].pc # "idle"
<1>1. req[r] \in Request
  BY DEF TypeOK
<1> QED
  BY <1>1 DEF Request, Idle, ItemEdit, ComboEdit, SectionEdit, Editing, ItemRows, ItemGroups

(* The records an edit goes on with are requests.                          *)
LEMMA EditsAreRequests ==
    /\ ItemEdit \subseteq Request
    /\ ComboEdit \subseteq Request
    /\ SectionEdit \subseteq Request
    /\ Idle \in Request
BY DEF Request, Idle, ItemEdit, ComboEdit, SectionEdit, Editing, ItemRows, ItemGroups

LEMMA Kindness == \A k \in Kinds : k \in Type
BY KindsAssumption

(* Nobody new asks for room, and no section appears but one somebody had.  *)
LEMMA RoomStays ==
    ASSUME RoomLeft, TypeOK, req' \in [Requests -> Request],
           Existing(sections)' \cup Held' \subseteq Existing(sections) \cup Held,
           Creating' \subseteq Creating
    PROVE  RoomLeft'
<1>1. Existing(sections) \subseteq Categories /\ Held \subseteq Categories
  BY EditFields DEF Existing, Held, Holding, TypeOK, SectionEdit
<1>2. IsFiniteSet(Existing(sections) \cup Held)
  BY <1>1, SetsAssumption, FS_Subset
<1>3. IsFiniteSet(Creating)
  BY SetsAssumption, FS_Subset DEF Creating
<1>4. /\ Cardinality(Existing(sections)' \cup Held') <= Cardinality(Existing(sections) \cup Held)
      /\ IsFiniteSet(Existing(sections)' \cup Held')
  BY <1>2, FS_Subset
<1>5. Cardinality(Creating') <= Cardinality(Creating) /\ IsFiniteSet(Creating')
  BY <1>3, FS_Subset
<1>6. /\ Cardinality(Creating') \in Nat /\ Cardinality(Creating) \in Nat
      /\ Cardinality(Existing(sections)' \cup Held') \in Nat
      /\ Cardinality(Existing(sections) \cup Held) \in Nat
  BY <1>2, <1>3, <1>4, <1>5, FS_CardinalityType
<1>7. Cardinality(Requests) \in Nat /\ MaxCategories \in Nat
  BY SetsAssumption, BoundsAssumption, FS_CardinalityType
<1> QED
  BY <1>4, <1>5, <1>6, <1>7 DEF RoomLeft

LEMMA InitInv == Init => IInv
<1> SUFFICES ASSUME Init PROVE IInv
  OBVIOUS
<1>1. /\ kind \in Kinds /\ kind \in Type
      /\ sections \in [Categories -> {[active |-> TRUE], None}]
      /\ groups = [i \in Items |-> {}]
      /\ req = [r \in Requests |-> Idle]
      /\ menu = [m \in Readers |-> [pc |-> "idle"]]
      /\ untouched = [m \in Readers |-> {}]
  BY Kindness DEF Init
<1>2. /\ items \in [Items -> [category : Categories, kind : {kind}, stock : StockOf(kind) \ {"empty"},
                            prescription : {FALSE}, active : {TRUE}, always : {TRUE}] \cup {None}]
      /\ StockOf(kind) \subseteq Stock
  BY DEF Init, StockOf, Stock
<1>3. items \in [Items -> Item \cup {None}]
  BY <1>1, <1>2 DEF Item
<1>4. combos \in [Combos -> {[active |-> TRUE, always |-> TRUE], None}]
  BY DEF Init
<1>5. lines \in [Combos -> SUBSET Items]
  BY DEF Init, Existing
<1>6. sections \in [Categories -> Section \cup {None}] /\ combos \in [Combos -> Combo \cup {None}]
  <2>1. [active |-> TRUE] \in Section /\ [active |-> TRUE, always |-> TRUE] \in Combo
    BY DEF Section, Combo
  <2> QED BY <1>1, <1>4, <2>1
<1>7. TypeOK
  BY <1>1, <1>3, <1>5, <1>6 DEF Init, TypeOK, Request, Menu
<1>8. CopiesHold
  BY <1>1 DEF CopiesHold, CopyHolds, Idle, Editing
<1>9. Whole
  <2>1. \A i \in Items : items[i] # None => sections[items[i].category] # None
    BY <1>3 DEF Init, Existing
  <2>2. \A b \in Combos : \A i \in lines[b] : items[i] # None
    BY DEF Init, Existing
  <2>3. \A b \in Combos : lines[b] # {} => combos[b] # None
    BY DEF Init
  <2> QED BY <2>1, <2>2, <2>3, <1>1 DEF Whole
<1>10. PrescriptionsOnlyFromPharmacies
  BY <1>2 DEF PrescriptionsOnlyFromPharmacies, Existing
<1>11. MenusHold
  BY <1>1 DEF MenusHold, SectionsSeen, ItemsSeen, CombosSeen
<1>12. RoomLeft
  <2>1. Held = {} /\ Creating = {}
    BY <1>1 DEF Held, Holding, Creating, Idle
  <2>2. /\ Existing(sections) \cup Held = Existing(sections)
        /\ Cardinality(Existing(sections)) <= MaxCategories
    BY <2>1 DEF Init
  <2>3. Cardinality(Requests) \in Nat \ {0} /\ MaxCategories \in Nat
    BY SetsAssumption, BoundsAssumption, FS_CardinalityType, FS_EmptySet
  <2>4. Cardinality(Existing(sections)) \in Nat
    BY SetsAssumption, FS_Subset, FS_CardinalityType, <1>6 DEF Existing
  <2> QED BY <2>1, <2>2, <2>3, <2>4, FS_EmptySet DEF RoomLeft
<1> QED
  BY <1>7, <1>8, <1>9, <1>10, <1>11, <1>12 DEF IInv

-----------------------------------------------------------------------------
(* A step that changes one edit's memory and nothing else.                 *)
LEMMA GoesKeeps ==
    ASSUME IInv, NEW r \in Requests, NEW q \in Request, Goes(r, q), CopyHolds(q), RoomLeft'
    PROVE  IInv'
<1> USE DEF IInv
<1>1. /\ req' = [req EXCEPT ![r] = q]
      /\ UNCHANGED <<kind, sections, items, groups, combos, lines, menu, untouched, issued, calls>>
  BY DEF Goes, tables
<1>2. TypeOK'
  BY <1>1 DEF TypeOK, Existing
<1>3. CopiesHold'
  BY <1>1 DEF TypeOK, CopiesHold, CopyHolds
<1>4. Whole' /\ PrescriptionsOnlyFromPharmacies'
  BY <1>1 DEF Whole, PrescriptionsOnlyFromPharmacies, Existing
<1>5. MenusHold'
  BY <1>1 DEF MenusHold, SectionsSeen, ItemsSeen, CombosSeen
<1> QED
  BY <1>2, <1>3, <1>4, <1>5

(* Such a step takes no room unless it counts sections, or takes a copy of *)
(* a section that is not there.                                            *)
LEMMA GoesTakesNoRoom ==
    ASSUME IInv, NEW r \in Requests, NEW q \in Request, Goes(r, q),
           q.pc # "listed", q.pc = "section" => q.id \in Existing(sections)
    PROVE  RoomLeft'
<1> USE DEF IInv
<1>1. req' = [req EXCEPT ![r] = q] /\ UNCHANGED sections /\ req' \in [Requests -> Request]
  BY DEF Goes, tables, TypeOK
<1>2. Existing(sections)' \cup Held' \subseteq Existing(sections) \cup Held
  BY <1>1 DEF Held, Holding, Existing, TypeOK
<1>3. Creating' \subseteq Creating
  BY <1>1 DEF Creating, TypeOK
<1> QED
  BY <1>1, <1>2, <1>3, RoomStays

(* A write that leaves the tables sound and all but the named entries as   *)
(* they were.                                                              *)
LEMMA WroteKeeps ==
    ASSUME IInv, NEW r \in Requests, NEW ids, Wrote(r, ids), issued \subseteq issued',
           sections' \in [Categories -> Section \cup {None}], items' \in [Items -> Item \cup {None}],
           groups' \in [Items -> SUBSET Groups], combos' \in [Combos -> Combo \cup {None}],
           lines' \in [Combos -> SUBSET Items],
           Existing(sections)' \cup Existing(items)' \cup Existing(combos)' \subseteq issued',
           \A c \in Categories \ ids : sections'[c] = sections[c],
           \A i \in Items \ ids : items'[i] = items[i],
           \A b \in Combos \ ids : combos'[b] = combos[b] /\ lines'[b] = lines[b],
           Whole', PrescriptionsOnlyFromPharmacies', RoomLeft'
    PROVE  IInv'
<1> USE DEF IInv
<1>1. /\ req' = [req EXCEPT ![r] = Idle]
      /\ untouched' = [m \in Readers |-> untouched[m] \ ids]
      /\ UNCHANGED <<kind, menu, calls>>
  BY DEF Wrote
<1>2. req' \in [Requests -> Request]
  BY <1>1, EditsAreRequests DEF TypeOK
<1>3. TypeOK'
  BY <1>1, <1>2 DEF TypeOK
<1>4. CopiesHold'
  <2>1. Idle.pc = "idle"
    BY DEF Idle
  <2> QED BY <1>1, <2>1 DEF TypeOK, CopiesHold, CopyHolds, Editing
<1>5. MenusHold'
  <2> SUFFICES ASSUME NEW m \in Readers PROVE SectionsSeen(m)' /\ ItemsSeen(m)' /\ CombosSeen(m)'
    BY DEF MenusHold
  <2>1. untouched'[m] = untouched[m] \ ids /\ menu' = menu
    BY <1>1
  <2>2. SectionsSeen(m)'
    BY <2>1 DEF MenusHold, SectionsSeen
  <2>3. ItemsSeen(m)'
    BY <2>1 DEF MenusHold, ItemsSeen
  <2>4. CombosSeen(m)'
    BY <2>1 DEF MenusHold, CombosSeen
  <2> QED BY <2>2, <2>3, <2>4
<1> QED
  BY <1>3, <1>4, <1>5

(* A write takes no room if it stores no section but one that is there or  *)
(* that its own edit holds.                                                *)
LEMMA WroteTakesNoRoom ==
    ASSUME IInv, NEW r \in Requests, NEW ids, Wrote(r, ids),
           Existing(sections)' \subseteq Existing(sections) \cup Held
    PROVE  RoomLeft'
<1> USE DEF IInv
<1>1. req' = [req EXCEPT ![r] = Idle] /\ req' \in [Requests -> Request] /\ Idle.pc = "idle"
  BY EditsAreRequests DEF Wrote, TypeOK, Idle
<1>2. Held' \subseteq Held
  BY <1>1 DEF Held, Holding, TypeOK
<1>3. Creating' \subseteq Creating
  BY <1>1 DEF Creating, TypeOK
<1> QED
  BY <1>1, <1>2, <1>3, RoomStays

-----------------------------------------------------------------------------
(* Reads.                                                                  *)
LEMMA ReadsKeep ==
    ASSUME IInv, NEW r \in Requests,
           \/ \E c \in Categories : LoadSection(r, c) \/ CheckCategory(r, c)
           \/ \E I \in SUBSET Items : LoadItems(r, I) \/ CheckMembers(r, I)
           \/ \E b \in Combos : LoadCombo(r, b)
           \/ LoadVariantGroups(r) \/ LoadAddOnGroups(r) \/ AttachLines(r)
           \/ CountItemsInCategory(r) \/ Refuse(r)
    PROVE  IInv'
<1> USE DEF IInv
<1>0. ASSUME NEW q \in Request, Goes(r, q), CopyHolds(q), q.pc # "listed",
             q.pc = "section" => q.id \in Existing(sections)
      PROVE  IInv'
  BY <1>0, GoesKeeps, GoesTakesNoRoom
<1>1. ASSUME NEW c \in Categories, LoadSection(r, c) PROVE IInv'
  <2> DEFINE q == [pc |-> "section", kind |-> req[r].kind, id |-> c, row |-> sections[c]]
  <2>1. Goes(r, q) /\ req[r].pc = "shop" /\ sections[c] # None
    BY <1>1 DEF LoadSection
  <2>2. sections[c] \in Section /\ c \in Existing(sections) /\ c \in issued
    BY <2>1 DEF TypeOK, Existing
  <2>3. q \in SectionEdit
    BY <2>1, <2>2, EditFields DEF SectionEdit
  <2>4. CopyHolds(q) /\ q.pc = "section" /\ q.id \in Existing(sections)
    BY <2>2 DEF CopyHolds, Editing
  <2> HIDE DEF q
  <2> QED BY <1>0, <2>1, <2>3, <2>4, EditsAreRequests
<1>2. ASSUME NEW c \in Categories, CheckCategory(r, c) PROVE IInv'
  <2>1. CASE /\ req[r].pc = "shop"
             /\ Goes(r, [pc |-> "checked", kind |-> req[r].kind, category |-> c,
                         rows |-> <<>>, groups |-> <<>>])
    <3> DEFINE q == [pc |-> "checked", kind |-> req[r].kind, category |-> c, rows |-> <<>>, groups |-> <<>>]
    <3>1. /\ <<>> \in [{} -> Item] /\ <<>> \in [{} -> SUBSET Groups]
          /\ DOMAIN <<>> = {}
      OBVIOUS
    <3>2. <<>> \in ItemRows /\ <<>> \in ItemGroups
      BY <3>1 DEF ItemRows, ItemGroups
    <3>3. q \in ItemEdit
      BY <2>1, <3>2, EditFields DEF ItemEdit, Editing
    <3>4. CopyHolds(q) /\ q.pc = "checked"
      BY <3>1 DEF CopyHolds
    <3> HIDE DEF q
    <3>5. Goes(r, q)
      BY <2>1 DEF q
    <3> QED BY <1>0, <3>3, <3>4, <3>5, EditsAreRequests
  <2>2. CASE req[r].pc = "loaded" /\ Goes(r, [req[r] EXCEPT !.pc = "checked", !.category = c])
    <3> DEFINE q == [req[r] EXCEPT !.pc = "checked", !.category = c]
    <3>1. req[r] \in ItemEdit /\ CopyHolds(req[r])
      BY <2>2, EditFields DEF Editing, CopiesHold
    <3>2. q \in ItemEdit /\ q.pc = "checked"
      BY <3>1 DEF ItemEdit, Editing
    <3>3. CopyHolds(q)
      BY <2>2, <3>1 DEF CopyHolds, ItemEdit, Editing
    <3> HIDE DEF q
    <3>4. Goes(r, q)
      BY <2>2 DEF q
    <3> QED BY <1>0, <3>2, <3>3, <3>4, EditsAreRequests
  <2> QED BY <1>2, <2>1, <2>2 DEF CheckCategory
<1>3. ASSUME NEW I \in SUBSET Items, LoadItems(r, I) PROVE IInv'
  <2> DEFINE rows == [i \in I |-> items[i]]
             choices == [i \in I |-> {}]
             q == [pc |-> "items", kind |-> req[r].kind, category |-> None, rows |-> rows, groups |-> choices]
  <2>1. req[r].pc = "shop" /\ Goes(r, q) /\ I \subseteq Existing(items)
    BY <1>3 DEF LoadItems
  <2>2. rows \in [I -> Item] /\ choices \in [I -> SUBSET Groups] /\ I \subseteq issued
    BY <2>1 DEF Existing, TypeOK
  <2>3. rows \in ItemRows /\ choices \in ItemGroups
    BY <2>2, InRows
  <2>4. q \in ItemEdit /\ q.pc = "items"
    BY <2>1, <2>3, EditFields DEF ItemEdit, Editing
  <2>5. CopyHolds(q)
    BY <2>2 DEF CopyHolds
  <2> HIDE DEF q
  <2> QED BY <1>0, <2>1, <2>4, <2>5, EditsAreRequests
<1>4. ASSUME NEW some \in SUBSET Groups, NEW pc \in {"variants", "loaded"}, req[r].pc \in {"items", "variants"},
             Goes(r, [req[r] EXCEPT !.pc = pc, !.groups = GroupsOf(r, some)])
      PROVE  IInv'
  <2> DEFINE q == [req[r] EXCEPT !.pc = pc, !.groups = GroupsOf(r, some)]
  <2>1. req[r] \in ItemEdit /\ CopyHolds(req[r])
    BY <1>4, EditFields DEF Editing, CopiesHold
  <2>2. DOMAIN req[r].groups = DOMAIN req[r].rows /\ DOMAIN req[r].rows \in SUBSET Items
    BY <1>4, <2>1, InRows DEF CopyHolds, Editing, ItemEdit
  <2>3. GroupsOf(r, some) \in [DOMAIN req[r].rows -> SUBSET Groups]
    BY <2>1, <2>2, InRows DEF GroupsOf, ItemEdit, TypeOK
  <2>4. GroupsOf(r, some) \in ItemGroups
    BY <2>2, <2>3, InRows
  <2>5. q \in ItemEdit /\ q.pc = pc /\ q.rows = req[r].rows /\ q.groups = GroupsOf(r, some)
    BY <2>1, <2>4 DEF ItemEdit, Editing
  <2>6. CopyHolds(q)
    BY <1>4, <2>1, <2>3, <2>5 DEF CopyHolds, Editing
  <2> HIDE DEF q
  <2>7. Goes(r, q)
    BY <1>4 DEF q
  <2> QED BY <1>0, <2>5, <2>6, <2>7, EditsAreRequests
<1>5. CASE LoadVariantGroups(r) \/ LoadAddOnGroups(r)
  BY <1>4, <1>5 DEF LoadVariantGroups, LoadAddOnGroups, Groups
<1>6. ASSUME NEW b \in Combos, LoadCombo(r, b) PROVE IInv'
  <2> DEFINE q == [pc |-> "combo", kind |-> req[r].kind, id |-> b, row |-> combos[b], lines |-> {}]
  <2>1. req[r].pc = "shop" /\ Goes(r, q) /\ combos[b] # None
    BY <1>6 DEF LoadCombo
  <2>2. combos[b] \in Combo /\ b \in issued
    BY <2>1 DEF TypeOK, Existing
  <2>3. q \in ComboEdit /\ q.pc = "combo"
    BY <2>1, <2>2, EditFields DEF ComboEdit
  <2>4. CopyHolds(q)
    BY <2>2 DEF CopyHolds, Editing
  <2> HIDE DEF q
  <2> QED BY <1>0, <2>1, <2>3, <2>4, EditsAreRequests
<1>7. CASE AttachLines(r)
  <2> DEFINE q == [req[r] EXCEPT !.pc = "lines", !.lines = lines[req[r].id]]
  <2>1. req[r].pc = "combo" /\ Goes(r, q)
    BY <1>7 DEF AttachLines
  <2>2. req[r] \in ComboEdit /\ req[r].id \in Combos /\ req[r].id \in issued
    BY <2>1, EditFields DEF CopiesHold, CopyHolds
  <2>3. q \in ComboEdit /\ q.pc = "lines" /\ q.id = req[r].id
    BY <2>2 DEF ComboEdit, TypeOK
  <2>4. CopyHolds(q)
    BY <2>2, <2>3 DEF CopyHolds, Editing
  <2> HIDE DEF q
  <2> QED BY <1>0, <2>1, <2>3, <2>4, EditsAreRequests
<1>8. ASSUME NEW I \in SUBSET Items, CheckMembers(r, I) PROVE IInv'
  <2>1. CASE /\ req[r].pc = "shop"
             /\ Goes(r, [pc |-> "members", kind |-> req[r].kind, id |-> None,
                         row |-> [active |-> TRUE, always |-> TRUE], lines |-> I])
    <3> DEFINE q == [pc |-> "members", kind |-> req[r].kind, id |-> None,
                     row |-> [active |-> TRUE, always |-> TRUE], lines |-> I]
    <3>1. q \in ComboEdit /\ q.pc = "members" /\ q.id = None
      BY <2>1, EditFields DEF ComboEdit, Combo
    <3> HIDE DEF q
    <3>2. CopyHolds(q)
      BY <3>1 DEF CopyHolds, Editing
    <3>3. Goes(r, q)
      BY <2>1 DEF q
    <3> QED BY <1>0, <3>1, <3>2, <3>3, EditsAreRequests
  <2>2. CASE req[r].pc = "lines" /\ Goes(r, [req[r] EXCEPT !.pc = "members", !.lines = I])
    <3> DEFINE q == [req[r] EXCEPT !.pc = "members", !.lines = I]
    <3>1. req[r] \in ComboEdit /\ req[r].id \in issued
      BY <2>2, EditFields DEF CopiesHold, CopyHolds
    <3>2. q \in ComboEdit /\ q.pc = "members" /\ q.id = req[r].id
      BY <3>1 DEF ComboEdit
    <3> HIDE DEF q
    <3>3. CopyHolds(q)
      BY <3>1, <3>2 DEF CopyHolds, Editing
    <3>4. Goes(r, q)
      BY <2>2 DEF q
    <3> QED BY <1>0, <3>2, <3>3, <3>4, EditsAreRequests
  <2> QED BY <1>8, <2>1, <2>2 DEF CheckMembers
<1>9. CASE CountItemsInCategory(r)
  <2> DEFINE q == [pc |-> "counted", kind |-> req[r].kind, id |-> req[r].id]
  <2>1. Goes(r, q) /\ req[r].pc = "section"
    BY <1>9 DEF CountItemsInCategory
  <2>2. q \in Request /\ q.pc = "counted"
    BY <2>1, EditFields DEF SectionEdit, Request
  <2> HIDE DEF q
  <2>3. CopyHolds(q)
    BY <2>2 DEF CopyHolds, Editing
  <2> QED BY <1>0, <2>1, <2>2, <2>3
<1>10. CASE Refuse(r)
  <2>1. Idle.pc = "idle" /\ CopyHolds(Idle)
    BY DEF Idle, CopyHolds, Editing
  <2> QED BY <1>0, <1>10, <2>1, EditsAreRequests DEF Refuse
<1> QED
  BY <1>1, <1>2, <1>3, <1>5, <1>6, <1>7, <1>8, <1>9, <1>10

-----------------------------------------------------------------------------
(* Sections.                                                               *)
LEMMA BeginInv ==
    ASSUME IInv, NEW r \in Requests, Begin(r)
    PROVE  IInv'
<1> USE DEF IInv
<1> DEFINE q == [pc |-> "shop", kind |-> kind]
<1>1. /\ req' = [req EXCEPT ![r] = q]
      /\ UNCHANGED <<kind, sections, items, groups, combos, lines, menu, untouched, issued>>
  BY DEF Begin, tables
<1>2. q \in Request /\ q.pc = "shop"
  BY DEF Request, TypeOK
<1> HIDE DEF q
<1>3. TypeOK' /\ req' \in [Requests -> Request]
  BY <1>1, <1>2 DEF TypeOK, Existing
<1>4. CopiesHold'
  BY <1>1, <1>2 DEF TypeOK, CopiesHold, CopyHolds, Editing
<1>5. Whole' /\ PrescriptionsOnlyFromPharmacies'
  BY <1>1 DEF Whole, PrescriptionsOnlyFromPharmacies, Existing
<1>6. MenusHold'
  BY <1>1 DEF MenusHold, SectionsSeen, ItemsSeen, CombosSeen
<1>7. RoomLeft'
  <2>1. Existing(sections)' \cup Held' \subseteq Existing(sections) \cup Held
    BY <1>1, <1>2 DEF Held, Holding, Existing, TypeOK
  <2>2. Creating' \subseteq Creating
    BY <1>1, <1>2 DEF Creating, TypeOK
  <2> QED BY <1>3, <2>1, <2>2, RoomStays
<1> QED
  BY <1>3, <1>4, <1>5, <1>6, <1>7

(* While there is room, the sections there are, the copies and the         *)
(* creations, each of an edit of its own, stay within the limit.           *)
LEMMA ListInv ==
    ASSUME IInv, NEW r \in Requests, ListSections(r)
    PROVE  IInv'
<1> USE DEF IInv
<1> DEFINE count == Cardinality(Existing(sections))
           q == [pc |-> "listed", kind |-> req[r].kind, count |-> count]
<1>1. req[r].pc = "shop" /\ Goes(r, q)
  BY DEF ListSections
<1>2. Existing(sections) \subseteq Categories /\ IsFiniteSet(Existing(sections)) /\ count \in Nat
  BY SetsAssumption, FS_Subset, FS_CardinalityType DEF Existing, TypeOK
<1>3. count <= Cardinality(Categories) /\ Cardinality(Categories) \in Nat
  BY <1>2, SetsAssumption, FS_Subset, FS_CardinalityType
<1>4. q \in Request /\ q.pc = "listed" /\ q.count = count
  BY <1>1, <1>2, <1>3, EditFields DEF Request
<1> HIDE DEF q
<1>5. CopyHolds(q)
  BY <1>4 DEF CopyHolds, Editing
<1>6. req' = [req EXCEPT ![r] = q] /\ UNCHANGED sections /\ req' \in [Requests -> Request]
  BY <1>1, <1>4 DEF Goes, tables, TypeOK
<1>7. Held' \subseteq Held /\ Existing(sections)' = Existing(sections)
  BY <1>6, <1>4, <1>1 DEF Held, Holding, TypeOK, Existing
<1>8. CASE ~RoomForASection(count)
  <2>1. Creating' \subseteq Creating
    BY <1>6, <1>4, <1>8 DEF Creating, TypeOK
  <2>2. RoomLeft'
    BY <1>6, <1>7, <2>1, RoomStays
  <2> QED BY <1>1, <1>4, <1>5, <2>2, GoesKeeps
<1>9. CASE RoomForASection(count)
  <2> DEFINE f == [s \in Holding' |-> req'[s].id]
  <2>1. IsFiniteSet(Holding') /\ IsFiniteSet(Creating') /\ Holding' \cap Creating' = {}
        /\ Holding' \cup Creating' \subseteq Requests
    BY SetsAssumption, FS_Subset DEF Holding, Creating
  <2>2. f \in Surjection(Holding', Held')
    BY DEF Surjection, Held
  <2>3. IsFiniteSet(Held') /\ Cardinality(Held') <= Cardinality(Holding')
    BY <2>1, <2>2, FS_Surjection
  <2>4. Cardinality(Holding') + Cardinality(Creating') <= Cardinality(Requests)
    <3>1. IsFiniteSet(Holding' \cup Creating')
          /\ Cardinality(Holding' \cup Creating') = Cardinality(Holding') + Cardinality(Creating') - 0
      BY <2>1, FS_Union, FS_EmptySet
    <3>2. Cardinality(Holding' \cup Creating') <= Cardinality(Requests)
      BY <2>1, SetsAssumption, FS_Subset
    <3> QED BY <3>1, <3>2, <2>1, FS_CardinalityType
  <2>5. Cardinality(Existing(sections) \cup Held') <= count + Cardinality(Held')
        /\ Cardinality(Existing(sections) \cup Held') \in Nat
    <3>1. IsFiniteSet(Existing(sections) \cup Held')
          /\ Cardinality(Existing(sections) \cup Held')
               = count + Cardinality(Held') - Cardinality(Existing(sections) \cap Held')
      BY <1>2, <2>3, FS_Union
    <3>2. Cardinality(Existing(sections) \cap Held') \in Nat
      BY <1>2, FS_Intersection, FS_CardinalityType
    <3>3. Cardinality(Held') \in Nat /\ Cardinality(Existing(sections) \cup Held') \in Nat
      BY <2>3, <3>1, FS_CardinalityType
    <3> QED BY <1>2, <3>1, <3>2, <3>3
  <2>6. /\ Cardinality(Held') \in Nat /\ Cardinality(Holding') \in Nat /\ Cardinality(Creating') \in Nat
        /\ Cardinality(Requests) \in Nat /\ MaxCategories \in Nat /\ count + 1 <= MaxCategories
    BY <1>2, <1>9, <2>1, <2>3, SetsAssumption, BoundsAssumption, FS_CardinalityType DEF RoomForASection
  <2>7. Cardinality(Existing(sections) \cup Held') + Cardinality(Creating')
          <= MaxCategories + Cardinality(Requests) - 1
    <3> HIDE DEF count
    <3> QED BY <1>2, <2>3, <2>4, <2>5, <2>6
  <2>8. RoomLeft'
    BY <1>7, <2>7 DEF RoomLeft
  <2> QED BY <1>1, <1>4, <1>5, <2>8, GoesKeeps
<1> QED
  BY <1>8, <1>9

LEMMA CreateCategoryInv ==
    ASSUME IInv, NEW r \in Requests, NEW c \in Categories, CreateCategory(r, c)
    PROVE  IInv'
<1> USE DEF IInv
<1>1. /\ r \in Creating /\ c \notin issued /\ issued' = issued \cup {c}
      /\ sections' = [sections EXCEPT ![c] = [active |-> TRUE]]
      /\ Wrote(r, {c}) /\ UNCHANGED <<items, groups, combos, lines>>
      /\ req' = [req EXCEPT ![r] = Idle]
  BY DEF CreateCategory, Wrote, Creating
<1>2. [active |-> TRUE] \in Section /\ [active |-> TRUE] # None
  <2>1. [active |-> TRUE] \in Section
    BY DEF Section
  <2> QED BY <2>1, NoneAssumption
<1>3. sections' \in [Categories -> Section \cup {None}] /\ Existing(sections)' = Existing(sections) \cup {c}
  BY <1>1, <1>2 DEF TypeOK, Existing
<1>4. /\ items' \in [Items -> Item \cup {None}] /\ groups' \in [Items -> SUBSET Groups]
      /\ combos' \in [Combos -> Combo \cup {None}] /\ lines' \in [Combos -> SUBSET Items]
      /\ Existing(sections)' \cup Existing(items)' \cup Existing(combos)' \subseteq issued'
  BY <1>1, <1>3 DEF TypeOK, Existing
<1>5. /\ \A d \in Categories \ {c} : sections'[d] = sections[d]
      /\ \A d \in Categories : sections[d] # None => sections'[d] # None
  BY <1>1, <1>2 DEF TypeOK
<1>6. Whole'
  <2>1. \A i \in Items : items[i] # None => items[i].category \in Categories
    BY DEF TypeOK, Item
  <2> QED BY <1>1, <1>5, <2>1 DEF Whole
<1>7. PrescriptionsOnlyFromPharmacies'
  BY <1>1 DEF PrescriptionsOnlyFromPharmacies, Existing
<1>8. RoomLeft'
  <2>1. IsFiniteSet(Existing(sections) \cup Held) /\ IsFiniteSet(Creating)
    <3>1. Existing(sections) \cup Held \subseteq Categories
      BY EditFields DEF Existing, Held, Holding, TypeOK, SectionEdit
    <3> QED BY <3>1, SetsAssumption, FS_Subset DEF Creating
  <2>2. Held' \subseteq Held
    BY <1>1 DEF Held, Holding, TypeOK, Idle
  <2>3. Creating' = Creating \ {r}
    BY <1>1 DEF Creating, TypeOK, Idle
  <2>4. Existing(sections)' \cup Held' \subseteq (Existing(sections) \cup Held) \cup {c}
    BY <1>3, <2>2
  <2>5. IsFiniteSet((Existing(sections) \cup Held) \cup {c})
        /\ Cardinality((Existing(sections) \cup Held) \cup {c}) <= Cardinality(Existing(sections) \cup Held) + 1
    <3> DEFINE S == Existing(sections) \cup Held
    <3>1. Cardinality(S) \in Nat
      BY <2>1, FS_CardinalityType
    <3>2. IsFiniteSet(S \cup {c})
          /\ Cardinality(S \cup {c}) = IF c \in S THEN Cardinality(S) ELSE Cardinality(S) + 1
      <4> HIDE DEF S
      <4>1. IsFiniteSet(S)
        BY <2>1 DEF S
      <4> QED BY <4>1, FS_AddElement
    <3> QED BY <3>1, <3>2
  <2>6. Cardinality(Existing(sections)' \cup Held') <= Cardinality((Existing(sections) \cup Held) \cup {c})
        /\ IsFiniteSet(Existing(sections)' \cup Held')
    BY <2>4, <2>5, FS_Subset
  <2>7. Cardinality(Creating') = Cardinality(Creating) - 1
    BY <1>1, <2>1, <2>3, FS_RemoveElement
  <2>8. /\ Cardinality(Creating) \in Nat /\ Cardinality(Existing(sections) \cup Held) \in Nat
        /\ Cardinality(Existing(sections)' \cup Held') \in Nat
        /\ Cardinality((Existing(sections) \cup Held) \cup {c}) \in Nat
        /\ Cardinality(Requests) \in Nat /\ MaxCategories \in Nat
    BY <2>1, <2>5, <2>6, SetsAssumption, BoundsAssumption, FS_CardinalityType
  <2> QED BY <2>5, <2>6, <2>7, <2>8 DEF RoomLeft
<1> QED
  BY <1>1, <1>3, <1>4, <1>5, <1>6, <1>7, <1>8, WroteKeeps

(* The copy's own section may be stored again: it was counted as held.     *)
LEMMA SaveCategoryInv ==
    ASSUME IInv, NEW r \in Requests, NEW active \in BOOLEAN, SaveCategory(r, active)
    PROVE  IInv'
<1> USE DEF IInv
<1>0. PICK c \in Categories : c = req[r].id
  BY EditFields DEF SaveCategory, SectionEdit
<1>1. /\ req[r].pc = "section" /\ c \in issued
      /\ sections' = [sections EXCEPT ![c] = [active |-> active]]
      /\ Wrote(r, {c}) /\ UNCHANGED <<items, groups, combos, lines, issued>>
  BY <1>0 DEF SaveCategory, CopiesHold, CopyHolds
<1>2. [active |-> active] \in Section /\ [active |-> active] # None
  <2>1. [active |-> active] \in Section
    BY DEF Section
  <2> QED BY <2>1, NoneAssumption
<1>3. sections' \in [Categories -> Section \cup {None}] /\ Existing(sections)' = Existing(sections) \cup {c}
  BY <1>1, <1>2 DEF TypeOK, Existing
<1>4. /\ items' \in [Items -> Item \cup {None}] /\ groups' \in [Items -> SUBSET Groups]
      /\ combos' \in [Combos -> Combo \cup {None}] /\ lines' \in [Combos -> SUBSET Items]
      /\ Existing(sections)' \cup Existing(items)' \cup Existing(combos)' \subseteq issued'
  BY <1>1, <1>3 DEF TypeOK, Existing
<1>5. /\ \A d \in Categories \ {c} : sections'[d] = sections[d]
      /\ \A d \in Categories : sections[d] # None => sections'[d] # None
  BY <1>1, <1>2 DEF TypeOK
<1>6. Whole'
  <2>1. \A i \in Items : items[i] # None => items[i].category \in Categories
    BY DEF TypeOK, Item
  <2> QED BY <1>1, <1>5, <2>1 DEF Whole
<1>7. PrescriptionsOnlyFromPharmacies'
  BY <1>1 DEF PrescriptionsOnlyFromPharmacies, Existing
<1>8. RoomLeft'
  <2>1. c \in Held
    BY <1>0, <1>1 DEF Held, Holding
  <2> QED BY <1>1, <1>3, <2>1, WroteTakesNoRoom
<1> QED
  BY <1>1, <1>3, <1>4, <1>5, <1>6, <1>7, <1>8, WroteKeeps

(* The foreign key has counted again: no item lies in what goes.           *)
LEMMA DeleteCategoryInv ==
    ASSUME IInv, NEW r \in Requests, DeleteCategory(r)
    PROVE  IInv'
<1> USE DEF IInv
<1>0. PICK c \in Categories : c = req[r].id
  BY EditFields DEF DeleteCategory
<1>1. /\ InSection(c) = {} /\ sections' = [sections EXCEPT ![c] = None]
      /\ Wrote(r, {c}) /\ UNCHANGED <<items, groups, combos, lines, issued>>
  BY <1>0 DEF DeleteCategory
<1>3. sections' \in [Categories -> Section \cup {None}] /\ Existing(sections)' \subseteq Existing(sections)
  BY <1>1 DEF TypeOK, Existing
<1>4. /\ items' \in [Items -> Item \cup {None}] /\ groups' \in [Items -> SUBSET Groups]
      /\ combos' \in [Combos -> Combo \cup {None}] /\ lines' \in [Combos -> SUBSET Items]
      /\ Existing(sections)' \cup Existing(items)' \cup Existing(combos)' \subseteq issued'
  BY <1>1, <1>3 DEF TypeOK, Existing
<1>5. \A d \in Categories \ {c} : sections'[d] = sections[d]
  BY <1>1 DEF TypeOK
<1>6. Whole'
  <2>1. \A i \in Items : items[i] # None => items[i].category \in Categories \ {c}
    BY <1>1 DEF TypeOK, Item, InSection, Existing
  <2> QED BY <1>1, <1>5, <2>1 DEF Whole
<1>7. PrescriptionsOnlyFromPharmacies'
  BY <1>1 DEF PrescriptionsOnlyFromPharmacies, Existing
<1>8. RoomLeft'
  BY <1>1, <1>3, WroteTakesNoRoom
<1> QED
  BY <1>1, <1>3, <1>4, <1>5, <1>6, <1>7, <1>8, WroteKeeps

-----------------------------------------------------------------------------
(* Items: whatever rows a save brings, the constraints of the tables leave *)
(* the menu whole.                                                         *)
LEMMA SaveItemsInv ==
    ASSUME IInv, NEW r \in Requests, NEW I \in SUBSET Items, NEW rows \in [I -> Item],
           NEW choices \in [I -> SUBSET Groups], SaveItems(r, rows, choices),
           issued \subseteq issued', I \subseteq issued'
    PROVE  IInv'
<1> USE DEF IInv
<1>1. /\ \A i \in I : RowAllowed(i, rows[i])
      /\ items' = [i \in Items |-> IF i \in I THEN [rows[i] EXCEPT !.kind = StoredKind(i, rows[i])]
                                   ELSE items[i]]
      /\ groups' = [i \in Items |-> IF i \in I THEN choices[i] ELSE groups[i]]
      /\ Wrote(r, I) /\ UNCHANGED <<sections, combos, lines>>
  BY DEF SaveItems, WriteItem, WriteOptionGroups
<1>2. \A i \in I : /\ [rows[i] EXCEPT !.kind = StoredKind(i, rows[i])] \in Item
                   /\ items'[i] = [rows[i] EXCEPT !.kind = StoredKind(i, rows[i])]
  <2> SUFFICES ASSUME NEW i \in I PROVE [rows[i] EXCEPT !.kind = StoredKind(i, rows[i])] \in Item
    BY <1>1
  <2>1. rows[i] \in Item /\ StoredKind(i, rows[i]) \in Type
    BY DEF StoredKind, TypeOK, Item
  <2> QED BY <2>1 DEF Item
<1>3. items' \in [Items -> Item \cup {None}] /\ \A i \in I : items'[i] # None
  BY <1>1, <1>2, NoneAssumption DEF TypeOK
<1>4. /\ groups' \in [Items -> SUBSET Groups] /\ sections' \in [Categories -> Section \cup {None}]
      /\ combos' \in [Combos -> Combo \cup {None}] /\ lines' \in [Combos -> SUBSET Items]
  BY <1>1 DEF TypeOK
<1>5. Existing(sections)' \cup Existing(items)' \cup Existing(combos)' \subseteq issued'
  <2>1. Existing(items)' \subseteq Existing(items) \cup I
    BY <1>1 DEF TypeOK, Existing
  <2>2. Existing(sections)' = Existing(sections) /\ Existing(combos)' = Existing(combos)
    BY <1>1 DEF Existing
  <2> QED BY <2>1, <2>2 DEF TypeOK
<1>6. \A i \in Items \ I : items'[i] = items[i] /\ groups'[i] = groups[i]
  BY <1>1
<1>7. Whole'
  <2>1. \A i \in I : sections[items'[i].category] # None
    <3> SUFFICES ASSUME NEW i \in I PROVE sections[items'[i].category] # None
      OBVIOUS
    <3>1. rows[i] \in Item /\ items'[i].category = rows[i].category
      BY <1>2 DEF Item
    <3> QED BY <1>1, <3>1 DEF RowAllowed
  <2>2. \A i \in Items : items[i] # None => items'[i] # None
    BY <1>3, <1>6
  <2> QED BY <1>1, <1>3, <1>6, <2>1, <2>2 DEF Whole, TypeOK
<1>8. PrescriptionsOnlyFromPharmacies'
  <2>1. \A i \in I : items'[i].prescription => items'[i].kind = "pharmacy"
    <3> SUFFICES ASSUME NEW i \in I, items'[i].prescription PROVE items'[i].kind = "pharmacy"
      OBVIOUS
    <3>1. /\ rows[i] \in Item /\ items'[i].prescription = rows[i].prescription
          /\ items'[i].kind = StoredKind(i, rows[i])
      BY <1>2 DEF Item
    <3> QED BY <1>1, <3>1 DEF RowAllowed
  <2>2. \A i \in Items \ I : items'[i] # None /\ items'[i].prescription => items'[i].kind = "pharmacy"
    BY <1>6 DEF PrescriptionsOnlyFromPharmacies, Existing, TypeOK
  <2>3. Existing(items)' \subseteq Items
    BY <1>1 DEF Existing
  <2> QED BY <2>1, <2>2, <2>3 DEF PrescriptionsOnlyFromPharmacies, Existing
<1>9. RoomLeft'
  <2>1. Existing(sections)' = Existing(sections)
    BY <1>1 DEF Existing
  <2> QED BY <1>1, <2>1, WroteTakesNoRoom
<1> QED
  BY <1>1, <1>3, <1>4, <1>5, <1>6, <1>7, <1>8, <1>9, WroteKeeps

(* What an edit of items holds.                                            *)
LEMMA ItemCopies ==
    ASSUME IInv, NEW r \in Requests, req[r].pc \in {"loaded", "checked"}
    PROVE  \E I \in SUBSET Items :
              /\ I = DOMAIN req[r].rows /\ I = DOMAIN req[r].groups /\ I \subseteq issued
              /\ req[r].rows \in [I -> Item] /\ req[r].groups \in [I -> SUBSET Groups]
              /\ req[r].kind \in Kinds
              /\ req[r].pc = "checked" => req[r].category \in Categories
<1>1. req[r] \in ItemEdit /\ CopyHolds(req[r])
  BY EditFields DEF IInv, Editing, CopiesHold
<1>2. req[r].rows \in ItemRows /\ req[r].groups \in ItemGroups /\ req[r].kind \in Kinds
  BY <1>1 DEF ItemEdit
<1> QED
  BY <1>1, <1>2, InRows DEF CopyHolds, Editing

LEMMA Drafts ==
    ASSUME NEW t, NEW d \in Draft(t)
    PROVE  d.stock \in Stock /\ d.prescription \in BOOLEAN
BY DEF Draft, StockOf, Stock

LEMMA CreateItemInv ==
    ASSUME IInv, NEW r \in Requests, NEW i \in Items, NEW d, CreateItem(r, i, d)
    PROVE  IInv'
<1> DEFINE row == [category |-> req[r].category, kind |-> req[r].kind,
                   stock |-> d.stock, prescription |-> d.prescription, active |-> TRUE, always |-> TRUE]
           rows == [j \in {i} |-> row]
           choices == [j \in {i} |-> {}]
<1>1. /\ req[r].pc = "checked" /\ d \in Draft(req[r].kind)
      /\ issued' = issued \cup {i} /\ SaveItems(r, rows, choices)
  BY DEF CreateItem
<1>2. req[r].category \in Categories /\ req[r].kind \in Type
  BY <1>1, ItemCopies, Kindness
<1>3. row \in Item
  BY <1>1, <1>2, Drafts DEF Item
<1> HIDE DEF row
<1>4. rows \in [{i} -> Item] /\ choices \in [{i} -> SUBSET Groups]
  BY <1>3
<1> HIDE DEF rows, choices
<1> QED
  BY <1>1, <1>4, SaveItemsInv

LEMMA UpdateItemInv ==
    ASSUME IInv, NEW r \in Requests, NEW d, NEW keep \in BOOLEAN, UpdateItem(r, d, keep)
    PROVE  IInv'
<1> DEFINE New(row) == [row EXCEPT !.category = req[r].category, !.kind = req[r].kind,
                                   !.prescription = d.prescription, !.stock = IF keep THEN @ ELSE d.stock]
<1>1. /\ req[r].pc = "checked" /\ d \in Draft(req[r].kind) /\ UNCHANGED issued
      /\ SaveItems(r, [i \in DOMAIN req[r].rows |-> New(req[r].rows[i])], req[r].groups)
  BY DEF UpdateItem
<1>2. PICK I \in SUBSET Items :
        /\ I = DOMAIN req[r].rows /\ I \subseteq issued
        /\ req[r].rows \in [I -> Item] /\ req[r].groups \in [I -> SUBSET Groups]
        /\ req[r].category \in Categories /\ req[r].kind \in Type
  BY <1>1, ItemCopies, Kindness
<1>3. \A row \in Item : New(row) \in Item
  BY <1>1, <1>2, Drafts DEF Item
<1> HIDE DEF New
<1>4. [i \in DOMAIN req[r].rows |-> New(req[r].rows[i])] \in [I -> Item]
  BY <1>2, <1>3
<1> DEFINE rows == [i \in DOMAIN req[r].rows |-> New(req[r].rows[i])]
           choices == req[r].groups
<1>5. rows \in [I -> Item] /\ choices \in [I -> SUBSET Groups] /\ SaveItems(r, rows, choices)
  BY <1>1, <1>2, <1>4
<1> HIDE DEF rows, choices
<1> QED
  BY <1>1, <1>2, <1>5, SaveItemsInv

LEMMA SwitchesInv ==
    ASSUME IInv, NEW r \in Requests,
           \/ \E active \in BOOLEAN : SetActive(r, active)
           \/ \E stock \in Stock : SetStock(r, stock)
           \/ \E always \in BOOLEAN : SetAvailability(r, always)
    PROVE  IInv'
<1>1. req[r].pc = "loaded" /\ UNCHANGED issued
  BY DEF SetActive, SetStock, SetAvailability, One, Loaded
<1>2. PICK I \in SUBSET Items :
        /\ I = DOMAIN req[r].rows /\ I \subseteq issued
        /\ req[r].rows \in [I -> Item] /\ req[r].groups \in [I -> SUBSET Groups]
  BY <1>1, ItemCopies
<1>3. ASSUME NEW rows \in [I -> Item], SaveItems(r, rows, req[r].groups) PROVE IInv'
  <2> DEFINE choices == req[r].groups
  <2>1. choices \in [I -> SUBSET Groups] /\ SaveItems(r, rows, choices)
    BY <1>2, <1>3
  <2> HIDE DEF choices
  <2> QED BY <1>1, <1>2, <2>1, SaveItemsInv
<1>4. ASSUME NEW active \in BOOLEAN, SetActive(r, active) PROVE IInv'
  <2>1. \A row \in Item : [row EXCEPT !.active = active] \in Item
    BY DEF Item
  <2>2. [i \in DOMAIN req[r].rows |-> [req[r].rows[i] EXCEPT !.active = active]] \in [I -> Item]
    BY <1>2, <2>1
  <2> QED BY <1>3, <1>4, <2>2 DEF SetActive
<1>5. ASSUME NEW stock \in Stock, SetStock(r, stock) PROVE IInv'
  <2>1. \A row \in Item : [row EXCEPT !.stock = stock] \in Item
    BY DEF Item
  <2>2. [i \in DOMAIN req[r].rows |-> [req[r].rows[i] EXCEPT !.stock = stock]] \in [I -> Item]
    BY <1>2, <2>1
  <2> QED BY <1>3, <1>5, <2>2 DEF SetStock
<1>6. ASSUME NEW always \in BOOLEAN, SetAvailability(r, always) PROVE IInv'
  <2>1. \A row \in Item : [row EXCEPT !.always = always] \in Item
    BY DEF Item
  <2>2. [i \in DOMAIN req[r].rows |-> [req[r].rows[i] EXCEPT !.always = always]] \in [I -> Item]
    BY <1>2, <2>1
  <2> QED BY <1>3, <1>6, <2>2 DEF SetAvailability
<1> QED
  BY <1>4, <1>5, <1>6

LEMMA SetGroupsInv ==
    ASSUME IInv, NEW r \in Requests, NEW some, NEW chosen \in SUBSET Groups, SetGroups(r, some, chosen)
    PROVE  IInv'
<1> DEFINE choices == [i \in DOMAIN req[r].rows |-> (req[r].groups[i] \ some) \cup chosen]
           rows == req[r].rows
<1>1. req[r].pc = "loaded" /\ UNCHANGED issued /\ SaveItems(r, rows, choices)
  BY DEF SetGroups, One, Loaded
<1>2. PICK I \in SUBSET Items :
        /\ I = DOMAIN req[r].rows /\ I \subseteq issued
        /\ req[r].rows \in [I -> Item] /\ req[r].groups \in [I -> SUBSET Groups]
  BY <1>1, ItemCopies
<1>3. rows \in [I -> Item] /\ choices \in [I -> SUBSET Groups]
  BY <1>2
<1> HIDE DEF rows, choices
<1> QED
  BY <1>1, <1>2, <1>3, SaveItemsInv

(* No line of any combo names what goes.                                   *)
LEMMA DeleteItemInv ==
    ASSUME IInv, NEW r \in Requests, DeleteItem(r)
    PROVE  IInv'
<1> USE DEF IInv
<1>0. req[r].pc = "loaded"
  BY DEF DeleteItem, One, Loaded
<1>2. PICK I \in SUBSET Items : I = DOMAIN req[r].rows
  BY <1>0, ItemCopies
<1>1. /\ \A b \in Combos : lines[b] \cap I = {}
      /\ items' = [i \in Items |-> IF i \in I THEN None ELSE items[i]]
      /\ groups' = [i \in Items |-> IF i \in I THEN {} ELSE groups[i]]
      /\ Wrote(r, I) /\ UNCHANGED <<sections, combos, lines, issued>>
  BY <1>2 DEF DeleteItem
<1>3. /\ items' \in [Items -> Item \cup {None}] /\ groups' \in [Items -> SUBSET Groups]
      /\ sections' \in [Categories -> Section \cup {None}]
      /\ combos' \in [Combos -> Combo \cup {None}] /\ lines' \in [Combos -> SUBSET Items]
  BY <1>1 DEF TypeOK
<1>4. Existing(items)' \subseteq Existing(items)
  BY <1>1 DEF TypeOK, Existing
<1>5. Existing(sections)' \cup Existing(items)' \cup Existing(combos)' \subseteq issued'
  BY <1>1, <1>4 DEF TypeOK, Existing
<1>6. \A i \in Items \ I : items'[i] = items[i] /\ groups'[i] = groups[i]
  BY <1>1
<1>7. Whole'
  <2>1. \A i \in I : items'[i] = None /\ groups'[i] = {}
    BY <1>1
  <2> QED BY <1>1, <1>6, <2>1 DEF Whole, TypeOK
<1>8. PrescriptionsOnlyFromPharmacies'
  BY <1>1, <1>4 DEF PrescriptionsOnlyFromPharmacies, Existing, TypeOK
<1>9. RoomLeft'
  <2>1. Existing(sections)' = Existing(sections)
    BY <1>1 DEF Existing
  <2> QED BY <1>1, <2>1, WroteTakesNoRoom
<1> QED
  BY <1>1, <1>3, <1>5, <1>6, <1>7, <1>8, <1>9, WroteKeeps

-----------------------------------------------------------------------------
(* Combos.                                                                 *)
LEMMA SaveComboInv ==
    ASSUME IInv, NEW r \in Requests, NEW b \in Combos, NEW row \in Combo, NEW I \in SUBSET Items,
           SaveCombo(r, b, row, I), issued' = issued \cup {b}
    PROVE  IInv'
<1> USE DEF IInv
<1>1. /\ I \subseteq Existing(items) /\ combos' = [combos EXCEPT ![b] = row]
      /\ lines' = [lines EXCEPT ![b] = I] /\ Wrote(r, {b}) /\ UNCHANGED <<sections, items, groups>>
  BY DEF SaveCombo, LinesAllowed
<1>2. row # None
  BY NoneAssumption
<1>3. /\ combos' \in [Combos -> Combo \cup {None}] /\ lines' \in [Combos -> SUBSET Items]
      /\ items' \in [Items -> Item \cup {None}] /\ groups' \in [Items -> SUBSET Groups]
      /\ sections' \in [Categories -> Section \cup {None}]
  BY <1>1 DEF TypeOK
<1>4. Existing(combos)' = Existing(combos) \cup {b}
  BY <1>1, <1>2 DEF TypeOK, Existing
<1>5. Existing(sections)' \cup Existing(items)' \cup Existing(combos)' \subseteq issued'
  BY <1>1, <1>4 DEF TypeOK, Existing
<1>6. \A d \in Combos \ {b} : combos'[d] = combos[d] /\ lines'[d] = lines[d]
  BY <1>1 DEF TypeOK
<1>7. Whole'
  <2>1. combos'[b] # None /\ lines'[b] = I /\ \A i \in I : items'[i] # None
    BY <1>1, <1>2 DEF TypeOK, Existing
  <2> QED BY <1>1, <1>6, <2>1 DEF Whole
<1>8. PrescriptionsOnlyFromPharmacies'
  BY <1>1 DEF PrescriptionsOnlyFromPharmacies, Existing
<1>9. RoomLeft'
  <2>1. Existing(sections)' = Existing(sections)
    BY <1>1 DEF Existing
  <2> QED BY <1>1, <2>1, WroteTakesNoRoom
<1> QED
  BY <1>1, <1>3, <1>5, <1>6, <1>7, <1>8, <1>9, WroteKeeps

LEMMA ComboCopies ==
    ASSUME IInv, NEW r \in Requests, req[r].pc \in {"lines", "members"}
    PROVE  /\ req[r].row \in Combo /\ req[r].lines \in SUBSET Items
           /\ req[r].pc = "lines" \/ req[r].id # None => req[r].id \in Combos /\ req[r].id \in issued
BY EditFields DEF IInv, ComboEdit, CopiesHold, CopyHolds

LEMMA CreateComboInv ==
    ASSUME IInv, NEW r \in Requests, NEW b \in Combos, CreateCombo(r, b)
    PROVE  IInv'
<1>1. /\ req[r].row \in Combo /\ req[r].lines \in SUBSET Items
      /\ SaveCombo(r, b, req[r].row, req[r].lines) /\ issued' = issued \cup {b}
  BY ComboCopies DEF CreateCombo
<1> QED BY <1>1, SaveComboInv

LEMMA UpdateComboInv ==
    ASSUME IInv, NEW r \in Requests, UpdateCombo(r)
    PROVE  IInv'
<1>1. /\ req[r].row \in Combo /\ req[r].lines \in SUBSET Items /\ req[r].id \in Combos
      /\ SaveCombo(r, req[r].id, req[r].row, req[r].lines) /\ issued' = issued \cup {req[r].id}
  BY ComboCopies DEF UpdateCombo
<1> QED BY <1>1, SaveComboInv

LEMMA SetComboInv ==
    ASSUME IInv, NEW r \in Requests, NEW row \in Combo, SetCombo(r, row)
    PROVE  IInv'
<1>1. /\ req[r].lines \in SUBSET Items /\ req[r].id \in Combos
      /\ SaveCombo(r, req[r].id, row, req[r].lines) /\ issued' = issued \cup {req[r].id}
  BY ComboCopies DEF SetCombo
<1> QED BY <1>1, SaveComboInv

LEMMA DeleteComboInv ==
    ASSUME IInv, NEW r \in Requests, DeleteCombo(r)
    PROVE  IInv'
<1> USE DEF IInv
<1>0. PICK b \in Combos : b = req[r].id
  BY ComboCopies DEF DeleteCombo
<1>1. /\ combos' = [combos EXCEPT ![b] = None] /\ lines' = [lines EXCEPT ![b] = {}]
      /\ Wrote(r, {b}) /\ UNCHANGED <<sections, items, groups, issued>>
  BY <1>0 DEF DeleteCombo
<1>3. /\ combos' \in [Combos -> Combo \cup {None}] /\ lines' \in [Combos -> SUBSET Items]
      /\ items' \in [Items -> Item \cup {None}] /\ groups' \in [Items -> SUBSET Groups]
      /\ sections' \in [Categories -> Section \cup {None}]
      /\ Existing(combos)' \subseteq Existing(combos)
  BY <1>1 DEF TypeOK, Existing
<1>5. Existing(sections)' \cup Existing(items)' \cup Existing(combos)' \subseteq issued'
  BY <1>1, <1>3 DEF TypeOK, Existing
<1>6. \A d \in Combos \ {b} : combos'[d] = combos[d] /\ lines'[d] = lines[d]
  BY <1>1 DEF TypeOK
<1>7. Whole'
  <2>1. lines'[b] = {}
    BY <1>1 DEF TypeOK
  <2> QED BY <1>1, <1>6, <2>1 DEF Whole
<1>8. PrescriptionsOnlyFromPharmacies'
  BY <1>1 DEF PrescriptionsOnlyFromPharmacies, Existing
<1>9. RoomLeft'
  <2>1. Existing(sections)' = Existing(sections)
    BY <1>1 DEF Existing
  <2> QED BY <1>1, <2>1, WroteTakesNoRoom
<1> QED
  BY <1>1, <1>3, <1>5, <1>6, <1>7, <1>8, <1>9, WroteKeeps

LEMMA ShopChangesKindInv ==
    ASSUME IInv, NEW t \in Kinds, ShopChangesKind(t)
    PROVE  IInv'
<1> USE DEF IInv
<1>1. kind' = t /\ UNCHANGED <<sections, items, groups, combos, lines, req, menu, untouched, issued>>
  BY DEF ShopChangesKind, tables
<1>2. TypeOK' /\ CopiesHold'
  BY <1>1 DEF TypeOK, Existing, CopiesHold, CopyHolds
<1>3. Whole' /\ PrescriptionsOnlyFromPharmacies' /\ RoomLeft'
  BY <1>1 DEF Whole, PrescriptionsOnlyFromPharmacies, Existing, RoomLeft, Held, Holding, Creating
<1>4. MenusHold'
  BY <1>1 DEF MenusHold, SectionsSeen, ItemsSeen, CombosSeen
<1> QED BY <1>2, <1>3, <1>4

(* The requests of one device.                                             *)
LEMMA EditInv ==
    ASSUME IInv, NEW r \in Requests, Edit(r)
    PROVE  IInv'
<1>1. CASE CategoryRoutes(r)
  BY <1>1, ListInv, CreateCategoryInv, SaveCategoryInv, DeleteCategoryInv, ReadsKeep DEF CategoryRoutes
<1>2. CASE ItemRoutes(r)
  <2>1. ASSUME NEW d, NEW i \in Items, CreateItem(r, i, d) PROVE IInv'
    BY <2>1, CreateItemInv
  <2>2. ASSUME NEW d, NEW keep \in BOOLEAN, UpdateItem(r, d, keep) PROVE IInv'
    BY <2>2, UpdateItemInv
  <2> QED BY <1>2, <2>1, <2>2, ReadsKeep, SwitchesInv, DeleteItemInv DEF ItemRoutes
<1>3. CASE OptionRoutes(r)
  BY <1>3, SetGroupsInv DEF OptionRoutes, Groups
<1>4. CASE BulkRoute(r)
  BY <1>4, ReadsKeep, SwitchesInv DEF BulkRoute
<1>5. CASE ComboRoutes(r)
  BY <1>5, ReadsKeep, CreateComboInv, UpdateComboInv, DeleteComboInv, SetComboInv DEF ComboRoutes
<1>6. CASE Begin(r)
  BY <1>6, BeginInv
<1>7. CASE Refuse(r) \/ LoadVariantGroups(r) \/ LoadAddOnGroups(r) \/ AttachLines(r)
  BY <1>7, ReadsKeep
<1> QED
  BY <1>1, <1>2, <1>3, <1>4, <1>5, <1>6, <1>7 DEF Edit

-----------------------------------------------------------------------------
(* A customer's menu.                                                      *)
Seen(m) == SectionsSeen(m) /\ ItemsSeen(m) /\ CombosSeen(m)

Showing == [pc : {"sections", "items", "combos", "answered"}, sections : SUBSET Categories,
            now : BOOLEAN, items : SUBSET Items, orderable : SUBSET Items, combos : SUBSET Combos]

LEMMA ReadingInv ==
    ASSUME IInv, NEW m \in Readers, NEW q \in Menu, Reads(m, q),
           untouched' \in [Readers -> SUBSET (Categories \cup Items \cup Combos)],
           \A n \in Readers \ {m} : untouched'[n] = untouched[n],
           Seen(m)'
    PROVE  IInv'
<1> USE DEF IInv
<1>1. /\ menu' = [menu EXCEPT ![m] = q]
      /\ UNCHANGED <<kind, sections, items, groups, combos, lines, req, issued, calls>>
  BY DEF Reads, tables
<1>2. TypeOK' /\ CopiesHold'
  BY <1>1 DEF TypeOK, Existing, CopiesHold, CopyHolds
<1>3. Whole' /\ PrescriptionsOnlyFromPharmacies' /\ RoomLeft'
  BY <1>1 DEF Whole, PrescriptionsOnlyFromPharmacies, Existing, RoomLeft, Held, Holding, Creating
<1>4. MenusHold'
  <2> SUFFICES ASSUME NEW n \in Readers, n # m PROVE Seen(n)'
    BY DEF MenusHold, Seen
  <2>1. menu'[n] = menu[n] /\ untouched'[n] = untouched[n] /\ Seen(n)
    BY <1>1 DEF TypeOK, MenusHold, Seen
  <2>2. SectionsSeen(n)'
    BY <1>1, <2>1 DEF Seen, SectionsSeen
  <2>3. ItemsSeen(n)'
    BY <1>1, <2>1 DEF Seen, ItemsSeen
  <2>4. CombosSeen(n)'
    BY <1>1, <2>1 DEF Seen, CombosSeen
  <2> QED BY <2>2, <2>3, <2>4 DEF Seen
<1> QED BY <1>2, <1>3, <1>4

LEMMA ReadSectionsInv ==
    ASSUME IInv, NEW m \in Readers, ReadSections(m)
    PROVE  IInv'
<1> USE DEF IInv
<1> DEFINE q == [pc |-> "sections", now |-> TRUE, items |-> {}, orderable |-> {}, combos |-> {},
                 sections |-> {c \in Existing(sections) : sections[c].active}]
<1>1. /\ Reads(m, q) /\ menu' = [menu EXCEPT ![m] = q] /\ UNCHANGED sections
      /\ untouched' = [untouched EXCEPT ![m] = Categories \cup Items \cup Combos]
  BY DEF ReadSections, Reads, tables
<1>2. q \in Menu
  BY DEF Menu, Existing, TypeOK
<1>3. q.pc = "sections" /\ \A c \in Categories : c \in q.sections <=> sections[c] # None /\ sections[c].active
  BY DEF Existing, TypeOK
<1> HIDE DEF q
<1>4. menu'[m] = q
  BY <1>1 DEF TypeOK
<1>5. Seen(m)'
  BY <1>1, <1>3, <1>4 DEF Seen, SectionsSeen, ItemsSeen, CombosSeen
<1>6. untouched' \in [Readers -> SUBSET (Categories \cup Items \cup Combos)]
      /\ \A n \in Readers \ {m} : untouched'[n] = untouched[n]
  BY <1>1 DEF TypeOK
<1> QED BY <1>1, <1>2, <1>5, <1>6, ReadingInv

LEMMA ReadItemsInv ==
    ASSUME IInv, NEW m \in Readers, NEW now \in BOOLEAN, ReadItems(m, now)
    PROVE  IInv'
<1> USE DEF IInv
<1> DEFINE active == {i \in Existing(items) : items[i].active}
           q == [menu[m] EXCEPT !.pc = "items", !.now = now,
                   !.items = {i \in active : items[i].category \in menu[m].sections},
                   !.orderable = {i \in active : Orderable(items[i], now)}]
<1>1. /\ Reads(m, q) /\ menu' = [menu EXCEPT ![m] = q] /\ menu[m].pc = "sections"
      /\ UNCHANGED <<sections, items, untouched>>
  BY DEF ReadItems, Reads, tables
<1>2. menu[m] \in Showing
  BY <1>1 DEF TypeOK, Menu, Showing
<1>3. q \in Showing /\ q.pc = "items" /\ q.now = now /\ q.sections = menu[m].sections
      /\ q.items = {i \in active : items[i].category \in menu[m].sections}
      /\ q.orderable = {i \in active : Orderable(items[i], now)}
  BY <1>2 DEF Showing, Existing, TypeOK
<1> HIDE DEF q
<1>4. menu'[m] = q
  BY <1>1 DEF TypeOK
<1>5. SectionsSeen(m)'
  BY <1>1, <1>3, <1>4 DEF MenusHold, SectionsSeen
<1>6. ItemsSeen(m)'
  <2>1. \A i \in Items : /\ i \in q.orderable <=> items[i] # None /\ Orderable(items[i], now)
                         /\ i \in q.items <=> /\ items[i] # None /\ items[i].active
                                              /\ items[i].category \in q.sections
    BY <1>3 DEF Orderable, Existing, TypeOK
  <2> QED BY <1>1, <1>3, <1>4, <2>1 DEF ItemsSeen
<1>7. CombosSeen(m)'
  BY <1>3, <1>4 DEF CombosSeen
<1>8. q \in Menu
  BY <1>3 DEF Showing, Menu
<1> QED BY <1>1, <1>5, <1>6, <1>7, <1>8, ReadingInv DEF Seen, TypeOK

LEMMA ReadCombosInv ==
    ASSUME IInv, NEW m \in Readers, ReadCombos(m)
    PROVE  IInv'
<1> USE DEF IInv
<1> DEFINE q == [menu[m] EXCEPT !.pc = "combos",
                   !.combos = {b \in Existing(combos) : ComboOrderable(combos[b], menu[m].now)}]
<1>1. /\ Reads(m, q) /\ menu' = [menu EXCEPT ![m] = q] /\ menu[m].pc = "items"
      /\ UNCHANGED <<sections, items, combos, lines, untouched>>
  BY DEF ReadCombos, Reads, tables
<1>2. menu[m] \in Showing
  BY <1>1 DEF TypeOK, Menu, Showing
<1>3. q \in Showing /\ q.pc = "combos" /\ q.now = menu[m].now /\ q.sections = menu[m].sections
      /\ q.items = menu[m].items /\ q.orderable = menu[m].orderable
      /\ q.combos = {b \in Existing(combos) : ComboOrderable(combos[b], menu[m].now)}
  BY <1>2 DEF Showing, Existing, TypeOK
<1> HIDE DEF q
<1>4. menu'[m] = q
  BY <1>1 DEF TypeOK
<1>5. SectionsSeen(m)'
  BY <1>1, <1>3, <1>4 DEF MenusHold, SectionsSeen
<1>6. ItemsSeen(m)'
  BY <1>1, <1>3, <1>4 DEF MenusHold, ItemsSeen
<1>7. CombosSeen(m)'
  <2>1. \A b \in Combos : b \in q.combos <=> combos[b] # None /\ ComboOrderable(combos[b], q.now)
    BY <1>3 DEF Existing, TypeOK
  <2> QED BY <1>1, <1>3, <1>4, <2>1 DEF CombosSeen
<1>8. q \in Menu
  BY <1>3 DEF Showing, Menu
<1> QED BY <1>1, <1>5, <1>6, <1>7, <1>8, ReadingInv DEF Seen, TypeOK

LEMMA ReadLinesInv ==
    ASSUME IInv, NEW m \in Readers, ReadLines(m)
    PROVE  IInv'
<1> USE DEF IInv
<1> DEFINE q == [menu[m] EXCEPT !.pc = "answered", !.combos = OrderableCombos(m)]
<1>1. /\ Reads(m, q) /\ menu' = [menu EXCEPT ![m] = q] /\ menu[m].pc = "combos"
      /\ UNCHANGED <<sections, items, combos, lines, untouched>>
  BY DEF ReadLines, Reads, tables
<1>2. menu[m] \in Showing
  BY <1>1 DEF TypeOK, Menu, Showing
<1>3. q \in Showing /\ q.pc = "answered" /\ q.now = menu[m].now /\ q.sections = menu[m].sections
      /\ q.items = menu[m].items /\ q.orderable = menu[m].orderable
      /\ q.combos = {b \in menu[m].combos : lines[b] \subseteq menu[m].orderable}
  BY <1>2 DEF Showing, OrderableCombos
<1> HIDE DEF q
<1>4. menu'[m] = q
  BY <1>1 DEF TypeOK
<1>5. SectionsSeen(m)'
  BY <1>1, <1>3, <1>4 DEF MenusHold, SectionsSeen
<1>6. ItemsSeen(m)'
  BY <1>1, <1>3, <1>4 DEF MenusHold, ItemsSeen
<1>7. CombosSeen(m)'
  <2>1. \A b \in Combos \cap untouched[m] :
           b \in q.combos <=> /\ combos[b] # None /\ ComboOrderable(combos[b], q.now)
                              /\ lines[b] \subseteq q.orderable
    BY <1>1, <1>3 DEF MenusHold, CombosSeen
  <2> QED BY <1>1, <1>3, <1>4, <2>1 DEF CombosSeen
<1>8. q \in Menu
  BY <1>3 DEF Showing, Menu
<1> QED BY <1>1, <1>5, <1>6, <1>7, <1>8, ReadingInv DEF Seen, TypeOK

LEMMA LeaveInv ==
    ASSUME IInv, NEW m \in Readers, Leave(m)
    PROVE  IInv'
<1> USE DEF IInv
<1> DEFINE q == [pc |-> "idle"]
<1>1. Reads(m, q) /\ menu' = [menu EXCEPT ![m] = q] /\ untouched' = [untouched EXCEPT ![m] = {}]
  BY DEF Leave, Reads
<1>2. q \in Menu /\ q.pc = "idle"
  BY DEF Menu
<1> HIDE DEF q
<1>3. Seen(m)'
  BY <1>1, <1>2 DEF Seen, SectionsSeen, ItemsSeen, CombosSeen, TypeOK
<1>4. untouched' \in [Readers -> SUBSET (Categories \cup Items \cup Combos)]
      /\ \A n \in Readers \ {m} : untouched'[n] = untouched[n]
  BY <1>1 DEF TypeOK
<1> QED BY <1>1, <1>2, <1>3, <1>4, ReadingInv

-----------------------------------------------------------------------------
LEMMA NextInv == IInv /\ [Next]_vars => IInv'
<1> SUFFICES ASSUME IInv, [Next]_vars PROVE IInv'
  OBVIOUS
<1>1. ASSUME NEW r \in Requests, Edit(r) PROVE IInv'
  BY <1>1, EditInv
<1>2. ASSUME NEW t \in Kinds, ShopChangesKind(t) PROVE IInv'
  BY <1>2, ShopChangesKindInv
<1>3. ASSUME NEW m \in Readers, PublicRoutes(m) PROVE IInv'
  BY <1>3, ReadSectionsInv, ReadItemsInv, ReadCombosInv, ReadLinesInv, LeaveInv DEF PublicRoutes
<1>4. CASE UNCHANGED vars
  <2> USE DEF IInv
  <2>1. UNCHANGED <<kind, sections, items, groups, combos, lines, req, menu, untouched, issued, calls>>
    BY <1>4 DEF vars, tables
  <2>2. TypeOK' /\ CopiesHold'
    BY <2>1 DEF TypeOK, Existing, CopiesHold, CopyHolds
  <2>3. Whole' /\ PrescriptionsOnlyFromPharmacies' /\ RoomLeft'
    BY <2>1 DEF Whole, PrescriptionsOnlyFromPharmacies, Existing, RoomLeft, Held, Holding, Creating
  <2>4. MenusHold'
    BY <2>1 DEF MenusHold, SectionsSeen, ItemsSeen, CombosSeen
  <2> QED BY <2>2, <2>3, <2>4
<1> QED
  BY <1>1, <1>2, <1>3, <1>4 DEF Next

(* The invariant the properties follow from: what the tables refer to is   *)
(* there, what an edit holds has been given out, what a customer has read  *)
(* of untouched entries is still so, and the limit on sections leaves room *)
(* for the edits that may still add one.                                   *)
THEOREM Invariant == Spec => []IInv
BY InitInv, NextInv, PTL DEF Spec

(* However edits of one menu interleave, nothing on it refers to what is   *)
(* gone: items lie in sections there are, combos sell items there are, and *)
(* only an item that is there has choices (categories.go, Delete).         *)
THEOREM MenuStaysWhole == Spec => []MenuIsWhole
<1>1. IInv => MenuIsWhole
  <2> SUFFICES ASSUME IInv PROVE MenuIsWhole
    OBVIOUS
  <2> USE DEF IInv
  <2>1. DOMAIN items = Items
    BY DEF TypeOK
  <2>2. \A i \in Existing(items) : sections[items[i].category] # None
    BY <2>1 DEF Whole, Existing
  <2>3. \A b \in Combos : lines[b] \subseteq Existing(items)
    BY <2>1 DEF Whole, Existing, TypeOK
  <2> QED BY <2>2, <2>3 DEF Whole, MenuIsWhole
<1> QED BY <1>1, Invariant, PTL

(* Only an item that has been a pharmacy's from the start is stored as     *)
(* needing a prescription, whatever kind its shop becomes (item.go,        *)
(* validateAttributes).                                                    *)
THEOREM PrescriptionsStayAtPharmacies == Spec => []PrescriptionsOnlyFromPharmacies
<1>1. IInv => PrescriptionsOnlyFromPharmacies
  BY DEF IInv
<1> QED BY <1>1, Invariant, PTL

(* With any number of devices, sections exceed the shop's limit by one     *)
(* less than the edits in flight (categories.go, 55-62).                   *)
THEOREM SectionsStayNearTheLimit == Spec => []SectionsNearTheLimit
<1>1. IInv => SectionsNearTheLimit
  <2> SUFFICES ASSUME IInv PROVE SectionsNearTheLimit
    OBVIOUS
  <2> USE DEF IInv
  <2>1. Existing(sections) \subseteq Categories /\ Held \subseteq Categories
    BY EditFields DEF Existing, Held, Holding, TypeOK, SectionEdit
  <2>2. IsFiniteSet(Existing(sections) \cup Held) /\ IsFiniteSet(Creating)
    BY <2>1, SetsAssumption, FS_Subset DEF Creating
  <2>3. Cardinality(Existing(sections)) <= Cardinality(Existing(sections) \cup Held)
        /\ IsFiniteSet(Existing(sections))
    BY <2>2, FS_Subset
  <2>4. /\ Cardinality(Existing(sections)) \in Nat /\ Cardinality(Existing(sections) \cup Held) \in Nat
        /\ Cardinality(Creating) \in Nat /\ Cardinality(Requests) \in Nat /\ MaxCategories \in Nat
    BY <2>2, <2>3, SetsAssumption, BoundsAssumption, FS_CardinalityType
  <2> QED BY <2>3, <2>4 DEF RoomLeft, SectionsNearTheLimit
<1> QED BY <1>1, Invariant, PTL

(* A customer who reads the menu while its owner edits it is shown, of the *)
(* entries nobody wrote meanwhile, exactly those on sale, and offered a    *)
(* combo exactly when all it sells can be ordered (service.go, 36-87).     *)
THEOREM MenusShowWhatStood == Spec => []MenuShowsWhatStood
<1>1. IInv => MenuShowsWhatStood
  <2> SUFFICES ASSUME IInv, NEW m \in Readers, menu[m].pc = "answered"
               PROVE /\ \A i \in untouched[m] \cap Existing(items) : items[i].category \in untouched[m] =>
                          (i \in menu[m].items <=> items[i].active /\ sections[items[i].category].active)
                     /\ \A b \in untouched[m] \cap Existing(combos) : lines[b] \subseteq untouched[m] =>
                          (b \in menu[m].combos <=>
                             /\ ComboOrderable(combos[b], menu[m].now)
                             /\ \A i \in lines[b] : Orderable(items[i], menu[m].now))
    BY DEF MenuShowsWhatStood
  <2> USE DEF IInv
  <2>1. SectionsSeen(m) /\ ItemsSeen(m) /\ CombosSeen(m) /\ Existing(items) \subseteq Items
        /\ Existing(combos) \subseteq Combos
    BY DEF MenusHold, Existing, TypeOK
  <2>2. ASSUME NEW i \in untouched[m] \cap Existing(items), items[i].category \in untouched[m]
        PROVE  i \in menu[m].items <=> items[i].active /\ sections[items[i].category].active
    <3>1. i \in Items /\ items[i] # None /\ items[i].category \in Categories
      BY <2>1, <2>2 DEF Existing, TypeOK, Item
    <3>2. sections[items[i].category] # None
      BY <3>1 DEF Whole
    <3>3. items[i].category \in menu[m].sections <=> sections[items[i].category].active
      BY <2>1, <2>2, <3>1, <3>2 DEF SectionsSeen
    <3> QED BY <2>1, <2>2, <3>1, <3>3 DEF ItemsSeen
  <2>3. ASSUME NEW b \in untouched[m] \cap Existing(combos), lines[b] \subseteq untouched[m]
        PROVE  b \in menu[m].combos <=> /\ ComboOrderable(combos[b], menu[m].now)
                                        /\ \A i \in lines[b] : Orderable(items[i], menu[m].now)
    <3>1. b \in Combos /\ combos[b] # None
      BY <2>1, <2>3 DEF Existing
    <3>2. lines[b] \subseteq Items /\ \A i \in lines[b] : items[i] # None
      BY <3>1 DEF TypeOK, Whole
    <3>3. lines[b] \subseteq menu[m].orderable <=> \A i \in lines[b] : Orderable(items[i], menu[m].now)
      BY <2>1, <2>3, <3>2 DEF ItemsSeen
    <3> QED BY <2>1, <2>3, <3>1, <3>3 DEF CombosSeen
  <2> QED BY <2>2, <2>3
<1> QED BY <1>1, Invariant, PTL

-----------------------------------------------------------------------------
(* Groups of choices: what is accepted has bounds that can be met.         *)
LEMMA AcceptedGroups ==
    ASSUME NEW g \in GroupsAccepted
    PROVE  /\ g.required \in BOOLEAN /\ g.min \in Nat /\ g.max \in Nat /\ g.options \in Nat
           /\ 1 <= g.max /\ g.min <= g.max /\ g.max <= g.options
<1>1. ASSUME NEW required \in BOOLEAN, NEW min \in Nat, NEW max \in Nat, NEW options \in Nat,
             1 <= max, g = Group(required, min, max, options), g # Refused
      PROVE  /\ g.required \in BOOLEAN /\ g.min \in Nat /\ g.max \in Nat /\ g.options \in Nat
             /\ 1 <= g.max /\ g.min <= g.max /\ g.max <= g.options
  <2>1. /\ ~(options = 0 \/ min > max \/ max > options)
        /\ g = [required |-> required, min |-> min, max |-> max, options |-> options]
    BY <1>1 DEF Group
  <2> QED BY <1>1, <2>1
<1>2. ASSUME NEW b \in GroupBody
      PROVE  /\ b.required \in BOOLEAN /\ b.min \in Int /\ b.max \in Int /\ b.options \in Nat
  BY <1>2, MaxOptionsAssumption DEF GroupBody
<1>3. ASSUME NEW b \in GroupBody, g = NewVariantGroup(b), g # Refused
      PROVE  \E required \in BOOLEAN, min, max, options \in Nat :
               1 <= max /\ g = Group(required, min, max, options)
  BY <1>2, <1>3 DEF NewVariantGroup
<1>4. ASSUME NEW b \in GroupBody, g = NewAddOnGroup(b), g # Refused
      PROVE  \E required \in BOOLEAN, min, max, options \in Nat :
               1 <= max /\ g = Group(required, min, max, options)
  <2> DEFINE max == IF b.max <= 0 \/ b.max > b.options THEN b.options ELSE b.max
             min == IF b.min < 0 THEN 0 ELSE b.min
  <2>1. g = Group(FALSE, min, max, b.options)
    BY <1>4 DEF NewAddOnGroup
  <2>2. b.options # 0
    BY <1>4, <2>1 DEF Group
  <2>3. min \in Nat /\ max \in Nat /\ 1 <= max /\ b.options \in Nat
    BY <1>2, <2>2
  <2> HIDE DEF max, min
  <2> QED BY <2>1, <2>3
<1> QED BY <1>1, <1>3, <1>4 DEF GroupsAccepted

(* Whatever counts a shop sends, a group it was allowed to define can be    *)
(* chosen from, up to its maximum, and nobody is made to choose from one    *)
(* that is not required (options.go; cart, resolve.go).                     *)
THEOREM GroupsCanAllBeChosen == Spec => []GroupsCanBeChosen
<1>1. ASSUME NEW g \in GroupsAccepted
      PROVE  /\ MayChoose(g, g.options)
             /\ CheckGroup(g, g.max) /\ g.max >= 1
             /\ CheckGroup(g, 0) <=> ~g.required
  <2>1. CheckGroup(g, g.max) /\ g.max \in 0..g.options /\ g.max >= 1
    BY AcceptedGroups DEF CheckGroup
  <2>2. CheckGroup(g, 0) <=> ~g.required
    BY AcceptedGroups DEF CheckGroup
  <2> QED BY <2>1, <2>2 DEF MayChoose
<1>2. EveryGroupCanBeChosen
  BY <1>1 DEF EveryGroupCanBeChosen
<1>3. GroupsCanBeChosen
  BY <1>2 DEF GroupsCanBeChosen
<1> QED BY <1>3, PTL

=============================================================================
