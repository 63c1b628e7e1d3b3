------------------------------ MODULE Catalogue ------------------------------
(***************************************************************************)
(* One shop's menu as its owner edits it from several devices and as       *)
(* customers read it.  An edit reads the shop, then the entry, then the    *)
(* entry's choices or lines, each in a statement of its own, and writes    *)
(* the whole entry back in one transaction; the tables' foreign keys and   *)
(* checks are all that stands between two of them.  A customer's menu is   *)
(* four more statements.                                                   *)
(***************************************************************************)
EXTENDS MerchantTable, Options

CONSTANTS
    Categories, Items, Combos,  \* ids a new entry may be given
    Variants, AddOns,           \* ids of groups of choices
    Kinds,                      \* what the shop may be, or become
    Requests,                   \* edits in flight
    Readers,                    \* menus being read
    MaxCategories,              \* maxCategoriesPerShop
    MaxCalls,                   \* bound: edits started
    None

ASSUME KindsAssumption == Kinds \subseteq Type
ASSUME BoundsAssumption == MaxCategories \in Nat \ {0} /\ MaxCalls \in Nat
ASSUME SetsAssumption == IsFiniteSet(Categories) /\ IsFiniteSet(Requests) /\ Requests # {}

VARIABLES
    kind,       \* the shop's own type, in the merchant module
    sections, items, groups, combos, lines,  \* catalogue_categories, _items, ...
    req,        \* what each edit has read
    menu,       \* what each customer has read
    untouched,  \* the entries nobody has written since each customer began
    issued,     \* ids given out so far
    calls

tables == <<sections, items, groups, combos, lines>>
vars == <<kind, tables, req, menu, untouched, issued, calls>>

Groups == Variants \cup AddOns

(* Capabilities, the table every rule of a kind of shop is read from.      *)
Capabilities(t) ==
    [addOns        |-> t = "restaurant",
     combos        |-> t # "pharmacy",
     tracksStock   |-> t # "restaurant",
     prescriptions |-> t = "pharmacy"]

Stock == {"uncounted", "empty", "some"}

StockOf(t) == IF Capabilities(t).tracksStock THEN {"empty", "some"} ELSE {"uncounted"}

Section == [active : BOOLEAN]

Item == [category : Categories, kind : Type, stock : Stock, prescription : BOOLEAN,
         active : BOOLEAN, always : BOOLEAN]

Combo == [active : BOOLEAN, always : BOOLEAN]

ASSUME NoneAssumption == None \notin Section \cup Item \cup Combo

(* NewItem: what a draft may say of an item of a shop of this kind.        *)
Draft(t) == [stock : StockOf(t), prescription : IF Capabilities(t).prescriptions THEN BOOLEAN
                                                ELSE {FALSE}]

MinComboLines == 2

(* Availability.AvailableAt; now: is this one of the hours it is sold in.  *)
AvailableAt(row, now) == row.always \/ now

Orderable(row, now) == row.active /\ row.stock # "empty" /\ AvailableAt(row, now)

ComboOrderable(row, now) == row.active /\ AvailableAt(row, now)

Existing(table) == {e \in DOMAIN table : table[e] # None}

-----------------------------------------------------------------------------
Idle == [pc |-> "idle"]

Request ==
    {Idle} \cup
    [pc : {"shop"}, kind : Kinds] \cup
    [pc : {"listed"}, kind : Kinds, count : 0..Cardinality(Categories)] \cup
    [pc : {"section"}, kind : Kinds, id : Categories, row : Section] \cup
    [pc : {"counted"}, kind : Kinds, id : Categories] \cup
    [pc : {"items", "variants", "loaded", "checked"}, kind : Kinds, category : Categories \cup {None},
     rows : UNION {[I -> Item] : I \in SUBSET Items},
     groups : UNION {[I -> SUBSET Groups] : I \in SUBSET Items}] \cup
    [pc : {"combo", "lines", "members"}, kind : Kinds, id : Combos \cup {None},
     row : Combo, lines : SUBSET Items]

Menu ==
    [pc : {"idle"}] \cup
    [pc : {"sections", "items", "combos", "answered"}, sections : SUBSET Categories, now : BOOLEAN,
     items : SUBSET Items, orderable : SUBSET Items, combos : SUBSET Combos]

TypeOK ==
    /\ kind \in Kinds
    /\ sections \in [Categories -> Section \cup {None}]
    /\ items \in [Items -> Item \cup {None}]
    /\ groups \in [Items -> SUBSET Groups]
    /\ combos \in [Combos -> Combo \cup {None}]
    /\ lines \in [Combos -> SUBSET Items]
    /\ req \in [Requests -> Request]
    /\ menu \in [Readers -> Menu]
    /\ untouched \in [Readers -> SUBSET (Categories \cup Items \cup Combos)]
    /\ Existing(sections) \cup Existing(items) \cup Existing(combos) \subseteq issued

(* A menu as its owner has left it: what is there is on sale, in a section *)
(* that is there, and a combo sells all of it.                             *)
Init ==
    /\ kind \in Kinds
    /\ sections \in [Categories -> {[active |-> TRUE], None}]
    /\ Cardinality(Existing(sections)) <= MaxCategories
    /\ items \in [Items -> [category : Categories, kind : {kind}, stock : StockOf(kind) \ {"empty"},
                            prescription : {FALSE}, active : {TRUE}, always : {TRUE}] \cup {None}]
    /\ \A i \in Existing(items) : sections[items[i].category] # None
    /\ groups = [i \in Items |-> {}]
    /\ combos \in [Combos -> {[active |-> TRUE, always |-> TRUE], None}]
    /\ Existing(combos) # {} => /\ Capabilities(kind).combos
                                /\ Cardinality(Existing(items)) >= MinComboLines
    /\ lines = [b \in Combos |-> IF combos[b] = None THEN {} ELSE Existing(items)]
    /\ req = [r \in Requests |-> Idle]
    /\ menu = [m \in Readers |-> [pc |-> "idle"]]
    /\ untouched = [m \in Readers |-> {}]
    /\ issued = Existing(sections) \cup Existing(items) \cup Existing(combos)
    /\ calls = 0

Goes(r, q) ==
    /\ req' = [req EXCEPT ![r] = q]
    /\ UNCHANGED <<kind, tables, menu, untouched, issued, calls>>

(* shop and ownedBy: every edit begins by reading the shop.                *)
Begin(r) ==
    /\ req[r] = Idle
    /\ calls < MaxCalls /\ calls' = calls + 1
    /\ req' = [req EXCEPT ![r] = [pc |-> "shop", kind |-> kind]]
    /\ UNCHANGED <<kind, tables, menu, untouched, issued>>

(* A write ends its edit; entries it wrote are no longer untouched.        *)
Wrote(r, ids) ==
    /\ req' = [req EXCEPT ![r] = Idle]
    /\ untouched' = [m \in Readers |-> untouched[m] \ ids]
    /\ UNCHANGED <<kind, menu, calls>>

(* A check, a constraint of the tables or the database says no.            *)
Refuse(r) == req[r] # Idle /\ Goes(r, Idle)

-----------------------------------------------------------------------------
(* Sections.                                                               *)
ListSections(r) ==
    /\ req[r].pc = "shop"
    /\ Goes(r, [pc |-> "listed", kind |-> req[r].kind, count |-> Cardinality(Existing(sections))])

OneMoreSection(count) == count <= MaxCategories

RoomForASection(count) == count < MaxCategories

CreateCategory(r, c) ==
    /\ req[r].pc = "listed" /\ RoomForASection(req[r].count)
    /\ c \notin issued /\ issued' = issued \cup {c}
    /\ sections' = [sections EXCEPT ![c] = [active |-> TRUE]]
    /\ Wrote(r, {c})
    /\ UNCHANGED <<items, groups, combos, lines>>

LoadSection(r, c) ==
    /\ req[r].pc = "shop" /\ sections[c] # None
    /\ Goes(r, [pc |-> "section", kind |-> req[r].kind, id |-> c, row |-> sections[c]])

(* Update keeps the switch, SetActive sets it; a section that was removed  *)
(* meanwhile is inserted again.                                            *)
SaveCategory(r, active) ==
    /\ req[r].pc = "section"
    /\ sections' = [sections EXCEPT ![req[r].id] = [active |-> active]]
    /\ Wrote(r, {req[r].id})
    /\ UNCHANGED <<items, groups, combos, lines, issued>>

InSection(c) == {i \in Existing(items) : items[i].category = c}

CountItemsInCategory(r) ==
    /\ req[r].pc = "section" /\ InSection(req[r].id) = {}
    /\ Goes(r, [pc |-> "counted", kind |-> req[r].kind, id |-> req[r].id])

(* The count was its own statement; the items' foreign key counts again.   *)
DeleteCategory(r) ==
    /\ req[r].pc = "counted"
    /\ InSection(req[r].id) = {}
    /\ sections' = [sections EXCEPT ![req[r].id] = None]
    /\ Wrote(r, {req[r].id})
    /\ UNCHANGED <<items, groups, combos, lines, issued>>

-----------------------------------------------------------------------------
(* Items, one or, for a bulk edit, several.                                *)
LoadItems(r, I) ==
    /\ req[r].pc = "shop" /\ I # {} /\ I \subseteq Existing(items)
    /\ Goes(r, [pc |-> "items", kind |-> req[r].kind, category |-> None,
                rows |-> [i \in I |-> items[i]], groups |-> [i \in I |-> {}]])

(* attachOptions: the variant groups, then the add-on groups.              *)
GroupsOf(r, some) == [i \in DOMAIN req[r].rows |-> req[r].groups[i] \cup (groups[i] \cap some)]

LoadVariantGroups(r) ==
    /\ req[r].pc = "items"
    /\ Goes(r, [req[r] EXCEPT !.pc = "variants", !.groups = GroupsOf(r, Variants)])

LoadAddOnGroups(r) ==
    /\ req[r].pc = "variants"
    /\ Goes(r, [req[r] EXCEPT !.pc = "loaded", !.groups = GroupsOf(r, AddOns)])

(* categoryExists, for a new item or for an edit of one.                   *)
CheckCategory(r, c) ==
    /\ \/ /\ req[r].pc = "shop"
          /\ Goes(r, [pc |-> "checked", kind |-> req[r].kind, category |-> c,
                      rows |-> <<>>, groups |-> <<>>])
       \/ /\ req[r].pc = "loaded" /\ Cardinality(DOMAIN req[r].rows) = 1
          /\ Goes(r, [req[r] EXCEPT !.pc = "checked", !.category = c])
    /\ sections[c] # None

(* An upsert never changes the kind a row was first stored with.           *)
StoredKind(i, row) == IF items[i] = None THEN row.kind ELSE items[i].kind

PermissiveRow(i, row) == sections[row.category] # None

(* The foreign key on the section and the check on prescriptions.          *)
RowAllowed(i, row) ==
    /\ sections[row.category] # None
    /\ row.prescription => StoredKind(i, row) = "pharmacy"

(* writeItem of each row, then writeOptionGroups: what an item had is      *)
(* deleted and what the copy held is inserted.                             *)
WriteItem(rows) ==
    items' = [i \in Items |-> IF i \in DOMAIN rows
                              THEN [rows[i] EXCEPT !.kind = StoredKind(i, rows[i])]
                              ELSE items[i]]

WriteOptionGroups(choices) ==
    groups' = [i \in Items |-> IF i \in DOMAIN choices THEN choices[i] ELSE groups[i]]

(* SaveItems: one transaction, so one row refused refuses them all.        *)
SaveItems(r, rows, choices) ==
    /\ \A i \in DOMAIN rows : RowAllowed(i, rows[i])
    /\ WriteItem(rows)
    /\ WriteOptionGroups(choices)
    /\ Wrote(r, DOMAIN rows)
    /\ UNCHANGED <<sections, combos, lines>>

CreateItem(r, i, d) ==
    /\ req[r].pc = "checked" /\ DOMAIN req[r].rows = {}
    /\ i \notin issued /\ issued' = issued \cup {i}
    /\ d \in Draft(req[r].kind)
    /\ SaveItems(r, [j \in {i} |-> [category |-> req[r].category, kind |-> req[r].kind,
                         stock |-> d.stock, prescription |-> d.prescription,
                         active |-> TRUE, always |-> TRUE]],
                 [j \in {i} |-> {}])

(* Update: rebuilt for the kind the shop is now, and an edit that says     *)
(* nothing of the stock keeps what was read.                               *)
UpdateItem(r, d, keepStock) ==
    /\ req[r].pc = "checked" /\ DOMAIN req[r].rows # {}
    /\ d \in Draft(req[r].kind)
    /\ SaveItems(r, [i \in DOMAIN req[r].rows |->
                       [req[r].rows[i] EXCEPT !.category = req[r].category, !.kind = req[r].kind,
                          !.prescription = d.prescription,
                          !.stock = IF keepStock THEN @ ELSE d.stock]],
                 req[r].groups)
    /\ UNCHANGED issued

Loaded(r) == req[r].pc = "loaded"

One(r) == Loaded(r) /\ Cardinality(DOMAIN req[r].rows) = 1

(* SetActive, SetStock, SetAvailability of one item; BulkUpdate of many.   *)
SetActive(r, active) ==
    /\ Loaded(r)
    /\ SaveItems(r, [i \in DOMAIN req[r].rows |-> [req[r].rows[i] EXCEPT !.active = active]],
                 req[r].groups)
    /\ UNCHANGED issued

SetStock(r, stock) ==
    /\ Loaded(r) /\ stock # "uncounted"
    /\ \A i \in DOMAIN req[r].rows : stock \in StockOf(req[r].rows[i].kind)
    /\ SaveItems(r, [i \in DOMAIN req[r].rows |-> [req[r].rows[i] EXCEPT !.stock = stock]],
                 req[r].groups)
    /\ UNCHANGED issued

SetAvailability(r, always) ==
    /\ One(r)
    /\ SaveItems(r, [i \in DOMAIN req[r].rows |-> [req[r].rows[i] EXCEPT !.always = always]],
                 req[r].groups)
    /\ UNCHANGED issued

(* SetVariantGroups and SetAddOnGroups replace the groups of their sort.   *)
SetGroups(r, some, chosen) ==
    /\ One(r)
    /\ \A i \in DOMAIN req[r].rows :
         some = AddOns => Capabilities(req[r].rows[i].kind).addOns
    /\ SaveItems(r, req[r].rows, [i \in DOMAIN req[r].rows |-> (req[r].groups[i] \ some) \cup chosen])
    /\ UNCHANGED issued

(* Deleting an item takes its groups along; a combo's line holds it back.  *)
DeleteItem(r) ==
    /\ One(r)
    /\ LET I == DOMAIN req[r].rows IN
       /\ \A b \in Combos : lines[b] \cap I = {}
       /\ items' = [i \in Items |-> IF i \in I THEN None ELSE items[i]]
       /\ groups' = [i \in Items |-> IF i \in I THEN {} ELSE groups[i]]
       /\ Wrote(r, I)
    /\ UNCHANGED <<sections, combos, lines, issued>>

-----------------------------------------------------------------------------
(* Combos.                                                                 *)
LoadCombo(r, b) ==
    /\ req[r].pc = "shop" /\ combos[b] # None
    /\ Goes(r, [pc |-> "combo", kind |-> req[r].kind, id |-> b, row |-> combos[b], lines |-> {}])

AttachLines(r) ==
    /\ req[r].pc = "combo"
    /\ Goes(r, [req[r] EXCEPT !.pc = "lines", !.lines = lines[req[r].id]])

(* NewCombo and membersExist, for a new combo or for an edit of one.       *)
CheckMembers(r, I) ==
    /\ req[r].pc \in {"shop", "lines"} /\ Capabilities(req[r].kind).combos
    /\ Cardinality(I) >= MinComboLines /\ I \subseteq Existing(items)
    /\ \/ /\ req[r].pc = "shop"
          /\ Goes(r, [pc |-> "members", kind |-> req[r].kind, id |-> None,
                      row |-> [active |-> TRUE, always |-> TRUE], lines |-> I])
       \/ /\ req[r].pc = "lines"
          /\ Goes(r, [req[r] EXCEPT !.pc = "members", !.lines = I])

LinesUnchecked(I) == TRUE

LinesAllowed(I) == I \subseteq Existing(items)

SaveCombo(r, b, row, I) ==
    /\ LinesAllowed(I)
    /\ combos' = [combos EXCEPT ![b] = row]
    /\ lines' = [lines EXCEPT ![b] = I]
    /\ Wrote(r, {b})
    /\ UNCHANGED <<sections, items, groups>>

CreateCombo(r, b) ==
    /\ req[r].pc = "members" /\ req[r].id = None
    /\ b \notin issued /\ issued' = issued \cup {b}
    /\ SaveCombo(r, b, req[r].row, req[r].lines)

UpdateCombo(r) ==
    /\ req[r].pc = "members" /\ req[r].id # None
    /\ SaveCombo(r, req[r].id, req[r].row, req[r].lines)
    /\ UNCHANGED issued

(* SetActive and SetAvailability of a combo: no rule is looked at again.   *)
SetCombo(r, row) ==
    /\ req[r].pc = "lines"
    /\ SaveCombo(r, req[r].id, row, req[r].lines)
    /\ UNCHANGED issued

DeleteCombo(r) ==
    /\ req[r].pc = "lines"
    /\ combos' = [combos EXCEPT ![req[r].id] = None]
    /\ lines' = [lines EXCEPT ![req[r].id] = {}]
    /\ Wrote(r, {req[r].id})
    /\ UNCHANGED <<sections, items, groups, issued>>

(* The owner makes the shop another kind, in the merchant module.          *)
ShopChangesKind(t) ==
    /\ calls < MaxCalls /\ calls' = calls + 1
    /\ t # kind /\ kind' = t
    /\ UNCHANGED <<tables, req, menu, untouched, issued>>

(* The owner's routes: each decodes a body and calls its use case.         *)
CategoryRoutes(r) ==
    \/ ListSections(r) \/ CountItemsInCategory(r) \/ DeleteCategory(r)
    \/ \E c \in Categories : CreateCategory(r, c) \/ LoadSection(r, c)
    \/ \E active \in BOOLEAN : SaveCategory(r, active)

ItemRoutes(r) ==
    \/ \E c \in Categories : CheckCategory(r, c)
    \/ \E d \in UNION {Draft(t) : t \in Kinds} : \/ \E i \in Items : CreateItem(r, i, d)
                                                 \/ \E keep \in BOOLEAN : UpdateItem(r, d, keep)
    \/ \E always \in BOOLEAN : SetAvailability(r, always)
    \/ DeleteItem(r)

OptionRoutes(r) ==
    \/ \E chosen \in SUBSET Variants : SetGroups(r, Variants, chosen)
    \/ \E chosen \in SUBSET AddOns : SetGroups(r, AddOns, chosen)

BulkRoute(r) ==
    \/ \E I \in SUBSET Items : LoadItems(r, I)
    \/ \E active \in BOOLEAN : SetActive(r, active)
    \/ \E stock \in Stock : SetStock(r, stock)

ComboRoutes(r) ==
    \/ \E I \in SUBSET Items : CheckMembers(r, I)
    \/ \E b \in Combos : LoadCombo(r, b) \/ CreateCombo(r, b)
    \/ UpdateCombo(r) \/ DeleteCombo(r)
    \/ \E row \in Combo : SetCombo(r, row)

Edit(r) ==
    \/ Begin(r) \/ Refuse(r)
    \/ LoadVariantGroups(r) \/ LoadAddOnGroups(r) \/ AttachLines(r)
    \/ CategoryRoutes(r) \/ ItemRoutes(r) \/ OptionRoutes(r) \/ BulkRoute(r) \/ ComboRoutes(r)

-----------------------------------------------------------------------------
(* A customer's menu: sections, items, combos, then the combos' lines.     *)
Reads(m, q) ==
    /\ menu' = [menu EXCEPT ![m] = q]
    /\ UNCHANGED <<kind, tables, req, issued, calls>>

ReadSections(m) ==
    /\ menu[m].pc = "idle"
    /\ Reads(m, [pc |-> "sections", now |-> TRUE, items |-> {}, orderable |-> {}, combos |-> {},
                 sections |-> {c \in Existing(sections) : sections[c].active}])
    /\ untouched' = [untouched EXCEPT ![m] = Categories \cup Items \cup Combos]

(* Active items only; they are shown when their section is.                *)
ReadItems(m, now) ==
    /\ menu[m].pc = "sections"
    /\ LET active == {i \in Existing(items) : items[i].active} IN
       Reads(m, [menu[m] EXCEPT !.pc = "items", !.now = now,
                   !.items = {i \in active : items[i].category \in menu[m].sections},
                   !.orderable = {i \in active : Orderable(items[i], now)}])
    /\ UNCHANGED untouched

ReadCombos(m) ==
    /\ menu[m].pc = "items"
    /\ Reads(m, [menu[m] EXCEPT !.pc = "combos",
                   !.combos = {b \in Existing(combos) : ComboOrderable(combos[b], menu[m].now)}])
    /\ UNCHANGED untouched

CombosByThemselves(m) == menu[m].combos

(* toContractCombo: a combo is orderable when every line's item is.        *)
OrderableCombos(m) == {b \in menu[m].combos : lines[b] \subseteq menu[m].orderable}

ReadLines(m) ==
    /\ menu[m].pc = "combos"
    /\ Reads(m, [menu[m] EXCEPT !.pc = "answered", !.combos = OrderableCombos(m)])
    /\ UNCHANGED untouched

Leave(m) ==
    /\ menu[m].pc = "answered"
    /\ Reads(m, [pc |-> "idle"])
    /\ untouched' = [untouched EXCEPT ![m] = {}]

PublicRoutes(m) ==
    \/ ReadSections(m) \/ ReadCombos(m) \/ ReadLines(m) \/ Leave(m)
    \/ \E now \in BOOLEAN : ReadItems(m, now)

Next ==
    \/ \E r \in Requests : Edit(r)
    \/ \E t \in Kinds : ShopChangesKind(t)
    \/ \E m \in Readers : PublicRoutes(m)

Spec == Init /\ [][Next]_vars

-----------------------------------------------------------------------------
(* Every table holds what its columns allow and, however edits and         *)
(* deletions interleave, an item lies in a section that                    *)
(* exists, a combo sells only items that exist, and only an item that      *)
(* exists has choices (categories.go, Delete; combos.go, membersExist).    *)
MenuIsWhole ==
    /\ TypeOK
    /\ \A i \in Existing(items) : sections[items[i].category] # None
    /\ \A b \in Combos : lines[b] \subseteq Existing(items)
    /\ \A b \in Combos : lines[b] # {} => combos[b] # None
    /\ \A i \in Items : groups[i] # {} => items[i] # None

(* A shop that changes its kind while old copies of its items are written  *)
(* back never holds a prescription item that was not a pharmacy's from the *)
(* start (item.go, validateAttributes; the check of the table).            *)
PrescriptionsOnlyFromPharmacies ==
    \A i \in Existing(items) : items[i].prescription => items[i].kind = "pharmacy"

(* The limit on sections is looked at before the write; edits in flight    *)
(* exceed it by no more than one each (categories.go, 55-62).              *)
SectionsNearTheLimit ==
    Cardinality(Existing(sections)) <= MaxCategories + Cardinality(Requests) - 1

(* A menu read while its owner edits it shows of the entries nobody wrote  *)
(* exactly those on sale, none of a hidden section, and offers a combo     *)
(* exactly when all it sells can be ordered (service.go, 36-87, 157-201).  *)
MenuShowsWhatStood ==
    \A m \in Readers : menu[m].pc = "answered" =>
        LET still == untouched[m]
            shown == menu[m]
        IN  /\ \A i \in still \cap Existing(items) : items[i].category \in still =>
                 (i \in shown.items <=> items[i].active /\ sections[items[i].category].active)
            /\ \A b \in still \cap Existing(combos) : lines[b] \subseteq still =>
                 (b \in shown.combos <=>
                    /\ ComboOrderable(combos[b], shown.now)
                    /\ \A i \in lines[b] : Orderable(items[i], shown.now))

(* However many options a group has, one the shop was allowed to define can *)
(* be chosen from in the cart (options.go; cart, resolve.go).  Looked at in *)
(* the first states only: no step changes it.                               *)
GroupsCanBeChosen == calls = 0 => EveryGroupCanBeChosen

(* combo.go, ErrEmptyCombo: a combo needs at least two items.  A switch    *)
(* flipped while the combo is deleted may store it again without lines.    *)
CombosKeepTwoItems ==
    \A b \in Existing(combos) : Cardinality(lines[b]) >= MinComboLines

(* items.go, Update: an edit is validated by the rules a creation is.  The *)
(* row of a shop that has changed its kind keeps the old kind beside it.   *)
ItemsObeyTheirKind == \A i \in Existing(items) : items[i].stock \in StockOf(items[i].kind)

(* A deleted item stays deleted.  The save of an older copy inserts it.    *)
DeletedStaysDeleted ==
    [][\A i \in Items \cap issued : items[i] = None => items'[i] = None]_vars
=============================================================================
