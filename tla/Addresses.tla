----------------------------- MODULE Addresses ------------------------------
(***************************************************************************)
(* The address books.  Every change reads the whole book, works on the     *)
(* copy, and writes the copy back row by row in one transaction; a         *)
(* deletion deletes its row in a statement of its own before that.  Other  *)
(* requests run between the read, the deletion and the write.              *)
(***************************************************************************)
EXTENDS Naturals, Sequences, SequencesExt

CONSTANTS
    Users,
    Devices,        \* requests in flight at once
    Ids,            \* address ids, each minted once
    Pins,           \* map locations
    AreaOf,         \* the area geo resolves a pin to, or NoArea
    NoArea,
    MaxAddresses    \* maxAddressesPerUser

ASSUME MaxAddressesAssumption == MaxAddresses \in Nat \ {0}
ASSUME AreaOfAssumption == DOMAIN AreaOf = Pins

VARIABLES
    table,      \* user_addresses, in the order of created_at
    typed,      \* the ids minted so far, with the user who typed the address
    device      \* what each request in flight holds

addressesVars == <<table, typed, device>>

Address == [id : Ids, user : Users, pin : Pins, area : {AreaOf[p] : p \in Pins},
            default : BOOLEAN]

Away == [at |-> "away"]

AddressesInit ==
    /\ table = <<>>
    /\ typed = [a \in {} |-> {}]
    /\ device = [d \in Devices |-> Away]

-----------------------------------------------------------------------------
(* The rows of a set among these, in their order.                          *)
Among(rows, kept) ==
    LET f[i \in 0 .. Len(rows)] ==
          IF i = 0 THEN <<>>
          ELSE IF rows[i] \in kept THEN Append(f[i - 1], rows[i]) ELSE f[i - 1]
    IN  f[Len(rows)]

(* Addresses: one user's, oldest first.                                    *)
Book(u) == Among(table, {a \in ToSet(table) : a.user = u})

Without(rows, u, id) == Among(rows, {a \in ToSet(rows) : a.user # u \/ a.id # id})

IdsIn(book) == {book[i].id : i \in DOMAIN book}

Defaults(book) == {a \in ToSet(book) : a.default}

promote(book, id) ==
    [i \in DOMAIN book |-> [book[i] EXCEPT !.default = book[i].id = id]]

(* The first of several defaults, or else the newest address.              *)
ChooseDefault(book) ==
    LET marked == {i \in DOMAIN book : book[i].default}
        chosen == IF marked = {} THEN Len(book)
                  ELSE CHOOSE i \in marked : \A j \in marked : i <= j
    IN  [i \in DOMAIN book |-> [book[i] EXCEPT !.default = i = chosen]]

Promoted(book, id, wanted) == ChooseDefault(IF wanted THEN promote(book, id) ELSE book)

(* build and place: a new address, or an edited one, at a pin that geo     *)
(* finds an area for.                                                      *)
Placed(id, u, p, wanted) ==
    [id |-> id, user |-> u, pin |-> p, area |-> AreaOf[p], default |-> wanted]

-----------------------------------------------------------------------------
Saving(u, book) == [at |-> "saving", user |-> u, book |-> book]

(* Add: refused for a full book and for a pin outside every area.          *)
AddAddress(d, u, id, p, wanted) ==
    LET book == Book(u)
        first == wanted \/ book = <<>> IN
    /\ device[d] = Away
    /\ Len(book) < MaxAddresses
    /\ id \notin DOMAIN typed
    /\ AreaOf[p] # NoArea
    /\ typed' = [x \in DOMAIN typed \cup {id} |-> IF x = id THEN u ELSE typed[x]]
    /\ device' = [device EXCEPT ![d] =
                    Saving(u, Promoted(Append(book, Placed(id, u, p, first)), id, first))]
    /\ UNCHANGED table

(* Update keeps a default a default.                                       *)
UpdateAddress(d, u, id, p, wanted) ==
    LET book == Book(u) IN
    /\ device[d] = Away
    /\ AreaOf[p] # NoArea
    /\ \E i \in DOMAIN book :
         LET stays == book[i].default \/ wanted IN
         /\ book[i].id = id
         /\ device' = [device EXCEPT ![d] =
                         Saving(u, Promoted([book EXCEPT ![i] = Placed(id, u, p, stays)],
                                            id, stays))]
    /\ UNCHANGED <<table, typed>>

SetDefault(d, u, id) ==
    /\ device[d] = Away
    /\ id \in IdsIn(Book(u))
    /\ device' = [device EXCEPT ![d] = Saving(u, Promoted(Book(u), id, TRUE))]
    /\ UNCHANGED <<table, typed>>

(* Delete: found in the copy, then deleted in the table,                   *)
BeginDelete(d, u, id) ==
    /\ device[d] = Away
    /\ id \in IdsIn(Book(u))
    /\ device' = [device EXCEPT ![d] =
                    [at |-> "deleting", user |-> u, id |-> id,
                     book |-> Without(Book(u), u, id)]]
    /\ UNCHANGED <<table, typed>>

(* and the rest of the copy, if there is any, saved with a default.        *)
DeleteAddress(d) ==
    LET k == device[d] IN
    /\ k.at = "deleting"
    /\ table' = Without(table, k.user, k.id)
    /\ device' = [device EXCEPT ![d] =
                    IF k.book = <<>> THEN Away ELSE Saving(k.user, ChooseDefault(k.book))]
    /\ UNCHANGED typed

-----------------------------------------------------------------------------
(* SaveAddresses.  Its first statement clears the default rows that are    *)
(* committed when it starts; it may have to wait for another transaction   *)
(* that holds one of them, and then still clears only those.               *)
ClearDefaults(d) ==
    LET k == device[d] IN
    /\ k.at = "saving"
    /\ device' = [device EXCEPT ![d] =
                    [at |-> "writing", user |-> k.user, book |-> k.book,
                     cleared |-> {a.id : a \in Defaults(Book(k.user))}]]
    /\ UNCHANGED <<table, typed>>

Cleared(ids) ==
    [i \in DOMAIN table |->
        [table[i] EXCEPT !.default = table[i].default /\ table[i].id \notin ids]]

(* One INSERT .. ON CONFLICT (id) DO UPDATE: the owner of a row that is    *)
(* there already stays.                                                    *)
Upsert(rows, a) ==
    IF a.id \in IdsIn(rows)
    THEN [i \in DOMAIN rows |->
            IF rows[i].id = a.id THEN [a EXCEPT !.user = rows[i].user] ELSE rows[i]]
    ELSE Append(rows, a)

OneDefaultIn(rows) ==
    \A i, j \in DOMAIN rows :
        (rows[i].default /\ rows[j].default /\ rows[i].user = rows[j].user) => i = j

(* The rows after each statement of the transaction.                       *)
Rows(k) ==
    LET f[i \in 0 .. Len(k.book)] ==
          IF i = 0 THEN Cleared(k.cleared) ELSE Upsert(f[i - 1], k.book[i])
    IN  f

SaveWithoutTheIndex(d) ==
    LET k == device[d] IN
    /\ k.at = "writing"
    /\ table' = Rows(k)[Len(k.book)]
    /\ device' = [device EXCEPT ![d] = Away]
    /\ UNCHANGED typed

SaveAsTheWholeBook(d) ==
    LET k == device[d] IN
    /\ k.at = "writing"
    /\ table' = SelectSeq(table, LAMBDA a : a.user # k.user) \o k.book
    /\ device' = [device EXCEPT ![d] = Away]
    /\ UNCHANGED typed

(* The other statements and the commit.  The index on defaults is checked  *)
(* after each; a statement that breaks it rolls everything back.           *)
SaveAddresses(d) ==
    LET k == device[d]
        rows == Rows(k) IN
    /\ k.at = "writing"
    /\ table' = IF \A i \in DOMAIN rows : OneDefaultIn(rows[i])
                THEN rows[Len(k.book)] ELSE table
    /\ device' = [device EXCEPT ![d] = Away]
    /\ UNCHANGED typed

(* The database is away, or the request is cut short.                      *)
DeviceEnds(d) ==
    /\ device[d] # Away
    /\ device' = [device EXCEPT ![d] = Away]
    /\ UNCHANGED <<table, typed>>

AddressesNext ==
    \E d \in Devices :
      \/ \E u \in Users, id \in Ids :
           \/ \E p \in Pins, wanted \in BOOLEAN :
                AddAddress(d, u, id, p, wanted) \/ UpdateAddress(d, u, id, p, wanted)
           \/ SetDefault(d, u, id) \/ BeginDelete(d, u, id)
      \/ DeleteAddress(d) \/ ClearDefaults(d) \/ SaveAddresses(d) \/ DeviceEnds(d)

AddressesSpec == AddressesInit /\ [][AddressesNext]_addressesVars

-----------------------------------------------------------------------------
(* Whatever saves overwrite each other: an id is one row, in the book of   *)
(* the user who typed it, in an area geo found; and no book has two        *)
(* defaults.                                                               *)
BooksAreSound ==
    /\ \A i, j \in DOMAIN table : table[i].id = table[j].id => i = j
    /\ \A a \in ToSet(table) :
         /\ a \in Address
         /\ a.id \in DOMAIN typed /\ a.user = typed[a.id]
         /\ a.area # NoArea
    /\ OneDefaultIn(table)

(* "Quietly losing one is worse than saying the book is full": an address  *)
(* leaves the book only by a request to delete it, never because a copy    *)
(* that does not know of it was written over the book.                     *)
NoAddressIsLost ==
    [][\A a \in IdsIn(table) \ IdsIn(table') :
         \E d \in Devices : device[d].at = "deleting" /\ device[d].id = a]_addressesVars

(* "A customer who has any addresses has exactly one default, always."     *)
(* Stated only for a moment at which no request is under way; still, a     *)
(* deletion cut short after its first statement leaves a book without      *)
(* one, and so does one whose copy was older than the book.                *)
BooksHaveADefault ==
    (\A d \in Devices : device[d] = Away) =>
        \A u \in Users : Book(u) # <<>> => Defaults(Book(u)) # {}

(* "The address book is capped at twenty."  Refuted: a copy read before    *)
(* deletions brings the deleted addresses back beside those added since.   *)
BooksAreCapped == \A u \in Users : Len(Book(u)) <= MaxAddresses

=============================================================================
