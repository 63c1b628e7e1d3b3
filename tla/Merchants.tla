------------------------------ MODULE Merchants ------------------------------
(***************************************************************************)
(* Shops as their owners and the admins change them.  Every request reads  *)
(* the shop's row and its papers in two statements and writes both back    *)
(* whole in one transaction; the search index of the geo module and the    *)
(* audit trail are written after it, each on its own.  A request may end   *)
(* between any two of these.                                               *)
(***************************************************************************)
EXTENDS MerchantTable, Geo

CONSTANTS
    Shops,      \* ids a registration may be given
    Owners,     \* accounts
    Requests,   \* requests in flight
    Types,      \* the kinds of shop this instance registers
    Kinds,      \* the papers this instance follows
    Ends,       \* how holidays end in this instance
    Pins,       \* places on the map
    Divisions,  \* the divisions and their boundaries
    MaxCalls,   \* bound: requests started
    None

ASSUME TablesAssumption == Types \subseteq Type /\ Kinds \subseteq DocumentKind
                           /\ Ends \subseteq Holiday \ {"none"}
ASSUME OwnersAssumption == None \notin Owners
ASSUME MaxCallsAssumption == MaxCalls \in Nat
ASSUME DivisionsAssumption == \A d \in Divisions : IsPolygon(d.boundary)

VARIABLES
    shops,      \* merchants
    papers,     \* merchant_documents
    index,      \* geo_merchant_locations
    audit,      \* merchant_status_events, the newest of each shop
    req,        \* what each request holds in its memory
    issued,     \* ids given out so far
    admitted,   \* shops an admin's approval has been written for
    calm,       \* no two requests have overlapped and none has ended half way
    calls       \* requests started

vars == <<shops, papers, index, audit, req, issued, admitted, calm, calls>>

(* place: the division a pin lies in, or None.                             *)
DivisionAt == [p \in Pins |-> DivisionContaining(Divisions, p, None)]

Served == {DivisionAt[p] : p \in Pins} \ {None}

NoShop == [status |-> "none", owner |-> None]
NoPoint == [active |-> FALSE, pin |-> None, division |-> None]
NoEvent == [from |-> None, to |-> None]
Idle == [pc |-> "idle"]

Row == [owner : Owners, type : Types, status : Status, pin : Pins,
        division : Served, holiday : Holiday]

OwnersMoves == {"update", "document", "submit", "hours", "holiday", "reopen", "withdraw"}

(* The admin's four routes and what each one decides.                      *)
Decision == [approve |-> "approved", reject |-> "rejected", suspend |-> "suspended",
             reinstate |-> "approved"]

Request ==
    {Idle} \cup
    [pc : {"row", "read", "saved", "placed", "removed"},
     op : {"any", "register"} \cup OwnersMoves \cup DOMAIN Decision,
     shop : Shops, row : Row, papers : SUBSET Kinds, from : Status]

TypeOK ==
    /\ shops \in [Shops -> Row \cup {NoShop}]
    /\ papers \in [Shops -> SUBSET Kinds]
    /\ index \in [Shops -> {NoPoint} \cup
                      [active : BOOLEAN, pin : Pins, division : Served]]
    /\ audit \in [Shops -> {NoEvent} \cup [from : Status, to : Status]]
    /\ req \in [Requests -> Request]
    /\ issued \subseteq Shops /\ admitted \subseteq issued
    /\ calm \in BOOLEAN /\ calls \in 0..MaxCalls

(* What the index holds of a shop: whether it may be found, and where.     *)
Published(row) == [active |-> row.status = "approved", pin |-> row.pin, division |-> row.division]

(* Shops as requests that came one at a time and ran to their end leave    *)
(* them: in draft, under review or trading, with their papers and their    *)
(* point in the index.                                                     *)
Standing ==
    {row \in Row : /\ row.division = DivisionAt[row.pin]
                   /\ row.status \in {"draft", "pending_review", "approved"} /\ row.holiday = "none"}

Known == {s \in Shops : shops[s] # NoShop}

Submitted == {s \in Known : shops[s].status # "draft"}

Trading == {s \in Known : shops[s].status = "approved"}

Init ==
    /\ shops \in [Shops -> Standing \cup {NoShop}]
    /\ \A s, t \in Known : shops[s].owner = shops[t].owner => s = t
    /\ papers = [s \in Shops |-> IF s \in Submitted
                                 THEN Kinds \cap RequiredDocuments(shops[s].type) ELSE {}]
    /\ index = [s \in Shops |-> IF s \in Known THEN Published(shops[s]) ELSE NoPoint]
    /\ audit = [s \in Shops |->
                   IF s \in Trading THEN [from |-> "pending_review", to |-> "approved"]
                   ELSE IF s \in Submitted THEN [from |-> "draft", to |-> "pending_review"]
                   ELSE NoEvent]
    /\ req = [r \in Requests |-> Idle]
    /\ issued = Known
    /\ admitted = Trading
    /\ calm = TRUE
    /\ calls = 0

-----------------------------------------------------------------------------
Owned(o) == {s \in Shops : shops[s].owner = o}

(* A request starts; the history notes whether it is the only one.         *)
Begin(r, q) ==
    /\ req[r] = Idle
    /\ calls < MaxCalls /\ calls' = calls + 1
    /\ req' = [req EXCEPT ![r] = q]
    /\ calm' = (calm /\ \A t \in Requests : req[t] = Idle)

(* Register, up to the write: ByOwner finds nothing, the details pass,     *)
(* and the pin lies in a division.                                         *)
Register(r, o, s, t, p) ==
    /\ Owned(o) = {}
    /\ DivisionAt[p] # None
    /\ s \notin issued
    /\ issued' = issued \cup {s}
    /\ Begin(r, [pc |-> "read", op |-> "register", shop |-> s, papers |-> {}, from |-> "draft",
                 row |-> [owner |-> o, type |-> t, status |-> "draft", pin |-> p,
                          division |-> DivisionAt[p], holiday |-> "none"]])
    /\ UNCHANGED <<shops, papers, index, audit, admitted>>

(* The insert: the unique owner lets one registration in.                  *)
CreateAllowed(r) == Owned(req[r].row.owner) = {}

Create(r) ==
    /\ req[r].pc = "read" /\ req[r].op = "register"
    /\ LET s == req[r].shop IN
       /\ CreateAllowed(r)
       /\ shops' = [shops EXCEPT ![s] = req[r].row]
       /\ req' = [req EXCEPT ![r].pc = "saved"]
    /\ UNCHANGED <<papers, index, audit, issued, admitted, calm, calls>>

(* ByOwner or Merchant: the row, in one statement, the same for every      *)
(* request; what it came for shows in what it does with it.                *)
ReadRow(r, s) ==
    /\ shops[s] # NoShop
    /\ Begin(r, [pc |-> "row", op |-> "any", shop |-> s, row |-> shops[s], papers |-> {},
                 from |-> shops[s].status])
    /\ UNCHANGED <<shops, papers, index, audit, issued, admitted>>

(* ...and the papers in the next.                                          *)
ReadPapers(r) ==
    /\ req[r].pc = "row"
    /\ req' = [req EXCEPT ![r].pc = "read", ![r].papers = papers[req[r].shop]]
    /\ UNCHANGED <<shops, papers, index, audit, issued, admitted, calm, calls>>

(* writeMerchant and writeDocuments: the row is inserted if it is gone,    *)
(* unless its owner has another, and the papers become exactly the copy's. *)
Save(r, op, row, kinds) ==
    LET s == req[r].shop IN
    /\ Owned(row.owner) \subseteq {s}
    /\ shops' = [shops EXCEPT ![s] = row]
    /\ papers' = [papers EXCEPT ![s] = kinds]
    /\ req' = [req EXCEPT ![r].pc = "saved", ![r].op = op, ![r].row = row, ![r].papers = {}]
    /\ UNCHANGED <<index, audit, issued, calm, calls>>

Reading(r) == req[r].pc = "read" /\ req[r].op = "any"

Update(r, t, p) ==
    /\ Reading(r)
    /\ req[r].row.status # "pending_review"
    /\ DivisionAt[p] # None
    /\ Save(r, "update", [req[r].row EXCEPT !.type = t, !.pin = p, !.division = DivisionAt[p]], req[r].papers)
    /\ UNCHANGED admitted

AddDocument(r, k) ==
    /\ Reading(r)
    /\ req[r].row.status # "pending_review"
    /\ RequiresDocument(req[r].row.type, k)
    /\ Save(r, "document", req[r].row, req[r].papers \cup {k})
    /\ UNCHANGED admitted

SubmitForReview(r) ==
    /\ Reading(r)
    /\ ReadyForReview(req[r].row, req[r].papers \cup (DocumentKind \ Kinds))
    /\ "pending_review" \in NextStatuses(req[r].row.status)
    /\ Save(r, "submit", [req[r].row EXCEPT !.status = "pending_review"], req[r].papers)
    /\ UNCHANGED admitted

(* Opening hours are not followed: the save of everything else is.         *)
SetHours(r) ==
    /\ Reading(r)
    /\ Save(r, "hours", req[r].row, req[r].papers)
    /\ UNCHANGED admitted

StartHoliday(r, h) ==
    /\ Reading(r)
    /\ NewHoliday(h, FALSE)
    /\ Save(r, "holiday", [req[r].row EXCEPT !.holiday = h], req[r].papers)
    /\ UNCHANGED admitted

EndHoliday(r) ==
    /\ Reading(r)
    /\ Save(r, "reopen", [req[r].row EXCEPT !.holiday = "none"], req[r].papers)
    /\ UNCHANGED admitted

(* decide, up to its first write.                                          *)
Decide(r, op) ==
    /\ Reading(r)
    /\ Decision[op] \in NextStatuses(req[r].row.status)
    /\ Save(r, op, [req[r].row EXCEPT !.status = Decision[op]], req[r].papers)
    /\ admitted' = IF Decision[op] = "approved" THEN admitted \cup {req[r].shop} ELSE admitted

(* Any of the checks says no.                                              *)
Refuse(r) ==
    /\ req[r].pc = "read"
    /\ req' = [req EXCEPT ![r] = Idle]
    /\ UNCHANGED <<shops, papers, index, audit, issued, admitted, calm, calls>>

-----------------------------------------------------------------------------
PublishesDecisions(op) == op \in {"register"} \cup DOMAIN Decision

Publishes(op) == op \in {"register", "update"} \cup DOMAIN Decision

Audits(op) == op \in {"submit"} \cup DOMAIN Decision

PlaceForAll(r) ==
    /\ req[r].pc = "saved" /\ Publishes(req[r].op)
    /\ index' = [index EXCEPT ![req[r].shop] = [Published(req[r].row) EXCEPT !.active = TRUE]]
    /\ req' = [req EXCEPT ![r] = IF Audits(req[r].op) THEN [@ EXCEPT !.pc = "placed"] ELSE Idle]
    /\ UNCHANGED <<shops, papers, audit, issued, admitted, calm, calls>>

(* PlaceMerchant, after the row.                                           *)
PlaceMerchant(r) ==
    /\ req[r].pc = "saved" /\ Publishes(req[r].op)
    /\ index' = [index EXCEPT ![req[r].shop] = Published(req[r].row)]
    /\ req' = [req EXCEPT ![r] = IF Audits(req[r].op) THEN [@ EXCEPT !.pc = "placed"] ELSE Idle]
    /\ UNCHANGED <<shops, papers, audit, issued, admitted, calm, calls>>

(* RecordStatusChange, last.                                               *)
RecordStatusChange(r) ==
    /\ req[r].pc \in {"saved", "placed"}
    /\ Audits(req[r].op)
    /\ req[r].pc = IF Publishes(req[r].op) THEN "placed" ELSE "saved"
    /\ shops[req[r].shop] # NoShop
    /\ audit' = [audit EXCEPT ![req[r].shop] = [from |-> req[r].from, to |-> req[r].row.status]]
    /\ req' = [req EXCEPT ![r] = Idle]
    /\ UNCHANGED <<shops, papers, index, issued, admitted, calm, calls>>

(* The owner's other edits end with the save.                              *)
Answer(r) ==
    /\ req[r].pc = "saved" /\ ~Publishes(req[r].op) /\ ~Audits(req[r].op)
    /\ req' = [req EXCEPT ![r] = Idle]
    /\ UNCHANGED <<shops, papers, index, audit, issued, admitted, calm, calls>>

WithdrawFrom == {"draft", "rejected"}

(* Withdraw: the point first...                                            *)
RemoveMerchant(r) ==
    /\ Reading(r)
    /\ req[r].row.status \in WithdrawFrom
    /\ index' = [index EXCEPT ![req[r].shop] = NoPoint]
    /\ req' = [req EXCEPT ![r].pc = "removed", ![r].op = "withdraw"]
    /\ UNCHANGED <<shops, papers, audit, issued, admitted, calm, calls>>

(* ...then the row; its papers and its history go with it.                 *)
Delete(r) ==
    /\ req[r].pc = "removed"
    /\ shops' = [shops EXCEPT ![req[r].shop] = NoShop]
    /\ papers' = [papers EXCEPT ![req[r].shop] = {}]
    /\ audit' = [audit EXCEPT ![req[r].shop] = NoEvent]
    /\ req' = [req EXCEPT ![r] = Idle]
    /\ UNCHANGED <<index, issued, admitted, calm, calls>>

(* A statement fails, or the process dies: the request ends where it is.   *)
Die(r) ==
    /\ req[r].pc \in {"row", "read", "saved", "placed", "removed"}
    /\ req' = [req EXCEPT ![r] = Idle]
    /\ calm' = (calm /\ req[r].pc \in {"row", "read"})
    /\ UNCHANGED <<shops, papers, index, audit, issued, admitted, calls>>

Handle(r) ==
    \/ \E o \in Owners, s \in Shops, t \in Types, p \in Pins : Register(r, o, s, t, p)
    \/ \E s \in Shops : ReadRow(r, s)
    \/ Create(r) \/ ReadPapers(r)
    \/ \E t \in Types, p \in Pins : Update(r, t, p)
    \/ \E k \in Kinds : AddDocument(r, k)
    \/ \E h \in Ends : StartHoliday(r, h)
    \/ \E op \in DOMAIN Decision : Decide(r, op)
    \/ SubmitForReview(r) \/ SetHours(r) \/ EndHoliday(r)
    \/ PlaceMerchant(r) \/ RecordStatusChange(r) \/ Answer(r)
    \/ RemoveMerchant(r) \/ Delete(r)
    \/ Refuse(r) \/ Die(r)

Next == \E r \in Requests : Handle(r)

Spec == Init /\ [][Next]_vars

-----------------------------------------------------------------------------
Quiet == \A r \in Requests : req[r] = Idle

(* Two registrations racing for one account, or a save that brings a       *)
(* withdrawn shop back beside its owner's next one, never leave an owner   *)
(* with two shops (registration.go, Register; the unique owner_user_id).   *)
OneShopEach == \A o \in Owners : Cardinality(Owned(o)) <= 1

(* However old the copy an owner or an admin writes back, a shop stands as *)
(* approved or suspended, or can be found, only if an admin has approved   *)
(* that very shop (moderation.go, decide; registration.go, publish).       *)
NobodyIsListedUnseen ==
    \A s \in Shops :
        shops[s].status \in {"approved", "suspended"} \/ index[s].active => s \in admitted

(* Requests one at a time and none cut short leave the index saying of     *)
(* every shop what its row says, nothing of a withdrawn one, and the trail *)
(* holding the decision each shop stands by.                               *)
IndexAndTrailAgree ==
    calm /\ Quiet =>
        \A s \in Shops :
            /\ index[s] = IF shops[s] = NoShop THEN NoPoint ELSE Published(shops[s])
            /\ shops[s].status \in Status \ {"draft"} =>
                   audit[s].to = shops[s].status

(* moderation.go, 92-96: the two must not disagree silently and for good;  *)
(* a decision reported as failed can be made again.                        *)
FailedDecisionsCanBeRepeated ==
    Quiet => \A s \in Shops :
        shops[s].status = "suspended" /\ index[s].active =>
            \E op \in DOMAIN Decision :
                Decision[op] = "suspended" /\ "suspended" \in NextStatuses(shops[s].status)

(* registration.go, 95-98: what is decided on is what was shown.  A save   *)
(* of an older copy may change the details of a shop under review.         *)
ReviewedDetailsStand ==
    [][\A s \in Shops :
         shops[s].status = "pending_review" /\ shops'[s].status \in {"pending_review", "approved"}
             => shops'[s].type = shops[s].type /\ shops'[s].pin = shops[s].pin]_vars

(* RequiredDocuments: no shop trades without the papers of its kind.  An   *)
(* approved shop may change its kind and stays approved.                   *)
ListedShopsHaveTheirPapers ==
    \A s \in Shops : shops[s].status = "approved" =>
        MissingDocuments(shops[s].type, papers[s]) \cap Kinds = {}
=============================================================================
