--------------------------- MODULE MerchantsProofs --------------------------
(***************************************************************************)
(* For any shops, owners, places and concurrent requests, each cut short   *)
(* anywhere: an owner has one shop, nothing is found that no admin has     *)
(* approved, and requests one at a time leave index and trail in step.     *)
(***************************************************************************)
EXTENDS Discovery, SequenceTheorems, FiniteSetTheorems, TLAPS

(* Ids are given out once, to shops that are there and to requests alike.  *)
IdsAreIssued ==
    /\ Known \subseteq issued
    /\ \A r \in Requests : req[r] # Idle => req[r].shop \in issued

OwnersApart ==
    \A s, t \in Shops : shops[s].owner = shops[t].owner /\ shops[s].owner \in Owners => s = t

(* A copy that says approved or suspended is of a shop that was approved.  *)
CopiesAreAdmitted ==
    \A r \in Requests :
        req[r] # Idle /\ req[r].row.status \in {"approved", "suspended"} => req[r].shop \in admitted

SafeInv == TypeOK /\ IdsAreIssued /\ OwnersApart /\ CopiesAreAdmitted /\ NobodyIsListedUnseen

-----------------------------------------------------------------------------
(* What a request may be and what becomes of it.                           *)
Active == [pc : {"row", "read", "saved", "placed", "removed"},
           op : {"any", "register"} \cup OwnersMoves \cup DOMAIN Decision,
           shop : Shops, row : Row, papers : SUBSET Kinds, from : Status]

(* A request under way has the fields of one.                              *)
LEMMA ActiveRequest ==
    ASSUME TypeOK, NEW r \in Requests, req[r] # Idle
    PROVE  req[r] \in Active /\ req[r].row \in Row /\ req[r].shop \in Shops
BY DEF TypeOK, Request, Active

(* Idle has no fields but one.                                             *)
LEMMA IdleOrActive ==
    ASSUME TypeOK, NEW r \in Requests, req[r].pc # "idle"
    PROVE  req[r] # Idle
BY DEF Idle

(* A place that lies in a division lies in one that is served.             *)
LEMMA ServedPlace ==
    ASSUME NEW p \in Pins, DivisionAt[p] # None
    PROVE  DivisionAt[p] \in Served
BY DEF Served

(* Any decision is a status an admin may set.                              *)
LEMMA DecisionsAreStatuses ==
    ASSUME NEW op \in DOMAIN Decision
    PROVE  /\ Decision[op] \in {"approved", "rejected", "suspended"}
           /\ op \in {"approve", "reject", "suspend", "reinstate"}
BY DEF Decision

(* A shop is suspended from being approved only.                           *)
LEMMA SuspendedFromApproved ==
    ASSUME NEW s \in Status, "suspended" \in NextStatuses(s)
    PROVE  s = "approved"
BY DEF NextStatuses, Status

(* Saving a copy under its own owner keeps owners apart.                   *)
LEMMA OwnersStayApart ==
    ASSUME OwnersApart, TypeOK, NEW s \in Shops, NEW row \in Row, Owned(row.owner) \subseteq {s},
           shops' = [shops EXCEPT ![s] = row]
    PROVE  OwnersApart'
BY DEF OwnersApart, TypeOK, Owned, Row

(* The save of a copy whose status is its shop's due keeps it all.         *)
LEMMA SaveKeeps ==
    ASSUME SafeInv, NEW r \in Requests, req[r] # Idle,
           NEW op \in OwnersMoves \cup DOMAIN Decision, NEW row \in Row, NEW kinds \in SUBSET Kinds,
           Save(r, op, row, kinds), admitted \subseteq admitted', admitted' \subseteq issued,
           row.status \in {"approved", "suspended"} => req[r].shop \in admitted'
    PROVE  SafeInv'
<1> USE DEF SafeInv
<1>1. /\ shops' = [shops EXCEPT ![req[r].shop] = row]
      /\ papers' = [papers EXCEPT ![req[r].shop] = kinds]
      /\ req' = [req EXCEPT ![r] = [req[r] EXCEPT !.pc = "saved", !.op = op, !.row = row, !.papers = {}]]
      /\ UNCHANGED <<index, audit, issued, calm, calls>>
      /\ Owned(row.owner) \subseteq {req[r].shop}
  BY DEF Save
<1>2. req[r] \in Active /\ req[r].shop \in Shops
  BY ActiveRequest
<1>3. [req[r] EXCEPT !.pc = "saved", !.op = op, !.row = row, !.papers = {}] \in Active
  BY <1>2 DEF Active
<1>4. TypeOK'
  BY <1>1, <1>2, <1>3 DEF TypeOK, Active, Request
<1>5. IdsAreIssued'
  BY <1>1, <1>2, <1>3 DEF IdsAreIssued, Known, TypeOK, Active
<1>6. OwnersApart'
  BY <1>1, <1>2, OwnersStayApart
<1>7. CopiesAreAdmitted'
  BY <1>1, <1>2, <1>3 DEF CopiesAreAdmitted, TypeOK, Active
<1>8. NobodyIsListedUnseen'
  BY <1>1, <1>2 DEF NobodyIsListedUnseen, TypeOK
<1> QED
  BY <1>4, <1>5, <1>6, <1>7, <1>8

(* The shops a behaviour begins with have been approved, or are not found. *)
LEMMA InitSafe == Init => SafeInv
<1> SUFFICES ASSUME Init PROVE SafeInv
  OBVIOUS
<1>1. \A s \in Shops : shops[s] \in Row \cup {NoShop}
  BY DEF Init, Standing
<1>2. TypeOK
  <2>1. shops \in [Shops -> Row \cup {NoShop}]
    BY DEF Init, Standing
  <2>2. papers \in [Shops -> SUBSET Kinds]
    BY DEF Init
  <2>3. index \in [Shops -> {NoPoint} \cup [active : BOOLEAN, pin : Pins, division : Served]]
    <3>1. \A s \in Known : Published(shops[s]) \in [active : BOOLEAN, pin : Pins, division : Served]
      BY <1>1 DEF Known, Published, Row
    <3> QED BY <3>1 DEF Init
  <2>4. audit \in [Shops -> {NoEvent} \cup [from : Status, to : Status]]
    BY DEF Init, Status
  <2>5. /\ req \in [Requests -> Request]
        /\ issued \subseteq Shops /\ admitted \subseteq issued
        /\ calm \in BOOLEAN /\ calls \in 0..MaxCalls
    BY MaxCallsAssumption DEF Init, Request, Known, Trading
  <2> QED BY <2>1, <2>2, <2>3, <2>4, <2>5 DEF TypeOK
<1>3. IdsAreIssued
  BY DEF Init, IdsAreIssued
<1>4. OwnersApart
  BY <1>1, OwnersAssumption DEF Init, OwnersApart, Known, NoShop
<1>5. CopiesAreAdmitted
  BY DEF Init, CopiesAreAdmitted
<1>6. NobodyIsListedUnseen
  <2>1. \A s \in Known : shops[s].status \in {"draft", "pending_review", "approved"}
    BY DEF Init, Known, Standing
  <2>2. ASSUME NEW s \in Shops, s \notin Known
        PROVE  shops[s].status = "none" /\ ~index[s].active
    BY <2>2 DEF Init, Known, NoShop, NoPoint
  <2>3. ASSUME NEW s \in Known
        PROVE  index[s].active <=> shops[s].status = "approved"
    BY DEF Init, Known, Published
  <2> QED BY <2>1, <2>2, <2>3 DEF Init, NobodyIsListedUnseen, Trading, Known
<1> QED
  BY <1>2, <1>3, <1>4, <1>5, <1>6 DEF SafeInv

(* A request that starts with a copy of a shop, or goes on with one, and   *)
(* changes nothing else.                                                   *)
LEMMA GoingOn ==
    ASSUME SafeInv, NEW r \in Requests, NEW q \in Request,
           req' = [req EXCEPT ![r] = q],
           q # Idle => /\ q.shop \in issued'
                       /\ q.row.status \in {"approved", "suspended"} => q.shop \in admitted,
           issued \subseteq issued', issued' \subseteq Shops, calm' \in BOOLEAN, calls' \in 0..MaxCalls,
           UNCHANGED <<shops, papers, index, audit, admitted>>
    PROVE  SafeInv'
<1> USE DEF SafeInv
<1>1. TypeOK'
  BY DEF TypeOK
<1>2. IdsAreIssued'
  BY DEF IdsAreIssued, Known, TypeOK
<1>3. OwnersApart' /\ NobodyIsListedUnseen'
  BY DEF OwnersApart, NobodyIsListedUnseen
<1>4. CopiesAreAdmitted'
  BY DEF CopiesAreAdmitted, TypeOK
<1> QED
  BY <1>1, <1>2, <1>3, <1>4

(* Every request keeps what the shops and its copies rely on.              *)
LEMMA HandleKeeps ==
    ASSUME SafeInv, NEW r \in Requests, Handle(r)
    PROVE  SafeInv'
<1> USE DEF SafeInv
<1>0. /\ req \in [Requests -> Request] /\ issued \subseteq Shops /\ calm \in BOOLEAN
      /\ calls \in 0..MaxCalls /\ admitted \subseteq issued
  BY DEF TypeOK
<1>1. ASSUME NEW o \in Owners, NEW s \in Shops, NEW t \in Types, NEW p \in Pins, Register(r, o, s, t, p)
      PROVE  SafeInv'
  <2> DEFINE row == [owner |-> o, type |-> t, status |-> "draft", pin |-> p,
                     division |-> DivisionAt[p], holiday |-> "none"]
             q == [pc |-> "read", op |-> "register", shop |-> s, papers |-> {}, from |-> "draft",
                   row |-> row]
  <2>1. row \in Row
    BY <1>1, ServedPlace, TablesAssumption DEF Register, Row, Status, Holiday
  <2>2. q \in Request
    BY <2>1 DEF Request, Status
  <2> HIDE DEF row
  <2>3. /\ req' = [req EXCEPT ![r] = q] /\ issued' = issued \cup {s}
        /\ calm' \in BOOLEAN /\ calls' \in 0..MaxCalls
        /\ UNCHANGED <<shops, papers, index, audit, admitted>>
    BY <1>0, <1>1, MaxCallsAssumption DEF Register, Begin, row
  <2>4. q.row.status = "draft" /\ q.shop \in issued'
    BY <2>3 DEF row
  <2> HIDE DEF q
  <2> QED
    BY <1>0, <2>2, <2>3, <2>4, GoingOn
<1>2. ASSUME NEW s \in Shops, ReadRow(r, s) PROVE SafeInv'
  <2> DEFINE q == [pc |-> "row", op |-> "any", shop |-> s, row |-> shops[s], papers |-> {},
                   from |-> shops[s].status]
  <2>1. shops[s] \in Row /\ s \in issued
    BY <1>2 DEF ReadRow, TypeOK, IdsAreIssued, Known
  <2>2. q \in Request
    BY <2>1 DEF Request, Row
  <2>3. /\ req' = [req EXCEPT ![r] = q] /\ issued' = issued
        /\ calm' \in BOOLEAN /\ calls' \in 0..MaxCalls
        /\ UNCHANGED <<shops, papers, index, audit, admitted>>
    BY <1>0, <1>2, MaxCallsAssumption DEF ReadRow, Begin
  <2>4. /\ q.shop \in issued'
        /\ q.row.status \in {"approved", "suspended"} => q.shop \in admitted
    BY <2>1, <2>3 DEF NobodyIsListedUnseen
  <2> HIDE DEF q
  <2> QED
    BY <1>0, <2>2, <2>3, <2>4, GoingOn
<1>3. CASE Create(r)
  <2>1. req[r] \in Active /\ req[r].row \in Row /\ req[r].shop \in Shops /\ req[r] # Idle
    BY <1>3, ActiveRequest, IdleOrActive DEF Create
  <2> DEFINE s == req[r].shop
  <2>2. /\ shops' = [shops EXCEPT ![s] = req[r].row]
        /\ req' = [req EXCEPT ![r] = [req[r] EXCEPT !.pc = "saved"]]
        /\ Owned(req[r].row.owner) \subseteq {s}
        /\ UNCHANGED <<papers, index, audit, issued, admitted, calm, calls>>
    BY <1>3 DEF Create, CreateAllowed
  <2>3. [req[r] EXCEPT !.pc = "saved"] \in Active
    BY <2>1 DEF Active
  <2>4. TypeOK'
    BY <2>1, <2>2, <2>3 DEF TypeOK, Active, Request
  <2>5. IdsAreIssued'
    BY <2>1, <2>2, <2>3 DEF IdsAreIssued, Known, TypeOK, Active
  <2>6. OwnersApart'
    BY <2>1, <2>2, OwnersStayApart
  <2>7. CopiesAreAdmitted'
    BY <2>1, <2>2, <2>3 DEF CopiesAreAdmitted, TypeOK, Active
  <2>8. NobodyIsListedUnseen'
    BY <2>1, <2>2 DEF NobodyIsListedUnseen, TypeOK, CopiesAreAdmitted
  <2> QED
    BY <2>4, <2>5, <2>6, <2>7, <2>8
<1>4. CASE ReadPapers(r)
  <2>1. req[r] \in Active /\ req[r].shop \in Shops /\ req[r] # Idle
    BY <1>4, ActiveRequest, IdleOrActive DEF ReadPapers
  <2> DEFINE q == [req[r] EXCEPT !.pc = "read", !.papers = papers[req[r].shop]]
  <2>2. q \in Request /\ q.shop = req[r].shop /\ q.row = req[r].row
    BY <2>1 DEF Active, Request, TypeOK
  <2>3. /\ req' = [req EXCEPT ![r] = q]
        /\ UNCHANGED <<shops, papers, index, audit, issued, admitted, calm, calls>>
    BY <1>4 DEF ReadPapers
  <2>4. /\ q.shop \in issued'
        /\ q.row.status \in {"approved", "suspended"} => q.shop \in admitted
    BY <2>1, <2>2, <2>3 DEF IdsAreIssued, CopiesAreAdmitted
  <2> HIDE DEF q
  <2> QED
    BY <1>0, <2>2, <2>3, <2>4, GoingOn
<1>5. ASSUME NEW op \in OwnersMoves \cup DOMAIN Decision, NEW row \in Row, NEW kinds \in SUBSET Kinds,
             Reading(r), Save(r, op, row, kinds), UNCHANGED admitted,
             row.status \in {"pending_review", req[r].row.status, "rejected"}
      PROVE  SafeInv'
  <2>1. req[r] # Idle
    BY <1>5, IdleOrActive DEF Reading
  <2>2. row.status \in {"approved", "suspended"} => req[r].shop \in admitted'
    BY <1>5, <2>1 DEF CopiesAreAdmitted
  <2> QED
    BY <1>0, <1>5, <2>1, <2>2, SaveKeeps
<1>6. ASSUME Reading(r)
      PROVE  /\ req[r] # Idle /\ req[r].row \in Row /\ req[r].papers \in SUBSET Kinds
             /\ req[r].shop \in issued
  BY <1>6, ActiveRequest, IdleOrActive DEF Reading, Active, IdsAreIssued
<1>7. ASSUME NEW t \in Types, NEW p \in Pins, Update(r, t, p) PROVE SafeInv'
  <2> DEFINE row == [req[r].row EXCEPT !.type = t, !.pin = p, !.division = DivisionAt[p]]
  <2>1. Reading(r) /\ Save(r, "update", row, req[r].papers) /\ UNCHANGED admitted
    BY <1>7 DEF Update
  <2>2. row \in Row /\ row.status = req[r].row.status
    BY <1>6, <1>7, <2>1, ServedPlace, TablesAssumption DEF Row, Update
  <2> HIDE DEF row
  <2> QED
    BY <1>5, <1>6, <2>1, <2>2 DEF OwnersMoves
<1>8. ASSUME NEW k \in Kinds, AddDocument(r, k) PROVE SafeInv'
  <2>1. /\ Reading(r) /\ Save(r, "document", req[r].row, req[r].papers \cup {k})
        /\ UNCHANGED admitted
    BY <1>8 DEF AddDocument
  <2> QED
    BY <1>5, <1>6, <2>1 DEF OwnersMoves
<1>9. CASE SubmitForReview(r)
  <2> DEFINE row == [req[r].row EXCEPT !.status = "pending_review"]
  <2>1. Reading(r) /\ Save(r, "submit", row, req[r].papers) /\ UNCHANGED admitted
    BY <1>9 DEF SubmitForReview
  <2>2. row \in Row /\ row.status = "pending_review"
    BY <1>6, <2>1 DEF Row, Status
  <2> HIDE DEF row
  <2> QED
    BY <1>5, <1>6, <2>1, <2>2 DEF OwnersMoves
<1>10. CASE SetHours(r)
  BY <1>5, <1>6, <1>10 DEF SetHours, OwnersMoves
<1>11. ASSUME NEW h \in Ends, StartHoliday(r, h) PROVE SafeInv'
  <2> DEFINE row == [req[r].row EXCEPT !.holiday = h]
  <2>1. Reading(r) /\ Save(r, "holiday", row, req[r].papers) /\ UNCHANGED admitted
    BY <1>11 DEF StartHoliday
  <2>2. row \in Row /\ row.status = req[r].row.status
    BY <1>6, <2>1, TablesAssumption DEF Row
  <2> HIDE DEF row
  <2> QED
    BY <1>5, <1>6, <2>1, <2>2 DEF OwnersMoves
<1>12. CASE EndHoliday(r)
  <2> DEFINE row == [req[r].row EXCEPT !.holiday = "none"]
  <2>1. Reading(r) /\ Save(r, "reopen", row, req[r].papers) /\ UNCHANGED admitted
    BY <1>12 DEF EndHoliday
  <2>2. row \in Row /\ row.status = req[r].row.status
    BY <1>6, <2>1 DEF Row, Holiday
  <2> HIDE DEF row
  <2> QED
    BY <1>5, <1>6, <2>1, <2>2 DEF OwnersMoves
<1>13. ASSUME NEW op \in DOMAIN Decision, Decide(r, op) PROVE SafeInv'
  <2> DEFINE row == [req[r].row EXCEPT !.status = Decision[op]]
  <2>1. /\ Reading(r) /\ Save(r, op, row, req[r].papers)
        /\ Decision[op] \in NextStatuses(req[r].row.status)
        /\ admitted' = IF Decision[op] = "approved" THEN admitted \cup {req[r].shop} ELSE admitted
    BY <1>13 DEF Decide
  <2>2. row \in Row /\ row.status = Decision[op]
    BY <1>6, <2>1, DecisionsAreStatuses DEF Row, Status
  <2>3. Decision[op] = "suspended" => req[r].shop \in admitted
    BY <1>6, <2>1, SuspendedFromApproved DEF CopiesAreAdmitted, Row
  <2>4. row.status \in {"approved", "suspended"} => req[r].shop \in admitted'
    BY <2>1, <2>2, <2>3
  <2>5. admitted \subseteq admitted' /\ admitted' \subseteq issued
    BY <1>0, <1>6, <2>1
  <2> HIDE DEF row
  <2> QED
    BY <1>6, <2>1, <2>2, <2>4, <2>5, SaveKeeps
<1>15. CASE Refuse(r) \/ Die(r) \/ Answer(r)
  <2>1. /\ req' = [req EXCEPT ![r] = Idle] /\ calm' \in BOOLEAN
        /\ UNCHANGED <<shops, papers, index, audit, issued, admitted, calls>>
    BY <1>0, <1>15 DEF Refuse, Die, Answer
  <2>2. Idle \in Request
    BY DEF Request
  <2> QED
    BY <1>0, <2>1, <2>2, GoingOn
<1>16. CASE PlaceMerchant(r)
  <2>1. req[r] \in Active /\ req[r].row \in Row /\ req[r].shop \in Shops /\ req[r] # Idle
    BY <1>16, ActiveRequest, IdleOrActive DEF PlaceMerchant
  <2> DEFINE q == IF Audits(req[r].op) THEN [req[r] EXCEPT !.pc = "placed"] ELSE Idle
             point == Published(req[r].row)
  <2>2. /\ index' = [index EXCEPT ![req[r].shop] = point]
        /\ req' = [req EXCEPT ![r] = q]
        /\ UNCHANGED <<shops, papers, audit, issued, admitted, calm, calls>>
    BY <1>16 DEF PlaceMerchant
  <2>3. /\ q \in Request
        /\ q # Idle => q.shop = req[r].shop /\ q.row = req[r].row
    BY <2>1 DEF Request, Active
  <2>4. /\ point \in [active : BOOLEAN, pin : Pins, division : Served]
        /\ point.active => req[r].shop \in admitted
    BY <2>1 DEF Published, Row, CopiesAreAdmitted
  <2> HIDE DEF q, point
  <2>5. TypeOK'
    BY <2>1, <2>2, <2>3, <2>4 DEF TypeOK
  <2>6. IdsAreIssued' /\ CopiesAreAdmitted'
    BY <1>0, <2>1, <2>2, <2>3 DEF IdsAreIssued, CopiesAreAdmitted, Known
  <2>7. OwnersApart' /\ NobodyIsListedUnseen'
    BY <2>1, <2>2, <2>4 DEF OwnersApart, NobodyIsListedUnseen, TypeOK
  <2> QED
    BY <2>5, <2>6, <2>7
<1>17. CASE RecordStatusChange(r)
  <2>1. req[r] \in Active /\ req[r].row \in Row /\ req[r].shop \in Shops
    BY <1>17, ActiveRequest, IdleOrActive DEF RecordStatusChange
  <2>2. /\ audit' = [audit EXCEPT ![req[r].shop] = [from |-> req[r].from, to |-> req[r].row.status]]
        /\ req' = [req EXCEPT ![r] = Idle]
        /\ UNCHANGED <<shops, papers, index, issued, admitted, calm, calls>>
    BY <1>17 DEF RecordStatusChange
  <2>3. TypeOK'
    BY <2>1, <2>2 DEF TypeOK, Active, Row, Request
  <2>4. IdsAreIssued' /\ CopiesAreAdmitted' /\ OwnersApart' /\ NobodyIsListedUnseen'
    BY <1>0, <2>2 DEF IdsAreIssued, CopiesAreAdmitted, Known, OwnersApart, NobodyIsListedUnseen
  <2> QED
    BY <2>3, <2>4
<1>18. CASE RemoveMerchant(r)
  <2>1. req[r] \in Active /\ req[r].row \in Row /\ req[r].shop \in Shops /\ req[r] # Idle
    BY <1>18, ActiveRequest, IdleOrActive DEF RemoveMerchant, Reading
  <2> DEFINE q == [req[r] EXCEPT !.pc = "removed", !.op = "withdraw"]
  <2>2. /\ index' = [index EXCEPT ![req[r].shop] = NoPoint]
        /\ req' = [req EXCEPT ![r] = q]
        /\ UNCHANGED <<shops, papers, audit, issued, admitted, calm, calls>>
    BY <1>18 DEF RemoveMerchant
  <2>3. q \in Request /\ q.shop = req[r].shop /\ q.row = req[r].row
    BY <2>1 DEF Request, Active, OwnersMoves
  <2> HIDE DEF q
  <2>4. TypeOK'
    BY <2>1, <2>2, <2>3 DEF TypeOK
  <2>5. IdsAreIssued' /\ CopiesAreAdmitted'
    BY <1>0, <2>1, <2>2, <2>3 DEF IdsAreIssued, CopiesAreAdmitted, Known
  <2>6. OwnersApart' /\ NobodyIsListedUnseen'
    BY <2>1, <2>2 DEF OwnersApart, NobodyIsListedUnseen, TypeOK, NoPoint
  <2> QED
    BY <2>4, <2>5, <2>6
<1>19. CASE Delete(r)
  <2>1. req[r].shop \in Shops /\ req[r] # Idle
    BY <1>19, ActiveRequest, IdleOrActive DEF Delete
  <2>2. /\ shops' = [shops EXCEPT ![req[r].shop] = NoShop]
        /\ papers' = [papers EXCEPT ![req[r].shop] = {}]
        /\ audit' = [audit EXCEPT ![req[r].shop] = NoEvent]
        /\ req' = [req EXCEPT ![r] = Idle]
        /\ UNCHANGED <<index, issued, admitted, calm, calls>>
    BY <1>19 DEF Delete
  <2>3. TypeOK'
    BY <2>1, <2>2 DEF TypeOK, Request
  <2>4. IdsAreIssued' /\ CopiesAreAdmitted'
    BY <1>0, <2>1, <2>2 DEF IdsAreIssued, CopiesAreAdmitted, Known, TypeOK
  <2>5. OwnersApart' /\ NobodyIsListedUnseen'
    BY <2>1, <2>2, OwnersAssumption DEF OwnersApart, NobodyIsListedUnseen, TypeOK, NoShop
  <2> QED
    BY <2>3, <2>4, <2>5
<1> QED
  BY <1>1, <1>2, <1>3, <1>4, <1>7, <1>8, <1>9, <1>10, <1>11, <1>12, <1>13, <1>15, <1>16, <1>17, <1>18, <1>19
     DEF Handle

LEMMA StutterSafe ==
    ASSUME SafeInv, UNCHANGED vars
    PROVE  SafeInv'
BY DEF SafeInv, TypeOK, IdsAreIssued, OwnersApart, CopiesAreAdmitted, NobodyIsListedUnseen, Known, vars

LEMMA Safe == Spec => []SafeInv
<1>1. SafeInv /\ [Next]_vars => SafeInv'
  BY HandleKeeps, StutterSafe DEF Next
<1> QED
  BY <1>1, InitSafe, PTL DEF Spec

-----------------------------------------------------------------------------
(* One request at a time: what it has written and what it has yet to.      *)
Working(r) == req[r] # Idle

PointDue(s) ==
    \E r \in Requests : /\ Working(r) /\ req[r].shop = s
                        /\ req[r].pc = "removed" \/ (req[r].pc = "saved" /\ Publishes(req[r].op))

EventDue(s) ==
    \E r \in Requests : /\ Working(r) /\ req[r].shop = s
                        /\ req[r].pc \in {"saved", "placed"} /\ Audits(req[r].op)

PointTrue(s) == index[s] = IF shops[s] = NoShop THEN NoPoint ELSE Published(shops[s])

EventTrue(s) == shops[s].status \in Status \ {"draft"} => audit[s].to = shops[s].status

(* The copy is the row's: as read, or as saved.                            *)
Faithful(r) ==
    /\ req[r].pc \in {"row", "read"} /\ req[r].op = "any" => req[r].row = shops[req[r].shop]
    /\ req[r].pc \in {"saved", "placed"} => req[r].row = shops[req[r].shop]
    /\ req[r].pc = "row" => req[r].op = "any"
    /\ req[r].pc = "read" /\ req[r].op = "register" => req[r].row.status = "draft"
    /\ req[r].pc = "removed" => index[req[r].shop] = NoPoint

Orderly ==
    /\ \A r, t \in Requests : Working(r) /\ Working(t) => r = t
    /\ \A r \in Requests : Working(r) => Faithful(r)
    /\ \A s \in Shops : PointDue(s) \/ PointTrue(s)
    /\ \A s \in Shops : EventDue(s) \/ EventTrue(s)

CalmInv == calm => Orderly

(* Between one request and the next nothing is due.                        *)
LEMMA QuietAgrees ==
    ASSUME TypeOK, CalmInv
    PROVE  IndexAndTrailAgree
BY DEF CalmInv, Orderly, IndexAndTrailAgree, Quiet, PointDue, EventDue, PointTrue, EventTrue, Working

LEMMA InitCalm == Init => CalmInv
<1> SUFFICES ASSUME Init PROVE Orderly
  BY DEF CalmInv
<1>1. \A r \in Requests : ~Working(r)
  BY DEF Init, Working
<1>2. \A s \in Shops : PointTrue(s)
  BY DEF Init, PointTrue, Known
<1>3. ASSUME NEW s \in Shops PROVE EventTrue(s)
  <2>1. CASE s \notin Known
    BY <2>1 DEF EventTrue, Known, NoShop, Status
  <2>2. CASE s \in Trading
    BY <2>2 DEF Init, EventTrue, Trading
  <2>3. CASE s \in Known \ Trading
    <3>1. shops[s].status \in {"draft", "pending_review"}
      BY <2>3 DEF Init, Known, Trading, Standing
    <3> QED BY <2>3, <3>1 DEF Init, EventTrue, Submitted
  <2> QED BY <2>1, <2>2, <2>3 DEF Trading
<1> QED
  BY <1>1, <1>2, <1>3 DEF Orderly

(* What the step of the only request at work has to show.                  *)
LEMMA OneAtWork ==
    ASSUME NEW r \in Requests, req \in [Requests -> Request], req' \in [Requests -> Request],
           \A t \in Requests \ {r} : req'[t] = Idle,
           req'[r] # Idle => Faithful(r)',
           NEW S \in SUBSET Shops,
           \A s \in Shops \ S : PointTrue(s)' /\ EventTrue(s)',
           \A s \in S :
             /\ \/ PointTrue(s)'
                \/ /\ req'[r] # Idle /\ req'[r].shop = s
                   /\ req'[r].pc = "removed" \/ (req'[r].pc = "saved" /\ Publishes(req'[r].op))
             /\ \/ EventTrue(s)'
                \/ /\ req'[r] # Idle /\ req'[r].shop = s
                   /\ req'[r].pc \in {"saved", "placed"} /\ Audits(req'[r].op)
    PROVE  Orderly'
BY DEF Orderly, Working, PointDue, EventDue

(* A copy written back while nobody else is at work.                       *)
LEMMA SaveInOrder ==
    ASSUME TypeOK, TypeOK', Orderly, NEW r \in Requests, Reading(r), NEW op \in OwnersMoves \cup DOMAIN Decision,
           NEW row \in Row, NEW kinds \in SUBSET Kinds, Save(r, op, row, kinds),
           \A t \in Requests \ {r} : req[t] = Idle,
           ~Publishes(op) => Published(row) = Published(req[r].row),
           ~Audits(op) => row.status = req[r].row.status
    PROVE  Orderly'
<1>1. /\ req[r] # Idle /\ req[r] \in Active /\ req[r].shop \in Shops
      /\ req[r].pc = "read" /\ req[r].op = "any"
  BY ActiveRequest, IdleOrActive DEF Reading
<1>0. PICK s \in Shops : s = req[r].shop
  BY <1>1
<1> DEFINE q == [req[r] EXCEPT !.pc = "saved", !.op = op, !.row = row, !.papers = {}]
<1>2. /\ shops' = [shops EXCEPT ![s] = row] /\ req' = [req EXCEPT ![r] = q]
      /\ UNCHANGED <<index, audit>>
  BY <1>0 DEF Save
<1>3. q # Idle /\ q.pc = "saved" /\ q.op = op /\ q.row = row /\ q.shop = s
  BY <1>0, <1>1 DEF Active, Idle
<1> HIDE DEF q
<1>4. req'[r] = q /\ shops'[s] = row /\ \A t \in Shops \ {s} : shops'[t] = shops[t]
  BY <1>1, <1>2 DEF TypeOK
<1>5. req[r].row = shops[s]
  BY <1>0, <1>1 DEF Orderly, Working, Faithful
<1>6. \A t \in Shops : PointTrue(t) /\ EventTrue(t)
  BY <1>1 DEF Orderly, PointDue, EventDue, Working
<1>7. Faithful(r)'
  BY <1>3, <1>4 DEF Faithful
<1>8. \A t \in Shops \ {s} : PointTrue(t)' /\ EventTrue(t)'
  BY <1>2, <1>4, <1>6 DEF PointTrue, EventTrue
<1>9. row # NoShop /\ req[r].row \in Row /\ req[r].row # NoShop
  BY ActiveRequest, <1>1 DEF Row, NoShop, Status
<1>10. ~Publishes(op) => PointTrue(s)'
  BY <1>1, <1>2, <1>4, <1>5, <1>6, <1>9 DEF PointTrue
<1>11. ~Audits(op) => EventTrue(s)'
  BY <1>1, <1>2, <1>4, <1>5, <1>6 DEF EventTrue
<1>12. \A t \in Requests \ {r} : req'[t] = Idle
  BY <1>2 DEF TypeOK
<1>13. {s} \in SUBSET Shops /\ req \in [Requests -> Request] /\ req' \in [Requests -> Request]
  BY <1>1 DEF TypeOK
<1> QED
  BY <1>3, <1>4, <1>7, <1>8, <1>10, <1>11, <1>12, <1>13, OneAtWork

(* Statements that change one request and neither row, point nor trail.    *)
LEMMA OnlyTheRequest ==
    ASSUME TypeOK, TypeOK', Orderly, NEW r \in Requests, NEW q \in Request,
           \A t \in Requests \ {r} : req[t] = Idle,
           req' = [req EXCEPT ![r] = q], UNCHANGED <<shops, index, audit>>,
           req[r] = Idle \/ req[r].pc \in {"row", "read"}
             \/ (req[r].pc = "saved" /\ ~Publishes(req[r].op) /\ ~Audits(req[r].op)),
           q # Idle => Faithful(r)'
    PROVE  Orderly'
<1>1. \A t \in Shops : PointTrue(t) /\ EventTrue(t)
  BY DEF Orderly, PointDue, EventDue, Working
<1>2. \A t \in Shops : PointTrue(t)' /\ EventTrue(t)'
  BY <1>1 DEF PointTrue, EventTrue
<1>3. /\ req \in [Requests -> Request] /\ req' \in [Requests -> Request]
      /\ req'[r] = q /\ \A t \in Requests \ {r} : req'[t] = Idle
  BY DEF TypeOK
<1>4. {} \in SUBSET Shops
  OBVIOUS
<1> QED
  BY <1>2, <1>3, <1>4, OneAtWork

(* One request's step while no other is at work.                           *)
LEMMA HandleInOrder ==
    ASSUME SafeInv, SafeInv', Orderly, NEW r \in Requests, Handle(r),
           \A t \in Requests \ {r} : req[t] = Idle, calm'
    PROVE  Orderly'
<1>0. TypeOK /\ TypeOK' /\ req \in [Requests -> Request] /\ req' \in [Requests -> Request]
  BY DEF SafeInv, TypeOK
<1>1. ASSUME NEW o \in Owners, NEW s \in Shops, NEW t \in Types, NEW p \in Pins, Register(r, o, s, t, p)
      PROVE  Orderly'
  <2> DEFINE q == [pc |-> "read", op |-> "register", shop |-> s, papers |-> {}, from |-> "draft",
                   row |-> [owner |-> o, type |-> t, status |-> "draft", pin |-> p,
                            division |-> DivisionAt[p], holiday |-> "none"]]
  <2>1. /\ req' = [req EXCEPT ![r] = q] /\ q.pc = "read" /\ q.op = "register"
        /\ q.row.status = "draft"
    BY <1>1 DEF Register, Begin
  <2> HIDE DEF q
  <2>2. req[r] = Idle /\ UNCHANGED <<shops, index, audit>>
    BY <1>1 DEF Register, Begin
  <2>3. req'[r] = q /\ q \in Request
    BY <1>0, <2>1
  <2>4. Faithful(r)'
    BY <2>1, <2>3 DEF Faithful
  <2> QED
    BY <1>0, <2>1, <2>2, <2>3, <2>4, OnlyTheRequest
<1>2. ASSUME NEW s \in Shops, ReadRow(r, s) PROVE Orderly'
  <2> DEFINE q == [pc |-> "row", op |-> "any", shop |-> s, row |-> shops[s], papers |-> {},
                   from |-> shops[s].status]
  <2>1. /\ req' = [req EXCEPT ![r] = q] /\ q.pc = "row" /\ q.op = "any"
        /\ q.row = shops[s] /\ q.shop = s
    BY <1>2 DEF ReadRow, Begin
  <2> HIDE DEF q
  <2>2. req[r] = Idle /\ UNCHANGED <<shops, index, audit>>
    BY <1>2 DEF ReadRow, Begin
  <2>3. req'[r] = q /\ q \in Request
    BY <1>0, <2>1
  <2>4. Faithful(r)'
    BY <2>1, <2>2, <2>3 DEF Faithful
  <2> QED
    BY <1>0, <2>1, <2>2, <2>3, <2>4, OnlyTheRequest
<1>3. CASE Create(r)
  <2>1. req[r] \in Active /\ req[r].row \in Row /\ req[r].shop \in Shops /\ req[r] # Idle
    BY <1>0, <1>3, ActiveRequest, IdleOrActive DEF Create
  <2>2. PICK s \in Shops : s = req[r].shop
    BY <2>1
  <2> DEFINE q == [req[r] EXCEPT !.pc = "saved"]
  <2>3. /\ q \in Active /\ q.pc = "saved" /\ q.op = "register"
        /\ q.row = req[r].row /\ q.shop = s
    BY <1>3, <2>1, <2>2 DEF Active, Create
  <2>4. /\ shops' = [shops EXCEPT ![s] = req[r].row] /\ req' = [req EXCEPT ![r] = q]
        /\ UNCHANGED <<index, audit>> /\ req[r].pc = "read" /\ req[r].op = "register"
    BY <1>3, <2>2, <2>3 DEF Create
  <2> HIDE DEF q
  <2>5. /\ req'[r] = q /\ shops'[s] = req[r].row
        /\ \A t \in Shops \ {s} : shops'[t] = shops[t]
        /\ \A t \in Requests \ {r} : req'[t] = Idle
    BY <1>0, <2>4 DEF TypeOK
  <2>6. \A t \in Shops : PointTrue(t) /\ EventTrue(t)
    BY <2>1, <2>4 DEF Orderly, PointDue, EventDue, Working
  <2>7. Faithful(r)' /\ q # Idle
    BY <2>3, <2>5 DEF Faithful, Active, Idle
  <2>8. \A t \in Shops \ {s} : PointTrue(t)' /\ EventTrue(t)'
    BY <2>4, <2>5, <2>6 DEF PointTrue, EventTrue
  <2>9. req[r].row.status = "draft"
    BY <2>1, <2>4 DEF Orderly, Working, Faithful
  <2>10. EventTrue(s)' /\ Publishes("register")
    BY <2>5, <2>9 DEF EventTrue, Publishes
  <2>11. {s} \in SUBSET Shops
    OBVIOUS
  <2> QED
    BY <1>0, <2>3, <2>5, <2>7, <2>8, <2>10, <2>11, OneAtWork
<1>4. CASE ReadPapers(r)
  <2>1. req[r] \in Active /\ req[r] # Idle /\ req[r].pc = "row"
    BY <1>0, <1>4, ActiveRequest, IdleOrActive DEF ReadPapers
  <2> DEFINE q == [req[r] EXCEPT !.pc = "read", !.papers = papers[req[r].shop]]
  <2>2. /\ req' = [req EXCEPT ![r] = q] /\ q.pc = "read" /\ q.op = req[r].op
        /\ q.row = req[r].row /\ q.shop = req[r].shop
    BY <1>4, <2>1 DEF ReadPapers, Active
  <2> HIDE DEF q
  <2>3. UNCHANGED <<shops, index, audit>>
    BY <1>4 DEF ReadPapers
  <2>4. req'[r] = q /\ q \in Request
    BY <1>0, <2>2
  <2>5. req[r].op = "any" /\ req[r].row = shops[req[r].shop]
    BY <2>1 DEF Orderly, Working, Faithful
  <2>6. Faithful(r)'
    BY <2>2, <2>3, <2>4, <2>5 DEF Faithful
  <2> QED
    BY <1>0, <2>1, <2>2, <2>3, <2>4, <2>6, OnlyTheRequest
<1>5. ASSUME Reading(r)
      PROVE  /\ req[r] # Idle /\ req[r].row \in Row /\ req[r].papers \in SUBSET Kinds
             /\ req[r].shop \in Shops
  BY <1>0, <1>5, ActiveRequest, IdleOrActive DEF Reading, Active
<1>6. ASSUME NEW op \in OwnersMoves \cup DOMAIN Decision, NEW row \in Row, NEW kinds \in SUBSET Kinds,
             Reading(r), Save(r, op, row, kinds),
             ~Publishes(op) => Published(row) = Published(req[r].row),
             ~Audits(op) => row.status = req[r].row.status
      PROVE  Orderly'
  BY <1>0, <1>6, SaveInOrder
<1>7. ASSUME NEW t \in Types, NEW p \in Pins, Update(r, t, p) PROVE Orderly'
  <2> DEFINE row == [req[r].row EXCEPT !.type = t, !.pin = p, !.division = DivisionAt[p]]
  <2>1. /\ Reading(r) /\ Save(r, "update", row, req[r].papers) /\ DivisionAt[p] # None
    BY <1>7 DEF Update
  <2>2. row \in Row /\ row.status = req[r].row.status
    BY <1>5, <2>1, ServedPlace, TablesAssumption DEF Row
  <2> HIDE DEF row
  <2> QED
    BY <1>5, <1>6, <2>1, <2>2 DEF OwnersMoves, Publishes
<1>8. ASSUME NEW k \in Kinds, AddDocument(r, k) PROVE Orderly'
  <2>1. Reading(r) /\ Save(r, "document", req[r].row, req[r].papers \cup {k})
    BY <1>8 DEF AddDocument
  <2> QED
    BY <1>5, <1>6, <2>1 DEF OwnersMoves
<1>9. CASE SubmitForReview(r)
  <2>1. PICK row \in Row : /\ Reading(r) /\ Save(r, "submit", row, req[r].papers)
                           /\ row = [req[r].row EXCEPT !.status = "pending_review"]
    BY <1>5, <1>9 DEF SubmitForReview, Row, Status
  <2>2. req[r].row.status # "approved"
    <3>1. "pending_review" \in NextStatuses(req[r].row.status)
      BY <1>9 DEF SubmitForReview
    <3> QED BY <3>1 DEF NextStatuses
  <2>3. Published(row) = Published(req[r].row)
    BY <1>5, <2>1, <2>2 DEF Published, Row
  <2> QED
    BY <1>5, <1>6, <2>1, <2>3 DEF OwnersMoves, Audits
<1>10. CASE SetHours(r)
  BY <1>5, <1>6, <1>10 DEF SetHours, OwnersMoves
<1>11. ASSUME NEW h \in Ends, StartHoliday(r, h) PROVE Orderly'
  <2>1. PICK row \in Row : /\ Reading(r) /\ Save(r, "holiday", row, req[r].papers)
                           /\ row = [req[r].row EXCEPT !.holiday = h]
    BY <1>5, <1>11, TablesAssumption DEF StartHoliday, Row
  <2>2. Published(row) = Published(req[r].row) /\ row.status = req[r].row.status
    BY <1>5, <2>1 DEF Published, Row
  <2> QED
    BY <1>5, <1>6, <2>1, <2>2 DEF OwnersMoves
<1>12. CASE EndHoliday(r)
  <2>1. PICK row \in Row : /\ Reading(r) /\ Save(r, "reopen", row, req[r].papers)
                           /\ row = [req[r].row EXCEPT !.holiday = "none"]
    BY <1>5, <1>12 DEF EndHoliday, Row, Holiday
  <2>2. Published(row) = Published(req[r].row) /\ row.status = req[r].row.status
    BY <1>5, <2>1 DEF Published, Row
  <2> QED
    BY <1>5, <1>6, <2>1, <2>2 DEF OwnersMoves
<1>13. ASSUME NEW op \in DOMAIN Decision, Decide(r, op) PROVE Orderly'
  <2>1. PICK row \in Row : Reading(r) /\ Save(r, op, row, req[r].papers)
    BY <1>5, <1>13, DecisionsAreStatuses DEF Decide, Row, Status
  <2> QED
    BY <1>5, <1>6, <2>1 DEF Publishes, Audits
<1>14. CASE Refuse(r) \/ Die(r) \/ Answer(r)
  <2>1. req' = [req EXCEPT ![r] = Idle] /\ UNCHANGED <<shops, index, audit>>
    BY <1>14 DEF Refuse, Die, Answer
  <2>2. \/ req[r].pc \in {"row", "read"}
        \/ req[r].pc = "saved" /\ ~Publishes(req[r].op) /\ ~Audits(req[r].op)
    BY <1>14 DEF Refuse, Die, Answer
  <2>3. Idle \in Request
    BY DEF Request
  <2> QED
    BY <1>0, <2>1, <2>2, <2>3, OnlyTheRequest
<1>15. CASE PlaceMerchant(r)
  <2>1. req[r] \in Active /\ req[r].row \in Row /\ req[r] # Idle /\ req[r].pc = "saved"
    BY <1>0, <1>15, ActiveRequest, IdleOrActive DEF PlaceMerchant
  <2>2. PICK s \in Shops : s = req[r].shop
    BY <2>1 DEF Active
  <2> DEFINE q == IF Audits(req[r].op) THEN [req[r] EXCEPT !.pc = "placed"] ELSE Idle
  <2>3. /\ req' = [req EXCEPT ![r] = q]
        /\ \/ q = Idle /\ ~Audits(req[r].op)
           \/ /\ Audits(req[r].op) /\ q.pc = "placed" /\ q.op = req[r].op
              /\ q.shop = s /\ q.row = req[r].row
    BY <1>15, <2>1, <2>2 DEF PlaceMerchant, Active
  <2> HIDE DEF q
  <2>4. /\ index' = [index EXCEPT ![s] = Published(req[r].row)] /\ UNCHANGED <<shops, audit>>
    BY <1>15, <2>2 DEF PlaceMerchant
  <2>5. /\ req'[r] = q /\ index'[s] = Published(req[r].row)
        /\ \A t \in Shops \ {s} : index'[t] = index[t]
        /\ \A t \in Requests \ {r} : req'[t] = Idle
    BY <1>0, <2>3, <2>4 DEF TypeOK
  <2>6. req[r].row = shops[s] /\ shops[s] # NoShop
    BY <2>1, <2>2 DEF Orderly, Working, Faithful, Row, NoShop, Status
  <2>7. \A t \in Shops \ {s} : PointTrue(t)' /\ EventTrue(t)'
    BY <2>1, <2>2, <2>4, <2>5 DEF Orderly, PointDue, EventDue, Working, PointTrue, EventTrue
  <2>8. PointTrue(s)'
    BY <2>4, <2>5, <2>6 DEF PointTrue
  <2>9. ~Audits(req[r].op) => EventTrue(s)'
    BY <2>1, <2>2, <2>4 DEF Orderly, EventDue, Working, EventTrue
  <2>10. q # Idle => Faithful(r)'
    BY <2>3, <2>4, <2>5, <2>6 DEF Faithful
  <2>11. {s} \in SUBSET Shops /\ Idle.pc = "idle"
    BY DEF Idle
  <2> QED
    BY <1>0, <2>3, <2>5, <2>7, <2>8, <2>9, <2>10, <2>11, OneAtWork
<1>16. CASE RecordStatusChange(r)
  <2>1. /\ req[r] \in Active /\ req[r].row \in Row /\ req[r] # Idle /\ req[r].pc \in {"saved", "placed"}
        /\ req[r].pc = "saved" => ~Publishes(req[r].op)
    BY <1>0, <1>16, ActiveRequest, IdleOrActive DEF RecordStatusChange
  <2>2. PICK s \in Shops : s = req[r].shop
    BY <2>1 DEF Active
  <2>3. /\ audit' = [audit EXCEPT ![s] = [from |-> req[r].from, to |-> req[r].row.status]]
        /\ req' = [req EXCEPT ![r] = Idle] /\ UNCHANGED <<shops, index>>
    BY <1>16, <2>2 DEF RecordStatusChange
  <2>4. /\ audit'[s].to = req[r].row.status /\ \A t \in Shops \ {s} : audit'[t] = audit[t]
        /\ \A t \in Requests : req'[t] = Idle
    BY <1>0, <2>3 DEF TypeOK
  <2>5. req[r].row = shops[s]
    BY <2>1, <2>2 DEF Orderly, Working, Faithful
  <2>6. \A t \in Shops : PointTrue(t)'
    BY <2>1, <2>3 DEF Orderly, PointDue, Working, PointTrue
  <2>7. \A t \in Shops \ {s} : EventTrue(t)'
    BY <2>1, <2>2, <2>3, <2>4 DEF Orderly, EventDue, Working, EventTrue
  <2>8. EventTrue(s)'
    BY <2>3, <2>4, <2>5 DEF EventTrue
  <2>9. {s} \in SUBSET Shops
    OBVIOUS
  <2> QED
    BY <1>0, <2>4, <2>6, <2>7, <2>8, <2>9, OneAtWork
<1>17. CASE RemoveMerchant(r)
  <2>1. req[r] \in Active /\ req[r] # Idle /\ req[r].pc = "read"
    BY <1>0, <1>17, ActiveRequest, IdleOrActive DEF RemoveMerchant, Reading
  <2>2. PICK s \in Shops : s = req[r].shop
    BY <2>1 DEF Active
  <2> DEFINE q == [req[r] EXCEPT !.pc = "removed", !.op = "withdraw"]
  <2>3. /\ req' = [req EXCEPT ![r] = q] /\ q.pc = "removed" /\ q.shop = s /\ q # Idle
    BY <1>17, <2>1, <2>2 DEF RemoveMerchant, Active, Idle
  <2> HIDE DEF q
  <2>4. /\ index' = [index EXCEPT ![s] = NoPoint] /\ UNCHANGED <<shops, audit>>
    BY <1>17, <2>2 DEF RemoveMerchant
  <2>5. /\ req'[r] = q /\ index'[s] = NoPoint
        /\ \A t \in Shops \ {s} : index'[t] = index[t]
        /\ \A t \in Requests \ {r} : req'[t] = Idle
    BY <1>0, <2>3, <2>4 DEF TypeOK
  <2>6. \A t \in Shops : PointTrue(t) /\ EventTrue(t)
    BY <2>1 DEF Orderly, PointDue, EventDue, Working
  <2>7. /\ \A t \in Shops \ {s} : PointTrue(t)'
        /\ \A t \in Shops : EventTrue(t)'
    BY <2>4, <2>5, <2>6 DEF PointTrue, EventTrue
  <2>8. Faithful(r)'
    BY <2>3, <2>5 DEF Faithful
  <2>9. {s} \in SUBSET Shops
    OBVIOUS
  <2> QED
    BY <1>0, <2>3, <2>5, <2>7, <2>8, <2>9, OneAtWork
<1>18. CASE Delete(r)
  <2>1. req[r] \in Active /\ req[r] # Idle /\ req[r].pc = "removed"
    BY <1>0, <1>18, ActiveRequest, IdleOrActive DEF Delete
  <2>2. PICK s \in Shops : s = req[r].shop
    BY <2>1 DEF Active
  <2>3. /\ shops' = [shops EXCEPT ![s] = NoShop] /\ audit' = [audit EXCEPT ![s] = NoEvent]
        /\ req' = [req EXCEPT ![r] = Idle] /\ UNCHANGED index
    BY <1>18, <2>2 DEF Delete
  <2>4. /\ shops'[s] = NoShop
        /\ \A t \in Shops \ {s} : shops'[t] = shops[t] /\ audit'[t] = audit[t]
        /\ \A t \in Requests : req'[t] = Idle
    BY <1>0, <2>3 DEF TypeOK
  <2>5. index[s] = NoPoint
    BY <2>1, <2>2 DEF Orderly, Working, Faithful
  <2>6. \A t \in Shops \ {s} : PointTrue(t)' /\ EventTrue(t)'
    BY <2>1, <2>2, <2>3, <2>4 DEF Orderly, PointDue, EventDue, Working, PointTrue, EventTrue
  <2>7. PointTrue(s)'
    BY <2>3, <2>4, <2>5 DEF PointTrue
  <2>8. EventTrue(s)'
    BY <2>4 DEF EventTrue, NoShop, Status
  <2>9. {s} \in SUBSET Shops
    OBVIOUS
  <2> QED
    BY <1>0, <2>4, <2>6, <2>7, <2>8, <2>9, OneAtWork
<1> QED
  BY <1>1, <1>2, <1>3, <1>4, <1>7, <1>8, <1>9, <1>10, <1>11, <1>12, <1>13, <1>14, <1>15, <1>16, <1>17, <1>18
     DEF Handle

(* Calm is lost for good, and kept only while one request is at work.      *)
LEMMA CalmMeansAlone ==
    ASSUME TypeOK, CalmInv, NEW r \in Requests, Handle(r), calm'
    PROVE  calm /\ Orderly /\ \A t \in Requests \ {r} : req[t] = Idle
<1>1. calm
  BY DEF Handle, Register, ReadRow, Begin, Create, ReadPapers, Update, AddDocument, SubmitForReview,
         SetHours, StartHoliday, EndHoliday, Decide, Save, PlaceMerchant, RecordStatusChange, Answer,
         RemoveMerchant, Delete, Refuse, Die
<1>2. CASE req[r] # Idle
  BY <1>1, <1>2 DEF CalmInv, Orderly, Working
<1>3. CASE req[r] = Idle
  <2>1. \/ \E o \in Owners, s \in Shops, t \in Types, p \in Pins : Register(r, o, s, t, p)
        \/ \E s \in Shops : ReadRow(r, s)
    BY <1>3 DEF Handle, Idle, Create, ReadPapers, Update, AddDocument, SubmitForReview, Reading,
                SetHours, StartHoliday, EndHoliday, Decide, PlaceMerchant, RecordStatusChange,
                Answer, RemoveMerchant, Delete, Refuse, Die
  <2> QED
    BY <1>1, <2>1 DEF Register, ReadRow, Begin, CalmInv
<1> QED
  BY <1>2, <1>3

-----------------------------------------------------------------------------
(* The tables, the index, the trail and the copies keep their types.       *)
THEOREM TypeCorrect == Spec => []TypeOK
BY Safe, PTL DEF SafeInv

(* An owner has one shop at most, whatever old copies are written back     *)
(* (registration.go, Register).                                            *)
THEOREM OneOwner == Spec => []OneShopEach
<1>1. ASSUME SafeInv, NEW o \in Owners PROVE Cardinality(Owned(o)) <= 1
  <2>1. CASE Owned(o) = {}
    BY <2>1, FS_EmptySet
  <2>2. CASE Owned(o) # {}
    <3>1. PICK s \in Shops : Owned(o) = {s}
      BY <1>1, <2>2 DEF Owned, SafeInv, OwnersApart
    <3> QED BY <3>1, FS_Singleton
  <2> QED BY <2>1, <2>2
<1>2. SafeInv => OneShopEach
  BY <1>1 DEF OneShopEach
<1> QED
  BY <1>2, Safe, PTL

(* A shop stands as approved, or is found, only after an approval of that  *)
(* shop (moderation.go, decide).                                           *)
THEOREM ApprovedFirst == Spec => []NobodyIsListedUnseen
BY Safe, PTL DEF SafeInv

(* One request at a time, none cut short: index, trail and row agree       *)
(* (moderation.go, decide; registration.go, publish and Withdraw).         *)
THEOREM InStep == Spec => []IndexAndTrailAgree
<1>1. SafeInv /\ SafeInv' /\ CalmInv /\ [Next]_vars => CalmInv'
  <2> SUFFICES ASSUME SafeInv, SafeInv', CalmInv, [Next]_vars PROVE CalmInv'
    OBVIOUS
  <2>1. CASE UNCHANGED vars
    BY <2>1 DEF CalmInv, Orderly, Working, Faithful, PointDue, EventDue, PointTrue, EventTrue, vars
  <2>2. ASSUME NEW r \in Requests, Handle(r), calm' PROVE Orderly'
    BY <2>2, CalmMeansAlone, HandleInOrder DEF SafeInv
  <2> QED
    BY <2>1, <2>2 DEF Next, CalmInv
<1>2. SafeInv /\ CalmInv => IndexAndTrailAgree
  BY QuietAgrees DEF SafeInv
<1> QED
  BY <1>1, <1>2, Safe, InitCalm, PTL DEF Spec

-----------------------------------------------------------------------------
(* Searches.  What a search has collected, of the shops nobody touched.    *)
Wanted(q, s) ==
    /\ s \in Known /\ shops[s].status = "approved" /\ shops[s].holiday = "none"
    /\ search[q].type \in {None, shops[s].type}

Collected(q, s) ==
    LET near == s \in Within(Radius(search[q].level))
        todo == s \in search[q].todo
        card == s \in search[q].cards
    IN  /\ todo \/ card => near
        /\ card => s \in Known /\ shops[s].status = "approved" /\ shops[s].holiday # "forever"
        /\ near /\ ~search[q].cut /\ Wanted(q, s) => todo \/ card

SearchHolds(q) ==
    /\ search[q].pc \in {"settling", "settled"} => search[q].cards = {}
    /\ search[q].pc = "answered" => search[q].todo = {}
    /\ search[q].pc \in {"reading", "answered"} => \A s \in steady[q] : Collected(q, s)

SearchInv == DTypeOK /\ \A q \in Searches : SearchHolds(q)

Searching == [pc : {"settling", "settled", "reading", "answered"}, level : 0..MaxExpansions,
              type : Asked, todo : SUBSET Shops, cut : BOOLEAN, cards : SUBSET Shops]

(* A search under way has the fields of one.                               *)
LEMMA ActiveSearch ==
    ASSUME DTypeOK, NEW q \in Searches, search[q].pc # "idle"
    PROVE  search[q] \in Searching
BY DEF DTypeOK, NoSearch, Searching

(* Clamping leaves a level of the ladder alone and brings others onto it.  *)
LEMMA Clamped ==
    /\ \A level \in 0..MaxExpansions : ClampLevel(level) = level
    /\ \A level \in Int : ClampLevel(level) \in 0..MaxExpansions
BY PolicyAssumption DEF ClampLevel, Greater, Lesser

(* Counts of radius steps and the distance they cover.                     *)
LEMMA StepsCover ==
    ASSUME NEW step \in Nat \ {0}, NEW x \in Nat, NEW y \in Nat
    PROVE  /\ step * x \in Nat
           /\ x <= y => step * x <= step * y
           /\ x < y => step * x + step <= step * y
<1>1. ASSUME x <= y PROVE step * x <= step * y
  <2>1. PICK d \in Nat : y = x + d
    BY <1>1
  <2>2. step * y = step * x + step * d /\ step * d >= 0
    BY <2>1
  <2> QED BY <2>2
<1>2. ASSUME x < y PROVE step * x + step <= step * y
  <2>1. PICK d \in Nat : y = x + 1 + d
    BY <1>2
  <2>2. step * y = step * x + step + step * d /\ step * d >= 0
    BY <2>1
  <2> QED BY <2>2
<1> QED BY <1>1, <1>2

LEMMA Quotient ==
    ASSUME NEW n \in Nat, NEW step \in Nat \ {0}
    PROVE  /\ n \div step \in Nat
           /\ step * (n \div step) <= n /\ n < step * (n \div step) + step
OBVIOUS

(* The rung LevelFor names is the first that covers a distance.            *)
LEMMA FirstRung ==
    ASSUME NEW d \in Nat, d <= Radius(MaxExpansions), NEW level \in 0..MaxExpansions
    PROVE  LevelFor(d) <= level <=> d <= Radius(level)
<1>1. /\ BaseRadius \in Nat \ {0} /\ Step \in Nat \ {0} /\ MaxExpansions \in Nat /\ level \in Nat
      /\ Radius(level) = BaseRadius + Step * level
      /\ Radius(MaxExpansions) = BaseRadius + Step * MaxExpansions
  BY PolicyAssumption, Clamped DEF Radius
<1>2. CASE d <= BaseRadius
  <2>1. Step * level \in Nat
    BY <1>1, StepsCover
  <2> QED BY <1>1, <1>2, <2>1 DEF LevelFor
<1>3. CASE d > BaseRadius
  <2> DEFINE n == d - BaseRadius + Step - 1
             x == n \div Step
  <2>1. n \in Nat
    BY <1>1, <1>3
  <2>2. x \in Nat /\ Step * x <= n /\ n < Step * x + Step
    BY <1>1, <2>1, Quotient
  <2>3. LevelFor(d) = ClampLevel(x)
    BY <1>1, <1>3 DEF LevelFor
  <2> HIDE DEF x
  <2>4. Step * x < d - BaseRadius + Step /\ d - BaseRadius <= Step * x
    <3>1. Step * x \in Nat
      BY <1>1, <2>2, StepsCover
    <3> QED BY <1>1, <1>3, <2>2, <3>1
  <2>5. ASSUME NEW y \in Nat, d <= BaseRadius + Step * y PROVE x <= y
    <3> SUFFICES ASSUME y < x PROVE FALSE
      BY <2>2
    <3>1. Step * y + Step <= Step * x /\ Step * y \in Nat /\ Step * x \in Nat
      BY <1>1, <2>2, StepsCover
    <3> QED BY <1>1, <2>4, <2>5, <3>1
  <2>6. ASSUME NEW y \in Nat, x <= y PROVE d <= BaseRadius + Step * y
    <3>1. Step * x <= Step * y /\ Step * y \in Nat /\ Step * x \in Nat
      BY <1>1, <2>2, <2>6, StepsCover
    <3> QED BY <1>1, <2>4, <3>1
  <2>7. x \in 0..MaxExpansions
    BY <1>1, <2>2, <2>5
  <2>8. LevelFor(d) = x
    BY <2>3, <2>7, Clamped
  <2> QED BY <1>1, <2>5, <2>6, <2>8
<1> QED BY <1>1, <1>2, <1>3

(* Finding a published shop within a level's radius is reaching it there.  *)
LEMMA NearIsReach ==
    ASSUME DTypeOK, NEW s \in Shops, NEW level \in 0..MaxExpansions,
           shops[s] # NoShop, index[s] = Published(shops[s])
    PROVE  LET reach == Reach(shops[s])
           IN  /\ s \in Within(Radius(level)) => reach.reachable /\ reach.level <= level
               /\ reach.reachable /\ reach.level <= level /\ shops[s].status = "approved"
                  => s \in Within(Radius(level))
<1> DEFINE row == shops[s]
           d == Metres[row.pin]
<1>1. row \in Row /\ d \in Nat
  BY PolicyAssumption DEF DTypeOK, TypeOK, Row
<1>2. index[s].active = (row.status = "approved")
  <2>1. index[s] = [active |-> row.status = "approved", pin |-> row.pin, division |-> row.division]
    BY DEF Published
  <2> HIDE DEF row
  <2> QED BY <2>1
<1>3. index[s].pin = row.pin /\ index[s].division = row.division
  BY DEF Published
<1>4. s \in Within(Radius(level)) <=> row.status = "approved" /\ row.division = Here /\ d <= Radius(level)
  BY <1>2, <1>3 DEF Within
<1>5. Radius(level) <= Radius(MaxExpansions) /\ Radius(level) \in Nat /\ Radius(MaxExpansions) \in Nat
  BY PolicyAssumption, Clamped, StepsCover DEF Radius
<1>6. d <= Radius(level) => d <= Radius(MaxExpansions)
  BY <1>1, <1>5
<1>7. d <= Radius(MaxExpansions) => (LevelFor(d) <= level <=> d <= Radius(level))
  BY <1>1, FirstRung
<1>8. Reach(row).reachable <=> ~(row.division # Here \/ d > Radius(MaxExpansions))
  BY DEF Reach
<1>9. Reach(row).reachable => Reach(row).level = LevelFor(d)
  BY DEF Reach
<1>10. ~(d > Radius(MaxExpansions)) <=> d <= Radius(MaxExpansions)
  BY <1>1, <1>5
<1> HIDE DEF row, d
<1> QED BY <1>4, <1>6, <1>7, <1>8, <1>9, <1>10 DEF row

(* A search that goes on keeps the others' and the shops' state.           *)
LEMMA SearchGoesOn ==
    ASSUME SearchInv, NEW q \in Searches, NEW p \in Searching \cup {NoSearch}, UNCHANGED vars,
           search' = [search EXCEPT ![q] = p], steady' \in [Searches -> SUBSET Shops],
           \A r \in Searches \ {q} : steady'[r] = steady[r], SearchHolds(q)'
    PROVE  SearchInv'
<1> USE DEF SearchInv
<1>1. TypeOK'
  BY DEF DTypeOK, TypeOK, vars
<1>2. DTypeOK'
  BY <1>1 DEF DTypeOK, Searching
<1>3. ASSUME NEW r \in Searches \ {q} PROVE SearchHolds(r)'
  <2>1. search'[r] = search[r] /\ steady'[r] = steady[r] /\ shops' = shops /\ index' = index
    BY <1>3 DEF DTypeOK, vars
  <2> QED BY <2>1 DEF SearchHolds, Collected, Wanted, Within, Known
<1> QED BY <1>2, <1>3

LEMMA LookInv ==
    ASSUME SearchInv, NEW q \in Searches, Look(q)
    PROVE  SearchInv'
<1> USE DEF SearchInv
<1>0. steady \in [Searches -> SUBSET Shops] /\ search \in [Searches -> Searching \cup {NoSearch}]
  BY DEF DTypeOK, Searching
<1>1. ASSUME NEW level \in -1..MaxExpansions + 1, NEW type \in Asked, Ask(q, level, type) PROVE SearchInv'
  <2> DEFINE p == [pc |-> "settling", level |-> ClampLevel(level), type |-> type, todo |-> {},
                   cut |-> FALSE, cards |-> {}]
  <2>1. ClampLevel(level) \in 0..MaxExpansions
    BY Clamped
  <2>2. p \in Searching /\ p.pc = "settling" /\ p.cards = {}
    BY <2>1 DEF Searching
  <2>3. search' = [search EXCEPT ![q] = p] /\ steady' = [steady EXCEPT ![q] = Shops] /\ UNCHANGED vars
    BY <1>1 DEF Ask
  <2> HIDE DEF p
  <2>4. search'[q] = p
    BY <1>0, <2>3
  <2>5. SearchHolds(q)'
    BY <2>2, <2>4 DEF SearchHolds
  <2> QED BY <1>0, <2>2, <2>3, <2>5, SearchGoesOn
<1>2. CASE Count(q)
  <2>1. search[q] \in Searching /\ search[q].pc = "settling" /\ search[q].cards = {}
        /\ UNCHANGED <<vars, steady>>
    BY <1>2, ActiveSearch DEF Count, SearchHolds
  <2>2. PICK p \in Searching : /\ search' = [search EXCEPT ![q] = p]
                               /\ p.pc \in {"settling", "settled"} /\ p.cards = {}
    <3>1. CASE TooFew(search[q].level)
      <4> DEFINE p == [search[q] EXCEPT !.level = @ + 1]
      <4>1. p \in Searching /\ p.pc = "settling" /\ p.cards = {}
        BY <2>1, <3>1, PolicyAssumption DEF Searching, TooFew
      <4>2. search' = [search EXCEPT ![q] = p]
        BY <1>0, <1>2, <2>1, <3>1 DEF Count, Searching
      <4> HIDE DEF p
      <4> QED BY <4>1, <4>2
    <3>2. CASE ~TooFew(search[q].level)
      <4> DEFINE p == [search[q] EXCEPT !.pc = "settled"]
      <4>1. p \in Searching /\ p.pc = "settled" /\ p.cards = {}
        BY <2>1 DEF Searching
      <4>2. search' = [search EXCEPT ![q] = p]
        BY <1>0, <1>2, <2>1, <3>2 DEF Count, Searching
      <4> HIDE DEF p
      <4> QED BY <4>1, <4>2
    <3> QED BY <3>1, <3>2
  <2>3. search'[q] = p
    BY <1>0, <2>2
  <2>4. SearchHolds(q)'
    BY <2>2, <2>3 DEF SearchHolds
  <2> QED BY <1>0, <2>1, <2>2, <2>4, SearchGoesOn
<1>3. CASE ReadIndex(q)
  <2> DEFINE near == Within(Radius(search[q].level))
  <2>1. PICK found \in SUBSET near :
               search' = [search EXCEPT ![q].pc = "reading", ![q].todo = found, ![q].cut = found # near]
    BY <1>3 DEF ReadIndex
  <2> DEFINE p == [search[q] EXCEPT !.pc = "reading", !.todo = found, !.cut = found # near]
  <2>2. search[q] \in Searching /\ search[q].cards = {} /\ UNCHANGED <<vars, steady>>
    BY <1>3, ActiveSearch DEF ReadIndex, SearchHolds
  <2>3. near \subseteq Shops
    BY DEF Within
  <2>4. /\ p \in Searching /\ p.pc = "reading" /\ p.todo = found /\ p.cards = {}
        /\ p.cut = (found # near) /\ p.level = search[q].level
    BY <2>2, <2>3 DEF Searching
  <2>5. search' = [search EXCEPT ![q] = p]
    BY <1>0, <2>1, <2>2 DEF Searching
  <2> HIDE DEF p
  <2>6. search'[q] = p /\ Within(Radius(search[q].level))' = near /\ Known' = Known
    <3>1. search'[q] = p /\ search'[q].level = search[q].level
      BY <1>0, <2>4, <2>5
    <3>2. Radius(search[q].level)' = Radius(search[q].level) /\ index' = index /\ shops' = shops
      BY <2>2, <3>1 DEF Radius, ClampLevel, vars
    <3> QED BY <3>1, <3>2 DEF Within, Known
  <2> HIDE DEF near
  <2>7. \A s \in steady[q] : Collected(q, s)'
    BY <2>4, <2>6 DEF Collected
  <2>8. SearchHolds(q)'
    BY <2>2, <2>4, <2>6, <2>7 DEF SearchHolds
  <2> QED BY <1>0, <2>2, <2>4, <2>5, <2>8, SearchGoesOn
<1>4. ASSUME NEW t \in Shops, NEW past \in BOOLEAN, ReadShop(q, t, past) PROVE SearchInv'
  <2> DEFINE p == [search[q] EXCEPT !.todo = @ \ {t}, !.cards = @ \cup CardsOf(q, t, past)]
  <2>1. /\ search[q] \in Searching /\ search[q].pc = "reading" /\ t \in search[q].todo
        /\ UNCHANGED <<vars, steady>>
        /\ search' = [search EXCEPT ![q].todo = @ \ {t}, ![q].cards = @ \cup CardsOf(q, t, past)]
    BY <1>4, ActiveSearch DEF ReadShop
  <2>2. CardsOf(q, t, past) \subseteq Shops
    BY DEF CardsOf
  <2>3. /\ p \in Searching /\ p.pc = "reading" /\ p.todo = search[q].todo \ {t}
        /\ p.cards = search[q].cards \cup CardsOf(q, t, past)
        /\ p.cut = search[q].cut /\ p.level = search[q].level /\ p.type = search[q].type
    BY <2>1, <2>2 DEF Searching
  <2>4. search' = [search EXCEPT ![q] = p]
    BY <1>0, <2>1 DEF Searching
  <2> HIDE DEF p
  <2>5. search'[q] = p /\ shops' = shops /\ index' = index
    BY <1>0, <2>1, <2>4 DEF vars
  <2>6. Within(Radius(search[q].level))' = Within(Radius(search[q].level))
    <3>1. Radius(search[q].level)' = Radius(search[q].level)
      BY <2>3, <2>5 DEF Radius, ClampLevel
    <3> QED BY <2>5, <3>1 DEF Within
  <2>7. ASSUME NEW s \in steady[q] PROVE Collected(q, s)'
    <3>1. Collected(q, s)
      BY <2>1, <2>7 DEF SearchHolds
    <3>2. CASE s # t
      <4>1. s \notin CardsOf(q, t, past)
        BY <3>2 DEF CardsOf
      <4> QED BY <2>3, <2>5, <2>6, <3>1, <3>2, <4>1 DEF Collected, Wanted, Known
    <3>3. CASE s = t
      <4>1. s \in CardsOf(q, t, past) => /\ s \in Known /\ shops[s].status = "approved"
                                         /\ shops[s].holiday # "forever"
        BY <3>3 DEF CardsOf, IsListed, HolidayActive
      <4>2. Wanted(q, s) => s \in CardsOf(q, t, past)
        BY <3>3 DEF CardsOf, IsListed, HolidayActive, Wanted
      <4>3. Wanted(q, s)' <=> Wanted(q, s)
        BY <2>3, <2>5 DEF Wanted, Known
      <4>4. Known' = Known
        BY <2>5 DEF Known
      <4> QED BY <2>1, <2>3, <2>5, <2>6, <3>1, <3>3, <4>1, <4>2, <4>3, <4>4 DEF Collected
    <3> QED BY <3>2, <3>3
  <2>8. SearchHolds(q)'
    BY <2>1, <2>3, <2>5, <2>7 DEF SearchHolds
  <2> QED BY <1>0, <2>1, <2>3, <2>4, <2>8, SearchGoesOn
<1>5. CASE AnswerSearch(q)
  <2> DEFINE p == [search[q] EXCEPT !.pc = "answered"]
  <2>1. /\ search[q] \in Searching /\ search[q].pc = "reading" /\ search[q].todo = {}
        /\ UNCHANGED <<vars, steady>> /\ search' = [search EXCEPT ![q] = p]
    BY <1>0, <1>5, ActiveSearch DEF AnswerSearch, Searching
  <2>2. /\ p \in Searching /\ p.pc = "answered" /\ p.todo = {} /\ p.cards = search[q].cards
        /\ p.cut = search[q].cut /\ p.level = search[q].level /\ p.type = search[q].type
    BY <2>1 DEF Searching
  <2> HIDE DEF p
  <2>3. search'[q] = p /\ shops' = shops /\ index' = index
    BY <1>0, <2>1 DEF vars
  <2>4. ASSUME NEW s \in steady[q] PROVE Collected(q, s)'
    <3>1. Collected(q, s)
      BY <2>1, <2>4 DEF SearchHolds
    <3> QED BY <2>1, <2>2, <2>3, <3>1 DEF Collected, Wanted, Known, Within
  <2>5. SearchHolds(q)'
    BY <2>1, <2>2, <2>3, <2>4 DEF SearchHolds
  <2> QED BY <1>0, <2>1, <2>2, <2>5, SearchGoesOn
<1>6. CASE Leave(q)
  <2>1. search' = [search EXCEPT ![q] = NoSearch] /\ steady' = [steady EXCEPT ![q] = {}] /\ UNCHANGED vars
    BY <1>6 DEF Leave
  <2>2. SearchHolds(q)'
    BY <1>0, <2>1 DEF SearchHolds, NoSearch
  <2> QED BY <1>0, <2>1, <2>2, SearchGoesOn
<1> QED
  BY <1>1, <1>2, <1>3, <1>4, <1>5, <1>6 DEF Look

(* What the searches rely on: of the shops nobody touched, a search has    *)
(* exactly those of its radius that it has still to read or shows.         *)
LEMMA SearchesHold == DSpec => []SearchInv /\ []SafeInv
<1>1. DInit => Init /\ SearchInv
  <2> SUFFICES ASSUME DInit PROVE SearchInv
    BY DEF DInit
  <2>1. TypeOK
    BY InitSafe DEF DInit, SafeInv
  <2> QED BY <2>1 DEF DInit, SearchInv, DTypeOK, SearchHolds, NoSearch
<1>2. [DNext]_allVars => [Next]_vars
  BY DEF DNext, ShopsChange, Look, Ask, Count, ReadIndex, ReadShop, AnswerSearch, Leave, allVars
<1>3. DSpec => []SafeInv
  BY <1>1, <1>2, Safe, PTL DEF DSpec, Spec
<1>4. SearchInv /\ SafeInv' /\ [DNext]_allVars => SearchInv'
  <2> SUFFICES ASSUME SearchInv, SafeInv', [DNext]_allVars PROVE SearchInv'
    OBVIOUS
  <2> USE DEF SearchInv
  <2>1. CASE UNCHANGED allVars
    BY <2>1 DEF allVars, dvars, vars, DTypeOK, TypeOK, SearchHolds, Collected, Wanted, Within, Known
  <2>2. CASE ShopsChange
    <3>1. /\ search' = search
          /\ steady' = [q \in Searches |-> {s \in steady[q] : shops'[s] = shops[s] /\ index'[s] = index[s]}]
      BY <2>2 DEF ShopsChange
    <3>2. DTypeOK'
      BY <3>1 DEF DTypeOK, SafeInv
    <3>3. ASSUME NEW q \in Searches PROVE SearchHolds(q)'
      <4>1. ASSUME NEW s \in steady'[q], Collected(q, s) PROVE Collected(q, s)'
        <5>1. shops'[s] = shops[s] /\ index'[s] = index[s]
          BY <3>1, <4>1
        <5> QED BY <3>1, <4>1, <5>1 DEF Collected, Wanted, Within, Known
      <4>2. \A s \in steady'[q] : s \in steady[q]
        BY <3>1
      <4> QED BY <3>1, <4>1, <4>2 DEF SearchHolds
    <3> QED BY <3>2, <3>3
  <2> QED BY <2>1, <2>2, LookInv DEF DNext
<1> QED BY <1>1, <1>3, <1>4, PTL DEF DSpec

(* A shop that has not been approved, or is away for good, while a search  *)
(* runs is not shown by it, whatever the index says (search.go, cards).    *)
THEOREM ShownOnlyWhenListed == DSpec => []ShownShopsAreListed
<1>1. SearchInv => ShownShopsAreListed
  BY DEF SearchInv, ShownShopsAreListed, SearchHolds, Collected, Shown
<1> QED BY <1>1, SearchesHold, PTL

(* With any radii, expansions and distances, a search and the arithmetic   *)
(* that answers for an order agree on what can be reached from a spot      *)
(* (search.go against reach.go).                                           *)
THEOREM SearchAndReachAgree == DSpec => []SearchAgreesWithReach
<1>1. SearchInv => SearchAgreesWithReach
  <2> SUFFICES ASSUME SearchInv, NEW q \in Searches, search[q].pc = "answered",
                      NEW s \in steady[q], shops[s] # NoShop, index[s] = Published(shops[s])
               PROVE  LET reach == Reach(shops[s])
                          inReach == reach.reachable /\ reach.level <= search[q].level
                      IN  /\ s \in Shown(q) => inReach
                          /\ /\ inReach /\ ~search[q].cut
                             /\ shops[s].status = "approved" /\ shops[s].holiday = "none"
                             /\ search[q].type \in {None, shops[s].type}
                             => s \in Shown(q)
    BY DEF SearchAgreesWithReach
  <2>1. search[q] \in Searching /\ DTypeOK
    BY ActiveSearch DEF SearchInv
  <2>2. search[q].level \in 0..MaxExpansions /\ s \in Shops /\ search[q].todo = {} /\ Collected(q, s)
    BY <2>1 DEF Searching, SearchInv, DTypeOK, SearchHolds
  <2>3. s \in Known
    BY <2>2 DEF Known
  <2> DEFINE reach == Reach(shops[s])
  <2>4. /\ s \in Within(Radius(search[q].level)) => reach.reachable /\ reach.level <= search[q].level
        /\ reach.reachable /\ reach.level <= search[q].level /\ shops[s].status = "approved"
           => s \in Within(Radius(search[q].level))
    BY <2>1, <2>2, NearIsReach
  <2> HIDE DEF reach
  <2>5. /\ s \in Shown(q) => reach.reachable /\ reach.level <= search[q].level
        /\ /\ reach.reachable /\ reach.level <= search[q].level /\ ~search[q].cut
           /\ shops[s].status = "approved" /\ shops[s].holiday = "none"
           /\ search[q].type \in {None, shops[s].type}
           => s \in Shown(q)
    BY <2>2, <2>3, <2>4 DEF Collected, Wanted, Shown
  <2> QED BY <2>5 DEF reach
<1> QED BY <1>1, SearchesHold, PTL

-----------------------------------------------------------------------------
(* Geo: a ring's edges, the ray, and the triangles a ring is cut into.     *)

(* Seen from c, the edge from u to v crosses the ray that runs east: s and *)
(* t are how far north of c they lie, x is their cross product.            *)
Meets(s, t, x) == ((s > 0) # (t > 0)) /\ (IF t > s THEN x > 0 ELSE x < 0)

(* c lies between two values, seen from c.                                 *)
Spans(s, t) == (s <= 0 /\ 0 <= t) \/ (t <= 0 /\ 0 <= s)

(* The sign of a product.                                                  *)
LEMMA Products ==
    ASSUME NEW x \in Int, NEW y \in Int
    PROVE  /\ x * y \in Int
           /\ x > 0 /\ y > 0 => x * y > 0
           /\ x > 0 /\ y < 0 => x * y < 0
           /\ x < 0 /\ y > 0 => x * y < 0
           /\ x < 0 /\ y < 0 => x * y > 0
           /\ x = 0 \/ y = 0 => x * y = 0
OBVIOUS

(* Weights of one sign balance no three numbers that lie on one side of 0; *)
(* with a weight of 0, 0 lies between the two others.                      *)
LEMMA Balance ==
    ASSUME NEW q \in Int, NEW r \in Int, NEW p \in Int,
           NEW x \in Int, NEW y \in Int, NEW z \in Int,
           q <= 0, r <= 0, p <= 0, p + q + r < 0,
           q * x + r * y + p * z = 0
    PROVE  /\ x <= 0 \/ y <= 0 \/ z <= 0
           /\ 0 <= x \/ 0 <= y \/ 0 <= z
           /\ p = 0 => Spans(x, y)
           /\ q = 0 => Spans(y, z)
           /\ r = 0 => Spans(z, x)
<1> DEFINE U == q * x  V == r * y  W == p * z
<1>1. U \in Int /\ V \in Int /\ W \in Int /\ U + V + W = 0 OBVIOUS
<1>2. /\ x > 0 /\ q < 0 => U < 0
      /\ x < 0 /\ q < 0 => U > 0
      /\ q = 0 => U = 0
  BY Products
<1>3. /\ y > 0 /\ r < 0 => V < 0
      /\ y < 0 /\ r < 0 => V > 0
      /\ r = 0 => V = 0
  BY Products
<1>4. /\ z > 0 /\ p < 0 => W < 0
      /\ z < 0 /\ p < 0 => W > 0
      /\ p = 0 => W = 0
  BY Products
<1> HIDE DEF U, V, W
<1>5. ~(x > 0 /\ y > 0 /\ z > 0) BY <1>1, <1>2, <1>3, <1>4
<1>6. ~(x < 0 /\ y < 0 /\ z < 0) BY <1>1, <1>2, <1>3, <1>4
<1>7. p = 0 => Spans(x, y)
  <2>1. SUFFICES ASSUME p = 0 PROVE Spans(x, y) OBVIOUS
  <2>2. ~(x > 0 /\ y > 0) /\ ~(x < 0 /\ y < 0) BY <1>1, <1>2, <1>3, <1>4, <2>1
  <2>3. QED BY <2>2 DEF Spans
<1>8. q = 0 => Spans(y, z)
  <2>1. SUFFICES ASSUME q = 0 PROVE Spans(y, z) OBVIOUS
  <2>2. ~(y > 0 /\ z > 0) /\ ~(y < 0 /\ z < 0) BY <1>1, <1>2, <1>3, <1>4, <2>1
  <2>3. QED BY <2>2 DEF Spans
<1>9. r = 0 => Spans(z, x)
  <2>1. SUFFICES ASSUME r = 0 PROVE Spans(z, x) OBVIOUS
  <2>2. ~(x > 0 /\ z > 0) /\ ~(x < 0 /\ z < 0) BY <1>1, <1>2, <1>3, <1>4, <2>1
  <2>3. QED BY <2>2 DEF Spans
<1>10. QED BY <1>5, <1>6, <1>7, <1>8, <1>9

(* One edge alone is crossed: every weight has the triangle's own sign.    *)
LEMMA OneCrossing ==
    ASSUME NEW q \in Int, NEW r \in Int, NEW p \in Int,
           NEW x \in Int, NEW y \in Int, NEW z \in Int,
           p + q + r < 0, q * x + r * y + p * z = 0,
           Meets(x, y, p), ~Meets(y, z, q), ~Meets(z, x, r)
    PROVE  p <= 0 /\ q <= 0 /\ r <= 0
<1> DEFINE U == q * x  V == r * y  W == p * z
<1>1. U \in Int /\ V \in Int /\ W \in Int /\ U + V + W = 0 OBVIOUS
<1>2. /\ x > 0 /\ q < 0 => U < 0
      /\ x < 0 /\ q < 0 => U > 0
      /\ x > 0 /\ q > 0 => U > 0
      /\ x < 0 /\ q > 0 => U < 0
      /\ q = 0 \/ x = 0 => U = 0
  BY Products
<1>3. /\ y > 0 /\ r < 0 => V < 0
      /\ y < 0 /\ r < 0 => V > 0
      /\ y > 0 /\ r > 0 => V > 0
      /\ y < 0 /\ r > 0 => V < 0
      /\ r = 0 \/ y = 0 => V = 0
  BY Products
<1>4. /\ z > 0 /\ p < 0 => W < 0
      /\ z < 0 /\ p < 0 => W > 0
      /\ z > 0 /\ p > 0 => W > 0
      /\ z < 0 /\ p > 0 => W < 0
      /\ p = 0 \/ z = 0 => W = 0
  BY Products
<1> HIDE DEF U, V, W
<1>5. QED BY <1>1, <1>2, <1>3, <1>4 DEF Meets

(* A ray that enters a triangle leaves it: no third edge is crossed.       *)
LEMMA NeverThree ==
    ASSUME NEW x \in Int, NEW y \in Int, NEW z \in Int, NEW p, NEW q, NEW r
    PROVE  ~(Meets(x, y, p) /\ Meets(y, z, q) /\ Meets(z, x, r))
BY DEF Meets

(* From strictly inside, one edge is crossed: the one that comes down.     *)
LEMMA InsideMeets ==
    ASSUME NEW q \in Int, NEW r \in Int, NEW p \in Int,
           NEW x \in Int, NEW y \in Int, NEW z \in Int,
           q < 0, r < 0, p < 0,
           q * x + r * y + p * z = 0, ~(x = 0 /\ y = 0 /\ z = 0)
    PROVE  (Meets(x, y, p) # Meets(y, z, q)) # Meets(z, x, r)
<1> DEFINE U == q * x  V == r * y  W == p * z
<1>1. U \in Int /\ V \in Int /\ W \in Int /\ U + V + W = 0 OBVIOUS
<1>2. (x > 0 => U < 0) /\ (x < 0 => U > 0) /\ (x = 0 => U = 0) BY Products
<1>3. (y > 0 => V < 0) /\ (y < 0 => V > 0) /\ (y = 0 => V = 0) BY Products
<1>4. (z > 0 => W < 0) /\ (z < 0 => W > 0) /\ (z = 0 => W = 0) BY Products
<1> HIDE DEF U, V, W
<1>5. (x > 0 \/ y > 0 \/ z > 0) /\ ~(x > 0 /\ y > 0 /\ z > 0)
  BY <1>1, <1>2, <1>3, <1>4
<1>6. /\ Meets(x, y, p) <=> x > 0 /\ ~(y > 0)
      /\ Meets(y, z, q) <=> y > 0 /\ ~(z > 0)
      /\ Meets(z, x, r) <=> z > 0 /\ ~(x > 0)
  BY DEF Meets
<1>7. QED BY <1>5, <1>6 DEF Meets

(* From a point between two corners, the two other weights are not outside.*)
LEMMA OnEdgeInside ==
    ASSUME NEW q \in Int, NEW r \in Int,
           NEW x \in Int, NEW y \in Int,
           q + r < 0, q * x + r * y = 0, Spans(x, y), x # y
    PROVE  q <= 0 /\ r <= 0
<1> DEFINE U == q * x  V == r * y
<1>1. U \in Int /\ V \in Int /\ U + V = 0 OBVIOUS
<1>2. /\ x > 0 /\ q < 0 => U < 0
      /\ x < 0 /\ q < 0 => U > 0
      /\ x > 0 /\ q > 0 => U > 0
      /\ x < 0 /\ q > 0 => U < 0
      /\ q = 0 \/ x = 0 => U = 0
  BY Products
<1>3. /\ y > 0 /\ r < 0 => V < 0
      /\ y < 0 /\ r < 0 => V > 0
      /\ y > 0 /\ r > 0 => V > 0
      /\ y < 0 /\ r > 0 => V < 0
      /\ r = 0 \/ y = 0 => V = 0
  BY Products
<1> HIDE DEF U, V
<1>5. QED BY <1>1, <1>2, <1>3 DEF Spans

(* Any point of the plane.                                                 *)
Place == [lat : Int, lng : Int]

(* An edge in terms of the point it is asked about; its direction is the   *)
(* cross product's sign and nothing else.                                  *)
LEMMA EdgeTerms ==
    ASSUME NEW u \in Place, NEW v \in Place, NEW p \in Place
    PROVE  /\ Cross(u, v, p) \in Int
           /\ Cross(v, u, p) = -Cross(u, v, p)
           /\ Cross(u, v, p) + Cross(v, u, p) = 0
           /\ RayCrosses(u, v, p) <=> Meets(u.lat - p.lat, v.lat - p.lat, Cross(u, v, p))
           /\ RayCrosses(v, u, p) <=> RayCrosses(u, v, p)
           /\ OnSegment(u, v, p) <=> /\ Cross(u, v, p) = 0
                                     /\ Spans(u.lat - p.lat, v.lat - p.lat)
                                     /\ Spans(u.lng - p.lng, v.lng - p.lng)
           /\ OnSegment(v, u, p) <=> OnSegment(u, v, p)
<1>1. PICK ut \in Int, ug \in Int : u.lat = ut /\ u.lng = ug BY DEF Place
<1>2. PICK vt \in Int, vg \in Int : v.lat = vt /\ v.lng = vg BY DEF Place
<1>3. PICK pt \in Int, pg \in Int : p.lat = pt /\ p.lng = pg BY DEF Place
<1>4. PICK a \in Int : a = (pg - ug) * (vt - ut) OBVIOUS
<1>5. PICK b \in Int : b = (pt - ut) * (vg - ug) OBVIOUS
<1>6. /\ (pt - vt) * (ug - vg) - (pg - vg) * (ut - vt) = a - b
      /\ Cross(u, v, p) = b - a
      /\ Cross(v, u, p) = a - b
  <2>1. (pt - vt) * (ug - vg) - (pg - vg) * (ut - vt) = a - b BY <1>4, <1>5
  <2>2. QED BY <1>1, <1>2, <1>3, <1>4, <1>5, <2>1 DEF Cross
<1>7. RayCrosses(u, v, p) <=> ((ut > pt) # (vt > pt)) /\ (IF vt > ut THEN a < b ELSE a > b)
  BY <1>1, <1>2, <1>3, <1>4, <1>5 DEF RayCrosses
<1>8. PICK e \in Int : e = (pg - vg) * (ut - vt) OBVIOUS
<1>9. PICK f \in Int : f = (pt - vt) * (ug - vg) OBVIOUS
<1>10. RayCrosses(v, u, p) <=> ((vt > pt) # (ut > pt)) /\ (IF ut > vt THEN e < f ELSE e > f)
  BY <1>1, <1>2, <1>3, <1>8, <1>9 DEF RayCrosses
<1>11. f - e = a - b BY <1>6, <1>8, <1>9
<1>12. RayCrosses(v, u, p) <=> RayCrosses(u, v, p) BY <1>7, <1>10, <1>11
<1>13. RayCrosses(u, v, p) <=> Meets(u.lat - p.lat, v.lat - p.lat, Cross(u, v, p))
  BY <1>1, <1>2, <1>3, <1>6, <1>7 DEF Meets
<1>14. /\ OnSegment(u, v, p) <=> /\ Cross(u, v, p) = 0
                                 /\ Spans(u.lat - p.lat, v.lat - p.lat)
                                 /\ Spans(u.lng - p.lng, v.lng - p.lng)
       /\ OnSegment(v, u, p) <=> OnSegment(u, v, p)
  BY <1>1, <1>2, <1>3, <1>6 DEF OnSegment, Spans, Lesser, Greater
<1>15. QED BY <1>6, <1>12, <1>13, <1>14

(* The three cross products are a point's weights in a triangle: they      *)
(* balance its corners around it and add up to the triangle's own.         *)
LEMMA CornerTerms ==
    ASSUME NEW x \in Place, NEW y \in Place, NEW z \in Place, NEW p \in Place
    PROVE  /\ Cross(y, z, p) * (x.lat - p.lat) + Cross(z, x, p) * (y.lat - p.lat)
                + Cross(x, y, p) * (z.lat - p.lat) = 0
           /\ Cross(y, z, p) * (x.lng - p.lng) + Cross(z, x, p) * (y.lng - p.lng)
                + Cross(x, y, p) * (z.lng - p.lng) = 0
           /\ Cross(x, y, z) = Cross(x, y, p) + Cross(y, z, p) + Cross(z, x, p)
           /\ Cross(x, y, z) = -Cross(x, z, y)
           /\ Cross(y, z, x) = Cross(x, y, z)
<1>1. PICK xt \in Int, xg \in Int : x.lat = xt /\ x.lng = xg BY DEF Place
<1>2. PICK yt \in Int, yg \in Int : y.lat = yt /\ y.lng = yg BY DEF Place
<1>3. PICK zt \in Int, zg \in Int : z.lat = zt /\ z.lng = zg BY DEF Place
<1>4. PICK pt \in Int, pg \in Int : p.lat = pt /\ p.lng = pg BY DEF Place
<1>5. /\ Cross(x, y, p) = (pt - xt) * (yg - xg) - (pg - xg) * (yt - xt)
      /\ Cross(y, z, p) = (pt - yt) * (zg - yg) - (pg - yg) * (zt - yt)
      /\ Cross(z, x, p) = (pt - zt) * (xg - zg) - (pg - zg) * (xt - zt)
      /\ Cross(x, y, z) = (zt - xt) * (yg - xg) - (zg - xg) * (yt - xt)
      /\ Cross(x, z, y) = (yt - xt) * (zg - xg) - (yg - xg) * (zt - xt)
      /\ Cross(y, z, x) = (xt - yt) * (zg - yg) - (xg - yg) * (zt - yt)
  BY <1>1, <1>2, <1>3, <1>4 DEF Cross
<1>6. ((pt - yt) * (zg - yg) - (pg - yg) * (zt - yt)) * (xt - pt)
      + ((pt - zt) * (xg - zg) - (pg - zg) * (xt - zt)) * (yt - pt)
      + ((pt - xt) * (yg - xg) - (pg - xg) * (yt - xt)) * (zt - pt) = 0
  OBVIOUS
<1>7. ((pt - yt) * (zg - yg) - (pg - yg) * (zt - yt)) * (xg - pg)
      + ((pt - zt) * (xg - zg) - (pg - zg) * (xt - zt)) * (yg - pg)
      + ((pt - xt) * (yg - xg) - (pg - xg) * (yt - xt)) * (zg - pg) = 0
  OBVIOUS
<1>8. Cross(x, y, z) = Cross(x, y, p) + Cross(y, z, p) + Cross(z, x, p) BY <1>5
<1>9. Cross(x, y, z) = -Cross(x, z, y) /\ Cross(y, z, x) = Cross(x, y, z) BY <1>5
<1>10. QED BY <1>1, <1>2, <1>3, <1>4, <1>5, <1>6, <1>7, <1>8, <1>9

(* p is on no outer side of the clockwise triangle x, y, z.                *)
Inside(x, y, z, p) == Cross(x, y, p) <= 0 /\ Cross(y, z, p) <= 0 /\ Cross(z, x, p) <= 0

(* The ray crosses an odd number of its edges.                              *)
OddOfThree(x, y, z, p) ==
    (RayCrosses(x, y, p) # RayCrosses(y, z, p)) # RayCrosses(z, x, p)

(* Inside with a weight of 0 is on that edge, and inside is in the box.    *)
LEMMA InsideOnEdge ==
    ASSUME NEW x \in Place, NEW y \in Place, NEW z \in Place, NEW p \in Place,
           Cross(x, y, z) < 0, Inside(x, y, z, p)
    PROVE  /\ Cross(x, y, p) = 0 => OnSegment(x, y, p)
           /\ Cross(y, z, p) = 0 => OnSegment(y, z, p)
           /\ Cross(z, x, p) = 0 => OnSegment(z, x, p)
           /\ InBoundingBox(<<x, y, z, x>>, p)
<1>1. PICK P \in Int : P = Cross(x, y, p) BY EdgeTerms
<1>2. PICK Q \in Int : Q = Cross(y, z, p) BY EdgeTerms
<1>3. PICK R \in Int : R = Cross(z, x, p) BY EdgeTerms
<1>4. PICK xt \in Int, xg \in Int : xt = x.lat - p.lat /\ xg = x.lng - p.lng BY DEF Place
<1>5. PICK yt \in Int, yg \in Int : yt = y.lat - p.lat /\ yg = y.lng - p.lng BY DEF Place
<1>6. PICK zt \in Int, zg \in Int : zt = z.lat - p.lat /\ zg = z.lng - p.lng BY DEF Place
<1>7. P <= 0 /\ Q <= 0 /\ R <= 0 BY <1>1, <1>2, <1>3 DEF Inside
<1>8. P + Q + R < 0 BY <1>1, <1>2, <1>3, CornerTerms
<1>9. Q * xt + R * yt + P * zt = 0 /\ Q * xg + R * yg + P * zg = 0
  BY <1>1, <1>2, <1>3, <1>4, <1>5, <1>6, CornerTerms
<1>10. /\ xt <= 0 \/ yt <= 0 \/ zt <= 0
       /\ 0 <= xt \/ 0 <= yt \/ 0 <= zt
       /\ P = 0 => Spans(xt, yt)
       /\ Q = 0 => Spans(yt, zt)
       /\ R = 0 => Spans(zt, xt)
  BY <1>7, <1>8, <1>9, Balance
<1>11. /\ xg <= 0 \/ yg <= 0 \/ zg <= 0
       /\ 0 <= xg \/ 0 <= yg \/ 0 <= zg
       /\ P = 0 => Spans(xg, yg)
       /\ Q = 0 => Spans(yg, zg)
       /\ R = 0 => Spans(zg, xg)
  BY <1>7, <1>8, <1>9, Balance
<1>12. InBoundingBox(<<x, y, z, x>>, p)
  <2> DEFINE t == <<x, y, z, x>>
  <2>1. 1 \in DOMAIN t /\ 2 \in DOMAIN t /\ 3 \in DOMAIN t OBVIOUS
  <2>2. t[1] = x /\ t[2] = y /\ t[3] = z OBVIOUS
  <2>3. \E i \in DOMAIN t : t[i].lat <= p.lat BY <1>4, <1>5, <1>6, <1>10, <2>1, <2>2 DEF Place
  <2>4. \E i \in DOMAIN t : p.lat <= t[i].lat BY <1>4, <1>5, <1>6, <1>10, <2>1, <2>2 DEF Place
  <2>5. \E i \in DOMAIN t : t[i].lng <= p.lng BY <1>4, <1>5, <1>6, <1>11, <2>1, <2>2 DEF Place
  <2>6. \E i \in DOMAIN t : p.lng <= t[i].lng BY <1>4, <1>5, <1>6, <1>11, <2>1, <2>2 DEF Place
  <2> HIDE DEF t
  <2>7. InBoundingBox(t, p) BY <2>3, <2>4, <2>5, <2>6 DEF InBoundingBox
  <2>8. QED BY <2>7 DEF t
<1>13. QED BY <1>1, <1>2, <1>3, <1>4, <1>5, <1>6, <1>10, <1>11, <1>12, EdgeTerms

(* A point on an edge is inside.                                           *)
LEMMA EdgeInside ==
    ASSUME NEW x \in Place, NEW y \in Place, NEW z \in Place, NEW p \in Place,
           Cross(x, y, z) < 0, OnSegment(x, y, p)
    PROVE  Inside(x, y, z, p)
<1>1. PICK P \in Int : P = Cross(x, y, p) BY EdgeTerms
<1>2. PICK Q \in Int : Q = Cross(y, z, p) BY EdgeTerms
<1>3. PICK R \in Int : R = Cross(z, x, p) BY EdgeTerms
<1>4. PICK xt \in Int, xg \in Int : xt = x.lat - p.lat /\ xg = x.lng - p.lng BY DEF Place
<1>5. PICK yt \in Int, yg \in Int : yt = y.lat - p.lat /\ yg = y.lng - p.lng BY DEF Place
<1>6. PICK zt \in Int, zg \in Int : zt = z.lat - p.lat /\ zg = z.lng - p.lng BY DEF Place
<1>7. P = 0 /\ Spans(xt, yt) /\ Spans(xg, yg) BY <1>1, <1>4, <1>5, EdgeTerms
<1>8. Q + R < 0
  <2>1. Cross(x, y, z) = P + Q + R BY <1>1, <1>2, <1>3, CornerTerms
  <2>2. QED BY <1>7, <2>1
<1>9. Q * xt + R * yt = 0 /\ Q * xg + R * yg = 0
  <2>1. P * zt = 0 /\ P * zg = 0 BY <1>7, Products
  <2>2. Q * xt + R * yt + P * zt = 0 /\ Q * xg + R * yg + P * zg = 0
    BY <1>1, <1>2, <1>3, <1>4, <1>5, <1>6, CornerTerms
  <2>3. Q * xt \in Int /\ R * yt \in Int /\ Q * xg \in Int /\ R * yg \in Int OBVIOUS
  <2>4. QED BY <2>1, <2>2, <2>3
<1>10. xt # yt \/ xg # yg
  <2>1. SUFFICES ASSUME xt = yt, xg = yg PROVE FALSE OBVIOUS
  <2>2. x = y BY <1>4, <1>5, <2>1 DEF Place
  <2>3. Q = -R BY <1>2, <1>3, <2>2, EdgeTerms
  <2>4. QED BY <1>8, <2>3
<1>11. Q <= 0 /\ R <= 0 BY <1>7, <1>8, <1>9, <1>10, OnEdgeInside
<1>12. QED BY <1>1, <1>2, <1>3, <1>7, <1>11 DEF Inside

(* Casting a ray decides being inside, but for the edges.                  *)
LEMMA OddIsInside ==
    ASSUME NEW x \in Place, NEW y \in Place, NEW z \in Place, NEW p \in Place,
           Cross(x, y, z) < 0
    PROVE  /\ OddOfThree(x, y, z, p) => Inside(x, y, z, p)
           /\ Inside(x, y, z, p) => \/ OddOfThree(x, y, z, p)
                                    \/ Cross(x, y, p) = 0 \/ Cross(y, z, p) = 0 \/ Cross(z, x, p) = 0
<1>1. PICK P \in Int : P = Cross(x, y, p) BY EdgeTerms
<1>2. PICK Q \in Int : Q = Cross(y, z, p) BY EdgeTerms
<1>3. PICK R \in Int : R = Cross(z, x, p) BY EdgeTerms
<1>4. PICK xt \in Int : xt = x.lat - p.lat BY DEF Place
<1>5. PICK yt \in Int : yt = y.lat - p.lat BY DEF Place
<1>6. PICK zt \in Int : zt = z.lat - p.lat BY DEF Place
<1>7. P + Q + R < 0 BY <1>1, <1>2, <1>3, CornerTerms
<1>8. Q * xt + R * yt + P * zt = 0
  BY <1>1, <1>2, <1>3, <1>4, <1>5, <1>6, CornerTerms
<1>9. OddOfThree(x, y, z, p) <=> (Meets(xt, yt, P) # Meets(yt, zt, Q)) # Meets(zt, xt, R)
  <2>1. /\ RayCrosses(x, y, p) <=> Meets(xt, yt, P)
        /\ RayCrosses(y, z, p) <=> Meets(yt, zt, Q)
        /\ RayCrosses(z, x, p) <=> Meets(zt, xt, R)
    BY <1>1, <1>2, <1>3, <1>4, <1>5, <1>6, EdgeTerms
  <2>2. QED BY <2>1 DEF OddOfThree, RayCrosses, Meets
<1>10. (Meets(xt, yt, P) # Meets(yt, zt, Q)) # Meets(zt, xt, R) => P <= 0 /\ Q <= 0 /\ R <= 0
  <2>1. ~(Meets(xt, yt, P) /\ Meets(yt, zt, Q) /\ Meets(zt, xt, R)) BY NeverThree
  <2>2. CASE Meets(xt, yt, P) /\ ~Meets(yt, zt, Q) /\ ~Meets(zt, xt, R)
    BY <1>7, <1>8, <2>2, OneCrossing
  <2>3. CASE Meets(yt, zt, Q) /\ ~Meets(zt, xt, R) /\ ~Meets(xt, yt, P)
    <3>1. Q + R + P < 0 /\ R * yt + P * zt + Q * xt = 0
      <4>1. Q * xt \in Int /\ R * yt \in Int /\ P * zt \in Int OBVIOUS
      <4>2. QED BY <1>7, <1>8, <4>1
    <3>2. QED BY <2>3, <3>1, OneCrossing
  <2>4. CASE Meets(zt, xt, R) /\ ~Meets(xt, yt, P) /\ ~Meets(yt, zt, Q)
    <3>1. R + P + Q < 0 /\ P * zt + Q * xt + R * yt = 0
      <4>1. Q * xt \in Int /\ R * yt \in Int /\ P * zt \in Int OBVIOUS
      <4>2. QED BY <1>7, <1>8, <4>1
    <3>2. QED BY <2>4, <3>1, OneCrossing
  <2>5. QED BY <2>1, <2>2, <2>3, <2>4 DEF Meets
<1>11. P < 0 /\ Q < 0 /\ R < 0 => (Meets(xt, yt, P) # Meets(yt, zt, Q)) # Meets(zt, xt, R)
  <2>1. SUFFICES ASSUME P < 0, Q < 0, R < 0
                 PROVE  (Meets(xt, yt, P) # Meets(yt, zt, Q)) # Meets(zt, xt, R)
    BY DEF Meets
  <2>2. ~(xt = 0 /\ yt = 0 /\ zt = 0)
    <3>1. SUFFICES ASSUME xt = 0, yt = 0 PROVE FALSE OBVIOUS
    <3>2. x.lat = p.lat /\ y.lat = p.lat BY <1>4, <1>5, <3>1 DEF Place
    <3>3. (p.lat - x.lat) = 0 /\ y.lat - x.lat = 0 BY <3>2 DEF Place
    <3>4. Cross(x, y, p) = 0 BY <3>3, Products DEF Cross, Place
    <3>5. QED BY <1>1, <2>1, <3>4
  <2>3. QED BY <1>8, <2>1, <2>2, InsideMeets
<1>12. QED BY <1>1, <1>2, <1>3, <1>9, <1>10, <1>11 DEF Inside

OddSet(S) == Cardinality(S) % 2 = 1

(* A set, and one more member if there is a reason for it.                 *)
Perhaps(S, e, n) == IF n THEN S \cup {e} ELSE S

(* One more member turns the parity of a set.                              *)
LEMMA OddOneMore ==
    ASSUME NEW S, IsFiniteSet(S), NEW e, e \notin S, NEW n \in BOOLEAN
    PROVE  IsFiniteSet(Perhaps(S, e, n)) /\ (OddSet(Perhaps(S, e, n)) <=> (OddSet(S) # n))
<1>1. PICK k \in Nat : Cardinality(S) = k BY FS_CardinalityType
<1>2. CASE n
  <2>1. Perhaps(S, e, n) = S \cup {e} BY <1>2 DEF Perhaps
  <2>2. IsFiniteSet(S \cup {e}) /\ Cardinality(S \cup {e}) = k + 1 BY <1>1, FS_AddElement
  <2>3. ((k + 1) % 2 = 1) <=> ~(k % 2 = 1) OBVIOUS
  <2>4. OddSet(S \cup {e}) <=> ~OddSet(S) BY <1>1, <2>2, <2>3 DEF OddSet
  <2>5. QED BY <1>2, <2>1, <2>2, <2>4 DEF OddSet
<1>3. CASE ~n
  <2>1. Perhaps(S, e, n) = S BY <1>3 DEF Perhaps
  <2>2. QED BY <1>3, <2>1 DEF OddSet
<1>4. QED BY <1>2, <1>3

(* A set of one member or none.                                            *)
LEMMA OddOne ==
    ASSUME NEW e, NEW n \in BOOLEAN
    PROVE  IsFiniteSet(Perhaps({}, e, n)) /\ (OddSet(Perhaps({}, e, n)) <=> n)
<1>1. IsFiniteSet({}) /\ ~OddSet({}) BY FS_EmptySet DEF OddSet
<1>2. e \notin {} OBVIOUS
<1>3. QED BY <1>1, <1>2, OddOneMore DEF OddSet

(* The closing vertex of a triangle is dropped.                            *)
LEMMA TriangleEdges ==
    ASSUME NEW x \in Place, NEW y \in Place, NEW z \in Place
    PROVE  Edges(<<x, y, z, x>>) = {<<x, z>>, <<y, x>>, <<z, y>>}
<1> DEFINE t == <<x, y, z, x>>  r == <<x, y, z>>
<1>1. Ring(t) = r
  <2>1. Len(t) = 4 /\ Head(t) = x /\ t[4] = x OBVIOUS
  <2>2. SubSeq(t, 1, 3) = r
    <3>1. t \in Seq(Place) /\ r \in Seq(Place) OBVIOUS
    <3>2. /\ SubSeq(t, 1, 3) \in Seq(Place) /\ Len(SubSeq(t, 1, 3)) = 3
          /\ \A i \in 1..3 : SubSeq(t, 1, 3)[i] = t[i]
      BY <2>1, <3>1, SubSeqProperties
    <3>3. Len(r) = 3 /\ \A i \in 1..3 : r[i] = t[i] OBVIOUS
    <3>4. PICK q \in Seq(Place) : q = SubSeq(t, 1, 3) BY <3>2
    <3>5. Len(q) = 3 /\ \A i \in 1..3 : q[i] = r[i] BY <3>2, <3>3, <3>4
    <3> HIDE DEF r
    <3>6. q = r BY <3>1, <3>3, <3>5, SeqEqual
    <3>7. QED BY <3>4, <3>6
  <2>3. QED BY <2>1, <2>2 DEF Ring
<1>2. Len(r) = 3 /\ DOMAIN r = {1, 2, 3} /\ r[1] = x /\ r[2] = y /\ r[3] = z OBVIOUS
<1> HIDE DEF t, r
<1>3. Edges(t) = {<<r[i], r[IF i = 1 THEN 3 ELSE i - 1]>> : i \in {1, 2, 3}}
  BY <1>1, <1>2 DEF Edges
<1>4. Edges(t) = {<<r[1], r[3]>>, <<r[2], r[1]>>, <<r[3], r[2]>>} BY <1>3
<1>5. QED BY <1>2, <1>4 DEF t

(* A ring that is not closed keeps every vertex.                           *)
LEMMA QuadEdges ==
    ASSUME NEW a \in Place, NEW b \in Place, NEW c \in Place, NEW d \in Place, a # d
    PROVE  Edges(<<a, b, c, d>>) = {<<a, d>>, <<b, a>>, <<c, b>>, <<d, c>>}
<1> DEFINE t == <<a, b, c, d>>
<1>1. Len(t) = 4 /\ DOMAIN t = {1, 2, 3, 4} /\ t[1] = a /\ t[2] = b /\ t[3] = c /\ t[4] = d
  OBVIOUS
<1>2. Head(t) = a OBVIOUS
<1> HIDE DEF t
<1>3. Ring(t) = t BY <1>1, <1>2 DEF Ring
<1>4. Edges(t) = {<<t[i], t[IF i = 1 THEN 4 ELSE i - 1]>> : i \in {1, 2, 3, 4}}
  BY <1>1, <1>3 DEF Edges
<1>5. Edges(t) = {<<t[1], t[4]>>, <<t[2], t[1]>>, <<t[3], t[2]>>, <<t[4], t[3]>>} BY <1>4
<1>6. QED BY <1>1, <1>5 DEF t

(* The count the source keeps as a bit it turns.                           *)
Turned(E, p) == OddSet({e \in E : RayCrosses(e[1], e[2], p)})

(* Counting a triangle's edges.                                            *)
LEMMA OddTriangle ==
    ASSUME NEW x \in Place, NEW y \in Place, NEW z \in Place, NEW p \in Place,
           x # y, y # z, z # x
    PROVE  Turned({<<x, z>>, <<y, x>>, <<z, y>>}, p) <=> OddOfThree(x, y, z, p)
<1> DEFINE c1 == RayCrosses(x, z, p)  c2 == RayCrosses(y, x, p)  c3 == RayCrosses(z, y, p)
           S1 == Perhaps({}, <<x, z>>, c1)
           S2 == Perhaps(S1, <<y, x>>, c2)
           S3 == Perhaps(S2, <<z, y>>, c3)
<1>1. c1 \in BOOLEAN /\ c2 \in BOOLEAN /\ c3 \in BOOLEAN BY DEF RayCrosses
<1>2. <<y, x>> \notin S1 /\ <<z, y>> \notin S2 BY DEF Perhaps
<1>3. {e \in {<<x, z>>, <<y, x>>, <<z, y>>} : RayCrosses(e[1], e[2], p)} = S3 BY DEF Perhaps
<1>0. /\ c1 <=> RayCrosses(z, x, p)
      /\ c2 <=> RayCrosses(x, y, p)
      /\ c3 <=> RayCrosses(y, z, p)
  BY EdgeTerms
<1> HIDE DEF c1, c2, c3
<1>4. IsFiniteSet(S1) /\ (OddSet(S1) <=> c1) BY <1>1, OddOne
<1> HIDE DEF S1
<1>5. IsFiniteSet(S2) /\ (OddSet(S2) <=> (OddSet(S1) # c2))
  BY <1>1, <1>2, <1>4, OddOneMore
<1> HIDE DEF S2
<1>6. IsFiniteSet(S3) /\ (OddSet(S3) <=> (OddSet(S2) # c3))
  BY <1>1, <1>2, <1>5, OddOneMore
<1> HIDE DEF S3
<1>7. OddSet(S3) <=> ((c1 # c2) # c3) BY <1>1, <1>4, <1>5, <1>6 DEF OddSet
<1>8. ((c1 # c2) # c3) <=> OddOfThree(x, y, z, p) BY <1>1, <1>0 DEF OddOfThree, RayCrosses
<1>9. QED BY <1>3, <1>7, <1>8 DEF Turned

(* Counting a quadrilateral's edges.                                       *)
LEMMA OddQuad ==
    ASSUME NEW a \in Place, NEW b \in Place, NEW c \in Place, NEW d \in Place, NEW p \in Place,
           a # b, a # c, a # d, b # c, b # d, c # d
    PROVE  Turned({<<a, d>>, <<b, a>>, <<c, b>>, <<d, c>>}, p)
             <=> ((RayCrosses(a, b, p) # RayCrosses(b, c, p)) # (RayCrosses(c, d, p) # RayCrosses(d, a, p)))
<1> DEFINE c1 == RayCrosses(a, d, p)  c2 == RayCrosses(b, a, p)
           c3 == RayCrosses(c, b, p)  c4 == RayCrosses(d, c, p)
           S1 == Perhaps({}, <<a, d>>, c1)
           S2 == Perhaps(S1, <<b, a>>, c2)
           S3 == Perhaps(S2, <<c, b>>, c3)
           S4 == Perhaps(S3, <<d, c>>, c4)
<1>1. c1 \in BOOLEAN /\ c2 \in BOOLEAN /\ c3 \in BOOLEAN /\ c4 \in BOOLEAN BY DEF RayCrosses
<1>2. <<b, a>> \notin S1 /\ <<c, b>> \notin S2 /\ <<d, c>> \notin S3 BY DEF Perhaps
<1>3. {e \in {<<a, d>>, <<b, a>>, <<c, b>>, <<d, c>>} : RayCrosses(e[1], e[2], p)} = S4 BY DEF Perhaps
<1>0. /\ c1 <=> RayCrosses(d, a, p)
      /\ c2 <=> RayCrosses(a, b, p)
      /\ c3 <=> RayCrosses(b, c, p)
      /\ c4 <=> RayCrosses(c, d, p)
  BY EdgeTerms
<1> HIDE DEF c1, c2, c3, c4
<1>4. IsFiniteSet(S1) /\ (OddSet(S1) <=> c1) BY <1>1, OddOne
<1> HIDE DEF S1
<1>5. IsFiniteSet(S2) /\ (OddSet(S2) <=> (OddSet(S1) # c2))
  BY <1>1, <1>2, <1>4, OddOneMore
<1> HIDE DEF S2
<1>6. IsFiniteSet(S3) /\ (OddSet(S3) <=> (OddSet(S2) # c3))
  BY <1>1, <1>2, <1>5, OddOneMore
<1> HIDE DEF S3
<1>7. OddSet(S4) <=> (OddSet(S3) # c4)
  BY <1>1, <1>2, <1>6, OddOneMore
<1> HIDE DEF S4
<1>8. OddSet(S4) <=> ((c2 # c3) # (c4 # c1)) BY <1>1, <1>4, <1>5, <1>6, <1>7 DEF OddSet
<1>9. ((c2 # c3) # (c4 # c1))
        <=> ((RayCrosses(a, b, p) # RayCrosses(b, c, p)) # (RayCrosses(c, d, p) # RayCrosses(d, a, p)))
  BY <1>1, <1>0 DEF RayCrosses
<1>10. QED BY <1>3, <1>8, <1>9 DEF Turned

(* A triangle that is not flat has three corners.                          *)
LEMMA CornersApart ==
    ASSUME NEW x \in Place, NEW y \in Place, NEW z \in Place, Cross(x, y, z) # 0
    PROVE  x # y /\ y # z /\ z # x
<1>1. Cross(x, x, z) \in Int /\ Cross(x, x, z) + Cross(x, x, z) = 0 BY EdgeTerms
<1>2. x # y
  <2>1. Cross(x, x, z) = 0 BY ONLY <1>1
  <2>2. QED BY <2>1
<1>3. Cross(x, y, z) = Cross(y, z, x) /\ Cross(x, y, z) = -Cross(x, z, y) BY CornerTerms
<1>4. y # z
  <2>1. SUFFICES ASSUME y = z PROVE FALSE OBVIOUS
  <2>2. Cross(y, z, x) = -Cross(z, y, x) /\ Cross(y, z, x) \in Int BY EdgeTerms
  <2>3. QED BY <1>3, <2>1, <2>2
<1>5. z # x
  <2>1. SUFFICES ASSUME z = x PROVE FALSE OBVIOUS
  <2>2. Cross(z, x, y) = -Cross(x, z, y) /\ Cross(x, z, y) \in Int BY EdgeTerms
  <2>3. QED BY <1>3, <2>1, <2>2
<1>6. QED BY <1>2, <1>4, <1>5

(* The source's test of a triangle's border is being on one of its edges.  *)
LEMMA TriangleBorder ==
    ASSUME NEW x \in Place, NEW y \in Place, NEW z \in Place, NEW p \in Place
    PROVE  OnBorder(<<x, y, z, x>>, p)
             <=> OnSegment(x, y, p) \/ OnSegment(y, z, p) \/ OnSegment(z, x, p)
<1> DEFINE t == <<x, y, z, x>>
<1>1. Edges(t) = {<<x, z>>, <<y, x>>, <<z, y>>} BY TriangleEdges
<1> HIDE DEF t
<1>2. OnBorder(t, p) <=> OnSegment(x, z, p) \/ OnSegment(y, x, p) \/ OnSegment(z, y, p)
  BY <1>1 DEF OnBorder
<1>3. OnBorder(t, p) <=> OnSegment(x, y, p) \/ OnSegment(y, z, p) \/ OnSegment(z, x, p)
  BY <1>2, EdgeTerms
<1>4. QED BY <1>3 DEF t

(* The source's test of a triangle is being inside it.                     *)
LEMMA TriangleContains ==
    ASSUME NEW x \in Place, NEW y \in Place, NEW z \in Place, NEW p \in Place, Cross(x, y, z) < 0
    PROVE  Contains(<<x, y, z, x>>, p) <=> Inside(x, y, z, p)
<1>1. x # y /\ y # z /\ z # x BY CornersApart
<1>2. Edges(<<x, y, z, x>>) = {<<x, z>>, <<y, x>>, <<z, y>>} BY TriangleEdges
<1>3. OnBorder(<<x, y, z, x>>, p) <=> OnSegment(x, y, p) \/ OnSegment(y, z, p) \/ OnSegment(z, x, p)
  BY TriangleBorder
<1>4. Contains(<<x, y, z, x>>, p) <=> /\ InBoundingBox(<<x, y, z, x>>, p)
                                      /\ OnBorder(<<x, y, z, x>>, p) \/ OddOfThree(x, y, z, p)
  <2>1. Turned(Edges(<<x, y, z, x>>), p) <=> OddOfThree(x, y, z, p) BY <1>1, <1>2, OddTriangle
  <2>2. QED BY <2>1 DEF Contains, Turned, OddSet
<1>5. Cross(y, z, x) < 0 /\ Cross(z, x, y) < 0 BY CornerTerms
<1>6. ASSUME OnBorder(<<x, y, z, x>>, p) PROVE Inside(x, y, z, p)
  <2>1. OnSegment(x, y, p) => Inside(x, y, z, p) BY EdgeInside
  <2>2. OnSegment(y, z, p) => Inside(y, z, x, p) BY <1>5, EdgeInside
  <2>3. OnSegment(z, x, p) => Inside(z, x, y, p) BY <1>5, EdgeInside
  <2>4. QED BY <1>3, <1>6, <2>1, <2>2, <2>3 DEF Inside
<1>7. OddOfThree(x, y, z, p) => Inside(x, y, z, p) BY OddIsInside
<1>8. ASSUME Inside(x, y, z, p) PROVE Contains(<<x, y, z, x>>, p)
  <2>1. InBoundingBox(<<x, y, z, x>>, p) BY <1>8, InsideOnEdge
  <2>2. OnBorder(<<x, y, z, x>>, p) \/ OddOfThree(x, y, z, p)
    BY <1>3, <1>8, InsideOnEdge, OddIsInside
  <2>3. QED BY <1>4, <2>1, <2>2
<1>9. QED BY <1>4, <1>6, <1>7, <1>8

(* A ring with more vertices has no smaller box.                           *)
LEMMA BoxGrows ==
    ASSUME NEW a, NEW b, NEW c, NEW d, NEW p
    PROVE  /\ InBoundingBox(<<a, b, c, a>>, p) => InBoundingBox(<<a, b, c, d>>, p)
           /\ InBoundingBox(<<a, c, d, a>>, p) => InBoundingBox(<<a, b, c, d>>, p)
<1> DEFINE q == <<a, b, c, d>>  s == <<a, b, c, a>>  t == <<a, c, d, a>>
<1>1. /\ DOMAIN q = {1, 2, 3, 4} /\ DOMAIN s = {1, 2, 3, 4} /\ DOMAIN t = {1, 2, 3, 4}
      /\ q[1] = a /\ q[2] = b /\ q[3] = c /\ q[4] = d
      /\ s[1] = a /\ s[2] = b /\ s[3] = c /\ s[4] = a
      /\ t[1] = a /\ t[2] = c /\ t[3] = d /\ t[4] = a
  OBVIOUS
<1> HIDE DEF q, s, t
<1>2. \A i \in DOMAIN s : \E j \in DOMAIN q : s[i] = q[j] BY <1>1
<1>3. \A i \in DOMAIN t : \E j \in DOMAIN q : t[i] = q[j] BY <1>1
<1>4. InBoundingBox(s, p) => InBoundingBox(q, p) BY <1>2 DEF InBoundingBox
<1>5. InBoundingBox(t, p) => InBoundingBox(q, p) BY <1>3 DEF InBoundingBox
<1>6. QED BY <1>4, <1>5 DEF q, s, t

(* A cross product seen from the point asked about.                        *)
LEMMA FromPlace ==
    ASSUME NEW u \in Place, NEW v \in Place, NEW p \in Place
    PROVE  Cross(u, v, p) = (u.lng - p.lng) * (v.lat - p.lat) - (u.lat - p.lat) * (v.lng - p.lng)
<1>1. PICK ut \in Int, ug \in Int : u.lat = ut /\ u.lng = ug BY DEF Place
<1>2. PICK vt \in Int, vg \in Int : v.lat = vt /\ v.lng = vg BY DEF Place
<1>3. PICK pt \in Int, pg \in Int : p.lat = pt /\ p.lng = pg BY DEF Place
<1>4. (pt - ut) * (vg - ug) - (pg - ug) * (vt - ut) = (ug - pg) * (vt - pt) - (ut - pt) * (vg - pg)
  OBVIOUS
<1>5. QED BY <1>1, <1>2, <1>3, <1>4 DEF Cross

(* The same of a quadrilateral.                                            *)
OddOfFour(a, b, c, d, p) ==
    (RayCrosses(a, b, p) # RayCrosses(b, c, p)) # (RayCrosses(c, d, p) # RayCrosses(d, a, p))

(* From the diagonal itself the ray crosses one outer edge: the two at the *)
(* corner it starts from lie on either side of it.                         *)
LEMMA DiagonalIsOdd ==
    ASSUME NEW a \in Place, NEW b \in Place, NEW c \in Place, NEW d \in Place, NEW p \in Place,
           Cross(a, b, p) < 0, Cross(b, c, p) < 0, Cross(c, d, p) < 0, Cross(d, a, p) < 0,
           OnSegment(c, a, p)
    PROVE  OddOfFour(a, b, c, d, p)
<1>1. PICK at \in Int, ag \in Int : at = a.lat - p.lat /\ ag = a.lng - p.lng BY DEF Place
<1>2. PICK bt \in Int, bg \in Int : bt = b.lat - p.lat /\ bg = b.lng - p.lng BY DEF Place
<1>3. PICK ct \in Int, cg \in Int : ct = c.lat - p.lat /\ cg = c.lng - p.lng BY DEF Place
<1>4. PICK dt \in Int, dg \in Int : dt = d.lat - p.lat /\ dg = d.lng - p.lng BY DEF Place
<1>5. PICK ab \in Int, bc \in Int, cd \in Int, da \in Int :
        /\ ab = Cross(a, b, p) /\ bc = Cross(b, c, p) /\ cd = Cross(c, d, p) /\ da = Cross(d, a, p)
  BY EdgeTerms
<1>6. Cross(c, a, p) = 0 /\ Spans(at, ct)
  <2>1. OnSegment(a, c, p) BY EdgeTerms
  <2>2. QED BY <1>1, <1>3, <2>1, EdgeTerms
<1>7. /\ bc = bg * ct - bt * cg /\ cd = cg * dt - ct * dg /\ ab = ag * bt - at * bg
      /\ cg * at - ct * ag = 0
  BY <1>1, <1>2, <1>3, <1>4, <1>5, <1>6, FromPlace
<1>8. (Meets(at, bt, ab) # Meets(bt, ct, bc)) # (Meets(ct, dt, cd) # Meets(dt, at, da))
  <2>0. ab < 0 /\ bc < 0 /\ cd < 0 /\ da < 0 BY <1>5
  <2>1. /\ Meets(at, bt, ab) <=> at > 0 /\ ~(bt > 0)
        /\ Meets(bt, ct, bc) <=> bt > 0 /\ ~(ct > 0)
        /\ Meets(ct, dt, cd) <=> ct > 0 /\ ~(dt > 0)
        /\ Meets(dt, at, da) <=> dt > 0 /\ ~(at > 0)
    BY <2>0 DEF Meets
  <2>2. CASE at > 0 /\ ct <= 0
    BY <2>1, <2>2 DEF Meets
  <2>3. CASE ct > 0 /\ at <= 0
    BY <2>1, <2>3 DEF Meets
  <2>4. CASE at <= 0 /\ ct <= 0
    <3>1. at = 0 \/ ct = 0 BY <1>6, <2>4 DEF Spans
    <3>2. ct = 0
      <4>1. SUFFICES ASSUME at = 0, ct # 0 PROVE FALSE BY <3>1
      <4>2. cg * at = 0 BY <4>1, Products
      <4>3. ct * ag = 0
        <5>1. cg * at \in Int /\ ct * ag \in Int OBVIOUS
        <5>2. QED BY <1>7, <4>2, <5>1
      <4>4. ag = 0 BY <4>1, <4>3, Products
      <4>5. ag * bt = 0 /\ at * bg = 0 BY <4>1, <4>4, Products
      <4>6. QED BY <1>7, <2>0, <4>5
    <3>3. ct * dg = 0 /\ bg * ct = 0 BY <3>2, Products
    <3>4. bt * cg \in Int /\ cg * dt \in Int /\ bt * cg > 0 /\ cg * dt < 0 BY <1>7, <2>0, <3>3
    <3>5. /\ cg > 0 => bt > 0 /\ dt < 0
          /\ cg < 0 => bt < 0 /\ dt > 0
          /\ cg # 0
      <4>1. cg # 0 BY <3>4, Products
      <4>2. cg > 0 => bt > 0 /\ dt < 0 BY <3>4, Products
      <4>3. cg < 0 => bt < 0 /\ dt > 0 BY <3>4, Products
      <4>4. QED BY <4>1, <4>2, <4>3
    <3>6. (bt > 0) # (dt > 0) BY <3>5
    <3>7. QED BY <2>1, <2>4, <3>2, <3>6 DEF Meets
  <2>5. QED BY <1>6, <2>2, <2>3, <2>4 DEF Spans
<1>9. /\ RayCrosses(a, b, p) <=> Meets(at, bt, ab)
      /\ RayCrosses(b, c, p) <=> Meets(bt, ct, bc)
      /\ RayCrosses(c, d, p) <=> Meets(ct, dt, cd)
      /\ RayCrosses(d, a, p) <=> Meets(dt, at, da)
  BY <1>1, <1>2, <1>3, <1>4, <1>5, EdgeTerms
<1>10. QED BY <1>8, <1>9 DEF OddOfFour, RayCrosses, Meets

(* A quadrilateral holds what its two halves hold (polygon.go, Contains).  *)
LEMMA CutAlongADiagonal ==
    ASSUME NEW a \in Place, NEW b \in Place, NEW c \in Place, NEW d \in Place, NEW p \in Place,
           Cross(a, c, b) > 0, Cross(a, c, d) < 0
    PROVE  Contains(<<a, b, c, d>>, p) <=> Contains(<<a, b, c, a>>, p) \/ Contains(<<a, c, d, a>>, p)
<1>1. Cross(a, b, c) < 0 /\ Cross(c, a, b) < 0 /\ Cross(b, c, a) < 0
  <2>1. Cross(a, b, c) = -Cross(a, c, b) /\ Cross(b, c, a) = Cross(a, b, c) BY CornerTerms
  <2>2. Cross(c, a, b) = Cross(b, c, a) BY CornerTerms
  <2>3. Cross(a, c, b) \in Int BY EdgeTerms
  <2>4. QED BY <2>1, <2>2, <2>3
<1>2. a # b /\ b # c /\ c # a /\ a # d /\ c # d
  <2>1. Cross(a, b, c) # 0 /\ Cross(a, c, d) # 0 BY <1>1
  <2>2. (a # b /\ b # c /\ c # a) /\ (a # c /\ c # d /\ d # a) BY <2>1, CornersApart
  <2>3. QED BY <2>2
<1>3. b # d
  <2>1. Cross(a, c, b) \in Int BY EdgeTerms
  <2>2. QED BY <2>1
<1> DEFINE quad == <<a, b, c, d>>
           one == Inside(a, b, c, p)
           two == Inside(a, c, d, p)
<1>4. Contains(<<a, b, c, a>>, p) <=> one BY <1>1, TriangleContains
<1>5. Contains(<<a, c, d, a>>, p) <=> two BY TriangleContains
<1>6. /\ OnBorder(quad, p) <=> \/ OnSegment(a, b, p) \/ OnSegment(b, c, p)
                               \/ OnSegment(c, d, p) \/ OnSegment(d, a, p)
      /\ Contains(quad, p) <=> InBoundingBox(quad, p) /\ (OnBorder(quad, p) \/ OddOfFour(a, b, c, d, p))
  <2>1. Edges(quad) = {<<a, d>>, <<b, a>>, <<c, b>>, <<d, c>>} BY <1>2, QuadEdges
  <2> HIDE DEF quad
  <2>2. OnBorder(quad, p) <=> \/ OnSegment(a, d, p) \/ OnSegment(b, a, p)
                              \/ OnSegment(c, b, p) \/ OnSegment(d, c, p)
    BY <2>1 DEF OnBorder
  <2>3. Turned(Edges(quad), p) <=> OddOfFour(a, b, c, d, p)
    BY <1>2, <1>3, <2>1, OddQuad DEF OddOfFour
  <2>4. QED BY <2>2, <2>3, EdgeTerms DEF Contains, Turned, OddSet
<1>7. OddOfFour(a, b, c, d, p) <=> (OddOfThree(a, b, c, p) # OddOfThree(a, c, d, p))
  <2>1. RayCrosses(c, a, p) <=> RayCrosses(a, c, p) BY EdgeTerms
  <2>2. QED BY <2>1 DEF OddOfFour, OddOfThree, RayCrosses
<1>8. (one \/ two) => InBoundingBox(quad, p) BY <1>4, <1>5, BoxGrows DEF Contains
<1> HIDE DEF quad
<1>9. ASSUME OnBorder(quad, p) PROVE one \/ two
  <2>1. Cross(c, d, a) < 0 /\ Cross(d, a, c) < 0 BY CornerTerms
  <2>2. OnSegment(a, b, p) => one BY <1>1, EdgeInside
  <2>3. OnSegment(b, c, p) => one
    <3>1. OnSegment(b, c, p) => Inside(b, c, a, p) BY <1>1, EdgeInside
    <3>2. QED BY <3>1 DEF Inside
  <2>4. OnSegment(c, d, p) => two
    <3>1. OnSegment(c, d, p) => Inside(c, d, a, p) BY <2>1, EdgeInside
    <3>2. QED BY <3>1 DEF Inside
  <2>5. OnSegment(d, a, p) => two
    <3>1. OnSegment(d, a, p) => Inside(d, a, c, p) BY <2>1, EdgeInside
    <3>2. QED BY <3>1 DEF Inside
  <2>6. QED BY <1>6, <1>9, <2>2, <2>3, <2>4, <2>5
<1>10. OddOfFour(a, b, c, d, p) => one \/ two
  <2>1. OddOfThree(a, b, c, p) => one BY <1>1, OddIsInside
  <2>2. OddOfThree(a, c, d, p) => two BY OddIsInside
  <2>3. QED BY <1>7, <2>1, <2>2 DEF OddOfThree
<1>11. ASSUME one \/ two, ~OnBorder(quad, p) PROVE OddOfFour(a, b, c, d, p)
  <2>1. /\ Cross(a, b, p) \in Int /\ Cross(b, c, p) \in Int /\ Cross(c, d, p) \in Int
        /\ Cross(d, a, p) \in Int /\ Cross(c, a, p) \in Int /\ Cross(a, c, p) = -Cross(c, a, p)
    BY EdgeTerms
  <2>2. one => Cross(a, b, p) < 0 /\ Cross(b, c, p) < 0
    <3>1. SUFFICES ASSUME one PROVE Cross(a, b, p) < 0 /\ Cross(b, c, p) < 0 OBVIOUS
    <3>2. Cross(a, b, p) <= 0 /\ Cross(b, c, p) <= 0 BY <3>1 DEF Inside
    <3>3. /\ Cross(a, b, p) = 0 => OnSegment(a, b, p)
          /\ Cross(b, c, p) = 0 => OnSegment(b, c, p)
      BY <1>1, <3>1, InsideOnEdge
    <3>4. QED BY <1>6, <1>11, <2>1, <3>2, <3>3
  <2>3. two => Cross(c, d, p) < 0 /\ Cross(d, a, p) < 0
    <3>1. SUFFICES ASSUME two PROVE Cross(c, d, p) < 0 /\ Cross(d, a, p) < 0 OBVIOUS
    <3>2. Cross(c, d, p) <= 0 /\ Cross(d, a, p) <= 0 BY <3>1 DEF Inside
    <3>3. /\ Cross(c, d, p) = 0 => OnSegment(c, d, p)
          /\ Cross(d, a, p) = 0 => OnSegment(d, a, p)
      BY <3>1, InsideOnEdge
    <3>4. QED BY <1>6, <1>11, <2>1, <3>2, <3>3
  <2>4. CASE Cross(c, a, p) = 0
    <3>1. OnSegment(c, a, p) /\ OnSegment(a, c, p)
      <4>1. one => OnSegment(c, a, p) BY <1>1, <2>4, InsideOnEdge
      <4>2. two => OnSegment(a, c, p)
        <5>1. Cross(a, c, p) + Cross(c, a, p) = 0 /\ Cross(a, c, p) \in Int BY EdgeTerms
        <5>2. Cross(a, c, p) = 0 BY <2>4, <5>1
        <5>3. QED BY <5>2, InsideOnEdge
      <4>3. QED BY <1>11, <4>1, <4>2, EdgeTerms
    <3>2. one
      <4>1. Inside(c, a, b, p) BY <1>1, <3>1, EdgeInside
      <4>2. QED BY <4>1 DEF Inside
    <3>3. two BY <3>1, EdgeInside
    <3>4. QED BY <2>2, <2>3, <3>1, <3>2, <3>3, DiagonalIsOdd
  <2>5. CASE Cross(c, a, p) < 0
    <3>1. ~two BY <2>1, <2>5 DEF Inside
    <3>2. ~OddOfThree(a, c, d, p) BY <3>1, OddIsInside
    <3>3. OddOfThree(a, b, c, p) BY <1>1, <1>11, <2>1, <2>2, <2>5, <3>1, OddIsInside
    <3>4. QED BY <1>7, <3>2, <3>3
  <2>6. CASE Cross(c, a, p) > 0
    <3>1. ~one BY <2>1, <2>6 DEF Inside
    <3>2. ~OddOfThree(a, b, c, p) BY <1>1, <3>1, OddIsInside
    <3>3. OddOfThree(a, c, d, p)
      <4>1. Cross(a, c, p) # 0 /\ Cross(c, d, p) # 0 /\ Cross(d, a, p) # 0
        BY <1>11, <2>1, <2>3, <2>6, <3>1
      <4>2. QED BY <1>11, <3>1, <4>1, OddIsInside
    <3>4. QED BY <1>7, <3>2, <3>3
  <2>7. QED BY <2>1, <2>4, <2>5, <2>6
<1> HIDE DEF one, two
<1>12. QED BY <1>4, <1>5, <1>6, <1>8, <1>9, <1>10, <1>11 DEF quad

(* What both halves hold is on the diagonal, which is a border of both.    *)
LEMMA HalvesAreApart ==
    ASSUME NEW a \in Place, NEW b \in Place, NEW c \in Place, NEW d \in Place, NEW p \in Place,
           Cross(a, c, b) > 0, Cross(a, c, d) < 0,
           STContains(<<a, b, c, a>>, p), STContains(<<a, c, d, a>>, p)
    PROVE  FALSE
<1>1. Cross(a, b, c) < 0
  <2>1. Cross(a, b, c) = -Cross(a, c, b) /\ Cross(a, c, b) \in Int BY CornerTerms, EdgeTerms
  <2>2. QED BY <2>1
<1>2. Inside(a, b, c, p) /\ Inside(a, c, d, p) BY <1>1, TriangleContains DEF STContains
<1>3. Cross(c, a, p) <= 0 /\ Cross(a, c, p) <= 0 BY <1>2 DEF Inside
<1>4. /\ Cross(a, c, p) + Cross(c, a, p) = 0
      /\ Cross(a, c, p) \in Int /\ Cross(c, a, p) \in Int
  BY EdgeTerms
<1>5. Cross(c, a, p) = 0 BY <1>3, <1>4
<1>6. OnSegment(c, a, p) BY <1>1, <1>2, <1>5, InsideOnEdge
<1>7. OnBorder(<<a, b, c, a>>, p) BY <1>6, TriangleBorder
<1>8. QED BY <1>7 DEF STContains

(* So it is for every choice of corners and places.                        *)
LEMMA NoGaps ==
    ASSUME NEW points \in SUBSET Place
    PROVE  NoGapBetweenNeighbours(points) /\ NoOverlapOfNeighbours(points)
<1>1. NoGapBetweenNeighbours(points) BY CutAlongADiagonal DEF NoGapBetweenNeighbours
<1>2. NoOverlapOfNeighbours(points) BY HalvesAreApart DEF NoOverlapOfNeighbours
<1>3. QED BY <1>1, <1>2

(* Whatever shops do, two rings that share a border leave no place between *)
(* them, take none their union does not hold and share none, for any       *)
(* points of the plane (polygon.go, Contains).                             *)
THEOREM BordersAlwaysMeet == DSpec => []BordersMeet
<1>1. BordersMeet BY NoGaps, GridAssumption DEF BordersMeet, Place
<1> QED BY <1>1, PTL
=============================================================================
