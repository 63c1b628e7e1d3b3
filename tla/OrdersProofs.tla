---------------------------- MODULE OrdersProofs ----------------------------
(***************************************************************************)
(* For any orders, any number of concurrent requests, any window and any   *)
(* clock bound: the write path keeps its histories legal, and implements   *)
(* the lifecycle.                                                          *)
(***************************************************************************)
EXTENDS Orders, SequenceTheorems, TLAPS

(* Every row of the table goes up in rank.                                 *)
LEMMA MovesGoUp ==
    ASSUME NEW from \in Status, NEW to \in Status, NEW actor \in Actor,
           CanTransition(from, to, actor)
    PROVE  Rank(from) < Rank(to)
BY DEF Status, CanTransition, Moves, Rank

(* Ranks are numbers.                                                      *)
LEMMA RankIsNat ==
    ASSUME NEW s \in Status
    PROVE  Rank(s) \in Nat
BY DEF Status, Rank

(* IsTerminal statuses have no row.                                        *)
LEMMA FinishedGoesNowhere ==
    ASSUME NEW from \in Terminal, NEW to \in Status, NEW actor \in Actor
    PROVE  ~CanTransition(from, to, actor)
BY DEF Terminal, CanTransition, Moves

(* An order starts in a status that is in the table.                       *)
LEMMA InitialIsStatus ==
    ASSUME NEW m \in PaymentMethod
    PROVE  InitialStatus(m) \in Status
BY DEF PaymentMethod, InitialStatus, Status

(* A customer's cancellation is only legal before the kitchen starts.      *)
LEMMA CustomerCancelsEarly ==
    ASSUME NEW from \in Status, CanTransition(from, "cancelled", "customer")
    PROVE  Rank(from) <= 2
BY DEF Status, CanTransition, Moves, Rank

(* A request that is not idle holds all the fields of a decision.          *)
LEMMA ActiveCall ==
    ASSUME TypeOK, NEW c \in Calls, call[c].pc # "idle"
    PROVE  /\ call[c] = [pc |-> call[c].pc, order |-> call[c].order,
                         from |-> call[c].from, to |-> call[c].to,
                         actor |-> call[c].actor, at |-> call[c].at]
           /\ call[c].order \in Orders
           /\ call[c].from \in Status
           /\ call[c].to \in Status
           /\ call[c].actor \in Actor
           /\ call[c].at \in Nat
<1>1. call[c] \in Call
  BY DEF TypeOK
<1>2. call[c] # Idle
  BY DEF Idle
<1>3. call[c] \in [pc : {"decided", "written"}, order : Orders, from : Status,
                   to : Status, actor : Actor, at : Nat]
  BY <1>1, <1>2 DEF Call
<1> QED BY <1>3

-----------------------------------------------------------------------------
(* A database with no order row yet satisfies every part of the invariant. *)
LEMMA InitInv == Init => IInv
<1>1. SUFFICES ASSUME Init PROVE IInv
  OBVIOUS
<1>2. TypeOK
  BY <1>1, MaxTimeAssumption DEF Init, TypeOK, Call, Idle
<1>3. HistoryIsLegal /\ RanksRise /\ NothingFromTheFuture /\ TimesNeverGoBack
  BY <1>1 DEF Init, HistoryIsLegal, RanksRise, NothingFromTheFuture, TimesNeverGoBack
<1>4. DecisionsHold /\ AnnouncementsAreFresh
  BY <1>1 DEF Init, DecisionsHold, AnnouncementsAreFresh, Idle
<1>5. CustomersCancelInTime /\ AnnouncedOnce
  BY <1>1 DEF Init, CustomersCancelInTime, AnnouncedOnce
<1> QED BY <1>2, <1>3, <1>4, <1>5 DEF IInv

(* A new order has a history of one entry, which no request has read.      *)
LEMMA PlaceInv ==
    ASSUME IInv, NEW o \in Orders, Place(o)
    PROVE  IInv'
<1> DEFINE first == InitialStatus(payment[o])
           e == [status |-> first, actor |-> "customer", at |-> now]
<1>1. TypeOK BY DEF IInv
<1>2. first \in Status /\ e \in Event /\ now \in Nat
  BY <1>1, InitialIsStatus, MaxTimeAssumption DEF TypeOK, Event, Actor
<1>3. /\ status[o] = "none"
      /\ status' = [status EXCEPT ![o] = first]
      /\ placedAt' = [placedAt EXCEPT ![o] = now]
      /\ events' = [events EXCEPT ![o] = <<e>>]
      /\ UNCHANGED <<payment, call, told, now>>
  BY DEF Place
<1> HIDE DEF first, e
<1>4. e.status = first /\ e.at = now /\ e.actor = "customer"
  BY DEF e
<1>5. events'[o] = <<e>> /\ Len(events'[o]) = 1 /\ events'[o][1] = e /\ status'[o] = first
  BY <1>1, <1>3 DEF TypeOK
<1>6. \A p \in Orders : p # o => /\ events'[p] = events[p]
                                 /\ status'[p] = status[p]
                                 /\ placedAt'[p] = placedAt[p]
  BY <1>1, <1>3 DEF TypeOK
<1>7. events[o] = <<>> /\ "none" \notin Status
  BY <1>3 DEF IInv, HistoryIsLegal, Status
<1>8. TypeOK'
  <2>1. status' \in [Orders -> Status \cup {"none"}]
    BY <1>1, <1>2, <1>3 DEF TypeOK
  <2>2. placedAt' \in [Orders -> Nat]
    BY <1>1, <1>2, <1>3 DEF TypeOK
  <2>3. events' \in [Orders -> Seq(Event)]
    BY <1>1, <1>2, <1>3 DEF TypeOK
  <2> QED BY <1>1, <1>3, <2>1, <2>2, <2>3 DEF TypeOK
<1>9. HistoryIsLegal'
  <2>1. first = InitialStatus(payment'[o]) /\ first # "none"
    BY <1>2, <1>3, <1>7 DEF first
  <2>2. <<e>> # <<>>
    OBVIOUS
  <2> QED BY <1>3, <1>4, <1>5, <1>6, <2>1, <2>2 DEF IInv, HistoryIsLegal
<1>10. RanksRise' /\ TimesNeverGoBack'
  <2>1. \A i, j \in 1 .. Len(events'[o]) : ~(i < j)
    BY <1>5
  <2>2. 1 .. Len(events'[o]) - 1 = {}
    BY <1>5
  <2> QED BY <1>6, <2>1, <2>2 DEF IInv, RanksRise, TimesNeverGoBack
<1>11. NothingFromTheFuture'
  BY <1>2, <1>3, <1>4, <1>5, <1>6 DEF IInv, NothingFromTheFuture
<1>12. DecisionsHold'
  <2>1. SUFFICES ASSUME NEW c \in Calls, call'[c].pc = "decided"
                 PROVE  DecisionHolds(call[c])'
    BY DEF DecisionsHold
  <2>2. call'[c] = call[c] /\ call[c].order \in Orders
    BY <1>1, <1>3, <2>1, ActiveCall
  <2>3. call[c].order # o
    BY <1>3, <2>1, <2>2 DEF IInv, DecisionsHold, DecisionHolds
  <2>4. DecisionHolds(call[c])
    BY <2>1, <2>2 DEF IInv, DecisionsHold
  <2> QED BY <1>3, <1>6, <2>2, <2>3, <2>4 DEF DecisionHolds
<1>13. CustomersCancelInTime'
  BY <1>5, <1>6 DEF IInv, CustomersCancelInTime
<1>14. AnnouncementsAreFresh'
  <2>1. SUFFICES ASSUME NEW c \in Calls, call'[c].pc = "written"
                 PROVE  AnnouncementIsFresh(call[c])'
    BY <1>3 DEF IInv, AnnouncementsAreFresh
  <2>2. call'[c] = call[c] /\ call[c].order \in Orders
    BY <1>1, <1>3, <2>1, ActiveCall
  <2>3. call[c].order # o
    BY <1>7, <2>1, <2>2 DEF IInv, AnnouncementsAreFresh, AnnouncementIsFresh
  <2>4. AnnouncementIsFresh(call[c])
    BY <2>1, <2>2 DEF IInv, AnnouncementsAreFresh
  <2> QED BY <1>3, <1>6, <2>2, <2>3, <2>4 DEF AnnouncementIsFresh
<1>15. AnnouncedOnce'
  BY <1>3, <1>5, <1>6, <1>7 DEF IInv, AnnouncedOnce
<1> QED BY <1>8, <1>9, <1>10, <1>11, <1>12, <1>13, <1>14, <1>15 DEF IInv

(* A step that only changes what requests hold leaves every clause about   *)
(* the table as it was.                                                    *)
LEMMA TableFrame ==
    ASSUME IInv, UNCHANGED <<status, payment, placedAt, events, told, now>>,
           call' \in [Calls -> Call]
    PROVE  /\ TypeOK' /\ HistoryIsLegal' /\ RanksRise' /\ NothingFromTheFuture'
           /\ TimesNeverGoBack' /\ CustomersCancelInTime' /\ AnnouncedOnce'
<1>1. TypeOK'
  BY DEF IInv, TypeOK
<1>2. HistoryIsLegal' /\ RanksRise' /\ NothingFromTheFuture' /\ TimesNeverGoBack'
  BY DEF IInv, HistoryIsLegal, RanksRise, NothingFromTheFuture, TimesNeverGoBack
<1>3. CustomersCancelInTime' /\ AnnouncedOnce'
  BY DEF IInv, CustomersCancelInTime, AnnouncedOnce
<1> QED BY <1>1, <1>2, <1>3

(* A request that ends, answered, refused or dead, disturbs nobody.        *)
LEMMA EndInv ==
    ASSUME IInv, NEW c \in Calls, call' = [call EXCEPT ![c] = Idle],
           UNCHANGED <<status, payment, placedAt, events, told, now>>
    PROVE  IInv'
<1>1. call \in [Calls -> Call] /\ Idle \in Call
  BY DEF IInv, TypeOK, Call
<1>2. call' \in [Calls -> Call]
  BY <1>1
<1>3. \A d \in Calls : call'[d].pc # "idle" => d # c /\ call'[d] = call[d]
  BY <1>1 DEF Idle
<1>4. DecisionsHold'
  BY <1>3 DEF IInv, DecisionsHold, DecisionHolds
<1>5. AnnouncementsAreFresh'
  BY <1>3 DEF IInv, AnnouncementsAreFresh, AnnouncementIsFresh
<1> QED BY <1>2, <1>4, <1>5, TableFrame DEF IInv

(* A request decides on the status it has just read.                       *)
LEMMA LoadInv ==
    ASSUME IInv, NEW c \in Calls, NEW o \in Orders, NEW to \in Status,
           NEW actor \in Actor, NEW mine \in BOOLEAN, NEW reasonGiven \in BOOLEAN,
           Load(c, o, to, actor, mine, reasonGiven)
    PROVE  IInv'
<1> DEFINE k == [pc |-> "decided", order |-> o, from |-> status[o],
                 to |-> to, actor |-> actor, at |-> now]
<1>1. TypeOK
  BY DEF IInv
<1>2. /\ status[o] # "none"
      /\ CanTransition(status[o], to, actor)
      /\ (actor = "customer" /\ to = "cancelled") => now < placedAt[o] + Window
      /\ call' = [call EXCEPT ![c] = k]
      /\ UNCHANGED <<status, payment, placedAt, events, told, now>>
  BY DEF Load, MayCustomerCancel
<1>3. status[o] \in Status /\ now \in Nat
  BY <1>1, <1>2, MaxTimeAssumption DEF TypeOK
<1>4. k \in Call
  BY <1>3 DEF Call
<1>5. call' \in [Calls -> Call] /\ call'[c] = k
  BY <1>1, <1>2, <1>4 DEF TypeOK
<1>6. \A d \in Calls : d # c => call'[d] = call[d]
  BY <1>1, <1>2 DEF TypeOK
<1>7. DecisionHolds(k)
  <2>1. Rank(status[o]) <= Rank(status[o])
    BY <1>3, RankIsNat
  <2>2. events[o] # <<>> /\ events[o] \in Seq(Event)
    BY <1>1, <1>2 DEF IInv, HistoryIsLegal, TypeOK
  <2>3. Len(events[o]) \in 1 .. Len(events[o])
    BY <2>2
  <2>4. events[o][Len(events[o])].at <= now
    BY <2>3 DEF IInv, NothingFromTheFuture
  <2> QED BY <1>2, <1>3, <2>1, <2>4 DEF DecisionHolds
<1>8. DecisionsHold'
  <2>1. SUFFICES ASSUME NEW d \in Calls, call'[d].pc = "decided"
                 PROVE  DecisionHolds(call'[d])
    BY <1>2 DEF DecisionsHold, DecisionHolds
  <2>2. CASE d = c
    BY <1>5, <1>7, <2>2
  <2>3. CASE d # c
    BY <1>6, <2>1, <2>3 DEF IInv, DecisionsHold
  <2> QED BY <2>2, <2>3
<1>9. AnnouncementsAreFresh'
  <2>1. \A d \in Calls : call'[d].pc = "written" => d # c /\ call'[d] = call[d]
    BY <1>5, <1>6
  <2> QED BY <1>2, <2>1 DEF IInv, AnnouncementsAreFresh, AnnouncementIsFresh
<1> QED BY <1>2, <1>5, <1>8, <1>9, TableFrame DEF IInv

(* Announcing what this request wrote: nobody else wrote the same status.  *)
LEMMA TellInv ==
    ASSUME IInv, NEW c \in Calls, Tell(c)
    PROVE  IInv'
<1> DEFINE k == call[c]
<1>1. CASE UNCHANGED told
  BY <1>1, EndInv DEF Tell
<1>2. CASE told' = [told EXCEPT ![k.order] = Append(@, k.to)]
  <2>1. TypeOK /\ k.pc = "written" /\ call' = [call EXCEPT ![c] = Idle]
        /\ UNCHANGED <<status, payment, placedAt, events, now>>
    BY DEF Tell, IInv
  <2>2. k.order \in Orders /\ k.to \in Status
    BY <2>1, ActiveCall
  <2>3. AnnouncementIsFresh(k)
    BY <2>1 DEF IInv, AnnouncementsAreFresh
  <2>4. call' \in [Calls -> Call] /\ call'[c] = Idle
        /\ \A d \in Calls : d # c => call'[d] = call[d]
    BY <2>1 DEF TypeOK, Call
  <2>5. told[k.order] \in Seq(Status)
    BY <2>1, <2>2 DEF TypeOK
  <2>6. /\ Len(told'[k.order]) = Len(told[k.order]) + 1
        /\ told'[k.order][Len(told[k.order]) + 1] = k.to
        /\ \A i \in 1 .. Len(told[k.order]) : told'[k.order][i] = told[k.order][i]
        /\ Len(told[k.order]) \in Nat
    BY <1>2, <2>1, <2>2, <2>5 DEF TypeOK
  <2>7. \A p \in Orders : p # k.order => told'[p] = told[p]
    BY <1>2, <2>1 DEF TypeOK
  <2>8. TypeOK'
    <3>1. told' \in [Orders -> Seq(Status)]
      BY <1>2, <2>1, <2>2, <2>5 DEF TypeOK
    <3> QED BY <2>1, <2>4, <3>1 DEF TypeOK
  <2>9. HistoryIsLegal' /\ RanksRise' /\ NothingFromTheFuture' /\ TimesNeverGoBack'
        /\ CustomersCancelInTime'
    BY <2>1 DEF IInv, HistoryIsLegal, RanksRise, NothingFromTheFuture,
                TimesNeverGoBack, CustomersCancelInTime
  <2>10. DecisionsHold'
    <3>1. \A d \in Calls : call'[d].pc = "decided" => call'[d] = call[d]
      BY <2>4 DEF Idle
    <3> QED BY <2>1, <3>1 DEF IInv, DecisionsHold, DecisionHolds
  <2>11. AnnouncementsAreFresh'
    <3>1. \A d \in Calls : call'[d].pc = "written" => d # c /\ call'[d] = call[d]
      BY <2>4 DEF Idle
    <3>2. SUFFICES ASSUME NEW d \in Calls, d # c, call[d].pc = "written"
                   PROVE  AnnouncementIsFresh(call[d])'
      BY <2>1, <2>4, <3>1 DEF IInv, AnnouncementsAreFresh, AnnouncementIsFresh
    <3>3. AnnouncementIsFresh(call[d]) /\ (call[d].order = k.order => call[d].to # k.to)
      BY <2>1, <3>2 DEF IInv, AnnouncementsAreFresh
    <3>4. call'[d] = call[d] /\ call[d].order \in Orders
      BY <2>1, <2>4, <3>2, ActiveCall
    <3>5. \A i \in 1 .. Len(told'[call[d].order]) : told'[call[d].order][i] # call[d].to
      <4>1. CASE call[d].order = k.order
        <5>1. SUFFICES ASSUME NEW i \in 1 .. Len(told[k.order]) + 1
                       PROVE  told'[k.order][i] # call[d].to
          BY <2>6, <4>1
        <5>2. CASE i \in 1 .. Len(told[k.order])
          BY <2>6, <3>3, <4>1, <5>2 DEF AnnouncementIsFresh
        <5>3. CASE i = Len(told[k.order]) + 1
          BY <2>6, <3>3, <4>1, <5>3
        <5>4. i \in 1 .. Len(told[k.order]) \/ i = Len(told[k.order]) + 1
          BY <2>6, <5>1
        <5> QED BY <5>2, <5>3, <5>4
      <4>2. CASE call[d].order # k.order
        BY <2>7, <3>3, <3>4, <4>2 DEF AnnouncementIsFresh
      <4> QED BY <4>1, <4>2
    <3> QED BY <2>1, <3>3, <3>4, <3>5 DEF AnnouncementIsFresh
  <2>12. AnnouncedOnce'
    <3>1. SUFFICES ASSUME NEW p \in Orders, NEW i \in 1 .. Len(told'[p])
                   PROVE  /\ \E n \in 1 .. Len(events[p]) : events[p][n].status = told'[p][i]
                          /\ \A j \in 1 .. Len(told'[p]) : told'[p][j] = told'[p][i] => j = i
      BY <2>1 DEF AnnouncedOnce
    <3>2. CASE p # k.order
      BY <2>7, <3>1, <3>2 DEF IInv, AnnouncedOnce
    <3>3. CASE p = k.order
      <4> DEFINE n == Len(told[k.order])
      <4>1. i \in 1 .. n + 1 /\ Len(told'[p]) = n + 1 /\ n \in Nat
        BY <2>6, <3>1, <3>3
      <4>2. \A j \in 1 .. n : told'[p][j] = told[p][j] /\ told[p][j] # k.to
        BY <2>3, <2>6, <3>3 DEF AnnouncementIsFresh
      <4>3. told'[p][n + 1] = k.to
        BY <2>6, <3>3
      <4>4. \A j, l \in 1 .. n : told[p][j] = told[p][l] => j = l
        BY <3>3 DEF IInv, AnnouncedOnce
      <4>5. \A j \in 1 .. n + 1 : told'[p][j] = told'[p][i] => j = i
        <5>1. SUFFICES ASSUME NEW j \in 1 .. n + 1, told'[p][j] = told'[p][i]
                       PROVE  j = i
          OBVIOUS
        <5>2. CASE i \in 1 .. n /\ j \in 1 .. n
          BY <4>2, <4>4, <5>1, <5>2
        <5>3. CASE i = n + 1 /\ j \in 1 .. n
          BY <4>2, <4>3, <5>1, <5>3
        <5>4. CASE i \in 1 .. n /\ j = n + 1
          BY <4>2, <4>3, <5>1, <5>4
        <5>5. (i \in 1 .. n \/ i = n + 1) /\ (j \in 1 .. n \/ j = n + 1)
          BY <4>1, <5>1
        <5>6. CASE i = n + 1 /\ j = n + 1
          BY <5>6
        <5> QED BY <5>2, <5>3, <5>4, <5>5, <5>6
      <4>6. \A j \in 1 .. n : \E m \in 1 .. Len(events[p]) : events[p][m].status = told[p][j]
        BY <3>3 DEF IInv, AnnouncedOnce
      <4>7. \E m \in 1 .. Len(events[p]) : events[p][m].status = told'[p][i]
        <5>1. \E m \in 1 .. Len(events[p]) : events[p][m].status = k.to
          BY <2>3, <3>3 DEF AnnouncementIsFresh
        <5>2. CASE i \in 1 .. n
          BY <4>2, <4>6, <5>2
        <5>3. CASE i = n + 1
          BY <4>3, <5>1, <5>3
        <5>4. i \in 1 .. n \/ i = n + 1
          BY <4>1
        <5> QED BY <5>2, <5>3, <5>4
      <4> QED BY <4>1, <4>5, <4>7
    <3> QED BY <3>2, <3>3
  <2> QED BY <2>8, <2>9, <2>10, <2>11, <2>12 DEF IInv
<1> QED BY <1>1, <1>2 DEF Tell

(* The clock only makes the past longer.                                   *)
LEMMA TickInv ==
    ASSUME IInv, Tick
    PROVE  IInv'
<1>1. TypeOK /\ now < MaxTime /\ now' = now + 1
      /\ UNCHANGED <<status, payment, placedAt, events, call, told>>
  BY DEF Tick, IInv
<1>2. now \in Nat /\ now' \in 0 .. MaxTime /\ now <= now'
  BY <1>1, MaxTimeAssumption DEF TypeOK
<1>3. TypeOK'
  BY <1>1, <1>2 DEF TypeOK
<1>4. HistoryIsLegal' /\ RanksRise' /\ TimesNeverGoBack' /\ CustomersCancelInTime'
      /\ AnnouncedOnce' /\ AnnouncementsAreFresh'
  BY <1>1 DEF IInv, HistoryIsLegal, RanksRise, TimesNeverGoBack, CustomersCancelInTime,
              AnnouncedOnce, AnnouncementsAreFresh, AnnouncementIsFresh
<1>5. NothingFromTheFuture'
  <2>1. SUFFICES ASSUME NEW o \in Orders, NEW i \in 1 .. Len(events[o])
                 PROVE  events[o][i].at <= now'
    BY <1>1 DEF NothingFromTheFuture
  <2>2. events[o][i] \in Event /\ events[o][i].at <= now
    BY <1>1 DEF IInv, NothingFromTheFuture, TypeOK
  <2> QED BY <1>2, <2>2 DEF Event
<1>6. DecisionsHold'
  <2>1. SUFFICES ASSUME NEW c \in Calls, call[c].pc = "decided"
                 PROVE  DecisionHolds(call[c])'
    BY <1>1 DEF DecisionsHold
  <2>2. DecisionHolds(call[c]) /\ call[c].at \in Nat
    BY <1>1, <2>1, ActiveCall DEF IInv, DecisionsHold
  <2> QED BY <1>1, <1>2, <2>2 DEF DecisionHolds
<1> QED BY <1>3, <1>4, <1>5, <1>6 DEF IInv

(* The write.  The row still has the status the request read, and ranks    *)
(* only rise, so the entry it appends follows the last one.                *)
LEMMA AppendInv ==
    ASSUME IInv, NEW c \in Calls, AppendTransition(c)
    PROVE  IInv'
<1> DEFINE k == call[c]
           o == k.order
           n == Len(events[o])
           e == [status |-> k.to, actor |-> k.actor, at |-> k.at]
<1>1. TypeOK /\ k.pc = "decided" /\ status[o] = k.from
  BY DEF IInv, AppendTransition
<1>2. /\ status' = [status EXCEPT ![o] = k.to]
      /\ events' = [events EXCEPT ![o] = Append(@, e)]
      /\ call' = [call EXCEPT ![c] = [k EXCEPT !.pc = "written"]]
      /\ UNCHANGED <<payment, placedAt, told, now>>
  BY DEF AppendTransition
<1>3. /\ o \in Orders /\ k.from \in Status /\ k.to \in Status
      /\ k.actor \in Actor /\ k.at \in Nat
  BY <1>1, ActiveCall
<1>4. DecisionHolds(k)
  BY <1>1 DEF IInv, DecisionsHold
<1>5. e \in Event /\ events[o] \in Seq(Event) /\ now \in Nat
  <2>1. e \in Event
    BY <1>3 DEF Event
  <2>2. events[o] \in Seq(Event)
    BY <1>1, <1>3 DEF TypeOK
  <2>3. now \in Nat
    BY <1>1, MaxTimeAssumption DEF TypeOK
  <2> QED BY <2>1, <2>2, <2>3
<1>6. events[o] # <<>> /\ events[o][n].status = k.from
  BY <1>1, <1>3, <1>4 DEF IInv, HistoryIsLegal, DecisionHolds
<1>7. n \in Nat \ {0}
  BY <1>5, <1>6
<1>8. /\ Len(events'[o]) = n + 1
      /\ events'[o][n + 1] = e
      /\ \A i \in 1 .. n : events'[o][i] = events[o][i]
      /\ status'[o] = k.to
  BY <1>1, <1>2, <1>3, <1>5 DEF TypeOK
<1>9. \A p \in Orders : p # o => events'[p] = events[p] /\ status'[p] = status[p]
  BY <1>1, <1>2 DEF TypeOK
<1>10. call'[c] = [k EXCEPT !.pc = "written"]
       /\ \A d \in Calls : d # c => call'[d] = call[d]
  BY <1>1, <1>2 DEF TypeOK
<1>11. Rank(k.from) < Rank(k.to) /\ Rank(k.from) \in Nat /\ Rank(k.to) \in Nat
  BY <1>3, <1>4, MovesGoUp, RankIsNat DEF DecisionHolds
<1>12. \A i \in 1 .. n : /\ events[o][i] \in Event
                         /\ Rank(events[o][i].status) \in Nat
                         /\ Rank(events[o][i].status) <= Rank(k.from)
  <2>1. SUFFICES ASSUME NEW i \in 1 .. n
                 PROVE  /\ events[o][i] \in Event
                        /\ Rank(events[o][i].status) \in Nat
                        /\ Rank(events[o][i].status) <= Rank(k.from)
    OBVIOUS
  <2>2. events[o][i] \in Event
    BY <1>5, <2>1
  <2>3. Rank(events[o][i].status) \in Nat
    BY <2>2, RankIsNat DEF Event
  <2>4. CASE i = n
    BY <1>6, <1>11, <2>2, <2>3, <2>4
  <2>5. CASE i < n
    <3>1. Rank(events[o][i].status) < Rank(events[o][n].status)
      BY <1>3, <1>7, <2>1, <2>5 DEF IInv, RanksRise
    <3> QED BY <1>6, <1>11, <2>2, <2>3, <3>1
  <2> QED BY <1>7, <2>1, <2>4, <2>5
<1> HIDE DEF k, o, n, e
<1>13. e.status = k.to /\ e.actor = k.actor /\ e.at = k.at
  BY DEF e
<1>14. \A i \in 1 .. n : events[o][i].status # k.to
  BY <1>11, <1>12
<1>15. TypeOK'
  <2>1. status' \in [Orders -> Status \cup {"none"}]
    BY <1>1, <1>2, <1>3 DEF TypeOK
  <2>2. events' \in [Orders -> Seq(Event)]
    BY <1>1, <1>2, <1>3, <1>5 DEF TypeOK
  <2>3. [k EXCEPT !.pc = "written"] \in Call
    <3>1. k = [pc |-> "decided", order |-> k.order, from |-> k.from, to |-> k.to,
               actor |-> k.actor, at |-> k.at]
      BY <1>1, ActiveCall DEF k
    <3>2. [k EXCEPT !.pc = "written"] =
             [pc |-> "written", order |-> k.order, from |-> k.from, to |-> k.to,
              actor |-> k.actor, at |-> k.at]
      BY <3>1
    <3> QED BY <1>3, <3>2 DEF Call, o
  <2>4. call' \in [Calls -> Call]
    BY <1>1, <1>2, <2>3 DEF TypeOK
  <2> QED BY <1>1, <1>2, <2>1, <2>2, <2>4 DEF TypeOK
<1>16. HistoryIsLegal'
  <2>1. SUFFICES ASSUME NEW p \in Orders
                 PROVE  IF status'[p] = "none" THEN events'[p] = <<>>
                        ELSE /\ events'[p] # <<>>
                             /\ events'[p][1].status = InitialStatus(payment[p])
                             /\ \A i \in 1 .. Len(events'[p]) - 1 :
                                  CanTransition(events'[p][i].status, events'[p][i+1].status,
                                                events'[p][i+1].actor)
                             /\ events'[p][Len(events'[p])].status = status'[p]
    BY <1>2 DEF HistoryIsLegal
  <2>2. CASE p # o
    BY <1>9, <2>2 DEF IInv, HistoryIsLegal
  <2>3. CASE p = o
    <3>1. status[o] # "none" /\ k.to # "none"
      BY <1>1, <1>3 DEF Status
    <3>2. events'[o] # <<>> /\ events'[o][n+1].status = k.to
      BY <1>7, <1>8, <1>13
    <3>3. events'[o][1].status = InitialStatus(payment[o])
      BY <1>3, <1>7, <1>8, <3>1 DEF IInv, HistoryIsLegal
    <3>4. ASSUME NEW i \in 1 .. n
          PROVE  CanTransition(events'[o][i].status, events'[o][i+1].status,
                               events'[o][i+1].actor)
      <4>1. CASE i = n
        BY <1>4, <1>6, <1>7, <1>8, <1>13, <4>1 DEF DecisionHolds, n, o
      <4>2. CASE i < n
        <5>1. i \in 1 .. n - 1 /\ i + 1 \in 1 .. n
          BY <1>7, <3>4, <4>2
        <5>2. CanTransition(events[o][i].status, events[o][i+1].status,
                            events[o][i+1].actor)
          BY <1>3, <3>1, <5>1 DEF IInv, HistoryIsLegal, n
        <5> QED BY <1>8, <5>1, <5>2
      <4> QED BY <1>7, <3>4, <4>1, <4>2
    <3> QED BY <1>7, <1>8, <2>3, <3>1, <3>2, <3>3, <3>4
  <2> QED BY <2>2, <2>3
<1>17. RanksRise'
  <2>1. SUFFICES ASSUME NEW p \in Orders, NEW i \in 1 .. Len(events'[p]),
                        NEW j \in 1 .. Len(events'[p]), i < j
                 PROVE  Rank(events'[p][i].status) < Rank(events'[p][j].status)
    BY DEF RanksRise
  <2>2. CASE p # o
    BY <1>9, <2>1, <2>2 DEF IInv, RanksRise
  <2>3. CASE p = o /\ j \in 1 .. n
    <3>1. i \in 1 .. n
      BY <1>7, <1>8, <2>1, <2>3
    <3> QED BY <1>3, <1>8, <2>1, <2>3, <3>1 DEF IInv, RanksRise, n
  <2>4. CASE p = o /\ j = n + 1
    <3>1. i \in 1 .. n
      BY <1>7, <1>8, <2>1, <2>4
    <3> QED BY <1>8, <1>11, <1>12, <1>13, <2>4, <3>1
  <2> QED BY <1>7, <1>8, <2>1, <2>2, <2>3, <2>4
<1>18. NothingFromTheFuture'
  <2>1. SUFFICES ASSUME NEW p \in Orders, NEW i \in 1 .. Len(events'[p])
                 PROVE  events'[p][i].at <= now
    BY <1>2 DEF NothingFromTheFuture
  <2>2. CASE p # o \/ i \in 1 .. n
    BY <1>8, <1>9, <2>1, <2>2 DEF IInv, NothingFromTheFuture, n
  <2>3. CASE p = o /\ i = n + 1
    BY <1>4, <1>8, <1>13, <2>3 DEF DecisionHolds
  <2> QED BY <1>7, <1>8, <2>1, <2>2, <2>3
<1>19. TimesNeverGoBack'
  <2>1. SUFFICES ASSUME NEW p \in Orders, NEW i \in 1 .. Len(events'[p]) - 1
                 PROVE  events'[p][i].at <= events'[p][i+1].at
    BY DEF TimesNeverGoBack
  <2>2. CASE p # o
    BY <1>9, <2>1, <2>2 DEF IInv, TimesNeverGoBack
  <2>3. CASE p = o /\ i < n
    <3>1. i \in 1 .. n - 1 /\ i \in 1 .. n /\ i + 1 \in 1 .. n
      BY <1>7, <1>8, <2>1, <2>3
    <3> QED BY <1>3, <1>8, <2>3, <3>1 DEF IInv, TimesNeverGoBack, n
  <2>4. CASE p = o /\ i = n
    <3>1. n \in 1 .. n /\ events'[o][n] = events[o][n]
      BY <1>7, <1>8
    <3>2. events'[o][n + 1].at = k.at
      BY <1>8, <1>13
    <3>3. events[o][n].at <= k.at
      BY <1>1, <1>4 DEF DecisionHolds, n, o
    <3> QED BY <2>4, <3>1, <3>2, <3>3
  <2> QED BY <1>7, <1>8, <2>1, <2>2, <2>3, <2>4
<1>20. CustomersCancelInTime'
  <2>1. SUFFICES ASSUME NEW p \in Orders, NEW i \in 2 .. Len(events'[p]),
                        events'[p][i].status = "cancelled", events'[p][i].actor = "customer"
                 PROVE  /\ events'[p][i].at < placedAt[p] + Window
                        /\ \A j \in 1 .. i : events'[p][j].status \notin {"preparing", "ready"}
    BY <1>2 DEF CustomersCancelInTime
  <2>2. CASE p # o
    BY <1>9, <2>1, <2>2 DEF IInv, CustomersCancelInTime
  <2>3. CASE p = o /\ i \in 1 .. n
    <3>1. i \in 2 .. n /\ \A j \in 1 .. i : j \in 1 .. n
      BY <1>7, <2>1, <2>3
    <3> QED BY <1>3, <1>8, <2>1, <2>3, <3>1 DEF IInv, CustomersCancelInTime, n
  <2>4. CASE p = o /\ i = n + 1
    <3>1. k.to = "cancelled" /\ k.actor = "customer"
      BY <1>8, <1>13, <2>1, <2>4
    <3>2. events'[p][i].at < placedAt[p] + Window
      BY <1>4, <1>8, <1>13, <2>4, <3>1 DEF DecisionHolds, o
    <3>3. Rank(k.from) <= 2
      BY <1>3, <1>4, <3>1, CustomerCancelsEarly DEF DecisionHolds
    <3>4. \A j \in 1 .. n : Rank(events[o][j].status) <= 2
      BY <1>11, <1>12, <3>3
    <3>5. Rank("preparing") = 3 /\ Rank("ready") = 4
      BY DEF Rank, Terminal
    <3>6. \A j \in 1 .. n : events'[o][j].status \notin {"preparing", "ready"}
      BY <1>8, <3>4, <3>5
    <3>7. \A j \in 1 .. i : j \in 1 .. n \/ j = n + 1
      BY <1>7, <2>4
    <3> QED BY <1>8, <1>13, <2>4, <3>1, <3>2, <3>6, <3>7
  <2> QED BY <1>7, <1>8, <2>1, <2>2, <2>3, <2>4
<1>21. DecisionsHold'
  <2>1. SUFFICES ASSUME NEW d \in Calls, call'[d].pc = "decided"
                 PROVE  DecisionHolds(call[d])' /\ call'[d] = call[d]
    BY DEF DecisionsHold
  <2>2. d # c /\ call'[d] = call[d] /\ call[d].pc = "decided"
    BY <1>10, <2>1, <1>1, ActiveCall DEF k
  <2>3. DecisionHolds(call[d])
    BY <2>2 DEF IInv, DecisionsHold
  <2>4. call[d].order \in Orders /\ call[d].from \in Status
    BY <1>1, <2>2, ActiveCall
  <2>5. CASE call[d].order # o
    BY <1>2, <1>9, <2>2, <2>3, <2>4, <2>5 DEF DecisionHolds
  <2>6. CASE call[d].order = o
    <3>1. Rank(call[d].from) < Rank(k.to) /\ Rank(call[d].from) \in Nat
      BY <1>1, <1>11, <2>3, <2>4, <2>6, RankIsNat DEF DecisionHolds
    <3>2. status'[o] # call[d].from /\ status'[o] # "none"
      BY <1>3, <1>8, <3>1 DEF Status
    <3>3. Rank(call[d].from) <= Rank(status'[o])
      BY <1>8, <1>11, <3>1
    <3> QED BY <1>2, <2>2, <2>3, <2>6, <3>2, <3>3 DEF DecisionHolds
  <2> QED BY <2>2, <2>5, <2>6
<1>22. \A p \in Orders, s \in Status :
          (\E i \in 1 .. Len(events[p]) : events[p][i].status = s) =>
              (\E i \in 1 .. Len(events'[p]) : events'[p][i].status = s)
  <2>1. SUFFICES ASSUME NEW p \in Orders, NEW i \in 1 .. Len(events[p])
                 PROVE  i \in 1 .. Len(events'[p]) /\ events'[p][i] = events[p][i]
    OBVIOUS
  <2>2. CASE p # o
    BY <1>9, <2>1, <2>2
  <2>3. CASE p = o
    BY <1>7, <1>8, <2>1, <2>3 DEF n
  <2> QED BY <2>2, <2>3
<1>23. \A i \in 1 .. Len(told[o]) : told[o][i] # k.to
  <2>1. ASSUME NEW i \in 1 .. Len(told[o]) PROVE told[o][i] # k.to
    <3>1. PICK m \in 1 .. n : events[o][m].status = told[o][i]
      BY <1>3 DEF IInv, AnnouncedOnce, n
    <3> QED BY <1>14, <3>1
  <2> QED BY <2>1
<1>24. \A d \in Calls : (call[d].pc = "written" /\ call[d].order = o) => call[d].to # k.to
  <2>1. ASSUME NEW d \in Calls, call[d].pc = "written", call[d].order = o
        PROVE  call[d].to # k.to
    <3>1. PICK m \in 1 .. n : events[o][m].status = call[d].to
      BY <2>1 DEF IInv, AnnouncementsAreFresh, AnnouncementIsFresh, n
    <3> QED BY <1>14, <3>1
  <2> QED BY <2>1
<1>25. /\ call'[c].pc = "written" /\ call'[c].order = o /\ call'[c].to = k.to
  BY <1>1, <1>10, ActiveCall DEF k, o
<1>26. AnnouncementsAreFresh'
  <2>1. ASSUME NEW d \in Calls, call'[d].pc = "written", d # c
        PROVE  call[d].pc = "written" /\ call'[d] = call[d] /\ call[d].order \in Orders
               /\ call[d].to \in Status
    BY <1>1, <1>10, <2>1, ActiveCall
  <2>2. AnnouncementIsFresh(call[c])'
    <3>1. n + 1 \in 1 .. Len(events'[o]) /\ events'[o][n + 1].status = k.to
      BY <1>7, <1>8, <1>13
    <3>2. \E m \in 1 .. Len(events'[o]) : events'[o][m].status = k.to
      BY <3>1
    <3>3. \A i \in 1 .. Len(told'[o]) : told'[o][i] # k.to
      BY <1>2, <1>23
    <3> QED BY <1>25, <3>2, <3>3 DEF AnnouncementIsFresh
  <2>3. ASSUME NEW d \in Calls, call'[d].pc = "written", d # c
        PROVE  AnnouncementIsFresh(call[d])'
    <3>1. AnnouncementIsFresh(call[d])
      BY <2>1, <2>3 DEF IInv, AnnouncementsAreFresh
    <3> QED BY <1>2, <1>22, <2>1, <2>3, <3>1 DEF AnnouncementIsFresh
  <2>4. ASSUME NEW d \in Calls, call'[d].pc = "written",
               NEW b \in Calls, call'[b].pc = "written", b # d,
               call'[b].order = call'[d].order
        PROVE  call'[b].to # call'[d].to
    <3>1. CASE d = c
      BY <1>24, <1>25, <2>1, <2>4, <3>1
    <3>2. CASE b = c
      BY <1>24, <1>25, <2>1, <2>4, <3>2
    <3>3. CASE d # c /\ b # c
      BY <2>1, <2>4, <3>3 DEF IInv, AnnouncementsAreFresh
    <3> QED BY <3>1, <3>2, <3>3
  <2> QED BY <2>2, <2>3, <2>4 DEF AnnouncementsAreFresh
<1>27. AnnouncedOnce'
  <2>1. SUFFICES ASSUME NEW p \in Orders, NEW i \in 1 .. Len(told[p])
                 PROVE  /\ \E m \in 1 .. Len(events'[p]) : events'[p][m].status = told[p][i]
                        /\ \A j \in 1 .. Len(told[p]) : told[p][j] = told[p][i] => j = i
    BY <1>2 DEF AnnouncedOnce
  <2>2. told[p][i] \in Status
    BY <1>1 DEF TypeOK
  <2> QED BY <1>22, <2>2 DEF IInv, AnnouncedOnce
<1> QED
  BY <1>15, <1>16, <1>17, <1>18, <1>19, <1>20, <1>21, <1>26, <1>27 DEF IInv

(* Every step keeps the invariant.                                         *)
LEMMA NextInv == IInv /\ [Next]_vars => IInv'
<1> SUFFICES ASSUME IInv, [Next]_vars PROVE IInv'
  OBVIOUS
<1>1. ASSUME NEW o \in Orders, Place(o) PROVE IInv'
  BY <1>1, PlaceInv
<1>2. ASSUME NEW c \in Calls, NEW o \in Orders, NEW to \in Status, NEW actor \in Actor,
             NEW mine \in BOOLEAN, NEW reasonGiven \in BOOLEAN,
             Load(c, o, to, actor, mine, reasonGiven)
      PROVE IInv'
  BY <1>2, LoadInv
<1>3. ASSUME NEW c \in Calls, AppendTransition(c) PROVE IInv'
  BY <1>3, AppendInv
<1>4. ASSUME NEW c \in Calls, OrderMoved(c) \/ Die(c) PROVE IInv'
  BY <1>4, EndInv DEF OrderMoved, Die
<1>5. ASSUME NEW c \in Calls, Tell(c) PROVE IInv'
  BY <1>5, TellInv
<1>6. CASE Tick
  BY <1>6, TickInv
<1>7. CASE UNCHANGED vars
  <2>1. call' \in [Calls -> Call]
    BY <1>7 DEF vars, IInv, TypeOK
  <2>2. DecisionsHold' /\ AnnouncementsAreFresh'
    BY <1>7 DEF vars, IInv, DecisionsHold, DecisionHolds, AnnouncementsAreFresh,
                AnnouncementIsFresh
  <2> QED BY <1>7, <2>1, <2>2, TableFrame DEF vars, IInv
<1> QED BY <1>1, <1>2, <1>3, <1>4, <1>5, <1>6, <1>7 DEF Next

(* What holds in every reachable state of the write path.                  *)
THEOREM Invariant == Spec => []IInv
BY InitInv, NextInv, PTL DEF Spec

(* The variables stay in their types.                                      *)
THEOREM TypeCorrect == Spec => []TypeOK
<1>1. IInv => TypeOK
  BY DEF IInv
<1> QED BY <1>1, Invariant, PTL

(* Concurrent requests never record a history the table forbids.           *)
THEOREM LegalHistories == Spec => []HistoryIsLegal
<1>1. IInv => HistoryIsLegal
  BY DEF IInv
<1> QED BY <1>1, Invariant, PTL

(* Events read in the order they were written are in the order of time.    *)
THEOREM OrderedTimes == Spec => []TimesNeverGoBack
<1>1. IInv => TimesNeverGoBack
  BY DEF IInv
<1> QED BY <1>1, Invariant, PTL

(* No customer cancels outside the window or once the kitchen started.     *)
THEOREM TimelyCancellations == Spec => []CustomersCancelInTime
<1>1. IInv => CustomersCancelInTime
  BY DEF IInv
<1> QED BY <1>1, Invariant, PTL

(* Dispatch, payment and the customer hear of a status at most once.       *)
THEOREM SingleAnnouncements == Spec => []AnnouncedOnce
<1>1. IInv => AnnouncedOnce
  BY DEF IInv
<1> QED BY <1>1, Invariant, PTL

(* A finished order is finished for good.                                  *)
THEOREM Finality == Spec => FinishedStaysFinished
<1> DEFINE Stays == \A o \in Orders : status[o] \in Terminal =>
                        status'[o] = status[o] /\ events'[o] = events[o]
<1>1. IInv /\ [Next]_vars => [Stays]_vars
  <2> SUFFICES ASSUME IInv, Next, NEW o \in Orders, status[o] \in Terminal
               PROVE  status'[o] = status[o] /\ events'[o] = events[o]
    OBVIOUS
  <2>1. ASSUME NEW p \in Orders, Place(p)
        PROVE  status'[o] = status[o] /\ events'[o] = events[o]
    <3>1. p # o
      BY <2>1 DEF Place, Terminal
    <3> QED BY <2>1, <3>1 DEF Place, IInv, TypeOK
  <2>2. ASSUME NEW c \in Calls, AppendTransition(c)
        PROVE  status'[o] = status[o] /\ events'[o] = events[o]
    <3>1. DecisionHolds(call[c]) /\ TypeOK /\ call[c].pc = "decided"
      BY <2>2 DEF AppendTransition, IInv, DecisionsHold
    <3>2. call[c].to \in Status /\ call[c].actor \in Actor /\ call[c].order \in Orders
      BY <3>1, ActiveCall
    <3>3. call[c].order # o
      BY <2>2, <3>1, <3>2, FinishedGoesNowhere DEF AppendTransition, DecisionHolds
    <3> QED BY <2>2, <3>1, <3>2, <3>3 DEF AppendTransition, TypeOK
  <2>3. ASSUME UNCHANGED <<status, events>>
        PROVE  status'[o] = status[o] /\ events'[o] = events[o]
    BY <2>3
  <2> QED BY <2>1, <2>2, <2>3 DEF Next, Load, OrderMoved, Tell, Die, Tick
<1>2. Spec => [][Stays]_vars
  BY <1>1, Invariant, PTL DEF Spec
<1> QED BY <1>2 DEF FinishedStaysFinished

-----------------------------------------------------------------------------
(* The lifecycle and the write path read the same table.                   *)
LEMMA SameTable ==
    /\ Lifecycle!Status = Status /\ Lifecycle!Actor = Actor
    /\ Lifecycle!PaymentMethod = PaymentMethod
    /\ \A m : Lifecycle!InitialStatus(m) = InitialStatus(m)
    /\ \A from, to, actor :
          Lifecycle!CanTransition(from, to, actor) <=> CanTransition(from, to, actor)
BY Zenon DEF Status, Actor, PaymentMethod, InitialStatus, CanTransition, Moves,
       Lifecycle!Status, Lifecycle!Actor, Lifecycle!PaymentMethod,
       Lifecycle!InitialStatus, Lifecycle!CanTransition, Lifecycle!Moves

(* An event without its time is an entry of the lifecycle's history.       *)
LEMMA UntimedIsEntry ==
    ASSUME NEW e \in Event
    PROVE  /\ Untimed(e) \in Lifecycle!Entry
           /\ Untimed(e).status = e.status /\ Untimed(e).actor = e.actor
BY SameTable DEF Untimed, Event, Lifecycle!Entry

(* Dropping the times keeps the length and every entry's status and actor. *)
LEMMA WithoutTimesIsSeq ==
    ASSUME NEW es \in Seq(Event)
    PROVE  /\ WithoutTimes(es) \in Seq(Lifecycle!Entry)
           /\ Len(WithoutTimes(es)) = Len(es)
           /\ \A i \in 1 .. Len(es) : WithoutTimes(es)[i] = Untimed(es[i])
<1> DEFINE f == WithoutTimes(es)
           n == Len(es)
<1>1. n \in Nat /\ \A i \in 1 .. n : es[i] \in Event
  BY LenProperties, ElementOfSeq
<1>2. \A e \in Event : Untimed(e) \in Lifecycle!Entry
  BY UntimedIsEntry
<1>3. f = [i \in 1 .. n |-> Untimed(es[i])]
  BY DEF WithoutTimes
<1>4. \A i \in 1 .. n : Untimed(es[i]) \in Lifecycle!Entry
  BY <1>1, <1>2
<1> HIDE DEF n, f
<1>5. f \in [1 .. n -> Lifecycle!Entry] /\ \A i \in 1 .. n : f[i] = Untimed(es[i])
  BY <1>3, <1>4
<1>6. f \in Seq(Lifecycle!Entry)
  BY <1>1, <1>5, SeqDef
<1>7. Len(f) = n
  BY <1>1, <1>5, <1>6
<1> QED BY <1>5, <1>6, <1>7 DEF f, n

(* Appending an event appends its entry.                                   *)
LEMMA WithoutTimesOfAppend ==
    ASSUME NEW es \in Seq(Event), NEW e \in Event
    PROVE  WithoutTimes(Append(es, e)) = Append(WithoutTimes(es), Untimed(e))
<1> DEFINE s == Append(es, e)
           w == WithoutTimes(es)
           x == Untimed(e)
           g == WithoutTimes(s)
           h == Append(w, x)
           n == Len(es)
<1>1. s \in Seq(Event) /\ Len(s) = n + 1 /\ n \in Nat /\ s[n + 1] = e
      /\ \A i \in 1 .. n : s[i] = es[i]
  OBVIOUS
<1>2. w \in Seq(Lifecycle!Entry) /\ Len(w) = n /\ \A i \in 1 .. n : w[i] = Untimed(es[i])
  BY WithoutTimesIsSeq
<1> HIDE DEF s, w
<1>3. g \in Seq(Lifecycle!Entry) /\ Len(g) = n + 1
      /\ \A i \in 1 .. n + 1 : g[i] = Untimed(s[i])
  BY <1>1, WithoutTimesIsSeq
<1>4. x \in Lifecycle!Entry
  BY UntimedIsEntry
<1> HIDE DEF g, x, n
<1>5. h \in Seq(Lifecycle!Entry) /\ Len(h) = n + 1 /\ h[n + 1] = x
      /\ \A i \in 1 .. n : h[i] = w[i]
  BY <1>1, <1>2, <1>4
<1> HIDE DEF h
<1>6. \A i \in 1 .. n + 1 : g[i] = h[i]
  <2> TAKE i \in 1 .. n + 1
  <2>1. CASE i \in 1 .. n
    BY <2>1, <1>1, <1>2, <1>3, <1>5
  <2>2. CASE i = n + 1
    BY <2>2, <1>1, <1>3, <1>5 DEF x
  <2> QED BY <1>1, <2>1, <2>2
<1>7. g = h
  BY <1>1, <1>3, <1>5, <1>6, SeqEqual
<1> QED BY <1>7 DEF g, h, s, w, x

(* The history of a placed order.                                          *)
LEMMA WithoutTimesOfFirst ==
    ASSUME NEW e \in Event
    PROVE  WithoutTimes(<<>>) = <<>> /\ WithoutTimes(<<e>>) = <<Untimed(e)>>
<1>1. <<>> \in Seq(Event) /\ Len(<<>>) = 0 /\ <<e>> = Append(<<>>, e)
  OBVIOUS
<1>2. WithoutTimes(<<>>) \in Seq(Lifecycle!Entry) /\ Len(WithoutTimes(<<>>)) = 0
  BY <1>1, WithoutTimesIsSeq
<1>3. WithoutTimes(<<>>) = <<>>
  BY <1>2, EmptySeq
<1>4. WithoutTimes(<<e>>) = Append(<<>>, Untimed(e))
  BY <1>1, <1>3, WithoutTimesOfAppend
<1> QED BY <1>3, <1>4

(* The write path implements the lifecycle: a placement is Place, a write  *)
(* that matched its row is Move, and nothing else shows.                   *)
THEOREM Implementation == Spec => ImplementsLifecycle
<1> DEFINE hist == [o \in Orders |-> WithoutTimes(events[o])]
<1>1. Init => Lifecycle!Init
  <2>1. WithoutTimes(<<>>) = <<>>
    BY DEF WithoutTimes
  <2> QED BY <2>1 DEF Init, Lifecycle!Init
<1>2. IInv /\ IInv' /\ [Next]_vars => [Lifecycle!Next]_hist
  <2> SUFFICES ASSUME IInv, IInv', Next
               PROVE  Lifecycle!Next \/ UNCHANGED hist
    BY DEF vars
  <2>1. ASSUME NEW o \in Orders, Place(o)
        PROVE  Lifecycle!Next
    <3> DEFINE e == [status |-> InitialStatus(payment[o]), actor |-> "customer", at |-> now]
               x == [status |-> InitialStatus(payment[o]), actor |-> "customer"]
    <3>1. events[o] = <<>> /\ events' = [events EXCEPT ![o] = <<e>>]
      BY <2>1 DEF Place, IInv, HistoryIsLegal
    <3>2. payment[o] \in PaymentMethod /\ events \in [Orders -> Seq(Event)]
      BY DEF IInv, TypeOK
    <3>3. e \in Event /\ Untimed(e) = x
      BY <3>2, InitialIsStatus DEF Event, IInv, TypeOK, Untimed, Actor
    <3>4. WithoutTimes(<<>>) = <<>> /\ WithoutTimes(<<e>>) = <<x>>
      BY <3>3, WithoutTimesOfFirst
    <3> HIDE DEF e, x
    <3>5. hist[o] = <<>>
      BY <3>1, <3>4
    <3>6. hist' = [hist EXCEPT ![o] = <<x>>]
      BY <3>1, <3>2, <3>4
    <3> HIDE DEF hist
    <3>7. x = [status |-> Lifecycle!InitialStatus(payment[o]), actor |-> "customer"]
      BY SameTable DEF x
    <3>8. payment[o] \in Lifecycle!PaymentMethod
      BY <3>2, SameTable
    <3>9. Lifecycle!Place(o)
      BY <3>5, <3>6, <3>7, <3>8 DEF Lifecycle!Place, hist
    <3> QED BY <3>9 DEF Lifecycle!Next
  <2>2. ASSUME NEW c \in Calls, AppendTransition(c)
        PROVE  Lifecycle!Next
    <3> DEFINE k == call[c]
               o == k.order
               e == [status |-> k.to, actor |-> k.actor, at |-> k.at]
               x == Untimed(e)
    <3>1. /\ DecisionHolds(k) /\ TypeOK /\ status[o] = k.from
          /\ events' = [events EXCEPT ![o] = Append(@, e)] /\ k.pc = "decided"
      BY <2>2 DEF AppendTransition, IInv, DecisionsHold
    <3>2. /\ o \in Orders /\ k.to \in Status /\ k.actor \in Actor /\ k.at \in Nat
      BY <3>1, ActiveCall
    <3>3. e \in Event /\ events[o] \in Seq(Event) /\ e.status = k.to /\ e.actor = k.actor
      BY <3>1, <3>2 DEF TypeOK, Event
    <3>4. events[o] # <<>> /\ events[o][Len(events[o])].status = k.from
      BY <3>1, <3>2 DEF IInv, HistoryIsLegal, DecisionHolds
    <3>5. Lifecycle!CanTransition(k.from, k.to, k.actor)
      BY <3>1, SameTable DEF DecisionHolds
    <3> HIDE DEF e
    <3>6. /\ WithoutTimes(Append(events[o], e)) = Append(WithoutTimes(events[o]), x)
          /\ x \in Lifecycle!Entry /\ x.status = k.to /\ x.actor = k.actor
      BY <3>3, WithoutTimesOfAppend, UntimedIsEntry
    <3>7. hist[o] = WithoutTimes(events[o])
      BY <3>2
    <3>8. Len(events[o]) \in Nat \ {0}
      BY <3>3, <3>4
    <3>9. /\ WithoutTimes(events[o]) \in Seq(Lifecycle!Entry)
          /\ Len(WithoutTimes(events[o])) = Len(events[o])
          /\ WithoutTimes(events[o])[Len(events[o])] = Untimed(events[o][Len(events[o])])
      BY <3>3, <3>8, WithoutTimesIsSeq
    <3>10. Untimed(events[o][Len(events[o])]).status = k.from
      BY <3>3, <3>4, <3>8, UntimedIsEntry
    <3>11. WithoutTimes(events[o]) # <<>>
      BY <3>8, <3>9
    <3>12. hist' = [hist EXCEPT ![o] = Append(@, x)]
      BY <3>1, <3>2, <3>6 DEF TypeOK
    <3> HIDE DEF x, hist, k, o
    <3>13. hist[o] # <<>> /\ hist[o][Len(hist[o])].status = k.from
      BY <3>7, <3>9, <3>10, <3>11
    <3>14. Lifecycle!CanTransition(hist[o][Len(hist[o])].status, x.status, x.actor)
      BY <3>5, <3>6, <3>13
    <3>15. Lifecycle!Move(o)
      BY <3>6, <3>12, <3>13, <3>14 DEF Lifecycle!Move, hist
    <3> QED BY <3>2, <3>15 DEF Lifecycle!Next, o
  <2>3. ASSUME UNCHANGED events
        PROVE  UNCHANGED hist
    BY <2>3
  <2> QED BY <2>1, <2>2, <2>3 DEF Next, Load, OrderMoved, Tell, Die, Tick
<1> QED BY <1>1, <1>2, Invariant, PTL DEF Spec, ImplementsLifecycle, Lifecycle!Spec
=============================================================================
