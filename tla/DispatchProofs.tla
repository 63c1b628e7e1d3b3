--------------------------- MODULE DispatchProofs ---------------------------
(***************************************************************************)
(* For any orders, riders, sweeps and concurrent requests: a finished job  *)
(* is never touched again and collected goods stay with who collected      *)
(* them, nobody carries a job they did not accept, and the order never     *)
(* runs ahead of its job.  All three rest on the compare-and-set of the    *)
(* job's status alone, the one guard every writer has.                     *)
(***************************************************************************)
EXTENDS Dispatch, TLAPS

(* What no step may do to a job: JobsOnlyFinish, of one step.              *)
JobsFinish ==
    \A o \in Orders :
        /\ job[o].status \in JobTerminal => job'[o] = job[o]
        /\ job[o].status = "collected" =>
             /\ job'[o].status \in {"collected"} \cup JobTerminal
             /\ job'[o].partner = job[o].partner

(* A job that is there has the fields of one.                              *)
LEMMA JobExists ==
    ASSUME TypeOK, NEW o \in Orders, job[o].status # "none"
    PROVE  /\ job[o] \in Job
           /\ job[o].status \in JobStatus
           /\ job[o].partner \in Partners \cup {None}
           /\ job[o].status \in {"offered", "assigned", "collected", "delivered", "failed"}
                => job[o].partner \in Partners
<1>1. job[o] \in Job
  BY DEF TypeOK, NoJob
<1> QED BY <1>1, NoneAssumption DEF Job, JobStatus

(* A rider's request past its reads has the fields of one.                 *)
LEMMA CheckedHand ==
    ASSUME TypeOK, NEW h \in Hands, hand[h].pc \in {"checked", "saved"}
    PROVE  /\ hand[h] \in Hand
           /\ hand[h].partner \in Partners /\ hand[h].row \in Row
           /\ hand[h].order \in Orders /\ hand[h].from \in JobStatus
           /\ hand[h].to \in Job
BY DEF TypeOK, Hand, Idle

(* So does one that has yet to move the order.                             *)
LEMMA SettledHand ==
    ASSUME TypeOK, NEW h \in Hands, hand[h].pc = "settled"
    PROVE  hand[h].order \in Orders /\ hand[h].to \in Status
BY DEF TypeOK, Hand, Idle

(* And so has each call of the offer use case.                             *)
LEMMA ActiveDesk ==
    ASSUME TypeOK, NEW d \in Desks, desk[d] # Idle
    PROVE  /\ desk[d] \in Desk
           /\ desk[d].pc \in {"offer", "create", "withdraw", "round", "lapse", "chosen", "cancel"}
                => desk[d].order \in Orders
           /\ desk[d].pc \in {"round", "lapse"} => desk[d].partner \in Partners \cup {None}
           /\ desk[d].pc \in {"chosen", "release", "releasing"} => desk[d].partner \in Partners
           /\ desk[d].pc = "releasing" => desk[d].row \in Row
           /\ desk[d].pc = "cancel" => desk[d].read \in Job
BY DEF TypeOK, Desk

(* Nothing is written yet and nobody is on the way.                        *)
LEMMA InitInv == Init => IInv
<1> SUFFICES ASSUME Init
             PROVE  IInv
  OBVIOUS
<1>1. TypeOK
  BY MaxCarryingAssumption, MaxFaultsAssumption DEF Init, TypeOK, Row, Status
<1>2. HoldersAgreed /\ OrderFollowsJob /\ HandsHold /\ DesksHold
  BY DEF Init, NoJob, Idle, HoldersAgreed, OrderFollowsJob, HandsHold, HandHolds,
         DesksHold, DeskHolds
<1> QED BY <1>1, <1>2 DEF IInv

(* What a legal write of one job leaves intact: everything any request     *)
(* relies on, whoever wrote and whatever the others had read.              *)
LEMMA JobWrite ==
    ASSUME IInv, NEW o \in Orders, NEW j \in Job,
           job' = [job EXCEPT ![o] = j], order' = order,
           agreed' \in [Orders -> SUBSET Partners],
           \A x \in Orders : agreed[x] \subseteq agreed'[x],
           job[o].status \notin JobTerminal,
           job[o].status = "collected" =>
               j.status \in JobTerminal /\ j.partner = job[o].partner,
           j.status \in {"assigned", "collected", "delivered", "failed"} =>
               j.partner \in agreed'[o]
    PROVE  /\ job' \in [Orders -> {NoJob} \cup Job]
           /\ JobsFinish /\ HoldersAgreed' /\ OrderFollowsJob'
           /\ \A k \in {Idle} \cup Hand : HandHolds(k) => HandHolds(k)'
           /\ \A k \in {Idle} \cup Desk : DeskHolds(k) => DeskHolds(k)'
<1>1. TypeOK /\ job'[o] = j /\ \A x \in Orders : x # o => job'[x] = job[x]
  BY DEF IInv, TypeOK
<1>2. job' \in [Orders -> {NoJob} \cup Job]
  BY <1>1 DEF TypeOK
<1>3. JobsFinish
  BY <1>1 DEF JobsFinish
<1>4. HoldersAgreed'
  BY <1>1 DEF IInv, HoldersAgreed
<1>5. OrderFollowsJob'
  BY <1>1 DEF IInv, OrderFollowsJob, JobTerminal
<1>6. ASSUME NEW x \in Orders, NEW p, Carried(x, p)
      PROVE  Carried(x, p)'
  BY <1>1, <1>6 DEF Carried
<1>7. ASSUME NEW x \in Orders, NEW s, Reached(x, s)
      PROVE  Reached(x, s)'
  BY <1>1, <1>7 DEF Reached, JobTerminal
<1>8. ASSUME NEW k \in {Idle} \cup Hand, HandHolds(k)
      PROVE  HandHolds(k)'
  BY <1>6, <1>7, <1>8 DEF HandHolds, Hand, Idle
<1>9. ASSUME NEW k \in {Idle} \cup Desk, DeskHolds(k)
      PROVE  DeskHolds(k)'
  BY <1>6, <1>9 DEF DeskHolds, Desk, Idle
<1> QED BY <1>2, <1>3, <1>4, <1>5, <1>8, <1>9

(* A call of the offer use case that writes no job.                        *)
LEMMA DeskStep ==
    ASSUME IInv, NEW d \in Desks, NEW k \in {Idle} \cup Desk, DeskHolds(k),
           desk' = [desk EXCEPT ![d] = k],
           partner' \in [Partners -> Row], faults' \in 0 .. MaxFaults,
           UNCHANGED <<order, job, hand, agreed>>
    PROVE  IInv' /\ JobsFinish
<1>1. TypeOK'
  BY DEF IInv, TypeOK
<1>2. DesksHold'
  BY DEF IInv, TypeOK, DesksHold, DeskHolds, Carried
<1>3. HoldersAgreed' /\ OrderFollowsJob' /\ HandsHold' /\ JobsFinish
  BY DEF IInv, HoldersAgreed, OrderFollowsJob, HandsHold, HandHolds, Carried, Reached,
         JobsFinish
<1> QED BY <1>1, <1>2, <1>3 DEF IInv

(* A rider's request that writes neither a job nor an order.               *)
LEMMA HandStep ==
    ASSUME IInv, NEW h \in Hands, NEW k \in {Idle} \cup Hand, HandHolds(k),
           hand' = [hand EXCEPT ![h] = k],
           partner' \in [Partners -> Row], faults' \in 0 .. MaxFaults,
           UNCHANGED <<order, job, desk, agreed>>
    PROVE  IInv' /\ JobsFinish
<1>1. TypeOK'
  BY DEF IInv, TypeOK
<1>2. HandsHold'
  BY DEF IInv, TypeOK, HandsHold, HandHolds, Carried, Reached
<1>3. HoldersAgreed' /\ OrderFollowsJob' /\ DesksHold' /\ JobsFinish
  BY DEF IInv, HoldersAgreed, OrderFollowsJob, DesksHold, DeskHolds, Carried, JobsFinish
<1> QED BY <1>1, <1>2, <1>3 DEF IInv

(* A call of the offer use case that writes a job and is over with that,   *)
(* or has nothing left that depends on one.                                *)
LEMMA DeskWrite ==
    ASSUME IInv, NEW d \in Desks, NEW k \in {Idle} \cup Desk, k.pc # "cancel",
           desk' = [desk EXCEPT ![d] = k],
           NEW o \in Orders, NEW j \in Job, job' = [job EXCEPT ![o] = j],
           UNCHANGED <<order, partner, hand, agreed, faults>>,
           job[o].status \notin JobTerminal,
           job[o].status = "collected" =>
               j.status \in JobTerminal /\ j.partner = job[o].partner,
           j.status \notin {"assigned", "collected", "delivered", "failed"}
    PROVE  IInv' /\ JobsFinish
<1>1. agreed' \in [Orders -> SUBSET Partners] /\ \A x \in Orders : agreed[x] \subseteq agreed'[x]
  BY DEF IInv, TypeOK
<1>2. /\ job' \in [Orders -> {NoJob} \cup Job]
      /\ JobsFinish /\ HoldersAgreed' /\ OrderFollowsJob'
      /\ \A x \in {Idle} \cup Hand : HandHolds(x) => HandHolds(x)'
      /\ \A x \in {Idle} \cup Desk : DeskHolds(x) => DeskHolds(x)'
  BY <1>1, JobWrite
<1>3. TypeOK'
  BY <1>2 DEF IInv, TypeOK
<1>4. HandsHold'
  BY <1>2 DEF IInv, TypeOK, HandsHold, HandHolds
<1>5. DesksHold'
  BY <1>2 DEF IInv, TypeOK, DesksHold, DeskHolds
<1> QED BY <1>2, <1>3, <1>4, <1>5 DEF IInv

(* One job less is still a row.                                            *)
LEMMA FreedRow ==
    ASSUME NEW r \in Row
    PROVE  Freed(r) \in Row
BY MaxCarryingAssumption DEF Freed, Row

(* Offers, rounds and withdrawals up to their writes, and the release.     *)
LEMMA DeskReads ==
    ASSUME IInv, NEW d \in Desks,
           \/ Sweep(d) \/ Offer(d) \/ Choose(d) \/ NobodyToAsk(d)
           \/ Withdraw(d) \/ ReadHolder(d) \/ Release(d) \/ DeskFails(d)
    PROVE  IInv' /\ JobsFinish
<1>1. TypeOK
  BY DEF IInv
<1>2. DeskHolds(Idle) /\ Idle \in {Idle} \cup Desk
  BY DEF DeskHolds, Idle
<1>3. partner \in [Partners -> Row] /\ faults \in 0 .. MaxFaults
  BY <1>1 DEF TypeOK
<1>4. CASE Sweep(d)
  <2>1. PICK o \in Orders : SweepLapsed(d, o) \/ SweepWaiting(d, o)
    BY <1>4 DEF Sweep
  <2>2. CASE SweepLapsed(d, o)
    <3> DEFINE k == [pc |-> "lapse", order |-> o, partner |-> job[o].partner]
    <3>1. k \in Desk /\ DeskHolds(k)
      BY <1>1, <2>2, JobExists DEF SweepLapsed, Desk, DeskHolds
    <3>2. desk' = [desk EXCEPT ![d] = k]
      BY <2>2 DEF SweepLapsed
    <3> HIDE DEF k
    <3> QED BY <1>3, <2>2, <3>1, <3>2, DeskStep DEF SweepLapsed
  <2>3. CASE SweepWaiting(d, o)
    <3> DEFINE k == [pc |-> "round", order |-> o, partner |-> job[o].passed]
    <3>1. job[o] \in Job /\ job[o].passed \in Partners \cup {None}
      BY <1>1, <2>3, JobExists DEF SweepWaiting, Job
    <3>2. k \in Desk /\ DeskHolds(k)
      BY <3>1 DEF Desk, DeskHolds
    <3>3. desk' = [desk EXCEPT ![d] = k]
      BY <2>3 DEF SweepWaiting
    <3> HIDE DEF k
    <3> QED BY <1>3, <2>3, <3>2, <3>3, DeskStep DEF SweepWaiting
  <2> QED BY <2>1, <2>2, <2>3
<1>5. CASE Offer(d)
  <2> DEFINE k == [desk[d] EXCEPT !.pc = "create"]
  <2>1. k \in Desk /\ DeskHolds(k)
    BY <1>1, <1>5, ActiveDesk DEF Offer, Desk, DeskHolds, Idle
  <2>2. desk' = [desk EXCEPT ![d] = k] \/ desk' = [desk EXCEPT ![d] = Idle]
    BY <1>5 DEF Offer
  <2> HIDE DEF k
  <2> QED BY <1>2, <1>3, <1>5, <2>1, <2>2, DeskStep DEF Offer
<1>6. CASE Choose(d)
  <2>1. PICK p \in Pool(desk[d].partner) :
          desk' = [desk EXCEPT ![d] = [pc |-> "chosen", order |-> desk[d].order, partner |-> p]]
    BY <1>6 DEF Choose
  <2> DEFINE k == [pc |-> "chosen", order |-> desk[d].order, partner |-> p]
  <2>2. p \in Partners
    BY <2>1 DEF Pool
  <2>3. k \in Desk /\ DeskHolds(k)
    BY <1>1, <1>6, <2>2, ActiveDesk DEF Choose, Desk, DeskHolds, Idle
  <2>4. desk' = [desk EXCEPT ![d] = k]
    BY <2>1
  <2> HIDE DEF k
  <2> QED BY <1>3, <1>6, <2>3, <2>4, DeskStep DEF Choose
<1>7. CASE Withdraw(d)
  <2> DEFINE o == desk[d].order
             k == [pc |-> "cancel", order |-> o, read |-> job[o]]
  <2>1. o \in Orders
    BY <1>1, <1>7, ActiveDesk DEF Withdraw, Idle
  <2>2. ASSUME job[o].status \in Live
        PROVE  k \in Desk /\ DeskHolds(k)
    <3>1. job[o] \in Job
      BY <1>1, <2>1, <2>2, JobExists DEF Live, JobStatus
    <3>2. job[o].status \in {"assigned", "collected"} => job[o].partner \in agreed[o]
      BY <2>1 DEF IInv, HoldersAgreed
    <3> QED BY <2>1, <2>2, <3>1, <3>2 DEF Desk, DeskHolds, Carried
  <2>3. \/ job[o].status \in Live /\ desk' = [desk EXCEPT ![d] = k]
        \/ desk' = [desk EXCEPT ![d] = Idle]
    BY <1>7 DEF Withdraw
  <2> HIDE DEF k
  <2> QED BY <1>2, <1>3, <1>7, <2>2, <2>3, DeskStep DEF Withdraw
<1>8. CASE ReadHolder(d)
  <2> DEFINE p == desk[d].partner
             k == [pc |-> "releasing", partner |-> p, row |-> partner[p]]
  <2>1. p \in Partners /\ partner[p] \in Row
    BY <1>1, <1>3, <1>8, ActiveDesk DEF ReadHolder, Idle
  <2>2. k \in Desk /\ DeskHolds(k)
    BY <2>1 DEF Desk, DeskHolds
  <2>3. desk' = [desk EXCEPT ![d] = k]
    BY <1>8 DEF ReadHolder
  <2> HIDE DEF k
  <2> QED BY <1>3, <1>8, <2>2, <2>3, DeskStep DEF ReadHolder
<1>9. CASE Release(d)
  <2>1. desk[d].partner \in Partners /\ Freed(desk[d].row) \in Row
    BY <1>1, <1>9, ActiveDesk, FreedRow DEF Release, Idle
  <2>2. partner' \in [Partners -> Row]
    BY <1>3, <1>9, <2>1 DEF Release
  <2> QED BY <1>2, <1>3, <1>9, <2>2, DeskStep DEF Release
<1>10. CASE NobodyToAsk(d)
  BY <1>2, <1>3, <1>10, DeskStep DEF NobodyToAsk
<1>11. CASE DeskFails(d)
  <2>1. faults' \in 0 .. MaxFaults
    BY <1>3, <1>11, MaxFaultsAssumption DEF DeskFails
  <2> QED BY <1>2, <1>3, <1>11, <2>1, DeskStep DEF DeskFails
<1> QED BY <1>4, <1>5, <1>6, <1>7, <1>8, <1>9, <1>10, <1>11

(* A job is made, offered, put back or taken off by compare-and-set.       *)
LEMMA DeskWrites ==
    ASSUME IInv, NEW d \in Desks,
           CreateJob(d) \/ SaveOffer(d) \/ SaveLapse(d) \/ SaveCancel(d)
    PROVE  IInv' /\ JobsFinish
<1> DEFINE o == desk[d].order
<1>1. TypeOK /\ desk[d] # Idle /\ o \in Orders
  BY ActiveDesk DEF IInv, CreateJob, SaveOffer, SaveLapse, SaveCancel, Idle
<1>2. partner \in [Partners -> Row] /\ faults \in 0 .. MaxFaults /\ DeskHolds(Idle)
  BY <1>1 DEF TypeOK, DeskHolds, Idle
<1>3. ASSUME desk' = [desk EXCEPT ![d] = Idle],
             UNCHANGED <<order, job, partner, hand, agreed, faults>>
      PROVE  IInv' /\ JobsFinish
  BY <1>2, <1>3, DeskStep
<1>4. CASE CreateJob(d)
  <2> DEFINE k == [pc |-> "round", order |-> o, partner |-> None]
  <2>1. CASE job[o] = NoJob
    <3>1. k \in Desk /\ k.pc # "cancel" /\ Waiting(None) \in Job
      BY <1>1 DEF Desk, Job, Waiting
    <3>2. desk' = [desk EXCEPT ![d] = k] /\ job' = [job EXCEPT ![o] = Waiting(None)]
          /\ UNCHANGED <<order, partner, hand, agreed, faults>>
      BY <1>4, <2>1 DEF CreateJob
    <3>3. job[o].status = "none" /\ Waiting(None).status = "waiting"
      BY <2>1 DEF NoJob, Waiting
    <3> HIDE DEF k, o
    <3> QED BY <1>1, <3>1, <3>2, <3>3, DeskWrite DEF JobTerminal
  <2>2. CASE job[o] # NoJob
    BY <1>3, <1>4, <2>2 DEF CreateJob
  <2> QED BY <2>1, <2>2
<1>5. CASE SaveOffer(d)
  <2>1. CASE job[o].status = "waiting"
    <3> DEFINE j == Held("offered", desk[d].partner)
    <3>1. j \in Job /\ j.status = "offered"
      BY <1>1, <1>5, ActiveDesk DEF SaveOffer, Job, Held
    <3>2. desk' = [desk EXCEPT ![d] = Idle] /\ job' = [job EXCEPT ![o] = j]
          /\ UNCHANGED <<order, partner, hand, agreed, faults>>
      BY <1>5, <2>1 DEF SaveOffer
    <3>3. Idle.pc # "cancel"
      BY DEF Idle
    <3> HIDE DEF j, o
    <3> QED BY <1>1, <2>1, <3>1, <3>2, <3>3, DeskWrite DEF JobTerminal
  <2>2. CASE job[o].status # "waiting"
    BY <1>3, <1>5, <2>2 DEF SaveOffer
  <2> QED BY <2>1, <2>2
<1>6. CASE SaveLapse(d)
  <2>1. CASE job[o].status = "offered"
    <3> DEFINE j == Waiting(desk[d].partner)
    <3>1. j \in Job /\ j.status = "waiting"
      BY <1>1, <1>6, ActiveDesk DEF SaveLapse, Job, Waiting
    <3>2. desk' = [desk EXCEPT ![d] = Idle] /\ job' = [job EXCEPT ![o] = j]
          /\ UNCHANGED <<order, partner, hand, agreed, faults>>
      BY <1>6, <2>1 DEF SaveLapse
    <3>3. Idle.pc # "cancel"
      BY DEF Idle
    <3> HIDE DEF j, o
    <3> QED BY <1>1, <2>1, <3>1, <3>2, <3>3, DeskWrite DEF JobTerminal
  <2>2. CASE job[o].status # "offered"
    BY <1>3, <1>6, <2>2 DEF SaveLapse
  <2> QED BY <2>1, <2>2
<1>7. CASE SaveCancel(d)
  <2> DEFINE k == [pc |-> "release", partner |-> desk[d].read.partner]
             j == [desk[d].read EXCEPT !.status = "cancelled"]
             next == IF desk[d].read.partner = None THEN Idle ELSE k
  <2>1. desk[d].pc = "cancel" /\ desk[d].read \in Job /\ DeskHolds(desk[d])
    BY <1>1, <1>7, ActiveDesk DEF SaveCancel, IInv, DesksHold
  <2>2. CASE job[o].status = desk[d].read.status
    <3>1. j \in Job /\ j.status = "cancelled" /\ j.partner = desk[d].read.partner
      BY <2>1 DEF Job
    <3>2. next \in {Idle} \cup Desk /\ next.pc # "cancel"
      BY <2>1 DEF Job, Desk, Idle
    <3>3. desk' = [desk EXCEPT ![d] = next] /\ job' = [job EXCEPT ![o] = j]
          /\ UNCHANGED <<order, partner, hand, agreed, faults>>
      BY <1>7, <2>2 DEF SaveCancel
    <3>4. /\ job[o].status \notin JobTerminal
          /\ job[o].status = "collected" => job[o].partner = desk[d].read.partner
      BY <2>1, <2>2 DEF DeskHolds, Carried, Live
    <3> HIDE DEF j, o, next
    <3> QED BY <1>1, <3>1, <3>2, <3>3, <3>4, DeskWrite DEF JobTerminal
  <2>3. CASE job[o].status # desk[d].read.status
    BY <1>3, <1>7, <2>3 DEF SaveCancel
  <2> QED BY <2>2, <2>3
<1> QED BY <1>4, <1>5, <1>6, <1>7

(* The offer's clock is not one of the things anybody relies on.           *)
LEMMA ClockInv ==
    ASSUME IInv, NEW o \in Orders, ClockRunsOut(o)
    PROVE  IInv' /\ JobsFinish
<1> DEFINE j == [job[o] EXCEPT !.lapsed = TRUE]
<1>1. TypeOK /\ job[o].status = "offered" /\ job' = [job EXCEPT ![o] = j]
      /\ UNCHANGED <<order, partner, desk, hand, agreed, faults>>
  BY DEF IInv, ClockRunsOut
<1>2. j \in Job /\ j.status = "offered"
  BY <1>1, JobExists DEF Job
<1>3. agreed' \in [Orders -> SUBSET Partners] /\ \A x \in Orders : agreed[x] \subseteq agreed'[x]
  BY <1>1 DEF TypeOK
<1> HIDE DEF j
<1>4. /\ job' \in [Orders -> {NoJob} \cup Job]
      /\ JobsFinish /\ HoldersAgreed' /\ OrderFollowsJob'
      /\ \A x \in {Idle} \cup Hand : HandHolds(x) => HandHolds(x)'
      /\ \A x \in {Idle} \cup Desk : DeskHolds(x) => DeskHolds(x)'
  BY <1>1, <1>2, <1>3, JobWrite DEF JobTerminal
<1>5. TypeOK' /\ HandsHold' /\ DesksHold'
  BY <1>1, <1>4 DEF IInv, TypeOK, HandsHold, DesksHold
<1> QED BY <1>4, <1>5 DEF IInv

(* Nobody but a rider moves an order to picked up or to delivered.         *)
LEMMA OrderMovesInv ==
    ASSUME IInv, NEW d \in Desks, NEW o \in Orders, OrderMoves(d, o)
    PROVE  IInv' /\ JobsFinish
<1>1. PICK to \in Status, actor \in Actor \ {"partner"} :
        /\ CanTransition(order[o], to, actor)
        /\ order' = [order EXCEPT ![o] = to]
        /\ desk' = [desk EXCEPT ![d] =
              [pc |-> IF to = "ready" THEN "offer" ELSE "withdraw", order |-> o]]
  BY DEF OrderMoves
<1> DEFINE k == [pc |-> IF to = "ready" THEN "offer" ELSE "withdraw", order |-> o]
<1>2. k \in Desk /\ DeskHolds(k)
  BY DEF Desk, DeskHolds
<1>3. TypeOK /\ UNCHANGED <<job, partner, hand, agreed, faults>>
  BY DEF IInv, OrderMoves
<1>4. to \notin {"picked_up", "delivered"}
  BY <1>1 DEF CanTransition, Moves, Actor
<1>5. desk' = [desk EXCEPT ![d] = k]
  BY <1>1
<1> HIDE DEF k
<1>6. TypeOK'
  BY <1>1, <1>2, <1>3, <1>5 DEF TypeOK
<1>7. DesksHold'
  BY <1>2, <1>3, <1>5 DEF IInv, TypeOK, DesksHold, DeskHolds, Carried
<1>8. OrderFollowsJob'
  BY <1>1, <1>3, <1>4 DEF TypeOK, IInv, OrderFollowsJob
<1>9. HoldersAgreed' /\ HandsHold' /\ JobsFinish
  BY <1>3 DEF IInv, HoldersAgreed, HandsHold, HandHolds, Carried, Reached, JobsFinish
<1> QED BY <1>6, <1>7, <1>8, <1>9 DEF IInv

(* What a rider may make of a job that is theirs.                          *)
LEMMA MovedJobs ==
    ASSUME NEW j \in Job, NEW p \in Partners, NEW to \in Moved(j, p)
    PROVE  /\ to \in Job /\ j.partner = p
           /\ \/ j.status = "offered" /\ to.status \in {"waiting", "assigned"}
              \/ j.status = "assigned" /\ to.status \in {"waiting", "collected"}
              \/ j.status = "collected" /\ to.status \in {"delivered", "failed"}
           /\ to.status # "waiting" => to.partner = p
<1>1. j.status \in {"waiting", "offered", "assigned", "collected"} /\ j.partner = p
  BY DEF Moved, Live, JobStatus, JobTerminal
<1>2. j.status # "waiting"
  BY <1>1, NoneAssumption DEF Job
<1>3. /\ Waiting(p) \in Job /\ Waiting(p).status = "waiting"
      /\ \A s \in {"assigned", "collected", "delivered", "failed"} :
           Held(s, p) \in Job /\ Held(s, p).status = s /\ Held(s, p).partner = p
  BY DEF Waiting, Held, Job
<1>4. CASE j.status = "offered"
  BY <1>1, <1>3, <1>4 DEF Moved
<1>5. CASE j.status = "assigned"
  BY <1>1, <1>3, <1>5 DEF Moved
<1>6. CASE j.status = "collected"
  BY <1>1, <1>3, <1>6 DEF Moved
<1> QED BY <1>1, <1>2, <1>4, <1>5, <1>6

(* The rider's row with the load the move leaves, within the bound.        *)
LEMMA SettledRow ==
    ASSUME TypeOK, NEW h \in Hands, hand[h].pc = "saved",
           Settled(hand[h]).carrying <= MaxCarrying
    PROVE  Settled(hand[h]) \in Row
<1> DEFINE r == hand[h].row
<1>1. r \in Row /\ Freed(r) \in Row
  BY CheckedHand, FreedRow
<1>2. Settled(hand[h]) \in {[r EXCEPT !.carrying = @ + 1], Freed(r), r}
  BY DEF Settled
<1> QED BY <1>1, <1>2, MaxCarryingAssumption DEF Row

(* A rider's request up to its write of the job, and the settling of the   *)
(* rider's own row after it.                                               *)
LEMMA HandReads ==
    ASSUME IInv, NEW h \in Hands,
           \/ \E p \in Partners : Mine(h, p)
           \/ \E on \in BOOLEAN : SaveMine(h, on)
           \/ \E o \in Orders : ReadJob(h, o)
           \/ Refused(h) \/ Settle(h) \/ HandFails(h)
    PROVE  IInv' /\ JobsFinish
<1>1. TypeOK
  BY DEF IInv
<1>2. HandHolds(Idle) /\ Idle \in {Idle} \cup Hand
  BY DEF HandHolds, Idle
<1>3. partner \in [Partners -> Row] /\ faults \in 0 .. MaxFaults
  BY <1>1 DEF TypeOK
<1>4. ASSUME NEW p \in Partners, Mine(h, p)
      PROVE  IInv' /\ JobsFinish
  <2> DEFINE k == [pc |-> "mine", partner |-> p, row |-> partner[p]]
  <2>1. k \in Hand /\ HandHolds(k)
    BY <1>3 DEF Hand, HandHolds
  <2>2. hand' = [hand EXCEPT ![h] = k]
    BY <1>4 DEF Mine
  <2> HIDE DEF k
  <2> QED BY <1>3, <1>4, <2>1, <2>2, HandStep DEF Mine
<1>5. ASSUME NEW on \in BOOLEAN, SaveMine(h, on)
      PROVE  IInv' /\ JobsFinish
  <2>1. hand[h].partner \in Partners /\ hand[h].row \in Row
    BY <1>1, <1>5 DEF SaveMine, TypeOK, Hand, Idle
  <2>2. [hand[h].row EXCEPT !.on = on] \in Row
    BY <2>1 DEF Row
  <2>3. partner' \in [Partners -> Row]
    BY <1>3, <1>5, <2>1, <2>2 DEF SaveMine
  <2> QED BY <1>2, <1>3, <1>5, <2>3, HandStep DEF SaveMine
<1>6. ASSUME NEW o \in Orders, ReadJob(h, o)
      PROVE  IInv' /\ JobsFinish
  <2> DEFINE p == hand[h].partner
  <2>1. p \in Partners /\ hand[h].row \in Row
    BY <1>1, <1>6 DEF ReadJob, TypeOK, Hand, Idle
  <2>2. PICK to \in Moved(job[o], p) :
          hand' = [hand EXCEPT ![h] =
                     [pc |-> "checked", partner |-> p, row |-> hand[h].row, order |-> o,
                      from |-> job[o].status, to |-> to]]
    BY <1>6 DEF ReadJob
  <2> DEFINE k == [pc |-> "checked", partner |-> p, row |-> hand[h].row, order |-> o,
                   from |-> job[o].status, to |-> to]
  <2>3. job[o] \in Job /\ job[o].status \in JobStatus
    BY <1>1, <2>2, JobExists DEF Moved
  <2>4. /\ to \in Job /\ job[o].partner = p
        /\ \/ job[o].status = "offered" /\ to.status \in {"waiting", "assigned"}
           \/ job[o].status = "assigned" /\ to.status \in {"waiting", "collected"}
           \/ job[o].status = "collected" /\ to.status \in {"delivered", "failed"}
        /\ to.status # "waiting" => to.partner = p
    BY <2>1, <2>2, <2>3, MovedJobs
  <2> HIDE DEF p
  <2>5. k \in Hand
    BY <2>1, <2>3, <2>4 DEF Hand
  <2>6. job[o].status \in {"assigned", "collected"} => p \in agreed[o]
    BY <2>4 DEF IInv, HoldersAgreed
  <2>7. HandHolds(k)
    BY <2>4, <2>6 DEF HandHolds, Carried
  <2>8. hand' = [hand EXCEPT ![h] = k]
    BY <2>2
  <2> HIDE DEF k
  <2> QED BY <1>3, <1>6, <2>5, <2>7, <2>8, HandStep DEF ReadJob
<1>7. CASE Settle(h)
  <2> DEFINE s == hand[h].to.status
             k == [pc |-> "settled", order |-> hand[h].order, to |-> AdvanceTo(s)]
             next == IF s \in {"collected", "delivered", "failed"} THEN k ELSE Idle
  <2>1. hand[h].partner \in Partners /\ hand[h].order \in Orders /\ Settled(hand[h]) \in Row
        /\ Reached(hand[h].order, s)
    BY <1>1, <1>7, CheckedHand, SettledRow DEF Settle, IInv, HandsHold, HandHolds
  <2>2. partner' \in [Partners -> Row]
    BY <1>3, <1>7, <2>1 DEF Settle
  <2>3. s \in {"collected", "delivered", "failed"} => k \in Hand /\ HandHolds(k)
    BY <2>1 DEF Hand, HandHolds, Reached, AdvanceTo, Status
  <2>4. hand' = [hand EXCEPT ![h] = next]
    BY <1>7 DEF Settle
  <2>5. next \in {Idle} \cup Hand /\ HandHolds(next)
    BY <1>2, <2>3
  <2> HIDE DEF next
  <2> QED BY <1>3, <1>7, <2>2, <2>4, <2>5, HandStep DEF Settle
<1>8. CASE Refused(h)
  BY <1>2, <1>3, <1>8, HandStep DEF Refused
<1>9. CASE HandFails(h)
  <2>1. faults' \in 0 .. MaxFaults
    BY <1>3, <1>9, MaxFaultsAssumption DEF HandFails
  <2> QED BY <1>2, <1>3, <1>9, <2>1, HandStep DEF HandFails
<1> QED BY <1>4, <1>5, <1>6, <1>7, <1>8, <1>9

(* A rider's write: the status alone is compared, and still nothing that   *)
(* was accepted, collected or finished is undone by it.                    *)
LEMMA SaveJobInv ==
    ASSUME IInv, NEW h \in Hands, SaveJob(h)
    PROVE  IInv' /\ JobsFinish
<1> DEFINE o == hand[h].order
           j == hand[h].to
           p == hand[h].partner
           k == [hand[h] EXCEPT !.pc = "saved"]
<1>1. /\ TypeOK /\ hand[h].pc = "checked" /\ HandHolds(hand[h])
      /\ job[o].status = hand[h].from
      /\ job' = [job EXCEPT ![o] = j]
      /\ agreed' = [agreed EXCEPT ![o] = IF j.status = "assigned" THEN @ \cup {p} ELSE @]
      /\ hand' = [hand EXCEPT ![h] = k]
      /\ UNCHANGED <<order, partner, desk, faults>>
  BY DEF IInv, SaveJob, HandsHold
<1>2. o \in Orders /\ j \in Job /\ p \in Partners /\ hand[h] \in Hand
  BY <1>1, CheckedHand
<1>3. k \in Hand /\ k.pc = "saved" /\ k.order = o /\ k.to = j
  BY <1>1, <1>2 DEF Hand
<1>4. /\ \/ job[o].status = "offered" /\ j.status \in {"waiting", "assigned"}
         \/ job[o].status = "assigned" /\ j.status \in {"waiting", "collected"}
         \/ job[o].status = "collected" /\ j.status \in {"delivered", "failed"}
      /\ j.status # "waiting" => j.partner = p
      /\ job[o].status # "offered" => p \in agreed[o]
      /\ job[o].status = "collected" => job[o].partner = p
  BY <1>1 DEF HandHolds, Carried, JobTerminal
<1> HIDE DEF o, j, p, k
<1>5. agreed' \in [Orders -> SUBSET Partners] /\ \A x \in Orders : agreed[x] \subseteq agreed'[x]
  BY <1>1, <1>2 DEF TypeOK
<1>6. j.status \in {"assigned", "collected", "delivered", "failed"} => j.partner \in agreed'[o]
  BY <1>1, <1>2, <1>4 DEF TypeOK
<1>7. /\ job' \in [Orders -> {NoJob} \cup Job]
      /\ JobsFinish /\ HoldersAgreed' /\ OrderFollowsJob'
      /\ \A x \in {Idle} \cup Hand : HandHolds(x) => HandHolds(x)'
      /\ \A x \in {Idle} \cup Desk : DeskHolds(x) => DeskHolds(x)'
  BY <1>1, <1>2, <1>4, <1>5, <1>6, JobWrite DEF JobTerminal
<1>8. TypeOK'
  BY <1>1, <1>3, <1>5, <1>7 DEF TypeOK
<1>9. DesksHold'
  BY <1>1, <1>7 DEF IInv, TypeOK, DesksHold
<1>10. job'[o] = j /\ hand'[h] = k
  BY <1>1, <1>2 DEF TypeOK
<1>11. HandHolds(hand[h])'
  BY <1>3, <1>4, <1>10 DEF HandHolds, Reached, JobTerminal
<1>12. HandsHold'
  <2>1. \A g \in Hands : g # h => hand'[g] = hand[g] /\ hand[g] \in {Idle} \cup Hand
    BY <1>1 DEF TypeOK
  <2> QED BY <1>7, <1>11, <2>1 DEF IInv, HandsHold
<1> QED BY <1>7, <1>8, <1>9, <1>12 DEF IInv

(* The order follows a job that is there already.                          *)
LEMMA AdvanceInv ==
    ASSUME IInv, NEW h \in Hands, Advance(h)
    PROVE  IInv' /\ JobsFinish
<1> DEFINE o == hand[h].order
           s == hand[h].to
<1>1. /\ TypeOK /\ o \in Orders /\ s \in Status /\ Reached(o, s)
      /\ hand' = [hand EXCEPT ![h] = Idle]
      /\ UNCHANGED <<job, partner, desk, agreed, faults>>
  BY SettledHand DEF IInv, Advance, HandsHold, HandHolds
<1>2. \/ order' = [order EXCEPT ![o] = s]
      \/ order' = [order EXCEPT ![o] = order[o]]
  BY DEF Advance
<1> HIDE DEF o, s
<1>3. TypeOK'
  BY <1>1, <1>2 DEF TypeOK
<1>4. OrderFollowsJob'
  BY <1>1, <1>2 DEF TypeOK, IInv, OrderFollowsJob, Reached, JobTerminal
<1>5. HandsHold'
  BY <1>1 DEF TypeOK, IInv, HandsHold, HandHolds, Carried, Reached, Idle
<1>6. HoldersAgreed' /\ DesksHold' /\ JobsFinish
  BY <1>1 DEF IInv, HoldersAgreed, DesksHold, DeskHolds, Carried, JobsFinish
<1> QED BY <1>3, <1>4, <1>5, <1>6 DEF IInv

(* Every step keeps the invariant, and undoes nothing that is finished.    *)
LEMMA NextInv == IInv /\ [Next]_vars => IInv' /\ JobsFinish
<1> SUFFICES ASSUME IInv, [Next]_vars
             PROVE  IInv' /\ JobsFinish
  OBVIOUS
<1>1. CASE UNCHANGED vars
  BY <1>1 DEF vars, IInv, TypeOK, HoldersAgreed, OrderFollowsJob, HandsHold, HandHolds,
     DesksHold, DeskHolds, Carried, Reached, JobsFinish
<1>2. ASSUME NEW d \in Desks,
             (\E o \in Orders : OrderMoves(d, o)) \/ Sweep(d) \/ DeskGoesOn(d) \/ DeskFails(d)
      PROVE  IInv' /\ JobsFinish
  BY <1>2, OrderMovesInv, DeskReads, DeskWrites DEF DeskGoesOn
<1>3. ASSUME NEW h \in Hands,
             \/ \E p \in Partners : Mine(h, p)
             \/ \E on \in BOOLEAN : SaveMine(h, on)
             \/ \E o \in Orders : ReadJob(h, o)
             \/ HandGoesOn(h) \/ HandFails(h)
      PROVE  IInv' /\ JobsFinish
  BY <1>3, HandReads, SaveJobInv, AdvanceInv DEF HandGoesOn
<1>4. ASSUME NEW o \in Orders, ClockRunsOut(o)
      PROVE  IInv' /\ JobsFinish
  BY <1>4, ClockInv
<1> QED BY <1>1, <1>2, <1>3, <1>4 DEF Next

(* IInv is an invariant: what every request in memory relies on is true of *)
(* the tables, whatever the others write.                                  *)
THEOREM Invariant == Spec => []IInv
BY InitInv, NextInv, PTL DEF Spec

(* Tables and requests always have their types: a job that somebody holds  *)
(* names a rider, and the carrying counter is never negative.              *)
THEOREM TypeCorrect == Spec => []TypeOK
<1>1. IInv => TypeOK
  BY DEF IInv
<1> QED BY <1>1, Invariant, PTL

(* Nobody carries a job they did not accept.                               *)
THEOREM Consent == Spec => []HoldersAgreed
<1>1. IInv => HoldersAgreed
  BY DEF IInv
<1> QED BY <1>1, Invariant, PTL

(* The order never runs ahead of the job.                                  *)
THEOREM OrderAfterJob == Spec => []OrderFollowsJob
<1>1. IInv => OrderFollowsJob
  BY DEF IInv
<1> QED BY <1>1, Invariant, PTL

(* A finished job is never touched again, and collected goods stay with    *)
(* the rider who collected them.                                           *)
THEOREM Finality == Spec => JobsOnlyFinish
<1>1. Spec => [][JobsFinish]_vars
  BY NextInv, Invariant, PTL DEF Spec
<1> QED BY <1>1 DEF JobsOnlyFinish, JobsFinish

-----------------------------------------------------------------------------
(* The promise and the tables read the same rules.                         *)
LEMMA SameTable ==
    /\ Promised!Status = Status /\ Promised!Actor = Actor
    /\ \A from, to, actor :
          Promised!CanTransition(from, to, actor) <=> CanTransition(from, to, actor)
BY Zenon DEF Status, Actor, CanTransition, Moves,
       Promised!Status, Promised!Actor, Promised!CanTransition, Promised!Moves

stages == [o \in Orders |-> Stage(job[o])]

carriers == [o \in Orders |-> Carrier(job[o])]

(* One job's row written is one delivery moved, or none.                   *)
LEMMA WriteMoves ==
    ASSUME TypeOK, NEW o \in Orders, NEW j \in Job,
           job' = [job EXCEPT ![o] = j], order' = order
    PROVE  /\ Promised!Goes(o, Stage(j), Carrier(j))
           /\ stages[o] = Stage(job[o]) /\ carriers[o] = Carrier(job[o])
           /\ Stage(j) # Stage(job[o]) => stages' # stages
           /\ Stage(j) = Stage(job[o]) /\ Carrier(j) = Carrier(job[o])
                => UNCHANGED <<stages, carriers>>
<1>1. job'[o] = j /\ \A x \in Orders : x # o => job'[x] = job[x]
  BY DEF TypeOK
<1>2. stages' = [stages EXCEPT ![o] = Stage(j)]
  <2>1. ASSUME NEW x \in Orders PROVE stages'[x] = IF x = o THEN Stage(j) ELSE stages[x]
    BY <1>1 DEF stages, Stage
  <2>2. stages = [x \in Orders |-> stages[x]] /\ stages' = [x \in Orders |-> stages'[x]]
    BY DEF stages
  <2> QED BY <2>1, <2>2
<1>3. carriers' = [carriers EXCEPT ![o] = Carrier(j)]
  <2>1. ASSUME NEW x \in Orders PROVE carriers'[x] = IF x = o THEN Carrier(j) ELSE carriers[x]
    BY <1>1 DEF carriers, Carrier
  <2>2. carriers = [x \in Orders |-> carriers[x]] /\ carriers' = [x \in Orders |-> carriers'[x]]
    BY DEF carriers
  <2> QED BY <2>1, <2>2
<1>4. stages[o] = Stage(job[o]) /\ carriers[o] = Carrier(job[o])
      /\ stages'[o] = Stage(j) /\ carriers'[o] = Carrier(j)
  BY <1>1 DEF stages, carriers, Stage, Carrier
<1>5. Promised!Goes(o, Stage(j), Carrier(j))
  BY <1>2, <1>3 DEF Promised!Goes, stages, carriers
<1>6. Stage(j) = Stage(job[o]) => stages' = stages
  BY <1>2, <1>4 DEF stages
<1>7. Carrier(j) = Carrier(job[o]) => carriers' = carriers
  BY <1>3, <1>4 DEF carriers
<1> QED BY <1>4, <1>5, <1>6, <1>7

(* A status written over another is a move of the order.                   *)
LEMMA OrderWrite ==
    ASSUME TypeOK, NEW o \in Orders, NEW to \in Status, order' = [order EXCEPT ![o] = to],
           UNCHANGED <<job, agreed>>
    PROVE  Promised!Ordered(o, to) /\ (to # order[o] => order' # order)
<1>1. order'[o] = to
  BY DEF TypeOK
<1>2. UNCHANGED <<stages, carriers>>
  BY DEF stages, carriers, Stage, Carrier
<1> QED BY <1>1, <1>2 DEF Promised!Ordered, stages, carriers

(* What a step may be: one move of the promise, or nothing it speaks of.   *)
Keeps == Promised!Next \/ UNCHANGED <<order, stages, carriers, agreed>>

LEMMA DeliveryMoved ==
    ASSUME NEW o \in Orders, Promised!DeliveryMoves(o), stages' # stages
    PROVE  Keeps
<1>1. Promised!Next
  BY DEF Promised!Next, stages
<1> QED BY <1>1 DEF Keeps

LEMMA NothingMoved ==
    ASSUME UNCHANGED <<order, job, agreed>>
    PROVE  Keeps
<1>1. UNCHANGED <<stages, carriers>>
  BY DEF stages, carriers, Stage, Carrier
<1> QED BY <1>1 DEF Keeps

(* An offer made, taken back or run out is nothing to the promise: the     *)
(* delivery is on the board before and after.                              *)
LEMMA StillOnBoard ==
    ASSUME TypeOK, NEW o \in Orders, NEW j \in Job, job' = [job EXCEPT ![o] = j],
           UNCHANGED <<order, agreed>>,
           job[o].status \in {"waiting", "offered"}, j.status \in {"waiting", "offered"}
    PROVE  Keeps
<1>1. Stage(j) = Stage(job[o]) /\ Carrier(j) = Carrier(job[o])
  BY DEF Stage, Carrier
<1>2. UNCHANGED <<stages, carriers>>
  BY <1>1, WriteMoves
<1> QED BY <1>2 DEF Keeps

(* The calls of the offer use case put a delivery on the board, leave it   *)
(* there, or cancel it as the promise says.                                *)
LEMMA DeskKeeps ==
    ASSUME IInv, NEW d \in Desks,
           CreateJob(d) \/ SaveOffer(d) \/ SaveLapse(d) \/ SaveCancel(d)
    PROVE  Keeps
<1> DEFINE o == desk[d].order
<1>1. TypeOK /\ desk[d] # Idle /\ o \in Orders /\ UNCHANGED <<order, agreed>>
  BY ActiveDesk DEF IInv, CreateJob, SaveOffer, SaveLapse, SaveCancel, Idle
<1>2. CASE UNCHANGED job
  BY <1>1, <1>2, NothingMoved
<1>3. CASE CreateJob(d) /\ job' # job
  <2>1. job[o] = NoJob /\ job' = [job EXCEPT ![o] = Waiting(None)] /\ Waiting(None) \in Job
    BY <1>3 DEF CreateJob, Job, Waiting
  <2>2. Stage(Waiting(None)) = "board" /\ Carrier(Waiting(None)) = None /\ Stage(job[o]) = "none"
    BY <2>1 DEF Stage, Carrier, Waiting, NoJob
  <2> HIDE DEF o
  <2>3. Promised!Goes(o, "board", None) /\ stages[o] = "none" /\ stages' # stages
    BY <1>1, <2>1, <2>2, WriteMoves
  <2>4. Promised!PutOnBoard(o)
    BY <1>1, <2>3 DEF Promised!PutOnBoard, stages
  <2> QED BY <1>1, <2>3, <2>4, DeliveryMoved DEF Promised!DeliveryMoves
<1>4. CASE SaveOffer(d) /\ job' # job
  <2> DEFINE j == Held("offered", desk[d].partner)
  <2>1. job[o].status = "waiting" /\ job' = [job EXCEPT ![o] = j] /\ j \in Job /\ j.status = "offered"
    BY <1>1, <1>4, ActiveDesk DEF SaveOffer, Job, Held
  <2> HIDE DEF o, j
  <2> QED BY <1>1, <2>1, StillOnBoard
<1>5. CASE SaveLapse(d) /\ job' # job
  <2> DEFINE j == Waiting(desk[d].partner)
  <2>1. job[o].status = "offered" /\ job' = [job EXCEPT ![o] = j] /\ j \in Job /\ j.status = "waiting"
    BY <1>1, <1>5, ActiveDesk DEF SaveLapse, Job, Waiting
  <2> HIDE DEF o, j
  <2> QED BY <1>1, <2>1, StillOnBoard
<1>6. CASE SaveCancel(d) /\ job' # job
  <2> DEFINE r == desk[d].read
             j == [r EXCEPT !.status = "cancelled"]
  <2>1. r \in Job /\ DeskHolds(desk[d]) /\ job[o].status = r.status
        /\ job' = [job EXCEPT ![o] = j] /\ desk[d].pc = "cancel"
    BY <1>1, <1>6, ActiveDesk DEF SaveCancel, IInv, DesksHold
  <2>2. j \in Job /\ j.status = "cancelled" /\ j.partner = r.partner /\ r.partner \in Partners \cup {None}
    BY <2>1 DEF Job
  <2>3. /\ job[o].status \in {"waiting", "offered", "assigned", "collected"}
        /\ job[o].status \in {"assigned", "collected"} => r.partner \in agreed[o]
        /\ job[o].status = "collected" => job[o].partner = r.partner
    BY <2>1 DEF DeskHolds, Carried, Live, JobStatus, JobTerminal
  <2>4. Stage(j) = "cancelled" /\ Carrier(j) = r.partner
    BY <2>2 DEF Stage, Carrier
  <2>5. /\ Stage(job[o]) \in {"board", "assigned", "collected"}
        /\ Stage(job[o]) \in {"assigned", "collected"} => r.partner \in agreed[o]
        /\ Stage(job[o]) = "collected" => r.partner = Carrier(job[o])
    BY <2>3 DEF Stage, Carrier
  <2> HIDE DEF o, j, r
  <2>6. /\ Promised!Goes(o, "cancelled", r.partner) /\ stages' # stages
        /\ stages[o] = Stage(job[o]) /\ carriers[o] = Carrier(job[o])
    BY <1>1, <2>1, <2>2, <2>4, <2>5, WriteMoves
  <2>7. Promised!Cancel(o, r.partner)
    BY <1>1, <2>5, <2>6 DEF Promised!Cancel, Promised!Taken, stages, carriers
  <2> QED BY <1>1, <2>2, <2>6, <2>7, DeliveryMoved DEF Promised!DeliveryMoves
<1> QED BY <1>2, <1>3, <1>4, <1>5, <1>6

(* So does an offer's clock.                                               *)
LEMMA ClockKeeps ==
    ASSUME IInv, NEW o \in Orders, ClockRunsOut(o)
    PROVE  Keeps
<1> DEFINE j == [job[o] EXCEPT !.lapsed = TRUE]
<1>1. TypeOK /\ job[o].status = "offered" /\ job' = [job EXCEPT ![o] = j]
      /\ UNCHANGED <<order, agreed>>
  BY DEF IInv, ClockRunsOut
<1>2. j \in Job /\ j.status = "offered"
  BY <1>1, JobExists DEF Job
<1> HIDE DEF j
<1> QED BY <1>1, <1>2, StillOnBoard

(* A rider's write, into whosever job it is by then, is an acceptance, a   *)
(* giving back, a collection or an end that the promise allows.            *)
LEMMA SaveJobKeeps ==
    ASSUME IInv, NEW h \in Hands, SaveJob(h)
    PROVE  Keeps
<1> DEFINE o == hand[h].order
           j == hand[h].to
           p == hand[h].partner
<1>1. /\ TypeOK /\ hand[h].pc = "checked" /\ HandHolds(hand[h])
      /\ job[o].status = hand[h].from
      /\ job' = [job EXCEPT ![o] = j] /\ order' = order
      /\ agreed' = [agreed EXCEPT ![o] = IF j.status = "assigned" THEN @ \cup {p} ELSE @]
  BY DEF IInv, SaveJob, HandsHold
<1>2. o \in Orders /\ j \in Job /\ p \in Partners
  BY <1>1, CheckedHand
<1>3. /\ \/ job[o].status = "offered" /\ j.status \in {"waiting", "assigned"}
         \/ job[o].status = "assigned" /\ j.status \in {"waiting", "collected"}
         \/ job[o].status = "collected" /\ j.status \in {"delivered", "failed"}
      /\ j.status # "waiting" => j.partner = p
      /\ job[o].status # "offered" => p \in agreed[o]
      /\ job[o].status = "collected" => job[o].partner = p
  BY <1>1 DEF HandHolds, Carried, JobTerminal
<1> HIDE DEF o, j, p
<1>4. j.status # "assigned" => agreed' = agreed
  BY <1>1, <1>2 DEF TypeOK
<1>5. /\ Promised!Goes(o, Stage(j), Carrier(j))
      /\ stages[o] = Stage(job[o]) /\ carriers[o] = Carrier(job[o])
      /\ Stage(j) # Stage(job[o]) => stages' # stages
  BY <1>1, <1>2, WriteMoves
<1>6. CASE job[o].status = "offered" /\ j.status = "waiting"
  BY <1>1, <1>2, <1>4, <1>6, StillOnBoard
<1>7. CASE job[o].status = "offered" /\ j.status = "assigned"
  <2>1. Stage(job[o]) = "board" /\ Stage(j) = "assigned" /\ Carrier(j) = p
    BY <1>3, <1>7 DEF Stage, Carrier
  <2>2. agreed' = [agreed EXCEPT ![o] = @ \cup {p}]
    BY <1>1, <1>7
  <2>3. Promised!Accept(o, p)
    BY <1>5, <2>1, <2>2 DEF Promised!Accept, stages
  <2> QED BY <1>2, <1>5, <2>1, <2>3, DeliveryMoved DEF Promised!DeliveryMoves
<1>8. CASE job[o].status = "assigned" /\ j.status = "waiting"
  <2>1. Stage(job[o]) = "assigned" /\ Stage(j) = "board" /\ Carrier(j) = None
    BY <1>8 DEF Stage, Carrier
  <2>2. Promised!GiveBack(o)
    BY <1>4, <1>5, <1>8, <2>1 DEF Promised!GiveBack, stages
  <2> QED BY <1>2, <1>5, <2>1, <2>2, DeliveryMoved DEF Promised!DeliveryMoves
<1>9. CASE job[o].status = "assigned" /\ j.status = "collected"
  <2>1. Stage(job[o]) = "assigned" /\ Stage(j) = "collected" /\ Carrier(j) = p
    BY <1>3, <1>9 DEF Stage, Carrier
  <2>2. Promised!Collect(o, p)
    BY <1>3, <1>4, <1>5, <1>9, <2>1 DEF Promised!Collect, stages
  <2> QED BY <1>2, <1>5, <2>1, <2>2, DeliveryMoved DEF Promised!DeliveryMoves
<1>10. CASE job[o].status = "collected" /\ j.status \in {"delivered", "failed"}
  <2>1. Stage(job[o]) = "collected" /\ Stage(j) = j.status /\ Carrier(j) = p /\ Carrier(job[o]) = p
    BY <1>3, <1>10 DEF Stage, Carrier
  <2>2. Promised!Finish(o, j.status)
    BY <1>4, <1>5, <1>10, <2>1 DEF Promised!Finish, stages, carriers
  <2> QED BY <1>2, <1>5, <1>10, <2>1, <2>2, DeliveryMoved DEF Promised!DeliveryMoves
<1> QED BY <1>3, <1>6, <1>7, <1>8, <1>9, <1>10

(* A move of the order by anybody else is one of the table's.              *)
LEMMA OrderMovesKeeps ==
    ASSUME IInv, NEW d \in Desks, NEW o \in Orders, OrderMoves(d, o)
    PROVE  Keeps
<1>1. PICK to \in Status, actor \in Actor \ {"partner"} :
        CanTransition(order[o], to, actor) /\ order' = [order EXCEPT ![o] = to]
  BY DEF OrderMoves
<1>2. TypeOK /\ UNCHANGED <<job, agreed>> /\ to # order[o]
  BY <1>1 DEF IInv, OrderMoves, CanTransition, Moves
<1>3. Promised!Ordered(o, to) /\ order' # order
  BY <1>1, <1>2, OrderWrite
<1>4. Promised!OrderMoves(o, to)
  BY <1>1, <1>3, SameTable DEF Promised!OrderMoves
<1>5. Promised!Next
  BY <1>1, <1>3, <1>4, SameTable DEF Promised!Next
<1> QED BY <1>5 DEF Keeps

(* A rider's report of the order has the delivery behind it.               *)
LEMMA AdvanceKeeps ==
    ASSUME IInv, NEW h \in Hands, Advance(h)
    PROVE  Keeps
<1> DEFINE o == hand[h].order
           s == hand[h].to
<1>1. TypeOK /\ o \in Orders /\ s \in Status /\ Reached(o, s) /\ UNCHANGED <<job, agreed>>
  BY SettledHand DEF IInv, Advance, HandsHold, HandHolds
<1>2. order' = [order EXCEPT ![o] = IF CanTransition(order[o], s, "partner") THEN s ELSE order[o]]
  BY DEF Advance
<1> HIDE DEF o, s
<1>3. CASE ~CanTransition(order[o], s, "partner")
  <2>1. order' = order
    BY <1>1, <1>2, <1>3 DEF TypeOK
  <2> QED BY <1>1, <2>1, NothingMoved
<1>4. CASE CanTransition(order[o], s, "partner")
  <2>1. s \in {"picked_up", "delivered", "failed"} /\ s # order[o]
    BY <1>4 DEF CanTransition, Moves
  <2>2. Stage(job[o]) \in Promised!Behind(s)
    BY <1>1, <2>1 DEF Reached, Stage, JobTerminal, Promised!Behind, Promised!Over
  <2>3. Promised!Ordered(o, s) /\ order' # order
    BY <1>1, <1>2, <1>4, <2>1, OrderWrite
  <2>4. Promised!RiderMovesOrder(o, s)
    BY <1>1, <1>4, <2>2, <2>3, SameTable DEF Promised!RiderMovesOrder
  <2>5. Promised!Next
    BY <1>1, <2>3, <2>4, SameTable DEF Promised!Next
  <2> QED BY <2>5 DEF Keeps
<1> QED BY <1>3, <1>4

(* Each step is one move of the promise or nothing to it.                  *)
LEMMA NextKeeps == IInv /\ [Next]_vars => Keeps
<1> SUFFICES ASSUME IInv, [Next]_vars
             PROVE  Keeps
  OBVIOUS
<1>1. CASE UNCHANGED vars
  BY <1>1, NothingMoved DEF vars
<1>2. ASSUME NEW d \in Desks, NEW o \in Orders, OrderMoves(d, o)
      PROVE  Keeps
  BY <1>2, OrderMovesKeeps
<1>3. ASSUME NEW d \in Desks, Sweep(d) \/ DeskGoesOn(d) \/ DeskFails(d)
      PROVE  Keeps
  <2>1. CASE CreateJob(d) \/ SaveOffer(d) \/ SaveLapse(d) \/ SaveCancel(d)
    BY <2>1, DeskKeeps
  <2>2. CASE \/ Sweep(d) \/ Offer(d) \/ Choose(d) \/ NobodyToAsk(d)
             \/ Withdraw(d) \/ ReadHolder(d) \/ Release(d) \/ DeskFails(d)
    BY <2>2, NothingMoved DEF Sweep, SweepLapsed, SweepWaiting, Offer, Choose, NobodyToAsk,
       Withdraw, ReadHolder, Release, DeskFails
  <2> QED BY <1>3, <2>1, <2>2 DEF DeskGoesOn
<1>4. ASSUME NEW h \in Hands,
             \/ \E p \in Partners : Mine(h, p)
             \/ \E on \in BOOLEAN : SaveMine(h, on)
             \/ \E o \in Orders : ReadJob(h, o)
             \/ Refused(h) \/ Settle(h) \/ HandFails(h)
      PROVE  Keeps
  BY <1>4, NothingMoved DEF Mine, SaveMine, ReadJob, Refused, Settle, HandFails
<1>5. ASSUME NEW h \in Hands, SaveJob(h) \/ Advance(h)
      PROVE  Keeps
  BY <1>5, SaveJobKeeps, AdvanceKeeps
<1>6. ASSUME NEW o \in Orders, ClockRunsOut(o)
      PROVE  Keeps
  BY <1>6, ClockKeeps
<1> QED BY <1>1, <1>2, <1>3, <1>4, <1>5, <1>6 DEF Next, HandGoesOn

(* Dispatch, with its offers, sweeps, stale rows and failures, implements  *)
(* the delivery it promises.                                               *)
THEOREM Implementation == Spec => ImplementsDelivery
<1>1. Init => Promised!Init
  BY DEF Init, Promised!Init, NoJob, Stage, Carrier
<1>2. IInv /\ [Next]_vars => [Promised!Next]_Promised!delivery
  BY NextKeeps DEF Keeps, Promised!delivery, stages, carriers
<1> QED BY <1>1, <1>2, Invariant, PTL DEF Spec, ImplementsDelivery, Promised!Spec

=============================================================================
