------------------------------ MODULE Dispatch ------------------------------
(***************************************************************************)
(* Getting an order from a counter to a door: one delivery job per order,  *)
(* offered to one rider at a time.  Three parties write the two tables:    *)
(* the order module (an offer at ready, a withdrawal when the order goes   *)
(* away), the sweep, and the riders' requests.  Each reads rows, decides   *)
(* on what it read and writes: a job by compare-and-set on its status, a   *)
(* partner as a whole row.                                                 *)
(***************************************************************************)
EXTENDS OrderTable, FiniteSets

CONSTANTS
    Orders,         \* orders whose food is being prepared
    Partners,       \* registered riders
    Desks,          \* callers of the offer use case at once: order moves, sweeps
    Hands,          \* riders' requests in flight at once
    MaxConcurrent,  \* dispatch.max_concurrent_jobs
    MaxCarrying,    \* bound on the carrying counter
    MaxFaults,      \* bound on requests that fail half done
    None

ASSUME MaxConcurrentAssumption == MaxConcurrent \in Nat \ {0}
ASSUME MaxCarryingAssumption == MaxCarrying \in Nat
ASSUME MaxFaultsAssumption == MaxFaults \in Nat
ASSUME NoneAssumption == None \notin Partners

VARIABLES
    order,      \* orders.status, the order module's
    job,        \* delivery_jobs, by order: its unique index
    partner,    \* delivery_partners: on shift or not, and the carrying counter
    desk,       \* what each caller of the offer use case holds
    hand,       \* what each rider's request holds
    agreed,     \* history: who accepted each order's job
    faults

vars == <<order, job, partner, desk, hand, agreed, faults>>

JobStatus == {"waiting", "offered", "assigned", "collected",
              "delivered", "failed", "cancelled"}
JobTerminal == {"delivered", "failed", "cancelled"}
Live == JobStatus \ JobTerminal

NoJob == [status |-> "none"]
Idle == [pc |-> "idle"]

(* A waiting job has nobody, any other but a cancelled one has somebody:   *)
(* the table's CHECK.  Only an offer can have run out.                     *)
Job == [status : {"waiting"}, partner : {None}, passed : Partners \cup {None}, lapsed : {FALSE}]
       \cup [status : {"offered"}, partner : Partners, passed : {None}, lapsed : BOOLEAN]
       \cup [status : {"assigned", "collected", "delivered", "failed"},
             partner : Partners, passed : {None}, lapsed : {FALSE}]
       \cup [status : {"cancelled"}, partner : Partners \cup {None},
             passed : Partners \cup {None}, lapsed : BOOLEAN]

(* Availability is a choice of two here: nothing in the code writes busy.  *)
Row == [on : BOOLEAN, carrying : 0 .. MaxCarrying]

Waiting(q) == [status |-> "waiting", partner |-> None, passed |-> q, lapsed |-> FALSE]
Held(s, p) == [status |-> s, partner |-> p, passed |-> None, lapsed |-> FALSE]

Desk == [pc : {"offer", "create", "withdraw"}, order : Orders]
        \cup [pc : {"round", "lapse"}, order : Orders, partner : Partners \cup {None}]
        \cup [pc : {"chosen"}, order : Orders, partner : Partners]
        \cup [pc : {"cancel"}, order : Orders, read : Job]
        \cup [pc : {"release"}, partner : Partners]
        \cup [pc : {"releasing"}, partner : Partners, row : Row]

Hand == [pc : {"mine"}, partner : Partners, row : Row]
        \cup [pc : {"checked", "saved"}, partner : Partners, row : Row,
              order : Orders, from : JobStatus, to : Job]
        \cup [pc : {"settled"}, order : Orders, to : Status]

TypeOK ==
    /\ order \in [Orders -> Status]
    /\ job \in [Orders -> {NoJob} \cup Job]
    /\ partner \in [Partners -> Row]
    /\ desk \in [Desks -> {Idle} \cup Desk]
    /\ hand \in [Hands -> {Idle} \cup Hand]
    /\ agreed \in [Orders -> SUBSET Partners]
    /\ faults \in 0 .. MaxFaults

Init ==
    /\ order = [o \in Orders |-> "preparing"]
    /\ job = [o \in Orders |-> NoJob]
    /\ partner = [p \in Partners |-> [on |-> FALSE, carrying |-> 0]]
    /\ desk = [d \in Desks |-> Idle]
    /\ hand = [h \in Hands |-> Idle]
    /\ agreed = [o \in Orders |-> {}]
    /\ faults = 0

(* One job less, for a settled delivery and for a withdrawn one.           *)
Freed(row) == [row EXCEPT !.carrying = IF @ > 0 THEN @ - 1 ELSE 0]

-----------------------------------------------------------------------------
(* A move of the order by anybody but a rider, and what tellDispatch then  *)
(* asks for in the same request.                                           *)
OrderMoves(d, o) ==
    /\ desk[d] = Idle
    /\ \E to \in Status, actor \in Actor \ {"partner"} :
         /\ CanTransition(order[o], to, actor)
         /\ order' = [order EXCEPT ![o] = to]
         /\ desk' = [desk EXCEPT ![d] =
               [pc |-> IF to = "ready" THEN "offer" ELSE "withdraw", order |-> o]]
    /\ UNCHANGED <<job, partner, hand, agreed, faults>>

(* Offer: JobForOrder.  A job that is there is the answer.                 *)
Offer(d) ==
    LET k == desk[d] IN
    /\ k.pc = "offer"
    /\ desk' = [desk EXCEPT ![d] =
                  IF job[k.order] = NoJob THEN [k EXCEPT !.pc = "create"] ELSE Idle]
    /\ UNCHANGED <<order, job, partner, hand, agreed, faults>>

(* CreateJob, and then the first round on it; or the unique index refuses  *)
(* it and the job that won is the answer.                                  *)
CreateJob(d) ==
    LET k == desk[d] IN
    /\ k.pc = "create"
    /\ IF job[k.order] = NoJob
       THEN /\ job' = [job EXCEPT ![k.order] = Waiting(None)]
            /\ desk' = [desk EXCEPT ![d] =
                          [pc |-> "round", order |-> k.order, partner |-> None]]
       ELSE /\ desk' = [desk EXCEPT ![d] = Idle]
            /\ UNCHANGED job
    /\ UNCHANGED <<order, partner, hand, agreed, faults>>

-----------------------------------------------------------------------------
CanTake(p) == partner[p].on /\ partner[p].carrying < MaxConcurrent

PoolWithoutThePasser(passed) == {p \in Partners : CanTake(p)} \ {passed}

(* The pool of one round: everybody in reach who can take the job but the  *)
(* rider who just passed, or everybody if that leaves nobody.              *)
Pool(passed) ==
    LET everybody == {p \in Partners : CanTake(p)} IN
    IF everybody \ {passed} = {} THEN everybody ELSE everybody \ {passed}

(* Round: the candidates are read and one is picked, by distance, load and *)
(* acceptance rate, which are not told apart here.                         *)
Choose(d) ==
    LET k == desk[d] IN
    /\ k.pc = "round"
    /\ \E p \in Pool(k.partner) :
         desk' = [desk EXCEPT ![d] = [pc |-> "chosen", order |-> k.order, partner |-> p]]
    /\ UNCHANGED <<order, job, partner, hand, agreed, faults>>

NobodyToAsk(d) ==
    /\ desk[d].pc = "round"
    /\ Pool(desk[d].partner) = {}
    /\ desk' = [desk EXCEPT ![d] = Idle]
    /\ UNCHANGED <<order, job, partner, hand, agreed, faults>>

(* SaveJob, if the job is still waiting.                                   *)
SaveOffer(d) ==
    LET k == desk[d] IN
    /\ k.pc = "chosen"
    /\ job' = IF job[k.order].status = "waiting"
              THEN [job EXCEPT ![k.order] = Held("offered", k.partner)] ELSE job
    /\ desk' = [desk EXCEPT ![d] = Idle]
    /\ UNCHANGED <<order, partner, hand, agreed, faults>>

-----------------------------------------------------------------------------
(* The offer's clock runs out.                                             *)
ClockRunsOut(o) ==
    /\ job[o].status = "offered"
    /\ ~job[o].lapsed
    /\ job' = [job EXCEPT ![o].lapsed = TRUE]
    /\ UNCHANGED <<order, partner, desk, hand, agreed, faults>>

(* One entry of the sweep's two lists: a lapsed offer, a waiting job.      *)
SweepLapsed(d, o) ==
    /\ desk[d] = Idle
    /\ job[o].status = "offered"
    /\ job[o].lapsed
    /\ desk' = [desk EXCEPT ![d] = [pc |-> "lapse", order |-> o, partner |-> job[o].partner]]
    /\ UNCHANGED <<order, job, partner, hand, agreed, faults>>

SweepWaiting(d, o) ==
    /\ desk[d] = Idle
    /\ job[o].status = "waiting"
    /\ desk' = [desk EXCEPT ![d] = [pc |-> "round", order |-> o, partner |-> job[o].passed]]
    /\ UNCHANGED <<order, job, partner, hand, agreed, faults>>

SaveLapseOverAnything(d) ==
    LET k == desk[d] IN
    /\ k.pc = "lapse"
    /\ job' = [job EXCEPT ![k.order] = Waiting(k.partner)]
    /\ desk' = [desk EXCEPT ![d] = Idle]
    /\ UNCHANGED <<order, partner, hand, agreed, faults>>

SaveLapseNever(d) ==
    LET k == desk[d] IN
    /\ k.pc = "lapse"
    /\ desk' = [desk EXCEPT ![d] = Idle]
    /\ UNCHANGED <<order, job, partner, hand, agreed, faults>>

(* Lapse and SaveJob, if the job is still offered: to whomever.            *)
SaveLapse(d) ==
    LET k == desk[d] IN
    /\ k.pc = "lapse"
    /\ job' = IF job[k.order].status = "offered"
              THEN [job EXCEPT ![k.order] = Waiting(k.partner)] ELSE job
    /\ desk' = [desk EXCEPT ![d] = Idle]
    /\ UNCHANGED <<order, partner, hand, agreed, faults>>

-----------------------------------------------------------------------------
(* Withdraw: no job, or a finished one, is success.                        *)
Withdraw(d) ==
    LET k == desk[d]
        j == job[k.order]
    IN
    /\ k.pc = "withdraw"
    /\ desk' = [desk EXCEPT ![d] =
                  IF j.status \in Live THEN [pc |-> "cancel", order |-> k.order, read |-> j]
                  ELSE Idle]
    /\ UNCHANGED <<order, job, partner, hand, agreed, faults>>

(* Cancel and SaveJob, if the status is the one that was read; the row it  *)
(* writes is the one that was read.  Then the capacity of whoever that row *)
(* named is released.                                                      *)
SaveCancel(d) ==
    LET k == desk[d]
        held == k.read.partner
    IN
    /\ k.pc = "cancel"
    /\ IF job[k.order].status = k.read.status
       THEN /\ job' = [job EXCEPT ![k.order] = [k.read EXCEPT !.status = "cancelled"]]
            /\ desk' = [desk EXCEPT ![d] =
                          IF held = None THEN Idle ELSE [pc |-> "release", partner |-> held]]
       ELSE /\ desk' = [desk EXCEPT ![d] = Idle]
            /\ UNCHANGED job
    /\ UNCHANGED <<order, partner, hand, agreed, faults>>

(* release: the partner is read, and then written with one job less.       *)
ReadHolder(d) ==
    LET p == desk[d].partner IN
    /\ desk[d].pc = "release"
    /\ desk' = [desk EXCEPT ![d] = [pc |-> "releasing", partner |-> p, row |-> partner[p]]]
    /\ UNCHANGED <<order, job, partner, hand, agreed, faults>>

Release(d) ==
    LET k == desk[d] IN
    /\ k.pc = "releasing"
    /\ partner' = [partner EXCEPT ![k.partner] = Freed(k.row)]
    /\ desk' = [desk EXCEPT ![d] = Idle]
    /\ UNCHANGED <<order, job, hand, agreed, faults>>

(* The call fails, or its process dies.  Every caller drops the error.     *)
DeskFails(d) ==
    /\ desk[d] # Idle
    /\ faults < MaxFaults
    /\ faults' = faults + 1
    /\ desk' = [desk EXCEPT ![d] = Idle]
    /\ UNCHANGED <<order, job, partner, hand, agreed>>

-----------------------------------------------------------------------------
(* mine: every rider's request starts by reading the rider's own row.      *)
Mine(h, p) ==
    /\ hand[h] = Idle
    /\ hand' = [hand EXCEPT ![h] = [pc |-> "mine", partner |-> p, row |-> partner[p]]]
    /\ UNCHANGED <<order, job, partner, desk, agreed, faults>>

(* SetAvailability writes the row back with the rider's choice;            *)
(* SetPreference and ReportLocation with the availability it had.          *)
SaveMine(h, on) ==
    LET k == hand[h] IN
    /\ k.pc = "mine"
    /\ partner' = [partner EXCEPT ![k.partner] = [k.row EXCEPT !.on = on]]
    /\ hand' = [hand EXCEPT ![h] = Idle]
    /\ UNCHANGED <<order, job, desk, agreed, faults>>

MovedByAnybody(j, p) ==
    IF j.status = "none" \/ j.status \notin Live THEN {}
    ELSE IF j.status = "offered" THEN
        {Waiting(p)} \cup IF j.lapsed THEN {} ELSE {Held("assigned", p)}
    ELSE IF j.status = "assigned" THEN {Held("collected", p), Waiting(p)}
    ELSE {Held("delivered", p), Held("failed", p)}

(* What the job may become at this rider's hand: Accept, Decline, Collect, *)
(* Deliver, and Fail before and after the goods are collected.  heldBy     *)
(* refuses a rider who is not the job's.                                   *)
Moved(j, p) ==
    IF j.status = "none" \/ j.status \notin Live \/ j.partner # p THEN {}
    ELSE IF j.status = "offered" THEN
        {Waiting(p)} \cup IF j.lapsed THEN {} ELSE {Held("assigned", p)}
    ELSE IF j.status = "assigned" THEN {Held("collected", p), Waiting(p)}
    ELSE {Held("delivered", p), Held("failed", p)}

(* act, up to its write: the job is read and moved in memory.              *)
ReadJob(h, o) ==
    LET k == hand[h] IN
    /\ k.pc = "mine"
    /\ \E to \in Moved(job[o], k.partner) :
         hand' = [hand EXCEPT ![h] =
                    [pc |-> "checked", partner |-> k.partner, row |-> k.row, order |-> o,
                     from |-> job[o].status, to |-> to]]
    /\ UNCHANGED <<order, job, partner, desk, agreed, faults>>

SaveJobUnconditionally(h) ==
    LET k == hand[h] IN
    /\ k.pc = "checked"
    /\ job' = [job EXCEPT ![k.order] = k.to]
    /\ agreed' = [agreed EXCEPT ![k.order] =
                    IF k.to.status = "assigned" THEN @ \cup {k.partner} ELSE @]
    /\ hand' = [hand EXCEPT ![h].pc = "saved"]
    /\ UNCHANGED <<order, partner, desk, faults>>

(* SaveJob: the row that was moved in memory, if the status is still the   *)
(* one it was moved from.                                                  *)
SaveJob(h) ==
    LET k == hand[h] IN
    /\ k.pc = "checked"
    /\ job[k.order].status = k.from
    /\ job' = [job EXCEPT ![k.order] = k.to]
    /\ agreed' = [agreed EXCEPT ![k.order] =
                    IF k.to.status = "assigned" THEN @ \cup {k.partner} ELSE @]
    /\ hand' = [hand EXCEPT ![h].pc = "saved"]
    /\ UNCHANGED <<order, partner, desk, faults>>

(* job_moved, or the move was refused to begin with.                       *)
Refused(h) ==
    /\ \/ hand[h].pc = "mine"
       \/ hand[h].pc = "checked" /\ job[hand[h].order].status # hand[h].from
    /\ hand' = [hand EXCEPT ![h] = Idle]
    /\ UNCHANGED <<order, job, partner, desk, agreed, faults>>

Settled(k) ==
    IF k.to.status = "assigned" THEN [k.row EXCEPT !.carrying = @ + 1]
    ELSE IF k.to.status \in {"delivered", "failed"} THEN Freed(k.row)
    ELSE IF k.from = "assigned" /\ k.to.status = "waiting" THEN Freed(k.row)
    ELSE k.row

AdvanceTo(s) == IF s = "collected" THEN "picked_up" ELSE s

(* settle: the rider's row, as the request first read it, with the new     *)
(* load; and for three of the moves, the order next.                       *)
Settle(h) ==
    LET k == hand[h] IN
    /\ k.pc = "saved"
    /\ Settled(k).carrying <= MaxCarrying
    /\ partner' = [partner EXCEPT ![k.partner] = Settled(k)]
    /\ hand' = [hand EXCEPT ![h] =
                  IF k.to.status \in {"collected", "delivered", "failed"}
                  THEN [pc |-> "settled", order |-> k.order, to |-> AdvanceTo(k.to.status)]
                  ELSE Idle]
    /\ UNCHANGED <<order, job, desk, agreed, faults>>

(* order.Advance, if the table lets a partner make the move; a refusal is  *)
(* dropped.  An order that failed has its job withdrawn: it has finished.  *)
Advance(h) ==
    LET k == hand[h] IN
    /\ k.pc = "settled"
    /\ order' = [order EXCEPT ![k.order] =
                   IF CanTransition(@, k.to, "partner") THEN k.to ELSE @]
    /\ hand' = [hand EXCEPT ![h] = Idle]
    /\ UNCHANGED <<job, partner, desk, agreed, faults>>

HandFails(h) ==
    /\ hand[h] # Idle
    /\ faults < MaxFaults
    /\ faults' = faults + 1
    /\ hand' = [hand EXCEPT ![h] = Idle]
    /\ UNCHANGED <<order, job, partner, desk, agreed>>

-----------------------------------------------------------------------------
Sweep(d) == \E o \in Orders : SweepLapsed(d, o) \/ SweepWaiting(d, o)

DeskGoesOn(d) ==
    \/ Offer(d) \/ CreateJob(d) \/ Choose(d) \/ NobodyToAsk(d) \/ SaveOffer(d)
    \/ SaveLapse(d) \/ Withdraw(d) \/ SaveCancel(d) \/ ReadHolder(d) \/ Release(d)

HandGoesOn(h) == SaveJob(h) \/ Refused(h) \/ Settle(h) \/ Advance(h)

Next ==
    \/ \E d \in Desks :
         \/ \E o \in Orders : OrderMoves(d, o)
         \/ Sweep(d) \/ DeskGoesOn(d) \/ DeskFails(d)
    \/ \E o \in Orders : ClockRunsOut(o)
    \/ \E h \in Hands :
         \/ \E p \in Partners : Mine(h, p)
         \/ \E on \in BOOLEAN : SaveMine(h, on)
         \/ \E o \in Orders : ReadJob(h, o)
         \/ HandGoesOn(h) \/ HandFails(h)

Spec == Init /\ [][Next]_vars

(* deploy/sweep.sh asks for a sweep every few seconds for ever, and a      *)
(* sweep reaches every job it lists; clocks run; a request that was        *)
(* started goes on unless it fails.  No rider has to do anything and no    *)
(* order has to move.                                                      *)
Fairness ==
    /\ \A o \in Orders :
         /\ WF_vars(ClockRunsOut(o))
         /\ SF_vars(\E d \in Desks : SweepLapsed(d, o))
         /\ SF_vars(\E d \in Desks : SweepWaiting(d, o))
    /\ \A d \in Desks : WF_vars(DeskGoesOn(d))
    /\ \A h \in Hands : WF_vars(HandGoesOn(h))

FairSpec == Spec /\ Fairness

-----------------------------------------------------------------------------
(* Nobody carries a job they did not accept, though the row a rider's      *)
(* request writes may be one that others have offered on since it was read. *)
HoldersAgreed ==
    \A o \in Orders :
        job[o].status \in {"assigned", "collected", "delivered", "failed"} =>
            job[o].partner \in agreed[o]

(* The order never runs ahead of the job: picked up means that some rider  *)
(* collected it, delivered that the job says so too.                       *)
OrderFollowsJob ==
    \A o \in Orders :
        /\ order[o] = "picked_up" =>
              job[o].status \in {"collected", "delivered", "failed", "cancelled"}
        /\ order[o] = "delivered" => job[o].status = "delivered"

(* A finished job is never touched again, one that exists is never made    *)
(* again, and goods that were collected neither go back on the board nor   *)
(* to another rider, whatever stale rows are written.                      *)
JobsOnlyFinish ==
    [][\A o \in Orders :
         /\ job[o].status \in JobTerminal => job'[o] = job[o]
         /\ job[o].status = "collected" =>
              /\ job'[o].status \in {"collected"} \cup JobTerminal
              /\ job'[o].partner = job[o].partner]_vars

(* What the job's row says of the delivery: an offer is still the board,   *)
(* and whoever a taken or finished job names has it.                       *)
Stage(j) == IF j.status \in {"waiting", "offered"} THEN "board" ELSE j.status

Carrier(j) == IF j.status \in {"none", "waiting", "offered"} THEN None ELSE j.partner

Promised == INSTANCE Delivery WITH
    stage <- [o \in Orders |-> Stage(job[o])],
    carrier <- [o \in Orders |-> Carrier(job[o])]

(* Whatever the offers, the sweep, withdrawals and the riders' requests    *)
(* read and write back stale, the two tables together keep the promise: a  *)
(* delivery is taken by somebody who accepted it, collected goods stay     *)
(* where they are until it is over, nothing that is over starts again, and *)
(* a rider's report of the order has the delivery behind it.               *)
ImplementsDelivery == Promised!Spec

(* An offer whose clock ran out does not hold a delivery: the job is on    *)
(* the board again, or with somebody, or over.                             *)
LapsedOffersEnd ==
    \A o \in Orders :
        (job[o].status = "offered" /\ job[o].lapsed)
            ~> ~(job[o].status = "offered" /\ job[o].lapsed)

(* A job on the board is put to a rider as long as there is one to ask.    *)
WaitingJobsAreOffered ==
    \A o \in Orders :
        job[o].status = "waiting"
            ~> (job[o].status # "waiting" \/ \A p \in Partners : ~CanTake(p))

-----------------------------------------------------------------------------
(* The inductive strengthening of the three safety properties: what a      *)
(* request relies on between what it read and what it writes.              *)

(* Once p collected the goods nobody but p has them, until the job is over. *)
Carried(o, p) ==
    \/ job[o].status \in JobTerminal
    \/ job[o].status = "collected" /\ job[o].partner = p

(* The job is as far as a step of the order towards s says.                *)
Reached(o, s) ==
    /\ s \in {"collected", "picked_up"} => job[o].status \in {"collected"} \cup JobTerminal
    /\ s \in {"delivered", "failed"} => job[o].status = s

HandHolds(k) ==
    /\ k.pc = "checked" =>
         /\ \/ k.from = "offered" /\ k.to.status \in {"waiting", "assigned"}
            \/ k.from = "assigned" /\ k.to.status \in {"waiting", "collected"}
            \/ k.from = "collected" /\ k.to.status \in {"delivered", "failed"}
         /\ k.to.status # "waiting" => k.to.partner = k.partner
         /\ k.from # "offered" => k.partner \in agreed[k.order]
         /\ k.from = "collected" => Carried(k.order, k.partner)
    /\ k.pc = "saved" => Reached(k.order, k.to.status)
    /\ k.pc = "settled" => Reached(k.order, k.to)

HandsHold == \A h \in Hands : HandHolds(hand[h])

DeskHolds(k) ==
    k.pc = "cancel" =>
        /\ k.read.status \in Live
        /\ k.read.status \in {"assigned", "collected"} => k.read.partner \in agreed[k.order]
        /\ k.read.status = "collected" => Carried(k.order, k.read.partner)

DesksHold == \A d \in Desks : DeskHolds(desk[d])

IInv ==
    /\ TypeOK
    /\ HoldersAgreed
    /\ OrderFollowsJob
    /\ HandsHold
    /\ DesksHold

-----------------------------------------------------------------------------
Holds(p, o) == job[o].status \in {"assigned", "collected"} /\ job[o].partner = p

(* Job.heldBy: "a partner who is not holding a job cannot move it": a      *)
(* rider's write finds the job in that rider's hands.                      *)
OnlyTheHolderMoves ==
    [][\A h \in Hands :
         (hand[h].pc = "checked" /\ hand'[h].pc = "saved") =>
            job[hand[h].order].partner = hand[h].partner]_vars

(* feed.md: "Accepting would exceed the concurrent limit - refused, and    *)
(* said so."                                                               *)
WithinTheLimit ==
    \A p \in Partners : Cardinality({o \in Orders : Holds(p, o)}) <= MaxConcurrent

(* Partner: "Carrying is how many live jobs they hold", whenever no        *)
(* request is under way that has yet to settle it.                         *)
CarryingCountsJobs ==
    (\A d \in Desks : desk[d] = Idle) /\ (\A h \in Hands : hand[h] = Idle) =>
        \A p \in Partners :
            partner[p].carrying = Cardinality({o \in Orders : Holds(p, o)})

(* tellDispatch: "an order sitting at ready with no rider is [...]         *)
(* recoverable by a sweep": in the end it has a job, or moved on.          *)
ReadyOrdersGetAJob ==
    \A o \in Orders : order[o] = "ready" ~> (job[o] # NoJob \/ order[o] # "ready")

(* dispatch.md: "a cancellation withdraws it": the job of a cancelled      *)
(* order does not stay on the board.                                       *)
CancelledOrdersLeaveTheBoard ==
    \A o \in Orders : order[o] = "cancelled" ~> job[o].status \notin Live

(* settle: "What must not be best-effort is the order's status, so that    *)
(* one is reported - a delivered job whose order still says on the way is  *)
(* a customer watching a lie."  The lie does not last.                     *)
DeliveredJobsDeliverTheOrder ==
    \A o \in Orders :
        (job[o].status = "delivered" /\ order[o] = "picked_up") ~> order[o] # "picked_up"

=============================================================================
