-------------------------- MODULE SchedulerProofs ---------------------------
(***************************************************************************)
(* Proofs of the safety properties of Scheduler for any subjects, webhook  *)
(* requests, poll interval, delays and bounds.                             *)
(***************************************************************************)
EXTENDS Scheduler, NumberLemmas

-----------------------------------------------------------------------------
(* Facts about the operators *)

LoopStates ==
    [pc : {"start", "due", "cycle", "wait", "select", "stopped"},
     queue : SUBSET Subjects, cur : Subjects \cup {Nobody},
     next : Distances, age : Nat, timer : Nat]

RowStates == [trans : Distances, retry : Distances]

(* A distance that comes closer stays a distance, and a mark that is       *)
(* reached stays reached.                                                  *)
LEMMA CloserTyped ==
    /\ \A d \in Distances : Closer(d) \in Distances
    /\ \A d \in Nat : Closer(d) \in Nat /\ Closer(d) <= d
    /\ \A d \in Nat : d > 0 => Closer(d) + 1 = d
    /\ Closer(0) = 0
BY DEF Closer, Distances, Null

(* The next boundary of a subject lies ahead. *)
LEMMA NextTyped ==
    ASSUME TypeOK, NEW s \in Subjects
    PROVE  (IF bounds[s] = {} THEN Null ELSE Min(bounds[s])) \in Distances
<1>1. bounds[s] \in SUBSET Nat
    BY SchedulerAssumption DEF TypeOK
<1> QED
    BY <1>1, MinIsLeast DEF Distances

(* The loop never sleeps longer than the poll interval. *)
LEMMA DelayWithinInterval ==
    ASSUME TypeOK
    PROVE  delay \in 0..Interval
<1> DEFINE wakes == { row[s].trans : s \in Subjects } \cup { row[s].retry : s \in Subjects }
<1>1. wakes \in SUBSET Distances
    BY DEF TypeOK
<1>2. NextWake = IF wakes \subseteq {0, Null} THEN Null ELSE Min(wakes \ {0, Null})
    BY DEF NextWake
<1> HIDE DEF wakes
<1>3. NextWake = Null \/ NextWake \in Nat
    <2>1. wakes \ {0, Null} \in SUBSET Nat
        BY <1>1 DEF Distances
    <2> QED
        BY <1>2, <2>1, MinIsLeast
<1>4. CASE NextWake = Null
    BY <1>4, SchedulerAssumption DEF delay
<1>5. CASE NextWake # Null
    BY <1>3, <1>5, MinOfTwo, SchedulerAssumption DEF delay
<1> QED
    BY <1>4, <1>5

(* The next subject is one of the queue. *)
LEMMA NextSubjectTyped ==
    ASSUME TypeOK, loop.queue # {}
    PROVE  Min(loop.queue) \in loop.queue /\ Min(loop.queue) \in Subjects
BY MinIsLeast, SchedulerAssumption DEF TypeOK

-----------------------------------------------------------------------------
(* Types *)

(* One step of the system keeps the types. *)
LEMMA TypeStep == TypeOK /\ [Next]_vars => TypeOK'
<1> SUFFICES ASSUME TypeOK, [Next]_vars
             PROVE  TypeOK'
    OBVIOUS
<1>0. /\ loop \in LoopStates /\ row \in [Subjects -> RowStates]
      /\ 0 \in Distances /\ Null \in Distances /\ Delays \subseteq Distances
    BY SchedulerAssumption DEF TypeOK, LoopStates, RowStates, Distances
<1>1. ASSUME NEW l \in LoopStates, LoopOnly(l)
      PROVE  TypeOK'
    BY <1>0, <1>1 DEF TypeOK, LoopOnly, LoopStates, counters, history
<1>2. CASE ReconcileAll
    <2>1. [loop EXCEPT !.pc = "cycle", !.queue = ListSubjects] \in LoopStates
        BY <1>0 DEF LoopStates, ListSubjects
    <2> QED
        BY <1>1, <1>2, <2>1 DEF ReconcileAll
<1>3. CASE ReconcileDue
    <2>1. [loop EXCEPT !.pc = "cycle", !.queue = ListSubjectsDue] \in LoopStates
        BY <1>0 DEF LoopStates, ListSubjectsDue
    <2> QED
        BY <1>1, <1>3, <2>1 DEF ReconcileDue
<1>4. CASE ListFails
    <2>1. loop' \in LoopStates
        BY <1>0, <1>4 DEF ListFails, AfterCycle, LoopStates
    <2>2. unseen' \in [Subjects -> BOOLEAN] /\ overdue' \in [Subjects -> Nat]
        BY <1>4 DEF ListFails
    <2> QED
        BY <1>4, <2>1, <2>2 DEF ListFails, TypeOK, LoopStates, counters
<1>5. CASE Begin
    <2> DEFINE s == Min(loop.queue)
               n == IF bounds[s] = {} THEN Null ELSE Min(bounds[s])
    <2>1. s \in Subjects /\ n \in Distances
        BY <1>5, NextSubjectTyped, NextTyped DEF Begin
    <2>2. /\ loop' = [loop EXCEPT !.queue = @ \ {s}, !.cur = s, !.age = 0, !.next = n]
          /\ unseen' = [unseen EXCEPT ![s] = FALSE]
          /\ overdue' = [overdue EXCEPT ![s] = 0]
        BY <1>5 DEF Begin
    <2> HIDE DEF s, n
    <2>3. loop' \in LoopStates
        BY <1>0, <2>1, <2>2 DEF LoopStates
    <2>4. unseen' \in [Subjects -> BOOLEAN] /\ overdue' \in [Subjects -> Nat]
        BY <2>1, <2>2 DEF TypeOK
    <2> QED
        BY <1>5, <2>3, <2>4 DEF Begin, TypeOK, LoopStates, counters
<1>6. ASSUME NEW r \in RowStates, NEW st \in BOOLEAN, Outcome(r, st)
      PROVE  TypeOK'
    <2>1. loop.cur \in Subjects
        BY <1>0, <1>6 DEF Outcome, LoopStates
    <2>2. row' \in [Subjects -> RowStates] /\ stale' \in [Subjects -> BOOLEAN]
        BY <1>0, <1>6, <2>1 DEF Outcome, TypeOK
    <2>3. loop' \in LoopStates
        BY <1>0, <1>6 DEF Outcome, LoopStates
    <2> QED
        BY <1>6, <2>2, <2>3 DEF Outcome, TypeOK, LoopStates, RowStates, counters
<1>7. ASSUME NEW s \in Subjects, Succeed(s)
      PROVE  TypeOK'
    <2>1. [trans |-> loop.next, retry |-> Null] \in RowStates /\ (loop.next = 0) \in BOOLEAN
        BY <1>0 DEF LoopStates, RowStates
    <2> QED
        BY <1>6, <1>7, <2>1 DEF Succeed
<1>8. CASE Fail
    <2>1. loop.cur \in Subjects
        BY <1>0, <1>8 DEF Fail, LoopStates
    <2>2. PICK d \in Delays, t \in {loop.next, row[loop.cur].trans} :
              Outcome([trans |-> t, retry |-> Max({0, d - loop.age})], stale[loop.cur])
        BY <1>8 DEF Fail
    <2>3. Max({0, d - loop.age}) \in Distances
        BY <1>0, MaxOfTwo, SchedulerAssumption DEF LoopStates, Distances
    <2>4. t \in Distances
        BY <1>0, <2>1 DEF LoopStates, RowStates
    <2>5. [trans |-> t, retry |-> Max({0, d - loop.age})] \in RowStates
        BY <2>3, <2>4 DEF RowStates
    <2>6. stale[loop.cur] \in BOOLEAN
        BY <2>1 DEF TypeOK
    <2> QED
        BY <1>6, <2>2, <2>5, <2>6
<1>9. CASE FailUnrecorded
    <2>1. row[loop.cur] \in RowStates /\ stale[loop.cur] \in BOOLEAN
        BY <1>0, <1>9 DEF FailUnrecorded, LoopStates, TypeOK
    <2> QED
        BY <1>6, <1>9, <2>1 DEF FailUnrecorded
<1>10. CASE EndCycle
    <2>1. [loop EXCEPT !.pc = AfterCycle, !.queue = {}] \in LoopStates
        BY <1>0 DEF LoopStates, AfterCycle
    <2> QED
        BY <1>1, <1>10, <2>1 DEF EndCycle
<1>11. CASE Sleep \/ SleepUninformed
    <2>1. delay \in Nat /\ Interval \in Nat
        BY DelayWithinInterval, SchedulerAssumption
    <2>2. ASSUME NEW n \in Nat
          PROVE  [loop EXCEPT !.pc = "select", !.timer = n] \in LoopStates
        BY <1>0 DEF LoopStates
    <2> QED
        BY <1>1, <1>11, <2>1, <2>2 DEF Sleep, SleepUninformed
<1>12. CASE Woken
    <2>1. loop' \in LoopStates
        BY <1>0, <1>12 DEF Woken, LoopStates
    <2>2. wake' \in BOOLEAN
        BY <1>12 DEF Woken
    <2> QED
        BY <1>12, <2>1, <2>2 DEF Woken, TypeOK, LoopStates, counters, history
<1>13. CASE TimerFires
    <2>1. [loop EXCEPT !.pc = "due"] \in LoopStates
        BY <1>0 DEF LoopStates
    <2> QED
        BY <1>1, <1>13, <2>1 DEF TimerFires
<1>14. CASE Done
    <2>1. [loop EXCEPT !.pc = "stopped", !.timer = 0] \in LoopStates
        BY <1>0 DEF LoopStates
    <2> QED
        BY <1>1, <1>14, <2>1 DEF Done
<1>15. ASSUME NEW h \in Handlers, NEW s \in Subjects, NEW p \in Subjects, NEW B \in Boundaries,
              Accept(h, s, p, B) \/ AcceptUnanswered(h, s, p, B)
       PROVE  TypeOK'
    <2>1. UpsertIntent(h, s, p, B) /\ B \in SUBSET (1..Ahead)
        BY <1>15 DEF Accept, AcceptUnanswered, Boundaries
    <2>2. known' \in [Subjects -> BOOLEAN] /\ stale' \in [Subjects -> BOOLEAN]
        BY <2>1 DEF UpsertIntent, TypeOK
    <2>3. bounds' \in [Subjects -> SUBSET (1..Ahead)]
        BY <2>1 DEF UpsertIntent, TypeOK
    <2>4. row' \in [Subjects -> RowStates]
        BY <1>0, <2>1 DEF UpsertIntent, RowStates
    <2>5. deliveries' \in 0..MaxDeliveries
        BY <2>1, SchedulerAssumption DEF UpsertIntent, TypeOK
    <2>6. unseen' \in [Subjects -> BOOLEAN] /\ hnd' \in [Handlers -> {"idle", "accepted"}]
        BY <1>15 DEF Accept, AcceptUnanswered, TypeOK
    <2> QED
        BY <2>1, <2>2, <2>3, <2>4, <2>5, <2>6 DEF UpsertIntent, TypeOK, RowStates
<1>16. ASSUME NEW h \in Handlers, Wake(h)
       PROVE  TypeOK'
    <2>1. wake' \in BOOLEAN /\ hnd' \in [Handlers -> {"idle", "accepted"}]
        BY <1>16 DEF Wake, TypeOK
    <2> QED
        BY <1>16, <2>1 DEF Wake, TypeOK, counters, history
<1>17. ASSUME NEW s \in Subjects, Apply(s)
       PROVE  TypeOK'
    <2> DEFINE n == IF bounds[s] = {} THEN Null ELSE Min(bounds[s])
    <2>1. n \in Distances
        BY NextTyped
    <2> HIDE DEF n
    <2>2. ASSUME NEW t \in Distances
          PROVE  [row EXCEPT ![s] = [trans |-> n, retry |-> t]] \in [Subjects -> RowStates]
        BY <1>0, <2>1 DEF RowStates
    <2>3. \E t \in Distances : row' = [row EXCEPT ![s] = [trans |-> n, retry |-> t]]
        BY <1>0, <1>17 DEF Apply, n
    <2>4. row' \in [Subjects -> RowStates]
        BY <2>2, <2>3
    <2>5. stale' \in [Subjects -> BOOLEAN]
        BY <1>17 DEF Apply, TypeOK
    <2>6. unseen' \in [Subjects -> BOOLEAN] /\ overdue' \in [Subjects -> Nat]
        BY <1>17 DEF Apply, TypeOK
    <2>7. incidents' \in 0..MaxIncidents
        BY <1>17, SchedulerAssumption DEF Apply, TypeOK
    <2> QED
        BY <1>17, <2>4, <2>5, <2>6, <2>7 DEF Apply, TypeOK, RowStates
<1>18. CASE Cancel
    <2>1. cancelled' \in BOOLEAN
        BY <1>18 DEF Cancel
    <2> QED
        BY <1>18, <2>1 DEF Cancel, TypeOK, counters, history
<1>19. CASE Restart
    <2>1. /\ wake' \in BOOLEAN /\ cancelled' \in BOOLEAN
          /\ hnd' \in [Handlers -> {"idle", "accepted"}]
        BY <1>19 DEF Restart
    <2>2. loop' \in LoopStates
        BY <1>0, <1>19 DEF Restart, IdleLoop, LoopStates
    <2>3. incidents' \in 0..MaxIncidents
        BY <1>19, SchedulerAssumption DEF Restart, TypeOK
    <2> QED
        BY <1>19, <2>1, <2>2, <2>3 DEF Restart, TypeOK, LoopStates, history
<1>20. CASE Tick
    <2>1. bounds' \in [Subjects -> SUBSET (1..Ahead)]
        <3>1. ASSUME NEW s \in Subjects
              PROVE  { d - 1 : d \in bounds[s] } \ {0} \in SUBSET (1..Ahead)
            BY SchedulerAssumption DEF TypeOK
        <3> QED
            BY <1>20, <3>1 DEF Tick
    <2>2. row' \in [Subjects -> RowStates]
        BY <1>0, <1>20, CloserTyped DEF Tick, RowStates
    <2>3. loop' \in LoopStates
        <3>1. PICK cap \in Delays : \A d \in Delays : d <= cap
            BY SchedulerAssumption
        <3>2. Max(Delays) = cap
            BY <3>1, MaxIsGreatest, SchedulerAssumption
        <3>3. loop.age + 1 \in Nat /\ Max(Delays) \in Nat
            BY <1>0, <3>2, SchedulerAssumption DEF LoopStates
        <3>4. Min({loop.age + 1, Max(Delays)}) \in Nat
            BY <3>3, MinOfTwo
        <3>5. /\ loop' = [loop EXCEPT !.next = loop'.next, !.timer = loop'.timer, !.age = loop'.age]
              /\ loop'.next = Closer(loop.next) /\ loop'.timer = Closer(loop.timer)
              /\ loop'.age \in {0, Min({loop.age + 1, Max(Delays)})}
            BY <1>0, <1>20 DEF Tick, LoopStates
        <3>6. loop'.next \in Distances /\ loop'.timer \in Nat /\ loop'.age \in Nat
            BY <1>0, <3>4, <3>5, CloserTyped DEF LoopStates
        <3> QED
            BY <1>0, <3>5, <3>6 DEF LoopStates
    <2>4. stale' \in [Subjects -> BOOLEAN]
        BY <1>20 DEF Tick, TypeOK
    <2>5. overdue' \in [Subjects -> Nat]
        BY <1>20 DEF Tick, TypeOK
    <2> QED
        BY <1>20, <2>1, <2>2, <2>3, <2>4, <2>5 DEF Tick, TypeOK, RowStates, LoopStates, counters
<1>21. CASE UNCHANGED vars
    BY <1>21 DEF vars, TypeOK, counters, history
<1> QED
    BY <1>2, <1>3, <1>4, <1>5, <1>7, <1>8, <1>9, <1>10, <1>11, <1>12, <1>13, <1>14,
       <1>15, <1>16, <1>17, <1>18, <1>19, <1>20, <1>21 DEF Next, LoopStep

(* Every variable has its type in every behaviour. *)
THEOREM SchedulerTypeCorrect == Spec => []TypeOK
<1>1. Init => TypeOK
    <2> SUFFICES ASSUME Init
                 PROVE  TypeOK
        OBVIOUS
    <2>1. /\ known \in [Subjects -> BOOLEAN] /\ stale \in [Subjects -> BOOLEAN]
          /\ unseen \in [Subjects -> BOOLEAN] /\ overdue \in [Subjects -> Nat]
          /\ bounds \in [Subjects -> SUBSET (1..Ahead)]
          /\ hnd \in [Handlers -> {"idle", "accepted"}]
        BY DEF Init
    <2>2. row \in [Subjects -> [trans : Distances, retry : Distances]]
        BY DEF Init, Distances
    <2>3. loop \in LoopStates
        BY DEF Init, IdleLoop, LoopStates, Distances
    <2>4. wake \in BOOLEAN /\ cancelled \in BOOLEAN
        BY DEF Init
    <2> QED
        BY <2>1, <2>2, <2>3, <2>4, SchedulerAssumption DEF Init, TypeOK, LoopStates
<1> QED
    BY <1>1, TypeStep, PTL DEF Spec

-----------------------------------------------------------------------------
(* Wake-ups and sleep *)

(* An attempt belongs to a cycle, and its subject has nothing unseen: the  *)
(* lock keeps deliveries out until the outcome is recorded.                *)
InHand == loop.cur # Nobody => loop.pc = "cycle" /\ ~unseen[loop.cur] /\ overdue[loop.cur] = 0

(* A subject that waits for an attempt is marked, so that a listing finds it. *)
MarkedDue == \A s \in Subjects : unseen[s] \/ overdue[s] > 0 => s \in ListSubjectsDue

(* A subject that has been slept through is in the next list, or in what   *)
(* is left of the list at hand.                                            *)
OverdueInSight ==
    \A s \in Subjects : overdue[s] > 0 =>
        \/ loop.pc \in {"start", "due", "select", "stopped"}
        \/ loop.pc = "cycle" /\ (cancelled \/ s \in loop.queue)

(* What is left of the sleep fits into the poll interval. *)
SleepLeft ==
    \A s \in Subjects : overdue[s] + (IF loop.pc = "select" THEN loop.timer ELSE 0) <= Interval

SleepInv == InHand /\ MarkedDue /\ OverdueInSight /\ SleepLeft /\ WakeNotLost

(* What a step that only moves the loop has to leave right. *)
LEMMA LoopOnlyStep ==
    ASSUME TypeOK, SleepInv,
           UNCHANGED <<row, hnd, cancelled, unseen, overdue>>,
           loop'.cur = Nobody, loop'.pc \in {"start", "due", "cycle", "select", "stopped"},
           \A s \in Subjects : unseen[s] =>
               cancelled \/ wake' \/ loop'.pc \in {"start", "due"} \/ s \in loop'.queue
                   \/ \E h \in Handlers : hnd[h] = "accepted",
           \A s \in Subjects : overdue[s] > 0 /\ loop'.pc = "cycle" => cancelled \/ s \in loop'.queue,
           loop'.pc = "select" =>
               \A s \in Subjects : overdue[s] + loop'.timer <= Interval
    PROVE  SleepInv'
<1>1. InHand'
    BY DEF InHand
<1>2. MarkedDue'
    BY DEF SleepInv, MarkedDue, ListSubjectsDue
<1>3. OverdueInSight'
    BY DEF OverdueInSight
<1>4. SleepLeft'
    <2>1. ASSUME NEW s \in Subjects
          PROVE  overdue[s] <= Interval
        BY SchedulerAssumption DEF SleepInv, SleepLeft, TypeOK
    <2>2. \A s \in Subjects : overdue[s] \in Nat
        BY DEF TypeOK
    <2> QED
        BY <2>1, <2>2, SchedulerAssumption DEF SleepLeft
<1>5. WakeNotLost'
    BY DEF WakeNotLost
<1> QED
    BY <1>1, <1>2, <1>3, <1>4, <1>5 DEF SleepInv

(* One step of the system keeps all of it. *)
LEMMA SleepStep == TypeOK /\ TypeOK' /\ SleepInv /\ [Next]_vars => SleepInv'
<1> SUFFICES ASSUME TypeOK, TypeOK', SleepInv, [Next]_vars
             PROVE  SleepInv'
    OBVIOUS
<1>0. /\ loop \in LoopStates /\ row \in [Subjects -> RowStates]
      /\ unseen \in [Subjects -> BOOLEAN] /\ overdue \in [Subjects -> Nat]
      /\ Interval \in Nat /\ Nobody \notin Subjects
    BY SchedulerAssumption DEF TypeOK, LoopStates, RowStates, Nobody
<1>i. /\ InHand /\ MarkedDue /\ OverdueInSight /\ SleepLeft /\ WakeNotLost
    BY DEF SleepInv
<1>s. \A s \in ListSubjectsDue : s \in ListSubjects
    BY DEF ListSubjectsDue, ListSubjects, Null
<1>2. CASE ReconcileAll \/ ReconcileDue
    <2>1. /\ loop.pc \in {"start", "due"} /\ UNCHANGED <<row, hnd, cancelled, unseen, overdue, wake>>
          /\ loop'.pc = "cycle" /\ loop'.cur = loop.cur
          /\ loop'.queue \in {ListSubjects, ListSubjectsDue}
        BY <1>0, <1>2 DEF ReconcileAll, ReconcileDue, LoopOnly, history, LoopStates
    <2>2. loop'.cur = Nobody
        BY <1>i, <2>1 DEF InHand
    <2>3. \A s \in Subjects : unseen[s] \/ overdue[s] > 0 => s \in loop'.queue
        BY <1>i, <1>s, <2>1 DEF MarkedDue
    <2> QED
        BY <2>1, <2>2, <2>3, LoopOnlyStep
<1>4. CASE ListFails
    <2>1. /\ loop'.cur = loop.cur /\ loop.pc \in {"start", "due"}
          /\ loop'.pc \in {"wait", "stopped"}
          /\ \A s \in Subjects : ~unseen'[s] /\ overdue'[s] = 0
        BY <1>0, <1>4 DEF ListFails, AfterCycle, LoopStates
    <2>2. loop'.cur = Nobody
        BY <1>i, <2>1 DEF InHand
    <2> QED
        BY <1>0, <2>1, <2>2 DEF SleepInv, InHand, MarkedDue, OverdueInSight, SleepLeft, WakeNotLost
<1>5. CASE Begin
    <2> DEFINE s == Min(loop.queue)
    <2>1. s \in Subjects
        BY <1>5, NextSubjectTyped DEF Begin
    <2>2. /\ loop'.queue = loop.queue \ {s} /\ loop'.cur = s /\ loop'.pc = loop.pc
          /\ loop.pc = "cycle"
          /\ unseen' = [unseen EXCEPT ![s] = FALSE] /\ overdue' = [overdue EXCEPT ![s] = 0]
          /\ UNCHANGED <<row, wake, hnd, cancelled>>
        BY <1>0, <1>5 DEF Begin, LoopStates
    <2> HIDE DEF s
    <2>3. /\ ~unseen'[s] /\ overdue'[s] = 0
          /\ \A x \in Subjects \ {s} : unseen'[x] = unseen[x] /\ overdue'[x] = overdue[x]
        BY <1>0, <2>1, <2>2
    <2>4. InHand' /\ MarkedDue' /\ OverdueInSight' /\ WakeNotLost'
        BY <1>i, <2>1, <2>2, <2>3 DEF InHand, MarkedDue, OverdueInSight, WakeNotLost, ListSubjectsDue
    <2>5. SleepLeft'
        BY <1>0, <1>i, <2>1, <2>2, <2>3 DEF SleepLeft
    <2> QED
        BY <2>4, <2>5 DEF SleepInv
<1>6. ASSUME NEW r, NEW st, Outcome(r, st)
      PROVE  SleepInv'
    <2>1. /\ loop.cur \in Subjects /\ loop'.queue = loop.queue /\ loop'.pc = loop.pc
          /\ loop'.cur = Nobody /\ loop.pc = "cycle"
          /\ UNCHANGED <<wake, hnd, cancelled, unseen, overdue>>
          /\ \A x \in Subjects \ {loop.cur} : row'[x] = row[x]
        BY <1>0, <1>6 DEF Outcome, LoopStates
    <2>2. ~unseen[loop.cur] /\ overdue[loop.cur] = 0
        BY <1>i, <2>1, <1>0 DEF InHand
    <2>3. MarkedDue'
        BY <1>i, <2>1, <2>2 DEF MarkedDue, ListSubjectsDue
    <2>4. InHand' /\ OverdueInSight' /\ WakeNotLost'
        BY <1>i, <2>1 DEF InHand, OverdueInSight, WakeNotLost
    <2>5. SleepLeft'
        BY <1>i, <2>1 DEF SleepLeft
    <2> QED
        BY <2>3, <2>4, <2>5 DEF SleepInv
<1>10. CASE EndCycle
    <2>1. /\ loop.pc = "cycle" /\ loop.cur = Nobody /\ (loop.queue = {} \/ cancelled)
          /\ loop'.pc = IF cancelled THEN "stopped" ELSE "wait"
          /\ loop'.queue = {} /\ loop'.cur = Nobody
          /\ UNCHANGED <<row, wake, hnd, cancelled, unseen, overdue>>
        BY <1>0, <1>10 DEF EndCycle, LoopOnly, AfterCycle, history, LoopStates
    <2>2. CASE cancelled
        BY <2>1, <2>2, LoopOnlyStep
    <2>3. CASE ~cancelled
        <3>1. \A s \in Subjects : ~(overdue[s] > 0)
            BY <1>i, <2>1, <2>3 DEF OverdueInSight
        <3>2. InHand' /\ MarkedDue' /\ OverdueInSight' /\ WakeNotLost'
            BY <1>i, <2>1, <2>3, <3>1 DEF InHand, MarkedDue, OverdueInSight, WakeNotLost, ListSubjectsDue
        <3>3. SleepLeft'
            BY <1>0, <2>1, <2>3, <3>1 DEF SleepLeft
        <3> QED
            BY <3>2, <3>3 DEF SleepInv
    <2> QED
        BY <2>2, <2>3
<1>11. CASE Sleep \/ SleepUninformed
    <2>1. /\ loop.pc = "wait" /\ loop'.pc = "select" /\ loop'.timer \in {delay, Interval}
          /\ loop'.cur = loop.cur /\ loop'.queue = loop.queue
          /\ UNCHANGED <<row, wake, hnd, cancelled, unseen, overdue>>
        BY <1>0, <1>11 DEF Sleep, SleepUninformed, LoopOnly, history, LoopStates
    <2>2. loop'.cur = Nobody
        BY <1>i, <2>1 DEF InHand
    <2>3. loop'.timer \in 0..Interval
        BY <1>0, <2>1, DelayWithinInterval
    <2>4. \A s \in Subjects : overdue[s] = 0
        BY <1>0, <1>i, <2>1 DEF OverdueInSight
    <2>5. \A s \in Subjects : overdue[s] + loop'.timer <= Interval
        BY <1>0, <2>3, <2>4
    <2> QED
        BY <1>i, <2>1, <2>2, <2>5, LoopOnlyStep DEF WakeNotLost
<1>12. CASE Woken \/ TimerFires
    <2>1. /\ loop.pc = "select" /\ loop'.pc = "due"
          /\ loop'.cur = loop.cur
          /\ UNCHANGED <<row, hnd, cancelled, unseen, overdue>>
        BY <1>0, <1>12 DEF Woken, TimerFires, LoopOnly, history, LoopStates
    <2>2. loop'.cur = Nobody
        BY <1>i, <2>1 DEF InHand
    <2> QED
        BY <2>1, <2>2, LoopOnlyStep
<1>14. CASE Done
    <2>1. /\ loop.pc = "select" /\ cancelled /\ loop'.pc = "stopped"
          /\ loop'.cur = loop.cur
          /\ UNCHANGED <<row, wake, hnd, cancelled, unseen, overdue>>
        BY <1>0, <1>14 DEF Done, LoopOnly, history, LoopStates
    <2>2. loop'.cur = Nobody
        BY <1>i, <2>1 DEF InHand
    <2> QED
        BY <2>1, <2>2, LoopOnlyStep
<1>15. ASSUME NEW h \in Handlers, NEW s \in Subjects, NEW p \in Subjects, NEW B \in Boundaries,
              Accept(h, s, p, B) \/ AcceptUnanswered(h, s, p, B)
       PROVE  SleepInv'
    <2>1. /\ loop.cur \notin {s, p} /\ UNCHANGED <<wake, loop, cancelled, overdue>>
          /\ row' = [row EXCEPT ![p].retry = 0, ![s].retry = 0]
        BY <1>15 DEF Accept, AcceptUnanswered, UpsertIntent
    <2>2. /\ row'[s].retry = 0 /\ row'[p].retry = 0
          /\ \A x \in Subjects \ {s, p} : row'[x] = row[x]
        BY <1>0, <2>1 DEF RowStates
    <2>3. /\ \A x \in Subjects \ {s, p} : unseen'[x] = unseen[x]
          /\ unseen' = unseen \/ hnd'[h] = "accepted"
          /\ \A g \in Handlers : hnd[g] = "accepted" => hnd'[g] = "accepted"
        BY <1>15 DEF Accept, AcceptUnanswered, UpsertIntent, TypeOK
    <2>4. MarkedDue'
        BY <1>i, <2>1, <2>2, <2>3 DEF MarkedDue, ListSubjectsDue
    <2>5. InHand'
        BY <1>0, <1>i, <2>1, <2>3 DEF InHand, LoopStates
    <2>6. OverdueInSight' /\ SleepLeft'
        BY <1>i, <2>1 DEF OverdueInSight, SleepLeft
    <2>7. WakeNotLost'
        BY <1>i, <2>1, <2>3 DEF WakeNotLost
    <2> QED
        BY <2>4, <2>5, <2>6, <2>7 DEF SleepInv
<1>16. ASSUME NEW h \in Handlers, Wake(h)
       PROVE  SleepInv'
    <2>1. wake' /\ UNCHANGED <<row, loop, cancelled, unseen, overdue>>
        BY <1>16 DEF Wake, history
    <2> QED
        BY <1>i, <2>1 DEF SleepInv, InHand, MarkedDue, OverdueInSight, SleepLeft, WakeNotLost, ListSubjectsDue
<1>17. ASSUME NEW s \in Subjects, Apply(s)
       PROVE  SleepInv'
    <2>1. /\ loop.cur # s /\ UNCHANGED <<wake, hnd, loop, cancelled>>
          /\ unseen' = [unseen EXCEPT ![s] = FALSE] /\ overdue' = [overdue EXCEPT ![s] = 0]
          /\ \A x \in Subjects \ {s} : row'[x] = row[x]
        BY <1>0, <1>17 DEF Apply
    <2>2. /\ ~unseen'[s] /\ overdue'[s] = 0
          /\ \A x \in Subjects \ {s} : unseen'[x] = unseen[x] /\ overdue'[x] = overdue[x]
        BY <1>0, <2>1
    <2>3. InHand'
        BY <1>0, <1>i, <2>1, <2>2 DEF InHand, LoopStates
    <2>4. MarkedDue' /\ OverdueInSight' /\ WakeNotLost'
        BY <1>i, <2>1, <2>2 DEF MarkedDue, OverdueInSight, WakeNotLost, ListSubjectsDue
    <2>5. SleepLeft'
        <3>1. \A x \in Subjects : overdue'[x] \in Nat /\ overdue'[x] <= overdue[x]
            BY <1>0, <2>2
        <3>2. loop.timer \in Nat
            BY <1>0 DEF LoopStates
        <3> QED
            BY <1>0, <1>i, <2>1, <3>1, <3>2 DEF SleepLeft
    <2> QED
        BY <2>3, <2>4, <2>5 DEF SleepInv
<1>18. CASE Cancel
    <2>1. cancelled' /\ UNCHANGED <<row, wake, hnd, loop, unseen, overdue>>
        BY <1>18 DEF Cancel, history
    <2> QED
        BY <1>i, <2>1 DEF SleepInv, InHand, MarkedDue, OverdueInSight, SleepLeft, WakeNotLost, ListSubjectsDue
<1>19. CASE Restart
    <2>1. /\ loop'.pc = "start" /\ loop'.cur = Nobody /\ UNCHANGED <<row, unseen, overdue>>
        BY <1>19 DEF Restart, IdleLoop, history
    <2>2. InHand' /\ MarkedDue' /\ OverdueInSight' /\ WakeNotLost'
        BY <1>i, <2>1 DEF InHand, MarkedDue, OverdueInSight, WakeNotLost, ListSubjectsDue
    <2>3. SleepLeft'
        <3>1. loop.timer \in Nat
            BY <1>0 DEF LoopStates
        <3> QED
            BY <1>0, <1>i, <2>1, <3>1 DEF SleepLeft
    <2> QED
        BY <2>2, <2>3 DEF SleepInv
<1>20. CASE Tick
    <2>1. /\ loop'.pc = loop.pc /\ loop'.cur = loop.cur /\ loop'.queue = loop.queue
          /\ loop'.timer = Closer(loop.timer) /\ loop.timer \in Nat
          /\ UNCHANGED <<wake, hnd, cancelled, unseen>>
        BY <1>0, <1>20 DEF Tick, LoopStates
    <2>2. \A x \in Subjects : /\ row'[x].trans = Closer(row[x].trans)
                              /\ row'[x].retry = Closer(row[x].retry)
        BY <1>20 DEF Tick
    <2>3. \A x \in ListSubjectsDue : x \in ListSubjectsDue'
        BY <2>2, CloserTyped DEF ListSubjectsDue
    <2>4. \A x \in Subjects : overdue'[x] =
              IF x \in ListSubjectsDue /\ loop.pc = "select" /\ loop.timer > 0
              THEN overdue[x] + 1 ELSE overdue[x]
        BY <1>20 DEF Tick
    <2>5. MarkedDue'
        <3>1. ASSUME NEW x \in Subjects, unseen'[x] \/ overdue'[x] > 0
              PROVE  x \in ListSubjectsDue
            BY <1>i, <2>1, <2>4, <3>1 DEF MarkedDue
        <3> QED
            BY <2>3, <3>1 DEF MarkedDue
    <2>6. InHand'
        BY <1>0, <1>i, <2>1, <2>4 DEF InHand, LoopStates
    <2>7. OverdueInSight' /\ WakeNotLost'
        BY <1>i, <2>1, <2>4 DEF OverdueInSight, WakeNotLost
    <2>8. SleepLeft'
        <3>1. ASSUME NEW x \in Subjects
              PROVE  overdue'[x] + (IF loop.pc = "select" THEN loop'.timer ELSE 0) <= Interval
            <4>1. overdue[x] \in Nat /\ overdue[x] + (IF loop.pc = "select" THEN loop.timer ELSE 0) <= Interval
                BY <1>0, <1>i DEF SleepLeft
            <4>2. loop'.timer \in Nat /\ loop'.timer <= loop.timer /\ (loop.timer > 0 => loop'.timer + 1 = loop.timer)
                BY <2>1, CloserTyped
            <4> QED
                BY <1>0, <2>1, <2>4, <4>1, <4>2
        <3> QED
            BY <2>1, <3>1 DEF SleepLeft
    <2> QED
        BY <2>5, <2>6, <2>7, <2>8 DEF SleepInv
<1>21. CASE UNCHANGED vars
    BY <1>i, <1>21 DEF vars, history, SleepInv, InHand, MarkedDue, OverdueInSight, SleepLeft, WakeNotLost, ListSubjectsDue
<1>22. CASE (\E s \in Subjects : Succeed(s)) \/ Fail \/ FailUnrecorded
    BY <1>6, <1>22 DEF Succeed, Fail, FailUnrecorded
<1> QED
    BY <1>2, <1>4, <1>5, <1>10, <1>11, <1>12, <1>14, <1>15, <1>16, <1>17, <1>18,
       <1>19, <1>20, <1>21, <1>22 DEF Next, LoopStep

(* The invariant holds in every behaviour. *)
LEMMA SleepHolds == Spec => []SleepInv
<1>1. Init => SleepInv
    BY SchedulerAssumption
    DEF Init, IdleLoop, SleepInv, InHand, MarkedDue, OverdueInSight, SleepLeft, WakeNotLost
<1> QED
    BY <1>1, SchedulerTypeCorrect, SleepStep, PTL DEF Spec

(* No wake-up of an accepted delivery is lost, however many webhooks share *)
(* the one-place channel and whatever the loop is doing.                   *)
THEOREM NoWakeIsLost == Spec => []WakeNotLost
<1>1. SleepInv => WakeNotLost
    BY DEF SleepInv
<1> QED
    BY <1>1, SleepHolds, PTL

(* A subject that is due is attempted after at most one poll interval of   *)
(* sleep, whatever the interval, the delays and the webhooks.              *)
THEOREM PollingBoundsTheDelay == Spec => []PollBoundsDelay
<1>1. TypeOK /\ SleepInv => PollBoundsDelay
    BY SchedulerAssumption DEF TypeOK, SleepInv, SleepLeft, PollBoundsDelay
<1> QED
    BY <1>1, SchedulerTypeCorrect, SleepHolds, PTL
=============================================================================
