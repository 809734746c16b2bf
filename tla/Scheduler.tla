----------------------------- MODULE Scheduler ------------------------------
(***************************************************************************)
(* cmd/metabasis/loop.go: the reconciliation loop of `metabasis run', the  *)
(* one-place channel webhooks wake it through, and the queries of Store it *)
(* schedules by.                                                           *)
(*                                                                         *)
(* Time has no end here, so an instant is written as its distance from now *)
(* in ticks: a positive distance lies ahead, 0 is reached, Null is NULL.   *)
(* Tick brings every distance one closer.  What happens inside an attempt  *)
(* and inside UpsertIntent is the subject of module Reconcile; here a      *)
(* commit is one step and an attempt two, its start and its outcome, with  *)
(* the subject's lock held in between.                                     *)
(***************************************************************************)
EXTENDS Integers, FiniteSetsExt

CONSTANTS
    Subjects,       \* the subjects deliveries may name
    Handlers,       \* webhook requests that may be in progress at one time
    Interval,       \* reconcile.poll_interval
    Delays,         \* the values of retryDelay
    Ahead,          \* bound: how far ahead a delivery's boundaries lie
    MaxDeliveries,  \* bound: deliveries
    MaxIncidents    \* bound: runs of `apply' on one subject and restarts of the process

ASSUME SchedulerAssumption ==
    /\ Subjects \subseteq Nat \ {0}
    /\ Interval \in Nat \ {0} /\ Delays \subseteq Nat \ {0}
    /\ \E cap \in Delays : \A d \in Delays : d <= cap
    /\ Ahead \in Nat /\ MaxDeliveries \in Nat /\ MaxIncidents \in Nat

Null == -1
Nobody == 0

VARIABLES
    known,      \* subjects -> an accepted intent names it
    bounds,     \* subjects -> distances of the phase boundaries ahead
    row,        \* subjects -> next_transition_at and next_retry_at
    wake,       \* whether the wake channel holds its token
    hnd,        \* handlers -> where in handleWebhook
    loop,       \* the locals of runLoop and of the attempt in progress
    cancelled,  \* the service's context is done
    deliveries, incidents,  \* how many so far
    stale,      \* history: a delivery or a boundary since the last success began
    unseen,     \* history: a delivery since the last attempt began
    overdue     \* history: ticks slept through while due, since the last attempt

history == <<stale, unseen, overdue>>
counters == <<deliveries, incidents>>
vars == <<known, bounds, row, wake, hnd, loop, cancelled, counters, history>>

IdleLoop == [pc |-> "start", queue |-> {}, cur |-> Nobody, next |-> Null, age |-> 0, timer |-> 0]

Init ==
    /\ known = [s \in Subjects |-> FALSE]
    /\ bounds = [s \in Subjects |-> {}]
    /\ row = [s \in Subjects |-> [trans |-> Null, retry |-> Null]]
    /\ wake = FALSE
    /\ hnd = [h \in Handlers |-> "idle"]
    /\ loop = IdleLoop
    /\ cancelled = FALSE
    /\ deliveries = 0 /\ incidents = 0
    /\ stale = [s \in Subjects |-> FALSE]
    /\ unseen = [s \in Subjects |-> FALSE]
    /\ overdue = [s \in Subjects |-> 0]

-----------------------------------------------------------------------------
(* The queries *)

ListSubjects == { s \in Subjects : known[s] \/ row[s].trans # Null \/ row[s].retry # Null }

ListSubjectsDue_Retries == { s \in Subjects : row[s].retry = 0 }

(* UpsertIntent gives every subject it names a row, so no known subject is *)
(* without one.                                                            *)
ListSubjectsDue == { s \in Subjects : row[s].trans = 0 \/ row[s].retry = 0 }

(* Only what lies ahead: a mark that is reached already wakes nobody. *)
NextWake ==
    LET wakes == { row[s].trans : s \in Subjects } \cup { row[s].retry : s \in Subjects }
    IN  IF wakes \subseteq {0, Null} THEN Null ELSE Min(wakes \ {0, Null})

delay_UntilNext == IF NextWake = Null THEN Interval ELSE NextWake

(* How long runLoop sleeps. *)
delay == IF NextWake = Null THEN Interval ELSE Min({Interval, NextWake})

-----------------------------------------------------------------------------
(* handleWebhook *)

(* UpsertIntent: a delivery has moved its intent from subject p (p = s     *)
(* when it has not) to subject s, with the boundaries B.                   *)
UpsertIntent(h, s, p, B) ==
    /\ hnd[h] = "idle" /\ ~cancelled /\ loop.pc # "stopped"
    /\ deliveries < MaxDeliveries
    /\ p # s => known[p]
    /\ loop.cur \notin {s, p}
    /\ known' = [known EXCEPT ![p] = FALSE, ![s] = TRUE]
    /\ bounds' = [bounds EXCEPT ![p] = {}, ![s] = B]
    /\ row' = [row EXCEPT ![p].retry = 0, ![s].retry = 0]
    /\ stale' = [stale EXCEPT ![p] = TRUE, ![s] = TRUE]
    /\ deliveries' = deliveries + 1
    /\ UNCHANGED <<wake, loop, cancelled, incidents, overdue>>

Accept(h, s, p, B) ==
    /\ UpsertIntent(h, s, p, B)
    /\ unseen' = [unseen EXCEPT ![p] = TRUE, ![s] = TRUE]
    /\ hnd' = [hnd EXCEPT ![h] = "accepted"]

(* The commit took effect and its answer was lost: the handler reports an  *)
(* error to the sender and wakes nobody.                                   *)
AcceptUnanswered(h, s, p, B) ==
    /\ UpsertIntent(h, s, p, B)
    /\ UNCHANGED <<unseen, hnd>>

Wake_Unbuffered(h) ==
    /\ hnd[h] = "accepted"
    /\ wake' = (wake \/ loop.pc = "select")
    /\ hnd' = [hnd EXCEPT ![h] = "idle"]
    /\ UNCHANGED <<known, bounds, row, loop, cancelled, counters, history>>

(* The send never blocks: a full channel keeps the token it has. *)
Wake(h) ==
    /\ hnd[h] = "accepted"
    /\ wake' = TRUE
    /\ hnd' = [hnd EXCEPT ![h] = "idle"]
    /\ UNCHANGED <<known, bounds, row, loop, cancelled, counters, history>>

-----------------------------------------------------------------------------
(* runLoop and runCycle *)

LoopOnly(l) ==
    /\ loop' = l
    /\ UNCHANGED <<known, bounds, row, wake, hnd, cancelled, counters, history>>

AfterCycle_Forever == "wait"

(* Where runLoop goes on when a cycle is over. *)
AfterCycle == IF cancelled THEN "stopped" ELSE "wait"

ReconcileAll ==
    /\ loop.pc = "start" /\ ~cancelled
    /\ LoopOnly([loop EXCEPT !.pc = "cycle", !.queue = ListSubjects])

ReconcileDue ==
    /\ loop.pc = "due" /\ ~cancelled
    /\ LoopOnly([loop EXCEPT !.pc = "cycle", !.queue = ListSubjectsDue])

(* The subjects cannot be listed: the cycle is over. *)
ListFails ==
    /\ loop.pc \in {"start", "due"}
    /\ loop' = [loop EXCEPT !.pc = AfterCycle]
    /\ unseen' = [s \in Subjects |-> FALSE]
    /\ overdue' = [s \in Subjects |-> 0]
    /\ UNCHANGED <<known, bounds, row, wake, hnd, cancelled, counters, stale>>

(* The next subject, in order; its boundaries are read under its lock. *)
Begin ==
    /\ loop.pc = "cycle" /\ loop.cur = Nobody /\ loop.queue # {} /\ ~cancelled
    /\ LET s == Min(loop.queue)
       IN  /\ loop' = [loop EXCEPT !.queue = @ \ {s}, !.cur = s, !.age = 0,
                                   !.next = IF bounds[s] = {} THEN Null ELSE Min(bounds[s])]
           /\ unseen' = [unseen EXCEPT ![s] = FALSE]
           /\ overdue' = [overdue EXCEPT ![s] = 0]
    /\ UNCHANGED <<known, bounds, row, wake, hnd, cancelled, counters, stale>>

(* The outcome of the attempt, recorded or not, and the end of the attempt. *)
Outcome(r, st) ==
    /\ loop.pc = "cycle" /\ loop.cur # Nobody
    /\ row' = [row EXCEPT ![loop.cur] = r]
    /\ stale' = [stale EXCEPT ![loop.cur] = st]
    /\ loop' = [loop EXCEPT !.cur = Nobody, !.next = Null, !.age = 0]
    /\ UNCHANGED <<known, bounds, wake, hnd, cancelled, counters, unseen, overdue>>

(* A boundary crossed since the attempt began leaves the subject stale, *)
(* and its recorded transition reached.                                 *)
Succeed(s) == loop.cur = s /\ Outcome([trans |-> loop.next, retry |-> Null], loop.next = 0)

(* The retry counts from the start of the attempt; without the listing the *)
(* row keeps its transition.                                               *)
Fail ==
    /\ loop.cur # Nobody /\ ~cancelled
    /\ \E d \in Delays, t \in {loop.next, row[loop.cur].trans} :
          Outcome([trans |-> t, retry |-> Max({0, d - loop.age})], stale[loop.cur])

FailUnrecorded == loop.cur # Nobody /\ Outcome(row[loop.cur], stale[loop.cur])

(* No subject is left, or the context is done before the next one. *)
EndCycle ==
    /\ loop.pc = "cycle" /\ loop.cur = Nobody
    /\ loop.queue = {} \/ cancelled
    /\ LoopOnly([loop EXCEPT !.pc = AfterCycle, !.queue = {}])

Sleep == loop.pc = "wait" /\ LoopOnly([loop EXCEPT !.pc = "select", !.timer = delay])

SleepUninformed == loop.pc = "wait" /\ LoopOnly([loop EXCEPT !.pc = "select", !.timer = Interval])

Woken ==
    /\ loop.pc = "select" /\ wake
    /\ wake' = FALSE
    /\ loop' = [loop EXCEPT !.pc = "due", !.timer = 0]
    /\ UNCHANGED <<known, bounds, row, hnd, cancelled, counters, history>>

TimerFires ==
    /\ loop.pc = "select" /\ loop.timer = 0
    /\ LoopOnly([loop EXCEPT !.pc = "due"])

Done ==
    /\ loop.pc = "select" /\ cancelled
    /\ LoopOnly([loop EXCEPT !.pc = "stopped", !.timer = 0])

LoopStep ==
    \/ ReconcileAll \/ ReconcileDue \/ ListFails
    \/ Begin \/ (\E s \in Subjects : Succeed(s)) \/ Fail \/ FailUnrecorded \/ EndCycle
    \/ Sleep \/ SleepUninformed \/ Woken \/ TimerFires \/ Done

-----------------------------------------------------------------------------
(* The world around the loop *)

(* An operator's `apply' in a process of its own records an outcome. *)
Apply(s) ==
    /\ incidents < MaxIncidents /\ incidents' = incidents + 1
    /\ loop.cur # s /\ s \in ListSubjects
    /\ LET next == IF bounds[s] = {} THEN Null ELSE Min(bounds[s])
       IN  \/ /\ row' = [row EXCEPT ![s] = [trans |-> next, retry |-> Null]]
              /\ stale' = [stale EXCEPT ![s] = FALSE]
           \/ /\ \E d \in Delays : row' = [row EXCEPT ![s] = [trans |-> next, retry |-> d]]
              /\ UNCHANGED stale
    /\ unseen' = [unseen EXCEPT ![s] = FALSE]
    /\ overdue' = [overdue EXCEPT ![s] = 0]
    /\ UNCHANGED <<known, bounds, wake, hnd, loop, cancelled, deliveries>>

(* The signal that ends the service. *)
Cancel ==
    /\ ~cancelled
    /\ cancelled' = TRUE
    /\ UNCHANGED <<known, bounds, row, wake, hnd, loop, counters, history>>

(* The process is gone, crashed or stopped, and starts again: the channel, *)
(* the handlers and the attempt in progress go with it.                    *)
Restart ==
    /\ incidents < MaxIncidents /\ incidents' = incidents + 1
    /\ wake' = FALSE /\ cancelled' = FALSE /\ loop' = IdleLoop
    /\ hnd' = [h \in Handlers |-> "idle"]
    /\ UNCHANGED <<known, bounds, row, deliveries, history>>

Closer(d) == IF d > 0 THEN d - 1 ELSE d

Tick ==
    /\ bounds' = [s \in Subjects |-> { d - 1 : d \in bounds[s] } \ {0}]
    /\ row' = [s \in Subjects |-> [trans |-> Closer(row[s].trans), retry |-> Closer(row[s].retry)]]
    /\ loop' = [loop EXCEPT !.next = Closer(@), !.timer = Closer(@),
                            !.age = IF loop.cur = Nobody THEN 0 ELSE Min({@ + 1, Max(Delays)})]
    /\ stale' = [s \in Subjects |-> stale[s] \/ 1 \in bounds[s]]
    /\ overdue' = [s \in Subjects |->
                     IF s \in ListSubjectsDue /\ loop.pc = "select" /\ loop.timer > 0
                     THEN overdue[s] + 1 ELSE overdue[s]]
    /\ UNCHANGED <<known, wake, hnd, cancelled, counters, unseen>>

Boundaries == { B \in SUBSET (1..Ahead) : Cardinality(B) <= 2 }

Next ==
    \/ LoopStep
    \/ \E h \in Handlers : \E s, p \in Subjects, B \in Boundaries :
          Accept(h, s, p, B) \/ AcceptUnanswered(h, s, p, B)
    \/ \E h \in Handlers : Wake(h)
    \/ \E s \in Subjects : Apply(s)
    \/ Cancel \/ Restart \/ Tick

(* The loop's goroutine and time go on; a listing and an attempt that are  *)
(* tried again and again succeed at last.                                  *)
Fairness ==
    /\ WF_vars(LoopStep) /\ WF_vars(Tick)
    /\ \A h \in Handlers : WF_vars(Wake(h))
    /\ SF_vars(ReconcileDue)
    /\ \A s \in Subjects : SF_vars(Succeed(s))

Spec == Init /\ [][Next]_vars /\ Fairness

-----------------------------------------------------------------------------
(* Properties *)

Distances == Nat \cup {Null}

(* Every variable has its type; the timer is never below zero. *)
TypeOK ==
    /\ known \in [Subjects -> BOOLEAN] /\ bounds \in [Subjects -> SUBSET (1..Ahead)]
    /\ row \in [Subjects -> [trans : Distances, retry : Distances]]
    /\ wake \in BOOLEAN /\ cancelled \in BOOLEAN
    /\ hnd \in [Handlers -> {"idle", "accepted"}]
    /\ loop \in [pc : {"start", "due", "cycle", "wait", "select", "stopped"},
                 queue : SUBSET Subjects, cur : Subjects \cup {Nobody},
                 next : Distances, age : Nat, timer : Nat]
    /\ deliveries \in 0..MaxDeliveries /\ incidents \in 0..MaxIncidents
    /\ stale \in [Subjects -> BOOLEAN] /\ unseen \in [Subjects -> BOOLEAN]
    /\ overdue \in [Subjects -> Nat]

(* No wake-up is lost: while an accepted delivery waits for an attempt on  *)
(* its subject, its handler is about to send, the token is in the channel, *)
(* the loop is about to list, or the subject is in the list at hand.  The  *)
(* loop never goes to sleep on a delivery, whatever sends were dropped.    *)
WakeNotLost ==
    \A s \in Subjects : unseen[s] =>
        \/ cancelled \/ wake
        \/ \E h \in Handlers : hnd[h] = "accepted"
        \/ loop.pc \in {"start", "due"}
        \/ s \in loop.queue

(* A subject that is due is attempted after at most one poll interval of   *)
(* sleep, also when its mark was reached while the loop was busy, was set  *)
(* by another process, or came with a commit whose answer was lost, so     *)
(* that NextWake never saw it ahead and nobody woke the loop.              *)
PollBoundsDelay == \A s \in Subjects : overdue[s] <= Interval

(* Every delivery and every boundary is followed by an attempt that began  *)
(* after it and succeeded, unless the service is stopped.                  *)
EventuallyCurrent == \A s \in Subjects : stale[s] ~> (~stale[s] \/ cancelled)

(* A cancelled loop comes to its end, so that runService need not give up  *)
(* on it.                                                                  *)
LoopStops == cancelled ~> (loop.pc = "stopped" \/ ~cancelled)
=============================================================================
