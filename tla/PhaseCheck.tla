----------------------------- MODULE PhaseCheck -----------------------------
(***************************************************************************)
(* The boundary a plan stores against the phases it is to announce: a set  *)
(* of intents is planned at one instant and time goes on, for every small  *)
(* set of windows and every instant.                                       *)
(***************************************************************************)
EXTENDS Planner, FiniteSets

CONSTANTS
    Horizon,     \* bound: the last instant
    MaxIntents   \* bound: intents of the subject

VARIABLES
    known,    \* the subject's intents
    planned,  \* the instant of the plan
    now

Windows ==
    { w \in [source : {1}, id : {1}, subject : {1}, starts_at : 0..Horizon, ends_at : 0..Horizon,
             cancelled : BOOLEAN] : Validate(w) }

Init ==
    /\ known \in UNION { kSubset(n, Windows) : n \in 0..MaxIntents }
    /\ planned \in 0..Horizon
    /\ now = planned

Tick ==
    /\ now <= Horizon
    /\ now' = now + 1
    /\ UNCHANGED <<known, planned>>

Spec == Init /\ [][Tick]_<<known, planned, now>>

(* Before the boundary the plan stored, no intent changes its phase, so    *)
(* the memberships that were right stay right; at the boundary one does,   *)
(* so reconciliation never comes back for nothing; and without a boundary  *)
(* no phase ever changes again.                                            *)
BoundaryIsExact ==
    LET next == nextTransitionAt(known, planned)
        changed == \E i \in known : PhaseAt(i, now) # PhaseAt(i, planned)
    IN  changed <=> next # Null /\ next <= now

(* A subject is active exactly while one of its windows is open and not    *)
(* cancelled, pending while none is open but one is still to come, and     *)
(* settled afterwards, even if no intent ever became active.               *)
StateFollowsWindows ==
    LET live == { i \in known : ~i.cancelled }
        open == { i \in live : now \in i.starts_at .. i.ends_at - 1 }
        ahead == { i \in live : now < i.starts_at }
        st == AggregateState(known, now)
    IN  /\ st = "active" <=> open # {}
        /\ st = "pending" <=> open = {} /\ ahead # {}
        /\ st = "none" <=> known = {}
=============================================================================
