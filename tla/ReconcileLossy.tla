--------------------------- MODULE ReconcileLossy ---------------------------
(***************************************************************************)
(* Reconcile with a database connection that may drop while its process    *)
(* goes on: PostgreSQL frees the session's advisory lock, the reconciler   *)
(* learns of it only at its next statement, and its Graph requests do not  *)
(* depend on the session at all.                                           *)
(***************************************************************************)
EXTENDS Reconcile

LoseSession(r) ==
    /\ rec[r].pc \in Holding
    /\ HasSession(r)
    /\ subjectLock' = Released(subjectLock, r)
    /\ UNCHANGED <<intents, state, identityLock, member, now, rec, hnd>>

LossyNext == Next \/ \E r \in Reconcilers : LoseSession(r)

LossySpec == Init /\ [][LossyNext]_vars
=============================================================================
