------------------------------ MODULE Startup -------------------------------
(***************************************************************************)
(* Processes that start against one database: store.Open, Store.Migrate    *)
(* and app.Build, as `run' and `apply' (which migrate) and `plan' and      *)
(* `intents' (which do not) call them.  The migration provider (goose) is  *)
(* external: it takes a session advisory lock, reads the schema's version, *)
(* and applies what is missing in a transaction.                           *)
(***************************************************************************)
EXTENDS Integers, FiniteSets

CONSTANTS
    Processes,  \* processes that may be running at one time
    MaxStarts,  \* bound: processes started
    NoProcess   \* nobody holds the migration lock

ASSUME StartupAssumption == NoProcess \notin Processes /\ MaxStarts \in Nat

VARIABLES
    migrated,  \* the tables exist
    applied,   \* history: times the migration was committed
    lock,      \* holder of the migration lock
    proc,      \* Processes -> [pc, migrates, pool, pending]
    starts

vars == <<migrated, applied, lock, proc, starts>>

Off == [pc |-> "off", migrates |-> FALSE, pool |-> FALSE, pending |-> FALSE]

Init ==
    /\ migrated = FALSE /\ applied = 0 /\ lock = NoProcess
    /\ proc = [p \in Processes |-> Off] /\ starts = 0

GoTo(p, label) == proc' = [proc EXCEPT ![p].pc = label]

Released_Never(p) == lock

(* A pool that is closed ends its sessions, and their locks with them. *)
Released(p) == IF lock = p THEN NoProcess ELSE lock

Fail(p) ==
    /\ proc' = [proc EXCEPT ![p].pc = "failed", ![p].pool = FALSE]
    /\ lock' = Released(p)
    /\ UNCHANGED <<migrated, applied, starts>>

Start(p, migrates) ==
    /\ proc[p].pc = "off" /\ starts < MaxStarts
    /\ proc' = [proc EXCEPT ![p] = [Off EXCEPT !.pc = "opening", !.migrates = migrates]]
    /\ starts' = starts + 1
    /\ UNCHANGED <<migrated, applied, lock>>

(* The pool is created and pinged. *)
Open(p) ==
    /\ proc[p].pc = "opening"
    /\ proc' = [proc EXCEPT ![p].pool = TRUE,
                            ![p].pc = IF proc[p].migrates THEN "locking" ELSE "building"]
    /\ UNCHANGED <<migrated, applied, lock, starts>>

OpenFails(p) == proc[p].pc = "opening" /\ Fail(p)

LockMigrations(p) ==
    /\ proc[p].pc = "locking" /\ lock = NoProcess
    /\ lock' = p
    /\ GoTo(p, "versioning")
    /\ UNCHANGED <<migrated, applied, starts>>

(* The version is read under the lock. *)
ReadVersion(p) ==
    /\ proc[p].pc = "versioning"
    /\ proc' = [proc EXCEPT ![p].pending = ~migrated, ![p].pc = "migrating"]
    /\ UNCHANGED <<migrated, applied, lock, starts>>

(* CREATE TABLE of a table that exists would fail. *)
Up(p) ==
    /\ proc[p].pc = "migrating"
    /\ proc[p].pending => ~migrated
    /\ migrated' = TRUE
    /\ applied' = IF proc[p].pending THEN applied + 1 ELSE applied
    /\ lock' = Released(p)
    /\ GoTo(p, "building")
    /\ UNCHANGED starts

Migrate_Ignored(p) ==
    /\ proc[p].pc \in {"locking", "versioning", "migrating"}
    /\ lock' = Released(p)
    /\ GoTo(p, "building")
    /\ UNCHANGED <<migrated, applied, starts>>

(* The lock is not to be had in time, or a statement fails: the pool is closed. *)
MigrateFails(p) == proc[p].pc \in {"locking", "versioning", "migrating"} /\ Fail(p)

(* graph.NewClient and reconcile.New. *)
Build(p) ==
    /\ proc[p].pc = "building"
    /\ GoTo(p, "working")
    /\ UNCHANGED <<migrated, applied, lock, starts>>

BuildFails_Leaks(p) ==
    /\ proc[p].pc = "building"
    /\ GoTo(p, "failed")
    /\ UNCHANGED <<migrated, applied, lock, starts>>

BuildFails(p) == proc[p].pc = "building" /\ Fail(p)

(* App.Close, when the command is done or the service has stopped. *)
Close(p) ==
    /\ proc[p].pc = "working"
    /\ proc' = [proc EXCEPT ![p].pc = "ended", ![p].pool = FALSE]
    /\ UNCHANGED <<migrated, applied, lock, starts>>

Exit(p) ==
    /\ proc[p].pc \in {"failed", "ended"}
    /\ GoTo(p, "off")
    /\ UNCHANGED <<migrated, applied, lock, starts>>

Crash(p) ==
    /\ proc[p].pc # "off"
    /\ proc' = [proc EXCEPT ![p] = Off]
    /\ lock' = Released(p)
    /\ UNCHANGED <<migrated, applied, starts>>

Proceed(p) == Open(p) \/ LockMigrations(p) \/ ReadVersion(p) \/ Up(p) \/ Build(p)

Next ==
    \E p \in Processes :
        \/ \E migrates \in BOOLEAN : Start(p, migrates)
        \/ Proceed(p) \/ OpenFails(p) \/ MigrateFails(p) \/ BuildFails(p)
        \/ Close(p) \/ Exit(p) \/ Crash(p)

(* A process goes on as long as it can: nothing needs to fail or to end.  *)
Spec == Init /\ [][Next]_vars /\ \A p \in Processes : WF_vars(Proceed(p))

-----------------------------------------------------------------------------
(* Properties *)

(* Processes that start together, one of which may crash or fail halfway,  *)
(* apply the migration exactly once, and none of those that migrate works  *)
(* without the tables.                                                     *)
MigratedBeforeWork ==
    /\ applied = IF migrated THEN 1 ELSE 0
    /\ \A p \in Processes : proc[p].pc \in {"building", "working"} /\ proc[p].migrates => migrated

(* Whichever part of the start fails, the process is left without a        *)
(* connection and without the migration lock.                              *)
FailedHoldsNothing ==
    \A p \in Processes : proc[p].pc \in {"failed", "ended"} => ~proc[p].pool /\ lock # p

(* A start ends, at work or not, also when the process that held the       *)
(* migration lock crashed: nobody waits for ever, even without the lock's  *)
(* own time limit.                                                         *)
StartEnds ==
    \A p \in Processes : proc[p].pc = "opening" ~> proc[p].pc \in {"working", "failed", "off"}
=============================================================================
