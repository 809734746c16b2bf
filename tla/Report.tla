------------------------------- MODULE Report -------------------------------
(***************************************************************************)
(* What an operator is told by `apply' (cmd/metabasis/command.go,          *)
(* output.go): the results that Service.ReconcileSubject and               *)
(* reconcileSubjects build up, the blocks streamed as subjects finish, the *)
(* final report and the exit code.  A membership write is a pair of an     *)
(* action and an alias.  `sent' is a history variable: the writes whose    *)
(* requests went out, and how they were answered.                          *)
(***************************************************************************)
EXTENDS Integers, Sequences, SequencesExt, FiniteSetsExt

CONSTANTS
    Scope,   \* the subjects ListSubjects returns, in order
    Plans    \* the plans a subject may have: [add, remove], sequences of aliases

VARIABLES
    mode,       \* [all, json, include]: the flags of the command
    pc,         \* where the command is
    todo,       \* subjects the loop has not come to
    result,     \* the Result of the attempt in progress
    results,    \* the Results so far
    failed,     \* the error the loop will return is not nil
    cancelled,  \* the command's context is cancelled
    broken,     \* standard output no longer accepts writes
    shown,      \* blocks written to standard output
    report,     \* the final report
    exit,       \* the exit code
    sent        \* subject -> [ok, refused]: sets of writes

vars == <<mode, pc, todo, result, results, failed, cancelled, broken, shown, report, exit, sent>>

Writes(action, aliases) == { <<action, aliases[i]>> : i \in DOMAIN aliases }

NoResult == [subject |-> 0, planned |-> FALSE, plan |-> [add |-> <<>>, remove |-> <<>>],
             added |-> <<>>, removed |-> <<>>, operation |-> <<>>, error |-> FALSE]

NoReport == [written |-> FALSE]

Init ==
    /\ mode \in [all : BOOLEAN, json : BOOLEAN, include : BOOLEAN]
    /\ pc = "listing" /\ todo = <<>> /\ result = NoResult /\ results = <<>>
    /\ failed = FALSE /\ cancelled = FALSE /\ broken = FALSE
    /\ shown = <<>> /\ report = NoReport /\ exit = -1
    /\ sent = [s \in Range(Scope) |-> [ok |-> {}, refused |-> {}]]

-----------------------------------------------------------------------------
(* reconcileSubjects *)

(* Without --all, the one subject that was named. *)
ListSubjects ==
    /\ pc = "listing"
    /\ todo' = IF mode.all THEN Scope ELSE <<Head(Scope)>>
    /\ pc' = "next"
    /\ UNCHANGED <<mode, result, results, failed, cancelled, broken, shown, report, exit, sent>>

ListSubjectsFails ==
    /\ pc = "listing" /\ mode.all
    /\ failed' = TRUE /\ pc' = "reporting"
    /\ UNCHANGED <<mode, todo, result, results, cancelled, broken, shown, report, exit, sent>>

BeginSubject ==
    /\ pc = "next" /\ todo # <<>>
    /\ mode.all => ~cancelled
    /\ result' = [NoResult EXCEPT !.subject = Head(todo)]
    /\ todo' = Tail(todo) /\ pc' = "planning"
    /\ UNCHANGED <<mode, results, failed, cancelled, broken, shown, report, exit, sent>>

StopEarly_Quietly ==
    /\ pc = "next" /\ todo # <<>> /\ mode.all /\ cancelled
    /\ pc' = "reporting"
    /\ UNCHANGED <<mode, todo, result, results, failed, cancelled, broken, shown, report, exit, sent>>

(* The loop looks at the context before each subject, never after the last. *)
StopEarly ==
    /\ pc = "next" /\ todo # <<>> /\ mode.all /\ cancelled
    /\ failed' = TRUE /\ pc' = "reporting"
    /\ UNCHANGED <<mode, todo, result, results, cancelled, broken, shown, report, exit, sent>>

EndOfList ==
    /\ pc = "next" /\ todo = <<>>
    /\ pc' = "reporting"
    /\ UNCHANGED <<mode, todo, result, results, failed, cancelled, broken, shown, report, exit, sent>>

-----------------------------------------------------------------------------
(* ReconcileSubject *)

Plan(p) ==
    /\ pc = "planning" /\ ~cancelled
    /\ result' = [result EXCEPT !.planned = TRUE, !.plan = p]
    /\ pc' = "applying"
    /\ UNCHANGED <<mode, todo, results, failed, cancelled, broken, shown, report, exit, sent>>

(* The lock, the state, the intents, the user or the plan. *)
PlanFails ==
    /\ pc = "planning"
    /\ result' = [result EXCEPT !.error = TRUE]
    /\ pc' = "closing"
    /\ UNCHANGED <<mode, todo, results, failed, cancelled, broken, shown, report, exit, sent>>

(* The additions first, then the removals. *)
NextWrite ==
    IF Len(result.added) < Len(result.plan.add)
    THEN <<"add", result.plan.add[Len(result.added) + 1]>>
    ELSE <<"remove", result.plan.remove[Len(result.removed) + 1]>>

AllWritten == result.added = result.plan.add /\ result.removed = result.plan.remove

WriteSucceeds ==
    /\ pc = "applying" /\ ~AllWritten /\ ~cancelled
    /\ result' = IF NextWrite[1] = "add" THEN [result EXCEPT !.added = Append(@, NextWrite[2])]
                                         ELSE [result EXCEPT !.removed = Append(@, NextWrite[2])]
    /\ sent' = [sent EXCEPT ![result.subject].ok = @ \cup {NextWrite}]
    /\ UNCHANGED <<mode, pc, todo, results, failed, cancelled, broken, shown, report, exit>>

WriteFails ==
    /\ pc = "applying" /\ ~AllWritten
    /\ result' = [result EXCEPT !.operation = NextWrite, !.error = TRUE]
    /\ sent' = [sent EXCEPT ![result.subject].refused = @ \cup {NextWrite}]
    /\ pc' = "closing"
    /\ UNCHANGED <<mode, todo, results, failed, cancelled, broken, shown, report, exit>>

(* RecordSuccess may fail after every write has succeeded. *)
Save(fails) ==
    /\ pc = "applying" /\ AllWritten
    /\ cancelled => fails
    /\ result' = [result EXCEPT !.error = fails]
    /\ pc' = "closing"
    /\ UNCHANGED <<mode, todo, results, failed, cancelled, broken, shown, report, exit, sent>>

(* The deferred functions: the session is closed, and only then the error  *)
(* of the attempt, with that of closing it, put into the result.           *)
Close(fails) ==
    /\ pc = "closing"
    /\ result' = [result EXCEPT !.error = @ \/ fails]
    /\ results' = Append(results, result')
    /\ failed' = (failed \/ result'.error)
    /\ pc' = "done"
    /\ UNCHANGED <<mode, todo, cancelled, broken, shown, report, exit, sent>>

-----------------------------------------------------------------------------
(* output.go *)

subjectStatus(r) ==
    IF r.error THEN "failed" ELSE IF r.added # <<>> \/ r.removed # <<>> THEN "applied" ELSE "unchanged"

IncludeUnchanged == mode.include \/ ~mode.all

Shows(r) == IncludeUnchanged \/ subjectStatus(r) # "unchanged"

writeOutstanding_ListsFailed(r) ==
    (Writes("add", r.plan.add) \ Writes("add", r.added))
    \cup (Writes("remove", r.plan.remove) \ Writes("remove", r.removed))

writeOutstanding(r) ==
    { w \in Writes("add", r.plan.add) : w \notin Writes("add", r.added) /\ w # r.operation }
    \cup { w \in Writes("remove", r.plan.remove) : w \notin Writes("remove", r.removed) /\ w # r.operation }

(* The lines of a block: what was done, the error, which names the write   *)
(* that failed, and what was not attempted.                                *)
renderSubject(r) ==
    [subject |-> r.subject,
     done |-> Writes("add", r.added) \cup Writes("remove", r.removed),
     failed |-> IF r.operation = <<>> THEN {} ELSE {r.operation},
     outstanding |-> IF r.planned THEN writeOutstanding(r) ELSE {}]

SubjectDone ==
    /\ pc = "done"
    /\ shown' = IF mode.json \/ ~Shows(result) THEN shown ELSE Append(shown, renderSubject(result))
    /\ ~(broken /\ ~mode.json /\ Shows(result))
    /\ pc' = "next"
    /\ UNCHANGED <<mode, todo, result, results, failed, cancelled, broken, report, exit, sent>>

(* A block that cannot be written ends the loop. *)
SubjectDoneFails ==
    /\ pc = "done" /\ broken /\ ~mode.json /\ Shows(result)
    /\ failed' = TRUE /\ pc' = "reporting"
    /\ UNCHANGED <<mode, todo, result, results, cancelled, broken, shown, report, exit, sent>>

(* The writes of the first results, one after the other. *)
WritesTo[n \in 0..Len(results)] ==
    IF n = 0 THEN 0 ELSE WritesTo[n - 1] + (Len(results[n].added) + Len(results[n].removed))

With(status) == Cardinality({ i \in DOMAIN results : subjectStatus(results[i]) = status })

(* A human report states the error itself only where no subject failed. *)
writeApplyReport ==
    [written |-> TRUE, subjects |-> Len(results),
     failed |-> With("failed"), applied |-> With("applied"), unchanged |-> With("unchanged"),
     writes |-> WritesTo[Len(results)],
     listed |-> Cardinality({ i \in DOMAIN results : mode.json \/ Shows(results[i]) }),
     error |-> failed /\ (mode.json \/ With("failed") = 0)]

WriteReport ==
    /\ pc = "reporting" /\ ~broken
    /\ report' = writeApplyReport
    /\ pc' = "exiting"
    /\ UNCHANGED <<mode, todo, result, results, failed, cancelled, broken, shown, exit, sent>>

WriteReportFails ==
    /\ pc = "reporting" /\ broken
    /\ failed' = TRUE /\ pc' = "exiting"
    /\ UNCHANGED <<mode, todo, result, results, cancelled, broken, shown, report, exit, sent>>

(* main.run: the signal decides (143 is treated alike), then the error. *)
Exit ==
    /\ pc = "exiting"
    /\ exit' = IF cancelled THEN 130 ELSE IF failed THEN 1 ELSE 0
    /\ pc' = "exited"
    /\ UNCHANGED <<mode, todo, result, results, failed, cancelled, broken, shown, report, sent>>

Interrupt ==
    /\ pc # "exited" /\ ~cancelled
    /\ cancelled' = TRUE
    /\ UNCHANGED <<mode, pc, todo, result, results, failed, broken, shown, report, exit, sent>>

(* The file standard output goes to takes no more. *)
Break ==
    /\ pc # "exited" /\ ~broken
    /\ broken' = TRUE
    /\ UNCHANGED <<mode, pc, todo, result, results, failed, cancelled, shown, report, exit, sent>>

Next ==
    \/ ListSubjects \/ ListSubjectsFails \/ BeginSubject \/ StopEarly \/ EndOfList
    \/ \E p \in Plans : Plan(p)
    \/ PlanFails \/ WriteSucceeds \/ WriteFails
    \/ \E fails \in BOOLEAN : Save(fails) \/ Close(fails)
    \/ SubjectDone \/ SubjectDoneFails \/ WriteReport \/ WriteReportFails \/ Exit
    \/ Interrupt \/ Break

Spec == Init /\ [][Next]_vars

-----------------------------------------------------------------------------
(* Properties *)

BlocksAccount ==
    \A i \in DOMAIN shown :
        LET b == shown[i]
            r == results[CHOOSE j \in DOMAIN results : results[j].subject = b.subject]
        IN  /\ b.done = sent[b.subject].ok
            /\ b.failed = sent[b.subject].refused
            /\ b.outstanding \cap (b.done \cup b.failed) = {}
            /\ b.done \cup b.failed \cup b.outstanding
                  = Writes("add", r.plan.add) \cup Writes("remove", r.plan.remove)

TotalsAddUp ==
    report.written =>
        /\ report.subjects = report.applied + report.unchanged + report.failed
        /\ report.writes = Cardinality(UNION { {s} \X sent[s].ok : s \in Range(Scope) })
        /\ report.listed = IF mode.json THEN report.subjects ELSE Len(shown)

(* A block accounts for every planned write exactly once, truly: as done   *)
(* when its request was answered well, as failed when it was not, as not   *)
(* attempted when no request went out (README.md: "failed and unattempted  *)
(* writes").  The totals are those of the whole run, also of subjects the  *)
(* human report leaves out: they add up, count every answered write, and   *)
(* the number of subjects said to be shown is the number of blocks.        *)
WritesAccounted == BlocksAccount /\ TotalsAddUp

(* A command that exits with 0 has reconciled every subject in its scope   *)
(* to the end, without an error, and said so; a report that leaves out     *)
(* some of the scope shows an error or a failed subject.                   *)
SuccessIsComplete ==
    /\ exit = 0 =>
          /\ report.written /\ report.failed = 0
          /\ { results[i].subject : i \in DOMAIN results }
                = IF mode.all THEN Range(Scope) ELSE {Head(Scope)}
          /\ \A s \in Range(Scope) : sent[s].refused = {}
    /\ report.written /\ Len(results) < (IF mode.all THEN Len(Scope) ELSE 1) =>
          report.error \/ report.failed > 0
=============================================================================
