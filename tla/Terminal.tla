------------------------------ MODULE Terminal ------------------------------
(***************************************************************************)
(* cmd/metabasis/progress.go and diagnostics.go: what `apply --all' shows  *)
(* on a terminal while it works.  The command's goroutine opens and closes *)
(* the stages of each subject, prints the block of a finished subject and  *)
(* at last the report; a clock goroutine repaints the live region below    *)
(* what was printed.  They share terminalProgress.mu.                      *)
(*                                                                         *)
(* A line on the screen is a record; a printed block counts as one line.   *)
(* A live line may be erased, the others may not.                          *)
(***************************************************************************)
EXTENDS Integers, Sequences, SequencesExt

CONSTANTS
    Subjects,   \* the subjects ReconcileAll goes through, in their order
    MaxChanges  \* bound: membership writes of a subject

ASSUME TerminalAssumption == Subjects \in Nat \ {0} /\ MaxChanges \in Nat

(* ReconcileSubject has stages 1 to 5; the fourth counts membership writes. *)
(* Listing is the one stage of ReconcileAll itself, with an empty scope.   *)
Applying == 4
Listing == 0
NoScope == 0

VARIABLES
    mode,     \* "live" on a terminal, "plain" elsewhere, "bare" with --no-progress, "json"
    groups,   \* p.groups: [scope, rows]; a row is [label, current, old, announced]
    screen,   \* the lines on the screen
    shown,    \* p.shown
    last,     \* p.last
    stopped,  \* p.stopped; the channel p.quit is closed with it
    mu,       \* the holder of p.mu
    clock,    \* where in terminalProgress.run
    main,     \* the command's goroutine: [pc, subject, stage, status]
    include,  \* --include-unchanged
    printed   \* history: every line that was meant to stay

vars == <<mode, groups, screen, shown, last, stopped, mu, clock, main, include, printed>>
display == <<groups, screen, shown, last, stopped, mu, printed>>

Init ==
    /\ mode \in {"live", "plain", "bare", "json"} /\ include \in BOOLEAN
    /\ groups = <<>> /\ screen = <<>> /\ shown = 0 /\ last = <<>> /\ stopped = FALSE
    /\ mu = "nobody" /\ clock = "none" /\ printed = <<>>
    /\ main = [pc |-> "open", subject |-> NoScope, stage |-> Listing, status |-> "unchanged"]

Live(scope, label, current) ==
    [live |-> TRUE, scope |-> scope, what |-> "row", label |-> label, current |-> current]

Heading(scope) == [live |-> TRUE, scope |-> scope, what |-> "heading", label |-> 0, current |-> 0]

Text(scope, what) ==
    [live |-> FALSE, scope |-> scope, what |-> what, label |-> 0, current |-> 0]

Keep(line) == screen' = Append(screen, line) /\ printed' = Append(printed, line)

(* erase: the cursor goes up over p.shown lines and the rest is cleared. *)
erase(n) == SubSeq(screen, 1, Len(screen) - n)

-----------------------------------------------------------------------------
(* The stages of the command, sent as log records to activityHandler *)

HasRegion == mode \in {"live", "plain"}

(* The group of a scope, which has at most one; 0 where there is none. *)
Index(scope) == SelectInSeq(groups, LAMBDA g : g.scope = scope)

Row(label) == [label |-> label, current |-> 0, old |-> FALSE, announced |-> FALSE]

(* The group with a row changed in place. *)
WithRow(g, r, row) == [groups[g] EXCEPT !.rows[r] = row]

(* Handle makes the region at the first stage; update opens a row in the   *)
(* group of its scope.                                                     *)
OpenStage ==
    /\ main.pc = "open" /\ mu = "nobody"
    /\ main' = [main EXCEPT !.pc = "busy"]
    /\ IF ~HasRegion THEN UNCHANGED <<groups, clock>>
       ELSE /\ clock' = IF clock = "none" THEN "wait" ELSE clock
            /\ LET i == Index(main.subject)
               IN  groups' = IF i # 0 THEN [groups EXCEPT ![i].rows = Append(@, Row(main.stage))]
                   ELSE Append(groups, [scope |-> main.subject, rows |-> <<Row(main.stage)>>])
    /\ UNCHANGED <<mode, screen, shown, last, stopped, mu, include, printed>>

(* A membership write is done. *)
Progress ==
    /\ main.pc = "busy" /\ main.stage = Applying /\ mu = "nobody"
    /\ main' = [main EXCEPT !.status = "applied"]
    /\ \/ ~HasRegion /\ UNCHANGED groups
       \/ \E g \in DOMAIN groups : \E r \in DOMAIN groups[g].rows :
             LET row == groups[g].rows[r] IN
             /\ row.label = Applying /\ row.current < MaxChanges
             /\ groups' = [groups EXCEPT ![g] = WithRow(g, r, [row EXCEPT !.current = @ + 1])]
    /\ UNCHANGED <<mode, screen, shown, last, stopped, mu, clock, include, printed>>

(* update: the last row of the label goes, and its group when it is empty. *)
Closed(scope, label) ==
    LET i == Index(scope)
        rows == groups[i].rows
        r == SelectLastInSeq(rows, LAMBDA row : row.label = label)
        left == IF r = 0 THEN rows ELSE RemoveAt(rows, r)
    IN  IF i = 0 THEN groups
        ELSE IF left = <<>> THEN RemoveAt(groups, i) ELSE [groups EXCEPT ![i].rows = left]

AfterStage(ok) ==
    IF main.stage = Listing
    THEN IF ok THEN [main EXCEPT !.pc = "open", !.subject = 1, !.stage = 1]
               ELSE [main EXCEPT !.pc = "stop"]
    ELSE IF ok /\ main.stage < 5 THEN [main EXCEPT !.pc = "open", !.stage = @ + 1]
    ELSE [main EXCEPT !.pc = "complete", !.status = IF ok THEN @ ELSE "failed"]

(* done(nil) before the next stage; done(err) is deferred, so that every   *)
(* early return closes the stage it happens in.                            *)
CloseStage ==
    /\ main.pc = "busy" /\ mu = "nobody"
    /\ \E ok \in BOOLEAN : main' = AfterStage(ok)
    /\ groups' = Closed(main.subject, main.stage)
    /\ UNCHANGED <<mode, screen, shown, last, stopped, mu, clock, include, printed>>

(* The context is done before the next subject. *)
Interrupted ==
    /\ main.pc = "open" /\ main.stage = 1
    /\ main' = [main EXCEPT !.pc = "stop"]
    /\ UNCHANGED <<mode, display, clock, include>>

-----------------------------------------------------------------------------
(* subjectDone *)

Included == include \/ main.status # "unchanged"

NextSubject ==
    IF main.subject = Subjects THEN [main EXCEPT !.pc = "stop"]
    ELSE [pc |-> "open", subject |-> main.subject + 1, stage |-> 1, status |-> "unchanged"]

(* A subject left out prints nothing. *)
Complete ==
    /\ main.pc = "complete" /\ mu = "nobody"
    /\ groups' = LET i == Index(main.subject) IN IF i = 0 THEN groups ELSE RemoveAt(groups, i)
    /\ main' = IF mode # "json" /\ Included THEN [main EXCEPT !.pc = "write"] ELSE NextSubject
    /\ UNCHANGED <<mode, screen, shown, last, stopped, mu, clock, include, printed>>

Clear_Unlocked ==
    /\ main.pc = "write"
    /\ screen' = erase(shown) /\ shown' = 0 /\ last' = <<>>
    /\ main' = [main EXCEPT !.pc = "writing"]
    /\ mu' = IF mu = "nobody" THEN "main" ELSE mu
    /\ UNCHANGED <<mode, groups, stopped, clock, include, printed>>

(* write: the live region is taken down ... *)
Clear ==
    /\ main.pc = "write" /\ mu = "nobody"
    /\ mu' = "main"
    /\ screen' = erase(shown) /\ shown' = 0 /\ last' = <<>>
    /\ main' = [main EXCEPT !.pc = "writing"]
    /\ UNCHANGED <<mode, groups, stopped, clock, include, printed>>

(* ... and the block goes to the stream around the report's writer; a      *)
(* stream that takes no more ends the command's work.                      *)
WriteBlock ==
    /\ main.pc = "writing"
    /\ mu' = "nobody"
    /\ \/ Keep(Text(main.subject, main.status)) /\ main' = NextSubject
       \/ main' = [main EXCEPT !.pc = "stop"] /\ UNCHANGED <<screen, printed>>
    /\ UNCHANGED <<mode, groups, shown, last, stopped, clock, include>>

-----------------------------------------------------------------------------
(* commandOutput.stop and the report *)

Stop_KeepsFrame ==
    /\ main.pc = "stop" /\ mu = "nobody"
    /\ stopped' = TRUE /\ groups' = <<>>
    /\ main' = [main EXCEPT !.pc = IF clock = "none" THEN "report" ELSE "join"]
    /\ UNCHANGED <<mode, screen, shown, last, mu, clock, include, printed>>

Stop_HoldsLock ==
    /\ main.pc = "stop" /\ mu = "nobody"
    /\ mu' = "main"
    /\ stopped' = TRUE /\ groups' = <<>>
    /\ screen' = erase(shown) /\ shown' = 0 /\ last' = <<>>
    /\ main' = [main EXCEPT !.pc = IF clock = "none" THEN "report" ELSE "join"]
    /\ UNCHANGED <<mode, clock, include, printed>>

(* stop: one critical section that ends the clock's work and takes the     *)
(* region down.                                                            *)
Stop ==
    /\ main.pc = "stop" /\ mu = "nobody"
    /\ stopped' = TRUE /\ groups' = <<>>
    /\ screen' = erase(shown) /\ shown' = 0 /\ last' = <<>>
    /\ main' = [main EXCEPT !.pc = IF clock = "none" THEN "report" ELSE "join"]
    /\ UNCHANGED <<mode, mu, clock, include, printed>>

(* <-p.exited *)
Join ==
    /\ main.pc = "join" /\ clock = "exited"
    /\ main' = [main EXCEPT !.pc = "report"]
    /\ UNCHANGED <<mode, display, clock, include>>

(* The reportWriter stops the region again, which is stopped already. *)
Report ==
    /\ main.pc = "report"
    /\ Keep(Text(NoScope, "report"))
    /\ main' = [main EXCEPT !.pc = "end"]
    /\ UNCHANGED <<mode, groups, shown, last, stopped, mu, clock, include>>

MainStep ==
    \/ OpenStage \/ Progress \/ CloseStage \/ Interrupted
    \/ Complete \/ Clear \/ WriteBlock
    \/ Stop \/ Join \/ Report

-----------------------------------------------------------------------------
(* terminalProgress.run *)

ClockOnly(next) ==
    /\ clock' = next
    /\ UNCHANGED <<mode, display, main, include>>

(* Time passes: a row is old enough to be shown, or announced. *)
Age ==
    /\ \E g \in DOMAIN groups : \E r \in DOMAIN groups[g].rows :
          LET row == groups[g].rows[r] IN
          /\ ~row.old
          /\ groups' = [groups EXCEPT ![g] = WithRow(g, r, [row EXCEPT !.old = TRUE])]
    /\ mu = "nobody"
    /\ UNCHANGED <<mode, screen, shown, last, stopped, mu, clock, main, include, printed>>

TickerFires == clock = "wait" /\ ClockOnly("tick")

ClockLock ==
    /\ clock = "tick" /\ mu = "nobody"
    /\ mu' = "clock" /\ clock' = "locked"
    /\ UNCHANGED <<mode, groups, screen, shown, last, stopped, main, include, printed>>

LatestRow(g) == Last(groups[g].rows)

(* view: the latest row of each group that is old enough, below the scope. *)
view ==
    FlattenSeq([g \in DOMAIN groups |->
        LET row == LatestRow(g)
            line == Live(groups[g].scope, row.label, row.current)
        IN  IF ~row.old THEN <<>>
            ELSE IF groups[g].scope = NoScope THEN <<line>>
            ELSE <<Heading(groups[g].scope), line>>])

(* draw, unless stopped: one write erases the old frame and paints the new. *)
Draw ==
    /\ clock = "locked" /\ mode = "live" /\ ~stopped
    /\ clock' = "drawn"
    /\ screen' = IF view = last THEN screen ELSE erase(shown) \o view
    /\ UNCHANGED <<mode, groups, shown, last, stopped, mu, main, include, printed>>

(* p.last and p.shown follow the frame, and the lock is given up. *)
Drawn ==
    /\ clock = "drawn"
    /\ shown' = Len(view) /\ last' = view
    /\ mu' = "nobody" /\ clock' = "wait"
    /\ UNCHANGED <<mode, groups, screen, stopped, main, include, printed>>

(* draw, not on a terminal: an old row is announced once, by a line that   *)
(* stays.  That it is announced again after half a minute is left out.     *)
Loud(g) == LatestRow(g).old /\ ~LatestRow(g).announced

announcements ==
    FlattenSeq([g \in DOMAIN groups |->
        IF Loud(g) THEN <<Text(groups[g].scope, "announcement")>> ELSE <<>>])

Announce ==
    /\ clock = "locked" /\ mode = "plain" /\ ~stopped
    /\ mu' = "nobody" /\ clock' = "wait"
    /\ screen' = screen \o announcements /\ printed' = printed \o announcements
    /\ groups' = [g \in DOMAIN groups |->
            IF Loud(g)
            THEN WithRow(g, Len(groups[g].rows), [LatestRow(g) EXCEPT !.announced = TRUE])
            ELSE groups[g]]
    /\ UNCHANGED <<mode, shown, last, stopped, main, include>>

SkipFrame ==
    /\ clock = "locked" /\ stopped
    /\ mu' = "nobody" /\ clock' = "wait"
    /\ UNCHANGED <<mode, groups, screen, shown, last, stopped, main, include, printed>>

(* <-p.quit; the select may take a tick that is ready as well first. *)
ClockExits == clock = "wait" /\ stopped /\ ClockOnly("exited")

ClockStep == ClockLock \/ Draw \/ Drawn \/ Announce \/ SkipFrame \/ ClockExits

Next == MainStep \/ Age \/ TickerFires \/ ClockStep

(* Both goroutines go on.  sync.Mutex hands a lock that is waited for over *)
(* at last, a select whose channels are both ready takes each of them at   *)
(* some time, and a stage comes to its end.                                *)
Spec ==
    /\ Init /\ [][Next]_vars
    /\ SF_vars(MainStep) /\ SF_vars(CloseStage)
    /\ WF_vars(ClockStep) /\ SF_vars(ClockExits)

-----------------------------------------------------------------------------
(* Properties *)

Lines == [live : BOOLEAN, scope : 0..Subjects, label : 0..5, current : 0..MaxChanges,
          what : {"row", "heading", "announcement", "report", "unchanged", "applied", "failed"}]

Rows == [label : 0..5, current : 0..MaxChanges, old : BOOLEAN, announced : BOOLEAN]

(* Every variable has its type. *)
TypeOK ==
    /\ mode \in {"live", "plain", "bare", "json"} /\ include \in BOOLEAN /\ stopped \in BOOLEAN
    /\ groups \in Seq([scope : 0..Subjects, rows : Seq(Rows)])
    /\ screen \in Seq(Lines) /\ last \in Seq(Lines) /\ printed \in Seq(Lines)
    /\ shown \in Nat /\ mu \in {"nobody", "main", "clock"}
    /\ clock \in {"none", "wait", "tick", "locked", "drawn", "exited"}
    /\ main \in [pc : {"open", "busy", "complete", "write", "writing", "stop", "join", "report", "end"},
                 subject : 0..Subjects, stage : 0..5, status : {"unchanged", "applied", "failed"}]

(* Text that was printed to stay is never erased or covered, in whatever   *)
(* order blocks, frames and announcements come: the live region is below   *)
(* it, and p.shown is its height whenever the lock is free.                *)
PrintedTextStays ==
    /\ IsPrefix(printed, screen)
    /\ \A i \in DOMAIN screen : screen[i].live <=> i > Len(printed)
    /\ mu = "nobody" => shown = Len(screen) - Len(printed)

(* The clock never brings a frame back.  Once the report has begun no      *)
(* frame is on the screen, and a tick taken before the stop finds the      *)
(* region stopped; and the block of a finished subject stands alone: its   *)
(* stages were closed on every way out of it, and no live line of it is    *)
(* painted after its block, or stays beside it.                            *)
NoStaleFrame ==
    /\ main.pc \in {"complete", "stop"} => groups = <<>>
    /\ main.pc \in {"join", "report", "end"} => \A i \in DOMAIN screen : ~screen[i].live
    /\ \A i \in DOMAIN screen : screen[i].live /\ screen[i].scope # NoScope =>
          \A j \in DOMAIN printed :
              printed[j].scope = screen[i].scope => printed[j].what = "announcement"

(* The command comes to its end: stop waits for the clock, which may be    *)
(* waiting for the lock.                                                   *)
CommandEnds == <>[](main.pc = "end" /\ clock \in {"none", "exited"})

(* diagnostics.go: on a terminal a subject the report leaves out still     *)
(* leaves its outcome line in place of its live activity.                  *)
EverySubjectLeavesALine ==
    mode = "live" /\ main.pc \in {"open", "busy"} =>
        \A s \in 1..(main.subject - 1) : \E i \in DOMAIN printed : printed[i].scope = s
=============================================================================
