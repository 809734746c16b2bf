----------------------------- MODULE Sequential -----------------------------
(***************************************************************************)
(* The parts of the program that compute without a partner: each is run on *)
(* its own over all its inputs, chosen with `part' in the initial state;   *)
(* the variables of the others are unused then.  Module Load, which        *)
(* descends into trees of any depth, joins them in MCSequential.           *)
(***************************************************************************)
EXTENDS Integers, Sequences, FiniteSets, TLC

CONSTANTS
    TrimSpace,
    Horizon, MaxIntents,  \* phases
    PlanAliases, PlanIDs, MaxListed,  \* plans
    MaxDuration, MaxFailures,  \* backoff
    LookupAliases, LookupIDs, MaxIDs, Limit, MaxChanges,  \* resolve
    Widths, Heights, Labels, Details, Counts, Times, MaxGroups,  \* layout
    Subjects, Keys, Cfg, Events, Source,  \* preview
    Scope, Plans,  \* report
    Inputs, Number, Padded, Lowered, Placeholder, Partial  \* load

VARIABLES
    part,  \* which of the parts is run
    member, cfg, pc,  \* of several parts
    known, planned, now,  \* phases
    adds, removes,  \* plans
    initial, maximum, failures,  \* backoff
    groupAliases, start, memberships, user, changes, answer,  \* resolve
    in, row, frame,  \* layout
    intents, state, subjectLock, identityLock, event, listed, plan, page,  \* preview
    mode, todo, result, results, failed, cancelled, broken, shown, report, exit, sent,  \* report
    files, env, merged, doc, stage  \* load

phasesVars == <<known, planned, now>>
plansVars == <<adds, removes>>
backoffVars == <<initial, maximum, failures>>
resolveVars == <<groupAliases, start, memberships, user, changes, answer>>
layoutVars == <<in, row, frame>>
previewVars == <<intents, state, subjectLock, identityLock, event, listed, plan, page>>
reportVars == <<mode, todo, result, results, failed, cancelled, broken, shown, report, exit, sent>>
loadVars == <<files, env, merged, doc, stage>>

vars == <<part, member, cfg, pc, phasesVars, plansVars, backoffVars, resolveVars, layoutVars,
          previewVars, reportVars, loadVars>>

None == "unused"

NoPhases == known = None /\ planned = None /\ now = None
NoPlanning == adds = None /\ removes = None
NoRetries == initial = None /\ maximum = None /\ failures = None
NoLookup == groupAliases = None /\ start = None /\ memberships = None /\ user = None
             /\ changes = None /\ answer = None
NoScreen == in = None /\ row = None /\ frame = None
NoPreviews == intents = None /\ state = None /\ subjectLock = None
             /\ identityLock = None /\ event = None /\ listed = None /\ plan = None /\ page = None
NoReports == mode = None /\ todo = None /\ result = None /\ results = None /\ failed = None
             /\ cancelled = None /\ broken = None /\ shown = None /\ report = None
             /\ exit = None /\ sent = None
NoLoading == files = None /\ env = None /\ merged = None /\ doc = None /\ stage = None

-----------------------------------------------------------------------------
(* The instances *)

Phases == INSTANCE PhaseCheck
Planning == INSTANCE PlanCheck WITH Aliases <- PlanAliases, IDs <- PlanIDs
Retries == INSTANCE Backoff
Lookup == INSTANCE ResolveCheck WITH Aliases <- LookupAliases, IDs <- LookupIDs
Screen == INSTANCE Layout
Previews == INSTANCE Preview
Reports == INSTANCE Report
Loading == INSTANCE Load

(* Aliases, group IDs and subjects are texts, written as numbers; a        *)
(* configuration has finitely many aliases; an event has a key of the      *)
(* table; ListSubjects returns each subject once (UNION); a plan names     *)
(* each alias once; the files of a configuration are a sequence; and 0 is  *)
(* a number.                                                               *)
ASSUME SequentialAssumption ==
    /\ PlanAliases \subseteq Nat
    /\ MaxDuration \in Nat
    /\ IsFiniteSet(LookupAliases) /\ LookupIDs \subseteq Nat
    /\ MaxIDs \in Nat /\ Limit \in Nat \ {0}
    /\ Widths \cup Heights \cup Labels \cup Details \cup Counts \cup Times \subseteq Nat
    /\ MaxGroups \in Nat
    /\ \A i \in Events : Previews!Key(i) \in Keys
    /\ Scope \in Seq(Nat) /\ \A i, j \in DOMAIN Scope : Scope[i] = Scope[j] => i = j
    /\ Plans \subseteq [add : Seq(Nat), remove : Seq(Nat)]
    /\ \A p \in Plans :
          /\ \A i, j \in DOMAIN p.add : p.add[i] = p.add[j] => i = j
          /\ \A i, j \in DOMAIN p.remove : p.remove[i] = p.remove[j] => i = j
    /\ \A i \in DOMAIN Inputs : \A given \in Inputs[i] :
          given.files \in Seq(Loading!Range(given.files))
    /\ "0" \in DOMAIN Number /\ Number["0"] = 0

-----------------------------------------------------------------------------

Init ==
    \/ /\ part = "phases" /\ Phases!Init /\ member = None /\ cfg = None /\ pc = None
       /\ NoPlanning /\ NoRetries /\ NoLookup /\ NoScreen /\ NoPreviews /\ NoReports /\ NoLoading
    \/ /\ part = "plans" /\ Planning!Init
       /\ NoPhases /\ NoRetries /\ NoLookup /\ NoScreen /\ NoPreviews /\ NoReports /\ NoLoading
    \/ /\ part = "backoff" /\ Retries!Init /\ member = None /\ cfg = None /\ pc = None
       /\ NoPhases /\ NoPlanning /\ NoLookup /\ NoScreen /\ NoPreviews /\ NoReports /\ NoLoading
    \/ /\ part = "resolve" /\ Lookup!Init /\ cfg = None
       /\ NoPhases /\ NoPlanning /\ NoRetries /\ NoScreen /\ NoPreviews /\ NoReports /\ NoLoading
    \/ /\ part = "layout" /\ Screen!Init /\ member = None /\ cfg = None /\ pc = None
       /\ NoPhases /\ NoPlanning /\ NoRetries /\ NoLookup /\ NoPreviews /\ NoReports /\ NoLoading
    \/ /\ part = "preview" /\ Previews!Init /\ cfg = None
       /\ NoPhases /\ NoPlanning /\ NoRetries /\ NoLookup /\ NoScreen /\ NoReports /\ NoLoading
    \/ /\ part = "report" /\ Reports!Init /\ member = None /\ cfg = None
       /\ NoPhases /\ NoPlanning /\ NoRetries /\ NoLookup /\ NoScreen /\ NoPreviews /\ NoLoading
    \/ /\ part = "load" /\ Loading!Init /\ member = None /\ pc = None
       /\ NoPhases /\ NoPlanning /\ NoRetries /\ NoLookup /\ NoScreen /\ NoPreviews /\ NoReports

Next ==
    \/ /\ part = "phases" /\ Phases!Tick
       /\ UNCHANGED <<part, member, cfg, pc, plansVars, backoffVars, resolveVars,
                      layoutVars, previewVars, reportVars, loadVars>>
    \/ /\ part = "plans" /\ Planning!Next
       /\ UNCHANGED <<part, phasesVars, backoffVars, resolveVars, layoutVars, previewVars,
                      reportVars, loadVars>>
    \/ /\ part = "backoff" /\ Retries!Fail
       /\ UNCHANGED <<part, member, cfg, pc, phasesVars, plansVars, resolveVars,
                      layoutVars, previewVars, reportVars, loadVars>>
    \/ /\ part = "resolve" /\ Lookup!Next
       /\ UNCHANGED <<part, cfg, phasesVars, plansVars, backoffVars, layoutVars,
                      previewVars, reportVars, loadVars>>
    \/ /\ part = "layout" /\ Screen!Next
       /\ UNCHANGED <<part, member, cfg, pc, phasesVars, plansVars, backoffVars,
                      resolveVars, previewVars, reportVars, loadVars>>
    \/ /\ part = "preview" /\ Previews!Next
       /\ UNCHANGED <<part, cfg, phasesVars, plansVars, backoffVars, resolveVars,
                      layoutVars, reportVars, loadVars>>
    \/ /\ part = "report" /\ Reports!Next
       /\ UNCHANGED <<part, member, cfg, phasesVars, plansVars, backoffVars, resolveVars,
                      layoutVars, previewVars, loadVars>>
    \/ /\ part = "load" /\ Loading!Next
       /\ UNCHANGED <<part, member, pc, phasesVars, plansVars, backoffVars, resolveVars,
                      layoutVars, previewVars, reportVars>>

Spec == Init /\ [][Next]_vars

-----------------------------------------------------------------------------
(* Properties, stated and explained in the modules of the parts *)

(* Before the boundary the plan stored, no intent changes its phase, so    *)
(* the memberships that were right stay right; at the boundary one does,   *)
(* so reconciliation never comes back for nothing; and without a boundary  *)
(* no phase ever changes again.                                            *)
BoundaryIsExact == part = "phases" => Phases!BoundaryIsExact

(* A subject is active exactly while one of its windows is open and not    *)
(* cancelled, pending while none is open but one is still to come, and     *)
(* settled afterwards, even if no intent ever became active.               *)
StateFollowsWindows == part = "phases" => Phases!StateFollowsWindows

(* A plan carried out to its end leaves every asserted alias as asserted,  *)
(* with the additions first and however aliases overlap, and planning      *)
(* again finds nothing to do.  On the way Graph refuses no write for what  *)
(* an earlier write of the same plan did: every group still to be added is *)
(* not yet there, every group still to be removed is.                      *)
AppliedPlanSatisfies == part = "plans" => Planning!AppliedPlanSatisfies

(* The delay doubles with every failure until it meets the cap and stays   *)
(* there: no configuration and no number of failures makes the doubling    *)
(* overflow into a short, negative or excessive delay.                     *)
DelayIsCappedDoubling == part = "backoff" => Retries!DelayIsCappedDoubling

(* A resolved user has an alias exactly when Graph confirmed one of its    *)
(* IDs, and every configured ID was asked for once: no batch boundary      *)
(* drops an ID or asks for it twice, however many there are.               *)
ResolvedIsConfirmed == part = "resolve" => Lookup!ResolvedIsConfirmed

(* A frame takes the lines it counts and stays below the height of the     *)
(* screen.  For that no row reaches the last column of a terminal at least *)
(* as wide as its indentation and mark; what a row gives up for it, it     *)
(* gives up in the order the code states: the bar, then the detail's end,  *)
(* then the counts and the time, the label last, and a row that fits loses *)
(* nothing.  An operation that is not in the frame is among those          *)
(* announced, wherever there is room for three lines.                      *)
FrameFits == part = "layout" => Screen!FrameFits

(* What was previewed is what delivering the event makes the service do:   *)
(* also when it replaces a stored intent, takes one over from another      *)
(* subject, or has the ID of an intent of another source.  And the page    *)
(* explains it truly: its lines and the number of changes agree; every     *)
(* configured membership the user has is kept, preserved or removed, one   *)
(* of the three; and the reason given for no change holds: where it is     *)
(* that no rule applies, no intent would change that.                      *)
PreviewIsWhatHappens == part = "preview" => Previews!PreviewIsWhatHappens

(* A block accounts for every planned write exactly once, truly: as done   *)
(* when its request was answered well, as failed when it was not, as not   *)
(* attempted when no request went out (README.md: "failed and unattempted  *)
(* writes").  The totals are those of the whole run, also of subjects the  *)
(* human report leaves out: they add up, count every answered write, and   *)
(* the number of subjects said to be shown is the number of blocks.        *)
WritesAccounted == part = "report" => Reports!WritesAccounted

(* A command that exits with 0 has reconciled every subject in its scope   *)
(* to the end, without an error, and said so; a report that leaves out     *)
(* some of the scope shows an error or a failed subject.                   *)
SuccessIsComplete == part = "report" => Reports!SuccessIsComplete

(* A setting is the environment's, else that of the last file that says    *)
(* anything of it, else the default: with mappings merged key by key, and  *)
(* lists replaced as a whole (README.md, Load).  Exactly what has the last *)
(* word needs its variable: a placeholder that a later file replaces may   *)
(* name a variable that is not set.                                        *)
EffectiveValues == part = "load" => Loading!EffectiveValues

(* Whatever each value comes from, the process runs with bounds that fit   *)
(* each other: the pool opens, the loop polls and backs off, and no two    *)
(* webhooks are served at one path.                                        *)
UsableConfig == part = "load" => Loading!UsableConfig
=============================================================================
