------------------------------ MODULE PlanRun ------------------------------
(***************************************************************************)
(* Compound requests: run_plan of core/agent/pipeline/plan.py, with the    *)
(* verification of each step and its bounded retries by verify of          *)
(* core/agent/pipeline/verify.py.                                          *)
(*                                                                         *)
(* A request is split into clauses; a planner makes one step of each, a    *)
(* call or nothing. The operator accepts the plan as a whole, then each    *)
(* step is gated, run, recorded and verified on its own. A step that needs *)
(* attention makes the planner plan the remaining clauses again, a bounded *)
(* number of times.                                                        *)
(*                                                                         *)
(* An exception that leaves run_plan, and the death of the process, end    *)
(* the behaviour in phase "raised".                                        *)
(***************************************************************************)
EXTENDS Permissions, Descent, Sequences, FiniteSets

CONSTANTS
    Calls,       \* the calls the planner can produce
    Unresolved,  \* a clause that is not one operation
    Clauses,     \* clauses of the request
    MaxReplans,  \* max_replans of run_plan
    RetryMax     \* retry_max of verify, or ERDTREE_RETRY_MAX

(* What the classifier finds in the command line of a call, what the       *)
(* registry declares for it, which row of the retry table its tool is in,  *)
(* and the gate of the read that would verify it.                          *)
Tool == {"idempotent", "network", "other"}
Check == {"none", "allowed", "refused"}
PlanCall == [fragments : Fragments, declared : OpClass,
             tool : Tool, check : Check]

ASSUME CallsAssumption == Calls \subseteq PlanCall
ASSUME UnresolvedAssumption == Unresolved \notin PlanCall
ASSUME ClausesAssumption == Clauses \in Nat \ {0}
ASSUME LimitsAssumption == MaxReplans \in Nat /\ RetryMax \in Nat

VARIABLES
    interactive,  \* a person is present
    phase,        \* where run_plan or verify is
    steps,        \* the plan, one step per clause
    pos,          \* the step in progress
    replans,      \* re-plans so far
    halted,       \* the run was halted with steps left
    consent,      \* what the operator did for the step in progress
    attempts,     \* retries of the step in progress
    ran,          \* every operation executed, in order
    audit,        \* the audit log
    records,      \* records of the step in progress, not yet in counted
    counted,      \* audit_records of the PlanRun
    reports,      \* the step reports
    cache         \* the cached snapshot, relative to the changes made

planVars == <<interactive, steps, pos, replans, halted, reports>>
stepVars == <<consent, attempts>>
logVars  == <<audit, records, counted>>
vars == <<phase, planVars, stepVars, logVars, ran, cache>>

Phases == {"proceed", "step", "confirm", "refuse", "dispatch", "record",
           "verify", "retry", "replan", "done", "raised"}

(* made: how many re-plans preceded the making of the step.                *)
Step == [call : Calls \union {Unresolved}, made : 0..MaxReplans]

(* ok: the step reported success, or the read found the intended state.    *)
Executed == [pos : 1..Clauses, made : 0..MaxReplans,
             kind : {"step", "read", "retry"}, call : Calls,
             consent : Consent, ok : BOOLEAN, changed : BOOLEAN]

AuditRecord == [kind : {"ran", "refused", "unresolved", "unread"}, op : Nat]

Report == [pos : 1..Clauses, made : 0..MaxReplans, invalidated : BOOLEAN]

TypeOK ==
    /\ interactive \in BOOLEAN
    /\ phase \in Phases
    /\ steps \in [1..Clauses -> Step]
    /\ pos \in 1..Clauses
    /\ replans \in 0..MaxReplans
    /\ halted \in BOOLEAN
    /\ consent \in Consent
    /\ attempts \in 0..RetryMax
    /\ ran \in Seq(Executed)
    /\ audit \in Seq(AuditRecord)
    /\ records \in Nat /\ counted \in Nat
    /\ reports \in Seq(Report)
    /\ cache \in {"fresh", "stale", "cold"}

-----------------------------------------------------------------------------
(* The operators named ...Slip are variants of the definition that follows *)
(* them, each with a plausible slip; the properties notice every one.      *)

Current == steps[pos].call
ClassOf(call) == WorstFragment(call.fragments)

(* perm.classify alone: what the registry declares is not consulted.       *)
GateOf(call) == classify(call, interactive).gate

(* retry_policy_for: a destructive operation is never repeated, whatever   *)
(* its tool.                                                               *)
PolicyForSlip(call) ==
    CASE call.tool = "idempotent" -> "idempotent"
      [] call.tool = "network"    -> "partial"
      [] call.tool = "other"      -> "never"
PolicyFor(call) ==
    CASE ClassOf(call) = "destructive" -> "never"
      [] ClassOf(call) # "destructive" /\ call.tool = "network" -> "partial"
      [] ClassOf(call) # "destructive" /\ call.tool = "idempotent" -> "idempotent"
      [] OTHER -> "never"

MayRetry(call) == PolicyFor(call) = "idempotent" /\ attempts < RetryMax

MayReplan == replans < MaxReplans

(* A change that succeeded invalidates the cached snapshot.                *)
CacheAfterSlip(class, ok) == cache
CacheAfter(class, ok) == IF class # "read" /\ ok THEN "cold" ELSE cache

(* One audit.write. Who calls it counts it afterwards: verify and          *)
(* _execute_step in records, run_plan in counted at the end of the step.   *)
Write(kind, op) == audit' = Append(audit, [kind |-> kind, op |-> op])

Execute(kind, ok, changed) ==
    ran' = Append(ran, [pos |-> pos, made |-> steps[pos].made, kind |-> kind,
                        call |-> Current, consent |-> consent,
                        ok |-> ok, changed |-> changed])

(* A step is over, with so many records written. If it invalidates what is *)
(* left of the plan, that is planned again within the budget; with the     *)
(* budget spent, the run halts.                                            *)
AdvanceSlip(invalidated, written) ==
    /\ reports' = Append(reports, [pos |-> pos, made |-> steps[pos].made,
                                   invalidated |-> invalidated])
    /\ counted' = counted + written /\ records' = 0
    /\ consent' = "none" /\ attempts' = 0
    /\ \/ /\ invalidated /\ pos < Clauses /\ MayReplan
          /\ phase' = "replan"
          /\ UNCHANGED <<pos, halted>>
       \/ /\ ~(invalidated /\ MayReplan) /\ pos < Clauses
          /\ phase' = "step"
          /\ pos' = pos + 1
          /\ UNCHANGED halted
       \/ /\ pos = Clauses
          /\ phase' = "done"
          /\ UNCHANGED <<pos, halted>>
    /\ UNCHANGED <<interactive, steps, replans>>

Advance(invalidated, written) ==
    /\ reports' = Append(reports, [pos |-> pos, made |-> steps[pos].made,
                                   invalidated |-> invalidated])
    /\ counted' = counted + written /\ records' = 0
    /\ consent' = "none" /\ attempts' = 0
    /\ \/ /\ invalidated /\ pos < Clauses /\ MayReplan
          /\ phase' = "replan"
          /\ UNCHANGED <<pos, halted>>
       \/ /\ invalidated /\ pos < Clauses /\ ~MayReplan
          /\ phase' = "done"
          /\ halted' = TRUE
          /\ UNCHANGED pos
       \/ /\ ~invalidated /\ pos < Clauses
          /\ phase' = "step"
          /\ pos' = pos + 1
          /\ UNCHANGED halted
       \/ /\ pos = Clauses
          /\ phase' = "done"
          /\ UNCHANGED <<pos, halted>>
    /\ UNCHANGED <<interactive, steps, replans>>

-----------------------------------------------------------------------------

(* The first plan is made before the operator sees anything of it.         *)
Init ==
    /\ interactive \in BOOLEAN
    /\ phase = "proceed"
    /\ steps \in [1..Clauses -> [call : Calls \union {Unresolved}, made : {0}]]
    /\ pos = 1 /\ replans = 0 /\ halted = FALSE
    /\ consent = "none" /\ attempts = 0
    /\ ran = <<>> /\ audit = <<>> /\ reports = <<>>
    /\ records = 0 /\ counted = 0
    /\ cache \in {"fresh", "cold"}

(* The operator is shown the whole plan and accepts it or does not.        *)
Proceed(accepted) ==
    /\ phase = "proceed"
    /\ phase' = IF accepted THEN "step" ELSE "done"
    /\ UNCHANGED <<planVars, stepVars, logVars, ran, cache>>

(* _execute_step of a clause without a call: recorded, nothing runs, and   *)
(* what follows can no longer rely on it.                                  *)
RecordUnresolved ==
    /\ phase = "step"
    /\ Current = Unresolved
    /\ Write("unresolved", 0)
    /\ Advance(TRUE, 1)
    /\ UNCHANGED <<ran, cache>>

ResolveGate ==
    /\ phase = "step"
    /\ Current # Unresolved
    /\ phase' = CASE GateOf(Current) = "allow"  -> "dispatch"
                  [] GateOf(Current) = "refuse" -> "refuse"
                  [] GateOf(Current) \in {"confirm", "confirm_typed"} -> "confirm"
    /\ UNCHANGED <<planVars, stepVars, logVars, ran, cache>>

OperatorAnswers(answer) ==
    /\ phase = "confirm"
    /\ IF Clears(GateOf(Current), answer)
       THEN phase' = "dispatch" /\ consent' = answer
       ELSE phase' = "refuse" /\ UNCHANGED consent
    /\ UNCHANGED <<planVars, attempts, logVars, ran, cache>>

(* A declined step does not invalidate the others.                         *)
RecordRefusal ==
    /\ phase = "refuse"
    /\ Write("refused", 0)
    /\ Advance(FALSE, 1)
    /\ UNCHANGED <<ran, cache>>

(* The operation runs; it can fail after it changed the machine. What the  *)
(* classifier takes for a read changes it only if the registry knows the   *)
(* call for a change.                                                      *)
Dispatch(ok, changed) ==
    /\ phase = "dispatch"
    /\ changed => StrictestClass(Current) # "read"
    /\ Execute("step", ok, changed)
    /\ cache' = IF changed /\ cache = "fresh" THEN "stale" ELSE cache
    /\ phase' = "record"
    /\ UNCHANGED <<planVars, stepVars, logVars>>

(* The record, the invalidation after a change that succeeded, and then    *)
(* verify: a read needs none, and without a read to verify it with only a  *)
(* destructive step needs attention.                                       *)
RecordStep ==
    /\ phase = "record"
    /\ ran[Len(ran)].kind = "step"
    /\ Write("ran", Len(ran))
    /\ cache' = CacheAfter(ClassOf(Current), ran[Len(ran)].ok)
    /\ \/ /\ ClassOf(Current) = "read" \/ Current.check = "none"
          /\ Advance(ClassOf(Current) = "destructive", 1)
       \/ /\ ClassOf(Current) # "read" /\ Current.check # "none"
          /\ phase' = "verify"
          /\ records' = 1
          /\ UNCHANGED <<planVars, stepVars, counted>>
    /\ UNCHANGED ran

(* What a verification that did not confirm the change leads to.           *)
MismatchSlip(written) ==
    \/ /\ MayRetry(Current)
       /\ phase' = "retry"
       /\ records' = written
       /\ UNCHANGED <<planVars, stepVars, counted>>
    \/ /\ PolicyFor(Current) # "idempotent"
       /\ Advance(TRUE, written)

Mismatch(written) ==
    \/ /\ MayRetry(Current)
       /\ phase' = "retry"
       /\ records' = written
       /\ UNCHANGED <<planVars, stepVars, counted>>
    \/ /\ ~MayRetry(Current)
       /\ Advance(TRUE, written)

(* _run_read: the verifying read runs only if its own gate allows it.      *)
RefuseRead ==
    /\ phase = "verify"
    /\ Current.check = "refused"
    /\ Write("unread", 0)
    /\ Mismatch(records + 1)
    /\ UNCHANGED <<ran, cache>>

RunRead(match) ==
    /\ phase = "verify"
    /\ Current.check = "allowed"
    /\ Execute("read", match, FALSE)
    /\ phase' = "record"
    /\ UNCHANGED <<planVars, stepVars, logVars, cache>>

RecordRead ==
    /\ phase = "record"
    /\ ran[Len(ran)].kind = "read"
    /\ Write("ran", Len(ran))
    /\ IF ran[Len(ran)].ok THEN Advance(FALSE, records + 1) ELSE Mismatch(records + 1)
    /\ UNCHANGED <<ran, cache>>

(* The cache is invalidated, then the write runs again without a prompt.   *)
(* The classification of the same arguments is repeated; as its result is  *)
(* the same, the refusal of a destructive retry has no action here. What   *)
(* the retry returns is not looked at.                                     *)
Retry(changed) ==
    /\ phase = "retry"
    /\ Execute("retry", TRUE, changed)
    /\ attempts' = attempts + 1
    /\ cache' = "cold"
    /\ phase' = "record"
    /\ UNCHANGED <<planVars, consent, logVars>>

RecordRetrySlip ==
    /\ phase = "record"
    /\ ran[Len(ran)].kind = "retry"
    /\ Write("ran", Len(ran))
    /\ phase' = "verify"
    /\ UNCHANGED <<planVars, stepVars, records, counted, ran, cache>>

RecordRetry ==
    /\ phase = "record"
    /\ ran[Len(ran)].kind = "retry"
    /\ Write("ran", Len(ran))
    /\ records' = records + 1
    /\ phase' = "verify"
    /\ UNCHANGED <<planVars, stepVars, counted, ran, cache>>

(* The planner makes the remaining steps anew, from the snapshot that      *)
(* run_plan was called with.                                               *)
ReplanSlip(calls) ==
    /\ phase = "replan"
    /\ replans' = replans + 1
    /\ steps' = [p \in 1..Clauses |->
                   IF p < pos \/ p = Clauses THEN steps[p]
                   ELSE [call |-> calls[p + 1], made |-> replans']]
    /\ pos' = pos + 1
    /\ phase' = "step"
    /\ UNCHANGED <<interactive, halted, reports, stepVars, logVars,
                   ran, cache>>

Replan(calls) ==
    /\ phase = "replan"
    /\ replans' = replans + 1
    /\ steps' = [p \in 1..Clauses |->
                   IF p <= pos THEN steps[p]
                   ELSE [call |-> calls[p], made |-> replans']]
    /\ pos' = pos + 1
    /\ phase' = "step"
    /\ UNCHANGED <<interactive, halted, reports, stepVars, logVars,
                   ran, cache>>

(* The record that the next step writes, if it writes one.                 *)
Owed ==
    {record \in [kind : {"ran", "refused", "unresolved", "unread"},
                 op : {0, Len(ran)}] :
        \/ phase = "record" /\ record = [kind |-> "ran", op |-> Len(ran)]
        \/ phase = "refuse" /\ record = [kind |-> "refused", op |-> 0]
        \/ /\ phase = "step" /\ Current = Unresolved
           /\ record = [kind |-> "unresolved", op |-> 0]
        \/ /\ phase = "verify" /\ Current.check = "refused"
           /\ record = [kind |-> "unread", op |-> 0]}

(* An audit.write that raises, with or without its record in the log, a    *)
(* planner or a prompt that raises, or the death of the process. A record  *)
(* in the log is then one that nothing has counted.                        *)
Raise ==
    /\ phase \notin {"done", "raised"}
    /\ phase' = "raised"
    /\ audit' = audit \/ \E record \in Owed : audit' = Append(audit, record)
    /\ UNCHANGED <<planVars, stepVars, records, counted, ran, cache>>

(* run_plan has returned.                                                  *)
Over == phase \in {"done", "raised"} /\ UNCHANGED vars

OwnStep ==
    \/ RecordUnresolved
    \/ ResolveGate
    \/ RecordRefusal
    \/ \E ok, changed \in BOOLEAN : Dispatch(ok, changed)
    \/ RecordStep
    \/ RefuseRead
    \/ \E match \in BOOLEAN : RunRead(match)
    \/ RecordRead
    \/ \E changed \in BOOLEAN : Retry(changed)
    \/ RecordRetry

Environment ==
    \/ \E accepted \in BOOLEAN : Proceed(accepted)
    \/ \E answer \in Answer : OperatorAnswers(answer)
    \/ \E calls \in [pos + 1..Clauses -> Calls \union {Unresolved}] : Replan(calls)
    \/ Raise
    \/ Over

Next == OwnStep \/ Environment

Spec == Init /\ [][Next]_vars

(* Nothing is assumed of the operator, of the planner's model or of faults. *)
FairSpec == Spec /\ WF_vars(OwnStep)

-----------------------------------------------------------------------------
(* Properties.                                                             *)

RanRecords == {n \in DOMAIN audit : audit[n].kind = "ran"}
Recorded == {audit[n].op : n \in RanRecords}

(* Every operation of a run, a retry included, was allowed by what the     *)
(* classifier makes of it: a read, or a change a present person consented  *)
(* to in this run. A verifying read needs nobody.                          *)
ClearedByClassifier ==
    \A n \in DOMAIN ran :
        ran[n].kind # "read" =>
            /\ Sufficient(ran[n].consent, ClassOf(ran[n].call))
            /\ ran[n].consent # "none" => interactive

(* No clause is carried out twice, whatever is planned again; only a       *)
(* change that is safe to repeat is repeated, RetryMax times at most, and  *)
(* never once a read of it found the change in place.                      *)
(* ("NEVER auto-retries a destructive op".)                                *)
RepeatsAreSafe ==
    \A m, n \in DOMAIN ran :
        /\ ran[m].kind = "step" /\ ran[n].kind = "step" /\ m < n =>
               ran[m].pos < ran[n].pos
        /\ ran[n].kind = "retry" =>
               /\ ClassOf(ran[n].call) = "write"
               /\ ran[n].call.tool = "idempotent"
               /\ Cardinality({k \in DOMAIN ran :
                     ran[k].kind = "retry" /\ ran[k].pos = ran[n].pos}) <= RetryMax
               /\ m < n /\ ran[m].kind = "read" /\ ran[m].ok =>
                     ran[m].pos # ran[n].pos

(* After a step that needs attention only steps run that were planned      *)
(* after it. ("There is NO silent auto-continue".)                         *)
OnlyTrustedSteps ==
    \A r \in DOMAIN reports, n \in DOMAIN ran :
        reports[r].invalidated /\ reports[r].pos < ran[n].pos =>
            reports[r].made < ran[n].made

(* What ran is what the plan says ran: planning again never rewrites the   *)
(* part already carried out. ("the already-run prefix is never touched".)  *)
HistoryIsThePlan ==
    \A n \in DOMAIN ran :
        steps[ran[n].pos] = [call |-> ran[n].call, made |-> ran[n].made]

(* Each operation has its own record, in the order of execution, before    *)
(* the next one runs. The counts agree with the log, and that of a         *)
(* finished run is complete; only the write that raised may be uncounted.  *)
RecordsFollowRuns ==
    /\ \A m, n \in RanRecords : m < n => audit[m].op < audit[n].op
    /\ DOMAIN ran \ Recorded \subseteq
         IF phase \in {"record", "raised"} THEN {Len(ran)} ELSE {}
    /\ Len(audit) \in counted + records..
                        (counted + records + IF phase = "raised" THEN 1 ELSE 0)
    /\ phase = "done" => records = 0

(* What drops the cached snapshot: a retry, and a step that succeeded and  *)
(* is no read to the classifier, once it is recorded.                      *)
Invalidates(n) ==
    \/ ran[n].kind = "retry"
    \/ /\ ran[n].kind = "step" /\ ran[n].ok /\ ClassOf(ran[n].call) # "read"
       /\ ~(n = Len(ran) /\ phase \in {"record", "raised"})

(* If the cached snapshot lags behind the machine, it does for a step of    *)
(* the plan that changed it and did not itself drop the snapshot (it       *)
(* failed, its record is not written, or the classifier took it for a      *)
(* read), and nothing that ran since dropped it either. (I5.)              *)
StaleHasCause ==
    cache = "stale" =>
        \E n \in DOMAIN ran :
            /\ ran[n].kind = "step" /\ ran[n].changed
            /\ \A m \in n..Len(ran) : ~Invalidates(m)

(* A run ends unless the operator or the planner's model holds it up.      *)
PlanEnds ==
    \/ <>(phase \in {"done", "raised"})
    \/ <>[](phase \in {"proceed", "confirm", "replan"})

(* What bounds a run, whatever the planner, the operator and the reads say: *)
(* a step of the plan is left behind for good, a retry costs one of        *)
(* RetryMax, and in between the step moves on. Planning again does not     *)
(* make the plan longer. Every step of the run uses some of it up.         *)
StepsLeft ==
    CASE phase = "proceed" -> 9
      [] phase = "step" -> 8
      [] phase = "confirm" -> 7
      [] phase \in {"refuse", "dispatch"} -> 6
      [] phase = "record" -> IF ran[Len(ran)].kind = "read" THEN 3 ELSE 5
      [] phase = "verify" -> 4
      [] phase = "retry" -> 2
      [] phase = "replan" -> 1
      [] OTHER -> 0

PlanVariant ==
    <<Clauses - pos,
      IF phase \in {"replan", "done", "raised"} THEN 0 ELSE RetryMax - attempts,
      StepsLeft>>

PlanDescends == [][Below(PlanVariant', PlanVariant)]_vars

(* What the invariants above rest on, from step to step: what the phase    *)
(* says of the step in progress, the consent it has, and that a step that  *)
(* may still run is newer than every report that invalidated it.           *)
StepInProgress ==
    /\ phase \in {"confirm", "refuse", "dispatch", "record", "verify", "retry"} =>
           Current # Unresolved
    /\ phase = "retry" => MayRetry(Current)
    /\ phase = "replan" => pos < Clauses /\ MayReplan

StepIsCleared ==
    /\ phase \in {"proceed", "step", "replan"} => consent = "none"
    /\ phase \in {"dispatch", "record", "verify", "retry"} =>
           /\ Sufficient(consent, ClassOf(Current))
           /\ consent # "none" => interactive

LaterIsNewer ==
    /\ \A n \in DOMAIN ran : ran[n].pos <= pos
    /\ \A p \in 1..Clauses : steps[p].made <= replans
    /\ \A r \in DOMAIN reports :
           /\ reports[r].made <= replans
           /\ \A p \in 1..Clauses :
                  /\ reports[r].invalidated /\ reports[r].pos < p
                  /\ p <= pos \/ phase \notin {"replan", "done", "raised"}
                  => reports[r].made < steps[p].made

(* What the documentation says, and the code does not do.                  *)

(* "When the tool's declared class and the command classifier disagree,    *)
(* the stricter one wins."                                                 *)
StricterWins ==
    \A n \in DOMAIN ran :
        ran[n].kind = "step" =>
            Sufficient(ran[n].consent, StrictestClass(ran[n].call))
=============================================================================
