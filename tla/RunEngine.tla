------------------------------ MODULE RunEngine ------------------------------
(***************************************************************************)
(* One run, from the row beginRun creates to the row that says how it      *)
(* ended: the plan walk of core/orchestrator.ts over the pool of           *)
(* core/pool.ts, the checkpoints of runs/checkpoint.ts, approvals that     *)
(* park the run, the cancel / resume / approve handlers of the dispatch,   *)
(* the deadline, and the crash that runtime/recover.ts settles.            *)
(*                                                                         *)
(* A WALK is one execution of the plan: walk 1 is beginRun, every later    *)
(* walk is a beginResume.  Rows live in SQLite and survive a crash; walks  *)
(* live in the process and do not.                                         *)
(*                                                                         *)
(* Node runs one callback to completion, so a request from a host or a     *)
(* timer is served only when no walk has a synchronous continuation left   *)
(* (Quiet).  A crash may fall between any two transactions.                *)
(***************************************************************************)
EXTENDS Naturals, FiniteSets

CONSTANTS
  Steps,        \* the names of the steps of the plan
  NStages,      \* the number of stages
  StageOf,      \* the stage a step is declared in
  Ordinal,      \* the position of a step in the run
  Width,        \* per stage, what resolveConcurrency answers
  Critical,     \* the steps whose failure ends the run
  Recoverable,  \* critical extract steps with a fallbackOn list
  Asks,         \* the steps that call context.approvals.request
  PlanAsks,     \* whether the capability's plan() may call it too
  NWalks        \* bound: one start and NWalks - 1 resumes

ASSUME StepsAreStaged ==
  /\ IsFiniteSet(Steps)
  /\ NStages \in Nat
  /\ StageOf \in [Steps -> 1 .. NStages]
  /\ Ordinal \in [Steps -> Nat]
  /\ \A s, t \in Steps : s # t => Ordinal[s] # Ordinal[t]

ASSUME WidthIsPositive == Width \in [1 .. NStages -> Nat \ {0}]

ASSUME KindsOfSteps ==
  /\ Critical \subseteq Steps
  /\ Recoverable \subseteq Critical
  /\ Asks \subseteq Steps
  /\ PlanAsks \in BOOLEAN

ASSUME SomeWalk == NWalks \in Nat \ {0}

VARIABLES
  run, step, approval, answer,         \* rows of runs, steps and approvals
  phase, stage, slot,                  \* per walk: where executePlan stands
  why, cancelled, expired, verdict,    \* per walk: its signals and its end
  up, active, acked                    \* the process, inFlight, run.cancel

rows  == <<run, step, approval, answer>>
walk  == <<phase, stage, slot, why, cancelled, expired, verdict>>
host  == <<up, active, acked>>
vars  == <<rows, walk, host>>

Walks == 1 .. NWalks
Nobody == 0

Terminal == {"succeeded", "failed", "cancelled"}
RunStatus == {"none", "queued", "running", "suspended"} \cup Terminal
Done == {"ok", "degraded"}
StepStatus == {"undeclared", "pending", "running", "failed", "stopped", "skipped"} \cup Done
Thrown == {"threwSuspension", "threwAborted", "threwError"}
Slot == {"waiting", "running", "asking"} \cup Done \cup Thrown
Phase == {"unused", "created", "planning", "stages", "pool", "closing", "ended"}
Verdict == {"none", "parked", "cancelled", "failed", "succeeded"}

TypeOK ==
  /\ run \in RunStatus
  /\ step \in [Steps -> StepStatus]
  /\ approval \in [Steps -> {"none", "pending", "granted", "denied"}]
  /\ answer \in [Steps -> {"none"} \cup Done]
  /\ phase \in [Walks -> Phase]
  /\ stage \in [Walks -> Nat]
  /\ slot \in [Walks -> [Steps -> Slot]]
  /\ why \in [Walks -> {"none", "cancel", "deadline", "suspension", "failure"}]
  /\ cancelled \in [Walks -> BOOLEAN]
  /\ expired \in [Walks -> BOOLEAN]
  /\ verdict \in [Walks -> Verdict]
  /\ up \in BOOLEAN
  /\ active \in Walks \cup {Nobody}
  /\ acked \in BOOLEAN

Init ==
  /\ run = "none"
  /\ step = [s \in Steps |-> "undeclared"]
  /\ approval = [s \in Steps |-> "none"]
  /\ answer = [s \in Steps |-> "none"]
  /\ phase = [w \in Walks |-> "unused"]
  /\ stage = [w \in Walks |-> 0]
  /\ slot = [w \in Walks |-> [s \in Steps |-> "waiting"]]
  /\ why = [w \in Walks |-> "none"]
  /\ cancelled = [w \in Walks |-> FALSE]
  /\ expired = [w \in Walks |-> FALSE]
  /\ verdict = [w \in Walks |-> "none"]
  /\ up = TRUE
  /\ active = Nobody
  /\ acked = FALSE

-----------------------------------------------------------------------------
(* runs/state.ts: the edges assertTransition allows.                        *)
(*                                                                         *)
(* A definition named Slip... is a plausible mistake in the definition that *)
(* follows it.  No behaviour uses one: each is there to be put in its       *)
(* place, to see which property notices.                                    *)

SlipAnyEdge(from, to) == from # to

CanTransition(from, to) ==
  \/ from = "queued" /\ to \in {"running", "cancelled", "failed"}
  \/ from = "running" /\ to \in {"suspended", "succeeded", "failed", "cancelled"}
  \/ from = "suspended" /\ to \in {"running", "cancelled", "failed"}

-----------------------------------------------------------------------------
(* What a walk can see and do. *)

Live(w) == phase[w] \notin {"unused", "ended"}

(* The composed signal has fired; why[w] is the reason it carries, that of *)
(* the first of its three sources.                                         *)
Aborted(w) == why[w] # "none"

Signalled(w, reason) == IF Aborted(w) THEN why ELSE [why EXCEPT ![w] = reason]

Waiting(w)  == {s \in Steps : StageOf[s] = stage[w] /\ slot[w][s] = "waiting"}
InFlight(w) == {s \in Steps : slot[w][s] \in {"running", "asking"}}
Rejected(w) == {s \in Steps : slot[w][s] \in Thrown}

CanClaim(w) ==
  /\ phase[w] = "pool"
  /\ ~Aborted(w)
  /\ Waiting(w) # {}
  /\ Cardinality(InFlight(w)) < Width[stage[w]]

SlipPoolWaitsForAll(w) == phase[w] = "pool" /\ InFlight(w) = {} /\ Waiting(w) = {}

PoolDone(w) ==
  /\ phase[w] = "pool"
  /\ InFlight(w) = {}
  /\ Aborted(w) \/ Waiting(w) = {}

(* Nothing is left to run before the event loop looks at its queues. *)
Quiet ==
  \A w \in Walks :
    \/ phase[w] \in {"unused", "planning", "ended"}
    \/ phase[w] = "pool" /\ ~CanClaim(w) /\ ~PoolDone(w)

(* Steps this walk does not already hold the outcome of. *)
SlipAllSteps(w, S) == S

NotDone(w, S) == {s \in S : slot[w][s] \notin Done}

First(S) == CHOOSE s \in S : \A t \in S : Ordinal[s] <= Ordinal[t]

(* recordedOutcomes: what a resumed walk takes over from the rows. *)
SlipRestoredAsOk(s) == IF step[s] \in Done THEN "ok" ELSE "waiting"

Restored(s) == IF step[s] \in Done THEN step[s] ELSE "waiting"

-----------------------------------------------------------------------------
(* Starting, planning and resuming. *)

(* beginRun is synchronous up to its first await, in two transactions: the *)
(* row is created queued, then checkpoint.started moves it.                *)
Create(w) ==
  /\ up /\ Quiet
  /\ w = 1 /\ phase[w] = "unused"
  /\ run = "none"
  /\ run' = "queued"
  /\ phase' = [phase EXCEPT ![w] = "created"]
  /\ UNCHANGED <<step, approval, answer, stage, slot, why, cancelled, expired, verdict, host>>

Start(w) ==
  /\ phase[w] = "created"
  /\ CanTransition(run, "running")
  /\ run' = "running"
  /\ phase' = [phase EXCEPT ![w] = "planning"]
  /\ active' = w
  /\ UNCHANGED <<step, approval, answer, stage, slot, why, cancelled, expired, verdict, up, acked>>

(* beginResume, and track, which replaces the entry of an earlier walk. *)
Resume(w) ==
  /\ up /\ Quiet
  /\ w > 1 /\ phase[w] = "unused" /\ phase[w - 1] # "unused"
  /\ run = "suspended"
  /\ run' = "running"
  /\ phase' = [phase EXCEPT ![w] = "planning"]
  /\ slot' = [slot EXCEPT ![w] = [s \in Steps |-> Restored(s)]]
  /\ active' = w
  /\ UNCHANGED <<step, approval, answer, stage, why, cancelled, expired, verdict, up, acked>>

(* checkNeeds, the stale-grounding check or the capability's plan() throws. *)
(* Only a call the caller's signal stopped carries the code `aborted`.      *)
PlanFails(w) ==
  /\ phase[w] = "planning"
  /\ phase' = [phase EXCEPT ![w] = "closing"]
  /\ \E v \in {"failed"} \cup (IF cancelled[w] THEN {"cancelled"} ELSE {}) :
       verdict' = [verdict EXCEPT ![w] = v]
  /\ UNCHANGED <<rows, stage, slot, why, cancelled, expired, host>>

(* plan() asked through the run-level gate: a suspension nobody recorded. *)
PlanSuspends(w) ==
  /\ PlanAsks
  /\ phase[w] = "planning"
  /\ phase' = [phase EXCEPT ![w] = "closing"]
  /\ verdict' = [verdict EXCEPT ![w] = "parked"]
  /\ UNCHANGED <<rows, stage, slot, why, cancelled, expired, host>>

(* executePlan declares every step once; a row that exists keeps its status. *)
Planned(w) ==
  /\ phase[w] = "planning"
  /\ step' = [s \in Steps |-> IF step[s] = "undeclared" THEN "pending" ELSE step[s]]
  /\ phase' = [phase EXCEPT ![w] = "stages"]
  /\ stage' = [stage EXCEPT ![w] = 1]
  /\ UNCHANGED <<run, approval, answer, slot, why, cancelled, expired, verdict, host>>

-----------------------------------------------------------------------------
(* The stage loop and the pool. *)

(* The loop is through: only the caller's signal is asked about.  Without a *)
(* cancellation the capability's aggregate is called, which may throw.      *)
SlipNobodyAsked(w) == {"succeeded", "failed"}

FinalVerdicts(w) == IF cancelled[w] THEN {"cancelled"} ELSE {"succeeded", "failed"}

EndOfPlan(w) ==
  /\ phase[w] = "stages" /\ stage[w] > NStages
  /\ \E v \in FinalVerdicts(w) : verdict' = [verdict EXCEPT ![w] = v]
  /\ phase' = [phase EXCEPT ![w] = "closing"]
  /\ UNCHANGED <<rows, stage, slot, why, cancelled, expired, host>>

Skipping(S) == [s \in Steps |-> IF s \in S THEN "skipped" ELSE step[s]]

SkipStage(w) ==
  /\ phase[w] = "stages" /\ stage[w] <= NStages
  /\ Aborted(w)
  /\ step' = Skipping(NotDone(w, {s \in Steps : StageOf[s] = stage[w]}))
  /\ stage' = [stage EXCEPT ![w] = @ + 1]
  /\ UNCHANGED <<run, approval, answer, phase, slot, why, cancelled, expired, verdict, host>>

OpenPool(w) ==
  /\ phase[w] = "stages" /\ stage[w] <= NStages
  /\ ~Aborted(w)
  /\ phase' = [phase EXCEPT ![w] = "pool"]
  /\ UNCHANGED <<rows, stage, slot, why, cancelled, expired, verdict, host>>

(* A worker of runPooled claims the next task, which records its start. *)
Claim(w) ==
  /\ CanClaim(w)
  /\ LET s == First(Waiting(w))
     IN  /\ step' = [step EXCEPT ![s] = "running"]
         /\ slot' = [slot EXCEPT ![w][s] = "running"]
  /\ UNCHANGED <<run, approval, answer, phase, stage, why, cancelled, expired, verdict, host>>

(* How a step's body ends.  It may have ignored the signal; a step that asks *)
(* gets past its question only with an answer.                               *)
Succeed(w, s) ==
  /\ slot[w][s] = "running" /\ Live(w)
  /\ s \in Asks => approval[s] \in {"granted", "denied"}
  /\ step' = [step EXCEPT ![s] = "ok"]
  /\ slot' = [slot EXCEPT ![w][s] = "ok"]
  /\ UNCHANGED <<run, approval, answer, phase, stage, why, cancelled, expired, verdict, host>>

(* It throws after the signal fired: recorded as stopped.  An effect that    *)
(* found the signal fired threw the code `aborted`, anything else threw more.*)
Stop(w, s) ==
  /\ slot[w][s] = "running" /\ Live(w)
  /\ Aborted(w)
  /\ step' = [step EXCEPT ![s] = "stopped"]
  /\ \E r \in {"threwAborted", "threwError"} : slot' = [slot EXCEPT ![w][s] = r]
  /\ UNCHANGED <<run, approval, answer, phase, stage, why, cancelled, expired, verdict, host>>

(* A critical failure, or a call refused for want of consent in any step. *)
Fail(w, s) ==
  /\ slot[w][s] = "running" /\ Live(w)
  /\ ~Aborted(w)
  /\ step' = [step EXCEPT ![s] = "failed"]
  /\ slot' = [slot EXCEPT ![w][s] = "threwError"]
  /\ why' = Signalled(w, "failure")
  /\ UNCHANGED <<run, approval, answer, phase, stage, cancelled, expired, verdict, host>>

Degrade(w, s) ==
  /\ slot[w][s] = "running" /\ Live(w)
  /\ ~Aborted(w)
  /\ s \in Critical => s \in Recoverable
  /\ step' = [step EXCEPT ![s] = "degraded"]
  /\ slot' = [slot EXCEPT ![w][s] = "degraded"]
  /\ UNCHANGED <<run, approval, answer, phase, stage, why, cancelled, expired, verdict, host>>

(* gate.request without an answer: the question is opened once, and throws. *)
Opened(s) == IF approval[s] = "none" THEN "pending" ELSE approval[s]

Ask(w, s) ==
  /\ slot[w][s] = "running" /\ Live(w)
  /\ s \in Asks /\ approval[s] \notin {"granted", "denied"}
  /\ approval' = [approval EXCEPT ![s] = Opened(s)]
  /\ slot' = [slot EXCEPT ![w][s] = "asking"]
  /\ UNCHANGED <<run, step, answer, phase, stage, why, cancelled, expired, verdict, host>>

(* The task caught a suspension.  The run parks and the step goes back to   *)
(* pending in one write, unless the run cannot be suspended: then the throw *)
(* of assertTransition leaves the task, and the step's row, as they are.    *)
CatchSuspension(w, s) ==
  IF CanTransition(run, "suspended")
    THEN /\ run' = "suspended"
         /\ step' = [step EXCEPT ![s] = "pending"]
         /\ slot' = [slot EXCEPT ![w][s] = "threwSuspension"]
         /\ why' = Signalled(w, "suspension")
    ELSE /\ slot' = [slot EXCEPT ![w][s] = "threwError"]
         /\ UNCHANGED <<run, step, why>>

Park(w, s) ==
  /\ slot[w][s] = "asking" /\ Live(w)
  /\ CatchSuspension(w, s)
  /\ UNCHANGED <<approval, answer, phase, stage, cancelled, expired, verdict, host>>

(* A step that rejects with the reason of its signal rejects with the       *)
(* suspension of the sibling that stopped it.                               *)
Echo(w, s) ==
  /\ slot[w][s] = "running" /\ Live(w)
  /\ why[w] = "suspension"
  /\ CatchSuspension(w, s)
  /\ UNCHANGED <<approval, answer, phase, stage, cancelled, expired, verdict, host>>

-----------------------------------------------------------------------------
(* The end of a stage, and the end of a walk. *)

(* classify, asked about the first rejection in the order of the stage. *)
SlipSuspensionIsFailure(w) == IF cancelled[w] THEN "cancelled" ELSE "failed"

SlipCancelUnasked(w) ==
  IF slot[w][First(Rejected(w))] = "threwSuspension" THEN "parked" ELSE "failed"

SlipDeadlineByReason(w) ==
  LET thrown == slot[w][First(Rejected(w))]
  IN  IF thrown = "threwSuspension" THEN "parked"
      ELSE IF cancelled[w] \/ thrown = "threwAborted" THEN "cancelled"
      ELSE "failed"

Classify(w) ==
  LET thrown == slot[w][First(Rejected(w))]
  IN  IF thrown = "threwSuspension" THEN "parked"
      ELSE IF cancelled[w] THEN "cancelled"
      ELSE IF expired[w] THEN "failed"
      ELSE IF thrown = "threwAborted" THEN "cancelled"
      ELSE "failed"

SlipUnreachedInStage(w) == Waiting(w)

Unreached(w) == Waiting(w) \cup NotDone(w, {s \in Steps : StageOf[s] > stage[w]})

StageEnds(w) ==
  /\ PoolDone(w)
  /\ Rejected(w) = {}
  /\ step' = Skipping(Waiting(w))
  /\ stage' = [stage EXCEPT ![w] = @ + 1]
  /\ phase' = [phase EXCEPT ![w] = "stages"]
  /\ UNCHANGED <<run, approval, answer, slot, why, cancelled, expired, verdict, host>>

StageFails(w) ==
  /\ PoolDone(w)
  /\ Rejected(w) # {}
  /\ step' = Skipping(Unreached(w))
  /\ verdict' = [verdict EXCEPT ![w] = Classify(w)]
  /\ phase' = [phase EXCEPT ![w] = "closing"]
  /\ UNCHANGED <<run, approval, answer, stage, slot, why, cancelled, expired, host>>

(* The status the walk leaves on the row.  A commit the row refuses is      *)
(* caught like any failure; a failure the row refuses changes nothing.      *)
EndStatus(w) ==
  CASE verdict[w] = "parked" -> run
    [] verdict[w] # "parked" /\ CanTransition(run, verdict[w]) -> verdict[w]
    [] verdict[w] = "succeeded" /\ ~CanTransition(run, "succeeded")
         /\ CanTransition(run, "failed") -> "failed"
    [] OTHER -> run

(* settleFailure or the commit, and the eviction from inFlight. *)
Settle(w) ==
  /\ phase[w] = "closing"
  /\ run' = EndStatus(w)
  /\ answer' = IF verdict[w] = "succeeded" /\ CanTransition(run, "succeeded")
                 THEN [s \in Steps |-> IF slot[w][s] \in Done THEN slot[w][s] ELSE "none"]
                 ELSE answer
  /\ phase' = [phase EXCEPT ![w] = "ended"]
  /\ active' = IF active = w THEN Nobody ELSE active
  /\ UNCHANGED <<step, approval, stage, slot, why, cancelled, expired, verdict, up, acked>>

-----------------------------------------------------------------------------
(* The person, the clock and the machine. *)

Cancel(w) ==
  /\ up /\ Quiet
  /\ active = w /\ ~cancelled[w]
  /\ cancelled' = [cancelled EXCEPT ![w] = TRUE]
  /\ why' = Signalled(w, "cancel")
  /\ acked' = TRUE
  /\ UNCHANGED <<rows, phase, stage, slot, expired, verdict, up, active>>

(* run.cancel of a run nothing here drives: cancelSuspended. *)
Abandon ==
  /\ up /\ Quiet
  /\ active = Nobody /\ run = "suspended"
  /\ run' = "cancelled"
  /\ acked' = TRUE
  /\ UNCHANGED <<step, approval, answer, walk, up, active>>

Decide(s) ==
  /\ up /\ Quiet
  /\ approval[s] = "pending"
  /\ \E d \in {"granted", "denied"} : approval' = [approval EXCEPT ![s] = d]
  /\ UNCHANGED <<run, step, answer, walk, host>>

Expire(w) ==
  /\ up /\ Quiet
  /\ phase[w] = "pool" /\ ~expired[w]
  /\ expired' = [expired EXCEPT ![w] = TRUE]
  /\ why' = Signalled(w, "deadline")
  /\ UNCHANGED <<rows, phase, stage, slot, cancelled, verdict, host>>

Crash ==
  /\ up
  /\ up' = FALSE
  /\ active' = Nobody
  /\ phase' = [w \in Walks |-> IF Live(w) THEN "ended" ELSE phase[w]]
  /\ UNCHANGED <<rows, stage, slot, why, cancelled, expired, verdict, acked>>

(* recoverInterruptedRuns, one transaction when the harness opens again. *)
SlipOnlyRunning(status) == status = "running"

SlipNotReread(status) == TRUE

Interrupted(status) == status \in {"queued", "running"}

SlipOnlyPending(status) == IF status = "pending" THEN "skipped" ELSE status

AfterCrash(status) ==
  CASE status = "running" -> "stopped"
    [] status = "pending" -> "skipped"
    [] OTHER -> status

Restart ==
  /\ ~up
  /\ up' = TRUE
  /\ IF Interrupted(run)
       THEN /\ run' = "failed"
            /\ step' = [s \in Steps |-> AfterCrash(step[s])]
       ELSE UNCHANGED <<run, step>>
  /\ UNCHANGED <<approval, answer, walk, active, acked>>

-----------------------------------------------------------------------------
StepEnds(w) ==
  \E s \in Steps : Succeed(w, s) \/ Stop(w, s) \/ Fail(w, s) \/ Degrade(w, s)
                     \/ Ask(w, s) \/ Park(w, s) \/ Echo(w, s)

Advance(w) ==
  \/ Start(w) \/ PlanFails(w) \/ PlanSuspends(w) \/ Planned(w)
  \/ SkipStage(w) \/ OpenPool(w) \/ Claim(w) \/ StepEnds(w)
  \/ StageEnds(w) \/ StageFails(w) \/ EndOfPlan(w) \/ Settle(w)

Next ==
  \/ \E w \in Walks : Create(w) \/ Resume(w) \/ Advance(w) \/ Cancel(w) \/ Expire(w)
  \/ \E s \in Steps : Decide(s)
  \/ Abandon \/ Crash \/ Restart

Spec == Init /\ [][Next]_vars

(* A step's body returns or throws at last, the event loop gives every walk  *)
(* its turn, and the app is opened again after a crash.  A person, a clock   *)
(* and a crash owe nothing.                                                  *)
FairSpec == Spec /\ (\A w \in Walks : WF_vars(Advance(w))) /\ WF_vars(Restart)

-----------------------------------------------------------------------------
(* Properties. *)

Idle == \A w \in Walks : ~Live(w)

(* The status column implements what RunLifecycle promises its readers,     *)
(* even when two walks drive the run at once (runs/state.ts).               *)
Lifecycle == INSTANCE RunLifecycle WITH status <- run
LifecycleHolds == Lifecycle!Spec

(* A finished run is history: no late step, stray walk or recovery rewrites *)
(* its status, the rows of its steps or its answer.                         *)
FinishedRunIsFrozen ==
  [][(run \in Terminal) => UNCHANGED <<run, step, answer>>]_vars

(* A recorded outcome is never lost: a step that is ok or degraded is not   *)
(* run again, skipped or stopped by any later walk (notDone, completedSteps).*)
ResultsAreKept ==
  [][\A s \in Steps : step[s] \in Done => step'[s] = step[s]]_vars

(* A step runs only over the finished stages before it, which makes         *)
(* `visible` complete; and a run that is over has no step left to do.  Both *)
(* speak of a run nobody was asked about: a second walk is what breaks them.*)
StagesInOrder ==
  (\A s \in Steps : approval[s] = "none") =>
    /\ \A s, t \in Steps :
         step[s] = "running" /\ StageOf[t] < StageOf[s] => step[t] \in Done
    /\ run \in Terminal => \A s \in Steps : step[s] # "pending"

(* What the caller was told each step came to is what the rows say of it,   *)
(* over suspensions and resumes too.                                        *)
AnswerMatchesRows ==
  run = "succeeded" =>
    \A s \in Steps : answer[s] = IF step[s] \in Done THEN step[s] ELSE "none"

(* A run that succeeded did all of its steps, unless its deadline fired.    *)
OnlyTheDeadlineLeavesGaps ==
  run = "succeeded" /\ (\E s \in Steps : answer[s] = "none")
    => \E w \in Walks : expired[w]

(* No row says a step is being executed once the run is over, and a run    *)
(* that waits has a question a person can find, whose step can run again.   *)
RestIsHonest ==
  /\ run \in Terminal => \A s \in Steps : step[s] # "running"
  /\ run = "suspended" => \E s \in Asks : step[s] = "pending" /\ approval[s] # "none"

(* A parked run is taken up or given up by a person, and by nothing else.   *)
ParkedWaitsForAPerson ==
  [][run = "suspended" /\ run' # "suspended"
       => run' = "running" \/ (run' = "cancelled" /\ acked')]_vars

(* Every run that reads as going has a walk that will end it.               *)
RunningHasDriver == up /\ run \in {"queued", "running"} => ~Idle

(* `cancelled` is written only of a run somebody asked to stop.             *)
CancelledMeansAsked == run = "cancelled" => acked

(* A walk told to stop leaves the run cancelled, once it has a plan and     *)
(* when no step of it asked anybody.                                        *)
CancelEndsTheRun ==
  [][\A w \in Walks : phase[w] = "closing" /\ phase'[w] = "ended" /\ up'
        /\ cancelled[w] /\ stage[w] > 0 /\ (\A s \in Steps : approval[s] = "none")
          => run' = "cancelled"]_vars

(* Every started run ends or waits for a person, through crashes too.       *)
RunSettles == run \in {"queued", "running"} ~> run \in Terminal \cup {"suspended"}
=============================================================================
