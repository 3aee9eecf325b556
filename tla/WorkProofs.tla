----------------------------- MODULE WorkProofs -----------------------------
(***************************************************************************)
(* What is proved of what a person works on beside the searches: an entry  *)
(* of the board and its preparation, the agent that fills in its form,     *)
(* what the runs of a conversation are told of it, and the CVs.  Each part *)
(* states for itself the types, the invariant that a step keeps, and what  *)
(* a step may never do.  The parts share nothing; they are in one module   *)
(* to be instantiated together.                                            *)
(***************************************************************************)
EXTENDS ApplicationAgent, ConversationMemory, CvLifecycle, FiniteSetTheorems, SequenceTheorems,
        WellFoundedInduction, TLAPS

-----------------------------------------------------------------------------
(* The steps of a preparation and their order, spelt out. *)
LEMMA StepsAre ==
  /\ Step = {"fetch", "language", "copyCv", "analyze", "summary"}
  /\ Index("fetch") = 1 /\ Index("language") = 2 /\ Index("copyCv") = 3
  /\ Index("analyze") = 4 /\ Index("summary") = 5
<1>1. Len(Steps) = 5 /\ DOMAIN Steps = 1..5
  BY DEF Steps
<1>2. /\ Steps[1] = "fetch" /\ Steps[2] = "language" /\ Steps[3] = "copyCv"
      /\ Steps[4] = "analyze" /\ Steps[5] = "summary"
  BY DEF Steps
<1>3. Step = {"fetch", "language", "copyCv", "analyze", "summary"}
  <2>1. Step = {Steps[i] : i \in 1..5}
    BY <1>1 DEF Step, ToSet
  <2>2. QED BY <1>2, <2>1
<1>4. ASSUME NEW n \in 1..5 PROVE Index(Steps[n]) = n
  <2>1. \A i \in 1..5 : Steps[i] = Steps[n] <=> i = n
    BY <1>2
  <2>2. QED BY <1>1, <2>1 DEF Index
<1>5. /\ Index(Steps[1]) = 1 /\ Index(Steps[2]) = 2 /\ Index(Steps[3]) = 3
      /\ Index(Steps[4]) = 4 /\ Index(Steps[5]) = 5
  BY <1>4
<1>6. QED BY <1>2, <1>3, <1>5

LEMMA ForgottenAre ==
  /\ Forgets("fetch") = Step
  /\ Forgets("copyCv") = {"copyCv", "analyze", "summary"}
  /\ Forgets("summary") = {"summary"}
<1>1. Len(Steps) = 5
  BY DEF Steps
<1>2. /\ Steps[1] = "fetch" /\ Steps[2] = "language" /\ Steps[3] = "copyCv"
      /\ Steps[4] = "analyze" /\ Steps[5] = "summary"
  BY DEF Steps
<1>3. Forgets("fetch") = {Steps[i] : i \in 1..5}
  BY <1>1, StepsAre DEF Forgets
<1>4. Forgets("copyCv") = {Steps[i] : i \in 3..5}
  BY <1>1, StepsAre DEF Forgets
<1>5. Forgets("summary") = {Steps[i] : i \in 5..5}
  BY <1>1, StepsAre DEF Forgets
<1>6. QED BY <1>2, <1>3, <1>4, <1>5, StepsAre

(* The step that comes next is the first that is not complete. *)
LEMMA NextIs ==
  /\ Step \subseteq done <=> NextStep = "none"
  /\ ~(Step \subseteq done) => NextStep \in Step \ done
  /\ NextStep \in {"analyze", "summary"} => "fetch" \in done /\ "copyCv" \in done
  /\ NextStep = "summary" => "analyze" \in done
<1>1. CASE Step \subseteq done
  BY <1>1 DEF NextStep
<1>2. CASE ~(Step \subseteq done)
  <2> DEFINE Earliest(s) == \A t \in Step \ done : Index(s) <= Index(t)
  <2>1. \E s \in Step \ done : Earliest(s)
    <3>1. CASE "fetch" \notin done
      <4>1. "fetch" \in Step \ done /\ Earliest("fetch") BY <3>1, StepsAre
      <4>2. QED BY <4>1
    <3>2. CASE "fetch" \in done /\ "language" \notin done
      <4>1. "language" \in Step \ done /\ Earliest("language") BY <3>2, StepsAre
      <4>2. QED BY <4>1
    <3>3. CASE {"fetch", "language"} \subseteq done /\ "copyCv" \notin done
      <4>1. "copyCv" \in Step \ done /\ Earliest("copyCv") BY <3>3, StepsAre
      <4>2. QED BY <4>1
    <3>4. CASE {"fetch", "language", "copyCv"} \subseteq done /\ "analyze" \notin done
      <4>1. "analyze" \in Step \ done /\ Earliest("analyze") BY <3>4, StepsAre
      <4>2. QED BY <4>1
    <3>5. CASE {"fetch", "language", "copyCv", "analyze"} \subseteq done
      <4>1. "summary" \in Step \ done /\ Earliest("summary") BY <1>2, <3>5, StepsAre
      <4>2. QED BY <4>1
    <3>6. QED BY <3>1, <3>2, <3>3, <3>4, <3>5
  <2>2. NextStep \in Step \ done /\ Earliest(NextStep)
    <3> HIDE DEF Earliest
    <3>1. NextStep = CHOOSE s \in Step \ done : Earliest(s)
      BY <1>2 DEF NextStep, Earliest
    <3>2. QED BY <2>1, <3>1
  <2>3. NextStep # "none"
    BY <2>2, StepsAre
  <2>4. QED BY <1>2, <2>2, <2>3, StepsAre
<1>3. QED BY <1>1, <1>2

-----------------------------------------------------------------------------
(***************************************************************************)
(* The preparation of an entry of the board.                               *)
(***************************************************************************)

(* A preparation that nothing has outdated.                                *)
Works == proc.on /\ ~proc.aborted /\ Owns

ProcTypes ==
  /\ proc \in [on : BOOLEAN, gen : 0..MaxGen, step : Step \cup {"none"}, wait : BOOLEAN,
               cv : 0..MaxCv, aborted : BOOLEAN]
  /\ proc.on => alive /\ entry # "none" /\ proc.gen <= gen
  /\ proc.wait => proc.on /\ proc.step # "none"

(* Steps are left complete in order, and a run a step names was asked about  *)
(* what the entry holds as long as the steps before it stay complete.        *)
RunsAreCurrent ==
  /\ "analyze" \in done => "fetch" \in done /\ analysis = posting
  /\ known["analyze"].of # 0 => "fetch" \in done /\ known["analyze"].of = posting
  /\ known["summary"].of # 0 => "analyze" \in done /\ known["summary"].of = analysis
  /\ \A s \in Asks : known[s].ok => known[s].of # 0
  /\ "summary" \in done /\ cv.reason = "tailored" => "analyze" \in done /\ cv.of = analysis

(* It goes on while the entry reads queued or running, and waits only for a  *)
(* step that is not complete, after those it rests on.                       *)
WorkIsOfTheEntry ==
  /\ stat = "ready" => "summary" \in done
  /\ Works => /\ stat \in {"queued", "running"} \/ (stat = "ready" /\ Step \subseteq done)
              /\ proc.wait =>
                   /\ stat = "running" /\ proc.step \notin done
                   /\ proc.step \in {"analyze", "summary"} => "fetch" \in done
                   /\ proc.step = "summary" => "analyze" \in done

BoardInv == BoardTypeOK /\ ProcTypes /\ RunsAreCurrent /\ WorkIsOfTheEntry

LEMMA BoardInvHolds ==
  ASSUME BoardAssumption, BoardInit
  PROVE  BoardInv
<1>0. MaxGen \in Nat /\ MaxCv \in Nat /\ MaxPosting \in Nat /\ MaxAttempts \in Nat
  BY DEF BoardAssumption
<1>1. BoardTypeOK
  <2>1. /\ attempts \in [Step -> 0..MaxAttempts]
        /\ known \in [Asks -> [of : 0..MaxPosting, ok : BOOLEAN]]
        /\ cv \in [id : 0..MaxCv, reason : {"none", "profile", "tailored", "manual"}, of : 0..MaxPosting]
    BY <1>0 DEF BoardInit, NoRun, NoCv
  <2>2. tongue \in BOOLEAN /\ alive \in BOOLEAN
    BY Zenon DEF BoardInit
  <2>3. entry = "none" /\ stat = "notStarted" /\ gen = 0 /\ done = {} /\ posting = 0 /\ cvs = 0
        /\ analysis = 0 /\ open = 0
    BY DEF BoardInit
  <2>4. QED BY <1>0, <2>1, <2>2, <2>3 DEF BoardTypeOK, Statuses
<1>2. ProcTypes
  BY <1>0 DEF BoardAssumption, BoardInit, ProcTypes, NoProc
<1>3. RunsAreCurrent
  BY DEF BoardInit, RunsAreCurrent, Asks, NoRun
<1>4. WorkIsOfTheEntry
  BY DEF BoardInit, WorkIsOfTheEntry, Works, Owns
<1>5. QED BY <1>1, <1>2, <1>3, <1>4 DEF BoardInv

(* What begins a new generation outdates the preparation under way.         *)
LEMMA Outdated ==
  ASSUME BoardInv, entry = "kept", gen < MaxGen, MaxGen \in Nat, gen' = gen + 1, alive' = alive,
         entry' = entry, AbortOutdated
  PROVE  ProcTypes' /\ ~Works'
<1>1. proc.on => proc.gen # gen'
  BY DEF BoardInv, ProcTypes, BoardTypeOK
<1>2. proc' = [proc EXCEPT !.aborted = @ \/ (proc.on /\ proc.gen # gen')]
  BY DEF AbortOutdated
<1>3. proc' \in [on : BOOLEAN, gen : 0..MaxGen, step : Step \cup {"none"}, wait : BOOLEAN,
                 cv : 0..MaxCv, aborted : BOOLEAN]
  BY <1>2, Zenon DEF BoardInv, ProcTypes
<1>4. /\ proc'.on = proc.on /\ proc'.gen = proc.gen /\ proc'.wait = proc.wait /\ proc'.step = proc.step
      /\ proc.on => proc'.aborted
  BY <1>1, <1>2 DEF BoardInv, ProcTypes
<1>5. QED BY <1>3, <1>4 DEF BoardInv, ProcTypes, BoardTypeOK, Works

(* A reset leaves what is before it as it was.                              *)
LEMMA ResetStep ==
  ASSUME BoardAssumption, BoardInv, Kept, NEW step \in {"fetch", "copyCv", "summary"}, Begun(step),
         AbortOutdated, UNCHANGED <<entry, cv, cvs, open, alive>>, tongue' \in BOOLEAN,
         \/ done' = done \ Forgets(step) /\ posting' = posting
         \/ step = "fetch" /\ done' = {"fetch"} /\ posting' \in 0..MaxPosting
  PROVE  BoardInv'
<1>0. /\ entry = "kept" /\ gen < MaxGen /\ MaxGen \in Nat /\ gen \in 0..MaxGen
      /\ gen' = gen + 1 /\ stat' = "queued" /\ MaxAttempts \in Nat
  BY DEF Kept, Begun, BoardAssumption, BoardInv, BoardTypeOK
<1>1. ProcTypes' /\ ~Works'
  BY <1>0, Outdated
<1>2. /\ attempts' \in [Step -> 0..MaxAttempts]
      /\ known' \in [Asks -> [of : 0..MaxPosting, ok : BOOLEAN]]
      /\ analysis' \in 0..MaxPosting
  BY <1>0, ForgottenAre, StepsAre DEF Begun, BoardInv, BoardTypeOK, NoRun, Asks, BoardAssumption
<1>3. done' \subseteq Step
  BY StepsAre DEF BoardInv, BoardTypeOK
<1>4. BoardTypeOK'
  BY <1>0, <1>2, <1>3 DEF BoardInv, BoardTypeOK, Statuses
<1>5. RunsAreCurrent'
  <2>1. /\ known'["analyze"] = IF "analyze" \in Forgets(step) THEN NoRun ELSE known["analyze"]
        /\ known'["summary"] = IF "summary" \in Forgets(step) THEN NoRun ELSE known["summary"]
        /\ analysis' = IF "analyze" \in Forgets(step) THEN 0 ELSE analysis
    BY DEF Begun, Asks
  <2>2. /\ "summary" \in Forgets(step)
        /\ "analyze" \in Forgets(step) <=> step # "summary"
        /\ "fetch" \in Forgets(step) <=> step = "fetch"
    BY ForgottenAre, StepsAre
  <2>3. "summary" \notin done' /\ NoRun.of = 0 /\ NoRun.ok = FALSE
    BY <2>2 DEF NoRun
  <2>4. CASE step = "summary"
    BY <2>1, <2>2, <2>3, <2>4 DEF BoardInv, RunsAreCurrent, Asks
  <2>5. CASE step # "summary"
    BY <2>1, <2>2, <2>3, <2>5 DEF BoardInv, RunsAreCurrent, Asks
  <2>6. QED BY <2>4, <2>5
<1>6. WorkIsOfTheEntry'
  BY <1>0, <1>1 DEF WorkIsOfTheEntry
<1>7. QED BY <1>1, <1>4, <1>5, <1>6 DEF BoardInv

(* What a person asks.                                                      *)
LEMMA AskedStep ==
  ASSUME BoardAssumption, BoardInv
  PROVE  /\ Add => BoardInv'
         /\ Pause => BoardInv'
         /\ \A step \in {"fetch", "copyCv", "summary"} : Again(step) => BoardInv'
         /\ Resume => BoardInv'
         /\ Configure => BoardInv'
         /\ PastePosting => BoardInv'
         /\ OpenEditor => BoardInv'
         /\ UpdateSummary => BoardInv'
         /\ Drop => BoardInv'
<1>0. MaxGen \in Nat \ {0} /\ MaxCv \in Nat /\ MaxPosting \in Nat /\ MaxAttempts \in Nat
  BY DEF BoardAssumption
<1>1. Add => BoardInv'
  <2> SUFFICES ASSUME Add PROVE BoardInv'
    OBVIOUS
  <2>1. ~proc.on /\ ~proc'.on
    BY DEF Add, BoardInv, ProcTypes
  <2>2. QED
    BY <1>0, <2>1 DEF Add, BoardInv, BoardTypeOK, ProcTypes, RunsAreCurrent, WorkIsOfTheEntry, Works, Statuses
<1>2. Pause => BoardInv'
  <2> SUFFICES ASSUME Pause PROVE BoardInv'
    OBVIOUS
  <2>1. ProcTypes' /\ ~Works'
    BY <1>0, Outdated DEF Pause, Kept
  <2>2. QED
    BY <1>0, <2>1 DEF Pause, Kept, BoardInv, BoardTypeOK, RunsAreCurrent, WorkIsOfTheEntry, Statuses
<1>3. \A step \in {"fetch", "copyCv", "summary"} : Again(step) => BoardInv'
  BY ResetStep, Zenon DEF Again, ResetFrom, BoardInv, BoardTypeOK
<1>4. Resume => BoardInv'
  <2> SUFFICES ASSUME Resume PROVE BoardInv'
    OBVIOUS
  <2>1. ProcTypes' /\ ~Works'
    BY <1>0, Outdated DEF Resume, Kept
  <2>2. attempts' \in [Step -> 0..MaxAttempts]
    BY <1>0 DEF Resume, BoardInv, BoardTypeOK
  <2>3. QED
    BY <1>0, <2>1, <2>2 DEF Resume, Kept, BoardInv, BoardTypeOK, RunsAreCurrent, WorkIsOfTheEntry, Statuses
<1>5. Configure => BoardInv'
  BY ResetStep, Zenon DEF Configure, ResetFrom, BoardInv, BoardTypeOK
<1>6. PastePosting => BoardInv'
  <2> SUFFICES ASSUME PastePosting PROVE BoardInv'
    OBVIOUS
  <2>1. posting' \in 0..MaxPosting
    BY <1>0 DEF PastePosting, BoardInv, BoardTypeOK
  <2>2. tongue' \in BOOLEAN
    BY Zenon DEF PastePosting, BoardInv, BoardTypeOK
  <2>3. QED BY <2>1, <2>2, ResetStep, Zenon DEF PastePosting
<1>7. OpenEditor => BoardInv'
  <2> SUFFICES ASSUME OpenEditor PROVE BoardInv'
    OBVIOUS
  <2>1. UNCHANGED <<prepVars, proc, alive>> /\ open' \in 0..MaxCv
    BY DEF OpenEditor, BoardInv, BoardTypeOK
  <2>2. QED
    BY <2>1 DEF prepVars, BoardInv, BoardTypeOK, ProcTypes, RunsAreCurrent, WorkIsOfTheEntry, Works, Owns
<1>8. UpdateSummary => BoardInv'
  <2> SUFFICES ASSUME UpdateSummary PROVE BoardInv'
    OBVIOUS
  <2>1. ProcTypes' /\ ~Works'
    BY <1>0, Outdated DEF UpdateSummary, Kept
  <2>2. /\ known' \in [Asks -> [of : 0..MaxPosting, ok : BOOLEAN]]
        /\ known'["analyze"] = known["analyze"] /\ known'["summary"] = NoRun
        /\ attempts' \in [Step -> 0..MaxAttempts]
    BY <1>0, StepsAre DEF UpdateSummary, BoardInv, BoardTypeOK, NoRun, Asks
  <2>3. cv' = [id |-> cvs + 1, reason |-> "manual", of |-> cv.of] /\ cvs + 1 \in 0..MaxCv
    BY <1>0 DEF UpdateSummary, BoardInv, BoardTypeOK
  <2>4. BoardTypeOK'
    BY <1>0, <2>2, <2>3, StepsAre DEF UpdateSummary, Kept, BoardInv, BoardTypeOK, Statuses
  <2>5. RunsAreCurrent'
    BY <2>2, <2>3 DEF UpdateSummary, BoardInv, RunsAreCurrent, NoRun, Asks
  <2>6. WorkIsOfTheEntry'
    BY <2>1 DEF UpdateSummary, WorkIsOfTheEntry
  <2>7. QED BY <2>1, <2>4, <2>5, <2>6 DEF BoardInv
<1>9. Drop => BoardInv'
  <2> SUFFICES ASSUME Drop PROVE BoardInv'
    OBVIOUS
  <2>1. ProcTypes' /\ ~Works'
    BY DEF Drop, BoardInv, ProcTypes, Works, Owns
  <2>2. QED
    BY <2>1 DEF Drop, BoardInv, BoardTypeOK, RunsAreCurrent, WorkIsOfTheEntry
<1>10. QED BY <1>1, <1>2, <1>3, <1>4, <1>5, <1>6, <1>7, <1>8, <1>9

(* A step that begins is the next one.                                      *)
LEMMA BeginsIs ==
  ASSUME BoardAssumption, BoardInv, NEW step \in Step, Begins(step)
  PROVE  /\ attempts' \in [Step -> 0..MaxAttempts]
         /\ entry = "kept" /\ proc.on /\ ~proc.wait /\ proc.gen = gen /\ ~proc.aborted
         /\ stat \in {"queued", "running"} /\ step \notin done
         /\ step \in {"analyze", "summary"} => "fetch" \in done
         /\ step = "summary" => "analyze" \in done
<1>1. attempts' = [attempts EXCEPT ![step] = IF @ < MaxAttempts THEN @ + 1 ELSE @]
  BY DEF Begins
<1>2. attempts' \in [Step -> 0..MaxAttempts]
  BY <1>1 DEF BoardInv, BoardTypeOK, BoardAssumption
<1>3. entry = "kept" /\ proc.on /\ ~proc.wait /\ proc.gen = gen /\ ~proc.aborted /\ NextStep = step
  BY DEF Begins, Loop, Owns
<1>4. /\ step \notin done /\ step # "none"
      /\ step \in {"analyze", "summary"} => "fetch" \in done
      /\ step = "summary" => "analyze" \in done
  BY <1>3, NextIs, StepsAre
<1>5. stat \in {"queued", "running"}
  BY <1>3, <1>4 DEF BoardInv, WorkIsOfTheEntry, Works, Owns
<1>6. QED BY <1>2, <1>3, <1>4, <1>5

(* What its run was asked about is what the entry holds.                    *)
LEMMA NamedIs ==
  ASSUME BoardInv, NEW step \in Asks, NEW named,
         named \in Named(step, IF step = "summary" THEN analysis ELSE posting),
         step = "summary" => "analyze" \in done, "fetch" \in done
  PROVE  /\ named \in [of : 0..MaxPosting, ok : BOOLEAN]
         /\ named.of # 0 => named.of = IF step = "summary" THEN analysis ELSE posting
         /\ named.ok => named.of # 0
<1> DEFINE of == IF step = "summary" THEN analysis ELSE posting
<1>1. /\ of \in 0..MaxPosting /\ known[step] \in [of : 0..MaxPosting, ok : BOOLEAN]
      /\ known[step].of # 0 => known[step].of = of
      /\ known[step].ok => known[step].of # 0
  BY DEF BoardInv, BoardTypeOK, RunsAreCurrent, Asks
<1> HIDE DEF of
<1>2. named = known[step] \/ \E n \in {of, known[step].of} \ {0} : named = [of |-> n, ok |-> FALSE]
  BY DEF Named, of
<1>3. CASE named = known[step]
  BY <1>1, <1>3 DEF of
<1>4. CASE \E n \in {of, known[step].of} \ {0} : named = [of |-> n, ok |-> FALSE]
  <2>1. PICK n \in {of, known[step].of} \ {0} : named = [of |-> n, ok |-> FALSE]
    BY <1>4
  <2>2. n = of /\ n # 0 /\ n \in 0..MaxPosting
    BY <1>1, <2>1
  <2>3. QED BY <2>1, <2>2 DEF of
<1>5. QED BY <1>2, <1>3, <1>4

(* What a step that was waited for leaves complete.                         *)
LEMMA CheckpointIs ==
  ASSUME BoardInv, NEW step \in Step, Checkpointed(step), Completes(step),
         UNCHANGED <<entry, gen, alive>>
  PROVE  /\ step \notin done /\ entry = "kept" /\ proc.gen = gen /\ ~proc.aborted /\ stat = "running"
         /\ step \in {"analyze", "summary"} => "fetch" \in done
         /\ step = "summary" => "analyze" \in done
         /\ done' = done \cup {step} /\ done' \subseteq Step
         /\ stat' \in Statuses /\ ProcTypes' /\ WorkIsOfTheEntry'
<1>1. Works /\ proc.wait /\ proc.step = step /\ entry = "kept"
  BY DEF Checkpointed, Waits, Stale, Works, Owns
<1>2. /\ step \notin done /\ proc.gen = gen /\ ~proc.aborted /\ stat = "running"
      /\ step \in {"analyze", "summary"} => "fetch" \in done
      /\ step = "summary" => "analyze" \in done
  BY <1>1 DEF BoardInv, WorkIsOfTheEntry, Works, Owns
<1>3. done' = done \cup {step} /\ done' \subseteq Step /\ stat' \in {"ready", "running"}
  BY DEF Completes, BoardInv, BoardTypeOK
<1>4. proc' = [proc EXCEPT !.wait = FALSE]
  BY DEF Completes
<1>5. ProcTypes'
  BY <1>4 DEF BoardInv, ProcTypes
<1>6. ~proc'.wait
  BY <1>4 DEF BoardInv, ProcTypes
<1>7. WorkIsOfTheEntry'
  BY <1>3, <1>6, StepsAre DEF Completes, WorkIsOfTheEntry
<1>8. QED BY <1>1, <1>2, <1>3, <1>5, <1>7 DEF Statuses

(* One generation of the preparation.                                       *)
LEMMA WorkStep ==
  ASSUME BoardAssumption, BoardInv
  PROVE  /\ Pump => BoardInv'
         /\ LoopEnds => BoardInv'
         /\ CopyCv => BoardInv'
         /\ \A step \in Step : StepBegins(step) => BoardInv'
         /\ \A step \in Asks : RunSucceeds(step) => BoardInv'
         /\ FetchDone => BoardInv'
         /\ LanguageDone => BoardInv'
         /\ AnalyzeDone => BoardInv'
         /\ SummaryDone => BoardInv'
         /\ StepFails => BoardInv'
         /\ ProcSettles => BoardInv'
<1>0. MaxGen \in Nat \ {0} /\ MaxCv \in Nat /\ MaxPosting \in Nat /\ MaxAttempts \in Nat
  BY DEF BoardAssumption
<1>a. ProcEnds /\ gen' = gen => ProcTypes' /\ ~Works'
  BY <1>0 DEF ProcEnds, NoProc, ProcTypes, Works
<1>1. Pump => BoardInv'
  <2> SUFFICES ASSUME Pump PROVE BoardInv'
    OBVIOUS
  <2>1. proc' = [on |-> TRUE, gen |-> gen, step |-> "none", wait |-> FALSE, cv |-> 0, aborted |-> FALSE]
    BY DEF Pump, NoProc
  <2>2. alive /\ stat = "queued" /\ entry = "kept" /\ UNCHANGED <<prepVars, open, alive>>
    BY DEF Pump
  <2>3. ProcTypes'
    BY <1>0, <2>1, <2>2 DEF ProcTypes, prepVars, BoardInv, BoardTypeOK
  <2>4. WorkIsOfTheEntry'
    BY <2>1, <2>2 DEF WorkIsOfTheEntry, prepVars
  <2>5. QED BY <2>2, <2>3, <2>4 DEF prepVars, BoardInv, BoardTypeOK, RunsAreCurrent
<1>2. LoopEnds => BoardInv'
  <2> SUFFICES ASSUME LoopEnds PROVE BoardInv'
    OBVIOUS
  <2>1. ProcTypes' /\ ~Works'
    BY <1>a DEF LoopEnds
  <2>2. stat' = "ready" => "summary" \in done
    BY NextIs, StepsAre DEF LoopEnds, BoardInv, WorkIsOfTheEntry
  <2>3. QED
    BY <2>1, <2>2 DEF LoopEnds, BoardInv, BoardTypeOK, RunsAreCurrent, WorkIsOfTheEntry, Statuses
<1>3. CopyCv => BoardInv'
  <2> SUFFICES ASSUME CopyCv PROVE BoardInv'
    OBVIOUS
  <2>1. "copyCv" \in Step /\ Begins("copyCv")
    BY StepsAre DEF CopyCv
  <2>2. /\ attempts' \in [Step -> 0..MaxAttempts]
        /\ proc.on /\ ~proc.wait /\ stat \in {"queued", "running"}
        /\ UNCHANGED <<entry, gen, known, posting, tongue, analysis, open, alive>>
    BY <2>1, BeginsIs DEF CopyCv
  <2>3. CASE /\ cvs < MaxCv /\ Completes("copyCv") /\ cvs' = cvs + 1
             /\ cv' = [id |-> cvs + 1, reason |-> "profile", of |-> 0]
    <3>1. /\ done' = done \cup {"copyCv"} /\ done' \subseteq Step /\ stat' \in {"ready", "running"}
          /\ stat' = "ready" => done' = Step
      BY <2>1, <2>3 DEF Completes, BoardInv, BoardTypeOK
    <3>2. proc' = [proc EXCEPT !.wait = FALSE]
      BY <2>3 DEF Completes
    <3>3. ProcTypes' /\ ~proc'.wait
      BY <2>2, <3>2 DEF ProcTypes, BoardInv
    <3>4. WorkIsOfTheEntry'
      BY <3>1, <3>3, StepsAre DEF WorkIsOfTheEntry
    <3>5. BoardTypeOK'
      BY <1>0, <2>2, <2>3, <3>1 DEF BoardInv, BoardTypeOK, Statuses
    <3>6. RunsAreCurrent'
      BY <2>2, <2>3, <3>1 DEF BoardInv, RunsAreCurrent
    <3>7. QED BY <3>3, <3>4, <3>5, <3>6 DEF BoardInv
  <2>4. CASE stat' \in FailsTo(attempts'["copyCv"]) /\ ProcEnds /\ UNCHANGED <<done, cv, cvs>>
    <3>1. stat' \in {"waiting", "failed", "queued"}
      BY <2>4 DEF FailsTo
    <3>2. ProcTypes' /\ ~Works'
      BY <1>a, <2>2, <2>4
    <3>3. QED
      BY <2>2, <2>4, <3>1, <3>2 DEF BoardInv, BoardTypeOK, RunsAreCurrent, WorkIsOfTheEntry, Statuses
  <2>5. QED BY <2>3, <2>4 DEF CopyCv
<1>4. \A step \in Step : StepBegins(step) => BoardInv'
  <2> SUFFICES ASSUME NEW step \in Step, StepBegins(step) PROVE BoardInv'
    OBVIOUS
  <2>1. /\ Begins(step) /\ stat' = "running"
        /\ UNCHANGED <<entry, gen, done, posting, tongue, cv, cvs, analysis, open, alive>>
    BY DEF StepBegins
  <2>2. /\ attempts' \in [Step -> 0..MaxAttempts]
        /\ entry = "kept" /\ proc.on /\ proc.gen = gen /\ step \notin done
        /\ step \in {"analyze", "summary"} => "fetch" \in done
        /\ step = "summary" => "analyze" \in done
    BY <2>1, BeginsIs
  <2>3. proc' = [proc EXCEPT !.step = step, !.wait = TRUE, !.cv = cv.id]
    BY DEF StepBegins
  <2>4. /\ ProcTypes' /\ proc'.step = step
    BY <2>1, <2>2, <2>3, StepsAre DEF BoardInv, ProcTypes, BoardTypeOK
  <2>5. WorkIsOfTheEntry'
    BY <2>1, <2>2, <2>4 DEF WorkIsOfTheEntry
  <2>6. CASE UNCHANGED known
    <3>1. BoardTypeOK' BY <2>1, <2>2, <2>6 DEF BoardInv, BoardTypeOK, Statuses
    <3>2. RunsAreCurrent' BY <2>1, <2>6 DEF BoardInv, RunsAreCurrent
    <3>3. QED BY <2>4, <2>5, <3>1, <3>2 DEF BoardInv
  <2>7. CASE step \in Asks /\ \E named \in Named(step, IF step = "summary" THEN analysis ELSE posting) :
                                known' = [known EXCEPT ![step] = named]
    <3>1. PICK named \in Named(step, IF step = "summary" THEN analysis ELSE posting) :
                 known' = [known EXCEPT ![step] = named]
      BY <2>7
    <3>2. /\ named \in [of : 0..MaxPosting, ok : BOOLEAN]
          /\ named.of # 0 => named.of = IF step = "summary" THEN analysis ELSE posting
          /\ named.ok => named.of # 0
      BY <2>2, <2>7, <3>1, NamedIs DEF Asks
    <3>3. /\ known' \in [Asks -> [of : 0..MaxPosting, ok : BOOLEAN]]
          /\ \A s \in Asks : known'[s] = IF s = step THEN named ELSE known[s]
      BY <2>7, <3>1, <3>2 DEF BoardInv, BoardTypeOK
    <3>4. BoardTypeOK' BY <2>1, <2>2, <3>3 DEF BoardInv, BoardTypeOK, Statuses
    <3>5. RunsAreCurrent'
      BY <2>1, <2>2, <2>7, <3>2, <3>3 DEF BoardInv, RunsAreCurrent, Asks
    <3>6. QED BY <2>4, <2>5, <3>4, <3>5 DEF BoardInv
  <2>8. QED BY <2>6, <2>7, Zenon DEF StepBegins
<1>5. \A step \in Asks : RunSucceeds(step) => BoardInv'
  <2> SUFFICES ASSUME NEW step \in Asks, RunSucceeds(step) PROVE BoardInv'
    OBVIOUS
  <2>a. /\ known \in [Asks -> [of : 0..MaxPosting, ok : BOOLEAN]] /\ known[step].of # 0
        /\ known' = [known EXCEPT ![step] = [known[step] EXCEPT !.ok = TRUE]]
    BY DEF RunSucceeds, BoardInv, BoardTypeOK
  <2>b. /\ [known[step] EXCEPT !.ok = TRUE] \in [of : 0..MaxPosting, ok : BOOLEAN]
        /\ [known[step] EXCEPT !.ok = TRUE].of = known[step].of
    BY <2>a
  <2>1. known' \in [Asks -> [of : 0..MaxPosting, ok : BOOLEAN]]
    BY <2>a, <2>b
  <2>2. \A s \in Asks : known'[s].of = known[s].of /\ (known'[s].ok => s = step \/ known[s].ok)
    BY <2>a, <2>b
  <2>3. BoardTypeOK' BY <2>1 DEF RunSucceeds, BoardInv, BoardTypeOK
  <2>4. RunsAreCurrent'
    BY <2>a, <2>2 DEF RunSucceeds, BoardInv, RunsAreCurrent, Asks
  <2>5. ProcTypes' /\ WorkIsOfTheEntry'
    BY DEF RunSucceeds, BoardInv, ProcTypes, WorkIsOfTheEntry, Works, Owns
  <2>6. QED BY <2>3, <2>4, <2>5 DEF BoardInv
<1>6. FetchDone => BoardInv'
  <2> SUFFICES ASSUME FetchDone PROVE BoardInv'
    OBVIOUS
  <2>1. /\ "fetch" \in Step /\ Checkpointed("fetch") /\ Completes("fetch")
        /\ UNCHANGED <<entry, gen, attempts, known, tongue, cv, cvs, analysis, open, alive>>
    BY StepsAre DEF FetchDone
  <2>2. /\ "fetch" \notin done /\ done' = done \cup {"fetch"} /\ done' \subseteq Step
        /\ stat' \in Statuses /\ ProcTypes' /\ WorkIsOfTheEntry'
    BY <2>1, CheckpointIs
  <2>3. BoardTypeOK' BY <1>0, <2>1, <2>2 DEF FetchDone, BoardInv, BoardTypeOK
  <2>4. RunsAreCurrent' BY <2>1, <2>2 DEF BoardInv, RunsAreCurrent
  <2>5. QED BY <2>2, <2>3, <2>4 DEF BoardInv
<1>7. LanguageDone => BoardInv'
  <2> SUFFICES ASSUME LanguageDone PROVE BoardInv'
    OBVIOUS
  <2>1. /\ "language" \in Step /\ Checkpointed("language") /\ Completes("language")
        /\ UNCHANGED <<entry, gen, attempts, known, posting, cv, cvs, analysis, open, alive>>
    BY StepsAre DEF LanguageDone
  <2>2. /\ done' = done \cup {"language"} /\ done' \subseteq Step
        /\ stat' \in Statuses /\ ProcTypes' /\ WorkIsOfTheEntry'
    BY <2>1, CheckpointIs
  <2>3. BoardTypeOK' BY <2>1, <2>2 DEF LanguageDone, BoardInv, BoardTypeOK
  <2>4. RunsAreCurrent' BY <2>1, <2>2 DEF BoardInv, RunsAreCurrent
  <2>5. QED BY <2>2, <2>3, <2>4 DEF BoardInv
<1>8. AnalyzeDone => BoardInv'
  <2> SUFFICES ASSUME AnalyzeDone PROVE BoardInv'
    OBVIOUS
  <2>1. /\ "analyze" \in Step /\ Checkpointed("analyze") /\ Completes("analyze")
        /\ known["analyze"].ok /\ analysis' = known["analyze"].of
        /\ UNCHANGED <<entry, gen, attempts, known, posting, tongue, cv, cvs, open, alive>>
    BY StepsAre DEF AnalyzeDone
  <2>2. /\ "analyze" \notin done /\ "fetch" \in done
        /\ done' = done \cup {"analyze"} /\ done' \subseteq Step
        /\ stat' \in Statuses /\ ProcTypes' /\ WorkIsOfTheEntry'
    BY <2>1, CheckpointIs
  <2>3. analysis' = posting /\ analysis' \in 0..MaxPosting
    BY <2>1 DEF BoardInv, BoardTypeOK, RunsAreCurrent, Asks
  <2>4. BoardTypeOK' BY <2>1, <2>2, <2>3 DEF BoardInv, BoardTypeOK
  <2>5. RunsAreCurrent' BY <2>1, <2>2, <2>3 DEF BoardInv, RunsAreCurrent
  <2>6. QED BY <2>2, <2>4, <2>5 DEF BoardInv
<1>9. SummaryDone => BoardInv'
  <2> SUFFICES ASSUME SummaryDone PROVE BoardInv'
    OBVIOUS
  <2>1. /\ "summary" \in Step /\ Checkpointed("summary") /\ Completes("summary")
        /\ known["summary"].ok /\ cvs < MaxCv /\ cvs' = cvs + 1
        /\ cv' = [id |-> cvs + 1, reason |-> "tailored", of |-> known["summary"].of]
        /\ UNCHANGED <<entry, gen, attempts, known, posting, tongue, analysis, open, alive>>
    BY StepsAre DEF SummaryDone
  <2>2. /\ "analyze" \in done /\ done' = done \cup {"summary"} /\ done' \subseteq Step
        /\ stat' \in Statuses /\ ProcTypes' /\ WorkIsOfTheEntry'
    BY <2>1, CheckpointIs
  <2>3. cv'.of = analysis /\ cv'.of \in 0..MaxPosting /\ cvs + 1 \in 0..MaxCv
    BY <1>0, <2>1 DEF BoardInv, BoardTypeOK, RunsAreCurrent, Asks
  <2>4. BoardTypeOK' BY <2>1, <2>2, <2>3 DEF BoardInv, BoardTypeOK
  <2>5. RunsAreCurrent' BY <2>1, <2>2, <2>3 DEF BoardInv, RunsAreCurrent
  <2>6. QED BY <2>2, <2>4, <2>5 DEF BoardInv
<1>10. StepFails => BoardInv'
  <2> SUFFICES ASSUME StepFails PROVE BoardInv'
    OBVIOUS
  <2>1. stat' \in {"waiting", "failed", "queued"}
    BY DEF StepFails, FailsTo
  <2>2. ProcTypes' /\ ~Works'
    BY <1>a DEF StepFails
  <2>3. QED
    BY <2>1, <2>2 DEF StepFails, BoardInv, BoardTypeOK, RunsAreCurrent, WorkIsOfTheEntry, Statuses
<1>11. ProcSettles => BoardInv'
  <2> SUFFICES ASSUME ProcSettles PROVE BoardInv'
    OBVIOUS
  <2>1. ProcTypes' /\ ~Works'
    BY <1>a DEF ProcSettles, prepVars
  <2>2. QED
    BY <2>1 DEF ProcSettles, prepVars, BoardInv, BoardTypeOK, RunsAreCurrent, WorkIsOfTheEntry
<1>12. QED BY <1>1, <1>2, <1>3, <1>4, <1>5, <1>6, <1>7, <1>8, <1>9, <1>10, <1>11

(* Every step of the board keeps the invariant, and what an older generation *)
(* does reaches nothing.                                                    *)
LEMMA BoardStepHolds ==
  ASSUME BoardAssumption, BoardInv, [BoardNext \/ BoardCrash \/ BoardRestart]_boardEntryVars
  PROVE  BoardInv'
<1>0. MaxGen \in Nat \ {0} /\ MaxCv \in Nat
  BY DEF BoardAssumption
<1>1. BoardNext => BoardInv'
  BY AskedStep, WorkStep, Zenon DEF BoardNext
<1>2. BoardCrash => BoardInv'
  <2> SUFFICES ASSUME BoardCrash PROVE BoardInv'
    OBVIOUS
  <2>1. UNCHANGED prepVars /\ open' = open /\ alive' = FALSE /\ proc' = NoProc
    BY DEF BoardCrash
  <2>2. ProcTypes' /\ ~Works'
    BY <1>0, <2>1 DEF NoProc, ProcTypes, Works
  <2>3. QED
    BY <2>1, <2>2 DEF prepVars, BoardInv, BoardTypeOK, RunsAreCurrent, WorkIsOfTheEntry
<1>3. BoardRestart => BoardInv'
  <2> SUFFICES ASSUME BoardRestart PROVE BoardInv'
    OBVIOUS
  <2>1. /\ stat' \in Statuses /\ stat' \in {stat, "queued"}
        /\ UNCHANGED <<entry, gen, done, attempts, known, posting, tongue, cv, cvs, analysis, proc, open>>
    BY DEF BoardRestart, BoardInv, BoardTypeOK, Statuses
  <2>2. ~proc.on /\ ~proc'.on /\ ~proc.wait /\ ~proc'.wait
    BY <2>1 DEF BoardRestart, BoardInv, ProcTypes
  <2>3. ProcTypes' /\ ~Works'
    BY <2>1, <2>2 DEF BoardInv, ProcTypes, Works
  <2>4. alive' \in BOOLEAN
    BY Zenon DEF BoardRestart
  <2>5. BoardTypeOK'
    BY <2>1, <2>4 DEF BoardInv, BoardTypeOK
  <2>6. QED
    BY <2>1, <2>3, <2>5 DEF BoardInv, RunsAreCurrent, WorkIsOfTheEntry
<1>4. UNCHANGED boardEntryVars => BoardInv'
  BY DEF boardEntryVars, prepVars, BoardInv, BoardTypeOK, ProcTypes, RunsAreCurrent,
         WorkIsOfTheEntry, Works, Owns
<1>5. QED BY <1>1, <1>2, <1>3, <1>4

(* What is left complete is current, by the order of the steps.             *)
LEMMA CompleteHolds ==
  ASSUME BoardInv
  PROVE  BoardTypeOK /\ CompleteIsCurrent
BY DEF BoardInv, RunsAreCurrent, WorkIsOfTheEntry, CompleteIsCurrent

(* What writes into the entry is the work of its generation.                *)
LEMMA OldWorkStep ==
  ASSUME BoardAssumption, BoardInv, [BoardNext \/ BoardCrash \/ BoardRestart]_boardEntryVars
  PROVE  OldWorkWritesNothing
<1>1. UNCHANGED <<cv, posting, analysis>> => OldWorkWritesNothing
  BY DEF OldWorkWritesNothing
<1>2. gen' = gen + 1 => OldWorkWritesNothing
  BY DEF OldWorkWritesNothing
<1>3. Works /\ stat \in {"queued", "running"} => OldWorkWritesNothing
  BY DEF OldWorkWritesNothing, Works, Owns
<1>4. ASSUME NEW step \in Step, Checkpointed(step)
      PROVE  Works /\ stat \in {"queued", "running"}
  BY <1>4 DEF Checkpointed, Waits, Stale, Works, BoardInv, WorkIsOfTheEntry
<1>5. Add \/ Pump \/ LoopEnds \/ StepFails \/ ProcSettles \/ OpenEditor \/ Drop \/ BoardCrash \/ BoardRestart
        \/ UNCHANGED boardEntryVars => UNCHANGED <<cv, posting, analysis>>
  BY DEF Add, Pump, LoopEnds, StepFails, ProcSettles, OpenEditor, Drop, BoardCrash, BoardRestart,
         boardEntryVars, prepVars
<1>6. /\ \A step \in Step : StepBegins(step) => UNCHANGED <<cv, posting, analysis>>
      /\ \A step \in Asks : RunSucceeds(step) => UNCHANGED <<cv, posting, analysis>>
  BY DEF StepBegins, RunSucceeds
<1>7. /\ Pause \/ Resume \/ Configure \/ PastePosting \/ UpdateSummary => gen' = gen + 1
      /\ \A step \in {"fetch", "copyCv", "summary"} : Again(step) => gen' = gen + 1
  BY DEF Pause, Resume, Configure, PastePosting, UpdateSummary, Again, ResetFrom, Begun
<1>8. CopyCv => OldWorkWritesNothing
  <2>1. CopyCv => Works /\ stat \in {"queued", "running"}
    BY BeginsIs, StepsAre DEF CopyCv, Works, Owns
  <2>2. QED BY <1>3, <2>1
<1>9. FetchDone \/ LanguageDone \/ AnalyzeDone \/ SummaryDone => OldWorkWritesNothing
  BY <1>3, <1>4, StepsAre DEF FetchDone, LanguageDone, AnalyzeDone, SummaryDone
<1>10. QED
  BY <1>1, <1>2, <1>5, <1>6, <1>7, <1>8, <1>9, Zenon DEF BoardNext

(* Whatever is asked, begun anew, lost or answered late: a step that reads     *)
(* complete is of what the entry holds (runtime/board.ts, process and control).*)
THEOREM PreparedOfWhatItHolds ==
  ASSUME BoardAssumption
  PROVE  BoardSpec => [](BoardTypeOK /\ CompleteIsCurrent) /\ [][OldWorkWritesNothing]_boardEntryVars
<1>1. BoardInit => BoardInv
  BY BoardInvHolds
<1>2. BoardInv /\ [BoardNext \/ BoardCrash \/ BoardRestart]_boardEntryVars =>
        BoardInv' /\ [OldWorkWritesNothing]_boardEntryVars
  BY BoardStepHolds, OldWorkStep
<1>3. BoardInv => BoardTypeOK /\ CompleteIsCurrent
  BY CompleteHolds
<1>4. QED BY <1>1, <1>2, <1>3, PTL DEF BoardSpec

-----------------------------------------------------------------------------
(***************************************************************************)
(* The agent that fills in the form of a prepared entry.                   *)
(***************************************************************************)

Draft == [id : 1..2, gen : 0..MaxAgentGen, obs : Nat, page : SUBSET Features,
          own : BOOLEAN, aborted : BOOLEAN]
Planned == {"none", "pause", "navigate", "fill", "attach", "review"}

AgentTypes ==
  /\ AgentTypeOK
  /\ seen \in [obs : Nat, page : SUBSET Features] /\ action \in [kind : Planned, obs : Nat]
  /\ drafts \subseteq Draft

(* No two drafts have one run; one that was not aborted is the one that is   *)
(* registered, and of what the session stored last.                         *)
OneWorks ==
  /\ \A d, e \in drafts : d.id = e.id => d = e
  /\ \A d \in drafts : ~d.aborted => active = d.id
  /\ \A d \in drafts : ~d.aborted /\ d.own => d.obs = seen.obs

AgentInv == AgentTypes /\ OneWorks
AgentBounds == BoardAssumption /\ AgentAssumption

LEMMA AgentInvHolds ==
  ASSUME AgentBounds, AgentInit
  PROVE  AgentInv
<1>1. MaxAgentGen \in Nat /\ MaxCv \in Nat /\ MaxIterations \in Nat
  BY DEF AgentBounds, AgentAssumption, BoardAssumption
<1>2. filled \in BOOLEAN
  BY Zenon DEF AgentInit
<1>3. /\ agent = "none" /\ agentGen = 0 /\ agentCv = 0 /\ seen = [obs |-> 0, page |-> {}]
      /\ action = [kind |-> "none", obs |-> 0] /\ steps = 0 /\ drafts = {} /\ active = 0
  BY DEF AgentInit, NoSeen, NoAction
<1>4. AgentTypeOK
  BY <1>1, <1>2, <1>3 DEF AgentTypeOK
<1>5. QED BY <1>3, <1>4 DEF AgentInv, AgentTypes, OneWorks, Planned

LEMMA OneDraftHolds ==
  ASSUME AgentInv
  PROVE  AgentTypeOK /\ OneDraft
<1>1. \A d, e \in drafts : ~d.aborted /\ ~e.aborted => d = e /\ active = d.id
  BY DEF AgentInv, OneWorks
<1>2. QED BY <1>1 DEF AgentInv, AgentTypes, OneDraft

(* An action that is planned.                                              *)
LEMMA PlansIs ==
  ASSUME AgentInv, NEW kind \in Planned \ {"none"}, NEW obs \in Nat, Plans(kind, obs)
  PROVE  /\ action' \in [kind : Planned, obs : Nat] /\ action'.kind = kind /\ action'.obs = obs
         /\ agent' \in {"none", "running", "paused", "needsInput", "failed", "review", "cancelled"}
BY DEF Plans, AgentInv, AgentTypes, AgentTypeOK, Planned

LEMMA DecidesIs ==
  ASSUME NEW page, NEW asked \in BOOLEAN
  PROVE  /\ Decides(page, asked) \in (Planned \ {"none"}) \cup {"draft"}
         /\ AfterDraft(page) \in Planned \ {"none"}
<1>1. AfterDraft(page) \in Planned \ {"none"}
  BY DEF AfterDraft, Planned
<1>2. Decides(page, asked) \in (Planned \ {"none"}) \cup {"draft"}
  BY <1>1 DEF Decides, Planned
<1>3. QED BY <1>1, <1>2

(* A draft that is dropped, with the registration it had.                   *)
LEMMA DroppedIs ==
  ASSUME AgentInv, NEW d \in drafts, Dropped(d), Frees(d), UNCHANGED seen
  PROVE  OneWorks' /\ drafts' \subseteq Draft /\ active' \in 0..2
<1>1. drafts' \subseteq drafts /\ d \notin drafts' /\ active' = IF active = d.id THEN 0 ELSE active
  BY DEF Dropped, Frees
<1>2. ASSUME NEW e \in drafts', ~e.aborted PROVE active' = e.id
  <2>1. e \in drafts /\ e # d /\ active = e.id
    BY <1>1, <1>2 DEF AgentInv, OneWorks
  <2>2. e.id # d.id
    BY <2>1 DEF AgentInv, OneWorks
  <2>3. QED BY <1>1, <2>1, <2>2
<1>3. QED BY <1>1, <1>2 DEF AgentInv, AgentTypes, AgentTypeOK, OneWorks

(* What is registered is aborted, and registered no longer.                 *)
LEMMA CancelledIs ==
  ASSUME AgentInv, CancelEntry, seen'.obs = seen.obs
  PROVE  /\ OneWorks' /\ drafts' \subseteq Draft /\ active' = 0
         /\ \A d \in drafts' : d.aborted
<1> DEFINE Cut(d) == IF d.id = active THEN [d EXCEPT !.aborted = TRUE] ELSE d
<1>1. drafts' = {Cut(d) : d \in drafts} /\ active' = 0
  BY DEF CancelEntry
<1>2. ASSUME NEW d \in drafts
      PROVE  Cut(d) \in Draft /\ Cut(d).id = d.id /\ Cut(d).aborted
  <2>1. d \in Draft /\ (~d.aborted => active = d.id)
    BY DEF AgentInv, AgentTypes, OneWorks
  <2>2. CASE d.id = active
    BY <2>1, <2>2 DEF Draft
  <2>3. CASE d.id # active
    BY <2>1, <2>3 DEF Draft
  <2>4. QED BY <2>2, <2>3
<1> HIDE DEF Cut
<1>3. \A d, e \in drafts : Cut(d).id = Cut(e).id => Cut(d) = Cut(e)
  BY <1>2 DEF AgentInv, OneWorks
<1>4. /\ \A d, e \in drafts' : d.id = e.id => d = e
      /\ \A d \in drafts' : d.aborted
  <2>1. ASSUME NEW d \in drafts', NEW e \in drafts', d.id = e.id PROVE d = e
    <3>1. PICK c \in drafts : d = Cut(c)
      BY <1>1
    <3>2. PICK k \in drafts : e = Cut(k)
      BY <1>1
    <3>3. QED BY <1>3, <2>1, <3>1, <3>2
  <2>2. QED BY <1>1, <1>2, <2>1, Zenon
<1>5. drafts' \subseteq Draft
  BY <1>1, <1>2, Zenon
<1>6. QED BY <1>1, <1>4, <1>5 DEF OneWorks

(* What the agent and the browser do.                                       *)
LEMMA AgentStepHolds ==
  ASSUME AgentBounds, BoardInv, AgentInv, AgentStep
  PROVE  AgentInv'
<1>0. /\ MaxAgentGen \in Nat \ {0} /\ MaxCv \in Nat /\ MaxIterations \in Nat /\ Pages \subseteq SUBSET Features
      /\ seen.obs \in Nat /\ seen.obs + 1 \in Nat /\ cv.id \in 0..MaxCv
  BY DEF AgentBounds, AgentAssumption, BoardAssumption, AgentInv, AgentTypes, BoardInv, BoardTypeOK
<1>1. ASSUME AgentStart PROVE AgentInv'
  <2>1. /\ agent' = "running" /\ agentGen' = 1 /\ agentCv' = cv.id /\ seen' = [obs |-> 0, page |-> {}]
        /\ action' = [kind |-> "none", obs |-> 0] /\ steps' = 0 /\ active' = active
        /\ drafts' = {[d EXCEPT !.own = FALSE] : d \in drafts}
    BY <1>1 DEF AgentStart, NoSeen, NoAction
  <2>2. filled' \in BOOLEAN
    BY <1>1, Zenon DEF AgentStart
  <2>3. \A d \in drafts : /\ [d EXCEPT !.own = FALSE] \in Draft /\ [d EXCEPT !.own = FALSE].id = d.id
                          /\ [d EXCEPT !.own = FALSE].aborted = d.aborted /\ ~[d EXCEPT !.own = FALSE].own
    BY DEF AgentInv, AgentTypes, Draft
  <2>4. AgentTypeOK'
    BY <1>0, <2>1, <2>2 DEF AgentInv, AgentTypes, AgentTypeOK
  <2>5. AgentTypes'
    BY <2>1, <2>3, <2>4 DEF AgentTypes, Planned
  <2>6. OneWorks'
    <3>1. ASSUME NEW d \in drafts', NEW e \in drafts', d.id = e.id PROVE d = e
      <4>1. PICK c \in drafts : d = [c EXCEPT !.own = FALSE]
        BY <2>1
      <4>2. PICK k \in drafts : e = [k EXCEPT !.own = FALSE]
        BY <2>1
      <4>3. c = k
        BY <2>3, <3>1, <4>1, <4>2 DEF AgentInv, OneWorks
      <4>4. QED BY <4>1, <4>2, <4>3
    <3>2. ASSUME NEW d \in drafts', ~d.aborted PROVE active' = d.id /\ ~d.own
      <4>1. PICK c \in drafts : d = [c EXCEPT !.own = FALSE]
        BY <2>1
      <4>2. QED BY <2>1, <2>3, <3>2, <4>1 DEF AgentInv, OneWorks
    <3>3. QED BY <3>1, <3>2 DEF OneWorks
  <2>7. QED BY <2>5, <2>6 DEF AgentInv
<1>2. ASSUME Refused PROVE AgentInv'
  <2>1. /\ Plans("pause", seen.obs + 1)
        /\ UNCHANGED <<agentGen, agentCv, seen, filled, steps, drafts, active>>
    BY <1>2 DEF Refused
  <2>2. /\ action' \in [kind : Planned, obs : Nat]
        /\ agent' \in {"none", "running", "paused", "needsInput", "failed", "review", "cancelled"}
    BY <1>0, <2>1, PlansIs DEF Planned
  <2>3. QED BY <2>1, <2>2 DEF AgentInv, AgentTypes, AgentTypeOK, OneWorks, Planned
<1>3. ASSUME NEW page \in Pages, NEW asked \in BOOLEAN, Observe(page, asked) PROVE AgentInv'
  <2>1. /\ active = 0 /\ steps < MaxIterations /\ steps' = steps + 1
        /\ seen' = [obs |-> seen.obs + 1, page |-> page]
        /\ UNCHANGED <<agentGen, agentCv, filled>>
    BY <1>3 DEF Observe
  <2>2. \A d \in drafts : d.aborted
    BY <2>1 DEF AgentInv, OneWorks, AgentTypes, Draft
  <2>3. seen' \in [obs : Nat, page : SUBSET Features] /\ seen'.page \subseteq Features /\ steps' \in 0..MaxIterations
    BY <1>0, <2>1 DEF AgentInv, AgentTypes, AgentTypeOK
  <2>4. CASE Decides(page, asked) = "draft"
    <3>1. PICK id \in 1..2 :
            /\ ~\E d \in drafts : d.id = id
            /\ drafts' = drafts \cup {[id |-> id, gen |-> agentGen, obs |-> seen.obs + 1, page |-> page,
                                       own |-> TRUE, aborted |-> FALSE]}
            /\ active' = id /\ action' = NoAction /\ UNCHANGED agent
      BY <1>3, <2>4 DEF Observe
    <3> DEFINE begun == [id |-> id, gen |-> agentGen, obs |-> seen.obs + 1, page |-> page,
                         own |-> TRUE, aborted |-> FALSE]
    <3>2. begun \in Draft /\ begun.id = id /\ begun.obs = seen'.obs
      BY <1>0, <2>1 DEF Draft, AgentInv, AgentTypes, AgentTypeOK
    <3>a. drafts' = drafts \cup {begun} /\ active' = id
      BY <3>1
    <3>b. action' = [kind |-> "none", obs |-> 0]
      BY <3>1 DEF NoAction
    <3> HIDE DEF begun
    <3>3. drafts' \subseteq Draft /\ active' \in 0..2
      BY <3>2, <3>a DEF AgentInv, AgentTypes
    <3>4. OneWorks'
      <4>1. \A d \in drafts' : (d \in drafts /\ d.aborted /\ d.id # id) \/ d = begun
        BY <2>2, <3>1, <3>a
      <4>2. QED BY <3>2, <3>a, <4>1 DEF AgentInv, OneWorks
    <3>5. QED BY <2>1, <2>3, <3>1, <3>b, <3>3, <3>4 DEF AgentInv, AgentTypes, AgentTypeOK, Planned
  <2>5. CASE Decides(page, asked) # "draft"
    <3>1. Plans(Decides(page, asked), seen.obs + 1) /\ UNCHANGED <<drafts, active>>
      BY <1>3, <2>5 DEF Observe
    <3>2. /\ action' \in [kind : Planned, obs : Nat]
          /\ agent' \in {"none", "running", "paused", "needsInput", "failed", "review", "cancelled"}
      BY <1>0, <2>5, <3>1, PlansIs, DecidesIs
    <3>3. QED
      BY <2>1, <2>2, <2>3, <3>1, <3>2 DEF AgentInv, AgentTypes, AgentTypeOK, OneWorks, Planned
  <2>6. QED BY <2>4, <2>5
<1>4. ASSUME NEW d \in drafts, DraftOfOldCv(d) \/ DraftReturns(d) PROVE AgentInv'
  <2>1. d \in Draft /\ d.obs \in Nat
    BY DEF AgentInv, AgentTypes, Draft
  <2>2. \E kind \in Planned \ {"none"} : Plans(kind, d.obs)
    <3>1. "pause" \in Planned \ {"none"} /\ "fill" \in Planned \ {"none"}
      BY DEF Planned
    <3>2. AfterDraft(d.page) \in Planned \ {"none"}
      BY DecidesIs
    <3>3. Plans("pause", d.obs) \/ Plans("fill", d.obs) \/ Plans(AfterDraft(d.page), d.obs)
      BY <1>4 DEF DraftOfOldCv, DraftReturns
    <3>4. QED BY <3>1, <3>2, <3>3, Zenon
  <2>3. /\ action' \in [kind : Planned, obs : Nat]
        /\ agent' \in {"none", "running", "paused", "needsInput", "failed", "review", "cancelled"}
    BY <2>1, <2>2, PlansIs
  <2>4. Dropped(d) /\ Frees(d) /\ UNCHANGED <<agentGen, agentCv, seen, steps>>
    BY <1>4 DEF DraftOfOldCv, DraftReturns
  <2>5. filled' \in BOOLEAN
    BY <1>4, Zenon DEF DraftOfOldCv, DraftReturns, AgentInv, AgentTypes, AgentTypeOK
  <2>6. OneWorks' /\ drafts' \subseteq Draft /\ active' \in 0..2
    BY <2>4, DroppedIs
  <2>7. QED BY <2>3, <2>4, <2>5, <2>6 DEF AgentInv, AgentTypes, AgentTypeOK, Planned
<1>5. ASSUME NEW d \in drafts, DraftFails(d) \/ DraftIgnored(d) PROVE AgentInv'
  <2>1. /\ Dropped(d) /\ Frees(d) /\ UNCHANGED <<agentGen, agentCv, seen, action, filled, steps>>
        /\ agent' \in {"failed", agent}
    BY <1>5 DEF DraftFails, DraftIgnored
  <2>2. OneWorks' /\ drafts' \subseteq Draft /\ active' \in 0..2
    BY <2>1, DroppedIs
  <2>3. QED BY <2>1, <2>2 DEF AgentInv, AgentTypes, AgentTypeOK
<1>6. ASSUME NEW ok \in BOOLEAN, Report(ok) PROVE AgentInv'
  <2>1. /\ agent' \in {"needsInput", "review", agent}
        /\ UNCHANGED <<agentGen, agentCv, seen, action, filled, steps, drafts, active>>
    BY <1>6 DEF Report
  <2>2. QED BY <2>1 DEF AgentInv, AgentTypes, AgentTypeOK, OneWorks
<1>7. ASSUME NEW what \in {"paused", "running", "cancelled"}, Control(what) PROVE AgentInv'
  <2>1. /\ CancelEntry /\ agentGen < MaxAgentGen /\ agentGen' = agentGen + 1 /\ agent' = what
        /\ action' = [kind |-> "none", obs |-> 0] /\ seen' = [seen EXCEPT !.page = {}]
        /\ steps' = (IF what = "running" THEN 0 ELSE steps) /\ agentCv' = agentCv
    BY <1>7 DEF Control, NoAction
  <2>2. filled' \in BOOLEAN
    BY <1>7, Zenon DEF Control
  <2>3. seen' \in [obs : Nat, page : SUBSET Features] /\ seen'.obs = seen.obs /\ seen'.page \subseteq Features
    BY <2>1 DEF AgentInv, AgentTypes
  <2>4. OneWorks' /\ drafts' \subseteq Draft /\ active' = 0
    BY <2>1, <2>3, CancelledIs
  <2>5. QED BY <1>0, <2>1, <2>2, <2>3, <2>4 DEF AgentInv, AgentTypes, AgentTypeOK, Planned
<1>8. ASSUME ResumeRefused PROVE AgentInv'
  <2>1. CancelEntry /\ UNCHANGED <<agent, agentGen, agentCv, seen, action, filled, steps>>
    BY <1>8 DEF ResumeRefused
  <2>2. OneWorks' /\ drafts' \subseteq Draft /\ active' = 0
    BY <2>1, CancelledIs
  <2>3. QED BY <2>1, <2>2 DEF AgentInv, AgentTypes, AgentTypeOK
<1>9. QED
  BY <1>1, <1>2, <1>3, <1>4, <1>5, <1>6, <1>7, <1>8, Zenon DEF AgentStep

(* Every step of the agent beside the board.                                *)
LEMMA AgentNextHolds ==
  ASSUME AgentBounds, BoardInv, AgentInv, [AgentNext]_<<boardEntryVars, agentVars>>
  PROVE  BoardInv' /\ AgentInv'
<1>0. BoardAssumption /\ MaxAgentGen \in Nat \ {0}
  BY DEF AgentBounds, AgentAssumption
<1>1. ASSUME AgentStep PROVE UNCHANGED boardEntryVars
  BY <1>1 DEF AgentStep, AgentStart, Refused, Observe, DraftOfOldCv, DraftReturns, DraftFails,
              DraftIgnored, Report, Control, ResumeRefused
<1>2. ASSUME UNCHANGED agentVars PROVE AgentInv'
  BY <1>2 DEF agentVars, AgentInv, AgentTypes, AgentTypeOK, OneWorks
<1>3. ASSUME AgentStep PROVE BoardInv' /\ AgentInv'
  BY <1>0, <1>1, <1>3, AgentStepHolds, BoardStepHolds
<1>4. ASSUME BoardStep PROVE BoardInv' /\ AgentInv'
  <2>1. BoardInv'
    BY <1>0, <1>4, BoardStepHolds DEF BoardStep
  <2>2. CASE CancelEntry /\ UNCHANGED <<agent, agentGen, agentCv, seen, action, filled, steps>>
    <3>1. OneWorks' /\ drafts' \subseteq Draft /\ active' = 0
      BY <2>2, CancelledIs
    <3>2. QED BY <2>1, <2>2, <3>1 DEF AgentInv, AgentTypes, AgentTypeOK
  <2>3. QED BY <1>2, <1>4, <2>1, <2>2 DEF BoardStep
<1>5. ASSUME AgentCrash PROVE BoardInv' /\ AgentInv'
  <2>1. BoardInv'
    BY <1>0, <1>5, BoardStepHolds DEF AgentCrash
  <2>2. drafts' = {} /\ active' = 0 /\ UNCHANGED <<agent, agentGen, agentCv, seen, action, filled, steps>>
    BY <1>5 DEF AgentCrash
  <2>3. QED BY <2>1, <2>2 DEF AgentInv, AgentTypes, AgentTypeOK, OneWorks
<1>6. ASSUME AgentRestart PROVE BoardInv' /\ AgentInv'
  <2>1. BoardInv'
    BY <1>0, <1>6, BoardStepHolds DEF AgentRestart
  <2>2. UNCHANGED <<agentCv, seen, filled, steps, drafts, active>>
    BY <1>6 DEF AgentRestart
  <2>3. /\ agentGen' \in 0..MaxAgentGen /\ agent' \in {"paused", agent}
        /\ action' \in {action, [kind |-> "none", obs |-> 0]}
    BY <1>0, <1>6 DEF AgentRestart, AgentInv, AgentTypes, AgentTypeOK, NoAction
  <2>4. QED BY <2>1, <2>2, <2>3 DEF AgentInv, AgentTypes, AgentTypeOK, OneWorks, Planned
<1>7. ASSUME UNCHANGED <<boardEntryVars, agentVars>> PROVE BoardInv' /\ AgentInv'
  BY <1>0, <1>2, <1>7, BoardStepHolds
<1>8. QED BY <1>3, <1>4, <1>5, <1>6, <1>7 DEF AgentNext

(* What the browser is told to do is of what it showed last, in its generation. *)
LEMMA ActsStep ==
  ASSUME AgentBounds, BoardInv, AgentInv, [AgentNext]_<<boardEntryVars, agentVars>>
  PROVE  ActsOnWhatItSees
<1>1. action' = action \/ action'.kind \in {"none", "pause"} => ActsOnWhatItSees
  BY DEF ActsOnWhatItSees
<1>2. ASSUME NEW page \in Pages, NEW asked \in BOOLEAN, Observe(page, asked) PROVE ActsOnWhatItSees
  <2>1. /\ agent = "running" /\ agentCv = cv.id /\ seen'.obs = seen.obs + 1
        /\ drafts \subseteq drafts'
        /\ action'.kind \in {"none"} \/ action'.obs = seen.obs + 1
    <3>1. agent = "running" /\ agentCv = cv.id /\ seen' = [obs |-> seen.obs + 1, page |-> page]
      BY <1>2 DEF Observe, CvHolds
    <3>2. CASE Decides(page, asked) = "draft"
      BY <1>2, <3>1, <3>2 DEF Observe, NoAction
    <3>3. CASE Decides(page, asked) # "draft"
      BY <1>2, <3>1, <3>3 DEF Observe, Plans
    <3>4. QED BY <3>2, <3>3
  <2>2. QED BY <2>1 DEF ActsOnWhatItSees
<1>3. ASSUME NEW d \in drafts, DraftReturns(d) PROVE ActsOnWhatItSees
  <2>1. /\ agentCv = cv.id /\ agent = "running" /\ d.gen = agentGen /\ ~d.aborted /\ d.own
        /\ action'.obs = d.obs /\ seen' = seen /\ drafts' = drafts \ {d}
    BY <1>3 DEF DraftReturns, CvHolds, Current, Plans, Dropped
  <2>2. d.obs = seen.obs
    BY <2>1 DEF AgentInv, OneWorks
  <2>3. QED BY <2>1, <2>2 DEF ActsOnWhatItSees
<1>4. AgentStart \/ Refused \/ (\E ok \in BOOLEAN : Report(ok)) \/ ResumeRefused
        \/ (\E what \in {"paused", "running", "cancelled"} : Control(what))
        => action' = action \/ action'.kind \in {"none", "pause"}
  BY DEF AgentStart, Refused, Report, ResumeRefused, Control, Plans, NoAction
<1>5. \A d \in drafts : DraftOfOldCv(d) \/ DraftFails(d) \/ DraftIgnored(d)
        => action' = action \/ action'.kind \in {"none", "pause"}
  BY DEF DraftOfOldCv, DraftFails, DraftIgnored, Plans
<1>6. BoardStep \/ AgentCrash \/ AgentRestart \/ UNCHANGED <<boardEntryVars, agentVars>>
        => action' = action \/ action'.kind \in {"none", "pause"}
  BY DEF BoardStep, AgentCrash, AgentRestart, agentVars, NoAction
<1>7. AgentStep => ActsOnWhatItSees
  BY <1>1, <1>2, <1>3, <1>4, <1>5, Zenon DEF AgentStep
<1>8. QED BY <1>1, <1>6, <1>7 DEF AgentNext

(* The board beside the agent takes steps of its own.                        *)
LEMMA BoardBeside ==
  ASSUME [AgentNext]_<<boardEntryVars, agentVars>>
  PROVE  [BoardNext \/ BoardCrash \/ BoardRestart]_boardEntryVars
<1>1. ASSUME AgentStep PROVE UNCHANGED boardEntryVars
  BY <1>1 DEF AgentStep, AgentStart, Refused, Observe, DraftOfOldCv, DraftReturns, DraftFails,
              DraftIgnored, Report, Control, ResumeRefused
<1>2. QED BY <1>1 DEF AgentNext, BoardStep, AgentCrash, AgentRestart

(* One draft at a time works for a session, and the browser is told to act only *)
(* on what it showed (runtime/application-agent.ts).                         *)
THEOREM OneDraftWorks ==
  ASSUME AgentBounds
  PROVE  AgentSpec => /\ [](AgentTypeOK /\ CompleteIsCurrent /\ OneDraft)
                      /\ [][ActsOnWhatItSees]_<<boardEntryVars, agentVars>>
<1>1. BoardInit /\ AgentInit => BoardInv /\ AgentInv
  BY BoardInvHolds, AgentInvHolds DEF AgentBounds
<1>2. BoardInv /\ AgentInv /\ [AgentNext]_<<boardEntryVars, agentVars>> =>
        BoardInv' /\ AgentInv' /\ [ActsOnWhatItSees]_<<boardEntryVars, agentVars>>
  BY AgentNextHolds, ActsStep
<1>3. BoardInv /\ AgentInv => AgentTypeOK /\ CompleteIsCurrent /\ OneDraft
  BY CompleteHolds, OneDraftHolds
<1>4. QED BY <1>1, <1>2, <1>3, PTL DEF AgentSpec

-----------------------------------------------------------------------------
(***************************************************************************)
(* What the runs of a conversation are told of it.                         *)
(***************************************************************************)
MessageRecord == [role : {"user", "assistant"}, of : Runs \cup {"none"}]
KeySet == ({"run"} \X Runs) \cup ({"msg"} \X Nat)
Entry == [kind : {"history"}, key : KeySet] \cup [kind : {"summary"}, through : Nat]
           \cup [kind : {"piece"}, piece : SUBSET Atoms]
Given == [keys : SUBSET KeySet, through : Nat, atoms : SUBSET Atoms]
RunRow == [state : {"none", "open", "suspended", "closed", "interrupted"},
           walk : {"none", "begun", "assembled", "asking"}, given : Given,
           picks : SUBSET Atoms, entries : SUBSET Entry, reached : SUBSET Atoms]
Fold == [through : 0..MaxMessages, atoms : SUBSET Atoms]

MemoryTypes ==
  /\ walls \subseteq Pieces /\ Cardinality(walls) <= MaxExclusions
  /\ messages \in Seq(MessageRecord) /\ Len(messages) <= MaxMessages
  /\ run \in [Runs -> RunRow]
  /\ note \in [settled : BOOLEAN, through : 0..MaxMessages, atoms : SUBSET Atoms]
  /\ folds \subseteq Fold /\ IsFiniteSet(folds) /\ Cardinality(folds) <= MaxFolds

(* What the answers up to a place, and those of some keys, derive from.    *)
OfAnswers(last) == UNION {Derives(Key(i)) : i \in {j \in Answers : j <= last}}
OfKeys(keys) == UNION {Derives(k) : k \in keys}

(* A note and a fold are of the answers up to the one they name, and what a  *)
(* run was given is of the answers its row names.                           *)
DerivesFromAnswers ==
  /\ note.atoms \subseteq OfAnswers(note.through)
  /\ \A fold \in folds : fold.atoms \subseteq OfAnswers(fold.through)
  /\ \A r \in Runs :
       run[r].given.atoms \subseteq OfKeys(run[r].given.keys) \cup OfAnswers(run[r].given.through)

(* What a run that keeps a record sent to the model is of the pieces and the *)
(* answers on its record.                                                   *)
OnRecord(r) ==
  {a \in Atoms : \E item \in run[r].entries : \/ item.kind = "piece" /\ a \in item.piece
                                              \/ a \in OfKeys(Carried(item))}
ReachedIsOnRecord ==
  \A r \in Runs : /\ r \in Recorded => run[r].reached \subseteq OnRecord(r)
                  /\ run[r].state = "none" => run[r] = NoRunYet

MemoryInv == MemoryTypes /\ DerivesFromAnswers /\ ReachedIsOnRecord

-----------------------------------------------------------------------------
LEMMA AnswersAre ==
  ASSUME MemoryAssumption, MemoryTypes
  PROVE  /\ \A i \in Answers : i \in Nat /\ i >= 1 /\ i <= MaxMessages /\ i <= Len(messages)
         /\ \A i \in DOMAIN messages : Key(i) \in KeySet
         /\ \A k \in KeySet : Derives(k) \subseteq Atoms
         /\ \A last : OfAnswers(last) \subseteq Atoms
         /\ \A keys \in SUBSET KeySet : OfKeys(keys) \subseteq Atoms
<1>1. /\ DOMAIN messages = 1 .. Len(messages) /\ Len(messages) \in Nat
      /\ \A i \in DOMAIN messages : messages[i] \in MessageRecord
  BY DEF MemoryTypes
<1>2. \A i \in Answers : i \in Nat /\ i >= 1 /\ i <= Len(messages) /\ i \in DOMAIN messages
  BY <1>1 DEF Answers
<1>3. \A i \in DOMAIN messages : Key(i) \in KeySet
  BY <1>1 DEF Key, KeySet, MessageRecord
<1>4. \A k \in KeySet : Derives(k) \subseteq Atoms
  BY DEF KeySet, Derives, MemoryTypes, RunRow
<1>5. \A last : OfAnswers(last) \subseteq Atoms
  BY <1>2, <1>3, <1>4 DEF OfAnswers
<1>6. \A keys \in SUBSET KeySet : OfKeys(keys) \subseteq Atoms
  BY <1>4 DEF OfKeys
<1>7. \A i \in Answers : i <= MaxMessages
  <2>1. Len(messages) <= MaxMessages /\ MaxMessages \in Int
    BY DEF MemoryTypes, MemoryAssumption
  <2>2. QED BY <1>1, <1>2, <2>1
<1>8. QED BY <1>2, <1>3, <1>4, <1>5, <1>6, <1>7

(* A conversation only grows: its messages, what its runs sent to a model,   *)
(* and what is on their records.                                            *)
Grows ==
  /\ \A i \in DOMAIN messages : i \in DOMAIN messages' /\ messages'[i] = messages[i]
  /\ \A r \in Runs : run[r].reached \subseteq run'[r].reached /\ run[r].entries \subseteq run'[r].entries

LEMMA MoreIsMore ==
  ASSUME MemoryAssumption, MemoryTypes, Grows
  PROVE  /\ \A i \in Answers : i \in Answers' /\ Key(i)' = Key(i)
         /\ \A k \in KeySet : Derives(k) \subseteq Derives(k)'
         /\ \A last : OfAnswers(last) \subseteq OfAnswers(last)'
         /\ \A keys \in SUBSET KeySet : OfKeys(keys) \subseteq OfKeys(keys)'
         /\ \A item \in Entry : OfKeys(Carried(item)) \subseteq OfKeys(Carried(item))'
         /\ \A r \in Runs : OnRecord(r) \subseteq OnRecord(r)'
<1>1. \A i \in Answers : i \in Answers' /\ Key(i)' = Key(i) /\ Key(i) \in KeySet
  BY AnswersAre DEF Answers, Key, Grows
<1>2. \A k \in KeySet : Derives(k) \subseteq Derives(k)'
  BY DEF KeySet, Derives, Grows
<1>3. \A last : OfAnswers(last) \subseteq OfAnswers(last)'
  <2> SUFFICES ASSUME NEW last, NEW a \in OfAnswers(last) PROVE a \in OfAnswers(last)'
    OBVIOUS
  <2>1. PICK i \in Answers : i <= last /\ a \in Derives(Key(i))
    BY DEF OfAnswers
  <2>2. i \in Answers' /\ a \in Derives(Key(i))'
    <3>1. a \in Derives(Key(i))'
      <4>1. Key(i)' = Key(i) /\ Key(i) \in KeySet
        BY <1>1
      <4>2. QED BY <1>2, <2>1, <4>1 DEF Derives
    <3>2. QED BY <1>1, <3>1
  <2>3. QED BY <2>1, <2>2 DEF OfAnswers
<1>4. \A keys \in SUBSET KeySet : OfKeys(keys) \subseteq OfKeys(keys)'
  BY <1>2 DEF OfKeys
<1>5. \A item \in Entry : OfKeys(Carried(item)) \subseteq OfKeys(Carried(item))'
  <2> SUFFICES ASSUME NEW item \in Entry PROVE OfKeys(Carried(item)) \subseteq OfKeys(Carried(item))'
    OBVIOUS
  <2>1. Carried(item) \subseteq KeySet /\ Carried(item) \subseteq Carried(item)'
    <3>1. CASE item.kind = "history"
      <4>1. Carried(item) = {item.key} /\ Carried(item)' = {item.key}
        BY <3>1 DEF Carried
      <4>2. QED BY <3>1, <4>1 DEF Entry
    <3>2. CASE item.kind = "summary"
      <4>1. /\ Carried(item) = {Key(i) : i \in {j \in Answers : j <= item.through}}
            /\ Carried(item)' = {Key(i)' : i \in {j \in Answers' : j <= item.through}}
        BY <3>2 DEF Carried
      <4>2. \A i \in Answers : i <= item.through => Key(i) = Key(i)' /\ i \in Answers'
        BY <1>1
      <4>3. QED BY <1>1, <4>1, <4>2
    <3>3. CASE item.kind \notin {"history", "summary"}
      BY <3>3 DEF Carried
    <3>4. QED BY <3>1, <3>2, <3>3
  <2>2. QED BY <1>2, <2>1 DEF OfKeys
<1>6. \A r \in Runs : OnRecord(r) \subseteq OnRecord(r)'
  <2> SUFFICES ASSUME NEW r \in Runs, NEW a \in OnRecord(r) PROVE a \in OnRecord(r)'
    OBVIOUS
  <2>1. PICK item \in run[r].entries : (item.kind = "piece" /\ a \in item.piece) \/ a \in OfKeys(Carried(item))
    BY DEF OnRecord
  <2>2. item \in run'[r].entries /\ item \in Entry
    BY DEF Grows, MemoryTypes, RunRow
  <2>3. (item.kind = "piece" /\ a \in item.piece) \/ a \in OfKeys(Carried(item))'
    BY <1>5, <2>1, <2>2
  <2>4. a \in Atoms
    BY DEF OnRecord
  <2>5. QED BY <2>2, <2>3, <2>4 DEF OnRecord
<1>7. QED BY <1>1, <1>2, <1>3, <1>4, <1>5, <1>6

(* A run that is clear sent nothing that is excluded: the runs that did not  *)
(* are among the sets it is a member of.                                    *)
LEMMA ClearIsClean ==
  ASSUME MemoryAssumption, MemoryInv, NEW r \in Runs, IsClear(r)
  PROVE  run[r].reached \cap Excluded = {}
<1> DEFINE clean == {s \in Runs : run[s].reached \cap Excluded = {}}
<1>1. ASSUME NEW s \in Runs, Clears(s, clean) PROVE s \in clean
  <2> SUFFICES ASSUME NEW a \in run[s].reached PROVE a \notin Excluded
    OBVIOUS
  <2>1. s \in Recorded
    BY <1>1 DEF Clears, Known
  <2>2. PICK item \in run[s].entries : (item.kind = "piece" /\ a \in item.piece) \/ a \in OfKeys(Carried(item))
    BY <2>1 DEF MemoryInv, ReachedIsOnRecord, OnRecord
  <2>3. CASE item.kind = "piece" /\ a \in item.piece
    <3>1. ~Touched(item.piece)
      BY <1>1, <2>3 DEF Clears
    <3>2. QED BY <2>3, <3>1 DEF Touched, Excluded
  <2>4. CASE a \in OfKeys(Carried(item))
    <3>1. PICK key \in Carried(item) : a \in Derives(key)
      BY <2>4 DEF OfKeys
    <3>2. key[1] = "run" /\ key[2] \in clean
      BY <1>1, <3>1 DEF Clears
    <3>3. a \in run[key[2]].reached
      BY <3>1, <3>2 DEF Derives
    <3>4. QED BY <3>2, <3>3
  <2>5. QED BY <2>2, <2>3, <2>4
<1>2. clean \in SUBSET Runs
  OBVIOUS
<1>3. r \in clean
  <2> HIDE DEF clean
  <2>1. QED BY <1>1, <1>2 DEF IsClear
<1>4. QED BY <1>3

(* What is not withheld derives from nothing that is excluded.             *)
LEMMA ShownIsClean ==
  ASSUME MemoryAssumption, MemoryInv
  PROVE  /\ \A k \in KeySet : ~Withheld(k) => Derives(k) \cap Excluded = {}
         /\ NoteShown => note.atoms \cap Excluded = {}
<1>1. ASSUME NEW k \in KeySet, ~Withheld(k) PROVE Derives(k) \cap Excluded = {}
  <2>1. CASE walls = {}
    BY <2>1 DEF Excluded
  <2>2. CASE walls # {}
    <3>1. k[1] = "run" /\ IsClear(k[2])
      BY <1>1, <2>2 DEF Withheld
    <3>2. k[2] \in Runs
      BY <3>1 DEF KeySet
    <3>3. QED BY <3>1, <3>2, ClearIsClean DEF Derives
  <2>3. QED BY <2>1, <2>2
<1>2. ASSUME NoteShown, NEW a \in note.atoms PROVE a \notin Excluded
  <2>1. PICK i \in Answers : i <= note.through /\ a \in Derives(Key(i))
    BY DEF MemoryInv, DerivesFromAnswers, OfAnswers
  <2>2. ~Withheld(Key(i))
    BY <1>2, <2>1 DEF NoteShown
  <2>3. Key(i) \in KeySet
    BY AnswersAre DEF MemoryInv, Answers
  <2>4. QED BY <1>1, <2>1, <2>2, <2>3
<1>3. QED BY <1>1, <1>2

(* What a run is given is of the answers it names, and of nothing excluded.  *)
LEMMA SuppliedIsClean ==
  ASSUME MemoryAssumption, MemoryInv, NEW r \in Runs, NEW n
  PROVE  /\ Supplied(r, n) \in Given
         /\ Supplied(r, n).atoms \subseteq
              OfKeys(Supplied(r, n).keys) \cup OfAnswers(Supplied(r, n).through)
         /\ Supplied(r, n).atoms \cap Excluded = {}
<1>1. CASE r \notin Recorded
  <2>1. Supplied(r, n) = NoGiven
    BY <1>1 DEF Supplied
  <2>2. QED BY <2>1 DEF NoGiven, Given
<1>2. CASE r \in Recorded
  <2> DEFINE keys == {Key(i) : i \in Newest(Candidates(r), n)}
             through == IF NoteShown THEN note.through ELSE 0
             atoms == (UNION {Derives(k) : k \in keys}) \cup (IF NoteShown THEN note.atoms ELSE {})
  <2>1. Supplied(r, n) = [keys |-> keys, through |-> through, atoms |-> atoms]
    BY <1>2 DEF Supplied
  <2>2. \A k \in keys : k \in KeySet /\ ~Withheld(k)
    <3>1. \A i \in Newest(Candidates(r), n) : i \in Answers /\ ~Withheld(Key(i))
      BY DEF Newest, Candidates
    <3>2. \A i \in Answers : Key(i) \in KeySet
      BY AnswersAre DEF MemoryInv, Answers
    <3>3. QED BY <3>1, <3>2
  <2>3. \A k \in keys : Derives(k) \subseteq Atoms /\ Derives(k) \cap Excluded = {}
    BY <2>2, AnswersAre, ShownIsClean DEF MemoryInv
  <2>4. NoteShown => note.atoms \cap Excluded = {}
    BY ShownIsClean
  <2>5. note.atoms \subseteq Atoms /\ note.through \in Nat /\ note.atoms \subseteq OfAnswers(note.through)
    BY DEF MemoryInv, MemoryTypes, DerivesFromAnswers, MemoryAssumption
  <2>6. keys \in SUBSET KeySet
    BY <2>2
  <2> HIDE DEF keys
  <2>7. atoms \subseteq Atoms /\ atoms \cap Excluded = {}
    BY <2>3, <2>4, <2>5
  <2>8. atoms \subseteq OfKeys(keys) \cup OfAnswers(through)
    BY <2>5 DEF OfKeys
  <2>9. through \in Nat
    BY <2>5
  <2> HIDE DEF atoms, through
  <2>10. QED BY <2>1, <2>6, <2>7, <2>8, <2>9 DEF Given
<1>3. QED BY <1>1, <1>2

(* The ends of a set of places.                                            *)
LEMMA EndsAre ==
  ASSUME NEW S \in SUBSET Nat, S # {}, NEW N \in Nat, \A i \in S : i <= N
  PROVE  /\ Min(S) \in S /\ \A i \in S : Min(S) <= i
         /\ Max(S) \in S /\ \A i \in S : Max(S) >= i
<1>1. PICK low \in S : \A i \in S : ~(<<i, low>> \in OpToRel(<, Nat))
  BY NatLessThanWellFounded, WFMin
<1>2. \A i \in S : low <= i
  <2> SUFFICES ASSUME NEW i \in S PROVE low <= i
    OBVIOUS
  <2>1. ~(i < low)
    BY <1>1 DEF OpToRel
  <2>2. QED BY <2>1
<1> DEFINE Down == {N - i : i \in S}
<1>3. Down \subseteq Nat /\ Down # {}
  <2>1. \A i \in S : N - i \in Nat
    OBVIOUS
  <2>2. PICK i \in S : TRUE
    OBVIOUS
  <2>3. N - i \in Down
    OBVIOUS
  <2>4. QED BY <2>1, <2>3
<1>4. PICK m \in Down : \A i \in Down : ~(<<i, m>> \in OpToRel(<, Nat))
  <2> HIDE DEF Down
  <2>1. QED BY <1>3, NatLessThanWellFounded, WFMin
<1>5. PICK high \in S : m = N - high
  OBVIOUS
<1>6. \A i \in S : high >= i
  <2> SUFFICES ASSUME NEW i \in S PROVE high >= i
    OBVIOUS
  <2>1. N - i \in Down
    OBVIOUS
  <2>2. ~(N - i < N - high)
    BY <1>3, <1>4, <1>5, <2>1 DEF OpToRel
  <2>3. QED BY <2>2
<1>7. QED BY <1>2, <1>6 DEF Min, Max

(* The newest of a set of answers are some, when some are wanted.           *)
LEMMA NewestAre ==
  ASSUME NEW S \in SUBSET Nat, S # {}, NEW N \in Nat, \A i \in S : i <= N, NEW n \in Nat, n # 0
  PROVE  Newest(S, n) \subseteq S /\ Newest(S, n) # {}
<1>1. Max(S) \in S /\ \A i \in S : Max(S) >= i
  BY EndsAre
<1>2. {j \in S : j > Max(S)} = {}
  <2>1. ASSUME NEW j \in S, j > Max(S) PROVE FALSE
    <3>1. Max(S) \in Nat /\ j \in Nat /\ Max(S) >= j
      BY <1>1
    <3>2. QED BY <2>1, <3>1
  <2>2. QED BY <2>1
<1>3. Cardinality({j \in S : j > Max(S)}) = 0
  BY <1>2, FS_EmptySet
<1>4. Max(S) \in Newest(S, n)
  BY <1>1, <1>3 DEF Newest
<1>5. QED BY <1>4 DEF Newest

(* No fold goes up to an answer that is withheld.                           *)
LEMMA FoldsStopShort ==
  ASSUME MemoryAssumption, MemoryInv, NEW keep \in Keeps, NEW last \in DOMAIN messages,
         last <= FoldStop(keep), NEW i \in Answers, note.through < i, i <= last
  PROVE  ~Withheld(Key(i))
<1>0. MemoryTypes /\ keep \in Nat /\ note.through \in Nat /\ last \in Nat
  BY DEF MemoryInv, MemoryAssumption, MemoryTypes
<1>1. Exchanges \in SUBSET Nat /\ \A j \in Exchanges : j <= MaxMessages
  BY <1>0, AnswersAre DEF Exchanges
<1>2. MaxMessages \in Nat
  BY DEF MemoryAssumption
<1>3. \A j \in Nat : Question(j) \in Nat /\ Question(j) <= j
  BY DEF Question
<1>4. FoldEnd(keep) \in Int
  <2>1. CASE Exchanges = {}
    BY <2>1 DEF FoldEnd
  <2>2. CASE Exchanges # {} /\ keep = 0
    <3>1. Max(Exchanges) \in Nat
      BY <1>1, <1>2, <2>2, EndsAre
    <3>2. QED BY <2>2, <3>1 DEF FoldEnd
  <2>3. CASE Exchanges # {} /\ keep # 0
    <3>1. Stays(keep) \subseteq Exchanges /\ Stays(keep) # {}
      BY <1>0, <1>1, <1>2, <2>3, NewestAre DEF Stays
    <3>2. Min(Stays(keep)) \in Nat
      BY <1>1, <1>2, <3>1, EndsAre
    <3>3. QED BY <1>3, <2>3, <3>2 DEF FoldEnd
  <2>4. QED BY <2>1, <2>2, <2>3
<1>5. CASE Blocked(keep) = {}
  <2>1. FoldStop(keep) = FoldEnd(keep)
    BY <1>5 DEF FoldStop
  <2>2. i <= FoldEnd(keep)
    BY <1>0, <1>4, <2>1, AnswersAre
  <2>3. QED BY <1>5, <2>2 DEF Blocked
<1>6. CASE Blocked(keep) # {}
  <2> DEFINE Turn(j) == IF Question(j) > 0 THEN Question(j) ELSE j
             Turns == {Turn(j) : j \in Blocked(keep)}
  <2>1. \A j \in Blocked(keep) : /\ j \in Nat /\ j <= MaxMessages /\ j <= FoldEnd(keep)
                                 /\ Turn(j) \in Nat /\ Turn(j) <= j
    BY <1>0, <1>3, AnswersAre DEF Blocked
  <2>2. Turns \in SUBSET Nat /\ Turns # {} /\ \A t \in Turns : t <= MaxMessages
    BY <1>2, <1>6, <2>1
  <2>3. FoldStop(keep) = Min(Turns) - 1
    BY <1>6 DEF FoldStop
  <2>4. Min(Turns) \in Turns /\ \A t \in Turns : Min(Turns) <= t
    <3> HIDE DEF Turns
    <3>1. QED BY <1>2, <2>2, EndsAre
  <2>5. PICK j \in Blocked(keep) : Min(Turns) = Turn(j)
    BY <2>4
  <2> HIDE DEF Turn
  <2>6. i \in Nat /\ i < Min(Turns) /\ Min(Turns) \in Nat
    BY <1>0, <2>2, <2>3, <2>4, AnswersAre
  <2>7. i <= FoldEnd(keep)
    BY <1>4, <2>1, <2>5, <2>6
  <2>8. i \notin Blocked(keep)
    <3> SUFFICES ASSUME i \in Blocked(keep) PROVE FALSE
      OBVIOUS
    <3>1. Turn(i) \in Turns /\ Turn(i) \in Nat /\ Turn(i) <= i
      BY <2>1
    <3>2. Min(Turns) <= Turn(i)
      BY <2>4, <3>1
    <3>3. QED BY <2>6, <3>1, <3>2
  <2>9. QED BY <2>7, <2>8 DEF Blocked
<1>7. QED BY <1>5, <1>6

(* What a model is given to fold is of the answers the fold names, and of   *)
(* nothing excluded.                                                        *)
LEMMA FoldedIsClean ==
  ASSUME MemoryAssumption, MemoryInv, NEW keep \in Keeps, NEW last \in DOMAIN messages,
         note.through < last, last <= FoldStop(keep)
  PROVE  /\ Folded(last) \in Fold
         /\ Folded(last).atoms \subseteq OfAnswers(Folded(last).through)
         /\ Folded(last).atoms \cap Excluded = {}
<1>0. MemoryTypes /\ note.through \in Nat /\ last \in 0..MaxMessages
  <2>1. MemoryTypes /\ note.through \in Nat /\ last \in 1 .. Len(messages) /\ Len(messages) \in Nat
        /\ Len(messages) <= MaxMessages /\ MaxMessages \in Nat
    BY DEF MemoryInv, MemoryAssumption, MemoryTypes
  <2>2. QED BY <2>1
<1>1. note.atoms \subseteq OfAnswers(note.through)
  BY DEF MemoryInv, DerivesFromAnswers
<1> DEFINE newer == {j \in Answers : j > note.through /\ j <= last}
           atoms == (IF NoteShown THEN note.atoms ELSE {}) \cup UNION {Derives(Key(i)) : i \in newer}
<1>2. Folded(last) = [through |-> last, atoms |-> atoms]
  BY DEF Folded
<1>3. \A i \in Answers : i \in Nat /\ i >= 1
  BY <1>0, AnswersAre
<1>4. atoms \subseteq OfAnswers(last)
  <2> SUFFICES ASSUME NEW a \in atoms PROVE a \in OfAnswers(last)
    OBVIOUS
  <2>1. CASE a \in note.atoms
    <3>1. PICK i \in Answers : i <= note.through /\ a \in Derives(Key(i))
      BY <1>1, <2>1 DEF OfAnswers
    <3>2. i <= last
      BY <1>0, <1>3, <3>1
    <3>3. QED BY <3>1, <3>2 DEF OfAnswers
  <2>2. CASE a \in UNION {Derives(Key(i)) : i \in newer}
    BY <2>2 DEF OfAnswers
  <2>3. QED BY <2>1, <2>2
<1>5. \A i \in newer : Derives(Key(i)) \cap Excluded = {}
  <2>1. \A i \in newer : ~Withheld(Key(i)) /\ Key(i) \in KeySet
    <3>1. \A i \in newer : i \in Answers /\ note.through < i /\ i <= last
      BY <1>0, <1>3
    <3>2. \A i \in Answers : Key(i) \in KeySet
      BY <1>0, AnswersAre DEF Answers
    <3> HIDE DEF newer
    <3>3. QED BY <3>1, <3>2, FoldsStopShort
  <2>2. QED BY <2>1, ShownIsClean
<1>6. atoms \cap Excluded = {}
  BY <1>5, ShownIsClean
<1>7. OfAnswers(last) \subseteq Atoms
  BY <1>0, AnswersAre
<1> HIDE DEF atoms
<1>8. QED BY <1>0, <1>2, <1>4, <1>6, <1>7 DEF Fold

LEMMA MemoryInvHolds ==
  ASSUME MemoryAssumption, MemoryInit
  PROVE  MemoryInv
<1> USE DEF MemoryInit
<1>1. NoRunYet \in RunRow /\ NoRunYet.reached = {} /\ NoRunYet.given.atoms = {}
  BY DEF NoRunYet, NoGiven, RunRow, Given
<1>2. MemoryTypes
  BY <1>1, FS_EmptySet DEF MemoryTypes, MemoryAssumption
<1>3. \A r \in Runs : run[r] = NoRunYet
  OBVIOUS
<1>4. DerivesFromAnswers
  BY <1>1, <1>3 DEF DerivesFromAnswers
<1>5. ReachedIsOnRecord
  BY <1>1, <1>3 DEF ReachedIsOnRecord
<1>6. QED BY <1>2, <1>4, <1>5 DEF MemoryInv

(* A conversation with one question and its answer, which was built from a     *)
(* piece of the CV.                                                         *)
AnsweredOnce(one, piece) ==
  /\ walls = {} /\ folds = {}
  /\ messages = <<[role |-> "user", of |-> "none"], [role |-> "assistant", of |-> one]>>
  /\ note = [settled |-> FALSE, through |-> 0, atoms |-> {}]
  /\ run = [r \in Runs |->
              IF r = one THEN [NoRunYet EXCEPT !.state = "closed", !.reached = piece,
                                 !.entries = {[kind |-> "piece", piece |-> piece]}]
              ELSE NoRunYet]

LEMMA AnsweredHolds ==
  ASSUME MemoryAssumption, MaxMessages >= 2, NEW one \in Runs, NEW piece \in Pieces,
         AnsweredOnce(one, piece)
  PROVE  MemoryInv
<1> DEFINE item == [kind |-> "piece", piece |-> piece]
           row == [NoRunYet EXCEPT !.state = "closed", !.reached = piece, !.entries = {item}]
<1>1. /\ walls = {} /\ folds = {}
      /\ messages = <<[role |-> "user", of |-> "none"], [role |-> "assistant", of |-> one]>>
      /\ note = [settled |-> FALSE, through |-> 0, atoms |-> {}]
      /\ run = [r \in Runs |-> IF r = one THEN row ELSE NoRunYet]
  BY Zenon DEF AnsweredOnce
<1>2. piece \in SUBSET Atoms /\ item \in Entry /\ item.kind = "piece" /\ item.piece = piece
  BY DEF Atoms, Entry
<1>3. NoRunYet \in RunRow /\ NoRunYet.reached = {} /\ NoRunYet.given.atoms = {}
  BY DEF NoRunYet, NoGiven, RunRow, Given
<1>4. /\ row \in RunRow /\ row.state = "closed" /\ row.reached = piece /\ row.entries = {item}
      /\ row.given = NoRunYet.given
  <2> HIDE DEF item
  <2>1. {item} \in SUBSET Entry
    BY <1>2
  <2>2. QED BY <1>2, <1>3, <2>1 DEF RunRow
<1> HIDE DEF item, row
<1>5. run[one] = row /\ \A r \in Runs : r # one => run[r] = NoRunYet
  BY <1>1
<1>6. MemoryTypes
  <2>1. messages \in Seq(MessageRecord) /\ Len(messages) = 2
    BY <1>1 DEF MessageRecord
  <2>2. run \in [Runs -> RunRow]
    BY <1>1, <1>3, <1>4
  <2>3. QED BY <1>1, <2>1, <2>2, FS_EmptySet DEF MemoryTypes, MemoryAssumption
<1>7. \A r \in Runs : run[r].given.atoms = {}
  BY <1>3, <1>4, <1>5, Zenon
<1>8. DerivesFromAnswers
  BY <1>1, <1>7 DEF DerivesFromAnswers
<1>9. ReachedIsOnRecord
  <2>1. piece \subseteq OnRecord(one)
    <3>1. run[one].entries = {item}
      BY <1>4, <1>5, Zenon
    <3>2. QED BY <1>2, <3>1 DEF OnRecord
  <2>2. /\ run[one].reached = piece /\ run[one].state = "closed"
        /\ \A r \in Runs : r # one => run[r].reached = {} /\ run[r] = NoRunYet
    BY <1>3, <1>4, <1>5, Zenon
  <2>3. QED BY <2>1, <2>2 DEF ReachedIsOnRecord
<1>10. QED BY <1>6, <1>8, <1>9 DEF MemoryInv

(* As a conversation grows, what was of some answers stays of them ...      *)
LEMMA StillDerives ==
  ASSUME MemoryAssumption, MemoryTypes, MemoryTypes', Grows,
         note'.atoms \subseteq OfAnswers(note'.through),
         \A fold \in folds' : fold.atoms \subseteq OfAnswers(fold.through),
         \A r \in Runs : run'[r].given.atoms \subseteq
                           OfKeys(run'[r].given.keys) \cup OfAnswers(run'[r].given.through)
  PROVE  DerivesFromAnswers'
<1>1. \A last : OfAnswers(last) \subseteq OfAnswers(last)'
  BY MoreIsMore
<1>2. \A keys \in SUBSET KeySet : OfKeys(keys) \subseteq OfKeys(keys)'
  BY MoreIsMore
<1>3. note'.atoms \subseteq OfAnswers(note.through)'
  BY <1>1
<1>4. \A fold \in folds' : fold.atoms \subseteq OfAnswers(fold.through)'
  BY <1>1
<1>5. \A r \in Runs : run'[r].given.keys \in SUBSET KeySet
  BY DEF MemoryTypes, RunRow, Given
<1>6. \A r \in Runs : run'[r].given.atoms \subseteq
                        OfKeys(run[r].given.keys)' \cup OfAnswers(run[r].given.through)'
  BY <1>1, <1>2, <1>5
<1>7. QED BY <1>3, <1>4, <1>6 DEF DerivesFromAnswers

(* ... and what was on a record stays on it.                                *)
LEMMA StillOnRecord ==
  ASSUME MemoryAssumption, MemoryTypes, MemoryTypes', Grows, ReachedIsOnRecord,
         \A r \in Recorded : \A a \in run'[r].reached :
           \/ a \in run[r].reached
           \/ \E item \in run'[r].entries : (item.kind = "piece" /\ a \in item.piece) \/ a \in OfKeys(Carried(item)),
         \A r \in Runs : run'[r].state = "none" => run'[r] = run[r]
  PROVE  ReachedIsOnRecord'
<1>0. Recorded \subseteq Runs
  BY DEF MemoryAssumption
<1>1. ASSUME NEW r \in Recorded, NEW a \in run'[r].reached PROVE a \in OnRecord(r)'
  <2>1. CASE a \in run[r].reached
    BY <1>0, <2>1, MoreIsMore DEF ReachedIsOnRecord
  <2>2. CASE a \notin run[r].reached
    <3>1. PICK item \in run'[r].entries : (item.kind = "piece" /\ a \in item.piece) \/ a \in OfKeys(Carried(item))
      BY <2>2
    <3>2. item \in Entry /\ a \in Atoms
      BY <1>0 DEF MemoryTypes, RunRow
    <3>3. (item.kind = "piece" /\ a \in item.piece) \/ a \in OfKeys(Carried(item))'
      BY <3>1, <3>2, MoreIsMore
    <3>4. QED BY <3>1, <3>2, <3>3 DEF OnRecord
  <2>3. QED BY <2>1, <2>2
<1>2. \A r \in Runs : run'[r].state = "none" => run'[r] = NoRunYet
  BY DEF ReachedIsOnRecord
<1>3. QED BY <1>1, <1>2 DEF ReachedIsOnRecord

(* One run's row moves on: what it adds to what it reached is on its record, *)
(* and what it is given is as it was, or as the history supplies it.         *)
LEMMA RowMoves ==
  ASSUME MemoryAssumption, MemoryInv, NEW r \in Runs, NEW row \in RunRow, run' = [run EXCEPT ![r] = row],
         UNCHANGED <<walls, messages, note, folds>>,
         run[r].reached \subseteq row.reached, run[r].entries \subseteq row.entries,
         row.given = run[r].given \/ \E n \in 0..MaxExchanges : row.given = Supplied(r, n),
         r \in Recorded =>
           \A a \in row.reached :
             \/ a \in run[r].reached
             \/ \E item \in row.entries : (item.kind = "piece" /\ a \in item.piece) \/ a \in OfKeys(Carried(item)),
         row.state # "none"
  PROVE  MemoryInv' /\ HandsOutNothingExcluded
<1>0. /\ MemoryTypes /\ ReachedIsOnRecord /\ DerivesFromAnswers /\ run'[r] = row
      /\ \A s \in Runs : s # r => run'[s] = run[s]
  BY DEF MemoryInv, MemoryTypes
<1>1. MemoryTypes'
  BY <1>0 DEF MemoryTypes
<1>2. Grows
  <2>1. \A s \in Runs : run[s].reached \subseteq run'[s].reached /\ run[s].entries \subseteq run'[s].entries
    BY <1>0
  <2>2. QED BY <2>1 DEF Grows
<1>3. row.given.atoms \subseteq OfKeys(row.given.keys) \cup OfAnswers(row.given.through)
  BY <1>0, SuppliedIsClean DEF DerivesFromAnswers
<1>4. row.given # run[r].given => row.given.atoms \cap Excluded = {}
  BY SuppliedIsClean
<1>5. DerivesFromAnswers'
  <2>1. /\ note'.atoms \subseteq OfAnswers(note'.through)
        /\ \A fold \in folds' : fold.atoms \subseteq OfAnswers(fold.through)
    BY <1>0 DEF DerivesFromAnswers
  <2>2. \A s \in Runs : run'[s].given.atoms \subseteq
                          OfKeys(run'[s].given.keys) \cup OfAnswers(run'[s].given.through)
    BY <1>0, <1>3 DEF DerivesFromAnswers
  <2>3. QED BY <1>0, <1>1, <1>2, <2>1, <2>2, StillDerives
<1>6. ReachedIsOnRecord'
  <2>1. \A s \in Recorded : \A a \in run'[s].reached :
          \/ a \in run[s].reached
          \/ \E item \in run'[s].entries : (item.kind = "piece" /\ a \in item.piece) \/ a \in OfKeys(Carried(item))
    BY <1>0 DEF MemoryAssumption
  <2>2. \A s \in Runs : run'[s].state = "none" => run'[s] = run[s]
    BY <1>0
  <2>3. QED BY <1>0, <1>1, <1>2, <2>1, <2>2, StillOnRecord
<1>7. HandsOutNothingExcluded
  BY <1>0, <1>4 DEF HandsOutNothingExcluded
<1>8. QED BY <1>1, <1>5, <1>6, <1>7 DEF MemoryInv

(* What a run may do to its conversation.                                   *)
LEMMA RunStepHolds ==
  ASSUME MemoryAssumption, MemoryInv, NEW r \in Runs,
         \/ \E n \in 0..MaxExchanges : Start(r, n) \/ ResumeRun(r, n)
         \/ \E leaves \in (SUBSET Leaves) \ {{}} : Assemble(r, leaves)
         \/ Send(r) \/ Suspend(r) \/ End(r)
         \/ \E piece \in Pieces : Read(r, piece) \/ ReadUnplaced(r, piece)
  PROVE  MemoryInv' /\ HandsOutNothingExcluded
<1>0. run \in [Runs -> RunRow] /\ run[r] \in RunRow /\ MemoryTypes
  BY DEF MemoryInv, MemoryTypes
<1>r. /\ run[r].given \in Given /\ run[r].picks \in SUBSET Atoms /\ run[r].entries \in SUBSET Entry
      /\ run[r].reached \in SUBSET Atoms /\ Excluded \subseteq Atoms
  BY <1>0 DEF RunRow, Excluded, Atoms, MemoryTypes
<1>1. ASSUME NEW n \in 0..MaxExchanges, Start(r, n) PROVE MemoryInv' /\ HandsOutNothingExcluded
  <2> DEFINE row == [NoRunYet EXCEPT
                       !.state = "open", !.walk = IF r \in Recorded THEN "begun" ELSE "asking",
                       !.given = Supplied(r, n), !.reached = IF r \in Recorded THEN {} ELSE Atoms]
  <2>1. run' = [run EXCEPT ![r] = row] /\ UNCHANGED <<walls, messages, note, folds>>
    BY <1>1 DEF Start
  <2>2. run[r] = NoRunYet
    BY <1>1 DEF Start, MemoryInv, ReachedIsOnRecord
  <2>3. Supplied(r, n) \in Given
    BY SuppliedIsClean
  <2>4. /\ row \in RunRow /\ row.state = "open" /\ row.given = Supplied(r, n) /\ row.entries = {}
        /\ row.reached = IF r \in Recorded THEN {} ELSE Atoms
    BY <2>3 DEF NoRunYet, RunRow
  <2>5. run[r].reached = {} /\ run[r].entries = {}
    BY <2>2 DEF NoRunYet
  <2> HIDE DEF row
  <2>6. QED BY <2>1, <2>4, <2>5, RowMoves
<1>2. ASSUME NEW n \in 0..MaxExchanges, ResumeRun(r, n) PROVE MemoryInv' /\ HandsOutNothingExcluded
  <2> DEFINE row == IF run[r].picks \cap Excluded # {}
                    THEN [run[r] EXCEPT !.state = "closed", !.walk = "none"]
                    ELSE [run[r] EXCEPT !.state = "open", !.given = Supplied(r, n),
                            !.walk = IF r \notin Recorded THEN "asking"
                                     ELSE IF run[r].picks = {} THEN "begun" ELSE "assembled"]
  <2>1. run' = [run EXCEPT ![r] = row] /\ UNCHANGED <<walls, messages, note, folds>>
    BY <1>0, <1>2 DEF ResumeRun
  <2>2. Supplied(r, n) \in Given
    BY SuppliedIsClean
  <2>3. /\ row \in RunRow /\ row.state # "none" /\ row.given \in {run[r].given, Supplied(r, n)}
        /\ row.entries = run[r].entries /\ row.reached = run[r].reached
    BY <1>0, <2>2 DEF RunRow
  <2> HIDE DEF row
  <2>4. QED BY <2>1, <2>3, RowMoves
<1>3. ASSUME NEW leaves \in (SUBSET Leaves) \ {{}}, Assemble(r, leaves) PROVE MemoryInv' /\ HandsOutNothingExcluded
  <2> DEFINE row == [run[r] EXCEPT !.walk = "assembled", !.picks = UNION {p \in leaves : ~Walled(p)}]
  <2>1. run' = [run EXCEPT ![r] = row] /\ UNCHANGED <<walls, messages, note, folds>> /\ run[r].state = "open"
    BY <1>0, <1>3 DEF Assemble
  <2>2. UNION {p \in leaves : ~Walled(p)} \subseteq Atoms
    BY DEF Leaves, Atoms
  <2>3. /\ row \in RunRow /\ row.state # "none" /\ row.given = run[r].given
        /\ row.entries = run[r].entries /\ row.reached = run[r].reached
    BY <1>0, <2>1, <2>2 DEF RunRow
  <2> HIDE DEF row
  <2>4. QED BY <2>1, <2>3, RowMoves
<1>4. ASSUME Send(r) PROVE MemoryInv' /\ HandsOutNothingExcluded
  <2> DEFINE row == [run[r] EXCEPT !.walk = "asking", !.entries = @ \cup Sent(r),
                                   !.reached = @ \cup run[r].given.atoms \cup run[r].picks]
  <2>1. run' = [run EXCEPT ![r] = row] /\ UNCHANGED <<walls, messages, note, folds>> /\ run[r].state = "open"
    BY <1>0, <1>4 DEF Send
  <2>2. /\ run[r].given.keys \in SUBSET KeySet /\ run[r].given.through \in Nat
        /\ run[r].given.atoms \in SUBSET Atoms
    BY <1>r DEF Given
  <2>3. Sent(r) \subseteq Entry
    BY <1>r, <2>2 DEF Sent, Entry
  <2>4. /\ row \in RunRow /\ row.state # "none" /\ row.given = run[r].given
        /\ row.entries = run[r].entries \cup Sent(r)
        /\ row.reached = run[r].reached \cup run[r].given.atoms \cup run[r].picks
    BY <1>0, <1>r, <2>1, <2>2, <2>3 DEF RunRow
  <2>5. \A a \in run[r].picks : \E item \in Sent(r) : item.kind = "piece" /\ a \in item.piece
    <3> SUFFICES ASSUME NEW a \in run[r].picks
                 PROVE  \E item \in Sent(r) : item.kind = "piece" /\ a \in item.piece
      OBVIOUS
    <3>1. [kind |-> "piece", piece |-> {a}] \in Sent(r)
      BY DEF Sent
    <3>2. QED BY <3>1
  <2>6. \A a \in run[r].given.atoms : \E item \in Sent(r) : a \in OfKeys(Carried(item))
    <3> SUFFICES ASSUME NEW a \in run[r].given.atoms
                 PROVE  \E item \in Sent(r) : a \in OfKeys(Carried(item))
      OBVIOUS
    <3>1. a \in OfKeys(run[r].given.keys) \/ a \in OfAnswers(run[r].given.through)
      BY DEF MemoryInv, DerivesFromAnswers
    <3>2. CASE a \in OfKeys(run[r].given.keys)
      <4>1. PICK k \in run[r].given.keys : a \in Derives(k)
        BY <3>2 DEF OfKeys
      <4> DEFINE item == [kind |-> "history", key |-> k]
      <4>2. item \in Sent(r) /\ item.kind = "history" /\ item.key = k
        BY DEF Sent
      <4> HIDE DEF item
      <4>3. Carried(item) = {k}
        BY <4>2 DEF Carried
      <4>4. a \in OfKeys(Carried(item))
        BY <4>1, <4>3 DEF OfKeys
      <4>5. QED BY <4>2, <4>4
    <3>3. CASE a \in OfAnswers(run[r].given.through)
      <4>1. PICK i \in Answers : i <= run[r].given.through /\ a \in Derives(Key(i))
        BY <3>3 DEF OfAnswers
      <4>2. run[r].given.through > 0
        <5>1. i \in Nat /\ i >= 1
          BY <1>0, AnswersAre
        <5>2. QED BY <2>2, <4>1, <5>1
      <4> DEFINE item == [kind |-> "summary", through |-> run[r].given.through]
      <4>3. item \in Sent(r) /\ item.kind = "summary" /\ item.through = run[r].given.through
        BY <4>2 DEF Sent
      <4> HIDE DEF item
      <4>4. Carried(item) = {Key(j) : j \in {k \in Answers : k <= run[r].given.through}}
        BY <4>3 DEF Carried
      <4>5. a \in OfKeys(Carried(item))
        BY <4>1, <4>4 DEF OfKeys
      <4>6. QED BY <4>3, <4>5
    <3>4. QED BY <3>1, <3>2, <3>3
  <2> HIDE DEF row
  <2>7. \A a \in row.reached :
          \/ a \in run[r].reached
          \/ \E item \in row.entries : (item.kind = "piece" /\ a \in item.piece) \/ a \in OfKeys(Carried(item))
    BY <2>4, <2>5, <2>6
  <2>8. QED BY <2>1, <2>4, <2>7, RowMoves
<1>5. ASSUME NEW state \in {"suspended", "closed"}, NEW walk \in {run[r].walk, "none"},
             run' = [run EXCEPT ![r].state = state, ![r].walk = walk],
             UNCHANGED <<walls, messages, note, folds>>
      PROVE  MemoryInv' /\ HandsOutNothingExcluded
  <2> DEFINE row == [run[r] EXCEPT !.state = state, !.walk = walk]
  <2>1. run' = [run EXCEPT ![r] = row]
    BY <1>0, <1>5
  <2>2. /\ row \in RunRow /\ row.state # "none" /\ row.given = run[r].given
        /\ row.entries = run[r].entries /\ row.reached = run[r].reached
    BY <1>0 DEF RunRow
  <2> HIDE DEF row
  <2>3. QED BY <1>5, <2>1, <2>2, RowMoves
<1>6. ASSUME Suspend(r) PROVE MemoryInv' /\ HandsOutNothingExcluded
  <2>1. run' = [run EXCEPT ![r].state = "suspended", ![r].walk = run[r].walk]
    BY <1>0, <1>6 DEF Suspend, RunRow
  <2>2. QED BY <1>5, <1>6, <2>1 DEF Suspend
<1>7. ASSUME End(r) PROVE MemoryInv' /\ HandsOutNothingExcluded
  BY <1>5, <1>7 DEF End
<1>8. ASSUME NEW piece \in SUBSET Atoms, NEW shown \in SUBSET piece, Hands(r, piece, shown)
      PROVE  MemoryInv' /\ HandsOutNothingExcluded
  <2> DEFINE item == [kind |-> "piece", piece |-> piece]
             row == [run[r] EXCEPT !.entries = @ \cup {item}, !.reached = @ \cup shown]
  <2>1. run' = [run EXCEPT ![r] = row] /\ UNCHANGED <<walls, messages, note, folds>> /\ run[r].state = "open"
    BY <1>0, <1>8 DEF Hands
  <2>2. item \in Entry /\ item.kind = "piece" /\ item.piece = piece
    BY DEF Entry
  <2> HIDE DEF item
  <2>3. /\ row \in RunRow /\ row.state # "none" /\ row.given = run[r].given
        /\ row.entries = run[r].entries \cup {item} /\ row.reached = run[r].reached \cup shown
    BY <1>0, <1>r, <2>1, <2>2 DEF RunRow
  <2> HIDE DEF row
  <2>4. \A a \in row.reached : a \in run[r].reached \/ (item.kind = "piece" /\ a \in item.piece)
    BY <2>2, <2>3
  <2>5. QED BY <2>1, <2>3, <2>4, RowMoves
<1>9. ASSUME NEW piece \in Pieces, Read(r, piece) \/ ReadUnplaced(r, piece)
      PROVE  MemoryInv' /\ HandsOutNothingExcluded
  <2>1. piece \subseteq Atoms /\ piece \ Excluded \subseteq piece
    BY DEF Atoms
  <2>2. CASE Read(r, piece)
    BY <1>8, <2>1, <2>2 DEF Read
  <2>3. CASE ReadUnplaced(r, piece)
    BY <1>8, <2>1, <2>3 DEF ReadUnplaced
  <2>4. QED BY <1>9, <2>2, <2>3
<1>10. QED BY <1>1, <1>2, <1>3, <1>4, <1>6, <1>7, <1>9

(* What a process that ends, and what a host, does to it.                   *)
LEMMA ProcessEndsHolds ==
  ASSUME MemoryAssumption, MemoryInv, ProcessEnds
  PROVE  MemoryInv' /\ HandsOutNothingExcluded
<1>0. MemoryTypes /\ ReachedIsOnRecord /\ DerivesFromAnswers
  BY DEF MemoryInv
<1>1. \A r \in Runs : /\ run'[r].given = run[r].given /\ run'[r].reached = run[r].reached
                      /\ run'[r].entries = run[r].entries /\ run'[r] \in RunRow
                      /\ run'[r].state = "none" => run'[r] = run[r]
  <2> SUFFICES ASSUME NEW r \in Runs
               PROVE  /\ run'[r].given = run[r].given /\ run'[r].reached = run[r].reached
                      /\ run'[r].entries = run[r].entries /\ run'[r] \in RunRow
                      /\ run'[r].state = "none" => run'[r] = run[r]
    OBVIOUS
  <2> DEFINE dead == [run[r] EXCEPT !.state = "interrupted", !.walk = "none"]
  <2>1. run[r] \in RunRow
    BY <1>0 DEF MemoryTypes
  <2>2. run'[r] \in {run[r], dead}
    BY DEF ProcessEnds
  <2>3. /\ dead \in RunRow /\ dead.given = run[r].given /\ dead.reached = run[r].reached
        /\ dead.entries = run[r].entries /\ dead.state # "none"
    BY <2>1 DEF RunRow
  <2> HIDE DEF dead
  <2>4. QED BY <2>1, <2>2, <2>3
<1>2. MemoryTypes'
  <2>1. run' \in [Runs -> RunRow]
    BY <1>1 DEF ProcessEnds
  <2>2. QED BY <1>0, <2>1 DEF ProcessEnds, MemoryTypes
<1>3. Grows
  BY <1>1 DEF ProcessEnds, Grows
<1>4. DerivesFromAnswers'
  <2>1. /\ note'.atoms \subseteq OfAnswers(note'.through)
        /\ \A fold \in folds' : fold.atoms \subseteq OfAnswers(fold.through)
    BY <1>0 DEF DerivesFromAnswers, ProcessEnds
  <2>2. \A r \in Runs : run'[r].given.atoms \subseteq
                          OfKeys(run'[r].given.keys) \cup OfAnswers(run'[r].given.through)
    BY <1>0, <1>1 DEF DerivesFromAnswers
  <2>3. QED BY <1>0, <1>2, <1>3, <2>1, <2>2, StillDerives
<1>5. ReachedIsOnRecord'
  BY <1>0, <1>1, <1>2, <1>3, StillOnRecord DEF MemoryAssumption
<1>6. HandsOutNothingExcluded
  BY <1>1 DEF HandsOutNothingExcluded, ProcessEnds
<1>7. QED BY <1>2, <1>4, <1>5, <1>6 DEF MemoryInv

LEMMA HostStepHolds ==
  ASSUME MemoryAssumption, MemoryInv, UNCHANGED run, MemoryTypes',
         \A i \in DOMAIN messages : i \in DOMAIN messages' /\ messages'[i] = messages[i],
         note'.atoms \subseteq OfAnswers(note'.through),
         \A fold \in folds' \ folds : /\ fold.atoms \subseteq OfAnswers(fold.through)
                                      /\ fold.atoms \cap Excluded = {}
  PROVE  MemoryInv' /\ HandsOutNothingExcluded
<1>0. MemoryTypes /\ ReachedIsOnRecord /\ DerivesFromAnswers
  BY DEF MemoryInv
<1>1. Grows
  BY DEF Grows
<1>2. DerivesFromAnswers'
  <2>1. \A fold \in folds' : fold.atoms \subseteq OfAnswers(fold.through)
    BY <1>0 DEF DerivesFromAnswers
  <2>2. \A r \in Runs : run'[r].given.atoms \subseteq
                          OfKeys(run'[r].given.keys) \cup OfAnswers(run'[r].given.through)
    BY <1>0 DEF DerivesFromAnswers
  <2>3. QED BY <1>0, <1>1, <2>1, <2>2, StillDerives
<1>3. ReachedIsOnRecord'
  BY <1>0, <1>1, StillOnRecord DEF MemoryAssumption
<1>4. HandsOutNothingExcluded
  BY DEF HandsOutNothingExcluded
<1>5. QED BY <1>2, <1>3, <1>4 DEF MemoryInv

LEMMA MemoryHolds ==
  ASSUME MemoryAssumption, MemoryInv, MemoryNext
  PROVE  MemoryInv' /\ HandsOutNothingExcluded
<1>0. /\ MemoryTypes /\ IsFiniteSet(folds) /\ Cardinality(folds) \in Nat /\ MaxFolds \in Nat
      /\ MaxMessages \in Nat /\ note.through \in 0..MaxMessages /\ note.atoms \subseteq Atoms
      /\ note.atoms \subseteq OfAnswers(note.through) /\ folds \subseteq Fold
      /\ note.settled \in BOOLEAN /\ DOMAIN messages = 1 .. Len(messages)
  BY FS_CardinalityType DEF MemoryInv, MemoryTypes, DerivesFromAnswers, MemoryAssumption
<1>1. ASSUME NEW role \in {"user", "assistant"}, NEW of \in Runs \cup {"none"}, AppendMessage(role, of)
      PROVE  MemoryInv' /\ HandsOutNothingExcluded
  <2> DEFINE added == [role |-> role, of |-> of]
  <2>1. added \in MessageRecord /\ Len(messages) < MaxMessages /\ messages' = Append(messages, added)
        /\ UNCHANGED <<walls, run, note, folds>>
    BY <1>1 DEF AppendMessage, MessageRecord
  <2> HIDE DEF added
  <2>2. messages \in Seq(MessageRecord) /\ Len(messages) \in Nat
    BY DEF MemoryInv, MemoryTypes
  <2>3. /\ messages' \in Seq(MessageRecord) /\ Len(messages') <= MaxMessages
        /\ \A i \in DOMAIN messages : i \in DOMAIN messages' /\ messages'[i] = messages[i]
    BY <1>0, <2>1, <2>2
  <2>4. MemoryTypes'
    BY <1>0, <2>1, <2>3 DEF MemoryTypes
  <2>5. QED BY <1>0, <2>1, <2>3, <2>4, HostStepHolds
<1>2. ASSUME NEW clear \in SUBSET Pieces, NEW exclude \in SUBSET Pieces, Select(clear, exclude)
      PROVE  MemoryInv' /\ HandsOutNothingExcluded
  <2>1. MemoryTypes'
    BY <1>0, <1>2 DEF Select, MemoryTypes
  <2>2. QED BY <1>0, <1>2, <2>1, HostStepHolds DEF Select
<1>3. ASSUME NEW keep \in Keeps, NEW last \in DOMAIN messages, Plan(keep, last)
      PROVE  MemoryInv' /\ HandsOutNothingExcluded
  <2>1. /\ Folded(last) \in Fold /\ Folded(last).atoms \subseteq OfAnswers(Folded(last).through)
        /\ Folded(last).atoms \cap Excluded = {}
    BY <1>3, FoldedIsClean DEF Plan
  <2>2. folds' = folds \cup {Folded(last)} /\ UNCHANGED <<walls, messages, run, note>>
        /\ Cardinality(folds) < MaxFolds
    BY <1>3 DEF Plan
  <2>3. IsFiniteSet(folds') /\ Cardinality(folds') <= MaxFolds
    <3>1. IsFiniteSet(folds \cup {Folded(last)}) /\ Cardinality(folds \cup {Folded(last)}) <= Cardinality(folds) + 1
      <4> DEFINE more == folds \cup {Folded(last)}
      <4>1. IsFiniteSet(folds) /\ Cardinality(folds) \in Nat
        BY <1>0
      <4>2. IsFiniteSet(more) /\ Cardinality(more) = IF Folded(last) \in folds THEN Cardinality(folds)
                                                    ELSE Cardinality(folds) + 1
        BY <4>1, FS_AddElement
      <4>3. QED BY <4>1, <4>2
    <3>2. Cardinality(folds \cup {Folded(last)}) \in Nat
      BY <3>1, FS_CardinalityType
    <3>3. QED BY <1>0, <2>2, <3>1, <3>2
  <2>4. MemoryTypes'
    BY <1>0, <2>1, <2>2, <2>3 DEF MemoryTypes
  <2>5. QED BY <1>0, <2>1, <2>2, <2>4, HostStepHolds
<1>4. ASSUME NEW fold \in folds, Summarise(fold)
      PROVE  MemoryInv' /\ HandsOutNothingExcluded
  <2> DEFINE last == Max({note.through, fold.through})
  <2>1. note' = [settled |-> TRUE, through |-> last, atoms |-> fold.atoms]
        /\ folds' = folds \ {fold} /\ UNCHANGED <<walls, messages, run>>
    BY <1>4 DEF Summarise
  <2>2. fold.through \in 0..MaxMessages /\ fold.atoms \subseteq Atoms
        /\ fold.atoms \subseteq OfAnswers(fold.through)
    BY <1>0 DEF Fold, MemoryInv, DerivesFromAnswers
  <2>3. last \in {note.through, fold.through} /\ fold.through <= last
    <3>1. {note.through, fold.through} \in SUBSET Nat /\ \A i \in {note.through, fold.through} : i <= MaxMessages
      BY <1>0, <2>2
    <3>2. QED BY <1>0, <3>1, EndsAre
  <2> HIDE DEF last
  <2>4. fold.atoms \subseteq OfAnswers(last)
    <3> SUFFICES ASSUME NEW a \in fold.atoms PROVE a \in OfAnswers(last)
      OBVIOUS
    <3>1. PICK i \in Answers : i <= fold.through /\ a \in Derives(Key(i))
      BY <2>2 DEF OfAnswers
    <3>2. i \in Nat /\ last \in Nat /\ fold.through \in Nat
      BY <1>0, <2>2, <2>3, AnswersAre
    <3>3. i <= last
      BY <2>3, <3>1, <3>2
    <3>4. QED BY <3>1, <3>3 DEF OfAnswers
  <2>5. IsFiniteSet(folds') /\ Cardinality(folds') <= MaxFolds
    <3>1. Cardinality(folds) <= MaxFolds
      BY <1>0 DEF MemoryTypes
    <3>2. IsFiniteSet(folds \ {fold}) /\ Cardinality(folds \ {fold}) = Cardinality(folds) - 1
      BY <1>0, FS_RemoveElement
    <3>3. QED BY <1>0, <2>1, <3>1, <3>2
  <2>6. MemoryTypes'
    BY <1>0, <2>1, <2>2, <2>3, <2>5 DEF MemoryTypes
  <2>7. note'.atoms \subseteq OfAnswers(note'.through)
    BY <2>1, <2>4
  <2>8. QED BY <1>0, <2>1, <2>6, <2>7, HostStepHolds
<1>5. ASSUME ClearNote PROVE MemoryInv' /\ HandsOutNothingExcluded
  <2>1. note' = [note EXCEPT !.settled = FALSE, !.atoms = {}] /\ UNCHANGED <<walls, messages, run, folds>>
    BY <1>5 DEF ClearNote
  <2>2. note'.atoms = {} /\ note' \in [settled : BOOLEAN, through : 0..MaxMessages, atoms : SUBSET Atoms]
    BY <1>0, <2>1 DEF MemoryTypes
  <2>3. MemoryTypes'
    BY <1>0, <2>1, <2>2 DEF MemoryTypes
  <2>4. QED BY <2>1, <2>2, <2>3, HostStepHolds
<1>6. ASSUME NEW r \in Runs,
             \/ \E n \in 0..MaxExchanges : Start(r, n) \/ ResumeRun(r, n)
             \/ \E leaves \in (SUBSET Leaves) \ {{}} : Assemble(r, leaves)
             \/ Send(r) \/ Suspend(r) \/ End(r)
             \/ \E piece \in Pieces : Read(r, piece) \/ ReadUnplaced(r, piece)
      PROVE  MemoryInv' /\ HandsOutNothingExcluded
  BY <1>6, RunStepHolds
<1>7. QED
  BY <1>1, <1>2, <1>3, <1>4, <1>5, <1>6, ProcessEndsHolds DEF MemoryNext

(* The invariant gives the types and the account a run's property asks for.  *)
LEMMA MemoryShows ==
  ASSUME MemoryInv
  PROVE  MemoryTypeOK /\ NoteIsAccounted
<1>1. DOMAIN messages = 1 .. Len(messages) /\ \A i \in DOMAIN messages : messages[i] \in MessageRecord
  BY DEF MemoryInv, MemoryTypes
<1>2. \A r \in Runs : /\ run[r] \in RunRow /\ run[r].given.atoms \subseteq Atoms
                      /\ run[r].reached \subseteq Atoms /\ run[r].picks \subseteq Atoms
  BY DEF MemoryInv, MemoryTypes, RunRow, Given
<1>3. MemoryTypeOK
  BY <1>1, <1>2 DEF MemoryInv, MemoryTypes, MemoryTypeOK, RunRow, MessageRecord
<1>4. NoteIsAccounted
  BY DEF MemoryInv, DerivesFromAnswers, NoteIsAccounted, OfAnswers
<1>5. QED BY <1>3, <1>4

LEMMA MemoryStays ==
  ASSUME MemoryInv, UNCHANGED memoryVars
  PROVE  MemoryInv' /\ HandsOutNothingExcluded
<1>1. UNCHANGED <<walls, messages, run, note, folds>>
  BY DEF memoryVars
<1>2. MemoryInv'
  BY <1>1 DEF MemoryInv, MemoryTypes, DerivesFromAnswers, ReachedIsOnRecord, OfAnswers, OfKeys, OnRecord,
              Derives, Key, Answers, Carried
<1>3. QED BY <1>1, <1>2 DEF HandsOutNothingExcluded

(* What is excluded when a conversation is handed to a run, or to the model  *)
(* that folds it, is in nothing that is handed over (history.ts, supply;     *)
(* compaction.ts, plan), and a note is of the answers it names.              *)
THEOREM NothingExcludedIsHandedOut ==
  ASSUME MemoryAssumption
  PROVE  MemorySpec => []NoteIsAccounted /\ [][HandsOutNothingExcluded]_memoryVars
<1>1. MemoryInit => MemoryInv
  BY MemoryInvHolds
<1>2. MemoryInv /\ [MemoryNext]_memoryVars => MemoryInv'
  BY MemoryHolds, MemoryStays
<1>3. MemoryInv /\ [MemoryNext]_memoryVars => [HandsOutNothingExcluded]_memoryVars
  BY MemoryHolds
<1>4. MemoryInv => NoteIsAccounted
  BY MemoryShows
<1>5. QED BY <1>1, <1>2, <1>3, <1>4, PTL DEF MemorySpec

-----------------------------------------------------------------------------
(***************************************************************************)
(* What holds of a person's CVs however many there are, whoever writes     *)
(* them, and however often a host repeats what it asked for.               *)
(***************************************************************************)

(* Every step is one of the actions; stated once for what follows. *)
LEMMA CvCases ==
  ASSUME NEW P, [CvNext]_cvVars,
         \A o \in Ops, kind \in {"clear", "replace", "copy"}, c \in Cvs : Ask(o, kind, c) => P,
         \A o \in Ops : Replayed(o) => P,
         \A o \in Ops : Clear(o) => P,
         \A o \in Ops : ClearRefused(o) => P,
         \A o \in Ops : Replace(o) => P,
         \A o \in Ops : ReplaceRefused(o) => P,
         \A o \in Ops, target \in Cvs : Copy(o, target) => P,
         AssignLanguage => P,
         \A o \in Ops : CopyRefused(o) => P,
         \A r \in CvRuns, kind \in {"import", "edit", "legacy"}, c \in Cvs : CvRunStarts(r, kind, c) => P,
         \A r \in CvRuns : EditReads(r) => P,
         \A r \in CvRuns : CvRunSuspends(r) => P,
         \A r \in CvRuns : CvRunResumes(r) => P,
         \A r \in CvRuns : CvRunFails(r) => P,
         \A r \in CvRuns : ImportWrites(r) => P,
         \A r \in CvRuns : Proposes(r) => P,
         \A r \in CvRuns : Accept(r) => P,
         \A r \in CvRuns : Discard(r) => P,
         UNCHANGED cvVars => P
  PROVE  P
BY DEF CvNext

CvRun == [state : {"none", "running", "suspended", "succeeded", "failed"},
          kind : {"none", "import", "edit", "legacy"}, cv : Cvs, gen : Nat, rev : Nat, base : Nat,
          text : SUBSET Nat]
Proposal == [status : {"none", "pending", "invalidated", "accepted", "discarded"}, cv : Cvs,
             base : Nat, gen : Nat, text : SUBSET Nat]
Request == [kind : {"none", "clear", "replace", "copy"}, cv : Cvs, on : Nat]
Answer == [ok : BOOLEAN, rev : Nat, gen : Nat]

CvTypes ==
  /\ assigned \in BOOLEAN /\ rev \in [Cvs -> Nat] /\ era \in [Cvs -> Nat]
  /\ text \in [Cvs -> SUBSET Nat]
  /\ job \in [CvRuns -> CvRun] /\ prop \in [CvRuns -> Proposal] /\ op \in [Ops -> Request]
  /\ receipts \in [Ops -> SUBSET Answer] /\ replies \in [Ops -> SUBSET Answer]

(* What may still be written into a CV is of its generation: a run that     *)
(* knows no contexts keeps its CV from being cleared; an edit that read a    *)
(* later generation than its own can only propose what is refused; and a     *)
(* clear invalidates what waits for a decision.                              *)
StillOfIt ==
  \A r \in CvRuns :
    /\ job[r].gen <= era[job[r].cv]
    /\ job[r].kind = "legacy" =>
         /\ job[r].cv = First
         /\ job[r].state \in {"running", "suspended"} => job[r].gen = era[First]
    /\ job[r].text \subseteq {job[r].gen} \/ job[r].gen < era[job[r].cv]
    /\ prop[r].status = "pending" => prop[r].text \subseteq {prop[r].gen}

OfItsGeneration == ClearedStaysCleared /\ StillOfIt

(* A receipt is one result. *)
OneReceipt == \A o \in Ops : \A result \in receipts[o] : receipts[o] = {result}

(* Documents and answers stay within the bound, a generation began with a    *)
(* revision, and a CV that does not exist has neither.                      *)
WithinBounds ==
  /\ First \in there /\ there \subseteq Cvs
  /\ \A c \in Cvs : rev[c] <= MaxRev /\ era[c] <= rev[c] /\ (c \notin there => rev[c] = 0)
  /\ \A o \in Ops : \A answer \in receipts[o] \cup replies[o] : answer.rev <= MaxRev /\ answer.gen <= MaxRev
  /\ \A o \in Ops : op[o].cv \in there
  /\ \A r \in CvRuns : job[r].cv \in there /\ prop[r].cv \in there

CvInv == CvTypes /\ OfItsGeneration /\ RepliesAgree /\ OneReceipt /\ WithinBounds

LEMMA CvInvHolds ==
  ASSUME CvAssumption
  PROVE  CvInit => CvInv
<1> SUFFICES ASSUME CvInit PROVE CvInv
  OBVIOUS
<1> USE DEF CvAssumption, CvInit
<1>1. NoCvRun \in CvRun /\ NoProposal \in Proposal /\ NoOp \in Request
  BY DEF NoCvRun, NoProposal, NoOp, CvRun, Proposal, Request
<1>2. CvTypes
  <2>1. job \in [CvRuns -> CvRun] /\ prop \in [CvRuns -> Proposal] /\ op \in [Ops -> Request]
    BY <1>1
  <2>2. receipts \in [Ops -> SUBSET Answer] /\ replies \in [Ops -> SUBSET Answer] /\ text \in [Cvs -> SUBSET Nat]
    OBVIOUS
  <2>3. QED BY <2>1, <2>2 DEF CvTypes
<1>3. ClearedStaysCleared
  BY DEF ClearedStaysCleared
<1>4. StillOfIt
  BY DEF StillOfIt, NoCvRun, NoProposal
<1>5. RepliesAgree /\ OneReceipt
  BY DEF RepliesAgree, OneReceipt
<1>6. WithinBounds
  BY DEF WithinBounds, NoOp, NoCvRun, NoProposal
<1>7. QED BY <1>2, <1>3, <1>4, <1>5, <1>6 DEF CvInv, OfItsGeneration

(* One run, one proposal, one answer more. *)
LEMMA RunMoves ==
  ASSUME CvTypes, NEW r \in CvRuns, NEW s \in {"running", "suspended", "succeeded", "failed"}
  PROVE  [job EXCEPT ![r].state = s] \in [CvRuns -> CvRun]
BY DEF CvTypes, CvRun

LEMMA ProposalMoves ==
  ASSUME CvTypes, NEW r \in CvRuns, NEW s \in {"accepted", "discarded", "invalidated"}
  PROVE  /\ [prop EXCEPT ![r].status = s] \in [CvRuns -> Proposal]
         /\ [prop[r] EXCEPT !.status = s] \in Proposal
BY DEF CvTypes, Proposal

LEMMA AnswerGiven ==
  ASSUME CvTypes, NEW o \in Ops, NEW answer \in Answer, Replies(o, answer)
  PROVE  replies' \in [Ops -> SUBSET Answer]
BY DEF CvTypes, Replies

LEMMA RefusalGiven ==
  ASSUME CvTypes, NEW o \in Ops, Replies(o, Refusal)
  PROVE  replies' \in [Ops -> SUBSET Answer]
<1>1. Refusal \in Answer
  BY DEF Refusal, Answer
<1>2. QED BY <1>1, AnswerGiven

LEMMA DoneGiven ==
  ASSUME CvTypes, NEW o \in Ops, NEW c \in Cvs, rev' \in [Cvs -> Nat], era' \in [Cvs -> Nat],
         Settles(o, Done(c))
  PROVE  receipts' \in [Ops -> SUBSET Answer] /\ replies' \in [Ops -> SUBSET Answer]
<1>1. Done(c) \in Answer
  BY DEF Done, Answer
<1>2. replies' \in [Ops -> SUBSET Answer]
  BY <1>1, AnswerGiven DEF Settles, CvTypes
<1>3. receipts' \in [Ops -> SUBSET Answer]
  BY <1>1 DEF Settles, Receipt, CvTypes
<1>4. QED BY <1>2, <1>3

LEMMA Written ==
  ASSUME CvTypes, NEW c \in Cvs, NEW e \in Nat, NEW body \in SUBSET Nat, Writes(c, e, body)
  PROVE  rev' \in [Cvs -> Nat] /\ text' \in [Cvs -> SUBSET Nat]
BY DEF CvTypes, Writes

(* Types are kept. *)
LEMMA CvTypeStep ==
  ASSUME CvAssumption, CvTypes, [CvNext]_cvVars
  PROVE  CvTypes'
<1>0. /\ \A o \in Ops : op[o].cv \in Cvs /\ op[o].on \in Nat
      /\ \A c \in Cvs : rev[c] \in Nat /\ era[c] \in Nat /\ text[c] \in SUBSET Nat
  BY DEF CvTypes, Request
<1>r. /\ \A r \in CvRuns : job[r] \in CvRun /\ prop[r] \in Proposal
      /\ \A r \in CvRuns : job[r].cv \in Cvs /\ job[r].gen \in Nat /\ job[r].rev \in Nat
                          /\ job[r].base \in Nat /\ job[r].text \in SUBSET Nat
      /\ \A r \in CvRuns : prop[r].cv \in Cvs /\ prop[r].base \in Nat /\ prop[r].text \in SUBSET Nat
  BY DEF CvTypes, CvRun, Proposal
<1>1. \A o \in Ops, kind \in {"clear", "replace", "copy"}, c \in Cvs : Ask(o, kind, c) => CvTypes'
  <2> SUFFICES ASSUME NEW o \in Ops, NEW kind \in {"clear", "replace", "copy"}, NEW c \in Cvs,
                      Ask(o, kind, c)
               PROVE  CvTypes'
    OBVIOUS
  <2>1. [kind |-> kind, cv |-> c, on |-> rev[c]] \in Request
    BY <1>0 DEF Request
  <2>2. QED BY <2>1 DEF Ask, CvTypes
<1>2. \A o \in Ops : Replayed(o) => CvTypes'
  <2> SUFFICES ASSUME NEW o \in Ops, Replayed(o) PROVE CvTypes'
    OBVIOUS
  <2>1. replies' \in [Ops -> SUBSET Answer]
    BY AnswerGiven DEF Replayed, CvTypes
  <2>2. QED BY <2>1 DEF Replayed, Refuses, CvTypes
<1>3. \A o \in Ops : Clear(o) => CvTypes'
  <2> SUFFICES ASSUME NEW o \in Ops, Clear(o) PROVE CvTypes'
    OBVIOUS
  <2>1. rev' \in [Cvs -> Nat] /\ text' \in [Cvs -> SUBSET Nat]
    BY <1>0, Written DEF Clear
  <2>2. era' \in [Cvs -> Nat]
    BY <1>0 DEF Clear, CvTypes
  <2>3. receipts' \in [Ops -> SUBSET Answer] /\ replies' \in [Ops -> SUBSET Answer]
    BY <1>0, <2>1, <2>2, DoneGiven DEF Clear
  <2>4. prop' \in [CvRuns -> Proposal]
    BY <1>r, ProposalMoves DEF Clear, Invalidates
  <2>5. QED BY <2>1, <2>2, <2>3, <2>4 DEF Clear, CvTypes
<1>4. \A o \in Ops : ClearRefused(o) => CvTypes'  BY RefusalGiven DEF ClearRefused, Refuses, CvTypes
<1>5. \A o \in Ops : Replace(o) => CvTypes'
  <2> SUFFICES ASSUME NEW o \in Ops, Replace(o) PROVE CvTypes'
    OBVIOUS
  <2>1. rev' \in [Cvs -> Nat] /\ text' \in [Cvs -> SUBSET Nat]
    BY <1>0, Written DEF Replace
  <2>2. era' \in [Cvs -> Nat]
    BY DEF Replace, CvTypes
  <2>3. receipts' \in [Ops -> SUBSET Answer] /\ replies' \in [Ops -> SUBSET Answer]
    BY <1>0, <2>1, <2>2, DoneGiven DEF Replace
  <2>4. QED BY <2>1, <2>2, <2>3 DEF Replace, CvTypes
<1>6. \A o \in Ops : ReplaceRefused(o) => CvTypes'
  BY RefusalGiven DEF ReplaceRefused, Refuses, CvTypes
<1>7. \A o \in Ops, target \in Cvs : Copy(o, target) => CvTypes'
  <2> SUFFICES ASSUME NEW o \in Ops, NEW target \in Cvs, Copy(o, target) PROVE CvTypes'
    OBVIOUS
  <2>1. rev' \in [Cvs -> Nat] /\ era' \in [Cvs -> Nat]
    BY DEF Copy, CvTypes
  <2>2. text' \in [Cvs -> SUBSET Nat]
    BY <1>0 DEF Copy, CvTypes
  <2>3. receipts' \in [Ops -> SUBSET Answer] /\ replies' \in [Ops -> SUBSET Answer]
    BY <2>1, DoneGiven DEF Copy
  <2>4. QED BY <2>1, <2>2, <2>3 DEF Copy, CvTypes
<1>8. AssignLanguage => CvTypes'  BY DEF AssignLanguage, CvTypes
<1>9. \A o \in Ops : CopyRefused(o) => CvTypes'  BY RefusalGiven DEF CopyRefused, Refuses, CvTypes
<1>10. \A r \in CvRuns, kind \in {"import", "edit", "legacy"}, c \in Cvs : CvRunStarts(r, kind, c) => CvTypes'
  <2> SUFFICES ASSUME NEW r \in CvRuns, NEW kind \in {"import", "edit", "legacy"}, NEW c \in Cvs,
                      CvRunStarts(r, kind, c)
               PROVE  CvTypes'
    OBVIOUS
  <2>1. [NoCvRun EXCEPT !.state = "running", !.kind = kind, !.cv = c, !.gen = era[c], !.rev = rev[c]]
          \in CvRun
    BY <1>0 DEF NoCvRun, CvRun
  <2>2. QED BY <2>1 DEF CvRunStarts, CvTypes
<1>11. \A r \in CvRuns : EditReads(r) => CvTypes'
  <2> SUFFICES ASSUME NEW r \in CvRuns, EditReads(r) PROVE CvTypes'
    OBVIOUS
  <2>1. job' \in [CvRuns -> CvRun]
    <3>1. [job[r] EXCEPT !.base = rev[job[r].cv], !.text = text[job[r].cv] \cup {job[r].gen}] \in CvRun
      BY <1>0, <1>r DEF CvRun
    <3>2. job' = [job EXCEPT ![r] = [job[r] EXCEPT !.base = rev[job[r].cv],
                                                   !.text = text[job[r].cv] \cup {job[r].gen}]]
      BY DEF EditReads, CvTypes
    <3>3. QED BY <3>1, <3>2 DEF CvTypes
  <2>2. QED BY <2>1 DEF EditReads, CvTypes
<1>12. \A r \in CvRuns : CvRunSuspends(r) => CvTypes'
  <2> SUFFICES ASSUME NEW r \in CvRuns, CvRunSuspends(r) PROVE CvTypes'
    OBVIOUS
  <2>1. job' \in [CvRuns -> CvRun]
    BY RunMoves DEF CvRunSuspends
  <2>2. QED BY <2>1 DEF CvRunSuspends, CvTypes
<1>13. \A r \in CvRuns : CvRunResumes(r) => CvTypes'
  <2> SUFFICES ASSUME NEW r \in CvRuns, CvRunResumes(r) PROVE CvTypes'
    OBVIOUS
  <2>1. job' \in [CvRuns -> CvRun]
    BY RunMoves DEF CvRunResumes
  <2>2. QED BY <2>1 DEF CvRunResumes, CvTypes
<1>14. \A r \in CvRuns : CvRunFails(r) => CvTypes'
  <2> SUFFICES ASSUME NEW r \in CvRuns, CvRunFails(r) PROVE CvTypes'
    OBVIOUS
  <2>1. job' \in [CvRuns -> CvRun]
    BY RunMoves DEF CvRunFails
  <2>2. QED BY <2>1 DEF CvRunFails, CvTypes
<1>15. \A r \in CvRuns : ImportWrites(r) => CvTypes'
  <2> SUFFICES ASSUME NEW r \in CvRuns, ImportWrites(r) PROVE CvTypes'
    OBVIOUS
  <2>1. rev' \in [Cvs -> Nat] /\ text' \in [Cvs -> SUBSET Nat]
    BY <1>0, <1>r DEF ImportWrites, Writes, CvTypes
  <2>2. job' \in [CvRuns -> CvRun]
    BY RunMoves DEF ImportWrites
  <2>3. QED BY <2>1, <2>2 DEF ImportWrites, CvTypes
<1>16. \A r \in CvRuns : Proposes(r) => CvTypes'
  <2> SUFFICES ASSUME NEW r \in CvRuns, Proposes(r) PROVE CvTypes'
    OBVIOUS
  <2>1. prop' \in [CvRuns -> Proposal]
    <3>1. \A s \in {"pending", "invalidated"} :
            [status |-> s, cv |-> job[r].cv, base |-> job[r].base, gen |-> job[r].gen,
             text |-> job[r].text] \in Proposal
      BY <1>r DEF Proposal
    <3>2. QED BY <3>1 DEF Proposes, CvTypes
  <2>2. job' \in [CvRuns -> CvRun]
    BY RunMoves DEF Proposes
  <2>3. QED BY <2>1, <2>2 DEF Proposes, CvTypes
<1>17. \A r \in CvRuns : Accept(r) => CvTypes'
  <2> SUFFICES ASSUME NEW r \in CvRuns, Accept(r) PROVE CvTypes'
    OBVIOUS
  <2>1. rev' \in [Cvs -> Nat] /\ text' \in [Cvs -> SUBSET Nat]
    BY <1>r, Written DEF Accept
  <2>2. prop' \in [CvRuns -> Proposal]
    BY ProposalMoves DEF Accept
  <2>3. QED BY <2>1, <2>2 DEF Accept, CvTypes
<1>18. \A r \in CvRuns : Discard(r) => CvTypes'
  <2> SUFFICES ASSUME NEW r \in CvRuns, Discard(r) PROVE CvTypes'
    OBVIOUS
  <2>1. prop' \in [CvRuns -> Proposal]
    BY ProposalMoves DEF Discard
  <2>2. QED BY <2>1 DEF Discard, CvTypes
<1>19. UNCHANGED cvVars => CvTypes'  BY DEF cvVars, CvTypes
<1>20. QED
  BY <1>1, <1>2, <1>3, <1>4, <1>5, <1>6, <1>7, <1>8, <1>9,
     <1>10, <1>11, <1>12, <1>13, <1>14, <1>15, <1>16, <1>17, <1>18, <1>19, CvCases

(* What is in a CV, and what may be written into it, stays of its generation. *)
LEMMA GenStep ==
  ASSUME CvAssumption, CvTypes, OfItsGeneration, [CvNext]_cvVars
  PROVE  OfItsGeneration'
<1> USE DEF CvAssumption, CvTypes, CvRun, Proposal, Request, OfItsGeneration, ClearedStaysCleared,
               StillOfIt
<1>1. \A o \in Ops, kind \in {"clear", "replace", "copy"}, c \in Cvs : Ask(o, kind, c) => OfItsGeneration'
  BY DEF Ask
<1>2. \A o \in Ops : Replayed(o) => OfItsGeneration'  BY DEF Replayed, Replies, Refuses
<1>3. \A o \in Ops : Clear(o) => OfItsGeneration'
  BY DEF Clear, Writes, Invalidates, Settles, Receipt, Replies, Done, LegacyRunUnderWay
<1>4. \A o \in Ops : ClearRefused(o) => OfItsGeneration'
  BY DEF ClearRefused, Replies, Refuses, Refusal
<1>5. \A o \in Ops : Replace(o) => OfItsGeneration'  BY DEF Replace, Writes, Settles, Receipt, Replies, Done
<1>6. \A o \in Ops : ReplaceRefused(o) => OfItsGeneration'
  BY DEF ReplaceRefused, Replies, Refuses, Refusal
<1>7. \A o \in Ops, target \in Cvs : Copy(o, target) => OfItsGeneration'
  BY DEF Copy, Settles, Receipt, Replies, Done
<1>8. AssignLanguage => OfItsGeneration'  BY DEF AssignLanguage
<1>9. \A o \in Ops : CopyRefused(o) => OfItsGeneration'
  BY DEF CopyRefused, Replies, Refuses, Refusal
<1>10. \A r \in CvRuns, kind \in {"import", "edit", "legacy"}, c \in Cvs : CvRunStarts(r, kind, c) => OfItsGeneration'
  BY DEF CvRunStarts, NoCvRun
<1>11. \A r \in CvRuns : EditReads(r) => OfItsGeneration'  BY DEF EditReads
<1>12. \A r \in CvRuns : CvRunSuspends(r) => OfItsGeneration'  BY DEF CvRunSuspends
<1>13. \A r \in CvRuns : CvRunResumes(r) => OfItsGeneration'  BY DEF CvRunResumes
<1>14. \A r \in CvRuns : CvRunFails(r) => OfItsGeneration'  BY DEF CvRunFails
<1>15. \A r \in CvRuns : ImportWrites(r) => OfItsGeneration'  BY DEF ImportWrites, Writes, Guards
<1>16. \A r \in CvRuns : Proposes(r) => OfItsGeneration'  BY DEF Proposes, Guards
<1>17. \A r \in CvRuns : Accept(r) => OfItsGeneration'  BY DEF Accept, Writes, Guards
<1>18. \A r \in CvRuns : Discard(r) => OfItsGeneration'  BY DEF Discard
<1>19. UNCHANGED cvVars => OfItsGeneration'  BY DEF cvVars
<1> HIDE DEF CvAssumption, CvTypes, CvRun, Proposal, Request, OfItsGeneration, ClearedStaysCleared,
             StillOfIt
<1>20. QED
  BY <1>1, <1>2, <1>3, <1>4, <1>5, <1>6, <1>7, <1>8, <1>9,
     <1>10, <1>11, <1>12, <1>13, <1>14, <1>15, <1>16, <1>17, <1>18, <1>19, CvCases

(* The four things a step may do to receipts and answers: nothing; refuse    *)
(* what was not carried out; carry it out, and keep the result; repeat it.   *)
Told == RepliesAgree' /\ OneReceipt' /\ RepeatsTheAnswer

LEMMA ToldNothing ==
  ASSUME RepliesAgree, OneReceipt, UNCHANGED <<receipts, replies>>
  PROVE  Told
BY DEF Told, RepliesAgree, OneReceipt, RepeatsTheAnswer

LEMMA ToldRefusal ==
  ASSUME CvTypes, RepliesAgree, OneReceipt, NEW o \in Ops, ~Settled(o), Replies(o, Refusal), UNCHANGED receipts
  PROVE  Told
<1>1. \A answer \in replies[o] : ~answer.ok
  BY DEF RepliesAgree, Settled
<1>2. /\ \A p \in Ops : p # o => replies'[p] = replies[p]
      /\ replies'[o] = replies[o] \cup {Refusal} /\ ~Refusal.ok
  BY DEF Replies, Refusal, CvTypes
<1>3. RepliesAgree'
  BY <1>1, <1>2 DEF RepliesAgree
<1>4. RepeatsTheAnswer
  BY <1>1, <1>2 DEF RepeatsTheAnswer
<1>5. QED BY <1>3, <1>4 DEF Told, OneReceipt

LEMMA ToldResult ==
  ASSUME CvTypes, RepliesAgree, OneReceipt, NEW o \in Ops, NEW c \in Cvs, ~Settled(o), Settles(o, Done(c))
  PROVE  Told
<1>1. \A answer \in replies[o] : ~answer.ok
  BY DEF RepliesAgree, Settled
<1>2. /\ \A p \in Ops : p # o => replies'[p] = replies[p] /\ receipts'[p] = receipts[p]
      /\ replies'[o] \subseteq replies[o] \cup {Done(c)} /\ receipts'[o] = {Done(c)}
  BY DEF Settles, Receipt, Replies, CvTypes
<1>3. RepliesAgree'
  BY <1>1, <1>2 DEF RepliesAgree
<1>4. RepeatsTheAnswer
  <2> SUFFICES ASSUME NEW p \in Ops
               PROVE  /\ replies'[p] # replies[p] => \A answer \in replies[p] : ~answer.ok
                      /\ Settled(p) => /\ receipts'[p] = receipts[p]
                                       /\ replies'[p] \subseteq replies[p] \cup receipts[p]
    BY DEF RepeatsTheAnswer
  <2>1. CASE p = o  BY <1>1, <2>1
  <2>2. CASE p # o  BY <1>2, <2>2
  <2>3. QED BY <2>1, <2>2
<1>5. OneReceipt'
  <2> SUFFICES ASSUME NEW p \in Ops, NEW result \in receipts'[p] PROVE receipts'[p] = {result}
    BY DEF OneReceipt
  <2>1. CASE p = o  BY <1>2, <2>1
  <2>2. CASE p # o  BY <1>2, <2>2 DEF OneReceipt
  <2>3. QED BY <2>1, <2>2
<1>6. QED BY <1>3, <1>4, <1>5 DEF Told

LEMMA ToldAgain ==
  ASSUME CvTypes, RepliesAgree, OneReceipt, NEW o \in Ops, NEW result \in receipts[o], Replies(o, result),
         UNCHANGED receipts
  PROVE  Told
<1>1. /\ \A p \in Ops : p # o => replies'[p] = replies[p]
      /\ replies'[o] = replies[o] \cup {result}
  BY DEF Replies, CvTypes
<1>2. \A answer \in replies[o] : answer.ok => receipts[o] = {answer}
  BY DEF RepliesAgree
<1>3. receipts[o] = {result}
  BY DEF OneReceipt
<1>4. RepliesAgree'
  BY <1>1, <1>2, <1>3 DEF RepliesAgree
<1>5. RepeatsTheAnswer
  <2>1. replies'[o] # replies[o] => \A answer \in replies[o] : ~answer.ok
    BY <1>1, <1>2
  <2>2. QED BY <1>1, <2>1 DEF RepeatsTheAnswer
<1>6. QED BY <1>4, <1>5 DEF Told, OneReceipt

(* Who is told it is done has a receipt, and is told the same again. *)
LEMMA ReplyStep ==
  ASSUME CvTypes, RepliesAgree, OneReceipt, [CvNext]_cvVars
  PROVE  Told
<1>0. \A o \in Ops : op[o].cv \in Cvs
  BY DEF CvTypes, Request
<1>1. \A o \in Ops, kind \in {"clear", "replace", "copy"}, c \in Cvs : Ask(o, kind, c) => Told
  BY ToldNothing DEF Ask
<1>2. \A o \in Ops : Replayed(o) => Told
  BY ToldAgain DEF Replayed, Refuses
<1>3. \A o \in Ops : Clear(o) => Told
  BY <1>0, ToldResult DEF Clear
<1>4. \A o \in Ops : ClearRefused(o) => Told
  BY ToldRefusal DEF ClearRefused, Refuses
<1>5. \A o \in Ops : Replace(o) => Told
  BY <1>0, ToldResult DEF Replace
<1>6. \A o \in Ops : ReplaceRefused(o) => Told
  BY ToldRefusal DEF ReplaceRefused, Refuses
<1>7. \A o \in Ops, target \in Cvs : Copy(o, target) => Told
  BY ToldResult DEF Copy
<1>8. AssignLanguage => Told
  BY ToldNothing DEF AssignLanguage
<1>9. \A o \in Ops : CopyRefused(o) => Told
  BY ToldRefusal DEF CopyRefused, Refuses
<1>10. \A r \in CvRuns, kind \in {"import", "edit", "legacy"}, c \in Cvs : CvRunStarts(r, kind, c) => Told
  BY ToldNothing DEF CvRunStarts
<1>11. \A r \in CvRuns : EditReads(r) => Told
  BY ToldNothing DEF EditReads
<1>12. \A r \in CvRuns : CvRunSuspends(r) => Told
  BY ToldNothing DEF CvRunSuspends
<1>13. \A r \in CvRuns : CvRunResumes(r) => Told
  BY ToldNothing DEF CvRunResumes
<1>14. \A r \in CvRuns : CvRunFails(r) => Told
  BY ToldNothing DEF CvRunFails
<1>15. \A r \in CvRuns : ImportWrites(r) => Told
  BY ToldNothing DEF ImportWrites
<1>16. \A r \in CvRuns : Proposes(r) => Told
  BY ToldNothing DEF Proposes
<1>17. \A r \in CvRuns : Accept(r) => Told
  BY ToldNothing DEF Accept
<1>18. \A r \in CvRuns : Discard(r) => Told
  BY ToldNothing DEF Discard
<1>19. UNCHANGED cvVars => Told
  BY ToldNothing DEF cvVars
<1>20. QED
  BY <1>1, <1>2, <1>3, <1>4, <1>5, <1>6, <1>7, <1>8, <1>9,
     <1>10, <1>11, <1>12, <1>13, <1>14, <1>15, <1>16, <1>17, <1>18, <1>19, CvCases

AnswersWithin ==
  \A o \in Ops : \A answer \in receipts[o] \cup replies[o] : answer.rev <= MaxRev /\ answer.gen <= MaxRev
DocumentsWithin ==
  /\ First \in there /\ there \subseteq Cvs
  /\ \A c \in Cvs : rev[c] <= MaxRev /\ era[c] <= rev[c] /\ (c \notin there => rev[c] = 0)

LEMMA SettledWithin ==
  ASSUME CvTypes, AnswersWithin, NEW o \in Ops, NEW result, Settles(o, result), result.rev <= MaxRev,
         result.gen <= MaxRev
  PROVE  AnswersWithin'
<1>1. receipts' = [receipts EXCEPT ![o] = {result}]
  BY DEF Settles, Receipt
<1>2. replies' = replies \/ replies' = [replies EXCEPT ![o] = @ \cup {result}]
  BY DEF Settles, Replies
<1>3. \A p \in Ops : receipts'[p] \cup replies'[p] \subseteq receipts[p] \cup replies[p] \cup {result}
  BY <1>1, <1>2 DEF CvTypes
<1>4. QED BY <1>3 DEF AnswersWithin

LEMMA RepliedWithin ==
  ASSUME CvTypes, CvAssumption, AnswersWithin, NEW o \in Ops, NEW answer, Replies(o, answer),
         UNCHANGED receipts, answer \in receipts[o] \/ answer = Refusal
  PROVE  AnswersWithin'
<1>1. answer.rev <= MaxRev /\ answer.gen <= MaxRev
  BY DEF AnswersWithin, Refusal, CvAssumption
<1>2. \A p \in Ops : receipts'[p] \cup replies'[p] \subseteq receipts[p] \cup replies[p] \cup {answer}
  BY DEF Replies, CvTypes
<1>3. QED BY <1>1, <1>2 DEF AnswersWithin

(* A write of the document, alone or with a new generation of it.           *)
LEMMA WrittenWithin ==
  ASSUME CvAssumption, CvTypes, DocumentsWithin, NEW c \in there, NEW expected, NEW body,
         Writes(c, expected, body), UNCHANGED there, UNCHANGED era \/ era' = [era EXCEPT ![c] = @ + 1]
  PROVE  DocumentsWithin' /\ Done(c).rev <= MaxRev /\ Done(c).gen <= MaxRev
<1>1. /\ c \in Cvs /\ MaxRev \in Nat
      /\ \A d \in Cvs : rev[d] \in Nat /\ era[d] \in Nat
  BY DEF CvTypes, DocumentsWithin, CvAssumption
<1>2. rev'[c] = rev[c] + 1 /\ rev[c] < MaxRev /\ \A d \in Cvs : d # c => rev'[d] = rev[d]
  BY <1>1 DEF Writes, CvTypes
<1>3. (era'[c] = era[c] \/ era'[c] = era[c] + 1) /\ \A d \in Cvs : d # c => era'[d] = era[d]
  BY <1>1 DEF CvTypes
<1>4. rev'[c] <= MaxRev /\ era'[c] <= rev'[c] /\ era'[c] <= MaxRev
  BY <1>1, <1>2, <1>3 DEF DocumentsWithin
<1>5. DocumentsWithin'
  BY <1>1, <1>2, <1>3, <1>4 DEF DocumentsWithin
<1>6. QED BY <1>4, <1>5 DEF Done

LEMMA WithinStep ==
  ASSUME CvAssumption, CvTypes, WithinBounds, [CvNext]_cvVars
  PROVE  WithinBounds'
<1>0. /\ WithinBounds <=> /\ DocumentsWithin /\ AnswersWithin
                          /\ \A o \in Ops : op[o].cv \in there
                          /\ \A r \in CvRuns : job[r].cv \in there /\ prop[r].cv \in there
      /\ WithinBounds' <=> /\ DocumentsWithin' /\ AnswersWithin'
                           /\ \A o \in Ops : op'[o].cv \in there'
                           /\ \A r \in CvRuns : job'[r].cv \in there' /\ prop'[r].cv \in there'
  BY DEF WithinBounds, DocumentsWithin, AnswersWithin
<1>w. /\ DocumentsWithin /\ AnswersWithin /\ \A o \in Ops : op[o].cv \in there
      /\ \A r \in CvRuns : job[r].cv \in there /\ prop[r].cv \in there
  BY <1>0
<1>d. UNCHANGED <<there, rev, era>> => DocumentsWithin'
  BY <1>w DEF DocumentsWithin
<1>a. UNCHANGED <<receipts, replies>> => AnswersWithin'
  BY <1>w DEF AnswersWithin
<1>1. \A o \in Ops, kind \in {"clear", "replace", "copy"}, c \in Cvs : Ask(o, kind, c) => WithinBounds'
  BY <1>0, <1>w, <1>d, <1>a DEF Ask, CvTypes
<1>2. \A o \in Ops : Replayed(o) => WithinBounds'
  <2> SUFFICES ASSUME NEW o \in Ops, Replayed(o) PROVE WithinBounds'
    OBVIOUS
  <2>1. AnswersWithin'
    BY <1>w, RepliedWithin DEF Replayed, Refuses
  <2>2. QED BY <1>0, <1>w, <1>d, <2>1 DEF Replayed, Refuses
<1>3. \A o \in Ops : Clear(o) => WithinBounds'
  <2> SUFFICES ASSUME NEW o \in Ops, Clear(o) PROVE WithinBounds'
    OBVIOUS
  <2>1. DocumentsWithin' /\ Done(op[o].cv).rev <= MaxRev /\ Done(op[o].cv).gen <= MaxRev
    BY <1>w, WrittenWithin DEF Clear
  <2>2. AnswersWithin'
    BY <1>w, <2>1, SettledWithin DEF Clear
  <2>3. \A r \in CvRuns : prop'[r].cv = prop[r].cv
    BY DEF Clear, Invalidates, CvTypes, Proposal
  <2>4. QED BY <1>0, <1>w, <2>1, <2>2, <2>3 DEF Clear
<1>4. \A o \in Ops : ClearRefused(o) => WithinBounds'
  <2> SUFFICES ASSUME NEW o \in Ops, ClearRefused(o) PROVE WithinBounds'
    OBVIOUS
  <2>1. AnswersWithin'
    BY <1>w, RepliedWithin DEF ClearRefused, Refuses
  <2>2. QED BY <1>0, <1>w, <1>d, <2>1 DEF ClearRefused, Refuses
<1>5. \A o \in Ops : Replace(o) => WithinBounds'
  <2> SUFFICES ASSUME NEW o \in Ops, Replace(o) PROVE WithinBounds'
    OBVIOUS
  <2>1. DocumentsWithin' /\ Done(op[o].cv).rev <= MaxRev /\ Done(op[o].cv).gen <= MaxRev
    BY <1>w, WrittenWithin DEF Replace
  <2>2. AnswersWithin'
    BY <1>w, <2>1, SettledWithin DEF Replace
  <2>3. QED BY <1>0, <1>w, <2>1, <2>2 DEF Replace
<1>6. \A o \in Ops : ReplaceRefused(o) => WithinBounds'
  <2> SUFFICES ASSUME NEW o \in Ops, ReplaceRefused(o) PROVE WithinBounds'
    OBVIOUS
  <2>1. AnswersWithin'
    BY <1>w, RepliedWithin DEF ReplaceRefused, Refuses
  <2>2. QED BY <1>0, <1>w, <1>d, <2>1 DEF ReplaceRefused, Refuses
<1>7. \A o \in Ops, target \in Cvs : Copy(o, target) => WithinBounds'
  <2> SUFFICES ASSUME NEW o \in Ops, NEW target \in Cvs, Copy(o, target) PROVE WithinBounds'
    OBVIOUS
  <2>0. /\ target \notin there /\ there' = there \cup {target} /\ era' = era
        /\ rev' = [rev EXCEPT ![target] = 1] /\ Settles(o, Done(target))
        /\ UNCHANGED <<job, prop, op>>
    BY DEF Copy
  <2>1. rev'[target] = 1 /\ era[target] = 0 /\ \A c \in Cvs : c # target => rev'[c] = rev[c]
    BY <1>w, <2>0 DEF CvTypes, DocumentsWithin
  <2>2. MaxRev \in Nat /\ MaxRev >= 1
    BY DEF CvAssumption
  <2>3. DocumentsWithin'
    BY <1>w, <2>0, <2>1, <2>2 DEF DocumentsWithin
  <2>4. Done(target).rev <= MaxRev /\ Done(target).gen <= MaxRev
    BY <2>0, <2>1, <2>2 DEF Done
  <2>5. AnswersWithin'
    BY <1>w, <2>0, <2>4, SettledWithin
  <2>6. QED BY <1>0, <1>w, <2>0, <2>3, <2>5
<1>8. AssignLanguage => WithinBounds'
  BY <1>0, <1>w, <1>d, <1>a DEF AssignLanguage
<1>9. \A o \in Ops : CopyRefused(o) => WithinBounds'
  <2> SUFFICES ASSUME NEW o \in Ops, CopyRefused(o) PROVE WithinBounds'
    OBVIOUS
  <2>1. AnswersWithin'
    BY <1>w, RepliedWithin DEF CopyRefused, Refuses
  <2>2. QED BY <1>0, <1>w, <1>d, <2>1 DEF CopyRefused, Refuses
<1>10. \A r \in CvRuns, kind \in {"import", "edit", "legacy"}, c \in Cvs : CvRunStarts(r, kind, c) => WithinBounds'
  BY <1>0, <1>w, <1>d, <1>a DEF CvRunStarts, NoCvRun, CvTypes
<1>11. \A r \in CvRuns : EditReads(r) => WithinBounds'
  BY <1>0, <1>w, <1>d, <1>a DEF EditReads, CvTypes, CvRun
<1>12. \A r \in CvRuns : CvRunSuspends(r) => WithinBounds'
  BY <1>0, <1>w, <1>d, <1>a DEF CvRunSuspends, CvTypes, CvRun
<1>13. \A r \in CvRuns : CvRunResumes(r) => WithinBounds'
  BY <1>0, <1>w, <1>d, <1>a DEF CvRunResumes, CvTypes, CvRun
<1>14. \A r \in CvRuns : CvRunFails(r) => WithinBounds'
  BY <1>0, <1>w, <1>d, <1>a DEF CvRunFails, CvTypes, CvRun
<1>15. \A r \in CvRuns : ImportWrites(r) => WithinBounds'
  <2> SUFFICES ASSUME NEW r \in CvRuns, ImportWrites(r) PROVE WithinBounds'
    OBVIOUS
  <2>1. DocumentsWithin'
    BY <1>w, WrittenWithin DEF ImportWrites
  <2>2. \A q \in CvRuns : job'[q].cv = job[q].cv
    BY DEF ImportWrites, CvTypes, CvRun
  <2>3. QED BY <1>0, <1>w, <1>a, <2>1, <2>2 DEF ImportWrites
<1>16. \A r \in CvRuns : Proposes(r) => WithinBounds'
  <2> SUFFICES ASSUME NEW r \in CvRuns, Proposes(r) PROVE WithinBounds'
    OBVIOUS
  <2>1. \A q \in CvRuns : job'[q].cv = job[q].cv /\ prop'[q].cv \in {prop[q].cv, job[q].cv}
    BY DEF Proposes, CvTypes, CvRun
  <2>2. QED BY <1>0, <1>w, <1>d, <1>a, <2>1 DEF Proposes
<1>17. \A r \in CvRuns : Accept(r) => WithinBounds'
  <2> SUFFICES ASSUME NEW r \in CvRuns, Accept(r) PROVE WithinBounds'
    OBVIOUS
  <2>1. DocumentsWithin'
    BY <1>w, WrittenWithin DEF Accept
  <2>2. \A q \in CvRuns : prop'[q].cv = prop[q].cv
    BY DEF Accept, CvTypes, Proposal
  <2>3. QED BY <1>0, <1>w, <1>a, <2>1, <2>2 DEF Accept
<1>18. \A r \in CvRuns : Discard(r) => WithinBounds'
  BY <1>0, <1>w, <1>d, <1>a DEF Discard, CvTypes, Proposal
<1>19. UNCHANGED cvVars => WithinBounds'
  BY <1>0, <1>w, <1>d, <1>a DEF cvVars
<1>20. QED
  BY <1>1, <1>2, <1>3, <1>4, <1>5, <1>6, <1>7, <1>8, <1>9,
     <1>10, <1>11, <1>12, <1>13, <1>14, <1>15, <1>16, <1>17, <1>18, <1>19, CvCases

-----------------------------------------------------------------------------
(* A step keeps the invariant, and repeats the answer.                      *)
LEMMA CvStepHolds ==
  ASSUME CvAssumption, CvInv, [CvNext]_cvVars
  PROVE  CvInv' /\ RepeatsTheAnswer
BY CvTypeStep, GenStep, ReplyStep, WithinStep DEF CvInv, Told

LEMMA CvShows ==
  ASSUME CvAssumption, CvInv
  PROVE  CvTypeOK /\ RepliesAgree /\ ClearedStaysCleared
<1>1. RepliesAgree /\ ClearedStaysCleared /\ CvTypes /\ WithinBounds /\ MaxRev \in Nat
  BY DEF CvInv, OfItsGeneration, CvAssumption
<1>2. \A c \in Cvs : rev[c] \in 0..MaxRev /\ era[c] \in 0..MaxRev
  BY <1>1 DEF CvTypes, WithinBounds
<1>3. \A c \in Cvs : text[c] \subseteq 0..MaxRev
  BY <1>1, <1>2 DEF ClearedStaysCleared
<1>4. \A o \in Ops : receipts[o] \cup replies[o] \subseteq [ok : BOOLEAN, rev : 0..MaxRev, gen : 0..MaxRev]
  <2> SUFFICES ASSUME NEW o \in Ops, NEW answer \in receipts[o] \cup replies[o]
               PROVE  answer \in [ok : BOOLEAN, rev : 0..MaxRev, gen : 0..MaxRev]
    OBVIOUS
  <2>1. answer \in Answer /\ answer.rev <= MaxRev /\ answer.gen <= MaxRev
    BY <1>1 DEF CvTypes, WithinBounds
  <2>2. QED BY <1>1, <2>1 DEF Answer
<1>5. \A r \in CvRuns : job[r] \in CvRun /\ prop[r] \in Proposal
  BY <1>1 DEF CvTypes
<1>6. CvTypeOK
  BY <1>1, <1>2, <1>3, <1>4, <1>5 DEF CvTypeOK, CvTypes, WithinBounds, CvRun, Proposal
<1>7. QED BY <1>1, <1>6

LEMMA CvIsKept ==
  ASSUME CvAssumption
  PROVE  CvSpec => []CvInv
<1>1. CvInv /\ [CvNext]_cvVars => CvInv'
  BY CvStepHolds
<1>2. QED BY <1>1, CvInvHolds, PTL DEF CvSpec

(* What was cleared does not come back, by whatever was begun before         *)
(* (cv-lifecycle.ts, clear and guard).                                       *)
THEOREM Cleared ==
  ASSUME CvAssumption
  PROVE  CvSpec => [](CvTypeOK /\ ClearedStaysCleared)
<1>1. CvInv => CvTypeOK /\ ClearedStaysCleared
  BY CvShows
<1>2. QED BY <1>1, CvIsKept, PTL

(* A request that was carried out is answered with its result and no other,  *)
(* however often it is repeated (receipts of cv-lifecycle.ts and cv-copy.ts).*)
THEOREM OneAnswer ==
  ASSUME CvAssumption
  PROVE  CvSpec => []RepliesAgree /\ [][RepeatsTheAnswer]_cvVars
<1>1. CvInv => RepliesAgree
  BY CvShows
<1>2. CvInv /\ [CvNext]_cvVars => [RepeatsTheAnswer]_cvVars
  BY CvStepHolds
<1>3. QED BY <1>1, <1>2, CvIsKept, PTL DEF CvSpec

=============================================================================
