-------------------------------- MODULE Board --------------------------------
(***************************************************************************)
(* One offer on the board: its preparation by runtime/board.ts, step after *)
(* step, in the entry that storage/sqlite/board.ts keeps.  Everything a    *)
(* person asks starts a new generation of the preparation; what an older   *)
(* one still does must not reach the entry.  One dropped and added again   *)
(* is another entry; imported ones and those put back from an archive are  *)
(* not here, and an orderly end of the process is a crash.                 *)
(***************************************************************************)
EXTENDS Naturals, FiniteSets, SequencesExt

CONSTANTS
    MaxAttempts,    \* attempts of a step; 3 in the code
    MaxGen, MaxCv, MaxPosting   \* bounds: generations, CV versions, postings

Steps == <<"fetch", "language", "copyCv", "analyze", "summary">>
Step == ToSet(Steps)
\* The steps whose run is of something that may have changed; what is detected of a
\* language is any, whichever run said it.
Asks == {"analyze", "summary"}

BoardAssumption == {MaxAttempts, MaxGen, MaxCv, MaxPosting} \subseteq Nat \ {0}

VARIABLES
    entry,      \* "none", "kept" or "dropped"
    stat, gen,  \* preparation.status and generation
    done,       \* the steps that read "complete"
    attempts,   \* attempts of each step; a crash adds to MaxAttempts what changes nothing
    known,      \* the run a step names: what it is of, 0 for none, and whether it succeeded
    posting,    \* the current posting, 0 before there is one
    tongue,     \* the language is certain, or a CV was chosen
    cv,         \* the current CV: its id, why it was made and of what
    cvs,        \* how many CVs the entry keeps
    analysis,   \* the posting the stored analysis is of
    proc,       \* the preparation under way
    open,       \* the CV the Summary editor was opened on
    alive       \* the process runs

prepVars == <<entry, stat, gen, done, attempts, known, posting, tongue, cv, cvs, analysis>>
boardEntryVars == <<prepVars, proc, open, alive>>

NoCv == [id |-> 0, reason |-> "none", of |-> 0]
NoRun == [of |-> 0, ok |-> FALSE]
NoProc == [on |-> FALSE, gen |-> 0, step |-> "none", wait |-> FALSE, cv |-> 0, aborted |-> FALSE]
Statuses == {"notStarted", "queued", "running", "waiting", "paused", "failed", "ready"}

BoardTypeOK ==
    /\ entry \in {"none", "kept", "dropped"} /\ stat \in Statuses /\ gen \in 0..MaxGen
    /\ done \subseteq Step /\ attempts \in [Step -> 0..MaxAttempts]
    /\ known \in [Asks -> [of : 0..MaxPosting, ok : BOOLEAN]] /\ posting \in 0..MaxPosting /\ tongue \in BOOLEAN
    /\ cv \in [id : 0..MaxCv, reason : {"none", "profile", "tailored", "manual"}, of : 0..MaxPosting]
    /\ cvs \in 0..MaxCv /\ analysis \in 0..MaxPosting /\ alive \in BOOLEAN /\ open \in 0..MaxCv

BoardInit ==
    /\ entry = "none" /\ stat = "notStarted" /\ gen = 0 /\ done = {}
    /\ attempts = [s \in Step |-> 0] /\ known = [s \in Asks |-> NoRun]
    /\ posting = 0 /\ tongue = FALSE /\ cv = NoCv /\ cvs = 0 /\ analysis = 0
    /\ proc = NoProc /\ open = 0 /\ alive = TRUE

Index(step) == CHOOSE i \in 1..Len(Steps) : Steps[i] = step
NextStep == IF Step \subseteq done THEN "none"
            ELSE CHOOSE s \in Step \ done : \A t \in Step \ done : Index(s) <= Index(t)

-----------------------------------------------------------------------------
\* What a person asks.  Each is a write with the revision the person saw, so a
\* stale one is refused; it ends the preparation of the older generation.

AbortOutdated == proc' = [proc EXCEPT !.aborted = @ \/ (proc.on /\ proc.gen # gen')]
Kept == alive /\ entry = "kept" /\ gen < MaxGen

\* resetFrom: the steps from one on are as they never were.
Forgets(step) == {Steps[i] : i \in Index(step)..Len(Steps)}

Begun(step) ==
    /\ attempts' = [s \in Step |-> IF s \in Forgets(step) THEN 0 ELSE attempts[s]]
    /\ known' = [s \in Asks |-> IF s \in Forgets(step) THEN NoRun ELSE known[s]]
    /\ analysis' = IF "analyze" \in Forgets(step) THEN 0 ELSE analysis
    /\ gen' = gen + 1 /\ stat' = "queued"
ResetFrom(step) == done' = done \ Forgets(step) /\ Begun(step)

Add ==
    /\ alive /\ entry = "none"
    /\ entry' = "kept" /\ stat' = "queued" /\ gen' = 1
    /\ UNCHANGED <<done, attempts, known, posting, tongue, cv, cvs, analysis, proc, open, alive>>

Pause ==
    /\ Kept
    /\ stat' = "paused" /\ gen' = gen + 1 /\ AbortOutdated
    /\ UNCHANGED <<entry, done, attempts, known, posting, tongue, cv, cvs, analysis, open, alive>>

\* refreshPosting, refreshCv, regenerate.
Again(step) ==
    /\ Kept /\ ResetFrom(step) /\ AbortOutdated
    /\ UNCHANGED <<entry, posting, tongue, cv, cvs, open, alive>>

\* prepare, resume, retry.
Resume ==
    /\ Kept
    /\ gen' = gen + 1 /\ stat' = "queued" /\ AbortOutdated
    /\ attempts' = [s \in Step |-> IF s = NextStep THEN 0 ELSE attempts[s]]
    /\ UNCHANGED <<entry, done, known, posting, tongue, cv, cvs, analysis, open, alive>>

\* configure: a language, a CV, or the text of the posting, which makes the fetch
\* complete.
Configure ==
    /\ Kept
    /\ IF posting > 0 THEN ResetFrom("copyCv") ELSE ResetFrom("fetch")
    /\ tongue' \in {tongue, TRUE} /\ AbortOutdated
    /\ UNCHANGED <<entry, posting, cv, cvs, open, alive>>

PastePosting ==
    /\ Kept /\ posting < MaxPosting
    /\ posting' = posting + 1
    /\ Begun("fetch") /\ done' = {"fetch"}
    /\ tongue' \in {tongue, TRUE} /\ AbortOutdated
    /\ UNCHANGED <<entry, cv, cvs, open, alive>>

OpenEditor == /\ alive /\ cv.id # open /\ open' = cv.id
              /\ UNCHANGED <<prepVars, proc, alive>>

\* updateSummary: an edit of the CV the editor was opened on.
UpdateSummary ==
    /\ Kept /\ cvs < MaxCv /\ cv.id # 0 /\ open = cv.id
    /\ cvs' = cvs + 1 /\ cv' = [id |-> cvs + 1, reason |-> "manual", of |-> cv.of]
    /\ gen' = gen + 1 /\ stat' = "ready" /\ AbortOutdated
    /\ done' = done \cup {"summary"}
    /\ attempts' = [attempts EXCEPT !["summary"] = 0]
    /\ known' = [known EXCEPT !["summary"] = NoRun]
    /\ UNCHANGED <<entry, posting, tongue, analysis, open, alive>>

Drop ==
    /\ alive /\ entry = "kept"
    /\ entry' = "dropped" /\ proc' = [proc EXCEPT !.aborted = proc.on]
    /\ UNCHANGED <<stat, gen, done, attempts, known, posting, tongue, cv, cvs, analysis, open, alive>>

-----------------------------------------------------------------------------
\* process: one generation of the preparation.

\* pump is scheduled for ever; an entry is taken up when its last process ended.
Pump ==
    /\ alive /\ entry = "kept" /\ stat = "queued" /\ ~proc.on
    /\ proc' = [NoProc EXCEPT !.on = TRUE, !.gen = gen]
    /\ UNCHANGED <<prepVars, open, alive>>

\* store.internal: nothing is written for another generation, or a dropped entry.
Owns == entry = "kept" /\ proc.gen = gen

ProcEnds == proc' = NoProc
Waits == alive /\ proc.on /\ proc.wait
Stale == proc.aborted \/ ~alive

\* The loop: the next step begins, or the preparation is through or outdated.
Loop == alive /\ proc.on /\ ~proc.wait
LoopEnds ==
    /\ Loop /\ (proc.aborted \/ ~Owns \/ NextStep = "none")
    /\ stat' = IF ~proc.aborted /\ Owns THEN "ready" ELSE stat
    /\ ProcEnds
    /\ UNCHANGED <<entry, gen, done, attempts, known, posting, tongue, cv, cvs, analysis, open, alive>>

Begins(step) ==
    /\ Loop /\ ~proc.aborted /\ Owns /\ NextStep = step
    /\ attempts' = [attempts EXCEPT ![step] = IF @ < MaxAttempts THEN @ + 1 ELSE @]

\* runStep: a run that succeeded answers again; one that is not known to have ended is
\* asked with what it was of, and any other is a new one.
Named(step, of) ==
    IF known[step].ok \/ of = 0 THEN {known[step]}
    ELSE {[of |-> n, ok |-> FALSE] : n \in {of, known[step].of} \ {0}}

StepBegins(step) ==
    /\ step # "copyCv" /\ Begins(step)
    /\ stat' = "running"
    /\ proc' = [proc EXCEPT !.step = step, !.wait = TRUE, !.cv = cv.id]
    /\ IF step \notin Asks THEN UNCHANGED known
       ELSE \E named \in Named(step, IF step = "summary" THEN analysis ELSE posting) :
              known' = [known EXCEPT ![step] = named]
    /\ UNCHANGED <<entry, gen, done, posting, tongue, cv, cvs, analysis, open, alive>>

\* An error waits for a person, ends the preparation, or is tried again.
FailsTo(tried) == {"waiting", "failed"} \cup (IF tried < MaxAttempts THEN {"queued"} ELSE {})

\* checkpoint: complete, and "ready" when it was the last.
Completes(step) ==
    /\ done' = done \cup {step}
    /\ stat' = IF done' = Step THEN "ready" ELSE "running"
    /\ proc' = [proc EXCEPT !.wait = FALSE]

\* copyCv does not wait: it fails without a language, or takes the profile's CV.
CopyCv ==
    /\ Begins("copyCv")
    /\ \/ /\ tongue /\ cvs < MaxCv
          /\ Completes("copyCv")
          /\ cvs' = cvs + 1 /\ cv' = [id |-> cvs + 1, reason |-> "profile", of |-> 0]
       \/ /\ stat' \in FailsTo(attempts'["copyCv"]) /\ ProcEnds
          /\ UNCHANGED <<done, cv, cvs>>
    /\ UNCHANGED <<entry, gen, known, posting, tongue, analysis, open, alive>>

\* The run of a step succeeds, be it after the process was told to stop; its row outlives
\* a crash before the checkpoint and is used again as long as the step names it.
RunSucceeds(step) ==
    /\ Waits /\ proc.step = step /\ entry = "kept"
    /\ known[step].of # 0 /\ ~known[step].ok
    /\ known' = [known EXCEPT ![step].ok = TRUE]
    /\ UNCHANGED <<entry, stat, gen, done, attempts, posting, tongue, cv, cvs, analysis,
                   proc, open, alive>>

Checkpointed(step) == Waits /\ ~Stale /\ proc.step = step /\ Owns
FetchDone ==
    /\ Checkpointed("fetch") /\ Completes("fetch") /\ posting < MaxPosting
    /\ posting' = posting + 1
    /\ UNCHANGED <<entry, gen, attempts, known, tongue, cv, cvs, analysis, open, alive>>

\* A detected language leaves no CV chosen by an earlier detection; a posting
\* without a description is of no certain language.
LanguageDone ==
    /\ Checkpointed("language") /\ Completes("language")
    /\ tongue' \in BOOLEAN
    /\ UNCHANGED <<entry, gen, attempts, known, posting, cv, cvs, analysis, open, alive>>

AnalyzeDone ==
    /\ Checkpointed("analyze") /\ known["analyze"].ok /\ Completes("analyze")
    /\ analysis' = known["analyze"].of
    /\ UNCHANGED <<entry, gen, attempts, known, posting, tongue, cv, cvs, open, alive>>

SummaryDone ==
    /\ Checkpointed("summary") /\ known["summary"].ok /\ Completes("summary") /\ cvs < MaxCv
    /\ proc.cv = cv.id
    /\ cvs' = cvs + 1 /\ cv' = [id |-> cvs + 1, reason |-> "tailored", of |-> known["summary"].of]
    /\ UNCHANGED <<entry, gen, attempts, known, posting, tongue, analysis, open, alive>>

StepFails ==
    /\ Waits /\ ~Stale /\ Owns
    /\ stat' \in FailsTo(attempts[proc.step])
    /\ ProcEnds
    /\ UNCHANGED <<entry, gen, done, attempts, known, posting, tongue, cv, cvs, analysis, open, alive>>

\* What an aborted process still waits for settles, and writes nothing.
ProcSettles ==
    /\ Waits /\ (Stale \/ ~Owns)
    /\ ProcEnds
    /\ UNCHANGED <<prepVars, open, alive>>

BoardCrash == /\ alive /\ alive' = FALSE /\ proc' = NoProc
              /\ UNCHANGED <<prepVars, open>>
BoardRestart == /\ ~alive /\ alive' = TRUE
                /\ stat' = IF stat = "running" THEN "queued" ELSE stat
                /\ UNCHANGED <<entry, gen, done, attempts, known, posting, tongue, cv, cvs,
                               analysis, proc, open>>

BoardNext ==
    \/ Add \/ Pause \/ Resume \/ Configure \/ PastePosting \/ OpenEditor \/ UpdateSummary \/ Drop
    \/ \E step \in {"fetch", "copyCv", "summary"} : Again(step)
    \/ Pump \/ LoopEnds \/ CopyCv \/ \E step \in Step : StepBegins(step)
    \/ \E step \in Asks : RunSucceeds(step)
    \/ FetchDone \/ LanguageDone \/ AnalyzeDone \/ SummaryDone \/ StepFails \/ ProcSettles

BoardSpec == BoardInit /\ [][BoardNext \/ BoardCrash \/ BoardRestart]_boardEntryVars

-----------------------------------------------------------------------------
\* What a step left complete is of what the entry holds: the analysis of the
\* current posting, and a tailored CV of that analysis, although runs are used
\* again after a crash, postings are replaced and steps begin anew.
CompleteIsCurrent ==
    entry = "kept" =>
      /\ "analyze" \in done => analysis = posting
      /\ "summary" \in done /\ cv.reason = "tailored" /\ "analyze" \in done => cv.of = analysis
      /\ stat = "ready" => "summary" \in done

\* The work of an older generation, of a dropped entry or of a paused one never
\* reaches the entry: the CV, the posting and the analysis change only by what a
\* person asks or by the preparation of the generation the entry is in.
OldWorkWritesNothing ==
    cv' # cv \/ posting' # posting \/ analysis' # analysis =>
      gen' = gen + 1 \/ (proc.gen = gen /\ ~proc.aborted /\ stat \in {"queued", "running"})
=============================================================================
