-------------------------- MODULE ApplicationAgent --------------------------
(***************************************************************************)
(* The agent that fills in application forms (runtime/application-agent.ts)*)
(* for an entry of the board: a browser reports what it sees, the agent    *)
(* answers with one action at a time, and drafting an answer takes a run   *)
(* during which the person may pause, cancel, resume or change the CV.     *)
(***************************************************************************)
EXTENDS Board

CONSTANTS
    Pages,          \* what a page may hold: sets of features
    MaxIterations,  \* observations before the agent asks; 30 in the code
    MaxAgentGen     \* bound: generations of a session

VARIABLES
    agent,      \* status of the session, "none" before there is one
    agentGen,   \* its generation
    agentCv,    \* cvVersionId: the CV the session was started with
    seen,       \* the observation it stored last: a number, and the page
    action,     \* the action it planned: its kind and observation
    filled,     \* some draftable fields were asked for
    steps,      \* iterations
    drafts,     \* the runs drafting answers, the last one registered in active
    active      \* the run active holds for the entry, 0: none

agentVars == <<agent, agentGen, agentCv, seen, action, filled, steps, drafts, active>>
NoAction == [kind |-> "none", obs |-> 0]
NoSeen == [obs |-> 0, page |-> {}]
\* blocked: another site's frame is in the way; form, apply, next, submit: what the
\* page offers; direct: an empty field the profile answers; draft: an empty field
\* to be drafted; cv: an empty CV upload; attached: a CV is attached, on the page or
\* as the browser reported; invalid: a field to be completed.
Features == {"blocked", "form", "apply", "next", "submit", "direct", "draft", "cv",
             "attached", "invalid"}
AgentAssumption ==
    /\ Pages \subseteq SUBSET Features
    /\ MaxIterations \in Nat /\ MaxAgentGen \in Nat \ {0}

AgentTypeOK ==
    /\ agent \in {"none", "running", "paused", "needsInput", "failed", "review", "cancelled"}
    /\ agentGen \in 0..MaxAgentGen /\ agentCv \in 0..MaxCv /\ seen.page \subseteq Features
    /\ action.kind \in {"none", "pause", "navigate", "fill", "attach", "review"}
    /\ filled \in BOOLEAN /\ steps \in 0..MaxIterations /\ active \in 0..2

AgentInit ==
    /\ agent = "none" /\ agentGen = 0 /\ agentCv = 0 /\ seen = NoSeen
    /\ action = NoAction /\ filled = FALSE /\ steps = 0 /\ drafts = {} /\ active = 0

\* The CV of the session is still the entry's, and prepared.
CvHolds == cv.id = agentCv /\ stat = "ready"
Session == alive /\ entry = "kept" /\ agent # "none"

AgentStart ==
    /\ alive /\ entry = "kept" /\ agent \notin {"running", "paused", "needsInput"}
    /\ stat = "ready" /\ cv.id # 0 /\ posting # 0
    /\ agent' = "running" /\ agentGen' = 1 /\ agentCv' = cv.id
    /\ seen' = NoSeen /\ action' = NoAction /\ filled' = FALSE /\ steps' = 0
    /\ drafts' = {[d EXCEPT !.own = FALSE] : d \in drafts}
    /\ UNCHANGED <<active, boardEntryVars>>

\* plan, for the observation obs; a pause leaves the rest to the person.
Plans(kind, obs) ==
    /\ action' = [kind |-> kind, obs |-> obs]
    /\ agent' = IF kind = "pause" THEN "needsInput" ELSE agent

\* What to do with a page, in the order the code asks.
AfterDraft(page) ==
    CASE "cv" \in page -> "attach"
      [] "invalid" \in page -> "pause"
      [] "next" \in page -> "navigate"
      [] "attached" \notin page -> "pause"
      [] "submit" \in page -> "review"
      [] OTHER -> "pause"
Decides(page, asked) ==
    CASE "blocked" \in page -> "pause"
      [] "form" \notin page -> IF "apply" \in page THEN "navigate" ELSE "pause"
      [] "direct" \in page -> "fill"
      [] "draft" \in page /\ ~asked -> "draft"
      [] OTHER -> AfterDraft(page)

Refused ==
    /\ Session /\ agent = "running" /\ (~CvHolds \/ (active = 0 /\ steps >= MaxIterations))
    /\ Plans("pause", seen.obs + 1)
    /\ UNCHANGED <<agentGen, agentCv, seen, filled, steps, drafts, active, boardEntryVars>>

\* asked: whether the model was asked for the fields of the page; a page may have fields
\* that were on none before.
Observe(page, asked) ==
    LET obs == seen.obs + 1 IN
    /\ asked => filled
    /\ Session /\ agent = "running" /\ CvHolds /\ active = 0 /\ steps < MaxIterations
    /\ seen' = [obs |-> obs, page |-> page] /\ steps' = steps + 1
    /\ IF Decides(page, asked) = "draft"
       THEN \E id \in 1..2 :
              /\ ~\E d \in drafts : d.id = id
              /\ drafts' = drafts \cup {[id |-> id, gen |-> agentGen, obs |-> obs, page |-> page,
                                         own |-> TRUE, aborted |-> FALSE]}
              /\ active' = id /\ action' = NoAction /\ UNCHANGED agent
       ELSE Plans(Decides(page, asked), obs) /\ UNCHANGED <<drafts, active>>
    /\ UNCHANGED <<agentGen, agentCv, filled, boardEntryVars>>

-----------------------------------------------------------------------------
\* The run of a draft settles.  The CV is looked at first, whatever became of
\* the session; then the draft must still be of the session's generation.

Dropped(d) == drafts' = drafts \ {d}
Frees(d) == active' = IF active = d.id THEN 0 ELSE active

DraftOfOldCv(d) ==
    /\ Session /\ d.own /\ ~CvHolds
    /\ Plans("pause", d.obs)
    /\ Dropped(d) /\ Frees(d)
    /\ UNCHANGED <<agentGen, agentCv, seen, filled, steps, boardEntryVars>>

Current(d) == ~d.aborted /\ d.own /\ d.gen = agentGen /\ agent = "running"
DraftReturns(d) ==
    /\ Session /\ CvHolds /\ Current(d)
    /\ filled' = TRUE
    /\ Plans("fill", d.obs) \/ Plans(AfterDraft(d.page), d.obs)
    /\ Dropped(d) /\ Frees(d)
    /\ UNCHANGED <<agentGen, agentCv, seen, steps, boardEntryVars>>

DraftFails(d) ==
    /\ Session /\ d.own /\ ~d.aborted
    /\ agent' = "failed"
    /\ Dropped(d) /\ Frees(d)
    /\ UNCHANGED <<agentGen, agentCv, seen, action, filled, steps, boardEntryVars>>

\* Cancelled, or of a session that is gone: nothing is written.
DraftIgnored(d) ==
    /\ alive /\ (~Session \/ ~d.own \/ d.aborted)
    /\ Dropped(d) /\ Frees(d)
    /\ UNCHANGED <<agent, agentGen, agentCv, seen, action, filled, steps, boardEntryVars>>

-----------------------------------------------------------------------------
\* The browser reports what became of an action; the person steers.

Report(ok) ==
    /\ Session /\ action.kind # "none" /\ agent = "running"
    /\ agent' = IF ~ok THEN "needsInput" ELSE IF action.kind = "review" THEN "review" ELSE agent
    /\ UNCHANGED <<agentGen, agentCv, seen, action, filled, steps, drafts, active, boardEntryVars>>

\* cancelEntry: the draft is aborted and no longer registered.
CancelEntry == /\ drafts' = {IF d.id = active THEN [d EXCEPT !.aborted = TRUE] ELSE d : d \in drafts}
               /\ active' = 0

Control(what) ==
    /\ Session /\ agentGen < MaxAgentGen
    /\ what = "running" => CvHolds
    /\ CancelEntry
    /\ agentGen' = agentGen + 1 /\ agent' = what
    /\ action' = NoAction /\ seen' = [seen EXCEPT !.page = {}]
    /\ filled' = (filled /\ what # "running")
    /\ steps' = IF what = "running" THEN 0 ELSE steps
    /\ UNCHANGED <<agentCv, boardEntryVars>>

\* A resume is refused with another CV; what was drafted is aborted all the same.
ResumeRefused ==
    /\ Session /\ ~CvHolds
    /\ CancelEntry
    /\ UNCHANGED <<agent, agentGen, agentCv, seen, action, filled, steps, boardEntryVars>>

AgentStep ==
    \/ AgentStart \/ Refused \/ \E page \in Pages, asked \in BOOLEAN : Observe(page, asked)
    \/ \E d \in drafts : DraftOfOldCv(d) \/ DraftReturns(d) \/ DraftFails(d) \/ DraftIgnored(d)
    \/ \E ok \in BOOLEAN : Report(ok)
    \/ \E what \in {"paused", "running", "cancelled"} : Control(what)
    \/ ResumeRefused

\* A dropped entry takes its session along (onDrop); the rest of the board does
\* not know the agent.
BoardStep ==
    /\ BoardNext
    /\ IF entry' = "dropped" /\ entry = "kept"
       THEN CancelEntry /\ UNCHANGED <<agent, agentGen, agentCv, seen, action, filled, steps>>
       ELSE UNCHANGED agentVars

AgentCrash == /\ BoardCrash /\ drafts' = {} /\ active' = 0
              /\ UNCHANGED <<agent, agentGen, agentCv, seen, action, filled, steps>>
\* A session that was running when the process ended is paused.
AgentRestart ==
    /\ BoardRestart
    /\ IF agent = "running" /\ entry = "kept"
       THEN /\ agentGen < MaxAgentGen /\ agentGen' = agentGen + 1
            /\ agent' = "paused" /\ action' = NoAction
       ELSE UNCHANGED <<agent, agentGen, action>>
    /\ UNCHANGED <<agentCv, seen, filled, steps, drafts, active>>

AgentNext == AgentStep \/ BoardStep \/ AgentCrash \/ AgentRestart
AgentSpec == BoardInit /\ AgentInit /\ [][AgentNext]_<<boardEntryVars, agentVars>>

-----------------------------------------------------------------------------
\* One draft at a time works for the session: one that a pause or a cancel put
\* aside never takes the place of a later one, nor lets a second one begin.
OneDraft ==
    \A d, e \in drafts : ~d.aborted /\ ~e.aborted => d = e /\ active = d.id

\* The browser is told to act only on what it showed last, in the generation it
\* showed it in, with the CV the session was started with.
ActsOnWhatItSees ==
    action'.kind \in {"fill", "attach", "navigate", "review"} /\ action' # action =>
      /\ action'.obs = seen'.obs /\ agentCv = cv.id /\ agent = "running"
      /\ \A d \in drafts \ drafts' : d.gen = agentGen
=============================================================================
