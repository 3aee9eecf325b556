----------------------------- MODULE MCWorkspace -----------------------------
(***************************************************************************)
(* What a person works on beside the searches, each on an instance of its  *)
(* own: focus says which.  "board" is an entry of the board from its first *)
(* step; "agent" is a prepared entry whose application form is filled in   *)
(* while the entry changes; "talk" is a conversation with one answer, in   *)
(* which a second run goes on and a third one is begun; "mixed" is one in  *)
(* which the second run does not say what it sends, and two folds are under*)
(* way; "cvs" is a CV that is cleared, copied, imported into and edited.   *)
(***************************************************************************)
EXTENDS Naturals

CONSTANTS r1, r2, r3, q1, q2, c1, c2, x, y

VARIABLES
    focus,
    \* Board, ApplicationAgent: working is its active
    entry, stat, gen, done, attempts, known, posting, tongue, cv, cvs, analysis, proc, open,
    alive, agent, agentGen, agentCv, seen, action, filled, steps, drafts, working,
    \* ConversationMemory
    walls, messages, run, note, folds,
    \* CvLifecycle
    there, assigned, rev, era, text, job, prop, op, receipts, replies

Looks == {{"blocked"}, {"apply"}, {"form", "direct"}, {"form", "draft", "cv"},
          {"form", "attached", "submit"}}

P == INSTANCE Board WITH MaxAttempts <- 2, MaxGen <- 3, MaxCv <- 3, MaxPosting <- 2
A == INSTANCE ApplicationAgent WITH
       MaxAttempts <- 1, MaxGen <- 2, MaxCv <- 3, MaxPosting <- 1, MaxIterations <- 2,
       MaxAgentGen <- 2, Pages <- Looks, active <- working
T == INSTANCE ConversationMemory WITH
       Runs <- {r1, r2, r3}, Recorded <- {r1, r2, r3}, Pieces <- {{x, y}, {x}},
       MaxExclusions <- 1, MaxExchanges <- 1, Keeps <- {0, 1}, MaxMessages <- 4, MaxFolds <- 1
M == INSTANCE ConversationMemory WITH
       Runs <- {r1, r2, r3}, Recorded <- {r1, r3}, Pieces <- {{x, y}, {x}},
       MaxExclusions <- 1, MaxExchanges <- 2, Keeps <- {0, 1}, MaxMessages <- 6, MaxFolds <- 2
C == INSTANCE CvLifecycle WITH
       Cvs <- {c1, c2}, First <- c1, CvRuns <- {r1, r2},
       Ops <- {q1, q2}, MaxRev <- 4

boardVars == <<entry, stat, gen, done, attempts, known, posting, tongue, cv, cvs, analysis,
               proc, open, alive>>
agentVars == <<agent, agentGen, agentCv, seen, action, filled, steps, drafts, working>>
talkVars == <<walls, messages, run, note, folds>>
cvVars == <<there, assigned, rev, era, text, job, prop, op, receipts, replies>>
workspaceVars == <<focus, boardVars, agentVars, talkVars, cvVars>>

\* An entry whose preparation has gone through once.
Prepared ==
    /\ entry = "kept" /\ stat = "ready" /\ gen = 1 /\ done = A!Step
    /\ attempts = [s \in A!Step |-> 1] /\ known = [s \in A!Asks |-> [of |-> 1, ok |-> TRUE]]
    /\ posting = 1 /\ tongue = TRUE /\ cv = [id |-> 2, reason |-> "tailored", of |-> 1]
    /\ cvs = 2 /\ analysis = 1 /\ proc = A!NoProc /\ open = 0 /\ alive = TRUE

\* A conversation with one question and its answer, which was built from x.
Answered ==
    /\ walls = {} /\ folds = {}
    /\ messages = <<[role |-> "user", of |-> "none"], [role |-> "assistant", of |-> r1]>>
    /\ note = [settled |-> FALSE, through |-> 0, atoms |-> {}]
    /\ run = [r \in {r1, r2, r3} |->
                IF r = r1 THEN [T!NoRunYet EXCEPT !.state = "closed", !.reached = {x},
                                  !.entries = {[kind |-> "piece", piece |-> {x}]}]
                ELSE T!NoRunYet]

WorkspaceInit ==
    /\ focus \in {"board", "agent", "talk", "mixed", "cvs"}
    /\ IF focus = "agent" THEN Prepared ELSE P!BoardInit
    /\ A!AgentInit /\ Answered /\ C!CvInit

\* The third run of a conversation is begun once the second is over, and goes no further:
\* what it is given while the second is under way, the second could be given.
OnlyBegun(r) ==
    /\ run'[r].state \in {"none", "open"} /\ run'[r].walk \in {"none", "begun"}
    /\ run'[r].state = "open" => run'[r2].state \in {"closed", "interrupted"}

\* Requests are alike, and so are the runs of a CV: the first begins first.
FirstComesFirst ==
    /\ op'[q2] # C!NoOp => op'[q1] # C!NoOp
    /\ job'[r2].state # "none" => job'[r1].state # "none"

WorkspaceNext ==
    \/ focus = "board" /\ (P!BoardNext \/ P!BoardCrash \/ P!BoardRestart)
       /\ UNCHANGED <<focus, agentVars, talkVars, cvVars>>
    \/ focus = "agent" /\ A!AgentNext /\ UNCHANGED <<focus, talkVars, cvVars>>
    \/ focus = "talk" /\ T!MemoryNext /\ OnlyBegun(r3)
       /\ UNCHANGED <<focus, boardVars, agentVars, cvVars>>
    \/ focus = "mixed" /\ M!MemoryNext /\ OnlyBegun(r3)
       /\ UNCHANGED <<focus, boardVars, agentVars, cvVars>>
    \/ focus = "cvs" /\ C!CvNext /\ FirstComesFirst
       /\ UNCHANGED <<focus, boardVars, agentVars, talkVars>>

\* Each instance's bounds are what its module asks of them.
ASSUME InstancesAreBounded ==
    /\ P!BoardAssumption /\ A!BoardAssumption /\ A!AgentAssumption
    /\ T!MemoryAssumption /\ M!MemoryAssumption /\ C!CvAssumption

WorkspaceSpec == WorkspaceInit /\ [][WorkspaceNext]_workspaceVars

-----------------------------------------------------------------------------
\* Steps of an entry that read complete are of what the entry holds, one draft at a
\* time works for an application, a note derives from the answers it names, and no
\* CV holds text from before it was cleared.
WorkIsAccounted ==
    /\ focus = "board" => P!BoardTypeOK /\ P!CompleteIsCurrent
    /\ focus = "agent" => A!BoardTypeOK /\ A!AgentTypeOK /\ A!CompleteIsCurrent /\ A!OneDraft
    /\ focus = "talk" => T!MemoryTypeOK /\ T!NoteIsAccounted
    /\ focus = "mixed" => M!MemoryTypeOK /\ M!NoteIsAccounted
    /\ focus = "cvs" => C!CvTypeOK /\ C!RepliesAgree /\ C!ClearedStaysCleared

\* What was superseded does nothing any more: the preparation of an older generation
\* and the draft of an older session write nothing, and a request that was carried
\* out is not carried out, nor refused, when it is repeated.
SupersededIsSilent ==
    [][/\ focus = "board" => P!OldWorkWritesNothing
       /\ focus = "agent" => A!OldWorkWritesNothing /\ A!ActsOnWhatItSees
       /\ focus = "cvs" => C!RepeatsTheAnswer]_workspaceVars

\* No text a conversation is handed to a run or a fold with derives from a piece
\* that is excluded by then.
NothingExcludedIsHandedOut ==
    [][/\ focus = "talk" => T!HandsOutNothingExcluded
       /\ focus = "mixed" => M!HandsOutNothingExcluded]_workspaceVars
=============================================================================
