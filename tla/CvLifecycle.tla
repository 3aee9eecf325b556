----------------------------- MODULE CvLifecycle -----------------------------
(***************************************************************************)
(* The CVs of a person as storage/sqlite/cv-lifecycle.ts, cv-copy.ts and   *)
(* the profile writes of runtime/create.ts keep them: documents under a    *)
(* revision, generations that a clear begins, proposals of edit runs, and  *)
(* receipts that make a request a host repeats, not knowing whether it was *)
(* carried out, happen once.                                               *)
(*                                                                         *)
(* A text is the generation it was written in; a document is the set of    *)
(* those its text comes from.  replies is what reached the hosts: an answer*)
(* may be lost after its request was carried out.                          *)
(***************************************************************************)
EXTENDS Naturals, FiniteSets

CONSTANTS
    Cvs,            \* CV contexts
    First,          \* the one there is at first; the others are copies to be
    CvRuns,         \* runs on a CV
    Ops,            \* ids of requests
    MaxRev          \* bound: revisions of a document

CvAssumption == First \in Cvs /\ MaxRev \in Nat \ {0}

VARIABLES
    there,      \* the contexts that exist
    assigned,   \* First has a language; until then runs may know no contexts
    rev, era,   \* revision of the document, 0 without one; generation
    text,       \* what the document is made of
    job,        \* runs: state, CV, generation and revision they began with, what they read
    prop,       \* proposals: status, base, text
    op,         \* requests as their hosts made them
    receipts,   \* the result kept for each request that was carried out
    replies     \* the answers to each request that reached its host

cvVars == <<there, assigned, rev, era, text, job, prop, op, receipts, replies>>

NoOp == [kind |-> "none", cv |-> First, on |-> 0]
NoCvRun == [state |-> "none", kind |-> "none", cv |-> First, gen |-> 0, rev |-> 0, base |-> 0,
            text |-> {}]
NoProposal == [status |-> "none", cv |-> First, base |-> 0, gen |-> 0, text |-> {}]
Refusal == [ok |-> FALSE, rev |-> 0, gen |-> 0]
Done(c) == [ok |-> TRUE, rev |-> rev'[c], gen |-> era'[c]]

CvTypeOK ==
    /\ First \in there /\ there \subseteq Cvs /\ assigned \in BOOLEAN
    /\ rev \in [Cvs -> 0..MaxRev] /\ era \in [Cvs -> 0..MaxRev]
    /\ \A c \in Cvs : text[c] \subseteq 0..MaxRev
    /\ \A r \in CvRuns : /\ job[r].state \in {"none", "running", "suspended", "succeeded", "failed"}
                       /\ prop[r].status \in {"none", "pending", "invalidated", "accepted",
                                              "discarded"}
    /\ \A o \in Ops : receipts[o] \cup replies[o] \subseteq [ok : BOOLEAN, rev : 0..MaxRev, gen : 0..MaxRev]

CvInit ==
    /\ there = {First} /\ assigned = FALSE /\ rev = [c \in Cvs |-> IF c = First THEN 1 ELSE 0]
    /\ era = [c \in Cvs |-> 0] /\ text = [c \in Cvs |-> IF c = First THEN {0} ELSE {}]
    /\ job = [r \in CvRuns |-> NoCvRun] /\ prop = [r \in CvRuns |-> NoProposal]
    /\ op = [o \in Ops |-> NoOp] /\ receipts = [o \in Ops |-> {}]
    /\ replies = [o \in Ops |-> {}]

-----------------------------------------------------------------------------
\* documents.update with the revision the caller saw.
Writes(c, expected, body) ==
    /\ rev[c] = expected /\ rev[c] < MaxRev
    /\ rev' = [rev EXCEPT ![c] = @ + 1] /\ text' = [text EXCEPT ![c] = body]
Refuses == UNCHANGED <<there, assigned, rev, era, text, prop, receipts>>

SlipAnyGeneration(c, g) == TRUE

\* guard: a write of an earlier generation is refused.
Guards(c, g) == era[c] = g

\* A host asks, for the document as it shows it, and may ask again and again
\* until an answer arrives; the request may be late.
Ask(o, kind, c) ==
    /\ op[o] = NoOp /\ c \in there
    /\ op' = [op EXCEPT ![o] = [kind |-> kind, cv |-> c, on |-> rev[c]]]
    /\ UNCHANGED <<there, assigned, rev, era, text, job, prop, receipts, replies>>

Replies(o, answer) == replies' = [replies EXCEPT ![o] = @ \cup {answer}]
SlipKeepsNoReceipt(o, result) == UNCHANGED receipts

Settled(o) == receipts[o] # {}
Receipt(o, result) == receipts' = [receipts EXCEPT ![o] = {result}]

\* The result is kept with what was written; its answer may not arrive.
Settles(o, result) ==
    /\ Receipt(o, result)
    /\ Replies(o, result) \/ UNCHANGED replies

\* A repeated request is answered from its receipt.
Replayed(o) ==
    /\ \E result \in receipts[o] : Replies(o, result)
    /\ Refuses /\ UNCHANGED <<job, op>>

Invalidates(c) ==
    prop' = [r \in CvRuns |-> IF prop[r].cv = c /\ prop[r].status = "pending"
                            THEN [prop[r] EXCEPT !.status = "invalidated"] ELSE prop[r]]

\* Runs that know no context stand in the way of a clear of the first CV.
LegacyRunUnderWay(c) ==
    /\ c = First
    /\ \E r \in CvRuns : job[r].kind = "legacy" /\ job[r].state \in {"running", "suspended"}

Clear(o) ==
    LET c == op[o].cv IN
    /\ op[o].kind = "clear" /\ ~Settled(o)
    /\ ~LegacyRunUnderWay(c) /\ Writes(c, op[o].on, {})
    /\ era' = [era EXCEPT ![c] = @ + 1]
    /\ Invalidates(c) /\ Settles(o, Done(c))
    /\ UNCHANGED <<there, assigned, job, op>>
ClearRefused(o) ==
    LET c == op[o].cv IN
    /\ op[o].kind = "clear" /\ ~Settled(o)
    /\ LegacyRunUnderWay(c) \/ rev[c] # op[o].on
    /\ Replies(o, Refusal) /\ Refuses /\ UNCHANGED <<job, op>>

\* replaceContext: what a person wrote over the document they saw.
Replace(o) ==
    LET c == op[o].cv IN
    /\ op[o].kind = "replace" /\ ~Settled(o)
    /\ Writes(c, op[o].on, {era[c]})
    /\ UNCHANGED era /\ Settles(o, Done(c))
    /\ UNCHANGED <<there, assigned, job, prop, op>>
ReplaceRefused(o) ==
    /\ op[o].kind = "replace" /\ ~Settled(o) /\ rev[op[o].cv] # op[o].on
    /\ Replies(o, Refusal) /\ Refuses /\ UNCHANGED <<job, op>>

\* assignLanguage: contexts are enabled once no run is left that knows none.
AssignLanguage ==
    /\ ~assigned /\ ~LegacyRunUnderWay(First) /\ assigned' = TRUE
    /\ UNCHANGED <<there, rev, era, text, job, prop, op, receipts, replies>>

\* copy: a new context with the text of another, whose id is its receipt.
Copy(o, target) ==
    LET c == op[o].cv IN
    /\ op[o].kind = "copy" /\ ~Settled(o) /\ assigned /\ ~LegacyRunUnderWay(First)
    /\ op[o].on > 0 /\ rev[c] = op[o].on /\ target \notin there
    /\ there' = there \cup {target}
    /\ rev' = [rev EXCEPT ![target] = 1]
    /\ text' = [text EXCEPT ![target] = IF text[c] = {} THEN {} ELSE {era[target]}]
    /\ UNCHANGED era /\ Settles(o, Done(target))
    /\ UNCHANGED <<assigned, job, prop, op>>
CopyRefused(o) ==
    /\ op[o].kind = "copy" /\ ~Settled(o)
    /\ rev[op[o].cv] # op[o].on \/ there = Cvs \/ ~assigned \/ LegacyRunUnderWay(First)
    /\ Replies(o, Refusal) /\ Refuses /\ UNCHANGED <<job, op>>

-----------------------------------------------------------------------------
\* Runs: an import writes the CV, an edit proposes a change of it.

\* scopeCv captures generation and revision; a run of the protocol of before knows
\* neither and may write the first CV.
CvRunStarts(r, kind, c) ==
    /\ job[r].state = "none" /\ c \in there
    /\ kind = "legacy" => ~assigned /\ c = First /\ there = {First}
    /\ job' = [job EXCEPT ![r] = [NoCvRun EXCEPT !.state = "running", !.kind = kind, !.cv = c,
                                                 !.gen = era[c], !.rev = rev[c]]]
    /\ UNCHANGED <<there, assigned, rev, era, text, prop, op, receipts, replies>>

\* An edit reads the document as it is by then.
EditReads(r) ==
    /\ job[r].state = "running" /\ job[r].kind = "edit" /\ job[r].base = 0
    /\ job' = [job EXCEPT ![r].base = rev[job[r].cv], ![r].text = text[job[r].cv] \cup {job[r].gen}]
    /\ UNCHANGED <<there, assigned, rev, era, text, prop, op, receipts, replies>>

CvRunSuspends(r) ==
    /\ job[r].state = "running" /\ job' = [job EXCEPT ![r].state = "suspended"]
    /\ UNCHANGED <<there, assigned, rev, era, text, prop, op, receipts, replies>>
\* A resume binds the run to the generation and revision it began with.
CvRunResumes(r) ==
    /\ job[r].state = "suspended"
    /\ IF job[r].kind = "legacy" THEN ~assigned
       ELSE Guards(job[r].cv, job[r].gen) /\ rev[job[r].cv] = job[r].rev
    /\ job' = [job EXCEPT ![r].state = "running"]
    /\ UNCHANGED <<there, assigned, rev, era, text, prop, op, receipts, replies>>

CvRunFails(r) ==
    /\ job[r].state \in {"running", "suspended"} /\ job' = [job EXCEPT ![r].state = "failed"]
    /\ UNCHANGED <<there, assigned, rev, era, text, prop, op, receipts, replies>>

\* An import merges what it extracted into the CV it began with.
ImportWrites(r) ==
    LET c == job[r].cv IN
    /\ job[r].state = "running" /\ job[r].kind \in {"import", "legacy"}
    /\ job[r].kind = "import" => Guards(c, job[r].gen)
    /\ Writes(c, IF job[r].kind = "import" THEN job[r].rev ELSE rev[c], text[c] \cup {job[r].gen})
    /\ job' = [job EXCEPT ![r].state = "succeeded"]
    /\ UNCHANGED <<there, assigned, era, prop, op, receipts, replies>>

\* finish: an edit ends with its proposal, in one transaction; one of an earlier
\* generation is kept but can never be accepted.
Proposes(r) ==
    LET c == job[r].cv IN
    /\ job[r].state = "running" /\ job[r].kind = "edit" /\ job[r].base > 0
    /\ job' = [job EXCEPT ![r].state = "succeeded"]
    /\ prop' = [prop EXCEPT ![r] = [status |-> IF Guards(c, job[r].gen) THEN "pending"
                                               ELSE "invalidated",
                                    cv |-> c, base |-> job[r].base, gen |-> job[r].gen,
                                    text |-> job[r].text]]
    /\ UNCHANGED <<there, assigned, rev, era, text, op, receipts, replies>>

Accept(r) ==
    LET c == prop[r].cv IN
    /\ prop[r].status = "pending" /\ Guards(c, prop[r].gen)
    /\ Writes(c, prop[r].base, prop[r].text)
    /\ prop' = [prop EXCEPT ![r].status = "accepted"]
    /\ UNCHANGED <<there, assigned, era, job, op, receipts, replies>>

\* Anything but an accepted proposal can be put away.
Discard(r) ==
    /\ prop[r].status \in {"pending", "invalidated"}
    /\ prop' = [prop EXCEPT ![r].status = "discarded"]
    /\ UNCHANGED <<there, assigned, rev, era, text, job, op, receipts, replies>>

CvNext ==
    \/ \E o \in Ops, kind \in {"clear", "replace", "copy"}, c \in Cvs : Ask(o, kind, c)
    \/ \E o \in Ops : Replayed(o) \/ Clear(o) \/ ClearRefused(o) \/ Replace(o) \/ ReplaceRefused(o)
    \/ \E o \in Ops, target \in Cvs : Copy(o, target)
    \/ AssignLanguage \/ \E o \in Ops : CopyRefused(o)
    \/ \E r \in CvRuns, kind \in {"import", "edit", "legacy"}, c \in Cvs : CvRunStarts(r, kind, c)
    \/ \E r \in CvRuns : \/ EditReads(r) \/ CvRunSuspends(r) \/ CvRunResumes(r) \/ CvRunFails(r)
                       \/ ImportWrites(r) \/ Proposes(r) \/ Accept(r) \/ Discard(r)

CvSpec == CvInit /\ [][CvNext]_cvVars

-----------------------------------------------------------------------------
\* What was cleared does not come back: no import, proposal, late request or copy
\* writes text of an earlier generation into a CV.
ClearedStaysCleared == \A c \in Cvs : text[c] \subseteq {era[c]}

\* A request that was carried out is answered with its result, however often and
\* however late it is repeated, whatever was written since, and whether or not its
\* first answer arrived.
RepliesAgree ==
    \A o \in Ops : \A answer \in replies[o] : answer.ok => receipts[o] = {answer}
RepeatsTheAnswer ==
    \A o \in Ops :
        /\ replies'[o] # replies[o] => \A answer \in replies[o] : ~answer.ok
        /\ Settled(o) => /\ receipts'[o] = receipts[o]
                         /\ replies'[o] \subseteq replies[o] \cup receipts[o]
=============================================================================
