------------------------------- MODULE CvIndex -------------------------------
(***************************************************************************)
(* The search index of one CV, beside the document it is made of: the rows *)
(* of storage/sqlite/chunk-index.ts, the job that the triggers on          *)
(* `documents` leave for every new revision (storage/sqlite/index-recovery *)
(* .ts), the rebuilder that works it off (runtime/index-recovery.ts), and  *)
(* the two others who write: a person who edits, and an extract_cv run,    *)
(* which embeds what it has just saved (capabilities/cv/extract.ts).       *)
(*                                                                         *)
(* Embedding is a call to a model.  Meanwhile the text, the key and the    *)
(* settings change, the process closes or ends, and a lease runs out.      *)
(***************************************************************************)
EXTENDS Naturals, FiniteSets

CONSTANTS
  Imports,   \* the extract_cv runs
  MaxRev,    \* bound: revisions of the document
  MaxAsks,   \* bound: rebuilds asked for
  MaxStops   \* bound: how often the process closes or ends

ASSUME BoundsAreNumbers == MaxRev \in Nat /\ MaxAsks \in Nat /\ MaxStops \in Nat

VARIABLES
  rev, prose,     \* the document: its revision, and whether it has text to find
  index,          \* the rows of chunks
  job,            \* the row of cv_index_jobs
  rebuild,        \* `active` of the rebuilder
  pc, base,       \* per import: where it stands, and the revision it writes over or wrote
  began,          \* per import: the rebuilds asked for when it began to embed
  key, asked,     \* the embedder's key, and how many rebuilds were asked for
  up, ready, stops

vars == <<rev, prose, index, job, rebuild, pc, base, began, key, asked, up, ready, stops>>

document == <<rev, prose>>
imports  == <<pc, base, began>>
setup    == <<key, asked>>
process  == <<up, ready, stops>>

Keys == {"good", "refused"}

(* Rows carry the revision the document had when they were written; `of` is *)
(* the revision whose text they are, which nobody stores.                   *)
Rows == [stamp : Nat, of : Nat, kind : {"none", "words", "vectors"},
         by : {"nobody", "import", "rebuild"}, asked : Nat]

Jobs == [rev : Nat, owner : {"nobody", "active", "gone"},
         leased : BOOLEAN, waits : BOOLEAN, parked : BOOLEAN]

Claims == [rev : Nat, prose : BOOLEAN, key : Keys, asked : Nat]

NoRows  == [stamp |-> 0, of |-> 0, kind |-> "none", by |-> "nobody", asked |-> 0]
NoJob   == [rev |-> 0, owner |-> "nobody", leased |-> FALSE, waits |-> FALSE, parked |-> FALSE]
NoClaim == [rev |-> 0, prose |-> FALSE, key |-> "good", asked |-> 0]

TypeOK ==
  /\ rev \in Nat /\ prose \in BOOLEAN
  /\ index \in Rows
  /\ job \in Jobs
  /\ rebuild \in Claims
  /\ pc \in [Imports -> {"idle", "reading", "embedding", "cut", "over"}]
  /\ base \in [Imports -> Nat]
  /\ began \in [Imports -> Nat]
  /\ key \in Keys /\ asked \in Nat
  /\ up \in BOOLEAN /\ ready \in BOOLEAN /\ stops \in Nat

Init ==
  /\ rev = 0 /\ prose = FALSE
  /\ index = NoRows
  /\ job = NoJob
  /\ rebuild = NoClaim
  /\ pc = [i \in Imports |-> "idle"]
  /\ base = [i \in Imports |-> 0]
  /\ began = [i \in Imports |-> 0]
  /\ key \in Keys /\ asked = 0
  /\ up = TRUE /\ ready = FALSE /\ stops = 0

-----------------------------------------------------------------------------
(* A definition named Slip... is a plausible mistake in the definition that *)
(* follows it; no behaviour uses one.                                       *)

(* The upsert of the triggers and of enqueue. *)
Queued(r) == [NoJob EXCEPT !.rev = r]

(* revisionOf: what was made of revision r may be written. *)
SlipUnchecked(r) == TRUE

Expected(r) == rev = r

(* Rows are stamped with the revision of the document as it is. *)
Vectors(r, who, n) == [stamp |-> rev, of |-> r, kind |-> "vectors", by |-> who, asked |-> n]

Words(r) == [NoRows EXCEPT !.stamp = rev, !.of = r, !.kind = "words"]

(* replaceAll and clear, which delete the job of the revision they are for. *)
Published(rows) ==
  /\ index' = rows
  /\ job' = IF job.rev = rev THEN NoJob ELSE job

(* keepText: a revision that has rows keeps them. *)
SlipHasNone(r) == TRUE

HasNone(r) == index.stamp # rev

KeptText(r) == IF Expected(r) /\ HasNone(r) THEN Words(r) ELSE index

-----------------------------------------------------------------------------
(* Whoever saves a text. *)

(* replaceContext, accept and clearContent write, queue by trigger, and      *)
(* clear the rows, in any process; the last leaves nothing to find.          *)
Edit ==
  /\ rev < MaxRev
  /\ rev' = rev + 1
  /\ prose' \in BOOLEAN
  /\ job' = Queued(rev + 1)
  /\ index' = NoRows
  /\ UNCHANGED <<rebuild, imports, setup, process>>

(* scopeCv captures the revision a run was started over. *)
Begin(i) ==
  /\ up /\ pc[i] = "idle"
  /\ pc' = [pc EXCEPT ![i] = "reading"]
  /\ base' = [base EXCEPT ![i] = rev]
  /\ UNCHANGED <<document, index, job, rebuild, began, setup, process>>

(* The run fails or is cancelled before it saves, or its revision is gone. *)
GivesUp(i) ==
  /\ pc[i] = "reading"
  /\ pc' = [pc EXCEPT ![i] = "over"]
  /\ UNCHANGED <<document, index, job, rebuild, base, began, setup, process>>

Assemble(i) ==
  /\ pc[i] = "reading" /\ Expected(base[i]) /\ rev < MaxRev
  /\ rev' = rev + 1
  /\ prose' \in BOOLEAN
  /\ job' = Queued(rev + 1)
  /\ pc' = [pc EXCEPT ![i] = "embedding"]
  /\ base' = [base EXCEPT ![i] = rev + 1]
  /\ began' = [began EXCEPT ![i] = asked]
  /\ UNCHANGED <<index, rebuild, setup, process>>

(* The step `index`: the rows of what was saved, or none when it has no text; *)
(* over a newer revision it conflicts and writes nothing.                      *)
Publish(i) ==
  /\ pc[i] = "embedding"
  /\ IF Expected(base[i])
       THEN Published(IF prose THEN Vectors(base[i], "import", began[i]) ELSE NoRows)
       ELSE UNCHANGED <<index, job>>
  /\ pc' = [pc EXCEPT ![i] = "over"]
  /\ UNCHANGED <<document, rebuild, base, began, setup, process>>

(* The embedder fails: the words are kept unless the run was stopped. *)
Degrade(i) ==
  /\ pc[i] = "embedding"
  /\ index' \in {index} \cup (IF prose THEN {KeptText(base[i])} ELSE {})
  /\ pc' = [pc EXCEPT ![i] = "over"]
  /\ UNCHANGED <<document, job, rebuild, base, began, setup, process>>

-----------------------------------------------------------------------------
(* The rebuilder. *)

RowRunning(i) == pc[i] \in {"reading", "embedding", "cut"}

SlipUnowned ==
  job.rev = rev /\ ~job.waits /\ ~job.parked /\ job.owner = "nobody" /\ ~\E i \in Imports : RowRunning(i)

Claimable ==
  job.rev = rev /\ ~job.waits /\ ~job.parked /\ ~job.leased /\ ~\E i \in Imports : RowRunning(i)

Claim ==
  /\ up /\ ready /\ rebuild = NoClaim
  /\ job # NoJob /\ Claimable
  /\ job' = [job EXCEPT !.owner = "active", !.leased = TRUE]
  /\ rebuild' = [rev |-> job.rev, prose |-> prose, key |-> key, asked |-> asked]
  /\ UNCHANGED <<document, index, imports, setup, process>>

(* The token and the revision of the claim are still those of the row. *)
SlipSameRevision == job.rev = rebuild.rev

Owns == job.rev = rebuild.rev /\ job.owner = "active"

(* complete; nothing is sent for a text with nothing to find. *)
Built ==
  /\ up /\ rebuild # NoClaim
  /\ rebuild.prose => rebuild.key = "good"
  /\ IF Owns
       THEN Published(IF rebuild.prose THEN Vectors(rebuild.rev, "rebuild", rebuild.asked)
                                       ELSE NoRows)
       ELSE UNCHANGED <<index, job>>
  /\ rebuild' = NoClaim
  /\ UNCHANGED <<document, imports, setup, process>>

(* fail: the job is given back, to be tried later or when a person acts. *)
GivenBack(parks) ==
  [job EXCEPT !.owner = "nobody", !.leased = FALSE, !.waits = ~parks, !.parked = parks]

Failed(parks) ==
  /\ IF Owns
       THEN /\ index' = KeptText(rebuild.rev)
            /\ job' = GivenBack(parks)
       ELSE UNCHANGED <<index, job>>
  /\ rebuild' = NoClaim
  /\ UNCHANGED <<document, imports, setup, process>>

Fail ==
  /\ up /\ rebuild # NoClaim /\ rebuild.prose
  /\ Failed(FALSE)

(* credential_rejected or misconfigured: the key the call was made with. *)
Refused ==
  /\ up /\ rebuild # NoClaim /\ rebuild.prose
  /\ rebuild.key = "refused"
  /\ Failed(TRUE)

(* The backoff is over, the lease of five minutes is. *)
Due ==
  /\ job.waits
  /\ job' = [job EXCEPT !.waits = FALSE]
  /\ UNCHANGED <<document, index, rebuild, imports, setup, process>>

LeaseEnds ==
  /\ job.leased
  /\ job' = [job EXCEPT !.leased = FALSE]
  /\ UNCHANGED <<document, index, rebuild, imports, setup, process>>

-----------------------------------------------------------------------------
(* The person and the machine. *)

(* A saved setting, or Rebuild: enqueue. *)
Ask ==
  /\ up /\ asked < MaxAsks
  /\ asked' = asked + 1
  /\ job' = IF rev = 0 THEN job ELSE Queued(rev)
  /\ UNCHANGED <<document, index, rebuild, imports, key, process>>

(* settings.secret, with resume: every job that is parked now starts again. *)
SaveKey(k) ==
  /\ up /\ key # k
  /\ key' = k
  /\ job' = IF job.parked THEN [job EXCEPT !.waits = FALSE, !.parked = FALSE] ELSE job
  /\ UNCHANGED <<document, index, rebuild, imports, asked, process>>

(* maskTerms.declared: the host has said what an embedding has to keep. *)
Declare ==
  /\ up /\ ~ready
  /\ ready' = TRUE
  /\ UNCHANGED <<document, index, job, rebuild, imports, setup, up, stops>>

Stopped ==
  /\ up /\ stops < MaxStops
  /\ up' = FALSE /\ ready' = FALSE /\ stops' = stops + 1
  /\ rebuild' = NoClaim
  /\ pc' = [i \in Imports |-> IF pc[i] \in {"reading", "embedding"} THEN "cut" ELSE pc[i]]
  /\ UNCHANGED <<document, index, base, began, setup>>

(* close gives the job back at once; what still comes in is not looked at. *)
Close ==
  /\ Stopped
  /\ job' = IF rebuild # NoClaim /\ Owns
              THEN [GivenBack(FALSE) EXCEPT !.waits = FALSE]
              ELSE job

Crash ==
  /\ Stopped
  /\ job' = IF job.owner = "active" THEN [job EXCEPT !.owner = "gone"] ELSE job

(* recoverInterrupted ends the runs whose process is gone. *)
Open ==
  /\ ~up
  /\ up' = TRUE
  /\ pc' = [i \in Imports |-> IF pc[i] = "cut" THEN "over" ELSE pc[i]]
  /\ UNCHANGED <<document, index, job, rebuild, base, began, setup, ready, stops>>

-----------------------------------------------------------------------------
ImportStep(i) == GivesUp(i) \/ Assemble(i) \/ Publish(i) \/ Degrade(i)

Answered == Built \/ Refused

Next ==
  \/ Edit \/ \E i \in Imports : Begin(i) \/ ImportStep(i)
  \/ Claim \/ Answered \/ Fail \/ Due \/ LeaseEnds
  \/ Ask \/ (\E k \in Keys : SaveKey(k)) \/ Declare
  \/ Close \/ Crash \/ Open

Spec == Init /\ [][Next]_vars

(* Time passes, the timer of the rebuilder fires, runs end, the app is       *)
(* opened again and its host declares its terms; and an embedder that is     *)
(* asked again and again answers at last, with vectors or a refusal.         *)
FairSpec ==
  /\ Spec
  /\ WF_vars(Claim) /\ WF_vars(Due) /\ WF_vars(LeaseEnds) /\ WF_vars(Declare) /\ WF_vars(Open)
  /\ WF_vars(Answered \/ Fail) /\ SF_vars(Answered)
  /\ \A i \in Imports : WF_vars(ImportStep(i))

-----------------------------------------------------------------------------
(* Properties. *)

Found == IF index.stamp = rev THEN index.kind ELSE "none"

(* What a search finds is the text of the document as it is: rows made of an *)
(* earlier text are never stamped with a later revision (revisionOf).        *)
FoundIsCurrent == index.stamp = rev /\ rev > 0 => index.of = rev /\ prose

(* A text without vectors is owed a rebuild, whoever saved it, built it,     *)
(* failed at it or died over it (the triggers; fail; keepText).              *)
MissingIsOwed == prose /\ Found # "vectors" => job.rev = rev

(* While the text stays, a search only gets better at finding it: words do   *)
(* not come in the place of vectors (chunk-index.ts, keepText).              *)
SearchOnlyImproves ==
  [][rev' = rev =>
       /\ Found = "vectors" => Found' = "vectors"
       /\ Found = "words" => Found' # "none"]_vars

(* A rebuild that somebody asked for is not answered by one that was already *)
(* under way (the token that enqueue takes away).                            *)
AskedIsOwed ==
  Found = "vectors" /\ index.by = "rebuild" /\ index.asked # asked => job.rev = rev

(* Both: no rebuild a text needs is ever lost.                               *)
NothingIsForgotten == MissingIsOwed /\ AskedIsOwed

(* Every text is indexed at last, or waits for a person.                     *)
IndexCatchesUp == job.rev # 0 ~> job.rev = 0 \/ job.parked

(* A saved key starts a parked rebuild again: none is parked over a key that *)
(* is no longer in use (contracts/index-recovery.ts, parked).                *)
ParkedIsHopeless == job.parked => key = "refused"
=============================================================================
