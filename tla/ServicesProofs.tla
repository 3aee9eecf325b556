---------------------------- MODULE ServicesProofs ----------------------------
(***************************************************************************)
(* What is true of what goes on behind the requests, each part for every   *)
(* value of its constants: the index of a CV for every number of imports,  *)
(* edits, rebuilds and stops, which rests on what a row of cv_index_jobs   *)
(* says of the claim that holds it; the gateway MCServices runs beside it, *)
(* by what ModelGatewayProofs proves of any; the reads of the web and the  *)
(* searches, each in a line of its own; and the facts of an offer.  Each   *)
(* has its heading below.                                                  *)
(***************************************************************************)
EXTENDS MCServices, WebReader, WebSearch, OfferFacts, FiniteSetTheorems, SequenceTheorems, TLAPS

(* Every step is one of the actions; stated once for the invariants below. *)
LEMMA Cases ==
  ASSUME NEW P, [Next]_vars,
         Edit => P,
         \A i \in Imports : Begin(i) => P,
         \A i \in Imports : GivesUp(i) => P,
         \A i \in Imports : Assemble(i) => P,
         \A i \in Imports : Publish(i) => P,
         \A i \in Imports : Degrade(i) => P,
         Claim => P, Built => P, Fail => P, Refused => P, Due => P, LeaseEnds => P,
         Ask => P, \A k \in Keys : SaveKey(k) => P, Declare => P,
         Close => P, Crash => P, Open => P, UNCHANGED vars => P
  PROVE  P
BY DEF Next, ImportStep, Answered

(* Types are kept. *)
LEMMA TypeStep == TypeOK /\ [Next]_vars => TypeOK'
<1> SUFFICES ASSUME TypeOK, [Next]_vars PROVE TypeOK'
  OBVIOUS
<1> USE DEF TypeOK, document, imports, setup, process
<1>n. NoRows \in Rows /\ NoJob \in Jobs /\ NoClaim \in Claims
  BY DEF NoRows, NoJob, NoClaim, Rows, Jobs, Claims, Keys
<1>q. \A r \in Nat : Queued(r) \in Jobs
  BY DEF Queued, NoJob, Jobs
<1>v. \A r, n \in Nat, who \in {"import", "rebuild"} : Vectors(r, who, n) \in Rows
  BY DEF Vectors, Rows
<1>k. \A r \in Nat : KeptText(r) \in Rows
  BY DEF KeptText, Words, NoRows, Rows
<1>g. \A parks \in BOOLEAN : GivenBack(parks) \in Jobs
  BY DEF GivenBack, Jobs
<1>1. Edit => TypeOK'  BY <1>n, <1>q DEF Edit
<1>2. \A i \in Imports : Begin(i) => TypeOK'  BY DEF Begin
<1>3. \A i \in Imports : GivesUp(i) => TypeOK'  BY DEF GivesUp
<1>4. \A i \in Imports : Assemble(i) => TypeOK'  BY <1>q DEF Assemble
<1>5. \A i \in Imports : Publish(i) => TypeOK'
  <2> SUFFICES ASSUME NEW i \in Imports, Publish(i) PROVE TypeOK'
    OBVIOUS
  <2>1. index' \in Rows /\ job' \in Jobs
    BY <1>n, <1>v DEF Publish, Published
  <2>2. pc' \in [Imports -> {"idle", "reading", "embedding", "cut", "over"}]
    BY DEF Publish
  <2>3. QED BY <2>1, <2>2 DEF Publish
<1>6. \A i \in Imports : Degrade(i) => TypeOK'  BY <1>k DEF Degrade
<1>7. Claim => TypeOK'
  <2> SUFFICES ASSUME Claim PROVE TypeOK'
    OBVIOUS
  <2>1. job' \in Jobs
    BY DEF Claim, Jobs
  <2>2. rebuild' \in Claims
    BY DEF Claim, Jobs, Claims
  <2>3. QED BY <2>1, <2>2 DEF Claim
<1>8. Built => TypeOK'
  <2> SUFFICES ASSUME Built PROVE TypeOK'
    OBVIOUS
  <2>1. rebuild.rev \in Nat /\ rebuild.asked \in Nat
    BY DEF Claims
  <2>2. index' \in Rows /\ job' \in Jobs
    BY <1>n, <1>v, <2>1 DEF Built, Published
  <2>3. QED BY <1>n, <2>2 DEF Built
<1>9. \A parks \in BOOLEAN : up /\ Failed(parks) => TypeOK'
  <2> SUFFICES ASSUME NEW parks \in BOOLEAN, Failed(parks) PROVE TypeOK'
    OBVIOUS
  <2>1. rebuild.rev \in Nat
    BY DEF Claims
  <2>2. index' \in Rows /\ job' \in Jobs
    BY <1>k, <1>g, <2>1 DEF Failed
  <2>3. QED BY <1>n, <2>2 DEF Failed
<1>10. Fail => TypeOK'  BY <1>9 DEF Fail
<1>11. Refused => TypeOK'  BY <1>9 DEF Refused
<1>12. Due => TypeOK'  BY DEF Due, Jobs
<1>13. LeaseEnds => TypeOK'  BY DEF LeaseEnds, Jobs
<1>14. Ask => TypeOK'  BY <1>q DEF Ask
<1>15. \A k \in Keys : SaveKey(k) => TypeOK'
  <2> SUFFICES ASSUME NEW k \in Keys, SaveKey(k) PROVE TypeOK'
    OBVIOUS
  <2>1. job' \in Jobs
    BY DEF SaveKey, Jobs
  <2>2. QED BY <2>1 DEF SaveKey
<1>16. Declare => TypeOK'  BY DEF Declare
<1>17. Close => TypeOK'
  <2> SUFFICES ASSUME Close PROVE TypeOK'
    OBVIOUS
  <2>1. job' \in Jobs
    BY DEF Close, GivenBack, Jobs
  <2>2. pc' \in [Imports -> {"idle", "reading", "embedding", "cut", "over"}]
    BY DEF Close, Stopped
  <2>3. UNCHANGED <<rev, prose, index, base, began, key, asked>>
    BY DEF Close, Stopped
  <2>4. up' = FALSE /\ ready' = FALSE /\ stops' = stops + 1 /\ rebuild' = NoClaim
    BY DEF Close, Stopped
  <2>5. rebuild' \in Claims /\ stops' \in Nat
    BY <1>n, <2>4
  <2>6. up' \in BOOLEAN /\ ready' \in BOOLEAN
    BY <2>4
  <2>7. /\ rev' \in Nat /\ prose' \in BOOLEAN /\ index' \in Rows
        /\ base' \in [Imports -> Nat] /\ began' \in [Imports -> Nat]
        /\ key' \in Keys /\ asked' \in Nat
    BY <2>3
  <2>8. QED BY <2>1, <2>2, <2>5, <2>6, <2>7
<1>18. Crash => TypeOK'
  <2> SUFFICES ASSUME Crash PROVE TypeOK'
    OBVIOUS
  <2>1. job' \in Jobs
    BY DEF Crash, Jobs
  <2>2. pc' \in [Imports -> {"idle", "reading", "embedding", "cut", "over"}]
    BY DEF Crash, Stopped
  <2>3. UNCHANGED <<rev, prose, index, base, began, key, asked>>
    BY DEF Crash, Stopped
  <2>4. up' = FALSE /\ ready' = FALSE /\ stops' = stops + 1 /\ rebuild' = NoClaim
    BY DEF Crash, Stopped
  <2>5. rebuild' \in Claims /\ stops' \in Nat
    BY <1>n, <2>4
  <2>6. up' \in BOOLEAN /\ ready' \in BOOLEAN
    BY <2>4
  <2>7. /\ rev' \in Nat /\ prose' \in BOOLEAN /\ index' \in Rows
        /\ base' \in [Imports -> Nat] /\ began' \in [Imports -> Nat]
        /\ key' \in Keys /\ asked' \in Nat
    BY <2>3
  <2>8. QED BY <2>1, <2>2, <2>5, <2>6, <2>7
<1>19. Open => TypeOK'  BY DEF Open
<1>20. UNCHANGED vars => TypeOK'  BY DEF vars
<1>21. QED
  BY <1>1, <1>2, <1>3, <1>4, <1>5, <1>6, <1>7, <1>8, <1>10, <1>11, <1>12, <1>13, <1>14, <1>15,
     <1>16, <1>17, <1>18, <1>19, <1>20, Cases

(* Every variable keeps its type. *)
THEOREM TypeCorrect == Spec => []TypeOK
<1>1. Init => TypeOK
  <2> SUFFICES ASSUME Init PROVE TypeOK
    OBVIOUS
  <2>1. index \in Rows /\ job \in Jobs /\ rebuild \in Claims
    BY DEF Init, NoRows, NoJob, NoClaim, Rows, Jobs, Claims, Keys
  <2>2. QED BY <2>1 DEF Init, TypeOK
<1>2. QED BY <1>1, TypeStep, PTL DEF Spec

-----------------------------------------------------------------------------
(* Rows are of the text they are stamped with, and only a text has rows.    *)
RowsFit ==
  /\ index.stamp <= rev
  /\ index.stamp = rev /\ rev > 0 => index.of = rev /\ prose
  /\ rev = 0 => index = NoRows /\ job = NoJob /\ ~prose

(* A job is for the text as it is; a claim that is still the row's own was   *)
(* made over this text and after the last rebuild anybody asked for.        *)
JobFits ==
  /\ job.rev \in {0, rev}
  /\ job.rev = 0 => job = NoJob
  /\ job.owner = "active" =>
       rebuild.rev = rev /\ rebuild.prose = prose /\ rebuild.asked = asked

ImportsFit == \A i \in Imports : pc[i] = "embedding" => base[i] > 0

IndexInv ==
  RowsFit /\ JobFits /\ ImportsFit /\ MissingIsOwed /\ AskedIsOwed

(* The token that is left in the row is that of the claim under way. *)
LEMMA ActiveOwns ==
  ASSUME JobFits, job.owner = "active"
  PROVE  Owns
<1>1. job.rev # 0
  BY DEF JobFits, NoJob
<1>2. QED BY <1>1 DEF JobFits, Owns

(* What a step makes of the rows: those of another text, none, or better.   *)
Improves ==
  rev' = rev =>
    /\ Found = "vectors" => Found' = "vectors"
    /\ Found = "words" => Found' # "none"

(* Publishing what was made of the text as it is. *)
LEMMA PublishedKeeps ==
  ASSUME TypeOK, IndexInv, UNCHANGED <<rev, prose, asked, pc, base>>,
         NEW r \in Nat, r = rev, rev > 0, NEW who \in {"import", "rebuild"}, NEW n \in Nat,
         who = "rebuild" => n = asked,
         Published(IF prose THEN Vectors(r, who, n) ELSE NoRows)
  PROVE  IndexInv' /\ Improves
<1> USE DEF TypeOK, IndexInv, RowsFit, JobFits, ImportsFit, MissingIsOwed, AskedIsOwed, Improves, Found
<1>1. job' = NoJob
  BY DEF Published
<1>2. CASE prose
  <2>1. /\ index'.stamp = rev /\ index'.of = rev /\ index'.kind = "vectors"
        /\ index'.by = who /\ index'.asked = n
    BY <1>2 DEF Published, Vectors
  <2>2. QED BY <1>1, <1>2, <2>1 DEF NoJob
<1>3. CASE ~prose
  <2>1. index' = NoRows
    BY <1>3 DEF Published
  <2>2. Found = "none"
    BY <1>3 DEF Rows
  <2>3. QED BY <1>1, <1>3, <2>1, <2>2 DEF NoJob, NoRows
<1>4. QED BY <1>2, <1>3

(* Keeping the words of the text as it is, where it has no rows. *)
LEMMA KeptTextKeeps ==
  ASSUME TypeOK, IndexInv, UNCHANGED <<rev, prose, asked>>, prose,
         NEW r \in Nat, index' = KeptText(r), job'.rev = job.rev
  PROVE  RowsFit' /\ MissingIsOwed' /\ AskedIsOwed' /\ Improves
<1> USE DEF TypeOK, IndexInv, RowsFit, JobFits, MissingIsOwed, AskedIsOwed, Improves, Found
<1>0. rev > 0
  OBVIOUS
<1>1. CASE Expected(r) /\ HasNone(r)
  <2>1. index'.stamp = rev /\ index'.of = rev /\ index'.kind = "words"
    BY <1>1 DEF KeptText, Words, NoRows, Expected
  <2>2. Found = "none"
    BY <1>1 DEF HasNone
  <2>3. job.rev = rev
    BY <2>2
  <2>4. QED BY <1>0, <2>1, <2>2, <2>3
<1>2. CASE ~(Expected(r) /\ HasNone(r))
  <2>1. index' = index
    BY <1>2 DEF KeptText
  <2>2. QED BY <1>0, <2>1
<1>3. QED BY <1>1, <1>2

(* Every step keeps the invariant, and finds no worse. *)
LEMMA IndexStep == TypeOK /\ IndexInv /\ [Next]_vars => IndexInv' /\ Improves
<1> SUFFICES ASSUME TypeOK, IndexInv, [Next]_vars PROVE IndexInv' /\ Improves
  OBVIOUS
<1> DEFINE Good == IndexInv' /\ Improves
<1> USE DEF TypeOK, IndexInv, RowsFit, JobFits, ImportsFit, MissingIsOwed, AskedIsOwed, Improves, Found,
            document, imports, setup, process
<1>1. Edit => Good
  <2> SUFFICES ASSUME Edit PROVE Good
    OBVIOUS
  <2>1. /\ rev' = rev + 1 /\ index' = NoRows
        /\ job'.rev = rev' /\ job'.owner = "nobody"
    BY DEF Edit, Queued, NoJob
  <2>2. UNCHANGED <<pc, base>>
    BY DEF Edit
  <2>3. QED BY <2>1, <2>2 DEF NoRows
<1>2. \A i \in Imports : Begin(i) => Good  BY DEF Begin
<1>3. \A i \in Imports : GivesUp(i) => Good  BY DEF GivesUp
<1>4. \A i \in Imports : Assemble(i) => Good
  <2> SUFFICES ASSUME NEW i \in Imports, Assemble(i) PROVE Good
    OBVIOUS
  <2>1. /\ rev' = rev + 1 /\ index' = index
        /\ job'.rev = rev' /\ job'.owner = "nobody"
    BY DEF Assemble, Queued, NoJob
  <2>2. \A j \in Imports : pc'[j] = "embedding" => base'[j] > 0
    BY DEF Assemble
  <2>3. QED BY <2>1, <2>2 DEF Rows
<1>5. \A i \in Imports : Publish(i) => Good
  <2> SUFFICES ASSUME NEW i \in Imports, Publish(i) PROVE Good
    OBVIOUS
  <2>1. UNCHANGED <<rev, prose, asked, base, rebuild>> /\ base[i] > 0
    BY DEF Publish
  <2>2. \A j \in Imports : pc'[j] = "embedding" => pc[j] = "embedding"
    BY DEF Publish
  <2>3. CASE Expected(base[i])
    <3>1. Published(IF prose THEN Vectors(base[i], "import", began[i]) ELSE NoRows)
      BY <2>3 DEF Publish
    <3>2. job' = NoJob
      BY <3>1 DEF Published
    <3>3. CASE prose
      <4>1. index'.stamp = rev /\ index'.of = rev /\ index'.kind = "vectors" /\ index'.by = "import"
        BY <2>3, <3>1, <3>3 DEF Published, Vectors, Expected
      <4>2. QED BY <2>1, <2>2, <2>3, <3>2, <3>3, <4>1 DEF NoJob, Expected
    <3>4. CASE ~prose
      <4>1. index' = NoRows
        BY <3>1, <3>4 DEF Published
      <4>2. QED BY <2>1, <2>2, <2>3, <3>2, <3>4, <4>1 DEF NoJob, NoRows, Expected, Rows
    <3>5. QED BY <3>3, <3>4
  <2>4. CASE ~Expected(base[i])
    BY <2>1, <2>2, <2>4 DEF Publish
  <2>5. QED BY <2>3, <2>4
<1>6. \A i \in Imports : Degrade(i) => Good
  <2> SUFFICES ASSUME NEW i \in Imports, Degrade(i) PROVE Good
    OBVIOUS
  <2>1. UNCHANGED <<rev, prose, asked, base, job, rebuild>>
    BY DEF Degrade
  <2>2. \A j \in Imports : pc'[j] = "embedding" => pc[j] = "embedding"
    BY DEF Degrade
  <2>3. CASE index' = index
    BY <2>1, <2>2, <2>3
  <2>4. CASE prose /\ index' = KeptText(base[i])
    <3>1. RowsFit' /\ MissingIsOwed' /\ AskedIsOwed' /\ Improves
      BY <2>1, <2>4, KeptTextKeeps
    <3>2. JobFits' /\ ImportsFit'
      BY <2>1, <2>2
    <3>3. QED BY <3>1, <3>2
  <2>5. QED BY <2>3, <2>4 DEF Degrade
<1>7. Claim => Good
  <2> SUFFICES ASSUME Claim PROVE Good
    OBVIOUS
  <2>1. /\ job'.rev = job.rev /\ job.rev = rev /\ job # NoJob
        /\ rebuild'.rev = rev /\ rebuild'.prose = prose /\ rebuild'.asked = asked
    BY DEF Claim, Claimable, Jobs
  <2>2. UNCHANGED <<rev, prose, index, asked, pc, base>>
    BY DEF Claim
  <2>3. QED BY <2>1, <2>2
<1>8. Built => Good
  <2> SUFFICES ASSUME Built PROVE Good
    OBVIOUS
  <2>1. UNCHANGED <<rev, prose, asked, pc, base>>
    BY DEF Built
  <2>2. CASE Owns
    <3>1. rebuild.rev = rev /\ rebuild.prose = prose /\ rebuild.asked = asked /\ rev > 0
      BY <2>2 DEF Owns, NoJob
    <3>2. Published(IF prose THEN Vectors(rev, "rebuild", asked) ELSE NoRows)
      BY <2>2, <3>1 DEF Built
    <3>3. QED BY <2>1, <3>1, <3>2, PublishedKeeps
  <2>3. CASE ~Owns
    <3>1. index' = index /\ job' = job
      BY <2>3 DEF Built
    <3>2. job.owner # "active"
      BY <2>3, ActiveOwns
    <3>3. QED BY <2>1, <3>1, <3>2
  <2>4. QED BY <2>2, <2>3
<1>9. \A parks \in BOOLEAN : rebuild.prose /\ Failed(parks) => Good
  <2> SUFFICES ASSUME NEW parks \in BOOLEAN, rebuild.prose, Failed(parks) PROVE Good
    OBVIOUS
  <2>1. UNCHANGED <<rev, prose, asked, pc, base>>
    BY DEF Failed
  <2>2. CASE Owns
    <3>1. index' = KeptText(rebuild.rev) /\ job' = GivenBack(parks) /\ prose /\ rebuild.rev = rev
      BY <2>2 DEF Failed, Owns, NoJob
    <3>2. job'.rev = job.rev /\ job'.owner = "nobody" /\ job.rev = rev /\ rev > 0
      BY <2>2, <3>1 DEF GivenBack, Jobs, Owns
    <3>3. RowsFit' /\ MissingIsOwed' /\ AskedIsOwed' /\ Improves
      BY <2>1, <3>1, <3>2, KeptTextKeeps
    <3>4. JobFits' /\ ImportsFit'
      BY <2>1, <3>2
    <3>5. QED BY <3>3, <3>4
  <2>3. CASE ~Owns
    <3>1. index' = index /\ job' = job
      BY <2>3 DEF Failed
    <3>2. job.owner # "active"
      BY <2>3, ActiveOwns
    <3>3. QED BY <2>1, <3>1, <3>2
  <2>4. QED BY <2>2, <2>3
<1>10. Fail => Good  BY <1>9 DEF Fail
<1>11. Refused => Good  BY <1>9 DEF Refused
<1>12. Due => Good  BY DEF Due, Jobs, NoJob
<1>13. LeaseEnds => Good  BY DEF LeaseEnds, Jobs, NoJob
<1>14. Ask => Good
  <2> SUFFICES ASSUME Ask PROVE Good
    OBVIOUS
  <2>1. UNCHANGED <<rev, prose, index, pc, base, rebuild>>
    BY DEF Ask
  <2>2. CASE rev = 0
    BY <2>1, <2>2 DEF Ask, NoJob, NoRows
  <2>3. CASE rev # 0
    <3>1. job'.rev = rev /\ job'.owner = "nobody"
      BY <2>3 DEF Ask, Queued, NoJob
    <3>2. QED BY <2>1, <2>3, <3>1
  <2>4. QED BY <2>2, <2>3
<1>15. \A k \in Keys : SaveKey(k) => Good
  <2> SUFFICES ASSUME NEW k \in Keys, SaveKey(k) PROVE Good
    OBVIOUS
  <2>1. UNCHANGED <<rev, prose, index, asked, rebuild, pc, base>>
    BY DEF SaveKey
  <2>2. job'.rev = job.rev /\ job'.owner = job.owner /\ (~job.parked => job' = job)
    BY DEF SaveKey, Jobs
  <2>3. job = NoJob => job' = NoJob
    BY <2>2 DEF NoJob
  <2>4. JobFits'
    <3>1. job'.rev \in {0, rev'} /\ (job'.rev = 0 => job' = NoJob)
      BY <2>1, <2>2, <2>3
    <3>2. job'.owner = "active" =>
            rebuild'.rev = rev' /\ rebuild'.prose = prose' /\ rebuild'.asked = asked'
      BY <2>1, <2>2
    <3>3. QED BY <3>1, <3>2
  <2>5. RowsFit' /\ ImportsFit' /\ MissingIsOwed' /\ AskedIsOwed' /\ Improves
    BY <2>1, <2>2, <2>3
  <2>6. QED BY <2>4, <2>5
<1>16. Declare => Good  BY DEF Declare
<1>17. Close => Good
  <2> SUFFICES ASSUME Close PROVE Good
    OBVIOUS
  <2>1. UNCHANGED <<rev, prose, asked, base, index>>
    BY DEF Close, Stopped
  <2>2. \A j \in Imports : pc'[j] = "embedding" => pc[j] = "embedding"
    BY DEF Close, Stopped
  <2>3. job'.rev = job.rev /\ job'.owner # "active" /\ (job.rev = 0 => job' = job)
    BY DEF Close, GivenBack, Owns, Jobs, NoJob, NoClaim, Claims
  <2>4. QED BY <2>1, <2>2, <2>3
<1>18. Crash => Good
  <2> SUFFICES ASSUME Crash PROVE Good
    OBVIOUS
  <2>1. UNCHANGED <<rev, prose, asked, base, index>>
    BY DEF Crash, Stopped
  <2>2. \A j \in Imports : pc'[j] = "embedding" => pc[j] = "embedding"
    BY DEF Crash, Stopped
  <2>3. job'.rev = job.rev /\ job'.owner # "active" /\ (job.rev = 0 => job' = job)
    BY DEF Crash, Jobs, NoJob
  <2>4. QED BY <2>1, <2>2, <2>3
<1>19. Open => Good  BY DEF Open
<1>20. UNCHANGED vars => Good  BY DEF vars
<1>21. QED
  BY <1>1, <1>2, <1>3, <1>4, <1>5, <1>6, <1>7, <1>8, <1>10, <1>11, <1>12, <1>13, <1>14, <1>15,
     <1>16, <1>17, <1>18, <1>19, <1>20, Cases

(* The invariant holds from the beginning. *)
LEMMA Invariant == Spec => []IndexInv
<1>1. Init => IndexInv
  BY DEF Init, IndexInv, RowsFit, JobFits, ImportsFit, MissingIsOwed, AskedIsOwed, Found, NoRows, NoJob
<1>2. TypeOK /\ IndexInv /\ [Next]_vars => IndexInv'
  BY IndexStep
<1>3. QED BY <1>1, <1>2, TypeCorrect, PTL DEF Spec

(* A search finds rows of the text as it is, or none.                       *)
THEOREM NeverStale == Spec => []FoundIsCurrent
<1>1. IndexInv => FoundIsCurrent
  BY DEF IndexInv, RowsFit, FoundIsCurrent
<1>2. QED BY <1>1, Invariant, PTL

(* A text without vectors always has a job of its revision, and no rebuild   *)
(* under way answers one that was asked for after it began.                 *)
THEOREM NeverForgotten == Spec => []NothingIsForgotten
<1>1. IndexInv => NothingIsForgotten
  BY DEF IndexInv, NothingIsForgotten
<1>2. QED BY <1>1, Invariant, PTL

(* While a text stays, a search only gets better at finding it.             *)
THEOREM OnlyBetter == Spec => SearchOnlyImproves
<1>1. TypeOK /\ IndexInv /\ [Next]_vars => [Improves]_vars
  BY IndexStep
<1>2. QED BY <1>1, Invariant, TypeCorrect, PTL DEF Spec, SearchOnlyImproves, Improves

-----------------------------------------------------------------------------
(* The gateway that runs beside the index *)

(* G of MCServices once more, with its theorems. *)
Gate == INSTANCE ModelGatewayProofs WITH
       NoCall <- "none", NoProvider <- "nobody",
       Calls <- {"loop", "tool1", "tool2", "picture", "text"}, Runs <- {"r", "q"},
       Providers <- {"local", "hosted"}, Local <- "local",
       Limit <- [p \in {"local", "hosted"} |-> 1],
       RunOf <- [c \in {"loop", "tool1", "tool2", "picture", "text"} |->
                   IF c \in {"picture", "text"} THEN "q" ELSE "r"],
       KindOf <- [c \in {"loop", "tool1", "tool2", "picture", "text"} |->
                    IF c = "picture" THEN "image"
                    ELSE IF c \in {"tool1", "tool2"} THEN "embed" ELSE "chat"],
       Outer <- [c \in {"loop", "tool1", "tool2", "picture", "text"} |->
                   IF c \in {"tool1", "tool2"} THEN "loop" ELSE "none"],
       ParallelTools <- TRUE, AlwaysMask <- FALSE,
       Agreed <- [x \in {"r", "q"} |-> IF x = "r" THEN {"hosted"} ELSE {}],
       pc <- stage, waiting <- queue

(* The calls of the run meet what is assumed of calls. *)
LEMMA CallsAreThese == Gate!CallsBelong /\ Gate!ToolsAreCalledByLoops
  BY DEF Gate!CallsBelong, Gate!ToolsAreCalledByLoops, Gate!Kinds

(* Every step of the services is one of the gateway or leaves it alone. *)
LEMMA GatewaySteps == [ServicesNext]_servicesVars => [Gate!Next]_(Gate!vars)
<1>1. G!Next => Gate!Next
  <2>1. ASSUME NEW c \in {"loop", "tool1", "tool2", "picture", "text"}
        PROVE  /\ G!Refuse(c) => Gate!Refuse(c)
               /\ G!BeginInside(c) => Gate!BeginInside(c)
               /\ G!BeginNow(c) => Gate!BeginNow(c)
               /\ G!BeginQueued(c) => Gate!BeginQueued(c)
    BY Zenon DEF G!Refuse, Gate!Refuse, G!BeginInside, Gate!BeginInside, G!BeginNow, Gate!BeginNow,
           G!BeginQueued, Gate!BeginQueued, G!Admit, Gate!Admit, G!Drained, Gate!Drained,
           G!ToolsTurn, Gate!ToolsTurn, G!Nested, Gate!Nested, G!Consented, Gate!Consented,
           G!Described, Gate!Described, G!Masks, Gate!Masks, G!Held, Gate!Held, G!Send, Gate!Send,
           G!HasRoom, Gate!HasRoom
  <2>2. ASSUME NEW c \in {"loop", "tool1", "tool2", "picture", "text"}
        PROVE  G!Progress(c) => Gate!Progress(c)
    BY Zenon DEF G!Progress, Gate!Progress, G!TakeTurn, Gate!TakeTurn, G!PassTurn, Gate!PassTurn, G!End, Gate!End,
           G!LeaveTurn, Gate!LeaveTurn, G!Release, Gate!Release, G!Target, Gate!Target, G!Drained, Gate!Drained,
           G!Nested, Gate!Nested, G!Held, Gate!Held, G!Send, Gate!Send
  <2>3. /\ \A kind \in {"chat", "embed"}, p \in {"local", "hosted"} :
             G!Configure(kind, p) => Gate!Configure(kind, p)
        /\ \A r \in {"r", "q"} : G!Cancel(r) => Gate!Cancel(r)
    BY DEF G!Configure, Gate!Configure, G!Cancel, Gate!Cancel, G!Drained, Gate!Drained
  <2>4. QED
    BY <2>1, <2>2, <2>3 DEF G!Next, Gate!Next
<1>2. QED
  BY <1>1 DEF ServicesNext, servicesVars, gatewayVars, Gate!vars

(* Each instance has a FiniteSets of its own, and they count alike. *)
LEMMA OneCount == \A S : Gate!Cardinality(S) = G!Cardinality(S)
  BY DEF Gate!Cardinality, G!Cardinality

(* What is proved of Gate is what the run states of G. *)
LEMMA SameGateway ==
  /\ Gate!SlotsAddUp => G!SlotsAddUp
  /\ Gate!HostedIsCovered => G!HostedIsCovered
<1>1. Gate!TypeOK => G!TypeOK
  BY DEF Gate!TypeOK, G!TypeOK
<1>2. \A p \in {"local", "hosted"} : Gate!Holders(p) = G!Holders(p) /\ Gate!Woken(p) = G!Woken(p)
  BY Zenon DEF Gate!Holders, G!Holders, Gate!Woken, G!Woken, Gate!Held, G!Held
<1>3. Gate!SlotsWithinLimit => G!SlotsWithinLimit
  BY <1>2, OneCount DEF Gate!SlotsWithinLimit, G!SlotsWithinLimit
<1>4. Gate!NoSlotIsLost => G!NoSlotIsLost
  BY <1>2, OneCount DEF Gate!NoSlotIsLost, G!NoSlotIsLost
<1>5. Gate!HostedIsCovered => G!HostedIsCovered
  BY DEF Gate!HostedIsCovered, G!HostedIsCovered
<1>6. QED BY <1>1, <1>3, <1>4, <1>5 DEF Gate!SlotsAddUp, G!SlotsAddUp

(* No slot is lost or given out twice, and what reaches a hosted provider is masked and  *)
(* agreed to for it, as the run states it of its calls (effects/ai.ts, consent.ts).      *)
THEOREM GatewayExact == ServicesSpec => []GatewayIsExact
<1>1. ServicesInit => Gate!Init
  BY DEF ServicesInit, Gate!Init, G!Init
<1>2. ServicesSpec => Gate!Spec
  BY <1>1, GatewaySteps, PTL DEF ServicesSpec, Gate!Spec
<1>3. Gate!Spec => []Gate!SlotsAddUp
  BY Gate!SlotsAreExact, CallsAreThese
<1>4. Gate!Spec => []Gate!HostedIsCovered
  BY Gate!Covered, CallsAreThese
<1>5. Gate!SlotsAddUp /\ Gate!HostedIsCovered => GatewayIsExact
  BY SameGateway DEF GatewayIsExact
<1>6. QED BY <1>2, <1>3, <1>4, <1>5, PTL

-----------------------------------------------------------------------------
(***************************************************************************)
(* The reader, for every number of reads and hosts and wherever a server   *)
(* leads.  A line is as long as the reads that stand in it, and only the   *)
(* first of them does anything; so whoever asks a host asks it alone, and  *)
(* after whoever asked it before has written down when.                    *)
(***************************************************************************)

(* Every step is one of the actions; stated once for what follows. *)
LEMMA ReaderCases ==
  ASSUME NEW Goal, [WebNext]_webVars,
         \A r \in Reads : \A want \in Wants[r] : ReadBegins(r, want[1], want[2]) => Goal,
         \A r \in Reads : \A said \in {"ok", "thin", "failed", "unavailable", "cancelled"} :
            ScraperAnswers(r, said) => Goal,
         \A r \in Reads : TurnBegins(r) => Goal,
         \A r \in Reads : SleepEnds(r) => Goal,
         \A r \in Reads : Guard(r) => Goal,
         \A r \in Reads : CancelRead(r) => Goal,
         \A r \in Reads : \A to \in Hosts : Redirected(r, to) => Goal,
         \A r \in Reads : \A how \in {"ok", "unreadable", "cancelled"} : Fetched(r, how) => Goal,
         ClockTicks => Goal, UNCHANGED webVars => Goal
  PROVE  Goal
BY DEF WebNext

Kinds == {"none", "offer", "page", "company", "board"}
Stages == {"idle", "scraper"} \cup Waiting \cup Done
Places == Hosts \cup {"none"}
Told == {"nothing", "ok", "thin", "failed", "unavailable", "cancelled"}
ReadRecords == [kind : Kinds, host : Places, target : Places, hop : 0..MaxRedirects,
                at : Stages, said : Told]

ReaderTypes ==
  /\ reads \in [Reads -> ReadRecords]
  /\ abandoned \subseteq Reads
  /\ hostQueue \in [Hosts -> Seq(Reads)]
  /\ lastAt \in [Hosts -> 0..MaxTime]
  /\ clock \in 0..MaxTime
  /\ requested \subseteq [read : Reads, host : Hosts, hop : 0..MaxRedirects, time : 0..MaxTime, public : BOOLEAN]

(* The line of a host: each read in it once, all for that host, and only the *)
(* first past its turn. *)
LineOf(h) ==
  /\ \A i, j \in 1..Len(hostQueue[h]) : hostQueue[h][i] = hostQueue[h][j] => i = j
  /\ \A i \in 1..Len(hostQueue[h]) :
       /\ reads[hostQueue[h][i]].host = h
       /\ reads[hostQueue[h][i]].at \in (IF i = 1 THEN Waiting ELSE {"queued"})

(* Whoever waits for anything stands in the line of its host. *)
Stands(r) ==
  reads[r].at \in Waiting =>
    /\ reads[r].host \in Hosts
    /\ \E i \in 1..Len(hostQueue[reads[r].host]) : hostQueue[reads[r].host][i] = r

LinesAreReads == (\A h \in Hosts : LineOf(h)) /\ (\A r \in Reads : Stands(r))

(* Whoever is past its turn is the first in its line, and leaves it the     *)
(* moment it ends.                                                         *)
LEMMA TheFirstActs ==
  ASSUME ReaderTypes, LinesAreReads, NEW r \in Reads,
         reads[r].at \in {"sleep", "guard", "fetch"}
  PROVE  reads[r].host \in Hosts /\ Turn(r)
<1>1. reads[r].host \in Hosts
  BY DEF LinesAreReads, Stands, Waiting
<1>2. PICK i \in 1..Len(hostQueue[reads[r].host]) : hostQueue[reads[r].host][i] = r
  BY DEF LinesAreReads, Stands, Waiting
<1>3. i = 1
  BY <1>1, <1>2 DEF LinesAreReads, LineOf
<1>4. hostQueue[reads[r].host] \in Seq(Reads)
  BY <1>1 DEF ReaderTypes
<1>5. hostQueue[reads[r].host] # <<>> /\ Head(hostQueue[reads[r].host]) = r
  BY <1>2, <1>3, <1>4
<1>6. QED BY <1>1, <1>5 DEF Turn

LEMMA OneActs ==
  ASSUME ReaderTypes, LinesAreReads, NEW r \in Reads, NEW s \in Reads,
         reads[r].at \in {"sleep", "guard", "fetch"}, reads[s].at \in {"sleep", "guard", "fetch"},
         reads[r].host = reads[s].host
  PROVE  r = s
BY TheFirstActs DEF Turn

(* What the four ways to change a line do to the lines. *)
LEMMA LineStays ==
  ASSUME ReaderTypes, LinesAreReads, NEW r \in Reads, Turn(r), reads[r].host \in Hosts,
         hostQueue' = hostQueue,
         \A s \in Reads : s # r => reads'[s] = reads[s],
         reads'[r].host = reads[r].host, reads[r].at \in Waiting, reads'[r].at \in Waiting
  PROVE  LinesAreReads'
<1> DEFINE g == reads[r].host
<1>1. hostQueue[g] \in Seq(Reads) /\ hostQueue[g] # <<>> /\ Head(hostQueue[g]) = r
  BY DEF ReaderTypes, Turn
<1>2. 1 \in 1..Len(hostQueue[g]) /\ hostQueue[g][1] = r
  BY <1>1
<1>3. \A h \in Hosts : \A i \in 1..Len(hostQueue[h]) : hostQueue[h][i] = r => h = g /\ i = 1
  BY <1>2 DEF LinesAreReads, LineOf
<1>4. \A h \in Hosts : \A i \in 1..Len(hostQueue[h]) : hostQueue[h][i] \in Reads
  BY DEF ReaderTypes
<1>5. \A h \in Hosts : LineOf(h)'
  BY <1>3, <1>4 DEF LinesAreReads, LineOf
<1>6. \A s \in Reads : Stands(s)'
  BY DEF LinesAreReads, Stands
<1>7. QED BY <1>5, <1>6 DEF LinesAreReads

LEMMA LineIsLeft ==
  ASSUME ReaderTypes, LinesAreReads, NEW r \in Reads, Turn(r), NEW g \in Hosts, reads[r].host = g,
         NEW how \in Done, Settles(r, how)
  PROVE  LinesAreReads' /\ hostQueue' \in [Hosts -> Seq(Reads)]
<1> DEFINE q == hostQueue[g]
<1>1. q \in Seq(Reads) /\ q # <<>> /\ Head(q) = r
  BY DEF ReaderTypes, Turn
<1>2. 1 \in 1..Len(q) /\ q[1] = r
  BY <1>1
<1>3. /\ Tail(q) \in Seq(Reads) /\ Len(Tail(q)) = Len(q) - 1
      /\ \A i \in 1..Len(Tail(q)) : Tail(q)[i] = q[i + 1]
  BY <1>1, HeadTailProperties
<1>4. \A h \in Hosts : \A i \in 1..Len(hostQueue[h]) : hostQueue[h][i] = r => h = g /\ i = 1
  BY <1>2 DEF LinesAreReads, LineOf
<1>5. \A h \in Hosts : \A i \in 1..Len(hostQueue[h]) : hostQueue[h][i] \in Reads
  BY DEF ReaderTypes
<1>6. /\ hostQueue' \in [Hosts -> Seq(Reads)] /\ hostQueue'[g] = Tail(q)
      /\ \A h \in Hosts : h # g => hostQueue'[h] = hostQueue[h]
  BY <1>3 DEF ReaderTypes, Settles
<1>7. /\ \A s \in Reads : s # r => reads'[s] = reads[s]
      /\ reads'[r].host = g /\ reads'[r].at = how /\ how \notin Waiting
  BY DEF ReaderTypes, ReadRecords, Settles, Becomes, Done, Waiting
<1>8. Len(q) \in Nat
  BY <1>1
<1>9. LineOf(g)'
  <2> DEFINE t == Tail(q)
  <2>1. \A i \in 1..Len(t) : i + 1 \in 1..Len(q) /\ i + 1 # 1 /\ t[i] = q[i + 1]
    BY <1>3, <1>8
  <2>2. \A i \in 1..Len(t) :
          /\ q[i + 1] # r /\ q[i + 1] \in Reads
          /\ reads[q[i + 1]].host = g /\ reads[q[i + 1]].at = "queued"
    BY <2>1, <1>4, <1>5 DEF LinesAreReads, LineOf
  <2>3. "queued" \in Waiting
    BY DEF Waiting
  <2>4. \A i, j \in 1..Len(t) : t[i] = t[j] => i = j
    <3> TAKE i, j \in 1..Len(t)
    <3>1. t[i] = t[j] => i + 1 = j + 1
      BY <2>1 DEF LinesAreReads, LineOf
    <3>2. QED BY <3>1, <1>3, <1>8
  <2>5. \A i \in 1..Len(t) : reads'[q[i + 1]].host = g /\ reads'[q[i + 1]].at = "queued"
    BY <2>2, <1>7
  <2>6. \A i \in 1..Len(t) : reads'[t[i]].host = g /\ reads'[t[i]].at = "queued"
    BY <2>1, <2>5
  <2>7. hostQueue'[g] = t
    BY <1>6
  <2> HIDE DEF t
  <2>8. QED BY <2>3, <2>4, <2>6, <2>7 DEF LineOf
<1>10. \A h \in Hosts : h # g => LineOf(h)'
  <2> SUFFICES ASSUME NEW h \in Hosts, h # g PROVE LineOf(h)'
    OBVIOUS
  <2>1. hostQueue'[h] = hostQueue[h] /\ LineOf(h)
    BY <1>6 DEF LinesAreReads
  <2>2. \A i \in 1..Len(hostQueue[h]) : reads'[hostQueue[h][i]] = reads[hostQueue[h][i]]
    BY <1>4, <1>5, <1>7
  <2>3. QED BY <2>1, <2>2 DEF LineOf
<1>11. \A s \in Reads : Stands(s)'
  <2> TAKE s \in Reads
  <2> SUFFICES ASSUME reads'[s].at \in Waiting PROVE Stands(s)'
    BY DEF Stands
  <2>1. s # r /\ reads'[s] = reads[s]
    BY <1>7
  <2>2. PICK i \in 1..Len(hostQueue[reads[s].host]) : reads[s].host \in Hosts /\ hostQueue[reads[s].host][i] = s
    BY <2>1 DEF LinesAreReads, Stands
  <2>3. CASE reads[s].host = g
    <3>1. i # 1
      BY <2>1, <2>2, <2>3, <1>2
    <3>2. i - 1 \in 1..Len(Tail(q)) /\ Tail(q)[i - 1] = q[(i - 1) + 1] /\ (i - 1) + 1 = i
      BY <2>2, <2>3, <3>1, <1>3, <1>8
    <3>3. QED BY <3>2, <2>1, <2>2, <2>3, <1>6 DEF Stands
  <2>4. CASE reads[s].host # g
    BY <2>1, <2>2, <2>4, <1>6 DEF Stands
  <2>5. QED BY <2>3, <2>4
<1>12. QED BY <1>6, <1>7, <1>9, <1>10, <1>11 DEF LinesAreReads

LEMMA LineIsJoined ==
  ASSUME ReaderTypes, LinesAreReads, NEW r \in Reads, reads[r].at \notin Waiting,
         NEW read \in ReadRecords, read.host \in Hosts, Enqueue(r, read)
  PROVE  LinesAreReads' /\ hostQueue' \in [Hosts -> Seq(Reads)]
<1> DEFINE g == read.host
           q == hostQueue[g]
<1>1. q \in Seq(Reads) /\ Len(q) \in Nat
  BY DEF ReaderTypes
<1>2. /\ Append(q, r) \in Seq(Reads) /\ Len(Append(q, r)) = Len(q) + 1
      /\ \A i \in 1..Len(q) : Append(q, r)[i] = q[i]
      /\ Append(q, r)[Len(q) + 1] = r
  BY <1>1, AppendProperties
<1>3. \A h \in Hosts : \A i \in 1..Len(hostQueue[h]) : hostQueue[h][i] # r
  BY DEF LinesAreReads, LineOf, Waiting
<1>4. \A h \in Hosts : \A i \in 1..Len(hostQueue[h]) : hostQueue[h][i] \in Reads
  BY DEF ReaderTypes
<1>5. /\ hostQueue' \in [Hosts -> Seq(Reads)] /\ hostQueue'[g] = Append(q, r)
      /\ \A h \in Hosts : h # g => hostQueue'[h] = hostQueue[h]
  BY <1>2 DEF ReaderTypes, Enqueue
<1>6. /\ \A s \in Reads : s # r => reads'[s] = reads[s]
      /\ reads'[r].host = g /\ reads'[r].at = "queued"
  BY DEF ReaderTypes, ReadRecords, Enqueue
<1>7. LineOf(g)'
  <2> SUFFICES /\ \A i, j \in 1..(Len(q) + 1) : Append(q, r)[i] = Append(q, r)[j] => i = j
               /\ \A i \in 1..(Len(q) + 1) :
                    /\ reads'[Append(q, r)[i]].host = g
                    /\ reads'[Append(q, r)[i]].at \in (IF i = 1 THEN Waiting ELSE {"queued"})
    BY <1>2, <1>5 DEF LineOf
  <2>1. \A i \in 1..(Len(q) + 1) : i \in 1..Len(q) \/ i = Len(q) + 1
    BY <1>1
  <2>2. "queued" \in Waiting
    BY DEF Waiting
  <2>3. \A i, j \in 1..(Len(q) + 1) : Append(q, r)[i] = Append(q, r)[j] => i = j
    BY <2>1, <1>1, <1>2, <1>3 DEF LinesAreReads, LineOf
  <2>4. \A i \in 1..(Len(q) + 1) :
          /\ reads'[Append(q, r)[i]].host = g
          /\ reads'[Append(q, r)[i]].at \in (IF i = 1 THEN Waiting ELSE {"queued"})
    BY <2>1, <2>2, <1>2, <1>3, <1>4, <1>6 DEF LinesAreReads, LineOf
  <2>5. QED BY <2>3, <2>4
<1>8. \A h \in Hosts : h # g => LineOf(h)'
  <2> SUFFICES ASSUME NEW h \in Hosts, h # g PROVE LineOf(h)'
    OBVIOUS
  <2>1. LineOf(h) /\ hostQueue'[h] = hostQueue[h]
    BY <1>5 DEF LinesAreReads
  <2>2. \A i \in 1..Len(hostQueue[h]) : reads'[hostQueue[h][i]] = reads[hostQueue[h][i]]
    BY <1>3, <1>4, <1>6
  <2>3. QED BY <2>1, <2>2 DEF LineOf
<1>9. \A s \in Reads : Stands(s)'
  <2> TAKE s \in Reads
  <2> SUFFICES ASSUME reads'[s].at \in Waiting PROVE Stands(s)'
    BY DEF Stands
  <2>1. CASE s = r
    BY <2>1, <1>1, <1>2, <1>5, <1>6 DEF Stands
  <2>2. CASE s # r
    <3>1. reads'[s] = reads[s]
      BY <2>2, <1>6
    <3>2. PICK i \in 1..Len(hostQueue[reads[s].host]) : reads[s].host \in Hosts /\ hostQueue[reads[s].host][i] = s
      BY <3>1 DEF LinesAreReads, Stands
    <3>3. CASE reads[s].host = g
      <4>1. i \in 1..Len(Append(q, r)) /\ Append(q, r)[i] = s
        BY <3>2, <3>3, <1>1, <1>2
      <4>2. QED BY <4>1, <3>1, <3>3, <1>5 DEF Stands
    <3>4. CASE reads[s].host # g
      BY <3>1, <3>2, <3>4, <1>5 DEF Stands
    <3>5. QED BY <3>3, <3>4
  <2>3. QED BY <2>1, <2>2
<1>10. QED BY <1>5, <1>7, <1>8, <1>9 DEF LinesAreReads

LEMMA LineIsLeftAlone ==
  ASSUME ReaderTypes, LinesAreReads, NEW r \in Reads, reads[r].at \notin Waiting, reads'[r].at \notin Waiting,
         \A s \in Reads : s # r => reads'[s] = reads[s], hostQueue' = hostQueue
  PROVE  LinesAreReads'
<1>1. \A h \in Hosts : \A i \in 1..Len(hostQueue[h]) : hostQueue[h][i] # r /\ hostQueue[h][i] \in Reads
  BY DEF ReaderTypes, LinesAreReads, LineOf, Waiting
<1>2. \A h \in Hosts : LineOf(h)'
  BY <1>1 DEF LinesAreReads, LineOf
<1>3. \A s \in Reads : Stands(s)'
  BY DEF LinesAreReads, Stands
<1>4. QED BY <1>2, <1>3 DEF LinesAreReads

(* What the requests that were sent say of the reads that sent them, and of *)
(* the time a host was asked last.                                         *)
NothingAskedBy(r) == \A a \in requested : a.read # r

Unasked(r) ==
  /\ reads[r].at \in {"idle", "scraper", "queued", "sleep"} => reads[r].hop = 0 /\ NothingAskedBy(r)
  /\ reads[r].at \in {"queued", "sleep"} => reads[r].target = reads[r].host
  /\ reads[r].at = "scraper" => reads[r].host \in Hosts
  /\ reads[r].at \in {"guard", "fetch"} => reads[r].target \in Hosts
  /\ reads[r].at = "guard" /\ reads[r].hop = 0 =>
       /\ NothingAskedBy(r) /\ reads[r].target = reads[r].host
       /\ lastAt[reads[r].host] + Interval <= clock
  /\ reads[r].said = "failed" => reads[r].at = "failed" /\ NothingAskedBy(r)

WrittenDown(a) ==
  /\ a.time <= clock /\ a.public
  /\ a.hop = 0 =>
       /\ reads[a.read].host = a.host
       /\ reads[a.read].at \in {"guard", "fetch"} \/ a.time <= lastAt[a.host]

AskedInv ==
  /\ \A h \in Hosts : lastAt[h] <= clock
  /\ \A r \in Reads : Unasked(r)
  /\ \A a \in requested : WrittenDown(a)
  /\ HostsAreSpaced

ReaderInv == ReaderTypes /\ LinesAreReads /\ AskedInv

LEMMA ReaderInvHolds ==
  ASSUME ReaderBounds
  PROVE  WebInit => ReaderInv
<1> SUFFICES ASSUME WebInit PROVE ReaderInv
  OBVIOUS
<1>1. ReaderTypes
  BY DEF ReaderBounds, WebInit, ReaderTypes, ReadRecords, NoRead, Kinds, Places, Stages, Told
<1>2. LinesAreReads
  BY DEF WebInit, LinesAreReads, LineOf, Stands, NoRead, Waiting
<1>3. AskedInv
  BY DEF ReaderBounds, WebInit, AskedInv, Unasked, NothingAskedBy, WrittenDown, HostsAreSpaced, NoRead
<1>4. QED BY <1>1, <1>2, <1>3 DEF ReaderInv

(* A read that leaves its line: whatever it asked, its host is written down. *)
LEMMA AReadEnds ==
  ASSUME ReaderBounds, ReaderInv, NEW r \in Reads, NEW how \in Done, how # "failed",
         reads[r].at \in {"sleep", "guard", "fetch"}, ReadEnds(r, how)
  PROVE  ReaderInv'
<1> USE DEF ReaderInv
<1>1. reads[r].host \in Hosts /\ Turn(r)
  BY TheFirstActs
<1>2. LinesAreReads' /\ hostQueue' \in [Hosts -> Seq(Reads)]
  BY <1>1, LineIsLeft DEF ReadEnds
<1>3. /\ reads' \in [Reads -> ReadRecords]
      /\ \A s \in Reads : s # r => reads'[s] = reads[s]
      /\ reads'[r].at = how /\ reads'[r].host = reads[r].host /\ reads'[r].said = reads[r].said
      /\ reads'[r].hop = reads[r].hop /\ reads'[r].target = reads[r].target
  BY DEF ReaderTypes, ReadRecords, ReadEnds, Settles, Becomes, Stages
<1>4. /\ lastAt' \in [Hosts -> 0..MaxTime] /\ lastAt'[reads[r].host] = clock
      /\ \A h \in Hosts : h # reads[r].host => lastAt'[h] = lastAt[h]
      /\ UNCHANGED <<abandoned, clock, requested>>
  BY <1>1 DEF ReaderTypes, ReadEnds
<1>5. ReaderTypes'
  BY <1>2, <1>3, <1>4 DEF ReaderTypes
<1>6. \A s \in Reads : Unasked(s)'
  <2> TAKE s \in Reads
  <2>1. CASE s = r
    BY <2>1, <1>3, <1>4 DEF Unasked, NothingAskedBy, AskedInv, Done
  <2>2. CASE s # r
    <3>1. reads'[s] = reads[s] /\ (NothingAskedBy(s) => NothingAskedBy(s)')
      BY <2>2, <1>3, <1>4 DEF NothingAskedBy
    <3>2. reads[s].at = "guard" => reads[s].host \in Hosts /\ reads[s].host # reads[r].host
      BY <2>2, TheFirstActs, OneActs
    <3>3. QED BY <3>1, <3>2, <1>4 DEF Unasked, AskedInv
  <2>3. QED BY <2>1, <2>2
<1>7. \A a \in requested' : WrittenDown(a)'
  <2> TAKE a \in requested'
  <2>1. a \in requested /\ WrittenDown(a) /\ a.read \in Reads /\ a.host \in Hosts /\ a.time \in 0..MaxTime
    BY <1>4 DEF AskedInv, ReaderTypes
  <2>2. CASE a.read = r /\ a.hop = 0
    BY <2>1, <2>2, <1>3, <1>4 DEF WrittenDown
  <2>3. CASE a.read # r /\ a.hop = 0
    <3>1. a.time <= lastAt[a.host] => a.time <= lastAt'[a.host]
      BY <2>1, <1>4 DEF WrittenDown, ReaderTypes
    <3>2. QED BY <3>1, <2>1, <2>3, <1>3, <1>4 DEF WrittenDown
  <2>4. CASE a.hop # 0
    BY <2>1, <2>4, <1>4 DEF WrittenDown
  <2>5. QED BY <2>2, <2>3, <2>4
<1>8. \A h \in Hosts : lastAt'[h] <= clock'
  <2>1. clock' = clock /\ clock <= clock
    BY <1>4 DEF ReaderTypes
  <2>2. QED BY <2>1, <1>4 DEF AskedInv
<1>9. HostsAreSpaced'
  BY <1>4 DEF AskedInv, HostsAreSpaced
<1>10. QED BY <1>2, <1>5, <1>6, <1>7, <1>8, <1>9 DEF AskedInv

(* What happens to a read before it is fetched sends nothing and writes     *)
(* nothing down.                                                           *)
LEMMA NothingIsSent ==
  ASSUME ReaderInv, NEW r \in Reads,
         \A s \in Reads : s # r => reads'[s] = reads[s], UNCHANGED <<lastAt, clock, requested>>,
         reads[r].at \in {"idle", "scraper", "queued", "sleep"}, Unasked(r)'
  PROVE  AskedInv'
<1> USE DEF ReaderInv
<1>1. NothingAskedBy(r)
  BY DEF AskedInv, Unasked
<1>2. \A s \in Reads : Unasked(s)'
  BY DEF AskedInv, Unasked, NothingAskedBy
<1>3. \A a \in requested' : WrittenDown(a)'
  BY <1>1 DEF AskedInv, WrittenDown, NothingAskedBy, ReaderTypes
<1>4. QED BY <1>2, <1>3 DEF AskedInv, HostsAreSpaced

(* A read that joins a line. *)
LEMMA AReadQueues ==
  ASSUME ReaderInv, NEW r \in Reads, reads[r].at \in {"idle", "scraper"},
         NEW read \in ReadRecords, read.host \in Hosts, read.hop = 0, read.said # "failed",
         Enqueue(r, read), UNCHANGED <<abandoned, lastAt, clock, requested>>
  PROVE  ReaderInv'
<1> USE DEF ReaderInv
<1>1. reads[r].at \notin Waiting
  BY DEF Waiting
<1>2. LinesAreReads' /\ hostQueue' \in [Hosts -> Seq(Reads)]
  BY <1>1, LineIsJoined
<1>3. /\ reads' \in [Reads -> ReadRecords]
      /\ \A s \in Reads : s # r => reads'[s] = reads[s]
      /\ reads'[r].at = "queued" /\ reads'[r].said = read.said /\ reads'[r].hop = 0
      /\ reads'[r].target = reads'[r].host
  BY DEF ReaderTypes, ReadRecords, Enqueue, Stages, Waiting, Places
<1>4. Unasked(r)'
  BY <1>3 DEF AskedInv, Unasked, NothingAskedBy
<1>5. AskedInv'
  BY <1>3, <1>4, NothingIsSent
<1>6. QED BY <1>2, <1>3, <1>5 DEF ReaderTypes

(* A read that goes from one stage outside of the lines to another. *)
LEMMA AReadSteps ==
  ASSUME ReaderInv, NEW r \in Reads, reads[r].at \in {"idle", "scraper"},
         NEW read \in ReadRecords, read.at \notin Waiting, read.hop = 0,
         read.said = "failed" => read.at = "failed", read.at # "idle",
         read.at = "scraper" => read.host \in Hosts,
         reads' = [reads EXCEPT ![r] = read], UNCHANGED <<abandoned, hostQueue, lastAt, clock, requested>>
  PROVE  ReaderInv'
<1> USE DEF ReaderInv
<1>1. reads[r].at \notin Waiting
  BY DEF Waiting
<1>2. /\ reads' \in [Reads -> ReadRecords] /\ reads'[r] = read
      /\ \A s \in Reads : s # r => reads'[s] = reads[s]
  BY DEF ReaderTypes
<1>3. LinesAreReads'
  BY <1>1, <1>2, LineIsLeftAlone
<1>4. Unasked(r)'
  BY <1>2 DEF AskedInv, Unasked, NothingAskedBy, Waiting
<1>5. AskedInv'
  BY <1>2, <1>4, NothingIsSent
<1>6. QED BY <1>2, <1>3, <1>5 DEF ReaderTypes

(* A read whose turn it is sleeps, or goes on to the guard when its host is *)
(* due.                                                                    *)
LEMMA AReadGoesOn ==
  ASSUME ReaderBounds, ReaderInv, NEW r \in Reads, NEW at \in {"sleep", "guard"},
         reads[r].at \in {"queued", "sleep"}, Turn(r), at = "guard" => Wait(r) <= 0,
         reads' = Becomes(r, at), UNCHANGED <<abandoned, hostQueue, lastAt, clock, requested>>
  PROVE  ReaderInv'
<1> USE DEF ReaderInv
<1>1. /\ reads' \in [Reads -> ReadRecords]
      /\ \A s \in Reads : s # r => reads'[s] = reads[s]
      /\ reads'[r].at = at /\ reads'[r].host = reads[r].host /\ reads'[r].said = reads[r].said
      /\ reads'[r].hop = reads[r].hop /\ reads'[r].target = reads[r].target
  BY DEF ReaderTypes, ReadRecords, Becomes, Stages, Waiting
<1>2. reads[r].at \in Waiting /\ reads'[r].at \in Waiting
  BY <1>1 DEF Waiting
<1>3. reads[r].host \in Hosts
  BY <1>2 DEF LinesAreReads, Stands
<1>4. LinesAreReads'
  BY <1>1, <1>2, <1>3, LineStays
<1>5. at = "guard" => lastAt[reads[r].host] + Interval <= clock
  BY <1>3 DEF Wait, ReaderTypes, ReaderBounds
<1>6. Unasked(r)'
  BY <1>1, <1>3, <1>5 DEF AskedInv, Unasked, NothingAskedBy
<1>7. AskedInv'
  BY <1>1, <1>6, NothingIsSent
<1>8. QED BY <1>1, <1>4, <1>7 DEF ReaderTypes

(* A read that is cancelled before it is fetched leaves its line. *)
LEMMA AReadGivesUp ==
  ASSUME ReaderInv, NEW r \in Reads, reads[r].at \in {"queued", "sleep"}, Turn(r),
         Settles(r, "cancelled"), UNCHANGED <<abandoned, lastAt, clock, requested>>
  PROVE  ReaderInv'
<1> USE DEF ReaderInv
<1>1. /\ reads' \in [Reads -> ReadRecords]
      /\ \A s \in Reads : s # r => reads'[s] = reads[s]
      /\ reads'[r].at = "cancelled" /\ reads'[r].said = reads[r].said
      /\ reads'[r].hop = reads[r].hop /\ reads'[r].target = reads[r].target
  BY DEF ReaderTypes, ReadRecords, Settles, Becomes, Stages, Done
<1>2. reads[r].host \in Hosts
  BY DEF LinesAreReads, Stands, Waiting
<1>3. LinesAreReads' /\ hostQueue' \in [Hosts -> Seq(Reads)]
  BY <1>2, LineIsLeft DEF Done
<1>4. Unasked(r)'
  BY <1>1 DEF AskedInv, Unasked, NothingAskedBy
<1>5. AskedInv'
  BY <1>1, <1>4, NothingIsSent
<1>6. QED BY <1>1, <1>3, <1>5 DEF ReaderTypes

(* The guard lets a hop through: the first hop of a read follows whatever   *)
(* its host was asked before.                                              *)
LEMMA AHopIsAsked ==
  ASSUME ReaderBounds, ReaderInv, NEW r \in Reads, reads[r].at = "guard",
         reads' = Becomes(r, "fetch"), UNCHANGED <<abandoned, hostQueue, lastAt, clock>>,
         requested' = requested \cup {[read |-> r, host |-> reads[r].target, hop |-> reads[r].hop,
                               time |-> clock, public |-> TRUE]}
  PROVE  ReaderInv'
<1> USE DEF ReaderInv
<1> DEFINE new == [read |-> r, host |-> reads[r].target, hop |-> reads[r].hop,
                   time |-> clock, public |-> TRUE]
<1>1. /\ reads' \in [Reads -> ReadRecords]
      /\ \A s \in Reads : s # r => reads'[s] = reads[s]
      /\ reads'[r].at = "fetch" /\ reads'[r].host = reads[r].host /\ reads'[r].said = reads[r].said
      /\ reads'[r].hop = reads[r].hop /\ reads'[r].target = reads[r].target
  BY DEF ReaderTypes, ReadRecords, Becomes, Stages, Waiting
<1>2. reads[r].host \in Hosts /\ Turn(r)
  BY TheFirstActs
<1>3. LinesAreReads'
  BY <1>1, <1>2, LineStays DEF Waiting
<1>4. Unasked(r) /\ reads[r].target \in Hosts /\ reads[r].hop \in 0..MaxRedirects
  BY DEF AskedInv, Unasked, ReaderTypes, ReadRecords
<1>5. requested' \subseteq [read : Reads, host : Hosts, hop : 0..MaxRedirects, time : 0..MaxTime, public : BOOLEAN]
  <2>1. new \in [read : Reads, host : Hosts, hop : 0..MaxRedirects, time : 0..MaxTime, public : BOOLEAN]
    BY <1>4 DEF ReaderTypes
  <2>2. QED BY <2>1 DEF ReaderTypes
<1>6. ReaderTypes'
  BY <1>1, <1>5 DEF ReaderTypes
<1>7. Unasked(r)'
  BY <1>1, <1>4 DEF Unasked
<1>8. \A s \in Reads : Unasked(s)'
  <2> SUFFICES ASSUME NEW s \in Reads, s # r PROVE Unasked(s)'
    BY <1>7
  <2>1. Unasked(s) /\ reads'[s] = reads[s] /\ (NothingAskedBy(s) => NothingAskedBy(s)')
    BY <1>1 DEF AskedInv, NothingAskedBy
  <2>2. QED BY <2>1 DEF Unasked
<1>9. \A a \in requested' : WrittenDown(a)'
  <2> TAKE a \in requested'
  <2>1. CASE a = new
    BY <2>1, <1>1, <1>4 DEF WrittenDown, Unasked, ReaderTypes
  <2>2. CASE a \in requested
    <3>1. WrittenDown(a) /\ a.read \in Reads
      BY <2>2 DEF AskedInv, ReaderTypes
    <3>2. reads'[a.read].host = reads[a.read].host
          /\ (reads[a.read].at \in {"guard", "fetch"} => reads'[a.read].at \in {"guard", "fetch"})
      BY <3>1, <1>1
    <3>3. QED BY <3>1, <3>2, <1>1 DEF WrittenDown
  <2>3. QED BY <2>1, <2>2
<1>10. \A b \in requested : b.hop = 0 /\ reads[r].hop = 0 /\ b.host = reads[r].target => clock >= b.time + Interval
  <2> SUFFICES ASSUME NEW b \in requested, b.hop = 0, reads[r].hop = 0, b.host = reads[r].target
               PROVE  clock >= b.time + Interval
    OBVIOUS
  <2>1. /\ NothingAskedBy(r) /\ reads[r].target = reads[r].host
        /\ lastAt[reads[r].host] + Interval <= clock
    BY <1>4 DEF Unasked
  <2>2. WrittenDown(b) /\ b.read \in Reads /\ b.read # r /\ b.time \in 0..MaxTime
    BY <2>1 DEF AskedInv, NothingAskedBy, ReaderTypes
  <2>3. reads[b.read].at \notin {"guard", "fetch"}
    BY <2>1, <2>2, OneActs DEF WrittenDown
  <2>4. b.time <= lastAt[reads[r].host] /\ lastAt[reads[r].host] \in 0..MaxTime
    BY <2>1, <2>2, <2>3, <1>2 DEF WrittenDown, ReaderTypes
  <2>5. QED BY <2>1, <2>2, <2>4 DEF ReaderTypes, ReaderBounds
<1>11. HostsAreSpaced'
  <2> SUFFICES ASSUME NEW a \in requested', NEW b \in requested', a # b, a.hop = 0, b.hop = 0, a.host = b.host
               PROVE  a.time >= b.time + Interval \/ b.time >= a.time + Interval
    BY DEF HostsAreSpaced
  <2>1. CASE a \in requested /\ b \in requested
    BY <2>1 DEF AskedInv, HostsAreSpaced
  <2>2. CASE a = new /\ b \in requested
    BY <2>2, <1>10
  <2>3. CASE b = new /\ a \in requested
    BY <2>3, <1>10
  <2>4. QED BY <2>1, <2>2, <2>3
<1>12. QED BY <1>3, <1>6, <1>8, <1>9, <1>11 DEF AskedInv

(* A redirect that is followed goes back to the guard. *)
LEMMA AHopIsFollowed ==
  ASSUME ReaderBounds, ReaderInv, NEW r \in Reads, NEW to \in Hosts, reads[r].at = "fetch",
         reads[r].hop < MaxRedirects,
         reads' = [reads EXCEPT ![r].at = "guard", ![r].hop = @ + 1, ![r].target = to],
         UNCHANGED <<abandoned, hostQueue, lastAt, clock, requested>>
  PROVE  ReaderInv'
<1> USE DEF ReaderInv
<1>1. reads[r] \in ReadRecords /\ reads[r].hop + 1 \in 0..MaxRedirects /\ reads[r].hop + 1 # 0
  BY DEF ReaderBounds, ReaderTypes, ReadRecords
<1>2. /\ reads' \in [Reads -> ReadRecords]
      /\ \A s \in Reads : s # r => reads'[s] = reads[s]
      /\ reads'[r].at = "guard" /\ reads'[r].host = reads[r].host /\ reads'[r].said = reads[r].said
      /\ reads'[r].hop # 0 /\ reads'[r].target = to
  BY <1>1 DEF ReaderTypes, ReadRecords, Stages, Waiting, Places
<1>3. reads[r].host \in Hosts /\ Turn(r)
  BY TheFirstActs
<1>4. LinesAreReads'
  BY <1>2, <1>3, LineStays DEF Waiting
<1>5. ReaderTypes'
  BY <1>2 DEF ReaderTypes
<1>6. \A s \in Reads : Unasked(s)'
  BY <1>2 DEF AskedInv, Unasked, NothingAskedBy
<1>7. \A a \in requested' : WrittenDown(a)'
  BY <1>2 DEF AskedInv, WrittenDown, ReaderTypes
<1>8. QED BY <1>4, <1>5, <1>6, <1>7 DEF AskedInv, HostsAreSpaced

LEMMA ReaderInvStep ==
  ASSUME ReaderBounds
  PROVE  ReaderInv /\ [WebNext]_webVars => ReaderInv'
<1> SUFFICES ASSUME ReaderInv, [WebNext]_webVars PROVE ReaderInv'
  OBVIOUS
<1> USE DEF ReaderInv
<1>1. ASSUME NEW r \in Reads, NEW want \in Wants[r], ReadBegins(r, want[1], want[2]) PROVE ReaderInv'
  <2> DEFINE read == [NoRead EXCEPT !.kind = want[1], !.host = want[2]]
  <2>1. /\ want[1] \in {"offer", "page", "company", "board"} /\ want[2] \in Hosts
        /\ reads[r].at = "idle" /\ reads[r].hop = 0 /\ reads[r] \in ReadRecords
        /\ UNCHANGED <<abandoned, lastAt, clock, requested>>
    BY <1>1 DEF ReaderBounds, ReadBegins, ReaderTypes, AskedInv, Unasked
  <2>7. NoRead \in ReadRecords /\ NoRead.hop = 0 /\ NoRead.said = "nothing"
    BY DEF ReaderBounds, NoRead, ReadRecords, Kinds, Places, Stages, Told
  <2>2. /\ read \in ReadRecords /\ read.host = want[2] /\ read.hop = 0 /\ read.said = "nothing"
        /\ \A at \in Stages : /\ [read EXCEPT !.at = at] \in ReadRecords /\ [read EXCEPT !.at = at].at = at
                             /\ [read EXCEPT !.at = at].host = want[2]
                             /\ [read EXCEPT !.at = at].hop = 0 /\ [read EXCEPT !.at = at].said = "nothing"
    BY <2>1, <2>7 DEF ReadRecords, Kinds, Places
  <2>3. CASE Enqueue(r, read)
    BY <2>1, <2>2, <2>3, AReadQueues
  <2>4. CASE \E at \in {"cancelled", "scraper", "unavailable"} :
               reads' = [reads EXCEPT ![r] = [read EXCEPT !.at = at]] /\ UNCHANGED hostQueue
    <3> PICK at \in {"cancelled", "scraper", "unavailable"} :
               reads' = [reads EXCEPT ![r] = [read EXCEPT !.at = at]] /\ UNCHANGED hostQueue
      BY <2>4
    <3>1. at \in Stages /\ at \notin Waiting /\ at # "idle"
      BY DEF Stages, Done, Waiting
    <3> DEFINE next == [read EXCEPT !.at = at]
    <3>2. /\ next \in ReadRecords /\ next.at = at /\ next.hop = 0 /\ next.said = "nothing"
          /\ next.host \in Hosts /\ reads' = [reads EXCEPT ![r] = next]
      BY <2>1, <2>2, <3>1
    <3> HIDE DEF next, read
    <3>3. QED BY <2>1, <2>4, <3>1, <3>2, AReadSteps
  <2>5. QED BY <1>1, <2>3, <2>4 DEF ReadBegins
<1>2. ASSUME NEW r \in Reads, NEW said \in {"ok", "thin", "failed", "unavailable", "cancelled"},
             ScraperAnswers(r, said)
      PROVE  ReaderInv'
  <2> DEFINE read == [reads[r] EXCEPT !.said = said]
  <2>1. /\ reads[r].at = "scraper" /\ reads[r].hop = 0 /\ reads[r] \in ReadRecords
        /\ UNCHANGED <<abandoned, lastAt, clock, requested>>
    BY <1>2 DEF ScraperAnswers, ReaderTypes, AskedInv, Unasked
  <2>2. /\ read \in ReadRecords /\ read.host = reads[r].host /\ read.hop = 0 /\ read.said = said
        /\ \A at \in Stages : /\ [read EXCEPT !.at = at] \in ReadRecords /\ [read EXCEPT !.at = at].at = at
                             /\ [read EXCEPT !.at = at].host = reads[r].host
                             /\ [read EXCEPT !.at = at].hop = 0 /\ [read EXCEPT !.at = at].said = said
    BY <2>1 DEF ReadRecords, Told, Stages
  <2>3. CASE said \in FallsBackOn /\ Enqueue(r, read)
    <3>1. said # "failed"
      BY <2>3 DEF FallsBackOn
    <3>2. reads[r].host \in Hosts
      BY <2>1 DEF AskedInv, Unasked
    <3>3. QED BY <2>1, <2>2, <2>3, <3>1, <3>2, AReadQueues
  <2>4. CASE /\ reads' = [reads EXCEPT ![r] = [read EXCEPT !.at = IF said = "thin" THEN "failed" ELSE said]]
             /\ UNCHANGED hostQueue
    <3> DEFINE at == IF said = "thin" THEN "failed" ELSE said
    <3>1. at \in Stages /\ at \notin Waiting /\ (said = "failed" => at = "failed") /\ at \notin {"idle", "scraper"}
      BY DEF Stages, Done, Waiting
    <3> DEFINE next == [read EXCEPT !.at = at]
    <3>2. /\ next \in ReadRecords /\ next.at = at /\ next.hop = 0 /\ next.said = said
          /\ reads' = [reads EXCEPT ![r] = next]
      BY <2>1, <2>2, <2>4, <3>1
    <3> HIDE DEF next, read
    <3>3. reads[r].at \in {"idle", "scraper"} /\ UNCHANGED <<abandoned, hostQueue, lastAt, clock, requested>>
      BY <2>1, <2>4
    <3>4. /\ next.at \notin Waiting /\ (next.said = "failed" => next.at = "failed") /\ next.at # "idle"
          /\ (next.at = "scraper" => next.host \in Hosts)
      BY <3>1, <3>2
    <3>5. QED BY <3>2, <3>3, <3>4, AReadSteps
  <2>5. QED BY <1>2, <2>3, <2>4 DEF ScraperAnswers
<1>3. ASSUME NEW r \in Reads, TurnBegins(r) PROVE ReaderInv'
  BY <1>3, AReadGoesOn, AReadGivesUp DEF TurnBegins
<1>4. ASSUME NEW r \in Reads, SleepEnds(r) PROVE ReaderInv'
  <2>1. Turn(r)
    BY <1>4, TheFirstActs DEF SleepEnds
  <2>2. QED BY <2>1, <1>4, AReadGoesOn, AReadGivesUp DEF SleepEnds
<1>5. ASSUME NEW r \in Reads, Guard(r) PROVE ReaderInv'
  <2>1. PICK answer \in Lookups(reads[r].target) :
          /\ reads[r].at = "guard"
          /\ \/ ReadEnds(r, "refused") \/ ReadEnds(r, "cancelled")
             \/ /\ ~Stops(r, answer)
                /\ reads' = Becomes(r, "fetch")
                /\ requested' = requested \cup {[read |-> r, host |-> reads[r].target, hop |-> reads[r].hop,
                                         time |-> clock, public |-> ~IsRefused(reads[r].target, answer)]}
                /\ UNCHANGED <<abandoned, hostQueue, lastAt, clock>>
    BY <1>5 DEF Guard
  <2>2. CASE ReadEnds(r, "refused") \/ ReadEnds(r, "cancelled")
    BY <2>1, <2>2, AReadEnds DEF Done
  <2>3. ~Stops(r, answer) => (~IsRefused(reads[r].target, answer)) = TRUE
    BY DEF Stops
  <2>4. QED BY <2>1, <2>2, <2>3, AHopIsAsked
<1>6. ASSUME NEW r \in Reads, CancelRead(r) PROVE ReaderInv'
  <2>1. abandoned' = abandoned \cup {r} /\ UNCHANGED <<reads, hostQueue, lastAt, clock, requested>>
    BY <1>6 DEF CancelRead
  <2>2. ReaderTypes'
    BY <2>1 DEF ReaderTypes
  <2>3. LinesAreReads'
    BY <2>1 DEF LinesAreReads, LineOf, Stands
  <2>4. AskedInv'
    BY <2>1 DEF AskedInv, Unasked, NothingAskedBy, WrittenDown, HostsAreSpaced
  <2>5. QED BY <2>2, <2>3, <2>4
<1>7. ASSUME NEW r \in Reads, NEW to \in Hosts, Redirected(r, to) PROVE ReaderInv'
  <2>1. reads[r].hop \in 0..MaxRedirects
    BY DEF ReaderTypes, ReadRecords
  <2>2. CASE reads[r].hop >= MaxRedirects
    <3>1. ReadEnds(r, "unreadable") /\ reads[r].at \in {"sleep", "guard", "fetch"}
      BY <2>2, <1>7 DEF Redirected
    <3>2. "unreadable" \in Done /\ "unreadable" # "failed"
      BY DEF Done
    <3>3. QED BY <3>1, <3>2, AReadEnds
  <2>3. CASE reads[r].hop < MaxRedirects
    <3>1. ~(reads[r].hop >= MaxRedirects)
      BY <2>1, <2>3 DEF ReaderBounds
    <3>2. /\ reads[r].at = "fetch" /\ UNCHANGED <<abandoned, hostQueue, lastAt, clock, requested>>
          /\ reads' = [reads EXCEPT ![r].at = "guard", ![r].hop = @ + 1, ![r].target = to]
      BY <3>1, <1>7, Zenon DEF Redirected
    <3>3. QED BY <3>2, <2>3, AHopIsFollowed
  <2>4. QED BY <2>1, <2>2, <2>3 DEF ReaderBounds
<1>8. ASSUME NEW r \in Reads, NEW how \in {"ok", "unreadable", "cancelled"}, Fetched(r, how) PROVE ReaderInv'
  BY <1>8, AReadEnds DEF Fetched, Done
<1>9. ASSUME ClockTicks PROVE ReaderInv'
  <2>1. clock' \in 0..MaxTime /\ clock <= clock' /\ clock \in Nat
        /\ UNCHANGED <<reads, abandoned, hostQueue, lastAt, requested>>
    BY <1>9 DEF ClockTicks, ReaderTypes, ReaderBounds
  <2>2. ReaderTypes' /\ LinesAreReads' /\ HostsAreSpaced'
    <3>1. ReaderTypes'
      BY <2>1 DEF ReaderTypes
    <3>2. LinesAreReads'
      BY <2>1 DEF LinesAreReads, LineOf, Stands
    <3>3. HostsAreSpaced'
      BY <2>1 DEF AskedInv, HostsAreSpaced
    <3>4. QED BY <3>1, <3>2, <3>3
  <2>3. \A h \in Hosts : lastAt'[h] <= clock'
    BY <2>1 DEF AskedInv, ReaderTypes
  <2>4. \A r \in Reads : Unasked(r)'
    <3> TAKE r \in Reads
    <3>1. reads[r].at = "guard" => reads[r].host \in Hosts
      BY TheFirstActs
    <3>2. QED BY <2>1, <3>1 DEF AskedInv, Unasked, NothingAskedBy, ReaderTypes, ReaderBounds
  <2>5. \A a \in requested' : WrittenDown(a)'
    BY <2>1 DEF AskedInv, WrittenDown, ReaderTypes
  <2>6. QED BY <2>2, <2>3, <2>4, <2>5 DEF AskedInv
<1>10. ASSUME UNCHANGED webVars PROVE ReaderInv'
  BY <1>10 DEF webVars, ReaderTypes, LinesAreReads, LineOf, Stands, AskedInv, Unasked, NothingAskedBy,
               WrittenDown, HostsAreSpaced
<1>20. QED BY <1>1, <1>2, <1>3, <1>4, <1>5, <1>6, <1>7, <1>8, <1>9, <1>10, ReaderCases

(* No hop of a read, the ones a server chose included, is asked of a host   *)
(* that is not public, and what the scraper was refused is not fetched      *)
(* behind its back (guarded, fetchDirect and read of effects/offers.ts).    *)
THEOREM OnlyWhatMayBeReadIsAsked ==
  ASSUME ReaderBounds
  PROVE  WebInit /\ [][WebNext]_webVars => [](OnlyPublicIsAsked /\ ARefusalIsFinal)
<1>1. ReaderInv => OnlyPublicIsAsked /\ ARefusalIsFinal
  BY DEF ReaderInv, AskedInv, Unasked, NothingAskedBy, WrittenDown, OnlyPublicIsAsked, ARefusalIsFinal
<1>2. QED BY <1>1, ReaderInvHolds, ReaderInvStep, PTL

(* Reads of one host begin with an interval between them, however many     *)
(* there are and however they end, and whoever waits for a host waits      *)
(* behind a read that is still being made (perHost of effects/offers.ts).  *)
THEOREM HostsAreReadInTurn ==
  ASSUME ReaderBounds
  PROVE  WebInit /\ [][WebNext]_webVars => [](HostsAreSpaced /\ NobodyWaitsForNobody)
<1>1. ReaderInv => HostsAreSpaced /\ NobodyWaitsForNobody
  BY DEF ReaderInv, ReaderTypes, AskedInv, LinesAreReads, LineOf, NobodyWaitsForNobody
<1>2. QED BY <1>1, ReaderInvHolds, ReaderInvStep, PTL

(* A read that has been cancelled sends nothing more (the signal that      *)
(* perHost, guarded and fetchDirect of effects/offers.ts look at).         *)
THEOREM CancelledReadsSendNothing ==
  WebInit /\ [][WebNext]_webVars => [][CancelledAsksNothing]_webVars
<1>1. [WebNext]_webVars => [CancelledAsksNothing]_webVars
  <2> SUFFICES ASSUME [WebNext]_webVars PROVE CancelledAsksNothing
    OBVIOUS
  <2>1. ASSUME NEW r \in Reads, Guard(r) PROVE CancelledAsksNothing
    <3>1. \/ requested' = requested
          \/ r \notin abandoned /\ \E a : requested' = requested \cup {a} /\ a.read = r
      BY <2>1 DEF Guard, ReadEnds
    <3>2. QED BY <3>1 DEF CancelledAsksNothing
  <2>2. requested' = requested => CancelledAsksNothing
    BY DEF CancelledAsksNothing
  <2>3. QED
    BY <2>1, <2>2, ReaderCases DEF ReadBegins, ScraperAnswers, TurnBegins, SleepEnds, CancelRead, Redirected,
       Fetched, ReadEnds, ClockTicks, webVars
<1>2. QED BY <1>1, PTL

-----------------------------------------------------------------------------
(***************************************************************************)
(* The search, for every number of searches and every size of the cache.   *)
(* The same argument with one line; and what is remembered is one entry a  *)
(* query, after room was made for it.                                      *)
(***************************************************************************)

(* Every step is one of the actions; stated once for what follows. *)
LEMMA SearchCases ==
  ASSUME NEW Goal, [SearchNext]_searchVars,
         \A s \in Searches : \A query \in Queries : Search(s, query) => Goal,
         \A s \in Searches : TurnOf(s) => Goal,
         \A s \in Searches : Sleeps(s) => Goal,
         \A s \in Searches : Throws(s) => Goal,
         \A s \in Searches : Abort(s) => Goal,
         \A s \in Searches : \A outcome \in Outcomes : EngineAnswers(s, outcome) => Goal,
         TimePasses => Goal, UNCHANGED searchVars => Goal
  PROVE  Goal
BY DEF SearchNext

SearchRecords == [query : Queries \cup {"none"}, at : {"idle", "done", "cancelled"} \cup Going,
                  outcome : Outcomes \cup {"none"}]
Entries == [query : Queries, outcome : Outcomes, until : Nat]

SearchTypes ==
  /\ searches \in [Searches -> SearchRecords]
  /\ givenUp \subseteq Searches /\ line \in Seq(Searches)
  /\ lastCallAt \in 0..MaxSearchTime /\ time \in 0..MaxSearchTime
  /\ cache \in Seq(Entries)
  /\ calls \subseteq [search : Searches, time : 0..MaxSearchTime]

(* Each search stands in the line once, and only the first is past its turn. *)
InLine ==
  /\ \A i, j \in 1..Len(line) : line[i] = line[j] => i = j
  /\ \A i \in 1..Len(line) : searches[line[i]].at \in (IF i = 1 THEN Going ELSE {"queued"})
  /\ \A s \in Searches : searches[s].at \in Going =>
       searches[s].query \in Queries /\ \E i \in 1..Len(line) : line[i] = s

NoCallBy(s) == \A c \in calls : c.search # s

Called(c) == c.time <= time /\ (searches[c.search].at = "asking" \/ c.time <= lastCallAt)

CallInv ==
  /\ lastCallAt <= time
  /\ \A s \in Searches : searches[s].at \in {"idle", "queued", "sleep"} => NoCallBy(s)
  /\ \A c \in calls : Called(c)
  /\ EngineIsSpaced

SearchInv == SearchTypes /\ InLine /\ CallInv /\ CacheIsBounded

LEMMA TheFirstAsks ==
  ASSUME SearchTypes, InLine, NEW s \in Searches, searches[s].at \in {"sleep", "asking"}
  PROVE  First(s)
<1>1. PICK i \in 1..Len(line) : line[i] = s
  BY DEF InLine, Going
<1>2. i = 1
  BY <1>1 DEF InLine
<1>3. QED BY <1>1, <1>2 DEF SearchTypes, First

LEMMA OneAsks ==
  ASSUME SearchTypes, InLine, NEW s \in Searches, NEW t \in Searches,
         searches[s].at \in {"sleep", "asking"}, First(t)
  PROVE  s = t
BY TheFirstAsks DEF First

LEMMA FirstIsFirst ==
  ASSUME SearchTypes, InLine, NEW s \in Searches, First(s)
  PROVE  1 \in 1..Len(line) /\ line[1] = s /\ \A i \in 1..Len(line) : line[i] = s => i = 1
<1>1. line # <<>> /\ Head(line) = s /\ line \in Seq(Searches)
  BY DEF First, SearchTypes
<1>2. 1 \in 1..Len(line) /\ line[1] = s
  BY <1>1
<1>3. QED BY <1>2 DEF InLine

(* The first goes on, leaves, or another joins. *)
LEMMA TheFirstGoesOn ==
  ASSUME SearchTypes, InLine, NEW s \in Searches, First(s), line' = line,
         \A t \in Searches : t # s => searches'[t] = searches[t],
         searches[s].at \in Going, searches'[s].at \in Going, searches'[s].query = searches[s].query
  PROVE  InLine'
<1>1. \A i \in 1..Len(line) : line[i] \in Searches
  BY DEF SearchTypes
<1>2. QED BY <1>1, FirstIsFirst DEF InLine

LEMMA TheFirstLeaves ==
  ASSUME SearchTypes, InLine, NEW s \in Searches, First(s), line' = Tail(line),
         \A t \in Searches : t # s => searches'[t] = searches[t], searches'[s].at \notin Going
  PROVE  InLine' /\ line' \in Seq(Searches)
<1>1. /\ line \in Seq(Searches) /\ line # <<>> /\ Len(line) \in Nat
      /\ Tail(line) \in Seq(Searches) /\ Len(Tail(line)) = Len(line) - 1
      /\ \A i \in 1..Len(Tail(line)) : Tail(line)[i] = line[i + 1]
  BY HeadTailProperties DEF First, SearchTypes
<1>2. \A i \in 1..Len(Tail(line)) : i + 1 \in 1..Len(line) /\ i + 1 # 1 /\ line'[i] = line[i + 1]
  BY <1>1
<1>3. \A i \in 1..Len(line') : line[i + 1] # s /\ line[i + 1] \in Searches /\ searches[line[i + 1]].at = "queued"
  BY <1>1, <1>2, FirstIsFirst DEF InLine
<1>4. \A i, j \in 1..Len(line') : line'[i] = line'[j] => i = j
  <2> TAKE i, j \in 1..Len(line')
  <2>1. line'[i] = line'[j] => i + 1 = j + 1
    BY <1>2 DEF InLine
  <2>2. QED BY <2>1, <1>1
<1>5. \A i \in 1..Len(line') : searches'[line'[i]].at \in (IF i = 1 THEN Going ELSE {"queued"})
  BY <1>2, <1>3 DEF Going
<1>6. \A t \in Searches : searches'[t].at \in Going =>
         searches'[t].query \in Queries /\ \E i \in 1..Len(line') : line'[i] = t
  <2> SUFFICES ASSUME NEW t \in Searches, searches'[t].at \in Going
               PROVE  searches'[t].query \in Queries /\ \E i \in 1..Len(line') : line'[i] = t
    OBVIOUS
  <2>1. t # s /\ searches'[t] = searches[t]
    OBVIOUS
  <2>2. PICK i \in 1..Len(line) : line[i] = t
    BY <2>1 DEF InLine
  <2>3. i # 1
    BY <2>1, <2>2, FirstIsFirst
  <2>4. i - 1 \in 1..Len(line') /\ line'[i - 1] = line[(i - 1) + 1] /\ (i - 1) + 1 = i
    BY <2>2, <2>3, <1>1, <1>2
  <2>5. QED BY <2>1, <2>2, <2>4 DEF InLine
<1>7. QED BY <1>1, <1>4, <1>5, <1>6 DEF InLine

LEMMA AnotherJoins ==
  ASSUME SearchTypes, InLine, NEW s \in Searches, searches[s].at \notin Going, line' = Append(line, s),
         \A t \in Searches : t # s => searches'[t] = searches[t],
         searches'[s].at = "queued", searches'[s].query \in Queries
  PROVE  InLine' /\ line' \in Seq(Searches)
<1>1. /\ line \in Seq(Searches) /\ Len(line) \in Nat
      /\ Append(line, s) \in Seq(Searches) /\ Len(Append(line, s)) = Len(line) + 1
      /\ \A i \in 1..Len(line) : Append(line, s)[i] = line[i]
      /\ Append(line, s)[Len(line) + 1] = s
  BY AppendProperties DEF SearchTypes
<1>2. \A i \in 1..Len(line') : i \in 1..Len(line) \/ i = Len(line) + 1
  BY <1>1
<1>3. \A i \in 1..Len(line) : /\ line'[i] = line[i] /\ line[i] # s /\ line[i] \in Searches
                            /\ searches'[line[i]] = searches[line[i]]
  BY <1>1 DEF InLine, Going
<1>4. \A i, j \in 1..Len(line') : line'[i] = line'[j] => i = j
  BY <1>1, <1>2, <1>3 DEF InLine
<1>5. \A i \in 1..Len(line') : searches'[line'[i]].at \in (IF i = 1 THEN Going ELSE {"queued"})
  BY <1>1, <1>2, <1>3 DEF InLine, Going
<1>6. \A t \in Searches : searches'[t].at \in Going =>
         searches'[t].query \in Queries /\ \E i \in 1..Len(line') : line'[i] = t
  <2> SUFFICES ASSUME NEW t \in Searches, searches'[t].at \in Going
               PROVE  searches'[t].query \in Queries /\ \E i \in 1..Len(line') : line'[i] = t
    OBVIOUS
  <2>1. CASE t = s
    <3>1. Len(line) + 1 \in 1..Len(line')
      BY <1>1
    <3>2. QED BY <2>1, <3>1, <1>1
  <2>2. CASE t # s
    <3>1. searches'[t] = searches[t]
      BY <2>2
    <3>2. PICK i \in 1..Len(line) : line[i] = t
      BY <3>1 DEF InLine
    <3>3. i \in 1..Len(line') /\ line'[i] = t
      BY <3>2, <1>1
    <3>4. QED BY <3>1, <3>3 DEF InLine
  <2>3. QED BY <2>1, <2>2
<1>7. QED BY <1>1, <1>4, <1>5, <1>6 DEF InLine

(* What is remembered takes the place of what was kept of the same query, or *)
(* the room that was made.                                                  *)
LEMMA WhatIsRemembered ==
  ASSUME SearchBounds, SearchTypes, CacheIsBounded, NEW query \in Queries, NEW outcome \in Outcomes,
         cache' = Remember(query, outcome), time' = time
  PROVE  cache' \in Seq(Entries) /\ CacheIsBounded'
<1> DEFINE entry == [query |-> query, outcome |-> outcome, until |-> time + Lasts(outcome)]
           there == {i \in DOMAIN Room : Room[i].query = query}
<1>1. entry \in Entries /\ (outcome # "ok" => entry.until <= time + FailureTtl)
      /\ entry.query = query /\ entry.outcome = outcome
  BY DEF Entries, Lasts, SearchBounds, SearchTypes
<1>2. cache \in Seq(Entries) /\ Len(cache) \in Nat /\ DOMAIN cache = 1..Len(cache)
  BY DEF SearchTypes
<1>3. /\ Room \in Seq(Entries) /\ Len(Room) \in Nat /\ Len(Room) + 1 <= CacheLimit
      /\ DOMAIN Room = 1..Len(Room)
      /\ \A i, j \in 1..Len(Room) : Room[i].query = Room[j].query => i = j
      /\ \A i \in 1..Len(Room) : Room[i].outcome # "ok" => Room[i].until <= time + FailureTtl
  <2>1. CASE Len(cache) >= CacheLimit
    <3>1. Room = Tail(cache) /\ cache # <<>>
      BY <2>1, <1>2 DEF Room, SearchBounds
    <3>2. /\ Tail(cache) \in Seq(Entries) /\ Len(Tail(cache)) = Len(cache) - 1
          /\ \A i \in 1..Len(Tail(cache)) : Tail(cache)[i] = cache[i + 1]
      BY <3>1, <1>2, HeadTailProperties
    <3>3. \A i \in 1..Len(Tail(cache)) : i + 1 \in DOMAIN cache
      BY <3>2, <1>2
    <3>4. \A i, j \in 1..Len(Tail(cache)) : Tail(cache)[i].query = Tail(cache)[j].query => i = j
      <4> TAKE i, j \in 1..Len(Tail(cache))
      <4>1. Tail(cache)[i].query = Tail(cache)[j].query => i + 1 = j + 1
        BY <3>2, <3>3 DEF CacheIsBounded
      <4>2. QED BY <4>1, <3>2, <1>2
    <3>5. Len(Tail(cache)) \in Nat /\ Len(Tail(cache)) + 1 <= CacheLimit
          /\ DOMAIN Tail(cache) = 1..Len(Tail(cache))
      BY <3>1, <3>2, <1>2 DEF CacheIsBounded, SearchBounds
    <3>6. \A i \in 1..Len(Tail(cache)) :
             Tail(cache)[i].outcome # "ok" => Tail(cache)[i].until <= time + FailureTtl
      BY <3>2, <3>3 DEF CacheIsBounded
    <3>7. QED BY <3>1, <3>2, <3>4, <3>5, <3>6
  <2>2. CASE ~(Len(cache) >= CacheLimit)
    BY <2>2, <1>2 DEF Room, CacheIsBounded, SearchBounds
  <2>3. QED BY <2>1, <2>2
<1> HIDE DEF entry
<1>4. CASE there = {}
  <2>1. cache' = Append(Room, entry)
    BY <1>4 DEF Remember, entry
  <2>2. /\ Append(Room, entry) \in Seq(Entries) /\ Len(Append(Room, entry)) = Len(Room) + 1
        /\ \A i \in 1..Len(Room) : Append(Room, entry)[i] = Room[i]
        /\ Append(Room, entry)[Len(Room) + 1] = entry
    BY <1>1, <1>3, AppendProperties
  <2>3. DOMAIN cache' = 1..(Len(Room) + 1) /\ Len(cache') <= CacheLimit
    BY <2>1, <2>2, <1>3
  <2>4. \A i \in 1..(Len(Room) + 1) : i \in 1..Len(Room) \/ i = Len(Room) + 1
    BY <1>3
  <2>5. \A i \in 1..Len(Room) : Room[i].query # query
    BY <1>3, <1>4
  <2>6. \A i, j \in DOMAIN cache' : cache'[i].query = cache'[j].query => i = j
    BY <2>1, <2>2, <2>3, <2>4, <2>5, <1>1, <1>3
  <2>7. \A i \in DOMAIN cache' : cache'[i].outcome # "ok" => cache'[i].until <= time' + FailureTtl
    BY <2>1, <2>2, <2>3, <2>4, <1>1, <1>3
  <2>8. QED BY <2>1, <2>2, <2>3, <2>6, <2>7 DEF CacheIsBounded
<1>5. CASE there # {}
  <2>1. cache' = [i \in DOMAIN Room |-> IF i \in there THEN entry ELSE Room[i]]
    BY <1>5 DEF Remember, entry
  <2>2. /\ DOMAIN cache' = 1..Len(Room)
        /\ \A i \in 1..Len(Room) : /\ cache'[i] \in Entries /\ cache'[i].query = Room[i].query
                                 /\ (cache'[i] = Room[i] \/ cache'[i] = entry)
    BY <2>1, <1>1, <1>3
  <2>3. cache' \in Seq(Entries) /\ Len(cache') = Len(Room)
    <3> DEFINE n == Len(Room)
               f == [i \in 1..n |-> IF i \in there THEN entry ELSE Room[i]]
    <3>1. cache' = f /\ n \in Nat
      BY <2>1, <1>3
    <3> HIDE DEF there
    <3>2. f \in [1..n -> Entries]
      BY <1>1, <1>3
    <3> HIDE DEF f, n
    <3>3. f \in Seq(Entries) /\ Len(f) = n
      BY <3>1, <3>2
    <3>4. QED BY <3>1, <3>3 DEF n
  <2>4. Len(cache') <= CacheLimit
    BY <2>3, <1>3 DEF SearchBounds
  <2>5. \A i, j \in DOMAIN cache' : cache'[i].query = cache'[j].query => i = j
    <3> SUFFICES ASSUME NEW i \in 1..Len(Room), NEW j \in 1..Len(Room), cache'[i].query = cache'[j].query
                 PROVE  i = j
      BY <2>2
    <3>1. Room[i].query = Room[j].query
      BY <2>2
    <3>2. QED BY <3>1, <1>3
  <2>6. \A i \in DOMAIN cache' : cache'[i].outcome # "ok" => cache'[i].until <= time' + FailureTtl
    BY <2>2, <1>1, <1>3
  <2>7. QED BY <2>3, <2>4, <2>5, <2>6 DEF CacheIsBounded
<1>6. QED BY <1>4, <1>5

LEMMA SearchInvHolds ==
  ASSUME SearchBounds
  PROVE  SearchInit => SearchInv
<1> SUFFICES ASSUME SearchInit PROVE SearchInv
  OBVIOUS
<1>1. SearchTypes
  BY DEF SearchBounds, SearchInit, SearchTypes, SearchRecords, NoSearch, Entries
<1>2. InLine /\ CallInv /\ CacheIsBounded
  BY DEF SearchBounds, SearchInit, InLine, Going, NoSearch, CallInv, NoCallBy, Called, EngineIsSpaced,
         CacheIsBounded
<1>3. QED BY <1>1, <1>2 DEF SearchInv

(* A search that ends: its turn, if it had one, is written down. *)
LEMMA ASearchEnds ==
  ASSUME SearchBounds, SearchInv, NEW s \in Searches, First(s), searches[s].at \in Going,
         NEW ended \in SearchRecords, ended.at \in {"done", "cancelled"},
         searches' = [searches EXCEPT ![s] = ended], line' = Tail(line),
         lastCallAt' = time \/ (lastCallAt' = lastCallAt /\ searches[s].at # "asking"),
         UNCHANGED <<givenUp, time, calls>>
  PROVE  InLine' /\ CallInv' /\ (cache' \in Seq(Entries) => SearchTypes')
<1> USE DEF SearchInv
<1>1. /\ searches' \in [Searches -> SearchRecords] /\ searches'[s] = ended
      /\ \A t \in Searches : t # s => searches'[t] = searches[t]
  BY DEF SearchTypes
<1>2. InLine' /\ line' \in Seq(Searches)
  BY <1>1, TheFirstLeaves DEF Going
<1>3. lastCallAt' \in 0..MaxSearchTime /\ lastCallAt' <= time /\ lastCallAt <= lastCallAt'
  BY DEF SearchTypes, CallInv
<1>4. \A t \in Searches : searches'[t].at \in {"idle", "queued", "sleep"} => NoCallBy(t)'
  BY <1>1 DEF CallInv, NoCallBy
<1>5. \A c \in calls' : Called(c)'
  <2> TAKE c \in calls'
  <2>1. Called(c) /\ c.search \in Searches /\ c.time \in 0..MaxSearchTime
    BY DEF CallInv, SearchTypes
  <2>2. c.time <= lastCallAt => c.time <= lastCallAt'
    BY <1>3, <2>1 DEF SearchTypes
  <2>3. CASE c.search = s
    BY <2>1, <2>2, <2>3, <1>1 DEF Called
  <2>4. CASE c.search # s
    BY <2>1, <2>2, <2>4, <1>1 DEF Called
  <2>5. QED BY <2>3, <2>4
<1>6. QED BY <1>1, <1>2, <1>3, <1>4, <1>5 DEF SearchTypes, CallInv, EngineIsSpaced

(* A search whose turn it is, and that is due, asks: whoever asked before   *)
(* has left the line and written down when.                                *)
LEMMA ASearchAsks ==
  ASSUME SearchBounds, SearchInv, NEW s \in Searches, First(s), searches[s].at \in {"queued", "sleep"}, IsDue,
         searches' = [searches EXCEPT ![s].at = "asking"],
         calls' = calls \cup {[search |-> s, time |-> time]},
         UNCHANGED <<givenUp, line, lastCallAt, time, cache>>
  PROVE  SearchInv'
<1> USE DEF SearchInv
<1> DEFINE new == [search |-> s, time |-> time]
<1>1. /\ searches' \in [Searches -> SearchRecords]
      /\ searches'[s].at = "asking" /\ searches'[s].query = searches[s].query
      /\ \A t \in Searches : t # s => searches'[t] = searches[t]
  BY DEF SearchTypes, SearchRecords, Going
<1>2. InLine'
  BY <1>1, TheFirstGoesOn DEF Going
<1>3. SearchTypes'
  BY <1>1 DEF SearchTypes
<1>4. \A t \in Searches : searches'[t].at \in {"idle", "queued", "sleep"} => NoCallBy(t)'
  <2> SUFFICES ASSUME NEW t \in Searches, searches'[t].at \in {"idle", "queued", "sleep"} PROVE NoCallBy(t)'
    OBVIOUS
  <2>1. t # s /\ searches'[t] = searches[t]
    BY <1>1
  <2>2. QED BY <2>1 DEF CallInv, NoCallBy
<1>5. \A c \in calls' : Called(c)'
  <2> TAKE c \in calls'
  <2>1. CASE c = new
    BY <2>1, <1>1 DEF Called, SearchTypes
  <2>2. CASE c \in calls
    BY <2>2, <1>1 DEF CallInv, Called, SearchTypes
  <2>3. QED BY <2>1, <2>2
<1>6. \A b \in calls : time >= b.time + Spacing
  <2> TAKE b \in calls
  <2>1. Called(b) /\ b.search \in Searches /\ b.search # s /\ b.time \in 0..MaxSearchTime
    BY DEF CallInv, NoCallBy, SearchTypes
  <2>2. b.time <= lastCallAt
    BY <2>1, OneAsks DEF Called
  <2>3. QED BY <2>1, <2>2 DEF IsDue, SearchTypes, SearchBounds
<1>7. EngineIsSpaced'
  <2> SUFFICES ASSUME NEW a \in calls', NEW b \in calls', a # b
               PROVE  a.time >= b.time + Spacing \/ b.time >= a.time + Spacing
    BY DEF EngineIsSpaced
  <2>1. CASE a \in calls /\ b \in calls
    BY <2>1 DEF CallInv, EngineIsSpaced
  <2>2. CASE a = new /\ b \in calls
    BY <2>2, <1>6
  <2>3. CASE b = new /\ a \in calls
    BY <2>3, <1>6
  <2>4. QED BY <2>1, <2>2, <2>3
<1>8. CacheIsBounded' /\ lastCallAt' <= time'
  BY DEF CacheIsBounded, CallInv
<1>9. QED BY <1>2, <1>3, <1>4, <1>5, <1>7, <1>8 DEF CallInv

(* A search that calls nobody: it joins the line, sleeps, or is over before *)
(* it was in the line.                                                     *)
LEMMA ASearchStepsAside ==
  ASSUME SearchInv, NEW s \in Searches, searches[s].at \in {"idle", "queued"},
         NEW next \in SearchRecords, next.at \in {"queued", "sleep", "done", "cancelled"},
         searches' = [searches EXCEPT ![s] = next],
         InLine', line' \in Seq(Searches), UNCHANGED <<givenUp, lastCallAt, time, cache, calls>>
  PROVE  SearchInv'
<1> USE DEF SearchInv
<1>1. /\ searches' \in [Searches -> SearchRecords] /\ searches'[s] = next
      /\ \A t \in Searches : t # s => searches'[t] = searches[t]
  BY DEF SearchTypes
<1>2. NoCallBy(s)
  BY DEF CallInv
<1>3. \A t \in Searches : searches'[t].at \in {"idle", "queued", "sleep"} => NoCallBy(t)'
  BY <1>1, <1>2 DEF CallInv, NoCallBy
<1>4. \A c \in calls' : Called(c)'
  BY <1>1, <1>2 DEF CallInv, NoCallBy, Called, SearchTypes
<1>5. QED BY <1>1, <1>3, <1>4 DEF SearchTypes, CallInv, EngineIsSpaced, CacheIsBounded

LEMMA SearchInvStep ==
  ASSUME SearchBounds
  PROVE  SearchInv /\ [SearchNext]_searchVars => SearchInv'
<1> SUFFICES ASSUME SearchInv, [SearchNext]_searchVars PROVE SearchInv'
  OBVIOUS
<1> USE DEF SearchInv
<1>1. ASSUME NEW s \in Searches, NEW query \in Queries, Search(s, query) PROVE SearchInv'
  <2>1. searches[s].at = "idle" /\ searches[s] \in SearchRecords /\ searches[s].at \notin Going
        /\ UNCHANGED <<givenUp, lastCallAt, time, cache, calls>>
    BY <1>1 DEF Search, SearchTypes, Going
  <2>2. ASSUME NEW next \in SearchRecords, next.at \in {"done", "cancelled"},
               searches' = [searches EXCEPT ![s] = next], line' = line
        PROVE  SearchInv'
    <3>1. \A t \in Searches : searches'[t] = IF t = s THEN next ELSE searches[t]
      BY <2>2 DEF SearchTypes
    <3>2. InLine' /\ line' \in Seq(Searches)
      BY <2>1, <2>2, <3>1 DEF InLine, Going, SearchTypes
    <3>3. QED BY <2>1, <2>2, <3>2, ASearchStepsAside
  <2>3. \A outcome \in Outcomes : [query |-> query, at |-> "done", outcome |-> outcome] \in SearchRecords
    BY DEF SearchRecords
  <2>4. \A i \in DOMAIN cache : cache[i].outcome \in Outcomes
    <3>1. \A i \in DOMAIN cache : cache[i] \in Entries
      BY DEF SearchTypes
    <3>2. QED BY <3>1 DEF Entries
  <2>5. CASE searches' = [searches EXCEPT ![s].at = "cancelled"] /\ UNCHANGED line
    <3>1. [searches[s] EXCEPT !.at = "cancelled"] \in SearchRecords
      BY <2>1 DEF SearchRecords
    <3>2. QED BY <3>1, <2>1, <2>2, <2>5 DEF SearchRecords
  <2>6. CASE (\E outcome \in Outcomes : Finishes(s, query, outcome)) /\ UNCHANGED line
    BY <2>2, <2>3, <2>6 DEF Finishes
  <2>7. CASE /\ searches' = [searches EXCEPT ![s] = [NoSearch EXCEPT !.query = query, !.at = "queued"]]
             /\ line' = Append(line, s)
    <3> DEFINE next == [NoSearch EXCEPT !.query = query, !.at = "queued"]
    <3>1. next \in SearchRecords /\ next.at = "queued" /\ next.query = query
      BY DEF NoSearch, SearchRecords, Going
    <3> HIDE DEF next
    <3>2. \A t \in Searches : searches'[t] = IF t = s THEN next ELSE searches[t]
      BY <2>7 DEF SearchTypes, next
    <3>3. InLine' /\ line' \in Seq(Searches)
      BY <2>1, <2>7, <3>1, <3>2, AnotherJoins
    <3>4. QED BY <2>1, <2>7, <3>1, <3>3, ASearchStepsAside DEF next
  <2>8. \/ searches' = [searches EXCEPT ![s].at = "cancelled"] /\ UNCHANGED line
        \/ (\E outcome \in Outcomes : Finishes(s, query, outcome)) /\ UNCHANGED line
        \/ /\ searches' = [searches EXCEPT ![s] = [NoSearch EXCEPT !.query = query, !.at = "queued"]]
           /\ line' = Append(line, s)
    <3>1. "ok" \in Outcomes /\ "unavailable" \in Outcomes
      BY DEF Outcomes
    <3>2. QED BY <1>1, <2>4, <3>1, Zenon DEF Search, At
  <2>9. QED BY <2>5, <2>6, <2>7, <2>8
<1>2. ASSUME NEW s \in Searches, searches[s].at \in {"queued", "sleep", "asking"}, First(s), Leaves(s),
             lastCallAt' = time \/ (lastCallAt' = lastCallAt /\ searches[s].at # "asking"),
             UNCHANGED <<givenUp, time, cache, calls>>
      PROVE  SearchInv'
  <2> DEFINE ended == [searches[s] EXCEPT !.at = "cancelled"]
  <2>1. ended \in SearchRecords /\ ended.at = "cancelled"
    BY DEF SearchTypes, SearchRecords
  <2>2. searches' = [searches EXCEPT ![s] = ended] /\ line' = Tail(line)
    BY <1>2 DEF Leaves
  <2> HIDE DEF ended
  <2>3. InLine' /\ CallInv' /\ SearchTypes'
    BY <1>2, <2>1, <2>2, ASearchEnds DEF Going, SearchTypes
  <2>4. CacheIsBounded'
    BY <1>2 DEF CacheIsBounded
  <2>5. QED BY <2>3, <2>4
<1>3. ASSUME NEW s \in Searches, TurnOf(s) PROVE SearchInv'
  <2>1. CASE searches' = [searches EXCEPT ![s].at = "sleep"] /\ UNCHANGED <<line, lastCallAt, calls>>
    <3> DEFINE next == [searches[s] EXCEPT !.at = "sleep"]
    <3>1. next \in SearchRecords /\ next.at = "sleep" /\ next.query = searches[s].query
      BY DEF SearchTypes, SearchRecords, Going
    <3> HIDE DEF next
    <3>2. searches' = [searches EXCEPT ![s] = next]
      BY <2>1 DEF next
    <3>3. \A t \in Searches : searches'[t] = IF t = s THEN next ELSE searches[t]
      BY <3>2 DEF SearchTypes
    <3>4. InLine' /\ line' \in Seq(Searches)
      BY <1>3, <2>1, <3>1, <3>3, TheFirstGoesOn DEF TurnOf, SearchTypes, Going
    <3>5. QED BY <1>3, <2>1, <3>1, <3>2, <3>4, ASearchStepsAside DEF TurnOf
  <2>2. QED BY <1>2, <1>3, <2>1, ASearchAsks DEF TurnOf
<1>4. ASSUME NEW s \in Searches, Sleeps(s) PROVE SearchInv'
  <2>1. First(s)
    BY <1>4, TheFirstAsks DEF Sleeps
  <2>2. QED BY <1>2, <1>4, <2>1, ASearchAsks DEF Sleeps
<1>5. ASSUME NEW s \in Searches, Throws(s) PROVE SearchInv'
  <2>1. First(s)
    BY <1>5, TheFirstAsks DEF Throws
  <2>2. QED BY <1>2, <1>5, <2>1 DEF Throws
<1>6. ASSUME NEW s \in Searches, Abort(s) PROVE SearchInv'
  BY <1>6 DEF Abort, SearchTypes, InLine, CallInv, NoCallBy, Called, EngineIsSpaced, CacheIsBounded
<1>7. ASSUME NEW s \in Searches, NEW outcome \in Outcomes, EngineAnswers(s, outcome) PROVE SearchInv'
  <2> DEFINE ended == [query |-> searches[s].query, at |-> "done", outcome |-> outcome]
  <2>1. searches[s].at = "asking" /\ searches[s].at \in Going /\ First(s) /\ searches[s].query \in Queries
    BY <1>7, TheFirstAsks DEF EngineAnswers, InLine, Going
  <2>2. ended \in SearchRecords /\ ended.at = "done"
    BY <2>1 DEF SearchRecords
  <2>3. searches' = [searches EXCEPT ![s] = ended] /\ line' = Tail(line) /\ lastCallAt' = time
        /\ UNCHANGED <<givenUp, time, calls>> /\ cache' = Remember(searches[s].query, outcome)
    BY <1>7 DEF EngineAnswers, Finishes
  <2> HIDE DEF ended
  <2>4. cache' \in Seq(Entries) /\ CacheIsBounded'
    BY <2>1, <2>3, WhatIsRemembered
  <2>5. QED BY <2>1, <2>2, <2>3, <2>4, ASearchEnds
<1>8. ASSUME TimePasses PROVE SearchInv'
  <2>1. time' \in 0..MaxSearchTime /\ time <= time' /\ time \in Nat
        /\ UNCHANGED <<searches, givenUp, line, lastCallAt, cache, calls>>
    BY <1>8 DEF TimePasses, SearchTypes, SearchBounds
  <2>2. SearchTypes' /\ InLine'
    BY <2>1 DEF SearchTypes, InLine
  <2>3. CallInv'
    BY <2>1 DEF SearchTypes, CallInv, NoCallBy, Called, EngineIsSpaced
  <2>4. CacheIsBounded'
    <3>1. \A i \in DOMAIN cache : cache[i] \in Entries
      BY DEF SearchTypes
    <3>3. \A i \in DOMAIN cache : cache[i].until \in Nat
      BY <3>1 DEF Entries
    <3>4. QED BY <2>1, <3>3 DEF CacheIsBounded, SearchBounds
  <2>5. QED BY <2>2, <2>3, <2>4
<1>9. ASSUME UNCHANGED searchVars PROVE SearchInv'
  BY <1>9 DEF searchVars, SearchTypes, InLine, CallInv, NoCallBy, Called, EngineIsSpaced, CacheIsBounded
<1>10. QED BY <1>1, <1>3, <1>4, <1>5, <1>6, <1>7, <1>8, <1>9, SearchCases

(* Whatever is cancelled, fails or is answered from the cache, the engine is *)
(* asked one query at a time and spaced, and whoever waits waits behind a   *)
(* query that is still being made (spaced of effects/search.ts).            *)
THEOREM TheEngineIsAskedInTurn ==
  ASSUME SearchBounds
  PROVE  SearchInit /\ [][SearchNext]_searchVars => [](EngineIsSpaced /\ TheLineMoves)
<1>1. SearchInv => EngineIsSpaced /\ TheLineMoves
  BY DEF SearchInv, SearchTypes, InLine, CallInv, TheLineMoves
<1>2. QED BY <1>1, SearchInvHolds, SearchInvStep, PTL

(* What is kept of the queries stays within its limit, one entry a query,  *)
(* and no failure longer than its time (remember of effects/search.ts).    *)
THEOREM WhatIsKeptOfQueriesIsBounded ==
  ASSUME SearchBounds
  PROVE  SearchInit /\ [][SearchNext]_searchVars => []CacheIsBounded
<1>1. SearchInv => CacheIsBounded
  BY DEF SearchInv
<1>2. QED BY <1>1, SearchInvHolds, SearchInvStep, PTL

-----------------------------------------------------------------------------
(***************************************************************************)
(* The facts of an offer, whatever its board and the models say and in     *)
(* whatever order it is listed, read, analysed and decided on.  What is    *)
(* stated is always something the board said, and what is to be the        *)
(* board's is laid over what a model answered last.                        *)
(***************************************************************************)

(* Every step is one of the actions; stated once for what follows. *)
LEMMA OfferCases ==
  ASSUME NEW Goal, [OfferNext]_offerVars,
         \A k \in DOMAIN Pages : Ingest(k) => Goal,
         ReadPage => Goal, Analyse => Goal, Decide => Goal,
         \A run \in runs : Complete(run) => Goal,
         \A run \in runs : AnalysisFails(run) => Goal,
         UNCHANGED offerVars => Goal
  PROVE  Goal
BY DEF OfferNext

(* Facts are a function of Fields. *)
IsFacts(x) == x = [f \in Fields |-> x[f]]

Ranges == {"", "one", "two"}
Offers == [stored : BOOLEAN, text : Nat, processing : {"candidate", "fetched"},
           disposition : {"active", "dismissed", "applied"}, ranges : Ranges, enriched : BOOLEAN]

OfferTypes ==
  /\ offer \in Offers
  /\ IsFacts(facts) /\ IsFacts(stated) /\ IsFacts(analysis)
  /\ IsFacts(listing.says) /\ listing.ranges \in Ranges /\ listing.at \in Nat
  /\ source \in [Fields -> {"", "board", "ai"}]
  /\ \A run \in runs : IsFacts(run.stated)
  /\ done \in [pages : SUBSET Nat, reads : Nat, analyses : Nat, decisions : Nat]

(* The counts are numbers. *)
LEMMA CountsAreNumbers ==
  ASSUME OfferTypes
  PROVE  done.reads \in Nat /\ done.analyses \in Nat /\ done.decisions \in Nat /\ listing.at \in Nat
BY DEF OfferTypes

LEMMA CountsGrow ==
  ASSUME NEW n \in Nat
  PROVE  n + 1 \in Nat /\ n + 1 # n /\ 10 + n \in Nat /\ n >= n
OBVIOUS

(* Without a range that was published, the line that is stated is what is read. *)
LEMMA NothingIsCounted ==
  Count("") # 1 /\ Count("") # 2
<1>1. Count("") = 0
  BY DEF Count
<1> HIDE DEF Count
<1>2. 0 # 1 /\ 0 # 2
  OBVIOUS
<1>3. QED BY <1>1, <1>2, Zenon

LEMMA AStatedLineIsRead ==
  ASSUME NEW board, NEW row, board # ""
  PROVE  Reading(board, "", row) = Readings[board]
BY NothingIsCounted DEF Reading

LEMMA PublishedOnce ==
  /\ \A v : PublishedContract(v) \in {"", "B2B", "UoP"}
  /\ \A v \in {"", "B2B", "UoP"} : PublishedContract(v) = v
BY DEF PublishedContract

(* The operators on facts make facts. *)
LEMMA FactsOfFacts ==
  ASSUME NEW a, NEW b
  PROVE  /\ IsFacts(Over(a, b))
         /\ \A f \in Fields : Over(a, b)[f] = IF b[f] # "" THEN b[f] ELSE a[f]
BY DEF Over, Or, IsFacts

LEMMA OverridesAreFacts ==
  ASSUME NEW read, NEW board
  PROVE  /\ IsFacts(Overrides(read, board))
         /\ \A f \in {"company", "salary"} :
              Overrides(read, board)[f] = IF board[f] # read[f] THEN board[f] ELSE ""
         /\ Overrides(read, board)["contract"] =
              IF PublishedContract(board["contract"]) # read["contract"]
              THEN PublishedContract(board["contract"]) ELSE ""
         /\ Overrides(read, board)["mode"] =
              IF board["mode"] \in Modes /\ board["mode"] # read["mode"] THEN board["mode"] ELSE ""
BY DEF Overrides, IsFacts, Fields

LEMMA ResultsAreFacts ==
  ASSUME NEW read, NEW board
  PROVE  IsFacts(Result(read, board))
BY DEF Result, IsFacts

LEMMA RepliesAreFacts ==
  ASSUME NEW replies, NEW answer
  PROVE  IsFacts(ReadBy(replies, answer))
BY DEF ReadBy, IsFacts

(* What boards say are facts. *)
LEMMA PagesAreFacts ==
  ASSUME FactsAreStated
  PROVE  /\ \A k \in DOMAIN Pages : \A page \in Pages[k] : IsFacts(page.says) /\ page.ranges \in Ranges
         /\ \A page \in Sources : IsFacts(page.says) /\ page.ranges \in Ranges
BY DEF FactsAreStated, IsFacts, Ranges

(* What a board said of a field. *)
FromBoard(f, v) == v = "" \/ v \in BoardSays(f)

LEMMA BoardsWords ==
  ASSUME NEW f \in Fields
  PROVE  /\ \A k \in DOMAIN Pages : \A page \in Pages[k] :
              page.says[f] \in Said(f) /\ PublishedContract(page.says[f]) \in BoardSays(f)
         /\ \A page \in Sources :
              page.says[f] \in Said(f) /\ PublishedContract(page.says[f]) \in BoardSays(f)
         /\ Said(f) \subseteq BoardSays(f)
         /\ \A v \in Said(f) : PublishedContract(v) \in BoardSays(f)
<1>1. \A k \in DOMAIN Pages : \A page \in Pages[k] : page \in (UNION Range(Pages)) \cup Sources
  BY DEF Range
<1>2. \A page \in (UNION Range(Pages)) \cup Sources : page.says[f] \in Said(f)
  BY DEF Said
<1>3. QED BY <1>1, <1>2 DEF BoardSays

BoardsAreQuoted ==
  /\ \A f \in Fields : FromBoard(f, stated[f])
  /\ \A f \in Fields : listing.says[f] = "" \/ listing.says[f] \in Said(f)
  /\ stated.contract \in {"", "B2B", "UoP"}
  /\ stated.salary = "" \/ Present(stated.salary)

OfferInv == OfferTypes /\ BoardsAreQuoted /\ ProvenanceIsTrueOfMost

LEMMA OfferInvHolds ==
  OfferInit => OfferInv
<1> SUFFICES ASSUME OfferInit PROVE OfferInv
  OBVIOUS
<1>1. IsFacts(None) /\ \A f \in Fields : None[f] = ""
  BY DEF None, IsFacts
<1>2. OfferTypes
  <2>1. source \in [Fields -> {"", "board", "ai"}]
    BY DEF OfferInit, None
  <2>2. QED BY <1>1, <2>1 DEF OfferInit, OfferTypes, Offers, Ranges
<1>3. BoardsAreQuoted
  BY <1>1 DEF OfferInit, BoardsAreQuoted, FromBoard, Fields
<1>4. ProvenanceIsTrueOfMost
  BY <1>1 DEF OfferInit, ProvenanceIsTrueOfMost, BoardsOwn
<1>5. QED BY <1>2, <1>3, <1>4 DEF OfferInv

(* What a page states now is facts, each of them something the board said. *)
LEMMA StatedNowIsQuoted ==
  ASSUME FactsAreStated, OfferTypes, BoardsAreQuoted, NEW page \in Sources
  PROVE  /\ IsFacts(StatedNow(page))
         /\ \A f \in Fields : FromBoard(f, StatedNow(page)[f])
         /\ StatedNow(page).contract \in {"", "B2B", "UoP"}
         /\ StatedNow(page).salary = "" \/ Present(StatedNow(page).salary)
<1> DEFINE listed == [f \in Fields |-> IF f \in {"company", "salary", "location"} /\ Present(listing.says[f])
                                       THEN listing.says[f] ELSE ""]
           seen == [f \in Fields |-> IF Present(page.says[f]) THEN page.says[f] ELSE ""]
           there == Over(Over(listed, stated), seen)
           kept == [f \in Fields |-> IF f \in page.denies THEN "" ELSE there[f]]
           contract == Or(PublishedContract(page.says.contract),
                          Or(PublishedContract(stated.contract), PublishedContract(listing.says.contract)))
<1>1. IsFacts(kept)
  BY DEF IsFacts
<1>2. \A f \in Fields :
         there[f] = IF seen[f] # "" THEN seen[f] ELSE IF stated[f] # "" THEN stated[f] ELSE listed[f]
  <2> HIDE DEF seen, listed
  <2>1. \A f \in Fields : Over(listed, stated)[f] = IF stated[f] # "" THEN stated[f] ELSE listed[f]
    BY FactsOfFacts
  <2>2. \A f \in Fields : there[f] = IF seen[f] # "" THEN seen[f] ELSE Over(listed, stated)[f]
    BY FactsOfFacts
  <2>3. QED BY <2>1, <2>2
<1>3. "contract" \in Fields /\ "salary" \in Fields
  BY DEF Fields
<1>4. \A f \in Fields : FromBoard(f, page.says[f]) /\ FromBoard(f, listing.says[f]) /\ FromBoard(f, stated[f])
  BY BoardsWords DEF BoardsAreQuoted, FromBoard
<1>5. \A f \in Fields : kept[f] \in {"", page.says[f], listing.says[f], stated[f]}
  BY <1>2
<1>6. contract \in {"", "B2B", "UoP"} /\ FromBoard("contract", contract)
  <2>1. \A v : PublishedContract(v) \in {"", "B2B", "UoP"}
    BY DEF PublishedContract
  <2>2. FromBoard("contract", PublishedContract(page.says.contract))
    BY <1>3, BoardsWords DEF FromBoard
  <2>3. FromBoard("contract", PublishedContract(listing.says.contract))
    BY <1>3, BoardsWords DEF FromBoard, BoardsAreQuoted, PublishedContract
  <2>4. FromBoard("contract", PublishedContract(stated.contract))
    BY <1>3 DEF FromBoard, BoardsAreQuoted, PublishedContract
  <2>5. QED BY <2>1, <2>2, <2>3, <2>4 DEF Or
<1>7. kept.salary = "" \/ Present(kept.salary)
  <2>1. \A f \in Fields : (seen[f] = "" \/ Present(seen[f])) /\ (listed[f] = "" \/ Present(listed[f]))
    OBVIOUS
  <2>2. stated["salary"] = "" \/ Present(stated["salary"])
    BY DEF BoardsAreQuoted
  <2>3. there["salary"] = "" \/ Present(there["salary"])
    BY <2>1, <2>2, <1>2, <1>3
  <2>4. kept["salary"] \in {"", there["salary"]}
    BY <1>3
  <2>5. QED BY <2>3, <2>4
<1>8. StatedNow(page) = [kept EXCEPT !.contract = contract]
  BY DEF StatedNow
<1> HIDE DEF kept, contract
<1>9. /\ IsFacts(StatedNow(page)) /\ StatedNow(page).contract = contract
      /\ \A f \in Fields \ {"contract"} : StatedNow(page)[f] = kept[f]
  BY <1>1, <1>3, <1>6, <1>8 DEF IsFacts
<1>10. \A f \in Fields : FromBoard(f, StatedNow(page)[f])
  BY <1>4, <1>5, <1>6, <1>9 DEF FromBoard
<1>11. QED BY <1>6, <1>7, <1>9, <1>10 DEF Fields

(* What a step may never do, of the three kinds the runs check. *)
Upholds == DecisionStands /\ ReadingsStand /\ BoardIsHeard

(* A page of a list is filed: the columns change, who stated what of the    *)
(* analysis does not.                                                       *)
LEMMA AListIsFiled ==
  ASSUME FactsAreStated, OfferInv, NEW k \in DOMAIN Pages, Ingest(k)
  PROVE  OfferInv' /\ Upholds
<1> USE DEF OfferInv
<1>1. k \in Nat /\ done.pages \subseteq Nat /\ k \notin done.pages
      /\ done' = [done EXCEPT !.pages = @ \cup {k}] /\ UNCHANGED <<analysis, source, runs>>
  BY DEF FactsAreStated, OfferTypes, Ingest
<1>2. /\ done' \in [pages : SUBSET Nat, reads : Nat, analyses : Nat, decisions : Nat]
      /\ done'.reads = done.reads /\ done'.pages = done.pages \cup {k}
  BY <1>1 DEF OfferTypes
<1>3. BoardIsHeard
  BY <1>1, <1>2 DEF BoardIsHeard
<1>4. CASE ~Newest(k)
  <2>1. UNCHANGED <<offer, facts, numbers, stated, listing>>
    BY <1>4 DEF Ingest
  <2>2. OfferInv'
    BY <1>1, <1>2, <2>1 DEF OfferTypes, BoardsAreQuoted, FromBoard, ProvenanceIsTrueOfMost, BoardsOwn
  <2>3. DecisionStands /\ ReadingsStand
    <3>1. listing'.at >= listing.at
      BY <2>1, CountsAreNumbers, CountsGrow
    <3>2. QED BY <2>1, <3>1 DEF DecisionStands, ReadingsStand
  <2>4. QED BY <2>2, <2>3, <1>3 DEF Upholds
<1>5. CASE Newest(k)
  <2>1. PICK page \in Pages[k] :
          LET detailed == Detailed(page)
          IN /\ offer' = [offer EXCEPT !.stored = TRUE,
                             !.text = IF page.whole THEN k ELSE @,
                             !.ranges = IF detailed THEN Or(@, page.ranges) ELSE Or(page.ranges, @),
                             !.enriched = @ \/ page.whole]
             /\ facts' = SightedFacts(page, detailed)
             /\ stated' = SightedStated(page, detailed)
             /\ listing' = [says |-> Over(listing.says, page.says),
                            ranges |-> Or(page.ranges, listing.ranges), at |-> k]
    BY <1>5, Zenon DEF Ingest
  <2>2. page.ranges \in Ranges /\ page.whole \in BOOLEAN
    BY DEF FactsAreStated, Ranges
  <2>3. /\ offer' \in Offers /\ offer'.disposition = offer.disposition
        /\ offer'.processing = offer.processing
        /\ offer'.text = IF page.whole THEN k ELSE offer.text
    BY <1>1, <2>1, <2>2 DEF OfferTypes, Offers, Ranges, Or
  <2>4. IsFacts(facts') /\ IsFacts(stated')
    BY <2>1, FactsOfFacts DEF SightedFacts, SightedStated
  <2>5. /\ listing'.says = Over(listing.says, page.says) /\ listing'.at = k /\ IsFacts(listing'.says)
        /\ listing'.ranges \in Ranges
    BY <2>1, <2>2, FactsOfFacts DEF OfferTypes, Or, Ranges
  <2>6. OfferTypes'
    BY <1>1, <1>2, <2>3, <2>4, <2>5 DEF OfferTypes
  <2>7. \A f \in Fields : listing'.says[f] = "" \/ listing'.says[f] \in Said(f)
    <3> TAKE f \in Fields
    <3>1. Over(listing.says, page.says)[f] \in {listing.says[f], page.says[f]}
      BY DEF Over, Or
    <3>2. page.says[f] \in Said(f)
      BY BoardsWords
    <3>3. QED BY <2>5, <3>1, <3>2 DEF BoardsAreQuoted
  <2>8. DEFINE published == Only([page.says EXCEPT !.contract = PublishedContract(@)], {"contract", "mode"})
  <2>9. /\ \A f \in Fields : FromBoard(f, published[f])
        /\ published["contract"] \in {"", "B2B", "UoP"} /\ published["salary"] = ""
    <3>1. IsFacts(page.says)
      BY PagesAreFacts
    <3>2. DOMAIN page.says = Fields
      BY <3>1 DEF IsFacts
    <3>3. /\ published["contract"] = PublishedContract(page.says["contract"]) /\ published["mode"] = page.says["mode"]
          /\ \A f \in Fields \ {"contract", "mode"} : published[f] = ""
      BY <3>2 DEF Only, Fields
    <3>4. FromBoard("contract", published["contract"]) /\ FromBoard("mode", published["mode"])
      BY <3>3, BoardsWords DEF FromBoard, Fields
    <3>5. QED BY <3>3, <3>4 DEF FromBoard, PublishedContract, Fields
  <2> HIDE DEF published
  <2>10. \A f \in Fields : stated'[f] \in {stated[f], published[f]}
    <3>1. stated' = Over(published, stated) \/ stated' = Over(stated, published)
      BY <2>1 DEF SightedStated, published
    <3>2. \A f \in Fields : Over(published, stated)[f] \in {stated[f], published[f]}
      BY DEF Over, Or
    <3>3. \A f \in Fields : Over(stated, published)[f] \in {stated[f], published[f]}
      BY DEF Over, Or
    <3>4. QED BY <3>1, <3>2, <3>3
  <2>11. stated'["salary"] \in {"", stated["salary"]}
    BY <2>9, <2>10 DEF Fields
  <2>12. BoardsAreQuoted'
    BY <2>7, <2>9, <2>10, <2>11 DEF BoardsAreQuoted, FromBoard, Fields
  <2>13. ProvenanceIsTrueOfMost'
    BY <1>1 DEF ProvenanceIsTrueOfMost, BoardsOwn
  <2>14. DecisionStands /\ ReadingsStand
    BY <1>1, <1>2, <1>5, <2>3, <2>5 DEF DecisionStands, ReadingsStand, Newest
  <2>15. QED BY <2>6, <2>12, <2>13, <2>14, <1>3 DEF Upholds
<1>6. QED BY <1>4, <1>5

(* A page is read: what it states is laid over everything. *)
LEMMA APageIsRead ==
  ASSUME FactsAreStated, OfferInv, ReadPage
  PROVE  OfferInv' /\ Upholds
<1> USE DEF OfferInv
<1>1. PICK page \in Sources :
        LET now == StatedNow(page) over == Overrides(None, now) ranges == RangesNow(page)
        IN /\ stated' = now
           /\ offer' = [offer EXCEPT !.text = 10 + done.reads, !.processing = "fetched",
                                     !.ranges = ranges, !.enriched = TRUE]
           /\ facts' = [Over(facts, now) EXCEPT
                          !.contract = Or(over.contract, facts.contract),
                          !.mode = IF now.mode \in Modes THEN now.mode ELSE facts.mode]
           /\ numbers' = Reading(now.salary, ranges, numbers)
           /\ analysis' = Over(analysis, over)
           /\ source' = [f \in Fields |-> IF over[f] # "" THEN "board" ELSE source[f]]
  BY DEF ReadPage
<1> DEFINE now == StatedNow(page)
           over == Overrides(None, now)
<1>2. /\ IsFacts(now) /\ \A f \in Fields : FromBoard(f, now[f])
      /\ now["contract"] \in {"", "B2B", "UoP"}
      /\ now["salary"] = "" \/ Present(now["salary"])
  BY StatedNowIsQuoted
<1>3. /\ IsFacts(over)
      /\ over["company"] = now["company"] /\ over["salary"] = now["salary"]
      /\ over["contract"] = now["contract"]
      /\ over["mode"] = IF now["mode"] \in Modes /\ now["mode"] # "" THEN now["mode"] ELSE ""
  <2>1. None["company"] = "" /\ None["salary"] = "" /\ None["contract"] = "" /\ None["mode"] = ""
    BY DEF None, Fields
  <2> HIDE DEF now
  <2>2. PublishedContract(now["contract"]) = now["contract"]
    BY <1>2, PublishedOnce
  <2>3. /\ IsFacts(over)
        /\ \A f \in {"company", "salary"} :
             over[f] = IF now[f] # None[f] THEN now[f] ELSE ""
        /\ over["contract"] =
             IF PublishedContract(now["contract"]) # None["contract"]
             THEN PublishedContract(now["contract"]) ELSE ""
        /\ over["mode"] =
             IF now["mode"] \in Modes /\ now["mode"] # None["mode"] THEN now["mode"] ELSE ""
    BY DEF Overrides, IsFacts, Fields
  <2> HIDE DEF over
  <2>4. QED BY <2>1, <2>2, <2>3
<1> HIDE DEF now, over
<1>4. /\ stated' = now
      /\ offer' = [offer EXCEPT !.text = 10 + done.reads, !.processing = "fetched",
                                !.ranges = RangesNow(page), !.enriched = TRUE]
      /\ numbers' = Reading(now.salary, RangesNow(page), numbers)
      /\ analysis' = Over(analysis, over)
      /\ source' = [f \in Fields |-> IF over[f] # "" THEN "board" ELSE source[f]]
  BY <1>1 DEF now, over
<1>5. facts' = [Over(facts, now) EXCEPT
                 !.contract = Or(over.contract, facts.contract),
                 !.mode = IF now.mode \in Modes THEN now.mode ELSE facts.mode]
  BY <1>1 DEF now, over
<1>6. done' = [done EXCEPT !.reads = @ + 1] /\ UNCHANGED <<listing, runs>>
  BY DEF ReadPage
<1>7. RangesNow(page) \in Ranges
  BY PagesAreFacts DEF RangesNow, OfferTypes, Offers, Ranges, Or
<1>8. /\ offer' \in Offers /\ offer'.disposition = offer.disposition
      /\ offer'.processing = "fetched" /\ offer'.ranges = RangesNow(page)
  <2>1. 10 + done.reads \in Nat
    BY CountsAreNumbers, CountsGrow
  <2>2. QED BY <2>1, <1>4, <1>7 DEF OfferTypes, Offers
<1>9. /\ IsFacts(facts')
      /\ facts'["company"] = Or(now["company"], facts["company"])
      /\ facts'["salary"] = Or(now["salary"], facts["salary"])
      /\ facts'["contract"] = Or(now["contract"], facts["contract"])
      /\ facts'["mode"] = IF now["mode"] \in Modes THEN now["mode"] ELSE facts["mode"]
  <2>1. DOMAIN Over(facts, now) = Fields
    BY DEF Over
  <2>2. \A f \in Fields : Over(facts, now)[f] = Or(now[f], facts[f])
    BY DEF Over
  <2>3. QED BY <1>3, <1>5, <2>1, <2>2 DEF IsFacts, Fields
<1>10. source' \in [Fields -> {"", "board", "ai"}]
  BY <1>4 DEF OfferTypes
<1>11. done' \in [pages : SUBSET Nat, reads : Nat, analyses : Nat, decisions : Nat]
       /\ done'.reads = done.reads + 1 /\ done'.reads # done.reads /\ done'.pages = done.pages
  <2>1. done.reads \in Nat /\ done.reads + 1 \in Nat /\ done.reads + 1 # done.reads
    BY CountsAreNumbers, CountsGrow
  <2>2. QED BY <2>1, <1>6 DEF OfferTypes
<1>12. OfferTypes'
  BY <1>2, <1>4, <1>6, <1>8, <1>9, <1>10, <1>11, FactsOfFacts DEF OfferTypes
<1>13. BoardsAreQuoted'
  BY <1>2, <1>4, <1>6 DEF BoardsAreQuoted, FromBoard
<1>14. ProvenanceIsTrueOfMost'
  <2> SUFFICES ASSUME NEW f \in {"company", "salary", "contract", "mode"}, source'[f] = "board"
               PROVE  analysis'[f] \in BoardSays(f)
    BY DEF ProvenanceIsTrueOfMost, BoardsOwn, Fields
  <2>1. f \in Fields
    BY DEF Fields
  <2>2. analysis'[f] = IF over[f] # "" THEN over[f] ELSE analysis[f]
    <3>1. Over(analysis, over)[f] = IF over[f] # "" THEN over[f] ELSE analysis[f]
      BY <2>1 DEF Over, Or
    <3>2. QED BY <3>1, <1>4
  <2>3. over[f] \in {"", now[f]}
    BY <1>3
  <2>4. CASE over[f] # ""
    BY <2>1, <2>2, <2>3, <2>4, <1>2 DEF FromBoard
  <2>5. CASE over[f] = ""
    BY <2>1, <2>2, <2>5, <1>4 DEF ProvenanceIsTrueOfMost, BoardsOwn, Fields
  <2>6. QED BY <2>4, <2>5
<1>15. BoardIsHeard
  <2>1. \A f \in {"company", "salary", "contract"} : Present(stated'[f]) => facts'[f] = stated'[f]
    BY <1>4, <1>9 DEF Present, Or
  <2>2. stated'.mode \in Modes \ {"unknown"} => facts'.mode = stated'.mode
    BY <1>4, <1>9
  <2>3. stated'.salary # "" /\ offer'.ranges = "" => numbers' = Readings[stated'.salary]
    <3>1. \A v : v # "" => Reading(v, "", numbers) = Readings[v]
      BY AStatedLineIsRead
    <3>2. QED BY <3>1, <1>4, <1>8
  <2>4. QED BY <2>1, <2>2, <2>3 DEF BoardIsHeard
<1>16. DecisionStands /\ ReadingsStand
  <2>1. listing'.at >= listing.at
    BY <1>6, CountsAreNumbers, CountsGrow
  <2>2. QED BY <2>1, <1>8, <1>11 DEF DecisionStands, ReadingsStand
<1>17. QED BY <1>12, <1>13, <1>14, <1>15, <1>16 DEF Upholds

(* What is stored of an analysis: where the board states a field, its words, *)
(* and where the field is to be the board's, words it stated.                *)
LEMMA AnalysedIsTheBoards ==
  ASSUME OfferTypes, BoardsAreQuoted, ProvenanceIsTrueOfMost, NEW said
  PROVE  /\ IsFacts(Analysed(said).of)
         /\ \A f \in {"company", "salary", "contract"} : Present(stated[f]) => Analysed(said).of[f] = stated[f]
         /\ stated["mode"] \in Modes => Analysed(said).of["mode"] = stated["mode"]
         /\ \A f \in Fields \ {"location"} :
              f \in Analysed(said).board \/ (Analysed(said).extracted[f] = "" /\ source[f] = "board")
                => Analysed(said).of[f] \in BoardSays(f)
<1> DEFINE extracted == [f \in Fields |-> IF Present(said[f]) THEN said[f] ELSE ""]
           read == Over(analysis, extracted)
           listed == [read EXCEPT !.contract = IF Present(listing.says.contract) THEN listing.says.contract ELSE @]
           laid == Overrides(listed, stated)
           alone == Overrides(None, stated)
           board == {f \in Fields : laid[f] # "" \/ alone[f] # ""}
                      \cup {f \in {"contract"} : Present(listing.says.contract)}
<1>1. Analysed(said) = [extracted |-> extracted, of |-> Over(listed, laid), board |-> board]
  BY DEF Analysed
<1>2. \A f \in Fields : extracted[f] = "" => read[f] = analysis[f]
  BY DEF Over, Or
<1>3. /\ \A f \in Fields \ {"contract"} : listed[f] = read[f]
      /\ listed["contract"] = IF Present(listing.says.contract) THEN listing.says.contract ELSE read["contract"]
  <2>1. DOMAIN read = Fields /\ "contract" \in Fields
    BY DEF Over, Fields
  <2> HIDE DEF read
  <2>2. QED BY <2>1
<1>5. /\ \A f \in {"company", "salary"} : laid[f] = IF stated[f] # listed[f] THEN stated[f] ELSE ""
      /\ laid["contract"] = IF PublishedContract(stated["contract"]) # listed["contract"]
                            THEN PublishedContract(stated["contract"]) ELSE ""
      /\ laid["mode"] = IF stated["mode"] \in Modes /\ stated["mode"] # listed["mode"] THEN stated["mode"] ELSE ""
  <2> HIDE DEF listed
  <2>1. QED BY DEF Overrides, Fields
<1>6. /\ \A f \in {"company", "salary"} : alone[f] = IF stated[f] # None[f] THEN stated[f] ELSE ""
      /\ alone["contract"] = IF PublishedContract(stated["contract"]) # None["contract"]
                            THEN PublishedContract(stated["contract"]) ELSE ""
      /\ alone["mode"] = IF stated["mode"] \in Modes /\ stated["mode"] # None["mode"] THEN stated["mode"] ELSE ""
  BY DEF Overrides, Fields
<1>7. PublishedContract(stated["contract"]) = stated["contract"]
  BY PublishedOnce DEF BoardsAreQuoted
<1> HIDE DEF extracted, read, listed, laid, alone
<1>4. IsFacts(Over(listed, laid)) /\ \A f \in Fields : Over(listed, laid)[f] = IF laid[f] # "" THEN laid[f] ELSE listed[f]
  BY FactsOfFacts
<1>8. \A f \in {"company", "salary", "contract"} :
         laid[f] = IF stated[f] # listed[f] THEN stated[f] ELSE ""
  BY <1>5, <1>7
<1>9. \A f \in {"company", "salary", "contract"} : Present(stated[f]) => Over(listed, laid)[f] = stated[f]
  BY <1>4, <1>8 DEF Fields, Present
<1>10. stated["mode"] \in Modes => Over(listed, laid)["mode"] = stated["mode"]
  BY <1>4, <1>5 DEF Fields, Modes
<1>11. \A f \in Fields \ {"location"} : laid[f] \in {"", stated[f]}
  BY <1>5, <1>8 DEF Fields
<1>12. \A f \in Fields \ {"location"} : laid[f] = "" /\ alone[f] # "" => listed[f] = stated[f] /\ stated[f] # ""
  <2>1. \A f \in Fields : None[f] = ""
    BY DEF None
  <2>2. \A f \in {"company", "salary", "contract"} :
           laid[f] = "" /\ alone[f] # "" => listed[f] = stated[f] /\ stated[f] # ""
    BY <2>1, <1>6, <1>7, <1>8 DEF Fields
  <2>3. laid["mode"] = "" /\ alone["mode"] # "" => listed["mode"] = stated["mode"] /\ stated["mode"] # ""
    BY <1>5, <1>6 DEF Modes
  <2>4. QED BY <2>2, <2>3 DEF Fields
<1>13. ASSUME NEW f \in Fields \ {"location"}, f \in board
       PROVE  Over(listed, laid)[f] \in BoardSays(f)
  <2>1. stated[f] # "" => stated[f] \in BoardSays(f)
    BY DEF BoardsAreQuoted, FromBoard
  <2>2. CASE laid[f] # ""
    BY <2>1, <2>2, <1>4, <1>11
  <2>3. CASE laid[f] = "" /\ alone[f] # ""
    BY <2>1, <2>3, <1>4, <1>12
  <2>4. CASE laid[f] = "" /\ f = "contract" /\ Present(listing.says["contract"])
    <3>1. Over(listed, laid)[f] = listing.says["contract"]
      BY <2>4, <1>3, <1>4
    <3>2. listing.says[f] # ""
      BY <2>4 DEF Present
    <3>3. listing.says[f] \in BoardSays(f)
      BY <3>2 DEF BoardsAreQuoted, BoardSays
    <3>4. QED BY <2>4, <3>1, <3>3
  <2>5. QED BY <1>13, <2>2, <2>3, <2>4 DEF board
<1>14. ASSUME NEW f \in Fields \ {"location"}, f \notin board, extracted[f] = "", source[f] = "board"
       PROVE  Over(listed, laid)[f] \in BoardSays(f)
  <2>1. laid[f] = "" /\ ~(f = "contract" /\ Present(listing.says["contract"]))
    BY <1>14 DEF board
  <2>2. Over(listed, laid)[f] = analysis[f]
    BY <2>1, <1>2, <1>3, <1>4, <1>14
  <2>3. QED BY <2>2, <1>14 DEF ProvenanceIsTrueOfMost, BoardsOwn
<1> HIDE DEF board
<1>15. /\ Analysed(said).of = Over(listed, laid) /\ Analysed(said).board = board
       /\ Analysed(said).extracted = extracted
  BY <1>1
<1>16. QED BY <1>4, <1>9, <1>10, <1>13, <1>14, <1>15

(* An analysis ends: what the board states is laid over what the model said. *)
LEMMA AnAnalysisIsStored ==
  ASSUME OfferInv, NEW run \in runs, Complete(run)
  PROVE  OfferInv' /\ Upholds
<1> USE DEF OfferInv
<1>1. PICK said :
        LET made == Analysed(said)
            str == [f \in Fields |-> IF Present(made.of[f]) THEN made.of[f] ELSE facts[f]]
        IN /\ analysis' = made.of
           /\ facts' = [str EXCEPT !.mode = IF made.of.mode \in Modes \ {"unknown"} THEN made.of.mode
                                            ELSE facts.mode]
           /\ numbers' = Reading(str.salary, offer.ranges, numbers)
           /\ source' = [f \in Fields |-> IF f \in made.board THEN "board"
                                          ELSE IF made.extracted[f] # "" THEN "ai" ELSE source[f]]
  BY ZenonT(60) DEF Complete
<1> DEFINE made == Analysed(said)
           str == [f \in Fields |-> IF Present(made.of[f]) THEN made.of[f] ELSE facts[f]]
<1>2. /\ IsFacts(made.of)
      /\ \A f \in {"company", "salary", "contract"} : Present(stated[f]) => made.of[f] = stated[f]
      /\ stated["mode"] \in Modes => made.of["mode"] = stated["mode"]
      /\ \A f \in Fields \ {"location"} :
           f \in made.board \/ (made.extracted[f] = "" /\ source[f] = "board") => made.of[f] \in BoardSays(f)
  BY AnalysedIsTheBoards
<1> HIDE DEF made
<1>3. /\ analysis' = made.of
      /\ facts' = [str EXCEPT !.mode = IF made.of.mode \in Modes \ {"unknown"} THEN made.of.mode
                                       ELSE facts.mode]
      /\ numbers' = Reading(str.salary, offer.ranges, numbers)
      /\ source' = [f \in Fields |-> IF f \in made.board THEN "board"
                                     ELSE IF made.extracted[f] # "" THEN "ai" ELSE source[f]]
  BY <1>1 DEF made
<1>4. /\ offer' = [offer EXCEPT !.processing = "fetched", !.disposition = offer.disposition]
      /\ runs' = runs \ {run} /\ UNCHANGED <<stated, listing, done>>
  BY DEF Complete, Disposition
<1>5. /\ offer' \in Offers /\ offer'.disposition = offer.disposition /\ offer'.processing = "fetched"
      /\ offer'.text = offer.text /\ offer'.ranges = offer.ranges
  BY <1>4 DEF OfferTypes, Offers
<1>6. /\ IsFacts(facts')
      /\ \A f \in Fields \ {"mode"} : facts'[f] = IF Present(made.of[f]) THEN made.of[f] ELSE facts[f]
      /\ facts'["mode"] = IF made.of["mode"] \in Modes \ {"unknown"} THEN made.of["mode"] ELSE facts["mode"]
  BY <1>3 DEF IsFacts, Fields
<1>7. source' \in [Fields -> {"", "board", "ai"}]
  BY <1>3 DEF OfferTypes
<1>8. OfferTypes'
  BY <1>2, <1>3, <1>4, <1>5, <1>6, <1>7 DEF OfferTypes
<1>9. BoardsAreQuoted'
  BY <1>4 DEF BoardsAreQuoted, FromBoard
<1>10. ProvenanceIsTrueOfMost'
  <2> SUFFICES ASSUME NEW f \in Fields \ {"location"}, source'[f] = "board"
               PROVE  analysis'[f] \in BoardSays(f)
    BY DEF ProvenanceIsTrueOfMost, BoardsOwn
  <2>1. f \in made.board \/ (made.extracted[f] = "" /\ source[f] = "board")
    BY <1>3
  <2>2. QED BY <2>1, <1>2, <1>3
<1>11. BoardIsHeard
  <2>1. \A f \in {"company", "salary", "contract"} : Present(stated'[f]) => facts'[f] = stated'[f]
    BY <1>2, <1>4, <1>6 DEF Fields
  <2>2. stated'.mode \in Modes \ {"unknown"} => facts'.mode = stated'.mode
    BY <1>2, <1>4, <1>6
  <2>3. stated'.salary # "" /\ offer'.ranges = "" => numbers' = Readings[stated'.salary]
    <3>1. SUFFICES ASSUME stated["salary"] # "", offer.ranges = ""
                   PROVE  numbers' = Readings[stated["salary"]]
      BY <1>4, <1>5
    <3>2. Present(stated["salary"]) /\ "salary" \in Fields
      BY <3>1 DEF BoardsAreQuoted, Fields
    <3>3. str["salary"] = stated["salary"]
      BY <3>2, <1>2
    <3>4. numbers' = Reading(stated["salary"], "", numbers)
      BY <3>1, <3>3, <1>3
    <3>5. QED BY <3>1, <3>4, AStatedLineIsRead
  <2>4. QED BY <2>1, <2>2, <2>3 DEF BoardIsHeard
<1>12. DecisionStands /\ ReadingsStand
  <2>1. listing'.at >= listing.at
    BY <1>4, CountsAreNumbers, CountsGrow
  <2>2. QED BY <2>1, <1>4, <1>5 DEF DecisionStands, ReadingsStand
<1>13. QED BY <1>8, <1>9, <1>10, <1>11, <1>12 DEF Upholds

(* An analysis begins or fails, a person decides, or nothing happens. *)
LEMMA TheRestLeavesFacts ==
  ASSUME OfferInv,
         UNCHANGED <<facts, numbers, stated, analysis, listing, source>>,
         \/ Analyse \/ Decide
         \/ \E run \in runs : AnalysisFails(run)
         \/ UNCHANGED offerVars
  PROVE  OfferInv' /\ Upholds
<1> USE DEF OfferInv
<1>1. BoardsAreQuoted' /\ ProvenanceIsTrueOfMost'
  BY DEF BoardsAreQuoted, FromBoard, ProvenanceIsTrueOfMost, BoardsOwn
<1>2. done.analyses + 1 \in Nat /\ done.decisions + 1 \in Nat /\ listing.at >= listing.at
  BY CountsAreNumbers, CountsGrow
<1>3. /\ offer' \in Offers /\ offer'.processing = offer.processing /\ offer'.text = offer.text
      /\ done'.reads = done.reads
      /\ done' \in [pages : SUBSET Nat, reads : Nat, analyses : Nat, decisions : Nat]
      /\ offer'.disposition # offer.disposition => done'.decisions = done.decisions + 1
      /\ \A run \in runs' : run \in runs \/ run.stated = stated
  <2>1. offer \in Offers /\ done \in [pages : SUBSET Nat, reads : Nat, analyses : Nat, decisions : Nat]
    BY DEF OfferTypes
  <2>2. CASE Analyse
    <3>1. offer' = offer /\ done' = [done EXCEPT !.analyses = @ + 1] /\ \A run \in runs' : run.stated = stated
      BY <2>2 DEF Analyse
    <3>2. QED BY <2>1, <3>1, <1>2
  <2>3. CASE Decide
    <3>1. PICK d \in {"active", "dismissed", "applied"} : offer' = [offer EXCEPT !.disposition = d]
      BY <2>3 DEF Decide
    <3>2. done' = [done EXCEPT !.decisions = @ + 1] /\ runs' = runs
      BY <2>3 DEF Decide
    <3>3. offer' \in Offers /\ offer'.processing = offer.processing /\ offer'.text = offer.text
      BY <2>1, <3>1 DEF Offers
    <3>4. QED BY <2>1, <3>2, <3>3, <1>2
  <2>4. CASE \E run \in runs : AnalysisFails(run)
    <3>1. offer' = offer /\ done' = done /\ \A run \in runs' : run \in runs
      BY <2>4 DEF AnalysisFails
    <3>2. QED BY <2>1, <3>1
  <2>5. CASE UNCHANGED offerVars
    BY <2>1, <2>5 DEF offerVars
  <2>6. QED BY <2>2, <2>3, <2>4, <2>5
<1>4. OfferTypes'
  BY <1>3 DEF OfferTypes
<1>5. Upholds
  BY <1>2, <1>3 DEF Upholds, DecisionStands, ReadingsStand, BoardIsHeard
<1>6. QED BY <1>1, <1>4, <1>5

LEMMA OfferInvStep ==
  ASSUME FactsAreStated, OfferInv, [OfferNext]_offerVars
  PROVE  OfferInv' /\ Upholds
<1>1. ASSUME NEW k \in DOMAIN Pages, Ingest(k) PROVE OfferInv' /\ Upholds
  BY <1>1, AListIsFiled
<1>2. ReadPage => OfferInv' /\ Upholds
  BY APageIsRead
<1>3. ASSUME NEW run \in runs, Complete(run) PROVE OfferInv' /\ Upholds
  BY <1>3, AnAnalysisIsStored
<1>4. ASSUME \/ Analyse \/ Decide
             \/ \E run \in runs : AnalysisFails(run)
             \/ UNCHANGED offerVars
      PROVE  OfferInv' /\ Upholds
  <2>1. UNCHANGED <<facts, numbers, stated, analysis, listing, source>>
    BY <1>4 DEF Analyse, Decide, AnalysisFails, offerVars
  <2>2. QED BY <1>4, <2>1, TheRestLeavesFacts
<1>5. QED BY <1>1, <1>2, <1>3, <1>4 DEF OfferNext

(* Every step of every offer, for any board and any model: only a person     *)
(* changes what a person decided (complete of storage/sqlite/enrichment.ts   *)
(* reads the row again), a page that was read stays read and no older page   *)
(* of the list takes its place, and what is stored is what the board states, *)
(* its salary with the numbers of its own line.                              *)
THEOREM OffersAreKept ==
  ASSUME FactsAreStated
  PROVE  OfferInit /\ [][OfferNext]_offerVars
           => [][DecisionStands /\ ReadingsStand /\ BoardIsHeard]_offerVars
<1>1. OfferInit => OfferInv
  BY OfferInvHolds
<1>2. OfferInv /\ [OfferNext]_offerVars => OfferInv'
  BY OfferInvStep
<1>3. OfferInv /\ [OfferNext]_offerVars => [DecisionStands /\ ReadingsStand /\ BoardIsHeard]_offerVars
  BY OfferInvStep DEF Upholds
<1>4. QED BY <1>1, <1>2, <1>3, PTL

(* A field that is said to be the board's, of all but the place, holds words *)
(* the board stated, whatever any model answered and however late.           *)
THEOREM TheBoardIsQuoted ==
  ASSUME FactsAreStated
  PROVE  OfferInit /\ [][OfferNext]_offerVars => []ProvenanceIsTrueOfMost
<1>1. OfferInit => OfferInv
  BY OfferInvHolds
<1>2. OfferInv /\ [OfferNext]_offerVars => OfferInv'
  BY OfferInvStep
<1>3. OfferInv => ProvenanceIsTrueOfMost
  BY DEF OfferInv
<1>4. QED BY <1>1, <1>2, <1>3, PTL
=============================================================================
