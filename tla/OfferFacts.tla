----------------------------- MODULE OfferFacts -----------------------------
(***************************************************************************)
(* The facts of one offer, and who stated them.  A search sees it on a     *)
(* list (storage/sqlite/discovery.ts, ingest, through sight of             *)
(* storage/sqlite/offers.ts), its page is read (storage/sqlite/            *)
(* enrichment.ts, source), a model reads the page in five extractions the  *)
(* board's own figures are laid over (capabilities/analyzeOffer.ts,        *)
(* core/aggregator.ts), the result is stored (complete), and a person      *)
(* decides on the offer all the while.                                     *)
(*                                                                         *)
(* Facts are a function of Fields, "" where there is none; pages of the    *)
(* list arrive in any order.  `mode' is work_mode.                         *)
(***************************************************************************)
EXTENDS Integers, Sequences, FiniteSets, Functions

CONSTANTS
    Pages,        \* per page of the list, in the order they were retrieved: what it may say
    Sources,      \* what a read of the offer's page may bring
    ModelAnswers, \* per extraction that is asked: what a model may answer
    Readings,     \* per salary line: its reading, see Salary
    Unread,       \* no reading: each column null
    MaxReads, MaxAnalyses, MaxDecisions

VARIABLES
    offer,        \* the row of `offers', without its facts
    facts,        \* its columns of facts
    numbers,      \* its salary columns: min, max and period, each may be null
    stated,       \* its `stated'
    analysis,     \* its `analysis'
    listing,      \* the listing of its source, and when that was retrieved
    source,       \* per field: who the provenance says it is from
    runs,         \* analyses going on: [stated, answers], what a run was given, what it got
    done          \* bounds: reads, analyses and decisions; pages: those that have arrived

offerVars == <<offer, facts, numbers, stated, analysis, listing, source, runs, done>>

Fields == {"company", "salary", "contract", "location", "mode"}
None == [f \in Fields |-> ""]

FactsAreStated ==
    LET says == [Fields -> STRING] ranges == {"", "one", "two"}
    IN /\ DOMAIN Pages \subseteq Nat
       /\ \A k \in DOMAIN Pages : Pages[k] \subseteq [says : says, ranges : ranges, whole : BOOLEAN]
       /\ Sources \subseteq [says : says, ranges : ranges, denies : SUBSET Fields]
       /\ ModelAnswers \subseteq says
Modes == {"remote", "hybrid", "onsite", "unknown"}

\* The spellings of absence: `present' of the store, ABSENT of the overlay, and what the
\* aggregator writes for them.
Present(v) == v \notin {"", "Not stated", "Unknown", "unknown", "none", "unspecified"}
IsAbsent(v) == v \in {"", "Not stated", "Unknown", "none", "nieznane"}
Canonical(v) ==
    CASE v \in {"none", "unspecified"} -> "Not stated" [] v = "nieznane" -> "Unknown" [] OTHER -> v
\* publishedContract: an allowlist.
PublishedContract(v) == IF v \in {"B2B", "UoP"} THEN v ELSE ""

Or(v, w) == IF v # "" THEN v ELSE w
Over(base, top) == [f \in Fields |-> Or(top[f], base[f])]
Only(some, P) == [f \in Fields |-> IF f \in P THEN some[f] ELSE ""]

-----------------------------------------------------------------------------
(* analyze_offer *)
Groups == {"facts", "compensation", "logistics"}
FieldsOf == [facts |-> {"company"}, compensation |-> {"salary", "contract"}, logistics |-> {"location", "mode"}]
Fallback(f) == CASE f \in {"company", "location"} -> "Unknown" [] f = "mode" -> "unknown" [] OTHER -> "Not stated"

SlipFillsOnly(read, board) ==
    [f \in Fields |-> IF IsAbsent(read[f]) THEN board[f] ELSE ""]
\* applyStated: what the board stated and the reading does not say.
Overrides(read, board) ==
    [f \in Fields |->
       CASE f = "location" -> IF IsAbsent(read[f]) THEN board[f] ELSE ""
         [] f = "mode" -> IF board[f] \in Modes /\ board[f] # read[f] THEN board[f] ELSE ""
         [] f = "contract" -> IF PublishedContract(board[f]) # read[f] THEN PublishedContract(board[f]) ELSE ""
         [] OTHER -> IF board[f] # read[f] THEN board[f] ELSE ""]

\* The overlay comes last, and the aggregator canonicalises all but the enum.
Result(read, board) ==
    LET merged == Over(read, Overrides(read, board))
    IN [f \in Fields |-> IF f = "mode" THEN merged[f] ELSE Canonical(merged[f])]

\* An extraction that fails leaves its fallback; `role', which is critical, ends the run.
Replies == [Groups -> {"answered", "degraded"}]
ReadBy(replies, answer) ==
    [f \in Fields |->
       LET g == CHOOSE h \in Groups : f \in FieldsOf[h]
       IN IF replies[g] = "answered" THEN answer[f] ELSE Fallback(f)]

-----------------------------------------------------------------------------
(* The row *)
OfferInit ==
    /\ offer = [stored |-> FALSE, text |-> 0, processing |-> "candidate", disposition |-> "active",
                ranges |-> "", enriched |-> FALSE]
    /\ facts = None /\ numbers = Unread /\ stated = None /\ analysis = None
    /\ listing = [says |-> None, ranges |-> "", at |-> 0] /\ source = None /\ runs = {}
    /\ done = [pages |-> {}, reads |-> 0, analyses |-> 0, decisions |-> 0]

Count(n) == IF n = "" THEN 0 ELSE IF n = "two" THEN 2 ELSE 1
\* sight writes each column of the salary where it has something to write.
Column(new, old) == IF new = Unread.min THEN old ELSE new
Coalesced(new) ==
    [min |-> Column(new.min, numbers.min), max |-> Column(new.max, numbers.max),
     period |-> IF new.period = Unread.period THEN numbers.period ELSE new.period]

\* A listing fills the gaps of a page that was read; one that brings the whole
\* description, as a job feed does, speaks for itself.
Detailed(page) == offer.stored /\ offer.processing # "candidate" /\ ~page.whole
SightedFacts(page, detailed) ==
    LET new == [page.says EXCEPT !.contract = PublishedContract(@), !.mode = ""]
    IN IF detailed THEN Over(new, facts) ELSE Over(facts, new)
SightedStated(page, detailed) ==
    LET published == Only([page.says EXCEPT !.contract = PublishedContract(@)], {"contract", "mode"})
    IN IF detailed THEN Over(published, stated) ELSE Over(stated, published)
SightedNumbers(page, detailed) ==
    CASE detailed -> numbers
      [] ~detailed /\ page.ranges = "two" -> Unread
      [] ~detailed /\ Count(page.ranges) = 1 -> Coalesced(Readings[page.ranges])
      [] OTHER -> IF page.says.salary = "" THEN numbers ELSE Coalesced(Readings[page.says.salary])
SlipAnyPage(k) == TRUE
Newest(k) == k >= listing.at

Ingest(k) ==
    /\ k \in DOMAIN Pages \ done.pages
    /\ \E page \in Pages[k] :
         LET detailed == Detailed(page)
         IN IF ~Newest(k) THEN UNCHANGED <<offer, facts, numbers, stated, listing>>
            ELSE /\ offer' = [offer EXCEPT !.stored = TRUE,
                                !.text = IF page.whole THEN k ELSE @,
                                !.ranges = IF detailed THEN Or(@, page.ranges) ELSE Or(page.ranges, @),
                                !.enriched = @ \/ page.whole]
                 /\ facts' = SightedFacts(page, detailed)
                 /\ numbers' = SightedNumbers(page, detailed)
                 /\ stated' = SightedStated(page, detailed)
                 /\ listing' = [says |-> Over(listing.says, page.says),
                                ranges |-> Or(page.ranges, listing.ranges), at |-> k]
    /\ done' = [done EXCEPT !.pages = @ \cup {k}]
    /\ UNCHANGED <<analysis, source, runs>>

\* source: the page over the row over the listing; what the page no longer states goes.
\* (A read that is fresh is not repeated, and none is forced on a running analysis.)
Reading(board, ranges, row) ==
    CASE Count(ranges) = 1 -> Readings[ranges]
      [] Count(ranges) = 2 -> Unread
      [] OTHER -> IF board # "" THEN Readings[board] ELSE row
StatedNow(page) ==
    LET listed == [f \in Fields |-> IF f \in {"company", "salary", "location"} /\ Present(listing.says[f])
                                    THEN listing.says[f] ELSE ""]
        there == Over(Over(listed, stated), [f \in Fields |-> IF Present(page.says[f]) THEN page.says[f] ELSE ""])
        kept == [f \in Fields |-> IF f \in page.denies THEN "" ELSE there[f]]
    IN [kept EXCEPT !.contract =
                       Or(PublishedContract(page.says.contract),
                          Or(PublishedContract(stated.contract), PublishedContract(listing.says.contract)))]
RangesNow(page) ==
    IF page.says.salary # "" /\ page.ranges = "" /\ page.says.salary # Or(stated.salary, facts.salary)
    THEN "" ELSE Or(page.ranges, offer.ranges)
ReadPage ==
    /\ offer.stored /\ runs = {} /\ done.reads < MaxReads
    /\ \E page \in Sources :
         LET now == StatedNow(page) over == Overrides(None, now) ranges == RangesNow(page)
         IN /\ stated' = now
            /\ offer' = [offer EXCEPT !.text = 10 + done.reads, !.processing = "fetched",
                                      !.ranges = ranges, !.enriched = TRUE]
            /\ facts' = [Over(facts, now) EXCEPT
                           !.contract = Or(over.contract, facts.contract),
                           !.mode = IF now.mode \in Modes THEN now.mode ELSE facts.mode]
            /\ numbers' = Reading(now.salary, ranges, numbers)
            /\ analysis' = Over(analysis, over)
            /\ source' = [f \in Fields |-> IF over[f] # "" THEN "board" ELSE source[f]]
    /\ done' = [done EXCEPT !.reads = @ + 1]
    /\ UNCHANGED <<listing, runs>>

\* An analysis is given the text and what is stated as they are, and ends whenever it does.
Analyse ==
    /\ offer.stored /\ offer.enriched /\ done.analyses < MaxAnalyses /\ runs = {}
    /\ runs' = {[stated |-> stated, disposition |-> offer.disposition]}
    /\ done' = [done EXCEPT !.analyses = @ + 1]
    /\ UNCHANGED <<offer, facts, numbers, stated, analysis, listing, source>>

SlipAsItWas(run) == run.disposition
\* complete: the row is read again; what the model says, under what the board says.
Disposition(run) == offer.disposition

Analysed(said) ==
    LET extracted == [f \in Fields |-> IF Present(said[f]) THEN said[f] ELSE ""]
        read == Over(analysis, extracted)
        listed == [read EXCEPT !.contract = IF Present(listing.says.contract) THEN listing.says.contract ELSE @]
    IN [extracted |-> extracted, of |-> Over(listed, Overrides(listed, stated)),
        board |-> {f \in Fields : Overrides(listed, stated)[f] # "" \/ Overrides(None, stated)[f] # ""}
                    \cup {f \in {"contract"} : Present(listing.says.contract)}]
Complete(run) ==
    /\ \E replies \in Replies, answer \in ModelAnswers :
         LET made == Analysed(Result(ReadBy(replies, answer), run.stated))
             str == [f \in Fields |-> IF Present(made.of[f]) THEN made.of[f] ELSE facts[f]]
         IN /\ analysis' = made.of
            /\ facts' = [str EXCEPT !.mode = IF made.of.mode \in Modes \ {"unknown"} THEN made.of.mode
                                             ELSE facts.mode]
            /\ numbers' = Reading(str.salary, offer.ranges, numbers)
            /\ source' = [f \in Fields |-> IF f \in made.board THEN "board"
                                           ELSE IF made.extracted[f] # "" THEN "ai" ELSE source[f]]
    /\ offer' = [offer EXCEPT !.processing = "fetched", !.disposition = Disposition(run)]
    /\ runs' = runs \ {run}
    /\ UNCHANGED <<stated, listing, done>>
AnalysisFails(run) ==
    runs' = runs \ {run} /\ UNCHANGED <<offer, facts, numbers, stated, analysis, listing, source, done>>

Decide ==
    /\ offer.stored /\ done.decisions < MaxDecisions
    /\ \E d \in {"active", "dismissed", "applied"} \ {offer.disposition} :
         offer' = [offer EXCEPT !.disposition = d]
    /\ done' = [done EXCEPT !.decisions = @ + 1]
    /\ UNCHANGED <<facts, numbers, stated, analysis, listing, source, runs>>

OfferNext ==
    \/ \E k \in DOMAIN Pages : Ingest(k)
    \/ ReadPage \/ Analyse \/ Decide
    \/ \E run \in runs : Complete(run) \/ AnalysisFails(run)

-----------------------------------------------------------------------------
OfferTypeOK ==
    /\ offer.disposition \in {"active", "dismissed", "applied"} /\ offer.ranges \in {"", "one", "two"}
    /\ source \in [Fields -> {"", "board", "ai"}] /\ Cardinality(runs) <= 1
    /\ (offer.processing = "fetched" \/ runs # {}) => offer.enriched

\* What a person decided, while a page is read or a model runs too, only a person changes.
DecisionStands == offer.disposition # offer'.disposition => done'.decisions = done.decisions + 1

\* An offer whose page was read stays so, its text goes only for a page or a description
\* that is whole, and no page of the list takes the place of one retrieved after it.
ReadingsStand ==
    /\ offer.processing = "fetched" => offer'.processing = "fetched"
    /\ listing'.at >= listing.at
    /\ offer.text # offer'.text =>
         \/ done'.reads # done.reads
         \/ \E k \in done'.pages \ done.pages : \E page \in Pages[k] : page.whole

\* Whatever a model answers, and whichever of its answers fail: what is stored for the
\* offer is what the board states now, where the board is believed, and a salary that is
\* stated is stored with its own numbers.
BoardIsHeard ==
    (done'.reads # done.reads \/ (facts' # facts /\ runs' # runs)) =>
      /\ \A f \in {"company", "salary", "contract"} : Present(stated'[f]) => facts'[f] = stated'[f]
      /\ stated'.mode \in Modes \ {"unknown"} => facts'.mode = stated'.mode
      /\ (stated'.salary # "" /\ offer'.ranges = "") => numbers' = Readings[stated'.salary]

\* What the board ever said of a field, as it is stored.
Said(f) == {page.says[f] : page \in (UNION Range(Pages)) \cup Sources}
BoardSays(f) == Said(f) \cup {PublishedContract(v) : v \in Said(f)}

\* A field of the analysis that is said to be the board's has a value the board stated,
\* never one that only the model answered.
BoardsOwn(f) == source[f] = "board" => analysis[f] \in BoardSays(f)
ProvenanceIsTrue == \A f \in Fields : BoardsOwn(f)
ProvenanceIsTrueOfMost == \A f \in Fields \ {"location"} : BoardsOwn(f)

\* The numbers of an offer are those of one line, the one it shows or a range it published.
ReadingIsOfOneLine ==
    numbers \in {Unread} \cup {Readings[l] : l \in {facts.salary, offer.ranges} \cap DOMAIN Readings}
=============================================================================
