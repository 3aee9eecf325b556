----------------------------- MODULE MCDiscovery -----------------------------
(***************************************************************************)
(* What the discovery services do, by parts: focus says which.  "queue" is *)
(* two offers of the background queue, one of which a person opens, that   *)
(* compete for one read; "details" is one offer that is opened, queued,    *)
(* analysed, imported and sighted; "boards" is one session over two        *)
(* boards; "shared" is two sessions of one saved search that share its     *)
(* ledger and members.                                                     *)
(***************************************************************************)
EXTENDS OfferDetails

CONSTANTS o1, o2, s1, s2

VARIABLES
    focus,
    \* DiscoverySession; pump is its due
    st, kind, bst, retry, flying, reserved, pages, initial, asked, cand, accepted, pump,
    timer, exists, ledger, sent, members, review, out, black, revision

B == INSTANCE DiscoverySession WITH
       due <- pump,
       Sessions <- {s1}, Boards <- <<"b1", "b2">>, Offers <- {o1, o2}, Unclear <- {o2},
       Uses <- [s \in {s1} |-> {"hybrid"}], Managed <- {o1},
       MaxRequests <- 3, MaxCandidates <- 2, Target <- 2, MaxPages <- 2, MaxConcurrent <- 2,
       Cost <- 2, PageSize <- 1
S == INSTANCE DiscoverySession WITH
       due <- pump,
       Sessions <- {s1, s2}, Boards <- <<"b1">>, Offers <- {o1}, Unclear <- {o1},
       Uses <- [s \in {s1, s2} |-> IF s = s1 THEN {"live"}
                                   ELSE {"collection", "cache"}],
       Managed <- {o1}, MaxRequests <- 3, MaxCandidates <- 1, Target <- 1, MaxPages <- 2,
       MaxConcurrent <- 1, Cost <- 2, PageSize <- 1

searchVars == <<st, kind, bst, retry, flying, reserved, pages, initial, asked, cand, accepted,
                pump, timer, exists, ledger, sent, members, review, out, black, revision>>
discoveryVars == <<focus, offerVars, searchVars>>

DiscoveryInit ==
    /\ focus \in {"queue", "details", "boards", "shared"}
    /\ Init
    /\ IF focus = "shared" THEN S!Init ELSE B!Init

\* In "queue" nothing is analysed or given, and a text is read anew once.
OnlyQueued == \A o \in Offers : enr'[o] = "idle" /\ fresh'[o] # "given" /\ text'[o] <= 1

\* In "details" the second offer is nobody's.
OnlyFirst == row'[o2] = "none"

DiscoveryNext ==
    \/ focus = "queue" /\ Next /\ OnlyQueued /\ UNCHANGED <<focus, searchVars>>
    \/ focus = "details" /\ Next /\ OnlyFirst /\ UNCHANGED <<focus, searchVars>>
    \/ focus = "boards" /\ B!Next /\ UNCHANGED <<focus, offerVars>>
    \/ focus = "shared" /\ S!Next /\ UNCHANGED <<focus, offerVars>>

\* Each part's bounds are what its module asks of them.
ASSUME InstancesAreBounded ==
    DetailsAssumption /\ B!DiscoveryAssumption /\ S!DiscoveryAssumption

DiscoverySpec == DiscoveryInit /\ [][DiscoveryNext]_discoveryVars

-----------------------------------------------------------------------------
\* A row reads "running" exactly while the queue waits for a read and details read
\* "fetching" only while somebody does, no wake-up of the queue is lost, its reads
\* stay within the budget, and a stored analysis is of the text it says it is of.
ReadsAreAccounted ==
    TypeOK /\ ReadsAreWanted /\ QueueGoesOn /\ BudgetIsKept /\ AnalysisIsOfText

\* The requests boards may have been sent are covered by the search's ledger, no
\* session goes beyond its budget, and one that collects everything never stops
\* short of its boards' ends.
LedgerCovers ==
    /\ focus = "boards" => B!TypeOK /\ B!LedgerCovers /\ B!BoundsHold /\ B!SessionGoesOn
    /\ focus = "shared" => S!TypeOK /\ S!LedgerCovers /\ S!BoundsHold /\ S!SessionGoesOn

\* What a search lists changes only with its revision, and never holds what was
\* deleted from it.
RevisionTells ==
    [][/\ focus = "boards" => B!RevisionMoves /\ B!DeletedStaysOut'
       /\ focus = "shared" => S!RevisionMoves /\ S!DeletedStaysOut']_discoveryVars

\* What was cancelled stays so, whatever returns late: rows, reads and analyses
\* of an offer, and the sessions of a search.
CancelStands ==
    [][/\ CancelledStays
       /\ focus = "boards" => B!EndedStays
       /\ focus = "shared" => S!EndedStays]_discoveryVars
=============================================================================
