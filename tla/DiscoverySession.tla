-------------------------- MODULE DiscoverySession --------------------------
(***************************************************************************)
(* The searches of runtime/discovery.ts: sessions that fetch the pages of  *)
(* job boards for one saved search, the ledger of requests they share, and *)
(* the members the search collects in storage/sqlite/discovery-searches.ts *)
(* under what a person hid, deleted or blacklisted.                        *)
(*                                                                         *)
(* pump starts fetches one at a time: while it is due for a session no     *)
(* other event happens, as in the event loop (Quiet).                      *)
(***************************************************************************)
EXTENDS Integers, FiniteSets, SequencesExt

CONSTANTS
    Sessions,
    Boards,         \* the boards of the search, in order, without repetition
    Offers,
    Uses,           \* bound: the kinds each session may be of
    Managed,        \* bound: offers a person hides, deletes or blacklists
    Unclear,        \* offers whose qualification is "unknown"
    MaxRequests, MaxCandidates, Target, MaxPages, MaxConcurrent,
                    \* the budget of the search
    Cost,           \* requests a page of a board may need (requestCost)
    PageSize

BoardIds == ToSet(Boards)
Kinds == {"live", "hybrid", "cache", "collection"}

DiscoveryAssumption ==
    /\ {MaxRequests, MaxCandidates, Target, MaxPages, MaxConcurrent, Cost, PageSize}
           \subseteq Nat \ {0}
    /\ Len(Boards) <= MaxRequests /\ Len(Boards) <= MaxCandidates
    /\ Boards \in Seq(BoardIds) /\ Uses \in [Sessions -> SUBSET Kinds]
    /\ Unclear \subseteq Offers /\ Managed \subseteq Offers
    /\ IsFiniteSet(Sessions) /\ IsFiniteSet(Offers)

VARIABLES
    st,         \* where a session is: "none", "live", "halted", "cancelled"
    kind,       \* "live", "hybrid", "cache" or "collection"
    bst,        \* the status of each board
    retry,      \* the boards whose error next may retry
    flying,     \* controllers: the boards whose page is on its way
    reserved,   \* requests reserved for the page on its way
    pages, initial, asked, cand, accepted,
                \* pages, initialCompleted, requested, candidateIds, acceptedIds
    due,        \* pump runs
    timer,      \* the deadline is armed
    exists,     \* the saved search was not deleted
    ledger,     \* requests the search's ledger counts
    sent,       \* requests boards may have been asked since the ledger was new
    members, review,
    out,        \* what a person did to an offer: "none", "hide" or "delete"
    black,      \* the blacklist
    revision    \* discovery_searches.revision, modulo 2: no step adds two

sessionVars == <<st, kind, bst, retry, flying, reserved, pages, initial, asked,
                 cand, accepted, due, timer>>
boardVars == <<bst, retry, flying, reserved, pages, initial>>
memberVars == <<members, review, revision>>
outVars == <<out, black>>
searchVars == <<sessionVars, memberVars, outVars, exists, ledger, sent>>

Terminal == {"exhausted", "error", "cancelled"}

TypeOK ==
    /\ st \in [Sessions -> {"none", "live", "halted", "cancelled"}]
    /\ kind \in [Sessions -> Kinds]
    /\ bst \in [Sessions -> [BoardIds -> {"ready", "loading"} \cup Terminal]]
    /\ {retry, flying, initial, asked} \subseteq [Sessions -> SUBSET BoardIds]
    /\ reserved \in [Sessions -> [BoardIds -> 0..Cost]]
    /\ pages \in [Sessions -> [BoardIds -> 0..MaxPages]]
    /\ {cand, accepted} \subseteq [Sessions -> SUBSET Offers]
    /\ {due, timer} \subseteq [Sessions -> BOOLEAN] /\ exists \in BOOLEAN
    /\ ledger \in Nat /\ sent \in Nat
    /\ {members, review, black} \subseteq SUBSET Offers
    /\ out \in [Offers -> {"none", "hide", "delete"}] /\ revision \in 0..1

Empty == [s \in Sessions |-> {}]
Init ==
    /\ st = [s \in Sessions |-> "none"] /\ kind = [s \in Sessions |-> "live"]
    /\ bst = [s \in Sessions |-> [b \in BoardIds |-> "ready"]]
    /\ retry = Empty /\ flying = Empty /\ initial = Empty /\ asked = Empty
    /\ reserved = [s \in Sessions |-> [b \in BoardIds |-> 0]] /\ pages = reserved
    /\ cand = Empty /\ accepted = Empty
    /\ due = [s \in Sessions |-> FALSE] /\ timer = due
    /\ exists = TRUE /\ ledger = 0 /\ sent = 0
    /\ members = {} /\ review = {} /\ revision = 0
    /\ out = [o \in Offers |-> "none"] /\ black = {}

Quiet == \A s \in Sessions : ~due[s]
Live(s) == st[s] = "live"
Done(s) == \A b \in BoardIds : bst[s][b] \in Terminal
AllInitial(s) == initial[s] = BoardIds
CollectAll(s) == kind[s] \in {"live", "hybrid"}
Bump == revision' = 1 - revision
Suppressed == black \cup {o \in Offers : out[o] # "none"}

\* discoverySearches.add: what is suppressed is left out; an offer is a member
\* or waits for review, by its last evidence.  Evidence that is already there
\* changes nothing.
SlipAddsQuietly(items) ==   \* mutant: only new members move the revision
    LET new == items \ Suppressed
    IN /\ members' = (members \cup (new \ Unclear)) \ Unclear
       /\ review' = review \cup (new \cap Unclear)
       /\ revision' = IF new \subseteq Unclear THEN revision ELSE 1 - revision

Adds(items) ==
    LET new == items \ Suppressed
        unclear == new \cap Unclear
        clear == new \ Unclear
    IN /\ members' = (members \cup clear) \ unclear
       /\ review' = (review \cup unclear) \ clear
       /\ IF clear \subseteq members /\ unclear \subseteq review
          THEN revision' \in 0..1
          ELSE Bump

\* The items of a collection are not qualified and are members as they are.
Collects(s, items) ==
    IF kind[s] # "collection" THEN Adds(items)
    ELSE LET new == items \ Suppressed
         IN /\ members' = members \cup new
            /\ review' = review \ new
            /\ IF new \subseteq members THEN revision' \in 0..1 ELSE Bump

-----------------------------------------------------------------------------
\* The end of sessions: halted by a limit, or cancelled by a person.

Halted(s, of) == [b \in BoardIds |-> IF of[b] \in Terminal THEN of[b] ELSE "exhausted"]
Stop(s) ==
    /\ st' = [st EXCEPT ![s] = "halted"]
    /\ bst' = [bst EXCEPT ![s] = Halted(s, @)]
    /\ timer' = [timer EXCEPT ![s] = FALSE]
    /\ due' = [due EXCEPT ![s] = FALSE]
    /\ UNCHANGED <<kind, retry, flying, reserved, pages, initial, asked, cand, accepted>>

Active(S) == {s \in S : st[s] \in {"live", "halted"}}
Cancels(S) ==
    /\ st' = [s \in Sessions |-> IF s \in Active(S) THEN "cancelled" ELSE st[s]]
    /\ bst' = [s \in Sessions |-> IF s \in Active(S)
                                  THEN [b \in BoardIds |-> "cancelled"] ELSE bst[s]]
    /\ timer' = [s \in Sessions |-> timer[s] /\ s \notin Active(S)]
    /\ UNCHANGED <<kind, retry, flying, reserved, pages, initial, asked, cand, accepted, due>>

Cancel(s) ==
    /\ Quiet /\ Active({s}) # {}
    /\ Cancels({s})
    /\ UNCHANGED <<memberVars, outVars, exists, ledger, sent>>

Deadline(s) ==
    /\ Quiet /\ timer[s]
    /\ Stop(s)
    /\ UNCHANGED <<memberVars, outVars, exists, ledger, sent>>

\* discovery.searches.delete: the tombstone refuses the search for good.
DeleteSearch ==
    /\ Quiet /\ exists
    /\ exists' = FALSE /\ members' = {} /\ review' = {}
    /\ Cancels(Sessions)
    /\ UNCHANGED <<revision, outVars, ledger, sent>>

-----------------------------------------------------------------------------
\* start: a session of the saved search.  A hybrid or cached one begins with
\* the offers the catalogue holds.

Begins(s, k) ==
    /\ st' = [st EXCEPT ![s] = "live"] /\ kind' = [kind EXCEPT ![s] = k]
    /\ bst' = [bst EXCEPT ![s] = [b \in BoardIds |->
                                  IF k = "cache" THEN "exhausted" ELSE "ready"]]
    /\ timer' = [timer EXCEPT ![s] = k # "cache"]
    /\ due' = [due EXCEPT ![s] = k # "cache"]
    /\ UNCHANGED <<retry, flying, reserved, pages, initial, asked, cand>>

Start(s, k) ==
    /\ Quiet /\ exists /\ st[s] = "none"
    /\ Begins(s, k)
    /\ \E cached \in IF k \in {"cache", "hybrid"} THEN SUBSET (Offers \ black) ELSE {{}} :
         /\ Adds(cached)
         /\ accepted' = [accepted EXCEPT ![s] = (cached \ Suppressed) \ Unclear]
    /\ UNCHANGED <<outVars, exists, ledger, sent>>

\* A refetch cancels the sessions of the search and starts its ledger again.
Refetch(s, reset) ==
    /\ Quiet /\ exists /\ st[s] = "none"
    /\ st' = [t \in Sessions |-> IF t = s THEN "live"
                                 ELSE IF t \in Active(Sessions) THEN "cancelled" ELSE st[t]]
    /\ bst' = [t \in Sessions |-> IF t \in Active(Sessions)
                                  THEN [b \in BoardIds |-> "cancelled"] ELSE bst[t]]
    /\ timer' = [t \in Sessions |-> t = s] /\ due' = timer'
    /\ ledger' = 0 /\ sent' = 0
    /\ members' = IF reset THEN {} ELSE members
    /\ review' = IF reset THEN {} ELSE review
    /\ Bump
    /\ UNCHANGED <<kind, retry, flying, reserved, pages, initial, asked, cand, accepted,
                   outVars, exists>>

-----------------------------------------------------------------------------
\* pump: limits first, then one board after another.

Idle(s, b) == b \notin flying[s] /\ bst[s][b] \notin Terminal
IdleFirst(s) == {b \in BoardIds : Idle(s, b) /\ b \notin initial[s]}
IdleNext(s) == {b \in BoardIds : AllInitial(s) /\ Idle(s, b) /\ (CollectAll(s) \/ b \in asked[s])}
InOrder(S) == CHOOSE b \in S : \A i \in 1..Len(Boards) :
                 Boards[i] \in S => \E j \in 1..i : Boards[j] = b
PicksBoard(s) == InOrder(IF IdleFirst(s) # {} THEN IdleFirst(s) ELSE IdleNext(s))

LimitReached(s) ==
    AllInitial(s) /\ (Cardinality(accepted[s]) >= Target \/ Cardinality(cand[s]) >= MaxCandidates)
Full(s) == Cardinality(flying[s]) >= MaxConcurrent
Spent == ledger >= MaxRequests
NoBoard(s) == IdleFirst(s) \cup IdleNext(s) = {}

PumpStops(s) ==
    /\ due[s] /\ Live(s)
    /\ LimitReached(s) \/ (~Full(s) /\ Spent /\ flying[s] = {})
    /\ Stop(s)
    /\ UNCHANGED <<memberVars, outVars, exists, ledger, sent>>

\* Nothing to start now: pages are on their way, or a person has to ask.
PumpRests(s) ==
    /\ due[s]
    /\ ~Live(s) \/ (~LimitReached(s) /\ (Full(s) \/ (Spent /\ flying[s] # {})
                                         \/ (~Spent /\ NoBoard(s))))
    /\ due' = [due EXCEPT ![s] = FALSE]
    /\ timer' = [timer EXCEPT ![s] = @ /\ ~(Live(s) /\ Done(s))]
    /\ UNCHANGED <<st, kind, boardVars, asked, cand, accepted,
                   memberVars, outVars, exists, ledger, sent>>

Pumping(s) == due[s] /\ Live(s) /\ ~LimitReached(s) /\ ~Full(s) /\ ~Spent /\ ~NoBoard(s)

PumpSkips(s) == LET b == PicksBoard(s) IN
    /\ Pumping(s) /\ pages[s][b] >= MaxPages
    /\ bst' = [bst EXCEPT ![s][b] = "exhausted"]
    /\ asked' = [asked EXCEPT ![s] = @ \ {b}]
    /\ UNCHANGED <<st, kind, retry, flying, reserved, pages, initial, cand, accepted, due,
                   timer, memberVars, outVars, exists, ledger, sent>>

\* fetchBoard until it awaits: every request a page may need is reserved first.
Room == MaxRequests - ledger
Reserve == IF Cost <= Room THEN Cost ELSE Room
Fetch(s) == LET b == PicksBoard(s) IN
    /\ Pumping(s) /\ pages[s][b] < MaxPages
    /\ ledger' = ledger + Reserve /\ sent' = sent + Reserve
    /\ reserved' = [reserved EXCEPT ![s][b] = Reserve]
    /\ flying' = [flying EXCEPT ![s] = @ \cup {b}]
    /\ bst' = [bst EXCEPT ![s][b] = "loading"]
    /\ retry' = [retry EXCEPT ![s] = @ \ {b}]
    /\ asked' = [asked EXCEPT ![s] = @ \ {b}]
    /\ UNCHANGED <<st, kind, pages, initial, cand, accepted, due, timer,
                   memberVars, outVars, exists>>

-----------------------------------------------------------------------------
\* A page arrives.

\* The finally: the board is through its first page, and pump goes on.
Landed(s, b) ==
    /\ flying' = [flying EXCEPT ![s] = @ \ {b}]
    /\ initial' = [initial EXCEPT ![s] = @ \cup {b}]
    /\ reserved' = [reserved EXCEPT ![s][b] = 0]
    /\ due' = [due EXCEPT ![s] = TRUE]
    /\ UNCHANGED <<st, kind, asked, timer, outVars, exists>>

\* What the worker says it used; a number it does not say is not refunded.
SlipRefundsCost(s, b, used) ==      \* mutant: the whole cost, not what was reserved
    /\ ledger' = ledger - (Cost - used)
    /\ sent' = sent - (reserved[s][b] - used)
Refunds(s, b, used) == /\ ledger' = ledger - (reserved[s][b] - used)
                       /\ sent' = sent - (reserved[s][b] - used)

Allowance(s, b) ==
    IF b \in initial[s] THEN MaxCandidates - Cardinality(cand[s])
    ELSE LET i == CHOOSE j \in 1..Len(Boards) : Boards[j] = b
         IN (MaxCandidates \div Len(Boards))
            + (IF i <= MaxCandidates % Len(Boards) THEN 1 ELSE 0)

\* page: the listings; more: the board has another page; moved: its cursor moved.
Arrives(s, b, page, more, moved) ==
    LET seen == page \ Suppressed
        unique == seen \ cand[s]
        ends == ~more \/ ~moved \/ (unique = {} /\ seen = page)
                \/ pages'[s][b] >= MaxPages
    IN \E picked \in SUBSET unique :
         /\ Cardinality(picked) = (IF Cardinality(unique) < Allowance(s, b)
                                   THEN Cardinality(unique)
                                   ELSE IF Allowance(s, b) < 0 THEN 0 ELSE Allowance(s, b))
         /\ pages' = [pages EXCEPT ![s][b] = @ + 1]
         /\ cand' = [cand EXCEPT ![s] = @ \cup picked]
         /\ accepted' = [accepted EXCEPT ![s] = @ \cup
                           (IF kind[s] = "collection" THEN picked ELSE picked \ Unclear)]
         /\ Collects(s, picked)
         /\ bst' = [bst EXCEPT ![s][b] = IF ends \/ picked # unique
                                         THEN "exhausted" ELSE "ready"]
         /\ UNCHANGED retry

SlipCountsAlways(s, b) == b \in BoardIds    \* mutant: sessions that ended go on
Counts(s, b) == Live(s)

PageOk(s, b) ==
    /\ Quiet /\ b \in flying[s] /\ Counts(s, b)
    /\ \E used \in 0..reserved[s][b] : Refunds(s, b, used)
    /\ \E page \in SUBSET (Offers \ black), more \in BOOLEAN, moved \in BOOLEAN :
         Cardinality(page) <= PageSize /\ Arrives(s, b, page, more, moved)
    /\ Landed(s, b)

\* The source answers with an error, which next may retry unless it is blocked;
\* or the page is invalid, cannot be stored, or the call throws.
PageFails(s, b) ==
    /\ Quiet /\ b \in flying[s] /\ Live(s)
    /\ \/ /\ \E used \in 0..reserved[s][b] : Refunds(s, b, used)
          /\ pages' = [pages EXCEPT ![s][b] = @ + 1]
          /\ retry' \in {retry, [retry EXCEPT ![s] = @ \cup {b}]}
       \/ /\ UNCHANGED <<ledger, sent, pages>>
          /\ retry' = [retry EXCEPT ![s] = @ \cup {b}]
    /\ bst' = [bst EXCEPT ![s][b] = "error"]
    /\ Landed(s, b)
    /\ UNCHANGED <<cand, accepted, memberVars>>

\* A page of a session that ended: nothing of it counts, and what was reserved
\* for it stays spent.
PageLate(s, b) ==
    /\ Quiet /\ b \in flying[s] /\ ~Live(s)
    /\ Landed(s, b)
    /\ UNCHANGED <<bst, retry, pages, cand, accepted, ledger, sent, memberVars>>

\* next: one more page, or an error once more.
AskNext(s, b) ==
    /\ Quiet /\ st[s] # "none"
    /\ bst' = [bst EXCEPT ![s][b] = IF b \in retry[s] THEN "ready" ELSE @]
    /\ retry' = [retry EXCEPT ![s] = @ \ {b}]
    /\ asked' = [asked EXCEPT ![s] = IF bst'[s][b] = "ready" THEN @ \cup {b} ELSE @]
    /\ due' = [due EXCEPT ![s] = TRUE]
    /\ UNCHANGED <<st, kind, flying, reserved, pages, initial, cand, accepted, timer,
                   memberVars, outVars, exists, ledger, sent>>

-----------------------------------------------------------------------------
\* What a person does to the offers of the search, and who else spends.

Manage(o, action) ==
    /\ Quiet /\ exists
    /\ out' = [out EXCEPT ![o] = IF action = "restore"
                                 THEN (IF @ = "hide" THEN "none" ELSE @) ELSE action]
    /\ members' = IF action = "delete" THEN members \ {o} ELSE members
    /\ review' = IF action = "delete" THEN review \ {o} ELSE review
    /\ Bump
    /\ UNCHANGED <<sessionVars, black, exists, ledger, sent>>

\* manage on any search: the blacklist is everybody's, and so is the revision.
Blacklist(o, on) ==
    /\ Quiet /\ exists
    /\ black' = IF on THEN black \cup {o} ELSE black \ {o}
    /\ Bump
    /\ UNCHANGED <<sessionVars, members, review, out, exists, ledger, sent>>

\* refreshOffer: new evidence of an offer, which may be too old to stay.
Refresh(o) ==
    /\ Quiet /\ o \in members \cup review
    /\ \/ members' = members \ {o} /\ review' = review \ {o}
       \/ UNCHANGED <<members, review>>
    /\ Bump
    /\ UNCHANGED <<sessionVars, outVars, exists, ledger, sent>>

\* The detail queue reserves requests of the same ledger.
DetailRequest ==
    /\ Quiet /\ exists /\ ~Spent
    /\ ledger' = ledger + 1 /\ sent' = sent + 1
    /\ UNCHANGED <<sessionVars, memberVars, outVars, exists>>

Next ==
    \/ \E s \in Sessions :
         \/ \E k \in Uses[s] : Start(s, k)
         \/ \E reset \in BOOLEAN : "live" \in Uses[s] /\ Refetch(s, reset)
         \/ Cancel(s) \/ Deadline(s)
         \/ PumpStops(s) \/ PumpRests(s) \/ PumpSkips(s) \/ Fetch(s)
         \/ \E b \in BoardIds : PageOk(s, b) \/ PageFails(s, b) \/ PageLate(s, b) \/ AskNext(s, b)
    \/ DeleteSearch \/ DetailRequest
    \/ \E o \in Managed :
         \/ \E action \in {"hide", "delete", "restore"} : Manage(o, action)
         \/ \E on \in BOOLEAN : Blacklist(o, on)
         \/ Refresh(o)

Spec == Init /\ [][Next]_searchVars

-----------------------------------------------------------------------------
\* What boards and details may have been asked since the last refetch is covered
\* by the ledger, and the ledger by the budget, although sessions share it, pages
\* arrive after a refetch, and refunds arrive out of order.
LedgerCovers == sent <= ledger /\ ledger <= MaxRequests

\* No session holds more candidates, pages or boards than its budget allows.
BoundsHold ==
    \A s \in Sessions :
      /\ Cardinality(cand[s]) <= MaxCandidates /\ Cardinality(flying[s]) <= MaxConcurrent
      /\ \A b \in BoardIds : pages[s][b] <= MaxPages

\* A deleted offer is in no list of the search, and no offer is in both.
DeletedStaysOut ==
    /\ members \cap review = {}
    /\ \A o \in members \cup review : out[o] # "delete"

\* A session that collects everything never stops short: while no page is on its
\* way and pump is not due, every board is through.
SessionGoesOn ==
    \A s \in Sessions :
      Live(s) /\ CollectAll(s) /\ ~due[s] /\ flying[s] = {} => Done(s)

\* What the search lists (members and review without what is suppressed) changes
\* only with its revision, by which a reader tells that the pages it holds are stale.
Listed(S) == S \ Suppressed
RevisionMoves ==
    exists' /\ (Listed(members)' # Listed(members) \/ Listed(review)' # Listed(review))
        => revision' # revision

\* A page of a session that was halted or cancelled, or whose search is gone,
\* adds no offer.
EndedStays == \A s \in Sessions : ~Live(s) => cand'[s] = cand[s] /\ pages'[s] = pages[s]
=============================================================================
