----------------------------- MODULE Grounding -----------------------------
(***************************************************************************)
(* What a message of a conversation is made of (capabilities/askProfile.ts,*)
(* cv/assembly.ts, cv/fit.ts, offers/shortlist.ts): the pieces of the CV   *)
(* it pins and attaches, shortened if it asks for that and they do not     *)
(* fit, the pieces a search adds, the saved offers it compares and the     *)
(* parts of the CV that mention what they ask for.  It is measured before  *)
(* a plan is made (runtime/needs.ts), may be previewed and approved        *)
(* (runtime/preview.ts), is assembled one step after the other, may wait   *)
(* for a person, and is then resumed from what was assembled unless that   *)
(* is stale (runtime/stale.ts).                                            *)
(*                                                                         *)
(* A piece is its path in the CV; each of its versions is how long its     *)
(* text is, how long its shorter form is, and the skills it mentions.      *)
(***************************************************************************)
EXTENDS Naturals, Sequences, SequencesExt, FiniteSetsExt

CONSTANTS
    Leaves,         \* the paths of the pieces, in document order
    Text,           \* per piece and version: [size, short, says]; of no size when it says nothing
    Offers,         \* the ids of offers, in order
    Card,           \* per offer and version: [size, skills]
    Messages, PinLists, Exclusions, Limits,
    Hits,           \* what a search for more pieces may find, or "failed"
    PicksBudget, OffersBudget, MaxEvidence, CompareLimit,
    MaxChanges      \* bound: what changes around one message

VARIABLES
    world,          \* [cv, shelf, board, pins, walls, limit, hits]
    message,
    run,            \* [at, rest, picks, fit]: the step it is at, and what was assembled
    approved,       \* the plan that was previewed and agreed to
    changed,        \* what has changed since the run was begun,
    recent          \* and since it was last driven

groundingVars == <<world, message, run, approved, changed, recent>>

Nothing == [blocks |-> <<>>, blocked |-> <<>>, gone |-> {}, suggested |-> <<>>]
NoRun == [at |-> "new", rest |-> 0, picks |-> Nothing, fit |-> Nothing]
NoPlan == {<<"none">>}
Ended == {"sent", "needs_unmet", "grounding_budget", "context_limit", "grounding_stale", "plan_conflict"}

\* A block as it is sent: what it is of, its version, its size and whether it is a shorter form.
Block(ref, version, size, short) == [ref |-> ref, version |-> version, size |-> size, short |-> short]
Preferences == <<"preferences">>
OfferRef(o) == <<"offers", o>>

SizeOf(blocks) ==
    IF blocks = <<>> THEN 0
    ELSE MapThenSumSet(LAMBDA i : blocks[i].size, DOMAIN blocks) + 2 * (Len(blocks) - 1)
Refs(blocks) == {blocks[i].ref : i \in DOMAIN blocks}

-----------------------------------------------------------------------------
(* The CV behind the walls. *)
IsWalled(w, ref) == \E n \in 0..Len(ref) : SubSeq(ref, 1, n) \in w.walls
There(w, leaf) == w.cv[leaf] > 0
Now(w, leaf) == Text[leaf][w.cv[leaf]]

\* leafAt: contact details go with the personal ones.
Withheld(w, leaf) ==
    IsWalled(w, leaf) \/ (leaf = <<"overview", "contact">> /\ IsWalled(w, <<"overview", "personal">>))
Readable(w, leaf) == There(w, leaf) /\ ~Withheld(w, leaf) /\ Now(w, leaf).size > 0
Whole(w, leaf) == Block(leaf, w.cv[leaf], Now(w, leaf).size, FALSE)

\* The leaves a ref names: a section's, a leaf, or both halves of the personal details.
LeavesOf(w, ref) ==
    LET named(leaf) ==
          /\ leaf[1] = ref[1] /\ (There(w, leaf) \/ leaf[1] = "overview")
          /\ \/ Len(ref) = 1 \/ leaf = ref
             \/ ref = <<"overview", "personal">> /\ leaf = <<"overview", "contact">>
    IN SelectSeq(Leaves, named)

-----------------------------------------------------------------------------
(* collect: the pins and then the attachments, each leaf once. *)
Take(w, acc, leaf) ==
    IF leaf \in acc.seen THEN acc
    ELSE IF Withheld(w, leaf)
         THEN [acc EXCEPT !.seen = @ \cup {leaf},
                          !.blocked = IF leaf \in Range(@) THEN @ ELSE Append(@, leaf)]
    ELSE [acc EXCEPT !.seen = @ \cup {leaf},
                     !.blocks = IF Readable(w, leaf) THEN Append(@, Whole(w, leaf)) ELSE @]

Ask(w, acc, ref) ==
    LET leaves == LeavesOf(w, ref)
    IN IF IsWalled(w, ref)
       THEN [acc EXCEPT !.blocked = IF ref \in Range(@) THEN @ ELSE Append(@, ref)]
       ELSE IF leaves = <<>> /\ Len(ref) = 2 THEN [acc EXCEPT !.gone = @ \cup {ref}]
       ELSE FoldLeft(LAMBDA a, leaf : Take(w, a, leaf), acc, leaves)

\* picksProblem: the pieces' own budget first, then the conversation's limit.
PicksProblem(size, rest, limit) ==
    IF size > PicksBudget THEN "grounding_budget"
    ELSE IF limit > 0 /\ rest + size > limit THEN "context_limit"
    ELSE "none"

\* The blocks that have a shorter form and may be shortened, the one that saves most first.
Saved(w, block) == block.size - Now(w, block.ref).short
Shortenable(w, m, blocks) ==
    {i \in DOMAIN blocks :
       /\ Now(w, blocks[i].ref).short > 0
       /\ \A f \in m.full : ~IsPrefix(f, blocks[i].ref)}
MostSavedFirst(w, blocks, some) ==
    SetToSortSeq(some, LAMBDA i, j : \/ Saved(w, blocks[i]) > Saved(w, blocks[j])
                                     \/ Saved(w, blocks[i]) = Saved(w, blocks[j]) /\ i < j)
Shorten(w, block) == [block EXCEPT !.size = Now(w, block.ref).short, !.short = TRUE]

Compacted(w, m, rest, blocks) ==
    FoldLeft(LAMBDA bs, i : IF PicksProblem(SizeOf(bs), rest, w.limit) = "none" THEN bs
                            ELSE [bs EXCEPT ![i] = Shorten(w, @)],
             blocks, MostSavedFirst(w, blocks, Shortenable(w, m, blocks)))

Collect(w, m, rest) ==
    LET asked == FoldLeft(LAMBDA a, ref : Ask(w, a, ref), Nothing @@ [seen |-> {}], w.pins \o m.once)
    IN IF m.overflow = "compact"
       THEN [asked EXCEPT !.blocks = Compacted(w, m, rest, @)]
       ELSE asked

\* roomForPicks, and the pieces a search adds where they fit or suggests.
Room(rest, limit) == IF limit = 0 THEN PicksBudget ELSE Min({PicksBudget, IF limit > rest THEN limit - rest ELSE 0})
Add(w, m, rest, acc, leaf) ==
    LET more == Append(acc.blocks, Whole(w, leaf))
    IN IF leaf \in acc.seen THEN acc
       ELSE IF ~Readable(w, leaf) THEN [acc EXCEPT !.seen = @ \cup {leaf}]
       ELSE IF m.auto = "suggest"
            THEN [acc EXCEPT !.seen = @ \cup {leaf}, !.suggested = Append(@, leaf)]
       ELSE [acc EXCEPT !.seen = @ \cup {leaf},
                        !.blocks = IF SizeOf(more) <= Room(rest, w.limit) THEN more ELSE @]

\* assembleCv, of pieces that have been found to fit.
Assembled(w, m, rest) ==
    LET collected == Collect(w, m, rest)
        hits == IF m.auto = "off" \/ w.hits = <<"failed">> THEN <<>> ELSE w.hits
        made == FoldLeft(LAMBDA a, leaf : Add(w, m, rest, a, leaf), collected, hits)
    IN [f \in DOMAIN Nothing |-> made[f]]

-----------------------------------------------------------------------------
(* Offers: shortlist, and prepare. *)
Excluded(w, m) == SelectSeq(m.offerIds, LAMBDA o : IsWalled(w, OfferRef(o)))
Missing(w, m) == {o \in Range(m.offerIds) : ~IsWalled(w, OfferRef(o)) /\ w.shelf[o].version = 0}
Eligible(w, m) ==
    LET found == {o \in Range(m.offerIds) : /\ ~IsWalled(w, OfferRef(o)) /\ w.shelf[o].version > 0
                                            /\ o \notin w.board}
        place(o) == CHOOSE i \in DOMAIN Offers : Offers[i] = o
    IN SetToSortSeq(found, LAMBDA a, b : \/ w.shelf[a].seen > w.shelf[b].seen
                                         \/ w.shelf[a].seen = w.shelf[b].seen /\ place(a) < place(b))
First(limit, seq) == SubSeq(seq, 1, Min({limit, Len(seq)}))
Compared(w, m) == First(CompareLimit, Eligible(w, m))
CardOf(w, o) == Card[o][w.shelf[o].version]
CardBlock(w, o) == Block(OfferRef(o), w.shelf[o].version, CardOf(w, o).size, FALSE)

Fixed(w, m, compared) ==
    (IF m.preferences > 0 THEN <<Block(Preferences, 0, m.preferences, FALSE)>> ELSE <<>>)
      \o [i \in DOMAIN compared |-> CardBlock(w, compared[i])]

\* The parts that mention a skill, best first, as many as are shared and as fit, in
\* document order.
Personal == {<<"overview", "personal">>, <<"overview", "contact">>}
Score(w, compared, leaf) ==
    MapThenSumSet(LAMBDA o : Cardinality(CardOf(w, o).skills \cap Now(w, leaf).says), Range(compared))
Scores(w, compared) ==
    [i \in DOMAIN Leaves |-> IF Readable(w, Leaves[i]) /\ Leaves[i] \notin Personal
                               THEN Score(w, compared, Leaves[i]) ELSE 0]
BestFirst(scores) ==
    SetToSortSeq({i \in DOMAIN scores : scores[i] > 0},
                 LAMBDA i, j : scores[i] > scores[j] \/ (scores[i] = scores[j] /\ i < j))
Kept(w, used, best) ==
    LET keep(acc, i) ==
          LET next == acc.used + Now(w, Leaves[i]).size + 2
          IN IF next > OffersBudget THEN acc ELSE [used |-> next, kept |-> acc.kept \cup {i}]
    IN FoldLeft(keep, [used |-> used, kept |-> {}], best).kept
Evidence(w, fixed, best) ==
    LET inOrder == SetToSortSeq(Kept(w, SizeOf(fixed), First(MaxEvidence, best)), <)
    IN [n \in DOMAIN inOrder |-> Whole(w, Leaves[inOrder[n]])]

\* prepare: what is sent whatever else is, and the evidence of it.
Prepared(w, m, compared) ==
    [fixed |-> Fixed(w, m, compared),
     evidence |-> Evidence(w, Fixed(w, m, compared), BestFirst(Scores(w, compared)))]

\* fitSize, which takes nothing off for what the pieces send already; assemble does.
Together(prepared) == prepared.fixed \o prepared.evidence
FitSize(w, m) == IF m.offerIds = <<>> THEN 0 ELSE SizeOf(Together(Prepared(w, m, Compared(w, m))))
Held(refs) == [i \in DOMAIN refs |-> OfferRef(refs[i])]
FitOf(w, m, prepared, taken) ==
    [blocks |-> prepared.fixed \o SelectSeq(prepared.evidence, LAMBDA b : b.ref \notin taken),
     blocked |-> Held(Excluded(w, m)),
     gone |-> {OfferRef(o) : o \in Missing(w, m)}, suggested |-> <<>>]
Fit(w, m, taken) == FitOf(w, m, Prepared(w, m, Compared(w, m)), taken)

-----------------------------------------------------------------------------
(* Before the plan: cvNeeds, fitNeeds and sizeNeeds; the first that stops   *)
(* the message names why.                                                  *)
Open(w, refs) == SelectSeq(refs, LAMBDA r : ~IsWalled(w, r))
SelectionUnmet(w, m) ==
    /\ m.reach = "selected" /\ m.offerIds = <<>>
    /\ Open(w, w.pins \o m.once) = <<>> /\ m.auto # "on"
OffersUnmet(w, m) == m.offerIds # <<>> /\ Compared(w, m) = <<>>
Measured(w, m, rest) ==
    [why |-> IF SelectionUnmet(w, m) \/ OffersUnmet(w, m) THEN "needs_unmet"
             ELSE PicksProblem(SizeOf(Collect(w, m, rest).blocks), rest, w.limit),
     rest |-> rest]
Needs(w, m) == Measured(w, m, m.rest + FitSize(w, m))

\* plan: the steps there are.
Picks(w, m) == m.once # <<>> \/ m.auto # "off" \/ w.pins # <<>>
Steps(w, m, done) ==
    SelectSeq(<<"ground", "fit", "call">>,
              LAMBDA s : /\ s = "ground" => Picks(w, m) /\ "ground" \notin done
                         /\ s = "fit" => m.offerIds # <<>> /\ "fit" \notin done)

\* planDigestOf: what is sent and what is held back, the order and the way it came apart.
Digest(picks, fit) ==
    {<<b.ref, b.version, b.short>> : b \in Range(picks.blocks \o fit.blocks)}
      \cup {<<ref, "blocked">> : ref \in Range(picks.blocked \o fit.blocked)}

\* previewRun, of a message nothing refuses: what the steps would make of it now.
WithFit(w, m, picks) ==
    Digest(picks, IF m.offerIds = <<>> THEN Nothing ELSE Fit(w, m, Refs(picks.blocks)))
Preview(w, m, rest) == WithFit(w, m, IF Picks(w, m) THEN Assembled(w, m, rest) ELSE Nothing)

-----------------------------------------------------------------------------
GroundingInit ==
    /\ message \in Messages
    /\ world \in [cv : {[l \in Range(Leaves) |-> 1]}, shelf : {[o \in Range(Offers) |-> [version |-> 1, seen |-> 1]]},
                  board : {{}}, pins : PinLists, walls : {{}}, limit : Limits, hits : Hits]
    /\ run = NoRun /\ approved = NoPlan /\ changed = {} /\ recent = {}

Approve ==
    /\ run.at = "new" /\ approved = NoPlan
    /\ \E needs \in {Needs(world, message)} :
         needs.why = "none" /\ approved' = Preview(world, message, needs.rest)
    /\ UNCHANGED <<world, message, run, changed, recent>>

\* Drive: the needs, the plan, and the first step that is not done.
Driven(needs, done) ==
    IF needs.why # "none" THEN [run EXCEPT !.at = needs.why]
    ELSE [run EXCEPT !.at = Head(Steps(world, message, done)), !.rest = needs.rest]

\* approving: the preview is made again, and nothing comes between that and the start.
Start ==
    /\ run.at = "new"
    /\ \E needs \in {Needs(world, message)} :
         IF approved # NoPlan /\ needs.why = "none" /\ Preview(world, message, needs.rest) # approved
         THEN run' = [run EXCEPT !.at = "plan_conflict"]
         ELSE run' = Driven(needs, {})
    /\ changed' = {} /\ recent' = {}
    /\ UNCHANGED <<world, message, approved>>

\* groundStep, which reads the pins as they are now.
Ground ==
    LET why == PicksProblem(SizeOf(Collect(world, message, run.rest).blocks), run.rest, world.limit)
    IN /\ run.at = "ground"
       /\ run' = IF why # "none" THEN [run EXCEPT !.at = why]
                 ELSE [run EXCEPT !.picks = Assembled(world, message, run.rest),
                                  !.at = IF message.offerIds # <<>> /\ run.fit = Nothing THEN "fit" ELSE "call"]
       /\ UNCHANGED <<world, message, approved, changed, recent>>

FitStep ==
    /\ run.at = "fit"
    /\ run' = [run EXCEPT !.fit = Fit(world, message, Refs(run.picks.blocks)), !.at = "call"]
    /\ UNCHANGED <<world, message, approved, changed, recent>>

\* The loop is begun and what it is given goes on record; or it stops to ask a person.
Call == run.at = "call" /\ run' = [run EXCEPT !.at = "sent"]
        /\ UNCHANGED <<world, message, approved, changed, recent>>
Park == run.at = "call" /\ run' = [run EXCEPT !.at = "parked"]
        /\ UNCHANGED <<world, message, approved, changed, recent>>

\* staleCv and staleOffers.
Stale(block) ==
    IF block.ref = Preferences THEN FALSE
    ELSE IF block.ref[1] = "offers"
         THEN IsWalled(world, block.ref) \/ world.shelf[block.ref[2]].version # block.version
    ELSE ~Readable(world, block.ref) \/ world.cv[block.ref] # block.version

\* beginResume: the needs, then what was assembled, then the plan anew.
Resume ==
    LET done == (IF run.picks = Nothing THEN {} ELSE {"ground"}) \cup (IF run.fit = Nothing THEN {} ELSE {"fit"})
    IN /\ run.at = "parked"
       /\ \E driven \in {Driven(Needs(world, message), done)} :
            run' = IF driven.at \notin Ended /\ \E b \in Range(run.picks.blocks \o run.fit.blocks) : Stale(b)
                   THEN [run EXCEPT !.at = "grounding_stale"] ELSE driven
       /\ recent' = {}
       /\ UNCHANGED <<world, message, approved, changed>>

\* A person, or another run, changes what the message would be made of.
Becomes(w, what) ==
    /\ run.at \notin Ended /\ (run.at = "new" => approved # NoPlan)
    /\ Cardinality(changed) < MaxChanges /\ what # {}
    /\ world' = w /\ changed' = changed \cup what /\ recent' = recent \cup what
    /\ UNCHANGED <<message, run, approved>>
EditCv(leaf, version) ==
    Becomes([world EXCEPT !.cv[leaf] = version], IF version = world.cv[leaf] THEN {} ELSE {leaf})
EditOffer(o, version, seen) ==
    Becomes([world EXCEPT !.shelf[o] = [version |-> version, seen |-> seen]],
            IF world.shelf[o] = [version |-> version, seen |-> seen] THEN {} ELSE {OfferRef(o)})
PutOnBoard(o) == o \notin world.board /\ Becomes([world EXCEPT !.board = @ \cup {o}], {OfferRef(o)})
Exclude(walls) ==
    LET w == [world EXCEPT !.walls = walls]
    IN Becomes(w, {l \in Range(Leaves) : Withheld(w, l) # Withheld(world, l)}
                    \cup {OfferRef(o) : o \in {p \in Range(Offers) :
                             IsWalled(w, OfferRef(p)) # IsWalled(world, OfferRef(p))}})
Set(w, what) == Becomes(w, IF w = world THEN {} ELSE {<<what>>})

GroundingNext ==
    \/ Approve \/ Start \/ Ground \/ FitStep \/ Call \/ Park \/ Resume
    \/ \E leaf \in Range(Leaves) : \E v \in DOMAIN Text[leaf] \cup (IF leaf[1] = "overview" THEN {} ELSE {0}) :
         EditCv(leaf, v)
    \/ \E o \in Range(message.offerIds) : PutOnBoard(o) \/ \E v \in 0..Len(Card[o]), s \in 1..2 : EditOffer(o, v, s)
    \/ \E walls \in Exclusions : Exclude(walls)
    \/ \E p \in PinLists : Set([world EXCEPT !.pins = p], "pins")
    \/ \E l \in Limits : Set([world EXCEPT !.limit = l], "limit")
    \/ \E h \in Hits : Set([world EXCEPT !.hits = h], "hits")

-----------------------------------------------------------------------------
Made == run.picks.blocks \o run.fit.blocks
Goes == run.at \in {"call", "sent"}

GroundingTypeOK ==
    /\ run.at \in {"new", "ground", "fit", "call", "parked"} \cup Ended
    /\ Refs(Made) \subseteq Range(Leaves) \cup {Preferences} \cup {OfferRef(o) : o \in Range(Offers)}

\* What is sent is, piece by piece and offer by offer, as it is and as the conversation
\* allows, or has changed since the run was last driven: nothing that was edited or
\* excluded while a run waited is sent from the copy.
SentIsCurrent ==
    Goes => \A b \in Range(Made) :
      \/ b.ref = Preferences \/ b.ref \in recent
      \/ b.ref[1] = "offers" /\ ~IsWalled(world, b.ref) /\ world.shelf[b.ref[2]].version = b.version
      \/ b.ref \in Range(Leaves) /\ ~Withheld(world, b.ref) /\ world.cv[b.ref] = b.version

\* A piece is sent once, by whichever step; every piece that was asked for is sent, held
\* back, gone or empty, and nothing is both.
EachPieceOnce ==
    Goes /\ <<"pins">> \notin changed =>
      /\ Cardinality(Refs(Made)) = Len(Made)
      /\ changed = {} /\ Picks(world, message) =>
           \A ref \in Range(world.pins \o message.once), i \in DOMAIN Leaves :
             (Leaves[i] \in Range(LeavesOf(world, ref)) /\ ~Withheld(world, Leaves[i])
               /\ Now(world, Leaves[i]).size > 0) <=> (Leaves[i] \in Refs(run.picks.blocks)
                                                          /\ Leaves[i] \in Range(LeavesOf(world, ref)))
      /\ (Refs(Made) \cap (Range(run.picks.blocked \o run.fit.blocked) \cup run.picks.gone \cup run.fit.gone))
           \subseteq changed

\* Unless something changed under it, a message is within its budgets and its limit, as
\* it was measured before the plan, and it is not refused after that.
FitsAsMeasured ==
    changed = {} =>
      /\ Goes => /\ SizeOf(run.picks.blocks) <= PicksBudget /\ SizeOf(run.fit.blocks) <= OffersBudget
                 /\ world.limit > 0 =>
                      message.rest + SizeOf(run.picks.blocks) + SizeOf(run.fit.blocks) <= world.limit
      /\ run.at = "ground" => PicksProblem(SizeOf(Collect(world, message, run.rest).blocks), run.rest, world.limit) = "none"

\* No more pieces are shortened than must be, none that was asked for whole, and none
\* of a message that fits.
AsFewAsPossible ==
    LET shortened == {i \in DOMAIN run.picks.blocks : run.picks.blocks[i].short}
        w == world
        whole == [i \in DOMAIN run.picks.blocks |-> Whole(w, run.picks.blocks[i].ref)]
        after(some) == [i \in DOMAIN whole |-> IF i \in some THEN Shorten(w, whole[i]) ELSE whole[i]]
    IN Goes /\ changed = {} /\ message.auto = "off" =>
         /\ shortened \subseteq Shortenable(w, message, whole)
         /\ \A i \in shortened, f \in message.full : ~IsPrefix(f, whole[i].ref)
         /\ \A some \in SUBSET Shortenable(w, message, whole) :
              Cardinality(some) < Cardinality(shortened) =>
                PicksProblem(SizeOf(after(some)), run.rest, w.limit) # "none"

\* What was approved is what is sent, if nothing has changed since the start.
ApprovedIsSent ==
    Goes /\ approved # NoPlan /\ changed = {} => Digest(run.picks, run.fit) = approved

\* Nothing is cut to fit: a section is what its blocks are, with the four characters that
\* number each when the answer is to cite.
Numbered(blocks) == SizeOf(blocks) + (IF message.cite THEN 4 * Len(blocks) ELSE 0)
NothingIsCutToFit == Goes => Numbered(run.picks.blocks) <= PicksBudget
=============================================================================
