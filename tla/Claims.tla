------------------------------- MODULE Claims -------------------------------
(***************************************************************************)
(* A summary that is written from cited facts: the CV is catalogued, a     *)
(* model writes lines that name the facts they rest on, and every sentence *)
(* is checked against the facts it names before anybody sees it            *)
(* (capabilities/cv/claims.ts, evidence.ts).                               *)
(*                                                                         *)
(* A fact is what it says: its characters without white space, of which    *)
(* digits and the unit behind them matter, the terms it states, the        *)
(* language levels and the language it is about.  A piece of prose is what *)
(* it states, how it ends and how long it is; its word is what tells it    *)
(* from another.                                                           *)
(***************************************************************************)
EXTENDS Naturals, Sequences, SequencesExt, FiniteSetsExt

CONSTANTS
    Cvs,            \* the documents that may be stored, each a sequence of facts
    Documents,      \* what a caller may pass: none or a document of its own
    Requirements,   \* the offer's, in their order: [id, category, term]
    Lines,          \* what a model may write: [marked, evidence, requirements, pieces]
    MaxChars,       \* max_chars
    MaxClaims, MinClaims, MaxFacts,
    MaxLines,       \* bound: lines of a draft
    MaxRevision     \* bound: revisions of the stored CV

VARIABLES
    stored,     \* the revisions of the stored CV; none is stored while it is empty
    source,     \* what the caller passed
    at,         \* the step the run is at, or how it ended
    material,   \* the catalogue step's facts, and the revision they are of
    draft,      \* the lines the model has written
    answer      \* what the caller is given

claimsVars == <<stored, source, at, material, draft, answer>>

NoDocument == <<>>
NoAnswer == [claims |-> <<>>, revision |-> 0]
Ends == {"invalid_input", "step_failed", "done"}

ClaimsInit ==
    /\ stored \in {<<>>} \cup {<<cv>> : cv \in Cvs} /\ source \in Documents
    /\ at = "catalogue" /\ material = [facts |-> {}, revision |-> 0]
    /\ draft = <<>> /\ answer = NoAnswer

-----------------------------------------------------------------------------
(* The catalogue: the facts a claim may cite; contact details are removed  *)
(* from each.                                                              *)
CatalogueOf(document) == Range(SubSeq(document, 1, Min({Len(document), MaxFacts})))

Catalogue ==
    LET facts == IF source # NoDocument THEN CatalogueOf(source)
                 ELSE IF stored = <<>> THEN {} ELSE CatalogueOf(Last(stored))
    IN /\ at = "catalogue"
       /\ IF Cardinality(facts) < MinClaims
          THEN at' = "invalid_input" /\ UNCHANGED material
          ELSE /\ at' = "write"
               /\ material' = [facts |-> facts,
                               revision |-> IF source # NoDocument THEN 0 ELSE Len(stored)]
       /\ UNCHANGED <<stored, source, draft, answer>>

\* The CV is stored anew beside the run.
Store(cv) ==
    /\ Len(stored) < MaxRevision /\ stored' = Append(stored, cv)
    /\ UNCHANGED <<source, at, material, draft, answer>>

Writes(line) ==
    /\ at = "write" /\ Len(draft) < MaxLines /\ draft' = Append(draft, line)
    /\ UNCHANGED <<stored, source, at, material, answer>>

-----------------------------------------------------------------------------
(* parseClaims: a marked line is a claim for each of its sentences; any    *)
(* other goes on a claim that has not ended, or is thrown away.            *)
Ended(text) == Last(text).ends # "no"
SentencesOf(text) ==
    LET cut(acc, piece) == IF acc = <<>> \/ Ended(Last(acc)) THEN Append(acc, <<piece>>)
                           ELSE Append(Front(acc), Append(Last(acc), piece))
    IN FoldLeft(cut, <<>>, text)
ParseClaims(lines) ==
    LET claim(line) == [s \in DOMAIN SentencesOf(line.pieces) |->
                          [text |-> SentencesOf(line.pieces)[s], evidence |-> line.evidence,
                           requirements |-> line.requirements]]
        read(acc, line) ==
          IF line.marked THEN acc \o claim(line)
          ELSE IF acc # <<>> /\ ~Ended(Last(acc).text)
               THEN Append(Front(acc), [Last(acc) EXCEPT !.text = @ \o line.pieces])
          ELSE acc
    IN FoldLeft(read, <<>>, lines)

-----------------------------------------------------------------------------
(* The checks.                                                             *)
All(text, what(_)) == UNION {what(text[i]) : i \in DOMAIN text}
Numbers(text) == All(text, LAMBDA p : p.numbers)
Terms(text) == All(text, LAMBDA p : p.terms)
Levels(text) == All(text, LAMBDA p : p.levels)
Words(text) == [i \in DOMAIN text |-> text[i].word]
Size(text) == MapThenSumSet(LAMBDA i : text[i].size, DOMAIN text) + Len(text) - 1

Fact(id, facts) == CHOOSE f \in facts : f.id = id
Ids(facts) == {f.id : f \in facts}
Existing(claim, facts) == SelectSeq(claim.evidence, LAMBDA id : id \in Ids(facts))
Cited(claim, facts) ==
    LET ids == Existing(claim, facts)
    IN [i \in DOMAIN ids |-> Fact(ids[i], facts)]

\* numbers: the expression wants a word's end behind the unit, so of the units only a
\* letter is read with the digits.  A token is looked for in all that is cited, which
\* is put together without white space.
Letters == {"k", "m", "b"}
Token(number) == number.digits \o (IF number.unit \in Letters THEN <<number.unit>> ELSE <<>>)
Includes(text, token) ==
    \E i \in 0..(Len(text) - Len(token)) : SubSeq(text, i + 1, i + Len(token)) = token
Invented(claim, facts) ==
    LET cited == Cited(claim, facts)
        digits == FlattenSeq([i \in DOMAIN cited |-> cited[i].says])
    IN {n \in Numbers(claim.text) : ~Includes(digits, Token(n))}

\* unevidenced: the skills the offer asks for and no fact states.
VacancyOnly(facts) ==
    {r.term : r \in {q \in Range(Requirements) : q.category = "skill"}}
      \ UNION {f.terms : f \in facts}

\* unsupportedLevels: one of the scale always, one in words where a language is meant.
Scale == {"B2", "C1"}
Languages(facts) == {f.language : f \in {g \in facts : g.kind = "language"}}
UnsupportedLevels(claim, facts) ==
    LET cited == {f \in Range(Cited(claim, facts)) : f.kind = "language"}
        carried == UNION {f.levels : f \in cited}
        about == cited # {} \/ All(claim.text, LAMBDA p : p.languages) \cap Languages(facts) # {}
    IN {l \in Levels(claim.text) : l \notin carried /\ (l \in Scale \/ about)}

\* A sentence of the CV's own description that is long enough to be one.
Previous(facts) == UNION {f.sentences : f \in {g \in facts : g.kind = "summary"}}
Copied(claim, facts) ==
    \E s \in Range(SentencesOf(claim.text)) : Words(s) \in Previous(facts)

Refused(claim, facts) ==
    \/ \E i \in DOMAIN claim.text : claim.text[i].contact
    \/ Copied(claim, facts)
    \/ Existing(claim, facts) = <<>>
    \/ Invented(claim, facts) # {}
    \/ Terms(claim.text) \cap VacancyOnly(facts) # {}

Unusable(claim, facts) ==
    \/ \E s \in Range(SentencesOf(claim.text)) : Last(s).ends # "full"
    \/ UnsupportedLevels(claim, facts) # {}

\* fitWithin: whole sentences, the first among them, as many characters as fit; of
\* choices as long the one that comes first.
Joined(claims) == MapThenSumSet(LAMBDA i : Size(claims[i].text), DOMAIN claims) + Len(claims) - 1
Floor == (6 * MaxChars + 9) \div 10
Pick(claims, chosen) == [i \in 1..Cardinality(chosen) |-> claims[SetToSortSeq(chosen, <)[i]]]
Mask(chosen) == SumSet({2 ^ i : i \in chosen})
Fitting(claims) ==
    {c \in SUBSET DOMAIN claims :
       /\ 1 \in c /\ Cardinality(c) >= MinClaims
       /\ Joined(Pick(claims, c)) \in Floor..MaxChars}
FitWithin(claims) ==
    IF Joined(claims) <= MaxChars THEN {claims}
    ELSE {Pick(claims, c) : c \in {d \in Fitting(claims) : \A e \in Fitting(claims) \ {d} :
            LET longer(x) == Joined(Pick(claims, x))
            IN longer(d) > longer(e) \/ (longer(d) = longer(e) /\ Mask(d) < Mask(e))}}

\* review: what is false refuses the run, what is unusable is dropped.
Keep(acc, claim, facts) ==
    IF acc.refused \/ Refused(claim, facts) THEN [acc EXCEPT !.refused = TRUE]
    ELSE IF Unusable(claim, facts) \/ Words(claim.text) \in {Words(k.text) : k \in Range(acc.kept)}
         THEN acc
    ELSE [acc EXCEPT !.kept = Append(@, [claim EXCEPT !.evidence = Existing(claim, facts),
             !.requirements = @ \cap {r.id : r \in Range(Requirements)}])]
Reviewed(lines, facts) ==
    LET parsed == ParseClaims(lines)
        done == FoldLeft(LAMBDA acc, c : Keep(acc, c, facts), [refused |-> FALSE, kept |-> <<>>],
                         SubSeq(parsed, 1, Min({Len(parsed), MaxClaims})))
    IN IF Len(parsed) < MinClaims \/ done.refused \/ Len(done.kept) < MinClaims THEN {}
       ELSE FitWithin(done.kept)

\* The review step, and aggregate: its value alone is the answer.
Review ==
    LET made == Reviewed(draft, material.facts)
    IN /\ at = "write"
       /\ IF made = {} THEN at' = "step_failed" /\ UNCHANGED answer
          ELSE /\ at' = "done"
               /\ answer' = [claims |-> CHOOSE m \in made : TRUE, revision |-> material.revision]
       /\ UNCHANGED <<stored, source, material, draft>>

\* generate: the model cannot be reached.
WriteFails ==
    /\ at = "write" /\ draft = <<>> /\ at' = "step_failed"
    /\ UNCHANGED <<stored, source, material, draft, answer>>

ClaimsNext ==
    \/ Catalogue \/ Review \/ WriteFails
    \/ \E cv \in Cvs : Store(cv)
    \/ \E line \in Lines : Writes(line)

-----------------------------------------------------------------------------
ClaimsTypeOK ==
    /\ at \in {"catalogue", "write"} \cup Ends
    /\ draft \in Seq(Lines) /\ (answer # NoAnswer <=> at = "done")

\* What the summary says rests on the CV it names, the one that was stored under that
\* revision or was passed: each claim cites facts of it and states no number and no
\* level that they do not, no skill that only the offer names, no contact, and no
\* sentence of the CV's own description.
ClaimsRestOnTheCv ==
    answer # NoAnswer =>
      LET document == IF answer.revision = 0 THEN source ELSE stored[answer.revision]
          facts == CatalogueOf(document)
      IN \A c \in Range(answer.claims) :
           /\ c.evidence # <<>> /\ Range(c.evidence) \subseteq Ids(facts)
           /\ Invented(c, facts) = {}
           /\ Levels(c.text) \cap Scale \subseteq UNION {f.levels : f \in Range(Cited(c, facts))}
           /\ Terms(c.text) \cap {r.term : r \in {q \in Range(Requirements) : q.category = "skill"}}
                \subseteq UNION {f.terms : f \in facts}
           /\ \A p \in Range(c.text) : ~p.contact
           /\ Words(c.text) \notin Previous(facts)

\* It is whole sentences, under the ceiling, and begins with what the draft began with
\* unless that was unusable; none is said twice.
SummaryIsWhole ==
    answer # NoAnswer =>
      LET claims == answer.claims
      IN /\ Joined(claims) <= MaxChars /\ Len(claims) \in MinClaims..MaxClaims
         /\ \A i, j \in DOMAIN claims : Words(claims[i].text) = Words(claims[j].text) => i = j
         /\ \A c \in Range(claims) : Last(c.text).ends = "full"
         /\ LET usable == SelectSeq(ParseClaims(draft), LAMBDA c : ~Unusable(c, material.facts))
            IN claims[1].text = usable[1].text

\* What the comment on numbers says of a unit: a number is supported by a fact that
\* states it with its unit.
UnitsAreSupported ==
    \A c \in Range(answer.claims), n \in UNION {Numbers(k.text) : k \in Range(answer.claims)} :
      n \in Numbers(c.text) /\ n.unit # "none" =>
        \E f \in Range(Cited(c, material.facts)) : Includes(f.says, Append(n.digits, n.unit))
=============================================================================
