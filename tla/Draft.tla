------------------------------- MODULE Draft -------------------------------
(***************************************************************************)
(* The application email for one offer (capabilities/apply/draft.ts and    *)
(* text.ts): what it is made of is gathered, a model writes the body, and  *)
(* what is parsed rather than written is done around it: the subject, the  *)
(* placeholders that are left, and whom it may go to.                      *)
(*                                                                         *)
(* A text is a sequence of pieces: words, addresses and bracketed spans.   *)
(* The span of a field the runtime knows says which; others say "other".   *)
(***************************************************************************)
EXTENDS Naturals, Sequences, SequencesExt, FiniteSets, Functions

CONSTANTS
    Requests,       \* [text, url, page, facts, passed]: the input, and what its url reads as
    StoredCvs,      \* the CV that is stored: none, or one candidate
    Found,          \* passages a search of the CV may find
    Letters,        \* what the model may write
    SuggestionLimit, PassageLimit, MinWords

VARIABLES
    request, cv,
    step,           \* the step that is next; failed, or returned
    source,         \* what the step `source' made: [text, candidate, passages]
    body,           \* what the model wrote
    review, recipient, \* what the two steps made, each none if it degraded
    result

draftVars == <<request, cv, step, source, body, review, recipient, result>>

Word(says) == [is |-> "word", says |-> says]
Slot(says) == [is |-> "slot", says |-> says]
Slots(text) == {p \in Range(text) : p.is = "slot"}

-----------------------------------------------------------------------------
(* findApplicationEmails *)
Unusable == {"noreply", "asset", "plumbing"}
Once(acc, piece) == IF Contains(acc, piece) THEN acc ELSE Append(acc, piece)
Mailboxes(text) ==
    FoldLeft(Once, <<>>, SelectSeq(text, LAMBDA p : p.is = "address" /\ p.says.kind \notin Unusable))
Upto(limit, list) == SubSeq(list, 1, IF Len(list) < limit THEN Len(list) ELSE limit)
SlipAsOnThePage(text) == Upto(SuggestionLimit, Mailboxes(text))
Suggested(text) ==
    LET found == Mailboxes(text)
    IN Upto(SuggestionLimit, SelectSeq(found, LAMBDA p : p.says.recruiting)
                               \o SelectSeq(found, LAMBDA p : ~p.says.recruiting))

(* reviewPlaceholders: one pass, each span for its value if that is known. *)
Known(made) ==
    [name |-> made.candidate.name, company |-> request.facts.company,
     position |-> request.facts.position, email |-> made.candidate.email, other |-> <<>>]
Fill(text, known) ==
    FlattenSeq([i \in DOMAIN text |->
                  IF text[i].is = "slot" /\ known[text[i].says] # <<>> THEN known[text[i].says] ELSE <<text[i]>>])
Filled(text, known) == {p \in Slots(text) : known[p.says] # <<>>}

\* subjectFor: a lead, what is applied for, and who applies.
Subject(made) == <<Word("application")>> \o request.facts.position \o made.candidate.name

\* reviewDraft
Reviewed(made) ==
    LET known == Known(made)
        subject == Fill(Subject(made), known)
        letter == Fill(body, known)
        unfilled == Slots(subject) \cup Slots(letter)
        says(word) == Word(word) \in Range(letter)
    IN [subject |-> subject, body |-> letter, unfilled |-> unfilled,
        filled |-> Filled(Subject(made), known) \cup Filled(body, known),
        warnings |-> {w \in {"unfilled", "short", "opening", "commentary"} :
                        CASE w = "unfilled" -> unfilled # {}
                          [] w = "short" -> Len(letter) < MinWords
                          [] w = "opening" -> letter # <<>> /\ letter[1] = Word("sure")
                          [] OTHER -> says("as an ai")}]

-----------------------------------------------------------------------------
NoCandidate == [name |-> <<>>, email |-> <<>>, highlights |-> <<>>]
NothingMade == [text |-> <<>>, candidate |-> NoCandidate, passages |-> <<>>]
NoReview == [subject |-> <<>>, body |-> <<>>, unfilled |-> {}, filled |-> {}, warnings |-> {}]
NoResult == [subject |-> <<>>, body |-> <<>>, unfilled |-> {}, warnings |-> {}, to |-> <<>>, hint |-> <<>>,
             passages |-> <<>>, confirm |-> FALSE]
DraftInit ==
    /\ request \in Requests /\ cv \in StoredCvs
    /\ step = "source" /\ source = NothingMade /\ body = <<>>
    /\ review = <<>> /\ recipient = <<>> /\ result = NoResult

Fails == step' = "failed" /\ UNCHANGED <<request, cv, source, body, review, recipient, result>>

\* The text given, else that of the page, which must be readable; the candidate that was
\* passed, else the stored one, which must be there; the passages the search finds, else,
\* as when it throws, the candidate's own in their order.
Gather ==
    /\ step = "source"
    /\ \E hits \in {<<>>} \cup Found :
         LET text == IF request.text # <<>> THEN request.text ELSE request.page
             candidates == IF request.passed # <<>> THEN request.passed ELSE cv
         IN /\ candidates # <<>>
            /\ request.text = <<>> /\ request.url => request.page # <<>>
            /\ source' = [text |-> text, candidate |-> candidates[1],
                          passages |-> IF hits # <<>> THEN hits ELSE Upto(PassageLimit, candidates[1].highlights)]
    /\ step' = "body"
    /\ UNCHANGED <<request, cv, body, review, recipient, result>>
SourceFails ==
    /\ step = "source"
    /\ \/ request.text = <<>> /\ request.url     \* the read throws, or nothing is readable
       \/ request.passed = <<>> /\ cv = <<>>
    /\ Fails

\* The one model call: truncated or empty it fails, and the run with it.
Write == step = "body" /\ body' \in Letters /\ step' = "recipient"
         /\ UNCHANGED <<request, cv, source, review, recipient, result>>
WriteFails == step = "body" /\ Fails

\* The two steps that finish it are not critical: each may be missing from the outcomes.
FindRecipient ==
    /\ step = "recipient" /\ step' = "review"
    /\ recipient' \in {<<>>, <<[to |-> Suggested(source.text \o request.facts.how_to_apply),
                                hint |-> request.facts.how_to_apply]>>}
    /\ UNCHANGED <<request, cv, source, body, review, result>>
Review ==
    /\ step = "review" /\ step' = "aggregate"
    /\ review' \in {<<>>, <<Reviewed(source)>>}
    /\ UNCHANGED <<request, cv, source, body, recipient, result>>

\* aggregate: by name, and the body as it was written if the review is missing.
Aggregate ==
    LET checked == IF review = <<>> THEN [NoReview EXCEPT !.body = body] ELSE review[1]
    IN /\ step = "aggregate" /\ step' = "returned"
       /\ result' = [subject |-> checked.subject, body |-> checked.body, unfilled |-> checked.unfilled,
                     warnings |-> checked.warnings,
                     to |-> IF recipient = <<>> THEN <<>> ELSE recipient[1].to,
                     hint |-> IF recipient = <<>> THEN <<>> ELSE recipient[1].hint,
                     passages |-> source.passages, confirm |-> TRUE]
       /\ UNCHANGED <<request, cv, source, body, review, recipient>>

DraftNext == Gather \/ SourceFails \/ Write \/ WriteFails \/ FindRecipient \/ Review \/ Aggregate

-----------------------------------------------------------------------------
Returned == step = "returned"
Words(text) == SelectSeq(text, LAMBDA p : p.is # "slot")
KeepsInOrder(words, text) ==
    FoldLeft(LAMBDA rest, p : IF rest # <<>> /\ rest[1] = p THEN Tail(rest) ELSE rest, words, text) = <<>>

DraftTypeOK ==
    /\ step \in {"source", "body", "recipient", "review", "aggregate", "failed", "returned"}
    /\ Len(review) <= 1 /\ Len(recipient) <= 1 /\ Returned => result.confirm

\* Whichever of the finishing steps is missing, what the model wrote is all there, in its
\* order; what could not be filled is still to be seen, and after a review nothing that
\* could be filled is left, and every span a reader would see is named, those that came
\* in with a value too.
LetterSurvives ==
    Returned =>
      /\ KeepsInOrder(Words(body), result.body)
      /\ \A p \in Slots(body) : Known(source)[p.says] = <<>> => p \in Range(result.body)
      /\ review # <<>> =>
           /\ Slots(result.body) \cup Slots(result.subject) = result.unfilled
           /\ "unfilled" \in result.warnings <=> result.unfilled # {}
           /\ \A p \in Slots(body) : Known(source)[p.says] # <<>> => Known(source)[p.says] \in SubSeqs(result.body)

\* What is suggested is an address somebody reads, each once, and no general one takes
\* the place of one that recruits.
SuggestionsAreMailboxes ==
    LET offered == Mailboxes(source.text \o request.facts.how_to_apply)
    IN Returned =>
         /\ Len(result.to) <= SuggestionLimit /\ IsInjective(result.to)
         /\ Range(result.to) \subseteq Range(offered)
         /\ recipient # <<>> /\ offered # <<>> => result.to # <<>>
         /\ \A i \in DOMAIN result.to : ~result.to[i].says.recruiting =>
              /\ \A j \in DOMAIN result.to : j > i => ~result.to[j].says.recruiting
              /\ \A p \in Range(offered) : p.says.recruiting => p \in Range(result.to)

\* The addresses suggested are those the offer's text holds.
SuggestedByTheOffer == Returned => Range(result.to) \subseteq Range(source.text)
=============================================================================
