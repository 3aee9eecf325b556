----------------------------- MODULE Translate -----------------------------
(***************************************************************************)
(* A CV in another language (capabilities/cv/translate.ts): the stored one *)
(* or one that is passed, without what the conversation excludes, goes to  *)
(* a model one section at a time; what comes back is held against the      *)
(* source field by field, and what was excluded is put back.               *)
(*                                                                         *)
(* A section is a list of entries, one in the overview's sections.  A text *)
(* is its language and the numbers in it; what a section copies, names,    *)
(* links and technologies, is `fixed'.                                     *)
(***************************************************************************)
EXTENDS Naturals, Sequences, SequencesExt, FiniteSetsExt

CONSTANTS
    Documents,      \* documents a person may have
    Exclusions,     \* what may be excluded: <<section>> of the overview, <<"contact">>, <<section, index>>
    Selections,     \* `sections': which of them are asked for
    MaxDeviations   \* bound: answers of one run that are not as they were asked for

VARIABLES
    given,          \* [document, cut, wanted]: what is translated
    answers,        \* per section that was answered: the model's answer
    outcome,        \* [at, document]: where the run stands, and what it returns
    deviations

translateVars == <<given, answers, outcome, deviations>>

Overview == {"personal", "role_description", "skills"}
Lists == {"experience", "education", "certificates", "languages"}
Sections == Overview \cup Lists

Blank == [in |-> "", numbers |-> <<>>]
Ongoing == [in |-> "ongoing", numbers |-> <<>>]     \* the null end date
Nothing == [in |-> "nothing", numbers |-> <<>>]     \* an answer that is missing or no text
EmptyEntry == [fixed |-> "", fields |-> <<>>, highlights |-> <<>>]
NoDocument == [s \in Sections |-> <<>>]

-----------------------------------------------------------------------------
(* What is excluded is not translated. *)
Blanked(entry) == [entry EXCEPT !.fixed = "", !.fields = [i \in DOMAIN @ |-> Blank]]
Shown(doc, cut) ==
    [s \in Sections |->
       IF s \in Lists
       THEN LET left == SetToSortSeq({i \in DOMAIN doc[s] : <<s, i>> \notin cut}, <)
            IN [k \in DOMAIN left |-> doc[s][left[k]]]
       ELSE IF <<s>> \in cut THEN <<Blanked(doc[s][1])>>
       ELSE IF s = "personal" /\ <<"contact">> \in cut THEN <<[doc[s][1] EXCEPT !.fixed = ""]>>
       ELSE doc[s]]

\* restoreCv: at the index each had, in ascending order.
PutBack(list, entries, indices) ==
    FoldLeft(LAMBDA acc, i : InsertAt(acc, Min({i, Len(acc) + 1}), entries[i]),
             list, SetToSortSeq(indices, <))
Restored(made, doc, cut) ==
    [s \in Sections |->
       IF s \in Lists THEN PutBack(made[s], doc[s], {i \in DOMAIN doc[s] : <<s, i>> \in cut})
       ELSE IF <<s>> \in cut THEN doc[s]
       ELSE IF s = "personal" /\ <<"contact">> \in cut THEN <<[made[s][1] EXCEPT !.fixed = doc[s][1].fixed]>>
       ELSE made[s]]

-----------------------------------------------------------------------------
(* numberDrift: each number of the source is looked for in what is left of  *)
(* the answer's; some are lost, and some are left over.                     *)
Look(acc, token) ==
    LET found == {i \in DOMAIN acc.remaining : acc.remaining[i] = token}
    IN IF found = {} THEN [acc EXCEPT !.lost = Append(@, token)]
       ELSE [acc EXCEPT !.remaining = RemoveAt(@, Min(found))]
Compared(source, answer) ==
    FoldLeft(Look, [lost |-> <<>>, remaining |-> answer], source)
SlipOnlyLost(source, answer) == Compared(source, answer).lost # <<>>

NumberDrift(source, answer) ==
    Compared(source, answer) # [lost |-> <<>>, remaining |-> <<>>]

\* translated and endDate: whether an answer is taken, and what is made of it.
Taken(source, answer) ==
    source \in {Blank, Ongoing}
      \/ (answer \notin {Blank, Nothing} /\ ~NumberDrift(source.numbers, answer.numbers))
Text(source, answer) == IF source \in {Blank, Ongoing} THEN source ELSE answer

EntryTaken(entry, answer) ==
    /\ Len(answer.highlights) = Len(entry.highlights)
    /\ \A i \in DOMAIN entry.fields : Taken(entry.fields[i], answer.fields[i])
    /\ \A i \in DOMAIN entry.highlights : Taken(entry.highlights[i], answer.highlights[i])
EntryOf(entry, answer) ==
    [fixed |-> entry.fixed,
     fields |-> [i \in DOMAIN entry.fields |-> Text(entry.fields[i], answer.fields[i])],
     highlights |-> [i \in DOMAIN entry.highlights |-> Text(entry.highlights[i], answer.highlights[i])]]

SectionTaken(list, answer) ==
    Len(answer) = Len(list) /\ \A i \in DOMAIN list : EntryTaken(list[i], answer[i])
SectionOf(list, answer) == [i \in DOMAIN list |-> EntryOf(list[i], answer[i])]

-----------------------------------------------------------------------------
(* What a model may answer: as it was asked, or not, down to the text it was given. *)
In(text) == IF text.in = "source" THEN [text EXCEPT !.in = "target"] ELSE text
Asked(entry) ==
    [fixed |-> "", fields |-> [i \in DOMAIN entry.fields |-> In(entry.fields[i])],
     highlights |-> [i \in DOMAIN entry.highlights |-> In(entry.highlights[i])]]
Otherwise(text) ==
    {text, Blank, Nothing, [text EXCEPT !.in = "target", !.numbers = Reverse(@)],
     [text EXCEPT !.in = "target", !.numbers = Append(@, 7)],
     [text EXCEPT !.in = "target", !.numbers = IF @ = <<>> THEN @ ELSE Tail(@)]}
EntryOtherwise(entry) ==
    LET asked == Asked(entry)
    IN UNION {{[asked EXCEPT !.fields[i] = t] : t \in Otherwise(entry.fields[i])} : i \in DOMAIN entry.fields}
         \cup UNION {{[asked EXCEPT !.highlights[i] = t] : t \in Otherwise(entry.highlights[i])}
                       : i \in DOMAIN entry.highlights}
         \cup {[asked EXCEPT !.highlights = Append(@, [in |-> "target", numbers |-> <<>>])]}
         \cup {[asked EXCEPT !.highlights = Front(@)] : x \in {1} \cap DOMAIN entry.highlights}
AsAsked(list) == [i \in DOMAIN list |-> Asked(list[i])]
OtherAnswers(list) ==
    UNION {{[AsAsked(list) EXCEPT ![i] = e] : e \in EntryOtherwise(list[i])} : i \in DOMAIN list}
      \cup {Front(AsAsked(list)) : x \in {1} \cap DOMAIN list}
      \cup {Append(AsAsked(list), EmptyEntry), Reverse(AsAsked(list))}

-----------------------------------------------------------------------------
TranslateInit ==
    /\ given \in [document : Documents, cut : Exclusions, wanted : Selections]
    /\ answers = <<>> /\ outcome = [at |-> "reading", document |-> NoDocument] /\ deviations = 0

\* The step `source', which finds no CV to translate if there is none.
Read ==
    /\ outcome.at = "reading"
    /\ outcome' = [outcome EXCEPT !.at = IF given.document = NoDocument THEN "failed" ELSE "translating"]
    /\ UNCHANGED <<given, answers, deviations>>

\* The steps of the stage share nothing and end in any order; each is critical.
Source == Shown(given.document, given.cut)
Unanswered(s) == outcome.at = "translating" /\ s \in given.wanted \ DOMAIN answers
Answer(s, answer) ==
    /\ answers' = [t \in DOMAIN answers \cup {s} |-> IF t = s THEN answer ELSE answers[t]]
    /\ UNCHANGED <<given, outcome>>
AnswerAsAsked(s) == Unanswered(s) /\ Answer(s, AsAsked(Source[s])) /\ UNCHANGED deviations
AnswerOtherwise(s) ==
    /\ Unanswered(s) /\ deviations < MaxDeviations /\ deviations' = deviations + 1
    /\ \E answer \in OtherAnswers(Source[s]) :
         (s \in Overview => Len(answer) = 1 /\ answer[1].highlights = <<>>) /\ Answer(s, answer)
AnswerFails(s) ==
    /\ Unanswered(s)
    /\ outcome' = [outcome EXCEPT !.at = "failed"]
    /\ UNCHANGED <<given, answers, deviations>>

\* assemble, and what was never shown put back.
Assembled == [s \in Sections |-> IF s \in given.wanted THEN SectionOf(Source[s], answers[s]) ELSE Source[s]]
Assemble ==
    /\ outcome.at = "translating" /\ DOMAIN answers = given.wanted
    /\ outcome' = IF \A s \in given.wanted : SectionTaken(Source[s], answers[s])
                  THEN [at |-> "returned", document |-> Restored(Assembled, given.document, given.cut)]
                  ELSE [outcome EXCEPT !.at = "failed"]
    /\ UNCHANGED <<given, answers, deviations>>

TranslateNext ==
    \/ Read \/ Assemble
    \/ \E s \in Sections : AnswerAsAsked(s) \/ AnswerOtherwise(s) \/ AnswerFails(s)

-----------------------------------------------------------------------------
Returned == outcome.at = "returned"
SameNumbers(a, b) == \A n \in Range(a) \cup Range(b) :
    Cardinality({i \in DOMAIN a : a[i] = n}) = Cardinality({i \in DOMAIN b : b[i] = n})

TranslateTypeOK ==
    /\ DOMAIN answers \subseteq given.wanted /\ deviations \in 0..MaxDeviations
    /\ outcome.at \in {"reading", "translating", "failed", "returned"}
    /\ Returned => \A s \in Overview : Len(outcome.document[s]) = 1

\* Whatever the model answers, what is returned says what the source says: as many
\* entries and highlights, each in its place, with its numbers, its blanks, its ongoing
\* roles and what is copied; what was excluded and what was not asked for is as it was.
FactsSurvive ==
    Returned => \A s \in Sections :
      LET was == given.document[s] is == outcome.document[s]
          untouched(i) == s \notin given.wanted \/ <<s>> \in given.cut \/ <<s, i>> \in given.cut
      IN /\ Len(is) = Len(was)
         /\ \A i \in DOMAIN was :
              /\ untouched(i) => is[i] = was[i]
              /\ is[i].fixed = was[i].fixed /\ Len(is[i].highlights) = Len(was[i].highlights)
              /\ \A k \in DOMAIN was[i].fields :
                   /\ SameNumbers(was[i].fields[k].numbers, is[i].fields[k].numbers)
                   /\ was[i].fields[k] \in {Blank, Ongoing} => is[i].fields[k] = was[i].fields[k]
              /\ \A k \in DOMAIN was[i].highlights :
                   SameNumbers(was[i].highlights[k].numbers, is[i].highlights[k].numbers)
=============================================================================
