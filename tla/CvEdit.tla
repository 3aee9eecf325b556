------------------------------- MODULE CvEdit -------------------------------
(***************************************************************************)
(* The text of a CV as it is changed: by an edit, which proposes one       *)
(* section anew from what a conversation lets a model see of it            *)
(* (capabilities/cv/edit.ts, walls.ts, well.ts, target.ts), by accepting   *)
(* that proposal (storage/sqlite/cv-lifecycle.ts), by an import, which is  *)
(* merged in (merge.ts), and by a person, who writes it.                   *)
(*                                                                         *)
(* A string is a word and the case it is written in.  experience stands    *)
(* for the sections whose entries have an end and statements, languages    *)
(* for those whose entries are a name.                                     *)
(***************************************************************************)
EXTENDS JsonChanges

CONSTANTS
    Firsts,         \* the CV as it is at first
    Written,        \* what a person may write instead
    Imports,        \* what is found in a source
    Strings, Entries, Rows,     \* what a model may answer with: strings, entries, rows of skills
    Exclusions,     \* sets of paths that a conversation may leave out
    MaxDocs         \* bound: documents stored one after the other

VARIABLES
    docs,       \* the stored documents, the last is the one stored now
    walls,      \* what the conversation leaves out when an edit reads
    edit,       \* the edit run under way: section, revision it read, document shown, what was cut
    proposal    \* what an edit proposed and nobody has accepted
editVars == <<docs, walls, edit, proposal>>

Stored == Last(docs)
None == [state |-> "none"]

Blank == <<"", 0>>
Ongoing == <<"ongoing", 0>>
Lower(s) == s[1]
IsBlank(s) == s = Blank

OverviewFields == {"personal", "role_description", "skills"}
ListSections == {"experience", "languages"}
SectionNames == OverviewFields \cup ListSections

\* normaliseSkills: the rows are the strip; two of the arrays of before are rebuilt from
\* them, and where there are no rows they are the rows.
LegacyLabel == [languages |-> <<"languages", 2>>, tools |-> <<"tools", 2>>]
FieldFor(label) == IF Lower(label) = "languages" THEN "languages" ELSE "tools"
LegacyRows(skills) ==
    FlattenSeq([i \in 1..2 |->
        LET field == <<"languages", "tools">>[i]
        IN IF skills[field] = <<>> THEN <<>>
           ELSE <<[label |-> LegacyLabel[field], items |-> skills[field]]>>])
NormaliseSkills(skills) ==
    LET groups == IF skills.groups # <<>> THEN skills.groups ELSE LegacyRows(skills)
        items(field) == FlattenSeq([i \in DOMAIN groups |->
                          IF FieldFor(groups[i].label) = field THEN groups[i].items ELSE <<>>])
    IN [role |-> skills.role, groups |-> groups,
        languages |-> items("languages"), tools |-> items("tools")]
NormaliseCv(doc) == [doc EXCEPT !.skills = NormaliseSkills(@)]

Empty ==
    [personal |-> [name |-> Blank, contact |-> Blank], role_description |-> Blank,
     skills |-> [role |-> Blank, groups |-> <<>>, languages |-> <<>>, tools |-> <<>>],
     experience |-> <<>>, languages |-> <<>>, sources |-> <<>>]

-----------------------------------------------------------------------------
\* Addresses: an entry is called by what it says, and by how many before it say the same.
KeysOf(entries) ==
    [i \in DOMAIN entries |->
       <<Lower(entries[i].of),
         Cardinality({j \in 1..i : Lower(entries[j].of) = Lower(entries[i].of)})>>]

\* contains: a wall covers what its path leads to.
IsWalled(excluded, path) == \E w \in excluded : IsPrefix(w, path)

\* cvView: what is left of a document, and what was taken out with where it was.
CutFields(doc, excluded) == {f \in OverviewFields : IsWalled(excluded, <<"overview", f>>)}
CutContact(doc, excluded) ==
    "personal" \notin CutFields(doc, excluded) /\ IsWalled(excluded, <<"overview", "contact">>)
CutEntries(doc, excluded, section) ==
    {i \in DOMAIN doc[section] : IsWalled(excluded, <<section, KeysOf(doc[section])[i]>>)}
Shown(doc, excluded) ==
    LET cut == CutFields(doc, excluded)
        left(section) ==
          LET gone == CutEntries(doc, excluded, section)
          IN [k \in 1..(Len(doc[section]) - Cardinality(gone)) |->
                doc[section][SetToSortSeq(DOMAIN doc[section] \ gone, <)[k]]]
    IN [f \in DOMAIN doc |->
          IF f \in cut THEN Empty[f]
          ELSE IF f = "personal" /\ CutContact(doc, excluded)
               THEN [doc.personal EXCEPT !.contact = Blank]
          ELSE IF f \in ListSections THEN left(f)
          ELSE IF f = "sources" /\ IsWalled(excluded, <<>>) THEN <<>>
          ELSE doc[f]]
Withheld(doc, excluded) ==
    [fields |-> [f \in CutFields(doc, excluded) |-> doc[f]],
     contact |-> IF CutContact(doc, excluded) THEN <<doc.personal.contact>> ELSE <<>>,
     entries |-> [s \in ListSections |->
                    LET gone == SetToSortSeq(CutEntries(doc, excluded, s), <)
                    IN [k \in DOMAIN gone |-> [index |-> gone[k], entry |-> doc[s][gone[k]]]]],
     sources |-> IF IsWalled(excluded, <<>>) THEN <<doc.sources>> ELSE <<>>]

\* cvTargetWalled: nothing of the section is left to edit.
TargetWalled(excluded, section, doc) ==
    IF section \in OverviewFields THEN IsWalled(excluded, <<"overview", section>>)
    ELSE \/ IsWalled(excluded, <<section>>)
         \/ doc[section] # <<>> /\ Shown(doc, excluded)[section] = <<>>

\* restoreCv: entries at the index each had, in ascending order, the last at the end.
SlipPutsBackAtTheEnd(list, cut) == list \o [k \in DOMAIN cut |-> cut[k].entry]

PutBack(list, cut) ==
    FoldLeft(LAMBDA acc, c : InsertAt(acc, Min({c.index, Len(acc) + 1}), c.entry), list, cut)

RestoreCv(doc, withheld) ==
    [f \in DOMAIN doc |->
       IF f \in DOMAIN withheld.fields THEN withheld.fields[f]
       ELSE IF f = "personal" /\ withheld.contact # <<>>
            THEN [doc.personal EXCEPT !.contact = withheld.contact[1]]
       ELSE IF f \in ListSections THEN PutBack(doc[f], withheld.entries[f])
       ELSE IF f = "sources" /\ withheld.sources # <<>> THEN withheld.sources[1]
       ELSE doc[f]]

-----------------------------------------------------------------------------
\* The document as the values that are compared.
EntryJson(e) == RecordOf([of |-> Atom(e.of), finished |-> Atom(e.finished),
                          highlights |-> ListOf([i \in DOMAIN e.highlights |-> Atom(e.highlights[i])])])
RowJson(g) == RecordOf([label |-> Atom(g.label),
                        items |-> ListOf([i \in DOMAIN g.items |-> Atom(g.items[i])])])
Each(Op(_), s) == ListOf([i \in DOMAIN s |-> Op(s[i])])
AsJson(doc) ==
    RecordOf([personal |-> RecordOf([name |-> Atom(doc.personal.name),
                                     contact |-> Atom(doc.personal.contact)]),
              role_description |-> Atom(doc.role_description),
              skills |-> RecordOf([role |-> Atom(doc.skills.role),
                                   groups |-> Each(RowJson, doc.skills.groups),
                                   languages |-> Each(Atom, doc.skills.languages),
                                   tools |-> Each(Atom, doc.skills.tools)]),
              experience |-> Each(EntryJson, doc.experience),
              languages |-> Each(EntryJson, doc.languages),
              sources |-> Each(Atom, doc.sources)])

\* What a model may make of a section it is shown: anything, here some of it.
Answers(section, shown) ==
    CASE section = "personal" -> {[name |-> s, contact |-> t] : s, t \in Strings}
      [] section = "role_description" -> Strings
      [] section = "skills" ->
           {[role |-> shown.role, groups |-> g, languages |-> <<>>, tools |-> <<>>] :
              g \in {shown.groups, Reverse(shown.groups), <<>>} \cup {Append(shown.groups, r) : r \in Rows}}
      [] OTHER ->
           {shown, Reverse(shown), <<>>} \cup {<<e>> \o shown : e \in Entries}
             \cup {[shown EXCEPT ![i].highlights = Append(@, s)] : i \in DOMAIN shown, s \in Strings}

-----------------------------------------------------------------------------
CvEditInit ==
    /\ \E first \in Firsts : docs = <<NormaliseCv(first)>>
    /\ walls \in Exclusions /\ edit = None /\ proposal = None

\* needs, source: an edit is aimed, and reads the stored CV as it is cut now.  One that
\* could not be accepted within the bound is not begun.
Aim(section) ==
    /\ edit.state \in {"none", "target_excluded"} /\ proposal = None /\ Len(docs) < MaxDocs
    /\ edit' = IF TargetWalled(walls, section, Stored) THEN [state |-> "target_excluded"]
               ELSE [state |-> "revising", section |-> section, base |-> Len(docs),
                     shown |-> Shown(Stored, walls), withheld |-> Withheld(Stored, walls)]
    /\ UNCHANGED <<docs, walls, proposal>>

\* merge, proposalChanges: the section is replaced, what was cut goes back, and the
\* proposal is the document with its differences; one that reaches another section is
\* refused.
Proposed(answer) ==
    LET merged == [edit.shown EXCEPT ![edit.section] =
                     IF edit.section = "skills" THEN NormaliseSkills(answer) ELSE answer]
    IN NormaliseCv(RestoreCv(merged, edit.withheld))
Original == RestoreCv(edit.shown, edit.withheld)
Revise(answer) ==
    LET changes == Diff(AsJson(Original), AsJson(Proposed(answer)))
    IN /\ edit.state = "revising"
       /\ IF Outside(changes, edit.section) # <<>>
          THEN edit' = [state |-> "proposal_out_of_scope"] /\ UNCHANGED proposal
          ELSE /\ edit' = None
               /\ proposal' = [state |-> "pending", section |-> edit.section, base |-> edit.base,
                               document |-> Proposed(answer), changes |-> changes,
                               withheld |-> edit.withheld]
       /\ UNCHANGED <<docs, walls>>

\* accept, written: the changes are applied to what is stored, if that is still what the
\* edit read, and have to make the document that was proposed.
Accept ==
    LET result == Apply(AsJson(Stored), proposal.changes)
    IN /\ proposal.state = "pending"
       /\ IF proposal.base # Len(docs) THEN proposal' = None /\ UNCHANGED docs
          ELSE IF ~result.ok \/ result.value # AsJson(proposal.document)
               THEN proposal' = [proposal EXCEPT !.state = "context_conflict"] /\ UNCHANGED docs
          ELSE proposal' = None /\ Len(docs) < MaxDocs /\ docs' = Append(docs, proposal.document)
       /\ UNCHANGED <<walls, edit>>
Discard ==
    proposal.state = "pending" /\ proposal' = None /\ UNCHANGED <<docs, walls, edit>>

\* profile.update: a person writes the document; it is normalised on the way in.
Write(doc) ==
    /\ Len(docs) < MaxDocs /\ docs' = Append(docs, NormaliseCv(doc))
    /\ UNCHANGED <<walls, edit, proposal>>

-----------------------------------------------------------------------------
\* mergeDocument: an import adds, and fills what is blank.
Fill(old, new) == IF IsBlank(old) THEN new ELSE old
UnionStrings(old, new) ==
    FoldLeft(LAMBDA acc, s : IF IsBlank(s) \/ \E i \in DOMAIN acc : Lower(acc[i]) = Lower(s) THEN acc
                             ELSE Append(acc, s), old, new)
MergeRows(old, new) ==
    FoldLeft(LAMBDA acc, g :
               LET at == {i \in DOMAIN acc : Lower(acc[i].label) = Lower(g.label)}
               IN IF at = {} THEN Append(acc, [label |-> g.label, items |-> UnionStrings(<<>>, g.items)])
                  ELSE [acc EXCEPT ![Max(at)].items = UnionStrings(@, g.items)],
             old, new)
\* An end that is not stated may be filled; one that is ongoing may not be closed.
MergeEntry(old, new) ==
    [old EXCEPT !.highlights = UnionStrings(@, new.highlights),
                !.finished = IF IsBlank(@) /\ new.finished # Ongoing THEN new.finished ELSE @]
SlipMergesAnew(old, new) == new

MergeKnown(old, new) == MergeEntry(old, new)

MergeEntries(old, new, known(_, _)) ==
    FoldLeft(LAMBDA acc, e :
               LET at == {i \in DOMAIN acc : Lower(acc[i].of) = Lower(e.of)}
               IN IF at = {} THEN Append(acc, e)
                  ELSE [acc EXCEPT ![Min(at)] = known(@, e)],
             old, new)
MergeDocument(old, new) ==
    LET doc == NormaliseCv(old)
        rows == IF new.skills.groups # <<>> THEN new.skills.groups ELSE LegacyRows(new.skills)
    IN [personal |-> [name |-> Fill(doc.personal.name, new.personal.name),
                      contact |-> Fill(doc.personal.contact, new.personal.contact)],
        role_description |-> Fill(doc.role_description, new.role_description),
        skills |-> NormaliseSkills([doc.skills EXCEPT !.role = Fill(@, new.skills.role),
                                                      !.groups = MergeRows(@, rows)]),
        experience |-> MergeEntries(doc.experience, new.experience, MergeKnown),
        languages |-> MergeEntries(doc.languages, new.languages, LAMBDA a, b : a),
        sources |-> doc.sources \o new.sources]
Import(found) ==
    /\ Len(docs) < MaxDocs /\ docs' = Append(docs, MergeDocument(Stored, found))
    /\ UNCHANGED <<walls, edit, proposal>>

CvEditNext ==
    \/ \E s \in SectionNames : Aim(s)
    \/ edit.state = "revising" /\ \E a \in Answers(edit.section, edit.shown[edit.section]) : Revise(a)
    \/ Accept \/ Discard
    \/ \E d \in Written : Write(d)
    \/ \E f \in Imports : Import(f)

-----------------------------------------------------------------------------
\* A proposal is its changes: they make the document it holds of the one it was made
\* for, all of them in its section; applied to any other document that has been stored
\* they either do not apply, or replace and remove only what they show, so that taking
\* them back gives that document.
ProposalIsItsChanges ==
    proposal # None =>
      /\ Apply(AsJson(docs[proposal.base]), proposal.changes) = Applied(AsJson(proposal.document))
      /\ \A i \in DOMAIN docs :
           LET result == Apply(AsJson(docs[i]), proposal.changes)
           IN result.ok => Apply(result.value, Undo(proposal.changes)) = Applied(AsJson(docs[i]))
      /\ \A f \in DOMAIN proposal.document \ {proposal.section} :
           proposal.document[f] = docs[proposal.base][f]

\* No edit and no accept is refused for what the program did: only for a target that is
\* left out, and for a CV that has changed since.
RefusedWithReason ==
    edit.state # "proposal_out_of_scope" /\ proposal.state # "context_conflict"

\* An edit made behind exclusions leaves what was excluded as it was: overview items and
\* contact details, and entries of a list in their order, each where it was, or after
\* what the model left when that is less than there was before it.
ExcludedSurvivesEdit ==
    proposal # None =>
      LET w == proposal.withheld
          doc == proposal.document
      IN /\ \A f \in DOMAIN w.fields : doc[f] = w.fields[f]
         /\ w.contact # <<>> => doc.personal.contact = w.contact[1]
         /\ \A s \in ListSections : \A k \in DOMAIN w.entries[s] :
              LET c == w.entries[s][k]
                  left == Len(doc[s]) - Len(w.entries[s])
              IN doc[s][Min({c.index, left + k})] = c.entry

\* An import takes nothing away: what was said is said as it was, in the order it was;
\* the same source again adds nothing.
Kept(old, new) == IsBlank(old) \/ old = new
OnlyAdds(old, new) ==
    /\ Kept(old.personal.name, new.personal.name)
    /\ Kept(old.personal.contact, new.personal.contact)
    /\ Kept(old.role_description, new.role_description) /\ Kept(old.skills.role, new.skills.role)
    /\ \A i \in DOMAIN old.skills.groups :
         /\ new.skills.groups[i].label = old.skills.groups[i].label
         /\ IsPrefix(old.skills.groups[i].items, new.skills.groups[i].items)
    /\ \A s \in ListSections : \A i \in DOMAIN old[s] :
         /\ new[s][i].of = old[s][i].of /\ Kept(old[s][i].finished, new[s][i].finished)
         /\ IsPrefix(old[s][i].highlights, new[s][i].highlights)
    /\ IsPrefix(old.sources, new.sources)
ImportOnlyAdds ==
    \A f \in Imports :
      docs' # docs /\ Import(f) =>
        /\ OnlyAdds(Stored, Stored')
        /\ MergeDocument(Stored', [f EXCEPT !.sources = <<>>]) = Stored'
=============================================================================
