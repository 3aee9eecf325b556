----------------------------- MODULE CvReading -----------------------------
(***************************************************************************)
(* What a chat's tools read of its CV, what is left out of it, and what    *)
(* the record says the model was given: read_cv (capabilities/cv/tools.ts) *)
(* and search_profile (tools/index.ts) over the walled ports               *)
(* (runtime/walls.ts) and the recording ones (runtime/grounding.ts), with  *)
(* the run's record book and its rows.                                     *)
(*                                                                         *)
(* A piece's digest is the piece.  Of the list sections there is one, and  *)
(* what a page has room for is counted in units of its pieces' sizes.  The *)
(* order the two engines rank passages in is any.  A search waits for its  *)
(* query to be embedded; what follows it is not interrupted, since the     *)
(* file is one process's here.                                             *)
(***************************************************************************)
EXTENDS Naturals, Sequences, SequencesExt, FiniteSets, FiniteSetsExt, Functions

CONSTANTS
    Documents,      \* [personal, contact, role_description, skills, experience]
    ExclusionLists, \* sets of paths
    Budget,         \* read_cv's content, search_profile's passages
    PassageBudget,
    PageSize,
    MaxRevision, MaxChanges, MaxCalls, MaxFailures

VARIABLES
    docs,       \* the revisions of the CV
    indexed,    \* the revision the index holds passages of, 0 for none
    excluded,
    changes,    \* of the exclusions
    search,     \* whether one waits for its query's vector
    store,      \* the record's rows
    book,       \* what the run holds of them, <<>> or <<entries>>
    calls, failures,
    handed      \* what the model was given: [path, says, revision, barred]

readingVars == <<docs, indexed, excluded, changes, search, store, book, calls, failures, handed>>

-----------------------------------------------------------------------------
(* The CV as a well *)
Stored == Last(docs)
Revision == Len(docs)
Overview == <<"personal", "role_description", "skills">>

\* keysOf: a name already taken gets a number.
KeysOf(entries) ==
    [i \in DOMAIN entries |->
       <<entries[i].name, Cardinality({j \in 1..i : entries[j].name = entries[i].name})>>]
PathOf(doc, i) == <<"experience", KeysOf(doc.experience)[i]>>
Paths(doc) ==
    {<<>>} \cup {<<"overview", item>> : item \in Range(Overview) \cup {"contact"}}
      \cup {PathOf(doc, i) : i \in DOMAIN doc.experience}
PieceAt(doc, path) ==
    IF path = <<>> THEN doc
    ELSE IF path[1] = "overview" THEN doc[path[2]]
    ELSE doc.experience[CHOOSE i \in DOMAIN doc.experience : PathOf(doc, i) = path]

\* contains: a wall covers what its path leads to; it touches what it is inside of as well.
Walled(walls, path) == \E wall \in walls : IsPrefix(wall, path)
Touched(walls, path) == Walled(walls, path) \/ \E wall \in walls : IsPrefix(path, wall)

\* cvView: the contact details go with the personal details they are part of.
SlipContactApart(item) == Walled(excluded, <<"overview", item>>)
ItemCut(item) ==
    \/ Walled(excluded, <<"overview", item>>)
    \/ item = "contact" /\ Walled(excluded, <<"overview", "personal">>)

EntryCut(i) == Walled(excluded, PathOf(Stored, i))
AnyCut ==
    \/ Walled(excluded, <<>>) \/ \E item \in Range(Overview) \cup {"contact"} : ItemCut(item)
    \/ \E i \in DOMAIN Stored.experience : EntryCut(i)
Rows == SetToSortSeq({i \in DOMAIN Stored.experience : ~EntryCut(i)}, <)
\* For each entry that is shown, the key it has in the document as it is stored.
SlipKeysOfShown(rows) == KeysOf([k \in DOMAIN rows |-> Stored.experience[rows[k]]])
FrameKeys(rows) == [k \in DOMAIN rows |-> KeysOf(Stored.experience)[rows[k]]]

Left ==
    IF AnyCut
    THEN <<"left", {item \in Range(Overview) \cup {"contact"} : ItemCut(item)}, Rows, Walled(excluded, <<>>)>>
    ELSE <<>>

-----------------------------------------------------------------------------
(* The record *)
Entry(path, shown, status, via) ==
    [ref |-> path, version |-> Revision, digest |-> PieceAt(Stored, path), shown |-> shown,
     status |-> status, via |-> via]
Held == IF book = <<>> THEN store ELSE book[1]
\* Equal entries are one, in the order each was first added.
Fresh(held, entries) ==
    FoldLeft(LAMBDA fresh, e : IF e \in Range(held) \cup Range(fresh) THEN fresh ELSE Append(fresh, e),
             <<>>, entries)
\* add: what the file did not take is forgotten, so that it is recorded when it is read again.
SlipKeepsTheBook(held) == <<held>>
Forgotten(held) == <<>>

\* What is held when the first n of a tool's reports have been added, one after the other.
After(reports, n) == FoldLeft(LAMBDA held, report : held \o Fresh(held, report), Held, SubSeq(reports, 1, n))
Recorded(reports) ==
    /\ store' = After(reports, Len(reports)) /\ book' = <<After(reports, Len(reports))>>
    /\ UNCHANGED failures
\* The file refuses one of the reports: the tool fails there, and hands nothing over.
Refused(reports) ==
    /\ failures < MaxFailures /\ failures' = failures + 1
    /\ \E n \in DOMAIN reports :
         /\ Fresh(After(reports, n - 1), reports[n]) # <<>>
         /\ store' = After(reports, n - 1) /\ book' = Forgotten(After(reports, n))
    /\ UNCHANGED handed

Given(path, says) == [path |-> path, says |-> says, revision |-> Revision, barred |-> excluded]
Handing(reports, given) ==
    /\ \/ Recorded(reports) /\ handed' = handed \cup given
       \/ Refused(reports)
    /\ UNCHANGED <<docs, indexed, excluded, changes>>

-----------------------------------------------------------------------------
ReadingInit ==
    /\ docs \in {<<doc>> : doc \in Documents}
    /\ indexed = 0 /\ excluded \in ExclusionLists
    /\ changes = 0 /\ search = FALSE /\ store = <<>> /\ book = <<>> /\ calls = 0 /\ failures = 0
    /\ handed = {}

\* A person's other windows: an edit clears the index, which is built again, and what is
\* excluded is read at every access.
Edit ==
    /\ Revision < MaxRevision
    /\ \E doc \in Documents \ {Stored} : docs' = Append(docs, doc)
    /\ indexed' = 0
    /\ UNCHANGED <<excluded, changes, search, store, book, calls, failures, handed>>
Publish ==
    /\ indexed # Revision /\ indexed' = Revision
    /\ UNCHANGED <<docs, excluded, changes, search, store, book, calls, failures, handed>>
Select ==
    /\ changes < MaxChanges /\ changes' = changes + 1
    /\ excluded' \in ExclusionLists \ {excluded}
    /\ UNCHANGED <<docs, indexed, search, store, book, calls, failures, handed>>

\* recordingDocuments: the CV was read, and what was left of it.
PortRead == <<Entry(<<>>, Left, "read", "port:documents")>>

\* bounded: each piece in turn, clipped to the room that is left, until there is none.
Room(sizes, k) == LET used == FoldLeft(+, 0, SubSeq(sizes, 1, k - 1))
                  IN IF used >= Budget THEN 0 ELSE Budget - used
Bounded(pieces) ==
    LET sizes == [k \in DOMAIN pieces |-> pieces[k].says.size]
    IN [k \in {j \in DOMAIN pieces : Room(sizes, j) > 0} |->
          pieces[k] @@ [kept |-> Min({sizes[k], Room(sizes, k)})]]
\* select and page: the overview's items without those left out, or a page of the list.
Selected(section, offset) ==
    LET item(name) == [path |-> <<"overview", name>>, says |-> Stored[name]]
        keys == FrameKeys(Rows)
    IN CASE section = "overview" ->
              LET items == SelectSeq(Overview, LAMBDA name : ~ItemCut(name))
              IN [k \in DOMAIN items |-> item(items[k])]
         [] section = "contact" -> IF ItemCut("contact") THEN <<>> ELSE <<item("contact")>>
         [] OTHER -> [k \in 1..Min({PageSize, Len(Rows) - Min({offset, Len(Rows)})}) |->
                        [path |-> <<"experience", keys[offset + k]>>,
                         says |-> Stored.experience[Rows[offset + k]]]]
Shown(piece) == IF piece.kept = piece.says.size THEN <<>> ELSE <<"clipped", piece.kept>>
ReadEntries(given) ==
    [k \in DOMAIN given |-> Entry(given[k].path, Shown(given[k]), "included", "tool:read_cv")]

ReadCv ==
    /\ calls < MaxCalls /\ calls' = calls + 1 /\ ~search
    /\ \E section \in {"overview", "contact", "experience"}, offset \in 0..1 :
         LET given == Bounded(Selected(section, offset))
         IN /\ offset > 0 => section = "experience"
            /\ Handing(<<PortRead, ReadEntries(given)>>,
                       {Given(piece.path, <<"piece", piece.says>>) : piece \in Range(given)})
    /\ UNCHANGED search

\* chunkPieces: the role's and the highlights', of two that are equal the first.
Passages(doc) ==
    {[row |-> 0, says |-> role.says] : role \in {r \in {doc.role_description} : r.size > 0}}
      \cup UNION {{[row |-> i, says |-> says] : says \in doc.experience[i].highlights}
                    : i \in DOMAIN doc.experience}
Indexed ==
    IF indexed # Revision THEN {}
    ELSE {p \in Passages(Stored) :
            \A q \in Passages(Stored) :
              (q.says = p.says /\ q.row > 0 /\ p.row > 0
                 /\ Stored.experience[q.row].name = Stored.experience[p.row].name) => p.row <= q.row}

\* placer: where a passage came from, and the wall in front of it.
PlaceOf(passage) ==
    IF passage.row = 0 THEN <<"overview", "role_description">> ELSE PathOf(Stored, passage.row)
Allowed(passages) ==
    IF AnyCut THEN SelectSeq(passages, LAMBDA p : ~Walled(excluded, PlaceOf(p))) ELSE passages

\* recordingRetrieval and reportPassages: what the port read, and what the tool handed over.
HitsRead(hits) == [k \in DOMAIN hits |-> Entry(PlaceOf(hits[k]), <<>>, "read", "port:retrieval")]
PassagesSaid(fit) ==
    [k \in DOMAIN fit |->
       Entry(PlaceOf(fit[k]), <<"passage", fit[k].says>>, "included", "tool:search_profile")]

SearchBegins ==
    /\ calls < MaxCalls /\ calls' = calls + 1 /\ ~search /\ search' = TRUE
    /\ UNCHANGED <<docs, indexed, excluded, changes, store, book, failures, handed>>
\* What the index has now, without what is left out; the passages that fit are reported, and
\* naming them reads the document once more.
SearchAnswers ==
    /\ search /\ search' = FALSE /\ UNCHANGED calls
    /\ \E found \in SeqOf(Indexed, 2) :
         LET hits == Allowed(found)
             fit == SubSeq(hits, 1, Min({PassageBudget, Len(hits)}))
         IN /\ IsInjective(found)
            /\ IF hits = <<>>
               THEN UNCHANGED <<docs, indexed, excluded, changes, store, book, failures, handed>>
               ELSE Handing(<<HitsRead(hits), PortRead, PassagesSaid(fit)>>,
                            {Given(PlaceOf(p), <<"passage", p.says>>) : p \in Range(fit)})

ReadingNext == Edit \/ Publish \/ Select \/ ReadCv \/ SearchBegins \/ SearchAnswers

-----------------------------------------------------------------------------
ReadingTypeOK ==
    /\ indexed \in {0, Revision} /\ calls <= MaxCalls /\ failures <= MaxFailures
    /\ book # <<>> => book[1] = store
    /\ IsInjective(store)

\* What a passage or a page says of a piece.
IsOf(given, path) ==
    LET piece == PieceAt(docs[given.revision], path)
    IN IF given.says[1] = "piece" THEN path[1] = given.path[1] /\ piece = given.says[2]
       ELSE IF path[1] = "experience" THEN given.says[2] \in piece.highlights
       ELSE path = <<"overview", "role_description">> /\ given.says[2] = piece.says
\* Nothing the person had left out when it was read was handed over, whichever way it was
\* asked for, unless what is not left out says it too.
NothingLeftOutIsHanded ==
    \A given \in handed :
      \E path \in Paths(docs[given.revision]) \ {<<>>} :
        /\ ~Walled(given.barred, path)
        /\ path = <<"overview", "contact">> => ~Walled(given.barred, <<"overview", "personal">>)
        /\ IsOf(given, path)

\* The record says everything the model was given and nothing it was not, each under the
\* address the piece has in the document as it was stored, at the revision that was read.
Included == {e \in Range(store) : e.status = "included"}
RecordIsWhatWasHanded ==
    /\ \A given \in handed : \E e \in Included :
         /\ e.version = given.revision /\ e.ref \in Paths(docs[e.version]) \ {<<>>}
         /\ e.digest = PieceAt(docs[e.version], e.ref) /\ IsOf(given, e.ref)
    /\ \A e \in Included : \E given \in handed :
         given.revision = e.version /\ given.path = e.ref
    /\ \A e \in Included : \E r \in Range(store) : r.status = "read" /\ r.version = e.version

\* So that an answer made from a piece is withheld once the piece is left out, by the key it
\* had when it was read: nothing it carries is handed back to a model.
AnswerWithheld == \E e \in Included : Touched(excluded, e.ref)
LeftOutIsWithheld ==
    (\E given \in handed :
       \A path \in Paths(docs[given.revision]) \ {<<>>} :
         IsOf(given, path) => Walled(excluded, path))
      => AnswerWithheld

\* "Excluding overview/personal leaves out the contact details too, whichever way they are
\* asked for" (docs/studio-grounding-protocol.md): an answer made from the contact details
\* is withheld as well once the personal details they are part of are left out.
ContactGoesWithPersonal ==
    Walled(excluded, <<"overview", "personal">>)
      /\ (\E e \in Included : e.ref = <<"overview", "contact">>)
      => AnswerWithheld
=============================================================================
