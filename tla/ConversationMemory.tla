------------------------- MODULE ConversationMemory -------------------------
(***************************************************************************)
(* What the runs of a conversation are told of it.  A person may exclude a *)
(* piece of the CV at any time; an answer written before then may carry it,*)
(* and so may the note a host folds old answers into.  The runtime keeps a *)
(* record of what each run was given and withholds, whenever it supplies a *)
(* conversation or plans a fold, the answers the record leads from an      *)
(* excluded piece to (runtime/history.ts, compaction.ts, grounding/).      *)
(*                                                                         *)
(* A piece is the set of the atoms of text it holds, so that one covers    *)
(* another when it includes it and touches it when they meet.  "reached",  *)
(* "atoms" of a note and of a fold are not stored anywhere: they are what  *)
(* the text really derives from.  A host that sends a history of its own   *)
(* with a run is not modelled: the record names no answer for it.          *)
(***************************************************************************)
EXTENDS Naturals, SequencesExt, FiniteSetsExt

CONSTANTS
    Runs,           \* runs of the conversation
    Recorded,       \* those of a capability that says what it sends
    Pieces,         \* the pieces of the CV, sets of atoms
    MaxExclusions, MaxExchanges,    \* MAX_EXCLUSIONS, HISTORY_TURNS / 2
    Keeps,          \* how many exchanges a host asks a fold to leave
    MaxMessages, MaxFolds           \* bounds: messages, folds under way

MemoryAssumption ==
    /\ Recorded \subseteq Runs
    /\ {MaxExclusions, MaxExchanges, MaxMessages, MaxFolds} \cup Keeps \subseteq Nat

VARIABLES
    walls,      \* what is excluded
    messages,   \* the messages: role, and the run they belong to or "none"
    run,        \* the rows, records and walks of the runs
    note,       \* summary and summarisedThrough
    folds       \* what hosts were told to fold and have not stored yet

memoryVars == <<walls, messages, run, note, folds>>

Atoms == UNION Pieces
Leaves == {p \in Pieces : Cardinality(p) = 1}
Excluded == UNION walls
Walled(piece) == \E wall \in walls : piece \subseteq wall
Touched(piece) == \E wall \in walls : wall \cap piece # {}

NoGiven == [keys |-> {}, through |-> 0, atoms |-> {}]
NoRunYet == [state |-> "none", walk |-> "none", given |-> NoGiven, picks |-> {}, entries |-> {},
          reached |-> {}]

MemoryTypeOK ==
    /\ walls \subseteq Pieces /\ Cardinality(walls) <= MaxExclusions
    /\ \A i \in DOMAIN messages : /\ messages[i].role \in {"user", "assistant"}
                                  /\ messages[i].of \in Runs \cup {"none"}
    /\ \A r \in Runs : /\ run[r].state \in {"none", "open", "suspended", "closed", "interrupted"}
                       /\ run[r].walk \in {"none", "begun", "assembled", "asking"}
                       /\ run[r].reached \cup run[r].given.atoms \cup run[r].picks \subseteq Atoms
    /\ note.settled \in BOOLEAN /\ note.through \in 0..MaxMessages /\ Cardinality(folds) <= MaxFolds

MemoryInit ==
    /\ walls = {} /\ messages = <<>> /\ run = [r \in Runs |-> NoRunYet]
    /\ note = [settled |-> FALSE, through |-> 0, atoms |-> {}] /\ folds = {}

-----------------------------------------------------------------------------
\* Answers and where they come from (answersOf, traceAnswers).

Answers == {i \in DOMAIN messages : messages[i].role = "assistant"}
Key(i) == IF messages[i].of = "none" THEN <<"msg", i>> ELSE <<"run", messages[i].of>>
\* The question an answer directly follows, 0 when there is none.
Question(i) ==
    IF i > 1 /\ messages[i - 1].role = "user" /\ messages[i - 1].of \in {"none", messages[i].of}
    THEN i - 1 ELSE 0

\* What a key's answer really derives from; a host may have written anything.
Derives(key) == IF key[1] = "run" THEN run[key[2]].reached ELSE Atoms

\* A record says what its run was given when the run's capability says all it
\* sends and the record was closed, which one of a dead process never is.
Known(key) == key[1] = "run" /\ key[2] \in Recorded /\ run[key[2]].state = "closed"

\* The answers an entry carried into its run.
SlipForgetsTheNote(item) == IF item.kind = "history" THEN {item.key} ELSE {}

Carried(item) ==
    CASE item.kind = "history" -> {item.key}
      [] item.kind = "summary" -> {Key(i) : i \in {j \in Answers : j <= item.through}}
      [] OTHER -> {}

\* createTaint: the answer of a run is clear when the record says what the run was given,
\* no piece of it is touched, and every answer it carried is clear.
Clears(r, clear) ==
    /\ Known(<<"run", r>>)
    /\ \A item \in run[r].entries :
         /\ item.kind = "piece" => ~Touched(item.piece)
         /\ \A earlier \in Carried(item) : earlier[1] = "run" /\ earlier[2] \in clear
\* As it goes down from answer to answer, one it meets again is withheld: what is
\* clear is in every set that those it is built on make it a member of.
IsClear(r) ==
    \A clear \in SUBSET Runs :
        (\A s \in Runs : Clears(s, clear) => s \in clear) => r \in clear
Withheld(key) == walls # {} /\ ~(key[1] = "run" /\ IsClear(key[2]))

NoteShown == note.settled /\ \A i \in Answers : i <= note.through => ~Withheld(Key(i))

-----------------------------------------------------------------------------
\* history.supply: the newest exchanges that fit, from the settled ones behind the
\* note that are not withheld.  Their lengths are left open.

Candidates(r) ==
    {i \in Answers : Question(i) > note.through /\ messages[i].of # r /\ ~Withheld(Key(i))}
Newest(set, n) == {i \in set : Cardinality({j \in set : j > i}) < n}

Supplied(r, n) ==
    IF r \notin Recorded THEN NoGiven
    ELSE LET keys == {Key(i) : i \in Newest(Candidates(r), n)} IN
         [keys |-> keys,
          through |-> IF NoteShown THEN note.through ELSE 0,
          atoms |-> (UNION {Derives(k) : k \in keys}) \cup (IF NoteShown THEN note.atoms ELSE {})]

\* A run is planned; one that records nothing may send the model anything.
Start(r, n) ==
    /\ run[r].state = "none"
    /\ run' = [run EXCEPT ![r] = [NoRunYet EXCEPT
                 !.state = "open", !.walk = IF r \in Recorded THEN "begun" ELSE "asking",
                 !.given = Supplied(r, n), !.reached = IF r \in Recorded THEN {} ELSE Atoms]]
    /\ UNCHANGED <<walls, messages, note, folds>>

\* groundStep: leaves the message pins or attaches, without what is excluded.
Assemble(r, leaves) ==
    /\ run[r].state = "open" /\ run[r].walk = "begun"
    /\ run' = [run EXCEPT ![r].walk = "assembled",
                          ![r].picks = UNION {p \in leaves : ~Walled(p)}]
    /\ UNCHANGED <<walls, messages, note, folds>>

\* recordSends: what goes out is on the record before it goes.
Sent(r) ==
    {[kind |-> "history", key |-> k] : k \in run[r].given.keys}
      \cup (IF run[r].given.through > 0 THEN {[kind |-> "summary", through |-> run[r].given.through]}
            ELSE {})
      \cup {[kind |-> "piece", piece |-> {a}] : a \in run[r].picks}
Send(r) ==
    /\ run[r].state = "open" /\ run[r].walk \in {"begun", "assembled"}
    /\ run' = [run EXCEPT ![r].walk = "asking", ![r].entries = @ \cup Sent(r),
                          ![r].reached = @ \cup run[r].given.atoms \cup run[r].picks]
    /\ UNCHANGED <<walls, messages, note, folds>>

\* A tool hands the model a piece, or a passage, which is cut by the walls there
\* are now.  A passage nobody can place is taken for the whole CV, and dropped
\* while anything is cut.
Hands(r, piece, shown) ==
    /\ run[r].state = "open" /\ run[r].walk = "asking" /\ r \in Recorded
    /\ run' = [run EXCEPT ![r].entries = @ \cup {[kind |-> "piece", piece |-> piece]},
                          ![r].reached = @ \cup shown]
    /\ UNCHANGED <<walls, messages, note, folds>>
Read(r, piece) == ~Walled(piece) /\ Hands(r, piece, piece \ Excluded)
ReadUnplaced(r, piece) == walls = {} /\ Hands(r, Atoms, piece)

Suspend(r) ==
    /\ run[r].state = "open" /\ run[r].walk # "none"
    /\ run' = [run EXCEPT ![r].state = "suspended"]
    /\ UNCHANGED <<walls, messages, note, folds>>

\* The conversation is read again.  What was assembled is kept, unless a piece of
\* it is excluded now: then the run fails (staleGrounding).
ResumeRun(r, n) ==
    /\ run[r].state = "suspended"
    /\ IF run[r].picks \cap Excluded # {}
       THEN run' = [run EXCEPT ![r].state = "closed", ![r].walk = "none"]
       ELSE run' = [run EXCEPT ![r].state = "open", ![r].given = Supplied(r, n),
                      ![r].walk = IF r \notin Recorded THEN "asking"
                                  ELSE IF run[r].picks = {} THEN "begun" ELSE "assembled"]
    /\ UNCHANGED <<walls, messages, note, folds>>

\* Success, failure and cancellation, of a suspended run too, close the record; a
\* dead process does not.
End(r) ==
    /\ run[r].state \in {"open", "suspended"}
    /\ run' = [run EXCEPT ![r].state = "closed", ![r].walk = "none"]
    /\ UNCHANGED <<walls, messages, note, folds>>
ProcessEnds ==
    /\ \E r \in Runs : run[r].state = "open"
    /\ run' = [r \in Runs |-> IF run[r].state = "open"
                              THEN [run[r] EXCEPT !.state = "interrupted", !.walk = "none"]
                              ELSE run[r]]
    /\ UNCHANGED <<walls, messages, note, folds>>

-----------------------------------------------------------------------------
\* The host: messages, exclusions, folds.

\* append: a question, asked before its run exists; the answer, or part of one, of a
\* run that ended, which a host stores once; or an answer of no run.
AppendMessage(role, of) ==
    /\ Len(messages) < MaxMessages
    /\ of # "none" => run[of].state # "none"
    /\ role = "assistant" /\ of # "none" =>
         /\ run[of].state \in {"closed", "interrupted"}
         /\ ~\E i \in Answers : messages[i].of = of
    /\ messages' = Append(messages, [role |-> role, of |-> of])
    /\ UNCHANGED <<walls, run, note, folds>>

\* change: clear, then exclude; the person saw the walls as they are.
Select(clear, exclude) ==
    /\ walls' = (walls \ clear) \cup exclude
    /\ walls' # walls /\ Cardinality(walls') <= MaxExclusions
    /\ UNCHANGED <<messages, run, note, folds>>

\* compaction.plan: from behind the note up to the exchanges that stay, and not up
\* to an answer that is withheld; nothing when the note is.  A transcript that is
\* full ends earlier, between units.
Exchanges == {i \in Answers : Question(i) > note.through}
Stays(keep) == Newest(Exchanges, keep)
FoldEnd(keep) ==
    IF Exchanges = {} THEN 0
    ELSE IF keep = 0 THEN Max(Exchanges)
    ELSE Question(Min(Stays(keep))) - 1
Blocked(keep) == {i \in Answers : i > note.through /\ i <= FoldEnd(keep) /\ Withheld(Key(i))}
FoldStop(keep) ==
    IF Blocked(keep) = {} THEN FoldEnd(keep)
    ELSE Min({IF Question(i) > 0 THEN Question(i) ELSE i : i \in Blocked(keep)}) - 1
Splits(last) == last + 1 \in Answers /\ Question(last + 1) = last
Folded(last) ==
    [through |-> last,
     atoms |-> (IF NoteShown THEN note.atoms ELSE {})
               \cup UNION {Derives(Key(i)) : i \in {j \in Answers : j > note.through /\ j <= last}}]
Plan(keep, last) ==
    /\ Cardinality(folds) < MaxFolds
    /\ note.settled => NoteShown
    /\ note.through < last /\ last <= FoldStop(keep) /\ ~Splits(last)
    /\ folds' = folds \cup {Folded(last)}
    /\ UNCHANGED <<walls, messages, run, note>>

\* summarise: a host stores what a model made of a fold, or clears the note.
Summarise(fold) ==
    /\ note' = [settled |-> TRUE, through |-> Max({note.through, fold.through}), atoms |-> fold.atoms]
    /\ folds' = folds \ {fold}
    /\ UNCHANGED <<walls, messages, run>>
ClearNote ==
    /\ note.settled
    /\ note' = [note EXCEPT !.settled = FALSE, !.atoms = {}]
    /\ UNCHANGED <<walls, messages, run, folds>>

MemoryNext ==
    \/ \E r \in Runs, n \in 0..MaxExchanges : Start(r, n) \/ ResumeRun(r, n)
    \/ \E r \in Runs, leaves \in (SUBSET Leaves) \ {{}} : Assemble(r, leaves)
    \/ \E r \in Runs : Send(r) \/ Suspend(r) \/ End(r)
    \/ \E r \in Runs, piece \in Pieces : Read(r, piece) \/ ReadUnplaced(r, piece)
    \/ ProcessEnds
    \/ AppendMessage("user", "none")
    \/ \E of \in Runs \cup {"none"} : AppendMessage("assistant", of)
    \/ \E clear, exclude \in SUBSET Pieces : Select(clear, exclude)
    \/ \E keep \in Keeps, last \in DOMAIN messages : Plan(keep, last)
    \/ \E fold \in folds : Summarise(fold)
    \/ ClearNote

MemorySpec == MemoryInit /\ [][MemoryNext]_memoryVars

-----------------------------------------------------------------------------
\* Nothing that is excluded when a conversation is handed to a run, or to the model
\* that folds it, derives from the answers handed over: however many answers,
\* notes and processes lie between the piece and the text.
HandsOutNothingExcluded ==
    /\ \A r \in Runs : run'[r].given # run[r].given => run'[r].given.atoms \cap Excluded = {}
    /\ \A fold \in folds' \ folds : fold.atoms \cap Excluded = {}

\* The note is made of answers up to the one it names, whichever fold was stored
\* last, so that to judge those answers is to judge the note.
NoteIsAccounted ==
    note.atoms \subseteq UNION {Derives(Key(i)) : i \in {j \in Answers : j <= note.through}}
=============================================================================
