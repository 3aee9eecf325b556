----------------------------- MODULE JsonChanges -----------------------------
(***************************************************************************)
(* What changed between two documents, as a list that a person reads and a *)
(* store applies (capabilities/cv/diff.ts).  A value is an atom, a list or *)
(* a record of values; a place is a path of keys and positions.            *)
(***************************************************************************)
EXTENDS Naturals, SequencesExt, FiniteSetsExt, Functions

CONSTANT AlignLimit     \* comparisons that lining up two lists may cost

Atom(v) == <<"atom", v>>
ListOf(s) == <<"list", s>>
RecordOf(f) == <<"record", f>>
IsList(v) == v[1] = "list"
IsRecord(v) == v[1] = "record"
Key(k) == <<"key", k>>
Index(n) == <<"index", n>>

-----------------------------------------------------------------------------
\* align: the entries two lists share, as pairs of positions.  What is the same at
\* either end first, then the longest common subsequence of what lies between.
Align(a, b) ==
    LET shorter == Min({Len(a), Len(b)})
        head == Max({k \in 0..shorter : \A i \in 1..k : a[i] = b[i]})
        tail == Max({k \in 0..(shorter - head) : \A i \in 0..(k - 1) : a[Len(a) - i] = b[Len(b) - i]})
        rows == Len(a) - head - tail
        columns == Len(b) - head - tail
        table[r \in 1..(rows + 1), c \in 1..(columns + 1)] ==
          IF r > rows \/ c > columns THEN 0
          ELSE IF a[head + r] = b[head + c] THEN table[r + 1, c + 1] + 1
          ELSE Max({table[r + 1, c], table[r, c + 1]})
        walk[r \in 1..(rows + 1), c \in 1..(columns + 1)] ==
          IF r > rows \/ c > columns THEN <<>>
          ELSE IF a[head + r] = b[head + c] THEN <<<<head + r, head + c>>>> \o walk[r + 1, c + 1]
          ELSE IF table[r + 1, c] >= table[r, c + 1] THEN walk[r + 1, c]
          ELSE walk[r, c + 1]
    IN [k \in 1..head |-> <<k, k>>]
       \o (IF rows * columns <= AlignLimit THEN walk[1, 1] ELSE <<>>)
       \o [k \in 1..tail |-> <<Len(a) - tail + k, Len(b) - tail + k>>]

RECURSIVE DiffValue(_, _, _)

\* Between two entries that are shared, what went is edited into what came, in order,
\* and the rest is removed or added; at is how much of b is in place already.
DiffList(path, a, b) ==
    LET gap(acc, pair) ==
          LET gone == SubSeq(a, acc.from, pair[1] - 1)
              came == SubSeq(b, acc.to, pair[2] - 1)
              paired == Min({Len(gone), Len(came)})
          IN FlattenSeq([k \in 1..paired |->
                DiffValue(Append(path, Index(acc.at + k)), gone[k], came[k])])
             \o [k \in 1..(Len(gone) - paired) |->
                  [op |-> "remove", path |-> Append(path, Index(acc.at + paired + 1)),
                   before |-> gone[paired + k]]]
             \o [k \in 1..(Len(came) - paired) |->
                  [op |-> "add", path |-> Append(path, Index(acc.at + paired + k)),
                   after |-> came[paired + k]]]
        step(acc, pair) ==
          [at |-> acc.at + (pair[2] - acc.to) + 1, from |-> pair[1] + 1, to |-> pair[2] + 1,
           out |-> acc.out \o gap(acc, pair)]
    IN FoldLeft(step, [at |-> 0, from |-> 1, to |-> 1, out |-> <<>>],
                Append(Align(a, b), <<Len(a) + 1, Len(b) + 1>>)).out

DiffRecord(path, a, b) ==
    FlattenSeq([i \in DOMAIN SetToSeq(DOMAIN a) |->
        LET k == SetToSeq(DOMAIN a)[i]
        IN IF k \in DOMAIN b THEN DiffValue(Append(path, Key(k)), a[k], b[k])
           ELSE <<[op |-> "remove", path |-> Append(path, Key(k)), before |-> a[k]]>>])
    \o [i \in DOMAIN SetToSeq(DOMAIN b \ DOMAIN a) |->
        LET k == SetToSeq(DOMAIN b \ DOMAIN a)[i]
        IN [op |-> "add", path |-> Append(path, Key(k)), after |-> b[k]]]

DiffValue(path, a, b) ==
    IF a = b THEN <<>>
    ELSE IF IsList(a) /\ IsList(b) THEN DiffList(path, a[2], b[2])
    ELSE IF IsRecord(a) /\ IsRecord(b) THEN DiffRecord(path, a[2], b[2])
    ELSE <<[op |-> "replace", path |-> path, before |-> a, after |-> b]>>

Diff(a, b) == DiffRecord(<<>>, a[2], b[2])

-----------------------------------------------------------------------------
\* A change applies where its place is, and where it holds what the change found.
Refused(value) == [ok |-> FALSE, value |-> value]
Applied(value) == [ok |-> TRUE, value |-> value]

SlipFindsAnything(change, value) == TRUE

Found(change, value) == change.before = value

ApplyHere(holder, place, change) ==
    LET inner == holder[2]
        at == place[2]
    IN IF IsList(holder) /\ place[1] = "index"
       THEN IF change.op = "add"
            THEN IF at > Len(inner) + 1 THEN Refused(holder)
                 ELSE Applied(ListOf(InsertAt(inner, at, change.after)))
            ELSE IF at > Len(inner) \/ ~Found(change, inner[at]) THEN Refused(holder)
            ELSE Applied(ListOf(IF change.op = "remove" THEN RemoveAt(inner, at)
                                ELSE ReplaceAt(inner, at, change.after)))
       ELSE IF IsRecord(holder) /\ place[1] = "key"
       THEN IF change.op = "add"
            THEN IF at \in DOMAIN inner THEN Refused(holder)
                 ELSE Applied(RecordOf((at :> change.after) @@ inner))
            ELSE IF at \notin DOMAIN inner \/ ~Found(change, inner[at]) THEN Refused(holder)
            ELSE Applied(RecordOf(IF change.op = "remove" THEN Restrict(inner, DOMAIN inner \ {at})
                                  ELSE [inner EXCEPT ![at] = change.after]))
       ELSE Refused(holder)

RECURSIVE ApplyAt(_, _, _)
ApplyAt(holder, path, change) ==
    LET place == Head(path)
        inside == /\ \/ IsList(holder) /\ place[1] = "index"
                     \/ IsRecord(holder) /\ place[1] = "key"
                  /\ place[2] \in DOMAIN holder[2]
    IN IF Len(path) = 1 THEN ApplyHere(holder, place, change)
       ELSE IF ~inside THEN Refused(holder)
       ELSE LET below == ApplyAt(holder[2][place[2]], Tail(path), change)
            IN [ok |-> below.ok, value |-> <<holder[1], [holder[2] EXCEPT ![place[2]] = below.value]>>]

\* applyJson: in order, each to what the one before left; none after one that is refused.
Apply(document, changes) ==
    FoldLeft(LAMBDA acc, change : IF acc.ok THEN ApplyAt(acc.value, change.path, change) ELSE acc,
             Applied(document), changes)

\* outside: the changes that touch another key of the document.
Outside(changes, key) == SelectSeq(changes, LAMBDA change : change.path[1] # Key(key))

-----------------------------------------------------------------------------
\* What takes a list of changes back.
Undone(change) ==
    IF change.op = "add" THEN [op |-> "remove", path |-> change.path, before |-> change.after]
    ELSE IF change.op = "remove" THEN [op |-> "add", path |-> change.path, after |-> change.before]
    ELSE [op |-> "replace", path |-> change.path, before |-> change.after, after |-> change.before]
Undo(changes) == Reverse([i \in DOMAIN changes |-> Undone(changes[i])])
=============================================================================
