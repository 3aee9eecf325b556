------------------------------ MODULE MaskVault ------------------------------
(***************************************************************************)
(* One call to a model with a person's identifiers kept out of it          *)
(* (effects/mask.ts, effects/masking.ts): the vault that numbers           *)
(* placeholders, the texts that go out, tools that answer in between, and  *)
(* the stream that comes back in fragments.                                *)
(*                                                                         *)
(* A text is a sequence of marks: words, brackets, and the inner part of a *)
(* placeholder, which is a label with a number.                            *)
(***************************************************************************)
EXTENDS Naturals, SequencesExt, FiniteSetsExt, Functions

CONSTANTS
    Seeds,          \* what the person said: kind and words
    Shapes,         \* what has a shape of its own: kind and words
    Prompts, Turns, Results,    \* texts: a prompt, a turn of the history, a tool's result
    Fragments,      \* what a model writes at a time
    MaxPending,     \* marks that may follow an open bracket in a placeholder; 18 in the code
    MaxSaid, MaxCalls   \* bounds: marks a model writes, tools it calls

VARIABLES
    call,       \* "none", "going" or "over"
    masking,    \* the call is masked; detecting: with shapes too
    vault,      \* surface of each placeholder issued, numbers taken, counts
    sent,       \* what the model was sent: the text it was, and as it was sent
    said,       \* what the model wrote; written: what was passed on; held: what was not
    unissued,   \* placeholders it wrote that did not exist then
    told        \* what the tally was told: masked, unmasked, placeholders
maskVars == <<call, masking, vault, sent, said, unissued, told>>

Word(w) == <<w, 0>>
Open == Word("[")
Close == Word("]")
IsBody(m) == m[2] > 0
IsPlain(m) == m \notin {Open, Close, Word(".")}

\* A name is kept as it is said, turned round, and word by word; any other value
\* only whole.
Patterns(seed) ==
    {[kind |-> seed.kind, words |-> w] :
       w \in IF seed.kind # "name" THEN {seed.words}
             ELSE {seed.words} \cup (IF Len(seed.words) = 2 THEN {Reverse(seed.words)} ELSE {})
                  \cup {<<x>> : x \in Range(seed.words)}}
SeedPatterns == UNION {Patterns(s) : s \in Seeds}

MatchesAt(words, text, i) ==
    i + Len(words) - 1 <= Len(text) /\ SubSeq(text, i, i + Len(words) - 1) = words
Spells(text, words) == \E i \in DOMAIN text : MatchesAt(words, text, i)

\* One pass: the longest pattern where one begins, then on from its end.
Spans(text, patterns) ==
    LET at(i) == {p \in patterns : MatchesAt(p.words, text, i)}
        from[i \in 1..(Len(text) + 1)] ==
          IF i > Len(text) THEN {}
          ELSE IF at(i) = {} THEN from[i + 1]
          ELSE LET p == CHOOSE p \in at(i) : \A q \in at(i) : Len(q.words) <= Len(p.words)
               IN {[kind |-> p.kind, first |-> i, last |-> i + Len(p.words) - 1]}
                  \cup from[i + Len(p.words)]
    IN from[1]

\* chosen: the earliest, of those the longest, a seed before a shape; what overlaps
\* is left to it.
Chosen(seeds, shapes) ==
    LET before(a, b) == \/ a.first < b.first
                        \/ a.first = b.first /\ a.last > b.last
                        \/ a.first = b.first /\ a.last = b.last /\ a \in seeds
        ordered == SetToSortSeq(seeds \cup {s \in shapes : ~\E t \in seeds : t.first = s.first
                                                                         /\ t.last = s.last}, before)
    IN FoldLeft(LAMBDA kept, s : IF kept # <<>> /\ s.first <= Last(kept).last THEN kept
                                 ELSE Append(kept, s), <<>>, ordered)
Found(text) == Chosen(Spans(text, SeedPatterns),
                      IF masking.detect THEN Spans(text, Shapes) ELSE {})

-----------------------------------------------------------------------------
\* The vault.

NewVault == [surface |-> <<>>, taken |-> {}]
Placeholders(text) ==
    {text[i + 1] : i \in {j \in DOMAIN text : /\ text[j] = Open /\ j + 2 <= Len(text)
                                              /\ IsBody(text[j + 1]) /\ text[j + 2] = Close}}
Written(p) == <<Open, p, Close>>

\* reserve: what is spelled like a placeholder is not issued any more.
SlipReservesTheFirst(v, texts) ==
    [v EXCEPT !.taken = @ \cup Placeholders(Head(texts))]

Reserve(v, texts) == [v EXCEPT !.taken = @ \cup UNION {Placeholders(t) : t \in Range(texts)}]

\* issue: one placeholder for each kind and spelling; a number that is taken is skipped.
Numbers(v, kind) == {p[2] : p \in {q \in DOMAIN v.surface : q[1] = kind}}
Issue(v, kind, words) ==
    LET known == {p \in DOMAIN v.surface : p[1] = kind /\ v.surface[p] = words}
        last == Max({0} \cup Numbers(v, kind))
        next == Min({n \in (last + 1)..(last + 1 + Cardinality(v.taken)) : <<kind, n>> \notin v.taken})
    IN IF known # {} THEN [vault |-> v, as |-> CHOOSE p \in known : TRUE]
       ELSE [vault |-> [v EXCEPT !.surface = (<<kind, next>> :> words) @@ @], as |-> <<kind, next>>]

\* mask: the chosen spans of a text become placeholders.
Mask(v, text) ==
    LET step(acc, span) ==
          LET got == Issue(acc.vault, span.kind, SubSeq(text, span.first, span.last))
          IN [vault |-> got.vault, last |-> span.last,
              out |-> acc.out \o SubSeq(text, acc.last + 1, span.first - 1) \o Written(got.as)]
        done == FoldLeft(step, [vault |-> Reserve(v, <<text>>), last |-> 0, out |-> <<>>], Found(text))
    IN [vault |-> done.vault, text |-> done.out \o SubSeq(text, done.last + 1, Len(text))]

MaskAll(v, texts) ==
    FoldLeft(LAMBDA acc, t : LET m == Mask(acc.vault, t)
                             IN [vault |-> m.vault, pairs |-> Append(acc.pairs, [from |-> t, to |-> m.text])],
             [vault |-> v, pairs |-> <<>>], texts)

\* restore: every placeholder that was issued is what it stands for.
Restore(v, text) ==
    LET from[i \in 1..(Len(text) + 1)] ==
          IF i > Len(text) THEN <<>>
          ELSE IF i + 2 <= Len(text) /\ SubSeq(text, i, i + 2) = Written(text[i + 1])
                  /\ text[i + 1] \in DOMAIN v.surface
               THEN v.surface[text[i + 1]] \o from[i + 3]
          ELSE <<text[i]>> \o from[i + 1]
    IN from[1]

-----------------------------------------------------------------------------
Silence == [raw |-> <<>>, written |-> <<>>, held |-> <<>>]
MaskInit ==
    /\ call = "none" /\ masking = [on |-> FALSE, detect |-> FALSE] /\ vault = NewVault
    /\ sent = <<>> /\ said = Silence /\ unissued = {}
    /\ told = [masked |-> 0, unmasked |-> 0, placeholders |-> 0]

\* begin, going: a call is masked for a hosted provider, or always; not without
\* anything to keep.  All of it is reserved before any of it is masked.
CallGoes(texts, on, detect) ==
    /\ call = "none" /\ call' = "going"
    /\ masking' = [on |-> on /\ (Seeds # {} \/ detect), detect |-> detect]
    /\ IF masking'.on
       THEN LET all == MaskAll(Reserve(NewVault, texts), texts)
            IN /\ vault' = all.vault /\ sent' = all.pairs
               /\ told' = [masked |-> 1, unmasked |-> 0,
                           placeholders |-> Cardinality(DOMAIN all.vault.surface)]
       ELSE /\ vault' = vault /\ told' = [told EXCEPT !.unmasked = 1]
            /\ sent' = [i \in DOMAIN texts |-> [from |-> texts[i], to |-> texts[i]]]
    /\ UNCHANGED <<said, unissued>>

\* maskedTool: a tool is given what the model meant; its result, or what it failed
\* with, is masked, and counted before the model has it.
ToolAnswers(result) ==
    /\ call = "going" /\ masking.on
    /\ Len(sent) < MaxCalls
    /\ LET m == Mask(vault, result)
       IN /\ vault' = m.vault
          /\ told' = [told EXCEPT !.placeholders = @ + Cardinality(DOMAIN m.vault.surface)
                                                     - Cardinality(DOMAIN vault.surface)]
          /\ sent' = Append(sent, [from |-> result, to |-> m.text])
    /\ UNCHANGED <<call, masking, said, unissued>>
\* A tool that answers with what it was asked: a placeholder the model gave it.
ToolEchoes(p) ==
    p \in DOMAIN vault.surface /\ ToolAnswers(Restore(vault, Written(p)))

\* restorer.push: what may still become a placeholder is held back.
Settles(text) ==
    LET opens == {i \in DOMAIN text : text[i] = Open}
        last == Max(opens)
    IN IF opens = {} \/ Len(text) - last > MaxPending
          \/ \E i \in (last + 1)..Len(text) : ~IsPlain(text[i]) THEN Len(text)
       ELSE last - 1
Delta(fragment) ==
    LET text == said.held \o fragment
        upto == Settles(text)
    IN /\ call = "going" /\ masking.on /\ Len(said.raw) + Len(fragment) <= MaxSaid
       /\ said' = [raw |-> said.raw \o fragment, held |-> SubSeq(text, upto + 1, Len(text)),
                   written |-> said.written \o Restore(vault, SubSeq(text, 1, upto))]
       /\ unissued' = unissued \cup {m \in Range(fragment) : IsBody(m) /\ m \notin DOMAIN vault.surface}
       /\ UNCHANGED <<call, masking, vault, sent, told>>

CallReturns ==
    /\ call = "going" /\ call' = "over"
    /\ said' = [said EXCEPT !.written = @ \o said.held, !.held = <<>>]
    /\ UNCHANGED <<masking, vault, sent, unissued, told>>

MaskNext ==
    \/ \E t \in Turns, p \in Prompts, on, detect \in BOOLEAN : CallGoes(<<p, t>>, on, detect)
    \/ \E r \in Results : ToolAnswers(r)
    \/ \E p \in DOMAIN vault.surface : ToolEchoes(p)
    \/ \E f \in Fragments : Delta(f)
    \/ CallReturns

-----------------------------------------------------------------------------
\* Nothing a masked call sends, a tool's result and its echo of what the model asked
\* included, spells a value that is kept; except the rest of one that a shape which
\* begins before it and ends within it took the beginning of.
Rests(text) ==
    UNION {{SubSeq(text, i, span.last) : i \in (kept.last + 1)..span.last} :
             <<kept, span>> \in {pair \in Range(Found(text)) \X Spans(text, SeedPatterns) :
                                  pair[1].first < pair[2].first /\ pair[2].first <= pair[1].last
                                    /\ pair[1].last < pair[2].last}}
NothingKeptIsSent ==
    masking.on =>
      \A i \in DOMAIN sent :
        \A p \in SeedPatterns \cup (IF masking.detect THEN Shapes ELSE {}) :
          Spells(sent[i].to, p.words) => p.words \in Rests(sent[i].from)

\* What was sent reads again as it was, with the vault of the end of the call; only a
\* text that already spelled a placeholder when it had been issued does not.
RestoreUndoesMask ==
    \A i \in DOMAIN sent :
      Restore(vault, sent[i].to) = sent[i].from
        \/ (i > 2 /\ Placeholders(sent[i].from) \cap DOMAIN vault.surface # {})

\* However the answer came in pieces, what was passed on is the answer restored.
StreamIsTheWhole ==
    call = "over" /\ masking.on /\ unissued \cap DOMAIN vault.surface = {} =>
      said.written = Restore(vault, said.raw)

\* The counts are of what the model holds, and no placeholder means two things.
CountsAreTrue ==
    /\ told.placeholders = Cardinality(DOMAIN vault.surface)
    /\ \A p, q \in DOMAIN vault.surface : p[1] = q[1] /\ vault.surface[p] = vault.surface[q] => p = q
=============================================================================
