------------------------------- MODULE Salary -------------------------------
(***************************************************************************)
(* How the salary line of a posting becomes numbers                        *)
(* (capabilities/offers/salary.ts).  A line is a sequence of tokens: a     *)
(* figure, whose grouping and decimals have been read and which may carry  *)
(* the multiplier `k' or `tys.', or a word the patterns know.              *)
(***************************************************************************)
EXTENDS Naturals, Integers, Sequences, SequencesExt, FiniteSetsExt

CONSTANTS Lines     \* the lines that are read

VARIABLES
    line,
    reading     \* of the line: none yet, or one

salaryVars == <<line, reading>>

Open == -1          \* null, on the side of a range that has no bound
Say(word) == [is |-> word, value |-> 0, scaled |-> FALSE]

Nothing == [min |-> Open, max |-> Open, currency |-> "", period |-> ""]

-----------------------------------------------------------------------------
Says(said, word) == \E i \in DOMAIN said : said[i].is = word
Figures(said) == {i \in DOMAIN said : said[i].is = "figure"}

\* The currencies and the periods are tried in their order, wherever they stand.
Named(said, names) ==
    LET there == SelectSeq(names, LAMBDA n : Says(said, n)) IN IF there = <<>> THEN "" ELSE there[1]
Currencies == <<"pln", "eur", "usd", "gbp">>
Periods == <<"hour", "day", "month", "year">>

\* NOT_MONEY is blanked, and figures that nothing but blanks keeps apart are one figure.
NotMoney == {"b2b", "percent"}
Joined(a, b) ==
    LET digits == Min({d \in 1..6 : b.value < 10 ^ d})
    IN [b EXCEPT !.value = a.value * 10 ^ digits + b.value]
Glue(acc, token) ==
    IF acc # <<>> /\ token.is = "figure" /\ Last(acc).is = "figure" /\ ~Last(acc).scaled
    THEN Append(Front(acc), Joined(Last(acc), token)) ELSE Append(acc, token)
Money(said) == FoldLeft(Glue, <<>>, SelectSeq(said, LAMBDA t : t.is \notin NotMoney))

\* readAmounts: a `k' written once at the end is meant for both.
AmountAt(said, i) ==
    IF said[i].scaled \/ (said[i].value < 1000 /\ \E j \in Figures(said) : said[j].scaled)
    THEN said[i].value * 1000 ELSE said[i].value

\* RANGE_JOIN: a dash or `do' between two neighbours, and one unit on either side of it.  What
\* lies between them begins with the multiplier of the first, which is such a unit: `20k - 25'
\* is a range, and `20k pln - 25k pln' is none and loses its floor.
Currency == {"pln", "eur", "usd", "gbp"}
Units == Currency \cup {"k"}
Joins == {"-", "do"}
Between(said, i, j) ==
    (IF said[i].scaled THEN <<"k">> ELSE <<>>) \o [k \in 1..(j - i - 1) |-> said[i + k].is]
SlipBareJoin(words) == Len(words) = 1 /\ words[1] \in Joins
IsJoin(words) ==
    \E k \in DOMAIN words : words[k] \in Joins /\ k \in 1..2 /\ Len(words) - k \in 0..1
                              /\ \A m \in DOMAIN words \ {k} : words[m] \in Units
Neighbours(said) ==
    {p \in Figures(said) \X Figures(said) :
       p[1] < p[2] /\ \A k \in Figures(said) : k <= p[1] \/ p[2] <= k}
Ranges(said) == {p \in Neighbours(said) : IsJoin(Between(said, p[1], p[2]))}

\* Without a range word, the outermost figures of the line.
SlipOuterFigures(said) ==
    LET all == {AmountAt(said, i) : i \in Figures(said)}
    IN IF all = {} THEN <<Open, Open>> ELSE <<Min(all), Max(all)>>
Bounded(said) ==
    LET amount(i) == AmountAt(said, i)
        first == CHOOSE p \in Ranges(said) : \A q \in Ranges(said) : p[1] <= q[1]
        only == Max({amount(i) : i \in Figures(said)})
    IN IF Figures(said) = {} THEN <<Open, Open>>
       ELSE IF Ranges(said) # {}
       THEN <<Min({amount(first[1]), amount(first[2])}), Max({amount(first[1]), amount(first[2])})>>
       ELSE IF Says(said, "od") THEN <<only, Open>>
       ELSE IF Says(said, "do") THEN <<Open, only>>
       ELSE <<only, only>>

\* parseSalary.
Parsed(said) ==
    IF Says(said, "negotiable") THEN [Nothing EXCEPT !.currency = Named(said, Currencies)]
    ELSE LET bounds == Bounded(Money(said))
         IN [min |-> bounds[1], max |-> bounds[2],
             currency |-> Named(said, Currencies), period |-> Named(said, Periods)]

-----------------------------------------------------------------------------
SalaryInit == line \in Lines /\ reading = <<>>
Read == reading = <<>> /\ reading' = <<Parsed(line)>> /\ UNCHANGED line
SalaryNext == Read

-----------------------------------------------------------------------------
\* The figures of a line as the posting wrote them; those of a percentage or of `b2b' are none.
Posted == {AmountAt(line, i) : i \in Figures(line)}
\* No two figures stand with nothing but blanks, or what is blanked, between them.
Apart == \A p \in Neighbours(line) : \E k \in (p[1] + 1)..(p[2] - 1) : line[k].is \notin NotMoney

\* Two figures of the line with a join between them, and on either side of it one mark at
\* most, a currency or the multiplier of the first.
SaidAsRange(p) ==
    LET marks(from, to) == {k \in from..to : line[k].is \in Currency}
        filling == {"b2b", "percent"} \cup Currency
    IN \E k \in (p[1] + 1)..(p[2] - 1) :
         /\ line[k].is \in Joins
         /\ \A m \in (p[1] + 1)..(p[2] - 1) : m # k => line[m].is \in filling
         /\ Cardinality(marks(p[1], k)) <= (IF line[p[1]].scaled THEN 0 ELSE 1)
         /\ Cardinality(marks(k, p[2])) <= 1

\* Of a line whose figures stand apart, every number read is one that was posted, a floor
\* is not above its ceiling, two different bounds were joined, a range as postings write it
\* keeps both of its figures, an open side was said to be open, a figure beside the salary
\* is neither bound, and a posting that leaves it open has none.
ReadAsPosted ==
    Apart => \A r \in Range(reading) :
      LET only == {r.min, r.max} \ {Open}
      IN /\ only \subseteq Posted
         /\ (Posted # {} /\ ~Says(line, "negotiable")) <=> (only # {})
         /\ Cardinality(only) = 2 =>
              /\ r.min < r.max
              /\ \E p \in Neighbours(line) :
                   /\ {AmountAt(line, p[1]), AmountAt(line, p[2])} = only
                   /\ \E k \in (p[1] + 1)..(p[2] - 1) : line[k].is \in Joins
         /\ LET pairs == {p \in Neighbours(line) : SaidAsRange(p)}
            IN (pairs # {} /\ ~Says(line, "negotiable")) =>
                 \E p \in pairs : only = {AmountAt(line, p[1]), AmountAt(line, p[2])}
         /\ (only # {} /\ r.max = Open) => Says(line, "od")
         /\ (only # {} /\ r.min = Open) => Says(line, "do") /\ ~Says(line, "od")
         /\ (Cardinality(only) = 1 /\ ~\E p \in Neighbours(line) : SaidAsRange(p)) => only = {Max(Posted)}
=============================================================================
