------------------------------- MODULE Detect -------------------------------
(***************************************************************************)
(* Identifiers found in a text by their shape (effects/detect.ts): each    *)
(* detector's pattern is run from the left, what matches is checked, and   *)
(* what is refused is not used up.                                         *)
(*                                                                         *)
(* A text is a sequence of characters, folded: a digit is itself, a letter *)
(* the number an IBAN counts it as, `a' 10 and `z' 35.  Of the detectors,  *)
(* those whose matches are checked by more than their shape.               *)
(***************************************************************************)
EXTENDS Naturals, Sequences, SequencesExt, FiniteSetsExt

CONSTANTS Texts

VARIABLES
    text,
    detector,   \* the one that runs, by its place
    lastIndex,  \* where its pattern goes on
    found       \* spans [by, start, end], end excluded

detectVars == <<text, detector, lastIndex, found>>

Blank == 40
Plus == 41
Dot == 42
Label == 43     \* one of the words that say the date after them is one of birth
DETECTORS == <<"phone", "pesel", "nip", "iban", "account", "birth">>

Digits == 0..9
Letters == 10..35
Alnum == Digits \cup Letters
At(said, i) == IF i \in DOMAIN said THEN said[i] ELSE Blank
DigitsOf(said) == SelectSeq(said, LAMBDA c : c \in Digits)
Compact(said) == SelectSeq(said, LAMBDA c : c # Blank)
NumberOf(digits) == FoldLeft(LAMBDA n, d : 10 * n + d, 0, digits)
Span(said, start, end) == SubSeq(said, start, end - 1)

-----------------------------------------------------------------------------
(* Checks *)
Weighted(digits, weights) == FoldFunction(+, 0, [i \in DOMAIN weights |-> weights[i] * digits[i]])
Leap(year) == year % 4 = 0 /\ (year % 100 # 0 \/ year % 400 = 0)
DaysIn(year, month) ==
    CASE month \in {4, 6, 9, 11} -> 30 [] month = 2 -> IF Leap(year) THEN 29 ELSE 28 [] OTHER -> 31

\* The month carries the century.
Century == <<1900, 2000, 2100, 2200, 1800>>
SlipNoControl(said) == Len(DigitsOf(said)) = 11
IsPesel(said) ==
    LET d == DigitsOf(said)
        month == NumberOf(SubSeq(d, 3, 4))
        year == Century[(month \div 20) + 1] + NumberOf(SubSeq(d, 1, 2))
    IN /\ Len(d) = 11
       /\ (10 - (Weighted(d, <<1, 3, 7, 9, 1, 3, 7, 9, 1, 3>>) % 10)) % 10 = d[11]
       /\ month % 20 \in 1..12
       /\ NumberOf(SubSeq(d, 5, 6)) \in 1..DaysIn(year, month % 20)

IsNip(said) ==
    LET d == DigitsOf(said)
    IN Len(d) = 10 /\ Weighted(d, <<6, 5, 7, 2, 3, 4, 5, 6, 7>>) % 11 = d[10]

\* mod97: a letter is two digits.
Mod97(said) ==
    FoldLeft(LAMBDA n, c : IF c \in Digits THEN (10 * n + c) % 97 ELSE (100 * n + c) % 97, 0, said)
IsIban(said) ==
    LET iban == Compact(said)
    IN Len(iban) \in 15..34 /\ Mod97(SubSeq(iban, 5, Len(iban)) \o SubSeq(iban, 1, 4)) = 1
IsPolishAccount(said) == IsIban(<<25, 21>> \o said)

IsDate(year, month, day) == year \in 1900..2100 /\ month \in 1..12 /\ day \in 1..DaysIn(year, month)
\* The year first if it is one, else the day or the month first.
IsBirthDate(said) ==
    LET dots == SelectInSeq(said, LAMBDA c : c = Dot)
        rest == SubSeq(said, dots + 1, Len(said))
        more == SelectInSeq(rest, LAMBDA c : c = Dot)
        a == NumberOf(SubSeq(said, 1, dots - 1))
        b == NumberOf(SubSeq(rest, 1, more - 1))
        c == NumberOf(SubSeq(rest, more + 1, Len(rest)))
    IN IF a >= 1000 THEN IsDate(a, b, c) ELSE IsDate(c, b, a) \/ IsDate(c, a, b)

-----------------------------------------------------------------------------
(* How much of what matched is the thing *)
All(check, said) == IF check THEN Len(said) ELSE 0
\* All of it, or all but the last groups.
FitIban(said) ==
    LET ends == {Len(said)} \cup {i - 1 : i \in {j \in DOMAIN said : said[j] = Blank}}
        fit == {e \in ends : IsIban(SubSeq(said, 1, e))}
    IN IF fit = {} THEN 0 ELSE Max(fit)
\* As many digits as its country's numbers have, or as many as any phone.
Marker(said) == IF said[1] = Plus THEN 1 ELSE 2
Codes == {<<4, 8>>, <<4, 4>>, <<1>>}
National(code) == IF code = <<4, 8>> THEN 9 ELSE 10
CodesOf(said) == {code \in Codes : IsPrefix(code, DigitsOf(SubSeq(said, Marker(said) + 1, Len(said))))}
SlipTakesAll(said) == All(Len(DigitsOf(said)) >= 8, said)
FitInternational(said) ==
    LET count(end) == Len(DigitsOf(SubSeq(said, Marker(said) + 1, end)))
        code == CHOOSE known \in CodesOf(said) : TRUE
        enough == {end \in DOMAIN said : count(end) >= Len(code) + National(code)}
    IN IF CodesOf(said) = {} THEN All(count(Len(said)) \in 8..15, said)
       ELSE IF enough = {} THEN 0 ELSE Min(enough)

Fit(d, said) ==
    CASE d = "phone" -> FitInternational(said) [] d = "pesel" -> All(IsPesel(said), said)
      [] d = "nip" -> All(IsNip(said), said) [] d = "iban" -> FitIban(said)
      [] d = "account" -> All(IsPolishAccount(said), said) [] OTHER -> All(IsBirthDate(said), said)

-----------------------------------------------------------------------------
(* Patterns: where a match that begins at i ends, 0 if none does *)
AllIn(said, i, n, class) == \A j \in i..(i + n - 1) : At(said, j) \in class
\* Groups of four, a blank before each or not, as many as there are up to most.
GroupAt(said, i, class) ==
    LET j == IF At(said, i) = Blank THEN i + 1 ELSE i IN IF AllIn(said, j, 4, class) THEN j + 4 ELSE 0
Groups(said, i, most, class) ==
    LET go[k \in 0..most] == IF k = 0 THEN <<i>>
                             ELSE LET before == go[k - 1] next == GroupAt(said, Last(before), class)
                                  IN IF Len(before) < k \/ next = 0 THEN before ELSE Append(before, next)
    IN go[most]
\* The last of an IBAN's groups may be shorter.
Tail4(said, i) ==
    LET j == IF At(said, i) = Blank THEN i + 1 ELSE i
    IN IF At(said, j) \in Alnum THEN j + Max({n \in 1..4 : AllIn(said, j, n, Alnum)}) ELSE i
Iban(said, i) ==
    LET groups == Groups(said, i + 4, 7, Alnum)
    IN IF /\ At(said, i - 1) \notin Alnum /\ AllIn(said, i, 2, Letters) /\ AllIn(said, i + 2, 2, Digits)
          /\ Len(groups) >= 3
       THEN Tail4(said, Last(groups)) ELSE 0
Account(said, i) ==
    LET groups == Groups(said, i + 2, 6, Digits)
    IN IF /\ At(said, i - 1) \notin Digits /\ AllIn(said, i, 2, Digits) /\ Len(groups) = 7
          /\ At(said, Last(groups)) \notin Digits
       THEN Last(groups) ELSE 0
Pesel(said, i) ==
    IF AllIn(said, i, 11, Digits) /\ At(said, i - 1) \notin Digits /\ At(said, i + 11) \notin Digits
    THEN i + 11 ELSE 0
Nip(said, i) ==
    IF /\ At(said, i - 1) \notin Alnum /\ At(said, i) = 25 /\ At(said, i + 1) = 21
       /\ AllIn(said, i + 2, 10, Digits) /\ At(said, i + 12) \notin Digits
    THEN i + 12 ELSE 0

\* The marker, a country code of up to three digits, and two to six groups of up to four
\* digits with a blank before each or not, to the end of a run of digits.
RunEnd(said, i) == Min({j \in i..(i + Len(said)) : At(said, j) \notin Digits})
Quarters(n) == (n + 3) \div 4
Phone(said, i) ==
    LET first == IF At(said, i) = Plus THEN i + 1 ELSE i + 2
        code == first + Min({3, RunEnd(said, first) - first})
        runs[k \in 0..6] ==     \* <<where it is, groups used>> after k more runs
          IF k = 0 THEN <<RunEnd(said, first), Quarters(RunEnd(said, first) - code)>>
          ELSE LET r == runs[k - 1]
                   e == RunEnd(said, r[1] + 1)
               IN IF /\ At(said, r[1]) = Blank /\ e > r[1] + 1
                     /\ r[2] + Quarters(e - r[1] - 1) <= 6
                  THEN <<e, r[2] + Quarters(e - r[1] - 1)>> ELSE r
        end == runs[6][1]
    IN IF /\ At(said, i) = Plus \/ (At(said, i) = 0 /\ At(said, i + 1) = 0)
          /\ At(said, i - 1) \notin Digits \cup {Plus} /\ At(said, first) \in 1..9
          /\ runs[0][2] <= 6 /\ Len(DigitsOf(Span(said, first, end))) >= 3
       THEN end ELSE 0

\* After a label: day, month and year, or the year first.
Birth(said, i) ==
    LET one == RunEnd(said, i)
        two == RunEnd(said, one + 1)
        three == RunEnd(said, two + 1)
        dotted == At(said, one) = Dot /\ two - one - 1 \in 1..2 /\ At(said, two) = Dot
    IN IF At(said, i - 1) # Label \/ ~dotted THEN 0
       ELSE IF one - i \in 1..2 /\ three - two - 1 >= 4 THEN two + 5
       ELSE IF one - i = 4 /\ three > two + 1 THEN Min({three, two + 3}) ELSE 0

MatchEnd(d, i) ==
    CASE d = "phone" -> Phone(text, i) [] d = "pesel" -> Pesel(text, i) [] d = "nip" -> Nip(text, i)
      [] d = "iban" -> Iban(text, i) [] d = "account" -> Account(text, i) [] OTHER -> Birth(text, i)

\* `needs': what the text must have for the pattern to be run at all.
Needed(d) ==
    \E i \in DOMAIN text :
      CASE d = "phone" -> /\ AllIn(text, i, 1, {Plus}) \/ AllIn(text, i, 2, {0})
                          /\ At(text, IF text[i] = Plus THEN i + 1 ELSE i + 2) \in Digits
        [] d = "pesel" -> AllIn(text, i, 11, Digits)
        [] d = "nip" -> AllIn(text, i, 1, {25}) /\ AllIn(text, i + 1, 1, {21}) /\ At(text, i + 2) \in Digits
        [] d = "iban" -> AllIn(text, i, 2, Letters) /\ AllIn(text, i + 2, 2, Digits)
        [] d = "account" -> AllIn(text, i, 2, Digits) /\ GroupAt(text, i + 2, Digits) # 0
        [] OTHER -> text[i] \in Digits

-----------------------------------------------------------------------------
DetectInit == text \in Texts /\ detector = 1 /\ lastIndex = 1 /\ found = {}

By == DETECTORS[detector]
Matches == {i \in lastIndex..Len(text) : MatchEnd(By, i) # 0}
NextDetector == detector' = detector + 1 /\ lastIndex' = 1 /\ UNCHANGED <<text, found>>

Skip == detector <= Len(DETECTORS) /\ ~Needed(By) /\ NextDetector
NoMore == detector <= Len(DETECTORS) /\ Needed(By) /\ Matches = {} /\ NextDetector

SlipUsesUp(start, length, end) == end
\* What was refused is not used up: the scan goes on from the next character.
GoesOnAt(start, length, end) == start + Max({length, 1})

Match ==
    /\ detector <= Len(DETECTORS) /\ Needed(By) /\ Matches # {}
    /\ LET start == Min(Matches)
           end == MatchEnd(By, start)
           length == Fit(By, Span(text, start, end))
       IN /\ found' = found \cup {s \in {[by |-> By, start |-> start, end |-> start + length]} : length > 0}
          /\ lastIndex' = GoesOnAt(start, length, end)
    /\ UNCHANGED <<text, detector>>

DetectNext == Skip \/ NoMore \/ Match

-----------------------------------------------------------------------------
Scanned == detector > Len(DETECTORS)
Apart(s, t) == s.end <= t.start \/ t.end <= s.start
DetectTypeOK ==
    /\ detector \in 1..(Len(DETECTORS) + 1) /\ lastIndex \in 1..(Len(text) + 1)
    /\ \A s, t \in found : s = t \/ s.by # t.by \/ Apart(s, t)

\* What stands between blanks and is an identifier, written together or in its groups.
Starts == {i \in DOMAIN text : text[i] # Blank /\ At(text, i - 1) = Blank}
Ends == {i \in 2..(Len(text) + 1) : text[i - 1] # Blank /\ At(text, i) = Blank}
Grouped(said) == \A i \in DOMAIN said : said[i] = Blank => i % 5 = 0
IsIdentifier(by, said) ==
    CASE by = "pesel" -> Range(said) \subseteq Digits /\ IsPesel(said)
      [] OTHER -> /\ Range(said) \subseteq Alnum \cup {Blank}
                  /\ AllIn(said, 1, 2, Letters) /\ AllIn(said, 3, 2, Digits)
                  /\ Blank \notin Range(said) \/ Grouped(said)
                  /\ IsIban(said)
Identifiers ==
    {s \in [by : {"pesel", "iban"}, start : Starts, end : Ends] :
       s.start < s.end /\ IsIdentifier(s.by, Span(text, s.start, s.end))}

\* Nothing that is an identifier is hidden: not by the guards, not by what a pattern took
\* with it, and not by what was refused before it.
NothingIsHidden ==
    Scanned => \A s \in Identifiers : \E t \in found : t.by = s.by /\ ~Apart(s, t)

\* What is taken for an identifier is one and no more than one: a number has as many digits
\* as its country's have, and one slip of a digit makes a number that is nobody's.
Changed(said, i, digit) == [said EXCEPT ![i] = digit]
Slips(said) == {Changed(said, i, d) : i \in {j \in DOMAIN said : said[j] \in Digits}, d \in Digits} \ {said}
FoundIsOne ==
    Scanned => \A s \in found :
      LET said == Span(text, s.start, s.end)
      IN CASE s.by = "phone" ->
                /\ Last(said) \in Digits
                /\ IF CodesOf(said) = {} THEN Len(DigitsOf(said)) - (Marker(said) - 1) * 2 \in 8..15
                   ELSE \A code \in CodesOf(said) :
                          Len(DigitsOf(said)) - (Marker(said) - 1) * 2 = Len(code) + National(code)
           [] s.by = "pesel" -> \A other \in Slips(said) : ~IsPesel(other)
           [] s.by = "nip" -> \A other \in Slips(said) : ~IsNip(other)
           [] s.by = "iban" -> \A other \in Slips(said) : ~IsIban(other)
           [] s.by = "account" -> \A other \in Slips(said) : ~IsPolishAccount(other)
           [] OTHER -> Len(DigitsOf(said)) \in 6..8
=============================================================================
