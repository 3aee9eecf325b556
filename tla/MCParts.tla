------------------------------ MODULE MCParts ------------------------------
(***************************************************************************)
(* The parts that work for themselves, each on an instance of its own:     *)
(* focus says which.  "mask" is a masked call with its tools and stream;   *)
(* "edit" a CV that is edited behind exclusions, imported into and written *)
(* by hand; "upgrade" a database that builds of four versions are started  *)
(* on; "reader" two reads of the web; "search" three searches; "recipient" *)
(* the address of one application; "providers" two calls while settings    *)
(* and keys are changed; "claims" a summary written from a CV; "message"   *)
(* one message of the chat, from its plan to its prompt; "guard" mail that *)
(* goes out once; "door" the stdio host with two runs, one of which may be *)
(* answered once; "translate" a CV in another language; "salary" the       *)
(* salary lines of postings; "offer" one offer as it is listed, read,      *)
(* analysed and decided on; "letter" the email that applies for it; "call" *)
(* one step's call of a model; "detect" the identifiers of a text;         *)
(* "reading" what a chat reads of its CV and is recorded to have read.     *)
(***************************************************************************)
EXTENDS AttemptGuard, Integers, Sequences, SequencesExt, TLC

VARIABLES
    focus,
    \* MaskVault: tallied is its told
    call, masking, vault, sent, said, unissued, tallied,
    \* CvEdit
    docs, walls, edit, proposal,
    \* Upgrade
    file, beside, start, putBack,
    \* WebReader
    reads, abandoned, hostQueue, lastAt, clock, requested,
    \* WebSearch
    searches, givenUp, line, lastCallAt, time, cache, calls,
    \* Recipient
    input, posting, gathered, hits, rows, site, ask, trust, companyDomains, at, picks, ranked,
    \* ProviderChoice: kept is its cache, callers its calls
    stored, env, kept, builds, callers,
    \* Claims: revisions are the stored CV's, passed is a document, stage the step
    revisions, passed, stage, material, draft, answer,
    \* Grounding
    world, message, run, approved, changed, recent,
    \* FrontDoor: status is its row, stopped its aborted, pending its waiting
    status, log, going, late, active, stopped, cursor, watching, pump, pending, door, quit,
    announced, shown,
    \* Translate: replies is its answers
    given, replies, outcome, deviations,
    \* Salary: priced is its line
    priced, reading,
    \* OfferFacts: figures is its numbers, statedBy its source
    offer, facts, figures, stated, analysis, listing, statedBy, runs, done,
    \* Draft: drafting is its step, made its source, reviewed its review
    request, cv, drafting, made, body, reviewed, recipient, result,
    \* ModelCall: place is its at, replied its answer, written its lines
    step, signal, place, attempts, wrote, heard, replied, thrown, written, verdict,
    \* Detect: scanned is its text
    scanned, detector, lastIndex, found,
    \* CvReading: papers is its docs, rowsKept its store, asks its calls
    papers, indexed, leftOut, changes, searching, rowsKept, book, asks, failures, handed

-----------------------------------------------------------------------------
\* A call: a name of two words and a phone number are masked, an address that a seed
\* ends in is found by its shape.
Word(w) == <<w, 0>>
Of(words) == [i \in DOMAIN words |-> Word(words[i])]
Marked(tag) == <<Word("["), tag, Word("]")>>
Name(n) == <<"name", n>>

K == INSTANCE MaskVault WITH
       told <- tallied,
       Seeds <- {[kind |-> "name", words |-> Of(<<"a", "b">>)],
                 [kind |-> "phone", words |-> Of(<<"c">>)]},
       Shapes <- {[kind |-> "email", words |-> Of(<<"x", "a">>)],
                  [kind |-> "phone", words |-> Of(<<"c">>)]},
       Prompts <- {Of(<<"x", "a", "b", "x">>), Of(<<"x", "b", "a">>),
                   Append(Marked(Name(1)), Word("a")), Of(<<"b", "x", "c">>)},
       Turns <- {Append(Marked(Name(1)), Word("b")), Of(<<"c", "x">>)},
       Results <- {Of(<<"a", "x">>), Append(Marked(Name(2)), Word("b")), Of(<<"b", "x", "c">>)},
       Fragments <- {Of(<<"[">>), <<Name(1)>>, Of(<<"]">>), Of(<<"x">>), <<Word("["), Name(2)>>,
                     <<Name(1), Word("]"), Word("[")>>},
       MaxPending <- 2, MaxSaid <- 4, MaxCalls <- 3

-----------------------------------------------------------------------------
\* A CV with two entries of one name, one of them going on.
S(s) == <<s, 1>>
U(s) == <<s, 2>>
Nothing == <<"", 0>>
GoingOn == <<"ongoing", 0>>
Entry(of, finished, highlights) == [of |-> of, finished |-> finished, highlights |-> highlights]
EmptyDoc ==
    [personal |-> [name |-> Nothing, contact |-> Nothing], role_description |-> Nothing,
     skills |-> [role |-> Nothing, groups |-> <<>>, languages |-> <<>>, tools |-> <<>>],
     experience |-> <<>>, languages |-> <<>>, sources |-> <<>>]
Doc(name, contact, role, groups, experience, languages) ==
    [EmptyDoc EXCEPT !.personal = [name |-> name, contact |-> contact],
                     !.role_description = role, !.skills.groups = groups,
                     !.experience = experience, !.languages = languages]
FirstDoc ==
    Doc(S("ann"), S("mail"), S("dev"), <<[label |-> U("Lang"), items |-> <<S("ts")>>]>>,
        <<Entry(S("acme"), GoingOn, <<S("a")>>), Entry(S("beta"), Nothing, <<S("b")>>),
          Entry(S("acme"), S("2020"), <<>>)>>,
        <<Entry(S("pl"), Nothing, <<>>)>>)

E == INSTANCE CvEdit WITH
       AlignLimit <- 100, MaxDocs <- 2,
       Firsts <- {FirstDoc, [FirstDoc EXCEPT !.experience = <<>>, !.skills.groups = <<>>,
                                             !.skills.tools = <<S("git")>>]},
       Written <- {[FirstDoc EXCEPT !.experience = <<Entry(S("beta"), Nothing, <<S("c")>>)>>],
                   [EmptyDoc EXCEPT !.skills.tools = <<S("git")>>]},
       Imports <- {Doc(U("bob"), S("mail2"), Nothing, <<>>,
                       <<Entry(U("acme"), S("2021"), <<U("a"), S("d")>>),
                         Entry(S("beta"), S("2019"), <<S("b")>>), Entry(S("new"), Nothing, <<S("e")>>),
                         Entry(U("new"), GoingOn, <<U("e"), S("f")>>)>>,
                       <<Entry(U("pl"), Nothing, <<>>), Entry(S("de"), Nothing, <<>>)>>),
                   [EmptyDoc EXCEPT !.skills.languages = <<S("TS"), U("ts"), S("go")>>,
                                    !.sources = <<S("pdf")>>]},
       Strings <- {S("a"), S("z")},
       Entries <- {Entry(S("acme"), GoingOn, <<S("n")>>)},
       Rows <- {[label |-> S("languages"), items |-> <<S("rs")>>]},
       Exclusions <- {{}, {<<>>}, {<<"overview", "contact">>, <<"experience", <<"acme", 1>>>>},
                      {<<"overview">>, <<"experience", <<"acme", 2>>>>},
                      {<<"experience", <<"beta", 1>>>>, <<"experience", <<"acme", 2>>>>,
                       <<"overview", "skills">>},
                      {<<"experience">>, <<"languages", <<"pl", 1>>>>}}

-----------------------------------------------------------------------------
G == INSTANCE Upgrade WITH
       MaxVersion <- 4, Heads <- 1..4, BackupsKept <- 2, MaxWrites <- 1, MaxPutBack <- 2

\* Two hosts that can be read and one of the machine's own; b may answer with a private
\* address, and both lead elsewhere.
W == INSTANCE WebReader WITH
       Reads <- {"r1", "r2"}, Hosts <- {"a", "b", "local"}, Named <- {"a", "b"},
       PublicHosts <- {"a", "b"},
       Wants <- [r \in {"r1", "r2"} |->
                   IF r = "r1" THEN {<<"offer", "a">>}
                   ELSE {<<"page", "a">>, <<"company", "a">>, <<"page", "b">>}],
       Resolves <- [h \in {"a", "b"} |->
                     IF h = "a" THEN {{"public"}} ELSE {{"public"}, {"public", "private"}}],
       Leads <- [h \in {"a", "b", "local"} |->
                   CASE h = "a" -> {"b", "local"} [] h = "b" -> {"a"} [] OTHER -> {}],
       Scraper <- TRUE, Interval <- 2, MaxRedirects <- 1, MaxTime <- 4

Q == INSTANCE WebSearch WITH
       Searches <- {"s1", "s2", "s3"}, Queries <- {"none", "q1", "q2"}, Setting <- "auto",
       HasKey <- TRUE, Spacing <- 1, Ttl <- 3, FailureTtl <- 1, CacheLimit <- 1, MaxSearchTime <- 3

-----------------------------------------------------------------------------
\* An employer, an agency, a free mail host, and an employer's other domain.
Domain == [a \in {"jobs@emp", "ann@agency", "me@free", "hr@alt"} |->
             CASE a = "jobs@emp" -> "emp" [] a = "ann@agency" -> "agency"
               [] a = "me@free" -> "free" [] OTHER -> "alt"]
Page(url, domain, prints) == [url |-> url, domain |-> domain, lands |-> domain, prints |-> prints]
Site(origin, from, discovered, corroborated, pages) ==
    [status |-> "ok", origin |-> origin, redirectedFrom |-> from, discovered |-> discovered,
     corroborated |-> corroborated, pages |-> pages]
Home == Page("emp/", "emp", {})
Careers == Page("emp/jobs", "emp", {"jobs@emp", "hr@alt"})
Sites == {[status |-> "failed"], Site("emp", "none", FALSE, "unsaid", <<Home>>),
          Site("emp", "alt", FALSE, "unsaid", <<Home, Careers>>),
          Site("emp", "none", TRUE, "yes", <<Careers>>),
          Site("other", "none", TRUE, "no", <<Page("other/", "other", {"ann@agency"})>>)}
SitesOf(by, of) ==
    {a \in Sites : a.status = "ok" => a.discovered = (by # "url") /\ (by = "domain" => a.origin = of)}
Hit(url, domain, lands, prints, host, kind, promising) ==
    [url |-> url, domain |-> domain, lands |-> lands, prints |-> prints, host |-> host, kind |-> kind,
     promising |-> promising, fits |-> IF domain = "emp" THEN "same" ELSE "no", titled |-> domain = "emp"]
EmpHit == Hit("emp/jobs", "emp", "emp", {"jobs@emp"}, "employer", "careers", FALSE)
OtherHit == Hit("other/", "other", "other", {"ann@agency"}, "employer", "page", TRUE)
LandsElsewhere == Hit("emp/go", "emp", "agency", {"ann@agency"}, "employer", "contact", TRUE)
BoardHit == Hit("board/1", "board", "board", {"me@free"}, "board", "page", TRUE)
AtsHit == Hit("ats/1", "ats", "ats", {"ann@agency", "jobs@emp"}, "ats", "ats", FALSE)
GuessOn(d) == <<Page(d \o "/careers", d, {"jobs@emp"}) @@ [kind |-> "careers"]>>
OnSite(d) == {d \o "/", d \o "/jobs", d \o "/careers"}

R == INSTANCE Recipient WITH
       Addresses <- DOMAIN Domain, FreeMail <- {"free"}, DomainOf <- Domain,
       Inputs <- {[prints |-> p, url |-> u, company |-> TRUE, companyUrl |-> c, web |-> w, boards |-> TRUE] :
                    p \in {{"none"}, {"ann@agency"}}, u \in BOOLEAN, c \in {"none", "emp"}, w \in BOOLEAN},
       Postings <- {[prints |-> {"ann@agency"}, companyUrl |-> "none", email |-> "none"],
                    [prints |-> {"jobs@emp"}, companyUrl |-> "emp", email |-> "hr@alt"],
                    [prints |-> {"me@free", "hr@alt"}, companyUrl |-> "none", email |-> "me@free"]},
       HitLists <- {<<OtherHit, EmpHit, BoardHit>>, <<LandsElsewhere, AtsHit>>},
       SiteHits <- {<<EmpHit, LandsElsewhere>>}, Answers <- Sites, SiteAnswers <- SitesOf,
       Guesses <- GuessOn, UrlsOn <- OnSite,
       OtherOffers <- {[url |-> "posting2", prints |-> {"jobs@emp"}]}, PagesToOpen <- 3

-----------------------------------------------------------------------------
\* A provider on this machine, one that needs a key, and one that takes any.
Model(of, by) == [of |-> of, by |-> by]
Row(provider, model, url) == [provider |-> provider, model |-> model, url |-> url]
Vendors == {"local", "router", "open"}

V == INSTANCE ProviderChoice WITH
       cache <- kept, calls <- callers,
       Providers <- Vendors, Local <- "local", Default <- "local",
       NeedsKey <- {"router", "open"}, Serves <- {"local", "open"}, Calls <- {"c1", "c2"},
       Keys <- {"k0", "k1"},
       Inherited <- [provider |-> "none", model |-> Model("local", "env"), url |-> "none",
                     keys |-> [p \in Vendors |-> IF p = "open" THEN "k0" ELSE "none"]],
       Written <- {Row("open", Model("none", "none"), "none"), Row("local", Model("none", "none"), "loop"),
                   Row("router", Model("router", "row"), "none"), Row("none", Model("local", "row"), "remote")},
       Overrides <- {[provider |-> "none", url |-> "none", key |-> "none"],
                     [provider |-> "open", url |-> "none", key |-> "k1"],
                     [provider |-> "local", url |-> "remote", key |-> "none"]},
       MaxBuilds <- 2

-----------------------------------------------------------------------------
\* Facts that say a number at the end of one and the beginning of the next, a language
\* with its level, and the CV's own description.
Fact(id, kind, says, terms, levels, language, sentences) ==
    [id |-> id, kind |-> kind, says |-> says, terms |-> terms, levels |-> levels,
     language |-> language, sentences |-> sentences]
Job == Fact("job:0", "job", <<"5", "~">>, {"go"}, {}, "none", {})
Highlight == Fact("job:0:0", "highlight", <<"~", "1", "0", "k">>, {}, {}, "none", {})
German == Fact("lang:0", "language", <<"~">>, {}, {"B2"}, "german", {})
Summary == Fact("summary", "summary", <<"~", "5">>, {}, {}, "none", {<<"old">>})
Beyond == Fact("role", "role", <<"~", "2">>, {}, {}, "none", {})
Piece(word, ends, size) ==
    [word |-> word, numbers |-> {}, terms |-> {}, levels |-> {}, languages |-> {}, ends |-> ends,
     size |-> size, contact |-> FALSE]
Number(digits, unit) == [digits |-> digits, unit |-> unit]
Claim(evidence, pieces) ==
    [marked |-> TRUE, evidence |-> evidence, requirements |-> {"req:0", "req:9"}, pieces |-> pieces]
GoesOn(pieces) == [marked |-> FALSE, evidence |-> <<>>, requirements |-> {}, pieces |-> pieces]

C == INSTANCE Claims WITH
       stored <- revisions, source <- passed, at <- stage,
       Cvs <- {<<Summary, Job, Highlight, German, Beyond>>,
               <<Fact("job:0", "job", <<"7", "~">>, {"k8s"}, {}, "none", {}), German>>, <<Job>>},
       Documents <- {<<>>, <<Job, Highlight>>},
       Requirements <- <<[id |-> "req:0", category |-> "skill", term |-> "go"],
                         [id |-> "req:1", category |-> "skill", term |-> "k8s"],
                         [id |-> "req:2", category |-> "responsibility", term |-> "lead"]>>,
       Lines <- {Claim(<<"job:0">>, <<[Piece("a", "full", 3) EXCEPT !.numbers = {Number(<<"5">>, "+")},
                                                                  !.terms = {"go"}]>>),
                 Claim(<<"job:0:0", "lang:0">>,
                       <<[Piece("b", "full", 4) EXCEPT !.numbers = {Number(<<"1", "0">>, "k")},
                                                       !.levels = {"B2"}],
                         [Piece("c", "no", 3) EXCEPT !.terms = {"lead"}]>>),
                 Claim(<<"job:0:0", "nope">>, <<[Piece("d", "full", 3) EXCEPT !.terms = {"k8s"}]>>),
                 Claim(<<"job:0", "job:0:0">>,
                       <<[Piece("e", "full", 2) EXCEPT !.levels = {"fluent"}, !.languages = {"german"}]>>),
                 Claim(<<"lang:0">>, <<[Piece("f", "full", 2) EXCEPT !.levels = {"fluent", "C1"}]>>),
                 Claim(<<"job:0">>, <<Piece("g", "dangling", 2)>>),
                 Claim(<<"summary">>, <<Piece("old", "full", 2)>>),
                 Claim(<<"summary", "job:0">>, <<Piece("h", "full", 5)>>),
                 GoesOn(<<[Piece("i", "full", 2) EXCEPT !.numbers = {Number(<<"7">>, "none")}]>>),
                 GoesOn(<<Piece("j", "full", 1), [Piece("k", "no", 1) EXCEPT !.contact = TRUE]>>)},
       MaxChars <- 11, MaxClaims <- 3, MinClaims <- 2, MaxFacts <- 4, MaxLines <- 3, MaxRevision <- 2

-----------------------------------------------------------------------------
\* A CV of five pieces, two with a shorter form, and three offers; pieces and offers are
\* just too large together.
Leaf(section, key) == <<section, key>>
Personal == Leaf("overview", "personal")
Contact == Leaf("overview", "contact")
Skills == Leaf("overview", "skills")
Acme == Leaf("experience", "acme")
Beta == Leaf("experience", "beta")
Wording(size, short, says) == [size |-> size, short |-> short, says |-> says]
CardOf(size, skills) == [size |-> size, skills |-> skills]
Message(once, auto, overflow, full, offers, preferences, reach, cite) ==
    [once |-> once, auto |-> auto, overflow |-> overflow, full |-> full, offerIds |-> offers,
     preferences |-> preferences, reach |-> reach, cite |-> cite, rest |-> 20]

N == INSTANCE Grounding WITH
       Leaves <- <<Personal, Contact, Skills, Acme, Beta>>,
       Text <- Personal :> <<Wording(10, 0, {"go"})>> @@ Contact :> <<Wording(10, 0, {})>>
               @@ Skills :> <<Wording(20, 10, {"go", "ts"}), Wording(0, 0, {})>>
               @@ Acme :> <<Wording(30, 12, {"go"}), Wording(24, 0, {"ts"})>>
               @@ Beta :> <<Wording(22, 12, {"ts"})>>,
       Offers <- <<"o1", "o2", "o3">>,
       Card <- "o1" :> <<CardOf(20, {"go"})>>
               @@ "o2" :> <<CardOf(20, {"go", "ts"}), CardOf(28, {})>>
               @@ "o3" :> <<CardOf(10, {"ts"})>>,
       Messages <- {Message(<<Acme>>, "off", "compact", {}, <<>>, 0, "free", TRUE),
                    Message(<<Beta>>, "off", "compact", {<<"overview">>}, <<>>, 0, "free", TRUE),
                    Message(<<>>, "on", "refuse", {}, <<"o1", "o2", "o3">>, 6, "free", FALSE),
                    Message(<<<<"experience">>>>, "suggest", "compact", {}, <<"o2", "o1">>, 0, "free", TRUE),
                    Message(<<<<"experience", "gone">>>>, "off", "refuse", {}, <<>>, 0, "selected", FALSE)},
       PinLists <- {<<>>, <<Personal, Skills>>, <<Acme>>},
       Exclusions <- {{}, {Personal, Beta}, {<<"experience">>}, {<<"offers", "o2">>}},
       Limits <- {0, 100}, Hits <- {<<"failed">>, <<Personal, Acme, Beta>>},
       PicksBudget <- 60, OffersBudget <- 90, MaxEvidence <- 2, CompareLimit <- 2, MaxChanges <- 1

-----------------------------------------------------------------------------
\* Two calls for one message, which may be concurrent or a repeat after a crash, and one
\* for another: Callers, Keys and KeyOf of AttemptGuard, which this module extends.
ThreeCallers == {"c1", "c2", "c3"}
TwoMails == {"letter", "note"}
KeyOfCall == [c \in ThreeCallers |-> IF c = "c3" THEN "note" ELSE "letter"]

-----------------------------------------------------------------------------
H == INSTANCE FrontDoor WITH
       Runs <- {"r1", "r2"}, MaxWaiting <- 1,
       MaxEvents <- [r \in {"r1", "r2"} |-> IF r = "r1" THEN 4 ELSE 2],
       aborted <- stopped, waiting <- pending

-----------------------------------------------------------------------------
\* A CV with a job that goes on and one that has ended, and one that is all but empty.
Says(numbers) == [in |-> "source", numbers |-> numbers]
Blank == [in |-> "", numbers |-> <<>>]
Part(fixed, fields, highlights) == [fixed |-> fixed, fields |-> fields, highlights |-> highlights]
Overview(town, summary, role) ==
    [personal |-> <<Part("ann", <<town>>, <<>>)>>, role_description |-> <<Part("", <<summary>>, <<>>)>>,
     skills |-> <<Part("ts", <<role>>, <<>>)>>, education |-> <<>>, certificates |-> <<>>]
FullCv ==
    Overview(Says(<<>>), Says(<<10>>), Says(<<>>))
      @@ [experience |-> <<Part("go", <<Says(<<3>>), [in |-> "ongoing", numbers |-> <<>>]>>,
                                <<Says(<<20, 30>>), Says(<<>>)>>),
                           Part("ts", <<Says(<<4, 4>>), Blank>>, <<>>)>>,
          languages |-> <<Part("", <<Says(<<>>), Says(<<2>>)>>, <<>>)>>]
SparseCv == Overview(Blank, Blank, Says(<<1, 1>>)) @@ [experience |-> <<>>, languages |-> <<>>]

T == INSTANCE Translate WITH
       Documents <- {FullCv, SparseCv, [s \in DOMAIN FullCv |-> <<>>]},
       Exclusions <- {{}, {<<"contact">>, <<"experience", 1>>}, {<<"personal">>, <<"skills">>},
                      {<<"experience", 1>>, <<"experience", 2>>}},
       Selections <- {{"experience", "personal"}, {"experience", "role_description", "skills"},
                      DOMAIN FullCv},
       MaxDeviations <- 1, answers <- replies

-----------------------------------------------------------------------------
\* Lines of up to four words, figures apart or, past a multiplier, beside each other.
Token(is, value, scaled) == [is |-> is, value |-> value, scaled |-> scaled]
Tokens ==
    {Token("figure", 20, FALSE), Token("figure", 25, TRUE), Token("figure", 3000, FALSE)}
      \cup {Token(w, 0, FALSE) : w \in {"-", "do", "od", "pln", "b2b", "other", "negotiable"}}
Plain(token) == token.is = "figure" /\ ~token.scaled

Y == INSTANCE Salary WITH
       line <- priced,
       Lines <- {l \in SeqOf(Tokens, 4) :
                   \A i \in 2..Len(l) : ~(Plain(l[i - 1]) /\ l[i].is = "figure")}

-----------------------------------------------------------------------------
\* Two lists, a page that says almost everything and one that takes things back, and a
\* model that answers something else, or nothing.
PaidBetween(min, max) == [min |-> min, max |-> max, period |-> "month"]
OfferSays(company, salary, contract, location, mode) ==
    [company |-> company, salary |-> salary, contract |-> contract, location |-> location,
     mode |-> mode]
ListPage(says, ranges, whole) == [says |-> says, ranges |-> ranges, whole |-> whole]
OfferPage(says, ranges, denies) == [says |-> says, ranges |-> ranges, denies |-> denies]

F == INSTANCE OfferFacts WITH
       numbers <- figures, source <- statedBy,
       Pages <- <<{ListPage(OfferSays("acme", "20-24", "B2B", "", ""), "", FALSE),
                   ListPage(OfferSays("", "", "full-time", "Remote", ""), "two", FALSE)},
                  {ListPage(OfferSays("acme ltd", "do 25", "", "Remote", "remote"), "", FALSE),
                   ListPage(OfferSays("acme", "20-24", "UoP", "", "on-site"), "one", TRUE),
                   ListPage(OfferSays("", "", "", "", ""), "", FALSE)}>>,
       Sources <- {OfferPage(OfferSays("ACME", "do 25", "B2B", "Remote", "hybrid"), "", {}),
                   OfferPage(OfferSays("none", "", "full-time", "", "unknown"), "one",
                             {"company", "location"})},
       ModelAnswers <- {OfferSays("Acme?", "30", "UoZ", "Krakow", "onsite"),
                   OfferSays("nieznane", "none", "unspecified", "unspecified", "unknown")},
       Readings <- "20-24" :> PaidBetween(20, 24) @@ "do 25" :> PaidBetween(-1, 25)
                @@ "one" :> PaidBetween(21, 23) @@ "30" :> PaidBetween(30, 30)
                @@ "Not stated" :> [min |-> -1, max |-> -1, period |-> "null"],
       Unread <- [min |-> -1, max |-> -1, period |-> "null"],
       MaxReads <- 2, MaxAnalyses <- 1, MaxDecisions <- 1

-----------------------------------------------------------------------------
\* A posting with addresses of every kind, a page of less, and a letter that is to be
\* filled in.
Written(is, says) == [is |-> is, says |-> says]
Slot(field) == Written("slot", field)
Saying(w) == Written("word", w)
Mailbox(name, kind, recruiting) ==
    Written("address", [name |-> name, kind |-> kind, recruiting |-> recruiting])
Posting ==
    <<Saying("dev"), Mailbox("no-reply", "noreply", FALSE), Mailbox("office", "mailbox", FALSE),
      Mailbox("logo@2x", "asset", FALSE), Mailbox("ann", "mailbox", FALSE),
      Mailbox("office", "mailbox", FALSE), Mailbox("hr", "mailbox", TRUE)>>
Jobs == Mailbox("jobs", "mailbox", TRUE)
Request(text, page, company, position, how, candidate) ==
    [text |-> text, url |-> text = <<>>, page |-> page, passed |-> candidate,
     facts |-> [company |-> company, position |-> position, how_to_apply |-> how]]
Ann == [name |-> <<Saying("ann")>>, email |-> <<>>, highlights |-> <<"h1", "h2", "h3">>]

D == INSTANCE Draft WITH
       step <- drafting, source <- made, review <- reviewed,
       Requests <- {Request(Posting, <<>>, <<Saying("acme")>>, <<Slot("company"), Saying("dev")>>,
                            <<>>, <<>>),
                    Request(<<>>, SubSeq(Posting, 1, 4), <<>>, <<>>, <<Jobs>>, <<Ann>>),
                    Request(<<>>, <<>>, <<>>, <<Saying("dev")>>, <<>>, <<Ann>>),
                    [Request(<<>>, <<>>, <<>>, <<Saying("dev")>>, <<Jobs>>, <<>>) EXCEPT !.url = FALSE]},
       StoredCvs <- {<<>>, <<[Ann EXCEPT !.name = <<>>, !.email = <<Saying("mail")>>]>>},
       Found <- {<<"h3", "h1">>},
       Letters <- {<<Saying("dear"), Slot("company"), Slot("other"), Saying("me"), Slot("name")>>,
                   <<Saying("sure"), Slot("position"), Saying("as an ai")>>,
                   <<Slot("email"), Saying("dear"), Slot("email")>>},
       SuggestionLimit <- 2, PassageLimit <- 2, MinWords <- 4

-----------------------------------------------------------------------------
\* A step the run can do without, one whose model may fail it, one that is read as it is
\* written, and two loops.
StepOf(kind, listened, critical, recoverable) ==
    [kind |-> kind, listened |-> listened, critical |-> critical, recoverable |-> recoverable]

L == INSTANCE ModelCall WITH
       at <- place, answer <- replied, lines <- written,
       Steps <- {StepOf("extract", FALSE, FALSE, {}),
                 StepOf("extract", FALSE, TRUE, {"invalid_model_output"}),
                 StepOf("generate", TRUE, TRUE, {}), StepOf("tool_loop", TRUE, FALSE, {}),
                 StepOf("tool_loop", FALSE, TRUE, {})},
       Length <- 2, MaxAttempts <- 3

-----------------------------------------------------------------------------
\* Numbers of every kind with their near misses, two of them in a row with a blank between
\* or without.
SomePesel == <<4, 4, 0, 5, 1, 4, 0, 1, 3, 5, 9>>
NoSuchDay == <<4, 4, 0, 2, 3, 0, 0, 1, 3, 5, 6>>
Mobile == <<41, 4, 8, 40, 6, 0, 0, 40, 7, 0, 0, 40, 8, 0, 0>>
Abroad == <<0, 0, 9, 9, 9, 40, 1, 2, 3, 4, 40, 5, 6, 7, 8>>
TooShort == <<41, 4, 8, 40, 6, 0, 0, 40, 7>>
Few == <<1, 2>>
More == <<22, 24, 27, 14>>
AbFew == <<10, 11, 1, 2>>
BelgianIban == <<11, 14, 6, 8, 40, 5, 3, 9, 0, 40, 0, 7, 5, 4, 40, 7, 0, 3, 4>>
GermanIban == <<13, 14, 8, 9, 3, 7, 0, 4, 0, 0, 4, 4, 0, 5, 3, 2, 0, 1, 3, 0, 0, 0>>
PolishAccount ==
    <<6, 1, 40, 1, 0, 9, 0, 40, 1, 0, 1, 4, 40, 0, 0, 0, 0, 40, 0, 7, 1, 2, 40, 1, 9, 8, 1,
      40, 2, 8, 7, 4>>
SomeNip == <<25, 21, 5, 2, 6, 0, 2, 5, 0, 2, 7, 4>>
NoNip == <<25, 21, 7, 7, 3, 0, 0, 0, 0, 0, 0, 0>>
BirthDates ==
    {<<43, 3, 1, 42, 0, 2, 42, 1, 9, 9, 0>>, <<43, 0, 2, 42, 1, 3, 42, 1, 9, 9, 0>>,
     <<43, 1, 9, 8, 8, 42, 2, 42, 2, 9>>}
Pieces ==
    {SomePesel, NoSuchDay, Mobile, Abroad, TooShort, Few, More, AbFew, BelgianIban, GermanIban,
     PolishAccount, SomeNip, NoNip} \cup BirthDates

X == INSTANCE Detect WITH
       text <- scanned,
       Texts <- Pieces \cup {one \o <<40>> \o other : one \in Pieces, other \in Pieces}
                  \cup {one \o other : one \in {Mobile, BelgianIban, AbFew, Few},
                                      other \in {Few, More, SomePesel}}

-----------------------------------------------------------------------------
\* A CV with two entries of one name that say some of the same, and the same one with its
\* entries in another order; a page is two entries, and has no room for both whole.
Worded(says, size) == [says |-> says, size |-> size]
JobAt(name, highlights, size) == [name |-> name, highlights |-> highlights, size |-> size]
CvOf(role, jobs) ==
    [personal |-> Worded("ann", 1), contact |-> Worded("mail", 1), role_description |-> role,
     skills |-> Worded("go", 2), experience |-> jobs]

J == INSTANCE CvReading WITH
       docs <- papers, excluded <- leftOut, search <- searching, store <- rowsKept, calls <- asks,
       Documents <- {CvOf(Worded("dev", 3), <<JobAt("acme", {"a", "b"}, 2),
                                             JobAt("acme", {"a", "c"}, 2), JobAt("beta", {"d"}, 3)>>),
                     CvOf(Worded("", 0), <<JobAt("beta", {"d"}, 3), JobAt("acme", {"a", "c"}, 2),
                                           JobAt("acme", {"a", "b"}, 1)>>)},
       ExclusionLists <- {{}, {<<"experience", <<"acme", 1>>>>, <<"overview", "role_description">>},
                          {<<"experience", <<"acme", 2>>>>, <<"overview", "personal">>}, {<<>>}},
       Budget <- 4, PassageBudget <- 1, PageSize <- 2, MaxRevision <- 2, MaxChanges <- 1,
       MaxCalls <- 2, MaxFailures <- 1

maskVars == <<call, masking, vault, sent, said, unissued, tallied>>
editVars == <<docs, walls, edit, proposal>>
upgradeVars == <<file, beside, start, putBack>>
webVars == <<reads, abandoned, hostQueue, lastAt, clock, requested>>
searchVars == <<searches, givenUp, line, lastCallAt, time, cache, calls>>
recipientVars == <<input, posting, gathered, hits, rows, site, ask, trust, companyDomains,
    at, picks, ranked>>
providerVars == <<stored, env, kept, builds, callers>>
claimsVars == <<revisions, passed, stage, material, draft, answer>>
groundingVars == <<world, message, run, approved, changed, recent>>
guardVars == vars
doorVars == <<status, log, going, late, active, stopped, cursor, watching, pump, pending,
    door, quit, announced, shown>>
translateVars == <<given, replies, outcome, deviations>>
salaryVars == <<priced, reading>>
offerVars == <<offer, facts, figures, stated, analysis, listing, statedBy, runs, done>>
draftVars == <<request, cv, drafting, made, body, reviewed, recipient, result>>
callVars == <<step, signal, place, attempts, wrote, heard, replied, thrown, written, verdict>>
detectVars == <<scanned, detector, lastIndex, found>>
readingVars == <<papers, indexed, leftOut, changes, searching, rowsKept, book, asks,
    failures, handed>>
partsVars == <<focus, maskVars, editVars, upgradeVars, webVars, searchVars, recipientVars,
    providerVars, claimsVars, groundingVars, guardVars, doorVars, translateVars, salaryVars,
    offerVars, draftVars, callVars, detectVars, readingVars>>

\* A part that is not looked at is nowhere; the guard is where it begins.
IdleMask ==
    /\ call = "idle" /\ masking = "idle" /\ vault = "idle" /\ sent = "idle"
    /\ said = "idle" /\ unissued = "idle" /\ tallied = "idle"
IdleEdit ==
    /\ docs = "idle" /\ walls = "idle" /\ edit = "idle" /\ proposal = "idle"
IdleUpgrade ==
    /\ file = "idle" /\ beside = "idle" /\ start = "idle" /\ putBack = "idle"
IdleReader ==
    /\ reads = "idle" /\ abandoned = "idle" /\ hostQueue = "idle" /\ lastAt = "idle"
    /\ clock = "idle" /\ requested = "idle"
IdleSearch ==
    /\ searches = "idle" /\ givenUp = "idle" /\ line = "idle" /\ lastCallAt = "idle"
    /\ time = "idle" /\ cache = "idle" /\ calls = "idle"
IdleRecipient ==
    /\ input = "idle" /\ posting = "idle" /\ gathered = "idle" /\ hits = "idle"
    /\ rows = "idle" /\ site = "idle" /\ ask = "idle" /\ trust = "idle"
    /\ companyDomains = "idle" /\ at = "idle" /\ picks = "idle" /\ ranked = "idle"
IdleProviders ==
    /\ stored = "idle" /\ env = "idle" /\ kept = "idle" /\ builds = "idle"
    /\ callers = "idle"
IdleClaims ==
    /\ revisions = "idle" /\ passed = "idle" /\ stage = "idle" /\ material = "idle"
    /\ draft = "idle" /\ answer = "idle"
IdleMessage ==
    /\ world = "idle" /\ message = "idle" /\ run = "idle" /\ approved = "idle"
    /\ changed = "idle" /\ recent = "idle"
IdleDoor ==
    /\ status = "idle" /\ log = "idle" /\ going = "idle" /\ late = "idle"
    /\ active = "idle" /\ stopped = "idle" /\ cursor = "idle" /\ watching = "idle"
    /\ pump = "idle" /\ pending = "idle" /\ door = "idle" /\ quit = "idle"
    /\ announced = "idle" /\ shown = "idle"
IdleTranslate ==
    /\ given = "idle" /\ replies = "idle" /\ outcome = "idle" /\ deviations = "idle"
IdleSalary ==
    /\ priced = "idle" /\ reading = "idle"
IdleOffer ==
    /\ offer = "idle" /\ facts = "idle" /\ figures = "idle" /\ stated = "idle"
    /\ analysis = "idle" /\ listing = "idle" /\ statedBy = "idle" /\ runs = "idle"
    /\ done = "idle"
IdleLetter ==
    /\ request = "idle" /\ cv = "idle" /\ drafting = "idle" /\ made = "idle"
    /\ body = "idle" /\ reviewed = "idle" /\ recipient = "idle" /\ result = "idle"
IdleCall ==
    /\ step = "idle" /\ signal = "idle" /\ place = "idle" /\ attempts = "idle"
    /\ wrote = "idle" /\ heard = "idle" /\ replied = "idle" /\ thrown = "idle"
    /\ written = "idle" /\ verdict = "idle"
IdleDetect ==
    /\ scanned = "idle" /\ detector = "idle" /\ lastIndex = "idle" /\ found = "idle"
IdleReading ==
    /\ papers = "idle" /\ indexed = "idle" /\ leftOut = "idle" /\ changes = "idle"
    /\ searching = "idle" /\ rowsKept = "idle" /\ book = "idle" /\ asks = "idle"
    /\ failures = "idle" /\ handed = "idle"

PartsInit ==
    /\ focus \in {"mask", "edit", "upgrade", "reader", "search", "recipient", "providers",
                 "claims", "message", "guard", "door", "translate", "salary", "offer", "letter",
                 "call", "detect", "reading"}
    /\ IF focus = "mask" THEN K!MaskInit ELSE IdleMask
    /\ IF focus = "edit" THEN E!CvEditInit ELSE IdleEdit
    /\ IF focus = "upgrade" THEN G!UpgradeInit ELSE IdleUpgrade
    /\ IF focus = "reader" THEN W!WebInit ELSE IdleReader
    /\ IF focus = "search" THEN Q!SearchInit ELSE IdleSearch
    /\ IF focus = "recipient" THEN R!RecipientInit ELSE IdleRecipient
    /\ IF focus = "providers" THEN V!ProviderInit ELSE IdleProviders
    /\ IF focus = "claims" THEN C!ClaimsInit ELSE IdleClaims
    /\ IF focus = "message" THEN N!GroundingInit ELSE IdleMessage
    /\ Init
    /\ IF focus = "door" THEN H!DoorInit ELSE IdleDoor
    /\ IF focus = "translate" THEN T!TranslateInit ELSE IdleTranslate
    /\ IF focus = "salary" THEN Y!SalaryInit ELSE IdleSalary
    /\ IF focus = "offer" THEN F!OfferInit ELSE IdleOffer
    /\ IF focus = "letter" THEN D!DraftInit ELSE IdleLetter
    /\ IF focus = "call" THEN L!CallInit ELSE IdleCall
    /\ IF focus = "detect" THEN X!DetectInit ELSE IdleDetect
    /\ IF focus = "reading" THEN J!ReadingInit ELSE IdleReading

PartsNext ==
    \/ focus = "mask" /\ K!MaskNext
       /\ UNCHANGED <<focus, editVars, upgradeVars, webVars, searchVars, recipientVars,
                       providerVars, claimsVars, groundingVars, guardVars, doorVars,
                       translateVars, salaryVars, offerVars, draftVars, callVars, detectVars,
                       readingVars>>
    \/ focus = "edit" /\ E!CvEditNext
       /\ UNCHANGED <<focus, maskVars, upgradeVars, webVars, searchVars, recipientVars,
                       providerVars, claimsVars, groundingVars, guardVars, doorVars,
                       translateVars, salaryVars, offerVars, draftVars, callVars, detectVars,
                       readingVars>>
    \/ focus = "upgrade" /\ G!UpgradeNext
       /\ UNCHANGED <<focus, maskVars, editVars, webVars, searchVars, recipientVars,
                       providerVars, claimsVars, groundingVars, guardVars, doorVars,
                       translateVars, salaryVars, offerVars, draftVars, callVars, detectVars,
                       readingVars>>
    \/ focus = "reader" /\ W!WebNext
       /\ UNCHANGED <<focus, maskVars, editVars, upgradeVars, searchVars, recipientVars,
                       providerVars, claimsVars, groundingVars, guardVars, doorVars,
                       translateVars, salaryVars, offerVars, draftVars, callVars, detectVars,
                       readingVars>>
    \/ focus = "search" /\ Q!SearchNext
       /\ UNCHANGED <<focus, maskVars, editVars, upgradeVars, webVars, recipientVars,
                       providerVars, claimsVars, groundingVars, guardVars, doorVars,
                       translateVars, salaryVars, offerVars, draftVars, callVars, detectVars,
                       readingVars>>
    \/ focus = "recipient" /\ R!RecipientNext
       /\ UNCHANGED <<focus, maskVars, editVars, upgradeVars, webVars, searchVars,
                       providerVars, claimsVars, groundingVars, guardVars, doorVars,
                       translateVars, salaryVars, offerVars, draftVars, callVars, detectVars,
                       readingVars>>
    \/ focus = "providers" /\ V!ProviderNext
       /\ (callers'["c2"].at # "idle" => callers'["c1"].at # "idle")  \* they are alike
       /\ UNCHANGED <<focus, maskVars, editVars, upgradeVars, webVars, searchVars,
                       recipientVars, claimsVars, groundingVars, guardVars, doorVars,
                       translateVars, salaryVars, offerVars, draftVars, callVars, detectVars,
                       readingVars>>
    \/ focus = "claims" /\ C!ClaimsNext
       /\ UNCHANGED <<focus, maskVars, editVars, upgradeVars, webVars, searchVars,
                       recipientVars, providerVars, groundingVars, guardVars, doorVars,
                       translateVars, salaryVars, offerVars, draftVars, callVars, detectVars,
                       readingVars>>
    \/ focus = "message" /\ N!GroundingNext
       /\ UNCHANGED <<focus, maskVars, editVars, upgradeVars, webVars, searchVars,
                       recipientVars, providerVars, claimsVars, guardVars, doorVars,
                       translateVars, salaryVars, offerVars, draftVars, callVars, detectVars,
                       readingVars>>
    \/ focus = "guard" /\ Next
       /\ UNCHANGED <<focus, maskVars, editVars, upgradeVars, webVars, searchVars,
                       recipientVars, providerVars, claimsVars, groundingVars, doorVars,
                       translateVars, salaryVars, offerVars, draftVars, callVars, detectVars,
                       readingVars>>
    \/ focus = "door" /\ H!DoorNext
       /\ UNCHANGED <<focus, maskVars, editVars, upgradeVars, webVars, searchVars,
                       recipientVars, providerVars, claimsVars, groundingVars, guardVars,
                       translateVars, salaryVars, offerVars, draftVars, callVars, detectVars,
                       readingVars>>
    \/ focus = "translate" /\ T!TranslateNext
       /\ UNCHANGED <<focus, maskVars, editVars, upgradeVars, webVars, searchVars,
                       recipientVars, providerVars, claimsVars, groundingVars, guardVars,
                       doorVars, salaryVars, offerVars, draftVars, callVars, detectVars,
                       readingVars>>
    \/ focus = "salary" /\ Y!SalaryNext
       /\ UNCHANGED <<focus, maskVars, editVars, upgradeVars, webVars, searchVars,
                       recipientVars, providerVars, claimsVars, groundingVars, guardVars,
                       doorVars, translateVars, offerVars, draftVars, callVars, detectVars,
                       readingVars>>
    \/ focus = "offer" /\ F!OfferNext
       /\ UNCHANGED <<focus, maskVars, editVars, upgradeVars, webVars, searchVars,
                       recipientVars, providerVars, claimsVars, groundingVars, guardVars,
                       doorVars, translateVars, salaryVars, draftVars, callVars, detectVars,
                       readingVars>>
    \/ focus = "letter" /\ D!DraftNext
       /\ UNCHANGED <<focus, maskVars, editVars, upgradeVars, webVars, searchVars,
                       recipientVars, providerVars, claimsVars, groundingVars, guardVars,
                       doorVars, translateVars, salaryVars, offerVars, callVars, detectVars,
                       readingVars>>
    \/ focus = "call" /\ L!CallNext
       /\ UNCHANGED <<focus, maskVars, editVars, upgradeVars, webVars, searchVars,
                       recipientVars, providerVars, claimsVars, groundingVars, guardVars,
                       doorVars, translateVars, salaryVars, offerVars, draftVars, detectVars,
                       readingVars>>
    \/ focus = "detect" /\ X!DetectNext
       /\ UNCHANGED <<focus, maskVars, editVars, upgradeVars, webVars, searchVars,
                       recipientVars, providerVars, claimsVars, groundingVars, guardVars,
                       doorVars, translateVars, salaryVars, offerVars, draftVars, callVars,
                       readingVars>>
    \/ focus = "reading" /\ J!ReadingNext
       /\ UNCHANGED <<focus, maskVars, editVars, upgradeVars, webVars, searchVars,
                       recipientVars, providerVars, claimsVars, groundingVars, guardVars,
                       doorVars, translateVars, salaryVars, offerVars, draftVars, callVars,
                       detectVars>>

\* The upgrade's bounds are what its module asks of them.
ASSUME UpgradeIsBounded == G!UpgradeAssumption

\* Every call of the guard is for one message.
ASSUME CallsHaveKeys == KeysBelong

\* The bounds of the reader and of the search are what their modules ask of them.
ASSUME ReadersAreBounded == W!ReaderBounds /\ Q!SearchBounds

\* What boards and models may say of an offer is of the kinds its module asks for.
ASSUME OffersAreStated == F!FactsAreStated

PartsSpec == PartsInit /\ [][PartsNext]_partsVars

-----------------------------------------------------------------------------
\* Nothing goes where it may not: no personal term to a hosted model, no request to a host
\* that is not public or has refused, no answer from a client of a key that is no longer in
\* force or of another provider's model; no excluded part of a CV is handed to a chat that
\* reads it, or lost by an edit that was not shown it, and a prompt holds what was approved
\* and is still true.
NothingGoesWhereItMayNot ==
    /\ focus = "mask" => K!NothingKeptIsSent /\ K!RestoreUndoesMask
    /\ focus = "edit" => E!ExcludedSurvivesEdit
    /\ focus = "reading" => J!NothingLeftOutIsHanded
    /\ focus = "message" => N!SentIsCurrent /\ N!ApprovedIsSent
    /\ focus = "reader" => W!OnlyPublicIsAsked /\ W!ARefusalIsFinal
    /\ focus = "providers" =>
         V!KeptIsOfTheKeyInForce /\ V!FailuresDoNotStick /\ V!ModelsStayWithTheirProvider

\* What is kept can be gone back to: a backup is a whole file of the version it names and a
\* start can be undone, and a proposal makes the document it shows or is refused.
WhatIsKeptIsTrue ==
    /\ focus = "edit" => E!ProposalIsItsChanges /\ E!RefusedWithReason
    /\ focus = "upgrade" => G!UpgradeTypeOK /\ G!BackupsAreWhatTheySay /\ G!UpgradesCanBeUndone
    /\ focus = "providers" => V!ProviderTypeOK

\* What is said has what it rests on: an address is only as strong as the site it was read
\* on, a summary and a translation say what the CV says, a salary has the posting's own
\* figures, a fact that is said to be the board's is, a letter keeps what was written, and
\* an identifier is found and found whole.
WhatIsSaidHasItsGround ==
    /\ focus = "recipient" => R!RecipientTypeOK /\ R!TheYardstickIsVouchedFor
                                 /\ R!StrengthIsEarned /\ R!StatedIsStrong
    /\ focus = "claims" => C!ClaimsTypeOK /\ C!ClaimsRestOnTheCv /\ C!SummaryIsWhole
    /\ focus = "translate" => T!TranslateTypeOK /\ T!FactsSurvive
    /\ focus = "salary" => Y!ReadAsPosted
    /\ focus = "offer" => F!OfferTypeOK /\ F!ProvenanceIsTrueOfMost
    /\ focus = "letter" => D!DraftTypeOK /\ D!LetterSurvives /\ D!SuggestionsAreMailboxes
    /\ focus = "detect" => X!DetectTypeOK /\ X!NothingIsHidden /\ X!FoundIsOne

\* What a model is given and what it answered are taken whole: a prompt holds each piece
\* once and no fewer than it must, a streamed answer is the answer, what a step is taken to
\* have been answered was answered to its end, and the record says what a chat was handed.
ModelsAreHeardWhole ==
    /\ focus = "mask" => K!StreamIsTheWhole /\ K!CountsAreTrue
    /\ focus = "message" => N!GroundingTypeOK /\ N!EachPieceOnce /\ N!FitsAsMeasured /\ N!AsFewAsPossible
    /\ focus = "call" => L!CallTypeOK /\ L!AnswersAreWhole /\ L!CallsAreToldTrue
    /\ focus = "reading" => J!ReadingTypeOK /\ J!RecordIsWhatWasHanded /\ J!LeftOutIsWithheld

\* Turns are taken and come: requests to a host and queries to an engine are spaced and
\* nobody waits for nobody, and a client is sent every event once, in order and after the
\* run's id, while anything is left to watch for.
TurnsAreTaken ==
    /\ focus = "reader" => W!WebTypeOK /\ W!HostsAreSpaced /\ W!NobodyWaitsForNobody
    /\ focus = "search" => Q!SearchTypeOK /\ Q!EngineIsSpaced /\ Q!TheLineMoves /\ Q!CacheIsBounded
    /\ focus = "door" => H!DoorTypeOK /\ H!EachEventOnce /\ H!IdComesFirst /\ H!LiveIsWatched

\* "The last word on every run, so a client that asked to stop still learns how each one
\* ended" (host.ts, shutdown): of a shutdown that did not give up and was not cut short.
LastWord == focus = "door" => H!LastWord

\* "Nothing is cut to fit" (docs/studio-grounding-protocol.md): the pieces of a message,
\* numbered as the model is to cite them, are within what their section is clipped at.
NothingIsCutToFit == focus = "message" => N!NothingIsCutToFit

\* "Excluding overview/personal leaves out the contact details too, whichever way they are
\* asked for" (docs/studio-grounding-protocol.md): of earlier answers made from them as well.
ContactGoesWithPersonal == focus = "reading" => J!ContactGoesWithPersonal

\* A read that is cancelled asks nobody any more, an import takes nothing away, and of an
\* offer no decision is taken back, no reading is lost and the board is heard.
NothingIsUndone ==
    [][/\ focus = "reader" => W!CancelledAsksNothing
       /\ focus = "edit" => E!ImportOnlyAdds
       /\ focus = "offer" => F!DecisionStands /\ F!ReadingsStand /\ F!BoardIsHeard]_partsVars
=============================================================================
