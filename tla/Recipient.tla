------------------------------- MODULE Recipient -------------------------------
(***************************************************************************)
(* Where an application should be sent: capabilities/recipient.  The steps  *)
(* of verify_recipient gather pages, those of the pages stage beside each   *)
(* other; what the pages print is weighed last.  A page is its url, the     *)
(* registrable domain it is on and the addresses its text prints; a hit of  *)
(* the search engine is a page with what its row says about it.             *)
(***************************************************************************)
EXTENDS Integers, FiniteSets, Sequences, SequencesExt, FiniteSetsExt

CONSTANTS
    Addresses,          \* the addresses that occur
    DomainOf,           \* their registrable domains
    FreeMail,           \* the domains that are consumer providers
    Inputs,             \* what it is called with: [prints, url, company, companyUrl, web, boards]
    Postings,           \* what a posting may say: [prints, companyUrl, email], or Unread
    HitLists,           \* what the two queries may find
    SiteHits,           \* what the query for the employer's own pages may find
    Answers,            \* what the scraper may say of a site
    SiteAnswers(_, _),  \* those it may say when asked by the url, a domain or the name
    Guesses(_),         \* what may be read at the paths guessed on a domain
    UrlsOn(_),          \* the urls on a domain
    OtherOffers,        \* the postings other boards may hold
    PagesToOpen         \* WEB_PAGES_TO_OPEN

None == "none"
NoText == {None}
Unread == [prints |-> NoText, companyUrl |-> None, email |-> None]
NoSite == [status |-> "unavailable"]

VARIABLES
    input,              \* what it was called with
    posting,            \* what the source step knows: text, the employer's site, stated address
    gathered,           \* the sources read, in the order they were
    hits,               \* the hits of the web tier
    rows,               \* the postings of other boards that are still opened
    site,               \* what came of the employer's site so far
    ask,                \* how it is still asked for: by the stated url, a domain, the name
    trust,              \* anchorTrust
    companyDomains,     \* the employer's domains, as far as they were established
    at,                 \* how far each step is
    picks,              \* the pages web_pages still opens
    ranked              \* the answer, once there is one

recipientVars == <<input, posting, gathered, hits, rows, site, ask, trust, companyDomains, at, picks, ranked>>

Steps == {"source", "web_lookup", "company_site", "web_pages", "other_boards", "rank"}

-----------------------------------------------------------------------------
(* routes.ts *)
Order(kind) == CASE kind = "form" -> 0 [] kind = "ats" -> 1 [] kind = "careers" -> 2
                 [] kind = "contact" -> 3 [] OTHER -> 4

\* domainCandidates: how much the hits say for a domain being the employer's.
Score(list, d) ==
    LET mine == {i \in DOMAIN list : list[i].host = "employer" /\ list[i].domain = d}
        first == Min(mine)
        name == CASE list[first].fits = "same" -> 6 [] list[first].fits = "like" -> 4 [] OTHER -> 0
        rank == IF first = 1 THEN 2 ELSE IF first <= 3 THEN 1 ELSE 0
        row(i) == (IF list[i].titled THEN 2 ELSE 0)
                  + (IF Cardinality({j \in mine : j < i}) < 3 THEN 1 ELSE 0)
                  + (CASE list[i].kind = "careers" -> 2 [] list[i].kind = "contact" -> 1 [] OTHER -> 0)
    IN FoldSet(LAMBDA i, sum : sum + row(i), name + rank, mine)

DomainCandidates(list) ==
    LET found == {list[i].domain : i \in {j \in DOMAIN list : list[j].host = "employer"}}
    IN SetToSortSeq(found, LAMBDA a, b : Score(list, a) > Score(list, b))

\* pagesToOpen: a page on the employer's domain, or one about hiring.
PagesWorthOpening(list, owned, read) ==
    LET worth == SelectSeq(list, LAMBDA h :
            /\ h.host \in {"employer", "ats"}
            /\ h.host = "employer" /\ owned # {} => h.domain \in owned
            /\ h.url \notin read
            /\ h.kind # "page" \/ h.domain \in owned)
        before(i, j) ==
            \/ worth[i].promising /\ ~worth[j].promising
            \/ /\ worth[i].promising = worth[j].promising
               /\ \/ Order(worth[i].kind) < Order(worth[j].kind)
                  \/ Order(worth[i].kind) = Order(worth[j].kind) /\ i < j
        sorted == SetToSortSeq(DOMAIN worth, before)
    IN [i \in 1..(IF Len(sorted) < PagesToOpen THEN Len(sorted) ELSE PagesToOpen) |-> worth[sorted[i]]]

-----------------------------------------------------------------------------
(* ranking.ts *)
Level(c) == CASE c = "low" -> 0 [] c = "medium" -> 1 [] c = "high" -> 2
Ceiling(anchor) == CASE anchor = "board" -> "high" [] anchor = "discovered" -> "medium"
                     [] anchor = "guessed" -> "low"

SlipForgetsTheAnchor(evidence, match, anchor) ==
    LET sources == {e.source : e \in evidence}
    IN CASE "board_stated" \in sources -> "high"
         [] match /\ ("company_site" \in sources \/ Cardinality(sources) > 1) -> "high"
         [] match \/ "company_site" \in sources -> "medium"
         [] OTHER -> "low"

ConfidenceOf(evidence, match, anchor) ==
    LET sources == {e.source : e \in evidence}
        raw == CASE match /\ ("company_site" \in sources \/ Cardinality(sources) > 1) -> "high"
                 [] match \/ "company_site" \in sources -> "medium"
                 [] OTHER -> "low"
    IN CASE "board_stated" \in sources -> "high"
         [] Level(raw) <= Level(Ceiling(anchor)) -> raw
         [] OTHER -> Ceiling(anchor)

\* Only the employer's own site vouches for another domain, and for no consumer one.
Attested(read) ==
    {DomainOf[a] : a \in UNION {read[i].prints : i \in {j \in DOMAIN read :
                                                         read[j].source = "company_site"}}} \ FreeMail

\* The first source read at a url is the evidence of that url.
EvidenceFor(address, read) ==
    {[source |-> read[i].source, url |-> read[i].url] : i \in {j \in DOMAIN read :
        /\ address \in read[j].prints
        /\ \A k \in 1..(j - 1) : read[k].url = read[j].url => address \notin read[k].prints}}

RankRecipients(read, stated, anchor) ==
    LET domains == (stated \ {None}) \cup Attested(read)
        found == UNION {read[i].prints : i \in DOMAIN read}
    IN {[address |-> a, evidence |-> EvidenceFor(a, read), match |-> DomainOf[a] \in domains,
         confidence |-> ConfidenceOf(EvidenceFor(a, read), DomainOf[a] \in domains, anchor)] : a \in found}

-----------------------------------------------------------------------------
RecipientTypeOK ==
    /\ input \in Inputs /\ trust \in {"board", "discovered", "guessed"}
    /\ at \in [Steps -> {"later", "next", "reading", "done"}]
    /\ \A i \in DOMAIN gathered :
         /\ gathered[i].source \in {"offer", "board_stated", "company_site", "web_page", "other_board"}
         /\ gathered[i].prints \subseteq Addresses
    /\ site.status \in {"ok", "failed", "unavailable"} /\ Len(ask) <= 5
    /\ \A c \in ranked : c.address \in Addresses /\ c.confidence \in {"low", "medium", "high"}

RecipientInit ==
    /\ input \in Inputs
    /\ posting = [prints |-> input.prints, companyUrl |-> input.companyUrl, email |-> None]
    /\ gathered = <<>> /\ hits = <<>> /\ rows = {}
    /\ site = NoSite /\ ask = <<>> /\ trust = "board" /\ companyDomains = {}
    /\ at = [s \in Steps |-> IF s = "source" THEN "next" ELSE "later"]
    /\ picks = <<>> /\ ranked = {}

Ends(step, next) ==
    at' = [s \in Steps |-> IF s = step THEN "done" ELSE IF s \in next THEN "next" ELSE at[s]]
Read(source, page) == [source |-> source, url |-> page.url, prints |-> page.prints]

\* source: the posting is read when there is something to learn from it; a text that
\* was supplied wins over the one read.
Source(said) ==
    LET text == IF input.prints # NoText THEN input.prints ELSE said.prints
    IN /\ at["source"] = "next"
       /\ ~(input.url /\ input.companyUrl = None) => said = Unread
       /\ said = Unread => text # NoText \/ input.company \/ ~input.url
       /\ posting' = [prints |-> text, email |-> said.email,
                      companyUrl |-> IF input.companyUrl = None THEN said.companyUrl
                                     ELSE input.companyUrl]
       /\ gathered' =
            (IF text = NoText THEN <<>> ELSE <<[source |-> "offer", url |-> "posting", prints |-> text]>>)
            \o (IF said.email = None THEN <<>>
                ELSE <<[source |-> "board_stated", url |-> "posting", prints |-> {said.email}]>>)
       /\ Ends("source", {"web_lookup"})
       /\ UNCHANGED <<input, hits, rows, site, ask, trust, companyDomains, picks, ranked>>

\* web_lookup: what the engine found for the name, a url once; the first three domains
\* it proposes are asked after the one the board named.
WebLookup(found) ==
    LET proposed == DomainCandidates(found)
    IN /\ at["web_lookup"] = "next"
       /\ (input.web /\ input.company) \/ found = <<>>
       /\ hits' = found
       /\ ask' = (IF posting.companyUrl # None THEN <<[by |-> "url", of |-> posting.companyUrl]>> ELSE <<>>)
                 \o [i \in 1..(IF Len(proposed) < 3 THEN Len(proposed) ELSE 3) |->
                       [by |-> "domain", of |-> proposed[i]]]
                 \o (IF input.company THEN <<[by |-> "name", of |-> None]>> ELSE <<>>)
       /\ Ends("web_lookup", {"company_site"})
       /\ UNCHANGED <<input, posting, gathered, rows, site, trust, companyDomains, picks, ranked>>

-----------------------------------------------------------------------------
(* company_site: the readings of a site one after the other, then what came of them. *)
Settled == site.status = "ok" /\ site.corroborated # "no"

\* A site that says the city as well as the name is worth more than one that loaded.
ReadCompany(said) ==
    /\ at["company_site"] = "next" /\ ask # <<>>
    /\ ~Settled \/ Head(ask).by = "url"
    /\ said \in SiteAnswers(Head(ask).by, Head(ask).of)
    /\ site' = CASE Head(ask).by = "url" -> said
                 [] said.status = "ok" /\ (site.status # "ok" \/ said.corroborated = "yes") -> said
                 [] said.status # "ok" /\ site.status # "ok" /\ posting.companyUrl = None -> said
                 [] OTHER -> site
    /\ ask' = Tail(ask)
    /\ UNCHANGED <<input, posting, gathered, hits, rows, trust, companyDomains, at, picks, ranked>>

TrustIn(found) ==
    IF found.discovered THEN IF found.corroborated = "yes" THEN "discovered" ELSE "guessed" ELSE "board"

SlipMeasuresByAGuess(found) == {found.origin, found.redirectedFrom} \ {None}

\* A domain nothing corroborated does not become the yardstick.
Yardstick(found) ==
    IF TrustIn(found) = "guessed" THEN {} ELSE {found.origin, found.redirectedFrom} \ {None}

CompanySite ==
    /\ at["company_site"] = "next" /\ (ask = <<>> \/ Settled)
    /\ IF site.status = "ok"
       THEN /\ gathered' = gathered \o [i \in DOMAIN site.pages |-> Read("company_site", site.pages[i])]
            /\ trust' = TrustIn(site) /\ companyDomains' = Yardstick(site)
       ELSE UNCHANGED <<gathered, trust, companyDomains>>
    /\ ask' = <<>>
    /\ Ends("company_site", {"web_pages", "other_boards"})
    /\ UNCHANGED <<input, posting, hits, rows, site, picks, ranked>>

-----------------------------------------------------------------------------
(* The pages stage: its two steps read beside each other. *)
Owned == (companyDomains \cup {posting.companyUrl}) \ {None}
CompanyPages == {i \in DOMAIN gathered : gathered[i].source = "company_site"}

\* What is opened: the hits worth it, those of a query for the employer's own pages
\* with them, and the paths such a page lives at when none of them was read.
WebPagesBegin(more) ==
    LET asks == Owned # {} /\ \A i \in CompanyPages : gathered[i].prints = {}
        all == hits \o SelectSeq(more, LAMBDA h : \A i \in DOMAIN hits : hits[i].url # h.url)
        worth == PagesWorthOpening(all, Owned, {gathered[i].url : i \in CompanyPages})
    IN /\ at["web_pages"] = "next"
       /\ (input.web /\ asks) \/ more = <<>>
       /\ hits' = IF input.web THEN all ELSE hits
       /\ picks' = IF ~input.web THEN <<>>
                   ELSE worth \o (IF Owned # {} /\ CompanyPages = {}
                                  THEN SelectSeq(Guesses(CHOOSE d \in Owned : TRUE),
                                         LAMBDA g : \A i \in DOMAIN worth : worth[i].url # g.url)
                                  ELSE <<>>)
       /\ at' = [at EXCEPT !["web_pages"] = "reading"]
       /\ UNCHANGED <<input, posting, gathered, rows, site, ask, trust, companyDomains, ranked>>

\* Where it was found decides nothing; this slip believes the row of the engine.
SlipBelievesTheRow(pick) == IF pick.domain \in Owned THEN "company_site" ELSE "web_page"

\* Where a page landed decides what it is, not where it was found.
SourceOf(pick) == IF pick.lands \in Owned THEN "company_site" ELSE "web_page"

\* A page is read, cannot be read, or the tier has run out of time for it.
OpenPage(read) ==
    /\ at["web_pages"] = "reading" /\ picks # <<>>
    /\ gathered' = IF read THEN Append(gathered, Read(SourceOf(Head(picks)), Head(picks))) ELSE gathered
    /\ picks' = Tail(picks)
    /\ UNCHANGED <<input, posting, hits, rows, site, ask, trust, companyDomains, at, ranked>>

WebPagesEnd ==
    /\ at["web_pages"] = "reading" /\ picks = <<>> /\ Ends("web_pages", {})
    /\ UNCHANGED <<input, posting, gathered, hits, rows, site, ask, trust, companyDomains, picks, ranked>>

\* other_boards: the rows that name the company and the role, at most two of them.
OtherBoardsBegin(found) ==
    /\ at["other_boards"] = "next"
    /\ input.boards \/ found = {}
    /\ rows' = found /\ Cardinality(found) <= 2
    /\ at' = [at EXCEPT !["other_boards"] = "reading"]
    /\ UNCHANGED <<input, posting, gathered, hits, site, ask, trust, companyDomains, picks, ranked>>

OpenOffer(row, read) ==
    /\ at["other_boards"] = "reading" /\ row \in rows
    /\ gathered' = IF read THEN Append(gathered, Read("other_board", row)) ELSE gathered
    /\ rows' = rows \ {row}
    /\ UNCHANGED <<input, posting, hits, site, ask, trust, companyDomains, at, picks, ranked>>

OtherBoardsEnd ==
    /\ at["other_boards"] = "reading" /\ rows = {} /\ Ends("other_boards", {})
    /\ UNCHANGED <<input, posting, gathered, hits, rows, site, ask, trust, companyDomains, picks, ranked>>

Rank ==
    /\ at["rank"] = "later" /\ at["web_pages"] = "done" /\ at["other_boards"] = "done"
    /\ ranked' = RankRecipients(gathered, Owned, trust)
    /\ Ends("rank", {})
    /\ UNCHANGED <<input, posting, gathered, hits, rows, site, ask, trust, companyDomains, picks>>

RecipientNext ==
    \/ \E said \in Postings \cup {Unread} : Source(said)
    \/ \E found \in HitLists \cup {<<>>} : WebLookup(found)
    \/ \E said \in Answers : ReadCompany(said)
    \/ CompanySite
    \/ \E more \in SiteHits \cup {<<>>} : WebPagesBegin(more)
    \/ \E read \in BOOLEAN : OpenPage(read)
    \/ WebPagesEnd
    \/ \E found \in SUBSET OtherOffers : OtherBoardsBegin(found)
    \/ \E row \in OtherOffers, read \in BOOLEAN : OpenOffer(row, read)
    \/ OtherBoardsEnd \/ Rank

-----------------------------------------------------------------------------
\* The domains that are the employer's as far as anyone vouched for it: the one the
\* board stated, and those of a site that was not guessed from the name alone.
Vouched ==
    ({posting.companyUrl} \cup (IF site.status = "ok" /\ (~site.discovered \/ site.corroborated = "yes")
                                THEN {site.origin, site.redirectedFrom} ELSE {})) \ {None}

Sources(c) == {e.source : e \in c.evidence}

\* Nothing is measured against a domain nobody vouched for, and no page counts as the
\* employer's own but those of the site that was read and those that lie on such a domain.
TheYardstickIsVouchedFor ==
    /\ Owned \subseteq Vouched
    /\ \A i \in DOMAIN gathered : gathered[i].source = "company_site" =>
         \/ site.status = "ok" /\ \E j \in DOMAIN site.pages : site.pages[j].url = gathered[i].url
         \/ \E d \in Vouched : gathered[i].url \in UrlsOn(d)

\* A recipient is called a strong match only when the board stated the address, or the
\* employer's domain was stated and the address is on it or on one that its own site
\* prints; and a domain that was guessed makes nothing more than a weak one.
StrengthIsEarned ==
    \A c \in ranked :
        \/ "board_stated" \in Sources(c) /\ c.confidence = "high"
        \/ c.confidence = "low"
        \/ /\ site.status = "ok" => ~site.discovered \/ site.corroborated = "yes"
           /\ c.confidence = "high" =>
                /\ site.status = "ok" => ~site.discovered
                /\ (c.match /\ Cardinality(Sources(c)) > 1) \/ "company_site" \in Sources(c)
                /\ DomainOf[c.address] \in Vouched
                   \/ \E i \in CompanyPages : \E a \in gathered[i].prints : DomainOf[a] = DomainOf[c.address]

\* An address the board states for applications is a strong match, unless the posting
\* prints it itself: the page is then the evidence.
StatedIsStrong ==
    \A c \in ranked : c.address = posting.email /\ c.address \notin gathered[1].prints =>
        c.confidence = "high"
=============================================================================
