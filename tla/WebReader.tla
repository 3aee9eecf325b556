------------------------------ MODULE WebReader ------------------------------
(***************************************************************************)
(* Reading pages: effects/offers.ts.  An offer is asked of the scraper and, *)
(* when that has no answer, fetched directly; a page is fetched directly;  *)
(* an employer's site and a board's listing are the scraper's alone.  A    *)
(* direct read waits for its turn at the host it was asked for, is checked *)
(* before every hop, and may be cancelled while it waits for anything.     *)
(***************************************************************************)
EXTENDS Integers, FiniteSets, Sequences, SequencesExt

CONSTANTS
    Reads,              \* the reads that are made
    Wants,              \* what each of them may be: [Reads -> SUBSET (kinds \X Hosts)]
    Hosts,              \* the hosts of the URLs that occur
    Named,              \* those that are a name and not an address or a reserved name
    PublicHosts,        \* those that are public, or resolve to public addresses only
    Resolves,           \* what a name may resolve to: [Named -> SUBSET SUBSET {"public", "private"}]
    Leads,              \* where a host may redirect to: [Hosts -> SUBSET Hosts]
    Scraper,            \* whether a scraper and its token are configured
    Interval,           \* MIN_HOST_INTERVAL_MS, in ticks
    MaxRedirects,       \* MAX_REDIRECTS
    MaxTime             \* bound: the clock

VARIABLES
    reads,              \* each read: kind, host asked for, target and hop, how far it is
    abandoned,          \* the reads whose signal has been aborted
    hostQueue,          \* who waits for which host, the one whose turn it is first
    lastAt,             \* hostLastAt
    clock,              \* now
    requested           \* the requests that were sent to a host, with their time

ReaderBounds ==
    /\ Interval \in Nat /\ MaxTime \in Nat /\ Interval <= MaxTime /\ MaxRedirects \in Nat
    /\ Wants \in [Reads -> SUBSET ({"offer", "page", "company", "board"} \X Hosts)]
    /\ Leads \in [Hosts -> SUBSET Hosts]

webVars == <<reads, abandoned, hostQueue, lastAt, clock, requested>>

Waiting == {"queued", "sleep", "guard", "fetch"}
Done == {"ok", "unreadable", "refused", "failed", "unavailable", "cancelled"}
NoRead == [kind |-> "none", host |-> "none", target |-> "none", hop |-> 0, at |-> "idle",
           said |-> "nothing"]

WebTypeOK ==
    /\ \A r \in Reads :
         /\ reads[r].kind \in {"none", "offer", "page", "company", "board"}
         /\ reads[r].at \in {"idle", "scraper"} \cup Waiting \cup Done
         /\ reads[r].hop \in 0..MaxRedirects /\ {reads[r].host, reads[r].target} \subseteq Hosts \cup {"none"}
    /\ abandoned \subseteq Reads /\ lastAt \in [Hosts -> 0..MaxTime]
    /\ \A h \in Hosts : IsInjective(hostQueue[h]) /\ \A i \in DOMAIN hostQueue[h] : hostQueue[h][i] \in Reads
    /\ requested \subseteq [read : Reads, host : Hosts, hop : 0..MaxRedirects, time : 0..MaxTime,
                          public : BOOLEAN]

WebInit ==
    /\ reads = [r \in Reads |-> NoRead] /\ abandoned = {}
    /\ hostQueue = [h \in Hosts |-> <<>>] /\ lastAt = [h \in Hosts |-> 0]
    /\ clock = Interval /\ requested = {}

-----------------------------------------------------------------------------
(* perHost: a turn at a host, one read at a time and spaced. *)
Becomes(r, at) == [reads EXCEPT ![r].at = at]

Turn(r) == hostQueue[reads[r].host] # <<>> /\ Head(hostQueue[reads[r].host]) = r

SlipKeepsTheTurn(r, how) ==
    /\ reads' = Becomes(r, how)
    /\ hostQueue' = [hostQueue EXCEPT ![reads[r].host] = IF how = "ok" THEN Tail(@) ELSE @]

\* The chain outlives a turn however it ends.
Settles(r, how) ==
    /\ reads' = Becomes(r, how)
    /\ hostQueue' = [hostQueue EXCEPT ![reads[r].host] = Tail(@)]

\* run has ended, with or without an answer: the host was asked just now.
ReadEnds(r, how) ==
    /\ Settles(r, how)
    /\ lastAt' = [lastAt EXCEPT ![reads[r].host] = clock]
    /\ UNCHANGED <<abandoned, clock, requested>>

Wait(r) == lastAt[reads[r].host] + Interval - clock

TurnBegins(r) ==
    /\ reads[r].at = "queued" /\ Turn(r)
    /\ \/ /\ Wait(r) <= 0
          /\ reads' = Becomes(r, "guard") /\ UNCHANGED <<hostQueue, lastAt>>
       \/ /\ Wait(r) > 0 /\ r \notin abandoned
          /\ reads' = Becomes(r, "sleep") /\ UNCHANGED <<hostQueue, lastAt>>
       \/ /\ Wait(r) > 0 /\ r \in abandoned
          /\ Settles(r, "cancelled") /\ UNCHANGED lastAt
    /\ UNCHANGED <<abandoned, clock, requested>>

\* The timer of the sleep, or the abort that clears it.
SleepEnds(r) ==
    /\ reads[r].at = "sleep"
    /\ \/ Wait(r) <= 0 /\ reads' = Becomes(r, "guard") /\ UNCHANGED hostQueue
       \/ r \in abandoned /\ Settles(r, "cancelled")
    /\ UNCHANGED <<abandoned, lastAt, clock, requested>>

-----------------------------------------------------------------------------
(* requestHtml: every hop is checked before it is followed. *)
\* refuseUrl, with what the name resolves to this time; a lookup may fail.
IsRefused(h, answer) ==
    IF h \in Named THEN answer = {} \/ "private" \in answer ELSE h \notin PublicHosts

Lookups(h) == IF h \in Named THEN Resolves[h] ELSE {{}}

SlipChecksTheFirst(r, answer) == reads[r].hop = 0 /\ IsRefused(reads[r].target, answer)

Stops(r, answer) == IsRefused(reads[r].target, answer)

Guard(r) == \E answer \in Lookups(reads[r].target) :
    /\ reads[r].at = "guard"
    /\ \/ Stops(r, answer) /\ ReadEnds(r, "refused")
       \/ ~Stops(r, answer) /\ r \in abandoned /\ ReadEnds(r, "cancelled")
       \/ /\ ~Stops(r, answer) /\ r \notin abandoned
          /\ reads' = Becomes(r, "fetch")
          /\ requested' = requested \cup {[read |-> r, host |-> reads[r].target, hop |-> reads[r].hop,
                                           time |-> clock, public |-> ~IsRefused(reads[r].target, answer)]}
          /\ UNCHANGED <<abandoned, hostQueue, lastAt, clock>>

Redirected(r, to) ==
    /\ reads[r].at = "fetch" /\ to \in Leads[reads[r].target]
    /\ IF reads[r].hop >= MaxRedirects THEN ReadEnds(r, "unreadable")
       ELSE /\ reads' = [reads EXCEPT ![r].at = "guard", ![r].hop = @ + 1, ![r].target = to]
            /\ UNCHANGED <<abandoned, hostQueue, lastAt, clock, requested>>

\* A page with text, one without, a challenge, an error or a time-out; or the abort.
Fetched(r, how) ==
    /\ reads[r].at = "fetch"
    /\ how \in {"ok", "unreadable"} \/ (how = "cancelled" /\ r \in abandoned)
    /\ ReadEnds(r, how)

-----------------------------------------------------------------------------
(* resolve and capture, readPage, readCompany, listBoard. *)
Enqueue(r, read) ==
    /\ reads' = [reads EXCEPT ![r] = [read EXCEPT !.at = "queued", !.target = read.host]]
    /\ hostQueue' = [hostQueue EXCEPT ![read.host] = Append(@, r)]

ReadBegins(r, kind, host) ==
    LET read == [NoRead EXCEPT !.kind = kind, !.host = host]
    IN /\ reads[r].at = "idle" /\ <<kind, host>> \in Wants[r]
       /\ \/ /\ r \in abandoned
             /\ reads' = [reads EXCEPT ![r] = [read EXCEPT !.at = "cancelled"]] /\ UNCHANGED hostQueue
          \/ r \notin abandoned /\ kind = "page" /\ Enqueue(r, read)
          \/ /\ r \notin abandoned /\ kind # "page" /\ Scraper
             /\ reads' = [reads EXCEPT ![r] = [read EXCEPT !.at = "scraper"]] /\ UNCHANGED hostQueue
          \/ r \notin abandoned /\ kind = "offer" /\ ~Scraper /\ Enqueue(r, read)
          \/ /\ r \notin abandoned /\ kind \in {"company", "board"} /\ ~Scraper
             /\ reads' = [reads EXCEPT ![r] = [read EXCEPT !.at = "unavailable"]] /\ UNCHANGED hostQueue
       /\ UNCHANGED <<abandoned, lastAt, clock, requested>>

SlipFallsBackOnARefusal == {"thin", "unavailable", "failed"}

\* What the scraper says after which an offer is fetched directly: it has no text for
\* it, or it did not answer as itself.
FallsBackOn == {"thin", "unavailable"}

\* What the scraper said: an answer, one without text, an outcome it names, or no
\* answer.  An abort while the answer's body is read comes out as no answer.
ScraperAnswers(r, said) ==
    LET read == [reads[r] EXCEPT !.said = said]
    IN /\ reads[r].at = "scraper"
       /\ said = "cancelled" => r \in abandoned
       /\ IF reads[r].kind = "offer" /\ said \in FallsBackOn THEN Enqueue(r, read)
          ELSE /\ reads' = [reads EXCEPT ![r] = [read EXCEPT !.at = IF said = "thin" THEN "failed" ELSE said]]
               /\ UNCHANGED hostQueue
       /\ UNCHANGED <<abandoned, lastAt, clock, requested>>

CancelRead(r) ==
    /\ r \notin abandoned /\ reads[r].at \notin Done
    /\ abandoned' = abandoned \cup {r}
    /\ UNCHANGED <<reads, hostQueue, lastAt, clock, requested>>

ClockTicks ==
    /\ clock < MaxTime /\ clock' = clock + 1
    /\ UNCHANGED <<reads, abandoned, hostQueue, lastAt, requested>>

WebNext ==
    \/ \E r \in Reads :
         \/ \E want \in Wants[r] : ReadBegins(r, want[1], want[2])
         \/ \E said \in {"ok", "thin", "failed", "unavailable", "cancelled"} : ScraperAnswers(r, said)
         \/ TurnBegins(r) \/ SleepEnds(r) \/ Guard(r) \/ CancelRead(r)
         \/ \E to \in Hosts : Redirected(r, to)
         \/ \E how \in {"ok", "unreadable", "cancelled"} : Fetched(r, how)
    \/ ClockTicks

-----------------------------------------------------------------------------
\* No hop of a read, the ones a server chose included, is asked of a host that is not
\* public.
OnlyPublicIsAsked == \A a \in requested : a.public

\* What the scraper reached and was refused is not fetched behind its back.
ARefusalIsFinal ==
    \A r \in Reads : reads[r].said = "failed" => ~\E a \in requested : a.read = r

\* Reads that were asked for the same host begin with an interval between them.
HostsAreSpaced ==
    \A a, b \in requested : a # b /\ a.hop = 0 /\ b.hop = 0 /\ a.host = b.host =>
        a.time >= b.time + Interval \/ b.time >= a.time + Interval

\* Whoever waits for a host waits behind reads that are still being made: no read that
\* failed or was cancelled keeps the host.
NobodyWaitsForNobody ==
    \A h \in Hosts : \A i \in DOMAIN hostQueue[h] :
        reads[hostQueue[h][i]].at \in (IF i = 1 THEN Waiting ELSE {"queued"})

\* A read that has been cancelled sends nothing more.
CancelledAsksNothing ==
    \A r \in abandoned : \A a \in requested' : a.read = r => a \in requested
=============================================================================
