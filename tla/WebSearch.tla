------------------------------ MODULE WebSearch ------------------------------
(***************************************************************************)
(* The web search: effects/search.ts.  Queries go to one engine, one at a   *)
(* time and spaced; what came of a query is kept, an answer for longer     *)
(* than a failure, and the oldest entry makes room.                        *)
(***************************************************************************)
EXTENDS Integers, Sequences, SequencesExt

CONSTANTS
    Searches,           \* the searches that are made
    Queries,            \* what they ask; the empty one is "none"
    Setting,            \* WEB_SEARCH: "off", "brave", "duckduckgo" or "auto"
    HasKey,             \* whether BRAVE_API_KEY is set
    Spacing,            \* SPACING_MS, in ticks
    Ttl, FailureTtl,    \* CACHE_TTL_MS and FAILURE_TTL_MS, in ticks
    CacheLimit,         \* CACHE_LIMIT
    MaxSearchTime             \* bound: the clock

VARIABLES
    searches,           \* each search: query, how far it is, what came of it
    givenUp,            \* the searches whose signal has been aborted
    line,               \* queue: the searches that wait, the one whose turn it is first
    lastCallAt,         \* when a turn last ended
    time,               \* now
    cache,              \* the outcomes kept, the oldest insertion first
    calls               \* the requests that were sent, with their time

SearchBounds ==
    /\ {Spacing, Ttl, FailureTtl, MaxSearchTime} \subseteq Nat /\ Spacing <= MaxSearchTime
    /\ CacheLimit \in Nat \ {0}

searchVars == <<searches, givenUp, line, lastCallAt, time, cache, calls>>

NoSearch == [query |-> "none", at |-> "idle", outcome |-> "none"]
Outcomes == {"ok", "failed", "unavailable"}
Going == {"queued", "sleep", "asking"}

SearchTypeOK ==
    /\ searches \in [Searches -> [query : Queries \cup {"none"},
                                  at : {"idle", "done", "cancelled"} \cup Going,
                                  outcome : Outcomes \cup {"none"}]]
    /\ givenUp \subseteq Searches /\ IsInjective(line) /\ lastCallAt \in 0..MaxSearchTime
    /\ \A i \in DOMAIN cache : cache[i].query \in Queries /\ cache[i].outcome \in Outcomes

SearchInit ==
    /\ searches = [s \in Searches |-> NoSearch] /\ givenUp = {} /\ line = <<>>
    /\ lastCallAt = 0 /\ time = Spacing /\ cache = <<>> /\ calls = {}

\* "auto" is the best engine that is usable; naming one disables the substitution.
Engine == CASE Setting = "off" -> "none"
            [] Setting = "auto" -> IF HasKey THEN "brave" ELSE "duckduckgo"
            [] OTHER -> Setting

Usable == Engine = "duckduckgo" \/ (Engine = "brave" /\ HasKey)

-----------------------------------------------------------------------------
(* remember: the oldest entry makes room; a key that is there keeps its place. *)
At(query) == {i \in DOMAIN cache : cache[i].query = query}

SlipKeepsFailures(outcome) == Ttl

Lasts(outcome) == IF outcome = "ok" THEN Ttl ELSE FailureTtl

SlipMakesNoRoom == cache

Room == IF Len(cache) >= CacheLimit THEN Tail(cache) ELSE cache

Remember(query, outcome) ==
    LET entry == [query |-> query, outcome |-> outcome, until |-> time + Lasts(outcome)]
        there == {i \in DOMAIN Room : Room[i].query = query}
    IN IF there = {} THEN Append(Room, entry)
       ELSE [i \in DOMAIN Room |-> IF i \in there THEN entry ELSE Room[i]]

-----------------------------------------------------------------------------
(* search *)
Finishes(s, query, outcome) ==
    searches' = [searches EXCEPT ![s] = [query |-> query, at |-> "done", outcome |-> outcome]]

Search(s, query) ==
    /\ searches[s].at = "idle"
    /\ \/ /\ s \in givenUp
          /\ searches' = [searches EXCEPT ![s].at = "cancelled"] /\ UNCHANGED line
       \/ s \notin givenUp /\ ~Usable /\ Finishes(s, query, "unavailable") /\ UNCHANGED line
       \/ s \notin givenUp /\ Usable /\ query = "none" /\ Finishes(s, query, "ok") /\ UNCHANGED line
       \/ /\ s \notin givenUp /\ Usable /\ query # "none"
          /\ \E i \in At(query) : time < cache[i].until /\ Finishes(s, query, cache[i].outcome)
          /\ UNCHANGED line
       \/ /\ s \notin givenUp /\ Usable /\ query # "none"
          /\ \A i \in At(query) : time >= cache[i].until
          /\ searches' = [searches EXCEPT ![s] = [NoSearch EXCEPT !.query = query, !.at = "queued"]]
          /\ line' = Append(line, s)
    /\ UNCHANGED <<givenUp, lastCallAt, time, cache, calls>>

(* spaced: the queue survives a turn however it ends. *)
First(s) == line # <<>> /\ Head(line) = s
IsDue == lastCallAt + Spacing <= time

Leaves(s) ==
    /\ searches' = [searches EXCEPT ![s].at = "cancelled"]
    /\ line' = Tail(line)

TurnOf(s) ==
    /\ searches[s].at = "queued" /\ First(s)
    /\ \/ /\ ~IsDue /\ s \notin givenUp
          /\ searches' = [searches EXCEPT ![s].at = "sleep"] /\ UNCHANGED <<line, lastCallAt, calls>>
       \/ ~IsDue /\ s \in givenUp /\ Leaves(s) /\ UNCHANGED <<lastCallAt, calls>>
       \/ IsDue /\ s \in givenUp /\ Leaves(s) /\ lastCallAt' = time /\ UNCHANGED calls
       \/ /\ IsDue /\ s \notin givenUp
          /\ searches' = [searches EXCEPT ![s].at = "asking"]
          /\ calls' = calls \cup {[search |-> s, time |-> time]} /\ UNCHANGED <<line, lastCallAt>>
    /\ UNCHANGED <<givenUp, time, cache>>

\* The timer, or the abort that clears it; run after an abort throws at once.
Sleeps(s) ==
    /\ searches[s].at = "sleep"
    /\ \/ /\ IsDue /\ s \notin givenUp
          /\ searches' = [searches EXCEPT ![s].at = "asking"]
          /\ calls' = calls \cup {[search |-> s, time |-> time]} /\ UNCHANGED <<line, lastCallAt>>
       \/ s \in givenUp /\ Leaves(s) /\ UNCHANGED <<lastCallAt, calls>>
       \/ IsDue /\ s \in givenUp /\ Leaves(s) /\ lastCallAt' = time /\ UNCHANGED calls
    /\ UNCHANGED <<givenUp, time, cache>>

\* braveSearch, duckDuckGoSearch: only Brave rejects a key.
EngineAnswers(s, outcome) ==
    /\ searches[s].at = "asking"
    /\ outcome = "unavailable" => Engine = "brave"
    /\ Finishes(s, searches[s].query, outcome)
    /\ cache' = Remember(searches[s].query, outcome)
    /\ line' = Tail(line) /\ lastCallAt' = time
    /\ UNCHANGED <<givenUp, time, calls>>

Throws(s) ==
    /\ searches[s].at = "asking" /\ s \in givenUp
    /\ Leaves(s) /\ lastCallAt' = time
    /\ UNCHANGED <<givenUp, time, cache, calls>>

Abort(s) ==
    /\ s \notin givenUp /\ searches[s].at \notin {"done", "cancelled"}
    /\ givenUp' = givenUp \cup {s}
    /\ UNCHANGED <<searches, line, lastCallAt, time, cache, calls>>

TimePasses ==
    /\ time < MaxSearchTime /\ time' = time + 1
    /\ UNCHANGED <<searches, givenUp, line, lastCallAt, cache, calls>>

SearchNext ==
    \/ \E s \in Searches :
         \/ \E query \in Queries : Search(s, query)
         \/ TurnOf(s) \/ Sleeps(s) \/ Throws(s) \/ Abort(s)
         \/ \E outcome \in Outcomes : EngineAnswers(s, outcome)
    \/ TimePasses

-----------------------------------------------------------------------------
\* Whatever is cancelled, fails or is answered from the cache, the engine is asked one
\* query at a time, and never sooner than the spacing after the last.
EngineIsSpaced ==
    \A a, b \in calls : a # b => a.time >= b.time + Spacing \/ b.time >= a.time + Spacing

\* Whoever waits, waits behind a query that is still being made.
TheLineMoves ==
    \A i \in DOMAIN line : searches[line[i]].at \in (IF i = 1 THEN Going ELSE {"queued"})

\* The cache stays within its limit and holds a query once, and a failure is not kept
\* longer than its time.
CacheIsBounded ==
    /\ Len(cache) <= CacheLimit
    /\ \A i, j \in DOMAIN cache : cache[i].query = cache[j].query => i = j
    /\ \A i \in DOMAIN cache : cache[i].outcome # "ok" => cache[i].until <= time + FailureTtl
=============================================================================
