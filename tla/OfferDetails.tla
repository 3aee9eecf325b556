---------------------------- MODULE OfferDetails ----------------------------
(***************************************************************************)
(* How the text of an offer is read and analysed: the shared reads of      *)
(* runtime/offer-details.ts, the analyses of runtime/enrichment.ts and the *)
(* background queue of runtime/detail-queue.ts, with the rows the three    *)
(* keep in storage/sqlite/detail-queue.ts and storage/sqlite/enrichment.ts.*)
(*                                                                         *)
(* One read of an offer serves everybody who waits for it: the person who  *)
(* opened the offer, the analysis that needs its text, and the queue.  An  *)
(* abort settles its waiters in microtasks, before any other event, so it  *)
(* is one step with the call that aborts; a read that was aborted may      *)
(* return at any later time, and an aborted analysis may settle late.      *)
(***************************************************************************)
EXTENDS Naturals, FiniteSets, SequencesExt

CONSTANTS
    Offers,
    Opened,       \* bound: the offers a person opens; the others may be hidden
    Studied,      \* bound: the offers that are analysed, imported and sighted
    MaxFetches,   \* reads at a time; 3 in the code
    MaxWork,      \* analyses at a time; 3 in the code
    Consumers,    \* reads the queue has at a time; 2 in the code
    Budget,       \* requests a search may make
    MaxText       \* bound: versions a text goes through

DetailsAssumption ==
    /\ {MaxFetches, MaxWork, Consumers, Budget, MaxText} \subseteq Nat
    /\ Opened \subseteq Offers /\ Studied \subseteq Offers
    /\ 0 < Consumers /\ Consumers <= MaxFetches
    /\ IsFiniteSet(Offers)

VARIABLES
    row,       \* discovery_detail_queue.status of an offer
    line,      \* the queued offers by revision
    paused,    \* discovery_detail_queue_state.paused
    due,       \* a pump is scheduled, or goes on with its loop
    wants,     \* who waits for the read of an offer; nobody: there is none
    late,      \* aborted reads that have not returned
    detail,    \* enrichment.details.status
    text,      \* the version of the text the offer holds
    fresh,     \* how an offer's text was got: read within seven days, given by
               \* the browser or a job feed, or neither
    enr,       \* enrichment.status
    work,      \* where enrichment.active has the analysis of an offer
    hashAt,    \* the version whose hash the analysis took
    ofText,    \* the version the analysis was given
    ahash,     \* analysisHash: the version the stored analysis says it is of
    stored,    \* the version the stored analysis is really of
    spent,     \* requests the search's ledger counts
    begun,     \* reads begun for the queue since the ledger was new
    hidden,    \* offers that were hidden from the search
    up         \* the process runs

queueVars == <<row, line, paused, due, spent, begun, hidden>>
readVars == <<wants, late, detail, text, fresh>>
workVars == <<enr, work, hashAt, ofText, ahash, stored>>
offerVars == <<queueVars, readVars, workVars, up>>

Rows == {"none", "queued", "running", "succeeded", "failed", "cancelled"}
Waiter == {"person", "queue", "analysis"}

TypeOK ==
    /\ row \in [Offers -> Rows]
    /\ line \in Seq(Offers) /\ paused \in BOOLEAN /\ due \in BOOLEAN
    /\ wants \in [Offers -> SUBSET Waiter] /\ late \subseteq Offers
    /\ detail \in [Offers -> {"none", "fetching", "succeeded", "failed", "cancelled"}]
    /\ text \in [Offers -> 0..MaxText] /\ fresh \in [Offers -> {"no", "read", "given"}]
    /\ enr \in [Offers -> {"idle", "fetching", "analyzing", "succeeded", "failed", "cancelled"}]
    /\ work \in [Offers -> {"none", "fetching", "running", "aborted"}]
    /\ hashAt \in [Offers -> 0..MaxText] /\ ofText \in [Offers -> 0..MaxText]
    /\ ahash \in [Offers -> 0..MaxText] /\ stored \in [Offers -> 0..MaxText]
    /\ spent \in 0..Budget /\ begun \in Nat
    /\ hidden \subseteq Offers /\ up \in BOOLEAN

Init ==
    /\ row = [o \in Offers |-> "none"] /\ line = <<>>
    /\ paused = FALSE /\ due = TRUE
    /\ wants = [o \in Offers |-> {}] /\ late = {}
    /\ detail = [o \in Offers |-> "none"]
    /\ text = [o \in Offers |-> 0] /\ fresh = [o \in Offers |-> "no"]
    /\ enr = [o \in Offers |-> "idle"] /\ work = [o \in Offers |-> "none"]
    /\ hashAt = text /\ ofText = text /\ ahash = text /\ stored = text
    /\ spent = 0 /\ begun = 0 /\ hidden = {} /\ up = TRUE

Fetching == {o \in Offers : wants[o] # {}}
Queued == {o \in Offers : "queue" \in wants[o]}     \* active of detail-queue.ts
Busy == {o \in Offers : work[o] # "none"}           \* active of enrichment.ts
Ready == ToSet(line)

-----------------------------------------------------------------------------
\* The queue's rows.  set writes a status and a new revision.

SetRows(S, status) == row' = [o \in Offers |-> IF o \in S THEN status ELSE row[o]]
Without(o) == IF o \in Ready THEN RemoveAt(line, CHOOSE i \in DOMAIN line : line[i] = o)
              ELSE line

\* What a rejected wait leaves in the analysis of o.
Settles(o) ==
    /\ enr' = [enr EXCEPT ![o] = "failed"]
    /\ work' = [work EXCEPT ![o] = "none"]

\* release, for the waiters a call takes away from each offer: the read nobody
\* wants any more is aborted and its details read "cancelled".
Aborts(gone) == {o \in Fetching : wants[o] \ gone[o] = {}}
Release(gone) ==
    /\ wants' = [o \in Offers |-> wants[o] \ gone[o]]
    /\ late' = late \cup Aborts(gone)
    /\ detail' = [o \in Offers |-> IF o \in Aborts(gone) THEN "cancelled" ELSE detail[o]]
    /\ UNCHANGED <<text, fresh>>

\* acquire, for the waiter w: what was given is not read again.
CanRead(o, force) ==
    /\ ~(force /\ fresh[o] = "given")
    /\ o \in Fetching \/ Cardinality(Fetching) < MaxFetches
Reads(o, w) ==
    /\ wants' = [wants EXCEPT ![o] = @ \cup {w}]
    /\ detail' = [detail EXCEPT ![o] = IF o \in Fetching THEN @ ELSE "fetching"]
    /\ UNCHANGED <<late, text, fresh>>

IsFresh(o) == o \notin Fetching /\ fresh[o] # "no"

-----------------------------------------------------------------------------
\* The background queue.

\* Whether enqueue takes an offer: never asked before, or read long ago.
Takes(o) == /\ fresh[o] # "given"
            /\ row[o] = "none" \/ (row[o] = "succeeded" /\ fresh[o] = "no")

Enqueue(o) ==
    /\ up /\ o \notin hidden /\ Takes(o)
    /\ SetRows({o}, "queued") /\ line' = Append(line, o)
    /\ due' = TRUE
    /\ UNCHANGED <<paused, spent, begun, hidden, readVars, workVars, up>>

\* One turn of pump's loop, or of next's over the hidden offers.
PumpStops == paused \/ Cardinality(Queued) >= Consumers \/ line = <<>>
PumpIdle ==
    /\ up /\ due /\ PumpStops
    /\ due' = FALSE
    /\ UNCHANGED <<row, line, paused, spent, begun, hidden, readVars, workVars, up>>

PumpDrops ==
    /\ up /\ due /\ ~PumpStops
    /\ Head(line) \in hidden \/ spent >= Budget
    /\ SetRows({Head(line)}, "cancelled") /\ line' = Tail(line)
    /\ UNCHANGED <<paused, due, spent, begun, hidden, readVars, workVars, up>>

\* ensure found a fresh text: nothing is read, the request stays spent.
PumpFresh(o) ==
    /\ IsFresh(o)
    /\ SetRows({o}, "succeeded") /\ line' = Tail(line)
    /\ spent' = spent + 1 /\ due' = TRUE
    /\ UNCHANGED <<begun, readVars>>

\* details_capacity is no failure of the source: refunded and queued again.
Refund(n) == n
PumpFull(o) ==
    /\ ~IsFresh(o) /\ ~CanRead(o, FALSE)
    /\ line' = Append(Tail(line), o)
    /\ spent' = Refund(spent) /\ due' = TRUE
    /\ UNCHANGED <<row, begun, readVars>>

PumpReads(o) ==
    /\ ~IsFresh(o) /\ CanRead(o, FALSE)
    /\ SetRows({o}, "running") /\ line' = Tail(line)
    /\ spent' = spent + 1 /\ due' = TRUE
    /\ begun' = IF o \in Fetching THEN begun ELSE begun + 1
    /\ Reads(o, "queue")

Pump ==
    /\ up /\ due /\ ~PumpStops
    /\ LET o == Head(line) IN
       /\ o \notin hidden /\ spent < Budget
       /\ PumpFresh(o) \/ PumpFull(o) \/ PumpReads(o)
    /\ UNCHANGED <<paused, hidden, workVars, up>>

\* The waiters of the queue leave the offers of S; task's finally schedules.
QueueGone(S) == [o \in Offers |-> IF o \in S THEN {"queue"} ELSE {}]
QueueLeaves(S) == /\ Release(QueueGone(S))
                  /\ due' = (due \/ S \cap Queued # {})

\* discovery.details.auto.cancel: the row is set whatever it held.
QueueCancel(o) ==
    /\ up /\ row[o] # "none"
    /\ SetRows({o}, "cancelled") /\ line' = Without(o)
    /\ QueueLeaves({o})
    /\ UNCHANGED <<paused, spent, begun, hidden, workVars, up>>

Stop ==
    /\ up
    /\ paused' = TRUE
    /\ SetRows(Queued, "queued") /\ line' = line \o SetToSeq(Queued)
    /\ QueueLeaves(Offers)
    /\ UNCHANGED <<spent, begun, hidden, workVars, up>>

Clear ==
    /\ up
    /\ paused' = TRUE
    /\ SetRows(Ready \cup Queued, "cancelled") /\ line' = <<>>
    /\ QueueLeaves(Offers)
    /\ UNCHANGED <<spent, begun, hidden, workVars, up>>

Pause(on) ==
    /\ up /\ paused # on
    /\ paused' = on /\ due' = (due \/ ~on)
    /\ UNCHANGED <<row, line, spent, begun, hidden, readVars, workVars, up>>

\* A search fetched anew: cancelSearch ends its jobs and forgets those that
\* were cancelled or failed, and its ledger starts again.
Refetch ==
    /\ up
    /\ SetRows({o \in Offers : row[o] # "succeeded"}, "none") /\ line' = <<>>
    /\ spent' = 0 /\ begun' = 0
    /\ QueueLeaves(Offers)
    /\ UNCHANGED <<paused, hidden, workVars, up>>

\* Only hiding an offer that waits makes a difference to the queue.
Hide(o) ==
    /\ up /\ o \notin hidden /\ row[o] = "queued"
    /\ hidden' = hidden \cup {o}
    /\ UNCHANGED <<row, line, paused, due, spent, begun, readVars, workVars, up>>

-----------------------------------------------------------------------------
\* What a person asks of one offer.

\* details.start: a forced one reads even a fresh text.
DetailsStart(o, force) ==
    /\ up
    /\ ~(force /\ enr[o] = "analyzing")
    /\ IF ~force /\ IsFresh(o)
       THEN /\ detail' = [detail EXCEPT ![o] = "succeeded"]
            /\ UNCHANGED <<wants, late, text, fresh>>
       ELSE CanRead(o, force) /\ Reads(o, "person")
    /\ UNCHANGED <<queueVars, workVars, up>>

DetailsCancel(o) ==
    /\ up /\ "person" \in wants[o]
    /\ Release([p \in Offers |-> IF p = o THEN {"person"} ELSE {}])
    /\ UNCHANGED <<queueVars, workVars, up>>

\* enrichment.start, and work until its ensure waits.
Analysed(o) == IsFresh(o) /\ enr[o] = "succeeded" /\ ahash[o] = text[o]
HashForgotten(o) == /\ hashAt' = [hashAt EXCEPT ![o] = 0]
                    /\ ofText' = [ofText EXCEPT ![o] = 0]
HashTaken(o) == /\ hashAt' = [hashAt EXCEPT ![o] = text'[o]]
                /\ ofText' = [ofText EXCEPT ![o] = text'[o]]

AnalysisStart(o, force, refresh) ==
    /\ up /\ o \notin Busy /\ Cardinality(Busy) < MaxWork
    /\ force \/ ~Analysed(o)
    /\ \/ /\ ~refresh /\ IsFresh(o)
          /\ enr' = [enr EXCEPT ![o] = "analyzing"]
          /\ work' = [work EXCEPT ![o] = "running"]
          /\ UNCHANGED readVars /\ HashTaken(o)
       \/ /\ refresh \/ ~IsFresh(o)
          /\ CanRead(o, refresh) /\ Reads(o, "analysis")
          /\ enr' = [enr EXCEPT ![o] = "fetching"]
          /\ work' = [work EXCEPT ![o] = "fetching"]
          /\ UNCHANGED <<hashAt, ofText>>
       \/ /\ refresh \/ ~IsFresh(o)
          /\ ~CanRead(o, refresh)
          /\ enr' = [enr EXCEPT ![o] = "failed"]
          /\ UNCHANGED <<work, hashAt, ofText, readVars>>
    /\ UNCHANGED <<ahash, stored, queueVars, up>>

AnalysisAsked(o) == \/ AnalysisStart(o, FALSE, FALSE)
                    \/ AnalysisStart(o, TRUE, FALSE)
                    \/ AnalysisStart(o, TRUE, TRUE)

\* The run of the analysis settles: complete names the text it was given.
Completed(o) == /\ ahash' = [ahash EXCEPT ![o] = hashAt[o]]
                /\ stored' = [stored EXCEPT ![o] = ofText[o]]
AnalysisEnds(o) ==
    /\ up /\ work[o] = "running"
    /\ work' = [work EXCEPT ![o] = "none"]
    /\ \/ enr' = [enr EXCEPT ![o] = "succeeded"] /\ Completed(o)
       \/ enr' = [enr EXCEPT ![o] = "failed"] /\ UNCHANGED <<ahash, stored>>
    /\ HashForgotten(o)
    /\ UNCHANGED <<queueVars, readVars, up>>

\* enrichment.cancel: a wait ends at once, a run settles when it settles.
AnalysisCancel(o) ==
    /\ up /\ o \in Busy
    /\ enr' = [enr EXCEPT ![o] = "cancelled"]
    /\ work' = [work EXCEPT ![o] = IF @ = "fetching" THEN "none" ELSE "aborted"]
    /\ Release([p \in Offers |-> IF p = o THEN {"analysis"} ELSE {}])
    /\ UNCHANGED <<hashAt, ofText, ahash, stored, queueVars, up>>

AbortedSettles(o) ==
    /\ up /\ work[o] = "aborted"
    /\ work' = [work EXCEPT ![o] = "none"]
    /\ HashForgotten(o)
    /\ UNCHANGED <<enr, ahash, stored, queueVars, readVars, up>>

-----------------------------------------------------------------------------
\* A read answers everybody who waits for it.

SlipNoWake(o, status) ==    \* mutant: a read that ends does not pump
    /\ IF o \in Queued THEN SetRows({o}, status) ELSE UNCHANGED row
    /\ UNCHANGED due
AnswersQueue(o, status) ==
    IF o \in Queued THEN SetRows({o}, status) /\ due' = TRUE
                    ELSE UNCHANGED <<row, due>>

ReadEnds(o) ==
    /\ up /\ o \in Fetching
    /\ \E new \in {text[o], text[o] + 1} \cap 0..MaxText : text' = [text EXCEPT ![o] = new]
    /\ fresh' = [fresh EXCEPT ![o] = "read"]
    /\ detail' = [detail EXCEPT ![o] = "succeeded"]
    /\ wants' = [wants EXCEPT ![o] = {}]
    /\ AnswersQueue(o, "succeeded")
    /\ IF "analysis" \in wants[o]
       THEN /\ enr' = [enr EXCEPT ![o] = "analyzing"]
            /\ work' = [work EXCEPT ![o] = "running"]
            /\ HashTaken(o)
       ELSE UNCHANGED <<enr, work, hashAt, ofText>>
    /\ UNCHANGED <<line, paused, spent, begun, hidden, late, ahash, stored, up>>

ReadFails(o) ==
    /\ up /\ o \in Fetching
    /\ detail' = [detail EXCEPT ![o] = "failed"]
    /\ wants' = [wants EXCEPT ![o] = {}]
    /\ AnswersQueue(o, "failed")
    /\ IF "analysis" \in wants[o] THEN Settles(o) ELSE UNCHANGED <<enr, work>>
    /\ UNCHANGED <<line, paused, spent, begun, hidden, late, text, fresh,
                   hashAt, ofText, ahash, stored, up>>

\* An aborted read returns; its result is not published.
Published(o) == UNCHANGED <<text, fresh, detail>>
LateReturn(o) ==
    /\ up /\ o \in late
    /\ late' = late \ {o}
    /\ Published(o)
    /\ UNCHANGED <<queueVars, wants, workVars, up>>

\* The browser imports the page of an offer, refused while it is worked on; or
\* a search finds its whole description in a feed, which nothing refuses.
Given(o) ==
    /\ text[o] < MaxText
    /\ text' = [text EXCEPT ![o] = @ + 1]
    /\ fresh' = [fresh EXCEPT ![o] = "given"]
    /\ detail' = [detail EXCEPT ![o] = "succeeded"]
    /\ UNCHANGED <<queueVars, wants, late, workVars, up>>

Import(o) == up /\ detail[o] # "fetching" /\ enr[o] # "analyzing" /\ Given(o)
Sighted(o) == up /\ Given(o)

Age(o) ==
    /\ up /\ fresh[o] = "read"
    /\ fresh' = [fresh EXCEPT ![o] = "no"]
    /\ UNCHANGED <<queueVars, wants, late, detail, text, workVars, up>>

-----------------------------------------------------------------------------
\* The end of the process and the next one.

\* What the process held in memory is gone.
Vanish == /\ up' = FALSE
          /\ wants' = [o \in Offers |-> {}] /\ late' = {}
          /\ work' = [o \in Offers |-> "none"]
          /\ due' = FALSE
          /\ hashAt' = [o \in Offers |-> 0] /\ ofText' = hashAt'
          /\ UNCHANGED <<row, line, paused, spent, begun, hidden, text, fresh,
                         ahash, stored>>

Crash == up /\ Vanish /\ UNCHANGED <<detail, enr>>

\* close: the queue and the analyses let go first, so only a read a person
\* waits for is still "fetching" when details.close aborts it.
Close ==
    /\ up /\ Vanish
    /\ detail' = [o \in Offers |-> IF o \in Fetching /\ "person" \notin wants[o]
                                   THEN "cancelled" ELSE detail[o]]
    /\ enr' = [o \in Offers |-> IF o \in Busy THEN "cancelled" ELSE enr[o]]

\* recover of both stores, and the first schedule.
Recovered == {o \in Offers : row[o] = "running"}
Restart ==
    /\ ~up /\ up' = TRUE /\ due' = TRUE
    /\ SetRows(Recovered, "queued") /\ line' = line \o SetToSeq(Recovered)
    /\ detail' = [o \in Offers |-> IF detail[o] = "fetching" THEN "failed" ELSE detail[o]]
    /\ enr' = [o \in Offers |-> IF enr[o] \in {"fetching", "analyzing"} THEN "failed" ELSE enr[o]]
    /\ UNCHANGED <<paused, spent, begun, hidden, wants, late, text, fresh,
                   work, hashAt, ofText, ahash, stored>>

QueueStep(o) == \/ Enqueue(o) \/ QueueCancel(o)
               \/ ReadEnds(o) \/ ReadFails(o) \/ LateReturn(o)
PersonStep(o) ==
    \/ DetailsStart(o, TRUE) \/ DetailsStart(o, FALSE) \/ DetailsCancel(o) \/ Age(o)
StudyStep(o) ==
    \/ AnalysisAsked(o) \/ AnalysisEnds(o) \/ AnalysisCancel(o)
    \/ AbortedSettles(o) \/ Import(o) \/ Sighted(o)

Next ==
    \/ \E o \in Offers : QueueStep(o)
    \/ \E o \in Opened : PersonStep(o)
    \/ \E o \in Studied : StudyStep(o)
    \/ \E o \in Offers \ Opened : Hide(o)
    \/ PumpIdle \/ PumpDrops \/ Pump
    \/ Stop \/ Clear \/ Pause(TRUE) \/ Pause(FALSE) \/ Refetch
    \/ Crash \/ Close \/ Restart

Spec == Init /\ [][Next]_offerVars

-----------------------------------------------------------------------------
\* A row reads "running" exactly while the queue waits for a read, and
\* details read "fetching" only while somebody does: no abort, join, stop or
\* restart leaves one without the other, and no slot is taken by a read nobody
\* wants.
ReadsAreWanted ==
    /\ Cardinality(Fetching) <= MaxFetches /\ Cardinality(Queued) <= Consumers
    /\ up => \A o \in Offers :
         /\ (row[o] = "running") <=> (o \in Queued)
         /\ (detail[o] = "fetching") => (o \in Fetching)
         /\ (enr[o] = "fetching") <=> ("analysis" \in wants[o])
         /\ (enr[o] = "fetching") <=> (work[o] = "fetching")
    /\ \A o \in Offers : (row[o] = "queued") <=> (o \in Ready)

\* The text a stored analysis names is the text its run was given, although the
\* text may be read again or imported while the run goes on.
AnalysisIsOfText == ahash = stored

\* The reads begun for the queue never exceed what the search's ledger counts,
\* which never exceeds its budget.
BudgetIsKept == begun <= spent /\ spent <= Budget

\* A cancelled row, read or analysis stays so until somebody asks again, and a
\* text changes only by a read that nobody aborted or from a browser or a feed.
CancelledStays ==
    \A o \in Offers :
      /\ (row[o] = "cancelled" /\ row'[o] # "cancelled") => Refetch
      /\ (enr[o] = "cancelled" /\ enr'[o] # "cancelled") => AnalysisAsked(o)
      /\ text'[o] # text[o] => o \in Fetching \/ Sighted(o)

\* No wake-up is lost: while the queue may go on, a pump is scheduled or a read
\* will schedule one when it ends.
QueueGoesOn == up /\ ~paused /\ line # <<>> => due \/ Queued # {}
=============================================================================
