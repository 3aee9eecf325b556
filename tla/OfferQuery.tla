------------------------------ MODULE OfferQuery ------------------------------
(***************************************************************************)
(* Offer queries: the queue, the shared snapshot captures, the query       *)
(* processes and the dataset files of src/runtime/offer-query.ts, over the *)
(* rows of src/storage/sqlite/offer-query-store.ts.                        *)
(*                                                                         *)
(* An execution is named by its request id: its row is "none" until        *)
(* `start' inserts it and again once its tombstone is dropped.  `db' holds *)
(* what the database holds; everything else but `died' is gone when the    *)
(* process is.  JavaScript runs to completion: an event (a request, the    *)
(* end of a capture, a message of a child) waits until the continuations   *)
(* the previous one made due have run (Quiet).                             *)
(*                                                                         *)
(* Time is abstract: whenever gc runs, any settled row and any snapshot no *)
(* job works on may be past its time.  The offers a search lists are a     *)
(* version number, and the fingerprint of a snapshot is the version it was *)
(* taken of.                                                               *)
(***************************************************************************)
EXTENDS Naturals, SequencesExt, FiniteSetsExt, Functions

CONSTANTS Execs,        \* request ids, one execution each
          Searches,     \* saved searches; each one is its own scope
          Nobody,       \* no execution, no path, no search
          Client,       \* the caller of `context', as a consumer of a capture
          OwnerOf,      \* [Execs -> Searches]
          Editors,      \* executions with origin `editor'
          Sql,          \* [Execs -> SQL and parameters]
          Size,         \* [Execs -> bytes of the result]
          Processes,    \* queryLimits.processes
          QueueLimit,   \* queryLimits.queue
          TransientLimit, \* queryLimits.transientBytes
          DatasetLimit, \* dataset files kept
          MaxSnaps,     \* bound: snapshots alive at a time
          MaxVersion,   \* bound: changes of the offers of a search
          Paths         \* bound: dataset files at a time

ASSUME QueryAssumption ==
    /\ OwnerOf \in [Execs -> Searches]
    /\ Editors \subseteq Execs
    /\ Size \in [Execs -> Nat]
    /\ Processes \in Nat \ {0} /\ QueueLimit \in Nat
    /\ TransientLimit \in Nat /\ DatasetLimit \in Nat
    /\ MaxSnaps \in Nat \ {0} /\ MaxVersion \in Nat
    /\ Nobody \notin Execs \cup Searches \cup Paths
    /\ Client \notin Execs

VARIABLES host,      \* "up", "closed" (after close) or "down"
          died,      \* an unhandled rejection has ended the process
          db,        \* the database, see DbType
          queue,     \* Seq(Execs): jobs no process runs yet
          phase,     \* where the job of an execution is
          ask,       \* the request: given snapshot, expected fingerprint
          got,       \* the snapshot the job works on
          kill,      \* why the job was stopped ("no": it was not)
          asked,     \* jobs somebody cancelled (their AbortController)
          entry,     \* [Searches -> shared capture under way]
          path, hit, \* dataset file of a job; jobs that reuse a built one
          dataset,   \* [Snaps -> path of its dataset file]
          file,      \* [Paths -> what the file holds]
          known,     \* the scope revision a client has read
          deleting   \* [Searches -> progress of deleteSearch]

service == <<queue, phase, ask, got, kill, asked, entry, path, hit, dataset,
             file, known, deleting>>
vars == <<host, died, db, service>>

Snaps == 1..MaxSnaps
None == 0                    \* no snapshot; an absent file
Partial == MaxSnaps + 1      \* a dataset file still being built
Lost == MaxSnaps + 1         \* a snapshot whose id names nothing any more

LiveRows == {"queued", "capturing", "running"}
SettledRows == {"succeeded", "failed", "cancelled", "interrupted"}
Rows == LiveRows \cup SettledRows \cup {"none", "expired"}
Phases == {"idle", "queued", "capture", "captured", "rejected", "loading", "running"}

NoSnap == [of |-> Nobody, version |-> 0, ready |-> FALSE]
NoEntry == [snap |-> None, waiting |-> {}, aborted |-> FALSE]
NoAsk == [given |-> None, expect |-> 0]
NoDelete == [on |-> FALSE, todo |-> {}, wait |-> Nobody]

(***************************************************************************)
(* The database: pure operators from one content to the next.  Gc and      *)
(* Completed return the set of contents the code can leave.                *)
(***************************************************************************)

\* offer_query_executions (row, used, rows, pinned by `client', kept by a
\* chat turn), offer_query_snapshots (snap), _documents (applied) and the
\* saved searches (live, version)
DbType == [row : [Execs -> Rows], used : [Execs -> Snaps \cup {None}],
           rows : [Execs -> Snaps \cup {None}],
           pinned : SUBSET Execs, kept : SUBSET Execs,
           applied : [Searches -> Execs \cup {Nobody}],
           snap : [Snaps -> [of : Searches \cup {Nobody}, version : 0..MaxVersion,
                             ready : BOOLEAN]],
           live : SUBSET Searches, version : [Searches -> 0..MaxVersion]]

Alive(d, i) == i # None /\ d.snap[i] # NoSnap
IsApplied(d, e) == d.applied[OwnerOf[e]] = e

\* `status' and `fail' touch no row that is gone
SetRow(d, e, st) ==
    IF d.row[e] = "none" THEN d ELSE [d EXCEPT !.row[e] = st]

Bytes(S) == MapThenSumSet(LAMBDA e : Size[e], S)

\* results that only their age keeps: what transientBytes adds up
Transient(d) == {e \in Execs : /\ d.row[e] = "succeeded"
                               /\ ~IsApplied(d, e)
                               /\ e \notin d.kept}

\* slip: what is applied is not looked at
SlipAppliedToo(d, old) == {e \in Execs : /\ d.row[e] \in SettledRows
                                         /\ e \notin (d.pinned \ old) \cup d.kept}

\* the results gc may drop once the pins of the old ones are gone: settled,
\* pinned by nobody, applied nowhere
Collectable(d, old) == {e \in Execs : /\ d.row[e] \in SettledRows
                                      /\ e \notin (d.pinned \ old) \cup d.kept
                                      /\ ~IsApplied(d, e)}

\* which of them it drops: the old ones, and others while the cache with the
\* reserve is over its limit (the code goes from the oldest to the newest)
GcPicks(d, old, reserve) ==
    LET all == Collectable(d, old)
        over(D) == Bytes(Transient(d) \ D) + reserve > TransientLimit
    IN  IF over({}) THEN {D \in SUBSET all : old \cap all \subseteq D /\ (D # all => ~over(D))}
                    ELSE {old \cap all}

\* A dropped result (D) leaves a tombstone, an old tombstone goes, and so do the
\* old snapshots (X) no row names.
Dropped(d, old, D, X) ==
    LET gone == {e \in old : d.row[e] = "expired"}
        f(g, none) == [e \in Execs |-> IF e \in D \cup gone THEN none ELSE g[e]]
        used == f(d.used, None)
        stale == {i \in X : \A e \in Execs : used[e] # i}
    IN  [d EXCEPT !.row = [e \in Execs |-> IF e \in gone THEN "none"
                                           ELSE IF e \in D THEN "expired" ELSE @[e]],
                  !.used = used,
                  !.rows = f(@, None),
                  !.pinned = @ \ old,
                  !.snap = [i \in Snaps |-> IF i \in stale THEN NoSnap ELSE @[i]]]

\* What is old by now is anything settled but what was touched just now (young),
\* and any snapshot no job works on (inUse).
Gc(d, reserve, young, inUse) ==
    UNION { { Dropped(d, old, D, X) : D \in GcPicks(d, old, reserve),
                                      X \in SUBSET {i \in Snaps \ inUse : Alive(d, i)} }
            : old \in SUBSET {e \in Execs \ young : d.row[e] \notin LiveRows} }

\* slip: the result is stored without a look at the room
SlipNoRoom(d, e, content, apply, inUse) ==
    LET s == OwnerOf[e] IN
    IF d.row[e] = "none" THEN {d}
    ELSE { [g EXCEPT !.row[e] = "succeeded", !.rows[e] = content,
                     !.pinned = @ \cup {e}, !.applied[s] = IF apply THEN e ELSE @]
           : g \in Gc(d, 0, {}, inUse) }

\* `complete': nothing for a row that is gone; room is made first; an editor's
\* result becomes the applied one, and the one it replaces starts to age
Completed(d, e, content, apply, inUse) ==
    IF d.row[e] = "none" THEN {d}
    ELSE LET s == OwnerOf[e]
             last == d.applied[s]
             dropped == IF apply /\ last # Nobody THEN {last} ELSE {}
         IN  { [g EXCEPT !.row[e] = "succeeded", !.rows[e] = content,
                         !.pinned = (@ \cup {e}) \ dropped,
                         !.applied[s] = IF apply THEN e ELSE @]
               : g \in {g \in Gc(d, Size[e], {}, inUse) :
                           Bytes(Transient(g)) + Size[e] <= TransientLimit} }

\* `discoverySearches.delete': the rows of the search go with it
SearchDeleted(d, s) ==
    LET mine == {e \in Execs : OwnerOf[e] = s}
        dead == {i \in Snaps : d.snap[i].of = s}
        keep(f, none) == [e \in Execs |-> IF e \in mine THEN none ELSE f[e]]
    IN  [d EXCEPT !.row = keep(@, "none"), !.used = keep(@, None), !.rows = keep(@, None),
                  !.pinned = @ \ mine, !.kept = @ \ mine,
                  !.applied[s] = Nobody,
                  !.snap = [i \in Snaps |-> IF i \in dead THEN NoSnap ELSE @[i]],
                  !.live = @ \ {s}]

\* the finished snapshot a capture finds for what the search lists now
Prior(d, s) == {i \in Snaps : /\ d.snap[i].of = s /\ d.snap[i].ready
                              /\ d.snap[i].version = d.version[s]}

\* ownedSnapshot
Owned(d, s, i) == s \in d.live /\ i \in Snaps /\ d.snap[i].of = s /\ d.snap[i].ready

\* slip: any earlier result of the query will do
SlipAnySnapshot(d, e, i) == {c \in Execs : OwnerOf[c] = OwnerOf[e] /\ Sql[c] = Sql[e]
                                           /\ d.row[c] = "succeeded"}

\* an earlier result of the same query over the same snapshot
Cached(d, e, i) == {c \in Execs : /\ OwnerOf[c] = OwnerOf[e] /\ Sql[c] = Sql[e]
                                           /\ d.row[c] = "succeeded" /\ d.used[c] = i}

(***************************************************************************)
(* The service.                                                            *)
(***************************************************************************)

Jobs == {e \in Execs : phase[e] # "idle"}
Active == {e \in Execs : phase[e] \notin {"idle", "queued"}}
Reading(ph, p) == {e \in Execs : ph[e] \in {"loading", "running"} /\ path[e] = p}

PumpDue == host = "up" /\ queue # <<>> /\ Cardinality(Active) < Processes
DeleteDue(s) == deleting[s].on /\ deleting[s].wait \notin Jobs

\* snapshots too young to be collected
InWorkBut(S) == {got[e] : e \in Execs \ S} \cup {entry[s].snap : s \in Searches}
InWork == InWorkBut({})

\* A new snapshot has an id of its own.  The model uses the number of a dead
\* one again, and whoever remembers that one remembers a lost id.
Lowest(S) == {i \in S : \A j \in S : i <= j}
Fresh(d) == Lowest({i \in Snaps : ~Alive(d, i) /\ dataset[i] = Nobody /\ i \notin InWork})

\* bound: no request while its capture would find no number, because the dead
\* snapshots still have their files (the next clean gives one back)
RoomForCapture(s) == entry[s] # NoEntry \/ Prior(db, s) # {} \/ Fresh(db) # {}

Renamed(i, j) == IF j = i THEN Lost ELSE j
NewCapture(d, s, i, who) ==
    /\ entry' = [entry EXCEPT ![s] = [snap |-> i, waiting |-> {who}, aborted |-> FALSE]]
    /\ db' = [d EXCEPT !.snap[i] = [of |-> s, version |-> d.version[s], ready |-> FALSE]]
    /\ known' = [z \in Searches |-> [known[z] EXCEPT !.snap = Renamed(i, @)]]
    /\ ask' = [e \in Execs |-> [ask[e] EXCEPT !.given = Renamed(i, @)]]

\* no continuation of an earlier event is due
Quiet == /\ ~PumpDue
         /\ \A e \in Execs : phase[e] \notin {"captured", "rejected"}
         /\ \A s \in Searches : ~DeleteDue(s)

\* slip: datasets in use are not spared
SlipInUseToo(d, ds, f, ph) ==
    LET alive == {i \in Snaps : ds[i] # Nobody /\ Alive(d, i)}
        kept == [i \in Snaps |-> IF i \in alive THEN ds[i] ELSE Nobody]
    IN  { [dataset |-> kept,
           file |-> [p \in Paths |-> IF \E i \in Snaps : kept[i] = p THEN f[p] ELSE None]] }

\* `clean': datasets of dead snapshots go, then others while there are too
\* many, never one a job uses; then every file nobody refers to
Clean(d, ds, f, ph) ==
    LET busy(p) == Reading(ph, p) # {}
        alive == {i \in Snaps : ds[i] # Nobody /\ (busy(ds[i]) \/ Alive(d, i))}
        spare == {i \in alive : ~busy(ds[i])}
        tooMany(n) == n > DatasetLimit
    IN  { LET kept == [i \in Snaps |-> IF i \in alive \ D THEN ds[i] ELSE Nobody]
          IN  [dataset |-> kept,
               file |-> [p \in Paths |->
                            IF busy(p) \/ \E i \in Snaps : kept[i] = p THEN f[p] ELSE None]]
          : D \in {D \in SUBSET spare :
                     /\ D # {} => tooMany(Cardinality(alive) - Cardinality(D) + 1)
                     /\ D # spare => ~tooMany(Cardinality(alive \ D))} }

\* what the service holds of a job goes with the job
Forget(e) ==
    /\ ask' = [ask EXCEPT ![e] = NoAsk]
    /\ got' = [got EXCEPT ![e] = None]
    /\ kill' = [kill EXCEPT ![e] = "no"]
    /\ asked' = asked \ {e}
    /\ path' = [path EXCEPT ![e] = Nobody]
    /\ hit' = hit \ {e}

\* slip: the verdict is written even after close
SlipLateVerdict(e, d, f) ==
    LET ph == [phase EXCEPT ![e] = "idle"]
    IN  /\ phase' = ph
        /\ Forget(e)
        /\ \E g \in Gc(d, 0, {e}, InWorkBut({e})) : \E c \in Clean(g, dataset, f, ph) :
              db' = g /\ file' = c.file /\ dataset' = c.dataset

\* A job ends (the catch and finally of `run'): `d' is the database with its
\* verdict.  After `close' nothing is written; else gc and clean run, and the
\* slot is free for the pump.
Ends(e, d, f) ==
    LET ph == [phase EXCEPT ![e] = "idle"]
    IN  /\ phase' = ph
        /\ Forget(e)
        /\ IF host = "closed"
           THEN UNCHANGED db /\ file' = f /\ UNCHANGED dataset
           ELSE \E g \in Gc(d, 0, {e}, InWorkBut({e})) : \E c \in Clean(g, dataset, f, ph) :
                   db' = g /\ file' = c.file /\ dataset' = c.dataset

Fails(e, st) == Ends(e, SetRow(db, e, st), file)

-------------------------------------------------------------------------------
(* Requests of clients *)

\* `context': the scope revision, from a finished snapshot or from the capture
\* under way (a second one, or a new one)
Context(s) ==
    /\ host = "up" /\ Quiet /\ s \in db.live
    /\ \E g \in Gc(db, 0, {}, InWork) : \E c \in Clean(g, dataset, file, phase) :
        /\ dataset' = c.dataset /\ file' = c.file
        /\ \/ /\ entry[s] # NoEntry
              /\ entry' = [entry EXCEPT ![s].waiting = @ \cup {Client}]
              /\ db' = g /\ UNCHANGED <<known, ask>>
           \/ /\ entry[s] = NoEntry /\ Prior(g, s) # {}
              /\ \E i \in Prior(g, s) :
                    known' = [known EXCEPT ![s] = [snap |-> i, version |-> g.version[s]]]
              /\ db' = g /\ UNCHANGED <<entry, ask>>
           \/ /\ entry[s] = NoEntry /\ Prior(g, s) = {}
              /\ \E i \in Fresh(g) : NewCapture(g, s, i, Client)
    /\ UNCHANGED <<host, died, queue, phase, got, kill, asked, path, hit, deleting>>

\* `start' of a fresh request, with the snapshot `context' named or without
\* one; a repeated request, a full queue and a second editor query change nothing
Start(e) ==
    LET s == OwnerOf[e] IN
    /\ host = "up" /\ Quiet
    /\ s \in db.live /\ known[s].snap # None
    /\ db.row[e] = "none"
    /\ Cardinality(Jobs) < QueueLimit + Processes
    /\ e \in Editors => \A j \in Jobs \cap Editors : OwnerOf[j] # s
    /\ RoomForCapture(s)
    /\ \E given \in {None, known[s].snap} :
          ask' = [ask EXCEPT ![e] = [given |-> given, expect |-> known[s].version]]
    /\ db' = [db EXCEPT !.row[e] = "queued"]
    /\ phase' = [phase EXCEPT ![e] = "queued"]
    /\ queue' = Append(queue, e)
    /\ UNCHANGED <<host, died, got, kill, asked, entry, path, hit, dataset, file, known, deleting>>

\* What `cancel' does to the job of e: a queued one ends here; one that waits
\* for a capture leaves it (and, the last one, aborts it) and is rejected; a
\* query process is killed.
Cancels(e) ==
    \/ /\ phase[e] = "queued"
       /\ \E i \in DOMAIN queue : queue[i] = e /\ queue' = RemoveAt(queue, i)
       /\ phase' = [phase EXCEPT ![e] = "idle"]
       /\ db' = SetRow(db, e, "cancelled")
       /\ ask' = [ask EXCEPT ![e] = NoAsk]
       /\ UNCHANGED <<kill, asked, entry>>
    \/ /\ phase[e] = "capture"
       /\ LET s == OwnerOf[e]
              rest == entry[s].waiting \ {e}
          IN  entry' = [entry EXCEPT ![s].waiting = rest,
                                     ![s].aborted = @ \/ rest = {}]
       /\ phase' = [phase EXCEPT ![e] = "rejected"]
       /\ kill' = [kill EXCEPT ![e] = "cancelled"]
       /\ UNCHANGED <<db, queue, ask>>
       /\ asked' = asked \cup {e}
    \/ /\ phase[e] \in {"loading", "running"}
       /\ kill' = [kill EXCEPT ![e] = IF @ = "no" THEN "cancelled" ELSE @]
       /\ UNCHANGED <<db, queue, phase, ask, entry>>
       /\ asked' = asked \cup {e}
    \/ /\ phase[e] \in {"captured", "rejected"}
       /\ UNCHANGED <<db, queue, phase, ask, kill, entry>>
       /\ asked' = asked \cup {e}

Cancel(e) ==
    /\ host = "up" /\ Quiet
    /\ OwnerOf[e] \in db.live /\ db.row[e] # "none" /\ e \in Jobs \ asked
    /\ Cancels(e)
    /\ UNCHANGED <<host, died, got, path, hit, dataset, file, known, deleting>>

\* `release': the client's pin goes and the result starts to age
Release(e) ==
    /\ host = "up" /\ Quiet
    /\ OwnerOf[e] \in db.live /\ db.row[e] # "none"
    /\ LET d == IF e \in db.pinned THEN [db EXCEPT !.pinned = @ \ {e}]
                ELSE db
       IN  db' \in Gc(d, 0, db.pinned \cap {e}, InWork)
    /\ UNCHANGED <<host, died, service>>

\* `pin' by a chat turn that cites the result (discovery-chat.ts recordSql)
Pin(e) ==
    /\ host = "up" /\ Quiet
    /\ e \notin Editors /\ e \notin db.kept
    /\ db.row[e] = "succeeded"
    /\ db' = [db EXCEPT !.kept = @ \cup {e}]
    /\ UNCHANGED <<host, died, service>>

\* a request to delete a search: first deleteSearch cancels, one after the
\* other, the jobs the search has now ...
DeleteAsk(s) ==
    /\ host = "up" /\ Quiet
    /\ s \in db.live /\ ~deleting[s].on
    /\ deleting' = [deleting EXCEPT ![s] =
            [on |-> TRUE, todo |-> {e \in Jobs : OwnerOf[e] = s}, wait |-> Nobody]]
    /\ UNCHANGED <<host, died, db, queue, phase, ask, got, kill, asked, entry,
                   path, hit, dataset, file, known>>

\* ... waiting for each that runs to settle ...
DeleteCancels(s) ==
    /\ host = "up" /\ ~PumpDue /\ DeleteDue(s)
    /\ \E e \in deleting[s].todo :
        /\ deleting' = [deleting EXCEPT ![s].todo = @ \ {e},
                                        ![s].wait = IF phase[e] \in {"idle", "queued"}
                                                    THEN Nobody ELSE e]
        /\ \/ phase[e] = "idle" /\ UNCHANGED <<db, queue, phase, ask, kill, asked, entry>>
           \/ Cancels(e)
    /\ UNCHANGED <<host, died, got, path, hit, dataset, file, known>>

\* ... and then the search is deleted with what the database holds of it
DeleteDone(s) ==
    /\ host = "up" /\ ~PumpDue /\ DeleteDue(s) /\ deleting[s].todo = {}
    /\ db' = SearchDeleted(db, s)
    /\ deleting' = [deleting EXCEPT ![s] = NoDelete]
    /\ known' = [known EXCEPT ![s] = [snap |-> None, version |-> 0]]
    /\ UNCHANGED <<host, died, queue, phase, ask, got, kill, asked, entry,
                   path, hit, dataset, file>>

-------------------------------------------------------------------------------
(* The life of a job *)

\* `pump' takes the head of the queue and `run' goes to its first await: the
\* snapshot it was given, or a capture: the one under way, a finished one or
\* a new one
RunHead ==
    LET e == Head(queue)
        s == OwnerOf[e]
        d == SetRow(db, e, "capturing")
    IN  /\ s \in db.live
        /\ \/ /\ ask[e].given # None /\ Owned(db, s, ask[e].given)
              /\ phase' = [phase EXCEPT ![e] = "captured"]
              /\ got' = [got EXCEPT ![e] = ask[e].given]
              /\ db' = d /\ UNCHANGED <<kill, entry, known, ask>>
           \/ /\ ask[e].given # None /\ ~Owned(db, s, ask[e].given)
              /\ phase' = [phase EXCEPT ![e] = "rejected"]
              /\ kill' = [kill EXCEPT ![e] = "failed"]
              /\ db' = d /\ UNCHANGED <<got, entry, known, ask>>
           \/ /\ ask[e].given = None /\ entry[s] # NoEntry
              /\ phase' = [phase EXCEPT ![e] = "capture"]
              /\ entry' = [entry EXCEPT ![s].waiting = @ \cup {e}]
              /\ db' = d /\ UNCHANGED <<got, kill, known, ask>>
           \/ /\ ask[e].given = None /\ entry[s] = NoEntry
              /\ \E i \in Prior(db, s) :
                    /\ phase' = [phase EXCEPT ![e] = "captured"]
                    /\ got' = [got EXCEPT ![e] = i]
              /\ db' = d /\ UNCHANGED <<kill, entry, known, ask>>
           \/ /\ ask[e].given = None /\ entry[s] = NoEntry /\ Prior(db, s) = {}
              /\ \E i \in Fresh(db) : NewCapture(d, s, i, e)
              /\ phase' = [phase EXCEPT ![e] = "capture"]
              /\ UNCHANGED <<got, kill>>
        /\ queue' = Tail(queue)
        /\ UNCHANGED <<host, died, asked, path, hit, dataset, file, deleting>>

\* the process is gone with all it held in memory
Vanish ==
    /\ queue' = <<>>
    /\ phase' = [e \in Execs |-> "idle"]
    /\ ask' = [e \in Execs |-> NoAsk]
    /\ got' = [e \in Execs |-> None]
    /\ kill' = [e \in Execs |-> "no"]
    /\ asked' = {}
    /\ entry' = [s \in Searches |-> NoEntry]
    /\ path' = [e \in Execs |-> Nobody]
    /\ hit' = {}
    /\ dataset' = [i \in Snaps |-> Nobody]
    /\ file' = [p \in Paths |-> None]
    /\ deleting' = [s \in Searches |-> NoDelete]
    /\ UNCHANGED known

\* ... unless its search is gone: the lookup of the row, before the try,
\* throws; nothing handles the rejection and the process dies of it
RunThrows ==
    /\ OwnerOf[Head(queue)] \notin db.live
    /\ host' = "down" /\ died' = TRUE
    /\ Vanish
    /\ UNCHANGED db

Pump == PumpDue /\ (RunHead \/ RunThrows)

\* The capture of a search ends: the snapshot gets its fingerprint and every
\* consumer has it (one whose search was deleted has a dead one) ...
CaptureDone(s) ==
    /\ entry[s].snap # None /\ ~entry[s].aborted
    /\ host = "up" /\ Quiet
    /\ LET i == entry[s].snap
           mine == entry[s].waiting \cap Execs
       IN  /\ db' = IF db.snap[i].of = s THEN [db EXCEPT !.snap[i].ready = TRUE] ELSE db
           /\ phase' = [e \in Execs |-> IF e \in mine THEN "captured" ELSE phase[e]]
           /\ got' = [e \in Execs |-> IF e \in mine THEN i ELSE got[e]]
           /\ known' = IF Client \in entry[s].waiting /\ s \in db.live
                       THEN [known EXCEPT ![s] = [snap |-> i, version |-> db.snap[i].version]]
                       ELSE known
    /\ entry' = [entry EXCEPT ![s] = NoEntry]
    /\ UNCHANGED <<host, died, queue, ask, kill, asked, path, hit, dataset, file, deleting>>

\* slip: nobody is told that the capture failed
SlipNobodyTold(s) ==
    /\ entry[s].snap # None
    /\ host = "closed" \/ Quiet
    /\ db' = IF host = "up" /\ db.snap[entry[s].snap].of = s
             THEN [db EXCEPT !.snap[entry[s].snap] = NoSnap] ELSE db
    /\ entry' = [entry EXCEPT ![s] = NoEntry]
    /\ UNCHANGED <<host, died, queue, phase, ask, got, kill, asked, path, hit, dataset,
                   file, known, deleting>>

\* ... or it is aborted, too large or too slow: the snapshot is deleted and
\* every consumer is told the same
CaptureFails(s) ==
    /\ entry[s].snap # None
    /\ host = "closed" \/ Quiet
    /\ LET i == entry[s].snap
           mine == entry[s].waiting \cap Execs
           why == IF entry[s].aborted THEN "cancelled" ELSE "failed"
       IN  /\ db' = IF host = "up" /\ db.snap[i].of = s
                    THEN [db EXCEPT !.snap[i] = NoSnap] ELSE db
           /\ phase' = [e \in Execs |-> IF e \in mine THEN "rejected" ELSE phase[e]]
           /\ kill' = [e \in Execs |-> IF e \in mine THEN why ELSE kill[e]]
    /\ entry' = [entry EXCEPT ![s] = NoEntry]
    /\ UNCHANGED <<host, died, queue, ask, got, asked, path, hit, dataset, file, known, deleting>>

\* the catch of `run' for a job that has no query process
Rejected(e) ==
    /\ phase[e] = "rejected"
    /\ Fails(e, kill[e])
    /\ UNCHANGED <<host, died, queue, entry, known, deleting>>

\* the snapshot is not the one the client has seen, or the job was aborted
\* while it waited
ProceedRefused(e) ==
    /\ phase[e] = "captured"
    /\ \/ db.snap[got[e]].version # ask[e].expect /\ Fails(e, "failed")
       \/ db.snap[got[e]].version = ask[e].expect /\ e \in asked /\ Fails(e, "cancelled")
    /\ UNCHANGED <<host, died, queue, entry, known, deleting>>

\* slip: the revision the client had read is not compared
SlipAnyRevision(e) == phase[e] = "captured" /\ e \notin asked

Accepted(e) == /\ phase[e] = "captured" /\ e \notin asked
               /\ db.snap[got[e]].version = ask[e].expect

\* the row names its snapshot, if both are still there
Located(d, e) == IF d.row[e] = "none" THEN d ELSE [d EXCEPT !.used[e] = got[e]]

\* a query already answered over this snapshot is answered from its pages
ProceedCached(e) ==
    /\ Accepted(e)
    /\ phase' = [phase EXCEPT ![e] = "idle"]
    /\ LET d == Located(db, e)
       IN  \E c \in Cached(d, e, got[e]) :
              LET done == Completed(d, e, d.rows[c], e \in Editors, InWork)
              IN  \/ \E x \in done : Ends(e, x, file)
                  \/ done = {} /\ Ends(e, SetRow(d, e, "failed"), file)
    /\ UNCHANGED <<host, died, queue, entry, known, deleting>>

\* otherwise a query process runs over the dataset of the snapshot, or over a
\* new file it has to build
ProceedChild(e) ==
    /\ Accepted(e)
    /\ Cached(Located(db, e), e, got[e]) = {}
    /\ db' = Located(db, e)
    /\ \/ /\ dataset[got[e]] # Nobody
          /\ path' = [path EXCEPT ![e] = dataset[got[e]]]
          /\ hit' = hit \cup {e} /\ UNCHANGED file
       \/ /\ dataset[got[e]] = Nobody
          /\ \E p \in Lowest({p \in Paths : file[p] = None /\ Reading(phase, p) = {}}) :
                              /\ path' = [path EXCEPT ![e] = p]
                              /\ file' = [file EXCEPT ![p] = Partial]
          /\ UNCHANGED hit
    /\ phase' = [phase EXCEPT ![e] = "loading"]
    /\ UNCHANGED <<host, died, queue, ask, got, kill, asked, entry, dataset, known, deleting>>

\* the dataset is built and the query runs
ChildRuns(e) ==
    /\ phase[e] = "loading" /\ kill[e] = "no"
    /\ host = "up" /\ Quiet
    /\ phase' = [phase EXCEPT ![e] = "running"]
    /\ file' = IF e \in hit THEN file ELSE [file EXCEPT ![path[e]] = got[e]]
    /\ db' = SetRow(db, e, "running")
    /\ UNCHANGED <<host, died, queue, ask, got, kill, asked, entry, path, hit,
                   dataset, known, deleting>>

\* a time, memory or transfer limit kills the process (the first reason stands)
ChildLimit(e) ==
    /\ phase[e] \in {"loading", "running"} /\ kill[e] = "no"
    /\ host = "up" /\ Quiet
    /\ kill' = [kill EXCEPT ![e] = "failed"]
    /\ UNCHANGED <<host, died, db, queue, phase, ask, got, asked, entry, path, hit,
                   dataset, file, known, deleting>>

\* the process has answered and is gone: its file is the dataset of the
\* snapshot and its rows are stored, or do not fit
ChildAnswers(e) ==
    LET ds == [dataset EXCEPT ![got[e]] = path[e]]
        ph == [phase EXCEPT ![e] = "idle"]
        done == Completed(db, e, file[path[e]], e \in Editors, InWork)
        out == IF done = {} THEN {SetRow(db, e, "failed")} ELSE done
    IN  /\ phase[e] = "running" /\ kill[e] = "no"
        /\ host = "up" /\ Quiet
        /\ phase' = ph
        /\ Forget(e)
        /\ \E x \in out : \E g \in Gc(x, 0, {e}, InWork) : \E c \in Clean(g, ds, file, ph) :
              db' = g /\ dataset' = c.dataset /\ file' = c.file
        /\ UNCHANGED <<host, died, queue, entry, known, deleting>>

\* the process is gone without an answer: a file it was building goes
ChildFails(e) ==
    /\ phase[e] \in {"loading", "running"}
    /\ host = "closed" \/ Quiet
    /\ LET f == IF e \in hit \/ host = "closed" THEN file
                ELSE [file EXCEPT ![path[e]] = None]
       IN  Ends(e, SetRow(db, e, IF kill[e] = "cancelled" THEN "cancelled" ELSE "failed"), f)
    /\ UNCHANGED <<host, died, queue, entry, known, deleting>>

-------------------------------------------------------------------------------
(* The world around *)

\* the offers of a search change
Change(s) ==
    /\ host = "up" /\ Quiet
    /\ s \in db.live /\ db.version[s] < MaxVersion
    /\ db' = [db EXCEPT !.version[s] = @ + 1]
    /\ UNCHANGED <<host, died, service>>

\* bound: the process does not end in the middle of a capture that has the
\* last snapshot number, for the unfinished snapshot then stays behind
RoomForOrphan == \/ \A s \in Searches : entry[s] = NoEntry
                 \/ Cardinality({i \in Snaps : Alive(db, i)}) < MaxSnaps

\* `close': captures are aborted, processes killed, rows interrupted
Close ==
    /\ host = "up" /\ Quiet /\ RoomForOrphan
    /\ host' = "closed"
    /\ entry' = [s \in Searches |-> [entry[s] EXCEPT !.aborted = @ \/ entry[s] # NoEntry]]
    /\ kill' = [e \in Execs |-> IF phase[e] \in {"loading", "running"} /\ kill[e] = "no"
                                THEN "cancelled" ELSE kill[e]]
    /\ db' = [db EXCEPT !.row = [e \in Execs |->
                 IF e \in Jobs /\ @[e] # "none" THEN "interrupted" ELSE @[e]]]
    /\ queue' = <<>>
    /\ phase' = [e \in Execs |-> IF phase[e] = "queued" THEN "idle" ELSE phase[e]]
    /\ ask' = [e \in Execs |-> IF phase[e] = "queued" THEN NoAsk ELSE ask[e]]
    /\ deleting' = [s \in Searches |-> NoDelete]
    /\ UNCHANGED <<died, got, asked, path, hit, dataset, file, known>>

Crash ==
    /\ host # "down" /\ RoomForOrphan
    /\ host' = "down"
    /\ Vanish
    /\ UNCHANGED <<died, db>>

\* slip: the next process takes the rows as they are
SlipLeftOpen ==
    /\ host = "down"
    /\ host' = "up"
    /\ UNCHANGED <<died, db, service>>

\* the next process: the store interrupts what its predecessor left unfinished
Restart ==
    /\ host = "down"
    /\ host' = "up"
    /\ db' = [db EXCEPT !.row = [e \in Execs |->
                 IF @[e] \in LiveRows THEN "interrupted" ELSE @[e]]]
    /\ UNCHANGED <<died, service>>

-------------------------------------------------------------------------------
Init ==
    /\ host = "up" /\ died = FALSE
    /\ db = [row |-> [e \in Execs |-> "none"], used |-> [e \in Execs |-> None],
             rows |-> [e \in Execs |-> None],
             pinned |-> {}, kept |-> {},
             applied |-> [s \in Searches |-> Nobody],
             snap |-> [i \in Snaps |-> NoSnap],
             live |-> Searches, version |-> [s \in Searches |-> 0]]
    /\ queue = <<>>
    /\ phase = [e \in Execs |-> "idle"]
    /\ ask = [e \in Execs |-> NoAsk]
    /\ got = [e \in Execs |-> None]
    /\ kill = [e \in Execs |-> "no"]
    /\ asked = {}
    /\ entry = [s \in Searches |-> NoEntry]
    /\ path = [e \in Execs |-> Nobody]
    /\ hit = {}
    /\ dataset = [i \in Snaps |-> Nobody]
    /\ file = [p \in Paths |-> None]
    /\ known = [s \in Searches |-> [snap |-> None, version |-> 0]]
    /\ deleting = [s \in Searches |-> NoDelete]

Job(e) ==
    \/ ChildRuns(e) \/ ChildLimit(e) \/ ChildFails(e) \/ ChildAnswers(e)
    \/ Rejected(e) \/ ProceedRefused(e) \/ ProceedChild(e) \/ ProceedCached(e)
Capture(s) == CaptureDone(s) \/ CaptureFails(s)
Delete(s) == DeleteAsk(s) \/ DeleteCancels(s) \/ DeleteDone(s)

Next ==
    \/ \E e \in Execs : Start(e) \/ Cancel(e) \/ Release(e) \/ Pin(e) \/ Job(e)
    \/ \E s \in Searches : Context(s) \/ Capture(s) \/ Delete(s) \/ Change(s)
    \/ Pump \/ Close \/ Crash \/ Restart

Fairness ==
    /\ WF_vars(Pump)
    /\ \A e \in Execs : WF_vars(Job(e))
    /\ \A s \in Searches : WF_vars(Capture(s)) /\ WF_vars(DeleteCancels(s) \/ DeleteDone(s))

Spec == Init /\ [][Next]_vars /\ Fairness

-------------------------------------------------------------------------------
(* Properties *)

\* Types; the queue holds exactly the jobs in their queued phase, once each, a
\* capture knows exactly the jobs that wait for it, and no more jobs run than
\* there are processes.
TypeOK ==
    /\ host \in {"up", "closed", "down"} /\ died \in BOOLEAN
    /\ db \in DbType
    /\ queue \in Seq(Execs)
    /\ Range(queue) = {e \in Execs : phase[e] = "queued"}
    /\ Cardinality(Range(queue)) = Len(queue)
    /\ Cardinality(Active) <= Processes
    /\ \A s \in Searches : entry[s].waiting \ {Client} =
                           {e \in Execs : phase[e] = "capture" /\ OwnerOf[e] = s}
    /\ phase \in [Execs -> Phases]
    /\ ask \in [Execs -> [given : Snaps \cup {None, Lost}, expect : 0..MaxVersion]]
    /\ got \in [Execs -> Snaps \cup {None}]
    /\ kill \in [Execs -> {"no", "cancelled", "failed"}]
    /\ asked \subseteq Execs
    /\ entry \in [Searches -> [snap : Snaps \cup {None},
                               waiting : SUBSET (Execs \cup {Client}), aborted : BOOLEAN]]
    /\ path \in [Execs -> Paths \cup {Nobody}] /\ hit \subseteq Execs
    /\ dataset \in [Snaps -> Paths \cup {Nobody}]
    /\ file \in [Paths -> Snaps \cup {None, Partial}]
    /\ known \in [Searches -> [snap : Snaps \cup {None, Lost}, version : 0..MaxVersion]]
    /\ deleting \in [Searches -> [on : BOOLEAN, todo : SUBSET Execs,
                                  wait : Execs \cup {Nobody}]]

\* While the service runs, a row says that work is under way exactly when the
\* service has a job for it: no row is left behind by an early return, a
\* cancellation, a failed capture or a restart, and no job is dropped with
\* its row still open (run, cancel, close, the constructor of the store).
RowsFollowJobs ==
    /\ TypeOK
    /\ host = "up" => \A e \in Execs : db.row[e] # "none" =>
                          (db.row[e] \in LiveRows <=> e \in Jobs)

\* What a saved search shows as its applied result, and what a chat turn
\* cites, can be read: collection under pressure or by age, and the next
\* editor query, never take the rows of either (gc, complete, pin).
RetainedIsReadable ==
    \A e \in Execs : (IsApplied(db, e) \/ e \in db.kept) =>
        db.row[e] = "succeeded" /\ db.rows[e] # None

\* The stored rows of a query were computed from the snapshot its row names,
\* and the snapshot is still there: through shared captures, datasets built by
\* another query, answers copied from an earlier one, and collection.
RowsAreOfTheSnapshot ==
    \A e \in Execs : db.row[e] = "succeeded" =>
        /\ db.rows[e] = db.used[e]
        /\ Alive(db, db.used[e])
        /\ db.snap[db.used[e]].ready

\* A query succeeds only over offers with the fingerprint its client had read
\* (expectedScopeRevision), whatever changed while it was queued, while it
\* waited for a capture somebody else had begun, or when its snapshot expired.
AnswerIsOfWhatWasAsked ==
    \A e \in Execs :
       db.row[e] # "succeeded" /\ db'.row[e] = "succeeded" =>
           db'.snap[db'.used[e]].version = ask[e].expect

\* A dataset in the cache is a complete one of its snapshot, and a query
\* process that was given one finds it, however many datasets are evicted
\* and whatever the other queries over the same snapshot do (clean, removeFile).
DatasetsAreWhole ==
    /\ \A i \in Snaps : dataset[i] # Nobody => file[dataset[i]] = i
    /\ \A e \in hit : file[path[e]] = got[e]

\* The results only their age keeps exceed the limit of the cache by less than
\* one result: an editor query makes room for its own result, and the one it
\* replaces, which may be larger, starts to age with nothing making room for
\* it (complete, transientBytes).
TransientIsBounded ==
    LET sizes == {Size[e] : e \in Execs}
    IN  Bytes(Transient(db)) + Min(sizes) <= TransientLimit + Max(sizes)

\* A verdict stands: a settled row changes only into a tombstone and a
\* tombstone only into nothing, whatever callbacks arrive late, after a
\* cancellation, close or restart.
VerdictIsKept ==
    \A e \in Execs :
       /\ db.row[e] \in SettledRows => db'.row[e] \in {db.row[e], "expired", "none"}
       /\ db.row[e] = "expired" => db'.row[e] \in {"expired", "none"}

\* No request ends the process that is running other people's work ("one bad
\* request must not take down a process that is running someone's work", host.ts).
NobodyEndsTheHost == ~died
===============================================================================
