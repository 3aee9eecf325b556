------------------------------ MODULE FrontDoor ------------------------------
(***************************************************************************)
(* The runtime as a child process: adapters/stdio/host.ts, which answers   *)
(* requests by the table of adapters/ipc/dispatch.ts and tails the log of  *)
(* every run whose id it has told (events/tail.ts).  A run goes on by      *)
(* itself meanwhile, as runtime/run.ts and resume.ts drive it; here it is  *)
(* its row, its log, and whether the promise of whoever drives it is open. *)
(*                                                                         *)
(* What runs without a timer or an answer to wait for between is one step, *)
(* replies included.  SlipAnyOfThem is a mistake no behaviour makes.       *)
(***************************************************************************)
EXTENDS Naturals, Sequences, FiniteSets

CONSTANTS
    Runs,
    MaxEvents,      \* bound, per run: with so many events it takes no step and no answer
    MaxWaiting      \* bound: requests that wait at a time

VARIABLES
    status, log,       \* per run: its status, and the types of its events in order
    going, late,    \* per run: its promise is open; a sibling of its last step is in flight
    active,         \* inFlight: the runs the dispatcher holds a controller of
    aborted,        \* those of them whose signal has fired
    cursor, watching, pump,
    waiting,        \* `pending': the requests that are not answered yet
    door,           \* the host: open, closing, closed, or crashed
    quit,           \* the shutdown: [by, stopped, gaveUp, cut]
    announced,      \* the runs whose id the client has been told
    shown           \* per run: the events it has been sent, in order

doorVars == <<status, log, going, late, active, aborted, cursor, watching, pump, waiting, door, quit,
              announced, shown>>

engine == <<status, log, going, late>>
host == <<cursor, watching, pump, shown>>

Quiet == {"suspended", "ended"}
NoQuit == [by |-> "nobody", stopped |-> {}, gaveUp |-> FALSE, cut |-> FALSE]

DoorTypeOK ==
    /\ status \in [Runs -> {"none", "running", "suspended", "ended"}]
    /\ log \in [Runs -> Seq({"going", "step"} \cup Quiet)]
    /\ going \in [Runs -> BOOLEAN] /\ late \in [Runs -> BOOLEAN]
    /\ active \subseteq Runs /\ aborted \subseteq active /\ announced \subseteq Runs
    /\ cursor \in [Runs -> Nat] /\ watching \subseteq Runs /\ pump \in BOOLEAN
    /\ waiting \subseteq {"approval", "await"} \X Runs
    /\ door \in {"open", "closing", "closed", "crashed"}
    /\ quit \in [by : {"nobody", "client", "pipe"}, stopped : SUBSET Runs, gaveUp : BOOLEAN, cut : BOOLEAN]
    /\ shown \in [Runs -> Seq(Nat)]

DoorInit ==
    /\ status = [r \in Runs |-> "none"] /\ log = [r \in Runs |-> <<>>]
    /\ going = [r \in Runs |-> FALSE] /\ late = [r \in Runs |-> FALSE]
    /\ active = {} /\ aborted = {} /\ announced = {}
    /\ cursor = [r \in Runs |-> 0] /\ watching = {} /\ pump = FALSE
    /\ waiting = {} /\ door = "open" /\ quit = NoQuit
    /\ shown = [r \in Runs |-> <<>>]

-----------------------------------------------------------------------------
(* Runs *)

Stored == door \in {"open", "closing"}     \* the database is open
Say(r, types) == log' = [log EXCEPT ![r] = @ \o types]

\* beginRun and beginResume up to their first await: whoever is told of the run finds its
\* row running and the first events in its log.
Goes(r, types) ==
    /\ status' = [status EXCEPT ![r] = "running"] /\ Say(r, types)
    /\ going' = [going EXCEPT ![r] = TRUE]
    /\ UNCHANGED late

\* What is attached to the promise: the dispatcher lets go of it, and who awaited is told.
Settled(r) ==
    /\ going' = [going EXCEPT ![r] = FALSE]
    /\ active' = active \ {r} /\ aborted' = aborted \ {r}
    /\ waiting' = waiting \ {<<"await", r>>}

Step(r) ==
    /\ Stored /\ going[r] /\ status[r] = "running" /\ Len(log[r]) < MaxEvents[r]
    /\ Say(r, <<"step">>)
    /\ UNCHANGED <<status, going, late, active, aborted, waiting, door, quit, announced, host>>

\* A run comes to its end or to a question; a sibling of the step that brought it there may
\* still be in flight, and is recorded when it returns.
Rests(r, how) ==
    /\ Stored /\ going[r] /\ status[r] = "running"
    /\ how = "suspended" => r \notin aborted
    /\ status' = [status EXCEPT ![r] = how] /\ Say(r, <<how>>)
    /\ \E left \in BOOLEAN : late' = [late EXCEPT ![r] = left]
    /\ Settled(r)
    /\ UNCHANGED <<door, quit, announced, host>>

Straggler(r) ==
    /\ Stored /\ late[r]
    /\ Say(r, <<"step">>) /\ late' = [late EXCEPT ![r] = FALSE]
    /\ UNCHANGED <<status, going, active, aborted, waiting, door, quit, announced, host>>

\* What a run would record after the database was closed is thrown back at it.
Orphaned(r) ==
    /\ ~Stored /\ going[r]
    /\ Settled(r)
    /\ UNCHANGED <<status, log, late, door, quit, announced, host>>

\* A run a service of the runtime begins for itself (discovery chat, board).
Elsewhere(r) ==
    /\ Stored /\ status[r] = "none"
    /\ Goes(r, <<"going", "going">>)
    /\ UNCHANGED <<active, aborted, waiting, door, quit, announced, host>>

-----------------------------------------------------------------------------
(* Requests *)

\* The reply is written first and the run is watched then.
Reply(r) ==
    /\ announced' = announced \cup {r}
    /\ watching' = watching \cup {r} /\ pump' = TRUE
    /\ UNCHANGED <<cursor, shown>>

Track(r) == active' = active \cup {r} /\ aborted' = aborted \ {r}

\* run.start: a repeat of a start that went through is answered with its run.
Start(r) ==
    /\ door = "open"
    /\ IF status[r] = "none" THEN Goes(r, <<"going", "going">>) /\ Track(r)
                          ELSE UNCHANGED <<engine, active, aborted>>
    /\ Reply(r)
    /\ UNCHANGED <<waiting, door, quit>>

\* run.context.start with the plan a person approved is previewed first, which waits.
Approve(r) ==
    /\ door = "open" /\ status[r] = "none" /\ Cardinality(waiting) < MaxWaiting
    /\ waiting' = waiting \cup {<<"approval", r>>}
    /\ UNCHANGED <<engine, active, aborted, door, quit, announced, host>>

\* Refused, no longer the plan, the id taken meanwhile, nothing to read from; or begun,
\* whether or not the host has been told to quit since.
Previewed(r) ==
    /\ <<"approval", r>> \in waiting
    /\ waiting' = waiting \ {<<"approval", r>>}
    /\ \/ UNCHANGED <<engine, active, aborted, announced, host>>
       \/ /\ Stored /\ status[r] = "none"
          /\ Goes(r, <<"going", "going">>) /\ Track(r) /\ Reply(r)
    /\ UNCHANGED <<door, quit>>

Resume(r) ==
    /\ door = "open" /\ status[r] = "suspended" /\ Len(log[r]) < MaxEvents[r]
    /\ Goes(r, <<"going">>) /\ Track(r) /\ Reply(r)
    /\ UNCHANGED <<waiting, door, quit>>

Await(r) ==
    /\ door = "open" /\ r \in active /\ Cardinality(waiting) < MaxWaiting
    /\ waiting' = waiting \cup {<<"await", r>>}
    /\ UNCHANGED <<engine, active, aborted, door, quit, announced, host>>

\* run.cancel of each: what goes on here is told to stop, what is parked is cancelled, and
\* anything else is not this dispatcher's.
Cancels(rs) ==
    LET parked == {r \in rs : r \notin active /\ status[r] = "suspended"} IN
    /\ aborted' = aborted \cup (rs \cap active)
    /\ status' = [r \in Runs |-> IF r \in parked THEN "ended" ELSE status[r]]
    /\ log' = [r \in Runs |-> IF r \in parked THEN Append(log[r], "ended") ELSE log[r]]

Cancel(r) ==
    /\ door = "open" /\ Cancels({r})
    /\ UNCHANGED <<going, late, active, waiting, door, quit, announced, host>>

-----------------------------------------------------------------------------
(* The pump *)

New(r) == SubSeq(log[r], cursor[r] + 1, Len(log[r]))

\* drain: everything new, a page at a time until one is not full.
Drains(rs) ==
    /\ shown' = [r \in Runs |-> IF r \in rs THEN shown[r] \o [i \in 1..Len(New(r)) |-> cursor[r] + i]
                                            ELSE shown[r]]
    /\ cursor' = [r \in Runs |-> IF r \in rs THEN Len(log[r]) ELSE cursor[r]]

\* The last type of what is new, not any of them: a run that was parked and resumed
\* between two ticks goes on.
SlipAnyOfThem(r) == \E i \in DOMAIN New(r) : New(r)[i] \in Quiet

GoneQuiet(r) == New(r) # <<>> /\ New(r)[Len(New(r))] \in Quiet

Tick ==
    /\ pump /\ Stored
    /\ Drains(watching)
    /\ watching' = {r \in watching : ~GoneQuiet(r)}
    /\ pump' = (watching' # {})
    /\ UNCHANGED <<engine, active, aborted, waiting, door, quit, announced>>

\* A page of a database that is closed throws, and nobody catches what a timer throws.
TickOnClosed ==
    /\ pump /\ door = "closed"
    /\ door' = "crashed" /\ pump' = FALSE
    /\ going' = [r \in Runs |-> FALSE] /\ active' = {} /\ aborted' = {} /\ waiting' = {}
    /\ UNCHANGED <<status, log, late, cursor, watching, quit, announced, shown>>

-----------------------------------------------------------------------------
(* Shutdown *)

\* bridge.shutdown, or the end of the input: no more is accepted and what is watched is
\* told to stop.
Quit(by) ==
    /\ door = "open" /\ door' = "closing"
    /\ quit' = [quit EXCEPT !.by = by, !.stopped = watching]
    /\ Cancels(watching)
    /\ UNCHANGED <<going, late, active, waiting, announced, host>>

\* The input ends while a shutdown that was asked for waits: the runtime is closed under it.
PipeCloses ==
    /\ door = "closing" /\ quit.by = "client"
    /\ door' = "closed" /\ quit' = [quit EXCEPT !.cut = TRUE]
    /\ UNCHANGED <<engine, active, aborted, waiting, announced, host>>

\* It waits until the requests that were pending are answered, or for DRAIN_MS, says the
\* last of every run, and closes.
Finish ==
    /\ door = "closing"
    /\ quit' = [quit EXCEPT !.gaveUp = (waiting # {})]
    /\ Drains(watching)
    /\ watching' = {} /\ pump' = FALSE /\ door' = "closed"
    /\ UNCHANGED <<engine, active, aborted, waiting, announced>>

-----------------------------------------------------------------------------
DoorNext ==
    \/ \E r \in Runs :
          \/ Step(r) \/ Straggler(r) \/ Orphaned(r) \/ Elsewhere(r)
          \/ \E how \in Quiet : Rests(r, how)
          \/ Start(r) \/ Approve(r) \/ Previewed(r) \/ Resume(r) \/ Await(r) \/ Cancel(r)
    \/ Tick \/ TickOnClosed
    \/ \E by \in {"client", "pipe"} : Quit(by)
    \/ PipeCloses \/ Finish

DoorSpec == DoorInit /\ [][DoorNext]_doorVars

-----------------------------------------------------------------------------
(* Properties *)

\* The frames of a run are its events in their order, each once, however often the run is
\* parked, answered, started again or asked after.
EachEventOnce == \A r \in Runs : shown[r] = [i \in 1..cursor[r] |-> i] /\ cursor[r] <= Len(log[r])

\* Nobody is told of a run before its id.
IdComesFirst == \A r \in Runs : shown[r] # <<>> => r \in announced

\* A run the client knows of and that is going is watched, and one this dispatcher began
\* can be told to stop.
LiveIsWatched ==
    door = "open" => \A r \in announced : status[r] = "running" => r \in watching /\ (r \in active => going[r])

\* What was watched when the end came is told to the client, unless the host is closed.
EndIsShown(r) ==
    (r \in watching /\ status[r] = "ended")
        ~> (door # "open" \/ \E i \in 1..cursor[r] : log[r][i] = "ended")

\* "The last word on every run, so a client that asked to stop still learns how each one
\* ended" (host.ts, shutdown).
LastWord ==
    quit.by = "client" /\ door = "closed" /\ ~quit.gaveUp /\ ~quit.cut =>
        \A r \in quit.stopped : \E i \in 1..cursor[r] : log[r][i] = "ended"

\* "The timer exists only while something is running" (host.ts, POLL_MS).
TimerHasReason == Tick /\ pump' => \E r \in Runs : status[r] = "running"

\* The pump never looks into a database that is closed.
NoTickOnClosed == door # "crashed"
=============================================================================
