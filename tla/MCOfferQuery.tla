----------------------------- MODULE MCOfferQuery -----------------------------
(***************************************************************************)
(* Offer queries of one search: focus says which.  "snapshots", with the   *)
(* constants of the configuration, has an editor's and a chat's query on   *)
(* two processes while the offers change (its search is never deleted);    *)
(* "queries", an instance of its own, two editor queries in turn and a     *)
(* third on one process, and room for one to wait.                         *)
(***************************************************************************)
EXTENDS OfferQuery

CONSTANTS a, b, c, theSearch
VARIABLE focus

OneSearch == [e \in Execs |-> theSearch]
SameSql == [e \in Execs |-> "sql"]
OneByte == [e \in Execs |-> 1]

Three == {a, b, c}
BothEdit == {a, b}
OfIt == [e \in Three |-> theSearch]
TheSame == [e \in Three |-> "sql"]
SecondIsSmall == [e \in Three |-> IF e = b THEN 1 ELSE 2]
OnePath == {1}

Q == INSTANCE OfferQuery WITH
       Execs <- Three, OwnerOf <- OfIt, Editors <- BothEdit, Sql <- TheSame,
       Size <- SecondIsSmall, Processes <- 1, QueueLimit <- 1, TransientLimit <- 2,
       DatasetLimit <- 1, MaxSnaps <- 1, MaxVersion <- 0, Paths <- OnePath

ASSUME QueriesAreBounded == Q!QueryAssumption

-----------------------------------------------------------------------------
QueriesNext ==
    /\ UNCHANGED focus
    /\ \/ focus = "queries" /\ Q!Next
       \/ focus = "snapshots" /\ Next /\ UNCHANGED deleting

\* The fairness OfferQuery states, of the queries that are followed to their end.
QueriesFairness ==
    /\ WF_vars(focus = "queries" /\ Q!Pump)
    /\ \A e \in Three : WF_vars(focus = "queries" /\ Q!Job(e))
    /\ WF_vars(focus = "queries" /\ Q!Capture(theSearch))
    /\ WF_vars(focus = "queries" /\ (Q!DeleteCancels(theSearch) \/ Q!DeleteDone(theSearch)))

QueriesSpec ==
    /\ (focus = "queries" /\ Q!Init) \/ (focus = "snapshots" /\ Init)
    /\ [][QueriesNext]_<<vars, focus>>
    /\ QueriesFairness

\* The instance of the configuration alone.
HostSpec == focus = "host" /\ Init /\ [][Next /\ UNCHANGED focus]_<<vars, focus>>

-----------------------------------------------------------------------------
(* Properties: those of OfferQuery, each of the instance it is about; and NobodyEndsTheHost *)

\* While the service runs, a row says that work is under way exactly when the service has a
\* job for it, and the results only their age keeps stay within the cache's limit and the
\* result an editor's query replaces (run, cancel, close, complete).
RowsAreBoundedAndFollowJobs ==
    focus = "queries" => Q!RowsFollowJobs /\ Q!TransientIsBounded

\* What a saved search shows and what a chat turn cites can be read, and every stored row was
\* computed from the snapshot it names, which is still there (gc, complete, pin); a dataset
\* in the cache is a complete one of its snapshot, and a process that was given one finds it
\* (clean, removeFile).
WhatIsServedIsThere ==
    focus = "snapshots" => RetainedIsReadable /\ RowsAreOfTheSnapshot /\ DatasetsAreWhole

\* A verdict stands: a settled row changes only into a tombstone, and a tombstone only into
\* nothing, whatever comes late after a cancellation, a close or a restart.
VerdictStands == [][focus = "snapshots" => VerdictIsKept]_vars

\* A query succeeds only over offers with the fingerprint its client had read, whatever
\* changed while it was queued or waited for a capture somebody else had begun.
AnswersWhatWasAsked == [][focus = "snapshots" => AnswerIsOfWhatWasAsked]_vars

\* The job of the editor's first query ends, whatever the others do: no slot, capture or
\* deletion is waited for without end (run, pump, capture, deleteSearch).
FirstJobEnds == (focus = "queries" /\ phase[a] # "idle") ~> (phase[a] = "idle")
=============================================================================
