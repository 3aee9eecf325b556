---------------------------- MODULE RunLifecycle ----------------------------
(***************************************************************************)
(* What the status column of one run promises to everyone who reads it,    *)
(* whatever drives the run: it moves along the edges of runs/state.ts, and *)
(* a status that ended stays.  RunEngine implements this specification.    *)
(***************************************************************************)

VARIABLE status

Terminal == {"succeeded", "failed", "cancelled"}

RunStatus == {"none", "queued", "running", "suspended"} \cup Terminal

Edges == [ none      |-> {"queued"},
           queued    |-> {"running", "cancelled", "failed"},
           running   |-> {"suspended", "succeeded", "failed", "cancelled"},
           suspended |-> {"running", "cancelled", "failed"},
           succeeded |-> {},
           failed    |-> {},
           cancelled |-> {} ]

Init == status = "none"

Move(to) == /\ to \in Edges[status]
            /\ status' = to

Next == \E to \in RunStatus : Move(to)

Spec == Init /\ [][Next]_status
=============================================================================
