----------------------------- MODULE MCServices -----------------------------
(***************************************************************************)
(* What goes on behind every request, each on an instance of its own:      *)
(* focus says which.  "index" is the retrieval index, with two imports,    *)
(* edits beside them, and a process that ends; "slots" the model gateway,  *)
(* with one local and one hosted provider: run "r" makes a tool            *)
(* loop whose tools embed twice, run "q" reads an image and writes;        *)
(* "door" the stdio host with one run that is parked and answered once     *)
(* (MCParts has two of them).                                              *)
(***************************************************************************)
EXTENDS CvIndex, Sequences, TLC

VARIABLES
  focus,
  \* ModelGateway: stage is its pc, queue its waiting
  settings, cancelled, stage, choice, masked, reached, inFlight, queue,
  \* FrontDoor
  status, log, going, late, active, aborted, cursor, watching, pump, waiting, door, quit,
  announced, shown

G == INSTANCE ModelGateway WITH
       NoCall <- "none", NoProvider <- "nobody",
       Calls <- {"loop", "tool1", "tool2", "picture", "text"}, Runs <- {"r", "q"},
       Providers <- {"local", "hosted"}, Local <- "local",
       Limit <- [p \in {"local", "hosted"} |-> 1],
       RunOf <- [c \in {"loop", "tool1", "tool2", "picture", "text"} |->
                   IF c \in {"picture", "text"} THEN "q" ELSE "r"],
       KindOf <- [c \in {"loop", "tool1", "tool2", "picture", "text"} |->
                    IF c = "picture" THEN "image"
                    ELSE IF c \in {"tool1", "tool2"} THEN "embed" ELSE "chat"],
       Outer <- [c \in {"loop", "tool1", "tool2", "picture", "text"} |->
                   IF c \in {"tool1", "tool2"} THEN "loop" ELSE "none"],
       ParallelTools <- TRUE, AlwaysMask <- FALSE,
       Agreed <- [x \in {"r", "q"} |-> IF x = "r" THEN {"hosted"} ELSE {}],
       pc <- stage, waiting <- queue

D == INSTANCE FrontDoor WITH
       Runs <- {"r1"}, MaxWaiting <- 2, MaxEvents <- [r \in {"r1"} |-> 5]

ASSUME GatewayAssumptions == G!CallsBelong /\ G!ToolsAreCalledByLoops

-----------------------------------------------------------------------------
ServicesInit ==
  /\ focus \in {"index", "slots", "door"}
  /\ Init /\ D!DoorInit
  /\ G!Init /\ (focus # "slots" => settings = [kind \in {"chat", "embed"} |-> "local"])

gatewayVars == <<settings, cancelled, stage, choice, masked, reached, inFlight, queue>>
doorVars == <<status, log, going, late, active, aborted, cursor, watching, pump, waiting, door, quit,
              announced, shown>>
servicesVars == <<vars, gatewayVars, doorVars, focus>>

\* The two imports are alike, and so are the two tools: the first begins first.
FirstComesFirst ==
  /\ pc'["i2"] # "idle" => pc'["i1"] # "idle"
  /\ stage'["tool2"] # "idle" => stage'["tool1"] # "idle"

ServicesNext ==
  /\ UNCHANGED focus
  /\ \/ focus = "index" /\ Next /\ UNCHANGED <<gatewayVars, doorVars>>
     \/ focus = "slots" /\ G!Next /\ UNCHANGED <<vars, doorVars>>
     \/ focus = "door" /\ D!DoorNext /\ UNCHANGED <<vars, gatewayVars>>
  /\ FirstComesFirst

\* The fairness each of them states, and the timer of the pump that fires.
IndexFairness ==
  /\ WF_vars(focus = "index" /\ Claim) /\ WF_vars(focus = "index" /\ Due)
  /\ WF_vars(focus = "index" /\ LeaseEnds) /\ WF_vars(focus = "index" /\ Declare)
  /\ WF_vars(focus = "index" /\ Open)
  /\ WF_vars(focus = "index" /\ (Answered \/ Fail)) /\ SF_vars(focus = "index" /\ Answered)
  /\ \A i \in Imports : WF_vars(focus = "index" /\ ImportStep(i))

ServicesSpec ==
  /\ ServicesInit /\ [][ServicesNext]_servicesVars
  /\ IndexFairness
  /\ \A c \in {"loop", "tool1", "tool2", "picture", "text"} :
       WF_gatewayVars(focus = "slots" /\ G!Progress(c))
  /\ WF_doorVars(focus = "door" /\ D!Tick)

-----------------------------------------------------------------------------
(* Properties: those of CvIndex by their names, and *)

\* No slot is lost or given out twice, whatever was queued, woken or cancelled, and what
\* reaches a hosted provider is masked and agreed to for that provider (effects/ai.ts,
\* effects/consent.ts).
GatewayIsExact == G!SlotsAddUp /\ G!HostedIsCovered

\* Every call that queued for a slot ends, and the end of a run that is watched is shown.
WhatWaitsIsServed == G!QueuedCallsEnd /\ D!EndIsShown("r1")
=============================================================================
