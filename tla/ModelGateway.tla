---------------------------- MODULE ModelGateway ----------------------------
(***************************************************************************)
(* The one way to a model (effects/ai.ts), with the two gateways held over *)
(* it: the one that masks (effects/masking.ts) and the one that refuses a  *)
(* provider a person has not agreed to (effects/consent.ts).               *)
(*                                                                         *)
(* A call is made by a run, in a kind: "chat", "image" or "embed".  A call *)
(* may be the tool loop inside which a tool makes another call, which is   *)
(* then in the async context of the first and shares its slot.             *)
(*                                                                         *)
(* From the check of consent to the check of the semaphore a call runs     *)
(* without an await, so Begin is one step.  A slot that is given back is   *)
(* taken by the waiter one microtask later (Woken), before the event loop  *)
(* looks at anything else: the calls that one event can end belong to one  *)
(* run, and what follows that run comes after all of them.                 *)
(***************************************************************************)
EXTENDS Naturals, Sequences, FiniteSets

CONSTANTS
  Calls, Runs, Providers,
  Local,       \* the provider on this machine
  Limit,       \* LOCAL_CONCURRENCY, HOSTED_CONCURRENCY or `concurrency`
  RunOf,       \* the run a call is made for
  KindOf,      \* what a call asks of a model
  Outer,       \* the tool loop a call is made from inside, or NoCall
  ParallelTools, \* whether a loop has several tools called beside each other
  Agreed,      \* per run: the providers its sources may be sent to as they are
  AlwaysMask,  \* the masking mode `always`, for every run
  NoCall, NoProvider

Kinds == {"chat", "image", "embed"}

CallsBelong ==
  /\ Local \in Providers /\ NoProvider \notin Providers /\ NoCall \notin Calls
  /\ Limit \in [Providers -> Nat \ {0}]
  /\ RunOf \in [Calls -> Runs]
  /\ KindOf \in [Calls -> Kinds]
  /\ Agreed \in [Runs -> SUBSET Providers]
  /\ AlwaysMask \in BOOLEAN /\ ParallelTools \in BOOLEAN

(* Only a tool loop calls tools, and the tools here make no loop of their own. *)
ToolsAreCalledByLoops ==
  /\ Outer \in [Calls -> Calls \cup {NoCall}]
  /\ \A c \in Calls : Outer[c] # NoCall =>
       KindOf[Outer[c]] = "chat" /\ Outer[Outer[c]] = NoCall /\ RunOf[Outer[c]] = RunOf[c]

VARIABLES
  settings,   \* what a chat and an embedding resolve to now
  cancelled,  \* the runs whose signal has fired
  pc,         \* where a call stands
  choice,     \* the provider a call was described with when it began
  masked,     \* whether its texts were masked
  reached,    \* the provider the request went to
  inFlight, waiting \* the semaphore of each provider

vars == <<settings, cancelled, pc, choice, masked, reached, inFlight, waiting>>

TypeOK ==
  /\ settings \in [{"chat", "embed"} -> Providers]
  /\ cancelled \subseteq Runs
  /\ pc \in [Calls -> {"idle", "queued", "woken", "calling", "ended", "refused"}]
  /\ choice \in [Calls -> Providers \cup {NoProvider}]
  /\ masked \in [Calls -> BOOLEAN]
  /\ reached \in [Calls -> Providers \cup {NoProvider}]
  /\ inFlight \in [Providers -> Nat]
  /\ waiting \in [Providers -> Seq(Calls)]

Init ==
  /\ settings \in [{"chat", "embed"} -> Providers]
  /\ cancelled = {}
  /\ pc = [c \in Calls |-> "idle"]
  /\ choice = [c \in Calls |-> NoProvider]
  /\ masked = [c \in Calls |-> FALSE]
  /\ reached = [c \in Calls |-> NoProvider]
  /\ inFlight = [p \in Providers |-> 0]
  /\ waiting = [p \in Providers |-> <<>>]

-----------------------------------------------------------------------------
(* A definition named Slip... is a plausible mistake in the definition that *)
(* follows it; no behaviour uses one.                                       *)

Nested(c) == {d \in Calls : Outer[d] = c}

(* The microtask queue is empty. *)
Drained == \A c \in Calls : pc[c] # "woken"

(* resolver.describe and describeEmbedding: an image is read by the chat model. *)
Described(c) == IF KindOf[c] = "embed" THEN settings["embed"] ELSE settings["chat"]

(* consentRefusal: an embedding is not held to consent. *)
Consented(c, p) == KindOf[c] = "embed" \/ p = Local \/ p \in Agreed[RunOf[c]]

(* masks and masksEmbedding; an image is never masked. *)
Masks(c, p) == KindOf[c] # "image" /\ (AlwaysMask \/ p # Local)

(* The AsyncLocalStorage `held`: the providers a call already has a slot of. *)
SlipHoldsNothing(c) == {}

Held(c) == IF Outer[c] = NoCall THEN {} ELSE {choice[Outer[c]]}

(* Where a call goes once it may: pinned to what it was described with. *)
SlipUnpinned(c) == Described(c)

Target(c) == choice[c]

(* A tool is called while its loop is, one at a time or beside its siblings. *)
ToolsTurn(c) ==
  Outer[c] # NoCall =>
    /\ pc[Outer[c]] = "calling"
    /\ ParallelTools \/ \A d \in Nested(Outer[c]) : pc[d] \in {"idle", "ended", "refused"}

Send(c, p) ==
  /\ pc' = [pc EXCEPT ![c] = "calling"]
  /\ reached' = [reached EXCEPT ![c] = p]

-----------------------------------------------------------------------------
(* Consent is asked before the mask, and the mask is made before the signal *)
(* is looked at.                                                            *)
Refuse(c) ==
  /\ pc[c] = "idle" /\ Drained /\ ToolsTurn(c)
  /\ ~Consented(c, Described(c)) \/ RunOf[c] \in cancelled
  /\ pc' = [pc EXCEPT ![c] = "refused"]
  /\ UNCHANGED <<settings, cancelled, choice, masked, reached, inFlight, waiting>>

Admit(c) ==
  /\ pc[c] = "idle" /\ Drained /\ ToolsTurn(c)
  /\ Consented(c, Described(c)) /\ RunOf[c] \notin cancelled
  /\ choice' = [choice EXCEPT ![c] = Described(c)]
  /\ masked' = [masked EXCEPT ![c] = Masks(c, Described(c))]
  /\ UNCHANGED <<settings, cancelled>>

(* The semaphore's `inFlight >= limit`, the other way round. *)
HasRoom(p) == inFlight[p] < Limit[p]

(* The async context already has a slot of this provider. *)
BeginInside(c) ==
  /\ Admit(c)
  /\ Described(c) \in Held(c)
  /\ Send(c, Described(c))
  /\ UNCHANGED <<inFlight, waiting>>

BeginNow(c) ==
  /\ Admit(c)
  /\ LET p == Described(c)
     IN  /\ p \notin Held(c)
         /\ HasRoom(p)
         /\ inFlight' = [inFlight EXCEPT ![p] = @ + 1]
         /\ Send(c, p)
  /\ UNCHANGED waiting

BeginQueued(c) ==
  /\ Admit(c)
  /\ LET p == Described(c)
     IN  /\ p \notin Held(c)
         /\ ~HasRoom(p)
         /\ waiting' = [waiting EXCEPT ![p] = Append(@, c)]
  /\ pc' = [pc EXCEPT ![c] = "queued"]
  /\ UNCHANGED <<reached, inFlight>>

(* release: the slot is given back, and the first of the queue is woken. *)
Release(p, end) ==
  IF waiting[p] = <<>>
    THEN pc' = end /\ UNCHANGED waiting
    ELSE /\ pc' = [end EXCEPT ![Head(waiting[p])] = "woken"]
         /\ waiting' = [waiting EXCEPT ![p] = Tail(@)]

(* The waiter's turn: guarded looks at the signal once more. *)
TakeTurn(c) ==
  /\ pc[c] = "woken"
  /\ RunOf[c] \notin cancelled
  /\ inFlight' = [inFlight EXCEPT ![choice[c]] = @ + 1]
  /\ Send(c, Target(c))
  /\ UNCHANGED <<settings, cancelled, choice, masked, waiting>>

(* A waiter whose signal has fired takes its slot, throws, and gives it back. *)
SlipLeavesQuietly(c) ==
  /\ pc' = [pc EXCEPT ![c] = "ended"]
  /\ UNCHANGED <<inFlight, waiting>>

LeaveTurn(c) ==
  /\ inFlight' = inFlight
  /\ Release(choice[c], [pc EXCEPT ![c] = "ended"])

PassTurn(c) ==
  /\ pc[c] = "woken"
  /\ RunOf[c] \in cancelled
  /\ LeaveTurn(c)
  /\ UNCHANGED <<settings, cancelled, choice, masked, reached>>

(* The request was answered, failed, or was given up because its signal     *)
(* fired, which ends several calls of a run before a waiter has its turn.    *)
(* A loop waits for its tools, unless it was streaming and gave up.          *)
End(c) ==
  /\ pc[c] = "calling"
  /\ Drained \/ RunOf[c] \in cancelled
  /\ (\A d \in Nested(c) : pc[d] \in {"idle", "ended", "refused"}) \/ RunOf[c] \in cancelled
  /\ LET p == choice[c]
         end == [pc EXCEPT ![c] = "ended"]
     IN  IF p \in Held(c)
           THEN pc' = end /\ UNCHANGED <<inFlight, waiting>>
           ELSE /\ inFlight' = [inFlight EXCEPT ![p] = @ - 1]
                /\ Release(p, end)
  /\ UNCHANGED <<settings, cancelled, choice, masked, reached>>

(* A person, or a host's settings. *)
Configure(kind, p) ==
  /\ Drained
  /\ settings[kind] # p
  /\ settings' = [settings EXCEPT ![kind] = p]
  /\ UNCHANGED <<cancelled, pc, choice, masked, reached, inFlight, waiting>>

Cancel(r) ==
  /\ Drained
  /\ r \notin cancelled
  /\ cancelled' = cancelled \cup {r}
  /\ UNCHANGED <<settings, pc, choice, masked, reached, inFlight, waiting>>

-----------------------------------------------------------------------------
Progress(c) == TakeTurn(c) \/ PassTurn(c) \/ End(c)

Next ==
  \/ \E c \in Calls : Refuse(c) \/ BeginInside(c) \/ BeginNow(c) \/ BeginQueued(c) \/ Progress(c)
  \/ \E kind \in {"chat", "embed"}, p \in Providers : Configure(kind, p)
  \/ \E r \in Runs : Cancel(r)

Spec == Init /\ [][Next]_vars

(* Every provider answers, fails or is given up, and microtasks run. *)
FairSpec == Spec /\ \A c \in Calls : WF_vars(Progress(c))

-----------------------------------------------------------------------------
(* Properties. *)

Holders(p) == {c \in Calls : pc[c] = "calling" /\ choice[c] = p /\ p \notin Held(c)}

Woken(p) == {c \in Calls : pc[c] = "woken" /\ choice[c] = p}

(* A provider has at most its limit of slots given out, each to one async   *)
(* context, whatever was queued, woken or cancelled before (ai.ts, limitFor).*)
SlotsWithinLimit ==
  \A p \in Providers :
    /\ inFlight[p] = Cardinality(Holders(p))
    /\ inFlight[p] + Cardinality(Woken(p)) <= Limit[p]

(* No wake-up is lost: calls queue only behind a full provider, so a queue   *)
(* moves as long as anything in front of it ends.                            *)
NoSlotIsLost ==
  \A p \in Providers :
    waiting[p] # <<>> => inFlight[p] + Cardinality(Woken(p)) = Limit[p]

(* The accounts of the slots, and the types of the gateway.                  *)
SlotsAddUp == TypeOK /\ SlotsWithinLimit /\ NoSlotIsLost

(* What reaches a hosted provider is masked, and if it is a person's sources *)
(* as they are it was agreed to: for the provider it reaches, though the     *)
(* settings change while it waits (ai.ts, pinned; consent.ts).               *)
HostedIsCovered ==
  \A c \in Calls : reached[c] \notin {NoProvider, Local} =>
    /\ masked[c] \/ KindOf[c] = "image"
    /\ KindOf[c] # "embed" => reached[c] \in Agreed[RunOf[c]]

(* Every call that queued ends: a tool that asks the provider whose slot its *)
(* own loop holds does not wait for itself (ai.ts, held).                    *)
QueuedCallsEnd ==
  \A c \in Calls : pc[c] = "queued" ~> pc[c] = "ended"

(* The server has no more requests than its limit, loops whose tools are     *)
(* running left out: they are idle meanwhile (ai.ts, the comment at held).   *)
ServerWithinLimit ==
  \A p \in Providers :
    Cardinality({c \in Calls : /\ pc[c] = "calling" /\ choice[c] = p
                               /\ \A d \in Nested(c) : pc[d] # "calling"}) <= Limit[p]
=============================================================================
