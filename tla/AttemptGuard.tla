----------------------------- MODULE AttemptGuard -----------------------------
(***************************************************************************)
(* One outward call at most for one piece of work: the guard of            *)
(* effects/attempts.ts over the table of storage/sqlite/attempts.ts, with  *)
(* the one effect that uses it, effects/mail.ts.                           *)
(*                                                                         *)
(* The row is committed before the request leaves and settled after the    *)
(* answer; the process may end at any point between, and with the machine  *)
(* the tail of what was committed but not yet synced.  Out there is a mail *)
(* service and Google behind it, which a request may reach after whoever   *)
(* made it has given up, or is gone.                                       *)
(***************************************************************************)
EXTENDS Naturals, FiniteSets

CONSTANTS
  Callers,   \* the calls a host or a step makes, a repeat being a call of its own
  Keys,      \* the pieces of work
  KeyOf      \* keyFor: the same kind, run, step and message have the same key

\* Every call is for one piece of work.
KeysBelong == KeyOf \in [Callers -> Keys]

VARIABLES
  row,       \* per key: the attempt on record
  disk,      \* per key: the record as it was last synced
  pc,        \* per caller: where it stands in the guard
  told,      \* per caller: what the guard answered it
  wire,      \* per caller: where its request is
  delivered, \* per key: how many messages went out
  lost       \* whether a commit was ever lost

vars == <<row, disk, lost, pc, told, wire, delivered>>

Attempt == {"none", "open", "ok", "failed"}

TypeOK ==
  /\ row \in [Keys -> Attempt]
  /\ disk \in [Keys -> Attempt]
  /\ pc \in [Callers -> {"idle", "begun", "waiting", "answered", "ended"}]
  /\ told \in [Callers -> {"nothing", "sent", "failed", "unknown", "thrown"}]
  /\ wire \in [Callers -> {"none", "out", "sent", "refused", "broken", "gone"}]
  /\ delivered \in [Keys -> Nat]
  /\ lost \in BOOLEAN

Init ==
  /\ row = [k \in Keys |-> "none"]
  /\ disk = row
  /\ lost = FALSE
  /\ pc = [c \in Callers |-> "idle"]
  /\ told = [c \in Callers |-> "nothing"]
  /\ wire = [c \in Callers |-> "none"]
  /\ delivered = [k \in Keys |-> 0]

-----------------------------------------------------------------------------
(* A definition named Slip... is a plausible mistake in the definition that *)
(* follows it; no behaviour uses one.                                       *)

Ends(c, answer) ==
  /\ pc' = [pc EXCEPT ![c] = "ended"]
  /\ told' = [told EXCEPT ![c] = answer]

(* begin: the unique key decides which of two equal calls is the first. *)
SlipTakesOver(k) == row[k] \in {"none", "open"}

Fresh(k) == row[k] = "none"

Begin(c) ==
  /\ pc[c] = "idle" /\ Fresh(KeyOf[c])
  /\ row' = [row EXCEPT ![KeyOf[c]] = "open"]
  /\ pc' = [pc EXCEPT ![c] = "begun"]
  /\ UNCHANGED <<disk, lost, told, wire, delivered>>

(* The key is on record: the guard answers from the row, or refuses to. *)
SlipReplaysAny(k) == "sent"

Replay(k) ==
  CASE row[k] = "ok" -> "sent"
    [] row[k] = "failed" -> "failed"
    [] OTHER -> "unknown"

Repeat(c) ==
  /\ pc[c] = "idle" /\ ~Fresh(KeyOf[c])
  /\ Ends(c, Replay(KeyOf[c]))
  /\ UNCHANGED <<row, disk, lost, wire, delivered>>

(* post: no mail service is configured, or the signal had fired already.    *)
(* Nothing left, and the error is not one that says so.                      *)
NeverLeaves(c) ==
  /\ pc[c] = "begun"
  /\ Ends(c, "thrown")
  /\ UNCHANGED <<row, disk, lost, wire, delivered>>

Leave(c) ==
  /\ pc[c] = "begun"
  /\ pc' = [pc EXCEPT ![c] = "waiting"]
  /\ wire' = [wire EXCEPT ![c] = "out"]
  /\ UNCHANGED <<row, disk, lost, told, delivered>>

(* The service and what is behind it: the message goes out and the answer   *)
(* says so or is broken on its way (upstream_error, an unrecognised shape), *)
(* or it is refused with one of NOTHING_SENT, or it does not go out and the *)
(* answer does not say that either.                                          *)
Deliver(c) ==
  /\ wire[c] = "out"
  /\ delivered' = [delivered EXCEPT ![KeyOf[c]] = @ + 1]
  /\ \E w \in {"sent", "broken"} : wire' = [wire EXCEPT ![c] = w]
  /\ UNCHANGED <<row, disk, lost, pc, told>>

TurnAway(c) ==
  /\ wire[c] = "out"
  /\ \E w \in {"refused", "broken"} : wire' = [wire EXCEPT ![c] = w]
  /\ UNCHANGED <<row, disk, lost, pc, told, delivered>>

(* The answer is read; which of the three it was decides the row. *)
SlipAnyRefusal(w) == IF w = "sent" THEN "ok" ELSE "failed"

SettledAs(w) == CASE w = "sent" -> "ok" [] w = "refused" -> "failed" [] OTHER -> "open"

Read(c) ==
  /\ pc[c] = "waiting" /\ wire[c] \in {"sent", "refused", "broken"}
  /\ pc' = [pc EXCEPT ![c] = "answered"]
  /\ UNCHANGED <<row, disk, lost, told, wire, delivered>>

(* settle writes a row that is still open, and nothing else. *)
Settle(c) ==
  /\ pc[c] = "answered"
  /\ LET k == KeyOf[c]
     IN  row' = IF row[k] = "open" THEN [row EXCEPT ![k] = SettledAs(wire[c])] ELSE row
  /\ Ends(c, IF wire[c] = "sent" THEN "sent" ELSE "thrown")
  /\ wire' = [wire EXCEPT ![c] = "gone"]
  /\ UNCHANGED <<disk, lost, delivered>>

(* The timeout, the socket or the signal: the caller gives up, the request  *)
(* may still be on its way, and the row stays open.                         *)
GiveUp(c) ==
  /\ pc[c] = "waiting"
  /\ Ends(c, "thrown")
  /\ UNCHANGED <<row, disk, lost, wire, delivered>>

-----------------------------------------------------------------------------
(* SQLite in WAL mode with synchronous = NORMAL: a commit is in the file    *)
(* when a checkpoint, or the system, gets to it.                             *)
Sync ==
  /\ disk # row
  /\ disk' = row
  /\ UNCHANGED <<row, lost, pc, told, wire, delivered>>

Stopped == [c \in Callers |-> IF pc[c] = "idle" THEN "idle" ELSE "ended"]

(* The process ends: rows stay, and whoever was calling does not. *)
Crash ==
  /\ pc' = Stopped
  /\ UNCHANGED <<row, disk, lost, told, wire, delivered>>

(* The machine stops: the tail of the commits is lost. *)
PowerLoss ==
  /\ pc' = Stopped
  /\ row' = disk
  /\ lost' = (lost \/ row # disk)
  /\ UNCHANGED <<disk, told, wire, delivered>>

-----------------------------------------------------------------------------
Next ==
  \/ \E c \in Callers : Begin(c) \/ Repeat(c) \/ NeverLeaves(c) \/ Leave(c) \/ Deliver(c)
                          \/ TurnAway(c) \/ Read(c) \/ Settle(c) \/ GiveUp(c)
  \/ Sync \/ Crash \/ PowerLoss

Spec == Init /\ [][Next]_vars

-----------------------------------------------------------------------------
(* Properties. *)

(* One piece of work goes out once, over repeats, crashes, stops of the      *)
(* machine that lose no commit, and answers that come too late (the header   *)
(* of effects/attempts.ts).                                                   *)
AtMostOnce == lost \/ \A k \in Keys : delivered[k] <= 1

(* A settled row is never a guess: `ok` went out, and `failed` did not and   *)
(* never will, whatever is still on its way (didNotHappen, NOTHING_SENT).    *)
SettledIsKnown ==
  lost \/ \A k \in Keys :
    /\ row[k] = "ok" => delivered[k] = 1
    /\ row[k] = "failed" =>
         delivered[k] = 0 /\ \A c \in Callers : KeyOf[c] = k => wire[c] # "out"

(* Whoever is told a message was sent is told the truth, first caller or     *)
(* repeat, whatever the disk lost (begin answers a repeat from the row).     *)
ToldSentIsSent == \A c \in Callers : told[c] = "sent" => delivered[KeyOf[c]] >= 1
=============================================================================
