------------------------------ MODULE EdgeProofs ------------------------------
(***************************************************************************)
(* What the process promises at its edges, whatever the constants are: to  *)
(* the services it calls (the guard of outward calls), to the file it lives*)
(* on (the upgrade of the database with its backups), and to the client of *)
(* the stdio host.  They share nothing; each argument stands alone under   *)
(* its heading.  Last, what MCWorkspace states of a person's board, agent, *)
(* conversations and CVs, from the theorems of WorkProofs.                 *)
(***************************************************************************)
EXTENDS MCWorkspace, AttemptGuard, Upgrade, FrontDoor, SequenceTheorems, TLAPS

-----------------------------------------------------------------------------
(***************************************************************************)
(* The guard, for every number of callers and pieces of work.  Counting    *)
(* what went out rests on one fact: as long as no commit was lost, only    *)
(* the caller that opened the row of a key ever had a request for it.      *)
(***************************************************************************)

(* Every step is one of the actions; stated once for the invariants below. *)
LEMMA GuardCases ==
  ASSUME NEW Goal, [Next]_vars,
         \A c \in Callers : Begin(c) => Goal,
         \A c \in Callers : Repeat(c) => Goal,
         \A c \in Callers : NeverLeaves(c) => Goal,
         \A c \in Callers : Leave(c) => Goal,
         \A c \in Callers : Deliver(c) => Goal,
         \A c \in Callers : TurnAway(c) => Goal,
         \A c \in Callers : Read(c) => Goal,
         \A c \in Callers : Settle(c) => Goal,
         \A c \in Callers : GiveUp(c) => Goal,
         Sync => Goal, Crash => Goal, PowerLoss => Goal, UNCHANGED vars => Goal
  PROVE  Goal
BY DEF Next

(* Types are kept. *)
LEMMA GuardTypes ==
  ASSUME KeysBelong
  PROVE  TypeOK /\ [Next]_vars => TypeOK'
<1> SUFFICES ASSUME TypeOK, [Next]_vars PROVE TypeOK'
  OBVIOUS
<1> USE DEF KeysBelong, TypeOK, Attempt, Ends
<1>1. \A c \in Callers : Begin(c) => TypeOK'  BY DEF Begin
<1>2. \A c \in Callers : Repeat(c) => TypeOK'  BY DEF Repeat, Replay
<1>3. \A c \in Callers : NeverLeaves(c) => TypeOK'  BY DEF NeverLeaves
<1>4. \A c \in Callers : Leave(c) => TypeOK'  BY DEF Leave
<1>5. \A c \in Callers : Deliver(c) => TypeOK'  BY DEF Deliver
<1>6. \A c \in Callers : TurnAway(c) => TypeOK'  BY DEF TurnAway
<1>7. \A c \in Callers : Read(c) => TypeOK'  BY DEF Read
<1>8. \A c \in Callers : Settle(c) => TypeOK'  BY DEF Settle, SettledAs
<1>9. \A c \in Callers : GiveUp(c) => TypeOK'  BY DEF GiveUp
<1>10. Sync => TypeOK'  BY DEF Sync
<1>11. Crash => TypeOK'  BY DEF Crash, Stopped
<1>12. PowerLoss => TypeOK'  BY DEF PowerLoss, Stopped
<1>13. UNCHANGED vars => TypeOK'  BY DEF vars
<1>14. QED
  BY <1>1, <1>2, <1>3, <1>4, <1>5, <1>6, <1>7, <1>8, <1>9, <1>10, <1>11, <1>12, <1>13, GuardCases

(* Every variable of the guard keeps its type. *)
THEOREM TypeCorrect ==
  ASSUME KeysBelong
  PROVE  Spec => []TypeOK
<1>1. Init => TypeOK
  <2> SUFFICES ASSUME Init PROVE TypeOK
    OBVIOUS
  <2>1. row \in [Keys -> Attempt] /\ disk \in [Keys -> Attempt]
    BY DEF Init, Attempt
  <2>2. /\ pc \in [Callers -> {"idle", "begun", "waiting", "answered", "ended"}]
        /\ told \in [Callers -> {"nothing", "sent", "failed", "unknown", "thrown"}]
        /\ wire \in [Callers -> {"none", "out", "sent", "refused", "broken", "gone"}]
    BY DEF Init
  <2>3. delivered \in [Keys -> Nat] /\ lost \in BOOLEAN
    BY DEF Init
  <2>4. QED BY <2>1, <2>2, <2>3 DEF TypeOK
<1>2. QED BY <1>1, GuardTypes, PTL DEF Spec

-----------------------------------------------------------------------------
(* A caller that got past the row, and is the one its key belongs to. *)
Holds(c) == pc[c] \in {"begun", "waiting", "answered"} \/ wire[c] # "none"

(* Commits lost or not: what is on the wire follows what its caller did, and *)
(* whatever says `sent` says so of a message that went out.                  *)
Truthful ==
  /\ \A c \in Callers :
       /\ pc[c] = "idle" => wire[c] = "none" /\ told[c] = "nothing"
       /\ pc[c] = "begun" => wire[c] = "none"
       /\ pc[c] = "answered" => wire[c] \in {"sent", "refused", "broken"}
       /\ wire[c] = "sent" => delivered[KeyOf[c]] >= 1
       /\ told[c] = "sent" => delivered[KeyOf[c]] >= 1
  /\ \A k \in Keys : row[k] = "ok" \/ disk[k] = "ok" => delivered[k] >= 1

(* As long as no commit was lost a key has one holder, nothing of it went    *)
(* out before its request arrived, and its row says so.                      *)
OneHolder ==
  /\ \A c, d \in Callers : Holds(c) /\ Holds(d) /\ KeyOf[c] = KeyOf[d] => c = d
  /\ \A c \in Callers : Holds(c) => row[KeyOf[c]] # "none"
  /\ \A c \in Callers : wire[c] \in {"none", "out", "refused"} /\ Holds(c)
                           => delivered[KeyOf[c]] = 0
  /\ \A k \in Keys : (\A c \in Callers : KeyOf[c] = k => ~Holds(c)) => delivered[k] = 0
  /\ \A c \in Callers : pc[c] \in {"begun", "waiting", "answered"} => row[KeyOf[c]] = "open"
  /\ \A k \in Keys : delivered[k] <= 1
  /\ \A k \in Keys : row[k] = "failed" =>
        delivered[k] = 0 /\ \A c \in Callers : KeyOf[c] = k => wire[c] # "out"

GuardInv == Truthful /\ (lost \/ OneHolder)

(* Every step tells the truth. *)
LEMMA TruthfulStep ==
  ASSUME KeysBelong
  PROVE  TypeOK /\ Truthful /\ [Next]_vars => Truthful'
<1> SUFFICES ASSUME TypeOK, Truthful, [Next]_vars PROVE Truthful'
  OBVIOUS
<1> USE DEF KeysBelong, TypeOK, Truthful, Attempt, Ends
<1>1. \A c \in Callers : Begin(c) => Truthful'  BY DEF Begin
<1>2. \A c \in Callers : Repeat(c) => Truthful'  BY DEF Repeat, Replay
<1>3. \A c \in Callers : NeverLeaves(c) => Truthful'  BY DEF NeverLeaves
<1>4. \A c \in Callers : Leave(c) => Truthful'  BY DEF Leave
<1>5. \A c \in Callers : Deliver(c) => Truthful'  BY DEF Deliver
<1>6. \A c \in Callers : TurnAway(c) => Truthful'  BY DEF TurnAway
<1>7. \A c \in Callers : Read(c) => Truthful'  BY DEF Read
<1>8. \A c \in Callers : Settle(c) => Truthful'  BY DEF Settle, SettledAs
<1>9. \A c \in Callers : GiveUp(c) => Truthful'  BY DEF GiveUp
<1>10. Sync => Truthful'  BY DEF Sync
<1>11. Crash => Truthful'  BY DEF Crash, Stopped
<1>12. PowerLoss => Truthful'  BY DEF PowerLoss, Stopped
<1>13. UNCHANGED vars => Truthful'  BY DEF vars
<1>14. QED
  BY <1>1, <1>2, <1>3, <1>4, <1>5, <1>6, <1>7, <1>8, <1>9, <1>10, <1>11, <1>12, <1>13, GuardCases

(* Every step that loses no commit leaves a key with one holder. *)
LEMMA OneHolderStep ==
  ASSUME KeysBelong
  PROVE  TypeOK /\ Truthful /\ (lost \/ OneHolder) /\ [Next]_vars => (lost \/ OneHolder)'
<1> SUFFICES ASSUME TypeOK, Truthful, lost \/ OneHolder, [Next]_vars
             PROVE  (lost \/ OneHolder)'
  OBVIOUS
<1>a. lost => lost'
  BY DEF Next, vars, Begin, Repeat, NeverLeaves, Leave, Deliver, TurnAway, Read, Settle, GiveUp,
         Sync, Crash, PowerLoss
<1> SUFFICES ASSUME ~lost, ~lost', OneHolder PROVE OneHolder'
  BY <1>a
<1> USE DEF KeysBelong, TypeOK, Truthful, OneHolder, Holds, Attempt, Ends
<1>1. \A c \in Callers : Begin(c) => OneHolder'  BY DEF Begin, Fresh
<1>2. \A c \in Callers : Repeat(c) => OneHolder'  BY DEF Repeat
<1>3. \A c \in Callers : NeverLeaves(c) => OneHolder'  BY DEF NeverLeaves
<1>4. \A c \in Callers : Leave(c) => OneHolder'  BY DEF Leave
<1>5. \A c \in Callers : Deliver(c) => OneHolder'  BY DEF Deliver
<1>6. \A c \in Callers : TurnAway(c) => OneHolder'  BY DEF TurnAway
<1>7. \A c \in Callers : Read(c) => OneHolder'  BY DEF Read
<1>8. \A c \in Callers : Settle(c) => OneHolder'  BY DEF Settle, SettledAs
<1>9. \A c \in Callers : GiveUp(c) => OneHolder'  BY DEF GiveUp
<1>10. Sync => OneHolder'  BY DEF Sync
<1>11. Crash => OneHolder'  BY DEF Crash, Stopped
<1>12. PowerLoss => OneHolder'
  <2> SUFFICES ASSUME PowerLoss PROVE OneHolder'
    OBVIOUS
  <2>1. row' = row /\ wire' = wire /\ delivered' = delivered
    BY DEF PowerLoss
  <2>2. pc' = Stopped
    BY DEF PowerLoss
  <2>3. QED BY <2>1, <2>2 DEF Stopped
<1>13. UNCHANGED vars => OneHolder'  BY DEF vars
<1>14. QED
  BY <1>1, <1>2, <1>3, <1>4, <1>5, <1>6, <1>7, <1>8, <1>9, <1>10, <1>11, <1>12, <1>13, GuardCases

(* The invariant, for the three theorems. *)
LEMMA Guarded ==
  ASSUME KeysBelong
  PROVE  Spec => []GuardInv
<1>1. Init => GuardInv
  BY DEF KeysBelong, Init, GuardInv, Truthful, OneHolder, Holds
<1>2. TypeOK /\ GuardInv /\ [Next]_vars => GuardInv'
  BY TruthfulStep, OneHolderStep DEF GuardInv
<1>3. QED BY <1>1, <1>2, TypeCorrect, PTL DEF Spec

(* One piece of work goes out once unless a commit was lost, whoever repeats *)
(* it, whatever crashed and whichever answers came late or never.            *)
THEOREM OnceAtMost ==
  ASSUME KeysBelong
  PROVE  Spec => []AtMostOnce
<1>1. GuardInv => AtMostOnce
  BY DEF GuardInv, OneHolder, AtMostOnce
<1>2. QED BY <1>1, Guarded, PTL

(* A settled row is known to be so: its call went out, or never will.       *)
THEOREM SettledKnown ==
  ASSUME KeysBelong
  PROVE  Spec => []SettledIsKnown
<1>1. TypeOK /\ GuardInv => SettledIsKnown
  BY DEF TypeOK, GuardInv, Truthful, OneHolder, SettledIsKnown
<1>2. QED BY <1>1, TypeCorrect, Guarded, PTL

(* No caller is told that a message was sent which was not, lost commits or *)
(* not.                                                                     *)
THEOREM ToldTheTruth ==
  ASSUME KeysBelong
  PROVE  Spec => []ToldSentIsSent
<1>1. GuardInv => ToldSentIsSent
  BY DEF GuardInv, Truthful, ToldSentIsSent
<1>2. QED BY <1>1, Guarded, PTL

-----------------------------------------------------------------------------
(***************************************************************************)
(* What holds of a database however many versions there are, whichever     *)
(* builds are started on it, wherever they are killed and however often a  *)
(* backup is put back.                                                     *)
(***************************************************************************)

(* Every step is one of the actions; stated once for what follows. *)
LEMMA UpgradeCases ==
  ASSUME NEW Goal, [UpgradeNext]_upgradeVars,
         \A head \in Heads : Migrate(head) => Goal,
         CopyBegins => Goal, CopyEnds => Goal, BackupFails => Goal, Rename => Goal,
         \A fails \in BOOLEAN : Prune(fails) => Goal,
         MigrationStep => Goal, StepFails => Goal, Ready => Goal, Write => Goal, Killed => Goal,
         \A v \in Versions \ {0} : PutBack(v) => Goal,
         UNCHANGED upgradeVars => Goal
  PROVE  Goal
BY DEF UpgradeNext

(* What a start that got so far has done: until the copy is in place the    *)
(* file is as it was found; the copy that is moved is the file; and no step *)
(* is taken on a file that had content before that is set aside.            *)
SetAside == beside[<<start.found.version, "bak">>] = start.found

StartShape ==
  /\ start.at \in {"backup", "copying", "moving", "pruning"} =>
       /\ file = start.found /\ start.current = file.version
       /\ file.version > 0 /\ start.head \in Heads /\ file.version < start.head
  /\ start.at = "moving" => beside[Partial] = file
  /\ start.at = "pruning" => SetAside
  /\ start.at \in {"steps", "up"} =>
       /\ start.head \in Heads
       /\ file.version = start.current
       /\ start.current <= start.head
       /\ start.found.version <= start.current
       /\ start.found.version > 0 /\ (start.current < start.head \/ start.found.version < start.current)
             => SetAside

UpgradeInv == UpgradeTypeOK /\ BackupsAreWhatTheySay /\ StartShape

LEMMA UpgradeInvHolds ==
  ASSUME UpgradeAssumption
  PROVE  UpgradeInit => UpgradeInv
BY DEF UpgradeAssumption, UpgradeInit, UpgradeInv, UpgradeTypeOK, BackupsAreWhatTheySay, StartShape,
       Versions, Names, NoFile, Down, Files, BackupsOf

(* A start that goes on, and keeps what it knows. *)
Phases == {"down", "backup", "copying", "moving", "pruning", "steps", "up"}

LEMMA Advances ==
  ASSUME UpgradeTypeOK, NEW a \in Phases, start' = [start EXCEPT !.at = a]
  PROVE  /\ start' \in [head : Heads \cup {0}, current : Versions, found : Files, at : Phases]
         /\ start'.at = a /\ start'.head = start.head
         /\ start'.current = start.current /\ start'.found = start.found
BY DEF UpgradeTypeOK, Phases

LEMMA UpgradeInvStep ==
  ASSUME UpgradeAssumption
  PROVE  UpgradeInv /\ [UpgradeNext]_upgradeVars => UpgradeInv'
<1> SUFFICES ASSUME UpgradeInv, [UpgradeNext]_upgradeVars PROVE UpgradeInv'
  OBVIOUS
<1> USE DEF UpgradeAssumption, UpgradeInv, UpgradeTypeOK, BackupsAreWhatTheySay, StartShape, SetAside,
            Versions, Names, NoFile, Down, Files, BackupsOf, Partial, Bak
<1>1. \A head \in Heads : Migrate(head) => UpgradeInv'  BY DEF Migrate
<1>2. CopyBegins => UpgradeInv'
  <2> SUFFICES ASSUME CopyBegins PROVE UpgradeInv'
    OBVIOUS
  <2>1. Partial \in Names /\ [file EXCEPT !.whole = FALSE] \in Files
    <3>1. Partial \in Names
      BY DEF CopyBegins
    <3>2. file \in [version : Versions, writes : 0..MaxWrites, whole : BOOLEAN]
      OBVIOUS
    <3>3. [file EXCEPT !.whole = FALSE] \in Files
      BY <3>2, Zenon DEF Files
    <3>4. QED BY <3>1, <3>3
  <2>2. /\ beside' \in [Names -> Files]
        /\ \A v \in Versions \ {0} : beside'[<<v, "bak">>] = beside[<<v, "bak">>]
    BY <2>1 DEF CopyBegins
  <2>3. /\ start' \in [head : Heads \cup {0}, current : Versions, found : Files, at : Phases]
        /\ start'.at = "copying" /\ start'.head = start.head
        /\ start'.current = start.current /\ start'.found = start.found
    BY Advances DEF CopyBegins, Phases
  <2>4. UpgradeTypeOK'
    BY <2>2, <2>3 DEF CopyBegins, Phases
  <2>5. BackupsAreWhatTheySay'
    BY <2>2 DEF CopyBegins
  <2>6. StartShape'
    BY <2>1, <2>2, <2>3 DEF CopyBegins
  <2>7. QED BY <2>4, <2>5, <2>6
<1>3. CopyEnds => UpgradeInv'
  <2> SUFFICES ASSUME CopyEnds PROVE UpgradeInv'
    OBVIOUS
  <2>1. Partial \in Names /\ start.found.version \in Versions \ {0}
    BY DEF CopyEnds
  <2>2. /\ beside' \in [Names -> Files] /\ beside'[Partial] = file
        /\ \A v \in Versions \ {0} : beside'[<<v, "bak">>] = beside[<<v, "bak">>]
    BY <2>1 DEF CopyEnds
  <2>3. /\ start' \in [head : Heads \cup {0}, current : Versions, found : Files, at : Phases]
        /\ start'.at = "moving" /\ start'.head = start.head
        /\ start'.current = start.current /\ start'.found = start.found
    BY Advances DEF CopyEnds, Phases
  <2>4. UpgradeTypeOK'
    BY <2>2, <2>3 DEF CopyEnds, Phases
  <2>5. BackupsAreWhatTheySay'
    BY <2>2 DEF CopyEnds
  <2>6. StartShape'
    BY <2>1, <2>2, <2>3 DEF CopyEnds
  <2>7. QED BY <2>4, <2>5, <2>6
<1>4. BackupFails => UpgradeInv'  BY DEF BackupFails
<1>5. Rename => UpgradeInv'
  <2> SUFFICES ASSUME Rename PROVE UpgradeInv'
    OBVIOUS
  <2>1. /\ Bak \in Names /\ Partial \in Names /\ Bak # Partial /\ NoFile \in Files
        /\ start.found.version = start.current
    BY DEF Rename
  <2>2. /\ beside' \in [Names -> Files] /\ beside'[Bak] = file
        /\ \A v \in Versions \ {0} : v # start.current => beside'[<<v, "bak">>] = beside[<<v, "bak">>]
    BY <2>1 DEF Rename
  <2>3. /\ start' \in [head : Heads \cup {0}, current : Versions, found : Files, at : Phases]
        /\ start'.at = "pruning" /\ start'.head = start.head
        /\ start'.current = start.current /\ start'.found = start.found
    BY Advances DEF Rename, Phases
  <2>4. UpgradeTypeOK'
    BY <2>2, <2>3 DEF Rename, Phases
  <2>5. BackupsAreWhatTheySay'
    BY <2>2 DEF Rename
  <2>6. StartShape'
    BY <2>1, <2>2, <2>3 DEF Rename
  <2>7. QED BY <2>4, <2>5, <2>6
<1>6. \A fails \in BOOLEAN : Prune(fails) => UpgradeInv'
  <2> SUFFICES ASSUME NEW fails \in BOOLEAN, Prune(fails) PROVE UpgradeInv'
    OBVIOUS
  <2>1. /\ Bak \in Names /\ Bak \notin Beyond(start.current) \X {"bak"} /\ NoFile \in Files
        /\ start.found.version = start.current
    BY DEF Prune, Beyond
  <2>2. /\ \A n \in Names : beside'[n] = NoFile \/ beside'[n] = beside[n]
        /\ beside'[Bak] = beside[Bak]
        /\ beside' \in [Names -> Files]
    <3>1. /\ \A n \in Names : beside'[n] = NoFile \/ beside'[n] = beside[n]
          /\ beside'[Bak] = beside[Bak]
      BY <2>1 DEF Prune
    <3>2. \A n \in Names : (IF ~fails /\ n \in Beyond(start.current) \X {"bak"} THEN NoFile
                             ELSE beside[n]) \in Files
      BY <2>1
    <3>3. beside' \in [Names -> Files]
      BY <3>2, Zenon DEF Prune
    <3>4. QED BY <3>1, <3>3
  <2>3. /\ start' \in [head : Heads \cup {0}, current : Versions, found : Files, at : Phases]
        /\ start'.at = "steps" /\ start'.head = start.head
        /\ start'.current = start.current /\ start'.found = start.found
    BY Advances DEF Prune, Phases
  <2>4. UpgradeTypeOK'
    BY <2>2, <2>3 DEF Prune, Phases
  <2>5. BackupsAreWhatTheySay'
    BY <2>2 DEF Prune
  <2>6. StartShape'
    <3>1. SetAside'
      BY <2>1, <2>2, <2>3 DEF Prune
    <3>2. start.head \in Heads /\ file' = file /\ file.version = start.current
      BY DEF Prune
    <3>3. start.current <= start.head /\ start.found.version <= start.current
      BY <2>1 DEF Prune
    <3>4. QED BY <2>3, <3>1, <3>2, <3>3
  <2>7. QED BY <2>4, <2>5, <2>6
<1>7. MigrationStep => UpgradeInv'  BY DEF MigrationStep
<1>8. StepFails => UpgradeInv'  BY DEF StepFails
<1>9. Ready => UpgradeInv'  BY DEF Ready
<1>10. Write => UpgradeInv'  BY DEF Write
<1>11. Killed => UpgradeInv'  BY DEF Killed
<1>12. \A v \in Versions \ {0} : PutBack(v) => UpgradeInv'  BY DEF PutBack
<1>13. UNCHANGED upgradeVars => UpgradeInv'  BY DEF upgradeVars
<1>14. QED
  BY <1>1, <1>2, <1>3, <1>4, <1>5, <1>6, <1>7, <1>8, <1>9, <1>10, <1>11, <1>12, <1>13, UpgradeCases

LEMMA UpgradeHolds ==
  ASSUME UpgradeAssumption
  PROVE  UpgradeSpec => []UpgradeInv
BY UpgradeInvHolds, UpgradeInvStep, PTL DEF UpgradeSpec

(* Whatever is killed when, a copy under a backup's name is a whole file of  *)
(* the version it names (backUp moves it there; versions name the copies).   *)
THEOREM BackupsAreTrue ==
  ASSUME UpgradeAssumption
  PROVE  UpgradeSpec => []BackupsAreWhatTheySay
<1>1. UpgradeInv => BackupsAreWhatTheySay
  BY DEF UpgradeInv
<1>2. QED BY <1>1, UpgradeHolds, PTL

(* A build that has changed a file with content, or is up on one it changed, *)
(* has it beside as it found it, with everything that was written to it.     *)
THEOREM NothingIsLost ==
  ASSUME UpgradeAssumption
  PROVE  UpgradeSpec => []UpgradesCanBeUndone
<1>1. UpgradeInv => UpgradesCanBeUndone
  BY DEF UpgradeAssumption, UpgradeInv, UpgradeTypeOK, StartShape, SetAside, UpgradesCanBeUndone, Versions,
         Files
<1>2. QED BY <1>1, UpgradeHolds, PTL

-----------------------------------------------------------------------------
(***************************************************************************)
(* What a client of the stdio host sees, however many runs there are, how  *)
(* many events they have and how many requests wait.                       *)
(***************************************************************************)

(* Every step is one of the actions; stated once for what follows. *)
LEMMA DoorCases ==
  ASSUME NEW Goal, [DoorNext]_doorVars,
         \A r \in Runs : Step(r) => Goal,
         \A r \in Runs : Straggler(r) => Goal,
         \A r \in Runs : Orphaned(r) => Goal,
         \A r \in Runs : Elsewhere(r) => Goal,
         \A r \in Runs, how \in Quiet : Rests(r, how) => Goal,
         \A r \in Runs : Start(r) => Goal,
         \A r \in Runs : Approve(r) => Goal,
         \A r \in Runs : Previewed(r) => Goal,
         \A r \in Runs : Resume(r) => Goal,
         \A r \in Runs : Await(r) => Goal,
         \A r \in Runs : Cancel(r) => Goal,
         Tick => Goal,
         TickOnClosed => Goal,
         \A by \in {"client", "pipe"} : Quit(by) => Goal,
         PipeCloses => Goal,
         Finish => Goal,
         UNCHANGED doorVars => Goal
  PROVE  Goal
BY DEF DoorNext

(* The log grows, and nothing in it changes. *)
Types == {"going", "step"} \cup Quiet

DoorTypes ==
  /\ status \in [Runs -> {"none", "running"} \cup Quiet]
  /\ log \in [Runs -> Seq(Types)]
  /\ going \in [Runs -> BOOLEAN]
  /\ active \subseteq Runs /\ announced \subseteq Runs /\ watching \subseteq Runs
  /\ cursor \in [Runs -> Nat]

(* A run that goes, and what its log ends in then. *)
LEMMA GoesOn ==
  ASSUME DoorTypes, NEW r \in Runs, NEW types \in {<<"going">>, <<"going", "going">>}, Goes(r, types)
  PROVE  /\ status' \in [Runs -> {"none", "running"} \cup Quiet] /\ log' \in [Runs -> Seq(Types)]
         /\ going' \in [Runs -> BOOLEAN]
         /\ \A q \in Runs \ {r} : status'[q] = status[q] /\ log'[q] = log[q] /\ going'[q] = going[q]
         /\ status'[r] = "running" /\ going'[r]
         /\ Len(log'[r]) > Len(log[r]) /\ log'[r][Len(log'[r])] = "going"
<1>1. log[r] \in Seq(Types) /\ types \in Seq(Types)
  <2>1. log[r] \in Seq(Types)
    BY DEF DoorTypes
  <2>2. <<"going">> \in Seq(Types) /\ <<"going", "going">> \in Seq(Types)
    BY DEF Types
  <2>3. QED BY <2>1, <2>2
<1>2. CASE types = <<"going">>
  BY <1>1, <1>2 DEF Goes, Say, DoorTypes, Types
<1>3. CASE types = <<"going", "going">>
  <2>1. /\ log[r] \o types \in Seq(Types) /\ Len(log[r] \o types) = Len(log[r]) + 2
        /\ (log[r] \o types)[Len(log[r]) + 2] = "going"
    BY <1>1, <1>3
  <2>2. log' = [log EXCEPT ![r] = log[r] \o types]
    BY DEF Goes, Say
  <2>3. log' \in [Runs -> Seq(Types)] /\ log'[r] = log[r] \o types
    BY <2>1, <2>2 DEF DoorTypes
  <2>4. QED BY <2>1, <2>2, <2>3 DEF Goes, DoorTypes
<1>4. QED BY <1>2, <1>3

(* Types are kept. *)
LEMMA DoorTypeStep ==
  ASSUME DoorTypes, [DoorNext]_doorVars
  PROVE  DoorTypes'
<1> USE DEF DoorTypes, Types, Quiet, engine, host, Drains
<1>1. \A r \in Runs : Step(r) => DoorTypes'  BY DEF Step, Say
<1>2. \A r \in Runs : Straggler(r) => DoorTypes'  BY DEF Straggler, Say
<1>3. \A r \in Runs : Orphaned(r) => DoorTypes'  BY DEF Orphaned, Settled
<1>4. \A r \in Runs : Elsewhere(r) => DoorTypes'  BY DEF Elsewhere, Goes, Say
<1>5. \A r \in Runs, how \in Quiet : Rests(r, how) => DoorTypes'  BY DEF Rests, Say, Settled
<1>6. \A r \in Runs : Start(r) => DoorTypes'
  <2> SUFFICES ASSUME NEW r \in Runs, Start(r) PROVE DoorTypes'
    OBVIOUS
  <2>1. CASE status[r] = "none"  BY <2>1, GoesOn DEF Start, Track, Reply
  <2>2. CASE status[r] # "none"  BY <2>2 DEF Start, Reply
  <2>3. QED BY <2>1, <2>2
<1>7. \A r \in Runs : Approve(r) => DoorTypes'  BY DEF Approve
<1>8. \A r \in Runs : Previewed(r) => DoorTypes'
  <2> SUFFICES ASSUME NEW r \in Runs, Previewed(r) PROVE DoorTypes'
    OBVIOUS
  <2>1. CASE UNCHANGED <<engine, active, aborted, announced, host>>  BY <2>1
  <2>2. CASE Goes(r, <<"going", "going">>) /\ Track(r) /\ Reply(r)
    BY <2>2, GoesOn DEF Track, Reply, Previewed
  <2>3. QED BY <2>1, <2>2 DEF Previewed
<1>9. \A r \in Runs : Resume(r) => DoorTypes'  BY DEF Resume, Goes, Say, Track, Reply
<1>10. \A r \in Runs : Await(r) => DoorTypes'  BY DEF Await
<1>11. \A r \in Runs : Cancel(r) => DoorTypes'  BY DEF Cancel, Cancels
<1>12. Tick => DoorTypes'  BY DEF Tick
<1>13. TickOnClosed => DoorTypes'  BY DEF TickOnClosed
<1>14. \A by \in {"client", "pipe"} : Quit(by) => DoorTypes'  BY DEF Quit, Cancels
<1>15. PipeCloses => DoorTypes'  BY DEF PipeCloses
<1>16. Finish => DoorTypes'  BY DEF Finish
<1>17. UNCHANGED doorVars => DoorTypes'  BY DEF doorVars
<1>18. QED
  BY <1>1, <1>2, <1>3, <1>4, <1>5, <1>6, <1>7, <1>8, <1>9,
     <1>10, <1>11, <1>12, <1>13, <1>14, <1>15, <1>16, <1>17, DoorCases

(* Whoever is running has a promise or was begun elsewhere, its last event  *)
(* is not one that ends it, and the client knows of no run that is not there.*)
RowShape ==
  /\ \A r \in Runs : status[r] = "running" =>
        Len(log[r]) > 0 /\ log[r][Len(log[r])] \notin Quiet
  /\ \A r \in active : going[r]
  /\ \A r \in announced : status[r] # "none"
  /\ watching \subseteq announced
  /\ door = "open" => \A r \in announced : status[r] = "running" => r \in watching

(* A run that is begun, answered or looked up is watched. *)
LEMMA BegunIsWatched ==
  ASSUME DoorTypes, RowShape, NEW r \in Runs,
         NEW types \in {<<"going">>, <<"going", "going">>},
         Goes(r, types), Track(r), Reply(r), door' = door
  PROVE  RowShape'
<1> USE DEF RowShape
<1>0. /\ status' \in [Runs -> {"none", "running"} \cup Quiet] /\ log' \in [Runs -> Seq(Types)]
      /\ \A q \in Runs \ {r} : status'[q] = status[q] /\ log'[q] = log[q] /\ going'[q] = going[q]
      /\ status'[r] = "running" /\ going'[r]
      /\ Len(log'[r]) > Len(log[r]) /\ log'[r][Len(log'[r])] = "going"
  BY GoesOn
<1>a. /\ Len(log[r]) \in Nat /\ log[r] \in Seq(Types)
      /\ active \subseteq Runs /\ announced \subseteq Runs /\ watching \subseteq Runs
  BY DEF DoorTypes
<1>1. (\A q \in Runs : status[q] = "running" => Len(log[q]) > 0 /\ log[q][Len(log[q])] \notin Quiet)'
  <2>1. \A q \in Runs \ {r} : status'[q] = "running" =>
          Len(log'[q]) > 0 /\ log'[q][Len(log'[q])] \notin Quiet
    BY <1>0, Zenon
  <2>2. Len(log'[r]) > 0 /\ log'[r][Len(log'[r])] \notin Quiet
    <3>1. Len(log'[r]) \in Nat
      BY <1>0
    <3>2. QED BY <1>0, <1>a, <3>1 DEF Quiet
  <2>3. QED BY <2>1, <2>2
<1>2. (\A q \in active : going[q])'
  BY <1>0, <1>a DEF Track
<1>3. (\A q \in announced : status[q] # "none")' /\ (watching \subseteq announced)'
  BY <1>0, <1>a DEF Reply
<1>4. (door = "open" => \A q \in announced : status[q] = "running" => q \in watching)'
  BY <1>0, <1>a DEF Reply
<1>5. QED BY <1>1, <1>2, <1>3, <1>4

(* The end of a sequence behind a place in it. *)
LEMMA LastOfTail ==
  ASSUME NEW S, NEW s \in Seq(S), NEW c \in Nat, c + 1 <= Len(s)
  PROVE  LET tail == SubSeq(s, c + 1, Len(s)) IN Len(tail) = Len(s) - c /\ tail[Len(tail)] = s[Len(s)]
<1>1. Len(s) \in Nat /\ 1 <= c + 1
  OBVIOUS
<1>2. Len(SubSeq(s, c + 1, Len(s))) = Len(s) - c
  BY <1>1
<1>3. SubSeq(s, c + 1, Len(s))[Len(s) - c] = s[Len(s)]
  BY <1>1
<1>4. QED BY <1>2, <1>3

(* Rows, promises and what is watched stay in step. *)
LEMMA RowStep ==
  ASSUME DoorTypes, RowShape, [DoorNext]_doorVars
  PROVE  RowShape'
<1> USE DEF DoorTypes, Types, RowShape, Quiet, engine, host
<1>1. \A r \in Runs : Step(r) => RowShape'  BY DEF Step, Say
<1>2. \A r \in Runs : Straggler(r) => RowShape'  BY DEF Straggler, Say
<1>3. \A r \in Runs : Orphaned(r) => RowShape'  BY DEF Orphaned, Settled
<1>4. \A r \in Runs : Elsewhere(r) => RowShape'  BY DEF Elsewhere, Goes, Say
<1>5. \A r \in Runs, how \in Quiet : Rests(r, how) => RowShape'  BY DEF Rests, Say, Settled
<1>6. \A r \in Runs : Start(r) => RowShape'
  <2> SUFFICES ASSUME NEW r \in Runs, Start(r) PROVE RowShape'
    OBVIOUS
  <2>1. CASE status[r] = "none"  BY <2>1, BegunIsWatched DEF Start
  <2>2. CASE status[r] # "none"  BY <2>2 DEF Start, Reply
  <2>3. QED BY <2>1, <2>2
<1>7. \A r \in Runs : Approve(r) => RowShape'  BY DEF Approve
<1>8. \A r \in Runs : Previewed(r) => RowShape'
  <2> SUFFICES ASSUME NEW r \in Runs, Previewed(r) PROVE RowShape'
    OBVIOUS
  <2>1. CASE UNCHANGED <<engine, active, aborted, announced, host>>  BY <2>1 DEF Previewed
  <2>2. CASE Goes(r, <<"going", "going">>) /\ Track(r) /\ Reply(r)
    BY <2>2, BegunIsWatched DEF Previewed
  <2>3. QED BY <2>1, <2>2 DEF Previewed
<1>9. \A r \in Runs : Resume(r) => RowShape'  BY DEF Resume, Goes, Say, Track, Reply
<1>10. \A r \in Runs : Await(r) => RowShape'  BY DEF Await
<1>11. \A r \in Runs : Cancel(r) => RowShape'  BY DEF Cancel, Cancels
<1>12. Tick => RowShape'
  <2>1. ASSUME NEW r \in Runs, GoneQuiet(r) PROVE log[r][Len(log[r])] \in Quiet
    <3>1. /\ log[r] \in Seq(Types) /\ cursor[r] \in Nat
          /\ SubSeq(log[r], cursor[r] + 1, Len(log[r])) # <<>>
          /\ New(r)[Len(New(r))] \in Quiet
      BY <2>1 DEF GoneQuiet, New
    <3>2. cursor[r] + 1 <= Len(log[r])
      BY <3>1
    <3>3. /\ Len(New(r)) = Len(log[r]) - cursor[r]
          /\ New(r)[Len(New(r))] = log[r][Len(log[r])]
      BY <3>1, <3>2, LastOfTail DEF New
    <3>4. QED BY <3>1, <3>3
  <2>2. SUFFICES ASSUME Tick PROVE RowShape'
    OBVIOUS
  <2>3. /\ watching' = {r \in watching : ~GoneQuiet(r)}
        /\ UNCHANGED <<status, log, active, going, announced, door>>
    BY <2>2 DEF Tick
  <2>4. QED BY <2>1, <2>3
<1>13. TickOnClosed => RowShape'  BY DEF TickOnClosed
<1>14. \A by \in {"client", "pipe"} : Quit(by) => RowShape'  BY DEF Quit, Cancels
<1>15. PipeCloses => RowShape'  BY DEF PipeCloses
<1>16. Finish => RowShape'  BY DEF Finish
<1>17. UNCHANGED doorVars => RowShape'  BY DEF doorVars
<1>18. QED
  BY <1>1, <1>2, <1>3, <1>4, <1>5, <1>6, <1>7, <1>8, <1>9,
     <1>10, <1>11, <1>12, <1>13, <1>14, <1>15, <1>16, <1>17, DoorCases

(* A step either says something of what is watched or leaves what the       *)
(* client was told, and logs only grow.                                      *)
OnlyLogged ==
  /\ UNCHANGED <<shown, cursor>> /\ announced \subseteq announced'
  /\ \A r \in Runs : Len(log'[r]) >= Len(log[r])

OnlyTold == Drains(watching) /\ UNCHANGED <<log, announced>>

(* What it does to the logs.                                                *)
LEMMA BegunIsLogged ==
  ASSUME DoorTypes, NEW r \in Runs,
         NEW types \in {<<"going">>, <<"going", "going">>}, Goes(r, types), Reply(r)
  PROVE  OnlyLogged
<1>0. /\ \A q \in Runs \ {r} : log'[q] = log[q]
      /\ Len(log'[r]) > Len(log[r])
  BY GoesOn
<1>1. \A q \in Runs : Len(log[q]) \in Nat
  BY DEF DoorTypes
<1>2. log' \in [Runs -> Seq(Types)]
  BY GoesOn
<1>3. \A q \in Runs : Len(log'[q]) \in Nat
  BY <1>2
<1>4. \A q \in Runs : Len(log'[q]) >= Len(log[q])
  BY <1>0, <1>1, <1>3
<1>5. QED BY <1>4 DEF OnlyLogged, Reply

LEMMA TellsOrLogs ==
  ASSUME DoorTypes, [DoorNext]_doorVars
  PROVE  OnlyLogged \/ OnlyTold
<1> USE DEF DoorTypes, Types, OnlyLogged, engine, host
<1>1. \A r \in Runs : Step(r) => OnlyLogged  BY DEF Step, Say
<1>2. \A r \in Runs : Straggler(r) => OnlyLogged  BY DEF Straggler, Say
<1>3. \A r \in Runs : Orphaned(r) => OnlyLogged  BY DEF Orphaned, Settled
<1>4. \A r \in Runs : Elsewhere(r) => OnlyLogged  BY DEF Elsewhere, Goes, Say
<1>5. \A r \in Runs, how \in Quiet : Rests(r, how) => OnlyLogged  BY DEF Rests, Say, Settled
<1>6. \A r \in Runs : Start(r) => OnlyLogged
  <2> SUFFICES ASSUME NEW r \in Runs, Start(r) PROVE OnlyLogged
    OBVIOUS
  <2>1. CASE status[r] = "none"  BY <2>1, BegunIsLogged DEF Start
  <2>2. CASE status[r] # "none"  BY <2>2 DEF Start, Reply
  <2>3. QED BY <2>1, <2>2
<1>7. \A r \in Runs : Approve(r) => OnlyLogged  BY DEF Approve
<1>8. \A r \in Runs : Previewed(r) => OnlyLogged
  <2> SUFFICES ASSUME NEW r \in Runs, Previewed(r) PROVE OnlyLogged
    OBVIOUS
  <2>1. CASE UNCHANGED <<engine, active, aborted, announced, host>>  BY <2>1
  <2>2. CASE Goes(r, <<"going", "going">>) /\ Track(r) /\ Reply(r)
    BY <2>2, BegunIsLogged
  <2>3. QED BY <2>1, <2>2 DEF Previewed
<1>9. \A r \in Runs : Resume(r) => OnlyLogged  BY DEF Resume, Goes, Say, Track, Reply
<1>10. \A r \in Runs : Await(r) => OnlyLogged  BY DEF Await
<1>11. \A r \in Runs : Cancel(r) => OnlyLogged  BY DEF Cancel, Cancels
<1>12. Tick => OnlyTold  BY DEF Tick, OnlyTold
<1>13. TickOnClosed => OnlyLogged  BY DEF TickOnClosed
<1>14. \A by \in {"client", "pipe"} : Quit(by) => OnlyLogged  BY DEF Quit, Cancels
<1>15. PipeCloses => OnlyLogged  BY DEF PipeCloses
<1>16. Finish => OnlyTold  BY DEF Finish, OnlyTold
<1>17. UNCHANGED doorVars => OnlyLogged  BY DEF doorVars
<1>18. QED
  BY <1>1, <1>2, <1>3, <1>4, <1>5, <1>6, <1>7, <1>8, <1>9,
     <1>10, <1>11, <1>12, <1>13, <1>14, <1>15, <1>16, <1>17, DoorCases

(* Of what is shown the next page begins where the last one ended. *)
ToldShape == EachEventOnce /\ IdComesFirst

LEMMA ToldStep ==
  ASSUME DoorTypes, RowShape, ToldShape, [DoorNext]_doorVars
  PROVE  ToldShape'
<1>1. CASE OnlyLogged
  <2>1. \A r \in Runs : Len(log[r]) \in Nat /\ cursor[r] \in Nat
    BY DEF DoorTypes
  <2>2. DoorTypes'
    BY DoorTypeStep
  <2>3. \A r \in Runs : Len(log'[r]) \in Nat
    BY <2>2 DEF DoorTypes
  <2>4. QED BY <1>1, <2>1, <2>3 DEF OnlyLogged, ToldShape, EachEventOnce, IdComesFirst
<1>2. CASE OnlyTold
  <2> SUFFICES ASSUME NEW r \in Runs
               PROVE  /\ shown'[r] = [i \in 1..cursor'[r] |-> i] /\ cursor'[r] <= Len(log'[r])
                      /\ shown'[r] # <<>> => r \in announced'
    BY DEF ToldShape, EachEventOnce, IdComesFirst
  <2>1. CASE r \notin watching
    BY <1>2, <2>1 DEF OnlyTold, Drains, ToldShape, EachEventOnce, IdComesFirst
  <2>2. CASE r \in watching
    <3> DEFINE n == Len(log[r])
               c == cursor[r]
               was == [i \in 1..c |-> i]
               page == [i \in 1..(n - c) |-> c + i]
    <3>1. n \in Nat /\ c \in Nat /\ c <= n /\ log[r] \in Seq(Types) /\ shown[r] = was
      BY DEF DoorTypes, ToldShape, EachEventOnce
    <3>2. Len(New(r)) = n - c
      BY <3>1 DEF New
    <3>3. shown'[r] = was \o page /\ cursor'[r] = n /\ log'[r] = log[r] /\ r \in announced'
      BY <1>2, <2>2, <3>1, <3>2 DEF OnlyTold, Drains, RowShape
    <3>4. was \in Seq(Nat) /\ page \in Seq(Nat) /\ Len(was) = c /\ Len(page) = n - c
      <4>1. \A k \in Nat : \A f \in [1..k -> Nat] : f \in Seq(Nat) /\ Len(f) = k
        OBVIOUS
      <4>2. was \in [1..c -> Nat] /\ page \in [1..(n - c) -> Nat] /\ n - c \in Nat
        BY <3>1
      <4>3. was \in Seq(Nat) /\ Len(was) = c
        BY <3>1, <4>1, <4>2
      <4>4. page \in Seq(Nat) /\ Len(page) = n - c
        BY <4>1, <4>2
      <4>5. QED BY <4>3, <4>4
    <3>5. was \o page = [i \in 1..n |-> i]
      <4> HIDE DEF n, c
      <4>1. /\ was \o page \in Seq(Nat) /\ Len(was \o page) = n
            /\ \A i \in 1..n : (was \o page)[i] = IF i <= c THEN was[i] ELSE page[i - c]
        BY <3>1, <3>4, ConcatProperties
      <4>2. ASSUME NEW i \in 1..n PROVE (was \o page)[i] = i
        <5>1. CASE i <= c
          BY <3>1, <4>1, <5>1
        <5>2. CASE i > c
          BY <3>1, <4>1, <5>2
        <5>3. QED BY <3>1, <5>1, <5>2
      <4>3. was \o page \in [1..n -> Nat]
        <5> HIDE DEF was, page
        <5>1. QED BY <4>1, LenProperties
      <4>4. QED BY <4>2, <4>3
    <3>6. QED
      <4> HIDE DEF n, c, was, page
      <4>1. n <= Len(log[r]) BY DEF n
      <4>2. QED BY <3>3, <3>5, <4>1
  <2>3. QED BY <2>1, <2>2
<1>3. QED BY <1>1, <1>2, TellsOrLogs

-----------------------------------------------------------------------------
DoorInv == DoorTypes /\ RowShape /\ ToldShape

LEMMA DoorHolds == DoorSpec => []DoorInv
<1>1. DoorInit => DoorInv
  BY DEF DoorInit, DoorInv, DoorTypes, Types, RowShape, ToldShape, EachEventOnce, IdComesFirst, Quiet
<1>2. DoorInv /\ [DoorNext]_doorVars => DoorInv'
  BY DoorTypeStep, RowStep, ToldStep DEF DoorInv
<1>3. QED BY <1>1, <1>2, PTL DEF DoorSpec

(* The client gets every event of a run once and in its place, however often *)
(* the run is parked, answered, started again or asked after (drain, cursor).*)
THEOREM EventsComeOnce == DoorSpec => []EachEventOnce
<1>1. DoorInv => EachEventOnce  BY DEF DoorInv, ToldShape
<1>2. QED BY <1>1, DoorHolds, PTL

(* The id of a run is told before anything of the run is (reply, then watch). *)
THEOREM IdIsFirst == DoorSpec => []IdComesFirst
<1>1. DoorInv => IdComesFirst  BY DEF DoorInv, ToldShape
<1>2. QED BY <1>1, DoorHolds, PTL

(* While the host is open, whatever goes on of what the client knows is      *)
(* watched, and what this dispatcher holds a controller of is still going.   *)
THEOREM Watched == DoorSpec => []LiveIsWatched
<1>1. DoorInv => LiveIsWatched
  BY DEF DoorInv, RowShape, LiveIsWatched
<1>2. QED BY <1>1, DoorHolds, PTL

-----------------------------------------------------------------------------
(***************************************************************************)
(* What a person works on, in the run's own instances: its properties as   *)
(* MCWorkspace states them.                                                *)
(***************************************************************************)

(* The instances of MCWorkspace once more, with their theorems: P, T and C,  *)
(* and A and M.                                                             *)
GP == INSTANCE WorkProofs WITH
        MaxAttempts <- 2, MaxGen <- 3, MaxCv <- 3, MaxPosting <- 2,
        MaxIterations <- 2, MaxAgentGen <- 2, Pages <- Looks, active <- working,
        Runs <- {r1, r2, r3}, Recorded <- {r1, r2, r3}, Pieces <- {{x, y}, {x}},
        MaxExclusions <- 1, MaxExchanges <- 1, Keeps <- {0, 1}, MaxMessages <- 4, MaxFolds <- 1,
        Cvs <- {c1, c2}, First <- c1, CvRuns <- {r1, r2}, Ops <- {q1, q2}, MaxRev <- 4
GA == INSTANCE WorkProofs WITH
        MaxAttempts <- 1, MaxGen <- 2, MaxCv <- 3, MaxPosting <- 1,
        MaxIterations <- 2, MaxAgentGen <- 2, Pages <- Looks, active <- working,
        Runs <- {r1, r2, r3}, Recorded <- {r1, r3}, Pieces <- {{x, y}, {x}},
        MaxExclusions <- 1, MaxExchanges <- 2, Keeps <- {0, 1}, MaxMessages <- 6, MaxFolds <- 2,
        Cvs <- {c1, c2}, First <- c1, CvRuns <- {r1, r2}, Ops <- {q1, q2}, MaxRev <- 4

(* The board. *)
LEMMA BoardBounded == GP!BoardAssumption
<1>1. P!BoardAssumption => GP!BoardAssumption
  BY Zenon DEF GP!BoardAssumption, P!BoardAssumption
<1>2. QED BY <1>1, InstancesAreBounded

LEMMA BoardFirst == P!BoardInit => GP!BoardInit
  BY Zenon DEF GP!Steps, P!Steps, GP!Step, P!Step, GP!Asks, P!Asks, GP!NoCv, P!NoCv, GP!NoRun,
      P!NoRun, GP!NoProc, P!NoProc, GP!BoardInit, P!BoardInit, GP!ToSet, P!ToSet

LEMMA BoardSteps ==
  ASSUME P!BoardNext \/ P!BoardCrash \/ P!BoardRestart
  PROVE  GP!BoardNext \/ GP!BoardCrash \/ GP!BoardRestart
<1>1. P!BoardNext => GP!BoardNext
  BY Zenon DEF GP!Steps, P!Steps, GP!Step, P!Step, GP!Asks, P!Asks, GP!prepVars, P!prepVars,
      GP!NoRun, P!NoRun, GP!NoProc, P!NoProc, GP!Index, P!Index, GP!NextStep, P!NextStep,
      GP!AbortOutdated, P!AbortOutdated, GP!Kept, P!Kept, GP!Forgets, P!Forgets, GP!Begun,
      P!Begun, GP!ResetFrom, P!ResetFrom, GP!Add, P!Add, GP!Pause, P!Pause, GP!Again, P!Again,
      GP!Resume, P!Resume, GP!Configure, P!Configure, GP!PastePosting, P!PastePosting,
      GP!OpenEditor, P!OpenEditor, GP!UpdateSummary, P!UpdateSummary, GP!Drop, P!Drop, GP!Pump,
      P!Pump, GP!Owns, P!Owns, GP!ProcEnds, P!ProcEnds, GP!Waits, P!Waits, GP!Stale, P!Stale,
      GP!Loop, P!Loop, GP!LoopEnds, P!LoopEnds, GP!Begins, P!Begins, GP!Named, P!Named,
      GP!StepBegins, P!StepBegins, GP!FailsTo, P!FailsTo, GP!Completes, P!Completes, GP!CopyCv,
      P!CopyCv, GP!RunSucceeds, P!RunSucceeds, GP!Checkpointed, P!Checkpointed, GP!FetchDone,
      P!FetchDone, GP!LanguageDone, P!LanguageDone, GP!AnalyzeDone, P!AnalyzeDone,
      GP!SummaryDone, P!SummaryDone, GP!StepFails, P!StepFails, GP!ProcSettles, P!ProcSettles,
      GP!BoardNext, P!BoardNext, GP!ToSet, P!ToSet
<1>2. P!BoardCrash => GP!BoardCrash
  BY Zenon DEF GP!prepVars, P!prepVars, GP!NoProc, P!NoProc, GP!BoardCrash, P!BoardCrash
<1>3. P!BoardRestart => GP!BoardRestart
  BY Zenon DEF GP!BoardRestart, P!BoardRestart
<1>4. QED BY <1>1, <1>2, <1>3

(* What is proved of the one is what the run states of the other. *)
LEMMA BoardSame ==
  /\ GP!BoardTypeOK => P!BoardTypeOK
  /\ GP!CompleteIsCurrent => P!CompleteIsCurrent
  /\ GP!OldWorkWritesNothing => P!OldWorkWritesNothing
<1>1. GP!BoardTypeOK => P!BoardTypeOK
  BY Zenon DEF GP!Steps, P!Steps, GP!Step, P!Step, GP!Asks, P!Asks, GP!Statuses, P!Statuses,
      GP!BoardTypeOK, P!BoardTypeOK, GP!ToSet, P!ToSet
<1>2. GP!CompleteIsCurrent => P!CompleteIsCurrent
  BY Zenon DEF GP!CompleteIsCurrent, P!CompleteIsCurrent
<1>3. GP!OldWorkWritesNothing => P!OldWorkWritesNothing
  BY Zenon DEF GP!OldWorkWritesNothing, P!OldWorkWritesNothing
<1>4. QED BY <1>1, <1>2, <1>3

(* The agent beside the board. *)
LEMMA AgentBounded == GA!AgentBounds
<1>1. A!BoardAssumption => GA!BoardAssumption
  BY Zenon DEF GA!BoardAssumption, A!BoardAssumption
<1>2. A!AgentAssumption => GA!AgentAssumption
  BY Zenon DEF GA!Features, A!Features, GA!AgentAssumption, A!AgentAssumption
<1>3. QED BY <1>1, <1>2, InstancesAreBounded DEF GA!AgentBounds

LEMMA AgentFirst == A!AgentInit => GA!AgentInit
  BY Zenon DEF GA!NoAction, A!NoAction, GA!NoSeen, A!NoSeen, GA!AgentInit, A!AgentInit

LEMMA AgentSteps == A!AgentNext => GA!AgentNext
  BY Zenon DEF GA!Steps, A!Steps, GA!Step, A!Step, GA!Asks, A!Asks, GA!prepVars, A!prepVars,
      GA!boardEntryVars, A!boardEntryVars, GA!NoRun, A!NoRun, GA!NoProc, A!NoProc, GA!Index,
      A!Index, GA!NextStep, A!NextStep, GA!AbortOutdated, A!AbortOutdated, GA!Kept, A!Kept,
      GA!Forgets, A!Forgets, GA!Begun, A!Begun, GA!ResetFrom, A!ResetFrom, GA!Add, A!Add,
      GA!Pause, A!Pause, GA!Again, A!Again, GA!Resume, A!Resume, GA!Configure, A!Configure,
      GA!PastePosting, A!PastePosting, GA!OpenEditor, A!OpenEditor, GA!UpdateSummary,
      A!UpdateSummary, GA!Drop, A!Drop, GA!Pump, A!Pump, GA!Owns, A!Owns, GA!ProcEnds,
      A!ProcEnds, GA!Waits, A!Waits, GA!Stale, A!Stale, GA!Loop, A!Loop, GA!LoopEnds, A!LoopEnds,
      GA!Begins, A!Begins, GA!Named, A!Named, GA!StepBegins, A!StepBegins, GA!FailsTo, A!FailsTo,
      GA!Completes, A!Completes, GA!CopyCv, A!CopyCv, GA!RunSucceeds, A!RunSucceeds,
      GA!Checkpointed, A!Checkpointed, GA!FetchDone, A!FetchDone, GA!LanguageDone,
      A!LanguageDone, GA!AnalyzeDone, A!AnalyzeDone, GA!SummaryDone, A!SummaryDone, GA!StepFails,
      A!StepFails, GA!ProcSettles, A!ProcSettles, GA!BoardCrash, A!BoardCrash, GA!BoardRestart,
      A!BoardRestart, GA!BoardNext, A!BoardNext, GA!agentVars, A!agentVars, GA!NoAction,
      A!NoAction, GA!NoSeen, A!NoSeen, GA!CvHolds, A!CvHolds, GA!Session, A!Session,
      GA!AgentStart, A!AgentStart, GA!Plans, A!Plans, GA!AfterDraft, A!AfterDraft, GA!Decides,
      A!Decides, GA!Refused, A!Refused, GA!Observe, A!Observe, GA!Dropped, A!Dropped, GA!Frees,
      A!Frees, GA!DraftOfOldCv, A!DraftOfOldCv, GA!Current, A!Current, GA!DraftReturns,
      A!DraftReturns, GA!DraftFails, A!DraftFails, GA!DraftIgnored, A!DraftIgnored, GA!Report,
      A!Report, GA!CancelEntry, A!CancelEntry, GA!Control, A!Control, GA!ResumeRefused,
      A!ResumeRefused, GA!AgentStep, A!AgentStep, GA!BoardStep, A!BoardStep, GA!AgentCrash,
      A!AgentCrash, GA!AgentRestart, A!AgentRestart, GA!AgentNext, A!AgentNext, GA!ToSet, A!ToSet

LEMMA AgentSame ==
  /\ GA!BoardTypeOK => A!BoardTypeOK
  /\ GA!AgentTypeOK => A!AgentTypeOK
  /\ GA!CompleteIsCurrent => A!CompleteIsCurrent
  /\ GA!OneDraft => A!OneDraft
  /\ GA!OldWorkWritesNothing => A!OldWorkWritesNothing
  /\ GA!ActsOnWhatItSees => A!ActsOnWhatItSees
<1>1. GA!BoardTypeOK => A!BoardTypeOK
  BY Zenon DEF GA!Steps, A!Steps, GA!Step, A!Step, GA!Asks, A!Asks, GA!Statuses, A!Statuses,
      GA!BoardTypeOK, A!BoardTypeOK, GA!ToSet, A!ToSet
<1>2. GA!AgentTypeOK => A!AgentTypeOK
  BY Zenon DEF GA!Features, A!Features, GA!AgentTypeOK, A!AgentTypeOK
<1>3. GA!CompleteIsCurrent => A!CompleteIsCurrent
  BY Zenon DEF GA!CompleteIsCurrent, A!CompleteIsCurrent
<1>4. GA!OneDraft => A!OneDraft
  BY Zenon DEF GA!OneDraft, A!OneDraft
<1>5. GA!OldWorkWritesNothing => A!OldWorkWritesNothing
  BY Zenon DEF GA!OldWorkWritesNothing, A!OldWorkWritesNothing
<1>6. GA!ActsOnWhatItSees => A!ActsOnWhatItSees
  BY Zenon DEF GA!ActsOnWhatItSees, A!ActsOnWhatItSees
<1>7. QED BY <1>1, <1>2, <1>3, <1>4, <1>5, <1>6

(* The conversations. *)
LEMMA TalkBounded == GP!MemoryAssumption
<1>1. T!MemoryAssumption => GP!MemoryAssumption
  BY Zenon DEF GP!MemoryAssumption, T!MemoryAssumption
<1>2. QED BY <1>1, InstancesAreBounded

LEMMA TalkSteps == T!MemoryNext => GP!MemoryNext
  BY Zenon DEF GP!Atoms, T!Atoms, GP!Leaves, T!Leaves, GP!Excluded, T!Excluded, GP!Walled,
      T!Walled, GP!Touched, T!Touched, GP!NoGiven, T!NoGiven, GP!NoRunYet, T!NoRunYet,
      GP!Answers, T!Answers, GP!Key, T!Key, GP!Question, T!Question, GP!Derives, T!Derives,
      GP!Known, T!Known, GP!Carried, T!Carried, GP!Clears, T!Clears, GP!IsClear, T!IsClear,
      GP!Withheld, T!Withheld, GP!NoteShown, T!NoteShown, GP!Candidates, T!Candidates, GP!Newest,
      T!Newest, GP!Supplied, T!Supplied, GP!Start, T!Start, GP!Assemble, T!Assemble, GP!Sent,
      T!Sent, GP!Send, T!Send, GP!Hands, T!Hands, GP!Read, T!Read, GP!ReadUnplaced,
      T!ReadUnplaced, GP!Suspend, T!Suspend, GP!ResumeRun, T!ResumeRun, GP!End, T!End,
      GP!ProcessEnds, T!ProcessEnds, GP!AppendMessage, T!AppendMessage, GP!Select, T!Select,
      GP!Exchanges, T!Exchanges, GP!Stays, T!Stays, GP!FoldEnd, T!FoldEnd, GP!Blocked, T!Blocked,
      GP!FoldStop, T!FoldStop, GP!Splits, T!Splits, GP!Folded, T!Folded, GP!Plan, T!Plan,
      GP!Summarise, T!Summarise, GP!ClearNote, T!ClearNote, GP!MemoryNext, T!MemoryNext,
      GP!Cardinality, T!Cardinality, GP!Max, T!Max, GP!Min, T!Min

LEMMA TalkSame ==
  /\ GP!MemoryTypeOK => T!MemoryTypeOK
  /\ GP!NoteIsAccounted => T!NoteIsAccounted
  /\ GP!HandsOutNothingExcluded => T!HandsOutNothingExcluded
<1>1. GP!MemoryTypeOK => T!MemoryTypeOK
  BY Zenon DEF GP!Atoms, T!Atoms, GP!MemoryTypeOK, T!MemoryTypeOK, GP!Cardinality, T!Cardinality
<1>2. GP!NoteIsAccounted => T!NoteIsAccounted
  BY Zenon DEF GP!Atoms, T!Atoms, GP!Answers, T!Answers, GP!Key, T!Key, GP!Derives, T!Derives,
      GP!NoteIsAccounted, T!NoteIsAccounted
<1>3. GP!HandsOutNothingExcluded => T!HandsOutNothingExcluded
  BY Zenon DEF GP!Excluded, T!Excluded, GP!HandsOutNothingExcluded, T!HandsOutNothingExcluded
<1>4. QED BY <1>1, <1>2, <1>3

LEMMA MixedBounded == GA!MemoryAssumption
<1>1. M!MemoryAssumption => GA!MemoryAssumption
  BY Zenon DEF GA!MemoryAssumption, M!MemoryAssumption
<1>2. QED BY <1>1, InstancesAreBounded

LEMMA MixedSteps == M!MemoryNext => GA!MemoryNext
  BY Zenon DEF GA!Atoms, M!Atoms, GA!Leaves, M!Leaves, GA!Excluded, M!Excluded, GA!Walled,
      M!Walled, GA!Touched, M!Touched, GA!NoGiven, M!NoGiven, GA!NoRunYet, M!NoRunYet,
      GA!Answers, M!Answers, GA!Key, M!Key, GA!Question, M!Question, GA!Derives, M!Derives,
      GA!Known, M!Known, GA!Carried, M!Carried, GA!Clears, M!Clears, GA!IsClear, M!IsClear,
      GA!Withheld, M!Withheld, GA!NoteShown, M!NoteShown, GA!Candidates, M!Candidates, GA!Newest,
      M!Newest, GA!Supplied, M!Supplied, GA!Start, M!Start, GA!Assemble, M!Assemble, GA!Sent,
      M!Sent, GA!Send, M!Send, GA!Hands, M!Hands, GA!Read, M!Read, GA!ReadUnplaced,
      M!ReadUnplaced, GA!Suspend, M!Suspend, GA!ResumeRun, M!ResumeRun, GA!End, M!End,
      GA!ProcessEnds, M!ProcessEnds, GA!AppendMessage, M!AppendMessage, GA!Select, M!Select,
      GA!Exchanges, M!Exchanges, GA!Stays, M!Stays, GA!FoldEnd, M!FoldEnd, GA!Blocked, M!Blocked,
      GA!FoldStop, M!FoldStop, GA!Splits, M!Splits, GA!Folded, M!Folded, GA!Plan, M!Plan,
      GA!Summarise, M!Summarise, GA!ClearNote, M!ClearNote, GA!MemoryNext, M!MemoryNext,
      GA!Cardinality, M!Cardinality, GA!Max, M!Max, GA!Min, M!Min

LEMMA MixedSame ==
  /\ GA!MemoryTypeOK => M!MemoryTypeOK
  /\ GA!NoteIsAccounted => M!NoteIsAccounted
  /\ GA!HandsOutNothingExcluded => M!HandsOutNothingExcluded
<1>1. GA!MemoryTypeOK => M!MemoryTypeOK
  BY Zenon DEF GA!Atoms, M!Atoms, GA!MemoryTypeOK, M!MemoryTypeOK, GA!Cardinality, M!Cardinality
<1>2. GA!NoteIsAccounted => M!NoteIsAccounted
  BY Zenon DEF GA!Atoms, M!Atoms, GA!Answers, M!Answers, GA!Key, M!Key, GA!Derives, M!Derives,
      GA!NoteIsAccounted, M!NoteIsAccounted
<1>3. GA!HandsOutNothingExcluded => M!HandsOutNothingExcluded
  BY Zenon DEF GA!Excluded, M!Excluded, GA!HandsOutNothingExcluded, M!HandsOutNothingExcluded
<1>4. QED BY <1>1, <1>2, <1>3

(* The CVs. *)
LEMMA CvsBounded == GP!CvAssumption
<1>1. C!CvAssumption => GP!CvAssumption
  BY Zenon DEF GP!CvAssumption, C!CvAssumption
<1>2. QED BY <1>1, InstancesAreBounded

LEMMA CvsFirst == C!CvInit => GP!CvInit
  BY Zenon DEF GP!NoOp, C!NoOp, GP!NoCvRun, C!NoCvRun, GP!NoProposal, C!NoProposal, GP!CvInit,
      C!CvInit

LEMMA CvsSteps == C!CvNext => GP!CvNext
  BY Zenon DEF GP!NoOp, C!NoOp, GP!NoCvRun, C!NoCvRun, GP!Refusal, C!Refusal, GP!Done, C!Done,
      GP!Writes, C!Writes, GP!Refuses, C!Refuses, GP!Guards, C!Guards, GP!Ask, C!Ask, GP!Replies,
      C!Replies, GP!Settled, C!Settled, GP!Receipt, C!Receipt, GP!Settles, C!Settles,
      GP!Replayed, C!Replayed, GP!Invalidates, C!Invalidates, GP!LegacyRunUnderWay,
      C!LegacyRunUnderWay, GP!Clear, C!Clear, GP!ClearRefused, C!ClearRefused, GP!Replace,
      C!Replace, GP!ReplaceRefused, C!ReplaceRefused, GP!AssignLanguage, C!AssignLanguage,
      GP!Copy, C!Copy, GP!CopyRefused, C!CopyRefused, GP!CvRunStarts, C!CvRunStarts,
      GP!EditReads, C!EditReads, GP!CvRunSuspends, C!CvRunSuspends, GP!CvRunResumes,
      C!CvRunResumes, GP!CvRunFails, C!CvRunFails, GP!ImportWrites, C!ImportWrites, GP!Proposes,
      C!Proposes, GP!Accept, C!Accept, GP!Discard, C!Discard, GP!CvNext, C!CvNext

LEMMA CvsSame ==
  /\ GP!CvTypeOK => C!CvTypeOK
  /\ GP!RepliesAgree => C!RepliesAgree
  /\ GP!ClearedStaysCleared => C!ClearedStaysCleared
  /\ GP!RepeatsTheAnswer => C!RepeatsTheAnswer
<1>1. GP!CvTypeOK => C!CvTypeOK
  BY Zenon DEF GP!CvTypeOK, C!CvTypeOK
<1>2. GP!RepliesAgree => C!RepliesAgree
  BY Zenon DEF GP!RepliesAgree, C!RepliesAgree
<1>3. GP!ClearedStaysCleared => C!ClearedStaysCleared
  BY Zenon DEF GP!ClearedStaysCleared, C!ClearedStaysCleared
<1>4. GP!RepeatsTheAnswer => C!RepeatsTheAnswer
  BY Zenon DEF GP!Settled, C!Settled, GP!RepeatsTheAnswer, C!RepeatsTheAnswer
<1>5. QED BY <1>1, <1>2, <1>3, <1>4

-----------------------------------------------------------------------------
(* An entry that was prepared, and a conversation with its answer, are states  *)
(* a step of theirs leads to.                                               *)
LEMMA PreparedHolds ==
  ASSUME Prepared
  PROVE  GA!BoardInv
<1>1. A!Step = GA!Step
  BY Zenon DEF GA!Steps, A!Steps, GA!Step, A!Step, GA!ToSet, A!ToSet
<1>2. A!Asks = {"analyze", "summary"} /\ GA!Asks = {"analyze", "summary"}
  BY DEF A!Asks, GA!Asks
<1>3. /\ entry = "kept" /\ stat = "ready" /\ gen = 1 /\ done = GA!Step
      /\ attempts = [s \in GA!Step |-> 1]
      /\ known = [s \in {"analyze", "summary"} |-> [of |-> 1, ok |-> TRUE]]
      /\ posting = 1 /\ cv = [id |-> 2, reason |-> "tailored", of |-> 1]
      /\ cvs = 2 /\ analysis = 1 /\ proc = A!NoProc /\ open = 0
  BY <1>1, <1>2 DEF Prepared
<1>4. tongue \in BOOLEAN /\ alive \in BOOLEAN /\ alive
  BY Zenon DEF Prepared
<1>5. proc = [on |-> FALSE, gen |-> 0, step |-> "none", wait |-> FALSE, cv |-> 0, aborted |-> FALSE]
  BY <1>3 DEF A!NoProc
<1>6. GA!BoardTypeOK
  <2>1. attempts \in [GA!Step -> 0..1] /\ known \in [GA!Asks -> [of : 0..1, ok : BOOLEAN]]
    BY <1>2, <1>3
  <2>2. cv \in [id : 0..3, reason : {"none", "profile", "tailored", "manual"}, of : 0..1]
    BY <1>3
  <2>3. QED BY <1>3, <1>4, <2>1, <2>2 DEF GA!BoardTypeOK, GA!Statuses
<1>7. GA!ProcTypes
  BY <1>5 DEF GA!ProcTypes
<1>8. GA!RunsAreCurrent
  BY <1>2, <1>3, GA!StepsAre DEF GA!RunsAreCurrent
<1>9. GA!WorkIsOfTheEntry
  BY <1>3, <1>5, GA!StepsAre DEF GA!WorkIsOfTheEntry, GA!Works
<1>10. QED BY <1>6, <1>7, <1>8, <1>9 DEF GA!BoardInv

LEMMA AnsweredTalks ==
  ASSUME Answered
  PROVE  GP!MemoryInv
<1>1. T!NoRunYet = GP!NoRunYet
  BY Zenon DEF GP!NoRunYet, T!NoRunYet, GP!NoGiven, T!NoGiven
<1>2. GP!AnsweredOnce(r1, {x})
  BY <1>1, Zenon DEF Answered, GP!AnsweredOnce
<1>3. QED BY <1>2, TalkBounded, GP!AnsweredHolds

LEMMA AnsweredMixed ==
  ASSUME Answered
  PROVE  GA!MemoryInv
<1>1. T!NoRunYet = GA!NoRunYet
  BY Zenon DEF GA!NoRunYet, T!NoRunYet, GA!NoGiven, T!NoGiven
<1>2. GA!AnsweredOnce(r1, {x})
  BY <1>1, Zenon DEF Answered, GA!AnsweredOnce
<1>3. QED BY <1>2, MixedBounded, GA!AnsweredHolds

-----------------------------------------------------------------------------
(* Whatever is worked on keeps the invariant of its part.                   *)
WorkInv ==
  /\ focus = "board" => GP!BoardInv
  /\ focus = "agent" => GA!BoardInv /\ GA!AgentInv
  /\ focus = "talk" => GP!MemoryInv
  /\ focus = "mixed" => GA!MemoryInv
  /\ focus = "cvs" => GP!CvInv

Silent ==
  /\ focus = "board" => P!OldWorkWritesNothing
  /\ focus = "agent" => A!OldWorkWritesNothing /\ A!ActsOnWhatItSees
  /\ focus = "cvs" => C!RepeatsTheAnswer
Walls ==
  /\ focus = "talk" => T!HandsOutNothingExcluded
  /\ focus = "mixed" => M!HandsOutNothingExcluded

LEMMA WorkBegins == WorkspaceInit => WorkInv
<1> SUFFICES ASSUME WorkspaceInit PROVE WorkInv
  OBVIOUS
<1>1. /\ focus = "agent" => Prepared
      /\ focus # "agent" => P!BoardInit
      /\ A!AgentInit /\ Answered /\ C!CvInit
  BY Zenon DEF WorkspaceInit
<1>2. focus = "board" => GP!BoardInv
  BY <1>1, BoardFirst, BoardBounded, GP!BoardInvHolds
<1>3. focus = "agent" => GA!BoardInv
  BY <1>1, PreparedHolds
<1>4. GA!AgentInv
  BY <1>1, AgentFirst, AgentBounded, GA!AgentInvHolds
<1>5. GP!MemoryInv /\ GA!MemoryInv
  BY <1>1, AnsweredTalks, AnsweredMixed
<1>6. GP!CvInv
  BY <1>1, CvsFirst, CvsBounded, GP!CvInvHolds
<1>7. QED BY <1>2, <1>3, <1>4, <1>5, <1>6 DEF WorkInv

LEMMA WorkGoesOn == WorkInv /\ [WorkspaceNext]_workspaceVars => WorkInv' /\ Silent /\ Walls
<1> SUFFICES ASSUME WorkInv, [WorkspaceNext]_workspaceVars PROVE WorkInv' /\ Silent /\ Walls
  OBVIOUS
<1>0. focus' = focus
  BY DEF WorkspaceNext, workspaceVars
<1>1. CASE focus = "board"
  <2>1. GP!BoardInv
    BY <1>1 DEF WorkInv
  <2>2. P!BoardNext \/ P!BoardCrash \/ P!BoardRestart \/ UNCHANGED GP!boardEntryVars
    BY <1>1 DEF WorkspaceNext, workspaceVars, boardVars, GP!boardEntryVars, GP!prepVars
  <2>3. [GP!BoardNext \/ GP!BoardCrash \/ GP!BoardRestart]_GP!boardEntryVars
    BY <2>2, BoardSteps
  <2>4. GP!BoardInv' /\ GP!OldWorkWritesNothing
    BY <2>1, <2>3, BoardBounded, GP!BoardStepHolds, GP!OldWorkStep
  <2>5. P!OldWorkWritesNothing
    BY <2>4, BoardSame
  <2>6. QED BY <1>0, <1>1, <2>4, <2>5 DEF WorkInv, Silent, Walls
<1>2. CASE focus = "agent"
  <2>1. GA!BoardInv /\ GA!AgentInv /\ GA!AgentBounds /\ GA!BoardAssumption
    BY <1>2, AgentBounded DEF WorkInv, GA!AgentBounds
  <2>2. A!AgentNext \/ UNCHANGED <<GA!boardEntryVars, GA!agentVars>>
    BY <1>2 DEF WorkspaceNext, workspaceVars, boardVars, agentVars, GA!boardEntryVars, GA!prepVars,
                GA!agentVars
  <2>3. [GA!AgentNext]_<<GA!boardEntryVars, GA!agentVars>>
    BY <2>2, AgentSteps
  <2>4. GA!BoardInv' /\ GA!AgentInv' /\ GA!ActsOnWhatItSees
    BY <2>1, <2>3, GA!AgentNextHolds, GA!ActsStep
  <2>5. GA!OldWorkWritesNothing
    BY <2>1, <2>3, GA!BoardBeside, GA!OldWorkStep
  <2>6. A!OldWorkWritesNothing /\ A!ActsOnWhatItSees
    BY <2>4, <2>5, AgentSame
  <2>7. QED BY <1>0, <1>2, <2>4, <2>6 DEF WorkInv, Silent, Walls
<1>3. CASE focus = "talk"
  <2>1. GP!MemoryInv
    BY <1>3 DEF WorkInv
  <2>2. T!MemoryNext \/ UNCHANGED GP!memoryVars
    BY <1>3 DEF WorkspaceNext, workspaceVars, talkVars, GP!memoryVars
  <2>3. GP!MemoryInv' /\ GP!HandsOutNothingExcluded
    BY <2>1, <2>2, TalkSteps, TalkBounded, GP!MemoryHolds, GP!MemoryStays
  <2>4. T!HandsOutNothingExcluded
    BY <2>3, TalkSame
  <2>5. QED BY <1>0, <1>3, <2>3, <2>4 DEF WorkInv, Silent, Walls
<1>4. CASE focus = "mixed"
  <2>1. GA!MemoryInv
    BY <1>4 DEF WorkInv
  <2>2. M!MemoryNext \/ UNCHANGED GA!memoryVars
    BY <1>4 DEF WorkspaceNext, workspaceVars, talkVars, GA!memoryVars
  <2>3. GA!MemoryInv' /\ GA!HandsOutNothingExcluded
    BY <2>1, <2>2, MixedSteps, MixedBounded, GA!MemoryHolds, GA!MemoryStays
  <2>4. M!HandsOutNothingExcluded
    BY <2>3, MixedSame
  <2>5. QED BY <1>0, <1>4, <2>3, <2>4 DEF WorkInv, Silent, Walls
<1>5. CASE focus = "cvs"
  <2>1. GP!CvInv
    BY <1>5 DEF WorkInv
  <2>2. C!CvNext \/ UNCHANGED GP!cvVars
    BY <1>5 DEF WorkspaceNext, workspaceVars, cvVars, GP!cvVars
  <2>3. GP!CvInv' /\ GP!RepeatsTheAnswer
    BY <2>1, <2>2, CvsSteps, CvsBounded, GP!CvStepHolds
  <2>4. C!RepeatsTheAnswer
    BY <2>3, CvsSame
  <2>5. QED BY <1>0, <1>5, <2>3, <2>4 DEF WorkInv, Silent, Walls
<1>6. CASE focus \notin {"board", "agent", "talk", "mixed", "cvs"}
  BY <1>0, <1>6 DEF WorkInv, Silent, Walls
<1>7. QED BY <1>1, <1>2, <1>3, <1>4, <1>5, <1>6

LEMMA WorkShows == WorkInv => WorkIsAccounted
<1> SUFFICES ASSUME WorkInv PROVE WorkIsAccounted
  OBVIOUS
<1>1. focus = "board" => P!BoardTypeOK /\ P!CompleteIsCurrent
  BY BoardSame, GP!CompleteHolds DEF WorkInv
<1>2. focus = "agent" => A!BoardTypeOK /\ A!AgentTypeOK /\ A!CompleteIsCurrent /\ A!OneDraft
  BY AgentSame, GA!CompleteHolds, GA!OneDraftHolds DEF WorkInv
<1>3. focus = "talk" => T!MemoryTypeOK /\ T!NoteIsAccounted
  BY TalkSame, GP!MemoryShows DEF WorkInv
<1>4. focus = "mixed" => M!MemoryTypeOK /\ M!NoteIsAccounted
  BY MixedSame, GA!MemoryShows DEF WorkInv
<1>5. focus = "cvs" => C!CvTypeOK /\ C!RepliesAgree /\ C!ClearedStaysCleared
  BY CvsSame, CvsBounded, GP!CvShows DEF WorkInv
<1>6. QED BY <1>1, <1>2, <1>3, <1>4, <1>5 DEF WorkIsAccounted

LEMMA WorkIsKept == WorkspaceSpec => []WorkInv
<1>1. WorkInv /\ [WorkspaceNext]_workspaceVars => WorkInv'
  BY WorkGoesOn
<1>2. QED BY <1>1, WorkBegins, PTL DEF WorkspaceSpec

(* Of an entry of the board, its agent, a conversation and the CVs, what the *)
(* run checks: a step that reads complete is of what the entry holds, no two  *)
(* drafts work for a session, a note is of the answers it names, and no CV    *)
(* holds text from before it was cleared (runtime/board.ts, compaction.ts,    *)
(* cv-lifecycle.ts).                                                         *)
THEOREM EverythingIsAccounted == WorkspaceSpec => []WorkIsAccounted
BY WorkIsKept, WorkShows, PTL

(* The preparation of an older generation and the draft of an older session   *)
(* write nothing, and what was carried out is answered as it was (process of  *)
(* runtime/board.ts, observe of application-agent.ts, the receipts of         *)
(* cv-lifecycle.ts).                                                         *)
THEOREM OldIsSilent == WorkspaceSpec => SupersededIsSilent
<1>1. WorkInv /\ [WorkspaceNext]_workspaceVars => [Silent]_workspaceVars
  BY WorkGoesOn
<1>2. QED BY <1>1, WorkIsKept, PTL DEF WorkspaceSpec, SupersededIsSilent, Silent

(* No text a conversation is handed to a run or a fold with derives from what *)
(* is excluded by then (supply of runtime/history.ts, plan of compaction.ts). *)
THEOREM WallsHold == WorkspaceSpec => NothingExcludedIsHandedOut
<1>1. WorkInv /\ [WorkspaceNext]_workspaceVars => [Walls]_workspaceVars
  BY WorkGoesOn
<1>2. QED BY <1>1, WorkIsKept, PTL DEF WorkspaceSpec, NothingExcludedIsHandedOut, Walls
=============================================================================
