------------------------------- MODULE Upgrade -------------------------------
(***************************************************************************)
(* Opening the database: storage/sqlite/migrate.ts and backup.ts.  The file *)
(* is at some schema version and holds what was written to it since; a     *)
(* build that starts on it understands the versions up to its head.  Before *)
(* its first migration it sets the file aside under the version's name,    *)
(* written under another name and moved into place, and prunes the older   *)
(* backups.  Builds of every head start one after the other on the file,   *)
(* each may be killed anywhere, a copy may fail, and the person may put a  *)
(* backup back in the file's place.                                        *)
(***************************************************************************)
EXTENDS Naturals, FiniteSets

CONSTANTS
    MaxVersion,         \* the newest schema version there is
    Heads,              \* the schema versions the builds that are started understand
    BackupsKept,        \* BACKUPS_KEPT
    MaxWrites,          \* bound: what builds that are up write to the file
    MaxPutBack          \* bound: how often a backup is put back

UpgradeAssumption ==
    /\ MaxVersion \in Nat /\ Heads \subseteq 1..MaxVersion
    /\ BackupsKept \in Nat \ {0} /\ MaxWrites \in Nat

VARIABLES
    file,               \* the database: its schema version and what was written to it
    beside,             \* the copies beside it: backups and partial ones, by version
    start,              \* the build that is starting or up: head, how far, and what it found
    putBack             \* how often a backup was put back

upgradeVars == <<file, beside, start, putBack>>

Versions == 0..MaxVersion
Names == (Versions \ {0}) \X {"bak", "partial"}
NoFile == [version |-> 0, writes |-> 0, whole |-> FALSE]
Down == [head |-> 0, at |-> "down", found |-> NoFile, current |-> 0]
Files == [version : Versions, writes : 0..MaxWrites, whole : BOOLEAN]

UpgradeTypeOK ==
    /\ file \in Files /\ file.whole
    /\ beside \in [Names -> Files]
    /\ start \in [head : Heads \cup {0}, current : Versions, found : Files,
                  at : {"down", "backup", "copying", "moving", "pruning", "steps", "up"}]

UpgradeInit ==
    /\ file = [version |-> 0, writes |-> 0, whole |-> TRUE]
    /\ beside = [n \in Names |-> NoFile]
    /\ start = Down /\ putBack = 0

-----------------------------------------------------------------------------
(***************************************************************************)
(* migrate.  A file that is newer than every step is refused; one that has  *)
(* content and steps to take is backed up first.                           *)
(***************************************************************************)
Migrate(head) ==
    /\ start.at = "down" /\ file.version <= head
    /\ start' = [head |-> head, current |-> file.version, found |-> file,
                 at |-> IF file.version \in 1..(head - 1) THEN "backup" ELSE "steps"]
    /\ UNCHANGED <<file, beside, putBack>>

Bak == <<start.current, "bak">>
SlipCopiesInPlace == <<start.current, "bak">>

Partial == <<start.current, "partial">>

\* backUp.  What a killed process left under the partial name goes first.
CopyBegins ==
    /\ start.at = "backup"
    /\ beside' = [beside EXCEPT ![Partial] = [file EXCEPT !.whole = FALSE]]
    /\ start' = [start EXCEPT !.at = "copying"]
    /\ UNCHANGED <<file, putBack>>

CopyEnds ==
    /\ start.at = "copying"
    /\ beside' = [beside EXCEPT ![Partial] = file]
    /\ start' = [start EXCEPT !.at = "moving"]
    /\ UNCHANGED <<file, putBack>>

\* db_backup_failed stops the upgrade before it starts.
BackupFails ==
    /\ start.at \in {"copying", "moving"}
    /\ beside' = [beside EXCEPT ![Partial] = NoFile]
    /\ start' = Down
    /\ UNCHANGED <<file, putBack>>

Rename ==
    /\ start.at = "moving"
    /\ beside' = [beside EXCEPT ![Bak] = beside[Partial], ![Partial] = NoFile]
    /\ start' = [start EXCEPT !.at = "pruning"]
    /\ UNCHANGED <<file, putBack>>

\* backupsOf: the versions set aside.
BackupsOf == {v \in Versions \ {0} : beside[<<v, "bak">>] # NoFile}
Newest(n, vs) == {v \in vs : Cardinality({w \in vs : w > v}) < n}

\* The backups beyond the number kept: the one just made is never among them.
Beyond(made) ==
    LET others == BackupsOf \ {made}
    IN others \ Newest(BackupsKept - 1, others)

\* A failure here is not worth stopping for.
Prune(fails) ==
    /\ start.at = "pruning"
    /\ beside' = [n \in Names |->
                    IF ~fails /\ n \in Beyond(start.current) \X {"bak"} THEN NoFile
                    ELSE beside[n]]
    /\ start' = [start EXCEPT !.at = "steps"]
    /\ UNCHANGED <<file, putBack>>

\* One migration in a transaction of its own: it is there whole, or rolled back.
MigrationStep ==
    /\ start.at = "steps" /\ start.current < start.head
    /\ file' = [file EXCEPT !.version = start.current + 1]
    /\ start' = [start EXCEPT !.current = start.current + 1]
    /\ UNCHANGED <<beside, putBack>>

StepFails ==
    /\ start.at = "steps" /\ start.current < start.head
    /\ start' = Down
    /\ UNCHANGED <<file, beside, putBack>>

Ready ==
    /\ start.at = "steps" /\ start.current = start.head
    /\ start' = [start EXCEPT !.at = "up"]
    /\ UNCHANGED <<file, beside, putBack>>

-----------------------------------------------------------------------------
(* What goes on around it. *)
Write ==
    /\ start.at = "up" /\ file.writes < MaxWrites
    /\ file' = [file EXCEPT !.writes = @ + 1]
    /\ UNCHANGED <<beside, start, putBack>>

Killed == start.at # "down" /\ start' = Down /\ UNCHANGED <<file, beside, putBack>>

\* The person moves a backup into the database's place.
PutBack(v) ==
    /\ start.at = "down" /\ putBack < MaxPutBack /\ v \in BackupsOf
    /\ file' = beside[<<v, "bak">>]
    /\ beside' = [beside EXCEPT ![<<v, "bak">>] = NoFile]
    /\ putBack' = putBack + 1
    /\ UNCHANGED start

UpgradeNext ==
    \/ \E head \in Heads : Migrate(head)
    \/ CopyBegins \/ CopyEnds \/ BackupFails \/ Rename
    \/ \E fails \in BOOLEAN : Prune(fails)
    \/ MigrationStep \/ StepFails \/ Ready \/ Write \/ Killed
    \/ \E v \in Versions \ {0} : PutBack(v)

UpgradeSpec == UpgradeInit /\ [][UpgradeNext]_upgradeVars

-----------------------------------------------------------------------------
\* A copy under a backup's name is whole, and the schema in it is the one its name
\* says, so that a process killed half way through an upgrade leaves nothing that
\* looks like a backup and is not one.
BackupsAreWhatTheySay ==
    \A v \in BackupsOf : LET b == beside[<<v, "bak">>] IN b.whole /\ b.version = v

\* While a build is changing a file that had content, or is up on one it changed, the
\* file as the build found it is set aside beside it, with everything written to it.
UpgradesCanBeUndone ==
    LET found == start.found
    IN start.at \in {"steps", "up"} /\ found.version > 0 /\ start.current > found.version
         => beside[<<found.version, "bak">>] = found
=============================================================================
