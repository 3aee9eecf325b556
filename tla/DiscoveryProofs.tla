---------------------------- MODULE DiscoveryProofs ----------------------------
(***************************************************************************)
(* What holds of the reads and the analyses of offers for every number of  *)
(* offers and every limit, whoever asks, stops, aborts, imports and        *)
(* restarts; and, at the end, of the run that has the sessions beside      *)
(* them.                                                                   *)
(*                                                                         *)
(* The queue is kept three times, in the rows, in the line and in what     *)
(* waits for a read: the invariant says how each tells the others.         *)
(***************************************************************************)
EXTENDS MCDiscovery, FiniteSetTheorems, SequenceTheorems, TLAPS

-----------------------------------------------------------------------------
(* A line holds each of the offers of Z once, and no other. *)
Lined(l, Z) ==
  /\ l \in Seq(Offers)
  /\ \A i, j \in 1 .. Len(l) : l[i] = l[j] => i = j
  /\ \A i \in 1 .. Len(l) : l[i] \in Z
  /\ \A o \in Z : \E i \in 1 .. Len(l) : l[i] = o

LEMMA LinedIs ==
  ASSUME NEW l, NEW Z, Lined(l, Z)
  PROVE  Z = ToSet(l) /\ Z \subseteq Offers /\ l \in Seq(Offers) /\ (l = <<>> <=> Z = {})
<1>1. DOMAIN l = 1 .. Len(l)
  BY DEF Lined
<1>2. Z = ToSet(l)
  BY <1>1 DEF Lined, ToSet
<1>3. l = <<>> <=> Z = {}
  <2>1. Len(l) \in Nat /\ (l = <<>> <=> Len(l) = 0)
    BY EmptySeq DEF Lined
  <2>2. Len(l) > 0 => l[1] \in Z
    BY <2>1 DEF Lined
  <2>3. QED BY <2>1, <2>2 DEF Lined
<1>4. QED BY <1>2, <1>3 DEF Lined

LEMMA LinedNone == Lined(<<>>, {})
BY DEF Lined

LEMMA LinedMore ==
  ASSUME NEW l, NEW Z, Lined(l, Z), NEW o \in Offers, o \notin Z
  PROVE  Lined(Append(l, o), Z \cup {o})
<1>1. /\ l \in Seq(Offers) /\ Len(l) \in Nat
      /\ Append(l, o) \in Seq(Offers) /\ Len(Append(l, o)) = Len(l) + 1
      /\ \A i \in 1 .. Len(l) : Append(l, o)[i] = l[i]
      /\ Append(l, o)[Len(l) + 1] = o
  BY AppendProperties DEF Lined
<1>2. \A i \in 1 .. Len(l) : l[i] # o
  BY DEF Lined
<1>3. \A i \in 1 .. Len(Append(l, o)) : i \in 1 .. Len(l) \/ i = Len(l) + 1
  BY <1>1
<1>4. 1 .. Len(l) \subseteq 1 .. Len(Append(l, o)) /\ Len(l) + 1 \in 1 .. Len(Append(l, o))
  BY <1>1
<1> HIDE DEF Lined
<1>5. QED BY <1>1, <1>2, <1>3, <1>4 DEF Lined

(* The first of a line, and the rest. *)
LEMMA LinedRest ==
  ASSUME NEW l, NEW Z, Lined(l, Z), l # <<>>
  PROVE  Head(l) \in Z /\ Lined(Tail(l), Z \ {Head(l)})
<1>1. /\ l \in Seq(Offers) /\ Len(l) \in Nat /\ Len(l) > 0
      /\ Tail(l) \in Seq(Offers) /\ Len(Tail(l)) = Len(l) - 1 /\ Head(l) = l[1]
      /\ \A i \in 1 .. Len(Tail(l)) : Tail(l)[i] = l[i + 1]
  BY HeadTailProperties DEF Lined
<1>2. 1 \in 1 .. Len(l) /\ \A i \in 1 .. Len(Tail(l)) : i + 1 \in 1 .. Len(l) /\ i + 1 # 1 /\ i \in Nat
  BY <1>1
<1>3. Head(l) \in Z
  BY <1>1, <1>2 DEF Lined
<1>4. \A i, j \in 1 .. Len(Tail(l)) : Tail(l)[i] = Tail(l)[j] => i = j
  <2> SUFFICES ASSUME NEW i \in 1 .. Len(Tail(l)), NEW j \in 1 .. Len(Tail(l)), Tail(l)[i] = Tail(l)[j]
               PROVE  i = j
    OBVIOUS
  <2>1. i + 1 = j + 1
    BY <1>1, <1>2 DEF Lined
  <2>2. QED BY <1>2, <2>1
<1>5. \A i \in 1 .. Len(Tail(l)) : Tail(l)[i] \in Z \ {Head(l)}
  BY <1>1, <1>2 DEF Lined
<1>6. \A o \in Z \ {Head(l)} : \E i \in 1 .. Len(Tail(l)) : Tail(l)[i] = o
  <2> TAKE o \in Z \ {Head(l)}
  <2>1. PICK k \in 1 .. Len(l) : l[k] = o
    BY DEF Lined
  <2>2. k - 1 \in 1 .. Len(Tail(l)) /\ (k - 1) + 1 = k
    BY <1>1, <2>1
  <2>3. QED BY <1>1, <2>1, <2>2
<1>7. QED BY <1>1, <1>3, <1>4, <1>5, <1>6 DEF Lined

(* Two lines of different offers, one behind the other. *)
LEMMA LinedBoth ==
  ASSUME NEW l, NEW Z, Lined(l, Z), NEW m, NEW Y, Lined(m, Y), Z \cap Y = {}
  PROVE  Lined(l \o m, Z \cup Y)
<1> DEFINE n == l \o m
<1>1. /\ l \in Seq(Offers) /\ m \in Seq(Offers) /\ Len(l) \in Nat /\ Len(m) \in Nat
      /\ n \in Seq(Offers) /\ Len(n) = Len(l) + Len(m)
      /\ \A i \in 1 .. Len(n) : n[i] = IF i <= Len(l) THEN l[i] ELSE m[i - Len(l)]
  BY ConcatProperties DEF Lined
<1> HIDE DEF n
<1>2. \A i \in 1 .. Len(n) : \/ i \in 1 .. Len(l) /\ n[i] = l[i]
                             \/ i - Len(l) \in 1 .. Len(m) /\ n[i] = m[i - Len(l)]
  BY <1>1
<1>3. /\ \A i \in 1 .. Len(l) : i \in 1 .. Len(n) /\ n[i] = l[i]
      /\ \A i \in 1 .. Len(m) : i + Len(l) \in 1 .. Len(n) /\ n[i + Len(l)] = m[i]
  <2>1. \A i \in 1 .. Len(m) : (i + Len(l)) - Len(l) = i /\ ~(i + Len(l) <= Len(l)) /\ i + Len(l) \in 1 .. Len(n)
    BY <1>1
  <2>2. \A i \in 1 .. Len(l) : i \in 1 .. Len(n) /\ i <= Len(l)
    BY <1>1
  <2>3. QED BY <1>1, <2>1, <2>2
<1>4. \A i, j \in 1 .. Len(n) : n[i] = n[j] => i = j
  <2> SUFFICES ASSUME NEW i \in 1 .. Len(n), NEW j \in 1 .. Len(n), n[i] = n[j] PROVE i = j
    OBVIOUS
  <2>1. CASE i \in 1 .. Len(l) /\ n[i] = l[i] /\ j \in 1 .. Len(l) /\ n[j] = l[j]
    BY <2>1 DEF Lined
  <2>2. CASE i - Len(l) \in 1 .. Len(m) /\ n[i] = m[i - Len(l)] /\ j - Len(l) \in 1 .. Len(m) /\ n[j] = m[j - Len(l)]
    <3>1. i - Len(l) = j - Len(l)
      BY <2>2 DEF Lined
    <3>2. QED BY <1>1, <3>1
  <2>3. CASE i \in 1 .. Len(l) /\ n[i] = l[i] /\ j - Len(l) \in 1 .. Len(m) /\ n[j] = m[j - Len(l)]
    BY <2>3 DEF Lined
  <2>4. CASE j \in 1 .. Len(l) /\ n[j] = l[j] /\ i - Len(l) \in 1 .. Len(m) /\ n[i] = m[i - Len(l)]
    BY <2>4 DEF Lined
  <2>5. QED BY <1>2, <2>1, <2>2, <2>3, <2>4
<1>5. \A i \in 1 .. Len(n) : n[i] \in Z \cup Y
  BY <1>2 DEF Lined
<1>6. \A o \in Z \cup Y : \E i \in 1 .. Len(n) : n[i] = o
  <2> TAKE o \in Z \cup Y
  <2>1. CASE o \in Z
    BY <1>3, <2>1 DEF Lined
  <2>2. CASE o \in Y
    BY <1>3, <2>2 DEF Lined
  <2>3. QED BY <2>1, <2>2
<1>7. QED BY <1>1, <1>4, <1>5, <1>6 DEF Lined, n

(* Some line of a set (SetToSeq). *)
LEMMA LinedSet ==
  ASSUME NEW Z, Z \subseteq Offers, IsFiniteSet(Z)
  PROVE  Lined(SetToSeq(Z), Z)
<1> DEFINE n == Cardinality(Z)
           f == SetToSeq(Z)
<1>1. n \in Nat /\ ExistsBijection(1 .. n, Z)
  BY FS_CardinalityType
<1>2. \E g \in [1 .. n -> Z] : IsInjective(g)
  BY <1>1 DEF ExistsBijection, Bijection, Injection
<1>3. f \in [1 .. n -> Z] /\ IsInjective(f)
  BY <1>2 DEF SetToSeq
<1>4. f \in Surjection(1 .. n, Z)
  <2>1. f \in Injection(1 .. n, Z)
    BY <1>3 DEF Injection
  <2>2. IsFiniteSet(1 .. n) /\ Cardinality(1 .. n) = n
    <3>1. 1 \in Int /\ n \in Int /\ (IF 1 > n THEN 0 ELSE n - 1 + 1) = n
      BY <1>1
    <3>2. QED BY <3>1, FS_Interval
  <2>3. QED BY <2>1, <2>2, FS_Injection
<1> HIDE DEF f, n
<1>5. f \in Seq(Offers) /\ Len(f) = n /\ DOMAIN f = 1 .. n
  <2>1. f \in [1 .. n -> Offers]
    BY <1>3
  <2>2. QED BY <1>1, <2>1
<1>6. QED BY <1>3, <1>4, <1>5 DEF Lined, IsInjective, Surjection, f

(* A line without one of its offers. *)
LEMMA LinedWithout ==
  ASSUME NEW Z, Lined(line, Z), NEW o \in Offers
  PROVE  Lined(Without(o), Z \ {o})
<1>1. Z = Ready
  BY LinedIs DEF Ready
<1>2. CASE o \notin Z
  <2>1. Without(o) = line /\ Z \ {o} = Z
    BY <1>1, <1>2 DEF Without
  <2>2. QED BY <2>1
<1>3. CASE o \in Z
  <2> DEFINE k == CHOOSE i \in DOMAIN line : line[i] = o
             u == SubSeq(line, 1, k - 1)
             v == SubSeq(line, k + 1, Len(line))
             S1 == {line[i] : i \in 1 .. (k - 1)}
             S2 == {line[i] : i \in (k + 1) .. Len(line)}
  <2>1. k \in 1 .. Len(line) /\ line[k] = o /\ Len(line) \in Nat /\ line \in Seq(Offers)
    BY <1>3 DEF Lined
  <2>2. Without(o) = u \o v
    BY <1>1, <1>3 DEF Without, RemoveAt
  <2> HIDE DEF k
  <2>3. /\ u \in Seq(Offers) /\ Len(u) = k - 1
        /\ \A i \in 1 .. (k - 1) : u[i] = line[i]
    <3>1. /\ 1 \in Int /\ k - 1 \in Int /\ (k - 1) - 1 + 1 = k - 1
          /\ (IF 1 <= k - 1 THEN (k - 1) - 1 + 1 ELSE 0) = k - 1
          /\ \A i \in 1 .. (k - 1) : line[i] \in Offers /\ 1 + i - 1 = i
      BY <2>1
    <3>2. /\ u \in Seq(Offers) /\ Len(u) = k - 1
          /\ \A i \in 1 .. (k - 1) : u[i] = line[1 + i - 1]
      BY <3>1, SubSeqProperties
    <3>3. QED BY <3>1, <3>2
  <2>4. /\ v \in Seq(Offers) /\ Len(v) = Len(line) - k
        /\ \A i \in 1 .. (Len(line) - k) : v[i] = line[k + i]
    <3>1. /\ k + 1 \in Int /\ Len(line) \in Int /\ Len(line) - (k + 1) + 1 = Len(line) - k
          /\ (IF k + 1 <= Len(line) THEN Len(line) - (k + 1) + 1 ELSE 0) = Len(line) - k
          /\ \A i \in (k + 1) .. Len(line) : line[i] \in Offers
          /\ \A i \in 1 .. (Len(line) - k) : (k + 1) + i - 1 = k + i
      BY <2>1
    <3>2. /\ v \in Seq(Offers) /\ Len(v) = Len(line) - k
          /\ \A i \in 1 .. (Len(line) - k) : v[i] = line[(k + 1) + i - 1]
      BY <3>1, SubSeqProperties
    <3>3. QED BY <3>1, <3>2
  <2> HIDE DEF u, v
  <2>5. Lined(u, S1)
    <3>1. \A i \in 1 .. (k - 1) : i \in 1 .. Len(line)
      BY <2>1
    <3>2. \A i, j \in 1 .. (k - 1) : u[i] = u[j] => i = j
      BY <2>3, <3>1 DEF Lined
    <3>3. QED BY <2>3, <3>2 DEF Lined
  <2>6. Lined(v, S2)
    <3>1. \A i \in 1 .. (Len(line) - k) : k + i \in (k + 1) .. Len(line) /\ k + i \in 1 .. Len(line)
      BY <2>1
    <3>2. \A i, j \in 1 .. (Len(line) - k) : v[i] = v[j] => i = j
      <4> SUFFICES ASSUME NEW i \in 1 .. (Len(line) - k), NEW j \in 1 .. (Len(line) - k), v[i] = v[j]
                   PROVE  i = j
        OBVIOUS
      <4>1. k + i = k + j
        BY <2>4, <3>1 DEF Lined
      <4>2. QED BY <2>1, <4>1
    <3>3. \A p \in S2 : \E i \in 1 .. Len(v) : v[i] = p
      <4> TAKE p \in S2
      <4>1. PICK i \in (k + 1) .. Len(line) : line[i] = p
        OBVIOUS
      <4>2. i - k \in 1 .. (Len(line) - k) /\ k + (i - k) = i
        BY <2>1, <4>1
      <4>3. QED BY <2>4, <4>1, <4>2
    <3>4. \A i \in 1 .. Len(v) : v[i] \in S2
      BY <2>4, <3>1
    <3>5. QED BY <2>4, <3>2, <3>3, <3>4 DEF Lined
  <2>7. S1 \cap S2 = {} /\ S1 \cup S2 = Z \ {o}
    <3>1. \A i \in 1 .. (k - 1) : i \in 1 .. Len(line) /\ i # k
      BY <2>1
    <3>2. \A i \in (k + 1) .. Len(line) : i \in 1 .. Len(line) /\ i # k
      BY <2>1
    <3>3. \A i \in 1 .. (k - 1), j \in (k + 1) .. Len(line) : i # j
      BY <2>1
    <3>4. \A i \in 1 .. Len(line) : i = k \/ i \in 1 .. (k - 1) \/ i \in (k + 1) .. Len(line)
      BY <2>1
    <3>5. S1 \cap S2 = {}
      BY <3>1, <3>2, <3>3 DEF Lined
    <3>6. S1 \subseteq Z \ {o} /\ S2 \subseteq Z \ {o}
      BY <2>1, <3>1, <3>2 DEF Lined
    <3>7. Z \ {o} \subseteq S1 \cup S2
      BY <2>1, <3>4 DEF Lined
    <3>8. QED BY <3>5, <3>6, <3>7
  <2> HIDE DEF S1, S2
  <2>8. Lined(u \o v, S1 \cup S2)
    BY <2>5, <2>6, <2>7, LinedBoth
  <2>9. QED BY <2>2, <2>7, <2>8
<1>4. QED BY <1>2, <1>3

-----------------------------------------------------------------------------
(* Types, by the part of the state; that of the line is in RowsFit.        *)
QueueTypes ==
  /\ row \in [Offers -> Rows] /\ paused \in BOOLEAN /\ due \in BOOLEAN
  /\ spent \in 0..Budget /\ begun \in Nat /\ hidden \subseteq Offers /\ up \in BOOLEAN

ReadTypes ==
  /\ wants \in [Offers -> SUBSET Waiter] /\ late \subseteq Offers
  /\ detail \in [Offers -> {"none", "fetching", "succeeded", "failed", "cancelled"}]
  /\ text \in [Offers -> 0..MaxText] /\ fresh \in [Offers -> {"no", "read", "given"}]

WorkTypes ==
  /\ enr \in [Offers -> {"idle", "fetching", "analyzing", "succeeded", "failed", "cancelled"}]
  /\ work \in [Offers -> {"none", "fetching", "running", "aborted"}]
  /\ hashAt \in [Offers -> 0..MaxText] /\ ofText \in [Offers -> 0..MaxText]
  /\ ahash \in [Offers -> 0..MaxText] /\ stored \in [Offers -> 0..MaxText]

Types == QueueTypes /\ ReadTypes /\ WorkTypes

(* The queued rows. *)
Waits == {o \in Offers : row[o] = "queued"}

(* The line is the queued rows, each once; while the process runs the      *)
(* queue waits for the reads of the running rows.                          *)
RowsRun == up => \A o \in Offers : row[o] = "running" <=> "queue" \in wants[o]
RowsFit == Lined(line, Waits) /\ RowsRun

(* No more reads than there are slots, for the queue or for all.           *)
SlotsFit == Cardinality(Fetching) <= MaxFetches /\ Cardinality(Queued) <= Consumers

(* What is on record of an offer's text and analysis is what is under way; *)
(* a process that ended has nothing under way.                             *)
WorkFits ==
  /\ up => \A o \in Offers :
       /\ detail[o] = "fetching" => wants[o] # {}
       /\ enr[o] = "fetching" <=> "analysis" \in wants[o]
       /\ enr[o] = "fetching" <=> work[o] = "fetching"
       /\ work[o] = "running" => enr[o] = "analyzing"
  /\ ~up => \A o \in Offers : wants[o] = {} /\ work[o] = "none"

(* An analysis is given the text whose hash it took.                       *)
TextFits == hashAt = ofText /\ AnalysisIsOfText

DetailsInv == Types /\ RowsFit /\ SlotsFit /\ WorkFits /\ TextFits /\ QueueGoesOn /\ BudgetIsKept

(* Every step is one of the actions; stated once for what follows. *)
LEMMA Cases ==
  ASSUME NEW P, DetailsAssumption, [Next]_offerVars,
         \A o \in Offers : Enqueue(o) => P,
         \A o \in Offers : QueueCancel(o) => P,
         \A o \in Offers : ReadEnds(o) => P,
         \A o \in Offers : ReadFails(o) => P,
         \A o \in Offers : LateReturn(o) => P,
         \A o \in Offers, force \in BOOLEAN : DetailsStart(o, force) => P,
         \A o \in Offers : DetailsCancel(o) => P,
         \A o \in Offers : Age(o) => P,
         \A o \in Offers, force \in BOOLEAN, refresh \in BOOLEAN : AnalysisStart(o, force, refresh) => P,
         \A o \in Offers : AnalysisEnds(o) => P,
         \A o \in Offers : AnalysisCancel(o) => P,
         \A o \in Offers : AbortedSettles(o) => P,
         \A o \in Offers : Sighted(o) => P,
         \A o \in Offers : Hide(o) => P,
         PumpIdle => P,
         PumpDrops => P,
         Pump /\ PumpFresh(Head(line)) => P,
         Pump /\ PumpFull(Head(line)) => P,
         Pump /\ PumpReads(Head(line)) => P,
         Stop => P,
         Clear => P,
         \A on \in BOOLEAN : Pause(on) => P,
         Refetch => P,
         Crash => P,
         Close => P,
         Restart => P,
         UNCHANGED offerVars => P
  PROVE  P
BY DEF DetailsAssumption, Next, QueueStep, PersonStep, StudyStep, AnalysisAsked, Import, Sighted, Pump

(* Who waits for a read leaves it, or comes to it. *)
LEMMA ReleaseTypes ==
  ASSUME ReadTypes, NEW gone, Release(gone)
  PROVE  ReadTypes'
<1>1. wants' \in [Offers -> SUBSET Waiter]
  BY Zenon DEF ReadTypes, Release
<1>2. late' \subseteq Offers
  BY DEF ReadTypes, Release, Aborts, Fetching
<1>3. detail' \in [Offers -> {"none", "fetching", "succeeded", "failed", "cancelled"}]
  BY DEF ReadTypes, Release
<1>4. text' = text /\ fresh' = fresh
  BY DEF Release
<1>5. QED BY <1>1, <1>2, <1>3, <1>4 DEF ReadTypes

LEMMA ReadsTypes ==
  ASSUME ReadTypes, NEW o \in Offers, NEW w \in Waiter, Reads(o, w)
  PROVE  ReadTypes'
<1>1. wants' \in [Offers -> SUBSET Waiter]
  <2>1. wants[o] \cup {w} \in SUBSET Waiter
    BY DEF ReadTypes
  <2>2. wants' = [wants EXCEPT ![o] = wants[o] \cup {w}]
    BY DEF Reads
  <2>3. QED BY <2>1, <2>2 DEF ReadTypes
<1>2. detail' \in [Offers -> {"none", "fetching", "succeeded", "failed", "cancelled"}]
  BY DEF ReadTypes, Reads
<1>3. QED BY <1>1, <1>2 DEF ReadTypes, Reads

LEMMA HashTypes ==
  ASSUME ReadTypes', NEW o \in Offers, HashTaken(o),
         hashAt \in [Offers -> 0..MaxText], ofText \in [Offers -> 0..MaxText]
  PROVE  hashAt' \in [Offers -> 0..MaxText] /\ ofText' \in [Offers -> 0..MaxText]
<1>1. text'[o] \in 0..MaxText
  BY DEF ReadTypes
<1>2. QED BY <1>1 DEF HashTaken

(* Types of the queue. *)
LEMMA QueueTypeStep ==
  ASSUME DetailsAssumption, QueueTypes, [Next]_offerVars
  PROVE  QueueTypes'
<1> USE DEF DetailsAssumption, QueueTypes, Rows
<1>1. \A o \in Offers : Enqueue(o) => QueueTypes'  BY DEF Enqueue, SetRows, readVars, workVars
<1>2. \A o \in Offers : QueueCancel(o) => QueueTypes'
  BY DEF QueueCancel, SetRows, QueueLeaves, QueueGone, Release, Aborts, workVars
<1>3. \A o \in Offers : ReadEnds(o) => QueueTypes'  BY DEF ReadEnds, AnswersQueue, SetRows, HashTaken
<1>4. \A o \in Offers : ReadFails(o) => QueueTypes'  BY DEF ReadFails, AnswersQueue, SetRows, Settles
<1>5. \A o \in Offers : LateReturn(o) => QueueTypes'  BY DEF LateReturn, Published, queueVars, workVars
<1>6. \A o \in Offers, force \in BOOLEAN : DetailsStart(o, force) => QueueTypes'
  BY DEF DetailsStart, Reads, queueVars, workVars
<1>7. \A o \in Offers : DetailsCancel(o) => QueueTypes'
  BY DEF DetailsCancel, Release, Aborts, queueVars, workVars
<1>8. \A o \in Offers : Age(o) => QueueTypes'  BY DEF Age, queueVars, workVars
<1>9. \A o \in Offers, force \in BOOLEAN, refresh \in BOOLEAN : AnalysisStart(o, force, refresh) => QueueTypes'
  BY DEF AnalysisStart, Reads, HashTaken, readVars, queueVars
<1>10. \A o \in Offers : AnalysisEnds(o) => QueueTypes'
  BY DEF AnalysisEnds, Completed, HashForgotten, queueVars, readVars
<1>11. \A o \in Offers : AnalysisCancel(o) => QueueTypes'
  BY DEF AnalysisCancel, Release, Aborts, queueVars
<1>12. \A o \in Offers : AbortedSettles(o) => QueueTypes'
  BY DEF AbortedSettles, HashForgotten, queueVars, readVars
<1>13. \A o \in Offers : Sighted(o) => QueueTypes'  BY DEF Sighted, Given, queueVars, workVars
<1>14. \A o \in Offers : Hide(o) => QueueTypes'  BY DEF Hide, readVars, workVars
<1>15. PumpIdle => QueueTypes'  BY DEF PumpIdle, PumpStops, readVars, workVars
<1>16. PumpDrops => QueueTypes'  BY DEF PumpDrops, PumpStops, SetRows, readVars, workVars
<1>17. Pump /\ PumpFresh(Head(line)) => QueueTypes'
  BY DEF Pump, PumpFresh, PumpStops, SetRows, readVars, workVars
<1>18. Pump /\ PumpFull(Head(line)) => QueueTypes'
  BY DEF Pump, PumpFull, PumpStops, Refund, readVars, workVars
<1>19. Pump /\ PumpReads(Head(line)) => QueueTypes'
  BY DEF Pump, PumpReads, PumpStops, Reads, SetRows, workVars
<1>20. Stop => QueueTypes'  BY DEF Stop, SetRows, QueueLeaves, QueueGone, Release, Aborts, workVars
<1>21. Clear => QueueTypes'  BY DEF Clear, SetRows, QueueLeaves, QueueGone, Release, Aborts, workVars
<1>22. \A on \in BOOLEAN : Pause(on) => QueueTypes'  BY DEF Pause, readVars, workVars
<1>23. Refetch => QueueTypes'  BY DEF Refetch, SetRows, QueueLeaves, QueueGone, Release, Aborts,
     workVars
<1>24. Crash => QueueTypes'  BY DEF Crash, Vanish
<1>25. Close => QueueTypes'  BY DEF Close, Vanish
<1>26. Restart => QueueTypes'  BY DEF Restart, SetRows, Recovered
<1>27. UNCHANGED offerVars => QueueTypes'  BY DEF offerVars, queueVars, readVars, workVars
<1> HIDE DEF QueueTypes
<1>28. QED
  BY <1>1, <1>2, <1>3, <1>4, <1>5, <1>6, <1>7, <1>8, <1>9, <1>10, <1>11, <1>12, <1>13, <1>14, <1>15,
       <1>16, <1>17, <1>18, <1>19, <1>20, <1>21, <1>22, <1>23, <1>24, <1>25, <1>26, <1>27, Cases

(* Types of reads. *)
LEMMA ReadTypeStep ==
  ASSUME DetailsAssumption, ReadTypes, RowsFit, [Next]_offerVars
  PROVE  ReadTypes'
<1> USE DEF DetailsAssumption, Waiter
<1>1. \A o \in Offers : Enqueue(o) => ReadTypes'  BY DEF ReadTypes, Enqueue, SetRows, readVars, workVars
<1>2. \A o \in Offers : QueueCancel(o) => ReadTypes'
  BY ReleaseTypes DEF QueueCancel, QueueLeaves
<1>3. \A o \in Offers : ReadEnds(o) => ReadTypes'
  BY DEF ReadTypes, ReadEnds, AnswersQueue, SetRows, HashTaken
<1>4. \A o \in Offers : ReadFails(o) => ReadTypes'
  BY DEF ReadTypes, ReadFails, AnswersQueue, SetRows, Settles
<1>5. \A o \in Offers : LateReturn(o) => ReadTypes'
  BY DEF ReadTypes, LateReturn, Published, queueVars, workVars
<1>6. \A o \in Offers, force \in BOOLEAN : DetailsStart(o, force) => ReadTypes'
  BY DEF ReadTypes, DetailsStart, Reads, queueVars, workVars
<1>7. \A o \in Offers : DetailsCancel(o) => ReadTypes'
  BY ReleaseTypes DEF DetailsCancel
<1>8. \A o \in Offers : Age(o) => ReadTypes'  BY DEF ReadTypes, Age, queueVars, workVars
<1>9. \A o \in Offers, force \in BOOLEAN, refresh \in BOOLEAN : AnalysisStart(o, force, refresh) => ReadTypes'
  BY DEF ReadTypes, AnalysisStart, Reads, HashTaken, readVars, queueVars
<1>10. \A o \in Offers : AnalysisEnds(o) => ReadTypes'
  BY DEF ReadTypes, AnalysisEnds, Completed, HashForgotten, queueVars, readVars
<1>11. \A o \in Offers : AnalysisCancel(o) => ReadTypes'
  BY ReleaseTypes DEF AnalysisCancel
<1>12. \A o \in Offers : AbortedSettles(o) => ReadTypes'
  BY DEF ReadTypes, AbortedSettles, HashForgotten, queueVars, readVars
<1>13. \A o \in Offers : Sighted(o) => ReadTypes'  BY DEF ReadTypes, Sighted, Given, queueVars, workVars
<1>14. \A o \in Offers : Hide(o) => ReadTypes'  BY DEF ReadTypes, Hide, readVars, workVars
<1>15. PumpIdle => ReadTypes'  BY DEF ReadTypes, PumpIdle, PumpStops, readVars, workVars
<1>16. PumpDrops => ReadTypes'  BY DEF ReadTypes, PumpDrops, PumpStops, SetRows, readVars, workVars
<1>17. Pump /\ PumpFresh(Head(line)) => ReadTypes'
  BY DEF ReadTypes, Pump, PumpFresh, PumpStops, SetRows, readVars, workVars
<1>18. Pump /\ PumpFull(Head(line)) => ReadTypes'
  BY DEF ReadTypes, Pump, PumpFull, PumpStops, Refund, readVars, workVars
<1>19. Pump /\ PumpReads(Head(line)) => ReadTypes'
  <2> SUFFICES ASSUME Pump /\ PumpReads(Head(line)) PROVE ReadTypes'
    OBVIOUS
  <2>1. PumpReads(Head(line)) /\ Head(line) \in Offers
    BY HeadTailProperties DEF Pump, PumpStops, RowsFit, Lined
  <2>2. QED BY <2>1, ReadsTypes DEF PumpReads
<1>20. Stop => ReadTypes'
  BY ReleaseTypes DEF Stop, QueueLeaves
<1>21. Clear => ReadTypes'
  BY ReleaseTypes DEF Clear, QueueLeaves
<1>22. \A on \in BOOLEAN : Pause(on) => ReadTypes'  BY DEF ReadTypes, Pause, readVars, workVars
<1>23. Refetch => ReadTypes'
  BY ReleaseTypes DEF Refetch, QueueLeaves
<1>24. Crash => ReadTypes'  BY DEF ReadTypes, Crash, Vanish
<1>25. Close => ReadTypes'  BY DEF ReadTypes, Close, Vanish
<1>26. Restart => ReadTypes'  BY DEF ReadTypes, Restart, SetRows, Recovered
<1>27. UNCHANGED offerVars => ReadTypes'  BY DEF ReadTypes, offerVars, queueVars, readVars, workVars
<1>28. QED
  BY <1>1, <1>2, <1>3, <1>4, <1>5, <1>6, <1>7, <1>8, <1>9, <1>10, <1>11, <1>12, <1>13, <1>14, <1>15,
       <1>16, <1>17, <1>18, <1>19, <1>20, <1>21, <1>22, <1>23, <1>24, <1>25, <1>26, <1>27, Cases

(* Types of analyses. *)
LEMMA WorkTypeStep ==
  ASSUME DetailsAssumption, WorkTypes, ReadTypes', [Next]_offerVars
  PROVE  WorkTypes'
<1> USE DEF DetailsAssumption
<1>1. \A o \in Offers : Enqueue(o) => WorkTypes'  BY DEF WorkTypes, Enqueue, SetRows, readVars, workVars
<1>2. \A o \in Offers : QueueCancel(o) => WorkTypes'
  BY DEF WorkTypes, QueueCancel, SetRows, QueueLeaves, QueueGone, Release, Aborts, workVars
<1>3. \A o \in Offers : ReadEnds(o) => WorkTypes'
  <2> SUFFICES ASSUME NEW o \in Offers, ReadEnds(o) PROVE WorkTypes'
    OBVIOUS
  <2>1. \/ HashTaken(o) \/ UNCHANGED <<hashAt, ofText>>
    BY DEF ReadEnds
  <2>2. hashAt' \in [Offers -> 0..MaxText] /\ ofText' \in [Offers -> 0..MaxText]
    BY <2>1, HashTypes DEF WorkTypes
  <2>3. QED BY <2>2 DEF ReadEnds, WorkTypes
<1>4. \A o \in Offers : ReadFails(o) => WorkTypes'
  BY DEF WorkTypes, ReadFails, AnswersQueue, SetRows, Settles
<1>5. \A o \in Offers : LateReturn(o) => WorkTypes'
  BY DEF WorkTypes, LateReturn, Published, queueVars, workVars
<1>6. \A o \in Offers, force \in BOOLEAN : DetailsStart(o, force) => WorkTypes'
  BY DEF WorkTypes, DetailsStart, Reads, queueVars, workVars
<1>7. \A o \in Offers : DetailsCancel(o) => WorkTypes'
  BY DEF WorkTypes, DetailsCancel, Release, Aborts, queueVars, workVars
<1>8. \A o \in Offers : Age(o) => WorkTypes'  BY DEF WorkTypes, Age, queueVars, workVars
<1>9. \A o \in Offers, force \in BOOLEAN, refresh \in BOOLEAN : AnalysisStart(o, force,
     refresh) => WorkTypes'
  <2> SUFFICES ASSUME NEW o \in Offers, NEW force \in BOOLEAN, NEW refresh \in BOOLEAN,
       AnalysisStart(o, force, refresh) PROVE WorkTypes'
    OBVIOUS
  <2>1. \/ HashTaken(o) \/ UNCHANGED <<hashAt, ofText>>
    BY DEF AnalysisStart
  <2>2. hashAt' \in [Offers -> 0..MaxText] /\ ofText' \in [Offers -> 0..MaxText]
    BY <2>1, HashTypes DEF WorkTypes
  <2>3. QED BY <2>2 DEF AnalysisStart, WorkTypes
<1>10. \A o \in Offers : AnalysisEnds(o) => WorkTypes'
  BY DEF WorkTypes, AnalysisEnds, Completed, HashForgotten, queueVars, readVars
<1>11. \A o \in Offers : AnalysisCancel(o) => WorkTypes'
  BY DEF WorkTypes, AnalysisCancel, Release, Aborts, queueVars
<1>12. \A o \in Offers : AbortedSettles(o) => WorkTypes'
  BY DEF WorkTypes, AbortedSettles, HashForgotten, queueVars, readVars
<1>13. \A o \in Offers : Sighted(o) => WorkTypes'  BY DEF WorkTypes, Sighted, Given, queueVars, workVars
<1>14. \A o \in Offers : Hide(o) => WorkTypes'  BY DEF WorkTypes, Hide, readVars, workVars
<1>15. PumpIdle => WorkTypes'  BY DEF WorkTypes, PumpIdle, PumpStops, readVars, workVars
<1>16. PumpDrops => WorkTypes'  BY DEF WorkTypes, PumpDrops, PumpStops, SetRows, readVars, workVars
<1>17. Pump /\ PumpFresh(Head(line)) => WorkTypes'
  BY DEF WorkTypes, Pump, PumpFresh, PumpStops, SetRows, readVars, workVars
<1>18. Pump /\ PumpFull(Head(line)) => WorkTypes'
  BY DEF WorkTypes, Pump, PumpFull, PumpStops, Refund, readVars, workVars
<1>19. Pump /\ PumpReads(Head(line)) => WorkTypes'
  BY DEF WorkTypes, Pump, PumpReads, PumpStops, Reads, SetRows, workVars
<1>20. Stop => WorkTypes'  BY DEF WorkTypes, Stop, SetRows, QueueLeaves, QueueGone, Release, Aborts,
     workVars
<1>21. Clear => WorkTypes'  BY DEF WorkTypes, Clear, SetRows, QueueLeaves, QueueGone, Release, Aborts,
     workVars
<1>22. \A on \in BOOLEAN : Pause(on) => WorkTypes'  BY DEF WorkTypes, Pause, readVars, workVars
<1>23. Refetch => WorkTypes'  BY DEF WorkTypes, Refetch, SetRows, QueueLeaves, QueueGone, Release,
     Aborts, workVars
<1>24. Crash => WorkTypes'  BY DEF WorkTypes, Crash, Vanish
<1>25. Close => WorkTypes'  BY DEF WorkTypes, Close, Vanish
<1>26. Restart => WorkTypes'  BY DEF WorkTypes, Restart, SetRows, Recovered
<1>27. UNCHANGED offerVars => WorkTypes'  BY DEF WorkTypes, offerVars, queueVars, readVars, workVars
<1>28. QED
  BY <1>1, <1>2, <1>3, <1>4, <1>5, <1>6, <1>7, <1>8, <1>9, <1>10, <1>11, <1>12, <1>13, <1>14, <1>15,
       <1>16, <1>17, <1>18, <1>19, <1>20, <1>21, <1>22, <1>23, <1>24, <1>25, <1>26, <1>27, Cases

(* A wait of a person or of the queue is no analysis. *)
LEMMA ReadsWork ==
  ASSUME WorkFits, ReadTypes, NEW o \in Offers, NEW w \in {"person", "queue"}, Reads(o, w), UNCHANGED <<workVars, up>>,
         up
  PROVE  WorkFits'
<1>1. /\ wants' \in [Offers -> SUBSET Waiter]
      /\ \A p \in Offers : wants'[p] = IF p = o THEN wants[p] \cup {w} ELSE wants[p]
      /\ \A p \in Offers : detail'[p] # detail[p] => p = o
  BY DEF ReadTypes, Reads, Waiter
<1>2. \A p \in Offers : detail'[p] = "fetching" => wants'[p] # {}
  BY <1>1 DEF WorkFits
<1>3. \A p \in Offers : "analysis" \in wants'[p] <=> "analysis" \in wants[p]
  BY <1>1
<1>4. enr' = enr /\ work' = work /\ up' = up
  BY DEF workVars
<1>5. QED BY <1>2, <1>3, <1>4 DEF WorkFits

(* What is on record of an offer is what is under way. *)
LEMMA WorkStep ==
  ASSUME DetailsAssumption, Types, RowsFit, WorkFits, [Next]_offerVars
  PROVE  WorkFits'
<1> USE DEF DetailsAssumption, Waiter
<1>1. \A o \in Offers : Enqueue(o) => WorkFits'
  BY DEF WorkFits, Types, QueueTypes, ReadTypes, WorkTypes, Fetching, Queued, Busy, Enqueue, SetRows,
       readVars, workVars
<1>2. \A o \in Offers : QueueCancel(o) => WorkFits'
  BY DEF WorkFits, Types, QueueTypes, ReadTypes, WorkTypes, Fetching, Queued, Busy, QueueCancel,
       SetRows, QueueLeaves, QueueGone, Release, Aborts, workVars
<1>3. \A o \in Offers : ReadEnds(o) => WorkFits'
  BY DEF WorkFits, Types, QueueTypes, ReadTypes, WorkTypes, Fetching, Queued, Busy, ReadEnds,
       AnswersQueue, SetRows, HashTaken
<1>4. \A o \in Offers : ReadFails(o) => WorkFits'
  BY DEF WorkFits, Types, QueueTypes, ReadTypes, WorkTypes, Fetching, Queued, Busy, ReadFails,
       AnswersQueue, SetRows, Settles
<1>5. \A o \in Offers : LateReturn(o) => WorkFits'
  BY DEF WorkFits, Types, QueueTypes, ReadTypes, WorkTypes, Fetching, Queued, Busy, LateReturn,
       Published, queueVars, workVars
<1>6. \A o \in Offers, force \in BOOLEAN : DetailsStart(o, force) => WorkFits'
  <2> SUFFICES ASSUME NEW o \in Offers, NEW force \in BOOLEAN, DetailsStart(o, force) PROVE WorkFits'
    OBVIOUS
  <2>1. up /\ UNCHANGED <<workVars, up>>
    BY DEF DetailsStart
  <2>2. CASE Reads(o, "person")
    BY <2>1, <2>2, ReadsWork DEF Types
  <2>3. CASE detail' = [detail EXCEPT ![o] = "succeeded"] /\ UNCHANGED wants
    BY <2>1, <2>3 DEF WorkFits, workVars, Types, ReadTypes
  <2>4. QED BY <2>2, <2>3 DEF DetailsStart
<1>7. \A o \in Offers : DetailsCancel(o) => WorkFits'
  BY DEF WorkFits, Types, QueueTypes, ReadTypes, WorkTypes, Fetching, Queued, Busy, DetailsCancel,
       Release, Aborts, queueVars, workVars
<1>8. \A o \in Offers : Age(o) => WorkFits'
  BY DEF WorkFits, Types, QueueTypes, ReadTypes, WorkTypes, Fetching, Queued, Busy, Age, queueVars,
       workVars
<1>9. \A o \in Offers, force \in BOOLEAN, refresh \in BOOLEAN : AnalysisStart(o, force, refresh) => WorkFits'
  BY DEF WorkFits, Types, QueueTypes, ReadTypes, WorkTypes, Fetching, Queued, Busy, AnalysisStart,
       Reads, HashTaken, readVars, queueVars
<1>10. \A o \in Offers : AnalysisEnds(o) => WorkFits'
  BY DEF WorkFits, Types, QueueTypes, ReadTypes, WorkTypes, Fetching, Queued, Busy, AnalysisEnds,
       Completed, HashForgotten, queueVars, readVars
<1>11. \A o \in Offers : AnalysisCancel(o) => WorkFits'
  BY DEF WorkFits, Types, QueueTypes, ReadTypes, WorkTypes, Fetching, Queued, Busy, AnalysisCancel,
       Release, Aborts, queueVars
<1>12. \A o \in Offers : AbortedSettles(o) => WorkFits'
  BY DEF WorkFits, Types, QueueTypes, ReadTypes, WorkTypes, Fetching, Queued, Busy, AbortedSettles,
       HashForgotten, queueVars, readVars
<1>13. \A o \in Offers : Sighted(o) => WorkFits'
  BY DEF WorkFits, Types, QueueTypes, ReadTypes, WorkTypes, Fetching, Queued, Busy, Sighted, Given,
       queueVars, workVars
<1>14. \A o \in Offers : Hide(o) => WorkFits'
  BY DEF WorkFits, Types, QueueTypes, ReadTypes, WorkTypes, Fetching, Queued, Busy, Hide, readVars,
       workVars
<1>15. PumpIdle => WorkFits'  BY DEF WorkFits, Types, QueueTypes, ReadTypes, WorkTypes, Fetching,
     Queued, Busy, PumpIdle, PumpStops, readVars, workVars
<1>16. PumpDrops => WorkFits'  BY DEF WorkFits, Types, QueueTypes, ReadTypes, WorkTypes, Fetching,
     Queued, Busy, PumpDrops, PumpStops, SetRows, readVars, workVars
<1>17. Pump /\ PumpFresh(Head(line)) => WorkFits'
  BY DEF WorkFits, Types, QueueTypes, ReadTypes, WorkTypes, Fetching, Queued, Busy, Pump, PumpFresh,
       PumpStops, SetRows, readVars, workVars
<1>18. Pump /\ PumpFull(Head(line)) => WorkFits'
  BY DEF WorkFits, Types, QueueTypes, ReadTypes, WorkTypes, Fetching, Queued, Busy, Pump, PumpFull,
       PumpStops, Refund, readVars, workVars
<1>19. Pump /\ PumpReads(Head(line)) => WorkFits'
  <2> SUFFICES ASSUME Pump /\ PumpReads(Head(line)) PROVE WorkFits'
    OBVIOUS
  <2>1. PumpReads(Head(line)) /\ Head(line) \in Offers /\ up /\ UNCHANGED <<workVars, up>>
    BY HeadTailProperties DEF Pump, PumpStops, RowsFit, Lined
  <2>2. QED BY <2>1, ReadsWork DEF PumpReads, Types
<1>20. Stop => WorkFits'  BY DEF WorkFits, Types, QueueTypes, ReadTypes, WorkTypes, Fetching, Queued,
     Busy, Stop, SetRows, QueueLeaves, QueueGone, Release, Aborts, workVars
<1>21. Clear => WorkFits'  BY DEF WorkFits, Types, QueueTypes, ReadTypes, WorkTypes, Fetching, Queued,
     Busy, Clear, SetRows, QueueLeaves, QueueGone, Release, Aborts, workVars
<1>22. \A on \in BOOLEAN : Pause(on) => WorkFits'
  BY DEF WorkFits, Types, QueueTypes, ReadTypes, WorkTypes, Fetching, Queued, Busy, Pause, readVars,
       workVars
<1>23. Refetch => WorkFits'  BY DEF WorkFits, Types, QueueTypes, ReadTypes, WorkTypes, Fetching,
     Queued, Busy, Refetch, SetRows, QueueLeaves, QueueGone, Release, Aborts, workVars
<1>24. Crash => WorkFits'  BY DEF WorkFits, Types, QueueTypes, ReadTypes, WorkTypes, Fetching, Queued,
     Busy, Crash, Vanish
<1>25. Close => WorkFits'  BY DEF WorkFits, Types, QueueTypes, ReadTypes, WorkTypes, Fetching, Queued,
     Busy, Close, Vanish
<1>26. Restart => WorkFits'  BY DEF WorkFits, Types, QueueTypes, ReadTypes, WorkTypes, Fetching,
     Queued, Busy, Restart, SetRows, Recovered
<1>27. UNCHANGED offerVars => WorkFits'
  BY DEF WorkFits, Types, QueueTypes, ReadTypes, WorkTypes, Fetching, Queued, Busy, offerVars,
       queueVars, readVars, workVars
<1>28. QED
  BY <1>1, <1>2, <1>3, <1>4, <1>5, <1>6, <1>7, <1>8, <1>9, <1>10, <1>11, <1>12, <1>13, <1>14, <1>15,
       <1>16, <1>17, <1>18, <1>19, <1>20, <1>21, <1>22, <1>23, <1>24, <1>25, <1>26, <1>27, Cases

(* An analysis is given the text whose hash it took. *)
LEMMA TextStep ==
  ASSUME DetailsAssumption, Types, TextFits, [Next]_offerVars
  PROVE  TextFits'
<1> USE DEF TextFits, AnalysisIsOfText
<1>1. \A o \in Offers : Enqueue(o) => TextFits'  BY DEF Enqueue, SetRows, readVars, workVars
<1>2. \A o \in Offers : QueueCancel(o) => TextFits'
  BY DEF QueueCancel, SetRows, QueueLeaves, QueueGone, Release, Aborts, workVars
<1>3. \A o \in Offers : ReadEnds(o) => TextFits'  BY DEF ReadEnds, AnswersQueue, SetRows, HashTaken
<1>4. \A o \in Offers : ReadFails(o) => TextFits'  BY DEF ReadFails, AnswersQueue, SetRows, Settles
<1>5. \A o \in Offers : LateReturn(o) => TextFits'  BY DEF LateReturn, Published, queueVars, workVars
<1>6. \A o \in Offers, force \in BOOLEAN : DetailsStart(o, force) => TextFits'
  BY DEF DetailsStart, Reads, queueVars, workVars
<1>7. \A o \in Offers : DetailsCancel(o) => TextFits'
  BY DEF DetailsCancel, Release, Aborts, queueVars, workVars
<1>8. \A o \in Offers : Age(o) => TextFits'  BY DEF Age, queueVars, workVars
<1>9. \A o \in Offers, force \in BOOLEAN, refresh \in BOOLEAN : AnalysisStart(o, force, refresh) => TextFits'
  BY DEF AnalysisStart, Reads, HashTaken, readVars, queueVars
<1>10. \A o \in Offers : AnalysisEnds(o) => TextFits'
  BY DEF AnalysisEnds, Completed, HashForgotten, queueVars, readVars
<1>11. \A o \in Offers : AnalysisCancel(o) => TextFits'
  BY DEF AnalysisCancel, Release, Aborts, queueVars
<1>12. \A o \in Offers : AbortedSettles(o) => TextFits'
  BY DEF AbortedSettles, HashForgotten, queueVars, readVars
<1>13. \A o \in Offers : Sighted(o) => TextFits'  BY DEF Sighted, Given, queueVars, workVars
<1>14. \A o \in Offers : Hide(o) => TextFits'  BY DEF Hide, readVars, workVars
<1>15. PumpIdle => TextFits'  BY DEF PumpIdle, PumpStops, readVars, workVars
<1>16. PumpDrops => TextFits'  BY DEF PumpDrops, PumpStops, SetRows, readVars, workVars
<1>17. Pump /\ PumpFresh(Head(line)) => TextFits'
  BY DEF Pump, PumpFresh, PumpStops, SetRows, readVars, workVars
<1>18. Pump /\ PumpFull(Head(line)) => TextFits'
  BY DEF Pump, PumpFull, PumpStops, Refund, readVars, workVars
<1>19. Pump /\ PumpReads(Head(line)) => TextFits'
  BY DEF Pump, PumpReads, PumpStops, Reads, SetRows, workVars
<1>20. Stop => TextFits'  BY DEF Stop, SetRows, QueueLeaves, QueueGone, Release, Aborts, workVars
<1>21. Clear => TextFits'  BY DEF Clear, SetRows, QueueLeaves, QueueGone, Release, Aborts, workVars
<1>22. \A on \in BOOLEAN : Pause(on) => TextFits'  BY DEF Pause, readVars, workVars
<1>23. Refetch => TextFits'  BY DEF Refetch, SetRows, QueueLeaves, QueueGone, Release, Aborts, workVars
<1>24. Crash => TextFits'  BY DEF Crash, Vanish
<1>25. Close => TextFits'  BY DEF Close, Vanish
<1>26. Restart => TextFits'  BY DEF Restart, SetRows, Recovered
<1>27. UNCHANGED offerVars => TextFits'  BY DEF offerVars, queueVars, readVars, workVars
<1> HIDE DEF TextFits
<1>28. QED
  BY <1>1, <1>2, <1>3, <1>4, <1>5, <1>6, <1>7, <1>8, <1>9, <1>10, <1>11, <1>12, <1>13, <1>14, <1>15,
       <1>16, <1>17, <1>18, <1>19, <1>20, <1>21, <1>22, <1>23, <1>24, <1>25, <1>26, <1>27, Cases

(* No wake-up is lost. *)
LEMMA GoesStep ==
  ASSUME DetailsAssumption, Types, RowsFit, WorkFits, QueueGoesOn, [Next]_offerVars
  PROVE  QueueGoesOn'
<1> USE DEF DetailsAssumption, Waiter
<1>1. \A o \in Offers : Enqueue(o) => QueueGoesOn'
  BY DEF QueueGoesOn, Queued, Types, QueueTypes, ReadTypes, Enqueue, SetRows, readVars, workVars
<1>2. \A o \in Offers : QueueCancel(o) => QueueGoesOn'
  <2> SUFFICES ASSUME NEW o \in Offers, QueueCancel(o) PROVE QueueGoesOn'
    OBVIOUS
  <2>1. line = <<>> => line' = <<>>
    <3>1. line = <<>> => Waits = {} /\ Waits = Ready
      BY LinedIs DEF RowsFit, Ready
    <3>2. QED BY <3>1 DEF QueueCancel, Without
  <2>2. /\ due' = (due \/ {o} \cap Queued # {}) /\ UNCHANGED <<paused, up>>
        /\ wants' = [p \in Offers |-> wants[p] \ QueueGone({o})[p]]
    BY DEF QueueCancel, QueueLeaves, Release
  <2>3. o \notin Queued => Queued' = Queued
    BY <2>2 DEF QueueGone, Queued
  <2>4. QED BY <2>1, <2>2, <2>3 DEF QueueGoesOn
<1>3. \A o \in Offers : ReadEnds(o) => QueueGoesOn'
  BY DEF QueueGoesOn, Queued, Types, QueueTypes, ReadTypes, ReadEnds, AnswersQueue, SetRows, HashTaken
<1>4. \A o \in Offers : ReadFails(o) => QueueGoesOn'
  BY DEF QueueGoesOn, Queued, Types, QueueTypes, ReadTypes, ReadFails, AnswersQueue, SetRows, Settles
<1>5. \A o \in Offers : LateReturn(o) => QueueGoesOn'
  BY DEF QueueGoesOn, Queued, Types, QueueTypes, ReadTypes, LateReturn, Published, queueVars, workVars
<1>6. \A o \in Offers, force \in BOOLEAN : DetailsStart(o, force) => QueueGoesOn'
  BY DEF QueueGoesOn, Queued, Types, QueueTypes, ReadTypes, DetailsStart, Reads, queueVars, workVars
<1>7. \A o \in Offers : DetailsCancel(o) => QueueGoesOn'
  BY DEF QueueGoesOn, Queued, Types, QueueTypes, ReadTypes, DetailsCancel, Release, Aborts, queueVars,
       workVars
<1>8. \A o \in Offers : Age(o) => QueueGoesOn'
  BY DEF QueueGoesOn, Queued, Types, QueueTypes, ReadTypes, Age, queueVars, workVars
<1>9. \A o \in Offers, force \in BOOLEAN, refresh \in BOOLEAN : AnalysisStart(o, force, refresh) => QueueGoesOn'
  BY DEF QueueGoesOn, Queued, Types, QueueTypes, ReadTypes, AnalysisStart, Reads, HashTaken, readVars,
       queueVars
<1>10. \A o \in Offers : AnalysisEnds(o) => QueueGoesOn'
  BY DEF QueueGoesOn, Queued, Types, QueueTypes, ReadTypes, AnalysisEnds, Completed, HashForgotten,
       queueVars, readVars
<1>11. \A o \in Offers : AnalysisCancel(o) => QueueGoesOn'
  BY DEF QueueGoesOn, Queued, Types, QueueTypes, ReadTypes, AnalysisCancel, Release, Aborts, queueVars
<1>12. \A o \in Offers : AbortedSettles(o) => QueueGoesOn'
  BY DEF QueueGoesOn, Queued, Types, QueueTypes, ReadTypes, AbortedSettles, HashForgotten, queueVars,
       readVars
<1>13. \A o \in Offers : Sighted(o) => QueueGoesOn'
  BY DEF QueueGoesOn, Queued, Types, QueueTypes, ReadTypes, Sighted, Given, queueVars, workVars
<1>14. \A o \in Offers : Hide(o) => QueueGoesOn'
  BY DEF QueueGoesOn, Queued, Types, QueueTypes, ReadTypes, Hide, readVars, workVars
<1>15. PumpIdle => QueueGoesOn'
  <2> SUFFICES ASSUME PumpIdle PROVE QueueGoesOn'
    OBVIOUS
  <2>1. Cardinality(Queued) >= Consumers => Queued # {}
    BY FS_EmptySet
  <2>2. UNCHANGED <<line, paused, wants, up>> /\ PumpStops
    BY DEF PumpIdle, readVars
  <2>3. QED BY <2>1, <2>2 DEF QueueGoesOn, PumpStops, Queued
<1>16. PumpDrops => QueueGoesOn'
  BY DEF QueueGoesOn, Queued, Types, QueueTypes, ReadTypes, PumpDrops, PumpStops, SetRows, readVars,
       workVars
<1>17. Pump /\ PumpFresh(Head(line)) => QueueGoesOn'
  BY DEF QueueGoesOn, Queued, Types, QueueTypes, ReadTypes, Pump, PumpFresh, PumpStops, SetRows,
       readVars, workVars
<1>18. Pump /\ PumpFull(Head(line)) => QueueGoesOn'
  BY DEF QueueGoesOn, Queued, Types, QueueTypes, ReadTypes, Pump, PumpFull, PumpStops, Refund,
       readVars, workVars
<1>19. Pump /\ PumpReads(Head(line)) => QueueGoesOn'
  BY DEF QueueGoesOn, Queued, Types, QueueTypes, ReadTypes, Pump, PumpReads, PumpStops, Reads, SetRows,
       workVars
<1>20. Stop => QueueGoesOn'  BY DEF QueueGoesOn, Queued, Types, QueueTypes, ReadTypes, Stop, SetRows,
     QueueLeaves, QueueGone, Release, Aborts, workVars
<1>21. Clear => QueueGoesOn'  BY DEF QueueGoesOn, Queued, Types, QueueTypes, ReadTypes, Clear, SetRows,
     QueueLeaves, QueueGone, Release, Aborts, workVars
<1>22. \A on \in BOOLEAN : Pause(on) => QueueGoesOn'
  BY DEF QueueGoesOn, Queued, Types, QueueTypes, ReadTypes, Pause, readVars, workVars
<1>23. Refetch => QueueGoesOn'  BY DEF QueueGoesOn, Queued, Types, QueueTypes, ReadTypes, Refetch,
     SetRows, QueueLeaves, QueueGone, Release, Aborts, workVars
<1>24. Crash => QueueGoesOn'  BY DEF QueueGoesOn, Queued, Types, QueueTypes, ReadTypes, Crash, Vanish
<1>25. Close => QueueGoesOn'  BY DEF QueueGoesOn, Queued, Types, QueueTypes, ReadTypes, Close, Vanish
<1>26. Restart => QueueGoesOn'  BY DEF QueueGoesOn, Queued, Types, QueueTypes, ReadTypes, Restart,
     SetRows, Recovered
<1>27. UNCHANGED offerVars => QueueGoesOn'
  BY DEF QueueGoesOn, Queued, Types, QueueTypes, ReadTypes, offerVars, queueVars, readVars, workVars
<1>28. QED
  BY <1>1, <1>2, <1>3, <1>4, <1>5, <1>6, <1>7, <1>8, <1>9, <1>10, <1>11, <1>12, <1>13, <1>14, <1>15,
       <1>16, <1>17, <1>18, <1>19, <1>20, <1>21, <1>22, <1>23, <1>24, <1>25, <1>26, <1>27, Cases

(* The reads of the queue stay within the ledger. *)
LEMMA BudgetStep ==
  ASSUME DetailsAssumption, Types, RowsFit, BudgetIsKept, [Next]_offerVars
  PROVE  BudgetIsKept'
<1> USE DEF DetailsAssumption, BudgetIsKept
<1>1. \A o \in Offers : Enqueue(o) => BudgetIsKept'
  BY DEF Types, QueueTypes, Enqueue, SetRows, readVars, workVars
<1>2. \A o \in Offers : QueueCancel(o) => BudgetIsKept'
  BY DEF Types, QueueTypes, QueueCancel, SetRows, QueueLeaves, QueueGone, Release, Aborts, workVars
<1>3. \A o \in Offers : ReadEnds(o) => BudgetIsKept'
  BY DEF Types, QueueTypes, ReadEnds, AnswersQueue, SetRows, HashTaken
<1>4. \A o \in Offers : ReadFails(o) => BudgetIsKept'
  BY DEF Types, QueueTypes, ReadFails, AnswersQueue, SetRows, Settles
<1>5. \A o \in Offers : LateReturn(o) => BudgetIsKept'
  BY DEF Types, QueueTypes, LateReturn, Published, queueVars, workVars
<1>6. \A o \in Offers, force \in BOOLEAN : DetailsStart(o, force) => BudgetIsKept'
  BY DEF Types, QueueTypes, DetailsStart, Reads, queueVars, workVars
<1>7. \A o \in Offers : DetailsCancel(o) => BudgetIsKept'
  BY DEF Types, QueueTypes, DetailsCancel, Release, Aborts, queueVars, workVars
<1>8. \A o \in Offers : Age(o) => BudgetIsKept'  BY DEF Types, QueueTypes, Age, queueVars, workVars
<1>9. \A o \in Offers, force \in BOOLEAN, refresh \in BOOLEAN : AnalysisStart(o, force, refresh) => BudgetIsKept'
  BY DEF Types, QueueTypes, AnalysisStart, Reads, HashTaken, readVars, queueVars
<1>10. \A o \in Offers : AnalysisEnds(o) => BudgetIsKept'
  BY DEF Types, QueueTypes, AnalysisEnds, Completed, HashForgotten, queueVars, readVars
<1>11. \A o \in Offers : AnalysisCancel(o) => BudgetIsKept'
  BY DEF Types, QueueTypes, AnalysisCancel, Release, Aborts, queueVars
<1>12. \A o \in Offers : AbortedSettles(o) => BudgetIsKept'
  BY DEF Types, QueueTypes, AbortedSettles, HashForgotten, queueVars, readVars
<1>13. \A o \in Offers : Sighted(o) => BudgetIsKept'
  BY DEF Types, QueueTypes, Sighted, Given, queueVars, workVars
<1>14. \A o \in Offers : Hide(o) => BudgetIsKept'  BY DEF Types, QueueTypes, Hide, readVars, workVars
<1>15. PumpIdle => BudgetIsKept'  BY DEF Types, QueueTypes, PumpIdle, PumpStops, readVars, workVars
<1>16. PumpDrops => BudgetIsKept'
  BY DEF Types, QueueTypes, PumpDrops, PumpStops, SetRows, readVars, workVars
<1>17. Pump /\ PumpFresh(Head(line)) => BudgetIsKept'
  BY DEF Types, QueueTypes, Pump, PumpFresh, PumpStops, SetRows, readVars, workVars
<1>18. Pump /\ PumpFull(Head(line)) => BudgetIsKept'
  BY DEF Types, QueueTypes, Pump, PumpFull, PumpStops, Refund, readVars, workVars
<1>19. Pump /\ PumpReads(Head(line)) => BudgetIsKept'
  BY DEF Types, QueueTypes, Pump, PumpReads, PumpStops, Reads, SetRows, workVars
<1>20. Stop => BudgetIsKept'  BY DEF Types, QueueTypes, Stop, SetRows, QueueLeaves, QueueGone, Release,
     Aborts, workVars
<1>21. Clear => BudgetIsKept'  BY DEF Types, QueueTypes, Clear, SetRows, QueueLeaves, QueueGone,
     Release, Aborts, workVars
<1>22. \A on \in BOOLEAN : Pause(on) => BudgetIsKept'
  BY DEF Types, QueueTypes, Pause, readVars, workVars
<1>23. Refetch => BudgetIsKept'
  BY DEF Types, QueueTypes, Refetch, SetRows, QueueLeaves, QueueGone, Release, Aborts, workVars
<1>24. Crash => BudgetIsKept'  BY DEF Types, QueueTypes, Crash, Vanish
<1>25. Close => BudgetIsKept'  BY DEF Types, QueueTypes, Close, Vanish
<1>26. Restart => BudgetIsKept'  BY DEF Types, QueueTypes, Restart, SetRows, Recovered
<1>27. UNCHANGED offerVars => BudgetIsKept'
  BY DEF Types, QueueTypes, offerVars, queueVars, readVars, workVars
<1> HIDE DEF BudgetIsKept
<1>28. QED
  BY <1>1, <1>2, <1>3, <1>4, <1>5, <1>6, <1>7, <1>8, <1>9, <1>10, <1>11, <1>12, <1>13, <1>14, <1>15,
       <1>16, <1>17, <1>18, <1>19, <1>20, <1>21, <1>22, <1>23, <1>24, <1>25, <1>26, <1>27, Cases

LEMMA WaitsSet ==
  ASSUME QueueTypes, NEW Z \in SUBSET Offers, NEW status \in Rows, SetRows(Z, status)
  PROVE  /\ status = "queued" => Waits' = Waits \cup Z
         /\ status # "queued" => Waits' = Waits \ Z
         /\ \A o \in Offers : row'[o] = IF o \in Z THEN status ELSE row[o]
BY DEF QueueTypes, SetRows, Waits

(* The line goes with the rows. *)
LEMMA LineStep ==
  ASSUME DetailsAssumption, Types, RowsFit, [Next]_offerVars
  PROVE  Lined(line', Waits')
<1> USE DEF DetailsAssumption
<1>1. \A o \in Offers : Enqueue(o) => Lined(line', Waits')
  <2> SUFFICES ASSUME NEW o \in Offers, Enqueue(o) PROVE Lined(line', Waits')
    OBVIOUS
  <2>1. o \notin Waits /\ Waits' = Waits \cup {o}
    BY WaitsSet DEF Enqueue, Takes, Waits, Types, Rows
  <2>2. QED BY <2>1, LinedMore DEF Enqueue, RowsFit
<1>2. \A o \in Offers : QueueCancel(o) => Lined(line', Waits')
  <2> SUFFICES ASSUME NEW o \in Offers, QueueCancel(o) PROVE Lined(line', Waits')
    OBVIOUS
  <2>1. Waits' = Waits \ {o} /\ line' = Without(o)
    BY WaitsSet DEF QueueCancel, Types, Rows
  <2>2. QED BY <2>1, LinedWithout DEF RowsFit
<1>3. \A o \in Offers : ReadEnds(o) => Lined(line', Waits')
  <2> SUFFICES ASSUME NEW o \in Offers, ReadEnds(o) PROVE Lined(line', Waits')
    OBVIOUS
  <2>1. Waits' = Waits
    BY DEF ReadEnds, AnswersQueue, SetRows, Waits, Queued, RowsFit, RowsRun, Types, QueueTypes
  <2>2. QED BY <2>1 DEF ReadEnds, RowsFit
<1>4. \A o \in Offers : ReadFails(o) => Lined(line', Waits')
  <2> SUFFICES ASSUME NEW o \in Offers, ReadFails(o) PROVE Lined(line', Waits')
    OBVIOUS
  <2>1. Waits' = Waits
    BY DEF ReadFails, AnswersQueue, SetRows, Waits, Queued, RowsFit, RowsRun, Types, QueueTypes
  <2>2. QED BY <2>1 DEF ReadFails, RowsFit
<1>5. \A o \in Offers : LateReturn(o) => Lined(line', Waits')
  BY DEF RowsFit, Waits, LateReturn, Published, queueVars, workVars
<1>6. \A o \in Offers, force \in BOOLEAN : DetailsStart(o, force) => Lined(line', Waits')
  BY DEF RowsFit, Waits, DetailsStart, Reads, queueVars, workVars
<1>7. \A o \in Offers : DetailsCancel(o) => Lined(line', Waits')
  BY DEF RowsFit, Waits, DetailsCancel, Release, Aborts, queueVars, workVars
<1>8. \A o \in Offers : Age(o) => Lined(line', Waits')  BY DEF RowsFit, Waits, Age, queueVars, workVars
<1>9. \A o \in Offers, force \in BOOLEAN, refresh \in BOOLEAN : AnalysisStart(o, force, refresh) => Lined(line', Waits')
  BY DEF RowsFit, Waits, AnalysisStart, Reads, HashTaken, readVars, queueVars
<1>10. \A o \in Offers : AnalysisEnds(o) => Lined(line', Waits')
  BY DEF RowsFit, Waits, AnalysisEnds, Completed, HashForgotten, queueVars, readVars
<1>11. \A o \in Offers : AnalysisCancel(o) => Lined(line', Waits')
  BY DEF RowsFit, Waits, AnalysisCancel, Release, Aborts, queueVars
<1>12. \A o \in Offers : AbortedSettles(o) => Lined(line', Waits')
  BY DEF RowsFit, Waits, AbortedSettles, HashForgotten, queueVars, readVars
<1>13. \A o \in Offers : Sighted(o) => Lined(line', Waits')
  BY DEF RowsFit, Waits, Sighted, Given, queueVars, workVars
<1>14. \A o \in Offers : Hide(o) => Lined(line', Waits')
  BY DEF RowsFit, Waits, Hide, readVars, workVars
<1>15. PumpIdle => Lined(line', Waits')  BY DEF RowsFit, Waits, PumpIdle, PumpStops, readVars, workVars
<1>16. PumpDrops => Lined(line', Waits')
  <2> SUFFICES ASSUME PumpDrops PROVE Lined(line', Waits')
    OBVIOUS
  <2>1. line # <<>> /\ SetRows({Head(line)}, "cancelled") /\ line' = Tail(line)
    BY DEF PumpDrops, PumpStops
  <2>2. Head(line) \in Waits /\ Lined(Tail(line), Waits \ {Head(line)})
    BY <2>1, LinedRest DEF RowsFit
  <2>3. Waits' = Waits \ {Head(line)}
    BY <2>1, <2>2, WaitsSet DEF Types, Rows, Waits
  <2>4. QED BY <2>1, <2>2, <2>3
<1>17. Pump /\ PumpFresh(Head(line)) => Lined(line', Waits')
  <2> SUFFICES ASSUME Pump /\ PumpFresh(Head(line)) PROVE Lined(line', Waits')
    OBVIOUS
  <2>1. line # <<>> /\ SetRows({Head(line)}, "succeeded") /\ line' = Tail(line)
    BY DEF Pump, PumpFresh, PumpStops
  <2>2. Head(line) \in Waits /\ Lined(Tail(line), Waits \ {Head(line)})
    BY <2>1, LinedRest DEF RowsFit
  <2>3. Waits' = Waits \ {Head(line)}
    BY <2>1, <2>2, WaitsSet DEF Types, Rows, Waits
  <2>4. QED BY <2>1, <2>2, <2>3
<1>18. Pump /\ PumpFull(Head(line)) => Lined(line', Waits')
  <2> SUFFICES ASSUME Pump /\ PumpFull(Head(line)) PROVE Lined(line', Waits')
    OBVIOUS
  <2>1. line # <<>> /\ UNCHANGED row /\ line' = Append(Tail(line), Head(line))
    BY DEF Pump, PumpFull, PumpStops
  <2>2. Head(line) \in Waits /\ Lined(Tail(line), Waits \ {Head(line)})
    BY <2>1, LinedRest DEF RowsFit
  <2>3. Head(line) \in Offers
    BY <2>2 DEF Waits
  <2>4. Lined(line', (Waits \ {Head(line)}) \cup {Head(line)})
    BY <2>1, <2>2, <2>3, LinedMore
  <2>5. Waits' = (Waits \ {Head(line)}) \cup {Head(line)}
    BY <2>1, <2>2 DEF Waits
  <2>6. QED BY <2>4, <2>5
<1>19. Pump /\ PumpReads(Head(line)) => Lined(line', Waits')
  <2> SUFFICES ASSUME Pump /\ PumpReads(Head(line)) PROVE Lined(line', Waits')
    OBVIOUS
  <2>1. line # <<>> /\ SetRows({Head(line)}, "running") /\ line' = Tail(line)
    BY DEF Pump, PumpReads, PumpStops
  <2>2. Head(line) \in Waits /\ Lined(Tail(line), Waits \ {Head(line)})
    BY <2>1, LinedRest DEF RowsFit
  <2>3. Waits' = Waits \ {Head(line)}
    BY <2>1, <2>2, WaitsSet DEF Types, Rows, Waits
  <2>4. QED BY <2>1, <2>2, <2>3
<1>20. Stop => Lined(line', Waits')
  <2> SUFFICES ASSUME Stop PROVE Lined(line', Waits')
    OBVIOUS
  <2>1. SetRows(Queued, "queued") /\ line' = line \o SetToSeq(Queued) /\ up
    BY DEF Stop
  <2>2. Waits' = Waits \cup Queued
    BY <2>1, WaitsSet DEF Types, Rows, Queued
  <2>3. Waits \cap Queued = {}
    BY <2>1 DEF RowsFit, RowsRun, Waits, Queued
  <2>4. Lined(SetToSeq(Queued), Queued)
    BY LinedSet, FS_Subset DEF Queued
  <2>5. QED BY <2>1, <2>2, <2>3, <2>4, LinedBoth DEF RowsFit
<1>21. Clear => Lined(line', Waits')
  <2> SUFFICES ASSUME Clear PROVE Lined(line', Waits')
    OBVIOUS
  <2>1. SetRows(Ready \cup Queued, "cancelled") /\ line' = <<>>
    BY DEF Clear
  <2>2. Ready = Waits
    BY LinedIs DEF RowsFit, Ready
  <2>3. Waits' = {}
    BY <2>1, <2>2, WaitsSet DEF Types, Rows, Queued, Waits
  <2>4. QED BY <2>1, <2>3, LinedNone
<1>22. \A on \in BOOLEAN : Pause(on) => Lined(line', Waits')
  BY DEF RowsFit, Waits, Pause, readVars, workVars
<1>23. Refetch => Lined(line', Waits')
  <2> SUFFICES ASSUME Refetch PROVE Lined(line', Waits')
    OBVIOUS
  <2>1. SetRows({o \in Offers : row[o] # "succeeded"}, "none") /\ line' = <<>>
    BY DEF Refetch
  <2>2. Waits' = {}
    BY <2>1 DEF SetRows, Waits
  <2>3. QED BY <2>1, <2>2, LinedNone
<1>24. Crash => Lined(line', Waits')  BY DEF RowsFit, Waits, Crash, Vanish
<1>25. Close => Lined(line', Waits')  BY DEF RowsFit, Waits, Close, Vanish
<1>26. Restart => Lined(line', Waits')
  <2> SUFFICES ASSUME Restart PROVE Lined(line', Waits')
    OBVIOUS
  <2>1. SetRows(Recovered, "queued") /\ line' = line \o SetToSeq(Recovered)
    BY DEF Restart
  <2>2. Waits' = Waits \cup Recovered
    BY <2>1, WaitsSet DEF Types, Rows, Recovered
  <2>3. Waits \cap Recovered = {}
    BY DEF Waits, Recovered
  <2>4. Lined(SetToSeq(Recovered), Recovered)
    BY LinedSet, FS_Subset DEF Recovered
  <2>5. QED BY <2>1, <2>2, <2>3, <2>4, LinedBoth DEF RowsFit
<1>27. UNCHANGED offerVars => Lined(line', Waits')
  BY DEF RowsFit, Waits, offerVars, queueVars, readVars, workVars
<1>28. QED
  BY <1>1, <1>2, <1>3, <1>4, <1>5, <1>6, <1>7, <1>8, <1>9, <1>10, <1>11, <1>12, <1>13, <1>14, <1>15,
       <1>16, <1>17, <1>18, <1>19, <1>20, <1>21, <1>22, <1>23, <1>24, <1>25, <1>26, <1>27, Cases

(* A row is running while the queue waits for its read. *)
LEMMA RowStep ==
  ASSUME DetailsAssumption, Types, RowsFit, WorkFits, [Next]_offerVars
  PROVE  RowsRun'
<1> USE DEF DetailsAssumption, Rows, Waiter
<1>1. \A o \in Offers : Enqueue(o) => RowsRun'
  <2> SUFFICES ASSUME NEW o \in Offers, Enqueue(o) PROVE RowsRun'
    OBVIOUS
  <2>1. /\ up /\ row[o] # "running" /\ wants' = wants /\ up' = up
        /\ \A p \in Offers : row'[p] = IF p = o THEN "queued" ELSE row[p]
    BY WaitsSet DEF Enqueue, Takes, Types, Rows, readVars
  <2>2. QED BY <2>1 DEF RowsFit, RowsRun
<1>2. \A o \in Offers : QueueCancel(o) => RowsRun'
  BY DEF RowsFit, RowsRun, Types, QueueTypes, ReadTypes, Queued, Ready, QueueCancel, SetRows,
       QueueLeaves, QueueGone, Release, Aborts, workVars
<1>3. \A o \in Offers : ReadEnds(o) => RowsRun'
  BY DEF RowsFit, RowsRun, Types, QueueTypes, ReadTypes, Queued, Ready, ReadEnds, AnswersQueue,
       SetRows, HashTaken
<1>4. \A o \in Offers : ReadFails(o) => RowsRun'
  BY DEF RowsFit, RowsRun, Types, QueueTypes, ReadTypes, Queued, Ready, ReadFails, AnswersQueue,
       SetRows, Settles
<1>5. \A o \in Offers : LateReturn(o) => RowsRun'
  BY DEF RowsFit, RowsRun, Types, QueueTypes, ReadTypes, Queued, Ready, LateReturn, Published,
       queueVars, workVars
<1>6. \A o \in Offers, force \in BOOLEAN : DetailsStart(o, force) => RowsRun'
  BY DEF RowsFit, RowsRun, Types, QueueTypes, ReadTypes, Queued, Ready, DetailsStart, Reads, queueVars,
       workVars
<1>7. \A o \in Offers : DetailsCancel(o) => RowsRun'
  BY DEF RowsFit, RowsRun, Types, QueueTypes, ReadTypes, Queued, Ready, DetailsCancel, Release, Aborts,
       queueVars, workVars
<1>8. \A o \in Offers : Age(o) => RowsRun'
  BY DEF RowsFit, RowsRun, Types, QueueTypes, ReadTypes, Queued, Ready, Age, queueVars, workVars
<1>9. \A o \in Offers, force \in BOOLEAN, refresh \in BOOLEAN : AnalysisStart(o, force, refresh) => RowsRun'
  BY DEF RowsFit, RowsRun, Types, QueueTypes, ReadTypes, Queued, Ready, AnalysisStart, Reads,
       HashTaken, readVars, queueVars
<1>10. \A o \in Offers : AnalysisEnds(o) => RowsRun'
  BY DEF RowsFit, RowsRun, Types, QueueTypes, ReadTypes, Queued, Ready, AnalysisEnds, Completed,
       HashForgotten, queueVars, readVars
<1>11. \A o \in Offers : AnalysisCancel(o) => RowsRun'
  BY DEF RowsFit, RowsRun, Types, QueueTypes, ReadTypes, Queued, Ready, AnalysisCancel, Release,
       Aborts, queueVars
<1>12. \A o \in Offers : AbortedSettles(o) => RowsRun'
  BY DEF RowsFit, RowsRun, Types, QueueTypes, ReadTypes, Queued, Ready, AbortedSettles, HashForgotten,
       queueVars, readVars
<1>13. \A o \in Offers : Sighted(o) => RowsRun'
  BY DEF RowsFit, RowsRun, Types, QueueTypes, ReadTypes, Queued, Ready, Sighted, Given, queueVars,
       workVars
<1>14. \A o \in Offers : Hide(o) => RowsRun'
  BY DEF RowsFit, RowsRun, Types, QueueTypes, ReadTypes, Queued, Ready, Hide, readVars, workVars
<1>15. PumpIdle => RowsRun'  BY DEF RowsFit, RowsRun, Types, QueueTypes, ReadTypes, Queued, Ready,
     PumpIdle, PumpStops, readVars, workVars
<1>16. PumpDrops => RowsRun'
  <2> SUFFICES ASSUME PumpDrops PROVE RowsRun'
    OBVIOUS
  <2>1. up /\ line # <<>> /\ SetRows({Head(line)}, "cancelled") /\ wants' = wants /\ up' = up
    BY DEF PumpDrops, PumpStops, readVars
  <2>2. Head(line) \in Waits
    BY <2>1, LinedRest DEF RowsFit
  <2>3. \A p \in Offers : row'[p] = IF p = Head(line) THEN "cancelled" ELSE row[p]
    BY <2>1, <2>2, WaitsSet DEF Types, Rows, Waits
  <2>4. QED BY <2>1, <2>2, <2>3 DEF RowsFit, RowsRun, Waits
<1>17. Pump /\ PumpFresh(Head(line)) => RowsRun'
  <2> SUFFICES ASSUME Pump /\ PumpFresh(Head(line)) PROVE RowsRun'
    OBVIOUS
  <2>1. up /\ line # <<>> /\ SetRows({Head(line)}, "succeeded") /\ wants' = wants /\ up' = up
    BY DEF Pump, PumpFresh, PumpStops, readVars
  <2>2. Head(line) \in Waits
    BY <2>1, LinedRest DEF RowsFit
  <2>3. \A p \in Offers : row'[p] = IF p = Head(line) THEN "succeeded" ELSE row[p]
    BY <2>1, <2>2, WaitsSet DEF Types, Rows, Waits
  <2>4. QED BY <2>1, <2>2, <2>3 DEF RowsFit, RowsRun, Waits
<1>18. Pump /\ PumpFull(Head(line)) => RowsRun'
  BY DEF RowsFit, RowsRun, Types, QueueTypes, ReadTypes, Queued, Ready, Pump, PumpFull, PumpStops,
       Refund, readVars, workVars
<1>19. Pump /\ PumpReads(Head(line)) => RowsRun'
  BY DEF RowsFit, RowsRun, Types, QueueTypes, ReadTypes, Queued, Ready, Pump, PumpReads, PumpStops,
       Reads, SetRows, workVars
<1>20. Stop => RowsRun'  BY DEF RowsFit, RowsRun, Types, QueueTypes, ReadTypes, Queued, Ready, Stop,
     SetRows, QueueLeaves, QueueGone, Release, Aborts, workVars
<1>21. Clear => RowsRun'  BY DEF RowsFit, RowsRun, Types, QueueTypes, ReadTypes, Queued, Ready, Clear,
     SetRows, QueueLeaves, QueueGone, Release, Aborts, workVars
<1>22. \A on \in BOOLEAN : Pause(on) => RowsRun'
  BY DEF RowsFit, RowsRun, Types, QueueTypes, ReadTypes, Queued, Ready, Pause, readVars, workVars
<1>23. Refetch => RowsRun'  BY DEF RowsFit, RowsRun, Types, QueueTypes, ReadTypes, Queued, Ready,
     Refetch, SetRows, QueueLeaves, QueueGone, Release, Aborts, workVars
<1>24. Crash => RowsRun'  BY DEF RowsFit, RowsRun, Types, QueueTypes, ReadTypes, Queued, Ready, Crash,
     Vanish
<1>25. Close => RowsRun'  BY DEF RowsFit, RowsRun, Types, QueueTypes, ReadTypes, Queued, Ready, Close,
     Vanish
<1>26. Restart => RowsRun'
  <2> SUFFICES ASSUME Restart PROVE RowsRun'
    OBVIOUS
  <2>1. SetRows(Recovered, "queued") /\ ~up /\ wants' = wants
    BY DEF Restart
  <2>2. \A p \in Offers : row'[p] # "running" /\ wants[p] = {}
    BY <2>1 DEF SetRows, Recovered, WorkFits
  <2>3. QED BY <2>1, <2>2 DEF RowsRun
<1>27. UNCHANGED offerVars => RowsRun'
  BY DEF RowsFit, RowsRun, Types, QueueTypes, ReadTypes, Queued, Ready, offerVars, queueVars, readVars,
       workVars
<1>28. QED
  BY <1>1, <1>2, <1>3, <1>4, <1>5, <1>6, <1>7, <1>8, <1>9, <1>10, <1>11, <1>12, <1>13, <1>14, <1>15,
       <1>16, <1>17, <1>18, <1>19, <1>20, <1>21, <1>22, <1>23, <1>24, <1>25, <1>26, <1>27, Cases

(* A read that ends or is let go takes no slot; one that begins has one. *)
LEMMA SlotsLess ==
  ASSUME DetailsAssumption, SlotsFit, Fetching' \subseteq Fetching, Queued' \subseteq Queued
  PROVE  SlotsFit'
<1>1. IsFiniteSet(Fetching) /\ IsFiniteSet(Queued)
  BY FS_Subset DEF DetailsAssumption, Fetching, Queued
<1>2. /\ Cardinality(Fetching') <= Cardinality(Fetching) /\ Cardinality(Queued') <= Cardinality(Queued)
      /\ {Cardinality(Fetching), Cardinality(Queued), Cardinality(Fetching'), Cardinality(Queued')} \subseteq Nat
  BY <1>1, FS_Subset, FS_CardinalityType
<1>3. QED BY <1>2 DEF SlotsFit, DetailsAssumption

LEMMA SlotsMore ==
  ASSUME DetailsAssumption, SlotsFit, ReadTypes, NEW o \in Offers, NEW w \in Waiter, NEW force,
         CanRead(o, force), Reads(o, w), w = "queue" => Cardinality(Queued) < Consumers
  PROVE  SlotsFit'
<1>1. IsFiniteSet(Fetching) /\ IsFiniteSet(Queued)
  BY FS_Subset DEF DetailsAssumption, Fetching, Queued
<1>2. \A p \in Offers : wants'[p] = IF p = o THEN wants[p] \cup {w} ELSE wants[p]
  BY DEF Reads, ReadTypes
<1>3. Fetching' = Fetching \cup {o} /\ Queued' = IF w = "queue" THEN Queued \cup {o} ELSE Queued
  BY <1>2 DEF Fetching, Queued
<1>4. {Cardinality(Fetching), Cardinality(Queued)} \subseteq Nat
  BY <1>1, FS_CardinalityType
<1>5. Cardinality(Fetching') <= MaxFetches
  <2>1. CASE o \in Fetching
    <3>1. Fetching' = Fetching  BY <1>3, <2>1
    <3>2. QED BY <3>1 DEF SlotsFit
  <2>2. CASE o \notin Fetching
    <3>1. Cardinality(Fetching') = Cardinality(Fetching) + 1
      BY <1>1, <1>3, <2>2, FS_AddElement
    <3>2. QED BY <3>1, <1>4, <2>2 DEF CanRead, DetailsAssumption
  <2>3. QED BY <2>1, <2>2
<1>6. Cardinality(Queued') <= Consumers
  <2>1. CASE Queued' = Queued
    BY <2>1 DEF SlotsFit
  <2>2. CASE Queued' # Queued
    <3>1. w = "queue" /\ Cardinality(Queued') = Cardinality(Queued) + 1
      <4>1. Queued' = Queued \cup {o} /\ o \notin Queued /\ w = "queue"
        BY <1>3, <2>2
      <4>2. QED BY <1>1, <4>1, FS_AddElement
    <3>2. QED BY <3>1, <1>4 DEF DetailsAssumption
  <2>3. QED BY <2>1, <2>2
<1>7. QED BY <1>5, <1>6 DEF SlotsFit

(* No more reads than slots. *)
LEMMA SlotsStep ==
  ASSUME DetailsAssumption, ReadTypes, RowsFit, SlotsFit, [Next]_offerVars
  PROVE  SlotsFit'
<1> USE DEF DetailsAssumption, Waiter
<1>1. \A o \in Offers : Enqueue(o) => SlotsFit'
  BY SlotsLess DEF Fetching, Queued, ReadTypes, readVars, Enqueue, SetRows, readVars, workVars
<1>2. \A o \in Offers : QueueCancel(o) => SlotsFit'
  BY SlotsLess DEF Fetching, Queued, ReadTypes, readVars, QueueCancel, SetRows, QueueLeaves, QueueGone,
       Release, Aborts, workVars
<1>3. \A o \in Offers : ReadEnds(o) => SlotsFit'
  BY SlotsLess DEF Fetching, Queued, ReadTypes, readVars, ReadEnds, AnswersQueue, SetRows, HashTaken
<1>4. \A o \in Offers : ReadFails(o) => SlotsFit'
  BY SlotsLess DEF Fetching, Queued, ReadTypes, readVars, ReadFails, AnswersQueue, SetRows, Settles
<1>5. \A o \in Offers : LateReturn(o) => SlotsFit'
  BY SlotsLess DEF Fetching, Queued, ReadTypes, readVars, LateReturn, Published, queueVars, workVars
<1>6. \A o \in Offers, force \in BOOLEAN : DetailsStart(o, force) => SlotsFit'
  <2> SUFFICES ASSUME NEW o \in Offers, NEW force \in BOOLEAN, DetailsStart(o, force) PROVE SlotsFit'
    OBVIOUS
  <2>1. CASE CanRead(o, force) /\ Reads(o, "person")
    BY <2>1, SlotsMore
  <2>2. CASE UNCHANGED wants
    BY <2>2, SlotsLess DEF Fetching, Queued
  <2>3. QED BY <2>1, <2>2 DEF DetailsStart
<1>7. \A o \in Offers : DetailsCancel(o) => SlotsFit'
  BY SlotsLess DEF Fetching, Queued, ReadTypes, readVars, DetailsCancel, Release, Aborts, queueVars,
       workVars
<1>8. \A o \in Offers : Age(o) => SlotsFit'
  BY SlotsLess DEF Fetching, Queued, ReadTypes, readVars, Age, queueVars, workVars
<1>9. \A o \in Offers, force \in BOOLEAN, refresh \in BOOLEAN : AnalysisStart(o, force,
     refresh) => SlotsFit'
  <2> SUFFICES ASSUME NEW o \in Offers, NEW force \in BOOLEAN, NEW refresh \in BOOLEAN,
       AnalysisStart(o, force, refresh) PROVE SlotsFit'
    OBVIOUS
  <2>1. CASE CanRead(o, refresh) /\ Reads(o, "analysis")
    BY <2>1, SlotsMore
  <2>2. CASE UNCHANGED wants
    BY <2>2, SlotsLess DEF Fetching, Queued
  <2>3. QED BY <2>1, <2>2 DEF AnalysisStart, readVars
<1>10. \A o \in Offers : AnalysisEnds(o) => SlotsFit'
  BY SlotsLess DEF Fetching, Queued, ReadTypes, readVars, AnalysisEnds, Completed, HashForgotten,
       queueVars, readVars
<1>11. \A o \in Offers : AnalysisCancel(o) => SlotsFit'
  BY SlotsLess DEF Fetching, Queued, ReadTypes, readVars, AnalysisCancel, Release, Aborts, queueVars
<1>12. \A o \in Offers : AbortedSettles(o) => SlotsFit'
  BY SlotsLess DEF Fetching, Queued, ReadTypes, readVars, AbortedSettles, HashForgotten, queueVars,
       readVars
<1>13. \A o \in Offers : Sighted(o) => SlotsFit'
  BY SlotsLess DEF Fetching, Queued, ReadTypes, readVars, Sighted, Given, queueVars, workVars
<1>14. \A o \in Offers : Hide(o) => SlotsFit'
  BY SlotsLess DEF Fetching, Queued, ReadTypes, readVars, Hide, readVars, workVars
<1>15. PumpIdle => SlotsFit'
  BY SlotsLess DEF Fetching, Queued, ReadTypes, readVars, PumpIdle, PumpStops, readVars, workVars
<1>16. PumpDrops => SlotsFit'
  BY SlotsLess DEF Fetching, Queued, ReadTypes, readVars, PumpDrops, PumpStops, SetRows, readVars,
       workVars
<1>17. Pump /\ PumpFresh(Head(line)) => SlotsFit'
  BY SlotsLess DEF Fetching, Queued, Pump, PumpFresh, readVars
<1>18. Pump /\ PumpFull(Head(line)) => SlotsFit'
  BY SlotsLess DEF Fetching, Queued, Pump, PumpFull, readVars
<1>19. Pump /\ PumpReads(Head(line)) => SlotsFit'
  <2> SUFFICES ASSUME Pump /\ PumpReads(Head(line)) PROVE SlotsFit'
    OBVIOUS
  <2>1. line # <<>> /\ Cardinality(Queued) < Consumers /\ PumpReads(Head(line))
    <3>1. Cardinality(Queued) \in Nat
      BY FS_Subset, FS_CardinalityType DEF Queued
    <3>2. QED BY <3>1 DEF Pump, PumpStops
  <2>2. Head(line) \in Offers
    BY <2>1, LinedRest DEF RowsFit, Waits
  <2>3. QED BY <2>1, <2>2, SlotsMore DEF PumpReads
<1>20. Stop => SlotsFit'
  BY SlotsLess DEF Fetching, Queued, ReadTypes, readVars, Stop, SetRows, QueueLeaves, QueueGone,
       Release, Aborts, workVars
<1>21. Clear => SlotsFit'
  BY SlotsLess DEF Fetching, Queued, ReadTypes, readVars, Clear, SetRows, QueueLeaves, QueueGone,
       Release, Aborts, workVars
<1>22. \A on \in BOOLEAN : Pause(on) => SlotsFit'
  BY SlotsLess DEF Fetching, Queued, ReadTypes, readVars, Pause, readVars, workVars
<1>23. Refetch => SlotsFit'
  BY SlotsLess DEF Fetching, Queued, ReadTypes, readVars, Refetch, SetRows, QueueLeaves, QueueGone,
       Release, Aborts, workVars
<1>24. Crash => SlotsFit'
  BY SlotsLess DEF Fetching, Queued, ReadTypes, readVars, Crash, Vanish
<1>25. Close => SlotsFit'
  BY SlotsLess DEF Fetching, Queued, ReadTypes, readVars, Close, Vanish
<1>26. Restart => SlotsFit'
  BY SlotsLess DEF Fetching, Queued, ReadTypes, readVars, Restart, SetRows, Recovered
<1>27. UNCHANGED offerVars => SlotsFit'
  BY SlotsLess DEF Fetching, Queued, offerVars, readVars
<1>28. QED
  BY <1>1, <1>2, <1>3, <1>4, <1>5, <1>6, <1>7, <1>8, <1>9, <1>10, <1>11, <1>12, <1>13, <1>14, <1>15,
       <1>16, <1>17, <1>18, <1>19, <1>20, <1>21, <1>22, <1>23, <1>24, <1>25, <1>26, <1>27, Cases

-----------------------------------------------------------------------------
(* Every step keeps the invariant, and the first state has it. *)
LEMMA DetailsStep ==
  ASSUME DetailsAssumption, DetailsInv, [Next]_offerVars
  PROVE  DetailsInv'
<1>1. Types /\ RowsFit /\ SlotsFit /\ WorkFits /\ TextFits /\ QueueGoesOn /\ BudgetIsKept
  BY DEF DetailsInv
<1>2. QueueTypes /\ ReadTypes /\ WorkTypes
  BY <1>1 DEF Types
<1>3. Types'
  <2>1. QueueTypes'  BY <1>2, QueueTypeStep
  <2>2. ReadTypes'   BY <1>1, <1>2, ReadTypeStep
  <2>3. WorkTypes'   BY <1>2, <2>2, WorkTypeStep
  <2>4. QED BY <2>1, <2>2, <2>3 DEF Types
<1>4. RowsFit'
  BY <1>1, LineStep, RowStep DEF RowsFit
<1>5. SlotsFit'      BY <1>1, <1>2, SlotsStep
<1>6. WorkFits'      BY <1>1, WorkStep
<1>7. TextFits'      BY <1>1, TextStep
<1>8. QueueGoesOn'   BY <1>1, GoesStep
<1>9. BudgetIsKept'  BY <1>1, BudgetStep
<1>10. QED BY <1>3, <1>4, <1>5, <1>6, <1>7, <1>8, <1>9 DEF DetailsInv

LEMMA DetailsFirst ==
  ASSUME DetailsAssumption, Init
  PROVE  DetailsInv
<1>1. Types
  <2>1. QueueTypes
    <3>1. Budget \in Nat /\ 0 \in 0 .. Budget  BY DEF DetailsAssumption
    <3>2. QED BY <3>1 DEF Init, QueueTypes, Rows
  <2>2. ReadTypes   BY DEF Init, DetailsAssumption, ReadTypes
  <2>3. WorkTypes   BY DEF Init, DetailsAssumption, WorkTypes
  <2>4. QED BY <2>1, <2>2, <2>3 DEF Types
<1>2. RowsFit
  <2>1. Waits = {} /\ line = <<>>  BY DEF Init, Waits
  <2>2. QED BY <2>1, LinedNone DEF RowsFit, RowsRun, Init
<1>3. SlotsFit
  <2>1. Fetching = {} /\ Queued = {}  BY DEF Init, Fetching, Queued
  <2>2. QED BY <2>1, FS_EmptySet DEF SlotsFit, DetailsAssumption
<1>4. WorkFits /\ TextFits /\ QueueGoesOn /\ BudgetIsKept
  BY DEF Init, WorkFits, TextFits, AnalysisIsOfText, QueueGoesOn, BudgetIsKept, DetailsAssumption
<1>5. QED BY <1>1, <1>2, <1>3, <1>4 DEF DetailsInv

(* The invariant says all that the run asks of the reads. *)
LEMMA DetailsHolds ==
  ASSUME DetailsAssumption, DetailsInv
  PROVE  ReadsAreAccounted
<1>1. TypeOK
  BY DEF DetailsInv, Types, QueueTypes, ReadTypes, WorkTypes, RowsFit, Lined, TypeOK
<1>2. ReadsAreWanted
  <2>1. \A o \in Offers : row[o] = "queued" <=> o \in Ready
    BY LinedIs DEF DetailsInv, RowsFit, Waits, Ready
  <2>2. QED BY <2>1 DEF DetailsInv, RowsFit, RowsRun, SlotsFit, WorkFits, ReadsAreWanted, Fetching,
       Queued
<1>3. QED BY <1>1, <1>2 DEF DetailsInv, TextFits, ReadsAreAccounted


(* What CancelledStays says, by the part of the state. *)
RowsStand == \A p \in Offers : row[p] = "cancelled" /\ row'[p] # "cancelled" => Refetch
AnalysesStand == \A p \in Offers : enr[p] = "cancelled" /\ enr'[p] # "cancelled" => AnalysisAsked(p)
TextsStand == \A p \in Offers : text'[p] # text[p] => p \in Fetching \/ Sighted(p)

(* The same, with the analyses a person can ask for. *)
LEMMA CasesAsked ==
  ASSUME NEW P, DetailsAssumption, [Next]_offerVars,
         \A o \in Offers : Enqueue(o) => P,
         \A o \in Offers : QueueCancel(o) => P,
         \A o \in Offers : ReadEnds(o) => P,
         \A o \in Offers : ReadFails(o) => P,
         \A o \in Offers : LateReturn(o) => P,
         \A o \in Offers, force \in BOOLEAN : DetailsStart(o, force) => P,
         \A o \in Offers : DetailsCancel(o) => P,
         \A o \in Offers : Age(o) => P,
         \A o \in Offers : AnalysisAsked(o) => P,
         \A o \in Offers : AnalysisEnds(o) => P,
         \A o \in Offers : AnalysisCancel(o) => P,
         \A o \in Offers : AbortedSettles(o) => P,
         \A o \in Offers : Sighted(o) => P,
         \A o \in Offers : Hide(o) => P,
         PumpIdle => P,
         PumpDrops => P,
         Pump /\ PumpFresh(Head(line)) => P,
         Pump /\ PumpFull(Head(line)) => P,
         Pump /\ PumpReads(Head(line)) => P,
         Stop => P,
         Clear => P,
         \A on \in BOOLEAN : Pause(on) => P,
         Refetch => P,
         Crash => P,
         Close => P,
         Restart => P,
         UNCHANGED offerVars => P
  PROVE  P
BY DEF DetailsAssumption, Next, QueueStep, PersonStep, StudyStep, Import, Sighted, Pump

(* A cancelled row stays cancelled. *)
LEMMA RowStands ==
  ASSUME DetailsAssumption, Types, RowsFit, WorkFits, [Next]_offerVars
  PROVE  RowsStand
<1> USE DEF DetailsAssumption, RowsStand
<1>1. \A o \in Offers : Enqueue(o) => RowsStand
  <2> SUFFICES ASSUME NEW o \in Offers, Enqueue(o) PROVE RowsStand
    OBVIOUS
  <2>1. row[o] # "cancelled" /\ \A p \in Offers : row'[p] = IF p = o THEN "queued" ELSE row[p]
    BY WaitsSet DEF Enqueue, Takes, Types, Rows
  <2>2. QED BY <2>1
<1>2. \A o \in Offers : QueueCancel(o) => RowsStand
  BY DEF Types, QueueTypes, RowsFit, RowsRun, Queued, QueueCancel, SetRows, QueueLeaves, QueueGone,
       Release, Aborts, workVars
<1>3. \A o \in Offers : ReadEnds(o) => RowsStand
  BY DEF Types, QueueTypes, RowsFit, RowsRun, Queued, ReadEnds, AnswersQueue, SetRows, HashTaken
<1>4. \A o \in Offers : ReadFails(o) => RowsStand
  BY DEF Types, QueueTypes, RowsFit, RowsRun, Queued, ReadFails, AnswersQueue, SetRows, Settles
<1>5. \A o \in Offers : LateReturn(o) => RowsStand
  BY DEF Types, QueueTypes, RowsFit, RowsRun, Queued, LateReturn, Published, queueVars, workVars
<1>6. \A o \in Offers, force \in BOOLEAN : DetailsStart(o, force) => RowsStand
  BY DEF Types, QueueTypes, RowsFit, RowsRun, Queued, DetailsStart, Reads, queueVars, workVars
<1>7. \A o \in Offers : DetailsCancel(o) => RowsStand
  BY DEF Types, QueueTypes, RowsFit, RowsRun, Queued, DetailsCancel, Release, Aborts, queueVars,
       workVars
<1>8. \A o \in Offers : Age(o) => RowsStand
  BY DEF Types, QueueTypes, RowsFit, RowsRun, Queued, Age, queueVars, workVars
<1>9. \A o \in Offers : AnalysisAsked(o) => RowsStand
  BY DEF Types, QueueTypes, RowsFit, RowsRun, Queued, AnalysisAsked, AnalysisStart, readVars, queueVars
<1>10. \A o \in Offers : AnalysisEnds(o) => RowsStand
  BY DEF Types, QueueTypes, RowsFit, RowsRun, Queued, AnalysisEnds, Completed, HashForgotten,
       queueVars, readVars
<1>11. \A o \in Offers : AnalysisCancel(o) => RowsStand
  BY DEF Types, QueueTypes, RowsFit, RowsRun, Queued, AnalysisCancel, Release, Aborts, queueVars
<1>12. \A o \in Offers : AbortedSettles(o) => RowsStand
  BY DEF Types, QueueTypes, RowsFit, RowsRun, Queued, AbortedSettles, HashForgotten, queueVars, readVars
<1>13. \A o \in Offers : Sighted(o) => RowsStand
  BY DEF Types, QueueTypes, RowsFit, RowsRun, Queued, Sighted, Given, queueVars, workVars
<1>14. \A o \in Offers : Hide(o) => RowsStand
  BY DEF Types, QueueTypes, RowsFit, RowsRun, Queued, Hide, readVars, workVars
<1>15. PumpIdle => RowsStand  BY DEF Types, QueueTypes, RowsFit, RowsRun, Queued, PumpIdle, PumpStops,
     readVars, workVars
<1>16. PumpDrops => RowsStand
  <2> SUFFICES ASSUME PumpDrops PROVE RowsStand
    OBVIOUS
  <2>1. line # <<>> /\ SetRows({Head(line)}, "cancelled")
    BY DEF Pump, PumpDrops, PumpStops
  <2>2. Head(line) \in Waits
    BY <2>1, LinedRest DEF RowsFit
  <2>3. QED BY <2>1, <2>2 DEF SetRows, Waits
<1>17. Pump /\ PumpFresh(Head(line)) => RowsStand
  <2> SUFFICES ASSUME Pump /\ PumpFresh(Head(line)) PROVE RowsStand
    OBVIOUS
  <2>1. line # <<>> /\ SetRows({Head(line)}, "succeeded")
    BY DEF Pump, PumpFresh, PumpStops
  <2>2. Head(line) \in Waits
    BY <2>1, LinedRest DEF RowsFit
  <2>3. QED BY <2>1, <2>2 DEF SetRows, Waits
<1>18. Pump /\ PumpFull(Head(line)) => RowsStand
  BY DEF Types, QueueTypes, RowsFit, RowsRun, Queued, Pump, PumpFull, PumpStops, Refund, readVars,
       workVars
<1>19. Pump /\ PumpReads(Head(line)) => RowsStand
  <2> SUFFICES ASSUME Pump /\ PumpReads(Head(line)) PROVE RowsStand
    OBVIOUS
  <2>1. line # <<>> /\ SetRows({Head(line)}, "running")
    BY DEF Pump, PumpReads, PumpStops
  <2>2. Head(line) \in Waits
    BY <2>1, LinedRest DEF RowsFit
  <2>3. QED BY <2>1, <2>2 DEF SetRows, Waits
<1>20. Stop => RowsStand
  BY DEF Stop, SetRows, RowsFit, RowsRun, Queued
<1>21. Clear => RowsStand
  BY DEF Clear, SetRows
<1>22. \A on \in BOOLEAN : Pause(on) => RowsStand
  BY DEF Types, QueueTypes, RowsFit, RowsRun, Queued, Pause, readVars, workVars
<1>23. Refetch => RowsStand
  BY DEF Refetch
<1>24. Crash => RowsStand  BY DEF Types, QueueTypes, RowsFit, RowsRun, Queued, Crash, Vanish
<1>25. Close => RowsStand  BY DEF Types, QueueTypes, RowsFit, RowsRun, Queued, Close, Vanish
<1>26. Restart => RowsStand
  BY DEF Restart, SetRows, Recovered
<1>27. UNCHANGED offerVars => RowsStand
  BY DEF Types, QueueTypes, RowsFit, RowsRun, Queued, offerVars, queueVars, readVars, workVars
<1> HIDE DEF RowsStand
<1>28. QED
  BY <1>1, <1>2, <1>3, <1>4, <1>5, <1>6, <1>7, <1>8, <1>9, <1>10, <1>11, <1>12, <1>13, <1>14, <1>15,
       <1>16, <1>17, <1>18, <1>19, <1>20, <1>21, <1>22, <1>23, <1>24, <1>25, <1>26, <1>27, CasesAsked

(* A cancelled analysis stays cancelled. *)
LEMMA AnalysisStands ==
  ASSUME DetailsAssumption, Types, RowsFit, WorkFits, [Next]_offerVars
  PROVE  AnalysesStand
<1> USE DEF DetailsAssumption, AnalysesStand
<1>1. \A o \in Offers : Enqueue(o) => AnalysesStand
  BY DEF Types, WorkTypes, WorkFits, Fetching, Busy, Enqueue, SetRows, readVars, workVars
<1>2. \A o \in Offers : QueueCancel(o) => AnalysesStand
  BY DEF Types, WorkTypes, WorkFits, Fetching, Busy, QueueCancel, SetRows, QueueLeaves, QueueGone,
       Release, Aborts, workVars
<1>3. \A o \in Offers : ReadEnds(o) => AnalysesStand
  BY DEF Types, WorkTypes, WorkFits, Fetching, Busy, ReadEnds, AnswersQueue, SetRows, HashTaken
<1>4. \A o \in Offers : ReadFails(o) => AnalysesStand
  BY DEF Types, WorkTypes, WorkFits, Fetching, Busy, ReadFails, AnswersQueue, SetRows, Settles
<1>5. \A o \in Offers : LateReturn(o) => AnalysesStand
  BY DEF Types, WorkTypes, WorkFits, Fetching, Busy, LateReturn, Published, queueVars, workVars
<1>6. \A o \in Offers, force \in BOOLEAN : DetailsStart(o, force) => AnalysesStand
  BY DEF Types, WorkTypes, WorkFits, Fetching, Busy, DetailsStart, Reads, queueVars, workVars
<1>7. \A o \in Offers : DetailsCancel(o) => AnalysesStand
  BY DEF Types, WorkTypes, WorkFits, Fetching, Busy, DetailsCancel, Release, Aborts, queueVars, workVars
<1>8. \A o \in Offers : Age(o) => AnalysesStand
  BY DEF Types, WorkTypes, WorkFits, Fetching, Busy, Age, queueVars, workVars
<1>9. \A o \in Offers : AnalysisAsked(o) => AnalysesStand
  <2> SUFFICES ASSUME NEW o \in Offers, AnalysisAsked(o) PROVE AnalysesStand
    OBVIOUS
  <2>1. \E k \in {"analyzing", "fetching", "failed"} : enr' = [enr EXCEPT ![o] = k]
    BY DEF AnalysisAsked, AnalysisStart
  <2>2. \A p \in Offers : enr'[p] # enr[p] => p = o
    BY <2>1 DEF Types, WorkTypes
  <2>3. QED BY <2>2
<1>10. \A o \in Offers : AnalysisEnds(o) => AnalysesStand
  BY DEF Types, WorkTypes, WorkFits, Fetching, Busy, AnalysisEnds, Completed, HashForgotten, queueVars,
       readVars
<1>11. \A o \in Offers : AnalysisCancel(o) => AnalysesStand
  BY DEF Types, WorkTypes, WorkFits, Fetching, Busy, AnalysisCancel, Release, Aborts, queueVars
<1>12. \A o \in Offers : AbortedSettles(o) => AnalysesStand
  BY DEF Types, WorkTypes, WorkFits, Fetching, Busy, AbortedSettles, HashForgotten, queueVars, readVars
<1>13. \A o \in Offers : Sighted(o) => AnalysesStand
  BY DEF Types, WorkTypes, WorkFits, Fetching, Busy, Sighted, Given, queueVars, workVars
<1>14. \A o \in Offers : Hide(o) => AnalysesStand
  BY DEF Types, WorkTypes, WorkFits, Fetching, Busy, Hide, readVars, workVars
<1>15. PumpIdle => AnalysesStand
  BY DEF Types, WorkTypes, WorkFits, Fetching, Busy, PumpIdle, PumpStops, readVars, workVars
<1>16. PumpDrops => AnalysesStand
  BY DEF Types, WorkTypes, WorkFits, Fetching, Busy, PumpDrops, PumpStops, SetRows, readVars, workVars
<1>17. Pump /\ PumpFresh(Head(line)) => AnalysesStand
  BY DEF Types, WorkTypes, WorkFits, Fetching, Busy, Pump, PumpFresh, PumpStops, SetRows, readVars,
       workVars
<1>18. Pump /\ PumpFull(Head(line)) => AnalysesStand
  BY DEF Types, WorkTypes, WorkFits, Fetching, Busy, Pump, PumpFull, PumpStops, Refund, readVars,
       workVars
<1>19. Pump /\ PumpReads(Head(line)) => AnalysesStand
  BY DEF Types, WorkTypes, WorkFits, Fetching, Busy, Pump, PumpReads, PumpStops, Reads, SetRows,
       workVars
<1>20. Stop => AnalysesStand  BY DEF Types, WorkTypes, WorkFits, Fetching, Busy, Stop, SetRows,
     QueueLeaves, QueueGone, Release, Aborts, workVars
<1>21. Clear => AnalysesStand  BY DEF Types, WorkTypes, WorkFits, Fetching, Busy, Clear, SetRows,
     QueueLeaves, QueueGone, Release, Aborts, workVars
<1>22. \A on \in BOOLEAN : Pause(on) => AnalysesStand
  BY DEF Types, WorkTypes, WorkFits, Fetching, Busy, Pause, readVars, workVars
<1>23. Refetch => AnalysesStand
  BY DEF Types, WorkTypes, WorkFits, Fetching, Busy, Refetch, SetRows, QueueLeaves, QueueGone, Release,
       Aborts, workVars
<1>24. Crash => AnalysesStand  BY DEF Types, WorkTypes, WorkFits, Fetching, Busy, Crash, Vanish
<1>25. Close => AnalysesStand  BY DEF Types, WorkTypes, WorkFits, Fetching, Busy, Close, Vanish
<1>26. Restart => AnalysesStand
  BY DEF Types, WorkTypes, WorkFits, Fetching, Busy, Restart, SetRows, Recovered
<1>27. UNCHANGED offerVars => AnalysesStand
  BY DEF Types, WorkTypes, WorkFits, Fetching, Busy, offerVars, queueVars, readVars, workVars
<1> HIDE DEF AnalysesStand
<1>28. QED
  BY <1>1, <1>2, <1>3, <1>4, <1>5, <1>6, <1>7, <1>8, <1>9, <1>10, <1>11, <1>12, <1>13, <1>14, <1>15,
       <1>16, <1>17, <1>18, <1>19, <1>20, <1>21, <1>22, <1>23, <1>24, <1>25, <1>26, <1>27, CasesAsked

(* A text changes by a read that is wanted, or is given. *)
LEMMA TextStands ==
  ASSUME DetailsAssumption, Types, RowsFit, WorkFits, [Next]_offerVars
  PROVE  TextsStand
<1> USE DEF DetailsAssumption, TextsStand
<1>1. \A o \in Offers : Enqueue(o) => TextsStand
  BY DEF Types, ReadTypes, Enqueue, SetRows, readVars, workVars
<1>2. \A o \in Offers : QueueCancel(o) => TextsStand
  BY DEF Types, ReadTypes, QueueCancel, SetRows, QueueLeaves, QueueGone, Release, Aborts, workVars
<1>3. \A o \in Offers : ReadEnds(o) => TextsStand
  BY DEF Types, ReadTypes, ReadEnds, AnswersQueue, SetRows, HashTaken
<1>4. \A o \in Offers : ReadFails(o) => TextsStand
  BY DEF Types, ReadTypes, ReadFails, AnswersQueue, SetRows, Settles
<1>5. \A o \in Offers : LateReturn(o) => TextsStand
  BY DEF Types, ReadTypes, LateReturn, Published, queueVars, workVars
<1>6. \A o \in Offers, force \in BOOLEAN : DetailsStart(o, force) => TextsStand
  BY DEF Types, ReadTypes, DetailsStart, Reads, queueVars, workVars
<1>7. \A o \in Offers : DetailsCancel(o) => TextsStand
  BY DEF Types, ReadTypes, DetailsCancel, Release, Aborts, queueVars, workVars
<1>8. \A o \in Offers : Age(o) => TextsStand  BY DEF Types, ReadTypes, Age, queueVars, workVars
<1>9. \A o \in Offers : AnalysisAsked(o) => TextsStand
  BY DEF AnalysisAsked, AnalysisStart, Reads, readVars
<1>10. \A o \in Offers : AnalysisEnds(o) => TextsStand
  BY DEF Types, ReadTypes, AnalysisEnds, Completed, HashForgotten, queueVars, readVars
<1>11. \A o \in Offers : AnalysisCancel(o) => TextsStand
  BY DEF Types, ReadTypes, AnalysisCancel, Release, Aborts, queueVars
<1>12. \A o \in Offers : AbortedSettles(o) => TextsStand
  BY DEF Types, ReadTypes, AbortedSettles, HashForgotten, queueVars, readVars
<1>13. \A o \in Offers : Sighted(o) => TextsStand
  BY DEF Types, ReadTypes, Sighted, Given
<1>14. \A o \in Offers : Hide(o) => TextsStand  BY DEF Types, ReadTypes, Hide, readVars, workVars
<1>15. PumpIdle => TextsStand  BY DEF Types, ReadTypes, PumpIdle, PumpStops, readVars, workVars
<1>16. PumpDrops => TextsStand  BY DEF Types, ReadTypes, PumpDrops, PumpStops, SetRows, readVars,
     workVars
<1>17. Pump /\ PumpFresh(Head(line)) => TextsStand
  BY DEF Types, ReadTypes, Pump, PumpFresh, PumpStops, SetRows, readVars, workVars
<1>18. Pump /\ PumpFull(Head(line)) => TextsStand
  BY DEF Types, ReadTypes, Pump, PumpFull, PumpStops, Refund, readVars, workVars
<1>19. Pump /\ PumpReads(Head(line)) => TextsStand
  BY DEF Types, ReadTypes, Pump, PumpReads, PumpStops, Reads, SetRows, workVars
<1>20. Stop => TextsStand  BY DEF Types, ReadTypes, Stop, SetRows, QueueLeaves, QueueGone, Release,
     Aborts, workVars
<1>21. Clear => TextsStand  BY DEF Types, ReadTypes, Clear, SetRows, QueueLeaves, QueueGone, Release,
     Aborts, workVars
<1>22. \A on \in BOOLEAN : Pause(on) => TextsStand  BY DEF Types, ReadTypes, Pause, readVars, workVars
<1>23. Refetch => TextsStand  BY DEF Types, ReadTypes, Refetch, SetRows, QueueLeaves, QueueGone,
     Release, Aborts, workVars
<1>24. Crash => TextsStand  BY DEF Types, ReadTypes, Crash, Vanish
<1>25. Close => TextsStand  BY DEF Types, ReadTypes, Close, Vanish
<1>26. Restart => TextsStand  BY DEF Types, ReadTypes, Restart, SetRows, Recovered
<1>27. UNCHANGED offerVars => TextsStand
  BY DEF Types, ReadTypes, offerVars, queueVars, readVars, workVars
<1> HIDE DEF TextsStand
<1>28. QED
  BY <1>1, <1>2, <1>3, <1>4, <1>5, <1>6, <1>7, <1>8, <1>9, <1>10, <1>11, <1>12, <1>13, <1>14, <1>15,
       <1>16, <1>17, <1>18, <1>19, <1>20, <1>21, <1>22, <1>23, <1>24, <1>25, <1>26, <1>27, CasesAsked

(* What was cancelled stays so until somebody asks again, and a text changes *)
(* by a read that is wanted or by what is given.                            *)
LEMMA CancelledStep ==
  ASSUME DetailsAssumption, DetailsInv, [Next]_offerVars
  PROVE  CancelledStays
BY RowStands, AnalysisStands, TextStands
   DEF DetailsInv, CancelledStays, RowsStand, AnalysesStand, TextsStand

-----------------------------------------------------------------------------
(* The sessions of the run *)

(* B and S of MCDiscovery once more, with their theorems. *)
GB == INSTANCE SessionProofs WITH
       due <- pump,
       Sessions <- {s1}, Boards <- <<"b1", "b2">>, Offers <- {o1, o2}, Unclear <- {o2},
       Uses <- [s \in {s1} |-> {"hybrid"}], Managed <- {o1},
       MaxRequests <- 3, MaxCandidates <- 2, Target <- 2, MaxPages <- 2, MaxConcurrent <- 2,
       Cost <- 2, PageSize <- 1
GS == INSTANCE SessionProofs WITH
       due <- pump,
       Sessions <- {s1, s2}, Boards <- <<"b1">>, Offers <- {o1}, Unclear <- {o1},
       Uses <- [s \in {s1, s2} |-> IF s = s1 THEN {"live"}
                                   ELSE {"collection", "cache"}],
       Managed <- {o1}, MaxRequests <- 3, MaxCandidates <- 1, Target <- 1, MaxPages <- 2,
       MaxConcurrent <- 1, Cost <- 2, PageSize <- 1

LEMMA BoardsBounded == GB!DiscoveryAssumption
<1>1. B!DiscoveryAssumption => GB!DiscoveryAssumption
  BY Zenon DEF GB!BoardIds, B!BoardIds, GB!Kinds, B!Kinds, GB!DiscoveryAssumption,
      B!DiscoveryAssumption, GB!ToSet, B!ToSet, GB!IsFiniteSet, B!IsFiniteSet
<1>2. QED BY <1>1, InstancesAreBounded

LEMMA BoardsFirst == B!Init => GB!Init
  BY Zenon DEF GB!BoardIds, B!BoardIds, GB!Empty, B!Empty, GB!Init, B!Init, GB!ToSet, B!ToSet

LEMMA BoardsSteps == B!Next => GB!Next
  BY Zenon DEF GB!BoardIds, B!BoardIds, GB!sessionVars, B!sessionVars, GB!boardVars, B!boardVars,
      GB!memberVars, B!memberVars, GB!outVars, B!outVars, GB!Terminal, B!Terminal, GB!Quiet,
      B!Quiet, GB!Live, B!Live, GB!Done, B!Done, GB!AllInitial, B!AllInitial, GB!CollectAll,
      B!CollectAll, GB!Bump, B!Bump, GB!Suppressed, B!Suppressed, GB!Adds, B!Adds, GB!Collects,
      B!Collects, GB!Halted, B!Halted, GB!Stop, B!Stop, GB!Active, B!Active, GB!Cancels, B!Cancels,
      GB!Cancel, B!Cancel, GB!Deadline, B!Deadline, GB!DeleteSearch, B!DeleteSearch, GB!Begins,
      B!Begins, GB!Start, B!Start, GB!Refetch, B!Refetch, GB!Idle, B!Idle, GB!IdleFirst,
      B!IdleFirst, GB!IdleNext, B!IdleNext, GB!InOrder, B!InOrder, GB!PicksBoard, B!PicksBoard,
      GB!LimitReached, B!LimitReached, GB!Full, B!Full, GB!Spent, B!Spent, GB!NoBoard, B!NoBoard,
      GB!PumpStops, B!PumpStops, GB!PumpRests, B!PumpRests, GB!Pumping, B!Pumping, GB!PumpSkips,
      B!PumpSkips, GB!Room, B!Room, GB!Reserve, B!Reserve, GB!Fetch, B!Fetch, GB!Landed, B!Landed,
      GB!Refunds, B!Refunds, GB!Allowance, B!Allowance, GB!Arrives, B!Arrives, GB!Counts, B!Counts,
      GB!PageOk, B!PageOk, GB!PageFails, B!PageFails, GB!PageLate, B!PageLate, GB!AskNext,
      B!AskNext, GB!Manage, B!Manage, GB!Blacklist, B!Blacklist, GB!Refresh, B!Refresh,
      GB!DetailRequest, B!DetailRequest, GB!Next, B!Next, GB!ToSet, B!ToSet, GB!Cardinality,
      B!Cardinality

LEMMA BoardsStill == UNCHANGED searchVars => UNCHANGED GB!searchVars
BY DEF searchVars, GB!searchVars, GB!sessionVars, GB!memberVars, GB!outVars

(* What is proved of the one is what the run states of the other. *)
LEMMA BoardsSame ==
  /\ GB!TypeOK => B!TypeOK
  /\ GB!LedgerCovers => B!LedgerCovers
  /\ GB!BoundsHold => B!BoundsHold
  /\ GB!SessionGoesOn => B!SessionGoesOn
  /\ GB!DeletedStaysOut' => B!DeletedStaysOut'
  /\ GB!RevisionMoves => B!RevisionMoves
  /\ GB!EndedStays => B!EndedStays
<1>1. GB!TypeOK => B!TypeOK
  BY Zenon DEF GB!BoardIds, B!BoardIds, GB!Kinds, B!Kinds, GB!Terminal, B!Terminal, GB!TypeOK,
      B!TypeOK, GB!ToSet, B!ToSet
<1>2. GB!LedgerCovers => B!LedgerCovers
  BY Zenon DEF GB!LedgerCovers, B!LedgerCovers
<1>3. GB!BoundsHold => B!BoundsHold
  BY Zenon DEF GB!BoardIds, B!BoardIds, GB!BoundsHold, B!BoundsHold, GB!ToSet, B!ToSet,
      GB!Cardinality, B!Cardinality
<1>4. GB!SessionGoesOn => B!SessionGoesOn
  BY Zenon DEF GB!BoardIds, B!BoardIds, GB!Terminal, B!Terminal, GB!Live, B!Live, GB!Done, B!Done,
      GB!CollectAll, B!CollectAll, GB!SessionGoesOn, B!SessionGoesOn, GB!ToSet, B!ToSet
<1>5. GB!DeletedStaysOut' => B!DeletedStaysOut'
  BY Zenon DEF GB!DeletedStaysOut, B!DeletedStaysOut
<1>6. GB!RevisionMoves => B!RevisionMoves
  BY Zenon DEF GB!Suppressed, B!Suppressed, GB!Listed, B!Listed, GB!RevisionMoves, B!RevisionMoves
<1>7. GB!EndedStays => B!EndedStays
  BY Zenon DEF GB!Live, B!Live, GB!EndedStays, B!EndedStays
<1>8. QED BY <1>1, <1>2, <1>3, <1>4, <1>5, <1>6, <1>7

LEMMA SharedBounded == GS!DiscoveryAssumption
<1>1. S!DiscoveryAssumption => GS!DiscoveryAssumption
  BY Zenon DEF GS!BoardIds, S!BoardIds, GS!Kinds, S!Kinds, GS!DiscoveryAssumption,
      S!DiscoveryAssumption, GS!ToSet, S!ToSet, GS!IsFiniteSet, S!IsFiniteSet
<1>2. QED BY <1>1, InstancesAreBounded

LEMMA SharedFirst == S!Init => GS!Init
  BY Zenon DEF GS!BoardIds, S!BoardIds, GS!Empty, S!Empty, GS!Init, S!Init, GS!ToSet, S!ToSet

LEMMA SharedSteps == S!Next => GS!Next
  BY Zenon DEF GS!BoardIds, S!BoardIds, GS!sessionVars, S!sessionVars, GS!boardVars, S!boardVars,
      GS!memberVars, S!memberVars, GS!outVars, S!outVars, GS!Terminal, S!Terminal, GS!Quiet,
      S!Quiet, GS!Live, S!Live, GS!Done, S!Done, GS!AllInitial, S!AllInitial, GS!CollectAll,
      S!CollectAll, GS!Bump, S!Bump, GS!Suppressed, S!Suppressed, GS!Adds, S!Adds, GS!Collects,
      S!Collects, GS!Halted, S!Halted, GS!Stop, S!Stop, GS!Active, S!Active, GS!Cancels, S!Cancels,
      GS!Cancel, S!Cancel, GS!Deadline, S!Deadline, GS!DeleteSearch, S!DeleteSearch, GS!Begins,
      S!Begins, GS!Start, S!Start, GS!Refetch, S!Refetch, GS!Idle, S!Idle, GS!IdleFirst,
      S!IdleFirst, GS!IdleNext, S!IdleNext, GS!InOrder, S!InOrder, GS!PicksBoard, S!PicksBoard,
      GS!LimitReached, S!LimitReached, GS!Full, S!Full, GS!Spent, S!Spent, GS!NoBoard, S!NoBoard,
      GS!PumpStops, S!PumpStops, GS!PumpRests, S!PumpRests, GS!Pumping, S!Pumping, GS!PumpSkips,
      S!PumpSkips, GS!Room, S!Room, GS!Reserve, S!Reserve, GS!Fetch, S!Fetch, GS!Landed, S!Landed,
      GS!Refunds, S!Refunds, GS!Allowance, S!Allowance, GS!Arrives, S!Arrives, GS!Counts, S!Counts,
      GS!PageOk, S!PageOk, GS!PageFails, S!PageFails, GS!PageLate, S!PageLate, GS!AskNext,
      S!AskNext, GS!Manage, S!Manage, GS!Blacklist, S!Blacklist, GS!Refresh, S!Refresh,
      GS!DetailRequest, S!DetailRequest, GS!Next, S!Next, GS!ToSet, S!ToSet, GS!Cardinality,
      S!Cardinality

LEMMA SharedStill == UNCHANGED searchVars => UNCHANGED GS!searchVars
BY DEF searchVars, GS!searchVars, GS!sessionVars, GS!memberVars, GS!outVars

(* What is proved of the one is what the run states of the other. *)
LEMMA SharedSame ==
  /\ GS!TypeOK => S!TypeOK
  /\ GS!LedgerCovers => S!LedgerCovers
  /\ GS!BoundsHold => S!BoundsHold
  /\ GS!SessionGoesOn => S!SessionGoesOn
  /\ GS!DeletedStaysOut' => S!DeletedStaysOut'
  /\ GS!RevisionMoves => S!RevisionMoves
  /\ GS!EndedStays => S!EndedStays
<1>1. GS!TypeOK => S!TypeOK
  BY Zenon DEF GS!BoardIds, S!BoardIds, GS!Kinds, S!Kinds, GS!Terminal, S!Terminal, GS!TypeOK,
      S!TypeOK, GS!ToSet, S!ToSet
<1>2. GS!LedgerCovers => S!LedgerCovers
  BY Zenon DEF GS!LedgerCovers, S!LedgerCovers
<1>3. GS!BoundsHold => S!BoundsHold
  BY Zenon DEF GS!BoardIds, S!BoardIds, GS!BoundsHold, S!BoundsHold, GS!ToSet, S!ToSet,
      GS!Cardinality, S!Cardinality
<1>4. GS!SessionGoesOn => S!SessionGoesOn
  BY Zenon DEF GS!BoardIds, S!BoardIds, GS!Terminal, S!Terminal, GS!Live, S!Live, GS!Done, S!Done,
      GS!CollectAll, S!CollectAll, GS!SessionGoesOn, S!SessionGoesOn, GS!ToSet, S!ToSet
<1>5. GS!DeletedStaysOut' => S!DeletedStaysOut'
  BY Zenon DEF GS!DeletedStaysOut, S!DeletedStaysOut
<1>6. GS!RevisionMoves => S!RevisionMoves
  BY Zenon DEF GS!Suppressed, S!Suppressed, GS!Listed, S!Listed, GS!RevisionMoves, S!RevisionMoves
<1>7. GS!EndedStays => S!EndedStays
  BY Zenon DEF GS!Live, S!Live, GS!EndedStays, S!EndedStays
<1>8. QED BY <1>1, <1>2, <1>3, <1>4, <1>5, <1>6, <1>7

-----------------------------------------------------------------------------
(* The run *)

SearchInv == IF focus = "shared" THEN GS!SessionInv ELSE GB!SessionInv
RunInv == DetailsInv /\ SearchInv

LEMMA RunSteps ==
  ASSUME [DiscoveryNext]_discoveryVars
  PROVE  /\ [Next]_offerVars /\ focus' = focus
         /\ focus = "shared" => [GS!Next]_(GS!searchVars)
         /\ focus # "shared" => [GB!Next]_(GB!searchVars)
<1>1. [Next]_offerVars /\ focus' = focus
  BY DEF DiscoveryNext, discoveryVars
<1>2. focus = "shared" => S!Next \/ UNCHANGED searchVars
  BY DEF DiscoveryNext, discoveryVars
<1>3. focus # "shared" => B!Next \/ UNCHANGED searchVars
  BY DEF DiscoveryNext, discoveryVars
<1>4. QED BY <1>1, <1>2, <1>3, BoardsSteps, SharedSteps, BoardsStill, SharedStill

LEMMA RunFirst == DiscoveryInit => RunInv
<1> SUFFICES ASSUME DiscoveryInit PROVE RunInv
  OBVIOUS
<1>1. DetailsInv
  BY DetailsFirst, InstancesAreBounded DEF DiscoveryInit
<1>2. CASE focus = "shared"
  <2>1. GS!Init  BY <1>2, SharedFirst DEF DiscoveryInit
  <2>2. GS!SessionInv  BY <2>1, SharedBounded, GS!SessionFirst
  <2>3. QED BY <1>1, <1>2, <2>2 DEF RunInv, SearchInv
<1>3. CASE focus # "shared"
  <2>1. GB!Init  BY <1>3, BoardsFirst DEF DiscoveryInit
  <2>2. GB!SessionInv  BY <2>1, BoardsBounded, GB!SessionFirst
  <2>3. QED BY <1>1, <1>3, <2>2 DEF RunInv, SearchInv
<1>4. QED BY <1>2, <1>3

LEMMA RunStep ==
  ASSUME RunInv, [DiscoveryNext]_discoveryVars
  PROVE  /\ RunInv' /\ CancelledStays
         /\ focus # "shared" => B!RevisionMoves /\ B!DeletedStaysOut' /\ B!EndedStays
         /\ focus = "shared" => S!RevisionMoves /\ S!DeletedStaysOut' /\ S!EndedStays
<1>1. DetailsInv' /\ CancelledStays
  BY RunSteps, DetailsStep, CancelledStep, InstancesAreBounded DEF RunInv
<1>2. CASE focus = "shared"
  <2>1. GS!SessionInv' /\ GS!RevisionMoves /\ GS!EndedStays
    BY <1>2, RunSteps, SharedBounded, GS!SessionStep DEF RunInv, SearchInv
  <2>2. GS!DeletedStaysOut'
    BY <2>1 DEF GS!SessionInv
  <2>3. S!RevisionMoves /\ S!DeletedStaysOut' /\ S!EndedStays
    BY <2>1, <2>2, SharedSame
  <2>4. QED BY <1>1, <1>2, <2>1, <2>3, RunSteps DEF RunInv, SearchInv
<1>3. CASE focus # "shared"
  <2>1. GB!SessionInv' /\ GB!RevisionMoves /\ GB!EndedStays
    BY <1>3, RunSteps, BoardsBounded, GB!SessionStep DEF RunInv, SearchInv
  <2>2. GB!DeletedStaysOut'
    BY <2>1 DEF GB!SessionInv
  <2>3. B!RevisionMoves /\ B!DeletedStaysOut' /\ B!EndedStays
    BY <2>1, <2>2, BoardsSame
  <2>4. QED BY <1>1, <1>3, <2>1, <2>3, RunSteps DEF RunInv, SearchInv
<1>4. QED BY <1>2, <1>3

LEMMA RunHolds == RunInv => ReadsAreAccounted /\ LedgerCovers
<1> SUFFICES ASSUME RunInv PROVE ReadsAreAccounted /\ LedgerCovers
  OBVIOUS
<1>1. ReadsAreAccounted
  BY DetailsHolds, InstancesAreBounded DEF RunInv
<1>2. focus = "shared" => S!TypeOK /\ S!LedgerCovers /\ S!BoundsHold /\ S!SessionGoesOn
  BY SharedBounded, GS!SessionHolds, SharedSame DEF RunInv, SearchInv
<1>3. focus # "shared" => B!TypeOK /\ B!LedgerCovers /\ B!BoundsHold /\ B!SessionGoesOn
  BY BoardsBounded, GB!SessionHolds, BoardsSame DEF RunInv, SearchInv
<1>4. QED BY <1>1, <1>2, <1>3 DEF LedgerCovers

LEMMA RunHasInv == DiscoverySpec => []RunInv
<1>1. RunInv /\ [DiscoveryNext]_discoveryVars => RunInv'
  BY RunStep
<1>2. QED BY <1>1, RunFirst, PTL DEF DiscoverySpec

(* A row reads "running" exactly while the queue waits for a read and details read  *)
(* "fetching" only while somebody does, no wake-up is lost, the reads stay within   *)
(* the budget and an analysis is of the text it says it is of, for any offers and    *)
(* limits (runtime/offer-details.ts, runtime/detail-queue.ts, enrichment.ts).       *)
THEOREM ReadsAreKept == DiscoverySpec => []ReadsAreAccounted
BY RunHasInv, RunHolds, PTL

(* The ledger of a search covers what its sessions sent, and no session goes beyond  *)
(* its budget or stops short of its boards' ends (runtime/discovery.ts).            *)
THEOREM LedgerIsKept == DiscoverySpec => []LedgerCovers
BY RunHasInv, RunHolds, PTL

(* What a search lists changes only with its revision and holds nothing that was     *)
(* deleted from it (storage/sqlite/discovery-searches.ts).                          *)
THEOREM ReadersAreTold == DiscoverySpec => RevisionTells
<1>1. RunInv /\ [DiscoveryNext]_discoveryVars =>
        [/\ focus = "boards" => B!RevisionMoves /\ B!DeletedStaysOut'
         /\ focus = "shared" => S!RevisionMoves /\ S!DeletedStaysOut']_discoveryVars
  BY RunStep
<1>2. QED BY <1>1, RunHasInv, PTL DEF DiscoverySpec, RevisionTells

(* What was cancelled stays so, whatever returns late: rows, reads and analyses of   *)
(* an offer, and the sessions of a search.                                          *)
THEOREM CancelIsKept == DiscoverySpec => CancelStands
<1>1. RunInv /\ [DiscoveryNext]_discoveryVars =>
        [/\ CancelledStays
         /\ focus = "boards" => B!EndedStays
         /\ focus = "shared" => S!EndedStays]_discoveryVars
  BY RunStep
<1>2. QED BY <1>1, RunHasInv, PTL DEF DiscoverySpec, CancelStands
=============================================================================
