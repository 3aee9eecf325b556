-------------------------- MODULE OfferQueryProofs --------------------------
(***************************************************************************)
(* What holds of OfferQuery for every number of executions, searches,      *)
(* processes, snapshots and files.  First what the operators on the        *)
(* database do (Gc, Completed, Clean, SetRow, SearchDeleted); then the     *)
(* invariant Inv, one part per structure of the service, and one lemma per *)
(* action: from a state of Inv it leads to one, takes no verdict back, and *)
(* answers only what was asked (Kept).  The theorems follow; the last part *)
(* counts slots and the queue.                                             *)
(***************************************************************************)
EXTENDS MCOfferQuery, SequenceTheorems, FiniteSetTheorems, TLAPS

(* What gc can have done to d: g is what is left. *)
Collected(d, g, inUse) ==
  /\ g \in DbType
  /\ g.kept = d.kept /\ g.applied = d.applied /\ g.live = d.live /\ g.version = d.version
  /\ \A e \in Execs :
       \/ g.row[e] = d.row[e] /\ g.used[e] = d.used[e] /\ g.rows[e] = d.rows[e]
       \/ /\ d.row[e] \in SettledRows /\ e \notin d.kept /\ ~IsApplied(d, e)
          /\ g.row[e] = "expired" /\ g.used[e] = None
       \/ d.row[e] = "expired" /\ g.row[e] = "none" /\ g.used[e] = None
  /\ \A i \in Snaps :
       \/ g.snap[i] = d.snap[i]
       \/ g.snap[i] = NoSnap /\ i \notin inUse /\ \A e \in Execs : g.used[e] # i

(* Whatever gc picks, a result it drops was settled, kept by nobody and applied
   nowhere, and a snapshot it drops is named by no row and in no job's hands. *)
LEMMA GcCollects ==
  ASSUME NEW d \in DbType, NEW reserve, NEW young, NEW inUse,
         NEW g \in Gc(d, reserve, young, inUse)
  PROVE  Collected(d, g, inUse)
<1>1. PICK old \in SUBSET {e \in Execs \ young : d.row[e] \notin LiveRows} :
        \E D \in GcPicks(d, old, reserve), X \in SUBSET {i \in Snaps \ inUse : Alive(d, i)} :
           g = Dropped(d, old, D, X)
  BY DEF Gc
<1>2. PICK D \in GcPicks(d, old, reserve), X \in SUBSET {i \in Snaps \ inUse : Alive(d, i)} :
           g = Dropped(d, old, D, X)
  BY <1>1
<1> DEFINE gone == {e \in old : d.row[e] = "expired"}
           stale == {i \in X : \A e \in Execs : g.used[e] # i}
<1>3. D \subseteq Collectable(d, old)
  <2>1. CASE D \in {E \in SUBSET Collectable(d, old) : old \cap Collectable(d, old) \subseteq E}
    BY <2>1
  <2>2. CASE D = old \cap Collectable(d, old)
    BY <2>2
  <2>3. QED BY <2>1, <2>2 DEF GcPicks
<1>4. /\ g.row = [e \in Execs |-> IF e \in gone THEN "none" ELSE IF e \in D THEN "expired" ELSE d.row[e]]
      /\ g.used = [e \in Execs |-> IF e \in D \cup gone THEN None ELSE d.used[e]]
      /\ g.rows = [e \in Execs |-> IF e \in D \cup gone THEN None ELSE d.rows[e]]
      /\ g.pinned = d.pinned \ old
      /\ g.snap = [i \in Snaps |-> IF i \in stale THEN NoSnap ELSE d.snap[i]]
      /\ g.kept = d.kept /\ g.applied = d.applied /\ g.live = d.live /\ g.version = d.version
  BY <1>2 DEF DbType, Dropped
<1>5. g = [row |-> g.row, used |-> g.used, rows |-> g.rows, pinned |-> g.pinned, kept |-> g.kept,
           applied |-> g.applied, snap |-> g.snap, live |-> g.live, version |-> g.version]
  BY <1>2 DEF DbType, Dropped
<1>6. g \in DbType
  <2>1. g.row \in [Execs -> Rows]
    BY <1>4 DEF DbType, Rows
  <2>2. g.used \in [Execs -> Snaps \cup {None}] /\ g.rows \in [Execs -> Snaps \cup {None}]
    BY <1>4 DEF DbType
  <2>3. g.snap \in [Snaps -> [of : Searches \cup {Nobody}, version : 0 .. MaxVersion, ready : BOOLEAN]]
    BY <1>4, QueryAssumption DEF DbType, NoSnap
  <2>4. /\ g.pinned \in SUBSET Execs /\ g.kept \in SUBSET Execs /\ g.live \in SUBSET Searches
        /\ g.applied \in [Searches -> Execs \cup {Nobody}]
        /\ g.version \in [Searches -> 0 .. MaxVersion]
    BY <1>4 DEF DbType
  <2> HIDE DEF gone, stale
  <2>5. QED BY <1>5, <2>1, <2>2, <2>3, <2>4 DEF DbType
<1>7. \A e \in Execs :
       \/ g.row[e] = d.row[e] /\ g.used[e] = d.used[e] /\ g.rows[e] = d.rows[e]
       \/ /\ d.row[e] \in SettledRows /\ e \notin d.kept /\ ~IsApplied(d, e)
          /\ g.row[e] = "expired" /\ g.used[e] = None
       \/ d.row[e] = "expired" /\ g.row[e] = "none" /\ g.used[e] = None
  BY <1>3, <1>4 DEF Collectable
<1>8. \A i \in Snaps :
       \/ g.snap[i] = d.snap[i]
       \/ g.snap[i] = NoSnap /\ i \notin inUse /\ \A e \in Execs : g.used[e] # i
  BY <1>4
<1>9. QED BY <1>4, <1>6, <1>7, <1>8 DEF Collected

(* A row names a finished snapshot of its search; an answered one is of that snapshot;
   what is cited or applied is answered; and the rows of a deleted search are gone. *)
RowsFit(d) ==
  \A e \in Execs :
    /\ d.used[e] # None => d.snap[d.used[e]].of = OwnerOf[e] /\ d.snap[d.used[e]].ready
    /\ d.row[e] = "succeeded" => d.used[e] # None /\ d.rows[e] = d.used[e]
    /\ e \in d.kept \/ IsApplied(d, e) => d.row[e] = "succeeded"
    /\ OwnerOf[e] \notin d.live => d.row[e] = "none"

Snapshots == [of : Searches \cup {Nobody}, version : 0 .. MaxVersion, ready : BOOLEAN]

(* The fields of a database content, one by one. *)
LEMMA DbFields ==
  ASSUME NEW d \in DbType
  PROVE  /\ d.row \in [Execs -> Rows]
         /\ d.used \in [Execs -> Snaps \cup {None}] /\ d.rows \in [Execs -> Snaps \cup {None}]
         /\ d.pinned \in SUBSET Execs /\ d.kept \in SUBSET Execs
         /\ d.applied \in [Searches -> Execs \cup {Nobody}]
         /\ d.snap \in [Snaps -> Snapshots]
         /\ d.live \in SUBSET Searches /\ d.version \in [Searches -> 0 .. MaxVersion]
BY DEF DbType, Snapshots

(* Another content of the snapshots. *)
LEMMA SnapsSet ==
  ASSUME NEW d \in DbType, NEW sn \in [Snaps -> Snapshots]
  PROVE  LET x == [d EXCEPT !.snap = sn] IN
         /\ x \in DbType /\ x.snap = sn
         /\ x.row = d.row /\ x.used = d.used /\ x.rows = d.rows /\ x.kept = d.kept
         /\ x.applied = d.applied /\ x.live = d.live /\ x.version = d.version
BY DEF DbType, Snapshots

(* What is collected takes nothing a row that stays refers to. *)
LEMMA CollectedFits ==
  ASSUME NEW d \in DbType, NEW g, NEW inUse, Collected(d, g, inUse), RowsFit(d)
  PROVE  RowsFit(g)
<1> SUFFICES ASSUME NEW e \in Execs
             PROVE  /\ g.used[e] # None => g.snap[g.used[e]].of = OwnerOf[e] /\ g.snap[g.used[e]].ready
                    /\ g.row[e] = "succeeded" => g.used[e] # None /\ g.rows[e] = g.used[e]
                    /\ e \in g.kept \/ IsApplied(g, e) => g.row[e] = "succeeded"
                    /\ OwnerOf[e] \notin g.live => g.row[e] = "none"
  BY DEF RowsFit
<1>1. g.used[e] # None => g.used[e] = d.used[e] /\ d.used[e] \in Snaps /\ g.snap[d.used[e]] = d.snap[d.used[e]]
  BY DbFields DEF Collected
<1>2. g.row[e] = "succeeded" => d.row[e] = "succeeded" /\ g.used[e] = d.used[e] /\ g.rows[e] = d.rows[e]
  BY DEF Collected
<1>3. e \in g.kept \/ IsApplied(g, e) => g.row[e] = d.row[e]
  BY DEF Collected, RowsFit, IsApplied
<1>4. OwnerOf[e] \notin g.live => g.row[e] = "none"
  BY DEF Collected, RowsFit, SettledRows
<1>5. g.used[e] # None => g.snap[g.used[e]].of = OwnerOf[e] /\ g.snap[g.used[e]].ready
  BY <1>1 DEF RowsFit
<1>6. g.row[e] = "succeeded" => g.used[e] # None /\ g.rows[e] = g.used[e]
  BY <1>2 DEF RowsFit
<1>7. e \in g.kept \/ IsApplied(g, e) => g.row[e] = "succeeded"
  BY <1>3 DEF RowsFit, Collected, IsApplied
<1>8. QED BY <1>4, <1>5, <1>6, <1>7

(* The result of a query is in, or its row was gone. *)
StoredIn(d, x, e, content, inUse) ==
  \/ d.row[e] = "none" /\ x = d
  \/ d.row[e] # "none" /\ x \in DbType /\ \E g :
       /\ Collected(d, g, inUse)
       /\ x.row = [g.row EXCEPT ![e] = "succeeded"] /\ x.rows = [g.rows EXCEPT ![e] = content]
       /\ x.applied \in {g.applied, [g.applied EXCEPT ![OwnerOf[e]] = e]}
       /\ x.used = g.used /\ x.kept = g.kept /\ x.snap = g.snap /\ x.live = g.live
       /\ x.version = g.version

(* complete either finds no row and stores nothing, or collects first and stores then. *)
LEMMA CompletedStores ==
  ASSUME NEW d \in DbType, NEW e \in Execs, NEW content \in Snaps \cup {None}, NEW apply, NEW inUse,
         NEW x \in Completed(d, e, content, apply, inUse)
  PROVE  StoredIn(d, x, e, content, inUse)
<1>1. CASE d.row[e] = "none"
  BY <1>1 DEF Completed, StoredIn
<1>2. CASE d.row[e] # "none"
  <2> DEFINE s == OwnerOf[e]
             dropped == IF apply /\ d.applied[s] # Nobody THEN {d.applied[s]} ELSE {}
  <2>1. PICK g \in Gc(d, Size[e], {}, inUse) :
          x = [g EXCEPT !.row[e] = "succeeded", !.rows[e] = content,
                        !.pinned = (@ \cup {e}) \ dropped,
                        !.applied[s] = IF apply THEN e ELSE @]
    BY <1>2 DEF Completed
  <2>2. Collected(d, g, inUse) /\ g \in DbType
    BY GcCollects DEF Collected
  <2>3. /\ x.row = [g.row EXCEPT ![e] = "succeeded"] /\ x.rows = [g.rows EXCEPT ![e] = content]
        /\ x.applied = [g.applied EXCEPT ![s] = IF apply THEN e ELSE @]
        /\ x.used = g.used /\ x.kept = g.kept /\ x.snap = g.snap /\ x.live = g.live
        /\ x.version = g.version /\ x.pinned = (g.pinned \cup {e}) \ dropped
        /\ x = [row |-> x.row, used |-> x.used, rows |-> x.rows, pinned |-> x.pinned,
                kept |-> x.kept, applied |-> x.applied, snap |-> x.snap, live |-> x.live,
                version |-> x.version]
    BY <2>1, <2>2 DEF DbType
  <2>4. s \in Searches
    BY QueryAssumption
  <2> HIDE DEF s, dropped
  <2>5. x.applied \in {g.applied, [g.applied EXCEPT ![s] = e]}
    BY <2>2, <2>3, <2>4, DbFields
  <2>6. x \in DbType
    <3>1. x.row \in [Execs -> Rows] /\ x.rows \in [Execs -> Snaps \cup {None}] /\ x.pinned \in SUBSET Execs
          /\ x.applied \in [Searches -> Execs \cup {Nobody}]
      BY <2>2, <2>3, <2>4, DbFields DEF Rows, SettledRows
    <3>2. x.used \in [Execs -> Snaps \cup {None}] /\ x.kept \in SUBSET Execs
          /\ x.snap \in [Snaps -> Snapshots] /\ x.live \in SUBSET Searches
          /\ x.version \in [Searches -> 0 .. MaxVersion]
      BY <2>2, <2>3, DbFields
    <3>3. QED BY <2>3, <3>1, <3>2 DEF DbType, Snapshots
  <2>7. QED BY <1>2, <2>2, <2>3, <2>5, <2>6 DEF StoredIn, s
<1>3. QED BY <1>1, <1>2

(* The rows fit with the result in, if the row named the snapshot it was computed from. *)
LEMMA StoredFits ==
  ASSUME NEW d \in DbType, NEW x, NEW e \in Execs, NEW content, NEW inUse,
         StoredIn(d, x, e, content, inUse), RowsFit(d),
         d.row[e] \in LiveRows \cup {"none"},
         d.row[e] # "none" => content = d.used[e] /\ content # None
  PROVE  x \in DbType /\ RowsFit(x)
<1>1. CASE d.row[e] = "none"
  BY <1>1 DEF StoredIn
<1>2. CASE d.row[e] # "none"
  <2>1. PICK g :
       /\ Collected(d, g, inUse) /\ x \in DbType
       /\ x.row = [g.row EXCEPT ![e] = "succeeded"] /\ x.rows = [g.rows EXCEPT ![e] = content]
       /\ x.applied \in {g.applied, [g.applied EXCEPT ![OwnerOf[e]] = e]}
       /\ x.used = g.used /\ x.kept = g.kept /\ x.snap = g.snap /\ x.live = g.live
    BY <1>2 DEF StoredIn
  <2>2. RowsFit(g) /\ g \in DbType
    BY <2>1, CollectedFits DEF Collected
  <2>3. g.row[e] = d.row[e] /\ g.used[e] = d.used[e]
    BY <1>2, <2>1 DEF Collected, LiveRows, SettledRows
  <2>4. \A z \in Execs : x.row[z] = IF z = e THEN "succeeded" ELSE g.row[z]
    BY <2>1, <2>2, DbFields
  <2>5. \A z \in Execs : x.rows[z] = IF z = e THEN content ELSE g.rows[z]
    BY <2>1, <2>2, DbFields
  <2>6. \A z \in Execs \ {e} : IsApplied(x, z) => IsApplied(g, z)
    BY <2>1, <2>2, DbFields, QueryAssumption DEF IsApplied
  <2>7. OwnerOf[e] \in g.live
    BY <1>2, <2>3, <2>2 DEF RowsFit
  <2>8. QED BY <1>2, <2>1, <2>2, <2>3, <2>4, <2>5, <2>6, <2>7 DEF RowsFit
<1>3. QED BY <1>1, <1>2

(* What clean can have done. *)
Swept(ds, f, ph, kept, left) ==
  /\ kept \in [Snaps -> Paths \cup {Nobody}] /\ left \in [Paths -> Snaps \cup {None, Partial}]
  /\ \A i \in Snaps : kept[i] = ds[i] \/ kept[i] = Nobody
  /\ \A p \in Paths : left[p] = f[p] \/ (Reading(ph, p) = {} /\ \A i \in Snaps : kept[i] # p)

(* clean forgets datasets and removes files nobody reads and no dataset names. *)
LEMMA CleanSweeps ==
  ASSUME NEW d, NEW ds \in [Snaps -> Paths \cup {Nobody}], NEW f \in [Paths -> Snaps \cup {None, Partial}],
         NEW ph, NEW x \in Clean(d, ds, f, ph)
  PROVE  Swept(ds, f, ph, x.dataset, x.file)
<1>1. PICK alive, D :
        LET kept == [i \in Snaps |-> IF i \in alive \ D THEN ds[i] ELSE Nobody]
        IN  x = [dataset |-> kept,
                 file |-> [p \in Paths |-> IF Reading(ph, p) # {} \/ \E i \in Snaps : kept[i] = p
                                           THEN f[p] ELSE None]]
  BY DEF Clean
<1>2. QED BY <1>1 DEF Swept

-----------------------------------------------------------------------------
(* What a step can do to the rows of other jobs than j (Nobody: of any job), and *)
(* to the snapshots somebody works on (inUse): nothing.                          *)
Stands(r, q) ==
  /\ r \in SettledRows => q \in {r, "expired", "none"}
  /\ r = "expired" => q \in {"expired", "none"}

Later(d, x, j, inUse) ==
  /\ x.live = d.live /\ x.version = d.version
  /\ \A e \in Execs : Stands(d.row[e], x.row[e])
  /\ \A e \in Execs \ {j} :
       /\ d.row[e] \in LiveRows \cup {"none"} \/ x.row[e] \in LiveRows =>
            x.row[e] = d.row[e] /\ x.used[e] = d.used[e]
       /\ x.row[e] = "succeeded" => d.row[e] = "succeeded"
  /\ \A i \in Snaps : x.snap[i] = d.snap[i] \/ (i \notin inUse /\ x.snap[i] = NoSnap)

(* Collection leaves every verdict and the rows under way. *)
LEMMA CollectedIsLater ==
  ASSUME NEW d \in DbType, NEW g, NEW inUse, Collected(d, g, inUse)
  PROVE  Later(d, g, Nobody, inUse)
<1>1. \A e \in Execs : Stands(d.row[e], g.row[e])
  BY DEF Collected, Stands, SettledRows
<1>2. \A e \in Execs :
       /\ d.row[e] \in LiveRows \cup {"none"} \/ g.row[e] \in LiveRows =>
            g.row[e] = d.row[e] /\ g.used[e] = d.used[e]
       /\ g.row[e] = "succeeded" => d.row[e] = "succeeded"
  BY DEF Collected, SettledRows, LiveRows
<1>3. QED BY <1>1, <1>2 DEF Collected, Later

(* A stored result is a verdict of its own row and of no other. *)
LEMMA StoredIsLater ==
  ASSUME NEW d \in DbType, NEW x, NEW e \in Execs, NEW content, NEW inUse,
         StoredIn(d, x, e, content, inUse), d.row[e] \in LiveRows \cup {"none"}
  PROVE  Later(d, x, e, inUse) /\ x.row[e] \notin LiveRows
<1>1. CASE d.row[e] = "none"
  BY <1>1 DEF StoredIn, Later, Stands, SettledRows, LiveRows
<1>2. CASE d.row[e] # "none"
  <2>1. PICK g :
       /\ Collected(d, g, inUse)
       /\ x.row = [g.row EXCEPT ![e] = "succeeded"]
       /\ x.used = g.used /\ x.snap = g.snap /\ x.live = g.live /\ x.version = g.version
    BY <1>2 DEF StoredIn
  <2>2. Later(d, g, Nobody, inUse) /\ g \in DbType
    BY <2>1, CollectedIsLater DEF Collected
  <2>3. \A z \in Execs : x.row[z] = IF z = e THEN "succeeded" ELSE g.row[z]
    BY <2>1, <2>2, DbFields
  <2>4. \A z \in Execs : Stands(d.row[z], x.row[z])
    BY <1>2, <2>2, <2>3 DEF Later, Stands, SettledRows, LiveRows
  <2>5. QED BY <2>1, <2>2, <2>3, <2>4, QueryAssumption DEF Later, LiveRows
<1>3. QED BY <1>1, <1>2

(* Two such changes in a row are one. *)
LEMMA LaterStill ==
  ASSUME NEW d \in DbType, NEW x \in DbType, NEW y, NEW j, NEW k \in {j, Nobody}, NEW inUse,
         Later(d, x, j, inUse), Later(x, y, k, inUse),
         k \in Execs => d.row[k] \in LiveRows \cup {"none"}
  PROVE  Later(d, y, j, inUse)
<1>1. \A e \in Execs : Stands(d.row[e], y.row[e])
  <2> SUFFICES ASSUME NEW e \in Execs, d.row[e] \in SettledRows \cup {"expired"}
               PROVE  Stands(d.row[e], y.row[e])
    BY DEF Stands
  <2>1. e # k
    BY DEF LiveRows, SettledRows
  <2>2. x.row[e] = "none" => y.row[e] = "none"
    BY <2>1 DEF Later
  <2>3. QED BY <2>2 DEF Later, Stands, SettledRows
<1>2. \A e \in Execs \ {j} :
       /\ d.row[e] \in LiveRows \cup {"none"} \/ y.row[e] \in LiveRows =>
            y.row[e] = d.row[e] /\ y.used[e] = d.used[e]
       /\ y.row[e] = "succeeded" => d.row[e] = "succeeded"
  BY QueryAssumption DEF Later
<1>3. \A i \in Snaps : y.snap[i] = d.snap[i] \/ (i \notin inUse /\ y.snap[i] = NoSnap)
  BY DEF Later
<1>4. QED BY <1>1, <1>2, <1>3 DEF Later

(* The snapshots of the jobs but one, and those of the captures. *)
InWorkOfOthers(e) == InWorkBut({e})

(* What spares the snapshots in use spares those the other jobs use. *)
LEMMA LaterForOthers ==
  ASSUME NEW d, NEW x, NEW j, NEW e, Later(d, x, j, InWork)
  PROVE  Later(d, x, j, InWorkOfOthers(e))
<1>1. InWorkOfOthers(e) \subseteq InWork
  BY DEF InWorkOfOthers, InWork, InWorkBut
<1>2. QED BY <1>1 DEF Later

(* setRow (status, fail) writes one row, unless it is gone. *)
LEMMA SetRowIs ==
  ASSUME NEW d \in DbType, NEW e \in Execs, NEW st \in Rows
  PROVE  LET x == SetRow(d, e, st) IN
         /\ x \in DbType
         /\ \A z \in Execs : x.row[z] = IF z = e /\ d.row[e] # "none" THEN st ELSE d.row[z]
         /\ x.used = d.used /\ x.rows = d.rows /\ x.kept = d.kept /\ x.applied = d.applied
         /\ x.snap = d.snap /\ x.live = d.live /\ x.version = d.version
<1>1. CASE d.row[e] = "none"
  BY <1>1, DbFields DEF SetRow
<1>2. CASE d.row[e] # "none"
  <2> DEFINE x == [d EXCEPT !.row[e] = st]
  <2>1. SetRow(d, e, st) = x
    BY <1>2 DEF SetRow
  <2>2. x \in DbType
    BY DEF DbType
  <2>3. \A z \in Execs : x.row[z] = IF z = e THEN st ELSE d.row[z]
    BY DEF DbType
  <2>4. /\ x.used = d.used /\ x.rows = d.rows /\ x.kept = d.kept /\ x.applied = d.applied
        /\ x.snap = d.snap /\ x.live = d.live /\ x.version = d.version
    BY DEF DbType
  <2>5. QED BY <1>2, <2>1, <2>2, <2>3, <2>4
<1>3. QED BY <1>1, <1>2

(* A verdict that is not an answer keeps the rows fit. *)
LEMMA SetRowFits ==
  ASSUME NEW d \in DbType, NEW e \in Execs, NEW st \in Rows \ {"none", "succeeded"}, NEW I,
         RowsFit(d), d.row[e] \in LiveRows \cup {"none"}
  PROVE  RowsFit(SetRow(d, e, st)) /\ Later(d, SetRow(d, e, st), e, I)
<1> DEFINE x == SetRow(d, e, st)
<1>1. /\ x \in DbType
      /\ \A z \in Execs : x.row[z] = IF z = e /\ d.row[e] # "none" THEN st ELSE d.row[z]
      /\ x.used = d.used /\ x.rows = d.rows /\ x.kept = d.kept /\ x.applied = d.applied
      /\ x.snap = d.snap /\ x.live = d.live /\ x.version = d.version
  BY SetRowIs
<1> HIDE DEF x
<1>2. RowsFit(x)
  BY <1>1 DEF RowsFit, IsApplied, LiveRows
<1>3. Later(d, x, e, I)
  BY <1>1 DEF Later, Stands, LiveRows, SettledRows
<1>4. QED BY <1>2, <1>3 DEF x

-----------------------------------------------------------------------------
(* The invariant: d is the content of the database it is about. *)
Types ==
  /\ host \in {"up", "closed", "down"}
  /\ db \in DbType
  /\ queue \in Seq(Execs)
  /\ phase \in [Execs -> Phases]
  /\ ask \in [Execs -> [given : Snaps \cup {None, Lost}, expect : 0..MaxVersion]]
  /\ got \in [Execs -> Snaps \cup {None}]
  /\ kill \in [Execs -> {"no", "cancelled", "failed"}]
  /\ asked \subseteq Execs
  /\ entry \in [Searches -> [snap : Snaps \cup {None},
                             waiting : SUBSET (Execs \cup {Client}), aborted : BOOLEAN]]
  /\ path \in [Execs -> Paths \cup {Nobody}] /\ hit \subseteq Execs
  /\ dataset \in [Snaps -> Paths \cup {Nobody}]
  /\ file \in [Paths -> Snaps \cup {None, Partial}]
  /\ known \in [Searches -> [snap : Snaps \cup {None, Lost}, version : 0..MaxVersion]]
  /\ deleting \in [Searches -> [on : BOOLEAN, todo : SUBSET Execs, wait : Execs \cup {Nobody}]]

(* The queue holds queued jobs, each once. *)
QueueFits ==
  /\ \A i \in 1 .. Len(queue) : phase[queue[i]] = "queued"
  /\ \A i, j \in 1 .. Len(queue) : queue[i] = queue[j] => i = j

(* A job has an open row, or its search is gone; an open row has a job; a job that was
   rejected has a reason; and no job has been answered. *)
JobsFit(d) ==
  \A e \in Execs :
    /\ host = "up" /\ phase[e] # "idle" => d.row[e] \in LiveRows \cup {"none"}
    /\ host = "up" /\ d.row[e] \in LiveRows => phase[e] # "idle"
    /\ host = "down" => phase[e] = "idle"
    /\ d.row[e] = "none" /\ phase[e] # "idle" => OwnerOf[e] \notin d.live
    /\ phase[e] # "idle" => d.row[e] # "succeeded"
    /\ phase[e] = "rejected" => kill[e] # "no"

(* A capture is of an unfinished snapshot nobody else has, and known to those who wait. *)
CapturesFit(d) ==
  \A s \in Searches :
    /\ entry[s].snap = None => entry[s] = NoEntry
    /\ entry[s].snap # None =>
         \/ d.snap[entry[s].snap].of = s /\ ~d.snap[entry[s].snap].ready
         \/ s \notin d.live /\ d.snap[entry[s].snap] = NoSnap
    /\ \A t \in Searches \ {s} : entry[s].snap # None => entry[t].snap # entry[s].snap
    /\ \A e \in Execs : e \in entry[s].waiting <=> OwnerOf[e] = s /\ phase[e] = "capture"
    /\ \A e \in Execs : got[e] # None => got[e] # entry[s].snap

Held(e) == phase[e] \in {"loading", "running"}

(* A job that was given a snapshot works on a finished one of its search; one with a
   process, on the one its row names, of the version its client had read. *)
GotFits(d) ==
  \A e \in Execs :
    /\ phase[e] \in {"idle", "queued", "capture"} => got[e] = None
    /\ phase[e] \in {"captured", "loading", "running"} =>
         /\ got[e] # None
         /\ d.row[e] # "none" => d.snap[got[e]].of = OwnerOf[e] /\ d.snap[got[e]].ready
    /\ Held(e) /\ d.row[e] # "none" =>
         /\ d.used[e] = got[e]
         /\ d.snap[got[e]].version = ask[e].expect

(* A dataset is whole, and so is the file a process was given or has built; a file that
   is being built belongs to one process and is nobody's dataset. *)
FilesFit(ds, f) ==
  /\ \A i \in Snaps : ds[i] # Nobody => f[ds[i]] = i
  /\ \A e \in Execs :
       /\ Held(e) => path[e] \in Paths
       /\ ~Held(e) => path[e] = Nobody /\ e \notin hit
       /\ e \in hit \/ phase[e] = "running" => f[path[e]] = got[e]
       /\ Held(e) /\ e \notin hit =>
            /\ \A z \in Execs \ {e} : path[z] # path[e]
            /\ \A i \in Snaps : ds[i] # path[e]

Inv == /\ Types /\ QueueFits /\ JobsFit(db) /\ CapturesFit(db) /\ GotFits(db) /\ RowsFit(db)
       /\ FilesFit(dataset, file)

(* What a step from such a state has to do. *)
Kept == Inv' /\ VerdictIsKept /\ AnswerIsOfWhatWasAsked

(* Collection alone. *)
LEMMA LaterFits ==
  ASSUME NEW d \in DbType, NEW x \in DbType, Later(d, x, Nobody, InWork), Types,
         host = "up", JobsFit(d), CapturesFit(d), GotFits(d)
  PROVE  JobsFit(x) /\ CapturesFit(x) /\ GotFits(x)
<1>1. JobsFit(x)
  BY QueryAssumption DEF JobsFit, Later
<1>2. \A i \in Snaps : (\E e \in Execs : got[e] = i) \/ (\E s \in Searches : entry[s].snap = i) =>
                          x.snap[i] = d.snap[i]
  BY DEF Later, InWork, InWorkBut
<1>3. CapturesFit(x)
  <2>1. \A s \in Searches : entry[s].snap # None => x.snap[entry[s].snap] = d.snap[entry[s].snap]
    BY <1>2 DEF Types
  <2>2. QED BY <2>1 DEF CapturesFit, Later
<1>4. GotFits(x)
  <2> SUFFICES ASSUME NEW e \in Execs
               PROVE  /\ phase[e] \in {"idle", "queued", "capture"} => got[e] = None
                      /\ phase[e] \in {"captured", "loading", "running"} =>
                           /\ got[e] # None
                           /\ x.row[e] # "none" => x.snap[got[e]].of = OwnerOf[e] /\ x.snap[got[e]].ready
                      /\ Held(e) /\ x.row[e] # "none" =>
                           /\ x.used[e] = got[e]
                           /\ x.snap[got[e]].version = ask[e].expect
    BY DEF GotFits
  <2>1. got[e] # None => x.snap[got[e]] = d.snap[got[e]]
    BY <1>2 DEF Types
  <2>2. phase[e] # "idle" => x.row[e] = d.row[e] /\ x.used[e] = d.used[e]
    BY QueryAssumption DEF Later, JobsFit
  <2>3. QED BY <2>1, <2>2 DEF GotFits, Held
<1>5. QED BY <1>1, <1>3, <1>4

(* The datasets and files that are left fit, whatever clean removed. *)
LEMMA SweptFits ==
  ASSUME Types, FilesFit(dataset, file), NEW kept, NEW left,
         Swept(dataset, file, phase, kept, left)
  PROVE  FilesFit(kept, left)
<1>1. \A e \in Execs : Held(e) => left[path[e]] = file[path[e]]
  BY DEF Swept, Reading, FilesFit, Held
<1>2. \A i \in Snaps : kept[i] # Nobody => kept[i] = dataset[i] /\ left[kept[i]] = file[kept[i]]
  BY DEF Swept, Types
<1>3. QED BY <1>1, <1>2, QueryAssumption DEF Swept, FilesFit, Held, Types

-----------------------------------------------------------------------------
(* The end of a job, however it comes: ds and f are the datasets and the files before
   the sweep, and the other jobs find theirs in them. *)
Ending(e) == phase[e] \in {"captured", "rejected", "loading", "running"}

LeavesOthers(ds, f, e) ==
  /\ \A i \in Snaps : ds[i] # Nobody => f[ds[i]] = i
  /\ \A z \in Execs \ {e} : Held(z) =>
       /\ f[path[z]] = file[path[z]]
       /\ z \notin hit => \A i \in Snaps : ds[i] # path[z]

(* The other jobs lose nothing when a job ends, and its slot holds nothing of it. *)
LEMMA JobEnds ==
  ASSUME Inv, NEW e \in Execs, Ending(e),
         UNCHANGED <<host, queue, entry, known, deleting>>,
         phase' = [phase EXCEPT ![e] = "idle"], Forget(e),
         db' \in DbType, RowsFit(db'),
         host # "up" => db' = db,
         host = "up" => Later(db, db', e, InWorkOfOthers(e)) /\ db'.row[e] \notin LiveRows,
         NEW ds, NEW f, Swept(ds, f, phase', dataset', file'), LeavesOthers(ds, f, e)
  PROVE  Inv'
<1> USE DEF Ending, LeavesOthers
<1>1. \A z \in Execs : phase'[z] = IF z = e THEN "idle" ELSE phase[z]
  BY DEF Inv, Types
<1>2. \A z \in Execs : /\ got'[z] = IF z = e THEN None ELSE got[z]
                       /\ path'[z] = IF z = e THEN Nobody ELSE path[z]
                       /\ ask'[z] = IF z = e THEN NoAsk ELSE ask[z]
                       /\ kill'[z] = IF z = e THEN "no" ELSE kill[z]
  BY DEF Inv, Types, Forget
<1>3. hit' = hit \ {e}
  BY DEF Forget
<1>4. \A z \in Execs \ {e} : phase[z] # "idle" => db'.row[z] = db.row[z] /\ db'.used[z] = db.used[z]
  BY DEF Inv, JobsFit, Later, Types
<1>5. \A i \in Snaps : (\E z \in Execs \ {e} : got[z] = i) \/ (\E s \in Searches : entry[s].snap = i) =>
                          db'.snap[i] = db.snap[i]
  BY DEF Inv, Types, Later, InWorkOfOthers, InWorkBut
<1>6. db'.live = db.live
  BY DEF Later, Inv, Types
<1>7. Types'
  <2>1. /\ ask' \in [Execs -> [given : Snaps \cup {None, Lost}, expect : 0..MaxVersion]]
        /\ phase' \in [Execs -> Phases] /\ asked' \subseteq Execs
        /\ kill' \in [Execs -> {"no", "cancelled", "failed"}]
        /\ got' \in [Execs -> Snaps \cup {None}]
        /\ path' \in [Execs -> Paths \cup {Nobody}] /\ hit' \subseteq Execs
    BY QueryAssumption DEF Inv, Types, Forget, NoAsk, Phases
  <2>2. dataset' \in [Snaps -> Paths \cup {Nobody}] /\ file' \in [Paths -> Snaps \cup {None, Partial}]
    BY DEF Swept
  <2>3. QED BY <2>1, <2>2 DEF Inv, Types
<1>8. QueueFits'
  BY <1>1 DEF Inv, QueueFits
<1>9. JobsFit(db)'
  BY <1>1, <1>2, <1>4, <1>6 DEF Inv, JobsFit, Types, Later
<1>10. CapturesFit(db)'
  <2>1. \A s \in Searches : entry[s].snap # None => db'.snap[entry[s].snap] = db.snap[entry[s].snap]
    BY <1>5 DEF Inv, Types
  <2>2. QED BY <1>1, <1>2, <1>6, <2>1 DEF Inv, CapturesFit
<1>11. GotFits(db)'
  <2>1. \A z \in Execs \ {e} : got[z] # None => db'.snap[got[z]] = db.snap[got[z]]
    BY <1>5 DEF Inv, Types
  <2>2. QED BY <1>1, <1>2, <1>4, <2>1 DEF Inv, GotFits, Held
<1>12. FilesFit(dataset, file)'
  <2>1. \A z \in Execs \ {e} : Held(z) => file'[path[z]] = file[path[z]]
    BY <1>1 DEF Swept, Reading, Inv, FilesFit, Held
  <2>2. \A i \in Snaps : dataset'[i] # Nobody => dataset'[i] = ds[i] /\ file'[ds[i]] = f[ds[i]]
    BY DEF Swept
  <2>3. \A i \in Snaps : dataset'[i] # Nobody => file'[dataset'[i]] = i
    BY <2>2
  <2>4. \A z \in Execs : Held(z)' <=> z # e /\ Held(z)
    BY <1>1 DEF Held
  <2>5. FilesFit(dataset, file)
    BY DEF Inv
  <2>6. \A z \in Execs :
          /\ Held(z)' => path'[z] \in Paths
          /\ ~Held(z)' => path'[z] = Nobody /\ z \notin hit'
          /\ z \in hit' \/ phase'[z] = "running" => file'[path'[z]] = got'[z]
    <3>1. TAKE z \in Execs
    <3>2. CASE z = e
      BY <3>2, <1>1, <1>2, <1>3, <2>4
    <3>3. CASE z # e
      BY <3>3, <1>1, <1>2, <1>3, <2>1, <2>4, <2>5 DEF FilesFit, Held
    <3>4. QED BY <3>2, <3>3
  <2>7. \A z \in Execs : Held(z)' /\ z \notin hit' =>
          /\ \A y \in Execs \ {z} : path'[y] # path'[z]
          /\ \A i \in Snaps : dataset'[i] # path'[z]
    <3>1. SUFFICES ASSUME NEW z \in Execs, Held(z)', z \notin hit'
                   PROVE  /\ \A y \in Execs \ {z} : path'[y] # path'[z]
                          /\ \A i \in Snaps : dataset'[i] # path'[z]
      OBVIOUS
    <3>2. z # e /\ Held(z) /\ z \notin hit /\ path'[z] = path[z] /\ path[z] # Nobody
      BY <3>1, <2>4, <1>2, <1>3, <2>5, QueryAssumption DEF FilesFit
    <3>3. \A i \in Snaps : dataset'[i] # path[z]
      BY <3>2, <2>2
    <3>4. \A y \in Execs \ {z} : path'[y] # path[z]
      BY <3>2, <1>2, <2>5 DEF FilesFit
    <3>5. QED BY <3>2, <3>3, <3>4
  <2>8. QED BY <2>3, <2>6, <2>7 DEF FilesFit
<1>13. QED BY <1>7, <1>8, <1>9, <1>10, <1>11, <1>12 DEF Inv

LastFits(d, x, g, e, inUse) ==
  /\ g \in DbType /\ RowsFit(g) /\ Later(d, g, e, inUse) /\ g.row[e] \notin LiveRows
  /\ \A z \in Execs : g.row[z] = "succeeded" =>
       x.row[z] = "succeeded" /\ g.used[z] = x.used[z] /\ g.snap[g.used[z]] = x.snap[x.used[z]]

(* The collection that ends a step. *)
LEMMA CollectedLast ==
  ASSUME NEW d \in DbType, NEW x \in DbType, NEW g, NEW e \in Execs, NEW inUse,
         Later(d, x, e, inUse), RowsFit(x), x.row[e] \notin LiveRows, Collected(x, g, inUse)
  PROVE  LastFits(d, x, g, e, inUse)
<1>1. g \in DbType /\ RowsFit(g) /\ Later(x, g, Nobody, inUse)
  BY CollectedFits, CollectedIsLater DEF Collected
<1>2. Later(d, g, e, inUse)
  BY <1>1, LaterStill, QueryAssumption
<1>3. g.row[e] \notin LiveRows
  BY <1>1, QueryAssumption DEF Later
<1>4. \A z \in Execs : g.row[z] = "succeeded" =>
        x.row[z] = "succeeded" /\ g.used[z] = x.used[z] /\ g.snap[g.used[z]] = x.snap[x.used[z]]
  <2> TAKE z \in Execs
  <2> HAVE g.row[z] = "succeeded"
  <2>1. x.row[z] = "succeeded" /\ g.used[z] = x.used[z]
    BY DEF Collected
  <2>2. x.used[z] \in Snaps
    BY <2>1, DbFields DEF RowsFit
  <2>3. QED BY <2>1, <2>2 DEF Collected
<1>5. QED BY <1>1, <1>2, <1>3, <1>4 DEF LastFits

(* What a job leaves behind: x is the database with its verdict, before the collection. *)
Verdict(x, e) ==
  /\ x \in DbType /\ RowsFit(x) /\ Later(db, x, e, InWorkOfOthers(e))
  /\ x.row[e] \notin LiveRows
  /\ x.row[e] = "succeeded" => x.snap[x.used[e]].version = ask[e].expect

(* The collection after a verdict keeps it, and every other one. *)
LEMMA VerdictKept ==
  ASSUME Inv, NEW e \in Execs, NEW x, Verdict(x, e), Collected(x, db', InWorkOfOthers(e))
  PROVE  /\ db' \in DbType /\ RowsFit(db') /\ Later(db, db', e, InWorkOfOthers(e))
         /\ db'.row[e] \notin LiveRows
         /\ VerdictIsKept /\ AnswerIsOfWhatWasAsked
<1>1. /\ db \in DbType /\ x \in DbType /\ RowsFit(x) /\ Later(db, x, e, InWorkOfOthers(e))
      /\ x.row[e] \notin LiveRows
  BY DEF Inv, Types, Verdict
<1>2. /\ db' \in DbType /\ RowsFit(db') /\ Later(db, db', e, InWorkOfOthers(e))
      /\ db'.row[e] \notin LiveRows
      /\ \A z \in Execs : db'.row[z] = "succeeded" =>
           x.row[z] = "succeeded" /\ db'.used[z] = x.used[z] /\ db'.snap[db'.used[z]] = x.snap[x.used[z]]
  <2>1. LastFits(db, x, db', e, InWorkOfOthers(e))
    BY <1>1, CollectedLast
  <2>2. QED BY <2>1 DEF LastFits
<1>3. VerdictIsKept
  BY <1>2 DEF Later, Stands, VerdictIsKept
<1>4. AnswerIsOfWhatWasAsked
  BY <1>2 DEF Later, AnswerIsOfWhatWasAsked, Verdict
<1>5. QED BY <1>2, <1>3, <1>4

(* The end of a job, with the verdict x of its row: after close nothing is written. *)
LEMMA EndsKeeps ==
  ASSUME Inv, NEW e \in Execs, Ending(e), UNCHANGED <<host, queue, entry, known, deleting>>,
         NEW x, NEW f \in [Paths -> Snaps \cup {None, Partial}], Ends(e, x, f),
         host = "up" => Verdict(x, e), LeavesOthers(dataset, f, e)
  PROVE  Kept
<1>1. phase' = [phase EXCEPT ![e] = "idle"] /\ Forget(e)
  BY DEF Ends
<1>2. host \in {"up", "closed"}
  BY DEF Inv, Types, JobsFit, Ending
<1>3. dataset \in [Snaps -> Paths \cup {Nobody}] /\ db \in DbType /\ RowsFit(db)
  BY DEF Inv, Types
<1>4. CASE host = "closed"
  <2>1. db' = db /\ file' = f /\ dataset' = dataset
    BY <1>4 DEF Ends
  <2>2. Swept(dataset, f, phase', dataset', file')
    BY <2>1, <1>3 DEF Swept
  <2>3. db' \in DbType /\ RowsFit(db')
    BY <1>3, <2>1
  <2>4. Inv'
    BY <1>1, <1>4, <2>1, <2>2, <2>3, JobEnds
  <2>5. VerdictIsKept /\ AnswerIsOfWhatWasAsked
    BY <2>1, <1>3, DbFields DEF VerdictIsKept, AnswerIsOfWhatWasAsked, Rows
  <2>6. QED BY <2>4, <2>5 DEF Kept
<1>5. CASE host = "up"
  <2>1. PICK g \in Gc(x, 0, {e}, InWorkOfOthers(e)) :
          \E w \in Clean(g, dataset, f, phase') : db' = g /\ file' = w.file /\ dataset' = w.dataset
    BY <1>1, <1>5 DEF Ends, InWorkOfOthers
  <2>2. Collected(x, db', InWorkOfOthers(e))
    BY <1>5, <2>1, GcCollects DEF Verdict
  <2>3. /\ db' \in DbType /\ RowsFit(db') /\ Later(db, db', e, InWorkOfOthers(e))
        /\ db'.row[e] \notin LiveRows
        /\ VerdictIsKept /\ AnswerIsOfWhatWasAsked
    BY <1>5, <2>2, VerdictKept
  <2>4. Swept(dataset, f, phase', dataset', file')
    BY <2>1, <1>3, CleanSweeps
  <2>5. Inv'
    BY <1>1, <1>5, <2>3, <2>4, JobEnds
  <2>6. QED BY <2>3, <2>5 DEF Kept
<1>6. QED BY <1>2, <1>4, <1>5

(* A job that fails or was cancelled. *)
LEMMA FailsKeeps ==
  ASSUME Inv, NEW e \in Execs, Ending(e), UNCHANGED <<host, queue, entry, known, deleting>>,
         NEW st \in {"failed", "cancelled"}, NEW f \in [Paths -> Snaps \cup {None, Partial}],
         Ends(e, SetRow(db, e, st), f), LeavesOthers(dataset, f, e)
  PROVE  Kept
<1> DEFINE x == SetRow(db, e, st)
<1>1. st \in Rows \ {"none", "succeeded"} /\ db \in DbType /\ RowsFit(db)
  BY DEF Rows, SettledRows, LiveRows, Inv, Types
<1>2. /\ x \in DbType
      /\ \A z \in Execs : x.row[z] = IF z = e /\ db.row[e] # "none" THEN st ELSE db.row[z]
  BY <1>1, SetRowIs
<1>3. host = "up" => db.row[e] \in LiveRows \cup {"none"}
  BY DEF Inv, JobsFit, Ending
<1>4. host = "up" => RowsFit(x) /\ Later(db, x, e, InWorkOfOthers(e))
  BY <1>1, <1>3, SetRowFits
<1>5. host = "up" => x.row[e] \notin LiveRows /\ x.row[e] # "succeeded"
  BY <1>2 DEF LiveRows
<1>6. host = "up" => Verdict(x, e)
  BY <1>2, <1>4, <1>5 DEF Verdict
<1> HIDE DEF x
<1>7. Ends(e, x, f)
  BY DEF x
<1>8. QED BY <1>6, <1>7, EndsKeeps

(* A job whose files are left alone leaves the others theirs. *)
LEMMA FilesStay ==
  ASSUME Inv, NEW e \in Execs
  PROVE  LeavesOthers(dataset, file, e) /\ file \in [Paths -> Snaps \cup {None, Partial}]
BY DEF Inv, FilesFit, Types, LeavesOthers

(* run, its catch: no process was started. *)
LEMMA RejectedKeeps ==
  ASSUME Inv, NEW e \in Execs, Rejected(e)
  PROVE  Kept
<1>1. kill[e] \in {"failed", "cancelled"}
  BY DEF Rejected, Inv, Types, JobsFit
<1>2. QED BY <1>1, FilesStay, FailsKeeps DEF Rejected, Fails, Ending

(* run: another revision than the client had read, or a job cancelled meanwhile. *)
LEMMA ProceedRefusedKeeps ==
  ASSUME Inv, NEW e \in Execs, ProceedRefused(e)
  PROVE  Kept
<1>1. Ending(e) /\ UNCHANGED <<host, queue, entry, known, deleting>>
  BY DEF ProceedRefused, Ending
<1>2. PICK st \in {"failed", "cancelled"} : Ends(e, SetRow(db, e, st), file)
  BY DEF ProceedRefused, Fails
<1>3. QED BY <1>1, <1>2, FilesStay, FailsKeeps

(* A process ends without an answer; the file it was building goes, which is no other
   job's and no dataset. *)
LEMMA ChildFailsKeeps ==
  ASSUME Inv, NEW e \in Execs, ChildFails(e)
  PROVE  Kept
<1> DEFINE f == IF e \in hit \/ host = "closed" THEN file ELSE [file EXCEPT ![path[e]] = None]
           st == IF kill[e] = "cancelled" THEN "cancelled" ELSE "failed"
<1>1. Ending(e) /\ UNCHANGED <<host, queue, entry, known, deleting>> /\ Ends(e, SetRow(db, e, st), f)
  BY DEF ChildFails, Ending
<1>2. f \in [Paths -> Snaps \cup {None, Partial}]
  BY FilesStay
<1>3. LeavesOthers(dataset, f, e)
  <2>1. CASE e \in hit \/ host = "closed"
    BY <2>1, FilesStay
  <2>2. CASE e \notin hit /\ host # "closed"
    <3>1. Held(e) /\ path[e] \in Paths
      BY DEF ChildFails, Held, Inv, FilesFit
    <3>2. \A p \in Paths : f[p] = IF p = path[e] THEN None ELSE file[p]
      BY <2>2, FilesStay
    <3>3. /\ \A z \in Execs \ {e} : path[z] # path[e]
          /\ \A i \in Snaps : dataset[i] # path[e]
      BY <2>2, <3>1 DEF Inv, FilesFit
    <3>4. \A i \in Snaps : dataset[i] # Nobody => dataset[i] \in Paths
      BY DEF Inv, Types
    <3> HIDE DEF f
    <3>5. QED BY <3>2, <3>3, <3>4 DEF Inv, FilesFit, LeavesOthers
  <2>3. QED BY <2>1, <2>2
<1>4. st \in {"failed", "cancelled"}
  OBVIOUS
<1> HIDE DEF f, st
<1>5. QED BY <1>1, <1>2, <1>3, <1>4, FailsKeeps

(* A query that succeeds: from x0, which is db or db with the snapshot located. *)
LEMMA StoredVerdict ==
  ASSUME Inv, host = "up", NEW e \in Execs, Ending(e),
         NEW d \in DbType, RowsFit(d), Later(db, d, e, InWorkOfOthers(e)), d.row[e] = db.row[e],
         NEW content \in Snaps \cup {None}, NEW x \in Completed(d, e, content, e \in Editors, InWork),
         d.row[e] # "none" => /\ content = d.used[e] /\ content # None
                              /\ d.used[e] = got[e]
                              /\ d.snap[got[e]].version = ask[e].expect
  PROVE  Verdict(x, e)
<1>1. db \in DbType /\ db.row[e] \in LiveRows \cup {"none"}
  BY DEF Inv, Types, JobsFit, Ending
<1>2. StoredIn(d, x, e, content, InWork)
  BY CompletedStores
<1>3. x \in DbType /\ RowsFit(x)
  BY <1>1, <1>2, StoredFits
<1>4. Later(d, x, e, InWork) /\ x.row[e] \notin LiveRows
  BY <1>1, <1>2, StoredIsLater
<1>5. Later(db, x, e, InWorkOfOthers(e))
  BY <1>1, <1>3, <1>4, LaterForOthers, LaterStill
<1>6. ASSUME x.row[e] = "succeeded"
      PROVE  x.snap[x.used[e]].version = ask[e].expect
  <2>1. d.row[e] # "none"
    BY <1>2, <1>6 DEF StoredIn
  <2>2. PICK g : Collected(d, g, InWork) /\ x.used = g.used /\ x.snap = g.snap
    BY <1>2, <2>1 DEF StoredIn
  <2>3. g.used[e] = d.used[e]
    BY <1>1, <2>1, <2>2 DEF Collected, LiveRows, SettledRows
  <2>4. got[e] \in Snaps
    BY <2>1, <1>1, DbFields DEF Inv, Types
  <2>5. g.snap[got[e]] = d.snap[got[e]]
    BY <2>1, <2>2, <2>3, <2>4 DEF Collected
  <2>6. QED BY <2>1, <2>2, <2>3, <2>5
<1>7. QED BY <1>3, <1>4, <1>5, <1>6 DEF Verdict

(* A process answers: its file is now the dataset of its snapshot, and its rows are in
   or did not fit. *)
LEMMA ChildAnswersKeeps ==
  ASSUME Inv, NEW e \in Execs, ChildAnswers(e)
  PROVE  Kept
<1> DEFINE ds == [dataset EXCEPT ![got[e]] = path[e]]
           ph == [phase EXCEPT ![e] = "idle"]
           done == Completed(db, e, file[path[e]], e \in Editors, InWork)
           out == IF done = {} THEN {SetRow(db, e, "failed")} ELSE done
<1>1. /\ Ending(e) /\ Held(e) /\ host = "up" /\ UNCHANGED <<host, queue, entry, known, deleting>>
      /\ phase' = [phase EXCEPT ![e] = "idle"] /\ Forget(e)
  BY DEF ChildAnswers, Ending, Held
<1>2. /\ db \in DbType /\ RowsFit(db) /\ path[e] \in Paths /\ file[path[e]] = got[e]
      /\ got[e] \in Snaps /\ db.row[e] \in LiveRows \cup {"none"}
      /\ db.row[e] # "none" => db.used[e] = got[e] /\ db.snap[got[e]].version = ask[e].expect
  BY <1>1 DEF Inv, Types, FilesFit, GotFits, ChildAnswers, JobsFit, Ending
<1>3. PICK x \in out : \E g \in Gc(x, 0, {e}, InWork) : \E w \in Clean(g, ds, file, ph) :
          db' = g /\ dataset' = w.dataset /\ file' = w.file
  BY DEF ChildAnswers
<1>4. Verdict(x, e)
  <2>1. CASE x = SetRow(db, e, "failed")
    <3>1. "failed" \in Rows \ {"none", "succeeded"}
      BY DEF Rows, SettledRows, LiveRows
    <3>2. /\ x \in DbType
          /\ \A z \in Execs : x.row[z] = IF z = e /\ db.row[e] # "none" THEN "failed" ELSE db.row[z]
      BY <1>2, <2>1, <3>1, SetRowIs
    <3>3. RowsFit(x) /\ Later(db, x, e, InWorkOfOthers(e))
      BY <1>2, <2>1, <3>1, SetRowFits
    <3>4. QED BY <3>2, <3>3 DEF Verdict, LiveRows
  <2>2. CASE x \in done
    <3>1. Later(db, db, e, InWorkOfOthers(e))
      BY <1>2, DbFields DEF Later, Stands, SettledRows
    <3>2. file[path[e]] \in Snaps \cup {None} /\ file[path[e]] # None
      BY <1>2 DEF Snaps, None
    <3>3. db.row[e] # "none" => file[path[e]] = db.used[e]
      BY <1>2
    <3> HIDE DEF done, out
    <3>4. x \in Completed(db, e, file[path[e]], e \in Editors, InWork)
      BY <2>2 DEF done
    <3>5. QED BY <1>1, <1>2, <3>1, <3>2, <3>3, <3>4, StoredVerdict
  <2>3. QED BY <1>3, <2>1, <2>2
<1>5. Collected(x, db', InWorkOfOthers(e))
  <2>1. Collected(x, db', InWork)
    BY <1>3, <1>4, GcCollects DEF Verdict
  <2>2. InWorkOfOthers(e) \subseteq InWork
    BY DEF InWorkOfOthers, InWork, InWorkBut
  <2>3. QED BY <2>1, <2>2 DEF Collected
<1>6. /\ db' \in DbType /\ RowsFit(db') /\ Later(db, db', e, InWorkOfOthers(e))
      /\ db'.row[e] \notin LiveRows
      /\ VerdictIsKept /\ AnswerIsOfWhatWasAsked
  BY <1>4, <1>5, VerdictKept
<1>7. ds \in [Snaps -> Paths \cup {Nobody}] /\ file \in [Paths -> Snaps \cup {None, Partial}]
      /\ \A i \in Snaps : ds[i] = IF i = got[e] THEN path[e] ELSE dataset[i]
  BY <1>2 DEF Inv, Types
<1>8. LeavesOthers(ds, file, e)
  <2>1. \A z \in Execs \ {e} : Held(z) /\ z \notin hit => path[z] # path[e]
    BY DEF Inv, FilesFit
  <2> HIDE DEF ds
  <2>2. QED BY <1>2, <1>7, <2>1 DEF Inv, FilesFit, LeavesOthers
<1> HIDE DEF ds, done, out
<1>9. Swept(ds, file, phase', dataset', file')
  BY <1>1, <1>3, <1>7, CleanSweeps
<1>10. Inv'
  BY <1>1, <1>6, <1>8, <1>9, JobEnds
<1>11. QED BY <1>6, <1>10 DEF Kept

(* The row names the snapshot of its job. *)
LEMMA LocatedIs ==
  ASSUME Inv, NEW e \in Execs, phase[e] = "captured", NEW inUse
  PROVE  LET x == Located(db, e) IN
         /\ x \in DbType /\ RowsFit(x)
         /\ \A z \in Execs : x.used[z] = IF z = e /\ db.row[e] # "none" THEN got[e] ELSE db.used[z]
         /\ x.row = db.row /\ x.rows = db.rows /\ x.kept = db.kept /\ x.applied = db.applied
         /\ x.snap = db.snap /\ x.live = db.live /\ x.version = db.version
         /\ host = "up" => Later(db, x, e, inUse)
<1>1. db \in DbType /\ RowsFit(db) /\ got[e] \in Snaps
  BY DEF Inv, Types, GotFits
<1> DEFINE y == [db EXCEPT !.used[e] = got[e]]
           x == IF db.row[e] = "none" THEN db ELSE y
<1>2. x = Located(db, e)
  BY DEF Located
<1>3. /\ y.row = db.row /\ y.rows = db.rows /\ y.kept = db.kept /\ y.applied = db.applied
      /\ y.snap = db.snap /\ y.live = db.live /\ y.version = db.version
      /\ \A z \in Execs : y.used[z] = IF z = e THEN got[e] ELSE db.used[z]
  BY <1>1 DEF DbType
<1>4. y \in DbType
  BY <1>1 DEF DbType
<1> HIDE DEF y
<1>5. /\ x.row = db.row /\ x.rows = db.rows /\ x.kept = db.kept /\ x.applied = db.applied
      /\ x.snap = db.snap /\ x.live = db.live /\ x.version = db.version
      /\ \A z \in Execs : x.used[z] = IF z = e /\ db.row[e] # "none" THEN got[e] ELSE db.used[z]
      /\ x \in DbType
  BY <1>1, <1>3, <1>4
<1> HIDE DEF x
<1>6. RowsFit(x)
  <2>1. db.row[e] # "none" => db.snap[got[e]].of = OwnerOf[e] /\ db.snap[got[e]].ready
    BY DEF Inv, GotFits
  <2>2. db.row[e] # "succeeded"
    BY DEF Inv, JobsFit
  <2>3. QED BY <1>1, <1>5, <2>1, <2>2 DEF RowsFit, IsApplied, Snaps, None
<1>7. host = "up" => Later(db, x, e, inUse)
  <2>1. \A z \in Execs : db.row[z] \in Rows
    BY <1>1, DbFields
  <2>2. QED BY <1>5, <2>1 DEF Later, Stands, SettledRows
<1>8. QED BY <1>2, <1>5, <1>6, <1>7

(* An earlier answer over the same snapshot is copied: it is of the version the client
   had read, as the snapshot is. *)
LEMMA ProceedCachedKeeps ==
  ASSUME Inv, NEW e \in Execs, ProceedCached(e)
  PROVE  Kept
<1> DEFINE d == Located(db, e)
<1>1. /\ Ending(e) /\ phase[e] = "captured" /\ UNCHANGED <<host, queue, entry, known, deleting>>
      /\ db.snap[got[e]].version = ask[e].expect
  BY DEF ProceedCached, Accepted, Ending
<1>2. PICK o \in Cached(d, e, got[e]) :
          LET done == Completed(d, e, d.rows[o], e \in Editors, InWork)
          IN  \/ \E x \in done : Ends(e, x, file)
              \/ done = {} /\ Ends(e, SetRow(d, e, "failed"), file)
  BY DEF ProceedCached
<1>3. /\ d \in DbType /\ RowsFit(d)
      /\ d.row[e] # "none" => d.used[e] = got[e]
      /\ d.row = db.row /\ d.snap = db.snap
      /\ host = "up" => Later(db, d, e, InWorkOfOthers(e))
  BY <1>1, LocatedIs
<1>4. got[e] \in Snaps /\ got[e] # None /\ db \in DbType
  BY <1>1 DEF Inv, Types, GotFits, Snaps, None
<1>5. d.rows[o] = got[e] /\ o \in Execs
  BY <1>2, <1>3 DEF Cached, RowsFit
<1> HIDE DEF d
<1>6. CASE \E x \in Completed(d, e, d.rows[o], e \in Editors, InWork) : Ends(e, x, file)
  <2>1. PICK x \in Completed(d, e, d.rows[o], e \in Editors, InWork) : Ends(e, x, file)
    BY <1>6
  <2>2. d.row[e] # "none" => /\ d.rows[o] = d.used[e] /\ d.rows[o] # None
                             /\ d.used[e] = got[e] /\ d.snap[got[e]].version = ask[e].expect
    BY <1>1, <1>3, <1>4, <1>5
  <2>3. host = "up" => Verdict(x, e)
    BY <1>1, <1>3, <1>4, <1>5, <2>1, <2>2, StoredVerdict
  <2>4. QED BY <1>1, <2>1, <2>3, FilesStay, EndsKeeps
<1>7. CASE Ends(e, SetRow(d, e, "failed"), file)
  <2> DEFINE x == SetRow(d, e, "failed")
  <2>1. "failed" \in Rows \ {"none", "succeeded"}
    BY DEF Rows, SettledRows, LiveRows
  <2>2. /\ x \in DbType
        /\ \A z \in Execs : x.row[z] = IF z = e /\ d.row[e] # "none" THEN "failed" ELSE d.row[z]
    BY <1>3, <2>1, SetRowIs
  <2>3. host = "up" => d.row[e] \in LiveRows \cup {"none"}
    BY <1>1, <1>3 DEF Inv, JobsFit
  <2>4. host = "up" => RowsFit(x) /\ Later(d, x, e, InWorkOfOthers(e))
    BY <1>3, <2>1, <2>3, SetRowFits
  <2>5. host = "up" => x.row[e] \notin LiveRows /\ x.row[e] # "succeeded"
    BY <2>2 DEF LiveRows
  <2> HIDE DEF x
  <2>6. host = "up" => Later(db, x, e, InWorkOfOthers(e))
    BY <1>3, <1>4, <2>2, <2>3, <2>4, LaterStill
  <2>7. host = "up" => Verdict(x, e)
    BY <2>2, <2>4, <2>5, <2>6 DEF Verdict
  <2>8. Ends(e, x, file)
    BY <1>7 DEF x
  <2>9. QED BY <1>1, <2>7, <2>8, FilesStay, EndsKeeps
<1>8. QED BY <1>2, <1>6, <1>7

-----------------------------------------------------------------------------
(* Steps that leave the queue, or the files, alone. *)
LEMMA QueueStays ==
  ASSUME Inv, queue' = queue, \A z \in Execs : phase[z] = "queued" => phase'[z] = "queued"
  PROVE  QueueFits'
BY DEF Inv, QueueFits, Types

(* The files fit where no job gets or loses one. *)
LEMMA FilesFitStill ==
  ASSUME Inv, UNCHANGED <<path, hit, dataset, file>>,
         \A z \in Execs : /\ Held(z)' <=> Held(z)
                          /\ Held(z) => got'[z] = got[z]
                          /\ phase'[z] = "running" => phase[z] = "running"
  PROVE  FilesFit(dataset, file)'
BY DEF Inv, FilesFit, Held

(* No row but those that were there is answered, and every verdict stands. *)
LEMMA NothingIsSaid ==
  ASSUME NEW d, NEW x, db = d, db' = x,
         \A z \in Execs : Stands(d.row[z], x.row[z]) /\ (x.row[z] = "succeeded" => d.row[z] = "succeeded")
  PROVE  VerdictIsKept /\ AnswerIsOfWhatWasAsked
BY DEF VerdictIsKept, AnswerIsOfWhatWasAsked, Stands

(* A limit marks a process as killed. *)
LEMMA ChildLimitKeeps ==
  ASSUME Inv, NEW e \in Execs, ChildLimit(e)
  PROVE  Kept
<1>1. /\ UNCHANGED <<host, died, db, queue, phase, ask, got, asked, entry, path, hit,
                     dataset, file, known, deleting>>
      /\ \A z \in Execs : kill'[z] = IF z = e THEN "failed" ELSE kill[z]
  BY DEF ChildLimit, Inv, Types
<1>2. Types'
  BY <1>1 DEF Inv, Types, ChildLimit
<1>3. QueueFits'
  BY <1>1, QueueStays
<1>4. JobsFit(db)'
  BY <1>1 DEF Inv, JobsFit
<1>5. CapturesFit(db)'
  BY <1>1 DEF Inv, CapturesFit
<1>6. GotFits(db)'
  BY <1>1 DEF Inv, GotFits, Held
<1>7. FilesFit(dataset, file)'
  BY <1>1, FilesFitStill DEF Held
<1>8. VerdictIsKept /\ AnswerIsOfWhatWasAsked
  BY <1>1, DbFields DEF VerdictIsKept, AnswerIsOfWhatWasAsked, Inv, Types
<1>9. RowsFit(db)'
  BY <1>1 DEF Inv
<1>10. QED BY <1>2, <1>3, <1>4, <1>5, <1>6, <1>7, <1>8, <1>9 DEF Inv, Kept

(* The dataset is built: the file holds the snapshot of the job. *)
LEMMA ChildRunsKeeps ==
  ASSUME Inv, NEW e \in Execs, ChildRuns(e)
  PROVE  Kept
<1>1. /\ host = "up" /\ phase[e] = "loading" /\ Held(e) /\ path[e] \in Paths /\ got[e] \in Snaps
      /\ UNCHANGED <<host, died, queue, ask, got, kill, asked, entry, path, hit, dataset, known, deleting>>
      /\ \A z \in Execs : phase'[z] = IF z = e THEN "running" ELSE phase[z]
  BY DEF ChildRuns, Inv, Types, FilesFit, GotFits, Held
<1>2. /\ db \in DbType /\ db.row[e] \in LiveRows \cup {"none"} /\ "running" \in Rows \ {"none", "succeeded"}
      /\ "running" \in LiveRows
  BY <1>1 DEF Inv, Types, JobsFit, Rows, LiveRows
<1>3. /\ db' \in DbType
      /\ \A z \in Execs : db'.row[z] = IF z = e /\ db.row[e] # "none" THEN "running" ELSE db.row[z]
      /\ db'.used = db.used /\ db'.snap = db.snap /\ db'.live = db.live
  BY <1>2, SetRowIs DEF ChildRuns
<1>4. RowsFit(db)' /\ Later(db, db', e, {})
  BY <1>2, SetRowFits DEF ChildRuns, Inv
<1>5. Types'
  <2>1. file' \in [Paths -> Snaps \cup {None, Partial}] /\ phase' \in [Execs -> Phases]
    BY <1>1 DEF ChildRuns, Inv, Types, Phases
  <2>2. QED BY <1>1, <1>3, <2>1 DEF Inv, Types
<1>6. QueueFits'
  BY <1>1, QueueStays
<1>7. JobsFit(db)'
  BY <1>1, <1>2, <1>3 DEF Inv, JobsFit
<1>8. CapturesFit(db)'
  BY <1>1, <1>3 DEF Inv, CapturesFit
<1>9. GotFits(db)'
  BY <1>1, <1>3 DEF Inv, GotFits, Held
<1>10. FilesFit(dataset, file)'
  <2>1. \A p \in Paths : file'[p] = IF e \notin hit /\ p = path[e] THEN got[e] ELSE file[p]
    BY <1>1 DEF ChildRuns, Inv, Types
  <2>2. \A i \in Snaps : dataset[i] # Nobody => dataset[i] \in Paths /\ (e \notin hit => dataset[i] # path[e])
    BY <1>1 DEF Inv, Types, FilesFit
  <2>3. \A z \in Execs : Held(z)' <=> Held(z)
    BY <1>1 DEF Held
  <2>4. \A z \in Execs \ {e} : Held(z) => path[z] \in Paths /\ (e \notin hit => path[z] # path[e])
    BY <1>1 DEF Inv, FilesFit
  <2>5. \A z \in Execs : z \in hit' \/ phase'[z] = "running" => file'[path'[z]] = got'[z]
    <3> TAKE z \in Execs
    <3>1. CASE z = e
      BY <1>1, <2>1, <3>1 DEF Inv, FilesFit
    <3>2. CASE z # e
      BY <1>1, <2>1, <2>4, <3>2 DEF Inv, FilesFit, Held
    <3>3. QED BY <3>1, <3>2
  <2>6. QED BY <1>1, <2>1, <2>2, <2>3, <2>5 DEF Inv, FilesFit
<1>11. VerdictIsKept /\ AnswerIsOfWhatWasAsked
  BY <1>2, <1>3, <1>4 DEF VerdictIsKept, AnswerIsOfWhatWasAsked, Later, Stands
<1>12. QED BY <1>4, <1>5, <1>6, <1>7, <1>8, <1>9, <1>10, <1>11 DEF Inv, Kept

(* A job gets the dataset of its snapshot, or a free file to build it in. *)
LEMMA ProceedChildKeeps ==
  ASSUME Inv, NEW e \in Execs, ProceedChild(e)
  PROVE  Kept
<1>1. /\ phase[e] = "captured" /\ db.snap[got[e]].version = ask[e].expect
      /\ UNCHANGED <<host, died, queue, ask, got, kill, asked, entry, dataset, known, deleting>>
      /\ \A z \in Execs : phase'[z] = IF z = e THEN "loading" ELSE phase[z]
      /\ db' = Located(db, e)
  BY DEF ProceedChild, Accepted, Inv, Types
<1>2. got[e] \in Snaps /\ ~Held(e) /\ path[e] = Nobody /\ e \notin hit /\ Nobody \notin Paths
  <2>1. got[e] \in Snaps
    BY <1>1 DEF Inv, Types, GotFits
  <2>2. ~Held(e)
    BY <1>1 DEF Held
  <2>3. QED BY <2>1, <2>2, QueryAssumption DEF Inv, FilesFit
<1>3. /\ db' \in DbType /\ RowsFit(db)'
      /\ \A z \in Execs : db'.used[z] = IF z = e /\ db.row[e] # "none" THEN got[e] ELSE db.used[z]
      /\ db'.row = db.row /\ db'.snap = db.snap /\ db'.live = db.live
  BY <1>1, LocatedIs
<1>4. PICK p \in Paths :
        /\ \A z \in Execs : path'[z] = IF z = e THEN p ELSE path[z]
        /\ \/ /\ dataset[got[e]] = p /\ hit' = hit \cup {e} /\ file' = file
           \/ /\ hit' = hit /\ file' = [file EXCEPT ![p] = Partial]
              /\ file[p] = None /\ Reading(phase, p) = {}
  <2>1. CASE dataset[got[e]] # Nobody
    BY <1>2, <2>1 DEF ProceedChild, Inv, Types
  <2>2. CASE dataset[got[e]] = Nobody
    BY <2>2 DEF ProceedChild, Inv, Types, Lowest
  <2>3. QED BY <2>1, <2>2
<1>5. Types'
  <2>1. phase' \in [Execs -> Phases]
    BY <1>1 DEF ProceedChild, Inv, Types, Phases
  <2>2. file' \in [Paths -> Snaps \cup {None, Partial}] /\ hit' \subseteq Execs
    BY <1>4 DEF Inv, Types
  <2>3. path' \in [Execs -> Paths \cup {Nobody}]
    BY <1>4, <1>2 DEF ProceedChild, Inv, Types
  <2>4. QED BY <1>1, <1>3, <2>1, <2>2, <2>3 DEF Inv, Types
<1>6. QueueFits'
  BY <1>1, QueueStays
<1>7. JobsFit(db)'
  BY <1>1, <1>3 DEF Inv, JobsFit
<1>8. CapturesFit(db)'
  BY <1>1, <1>3 DEF Inv, CapturesFit
<1>9. GotFits(db)'
  BY <1>1, <1>3 DEF Inv, GotFits, Held
<1>10. FilesFit(dataset, file)'
  <2>1. \A z \in Execs : Held(z)' <=> z = e \/ Held(z)
    BY <1>1 DEF Held
  <2>2. FilesFit(dataset, file)
    BY DEF Inv
  <2>3. CASE dataset[got[e]] = p /\ hit' = hit \cup {e} /\ file' = file
    BY <1>1, <1>2, <1>4, <2>1, <2>2, <2>3 DEF FilesFit, Held
  <2>4. CASE hit' = hit /\ file' = [file EXCEPT ![p] = Partial] /\ file[p] = None /\ Reading(phase, p) = {}
    <3>1. \A q \in Paths : file'[q] = IF q = p THEN Partial ELSE file[q]
      BY <2>4 DEF Inv, Types
    <3>2. \A z \in Execs : path[z] # p
      BY <2>2, <2>4, <1>2 DEF Reading, FilesFit, Held
    <3>3. \A i \in Snaps : dataset[i] # p
      BY <2>2, <2>4, <1>2 DEF FilesFit, Snaps, None
    <3>4. \A i \in Snaps : dataset[i] # Nobody => file'[dataset[i]] = i
      BY <2>2, <3>1, <3>3 DEF FilesFit, Inv, Types
    <3>5. \A z \in Execs : z \in hit' \/ phase'[z] = "running" => file'[path'[z]] = got'[z]
      BY <1>1, <1>2, <1>4, <2>2, <2>4, <3>1, <3>2 DEF FilesFit, Held
    <3>6. QED BY <1>1, <1>2, <1>4, <2>1, <2>2, <2>4, <3>2, <3>3, <3>4, <3>5 DEF FilesFit
  <2>5. QED BY <1>4, <2>3, <2>4
<1>11. VerdictIsKept /\ AnswerIsOfWhatWasAsked
  BY <1>3, DbFields DEF VerdictIsKept, AnswerIsOfWhatWasAsked, Inv, Types
<1>12. QED BY <1>3, <1>5, <1>6, <1>7, <1>8, <1>9, <1>10, <1>11 DEF Inv, Kept

-----------------------------------------------------------------------------
(* Captures *)

(* A capture under way has a snapshot of its own that no row names. *)
LEMMA CaptureIs ==
  ASSUME Inv, NEW s \in Searches, entry[s].snap # None
  PROVE  /\ entry[s].snap \in Snaps
         /\ \A z \in Execs : z \in entry[s].waiting => OwnerOf[z] = s /\ phase[z] = "capture"
         /\ \A t \in Searches \ {s} : entry[t].snap # entry[s].snap
         /\ \A z \in Execs : got[z] # entry[s].snap
         /\ s \in db.live => db.snap[entry[s].snap].of = s /\ ~db.snap[entry[s].snap].ready
         /\ \A z \in Execs : db.used[z] # entry[s].snap
<1>1. entry[s].snap \in Snaps /\ CapturesFit(db) /\ db \in DbType /\ s # Nobody
  BY QueryAssumption DEF Inv, Types
<1>2. ~db.snap[entry[s].snap].ready
  BY <1>1 DEF CapturesFit, NoSnap
<1>3. \A z \in Execs : got[z] # entry[s].snap
  BY <1>1 DEF CapturesFit
<1>4. \A z \in Execs : db.used[z] # entry[s].snap
  BY <1>2 DEF Inv, RowsFit
<1>5. QED BY <1>1, <1>2, <1>3, <1>4 DEF CapturesFit

(* A capture ends, and who waited for it has the snapshot. *)
LEMMA CaptureDoneKeeps ==
  ASSUME Inv, NEW s \in Searches, CaptureDone(s)
  PROVE  Kept
<1> DEFINE i == entry[s].snap
           mine == entry[s].waiting \cap Execs
<1>1. /\ i \in Snaps /\ i # None
      /\ \A z \in mine : OwnerOf[z] = s /\ phase[z] = "capture"
      /\ \A t \in Searches \ {s} : entry[t].snap # i
      /\ \A z \in Execs : got[z] # i /\ db.used[z] # i
      /\ s \in db.live => db.snap[i].of = s /\ ~db.snap[i].ready
      /\ db \in DbType
  BY CaptureIs DEF CaptureDone, Inv, Types
<1>2. /\ UNCHANGED <<host, died, queue, ask, kill, asked, path, hit, dataset, file, deleting>>
      /\ phase' = [z \in Execs |-> IF z \in mine THEN "captured" ELSE phase[z]]
      /\ got' = [z \in Execs |-> IF z \in mine THEN i ELSE got[z]]
      /\ entry' = [entry EXCEPT ![s] = NoEntry]
      /\ db' = IF db.snap[i].of = s THEN [db EXCEPT !.snap[i].ready = TRUE] ELSE db
      /\ host = "up"
  BY DEF CaptureDone
<1>3. known' \in [Searches -> [snap : Snaps \cup {None, Lost}, version : 0..MaxVersion]]
  <2>1. db.snap[i].version \in 0 .. MaxVersion
    BY <1>1, DbFields DEF Snapshots
  <2>2. CASE known' = known
    BY <2>2 DEF Inv, Types
  <2>3. CASE known' = [known EXCEPT ![s] = [snap |-> i, version |-> db.snap[i].version]]
    BY <1>1, <2>1, <2>3 DEF Inv, Types
  <2>4. QED BY <2>2, <2>3 DEF CaptureDone
<1>4. /\ db' \in DbType
      /\ db'.row = db.row /\ db'.used = db.used /\ db'.rows = db.rows /\ db'.kept = db.kept
      /\ db'.applied = db.applied /\ db'.live = db.live /\ db'.version = db.version
      /\ \A j \in Snaps : /\ db'.snap[j].of = db.snap[j].of /\ db'.snap[j].version = db.snap[j].version
                          /\ j # i => db'.snap[j] = db.snap[j]
      /\ db.snap[i].of = s => db'.snap[i].ready
  <2>1. CASE db.snap[i].of = s
    <3> DEFINE sn == [db.snap EXCEPT ![i] = [@ EXCEPT !.ready = TRUE]]
           new == [db.snap[i] EXCEPT !.ready = TRUE]
    <3> db.snap \in [Snaps -> Snapshots]
      BY <1>1, DbFields
    <3> new \in Snapshots /\ new.of = db.snap[i].of /\ new.version = db.snap[i].version /\ new.ready
      BY <1>1 DEF Snapshots
    <3> HIDE DEF new
    <3>1. sn = [db.snap EXCEPT ![i] = new] /\ sn \in [Snaps -> Snapshots]
      BY <1>1 DEF new
    <3>2. \A j \in Snaps : /\ sn[j].of = db.snap[j].of /\ sn[j].version = db.snap[j].version
                           /\ j # i => sn[j] = db.snap[j]
                           /\ j = i => sn[j].ready
      BY <1>1, <3>1
    <3>3. db' = [db EXCEPT !.snap = sn]
      BY <1>2, <2>1
    <3> HIDE DEF sn
    <3>4. QED BY <1>1, <3>1, <3>2, <3>3, SnapsSet
  <2>2. CASE db.snap[i].of # s
    BY <1>1, <1>2, <2>2
  <2>3. QED BY <2>1, <2>2
<1>5. \A z \in Execs : /\ phase'[z] = IF z \in mine THEN "captured" ELSE phase[z]
                       /\ got'[z] = IF z \in mine THEN i ELSE got[z]
  BY <1>2
<1>6. \A t \in Searches : entry'[t] = IF t = s THEN NoEntry ELSE entry[t]
  BY <1>2 DEF Inv, Types
<1> HIDE DEF i
<1>7. Types'
  <2>1. phase' \in [Execs -> Phases] /\ got' \in [Execs -> Snaps \cup {None}]
    BY <1>1, <1>2 DEF Inv, Types, Phases
  <2>2. entry' \in [Searches -> [snap : Snaps \cup {None},
                                 waiting : SUBSET (Execs \cup {Client}), aborted : BOOLEAN]]
    BY <1>2 DEF Inv, Types, NoEntry
  <2>3. QED BY <1>2, <1>3, <1>4, <2>1, <2>2 DEF Inv, Types
<1>8. QueueFits'
  BY <1>1, <1>2, <1>5, QueueStays
<1>9. JobsFit(db)'
  BY <1>1, <1>2, <1>4, <1>5 DEF Inv, JobsFit
<1>10. CapturesFit(db)'
  <2>1. \A t \in Searches \ {s} : entry[t].snap # None =>
           entry[t].snap \in Snaps /\ db'.snap[entry[t].snap] = db.snap[entry[t].snap]
    BY <1>1, <1>4 DEF Inv, Types
  <2> HIDE DEF mine
  <2>2. \A t \in Searches \ {s} : \A z \in Execs : z \in entry[t].waiting => z \notin mine
    BY <1>1 DEF Inv, CapturesFit
  <2>3. \A t \in Searches \ {s} : \A z \in Execs : got'[z] # None => got'[z] # entry[t].snap
    BY <1>1, <1>5 DEF Inv, CapturesFit
  <2>4. /\ entry'[s].snap = None /\ entry'[s] = NoEntry /\ entry'[s].waiting = {}
        /\ \A t \in Searches \ {s} : entry'[t] = entry[t]
    <3>1. NoEntry.snap = None /\ NoEntry.waiting = {}
      BY DEF NoEntry
    <3>2. QED BY <1>6, <3>1
  <2>5. /\ \A t \in Searches \ {s} : \A z \in Execs : z \in entry[t].waiting <=> OwnerOf[z] = t /\ phase'[z] = "capture"
        /\ \A z \in Execs : ~(OwnerOf[z] = s /\ phase'[z] = "capture")
    BY <1>5, <2>2 DEF Inv, CapturesFit, mine
  <2>6. QED BY <1>4, <2>1, <2>3, <2>4, <2>5 DEF Inv, CapturesFit
<1>11. GotFits(db)'
  <2>1. \A z \in mine : db.row[z] # "none" => s \in db.live
    BY <1>1 DEF Inv, RowsFit
  <2>2. \A z \in Execs : got[z] # None => db'.snap[got[z]] = db.snap[got[z]]
    BY <1>1, <1>4 DEF Inv, Types
  <2> HIDE DEF mine
  <2>3. \A z \in mine :
          /\ got'[z] = i /\ ~Held(z)' /\ phase'[z] = "captured"
          /\ db'.row[z] # "none" => db'.snap[i].of = OwnerOf[z] /\ db'.snap[i].ready
    BY <1>1, <1>4, <1>5, <2>1 DEF Held, mine
  <2>4. \A z \in Execs \ mine : got'[z] = got[z] /\ phase'[z] = phase[z] /\ Held(z)' = Held(z)
    BY <1>5 DEF Held
  <2>5. ask' = ask /\ db'.row = db.row /\ db'.used = db.used /\ GotFits(db)
    BY <1>2, <1>4 DEF Inv
  <2>6. \A z \in Execs \ mine :
          /\ phase'[z] \in {"idle", "queued", "capture"} => got'[z] = None
          /\ phase'[z] \in {"captured", "loading", "running"} =>
               /\ got'[z] # None
               /\ db'.row[z] # "none" => db'.snap[got'[z]].of = OwnerOf[z] /\ db'.snap[got'[z]].ready
          /\ Held(z)' /\ db'.row[z] # "none" =>
               /\ db'.used[z] = got'[z]
               /\ db'.snap[got'[z]].version = ask'[z].expect
    <3> TAKE z \in Execs \ mine
    <3>1. got[z] # None => db'.snap[got[z]] = db.snap[got[z]]
      BY <2>2
    <3>2. QED BY <2>4, <2>5, <3>1 DEF GotFits, Held
  <2>7. QED BY <1>1, <2>3, <2>6 DEF GotFits, Held
<1>12. RowsFit(db)'
  <2>1. \A z \in Execs : db.used[z] # None => db'.snap[db.used[z]] = db.snap[db.used[z]]
    BY <1>1, <1>4, DbFields
  <2>2. QED BY <1>4, <2>1 DEF Inv, RowsFit, IsApplied
<1>13. FilesFit(dataset, file)'
  BY <1>1, <1>2, <1>5, FilesFitStill DEF Held
<1>14. VerdictIsKept /\ AnswerIsOfWhatWasAsked
  BY <1>1, <1>4, DbFields DEF VerdictIsKept, AnswerIsOfWhatWasAsked
<1>15. QED BY <1>7, <1>8, <1>9, <1>10, <1>11, <1>12, <1>13, <1>14 DEF Inv, Kept

(* A capture fails: its snapshot goes, which no row names and no job has. *)
LEMMA CaptureFailsKeeps ==
  ASSUME Inv, NEW s \in Searches, CaptureFails(s)
  PROVE  Kept
<1> DEFINE i == entry[s].snap
           mine == entry[s].waiting \cap Execs
           why == IF entry[s].aborted THEN "cancelled" ELSE "failed"
           sn == [db.snap EXCEPT ![i] = NoSnap]
<1>1. /\ i \in Snaps /\ i # None
      /\ \A z \in mine : OwnerOf[z] = s /\ phase[z] = "capture"
      /\ \A t \in Searches \ {s} : entry[t].snap # i
      /\ \A z \in Execs : got[z] # i /\ db.used[z] # i
      /\ db \in DbType
  BY CaptureIs DEF CaptureFails, Inv, Types
<1>2. /\ UNCHANGED <<host, died, queue, ask, got, asked, path, hit, dataset, file, known, deleting>>
      /\ phase' = [z \in Execs |-> IF z \in mine THEN "rejected" ELSE phase[z]]
      /\ kill' = [z \in Execs |-> IF z \in mine THEN why ELSE kill[z]]
      /\ entry' = [entry EXCEPT ![s] = NoEntry]
      /\ db' \in {db, [db EXCEPT !.snap = sn]}
  BY <1>1, DbFields DEF CaptureFails
<1>3. /\ db' \in DbType
      /\ db'.row = db.row /\ db'.used = db.used /\ db'.rows = db.rows /\ db'.kept = db.kept
      /\ db'.applied = db.applied /\ db'.live = db.live /\ db'.version = db.version
      /\ \A j \in Snaps : j # i => db'.snap[j] = db.snap[j]
  <2>1. CASE db' = db
    BY <1>1, <2>1
  <2>2. CASE db' = [db EXCEPT !.snap = sn]
    <3>1. NoSnap \in Snapshots
      BY QueryAssumption DEF NoSnap, Snapshots
    <3>2. sn \in [Snaps -> Snapshots] /\ \A j \in Snaps : j # i => sn[j] = db.snap[j]
      BY <1>1, <3>1, DbFields
    <3> HIDE DEF sn
    <3>3. QED BY <1>1, <2>2, <3>2, SnapsSet
  <2>3. QED BY <1>2, <2>1, <2>2
<1>4. \A z \in Execs : /\ phase'[z] = IF z \in mine THEN "rejected" ELSE phase[z]
                       /\ kill'[z] = IF z \in mine THEN why ELSE kill[z]
  BY <1>2
<1>5. /\ entry'[s].snap = None /\ entry'[s] = NoEntry /\ entry'[s].waiting = {}
      /\ \A t \in Searches \ {s} : entry'[t] = entry[t]
  <2>1. NoEntry.snap = None /\ NoEntry.waiting = {}
    BY DEF NoEntry
  <2>2. QED BY <1>2, <2>1 DEF Inv, Types
<1> HIDE DEF i
<1>6. Types'
  <2>1. phase' \in [Execs -> Phases] /\ kill' \in [Execs -> {"no", "cancelled", "failed"}]
    BY <1>2 DEF Inv, Types, Phases
  <2>2. entry' \in [Searches -> [snap : Snaps \cup {None},
                                 waiting : SUBSET (Execs \cup {Client}), aborted : BOOLEAN]]
    BY <1>2 DEF Inv, Types, NoEntry
  <2>3. QED BY <1>2, <1>3, <2>1, <2>2 DEF Inv, Types
<1>7. QueueFits'
  BY <1>1, <1>2, <1>4, QueueStays
<1>8. JobsFit(db)'
  BY <1>1, <1>2, <1>3, <1>4 DEF Inv, JobsFit
<1>9. CapturesFit(db)'
  <2>1. \A t \in Searches \ {s} : entry[t].snap # None =>
           entry[t].snap \in Snaps /\ db'.snap[entry[t].snap] = db.snap[entry[t].snap]
    BY <1>1, <1>3 DEF Inv, Types
  <2> HIDE DEF mine
  <2>2. /\ \A t \in Searches \ {s} : \A z \in Execs : z \in entry[t].waiting <=> OwnerOf[z] = t /\ phase'[z] = "capture"
        /\ \A z \in Execs : ~(OwnerOf[z] = s /\ phase'[z] = "capture")
    BY <1>1, <1>4 DEF Inv, CapturesFit, mine
  <2>3. QED BY <1>2, <1>3, <1>5, <2>1, <2>2 DEF Inv, CapturesFit
<1>10. GotFits(db)'
  <2>1. \A z \in Execs : got[z] # None => db'.snap[got[z]] = db.snap[got[z]]
    BY <1>1, <1>3 DEF Inv, Types
  <2> HIDE DEF mine
  <2>2. QED BY <1>2, <1>3, <1>4, <2>1 DEF Inv, GotFits, Held
<1>11. RowsFit(db)'
  <2>1. \A z \in Execs : db.used[z] # None => db'.snap[db.used[z]] = db.snap[db.used[z]]
    BY <1>1, <1>3, DbFields
  <2>2. QED BY <1>3, <2>1 DEF Inv, RowsFit, IsApplied
<1>12. FilesFit(dataset, file)'
  BY <1>1, <1>2, <1>4, FilesFitStill DEF Held
<1>13. VerdictIsKept /\ AnswerIsOfWhatWasAsked
  BY <1>1, <1>3, DbFields DEF VerdictIsKept, AnswerIsOfWhatWasAsked
<1>14. QED BY <1>6, <1>7, <1>8, <1>9, <1>10, <1>11, <1>12, <1>13 DEF Inv, Kept

-----------------------------------------------------------------------------
(* Requests *)

(* A chat turn cites a result that is there. *)
LEMMA PinKeeps ==
  ASSUME Inv, NEW e \in Execs, Pin(e)
  PROVE  Kept
<1>1. /\ UNCHANGED <<host, service>> /\ db.row[e] = "succeeded" /\ db \in DbType
      /\ db' = [db EXCEPT !.kept = @ \cup {e}]
  BY DEF Pin, Inv, Types
<1>2. /\ db' \in DbType
      /\ db'.row = db.row /\ db'.used = db.used /\ db'.rows = db.rows /\ db'.snap = db.snap
      /\ db'.applied = db.applied /\ db'.live = db.live /\ db'.version = db.version
      /\ db'.kept = db.kept \cup {e}
  BY <1>1 DEF DbType
<1>3. Types' /\ QueueFits'
  BY <1>1, <1>2 DEF Inv, Types, QueueFits, service
<1>4. JobsFit(db)' /\ GotFits(db)'
  BY <1>1, <1>2 DEF Inv, JobsFit, GotFits, Held, service
<1>5. CapturesFit(db)'
  BY <1>1, <1>2 DEF Inv, CapturesFit, service
<1>6. RowsFit(db)'
  BY <1>1, <1>2 DEF Inv, RowsFit, IsApplied
<1>7. FilesFit(dataset, file)'
  BY <1>1, FilesFitStill DEF Held, service
<1>8. VerdictIsKept /\ AnswerIsOfWhatWasAsked
  BY <1>1, <1>2, DbFields DEF VerdictIsKept, AnswerIsOfWhatWasAsked
<1>9. QED BY <1>3, <1>4, <1>5, <1>6, <1>7, <1>8 DEF Inv, Kept

(* The offers of a search change; no snapshot does. *)
LEMMA ChangeKeeps ==
  ASSUME Inv, NEW s \in Searches, Change(s)
  PROVE  Kept
<1>1. /\ UNCHANGED <<host, service>> /\ db \in DbType
      /\ db.version[s] < MaxVersion /\ db' = [db EXCEPT !.version[s] = @ + 1]
  BY DEF Change, Inv, Types
<1>2. db.version[s] + 1 \in 0 .. MaxVersion
  BY <1>1, DbFields, QueryAssumption
<1>3. /\ db' \in DbType
      /\ db'.row = db.row /\ db'.used = db.used /\ db'.rows = db.rows /\ db'.snap = db.snap
      /\ db'.applied = db.applied /\ db'.live = db.live /\ db'.kept = db.kept
  BY <1>1, <1>2 DEF DbType
<1>4. Types' /\ QueueFits'
  BY <1>1, <1>3 DEF Inv, Types, QueueFits, service
<1>5. JobsFit(db)' /\ GotFits(db)'
  BY <1>1, <1>3 DEF Inv, JobsFit, GotFits, Held, service
<1>6. CapturesFit(db)'
  BY <1>1, <1>3 DEF Inv, CapturesFit, service
<1>7. RowsFit(db)'
  BY <1>1, <1>3 DEF Inv, RowsFit, IsApplied
<1>8. FilesFit(dataset, file)'
  BY <1>1, FilesFitStill DEF Held, service
<1>9. VerdictIsKept /\ AnswerIsOfWhatWasAsked
  BY <1>1, <1>3, DbFields DEF VerdictIsKept, AnswerIsOfWhatWasAsked
<1>10. QED BY <1>4, <1>5, <1>6, <1>7, <1>8, <1>9 DEF Inv, Kept

(* A client lets go of a result, and collection runs. *)
LEMMA ReleaseKeeps ==
  ASSUME Inv, NEW e \in Execs, Release(e)
  PROVE  Kept
<1> DEFINE d == IF e \in db.pinned THEN [db EXCEPT !.pinned = @ \ {e}] ELSE db
<1>1. /\ UNCHANGED <<host, service>> /\ db \in DbType /\ host = "up" /\ InWork' = InWork
      /\ db' \in Gc(d, 0, db.pinned \cap {e}, InWork)
  BY DEF Release, Inv, Types, service, InWork, InWorkBut
<1>2. /\ d \in DbType
      /\ d.row = db.row /\ d.used = db.used /\ d.rows = db.rows /\ d.snap = db.snap
      /\ d.applied = db.applied /\ d.live = db.live /\ d.version = db.version /\ d.kept = db.kept
  BY <1>1 DEF DbType
<1> HIDE DEF d
<1>3. Collected(d, db', InWork)
  BY <1>1, <1>2, GcCollects
<1>4. RowsFit(d) /\ Later(db, d, Nobody, InWork)
  <2>1. RowsFit(d)
    BY <1>2 DEF Inv, RowsFit, IsApplied
  <2>2. Later(db, d, Nobody, InWork)
    BY <1>1, <1>2, DbFields DEF Later, Stands, SettledRows
  <2>3. QED BY <2>1, <2>2
<1>5. db' \in DbType /\ RowsFit(db') /\ Later(d, db', Nobody, InWork)
  BY <1>2, <1>3, <1>4, CollectedFits, CollectedIsLater DEF Collected
<1>6. Later(db, db', Nobody, InWork)
  BY <1>1, <1>2, <1>4, <1>5, LaterStill, QueryAssumption
<1>7. JobsFit(db') /\ CapturesFit(db') /\ GotFits(db')
  BY <1>1, <1>5, <1>6, LaterFits DEF Inv
<1>8. Types' /\ QueueFits'
  BY <1>1, <1>5 DEF Inv, Types, QueueFits, service
<1>9. JobsFit(db)' /\ GotFits(db)'
  BY <1>1, <1>7 DEF JobsFit, GotFits, Held, service
<1>10. CapturesFit(db)'
  BY <1>1, <1>7 DEF CapturesFit, service
<1>11. RowsFit(db)'
  BY <1>5
<1>12. FilesFit(dataset, file)'
  BY <1>1, FilesFitStill DEF Held, service
<1>13. VerdictIsKept /\ AnswerIsOfWhatWasAsked
  BY <1>6, QueryAssumption DEF VerdictIsKept, AnswerIsOfWhatWasAsked, Later, Stands
<1>14. QED BY <1>8, <1>9, <1>10, <1>11, <1>12, <1>13 DEF Inv, Kept

(* The queue *)
Once(q) == \A i, j \in 1 .. Len(q) : q[i] = q[j] => i = j

(* A job more at the end of the queue. *)
LEMMA QueueAppended ==
  ASSUME NEW q \in Seq(Execs), Once(q), NEW e \in Execs, \A i \in 1 .. Len(q) : q[i] # e
  PROVE  /\ Append(q, e) \in Seq(Execs) /\ Once(Append(q, e))
         /\ \A i \in 1 .. Len(Append(q, e)) : Append(q, e)[i] = e \/ \E k \in 1 .. Len(q) : Append(q, e)[i] = q[k]
         /\ \A k \in 1 .. Len(q) : k \in 1 .. Len(Append(q, e)) /\ Append(q, e)[k] = q[k]
         /\ Len(q) + 1 \in 1 .. Len(Append(q, e)) /\ Append(q, e)[Len(q) + 1] = e
BY DEF Once

(* The head of the queue, and the rest. *)
LEMMA QueueTaken ==
  ASSUME NEW q \in Seq(Execs), Once(q), q # <<>>
  PROVE  /\ Tail(q) \in Seq(Execs) /\ Once(Tail(q)) /\ Head(q) \in Execs /\ Head(q) = q[1] /\ 1 \in 1 .. Len(q)
         /\ \A i \in 1 .. Len(Tail(q)) : Tail(q)[i] # Head(q) /\ \E k \in 1 .. Len(q) : Tail(q)[i] = q[k]
         /\ \A k \in 1 .. Len(q) : q[k] = Head(q) \/ \E i \in 1 .. Len(Tail(q)) : Tail(q)[i] = q[k]
<1>1. /\ Tail(q) \in Seq(Execs) /\ Len(Tail(q)) = Len(q) - 1 /\ Len(q) \in Nat /\ Len(q) > 0
      /\ Head(q) = q[1]
      /\ \A i \in 1 .. Len(Tail(q)) : Tail(q)[i] = q[i + 1]
  BY HeadTailProperties
<1>2. \A i \in 1 .. Len(Tail(q)) : i + 1 \in 1 .. Len(q) /\ i + 1 # 1
  BY <1>1
<1>3. 1 \in 1 .. Len(q) /\ Head(q) \in Execs
  BY <1>1
<1>4. Once(Tail(q))
  BY <1>1, <1>2 DEF Once
<1>5. \A k \in 1 .. Len(q) : q[k] = Head(q) \/ \E i \in 1 .. Len(Tail(q)) : Tail(q)[i] = q[k]
  <2> TAKE k \in 1 .. Len(q)
  <2>1. k = 1 \/ (k - 1 \in 1 .. Len(Tail(q)) /\ (k - 1) + 1 = k)
    BY <1>1
  <2>2. QED BY <1>1, <2>1
<1>6. QED BY <1>1, <1>2, <1>3, <1>4, <1>5 DEF Once

(* A job leaves the queue from where it stands (splice). *)
LEMMA QueueLeft ==
  ASSUME NEW q \in Seq(Execs), Once(q), NEW i \in DOMAIN q
  PROVE  LET r == RemoveAt(q, i) IN
         /\ r \in Seq(Execs) /\ Once(r)
         /\ \A j \in 1 .. Len(r) : r[j] # q[i] /\ \E k \in 1 .. Len(q) : r[j] = q[k]
         /\ \A k \in 1 .. Len(q) : q[k] = q[i] \/ \E j \in 1 .. Len(r) : r[j] = q[k]
<1> DEFINE u == SubSeq(q, 1, i - 1)
           v == SubSeq(q, i + 1, Len(q))
           r == u \o v
           at(j) == IF j < i THEN j ELSE j + 1
<1>1. i \in 1 .. Len(q) /\ Len(q) \in Nat
  OBVIOUS
<1>2. /\ u \in Seq(Execs) /\ Len(u) = i - 1
      /\ \A j \in 1 .. (i - 1) : u[j] = q[j]
  <2>1. /\ 1 \in Int /\ i - 1 \in Int /\ (i - 1) - 1 + 1 = i - 1
        /\ (IF 1 <= i - 1 THEN (i - 1) - 1 + 1 ELSE 0) = i - 1
        /\ \A j \in 1 .. (i - 1) : q[j] \in Execs /\ 1 + j - 1 = j
    BY <1>1
  <2>2. /\ u \in Seq(Execs) /\ Len(u) = i - 1
        /\ \A j \in 1 .. (i - 1) : u[j] = q[1 + j - 1]
    BY <2>1, SubSeqProperties
  <2>3. QED BY <2>1, <2>2
<1>3. /\ v \in Seq(Execs) /\ Len(v) = Len(q) - i
      /\ \A j \in 1 .. (Len(q) - i) : v[j] = q[i + j]
  <2>1. /\ i + 1 \in Int /\ Len(q) \in Int /\ Len(q) - (i + 1) + 1 = Len(q) - i
        /\ (IF i + 1 <= Len(q) THEN Len(q) - (i + 1) + 1 ELSE 0) = Len(q) - i
        /\ \A j \in (i + 1) .. Len(q) : q[j] \in Execs
        /\ \A j \in 1 .. (Len(q) - i) : (i + 1) + j - 1 = i + j
    BY <1>1
  <2>2. /\ v \in Seq(Execs) /\ Len(v) = Len(q) - i
        /\ \A j \in 1 .. (Len(q) - i) : v[j] = q[(i + 1) + j - 1]
    BY <2>1, SubSeqProperties
  <2>3. QED BY <2>1, <2>2
<1> HIDE DEF u, v
<1>4. /\ r \in Seq(Execs) /\ Len(r) = Len(q) - 1
      /\ \A j \in 1 .. Len(r) : r[j] = IF j <= Len(u) THEN u[j] ELSE v[j - Len(u)]
  BY <1>1, <1>2, <1>3, ConcatProperties, SMTT(30)
<1>5. r = RemoveAt(q, i)
  BY DEF RemoveAt, u, v
<1> HIDE DEF r
<1>6. \A j \in 1 .. Len(r) : r[j] = q[at(j)] /\ at(j) \in 1 .. Len(q) /\ at(j) # i
  <2> TAKE j \in 1 .. Len(r)
  <2>1. CASE j < i
    BY <1>1, <1>2, <1>4, <2>1
  <2>2. CASE ~(j < i)
    <3>1. /\ ~(j <= Len(u)) /\ j - Len(u) = (j - i) + 1 /\ (j - i) + 1 \in 1 .. (Len(q) - i)
          /\ i + ((j - i) + 1) = j + 1 /\ j + 1 \in 1 .. Len(q) /\ j + 1 # i /\ at(j) = j + 1
      BY <1>1, <1>2, <1>4, <2>2
    <3>2. r[j] = v[(j - i) + 1]
      BY <1>4, <3>1
    <3>3. v[(j - i) + 1] = q[i + ((j - i) + 1)]
      BY <1>3, <3>1
    <3>4. QED BY <3>1, <3>2, <3>3
  <2>3. QED BY <2>1, <2>2
<1>7. Once(r)
  <2> SUFFICES ASSUME NEW j \in 1 .. Len(r), NEW k \in 1 .. Len(r), r[j] = r[k]
               PROVE  j = k
    BY DEF Once
  <2>1. at(j) = at(k)
    <3> HIDE DEF at
    <3>1. /\ at(j) \in 1 .. Len(q) /\ q[at(j)] = r[j]
          /\ at(k) \in 1 .. Len(q) /\ q[at(k)] = r[k]
      BY <1>6
    <3>2. QED BY <3>1 DEF Once
  <2>2. QED BY <1>1, <1>4, <2>1
<1>8. \A j \in 1 .. Len(r) : r[j] # q[i] /\ \E k \in 1 .. Len(q) : r[j] = q[k]
  BY <1>1, <1>6 DEF Once
<1>9. \A k \in 1 .. Len(q) : q[k] = q[i] \/ \E j \in 1 .. Len(r) : r[j] = q[k]
  <2> TAKE k \in 1 .. Len(q)
  <2>1. CASE k < i
    <3>1. k \in 1 .. Len(r) /\ at(k) = k
      BY <1>1, <1>4, <2>1
    <3>2. QED BY <1>6, <3>1
  <2>2. CASE k > i
    <3>1. k - 1 \in 1 .. Len(r) /\ at(k - 1) = k
      BY <1>1, <1>4, <2>2
    <3>2. QED BY <1>6, <3>1
  <2>3. CASE k = i
    BY <2>3
  <2>4. QED BY <1>1, <2>1, <2>2, <2>3
<1>10. QED BY <1>4, <1>5, <1>7, <1>8, <1>9

DeletingType == [Searches -> [on : BOOLEAN, todo : SUBSET Execs, wait : Execs \cup {Nobody}]]

(* start: a fresh request is queued with its row. *)
LEMMA StartKeeps ==
  ASSUME Inv, NEW e \in Execs, Start(e)
  PROVE  Kept
<1>1. /\ UNCHANGED <<host, got, kill, asked, entry, path, hit, dataset, file, known, deleting>>
      /\ host = "up" /\ OwnerOf[e] \in db.live /\ db.row[e] = "none" /\ db \in DbType
      /\ db' = [db EXCEPT !.row[e] = "queued"]
      /\ phase' = [phase EXCEPT ![e] = "queued"] /\ queue' = Append(queue, e)
      /\ OwnerOf[e] \in Searches
  BY QueryAssumption DEF Start, Inv, Types
<1>2. phase[e] = "idle"
  BY <1>1 DEF Inv, JobsFit
<1>3. /\ db' \in DbType
      /\ \A z \in Execs : db'.row[z] = IF z = e THEN "queued" ELSE db.row[z]
      /\ db'.used = db.used /\ db'.rows = db.rows /\ db'.snap = db.snap /\ db'.kept = db.kept
      /\ db'.applied = db.applied /\ db'.live = db.live /\ db'.version = db.version
  BY <1>1 DEF DbType, Rows, LiveRows
<1>4. \A z \in Execs : phase'[z] = IF z = e THEN "queued" ELSE phase[z]
  BY <1>1 DEF Inv, Types
<1>5. Types'
  <2>1. PICK given \in {None, known[OwnerOf[e]].snap} :
          ask' = [ask EXCEPT ![e] = [given |-> given, expect |-> known[OwnerOf[e]].version]]
    BY DEF Start
  <2>2. [given |-> given, expect |-> known[OwnerOf[e]].version]
          \in [given : Snaps \cup {None, Lost}, expect : 0..MaxVersion]
    BY <1>1, <2>1 DEF Inv, Types
  <2>3. ask' \in [Execs -> [given : Snaps \cup {None, Lost}, expect : 0..MaxVersion]]
    BY <2>1, <2>2 DEF Inv, Types
  <2>4. phase' \in [Execs -> Phases] /\ queue' \in Seq(Execs)
    BY <1>1 DEF Inv, Types, Phases
  <2>5. QED BY <1>1, <1>3, <2>3, <2>4 DEF Inv, Types
<1>6. QueueFits'
  <2>1. \A i \in 1 .. Len(queue) : queue[i] # e
    BY <1>2 DEF Inv, QueueFits
  <2>2. Once(queue) /\ queue \in Seq(Execs)
    BY DEF Inv, QueueFits, Types, Once
  <2>3. /\ Once(queue')
        /\ \A i \in 1 .. Len(queue') : queue'[i] = e \/ \E k \in 1 .. Len(queue) : queue'[i] = queue[k]
    BY <1>1, <2>1, <2>2, QueueAppended
  <2>4. \A i \in 1 .. Len(queue') : phase'[queue'[i]] = "queued"
    BY <1>4, <2>2, <2>3 DEF Inv, QueueFits
  <2>5. QED BY <2>3, <2>4 DEF QueueFits, Once
<1>7. JobsFit(db)'
  BY <1>1, <1>2, <1>3, <1>4 DEF Inv, JobsFit, LiveRows
<1>8. CapturesFit(db)'
  BY <1>1, <1>2, <1>3, <1>4 DEF Inv, CapturesFit
<1>9. GotFits(db)'
  <2>1. \A z \in Execs \ {e} : ask'[z] = ask[z]
    BY DEF Start, Inv, Types
  <2>2. QED BY <1>1, <1>2, <1>3, <1>4, <2>1 DEF Inv, GotFits, Held
<1>10. RowsFit(db)'
  BY <1>1, <1>3 DEF Inv, RowsFit, IsApplied
<1>11. FilesFit(dataset, file)'
  BY <1>1, <1>2, <1>4, FilesFitStill DEF Held
<1>12. VerdictIsKept /\ AnswerIsOfWhatWasAsked
  BY <1>1, <1>3, DbFields DEF VerdictIsKept, AnswerIsOfWhatWasAsked, SettledRows
<1>13. QED BY <1>5, <1>6, <1>7, <1>8, <1>9, <1>10, <1>11, <1>12 DEF Inv, Kept

(* cancel of a job in the queue. *)
LEMMA CancelsQueuedKeeps ==
  ASSUME Inv, NEW e \in Execs, host = "up", phase[e] = "queued", Cancels(e),
         UNCHANGED <<host, got, path, hit, dataset, file, known>>, deleting' \in DeletingType
  PROVE  Kept
<1>1. /\ UNCHANGED <<kill, asked, entry>>
      /\ phase' = [phase EXCEPT ![e] = "idle"] /\ ask' = [ask EXCEPT ![e] = NoAsk]
      /\ db' = SetRow(db, e, "cancelled")
      /\ \E i \in DOMAIN queue : queue[i] = e /\ queue' = RemoveAt(queue, i)
  BY DEF Cancels
<1>2. /\ db \in DbType /\ db.row[e] \in LiveRows \cup {"none"} /\ "cancelled" \in Rows \ {"none", "succeeded"}
      /\ "cancelled" \notin LiveRows
  BY DEF Inv, Types, JobsFit, Rows, SettledRows, LiveRows
<1>3. /\ db' \in DbType
      /\ \A z \in Execs : db'.row[z] = IF z = e /\ db.row[e] # "none" THEN "cancelled" ELSE db.row[z]
      /\ db'.used = db.used /\ db'.snap = db.snap /\ db'.live = db.live
  BY <1>1, <1>2, SetRowIs
<1>4. RowsFit(db)' /\ Later(db, db', e, {})
  BY <1>1, <1>2, SetRowFits DEF Inv
<1>5. \A z \in Execs : phase'[z] = IF z = e THEN "idle" ELSE phase[z]
  BY <1>1 DEF Inv, Types
<1>6. Once(queue) /\ queue \in Seq(Execs)
  BY DEF Inv, QueueFits, Types, Once
<1>7. PICK i \in DOMAIN queue : queue[i] = e /\ queue' = RemoveAt(queue, i)
  BY <1>1
<1>8. /\ queue' \in Seq(Execs) /\ Once(queue')
      /\ \A j \in 1 .. Len(queue') : queue'[j] # e /\ \E k \in 1 .. Len(queue) : queue'[j] = queue[k]
  BY <1>6, <1>7, QueueLeft, SMTT(30)
<1>9. Types'
  <2>1. ask' \in [Execs -> [given : Snaps \cup {None, Lost}, expect : 0..MaxVersion]]
    BY <1>1, QueryAssumption DEF Inv, Types, NoAsk
  <2>2. phase' \in [Execs -> Phases]
    BY <1>1 DEF Inv, Types, Phases
  <2>3. QED BY <1>1, <1>3, <1>8, <2>1, <2>2 DEF Inv, Types, DeletingType
<1>10. QueueFits'
  <2>1. \A j \in 1 .. Len(queue') : phase'[queue'[j]] = "queued"
    BY <1>5, <1>6, <1>8 DEF Inv, QueueFits
  <2>2. QED BY <1>8, <2>1 DEF QueueFits, Once
<1>11. JobsFit(db)'
  BY <1>1, <1>2, <1>3, <1>5 DEF Inv, JobsFit, LiveRows
<1>12. CapturesFit(db)'
  BY <1>1, <1>3, <1>5 DEF Inv, CapturesFit
<1>13. GotFits(db)'
  <2>1. \A z \in Execs \ {e} : ask'[z] = ask[z]
    BY <1>1 DEF Inv, Types
  <2>2. QED BY <1>1, <1>3, <1>5, <2>1 DEF Inv, GotFits, Held
<1>14. FilesFit(dataset, file)'
  BY <1>1, <1>5, FilesFitStill DEF Held
<1>15. VerdictIsKept /\ AnswerIsOfWhatWasAsked
  BY <1>2, <1>3, <1>4 DEF VerdictIsKept, AnswerIsOfWhatWasAsked, Later, Stands
<1>16. QED BY <1>4, <1>9, <1>10, <1>11, <1>12, <1>13, <1>14, <1>15 DEF Inv, Kept

EntryType == [Searches -> [snap : Snaps \cup {None},
                           waiting : SUBSET (Execs \cup {Client}), aborted : BOOLEAN]]

Leaving(m, s, rest) == [m EXCEPT ![s].waiting = rest, ![s].aborted = @ \/ rest = {}]

(* Another set of jobs waits for a capture. *)
LEMMA LeavesCapture ==
  ASSUME NEW m \in EntryType, NEW s \in Searches, NEW rest \in SUBSET (Execs \cup {Client})
  PROVE  /\ Leaving(m, s, rest) \in EntryType
         /\ \A t \in Searches : /\ Leaving(m, s, rest)[t].snap = m[t].snap
                                /\ t # s => Leaving(m, s, rest)[t] = m[t]
                                /\ t = s => Leaving(m, s, rest)[t].waiting = rest
BY DEF EntryType, Leaving

(* deleteSearch goes on to its next job. *)
LEMMA GoesOn ==
  ASSUME NEW m \in DeletingType, NEW s \in Searches, NEW todo \in SUBSET Execs,
         NEW w \in Execs \cup {Nobody}
  PROVE  [m EXCEPT ![s].todo = todo, ![s].wait = w] \in DeletingType
BY DEF DeletingType

(* cancel of a job that waits for a capture. *)
LEMMA CancelsCaptureKeeps ==
  ASSUME Inv, NEW e \in Execs, host = "up", phase[e] = "capture", Cancels(e),
         UNCHANGED <<host, got, path, hit, dataset, file, known>>, deleting' \in DeletingType
  PROVE  Kept
<1> DEFINE s == OwnerOf[e]
           rest == entry[s].waiting \ {e}
<1>1. /\ UNCHANGED <<db, queue, ask>> /\ asked' = asked \cup {e}
      /\ phase' = [phase EXCEPT ![e] = "rejected"] /\ kill' = [kill EXCEPT ![e] = "cancelled"]
      /\ entry' = [entry EXCEPT ![s].waiting = rest, ![s].aborted = @ \/ rest = {}]
  BY DEF Cancels
<1>2. \A z \in Execs : /\ phase'[z] = IF z = e THEN "rejected" ELSE phase[z]
                       /\ kill'[z] = IF z = e THEN "cancelled" ELSE kill[z]
  BY <1>1 DEF Inv, Types
<1>3. s \in Searches
  BY QueryAssumption
<1>4. /\ entry' \in EntryType
      /\ \A t \in Searches : /\ entry'[t].snap = entry[t].snap
                             /\ t # s => entry'[t] = entry[t]
                             /\ t = s => entry'[t].waiting = rest
  <2>1. entry \in EntryType
    BY DEF Inv, Types, EntryType
  <2>2. rest \in SUBSET (Execs \cup {Client})
    BY <1>3, <2>1 DEF EntryType
  <2>3. entry' = Leaving(entry, s, rest)
    BY <1>1 DEF Leaving
  <2> HIDE DEF s, rest
  <2>4. QED BY <1>3, <2>1, <2>2, <2>3, LeavesCapture
<1>5. e \in entry[s].waiting /\ entry[s].snap # None
  BY <1>3 DEF Inv, CapturesFit, NoEntry
<1>6. Types'
  <2>1. phase' \in [Execs -> Phases] /\ kill' \in [Execs -> {"no", "cancelled", "failed"}]
    BY <1>1 DEF Inv, Types, Phases
  <2>2. QED BY <1>1, <1>4, <2>1 DEF Inv, Types, DeletingType, EntryType
<1>7. QueueFits'
  BY <1>1, <1>2, QueueStays
<1>8. JobsFit(db)'
  BY <1>1, <1>2 DEF Inv, JobsFit
<1>9. CapturesFit(db)'
  <2>1. \A t \in Searches : entry'[t].snap = None => entry'[t] = NoEntry
    BY <1>4, <1>5 DEF Inv, CapturesFit
  <2>2. \A t \in Searches : \A z \in Execs : z \in entry'[t].waiting <=> OwnerOf[z] = t /\ phase'[z] = "capture"
    BY <1>2, <1>4 DEF Inv, CapturesFit
  <2>3. \A t \in Searches : entry'[t].snap = entry[t].snap
    BY <1>4
  <2>4. db' = db /\ got' = got /\ CapturesFit(db)
    BY <1>1 DEF Inv
  <2>5. QED BY <2>1, <2>2, <2>3, <2>4 DEF CapturesFit
<1>10. GotFits(db)'
  BY <1>1, <1>2 DEF Inv, GotFits, Held
<1>11. RowsFit(db)'
  BY <1>1 DEF Inv
<1>12. FilesFit(dataset, file)'
  BY <1>1, <1>2, FilesFitStill DEF Held
<1>13. VerdictIsKept /\ AnswerIsOfWhatWasAsked
  BY <1>1, DbFields DEF VerdictIsKept, AnswerIsOfWhatWasAsked, Inv, Types
<1>14. QED BY <1>6, <1>7, <1>8, <1>9, <1>10, <1>11, <1>12, <1>13 DEF Inv, Kept

(* cancel of a job that has its snapshot: it is only told. *)
LEMMA CancelsOtherKeeps ==
  ASSUME Inv, NEW e \in Execs, host = "up", Ending(e), Cancels(e),
         UNCHANGED <<host, got, path, hit, dataset, file, known>>, deleting' \in DeletingType
  PROVE  Kept
<1>1. /\ UNCHANGED <<db, queue, phase, ask, entry>> /\ asked' = asked \cup {e}
      /\ kill' \in [Execs -> {"no", "cancelled", "failed"}]
      /\ \A z \in Execs : kill[z] # "no" => kill'[z] # "no"
  BY DEF Cancels, Ending, Inv, Types
<1>2. Types' /\ QueueFits'
  BY <1>1 DEF Inv, Types, QueueFits, DeletingType
<1>3. JobsFit(db)' /\ CapturesFit(db)' /\ GotFits(db)'
  BY <1>1 DEF Inv, JobsFit, CapturesFit, GotFits, Held
<1>4. RowsFit(db)' /\ FilesFit(dataset, file)'
  BY <1>1, FilesFitStill DEF Inv, Held
<1>5. VerdictIsKept /\ AnswerIsOfWhatWasAsked
  BY <1>1, DbFields DEF VerdictIsKept, AnswerIsOfWhatWasAsked, Inv, Types
<1>6. QED BY <1>2, <1>3, <1>4, <1>5 DEF Inv, Kept

(* What cancel does, in each phase of a job. *)
LEMMA CancelsKeeps ==
  ASSUME Inv, NEW e \in Execs, host = "up", Cancels(e),
         UNCHANGED <<host, got, path, hit, dataset, file, known>>, deleting' \in DeletingType
  PROVE  Kept
<1>1. phase[e] \in {"queued", "capture"} \/ Ending(e)
  BY DEF Cancels, Ending
<1>2. QED BY <1>1, CancelsQueuedKeeps, CancelsCaptureKeeps, CancelsOtherKeeps

(* cancel, asked by a client. *)
LEMMA CancelKeeps ==
  ASSUME Inv, NEW e \in Execs, Cancel(e)
  PROVE  Kept
<1>1. deleting' \in DeletingType
  BY DEF Cancel, Inv, Types, DeletingType
<1>2. QED BY <1>1, CancelsKeeps DEF Cancel

(* Only what deleteSearch remembers changes. *)
LEMMA DeletingKeeps ==
  ASSUME Inv, UNCHANGED <<host, db, queue, phase, ask, got, kill, asked, entry,
                          path, hit, dataset, file, known>>, deleting' \in DeletingType
  PROVE  Kept
<1>1. Types' /\ QueueFits'
  BY DEF Inv, Types, QueueFits, DeletingType
<1>2. JobsFit(db)' /\ CapturesFit(db)' /\ GotFits(db)'
  BY DEF Inv, JobsFit, CapturesFit, GotFits, Held
<1>3. RowsFit(db)' /\ FilesFit(dataset, file)'
  BY FilesFitStill DEF Inv, Held
<1>4. VerdictIsKept /\ AnswerIsOfWhatWasAsked
  BY DbFields DEF VerdictIsKept, AnswerIsOfWhatWasAsked, Inv, Types
<1>5. QED BY <1>1, <1>2, <1>3, <1>4 DEF Inv, Kept

(* deleteSearch takes note of the jobs of the search. *)
LEMMA DeleteAskKeeps ==
  ASSUME Inv, NEW s \in Searches, DeleteAsk(s)
  PROVE  Kept
<1>1. deleting' \in DeletingType
  BY DEF DeleteAsk, Inv, Types, DeletingType, Jobs
<1>2. QED BY <1>1, DeletingKeeps DEF DeleteAsk

(* deleteSearch cancels one of them. *)
LEMMA DeleteCancelsKeeps ==
  ASSUME Inv, NEW s \in Searches, DeleteCancels(s)
  PROVE  Kept
<1>1. PICK e \in deleting[s].todo :
        /\ deleting' = [deleting EXCEPT ![s].todo = @ \ {e},
                                        ![s].wait = IF phase[e] \in {"idle", "queued"}
                                                    THEN Nobody ELSE e]
        /\ \/ phase[e] = "idle" /\ UNCHANGED <<db, queue, phase, ask, kill, asked, entry>>
           \/ Cancels(e)
  BY DEF DeleteCancels
<1>2. e \in Execs /\ deleting' \in DeletingType
  <2> DEFINE w == IF phase[e] \in {"idle", "queued"} THEN Nobody ELSE e
  <2>1. deleting \in DeletingType
    BY DEF Inv, Types, DeletingType
  <2>2. e \in Execs /\ deleting[s].todo \ {e} \in SUBSET Execs
    BY <2>1 DEF DeletingType
  <2>3. w \in Execs \cup {Nobody}
    BY <2>2
  <2>4. [deleting EXCEPT ![s].todo = deleting[s].todo \ {e}, ![s].wait = w] \in DeletingType
    BY <2>1, <2>2, <2>3, GoesOn
  <2>5. QED BY <1>1, <2>2, <2>4
<1>3. QED BY <1>1, <1>2, DeletingKeeps, CancelsKeeps DEF DeleteCancels

(* What is left of the database when a search is deleted. *)
LEMMA DeletedIs ==
  ASSUME NEW d \in DbType, NEW s \in Searches
  PROVE  LET x == SearchDeleted(d, s) IN
         /\ x \in DbType
         /\ \A e \in Execs : /\ x.row[e] = IF OwnerOf[e] = s THEN "none" ELSE d.row[e]
                             /\ x.used[e] = IF OwnerOf[e] = s THEN None ELSE d.used[e]
                             /\ x.rows[e] = IF OwnerOf[e] = s THEN None ELSE d.rows[e]
                             /\ e \in x.kept <=> e \in d.kept /\ OwnerOf[e] # s
         /\ \A t \in Searches : x.applied[t] = IF t = s THEN Nobody ELSE d.applied[t]
         /\ \A i \in Snaps : x.snap[i] = IF d.snap[i].of = s THEN NoSnap ELSE d.snap[i]
         /\ x.live = d.live \ {s} /\ x.version = d.version
<1> DEFINE x == SearchDeleted(d, s)
           mine == {e \in Execs : OwnerOf[e] = s}
           rw == [e \in Execs |-> IF e \in mine THEN "none" ELSE d.row[e]]
           us == [e \in Execs |-> IF e \in mine THEN None ELSE d.used[e]]
           rs == [e \in Execs |-> IF e \in mine THEN None ELSE d.rows[e]]
           ap == [d.applied EXCEPT ![s] = Nobody]
           sn == [i \in Snaps |-> IF i \in {j \in Snaps : d.snap[j].of = s} THEN NoSnap ELSE d.snap[i]]
<1>1. /\ x.row = rw /\ x.used = us /\ x.rows = rs
      /\ x.pinned = d.pinned \ mine /\ x.kept = d.kept \ mine
      /\ x.applied = ap /\ x.snap = sn
      /\ x.live = d.live \ {s} /\ x.version = d.version
      /\ x = [row |-> x.row, used |-> x.used, rows |-> x.rows, pinned |-> x.pinned,
              kept |-> x.kept, applied |-> x.applied, snap |-> x.snap, live |-> x.live,
              version |-> x.version]
  <2>1. x = [d EXCEPT !.row = rw, !.used = us, !.rows = rs,
                      !.pinned = d.pinned \ mine, !.kept = d.kept \ mine,
                      !.applied = ap, !.snap = sn, !.live = d.live \ {s}]
    BY DEF SearchDeleted, DbType
  <2> HIDE DEF x, rw, us, rs, ap, sn, mine
  <2>2. QED BY <2>1 DEF DbType
<1>2. NoSnap \in Snapshots
  BY QueryAssumption DEF NoSnap, Snapshots
<1> HIDE DEF x
<1>3. x.snap \in [Snaps -> Snapshots]
  BY <1>1, <1>2, DbFields
<1>4. x.row \in [Execs -> Rows] /\ x.used \in [Execs -> Snaps \cup {None}] /\ x.rows \in [Execs -> Snaps \cup {None}]
  BY <1>1, DbFields DEF Rows
<1>5. x.applied \in [Searches -> Execs \cup {Nobody}] /\ x.pinned \in SUBSET Execs /\ x.kept \in SUBSET Execs
      /\ x.live \in SUBSET Searches /\ x.version \in [Searches -> 0 .. MaxVersion]
  BY <1>1, DbFields
<1>6. x \in DbType
  BY <1>1, <1>3, <1>4, <1>5 DEF DbType, Snapshots
<1>7. \A t \in Searches : x.applied[t] = IF t = s THEN Nobody ELSE d.applied[t]
  BY <1>1, DbFields
<1>8. QED BY <1>1, <1>6, <1>7 DEF x

(* The search goes with its rows and snapshots; a job that is still there has lost its
   row. *)
LEMMA DeleteDoneKeeps ==
  ASSUME Inv, NEW s \in Searches, DeleteDone(s)
  PROVE  Kept
<1>1. /\ host = "up" /\ db' = SearchDeleted(db, s) /\ db \in DbType
      /\ UNCHANGED <<host, queue, phase, ask, got, kill, asked, entry, path, hit, dataset, file>>
  BY DEF DeleteDone, Inv, Types
<1>2. /\ db' \in DbType
      /\ \A e \in Execs : /\ db'.row[e] = IF OwnerOf[e] = s THEN "none" ELSE db.row[e]
                          /\ db'.used[e] = IF OwnerOf[e] = s THEN None ELSE db.used[e]
                          /\ db'.rows[e] = IF OwnerOf[e] = s THEN None ELSE db.rows[e]
                          /\ e \in db'.kept <=> e \in db.kept /\ OwnerOf[e] # s
      /\ \A t \in Searches : db'.applied[t] = IF t = s THEN Nobody ELSE db.applied[t]
      /\ \A i \in Snaps : db'.snap[i] = IF db.snap[i].of = s THEN NoSnap ELSE db.snap[i]
      /\ db'.live = db.live \ {s}
  BY <1>1, DeletedIs
<1>3. Types' /\ QueueFits'
  <2>1. known' \in [Searches -> [snap : Snaps \cup {None, Lost}, version : 0..MaxVersion]]
    BY QueryAssumption DEF DeleteDone, Inv, Types
  <2>2. deleting' \in DeletingType
    BY DEF DeleteDone, Inv, Types, DeletingType, NoDelete
  <2>3. QED BY <1>1, <1>2, <2>1, <2>2 DEF Inv, Types, QueueFits, DeletingType
<1>4. JobsFit(db)'
  BY <1>1, <1>2 DEF Inv, JobsFit, LiveRows
<1>5. CapturesFit(db)'
  <2>1. \A t \in Searches : entry[t].snap # None =>
          \/ db'.snap[entry[t].snap].of = t /\ ~db'.snap[entry[t].snap].ready
          \/ t \notin db'.live /\ db'.snap[entry[t].snap] = NoSnap
    <3> SUFFICES ASSUME NEW t \in Searches, entry[t].snap # None
                 PROVE  \/ db'.snap[entry[t].snap].of = t /\ ~db'.snap[entry[t].snap].ready
                        \/ t \notin db'.live /\ db'.snap[entry[t].snap] = NoSnap
      OBVIOUS
    <3>1. entry[t].snap \in Snaps
      BY DEF Inv, Types
    <3>2. \/ db.snap[entry[t].snap].of = t /\ ~db.snap[entry[t].snap].ready
          \/ t \notin db.live /\ db.snap[entry[t].snap] = NoSnap
      BY DEF Inv, CapturesFit
    <3>3. NoSnap.of = Nobody /\ Nobody # s
      BY QueryAssumption DEF NoSnap
    <3>4. QED BY <1>2, <3>1, <3>2, <3>3
  <2>2. entry' = entry /\ phase' = phase /\ got' = got /\ CapturesFit(db)
    BY <1>1 DEF Inv
  <2>3. QED BY <2>1, <2>2 DEF CapturesFit
<1>6. GotFits(db)'
  <2>1. \A e \in Execs : got[e] # None => got[e] \in Snaps
    BY DEF Inv, Types
  <2>2. \A e \in Execs : db'.row[e] # "none" =>
          /\ db'.row[e] = db.row[e] /\ db'.used[e] = db.used[e] /\ OwnerOf[e] # s
          /\ \A i \in Snaps : db.snap[i].of = OwnerOf[e] => db'.snap[i] = db.snap[i]
    BY <1>2
  <2>3. ask' = ask /\ phase' = phase /\ got' = got /\ GotFits(db)
    BY <1>1 DEF Inv
  <2>4. QED BY <2>1, <2>2, <2>3 DEF GotFits, Held
<1>7. RowsFit(db)'
  <2> SUFFICES ASSUME NEW e \in Execs
               PROVE  /\ db'.used[e] # None =>
                           db'.snap[db'.used[e]].of = OwnerOf[e] /\ db'.snap[db'.used[e]].ready
                      /\ db'.row[e] = "succeeded" => db'.used[e] # None /\ db'.rows[e] = db'.used[e]
                      /\ e \in db'.kept \/ IsApplied(db', e) => db'.row[e] = "succeeded"
                      /\ OwnerOf[e] \notin db'.live => db'.row[e] = "none"
    BY DEF RowsFit
  <2>1. OwnerOf[e] \in Searches /\ e # Nobody /\ RowsFit(db)
    BY QueryAssumption DEF Inv
  <2>2. CASE OwnerOf[e] = s
    BY <1>2, <2>1, <2>2 DEF IsApplied
  <2>3. CASE OwnerOf[e] # s
    <3>1. /\ db'.row[e] = db.row[e] /\ db'.used[e] = db.used[e] /\ db'.rows[e] = db.rows[e]
          /\ e \in db'.kept <=> e \in db.kept
          /\ IsApplied(db', e) <=> IsApplied(db, e)
          /\ OwnerOf[e] \in db'.live <=> OwnerOf[e] \in db.live
      BY <1>2, <2>1, <2>3 DEF IsApplied
    <3>2. db.used[e] # None => db.used[e] \in Snaps
      BY <1>1, DbFields
    <3>3. db.used[e] # None => db'.snap[db.used[e]] = db.snap[db.used[e]]
      BY <1>2, <2>1, <2>3, <3>2 DEF RowsFit
    <3>4. QED BY <2>1, <3>1, <3>3 DEF RowsFit
  <2>4. QED BY <2>2, <2>3
<1>8. FilesFit(dataset, file)'
  BY <1>1, FilesFitStill DEF Held
<1>9. VerdictIsKept /\ AnswerIsOfWhatWasAsked
  BY <1>1, <1>2, DbFields DEF VerdictIsKept, AnswerIsOfWhatWasAsked
<1>10. QED BY <1>3, <1>4, <1>5, <1>6, <1>7, <1>8, <1>9 DEF Inv, Kept

-----------------------------------------------------------------------------
(* The life of the process *)

(* The process is gone (a crash, or a rejection nobody handles); the database stays. *)
LEMMA VanishKeeps ==
  ASSUME Inv, Vanish, host' = "down", db' = db
  PROVE  Kept
<1>1. /\ queue' = <<>> /\ asked' = {} /\ hit' = {} /\ known' = known
      /\ \A e \in Execs : /\ phase'[e] = "idle" /\ got'[e] = None /\ path'[e] = Nobody
      /\ \A s \in Searches : entry'[s] = NoEntry
      /\ \A i \in Snaps : dataset'[i] = Nobody
  BY DEF Vanish
<1>2. Types'
  <2>1. /\ phase' \in [Execs -> Phases] /\ got' \in [Execs -> Snaps \cup {None}]
        /\ kill' \in [Execs -> {"no", "cancelled", "failed"}]
        /\ path' \in [Execs -> Paths \cup {Nobody}]
        /\ dataset' \in [Snaps -> Paths \cup {Nobody}]
        /\ file' \in [Paths -> Snaps \cup {None, Partial}]
    BY DEF Vanish, Phases
  <2>2. ask' \in [Execs -> [given : Snaps \cup {None, Lost}, expect : 0..MaxVersion]]
    BY QueryAssumption DEF Vanish, NoAsk
  <2>3. entry' \in EntryType
    BY DEF Vanish, NoEntry, EntryType
  <2>4. deleting' \in DeletingType
    BY DEF Vanish, NoDelete, DeletingType
  <2>5. queue' \in Seq(Execs)
    BY <1>1
  <2>6. QED BY <1>1, <2>1, <2>2, <2>3, <2>4, <2>5 DEF Inv, Types, EntryType, DeletingType
<1>3. QueueFits'
  BY <1>1 DEF QueueFits
<1>4. JobsFit(db)' /\ GotFits(db)'
  BY <1>1 DEF JobsFit, GotFits, Held
<1>5. CapturesFit(db)'
  <2>1. NoEntry.snap = None /\ NoEntry.waiting = {}
    BY DEF NoEntry
  <2>2. QED BY <1>1, <2>1 DEF CapturesFit
<1>6. RowsFit(db)' /\ FilesFit(dataset, file)'
  BY <1>1 DEF Inv, FilesFit, Held
<1>7. VerdictIsKept /\ AnswerIsOfWhatWasAsked
  BY DbFields DEF VerdictIsKept, AnswerIsOfWhatWasAsked, Inv, Types
<1>8. QED BY <1>2, <1>3, <1>4, <1>5, <1>6, <1>7 DEF Inv, Kept

(* The next process interrupts the rows that were under way. *)
LEMMA RestartKeeps ==
  ASSUME Inv, Restart
  PROVE  Kept
<1>1. /\ host = "down" /\ host' = "up" /\ UNCHANGED service /\ db \in DbType
      /\ \A e \in Execs : phase[e] = "idle"
      /\ db' = [db EXCEPT !.row = [e \in Execs |-> IF @[e] \in LiveRows THEN "interrupted" ELSE @[e]]]
  BY DEF Restart, Inv, Types, JobsFit
<1>2. /\ db' \in DbType
      /\ \A e \in Execs : db'.row[e] = IF db.row[e] \in LiveRows THEN "interrupted" ELSE db.row[e]
      /\ db'.used = db.used /\ db'.rows = db.rows /\ db'.snap = db.snap /\ db'.kept = db.kept
      /\ db'.applied = db.applied /\ db'.live = db.live
  BY <1>1 DEF DbType, Rows, SettledRows
<1>3. Types' /\ QueueFits'
  BY <1>1, <1>2 DEF Inv, Types, QueueFits, service
<1>4. JobsFit(db)' /\ GotFits(db)'
  BY <1>1, <1>2 DEF Inv, JobsFit, GotFits, Held, service, LiveRows
<1>5. CapturesFit(db)'
  BY <1>1, <1>2 DEF Inv, CapturesFit, service
<1>6. RowsFit(db)'
  BY <1>2 DEF Inv, RowsFit, IsApplied, LiveRows
<1>7. FilesFit(dataset, file)'
  BY <1>1, FilesFitStill DEF Held, service
<1>8. VerdictIsKept /\ AnswerIsOfWhatWasAsked
  BY <1>2 DEF VerdictIsKept, AnswerIsOfWhatWasAsked, LiveRows, SettledRows
<1>9. QED BY <1>3, <1>4, <1>5, <1>6, <1>7, <1>8 DEF Inv, Kept

AllAborted(m) == [s \in Searches |-> [m[s] EXCEPT !.aborted = @ \/ m[s] # NoEntry]]

(* Every capture under way is aborted. *)
LEMMA AbortedIs ==
  ASSUME NEW m \in EntryType
  PROVE  /\ AllAborted(m) \in EntryType
         /\ \A s \in Searches : /\ AllAborted(m)[s].snap = m[s].snap
                                /\ AllAborted(m)[s].waiting = m[s].waiting
                                /\ m[s] = NoEntry => AllAborted(m)[s] = NoEntry
<1>1. AllAborted(m) \in EntryType
  BY DEF AllAborted, EntryType
<1>2. \A s \in Searches : /\ AllAborted(m)[s].snap = m[s].snap
                         /\ AllAborted(m)[s].waiting = m[s].waiting
  BY DEF AllAborted, EntryType
<1>3. \A s \in Searches : m[s] = NoEntry => AllAborted(m)[s] = NoEntry
  <2> SUFFICES ASSUME NEW s \in Searches, m[s] = NoEntry
               PROVE  AllAborted(m)[s] = NoEntry
    OBVIOUS
  <2> DEFINE on == m[s].aborted \/ m[s] # NoEntry
  <2>1. AllAborted(m)[s] = [m[s] EXCEPT !.aborted = on]
    BY DEF AllAborted
  <2>2. m[s].aborted = FALSE
    BY DEF NoEntry
  <2>3. on = FALSE
    BY <2>2
  <2> HIDE DEF on
  <2>4. m[s] \in [snap : Snaps \cup {None}, waiting : SUBSET (Execs \cup {Client}), aborted : BOOLEAN]
    BY DEF EntryType
  <2>5. [m[s] EXCEPT !.aborted = FALSE] = m[s]
    BY <2>2, <2>4
  <2>6. QED BY <2>1, <2>3, <2>5
<1>4. QED BY <1>1, <1>2, <1>3

(* close: the queue is emptied, captures are aborted and processes killed. *)
LEMMA CloseKeeps ==
  ASSUME Inv, Close
  PROVE  Kept
<1>1. /\ host = "up" /\ host' = "closed" /\ db \in DbType /\ queue' = <<>>
      /\ UNCHANGED <<got, asked, path, hit, dataset, file, known>>
      /\ db' = [db EXCEPT !.row = [e \in Execs |->
                   IF e \in Jobs /\ @[e] # "none" THEN "interrupted" ELSE @[e]]]
      /\ \A e \in Execs : phase'[e] = IF phase[e] = "queued" THEN "idle" ELSE phase[e]
  BY DEF Close, Inv, Types
<1>2. /\ db' \in DbType
      /\ \A e \in Execs : db'.row[e] = IF phase[e] # "idle" /\ db.row[e] # "none"
                                       THEN "interrupted" ELSE db.row[e]
      /\ db'.used = db.used /\ db'.rows = db.rows /\ db'.snap = db.snap /\ db'.kept = db.kept
      /\ db'.applied = db.applied /\ db'.live = db.live
  BY <1>1 DEF DbType, Rows, SettledRows, Jobs
<1>3. /\ \A s \in Searches : /\ entry'[s].snap = entry[s].snap /\ entry'[s].waiting = entry[s].waiting
                             /\ entry[s] = NoEntry => entry'[s] = NoEntry
      /\ entry' \in EntryType
  <2>1. entry' = AllAborted(entry) /\ entry \in EntryType
    BY DEF Close, AllAborted, Inv, Types, EntryType
  <2>2. QED BY <2>1, AbortedIs
<1>4. Types'
  <2>1. /\ phase' \in [Execs -> Phases] /\ queue' \in Seq(Execs)
        /\ kill' \in [Execs -> {"no", "cancelled", "failed"}]
    BY <1>1 DEF Close, Inv, Types, Phases
  <2>2. ask' \in [Execs -> [given : Snaps \cup {None, Lost}, expect : 0..MaxVersion]]
    BY QueryAssumption DEF Close, Inv, Types, NoAsk
  <2>3. deleting' \in DeletingType
    BY DEF Close, NoDelete, DeletingType
  <2>4. QED BY <1>1, <1>2, <1>3, <2>1, <2>2, <2>3 DEF Inv, Types, EntryType, DeletingType
<1>5. QueueFits'
  BY <1>1 DEF QueueFits
<1>6. JobsFit(db)'
  <2>1. \A e \in Execs : phase[e] = "rejected" => kill'[e] # "no"
    BY DEF Close, Inv, JobsFit
  <2>2. QED BY <1>1, <1>2, <2>1 DEF Inv, JobsFit
<1>7. CapturesFit(db)'
  BY <1>1, <1>2, <1>3 DEF Inv, CapturesFit
<1>8. GotFits(db)'
  <2>1. \A e \in Execs : phase[e] # "queued" => ask'[e] = ask[e]
    BY DEF Close
  <2>2. QED BY <1>1, <1>2, <2>1 DEF Inv, GotFits, Held
<1>9. RowsFit(db)'
  <2>1. \A e \in Execs : phase[e] # "idle" => db.row[e] # "succeeded"
    BY DEF Inv, JobsFit
  <2>2. QED BY <1>2, <2>1 DEF Inv, RowsFit, IsApplied
<1>10. FilesFit(dataset, file)'
  BY <1>1, FilesFitStill DEF Held
<1>11. VerdictIsKept /\ AnswerIsOfWhatWasAsked
  <2>1. \A e \in Execs : phase[e] # "idle" => db.row[e] \in LiveRows \cup {"none"}
    BY <1>1 DEF Inv, JobsFit
  <2>2. QED BY <1>2, <2>1 DEF VerdictIsKept, AnswerIsOfWhatWasAsked, LiveRows, SettledRows
<1>12. QED BY <1>4, <1>5, <1>6, <1>7, <1>8, <1>9, <1>10, <1>11 DEF Inv, Kept

-----------------------------------------------------------------------------
(* A capture begins *)

AskType == [Execs -> [given : Snaps \cup {None, Lost}, expect : 0..MaxVersion]]
KnownType == [Searches -> [snap : Snaps \cup {None, Lost}, version : 0..MaxVersion]]

Forgetting(m, i) == [e \in Execs |-> [m[e] EXCEPT !.given = Renamed(i, @)]]
Beginning(m, s, i, who) == [m EXCEPT ![s] = [snap |-> i, waiting |-> {who}, aborted |-> FALSE]]

(* A request whose snapshot number is used again names a lost one. *)
LEMMA AskForgets ==
  ASSUME NEW m \in AskType, NEW i
  PROVE  LET x == Forgetting(m, i)
         IN  x \in AskType /\ \A e \in Execs : x[e].expect = m[e].expect
BY DEF AskType, Renamed, Forgetting

(* So does what a client remembers. *)
LEMMA KnownForgets ==
  ASSUME NEW m \in KnownType, NEW i
  PROVE  [z \in Searches |-> [m[z] EXCEPT !.snap = Renamed(i, @)]] \in KnownType
BY DEF KnownType, Renamed

(* The capture of a search is under way. *)
LEMMA EntryBegins ==
  ASSUME NEW m \in EntryType, NEW s \in Searches, NEW i \in Snaps, NEW who \in Execs \cup {Client}
  PROVE  LET x == Beginning(m, s, i, who)
         IN  /\ x \in EntryType /\ x[s].snap = i /\ x[s].waiting = {who}
             /\ \A t \in Searches \ {s} : x[t] = m[t]
BY DEF EntryType, Beginning

(* A new capture takes a number nobody has. *)
LEMMA NewCaptureIs ==
  ASSUME Types, NEW d \in DbType, NEW s \in Searches, NEW i \in Fresh(d),
         NEW who \in Execs \cup {Client}, NewCapture(d, s, i, who)
  PROVE  /\ i \in Snaps /\ i # None /\ d.snap[i] = NoSnap
         /\ \A e \in Execs : got[e] # i
         /\ \A t \in Searches : entry[t].snap # i
         /\ db' \in DbType
         /\ db'.row = d.row /\ db'.used = d.used /\ db'.rows = d.rows /\ db'.kept = d.kept
         /\ db'.applied = d.applied /\ db'.live = d.live
         /\ db'.snap[i].of = s /\ ~db'.snap[i].ready
         /\ \A j \in Snaps \ {i} : db'.snap[j] = d.snap[j]
         /\ entry' \in EntryType /\ entry'[s].snap = i /\ entry'[s].waiting = {who}
         /\ \A t \in Searches \ {s} : entry'[t] = entry[t]
         /\ known' \in KnownType /\ ask' \in AskType
         /\ \A e \in Execs : ask'[e].expect = ask[e].expect
<1>1. /\ i \in Snaps /\ i # None /\ d.snap[i] = NoSnap
      /\ \A e \in Execs : got[e] # i
      /\ \A t \in Searches : entry[t].snap # i
  BY DEF Fresh, Lowest, Alive, InWork, InWorkBut, Snaps, None
<1> DEFINE new == [of |-> s, version |-> d.version[s], ready |-> FALSE]
           sn == [d.snap EXCEPT ![i] = new]
<1>2. db' = [d EXCEPT !.snap = sn]
  BY DEF NewCapture
<1>3. new \in Snapshots /\ new.of = s /\ ~new.ready
  BY DbFields DEF Snapshots
<1> HIDE DEF new
<1>4. sn \in [Snaps -> Snapshots] /\ sn[i] = new /\ \A j \in Snaps \ {i} : sn[j] = d.snap[j]
  BY <1>1, <1>3, DbFields
<1> HIDE DEF sn
<1>5. /\ db' \in DbType
      /\ db'.row = d.row /\ db'.used = d.used /\ db'.rows = d.rows /\ db'.kept = d.kept
      /\ db'.applied = d.applied /\ db'.live = d.live /\ db'.snap = sn
  BY <1>2, <1>4, SnapsSet
<1>6. entry \in EntryType /\ known \in KnownType /\ ask \in AskType
  BY DEF Types, EntryType, KnownType, AskType
<1>7. /\ entry' \in EntryType /\ entry'[s].snap = i /\ entry'[s].waiting = {who}
      /\ \A t \in Searches \ {s} : entry'[t] = entry[t]
  <2>1. entry' = Beginning(entry, s, i, who)
    BY DEF NewCapture, Beginning
  <2>2. QED BY <1>1, <1>6, <2>1, EntryBegins
<1>8. known' \in KnownType
  BY <1>6, KnownForgets DEF NewCapture
<1>9. ask' \in AskType /\ \A e \in Execs : ask'[e].expect = ask[e].expect
  <2>1. ask' = Forgetting(ask, i)
    BY DEF NewCapture, Forgetting
  <2>2. QED BY <1>6, <2>1, AskForgets
<1>10. QED BY <1>1, <1>3, <1>4, <1>5, <1>7, <1>8, <1>9

(* ... and disturbs no row, job or capture. *)
LEMMA CaptureBegins ==
  ASSUME Types, NEW d \in DbType, NEW s \in Searches, NEW i \in Fresh(d), entry[s] = NoEntry,
         NEW who \in Execs \cup {Client}, NewCapture(d, s, i, who),
         CapturesFit(d), GotFits(d), RowsFit(d), got' = got,
         \A e \in Execs : phase'[e] = IF e = who THEN "capture" ELSE phase[e],
         who \in Execs => OwnerOf[who] = s /\ phase[who] = "queued"
  PROVE  CapturesFit(db)' /\ GotFits(db)' /\ RowsFit(db)'
<1>1. /\ i \in Snaps /\ i # None /\ d.snap[i] = NoSnap
      /\ \A e \in Execs : got[e] # i
      /\ \A t \in Searches : entry[t].snap # i
      /\ db' \in DbType
      /\ db'.row = d.row /\ db'.used = d.used /\ db'.rows = d.rows /\ db'.kept = d.kept
      /\ db'.applied = d.applied /\ db'.live = d.live
      /\ db'.snap[i].of = s /\ ~db'.snap[i].ready
      /\ \A j \in Snaps \ {i} : db'.snap[j] = d.snap[j]
      /\ entry'[s].snap = i /\ entry'[s].waiting = {who}
      /\ \A t \in Searches \ {s} : entry'[t] = entry[t]
      /\ \A e \in Execs : ask'[e].expect = ask[e].expect
  BY NewCaptureIs
<1>2. CapturesFit(db)'
  <2>1. \A t \in Searches : entry'[t].snap = None => entry'[t] = NoEntry
    BY <1>1 DEF CapturesFit
  <2>2. \A t \in Searches : entry'[t].snap # None =>
          \/ db'.snap[entry'[t].snap].of = t /\ ~db'.snap[entry'[t].snap].ready
          \/ t \notin db'.live /\ db'.snap[entry'[t].snap] = NoSnap
    <3> SUFFICES ASSUME NEW t \in Searches, entry'[t].snap # None
                 PROVE  \/ db'.snap[entry'[t].snap].of = t /\ ~db'.snap[entry'[t].snap].ready
                        \/ t \notin db'.live /\ db'.snap[entry'[t].snap] = NoSnap
      OBVIOUS
    <3>1. CASE t = s
      BY <1>1, <3>1
    <3>2. CASE t # s
      <4>1. entry'[t] = entry[t] /\ entry[t].snap \in Snaps \ {i}
        BY <1>1, <3>2 DEF Types
      <4>2. QED BY <1>1, <4>1 DEF CapturesFit
    <3>3. QED BY <3>1, <3>2
  <2>3. \A t \in Searches : \A u \in Searches \ {t} : entry'[t].snap # None => entry'[u].snap # entry'[t].snap
    BY <1>1 DEF CapturesFit
  <2>4. \A t \in Searches : \A e \in Execs : e \in entry'[t].waiting <=> OwnerOf[e] = t /\ phase'[e] = "capture"
    <3>1. \A e \in Execs : ~(OwnerOf[e] = s /\ phase[e] = "capture")
      BY DEF CapturesFit, NoEntry
    <3>2. QED BY <1>1, <3>1 DEF CapturesFit
  <2>5. \A t \in Searches : \A e \in Execs : got'[e] # None => got'[e] # entry'[t].snap
    BY <1>1 DEF CapturesFit
  <2>6. QED BY <2>1, <2>2, <2>3, <2>4, <2>5 DEF CapturesFit
<1>3. GotFits(db)'
  <2>1. \A e \in Execs : got[e] # None => db'.snap[got[e]] = d.snap[got[e]]
    BY <1>1 DEF Types
  <2>2. QED BY <1>1, <2>1 DEF GotFits, Held
<1>4. RowsFit(db)'
  <2>1. \A e \in Execs : d.used[e] # None => d.used[e] \in Snaps \ {i}
    BY <1>1, DbFields DEF RowsFit, NoSnap
  <2>2. QED BY <1>1, <2>1 DEF RowsFit, IsApplied
<1>5. QED BY <1>2, <1>3, <1>4

(* context: collection, clean, and the snapshot that is there, under way or begun now. *)
LEMMA ContextKeeps ==
  ASSUME Inv, NEW s \in Searches, Context(s)
  PROVE  Kept
<1>1. PICK g \in Gc(db, 0, {}, InWork) : \E w \in Clean(g, dataset, file, phase) :
        /\ dataset' = w.dataset /\ file' = w.file
        /\ \/ /\ entry[s] # NoEntry
              /\ entry' = [entry EXCEPT ![s].waiting = @ \cup {Client}]
              /\ db' = g /\ UNCHANGED <<known, ask>>
           \/ /\ entry[s] = NoEntry /\ Prior(g, s) # {}
              /\ \E i \in Prior(g, s) :
                    known' = [known EXCEPT ![s] = [snap |-> i, version |-> g.version[s]]]
              /\ db' = g /\ UNCHANGED <<entry, ask>>
           \/ /\ entry[s] = NoEntry /\ Prior(g, s) = {}
              /\ \E i \in Fresh(g) : NewCapture(g, s, i, Client)
  BY DEF Context
<1>2. /\ UNCHANGED <<host, queue, phase, got, kill, asked, path, hit, deleting>> /\ host = "up"
      /\ db \in DbType /\ Types
  BY DEF Context, Inv, Types
<1>3. Collected(db, g, InWork)
  BY <1>2, GcCollects
<1>4. /\ g \in DbType /\ RowsFit(g) /\ Later(db, g, Nobody, InWork)
  BY <1>2, <1>3, CollectedFits, CollectedIsLater DEF Collected, Inv
<1>5. JobsFit(g) /\ CapturesFit(g) /\ GotFits(g)
  BY <1>2, <1>4, LaterFits DEF Inv
<1>6. Swept(dataset, file, phase, dataset', file')
  <2>1. PICK w \in Clean(g, dataset, file, phase) : dataset' = w.dataset /\ file' = w.file
    BY <1>1
  <2>2. dataset \in [Snaps -> Paths \cup {Nobody}] /\ file \in [Paths -> Snaps \cup {None, Partial}]
    BY <1>2 DEF Types
  <2>3. QED BY <2>1, <2>2, CleanSweeps
<1>7. FilesFit(dataset', file')
  BY <1>2, <1>6, SweptFits DEF Inv
<1>8. FilesFit(dataset, file)'
  BY <1>2, <1>7 DEF FilesFit, Held
<1>9. QueueFits'
  BY <1>2, QueueStays
<1>10. entry \in EntryType /\ ask \in AskType /\ known \in KnownType
  BY <1>2 DEF Types, EntryType, AskType, KnownType
<1>11. ASSUME db' \in DbType, entry' \in EntryType, ask' \in AskType, known' \in KnownType
       PROVE  Types'
  BY <1>2, <1>6, <1>11 DEF Types, Swept, EntryType, AskType, KnownType
<1>12. ASSUME db'.row = g.row, db'.live = g.live
       PROVE  JobsFit(db)'
  BY <1>2, <1>5, <1>12 DEF JobsFit
<1>13. ASSUME db'.row = g.row, db'.used = g.used
       PROVE  VerdictIsKept /\ AnswerIsOfWhatWasAsked
  BY <1>4, <1>13, QueryAssumption DEF VerdictIsKept, AnswerIsOfWhatWasAsked, Later, Stands
<1>14. CASE /\ entry[s] # NoEntry
            /\ entry' = [entry EXCEPT ![s].waiting = @ \cup {Client}]
            /\ db' = g /\ UNCHANGED <<known, ask>>
  <2>1. /\ entry' \in EntryType
        /\ \A t \in Searches : /\ entry'[t].snap = entry[t].snap
                               /\ entry'[t].waiting \cap Execs = entry[t].waiting \cap Execs
                               /\ t # s => entry'[t] = entry[t]
    BY <1>10, <1>14, QueryAssumption DEF EntryType
  <2>2. CapturesFit(db)'
    <3>1. entry[s].snap # None
      BY <1>5, <1>14 DEF CapturesFit
    <3>2. \A t \in Searches : entry'[t].snap = None => entry'[t] = NoEntry
      BY <1>5, <2>1, <3>1 DEF CapturesFit
    <3>3. \A t \in Searches : \A e \in Execs : e \in entry'[t].waiting <=> OwnerOf[e] = t /\ phase[e] = "capture"
      BY <1>5, <2>1 DEF CapturesFit
    <3>4. \A t \in Searches : entry'[t].snap = entry[t].snap
      BY <2>1
    <3>5. QED BY <1>2, <1>5, <1>14, <3>2, <3>3, <3>4 DEF CapturesFit
  <2>3. GotFits(db)'
    BY <1>2, <1>5, <1>14 DEF GotFits, Held
  <2>4. RowsFit(db)'
    BY <1>4, <1>14
  <2>5. Types' /\ JobsFit(db)' /\ VerdictIsKept /\ AnswerIsOfWhatWasAsked
    BY <1>4, <1>10, <1>11, <1>12, <1>13, <1>14, <2>1
  <2>6. QED BY <1>8, <1>9, <2>2, <2>3, <2>4, <2>5 DEF Inv, Kept
<1>15. CASE /\ entry[s] = NoEntry /\ Prior(g, s) # {}
            /\ \E i \in Prior(g, s) :
                  known' = [known EXCEPT ![s] = [snap |-> i, version |-> g.version[s]]]
            /\ db' = g /\ UNCHANGED <<entry, ask>>
  <2>1. known' \in KnownType
    <3>1. PICK i \in Prior(g, s) : known' = [known EXCEPT ![s] = [snap |-> i, version |-> g.version[s]]]
      BY <1>15
    <3>2. i \in Snaps /\ g.version[s] \in 0 .. MaxVersion
      BY <1>4, DbFields DEF Prior
    <3>3. QED BY <1>10, <3>1, <3>2 DEF KnownType
  <2>2. CapturesFit(db)'
    BY <1>2, <1>5, <1>15 DEF CapturesFit
  <2>3. GotFits(db)'
    BY <1>2, <1>5, <1>15 DEF GotFits, Held
  <2>4. RowsFit(db)'
    BY <1>4, <1>15
  <2>5. Types' /\ JobsFit(db)' /\ VerdictIsKept /\ AnswerIsOfWhatWasAsked
    BY <1>4, <1>10, <1>11, <1>12, <1>13, <1>15, <2>1
  <2>6. QED BY <1>8, <1>9, <2>2, <2>3, <2>4, <2>5 DEF Inv, Kept
<1>16. CASE entry[s] = NoEntry /\ \E i \in Fresh(g) : NewCapture(g, s, i, Client)
  <2>1. PICK i \in Fresh(g) : NewCapture(g, s, i, Client)
    BY <1>16
  <2>2. /\ db' \in DbType /\ db'.row = g.row /\ db'.used = g.used /\ db'.live = g.live
        /\ entry' \in EntryType /\ known' \in KnownType /\ ask' \in AskType
    BY <1>2, <1>4, <2>1, NewCaptureIs
  <2>3. \A e \in Execs : phase'[e] = IF e = Client THEN "capture" ELSE phase[e]
    BY <1>2, QueryAssumption
  <2>4. CapturesFit(db)' /\ GotFits(db)' /\ RowsFit(db)'
    BY <1>2, <1>4, <1>5, <1>16, <2>1, <2>3, CaptureBegins, QueryAssumption
  <2>5. Types' /\ JobsFit(db)' /\ VerdictIsKept /\ AnswerIsOfWhatWasAsked
    BY <1>11, <1>12, <1>13, <2>2
  <2>6. QED BY <1>8, <1>9, <2>4, <2>5 DEF Inv, Kept
<1>17. QED BY <1>1, <1>14, <1>15, <1>16

-----------------------------------------------------------------------------
(* The head of the queue *)

HeadRow == SetRow(db, Head(queue), "capturing")

(* What the pump finds, and the row it leaves. *)
LEMMA HeadIs ==
  ASSUME Inv, NEW e \in Execs, PumpDue, e = Head(queue), OwnerOf[e] \in db.live
  PROVE  /\ host = "up" /\ phase[e] = "queued" /\ got[e] = None /\ kill[e] \in {"no", "cancelled", "failed"}
         /\ OwnerOf[e] \in Searches /\ db \in DbType /\ db.row[e] \in LiveRows
         /\ HeadRow \in DbType
         /\ \A z \in Execs : HeadRow.row[z] = IF z = e THEN "capturing" ELSE db.row[z]
         /\ HeadRow.used = db.used /\ HeadRow.rows = db.rows /\ HeadRow.kept = db.kept
         /\ HeadRow.applied = db.applied
         /\ HeadRow.snap = db.snap /\ HeadRow.live = db.live /\ HeadRow.version = db.version
         /\ RowsFit(HeadRow)
<1>1. host = "up" /\ queue # <<>> /\ queue \in Seq(Execs) /\ Once(queue) /\ db \in DbType
      /\ OwnerOf[e] \in Searches
  BY QueryAssumption DEF PumpDue, Inv, Types, QueueFits, Once
<1>2. phase[e] = "queued"
  BY <1>1, QueueTaken DEF Inv, QueueFits
<1>3. db.row[e] \in LiveRows /\ db.row[e] # "none" /\ got[e] = None
  BY <1>1, <1>2 DEF Inv, JobsFit, GotFits
<1>4. "capturing" \in Rows \ {"none", "succeeded"}
  BY DEF Rows, LiveRows
<1>5. RowsFit(HeadRow)
  BY <1>1, <1>3, <1>4, SetRowFits DEF HeadRow, Inv
<1>6. /\ HeadRow \in DbType
      /\ \A z \in Execs : HeadRow.row[z] = IF z = e /\ db.row[e] # "none" THEN "capturing" ELSE db.row[z]
      /\ HeadRow.used = db.used /\ HeadRow.rows = db.rows /\ HeadRow.kept = db.kept
      /\ HeadRow.applied = db.applied
      /\ HeadRow.snap = db.snap /\ HeadRow.live = db.live /\ HeadRow.version = db.version
  BY <1>1, <1>4, SetRowIs DEF HeadRow
<1>7. kill[e] \in {"no", "cancelled", "failed"}
  BY DEF Inv, Types
<1>8. QED BY <1>1, <1>2, <1>3, <1>5, <1>6, <1>7

(* The job has left the queue with an open row. *)
LEMMA HeadTaken ==
  ASSUME Inv, NEW e \in Execs, PumpDue, e = Head(queue), OwnerOf[e] \in db.live,
         queue' = Tail(queue), UNCHANGED <<host, asked, path, hit, dataset, file, deleting>>,
         NEW p \in {"captured", "rejected", "capture"}, phase' = [phase EXCEPT ![e] = p],
         kill' \in [Execs -> {"no", "cancelled", "failed"}], p = "rejected" => kill'[e] # "no",
         got' \in [Execs -> Snaps \cup {None}],
         \A z \in Execs \ {e} : got'[z] = got[z] /\ kill'[z] = kill[z],
         db' \in DbType, db'.row = HeadRow.row, db'.live = db.live,
         entry' \in EntryType, ask' \in AskType, known' \in KnownType
  PROVE  /\ Types' /\ QueueFits' /\ JobsFit(db)' /\ FilesFit(dataset, file)'
         /\ VerdictIsKept /\ AnswerIsOfWhatWasAsked
<1>1. /\ host = "up" /\ phase[e] = "queued" /\ db.row[e] \in LiveRows
      /\ \A z \in Execs : HeadRow.row[z] = IF z = e THEN "capturing" ELSE db.row[z]
  BY HeadIs
<1>2. \A z \in Execs : phase'[z] = IF z = e THEN p ELSE phase[z]
  BY DEF Inv, Types
<1>3. queue \in Seq(Execs) /\ Once(queue) /\ queue # <<>>
  BY DEF PumpDue, Inv, Types, QueueFits, Once
<1>4. /\ Tail(queue) \in Seq(Execs) /\ Once(Tail(queue))
      /\ \A i \in 1 .. Len(Tail(queue)) : Tail(queue)[i] # e /\ \E k \in 1 .. Len(queue) : Tail(queue)[i] = queue[k]
  BY <1>3, QueueTaken
<1>5. Types'
  <2>1. phase' \in [Execs -> Phases]
    BY DEF Inv, Types, Phases
  <2>2. QED BY <1>4, <2>1 DEF Inv, Types, EntryType, AskType, KnownType
<1>6. QueueFits'
  <2>1. \A i \in 1 .. Len(queue') : phase'[queue'[i]] = "queued"
    <3>1. TAKE i \in 1 .. Len(queue')
    <3>2. PICK k \in 1 .. Len(queue) : queue'[i] = queue[k] /\ queue[k] # e
      BY <1>4
    <3>3. phase[queue[k]] = "queued" /\ queue[k] \in Execs
      BY <1>3, <3>2 DEF Inv, QueueFits
    <3>4. QED BY <1>2, <3>2, <3>3
  <2>2. QED BY <1>4, <2>1 DEF QueueFits, Once
<1>7. JobsFit(db)'
  BY <1>1, <1>2 DEF Inv, JobsFit, LiveRows
<1>8. FilesFit(dataset, file)'
  BY <1>1, <1>2, FilesFitStill DEF Held
<1>9. VerdictIsKept /\ AnswerIsOfWhatWasAsked
  <2>1. \A z \in Execs : db'.row[z] = IF z = e THEN "capturing" ELSE db.row[z]
    BY <1>1
  <2>2. QED BY <1>1, <2>1 DEF VerdictIsKept, AnswerIsOfWhatWasAsked, LiveRows, SettledRows
<1>10. QED BY <1>5, <1>6, <1>7, <1>8, <1>9

(* It goes on with a finished snapshot of its search, or ends. *)
LEMMA HeadHasIt ==
  ASSUME Inv, NEW e \in Execs, PumpDue, e = Head(queue), OwnerOf[e] \in db.live,
         NEW i \in Snaps, i # None, db.snap[i].of = OwnerOf[e], db.snap[i].ready,
         phase' = [phase EXCEPT ![e] = "captured"], got' = [got EXCEPT ![e] = i],
         db' = HeadRow, UNCHANGED <<entry, ask>>
  PROVE  CapturesFit(db)' /\ GotFits(db)' /\ RowsFit(db)'
<1>1. /\ phase[e] = "queued" /\ HeadRow.used = db.used /\ HeadRow.snap = db.snap /\ HeadRow.live = db.live
      /\ RowsFit(HeadRow)
      /\ \A z \in Execs : HeadRow.row[z] = IF z = e THEN "capturing" ELSE db.row[z]
  BY HeadIs
<1>2. \A z \in Execs : /\ phase'[z] = IF z = e THEN "captured" ELSE phase[z]
                       /\ got'[z] = IF z = e THEN i ELSE got[z]
  BY DEF Inv, Types
<1>3. \A s \in Searches : entry[s].snap # i
  BY DEF Inv, CapturesFit, NoSnap
<1>4. CapturesFit(db)'
  BY <1>1, <1>2, <1>3 DEF Inv, CapturesFit
<1>5. GotFits(db)'
  BY <1>1, <1>2 DEF Inv, GotFits, Held
<1>6. QED BY <1>1, <1>4, <1>5

(* It waits for the capture that is under way. *)
LEMMA HeadJoins ==
  ASSUME Inv, NEW e \in Execs, PumpDue, e = Head(queue), OwnerOf[e] \in db.live,
         entry[OwnerOf[e]] # NoEntry,
         phase' = [phase EXCEPT ![e] = "capture"],
         entry' = [entry EXCEPT ![OwnerOf[e]].waiting = @ \cup {e}],
         db' = HeadRow, UNCHANGED <<got, ask>>
  PROVE  entry' \in EntryType /\ CapturesFit(db)' /\ GotFits(db)' /\ RowsFit(db)'
<1>1. /\ phase[e] = "queued" /\ HeadRow.used = db.used /\ HeadRow.snap = db.snap /\ HeadRow.live = db.live
      /\ RowsFit(HeadRow) /\ OwnerOf[e] \in Searches
      /\ \A z \in Execs : HeadRow.row[z] = IF z = e THEN "capturing" ELSE db.row[z]
  BY HeadIs
<1>2. \A z \in Execs : phase'[z] = IF z = e THEN "capture" ELSE phase[z]
  BY DEF Inv, Types
<1>3. entry \in EntryType
  BY DEF Inv, Types, EntryType
<1>4. /\ entry' \in EntryType
      /\ \A t \in Searches : /\ entry'[t].snap = entry[t].snap
                             /\ t # OwnerOf[e] => entry'[t] = entry[t]
                             /\ t = OwnerOf[e] => entry'[t].waiting = entry[t].waiting \cup {e}
  BY <1>1, <1>3 DEF EntryType
<1>5. CapturesFit(db)'
  <2>1. entry[OwnerOf[e]].snap # None
    BY <1>1 DEF Inv, CapturesFit
  <2>2. \A t \in Searches : entry'[t].snap = None => entry'[t] = NoEntry
    BY <1>4, <2>1 DEF Inv, CapturesFit
  <2>3. \A t \in Searches : \A z \in Execs : z \in entry'[t].waiting <=> OwnerOf[z] = t /\ phase'[z] = "capture"
    <3>1. TAKE t \in Searches
    <3>2. TAKE z \in Execs
    <3>3. z \in entry[t].waiting <=> OwnerOf[z] = t /\ phase[z] = "capture"
      BY DEF Inv, CapturesFit
    <3>4. QED BY <1>2, <1>4, <3>3
  <2>4. \A t \in Searches : entry'[t].snap = entry[t].snap
    BY <1>4
  <2>5. db'.snap = db.snap /\ db'.live = db.live /\ got' = got /\ CapturesFit(db)
    BY <1>1 DEF Inv
  <2>6. QED BY <2>2, <2>3, <2>4, <2>5, SMTT(30) DEF CapturesFit
<1>6. GotFits(db)'
  BY <1>1, <1>2 DEF Inv, GotFits, Held
<1>7. QED BY <1>1, <1>4, <1>5, <1>6

(* It is the first that waits for a new capture. *)
LEMMA HeadBegins ==
  ASSUME Inv, NEW e \in Execs, PumpDue, e = Head(queue), OwnerOf[e] \in db.live,
         entry[OwnerOf[e]] = NoEntry,
         NEW i \in Fresh(db), NewCapture(HeadRow, OwnerOf[e], i, e),
         phase' = [phase EXCEPT ![e] = "capture"], got' = got
  PROVE  /\ db' \in DbType /\ db'.row = HeadRow.row /\ db'.live = db.live
         /\ entry' \in EntryType /\ ask' \in AskType /\ known' \in KnownType
         /\ CapturesFit(db)' /\ GotFits(db)' /\ RowsFit(db)'
<1>1. /\ phase[e] = "queued" /\ HeadRow.used = db.used /\ HeadRow.snap = db.snap /\ HeadRow.live = db.live
      /\ RowsFit(HeadRow) /\ HeadRow \in DbType /\ OwnerOf[e] \in Searches /\ Types
      /\ \A z \in Execs : HeadRow.row[z] = IF z = e THEN "capturing" ELSE db.row[z]
  BY HeadIs DEF Inv
<1>2. \A z \in Execs : phase'[z] = IF z = e THEN "capture" ELSE phase[z]
  BY DEF Inv, Types
<1>3. i \in Fresh(HeadRow)
  BY <1>1 DEF Fresh, Alive
<1>4. CapturesFit(HeadRow)
  BY <1>1 DEF Inv, CapturesFit
<1>5. GotFits(HeadRow)
  <2>1. \A z \in Execs : Held(z) \/ phase[z] = "captured" => z # e
    BY <1>1 DEF Held
  <2>2. QED BY <1>1, <2>1 DEF Inv, GotFits, Held
<1>6. /\ db' \in DbType /\ db'.row = HeadRow.row /\ db'.live = HeadRow.live
      /\ entry' \in EntryType /\ ask' \in AskType /\ known' \in KnownType
  BY <1>1, <1>3, NewCaptureIs
<1>7. CapturesFit(db)' /\ GotFits(db)' /\ RowsFit(db)'
  BY <1>1, <1>2, <1>3, <1>4, <1>5, CaptureBegins
<1>8. QED BY <1>1, <1>6, <1>7

(* pump and run up to its first await. *)
LEMMA RunHeadKeeps ==
  ASSUME Inv, PumpDue, RunHead
  PROVE  Kept
<1> DEFINE e == Head(queue)
           s == OwnerOf[e]
<1>1. e \in Execs
  BY QueueTaken DEF PumpDue, Inv, Types, QueueFits, Once
<1>2. /\ s \in db.live /\ queue' = Tail(queue)
      /\ UNCHANGED <<host, asked, path, hit, dataset, file, deleting>>
  BY DEF RunHead
<1>3. /\ s \in Searches /\ db \in DbType /\ phase[e] = "queued" /\ got[e] = None
      /\ HeadRow \in DbType /\ HeadRow.live = db.live /\ HeadRow.used = db.used
      /\ HeadRow.snap = db.snap /\ RowsFit(HeadRow)
      /\ \A z \in Execs : HeadRow.row[z] = IF z = e THEN "capturing" ELSE db.row[z]
  <2> HIDE DEF e
  <2>1. e = Head(queue)
    BY DEF e
  <2>2. QED BY <1>1, <1>2, <2>1, HeadIs
<1>4. /\ kill \in [Execs -> {"no", "cancelled", "failed"}] /\ got \in [Execs -> Snaps \cup {None}]
      /\ phase \in [Execs -> Phases]
      /\ entry \in EntryType /\ ask \in AskType /\ known \in KnownType
  BY DEF Inv, Types, EntryType, AskType, KnownType
<1>5. ASSUME NEW i \in Snaps, i # None, db.snap[i].of = s, db.snap[i].ready,
             phase' = [phase EXCEPT ![e] = "captured"], got' = [got EXCEPT ![e] = i],
             db' = HeadRow, UNCHANGED <<kill, entry, known, ask>>
      PROVE  Kept
  <2> HIDE DEF e
  <2>1. e = Head(queue)
    BY DEF e
  <2>2. got' \in [Execs -> Snaps \cup {None}] /\ \A z \in Execs \ {e} : got'[z] = got[z] /\ kill'[z] = kill[z]
    BY <1>1, <1>4, <1>5
  <2>3. CapturesFit(db)' /\ GotFits(db)' /\ RowsFit(db)'
    BY <1>1, <1>2, <1>5, <2>1, HeadHasIt
  <2>4. /\ Types' /\ QueueFits' /\ JobsFit(db)' /\ FilesFit(dataset, file)'
        /\ VerdictIsKept /\ AnswerIsOfWhatWasAsked
    BY <1>1, <1>2, <1>3, <1>4, <1>5, <2>1, <2>2, HeadTaken
  <2>5. QED BY <2>3, <2>4 DEF Inv, Kept
<1>6. CASE /\ ask[e].given # None /\ Owned(db, s, ask[e].given)
           /\ phase' = [phase EXCEPT ![e] = "captured"]
           /\ got' = [got EXCEPT ![e] = ask[e].given]
           /\ db' = HeadRow /\ UNCHANGED <<kill, entry, known, ask>>
  BY <1>5, <1>6 DEF Owned
<1>7. CASE /\ phase' = [phase EXCEPT ![e] = "rejected"]
           /\ kill' = [kill EXCEPT ![e] = "failed"]
           /\ db' = HeadRow /\ UNCHANGED <<got, entry, known, ask>>
  <2> HIDE DEF e
  <2>1. e = Head(queue)
    BY DEF e
  <2>2. /\ kill' \in [Execs -> {"no", "cancelled", "failed"}] /\ kill'[e] # "no"
        /\ \A z \in Execs \ {e} : got'[z] = got[z] /\ kill'[z] = kill[z]
    BY <1>1, <1>4, <1>7
  <2>3. \A z \in Execs : phase'[z] = IF z = e THEN "rejected" ELSE phase[z]
    BY <1>4, <1>7
  <2>4. CapturesFit(db)'
    BY <1>3, <1>7, <2>3 DEF Inv, CapturesFit
  <2>5. GotFits(db)'
    BY <1>3, <1>7, <2>3 DEF Inv, GotFits, Held
  <2>6. /\ Types' /\ QueueFits' /\ JobsFit(db)' /\ FilesFit(dataset, file)'
        /\ VerdictIsKept /\ AnswerIsOfWhatWasAsked
    BY <1>1, <1>2, <1>3, <1>4, <1>7, <2>1, <2>2, HeadTaken
  <2>7. QED BY <1>3, <1>7, <2>4, <2>5, <2>6 DEF Inv, Kept
<1>8. CASE /\ entry[s] # NoEntry
           /\ phase' = [phase EXCEPT ![e] = "capture"]
           /\ entry' = [entry EXCEPT ![s].waiting = @ \cup {e}]
           /\ db' = HeadRow /\ UNCHANGED <<got, kill, known, ask>>
  <2>1. s = OwnerOf[e]
    OBVIOUS
  <2> HIDE DEF e, s
  <2>2. e = Head(queue)
    BY DEF e
  <2>3. entry' \in EntryType /\ CapturesFit(db)' /\ GotFits(db)' /\ RowsFit(db)'
    BY <1>1, <1>2, <1>8, <2>1, <2>2, HeadJoins
  <2>4. /\ Types' /\ QueueFits' /\ JobsFit(db)' /\ FilesFit(dataset, file)'
        /\ VerdictIsKept /\ AnswerIsOfWhatWasAsked
    BY <1>1, <1>2, <1>3, <1>4, <1>8, <2>1, <2>2, <2>3, HeadTaken
  <2>5. QED BY <2>3, <2>4 DEF Inv, Kept
<1>9. CASE /\ \E i \in Prior(db, s) :
                /\ phase' = [phase EXCEPT ![e] = "captured"]
                /\ got' = [got EXCEPT ![e] = i]
           /\ db' = HeadRow /\ UNCHANGED <<kill, entry, known, ask>>
  <2>1. PICK i \in Prior(db, s) :
                /\ phase' = [phase EXCEPT ![e] = "captured"]
                /\ got' = [got EXCEPT ![e] = i]
    BY <1>9
  <2>2. i \in Snaps /\ i # None /\ db.snap[i].of = s /\ db.snap[i].ready
    BY <2>1 DEF Prior, Snaps, None
  <2>3. QED BY <1>5, <1>9, <2>1, <2>2
<1>10. CASE /\ entry[s] = NoEntry
            /\ \E i \in Fresh(db) : NewCapture(HeadRow, s, i, e)
            /\ phase' = [phase EXCEPT ![e] = "capture"]
            /\ UNCHANGED <<got, kill>>
  <2>1. s = OwnerOf[e]
    OBVIOUS
  <2> HIDE DEF e, s
  <2>2. e = Head(queue)
    BY DEF e
  <2>3. PICK i \in Fresh(db) : NewCapture(HeadRow, s, i, e)
    BY <1>10
  <2>4. /\ db' \in DbType /\ db'.row = HeadRow.row /\ db'.live = db.live
        /\ entry' \in EntryType /\ ask' \in AskType /\ known' \in KnownType
        /\ CapturesFit(db)' /\ GotFits(db)' /\ RowsFit(db)'
    BY <1>1, <1>2, <1>10, <2>1, <2>2, <2>3, HeadBegins
  <2>5. /\ Types' /\ QueueFits' /\ JobsFit(db)' /\ FilesFit(dataset, file)'
        /\ VerdictIsKept /\ AnswerIsOfWhatWasAsked
    BY <1>1, <1>2, <1>4, <1>10, <2>1, <2>2, <2>4, HeadTaken
  <2>6. QED BY <2>4, <2>5 DEF Inv, Kept
<1>11. QED BY <1>6, <1>7, <1>8, <1>9, <1>10 DEF RunHead, HeadRow

(* ... or the rejection nobody handles. *)
LEMMA PumpKeeps ==
  ASSUME Inv, Pump
  PROVE  Kept
<1>1. CASE RunHead
  BY <1>1, RunHeadKeeps DEF Pump
<1>2. CASE RunThrows
  BY <1>2, VanishKeeps DEF RunThrows
<1>3. QED BY <1>1, <1>2 DEF Pump

(* The process dies. *)
LEMMA CrashKeeps ==
  ASSUME Inv, Crash
  PROVE  Kept
BY VanishKeeps DEF Crash

-----------------------------------------------------------------------------
(* An empty database and an idle service. *)
LEMMA InitFits == Init => Inv
<1> SUFFICES ASSUME Init PROVE Inv
  OBVIOUS
<1>1. /\ \A e \in Execs : /\ db.row[e] = "none" /\ db.used[e] = None /\ phase[e] = "idle"
                          /\ got[e] = None /\ path[e] = Nobody
      /\ \A s \in Searches : entry[s] = NoEntry /\ db.applied[s] = Nobody
      /\ \A i \in Snaps : dataset[i] = Nobody
      /\ db.live = Searches /\ db.kept = {} /\ queue = <<>> /\ hit = {} /\ host = "up"
  BY DEF Init
<1>2. NoEntry.snap = None /\ NoEntry.waiting = {}
  BY DEF NoEntry
<1>3. Types
  <2>1. db \in DbType
    BY QueryAssumption DEF Init, DbType, Rows, NoSnap
  <2>2. phase \in [Execs -> Phases] /\ kill \in [Execs -> {"no", "cancelled", "failed"}]
        /\ got \in [Execs -> Snaps \cup {None}]
        /\ path \in [Execs -> Paths \cup {Nobody}] /\ dataset \in [Snaps -> Paths \cup {Nobody}]
        /\ file \in [Paths -> Snaps \cup {None, Partial}]
    BY DEF Init, Phases
  <2>3. ask \in [Execs -> [given : Snaps \cup {None, Lost}, expect : 0..MaxVersion]]
    BY QueryAssumption DEF Init, NoAsk
  <2>4. entry \in [Searches -> [snap : Snaps \cup {None},
                               waiting : SUBSET (Execs \cup {Client}), aborted : BOOLEAN]]
    BY DEF Init, NoEntry
  <2>5. known \in [Searches -> [snap : Snaps \cup {None, Lost}, version : 0..MaxVersion]]
    BY QueryAssumption DEF Init
  <2>6. deleting \in [Searches -> [on : BOOLEAN, todo : SUBSET Execs, wait : Execs \cup {Nobody}]]
    BY DEF Init, NoDelete
  <2>7. host \in {"up", "closed", "down"} /\ queue \in Seq(Execs) /\ asked \subseteq Execs /\ hit \subseteq Execs
    BY DEF Init
  <2>8. QED BY <2>1, <2>2, <2>3, <2>4, <2>5, <2>6, <2>7 DEF Types
<1>4. QueueFits
  BY <1>1 DEF QueueFits
<1>5. JobsFit(db) /\ GotFits(db)
  BY <1>1 DEF JobsFit, GotFits, Held, LiveRows
<1>6. CapturesFit(db)
  BY <1>1, <1>2 DEF CapturesFit
<1>7. RowsFit(db)
  BY <1>1, QueryAssumption DEF RowsFit, IsApplied
<1>8. FilesFit(dataset, file)
  BY <1>1 DEF FilesFit, Held
<1>9. QED BY <1>3, <1>4, <1>5, <1>6, <1>7, <1>8 DEF Inv

(* Every action of the service, the clients and the world. *)
LEMMA NextKeeps ==
  ASSUME Inv, Next
  PROVE  Kept
<1>1. ASSUME NEW e \in Execs, Job(e)
      PROVE  Kept
  BY <1>1, ChildRunsKeeps, ChildLimitKeeps, ChildFailsKeeps, ChildAnswersKeeps, RejectedKeeps,
     ProceedRefusedKeeps, ProceedChildKeeps, ProceedCachedKeeps DEF Job
<1>2. ASSUME NEW e \in Execs, Start(e) \/ Cancel(e) \/ Release(e) \/ Pin(e)
      PROVE  Kept
  BY <1>2, StartKeeps, CancelKeeps, ReleaseKeeps, PinKeeps
<1>3. ASSUME NEW s \in Searches, Capture(s) \/ Delete(s)
      PROVE  Kept
  BY <1>3, CaptureDoneKeeps, CaptureFailsKeeps, DeleteAskKeeps, DeleteCancelsKeeps, DeleteDoneKeeps
     DEF Capture, Delete
<1>4. ASSUME NEW s \in Searches, Context(s) \/ Change(s)
      PROVE  Kept
  BY <1>4, ContextKeeps, ChangeKeeps
<1>5. CASE Pump \/ Close \/ Crash \/ Restart
  BY <1>5, PumpKeeps, CloseKeeps, CrashKeeps, RestartKeeps
<1>6. QED BY <1>1, <1>2, <1>3, <1>4, <1>5 DEF Next

(* Nothing happens. *)
LEMMA StutterKeeps ==
  ASSUME Inv, UNCHANGED vars
  PROVE  Kept
<1>1. Inv'
  BY DEF vars, service, Inv, Types, QueueFits, JobsFit, CapturesFit, GotFits, RowsFit, IsApplied, FilesFit, Held
<1>2. VerdictIsKept /\ AnswerIsOfWhatWasAsked
  BY DEF vars, VerdictIsKept, AnswerIsOfWhatWasAsked
<1>3. QED BY <1>1, <1>2 DEF Kept

-----------------------------------------------------------------------------
(* The theorems *)

(* The inductive invariant of the service holds always: types; the queue holds queued
   jobs, each once; a job and its row agree; a capture has a snapshot of its own and
   its consumers; a job's snapshot is finished and of its search; rows, snapshots and
   files fit (offer-query.ts with offer-query-store.ts). *)
THEOREM QueriesAreSound == Spec => []Inv
<1>1. Init => Inv
  BY InitFits
<1>2. Inv /\ [Next]_vars => Inv'
  BY NextKeeps, StutterKeeps DEF Kept
<1>3. QED BY <1>1, <1>2, PTL DEF Spec

(* A settled row changes only into a tombstone and a tombstone only into nothing,
   whatever arrives late after a cancellation, close or a restart (run, cancel, close,
   fail, complete, gc). *)
THEOREM EveryVerdictStands == Spec => [][VerdictIsKept]_vars
<1>1. Inv /\ [Next]_vars => VerdictIsKept
  BY NextKeeps, StutterKeeps DEF Kept
<1>2. QED BY <1>1, QueriesAreSound, PTL DEF Spec

(* A query succeeds only over a snapshot with the fingerprint its client had read
   (expectedScopeRevision), whether the snapshot was given, shared, captured for it, or
   the answer copied from an earlier query (run). *)
THEOREM EveryAnswerIsAsked == Spec => [][AnswerIsOfWhatWasAsked]_vars
<1>1. Inv /\ [Next]_vars => AnswerIsOfWhatWasAsked
  BY NextKeeps, StutterKeeps DEF Kept
<1>2. QED BY <1>1, QueriesAreSound, PTL DEF Spec

(* What is read by others follows from the rows and the files. *)
LEMMA ServedIsThere ==
  ASSUME Inv
  PROVE  RetainedIsReadable /\ RowsAreOfTheSnapshot /\ DatasetsAreWhole
<1>1. \A e \in Execs : db.row[e] = "succeeded" =>
        /\ db.used[e] # None /\ db.rows[e] = db.used[e]
        /\ db.snap[db.used[e]].of = OwnerOf[e] /\ db.snap[db.used[e]].ready
  BY DEF Inv, RowsFit
<1>2. RetainedIsReadable
  BY <1>1 DEF Inv, RowsFit, RetainedIsReadable
<1>3. RowsAreOfTheSnapshot
  <2>1. ~NoSnap.ready
    BY DEF NoSnap
  <2>2. QED BY <1>1, <2>1 DEF RowsAreOfTheSnapshot, Alive
<1>4. DatasetsAreWhole
  BY DEF Inv, Types, FilesFit, DatasetsAreWhole
<1>5. QED BY <1>2, <1>3, <1>4

(* Applied and cited results can be read, every stored row was computed from the
   finished snapshot its row names, and every dataset in the cache is whole, however gc
   and clean choose (gc, complete, pin, clean, removeFile). *)
THEOREM EverythingServedIsThere ==
  Spec => [](RetainedIsReadable /\ RowsAreOfTheSnapshot /\ DatasetsAreWhole)
<1>1. Inv => RetainedIsReadable /\ RowsAreOfTheSnapshot /\ DatasetsAreWhole
  BY ServedIsThere
<1>2. QED BY <1>1, QueriesAreSound, PTL

FocusInv == focus = "snapshots" => Inv

(* The same of the instance the run checks. *)
LEMMA FocusKeeps ==
  ASSUME FocusInv, [QueriesNext]_<<vars, focus>>
  PROVE  FocusInv' /\ (focus = "snapshots" => VerdictIsKept /\ AnswerIsOfWhatWasAsked)
<1>1. focus' = focus
  BY DEF QueriesNext
<1>2. focus = "snapshots" => Next \/ UNCHANGED vars
  BY DEF QueriesNext
<1>3. focus = "snapshots" => Kept
  BY <1>2, NextKeeps, StutterKeeps DEF FocusInv
<1>4. QED BY <1>1, <1>3 DEF FocusInv, Kept

(* The same as the run states it of its instance. *)
THEOREM ServedIsKept == QueriesSpec => []WhatIsServedIsThere
<1>1. (focus = "queries" /\ Q!Init) \/ (focus = "snapshots" /\ Init) => FocusInv
  BY InitFits DEF FocusInv
<1>2. FocusInv /\ [QueriesNext]_<<vars, focus>> => FocusInv'
  BY FocusKeeps
<1>3. FocusInv => WhatIsServedIsThere
  BY ServedIsThere DEF FocusInv, WhatIsServedIsThere
<1>4. QED BY <1>1, <1>2, <1>3, PTL DEF QueriesSpec

(* Every answer is of the revision that was asked for, as the run states it of its
   instance. *)
THEOREM AnswersAreAsked == QueriesSpec => AnswersWhatWasAsked
<1>1. (focus = "queries" /\ Q!Init) \/ (focus = "snapshots" /\ Init) => FocusInv
  BY InitFits DEF FocusInv
<1>2. FocusInv /\ [QueriesNext]_<<vars, focus>> => FocusInv'
  BY FocusKeeps
<1>3. FocusInv /\ [QueriesNext]_<<vars, focus>> => [focus = "snapshots" => AnswerIsOfWhatWasAsked]_vars
  BY FocusKeeps
<1>4. QED BY <1>1, <1>2, <1>3, PTL DEF QueriesSpec, AnswersWhatWasAsked

(* Every verdict stands, as the run states it of its instance. *)
THEOREM VerdictsAreKept == QueriesSpec => VerdictStands
<1>1. (focus = "queries" /\ Q!Init) \/ (focus = "snapshots" /\ Init) => FocusInv
  BY InitFits DEF FocusInv
<1>2. FocusInv /\ [QueriesNext]_<<vars, focus>> => FocusInv'
  BY FocusKeeps
<1>3. FocusInv /\ [QueriesNext]_<<vars, focus>> => [focus = "snapshots" => VerdictIsKept]_vars
  BY FocusKeeps
<1>4. QED BY <1>1, <1>2, <1>3, PTL DEF QueriesSpec, VerdictStands

-----------------------------------------------------------------------------
(* Slots *)

Works(p) == p \notin {"idle", "queued"}

(* No more jobs than processes, and every queued job in the queue. *)
SlotsFit ==
  /\ died \in BOOLEAN
  /\ IsFiniteSet(Active) /\ Cardinality(Active) <= Processes
  /\ \A e \in Execs : phase[e] = "queued" => \E i \in 1 .. Len(queue) : queue[i] = e

(* Nobody takes a slot, and nobody is lost from the queue. *)
NoSlotIsTaken ==
  \A z \in Execs : /\ Works(phase'[z]) => Works(phase[z])
                   /\ phase'[z] = "queued" => phase[z] = "queued"

(* Nobody takes a slot: as many are free as before. *)
LEMMA SlotsStay ==
  ASSUME SlotsFit, \A z \in Execs : Works(phase'[z]) => Works(phase[z])
  PROVE  IsFiniteSet(Active') /\ Cardinality(Active') <= Processes
<1>1. Active' \in SUBSET Active
  BY DEF Active, Works
<1>2. IsFiniteSet(Active') /\ Cardinality(Active') <= Cardinality(Active)
        /\ Cardinality(Active') \in Nat /\ Cardinality(Active) \in Nat
  BY <1>1, FS_Subset, FS_CardinalityType DEF SlotsFit
<1>3. QED BY <1>2, QueryAssumption DEF SlotsFit

(* Nobody takes a slot or leaves the queue. *)
LEMMA SlotsStill ==
  ASSUME SlotsFit, NoSlotIsTaken, queue' = queue, died' = died
  PROVE  SlotsFit'
<1>1. IsFiniteSet(Active') /\ Cardinality(Active') <= Processes
  BY SlotsStay DEF NoSlotIsTaken
<1>2. \A e \in Execs : phase'[e] = "queued" => \E i \in 1 .. Len(queue') : queue'[i] = e
  BY DEF NoSlotIsTaken, SlotsFit
<1>3. QED BY <1>1, <1>2 DEF SlotsFit

(* A cancelled job leaves the queue, the others stay in it. *)
LEMMA CancelsSlots ==
  ASSUME Inv, SlotsFit, NEW e \in Execs, Cancels(e), died' = died
  PROVE  SlotsFit'
<1>1. \A z \in Execs : Works(phase'[z]) => Works(phase[z])
  BY DEF Cancels, Inv, Types, Works
<1>2. IsFiniteSet(Active') /\ Cardinality(Active') <= Processes
  BY <1>1, SlotsStay
<1>3. \A z \in Execs : phase'[z] = "queued" => \E j \in 1 .. Len(queue') : queue'[j] = z
  <2>1. CASE phase[e] = "queued"
    <3>1. PICK i \in DOMAIN queue : queue[i] = e /\ queue' = RemoveAt(queue, i)
      BY <2>1 DEF Cancels
    <3>2. Once(queue) /\ queue \in Seq(Execs)
      BY DEF Inv, QueueFits, Types, Once
    <3>3. \A k \in 1 .. Len(queue) : queue[k] = e \/ \E j \in 1 .. Len(queue') : queue'[j] = queue[k]
      BY <3>1, <3>2, QueueLeft
    <3>4. \A z \in Execs : phase'[z] = "queued" => phase[z] = "queued" /\ z # e
      BY <2>1 DEF Cancels, Inv, Types
    <3>5. QED BY <3>3, <3>4 DEF SlotsFit
  <2>2. CASE phase[e] # "queued"
    <3>1. queue' = queue
      BY <2>2 DEF Cancels
    <3>2. \A z \in Execs : phase'[z] = "queued" => phase[z] = "queued"
      BY <2>2 DEF Cancels, Inv, Types
    <3>3. QED BY <3>1, <3>2 DEF SlotsFit
  <2>3. QED BY <2>1, <2>2
<1>4. QED BY <1>2, <1>3 DEF SlotsFit

(* A new job waits for a slot at the end of the queue. *)
LEMMA StartSlots ==
  ASSUME Inv, SlotsFit, NEW e \in Execs, Start(e)
  PROVE  SlotsFit'
<1>1. /\ phase' = [phase EXCEPT ![e] = "queued"] /\ queue' = Append(queue, e) /\ died' = died
      /\ host = "up" /\ db.row[e] = "none" /\ OwnerOf[e] \in db.live
  BY DEF Start
<1>2. \A z \in Execs : phase'[z] = IF z = e THEN "queued" ELSE phase[z]
  BY <1>1 DEF Inv, Types
<1>3. IsFiniteSet(Active') /\ Cardinality(Active') <= Processes
  BY <1>2, SlotsStay DEF Works
<1>4. phase[e] = "idle" /\ Once(queue) /\ queue \in Seq(Execs)
  BY <1>1 DEF Inv, JobsFit, QueueFits, Types, Once
<1>5. \A i \in 1 .. Len(queue) : queue[i] # e
  BY <1>4 DEF Inv, QueueFits
<1>6. /\ \A k \in 1 .. Len(queue) : k \in 1 .. Len(queue') /\ queue'[k] = queue[k]
      /\ Len(queue) + 1 \in 1 .. Len(queue') /\ queue'[Len(queue) + 1] = e
  BY <1>1, <1>4, <1>5, QueueAppended
<1>7. \A z \in Execs : phase'[z] = "queued" => \E j \in 1 .. Len(queue') : queue'[j] = z
  BY <1>2, <1>6 DEF SlotsFit
<1>8. QED BY <1>1, <1>3, <1>7 DEF SlotsFit

(* A process that is gone has no jobs. *)
LEMMA VanishSlots ==
  ASSUME Vanish, died' \in BOOLEAN
  PROVE  SlotsFit'
<1>1. \A e \in Execs : phase'[e] = "idle"
  BY DEF Vanish
<1>2. Active' = {}
  BY <1>1 DEF Active
<1>3. QED BY <1>1, <1>2, FS_EmptySet, QueryAssumption DEF SlotsFit

(* The pump takes a slot only when one is free. *)
LEMMA PumpSlots ==
  ASSUME Inv, SlotsFit, Pump
  PROVE  SlotsFit'
<1>1. CASE RunThrows
  BY <1>1, VanishSlots DEF RunThrows
<1>2. CASE RunHead
  <2> DEFINE e == Head(queue)
  <2>1. /\ queue \in Seq(Execs) /\ Once(queue) /\ queue # <<>>
        /\ Cardinality(Active) < Processes /\ queue' = Tail(queue) /\ died' = died
    BY <1>2 DEF Pump, PumpDue, RunHead, Inv, Types, QueueFits, Once
  <2>2. /\ e \in Execs
        /\ \A k \in 1 .. Len(queue) : queue[k] = e \/ \E i \in 1 .. Len(queue') : queue'[i] = queue[k]
    BY <2>1, QueueTaken
  <2>3. PICK p \in {"captured", "rejected", "capture"} : phase' = [phase EXCEPT ![e] = p]
    BY <1>2 DEF RunHead
  <2> HIDE DEF e
  <2>4. \A z \in Execs : phase'[z] = IF z = e THEN p ELSE phase[z]
    BY <2>3 DEF Inv, Types
  <2>5. Active' \in SUBSET (Active \cup {e})
    BY <2>4 DEF Active
  <2>6. IsFiniteSet(Active') /\ Cardinality(Active') <= Processes
    <3>1. Cardinality(Active) \in Nat /\ IsFiniteSet(Active)
      BY FS_CardinalityType DEF SlotsFit
    <3>2. IsFiniteSet(Active \cup {e}) /\ Cardinality(Active \cup {e}) <= Cardinality(Active) + 1
          /\ Cardinality(Active \cup {e}) \in Nat
      BY <3>1, FS_AddElement
    <3>3. IsFiniteSet(Active') /\ Cardinality(Active') <= Cardinality(Active \cup {e})
      BY <2>5, <3>2, FS_Subset
    <3>4. Cardinality(Active') \in Nat
      BY <3>3, FS_CardinalityType
    <3>5. QED BY <2>1, <3>1, <3>2, <3>3, <3>4, QueryAssumption
  <2>7. \A z \in Execs : phase'[z] = "queued" => \E j \in 1 .. Len(queue') : queue'[j] = z
    BY <2>2, <2>4 DEF SlotsFit
  <2>8. QED BY <2>1, <2>6, <2>7 DEF SlotsFit
<1>3. QED BY <1>1, <1>2 DEF Pump

(* A job keeps its slot or gives it up. *)
LEMMA JobSlots ==
  ASSUME Inv, SlotsFit, NEW e \in Execs, Job(e)
  PROVE  SlotsFit'
<1>1. queue' = queue /\ died' = died /\ Works(phase[e])
  BY DEF Job, ChildRuns, ChildLimit, ChildFails, ChildAnswers, Rejected, ProceedRefused, ProceedChild,
         ProceedCached, Accepted, Works
<1>2. \/ phase' = phase
      \/ \E p \in {"idle", "loading", "running"} : phase' = [phase EXCEPT ![e] = p]
  BY DEF Job, ChildRuns, ChildLimit, ChildFails, ChildAnswers, Rejected, ProceedRefused, ProceedChild,
         ProceedCached, Fails, Ends
<1>3. NoSlotIsTaken
  BY <1>1, <1>2 DEF NoSlotIsTaken, Works, Inv, Types
<1>4. QED BY <1>1, <1>3, SlotsStill

(* Nothing done for a search takes a slot. *)
LEMMA SearchSlots ==
  ASSUME Inv, SlotsFit, NEW s \in Searches, Context(s) \/ Capture(s) \/ Delete(s) \/ Change(s)
  PROVE  SlotsFit'
<1>1. CASE Context(s) \/ Change(s) \/ DeleteAsk(s) \/ DeleteDone(s)
  <2>1. UNCHANGED <<queue, died, phase>>
    BY <1>1 DEF Context, Change, DeleteAsk, DeleteDone, service
  <2>2. QED BY <2>1, SlotsStill DEF NoSlotIsTaken
<1>2. CASE Capture(s)
  <2>1. queue' = queue /\ died' = died /\ entry[s].snap # None
    BY <1>2 DEF Capture, CaptureDone, CaptureFails
  <2>2. \A z \in Execs : z \in entry[s].waiting => phase[z] = "capture"
    BY <2>1, CaptureIs
  <2>3. \A z \in Execs : phase'[z] \in {phase[z], "captured", "rejected"}
                         /\ (z \notin entry[s].waiting => phase'[z] = phase[z])
    BY <1>2 DEF Capture, CaptureDone, CaptureFails
  <2>4. NoSlotIsTaken
    BY <2>2, <2>3 DEF NoSlotIsTaken, Works
  <2>5. QED BY <2>1, <2>4, SlotsStill
<1>3. CASE DeleteCancels(s)
  <2>1. PICK e \in deleting[s].todo :
           \/ phase[e] = "idle" /\ UNCHANGED <<db, queue, phase, ask, kill, asked, entry>>
           \/ Cancels(e)
    BY <1>3 DEF DeleteCancels
  <2>2. e \in Execs /\ died' = died
    BY <1>3 DEF DeleteCancels, Inv, Types
  <2>3. CASE Cancels(e)
    BY <2>2, <2>3, CancelsSlots
  <2>4. CASE UNCHANGED <<db, queue, phase, ask, kill, asked, entry>>
    BY <2>2, <2>4, SlotsStill DEF NoSlotIsTaken
  <2>5. QED BY <2>1, <2>3, <2>4
<1>4. QED BY <1>1, <1>2, <1>3 DEF Delete

(* Every step. *)
LEMMA NextSlots ==
  ASSUME Inv, SlotsFit, [Next]_vars
  PROVE  SlotsFit'
<1>1. CASE \E e \in Execs : Start(e) \/ Cancel(e) \/ Release(e) \/ Pin(e) \/ Job(e)
  <2>1. ASSUME NEW e \in Execs, Release(e) \/ Pin(e)
        PROVE  SlotsFit'
    <3>1. UNCHANGED <<queue, died, phase>>
      BY <2>1 DEF Release, Pin, service
    <3>2. QED BY <3>1, SlotsStill DEF NoSlotIsTaken
  <2>2. ASSUME NEW e \in Execs, Cancel(e)
        PROVE  SlotsFit'
    BY <2>2, CancelsSlots DEF Cancel
  <2>3. QED BY <1>1, <2>1, <2>2, StartSlots, JobSlots
<1>2. CASE \E s \in Searches : Context(s) \/ Capture(s) \/ Delete(s) \/ Change(s)
  BY <1>2, SearchSlots
<1>3. CASE Pump
  BY <1>3, PumpSlots
<1>4. CASE Close
  <2>1. /\ died' = died /\ \A z \in Execs : phase'[z] = IF phase[z] = "queued" THEN "idle" ELSE phase[z]
    BY <1>4 DEF Close
  <2>2. IsFiniteSet(Active') /\ Cardinality(Active') <= Processes
    BY <2>1, SlotsStay DEF Works
  <2>3. QED BY <2>1, <2>2 DEF SlotsFit
<1>5. CASE Crash
  BY <1>5, VanishSlots DEF Crash, SlotsFit
<1>6. CASE Restart \/ UNCHANGED vars
  <2>1. UNCHANGED <<queue, died, phase>>
    BY <1>6 DEF Restart, service, vars
  <2>2. QED BY <2>1, SlotsStill DEF NoSlotIsTaken
<1>7. QED BY <1>1, <1>2, <1>3, <1>4, <1>5, <1>6 DEF Next

(* At the start all slots are free. *)
LEMMA InitSlots == Init => SlotsFit
<1> SUFFICES ASSUME Init PROVE SlotsFit
  OBVIOUS
<1>1. died = FALSE /\ \A e \in Execs : phase[e] = "idle"
  BY DEF Init
<1>2. Active = {}
  BY <1>1 DEF Active
<1>3. IsFiniteSet(Active) /\ Cardinality(Active) <= Processes
  BY <1>2, FS_EmptySet, QueryAssumption
<1>4. died \in BOOLEAN
  BY <1>1
<1>5. QED BY <1>1, <1>3, <1>4 DEF SlotsFit

(* A queue that holds each job once is as long as it holds jobs. *)
LEMMA AsManyAsLong ==
  ASSUME NEW q \in Seq(Execs), Once(q)
  PROVE  Cardinality(Range(q)) = Len(q)
<1>1. DOMAIN q = 1 .. Len(q) /\ Len(q) \in Nat
  OBVIOUS
<1>2. q \in Surjection(1 .. Len(q), Range(q)) /\ q \in Injection(1 .. Len(q), Range(q))
  <2>1. q \in [1 .. Len(q) -> Range(q)]
    BY <1>1 DEF Range
  <2>2. \A r \in Range(q) : \E i \in 1 .. Len(q) : q[i] = r
    BY <1>1 DEF Range
  <2>3. IsInjective(q)
    BY <1>1 DEF IsInjective, Once
  <2>4. QED BY <2>1, <2>2, <2>3 DEF Surjection, Injection
<1>3. IsFiniteSet(1 .. Len(q)) /\ Cardinality(1 .. Len(q)) = Len(q)
  <2>1. /\ 1 \in Int /\ Len(q) \in Int
        /\ (IF 1 > Len(q) THEN 0 ELSE Len(q) - 1 + 1) = Len(q)
    BY <1>1
  <2>2. QED BY <2>1, FS_Interval
<1>4. QED BY <1>2, <1>3, FS_Surjection

(* The rows and the jobs, from both invariants. *)
LEMMA TypesHold ==
  ASSUME Inv, SlotsFit
  PROVE  RowsFollowJobs
<1>1. queue \in Seq(Execs) /\ Once(queue)
  BY DEF Inv, Types, QueueFits, Once
<1>2. Range(queue) = {e \in Execs : phase[e] = "queued"}
  <2>1. \A i \in 1 .. Len(queue) : queue[i] \in Execs /\ phase[queue[i]] = "queued"
    BY <1>1 DEF Inv, QueueFits
  <2>2. \A e \in Execs : phase[e] = "queued" => \E i \in 1 .. Len(queue) : queue[i] = e
    BY DEF SlotsFit
  <2>3. DOMAIN queue = 1 .. Len(queue)
    BY <1>1
  <2>4. QED BY <2>1, <2>2, <2>3 DEF Range
<1>3. \A s \in Searches : entry[s].waiting \ {Client} = {e \in Execs : phase[e] = "capture" /\ OwnerOf[e] = s}
  BY QueryAssumption DEF Inv, CapturesFit, Types
<1>4. TypeOK
  BY <1>1, <1>2, <1>3, AsManyAsLong DEF TypeOK, Inv, Types, SlotsFit
<1>5. host = "up" => \A e \in Execs : db.row[e] # "none" => (db.row[e] \in LiveRows <=> e \in Jobs)
  BY DEF Inv, JobsFit, Jobs
<1>6. QED BY <1>4, <1>5 DEF RowsFollowJobs

(* While the service runs, a row says that work is under way exactly when the service
   has a job for it; the queue is the queued jobs, once each, and no more jobs run than
   there are processes (start, pump, run, cancel, close, the constructor of the store). *)
THEOREM RowsAndJobs == Spec => []RowsFollowJobs
<1>1. Init => SlotsFit
  BY InitSlots
<1>2. Inv /\ SlotsFit /\ [Next]_vars => SlotsFit'
  BY NextSlots
<1>3. Inv /\ SlotsFit => RowsFollowJobs
  BY TypesHold
<1>4. QED BY <1>1, <1>2, <1>3, QueriesAreSound, PTL DEF Spec
=============================================================================
