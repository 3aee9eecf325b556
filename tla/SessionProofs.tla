----------------------------- MODULE SessionProofs -----------------------------
(***************************************************************************)
(* What holds of the sessions of a saved search for every number of        *)
(* sessions, boards and offers and every budget, whoever starts, stops,    *)
(* refetches, deletes and manages, and however late a page arrives.        *)
(*                                                                         *)
(* The ledger is given back what a page did not use, so it stays above     *)
(* what was sent only because what may be given back is among it: the      *)
(* invariant counts those units one by one.                                *)
(***************************************************************************)
EXTENDS DiscoverySession, FiniteSetTheorems, WellFoundedInduction, TLAPS

-----------------------------------------------------------------------------
(* Types, by the part of the state.                                        *)
SessionTypes ==
  /\ st \in [Sessions -> {"none", "live", "halted", "cancelled"}]
  /\ kind \in [Sessions -> Kinds]
  /\ due \in [Sessions -> BOOLEAN] /\ timer \in [Sessions -> BOOLEAN] /\ exists \in BOOLEAN

BoardTypes ==
  /\ bst \in [Sessions -> [BoardIds -> {"ready", "loading"} \cup Terminal]]
  /\ retry \in [Sessions -> SUBSET BoardIds] /\ flying \in [Sessions -> SUBSET BoardIds]
  /\ initial \in [Sessions -> SUBSET BoardIds] /\ asked \in [Sessions -> SUBSET BoardIds]
  /\ reserved \in [Sessions -> [BoardIds -> 0..Cost]]
  /\ pages \in [Sessions -> [BoardIds -> 0..MaxPages]]

OfferTypes ==
  /\ cand \in [Sessions -> SUBSET Offers] /\ accepted \in [Sessions -> SUBSET Offers]
  /\ members \in SUBSET Offers /\ review \in SUBSET Offers /\ black \in SUBSET Offers
  /\ out \in [Offers -> {"none", "hide", "delete"}] /\ revision \in 0..1

Types == SessionTypes /\ BoardTypes /\ OfferTypes

(* A session that never began has asked nothing.                           *)
Unasked ==
  \A s \in Sessions : st[s] = "none" =>
    /\ flying[s] = {} /\ initial[s] = {} /\ cand[s] = {}
    /\ \A b \in BoardIds : bst[s][b] = "ready" /\ pages[s][b] = 0

(* A board is past its first page when it had one; until then it is not    *)
(* through, and no board is asked for a second page before all had one.    *)
FirstPages ==
  \A s \in Sessions, b \in BoardIds :
    /\ b \notin initial[s] => pages[s][b] = 0
    /\ b \notin initial[s] /\ Live(s) /\ kind[s] # "cache" => bst[s][b] \notin Terminal
    /\ b \in flying[s] => pages[s][b] < MaxPages
    /\ b \in flying[s] /\ b \in initial[s] => AllInitial(s)

(* What may still be refunded: a unit for each request reserved for a page *)
(* of a session that goes on.                                              *)
Units == {u \in (Sessions \X BoardIds) \X (1..Cost) :
            /\ Live(u[1][1]) /\ u[1][2] \in flying[u[1][1]]
            /\ u[2] <= reserved[u[1][1]][u[1][2]]}

(* The ledger counts all that may have been sent, what may be refunded     *)
(* among it.                                                               *)
LedgerFits ==
  /\ ledger \in 0..MaxRequests /\ sent = ledger
  /\ Cardinality(Units) <= ledger

(* What a board may bring before every board had its first page.           *)
Part(b) == (MaxCandidates \div Len(Boards))
           + (IF (CHOOSE j \in 1..Len(Boards) : Boards[j] = b) <= MaxCandidates % Len(Boards)
              THEN 1 ELSE 0)
Parts(I) == {u \in I \X (1..MaxCandidates) : u[2] <= Part(u[1])}

(* First pages bring no more than the parts of their boards, later ones    *)
(* what is left of the whole.                                              *)
CandidatesFit ==
  \A s \in Sessions :
    \/ Cardinality(cand[s]) <= Cardinality(Parts(initial[s]))
    \/ AllInitial(s) /\ Cardinality(cand[s]) <= MaxCandidates

FlightsFit == \A s \in Sessions : Cardinality(flying[s]) <= MaxConcurrent

SessionInv ==
  /\ Types /\ Unasked /\ FirstPages /\ LedgerFits /\ CandidatesFit /\ FlightsFit
  /\ SessionGoesOn /\ DeletedStaysOut

-----------------------------------------------------------------------------
(* The boards in order *)

LEMMA BoardsAre ==
  ASSUME DiscoveryAssumption
  PROVE  /\ Len(Boards) \in Nat /\ \A i \in 1 .. Len(Boards) : Boards[i] \in BoardIds
         /\ \A b \in BoardIds : \E i \in 1 .. Len(Boards) : Boards[i] = b
         /\ IsFiniteSet(BoardIds)
<1>1. Len(Boards) \in Nat /\ DOMAIN Boards = 1 .. Len(Boards) /\ Boards \in [1 .. Len(Boards) -> BoardIds]
  BY DEF DiscoveryAssumption
<1>2. \A b \in BoardIds : \E i \in 1 .. Len(Boards) : Boards[i] = b
  BY <1>1 DEF BoardIds, ToSet
<1>3. IsFiniteSet(BoardIds)
  <2>1. Boards \in Surjection(1 .. Len(Boards), BoardIds)
    BY <1>1, <1>2 DEF Surjection
  <2>2. IsFiniteSet(1 .. Len(Boards))
    BY <1>1, FS_Interval
  <2>3. QED BY <2>1, <2>2, FS_Surjection
<1>4. QED BY <1>1, <1>2, <1>3

(* The first of some boards is one of them. *)
LEMMA FirstIsOne ==
  ASSUME DiscoveryAssumption, NEW Z \in SUBSET BoardIds, Z # {}
  PROVE  InOrder(Z) \in Z
<1> DEFINE At == {i \in 1 .. Len(Boards) : Boards[i] \in Z}
<1>1. At \subseteq Nat /\ At # {}
  BY BoardsAre
<1>2. PICK i \in At : \A j \in At : ~(<<j, i>> \in OpToRel(<, Nat))
  BY <1>1, NatLessThanWellFounded, WFMin
<1>3. \A j \in At : ~(j < i)
  BY <1>1, <1>2 DEF OpToRel
<1>4. \A j \in 1 .. Len(Boards) : Boards[j] \in Z => i \in 1 .. j
  BY <1>3, BoardsAre
<1>5. Boards[i] \in Z /\ \A j \in 1 .. Len(Boards) : Boards[j] \in Z => \E k \in 1 .. j : Boards[k] = Boards[i]
  BY <1>4
<1>6. QED BY <1>5 DEF InOrder

LEMMA PickedIsIdle ==
  ASSUME DiscoveryAssumption, NEW s, ~NoBoard(s)
  PROVE  /\ PicksBoard(s) \in BoardIds /\ Idle(s, PicksBoard(s))
         /\ PicksBoard(s) \in initial[s] => AllInitial(s)
<1>1. IdleFirst(s) \in SUBSET BoardIds /\ IdleNext(s) \in SUBSET BoardIds
  BY DEF IdleFirst, IdleNext
<1>2. CASE IdleFirst(s) # {}
  <2>1. PicksBoard(s) \in IdleFirst(s)
    BY <1>1, <1>2, FirstIsOne DEF PicksBoard
  <2>2. QED BY <2>1 DEF IdleFirst
<1>3. CASE IdleFirst(s) = {}
  <2>1. PicksBoard(s) \in IdleNext(s)
    BY <1>1, <1>3, FirstIsOne DEF PicksBoard, NoBoard
  <2>2. QED BY <2>1 DEF IdleNext
<1>4. QED BY <1>2, <1>3

-----------------------------------------------------------------------------
(* The parts of the boards make up the whole *)

LEMMA Budgets ==
  ASSUME DiscoveryAssumption
  PROVE  /\ {MaxRequests, MaxCandidates, Target, MaxPages, MaxConcurrent, Cost, PageSize} \subseteq Nat \ {0}
         /\ MaxRequests \in Nat \ {0} /\ MaxCandidates \in Nat \ {0} /\ MaxPages \in Nat \ {0}
         /\ MaxConcurrent \in Nat \ {0} /\ Cost \in Nat \ {0} /\ Len(Boards) \in Nat
         /\ IsFiniteSet(Sessions) /\ IsFiniteSet(Offers)
BY BoardsAre DEF DiscoveryAssumption

(* Numbers in rows of n: each has one row and one place in it. *)
LEMMA OnePlace ==
  ASSUME NEW n \in Nat, NEW i \in 1 .. n, NEW j \in 1 .. n, NEW k \in Nat, NEW l \in Nat,
         k * n + i = l * n + j
  PROVE  k = l /\ i = j
<1>1. ASSUME NEW p \in Nat, NEW q \in Nat, p < q PROVE p * n + n <= q * n
  <2>1. PICK d \in Nat : q = p + 1 + d
    <3>1. q - p - 1 \in Nat /\ q = p + 1 + (q - p - 1)  BY <1>1
    <3>2. QED BY <3>1
  <2>2. q * n = p * n + n + d * n /\ d * n \in Nat /\ p * n \in Nat
    BY <2>1
  <2>3. QED BY <2>2
<1>2. k * n \in Nat /\ l * n \in Nat
  OBVIOUS
<1>3. ~(k < l)
  <2> SUFFICES ASSUME k < l PROVE FALSE
    OBVIOUS
  <2>1. k * n + n <= l * n  BY <1>1
  <2>2. QED BY <1>2, <2>1
<1>4. ~(l < k)
  <2> SUFFICES ASSUME l < k PROVE FALSE
    OBVIOUS
  <2>1. l * n + n <= k * n  BY <1>1
  <2>2. QED BY <1>2, <2>1
<1>5. QED BY <1>2, <1>3, <1>4

Index(b) == CHOOSE j \in 1..Len(Boards) : Boards[j] = b

LEMMA PartIs ==
  ASSUME DiscoveryAssumption, NEW b \in BoardIds
  PROVE  /\ Index(b) \in 1 .. Len(Boards) /\ Boards[Index(b)] = b
         /\ Part(b) = (MaxCandidates \div Len(Boards)) + (IF Index(b) <= MaxCandidates % Len(Boards) THEN 1 ELSE 0)
         /\ Part(b) \in 0 .. MaxCandidates
         /\ \A k \in 1 .. Part(b) : (k - 1) * Len(Boards) + Index(b) \in 1 .. MaxCandidates
<1> DEFINE n == Len(Boards)
           q == MaxCandidates \div n
           r == MaxCandidates % n
<1>1. Index(b) \in 1 .. n /\ Boards[Index(b)] = b /\ n \in Nat /\ n > 0 /\ n <= MaxCandidates /\ MaxCandidates \in Nat
  <2>1. \E i \in 1 .. n : Boards[i] = b
    BY BoardsAre
  <2>2. QED BY <2>1, Budgets DEF Index, DiscoveryAssumption
<1>2. MaxCandidates = q * n + r /\ q \in Nat /\ r \in 0 .. n - 1
  BY <1>1
<1>3. Part(b) = q + (IF Index(b) <= r THEN 1 ELSE 0)
  BY DEF Part, Index
<1> HIDE DEF q, r, n
<1>4. Part(b) \in Nat
  BY <1>2, <1>3
<1>5. \A k \in 1 .. Part(b) : (k - 1) * n + Index(b) \in 1 .. MaxCandidates
  <2> TAKE k \in 1 .. Part(b)
  <2>1. k - 1 \in Nat /\ k - 1 <= q /\ Index(b) \in 1 .. n /\ n \in Nat
    BY <1>1, <1>2, <1>3
  <2>2. (k - 1) * n \in Nat
    BY <2>1
  <2>3. CASE k - 1 = q
    <3>1. Index(b) <= r
      BY <1>2, <1>3, <2>3
    <3>2. QED BY <1>2, <2>1, <2>2, <2>3, <3>1
  <2>4. CASE k - 1 < q
    <3>1. PICK d \in Nat : q = (k - 1) + 1 + d
      <4>1. q - k \in Nat /\ q = (k - 1) + 1 + (q - k)
        BY <1>2, <2>4
      <4>2. QED BY <4>1
    <3>2. q * n = (k - 1) * n + n + d * n /\ d * n \in Nat
      BY <2>1, <3>1
    <3>3. QED BY <1>2, <2>1, <2>2, <3>2
  <2>5. QED BY <1>2, <2>1, <2>3, <2>4
<1>6. Part(b) <= MaxCandidates
  <2>1. CASE Part(b) = 0
    BY <1>1, <2>1
  <2>2. CASE Part(b) > 0
    <3>1. (Part(b) - 1) * n + Index(b) <= MaxCandidates
      BY <1>4, <1>5, <2>2
    <3>2. PICK d \in Nat : n = 1 + d
      <4>1. n - 1 \in Nat /\ n = 1 + (n - 1)  BY <1>1
      <4>2. QED BY <4>1
    <3>3. (Part(b) - 1) * n = (Part(b) - 1) + (Part(b) - 1) * d /\ (Part(b) - 1) * d \in Nat
      BY <1>4, <2>2, <3>2
    <3>4. QED BY <1>1, <1>4, <3>1, <3>3
  <2>3. QED BY <1>4, <2>1, <2>2
<1>7. QED BY <1>1, <1>3, <1>4, <1>5, <1>6 DEF n, q, r

(* All parts together are no more than the whole. *)
LEMMA PartsBound ==
  ASSUME DiscoveryAssumption, NEW I \in SUBSET BoardIds
  PROVE  /\ IsFiniteSet(Parts(I)) /\ Cardinality(Parts(I)) \in Nat
         /\ Cardinality(Parts(I)) <= MaxCandidates
<1> DEFINE n == Len(Boards)
           f == [u \in Parts(I) |-> (u[2] - 1) * n + Index(u[1])]
<1>1. n \in Nat /\ MaxCandidates \in Nat
  BY Budgets
<1>2. \A u \in Parts(I) : /\ u[1] \in BoardIds /\ u[2] \in 1 .. Part(u[1]) /\ u = <<u[1], u[2]>>
                          /\ u[2] - 1 \in Nat
  BY DEF Parts
<1>3. \A u \in Parts(I) : f[u] = (u[2] - 1) * n + Index(u[1]) /\ f[u] \in 1 .. MaxCandidates
  BY <1>2, PartIs
<1>4. \A u, v \in Parts(I) : f[u] = f[v] => u = v
  <2> SUFFICES ASSUME NEW u \in Parts(I), NEW v \in Parts(I), f[u] = f[v] PROVE u = v
    OBVIOUS
  <2>1. (u[2] - 1) * n + Index(u[1]) = (v[2] - 1) * n + Index(v[1])
    BY <1>3
  <2>2. Index(u[1]) \in 1 .. n /\ Index(v[1]) \in 1 .. n /\ Boards[Index(u[1])] = u[1] /\ Boards[Index(v[1])] = v[1]
    BY <1>2, PartIs
  <2>3. u[2] - 1 = v[2] - 1 /\ Index(u[1]) = Index(v[1])
    <3>1. \A i, j \in 1 .. n, k, l \in Nat : k * n + i = l * n + j => k = l /\ i = j
      BY <1>1, OnePlace
    <3>2. QED BY <1>2, <2>1, <2>2, <3>1
  <2>4. u[1] = v[1] /\ u[2] = v[2]
    BY <1>2, <2>2, <2>3
  <2>5. QED BY <1>2, <2>4
<1>5. f \in Injection(Parts(I), 1 .. MaxCandidates)
  BY <1>3, <1>4 DEF Injection, IsInjective
<1>6. IsFiniteSet(1 .. MaxCandidates) /\ Cardinality(1 .. MaxCandidates) = MaxCandidates
  <2>1. MaxCandidates \in Int /\ 1 \in Int /\ (IF 1 > MaxCandidates THEN 0 ELSE MaxCandidates - 1 + 1) = MaxCandidates
    BY Budgets
  <2>2. QED BY <2>1, FS_Interval
<1>7. QED BY <1>5, <1>6, FS_Injection, FS_CardinalityType

(* One more board brings its part. *)
LEMMA PartsMore ==
  ASSUME DiscoveryAssumption, NEW I \in SUBSET BoardIds, NEW b \in BoardIds, b \notin I
  PROVE  Cardinality(Parts(I \cup {b})) = Cardinality(Parts(I)) + Part(b)
<1> DEFINE more == {b} \X (1 .. Part(b))
<1>1. Part(b) \in Nat /\ Part(b) <= MaxCandidates /\ MaxCandidates \in Nat
  BY PartIs, Budgets
<1>2. IsFiniteSet(1 .. Part(b)) /\ Cardinality(1 .. Part(b)) = Part(b)
  BY <1>1, FS_Interval
<1>3. IsFiniteSet({b}) /\ Cardinality({b}) = 1
  BY FS_Singleton
<1>4. IsFiniteSet(more) /\ Cardinality(more) = Part(b)
  <2>1. Cardinality(more) = 1 * Part(b) /\ IsFiniteSet(more)
    BY <1>2, <1>3, FS_Product
  <2>2. QED BY <1>1, <2>1
<1>5. Parts(I \cup {b}) = Parts(I) \cup more
  BY <1>1 DEF Parts
<1>6. Parts(I) \cap more = {}
  BY DEF Parts
<1>7. Cardinality(Parts(I) \cup more) = Cardinality(Parts(I)) + Cardinality(more) - Cardinality(Parts(I) \cap more)
  BY <1>4, PartsBound, FS_Union
<1>8. Cardinality(Parts(I) \cap more) = 0 /\ Cardinality(Parts(I)) \in Nat
  BY <1>6, PartsBound, FS_EmptySet
<1> HIDE DEF more
<1>9. Cardinality(Parts(I \cup {b})) = Cardinality(Parts(I)) + Cardinality(more) - 0
  BY <1>5, <1>7, <1>8
<1>10. QED BY <1>1, <1>4, <1>8, <1>9

-----------------------------------------------------------------------------
(* What may be refunded *)

Piece(s, b) == {<<s, b>>} \X (1 .. reserved[s][b])

LEMMA UnitsAre ==
  ASSUME DiscoveryAssumption
  PROVE  IsFiniteSet(Units) /\ Cardinality(Units) \in Nat
<1>1. IsFiniteSet((Sessions \X BoardIds) \X (1 .. Cost))
  <2>1. IsFiniteSet(Sessions \X BoardIds)
    BY Budgets, BoardsAre, FS_Product
  <2>2. 1 \in Int /\ Cost \in Int
    BY Budgets
  <2>3. IsFiniteSet(1 .. Cost)
    BY <2>2, FS_Interval
  <2>4. QED BY <2>1, <2>3, FS_Product
<1>2. Units \in SUBSET ((Sessions \X BoardIds) \X (1 .. Cost))
  BY DEF Units
<1>3. QED BY <1>1, <1>2, FS_Subset, FS_CardinalityType

LEMMA PieceIs ==
  ASSUME DiscoveryAssumption, BoardTypes, NEW s \in Sessions, NEW b \in BoardIds
  PROVE  /\ IsFiniteSet(Piece(s, b)) /\ Cardinality(Piece(s, b)) = reserved[s][b]
         /\ reserved[s][b] \in Nat
<1>1. reserved[s][b] \in 0 .. Cost /\ Cost \in Nat
  BY Budgets DEF BoardTypes
<1>2. IsFiniteSet(1 .. reserved[s][b]) /\ Cardinality(1 .. reserved[s][b]) = reserved[s][b]
  <2>1. reserved[s][b] \in Int /\ 1 \in Int
        /\ (IF 1 > reserved[s][b] THEN 0 ELSE reserved[s][b] - 1 + 1) = reserved[s][b]
    BY <1>1
  <2>2. QED BY <2>1, FS_Interval
<1>3. IsFiniteSet({<<s, b>>}) /\ Cardinality({<<s, b>>}) = 1
  BY FS_Singleton
<1>4. IsFiniteSet(Piece(s, b)) /\ Cardinality(Piece(s, b)) = 1 * reserved[s][b]
  BY <1>2, <1>3, FS_Product DEF Piece
<1>5. QED BY <1>1, <1>4

(* Fewer units are within the same ledger. *)
LEMMA UnitsLess ==
  ASSUME DiscoveryAssumption, Cardinality(Units) <= ledger, ledger \in Nat, Units' \subseteq Units
  PROVE  Cardinality(Units') <= ledger
<1>1. Cardinality(Units') <= Cardinality(Units) /\ Cardinality(Units') \in Nat
  BY UnitsAre, FS_Subset, FS_CardinalityType
<1>2. QED BY <1>1, UnitsAre

(* What lands takes its units with it. *)
LEMMA UnitsLand ==
  ASSUME DiscoveryAssumption, BoardTypes, NEW s \in Sessions, NEW b \in BoardIds,
         Live(s), b \in flying[s], Units' \subseteq Units \ Piece(s, b)
  PROVE  /\ Cardinality(Units') <= Cardinality(Units) - reserved[s][b]
         /\ reserved[s][b] \in Nat /\ Cardinality(Units) \in Nat /\ Cardinality(Units') \in Nat
<1>1. Piece(s, b) \subseteq Units
  <2>1. reserved[s][b] \in 0 .. Cost /\ Cost \in Nat
    BY Budgets DEF BoardTypes
  <2>2. QED BY <2>1 DEF Piece, Units
<1>2. Units \cap Piece(s, b) = Piece(s, b)
  BY <1>1
<1>3. IsFiniteSet(Units \ Piece(s, b)) /\ Cardinality(Units \ Piece(s,
     b)) = Cardinality(Units) - reserved[s][b]
  <2>1. /\ IsFiniteSet(Units \ Piece(s, b))
        /\ Cardinality(Units \ Piece(s, b)) = Cardinality(Units) - Cardinality(Units \cap Piece(s, b))
    BY UnitsAre, FS_Difference
  <2>2. QED BY <1>2, <2>1, PieceIs
<1>4. Cardinality(Units') <= Cardinality(Units \ Piece(s, b)) /\ IsFiniteSet(Units')
  BY <1>3, FS_Subset
<1>5. QED BY <1>3, <1>4, UnitsAre, PieceIs, FS_CardinalityType

(* What is reserved for a page adds its units. *)
LEMMA UnitsMore ==
  ASSUME DiscoveryAssumption, BoardTypes', NEW s \in Sessions, NEW b \in BoardIds,
         Units' \subseteq Units \cup Piece(s, b)'
  PROVE  /\ Cardinality(Units') <= Cardinality(Units) + reserved'[s][b]
         /\ reserved'[s][b] \in Nat /\ Cardinality(Units) \in Nat /\ Cardinality(Units') \in Nat
<1> DEFINE more == Piece(s, b)'
<1>1. IsFiniteSet(more) /\ Cardinality(more) = reserved'[s][b] /\ reserved'[s][b] \in Nat
  <2>1. reserved'[s][b] \in 0 .. Cost /\ Cost \in Nat
    BY Budgets DEF BoardTypes
  <2>2. IsFiniteSet(1 .. reserved'[s][b]) /\ Cardinality(1 .. reserved'[s][b]) = reserved'[s][b]
    <3>1. reserved'[s][b] \in Int /\ 1 \in Int
          /\ (IF 1 > reserved'[s][b] THEN 0 ELSE reserved'[s][b] - 1 + 1) = reserved'[s][b]
      BY <2>1
    <3>2. QED BY <3>1, FS_Interval
  <2>3. IsFiniteSet({<<s, b>>}) /\ Cardinality({<<s, b>>}) = 1
    BY FS_Singleton
  <2>4. IsFiniteSet(more) /\ Cardinality(more) = 1 * reserved'[s][b]
    BY <2>2, <2>3, FS_Product DEF Piece
  <2>5. QED BY <2>1, <2>4
<1> HIDE DEF more
<1>2. /\ IsFiniteSet(Units \cup more) /\ IsFiniteSet(Units \cap more)
      /\ Cardinality(Units \cup more) = Cardinality(Units) + Cardinality(more) - Cardinality(Units \cap more)
  BY <1>1, UnitsAre, FS_Union, FS_Intersection
<1>3. Cardinality(Units \cap more) \in Nat /\ Cardinality(Units \cup more) \in Nat
  BY <1>2, FS_CardinalityType
<1>4. Cardinality(Units') <= Cardinality(Units \cup more) /\ IsFiniteSet(Units')
  BY <1>2, FS_Subset DEF more
<1>5. Cardinality(Units') \in Nat
  BY <1>4, FS_CardinalityType
<1>6. QED BY <1>1, <1>2, <1>3, <1>4, <1>5, UnitsAre

-----------------------------------------------------------------------------
(* The steps *)

(* A board pump picks is idle, and has a second page asked only when every   *)
(* board had its first.                                                    *)
Skips(s, b) ==
  /\ due[s] /\ Live(s) /\ pages[s][b] >= MaxPages
  /\ bst' = [bst EXCEPT ![s][b] = "exhausted"]
  /\ asked' = [asked EXCEPT ![s] = @ \ {b}]
  /\ UNCHANGED <<st, kind, retry, flying, reserved, pages, initial, cand, accepted, due,
                 timer, memberVars, outVars, exists, ledger, sent>>

Fetches(s, b) ==
  /\ due[s] /\ Live(s) /\ ~Full(s) /\ ~Spent /\ Idle(s, b)
  /\ b \in initial[s] => AllInitial(s)
  /\ pages[s][b] < MaxPages
  /\ ledger' = ledger + Reserve /\ sent' = sent + Reserve
  /\ reserved' = [reserved EXCEPT ![s][b] = Reserve]
  /\ flying' = [flying EXCEPT ![s] = @ \cup {b}]
  /\ bst' = [bst EXCEPT ![s][b] = "loading"]
  /\ retry' = [retry EXCEPT ![s] = @ \ {b}]
  /\ asked' = [asked EXCEPT ![s] = @ \ {b}]
  /\ UNCHANGED <<st, kind, pages, initial, cand, accepted, due, timer,
                 memberVars, outVars, exists>>

(* A page that counts brings new offers, as many as its board is allowed.   *)
Brings(s, b, picked, used) ==
  /\ b \in flying[s] /\ Live(s)
  /\ used <= reserved[s][b] /\ Refunds(s, b, used)
  /\ picked = {} \/ Cardinality(picked) <= Allowance(s, b)
  /\ pages' = [pages EXCEPT ![s][b] = @ + 1]
  /\ cand' = [cand EXCEPT ![s] = @ \cup picked]
  /\ \E taken \in SUBSET picked : accepted' = [accepted EXCEPT ![s] = @ \cup taken]
  /\ Collects(s, picked)
  /\ \E status \in {"ready", "exhausted"} : bst' = [bst EXCEPT ![s][b] = status]
  /\ Landed(s, b) /\ UNCHANGED retry

(* What is added to a search. *)
LEMMA AddsTypes ==
  ASSUME OfferTypes, NEW items \in SUBSET Offers, NEW s,
         Adds(items) \/ Collects(s, items)
  PROVE  members' \in SUBSET Offers /\ review' \in SUBSET Offers /\ revision' \in 0..1
<1>1. revision' \in 0..1
  BY DEF OfferTypes, Adds, Collects, Bump
<1>2. members' \in SUBSET Offers /\ review' \in SUBSET Offers
  BY DEF OfferTypes, Adds, Collects
<1>3. QED BY <1>1, <1>2

LEMMA SkipsBoard ==
  ASSUME DiscoveryAssumption, NEW s \in Sessions, PumpSkips(s)
  PROVE  \E b \in BoardIds : Skips(s, b)
BY PickedIsIdle DEF PumpSkips, Pumping, Skips

LEMMA FetchesBoard ==
  ASSUME DiscoveryAssumption, NEW s \in Sessions, Fetch(s)
  PROVE  \E b \in BoardIds : Fetches(s, b)
BY PickedIsIdle DEF Fetch, Pumping, Fetches

LEMMA AllowanceIs ==
  ASSUME DiscoveryAssumption, Types, NEW s \in Sessions, NEW b \in BoardIds
  PROVE  /\ Cardinality(cand[s]) \in Nat /\ IsFiniteSet(cand[s])
         /\ b \in initial[s] => Allowance(s, b) = MaxCandidates - Cardinality(cand[s])
         /\ b \notin initial[s] => Allowance(s, b) = Part(b)
         /\ Allowance(s, b) \in Int
<1>1. Cardinality(cand[s]) \in Nat /\ IsFiniteSet(cand[s])
  BY Budgets, FS_Subset, FS_CardinalityType DEF Types, OfferTypes
<1>2. /\ b \in initial[s] => Allowance(s, b) = MaxCandidates - Cardinality(cand[s])
      /\ b \notin initial[s] => Allowance(s, b) = Part(b)
  BY DEF Allowance, Part
<1>3. QED BY <1>1, <1>2, Budgets, PartIs

LEMMA BringsOffers ==
  ASSUME DiscoveryAssumption, Types, NEW s \in Sessions, NEW b \in BoardIds, PageOk(s, b)
  PROVE  \E picked \in SUBSET Offers, used \in Nat : Brings(s, b, picked, used)
<1>1. PICK page \in SUBSET (Offers \ black), more \in BOOLEAN, moved \in BOOLEAN : Arrives(s, b, page,
     more, moved)
  BY DEF PageOk
<1>2. reserved[s][b] \in 0 .. Cost /\ Cost \in Nat
  BY Budgets DEF Types, BoardTypes
<1>3. PICK used \in 0 .. reserved[s][b] : Refunds(s, b, used)
  BY DEF PageOk
<1> DEFINE unique == (page \ Suppressed) \ cand[s]
<1>4. PICK picked \in SUBSET unique :
         /\ Cardinality(picked) = (IF Cardinality(unique) < Allowance(s, b)
                                   THEN Cardinality(unique)
                                   ELSE IF Allowance(s, b) < 0 THEN 0 ELSE Allowance(s, b))
         /\ pages' = [pages EXCEPT ![s][b] = @ + 1]
         /\ cand' = [cand EXCEPT ![s] = @ \cup picked]
         /\ \E taken \in SUBSET picked : accepted' = [accepted EXCEPT ![s] = @ \cup taken]
         /\ Collects(s, picked)
         /\ \E status \in {"ready", "exhausted"} : bst' = [bst EXCEPT ![s][b] = status]
         /\ UNCHANGED retry
  BY <1>1 DEF Arrives
<1>5. picked \in SUBSET Offers /\ IsFiniteSet(unique) /\ IsFiniteSet(picked)
  <2>1. unique \in SUBSET Offers  BY <1>1
  <2>2. QED BY <1>4, <2>1, Budgets, FS_Subset
<1>6. picked = {} \/ Cardinality(picked) <= Allowance(s, b)
  <2>1. Cardinality(unique) \in Nat /\ Cardinality(picked) \in Nat /\ Allowance(s, b) \in Int
    BY <1>5, FS_CardinalityType, AllowanceIs
  <2> HIDE DEF unique
  <2>2. Cardinality(picked) = 0 \/ Cardinality(picked) <= Allowance(s, b)
    BY <1>4, <2>1
  <2>3. QED BY <1>5, <2>2, FS_EmptySet
<1>7. Brings(s, b, picked, used)
  <2>1. b \in flying[s] /\ Live(s) /\ Landed(s, b)
    BY DEF PageOk, Counts
  <2>2. used <= reserved[s][b]
    BY <1>2, <1>3
  <2> HIDE DEF unique
  <2>3. QED BY Zenon, <1>3, <1>4, <1>6, <2>1, <2>2 DEF Brings
<1>8. QED BY <1>2, <1>5, <1>7

(* Every step is one of these; stated once for what follows. *)
LEMMA Cases ==
  ASSUME NEW P, DiscoveryAssumption, Types, [Next]_searchVars,
         \A s \in Sessions, k \in Kinds : Start(s, k) => P,
         \A s \in Sessions, reset \in BOOLEAN : Refetch(s, reset) => P,
         \A s \in Sessions : Cancel(s) => P,
         \A s \in Sessions : Deadline(s) => P,
         DeleteSearch => P,
         \A s \in Sessions : PumpStops(s) => P,
         \A s \in Sessions : PumpRests(s) => P,
         \A s \in Sessions, b \in BoardIds : Skips(s, b) => P,
         \A s \in Sessions, b \in BoardIds : Fetches(s, b) => P,
         \A s \in Sessions, b \in BoardIds, picked \in SUBSET Offers, used \in Nat : Brings(s, b, picked, used) => P,
         \A s \in Sessions, b \in BoardIds : PageFails(s, b) => P,
         \A s \in Sessions, b \in BoardIds : PageLate(s, b) => P,
         \A s \in Sessions, b \in BoardIds : AskNext(s, b) => P,
         \A o \in Offers, action \in {"hide", "delete", "restore"} : Manage(o, action) => P,
         \A o \in Offers, on \in BOOLEAN : Blacklist(o, on) => P,
         \A o \in Offers : Refresh(o) => P,
         DetailRequest => P,
         UNCHANGED searchVars => P
  PROVE  P
<1>1. \A s \in Sessions : Uses[s] \subseteq Kinds
  BY DEF DiscoveryAssumption
<1>2. Managed \subseteq Offers
  BY DEF DiscoveryAssumption
<1>3. QED BY <1>1, <1>2, SkipsBoard, FetchesBoard, BringsOffers DEF Next

(* Types of sessions. *)
LEMMA SessionTypeStep ==
  ASSUME DiscoveryAssumption, Types, [Next]_searchVars
  PROVE  SessionTypes'
<1>1. \A s \in Sessions, k \in Kinds : Start(s, k) => SessionTypes'
  BY DEF Types, SessionTypes, Start, Begins, outVars
<1>2. \A s \in Sessions, reset \in BOOLEAN : Refetch(s, reset) => SessionTypes'
  BY DEF Types, SessionTypes, Refetch, Active, Bump, outVars
<1>3. \A s \in Sessions : Cancel(s) => SessionTypes'
  BY DEF Types, SessionTypes, Cancel, Cancels, Active, memberVars, outVars
<1>4. \A s \in Sessions : Deadline(s) => SessionTypes'
  BY DEF Types, SessionTypes, Deadline, Stop, Halted, memberVars, outVars
<1>5. DeleteSearch => SessionTypes'
  BY DEF Types, SessionTypes, DeleteSearch, Cancels, Active, outVars
<1>6. \A s \in Sessions : PumpStops(s) => SessionTypes'
  BY DEF Types, SessionTypes, PumpStops, Stop, Halted, memberVars, outVars
<1>7. \A s \in Sessions : PumpRests(s) => SessionTypes'
  BY DEF Types, SessionTypes, PumpRests, boardVars, memberVars, outVars
<1>8. \A s \in Sessions, b \in BoardIds : Skips(s, b) => SessionTypes'
  BY DEF Types, SessionTypes, Skips, memberVars, outVars
<1>9. \A s \in Sessions, b \in BoardIds : Fetches(s, b) => SessionTypes'
  BY DEF Types, SessionTypes, Fetches, memberVars, outVars
<1>10. \A s \in Sessions, b \in BoardIds, picked \in SUBSET Offers, used \in Nat : Brings(s, b, picked,
     used) => SessionTypes'
  BY DEF Types, SessionTypes, Brings, Landed, Refunds, outVars
<1>11. \A s \in Sessions, b \in BoardIds : PageFails(s, b) => SessionTypes'
  BY DEF Types, SessionTypes, PageFails, Landed, Refunds, memberVars, outVars
<1>12. \A s \in Sessions, b \in BoardIds : PageLate(s, b) => SessionTypes'
  BY DEF Types, SessionTypes, PageLate, Landed, memberVars, outVars
<1>13. \A s \in Sessions, b \in BoardIds : AskNext(s, b) => SessionTypes'
  BY DEF Types, SessionTypes, AskNext, memberVars, outVars
<1>14. \A o \in Offers, action \in {"hide", "delete", "restore"} : Manage(o, action) => SessionTypes'
  BY DEF Types, SessionTypes, Manage, Bump, sessionVars
<1>15. \A o \in Offers, on \in BOOLEAN : Blacklist(o, on) => SessionTypes'
  BY DEF Types, SessionTypes, Blacklist, Bump, sessionVars
<1>16. \A o \in Offers : Refresh(o) => SessionTypes'
  BY DEF Types, SessionTypes, Refresh, Bump, sessionVars, outVars
<1>17. DetailRequest => SessionTypes'
  BY DEF Types, SessionTypes, DetailRequest, sessionVars, memberVars, outVars
<1>18. UNCHANGED searchVars => SessionTypes'
  BY DEF Types, SessionTypes, searchVars, sessionVars, memberVars, outVars
<1>19. QED
  BY <1>1, <1>2, <1>3, <1>4, <1>5, <1>6, <1>7, <1>8, <1>9, <1>10, <1>11, <1>12, <1>13, <1>14, <1>15,
       <1>16, <1>17, <1>18, Cases

(* Types of boards. *)
LEMMA BoardTypeStep ==
  ASSUME DiscoveryAssumption, Types, FirstPages, LedgerFits, [Next]_searchVars
  PROVE  BoardTypes'
<1>1. \A s \in Sessions, k \in Kinds : Start(s, k) => BoardTypes'
  BY DEF Types, BoardTypes, Terminal, Start, Begins, outVars
<1>2. \A s \in Sessions, reset \in BOOLEAN : Refetch(s, reset) => BoardTypes'
  BY DEF Types, BoardTypes, Terminal, Refetch, Active, Bump, outVars
<1>3. \A s \in Sessions : Cancel(s) => BoardTypes'
  BY DEF Types, BoardTypes, Terminal, Cancel, Cancels, Active, memberVars, outVars
<1>4. \A s \in Sessions : Deadline(s) => BoardTypes'
  BY DEF Types, BoardTypes, Terminal, Deadline, Stop, Halted, memberVars, outVars
<1>5. DeleteSearch => BoardTypes'
  BY DEF Types, BoardTypes, Terminal, DeleteSearch, Cancels, Active, outVars
<1>6. \A s \in Sessions : PumpStops(s) => BoardTypes'
  BY DEF Types, BoardTypes, Terminal, PumpStops, Stop, Halted, memberVars, outVars
<1>7. \A s \in Sessions : PumpRests(s) => BoardTypes'
  BY DEF Types, BoardTypes, Terminal, PumpRests, boardVars, memberVars, outVars
<1>8. \A s \in Sessions, b \in BoardIds : Skips(s, b) => BoardTypes'
  BY DEF Types, BoardTypes, Terminal, Skips, memberVars, outVars
<1>9. \A s \in Sessions, b \in BoardIds : Fetches(s, b) => BoardTypes'
  <2> SUFFICES ASSUME NEW s \in Sessions, NEW b \in BoardIds, Fetches(s, b) PROVE BoardTypes'
    OBVIOUS
  <2>1. Reserve \in 0 .. Cost
    BY Budgets DEF Fetches, Spent, Reserve, Room, LedgerFits
  <2>2. QED BY <2>1 DEF Types, BoardTypes, Fetches
<1>10. \A s \in Sessions, b \in BoardIds, picked \in SUBSET Offers, used \in Nat : Brings(s, b, picked,
     used) => BoardTypes'
  <2> SUFFICES ASSUME NEW s \in Sessions, NEW b \in BoardIds, NEW picked \in SUBSET Offers,
       NEW used \in Nat, Brings(s, b, picked, used) PROVE BoardTypes'
    OBVIOUS
  <2>1. pages[s][b] + 1 \in 0 .. MaxPages /\ 0 \in 0 .. Cost
    BY Budgets DEF Types, BoardTypes, FirstPages, Brings
  <2>2. pages' \in [Sessions -> [BoardIds -> 0..MaxPages]]
    BY <2>1 DEF Types, BoardTypes, Brings
  <2>3. bst' \in [Sessions -> [BoardIds -> {"ready", "loading"} \cup Terminal]]
    BY DEF Types, BoardTypes, Brings, Terminal
  <2>4. QED BY <2>1, <2>2, <2>3 DEF Types, BoardTypes, Brings, Landed
<1>11. \A s \in Sessions, b \in BoardIds : PageFails(s, b) => BoardTypes'
  <2> SUFFICES ASSUME NEW s \in Sessions, NEW b \in BoardIds, PageFails(s, b) PROVE BoardTypes'
    OBVIOUS
  <2>1. pages[s][b] + 1 \in 0 .. MaxPages /\ 0 \in 0 .. Cost
    BY Budgets DEF Types, BoardTypes, FirstPages, PageFails
  <2>2. pages' \in [Sessions -> [BoardIds -> 0..MaxPages]]
    <3>1. CASE pages' = pages
      BY <3>1 DEF Types, BoardTypes
    <3>2. CASE pages' = [pages EXCEPT ![s][b] = pages[s][b] + 1]
      BY <2>1, <3>2 DEF Types, BoardTypes
    <3>3. QED BY <3>1, <3>2 DEF PageFails
  <2>3. bst' \in [Sessions -> [BoardIds -> {"ready", "loading"} \cup Terminal]]
    BY DEF Types, BoardTypes, PageFails, Terminal
  <2>4. retry' \in [Sessions -> SUBSET BoardIds]
    <3>1. retry' = retry \/ retry' = [retry EXCEPT ![s] = @ \cup {b}]
      BY DEF PageFails
    <3>2. QED BY <3>1 DEF Types, BoardTypes
  <2>5. QED BY <2>1, <2>2, <2>3, <2>4 DEF Types, BoardTypes, PageFails, Landed
<1>12. \A s \in Sessions, b \in BoardIds : PageLate(s, b) => BoardTypes'
  <2> SUFFICES ASSUME NEW s \in Sessions, NEW b \in BoardIds, PageLate(s, b) PROVE BoardTypes'
    OBVIOUS
  <2>1. 0 \in 0 .. Cost
    BY Budgets
  <2>2. QED BY <2>1 DEF Types, BoardTypes, PageLate, Landed
<1>13. \A s \in Sessions, b \in BoardIds : AskNext(s, b) => BoardTypes'
  BY DEF Types, BoardTypes, Terminal, AskNext, memberVars, outVars
<1>14. \A o \in Offers, action \in {"hide", "delete", "restore"} : Manage(o, action) => BoardTypes'
  BY DEF Types, BoardTypes, Terminal, Manage, Bump, sessionVars
<1>15. \A o \in Offers, on \in BOOLEAN : Blacklist(o, on) => BoardTypes'
  BY DEF Types, BoardTypes, Terminal, Blacklist, Bump, sessionVars
<1>16. \A o \in Offers : Refresh(o) => BoardTypes'
  BY DEF Types, BoardTypes, Terminal, Refresh, Bump, sessionVars, outVars
<1>17. DetailRequest => BoardTypes'
  BY DEF Types, BoardTypes, Terminal, DetailRequest, sessionVars, memberVars, outVars
<1>18. UNCHANGED searchVars => BoardTypes'
  BY DEF Types, BoardTypes, Terminal, searchVars, sessionVars, memberVars, outVars
<1>19. QED
  BY <1>1, <1>2, <1>3, <1>4, <1>5, <1>6, <1>7, <1>8, <1>9, <1>10, <1>11, <1>12, <1>13, <1>14, <1>15,
       <1>16, <1>17, <1>18, Cases

(* Types of offers. *)
LEMMA OfferTypeStep ==
  ASSUME DiscoveryAssumption, Types, [Next]_searchVars
  PROVE  OfferTypes'
<1>1. \A s \in Sessions, k \in Kinds : Start(s, k) => OfferTypes'
  <2> SUFFICES ASSUME NEW s \in Sessions, NEW k \in Kinds, Start(s, k) PROVE OfferTypes'
    OBVIOUS
  <2>1. PICK cached \in SUBSET Offers :
          /\ Adds(cached) /\ accepted' = [accepted EXCEPT ![s] = (cached \ Suppressed) \ Unclear]
    BY DEF Start
  <2>2. members' \in SUBSET Offers /\ review' \in SUBSET Offers /\ revision' \in 0..1
    BY <2>1, AddsTypes DEF Types
  <2>3. QED BY <2>1, <2>2 DEF Types, OfferTypes, Start, Begins, outVars
<1>2. \A s \in Sessions, reset \in BOOLEAN : Refetch(s, reset) => OfferTypes'
  BY DEF Types, OfferTypes, Refetch, Active, Bump, outVars
<1>3. \A s \in Sessions : Cancel(s) => OfferTypes'
  BY DEF Types, OfferTypes, Cancel, Cancels, Active, memberVars, outVars
<1>4. \A s \in Sessions : Deadline(s) => OfferTypes'
  BY DEF Types, OfferTypes, Deadline, Stop, Halted, memberVars, outVars
<1>5. DeleteSearch => OfferTypes'
  BY DEF Types, OfferTypes, DeleteSearch, Cancels, Active, outVars
<1>6. \A s \in Sessions : PumpStops(s) => OfferTypes'
  BY DEF Types, OfferTypes, PumpStops, Stop, Halted, memberVars, outVars
<1>7. \A s \in Sessions : PumpRests(s) => OfferTypes'
  BY DEF Types, OfferTypes, PumpRests, boardVars, memberVars, outVars
<1>8. \A s \in Sessions, b \in BoardIds : Skips(s, b) => OfferTypes'
  BY DEF Types, OfferTypes, Skips, memberVars, outVars
<1>9. \A s \in Sessions, b \in BoardIds : Fetches(s, b) => OfferTypes'
  BY DEF Types, OfferTypes, Fetches, memberVars, outVars
<1>10. \A s \in Sessions, b \in BoardIds, picked \in SUBSET Offers, used \in Nat : Brings(s, b, picked,
     used) => OfferTypes'
  <2> SUFFICES ASSUME NEW s \in Sessions, NEW b \in BoardIds, NEW picked \in SUBSET Offers,
       NEW used \in Nat, Brings(s, b, picked, used) PROVE OfferTypes'
    OBVIOUS
  <2>1. members' \in SUBSET Offers /\ review' \in SUBSET Offers /\ revision' \in 0..1
    BY AddsTypes DEF Types, Brings
  <2>2. cand' \in [Sessions -> SUBSET Offers] /\ accepted' \in [Sessions -> SUBSET Offers]
    BY DEF Types, OfferTypes, Brings
  <2>3. QED BY <2>1, <2>2 DEF Types, OfferTypes, Brings, Landed, outVars
<1>11. \A s \in Sessions, b \in BoardIds : PageFails(s, b) => OfferTypes'
  BY DEF Types, OfferTypes, PageFails, Landed, Refunds, memberVars, outVars
<1>12. \A s \in Sessions, b \in BoardIds : PageLate(s, b) => OfferTypes'
  BY DEF Types, OfferTypes, PageLate, Landed, memberVars, outVars
<1>13. \A s \in Sessions, b \in BoardIds : AskNext(s, b) => OfferTypes'
  BY DEF Types, OfferTypes, AskNext, memberVars, outVars
<1>14. \A o \in Offers, action \in {"hide", "delete", "restore"} : Manage(o, action) => OfferTypes'
  BY DEF Types, OfferTypes, Manage, Bump, sessionVars
<1>15. \A o \in Offers, on \in BOOLEAN : Blacklist(o, on) => OfferTypes'
  BY DEF Types, OfferTypes, Blacklist, Bump, sessionVars
<1>16. \A o \in Offers : Refresh(o) => OfferTypes'
  BY DEF Types, OfferTypes, Refresh, Bump, sessionVars, outVars
<1>17. DetailRequest => OfferTypes'
  BY DEF Types, OfferTypes, DetailRequest, sessionVars, memberVars, outVars
<1>18. UNCHANGED searchVars => OfferTypes'
  BY DEF Types, OfferTypes, searchVars, sessionVars, memberVars, outVars
<1>19. QED
  BY <1>1, <1>2, <1>3, <1>4, <1>5, <1>6, <1>7, <1>8, <1>9, <1>10, <1>11, <1>12, <1>13, <1>14, <1>15,
       <1>16, <1>17, <1>18, Cases

(* A session that never began has asked nothing. *)
LEMMA UnaskedStep ==
  ASSUME DiscoveryAssumption, Types, Unasked, [Next]_searchVars
  PROVE  Unasked'
<1>1. \A s \in Sessions, k \in Kinds : Start(s, k) => Unasked'
  BY DEF Types, SessionTypes, BoardTypes, Unasked, Live, Start, Begins, outVars
<1>2. \A s \in Sessions, reset \in BOOLEAN : Refetch(s, reset) => Unasked'
  BY DEF Types, SessionTypes, BoardTypes, Unasked, Live, Refetch, Active, Bump, outVars
<1>3. \A s \in Sessions : Cancel(s) => Unasked'
  BY DEF Types, SessionTypes, BoardTypes, Unasked, Live, Cancel, Cancels, Active, memberVars, outVars
<1>4. \A s \in Sessions : Deadline(s) => Unasked'
  BY DEF Types, SessionTypes, BoardTypes, Unasked, Live, Deadline, Stop, Halted, memberVars, outVars
<1>5. DeleteSearch => Unasked'
  BY DEF Types, SessionTypes, BoardTypes, Unasked, Live, DeleteSearch, Cancels, Active, outVars
<1>6. \A s \in Sessions : PumpStops(s) => Unasked'
  BY DEF Types, SessionTypes, BoardTypes, Unasked, Live, PumpStops, Stop, Halted, memberVars, outVars
<1>7. \A s \in Sessions : PumpRests(s) => Unasked'
  BY DEF Types, SessionTypes, BoardTypes, Unasked, Live, PumpRests, boardVars, memberVars, outVars
<1>8. \A s \in Sessions, b \in BoardIds : Skips(s, b) => Unasked'
  BY DEF Types, SessionTypes, BoardTypes, Unasked, Live, Skips, memberVars, outVars
<1>9. \A s \in Sessions, b \in BoardIds : Fetches(s, b) => Unasked'
  BY DEF Types, SessionTypes, BoardTypes, Unasked, Live, Fetches, memberVars, outVars
<1>10. \A s \in Sessions, b \in BoardIds, picked \in SUBSET Offers, used \in Nat : Brings(s, b, picked,
     used) => Unasked'
  BY DEF Types, SessionTypes, BoardTypes, Unasked, Live, Brings, Landed, Refunds, outVars
<1>11. \A s \in Sessions, b \in BoardIds : PageFails(s, b) => Unasked'
  BY DEF Types, SessionTypes, BoardTypes, Unasked, Live, PageFails, Landed, Refunds, memberVars, outVars
<1>12. \A s \in Sessions, b \in BoardIds : PageLate(s, b) => Unasked'
  BY DEF Types, SessionTypes, BoardTypes, Unasked, Live, PageLate, Landed, memberVars, outVars
<1>13. \A s \in Sessions, b \in BoardIds : AskNext(s, b) => Unasked'
  BY DEF Types, SessionTypes, BoardTypes, Unasked, Live, AskNext, memberVars, outVars
<1>14. \A o \in Offers, action \in {"hide", "delete", "restore"} : Manage(o, action) => Unasked'
  BY DEF Types, SessionTypes, BoardTypes, Unasked, Live, Manage, Bump, sessionVars
<1>15. \A o \in Offers, on \in BOOLEAN : Blacklist(o, on) => Unasked'
  BY DEF Types, SessionTypes, BoardTypes, Unasked, Live, Blacklist, Bump, sessionVars
<1>16. \A o \in Offers : Refresh(o) => Unasked'
  BY DEF Types, SessionTypes, BoardTypes, Unasked, Live, Refresh, Bump, sessionVars, outVars
<1>17. DetailRequest => Unasked'
  BY DEF Types, SessionTypes, BoardTypes, Unasked, Live, DetailRequest, sessionVars, memberVars, outVars
<1>18. UNCHANGED searchVars => Unasked'
  BY DEF Types, SessionTypes, BoardTypes, Unasked, Live, searchVars, sessionVars, memberVars, outVars
<1>19. QED
  BY <1>1, <1>2, <1>3, <1>4, <1>5, <1>6, <1>7, <1>8, <1>9, <1>10, <1>11, <1>12, <1>13, <1>14, <1>15,
       <1>16, <1>17, <1>18, Cases

(* First pages first. *)
LEMMA FirstPagesStep ==
  ASSUME DiscoveryAssumption, Types, Unasked, FirstPages, [Next]_searchVars
  PROVE  FirstPages'
<1>1. \A s \in Sessions, k \in Kinds : Start(s, k) => FirstPages'
  BY DEF Types, SessionTypes, BoardTypes, Unasked, FirstPages, Live, AllInitial, Terminal, Start,
       Begins, outVars
<1>2. \A s \in Sessions, reset \in BOOLEAN : Refetch(s, reset) => FirstPages'
  BY DEF Types, SessionTypes, BoardTypes, Unasked, FirstPages, Live, AllInitial, Terminal, Refetch,
       Active, Bump, outVars
<1>3. \A s \in Sessions : Cancel(s) => FirstPages'
  BY DEF Types, SessionTypes, BoardTypes, Unasked, FirstPages, Live, AllInitial, Terminal, Cancel,
       Cancels, Active, memberVars, outVars
<1>4. \A s \in Sessions : Deadline(s) => FirstPages'
  BY DEF Types, SessionTypes, BoardTypes, Unasked, FirstPages, Live, AllInitial, Terminal, Deadline,
       Stop, Halted, memberVars, outVars
<1>5. DeleteSearch => FirstPages'
  BY DEF Types, SessionTypes, BoardTypes, Unasked, FirstPages, Live, AllInitial, Terminal,
       DeleteSearch, Cancels, Active, outVars
<1>6. \A s \in Sessions : PumpStops(s) => FirstPages'
  BY DEF Types, SessionTypes, BoardTypes, Unasked, FirstPages, Live, AllInitial, Terminal, PumpStops,
       Stop, Halted, memberVars, outVars
<1>7. \A s \in Sessions : PumpRests(s) => FirstPages'
  BY DEF Types, SessionTypes, BoardTypes, Unasked, FirstPages, Live, AllInitial, Terminal, PumpRests,
       boardVars, memberVars, outVars
<1>8. \A s \in Sessions, b \in BoardIds : Skips(s, b) => FirstPages'
  <2> SUFFICES ASSUME NEW s \in Sessions, NEW b \in BoardIds, Skips(s, b) PROVE FirstPages'
    OBVIOUS
  <2>1. b \in initial[s]
    BY Budgets DEF Types, BoardTypes, FirstPages, Skips
  <2>2. QED BY <2>1 DEF Types, SessionTypes, BoardTypes, FirstPages, Live, AllInitial, Terminal, Skips
<1>9. \A s \in Sessions, b \in BoardIds : Fetches(s, b) => FirstPages'
  BY DEF Types, SessionTypes, BoardTypes, Unasked, FirstPages, Live, AllInitial, Terminal, Fetches,
       memberVars, outVars
<1>10. \A s \in Sessions, b \in BoardIds, picked \in SUBSET Offers, used \in Nat : Brings(s, b, picked,
     used) => FirstPages'
  BY DEF Types, SessionTypes, BoardTypes, Unasked, FirstPages, Live, AllInitial, Terminal, Brings,
       Landed, Refunds, outVars
<1>11. \A s \in Sessions, b \in BoardIds : PageFails(s, b) => FirstPages'
  BY DEF Types, SessionTypes, BoardTypes, Unasked, FirstPages, Live, AllInitial, Terminal, PageFails,
       Landed, Refunds, memberVars, outVars
<1>12. \A s \in Sessions, b \in BoardIds : PageLate(s, b) => FirstPages'
  BY DEF Types, SessionTypes, BoardTypes, Unasked, FirstPages, Live, AllInitial, Terminal, PageLate,
       Landed, memberVars, outVars
<1>13. \A s \in Sessions, b \in BoardIds : AskNext(s, b) => FirstPages'
  BY DEF Types, SessionTypes, BoardTypes, Unasked, FirstPages, Live, AllInitial, Terminal, AskNext,
       memberVars, outVars
<1>14. \A o \in Offers, action \in {"hide", "delete", "restore"} : Manage(o, action) => FirstPages'
  BY DEF Types, SessionTypes, BoardTypes, Unasked, FirstPages, Live, AllInitial, Terminal, Manage,
       Bump, sessionVars
<1>15. \A o \in Offers, on \in BOOLEAN : Blacklist(o, on) => FirstPages'
  BY DEF Types, SessionTypes, BoardTypes, Unasked, FirstPages, Live, AllInitial, Terminal, Blacklist,
       Bump, sessionVars
<1>16. \A o \in Offers : Refresh(o) => FirstPages'
  BY DEF Types, SessionTypes, BoardTypes, Unasked, FirstPages, Live, AllInitial, Terminal, Refresh,
       Bump, sessionVars, outVars
<1>17. DetailRequest => FirstPages'
  BY DEF Types, SessionTypes, BoardTypes, Unasked, FirstPages, Live, AllInitial, Terminal,
       DetailRequest, sessionVars, memberVars, outVars
<1>18. UNCHANGED searchVars => FirstPages'
  BY DEF Types, SessionTypes, BoardTypes, Unasked, FirstPages, Live, AllInitial, Terminal, searchVars,
       sessionVars, memberVars, outVars
<1>19. QED
  BY <1>1, <1>2, <1>3, <1>4, <1>5, <1>6, <1>7, <1>8, <1>9, <1>10, <1>11, <1>12, <1>13, <1>14, <1>15,
       <1>16, <1>17, <1>18, Cases

(* Where no live session has a page more, there is no unit more. *)
LEMMA UnitsStay ==
  ASSUME DiscoveryAssumption, LedgerFits, ledger' = ledger, sent' = sent,
         \A s \in Sessions :
           Live(s)' => \/ flying'[s] = {}
                       \/ Live(s) /\ flying'[s] = flying[s] /\ reserved'[s] = reserved[s]
  PROVE  LedgerFits'
<1>1. Units' \subseteq Units
  BY DEF Units
<1>2. ledger \in Nat
  BY Budgets DEF LedgerFits
<1>3. QED BY <1>1, <1>2, UnitsLess DEF LedgerFits

(* A page of a session that goes on lands with what was reserved for it. *)
LEMMA LedgerLands ==
  ASSUME DiscoveryAssumption, Types, LedgerFits, NEW s \in Sessions, NEW b \in BoardIds,
         Live(s), b \in flying[s], Landed(s, b),
         \/ UNCHANGED <<ledger, sent>>
         \/ \E used \in Nat : used <= reserved[s][b] /\ Refunds(s, b, used)
  PROVE  LedgerFits'
<1>1. Units' \subseteq Units \ Piece(s, b)
  <2>1. \A t \in Sessions : Live(t)' <=> Live(t)
    BY DEF Landed, Live
  <2>2. \A t \in Sessions, c \in BoardIds :
          /\ c \in flying'[t] <=> c \in flying[t] /\ ~(t = s /\ c = b)
          /\ ~(t = s /\ c = b) => reserved'[t][c] = reserved[t][c]
    BY DEF Landed, Types, BoardTypes
  <2>3. QED BY <2>1, <2>2 DEF Units, Piece
<1>2. /\ Cardinality(Units') <= Cardinality(Units) - reserved[s][b]
      /\ reserved[s][b] \in Nat /\ Cardinality(Units) \in Nat /\ Cardinality(Units') \in Nat
  BY <1>1, UnitsLand DEF Types
<1>3. ledger \in 0 .. MaxRequests /\ Cardinality(Units) <= ledger /\ sent = ledger /\ MaxRequests \in Nat
  BY Budgets DEF LedgerFits
<1>4. CASE UNCHANGED <<ledger, sent>>
  BY <1>2, <1>3, <1>4 DEF LedgerFits
<1>5. CASE \E used \in Nat : used <= reserved[s][b] /\ Refunds(s, b, used)
  <2>1. PICK used \in Nat : used <= reserved[s][b] /\ Refunds(s, b, used)
    BY <1>5
  <2>2. ledger' = ledger - (reserved[s][b] - used) /\ sent' = sent - (reserved[s][b] - used)
    BY <2>1 DEF Refunds
  <2>3. QED BY <1>2, <1>3, <2>1, <2>2 DEF LedgerFits
<1>6. QED BY <1>4, <1>5

(* The ledger counts what was sent. *)
LEMMA LedgerStep ==
  ASSUME DiscoveryAssumption, Types, Unasked, FirstPages, LedgerFits, [Next]_searchVars
  PROVE  LedgerFits'
<1>1. \A s \in Sessions, k \in Kinds : Start(s, k) => LedgerFits'
  BY UnitsStay DEF Types, SessionTypes, BoardTypes, Unasked, Live, Terminal, Start, Begins, outVars
<1>2. \A s \in Sessions, reset \in BOOLEAN : Refetch(s, reset) => LedgerFits'
  <2> SUFFICES ASSUME NEW s \in Sessions, NEW reset \in BOOLEAN, Refetch(s, reset) PROVE LedgerFits'
    OBVIOUS
  <2>1. ledger' = 0 /\ sent' = 0
    BY DEF Refetch
  <2>2. Units' = {}
    BY DEF Refetch, Active, Units, Live, Unasked, Types, SessionTypes
  <2>3. Cardinality(Units') = 0
    BY <2>2, FS_EmptySet
  <2>4. QED BY <2>1, <2>3, Budgets DEF LedgerFits
<1>3. \A s \in Sessions : Cancel(s) => LedgerFits'
  BY UnitsStay DEF Types, SessionTypes, BoardTypes, Unasked, Live, Terminal, Cancel, Cancels, Active,
       memberVars, outVars
<1>4. \A s \in Sessions : Deadline(s) => LedgerFits'
  BY UnitsStay DEF Types, SessionTypes, BoardTypes, Unasked, Live, Terminal, Deadline, Stop, Halted,
       memberVars, outVars
<1>5. DeleteSearch => LedgerFits'
  BY UnitsStay DEF Types, SessionTypes, BoardTypes, Unasked, Live, Terminal, DeleteSearch, Cancels,
       Active, outVars
<1>6. \A s \in Sessions : PumpStops(s) => LedgerFits'
  BY UnitsStay DEF Types, SessionTypes, BoardTypes, Unasked, Live, Terminal, PumpStops, Stop, Halted,
       memberVars, outVars
<1>7. \A s \in Sessions : PumpRests(s) => LedgerFits'
  BY UnitsStay DEF Types, SessionTypes, BoardTypes, Unasked, Live, Terminal, PumpRests, boardVars,
       memberVars, outVars
<1>8. \A s \in Sessions, b \in BoardIds : Skips(s, b) => LedgerFits'
  BY UnitsStay DEF Types, SessionTypes, BoardTypes, Unasked, Live, Terminal, Skips, memberVars, outVars
<1>9. \A s \in Sessions, b \in BoardIds : Fetches(s, b) => LedgerFits'
  <2> SUFFICES ASSUME NEW s \in Sessions, NEW b \in BoardIds, Fetches(s, b) PROVE LedgerFits'
    OBVIOUS
  <2>1. ledger \in 0 .. MaxRequests /\ ledger < MaxRequests /\ MaxRequests \in Nat /\ sent = ledger
        /\ Cardinality(Units) <= ledger
    BY Budgets DEF Fetches, Spent, LedgerFits
  <2>2. Reserve \in 0 .. Cost /\ ledger + Reserve <= MaxRequests /\ Cost \in Nat
    BY <2>1, Budgets DEF Reserve, Room
  <2>3. reserved'[s][b] = Reserve /\ ledger' = ledger + Reserve /\ sent' = sent + Reserve
    BY DEF Fetches, Types, BoardTypes
  <2>4. Units' \subseteq Units \cup Piece(s, b)'
    <3>1. \A t \in Sessions : Live(t)' <=> Live(t)
      BY DEF Fetches, Live
    <3>2. \A t \in Sessions, c \in BoardIds : ~(t = s /\ c = b) =>
             (c \in flying'[t] <=> c \in flying[t]) /\ reserved'[t][c] = reserved[t][c]
      BY DEF Fetches, Types, BoardTypes
    <3>3. QED BY <3>1, <3>2 DEF Units, Piece
  <2>5. BoardTypes'
    BY BoardTypeStep
  <2>6. /\ Cardinality(Units') <= Cardinality(Units) + reserved'[s][b]
        /\ Cardinality(Units) \in Nat /\ Cardinality(Units') \in Nat
    BY <2>4, <2>5, UnitsMore
  <2>7. Cardinality(Units') <= ledger + Reserve
    BY <2>1, <2>2, <2>3, <2>6
  <2>8. QED BY <2>1, <2>2, <2>3, <2>7 DEF LedgerFits
<1>10. \A s \in Sessions, b \in BoardIds, picked \in SUBSET Offers, used \in Nat : Brings(s, b, picked,
     used) => LedgerFits'
  BY LedgerLands DEF Brings
<1>11. \A s \in Sessions, b \in BoardIds : PageFails(s, b) => LedgerFits'
  <2> SUFFICES ASSUME NEW s \in Sessions, NEW b \in BoardIds, PageFails(s, b) PROVE LedgerFits'
    OBVIOUS
  <2>1. reserved[s][b] \in Nat
    BY PieceIs DEF Types
  <2>2. \/ UNCHANGED <<ledger, sent>>
        \/ \E used \in Nat : used <= reserved[s][b] /\ Refunds(s, b, used)
    BY <2>1 DEF PageFails
  <2>3. QED BY <2>2, LedgerLands DEF PageFails
<1>12. \A s \in Sessions, b \in BoardIds : PageLate(s, b) => LedgerFits'
  BY UnitsStay DEF Types, SessionTypes, BoardTypes, Unasked, Live, Terminal, PageLate, Landed,
       memberVars, outVars
<1>13. \A s \in Sessions, b \in BoardIds : AskNext(s, b) => LedgerFits'
  BY UnitsStay DEF Types, SessionTypes, BoardTypes, Unasked, Live, Terminal, AskNext, memberVars,
       outVars
<1>14. \A o \in Offers, action \in {"hide", "delete", "restore"} : Manage(o, action) => LedgerFits'
  BY UnitsStay DEF Types, SessionTypes, BoardTypes, Unasked, Live, Terminal, Manage, Bump, sessionVars
<1>15. \A o \in Offers, on \in BOOLEAN : Blacklist(o, on) => LedgerFits'
  BY UnitsStay DEF Types, SessionTypes, BoardTypes, Unasked, Live, Terminal, Blacklist, Bump,
       sessionVars
<1>16. \A o \in Offers : Refresh(o) => LedgerFits'
  BY UnitsStay DEF Types, SessionTypes, BoardTypes, Unasked, Live, Terminal, Refresh, Bump,
       sessionVars, outVars
<1>17. DetailRequest => LedgerFits'
  <2> SUFFICES ASSUME DetailRequest PROVE LedgerFits'
    OBVIOUS
  <2>1. Units' = Units
    BY DEF DetailRequest, sessionVars, Units, Live
  <2>2. ledger \in 0 .. MaxRequests /\ MaxRequests \in Nat /\ sent = ledger /\ ledger < MaxRequests
        /\ Cardinality(Units) <= ledger /\ Cardinality(Units) \in Nat
    BY Budgets, UnitsAre DEF LedgerFits, DetailRequest, Spent
  <2>3. Cardinality(Units') <= ledger + 1
    BY <2>1, <2>2
  <2>4. QED BY <2>2, <2>3 DEF LedgerFits, DetailRequest
<1>18. UNCHANGED searchVars => LedgerFits'
  BY UnitsStay DEF Types, SessionTypes, BoardTypes, Unasked, Live, Terminal, searchVars, sessionVars,
       memberVars, outVars
<1>19. QED
  BY <1>1, <1>2, <1>3, <1>4, <1>5, <1>6, <1>7, <1>8, <1>9, <1>10, <1>11, <1>12, <1>13, <1>14, <1>15,
       <1>16, <1>17, <1>18, Cases

(* A board's first page adds its part to what there may be. *)
LEMMA PartsGrow ==
  ASSUME DiscoveryAssumption, NEW I \in SUBSET BoardIds, NEW b \in BoardIds
  PROVE  Cardinality(Parts(I)) <= Cardinality(Parts(I \cup {b}))
<1>1. Cardinality(Parts(I)) \in Nat /\ Part(b) \in 0 .. MaxCandidates /\ MaxCandidates \in Nat
  BY PartsBound, PartIs, Budgets
<1>2. CASE b \in I
  <2>1. I \cup {b} = I  BY <1>2
  <2>2. QED BY <1>1, <2>1
<1>3. CASE b \notin I
  BY <1>1, <1>3, PartsMore
<1>4. QED BY <1>2, <1>3

LEMMA CandidatesLand ==
  ASSUME DiscoveryAssumption, Types, CandidatesFit, NEW s \in Sessions, NEW b \in BoardIds, Landed(s, b),
         \A t \in Sessions : t # s => cand'[t] = cand[t],
         \/ cand'[s] = cand[s]
         \/ Cardinality(cand'[s]) <= Cardinality(Parts(initial[s] \cup {b}))
         \/ AllInitial(s) /\ Cardinality(cand'[s]) <= MaxCandidates
  PROVE  CandidatesFit'
<1> SUFFICES ASSUME NEW t \in Sessions
             PROVE  \/ Cardinality(cand'[t]) <= Cardinality(Parts(initial'[t]))
                    \/ AllInitial(t)' /\ Cardinality(cand'[t]) <= MaxCandidates
  BY DEF CandidatesFit, Parts, Part
<1>1. initial' = [initial EXCEPT ![s] = @ \cup {b}] /\ initial[s] \in SUBSET BoardIds
  BY DEF Landed, Types, BoardTypes
<1>2. initial'[s] = initial[s] \cup {b} /\ (t # s => initial'[t] = initial[t])
      /\ (AllInitial(t) => AllInitial(t)')
  BY <1>1 DEF Types, BoardTypes, AllInitial
<1>3. \/ Cardinality(cand[t]) <= Cardinality(Parts(initial[t]))
      \/ AllInitial(t) /\ Cardinality(cand[t]) <= MaxCandidates
  BY DEF CandidatesFit
<1>4. CASE t # s
  <2>1. initial'[t] = initial[t] /\ cand'[t] = cand[t]
    BY <1>2, <1>4
  <2>2. QED BY <1>2, <1>3, <2>1
<1>5. CASE t = s /\ cand'[s] = cand[s]
  <2>1. Cardinality(Parts(initial[s])) <= Cardinality(Parts(initial[s] \cup {b}))
    BY <1>1, PartsGrow
  <2>2. /\ Cardinality(Parts(initial[s])) \in Nat /\ Cardinality(Parts(initial[s] \cup {b})) \in Nat
        /\ Cardinality(cand[s]) \in Nat
    BY <1>1, PartsBound, AllowanceIs
  <2>3. QED BY <1>2, <1>3, <1>5, <2>1, <2>2
<1>6. CASE t = s /\ \/ Cardinality(cand'[s]) <= Cardinality(Parts(initial[s] \cup {b}))
                    \/ AllInitial(s) /\ Cardinality(cand'[s]) <= MaxCandidates
  BY <1>2, <1>6
<1>7. QED BY <1>4, <1>5, <1>6

(* First pages bring no more than their parts. *)
LEMMA CandidatesStep ==
  ASSUME DiscoveryAssumption, Types, Unasked, CandidatesFit, FirstPages, [Next]_searchVars
  PROVE  CandidatesFit'
<1>1. \A s \in Sessions, k \in Kinds : Start(s, k) => CandidatesFit'
  BY DEF Types, SessionTypes, BoardTypes, OfferTypes, Unasked, CandidatesFit, AllInitial, Start,
       Begins, outVars
<1>2. \A s \in Sessions, reset \in BOOLEAN : Refetch(s, reset) => CandidatesFit'
  BY DEF Types, SessionTypes, BoardTypes, OfferTypes, Unasked, CandidatesFit, AllInitial, Refetch,
       Active, Bump, outVars
<1>3. \A s \in Sessions : Cancel(s) => CandidatesFit'
  BY DEF Types, SessionTypes, BoardTypes, OfferTypes, Unasked, CandidatesFit, AllInitial, Cancel,
       Cancels, Active, memberVars, outVars
<1>4. \A s \in Sessions : Deadline(s) => CandidatesFit'
  BY DEF Types, SessionTypes, BoardTypes, OfferTypes, Unasked, CandidatesFit, AllInitial, Deadline,
       Stop, Halted, memberVars, outVars
<1>5. DeleteSearch => CandidatesFit'
  BY DEF Types, SessionTypes, BoardTypes, OfferTypes, Unasked, CandidatesFit, AllInitial, DeleteSearch,
       Cancels, Active, outVars
<1>6. \A s \in Sessions : PumpStops(s) => CandidatesFit'
  BY DEF Types, SessionTypes, BoardTypes, OfferTypes, Unasked, CandidatesFit, AllInitial, PumpStops,
       Stop, Halted, memberVars, outVars
<1>7. \A s \in Sessions : PumpRests(s) => CandidatesFit'
  BY DEF Types, SessionTypes, BoardTypes, OfferTypes, Unasked, CandidatesFit, AllInitial, PumpRests,
       boardVars, memberVars, outVars
<1>8. \A s \in Sessions, b \in BoardIds : Skips(s, b) => CandidatesFit'
  BY DEF Types, SessionTypes, BoardTypes, OfferTypes, Unasked, CandidatesFit, AllInitial, Skips,
       memberVars, outVars
<1>9. \A s \in Sessions, b \in BoardIds : Fetches(s, b) => CandidatesFit'
  BY DEF Types, SessionTypes, BoardTypes, OfferTypes, Unasked, CandidatesFit, AllInitial, Fetches,
       memberVars, outVars
<1>10. \A s \in Sessions, b \in BoardIds, picked \in SUBSET Offers, used \in Nat : Brings(s, b, picked,
     used) => CandidatesFit'
  <2> SUFFICES ASSUME NEW s \in Sessions, NEW b \in BoardIds, NEW picked \in SUBSET Offers,
       NEW used \in Nat, Brings(s, b, picked, used) PROVE CandidatesFit'
    OBVIOUS
  <2>1. /\ cand'[s] = cand[s] \cup picked /\ \A t \in Sessions : t # s => cand'[t] = cand[t]
        /\ Landed(s, b) /\ b \in flying[s] /\ (picked = {} \/ Cardinality(picked) <= Allowance(s, b))
    BY DEF Brings, Types, OfferTypes
  <2>2. CASE picked = {}
    BY <2>1, <2>2, CandidatesLand
  <2>3. CASE Cardinality(picked) <= Allowance(s, b)
    <3>1. /\ IsFiniteSet(picked) /\ Cardinality(picked) \in Nat
          /\ IsFiniteSet(cand[s]) /\ Cardinality(cand[s]) \in Nat /\ Allowance(s, b) \in Int
      BY AllowanceIs, Budgets, FS_Subset, FS_CardinalityType
    <3>2. /\ IsFiniteSet(cand[s] \cup picked) /\ IsFiniteSet(cand[s] \cap picked)
          /\ Cardinality(cand[s] \cup picked)
               = Cardinality(cand[s]) + Cardinality(picked) - Cardinality(cand[s] \cap picked)
      BY <3>1, FS_Union, FS_Intersection
    <3>3. Cardinality(cand[s] \cap picked) \in Nat /\ Cardinality(cand[s] \cup picked) \in Nat
      BY <3>2, FS_CardinalityType
    <3>4. Cardinality(cand'[s]) <= Cardinality(cand[s]) + Allowance(s, b)
      BY <2>1, <2>3, <3>1, <3>2, <3>3
    <3>5. CASE b \in initial[s]
      <4>1. AllInitial(s) /\ Allowance(s,
           b) = MaxCandidates - Cardinality(cand[s]) /\ MaxCandidates \in Nat
        BY <2>1, <3>5, AllowanceIs, Budgets DEF FirstPages
      <4>2. Cardinality(cand'[s]) <= MaxCandidates
        BY <2>1, <3>1, <3>3, <3>4, <4>1
      <4>3. QED BY <2>1, <4>1, <4>2, CandidatesLand
    <3>6. CASE b \notin initial[s]
      <4>1. initial[s] \in SUBSET BoardIds /\ ~AllInitial(s)
        BY <3>6 DEF Types, BoardTypes, AllInitial
      <4>2. Cardinality(cand[s]) <= Cardinality(Parts(initial[s])) /\ Allowance(s, b) = Part(b)
        BY <3>6, <4>1, AllowanceIs DEF CandidatesFit
      <4>3. Cardinality(Parts(initial[s] \cup {b})) = Cardinality(Parts(initial[s])) + Part(b)
            /\ Cardinality(Parts(initial[s])) \in Nat
        BY <3>6, <4>1, PartsMore, PartsBound
      <4>4. Cardinality(cand'[s]) <= Cardinality(Parts(initial[s] \cup {b}))
        BY <2>1, <3>1, <3>3, <3>4, <4>2, <4>3
      <4>5. QED BY <2>1, <4>4, CandidatesLand
    <3>7. QED BY <3>5, <3>6
  <2>4. QED BY <2>1, <2>2, <2>3
<1>11. \A s \in Sessions, b \in BoardIds : PageFails(s, b) => CandidatesFit'
  BY CandidatesLand DEF PageFails
<1>12. \A s \in Sessions, b \in BoardIds : PageLate(s, b) => CandidatesFit'
  BY CandidatesLand DEF PageLate
<1>13. \A s \in Sessions, b \in BoardIds : AskNext(s, b) => CandidatesFit'
  BY DEF Types, SessionTypes, BoardTypes, OfferTypes, Unasked, CandidatesFit, AllInitial, AskNext,
       memberVars, outVars
<1>14. \A o \in Offers, action \in {"hide", "delete", "restore"} : Manage(o, action) => CandidatesFit'
  BY DEF Types, SessionTypes, BoardTypes, OfferTypes, Unasked, CandidatesFit, AllInitial, Manage, Bump,
       sessionVars
<1>15. \A o \in Offers, on \in BOOLEAN : Blacklist(o, on) => CandidatesFit'
  BY DEF Types, SessionTypes, BoardTypes, OfferTypes, Unasked, CandidatesFit, AllInitial, Blacklist,
       Bump, sessionVars
<1>16. \A o \in Offers : Refresh(o) => CandidatesFit'
  BY DEF Types, SessionTypes, BoardTypes, OfferTypes, Unasked, CandidatesFit, AllInitial, Refresh,
       Bump, sessionVars, outVars
<1>17. DetailRequest => CandidatesFit'
  BY DEF Types, SessionTypes, BoardTypes, OfferTypes, Unasked, CandidatesFit, AllInitial,
       DetailRequest, sessionVars, memberVars, outVars
<1>18. UNCHANGED searchVars => CandidatesFit'
  BY DEF Types, SessionTypes, BoardTypes, OfferTypes, Unasked, CandidatesFit, AllInitial, searchVars,
       sessionVars, memberVars, outVars
<1>19. QED
  BY <1>1, <1>2, <1>3, <1>4, <1>5, <1>6, <1>7, <1>8, <1>9, <1>10, <1>11, <1>12, <1>13, <1>14, <1>15,
       <1>16, <1>17, <1>18, Cases

LEMMA FlightsFewer ==
  ASSUME DiscoveryAssumption, Types, FlightsFit, NEW s \in Sessions, NEW b, Landed(s, b)
  PROVE  FlightsFit'
<1> SUFFICES ASSUME NEW t \in Sessions PROVE Cardinality(flying'[t]) <= MaxConcurrent
  BY DEF FlightsFit
<1>1. flying'[t] \subseteq flying[t] /\ flying[t] \in SUBSET BoardIds
  BY DEF Landed, Types, BoardTypes
<1>2. IsFiniteSet(flying[t])
  BY <1>1, BoardsAre, FS_Subset
<1>3. /\ Cardinality(flying'[t]) <= Cardinality(flying[t])
      /\ Cardinality(flying'[t]) \in Nat /\ Cardinality(flying[t]) \in Nat
  BY <1>1, <1>2, FS_Subset, FS_CardinalityType
<1>4. QED BY <1>3, Budgets DEF FlightsFit

(* No more pages on their way than there may be. *)
LEMMA FlightsStep ==
  ASSUME DiscoveryAssumption, Types, Unasked, FlightsFit, [Next]_searchVars
  PROVE  FlightsFit'
<1>1. \A s \in Sessions, k \in Kinds : Start(s, k) => FlightsFit'
  BY DEF Types, SessionTypes, BoardTypes, FlightsFit, Start, Begins, outVars
<1>2. \A s \in Sessions, reset \in BOOLEAN : Refetch(s, reset) => FlightsFit'
  BY DEF Types, SessionTypes, BoardTypes, FlightsFit, Refetch, Active, Bump, outVars
<1>3. \A s \in Sessions : Cancel(s) => FlightsFit'
  BY DEF Types, SessionTypes, BoardTypes, FlightsFit, Cancel, Cancels, Active, memberVars, outVars
<1>4. \A s \in Sessions : Deadline(s) => FlightsFit'
  BY DEF Types, SessionTypes, BoardTypes, FlightsFit, Deadline, Stop, Halted, memberVars, outVars
<1>5. DeleteSearch => FlightsFit'
  BY DEF Types, SessionTypes, BoardTypes, FlightsFit, DeleteSearch, Cancels, Active, outVars
<1>6. \A s \in Sessions : PumpStops(s) => FlightsFit'
  BY DEF Types, SessionTypes, BoardTypes, FlightsFit, PumpStops, Stop, Halted, memberVars, outVars
<1>7. \A s \in Sessions : PumpRests(s) => FlightsFit'
  BY DEF Types, SessionTypes, BoardTypes, FlightsFit, PumpRests, boardVars, memberVars, outVars
<1>8. \A s \in Sessions, b \in BoardIds : Skips(s, b) => FlightsFit'
  BY DEF Types, SessionTypes, BoardTypes, FlightsFit, Skips, memberVars, outVars
<1>9. \A s \in Sessions, b \in BoardIds : Fetches(s, b) => FlightsFit'
  <2> SUFFICES ASSUME NEW s \in Sessions, NEW b \in BoardIds, Fetches(s, b) PROVE FlightsFit'
    OBVIOUS
  <2>1. flying[s] \in SUBSET BoardIds /\ IsFiniteSet(flying[s]) /\ Cardinality(flying[s]) \in Nat
    BY BoardsAre, FS_Subset, FS_CardinalityType DEF Types, BoardTypes
  <2>2. Cardinality(flying[s] \cup {b}) <= Cardinality(flying[s]) + 1 /\ Cardinality(flying[s] \cup {b}) \in Nat
    BY <2>1, FS_AddElement
  <2>3. Cardinality(flying[s]) < MaxConcurrent
    BY <2>1, Budgets DEF Fetches, Full
  <2>4. flying'[s] = flying[s] \cup {b} /\ \A t \in Sessions : t # s => flying'[t] = flying[t]
    BY DEF Fetches, Types, BoardTypes
  <2>5. Cardinality(flying'[s]) <= MaxConcurrent
    BY <2>1, <2>2, <2>3, <2>4, Budgets
  <2>6. QED BY <2>4, <2>5 DEF FlightsFit
<1>10. \A s \in Sessions, b \in BoardIds, picked \in SUBSET Offers, used \in Nat : Brings(s, b, picked,
     used) => FlightsFit'
  BY FlightsFewer DEF Brings
<1>11. \A s \in Sessions, b \in BoardIds : PageFails(s, b) => FlightsFit'
  BY FlightsFewer DEF PageFails
<1>12. \A s \in Sessions, b \in BoardIds : PageLate(s, b) => FlightsFit'
  BY FlightsFewer DEF PageLate
<1>13. \A s \in Sessions, b \in BoardIds : AskNext(s, b) => FlightsFit'
  BY DEF Types, SessionTypes, BoardTypes, FlightsFit, AskNext, memberVars, outVars
<1>14. \A o \in Offers, action \in {"hide", "delete", "restore"} : Manage(o, action) => FlightsFit'
  BY DEF Types, SessionTypes, BoardTypes, FlightsFit, Manage, Bump, sessionVars
<1>15. \A o \in Offers, on \in BOOLEAN : Blacklist(o, on) => FlightsFit'
  BY DEF Types, SessionTypes, BoardTypes, FlightsFit, Blacklist, Bump, sessionVars
<1>16. \A o \in Offers : Refresh(o) => FlightsFit'
  BY DEF Types, SessionTypes, BoardTypes, FlightsFit, Refresh, Bump, sessionVars, outVars
<1>17. DetailRequest => FlightsFit'
  BY DEF Types, SessionTypes, BoardTypes, FlightsFit, DetailRequest, sessionVars, memberVars, outVars
<1>18. UNCHANGED searchVars => FlightsFit'
  BY DEF Types, SessionTypes, BoardTypes, FlightsFit, searchVars, sessionVars, memberVars, outVars
<1>19. QED
  BY <1>1, <1>2, <1>3, <1>4, <1>5, <1>6, <1>7, <1>8, <1>9, <1>10, <1>11, <1>12, <1>13, <1>14, <1>15,
       <1>16, <1>17, <1>18, Cases

(* A session that ends, is pumped or stays as it is does not stop short. *)
LEMMA GoesFrom ==
  ASSUME SessionGoesOn,
         \A t \in Sessions :
           \/ ~Live(t)' \/ due'[t]
           \/ /\ st'[t] = st[t] /\ kind'[t] = kind[t] /\ bst'[t] = bst[t]
              /\ flying'[t] = flying[t] /\ due'[t] = due[t]
           \/ ~CollectAll(t)'
  PROVE  SessionGoesOn'
BY DEF SessionGoesOn, Live, CollectAll, Done

(* A session that collects everything never stops short. *)
LEMMA SessionGoesOnStep ==
  ASSUME DiscoveryAssumption, Types, Unasked, FirstPages, SessionGoesOn, [Next]_searchVars
  PROVE  SessionGoesOn'
<1>1. \A s \in Sessions, k \in Kinds : Start(s, k) => SessionGoesOn'
  <2> SUFFICES ASSUME NEW s \in Sessions, NEW k \in Kinds, Start(s, k) PROVE SessionGoesOn'
    OBVIOUS
  <2>1. due'[s] \/ ~CollectAll(s)'
    BY DEF Start, Begins, CollectAll, Types, SessionTypes
  <2>2. \A t \in Sessions : t # s => /\ st'[t] = st[t] /\ kind'[t] = kind[t] /\ bst'[t] = bst[t]
                                   /\ flying'[t] = flying[t] /\ due'[t] = due[t]
    BY DEF Start, Begins, Types, SessionTypes, BoardTypes
  <2>3. QED BY <2>1, <2>2, GoesFrom
<1>2. \A s \in Sessions, reset \in BOOLEAN : Refetch(s, reset) => SessionGoesOn'
  <2> SUFFICES ASSUME NEW s \in Sessions, NEW reset \in BOOLEAN, Refetch(s, reset) PROVE SessionGoesOn'
    OBVIOUS
  <2>1. due'[s]
    BY DEF Refetch
  <2>2. \A t \in Sessions : t # s => ~Live(t)'
    BY DEF Refetch, Active, Live, Types, SessionTypes
  <2>3. QED BY <2>1, <2>2, GoesFrom
<1>3. \A s \in Sessions : Cancel(s) => SessionGoesOn'
  BY GoesFrom DEF Types, SessionTypes, BoardTypes, Live, CollectAll, Unasked, Cancel, Cancels, Active,
       memberVars, outVars
<1>4. \A s \in Sessions : Deadline(s) => SessionGoesOn'
  BY GoesFrom DEF Types, SessionTypes, BoardTypes, Live, CollectAll, Unasked, Deadline, Stop, Halted,
       memberVars, outVars
<1>5. DeleteSearch => SessionGoesOn'
  BY GoesFrom DEF Types, SessionTypes, BoardTypes, Live, CollectAll, Unasked, DeleteSearch, Cancels,
       Active, outVars
<1>6. \A s \in Sessions : PumpStops(s) => SessionGoesOn'
  BY GoesFrom DEF Types, SessionTypes, BoardTypes, Live, CollectAll, Unasked, PumpStops, Stop, Halted,
       memberVars, outVars
<1>7. \A s \in Sessions : PumpRests(s) => SessionGoesOn'
  <2> SUFFICES ASSUME NEW s \in Sessions, PumpRests(s) PROVE SessionGoesOn'
    OBVIOUS
  <2> SUFFICES ASSUME NEW t \in Sessions, Live(t)', CollectAll(t)', ~due'[t], flying'[t] = {}
               PROVE  Done(t)'
    BY DEF SessionGoesOn
  <2>1. Live(t) /\ CollectAll(t) /\ flying[t] = {} /\ bst' = bst
    BY DEF PumpRests, boardVars, Live, CollectAll
  <2>2. CASE t # s
    <3>1. ~due[t]
      BY <2>2 DEF PumpRests, Types, SessionTypes
    <3>2. QED BY <2>1, <3>1 DEF SessionGoesOn, Done
  <2>3. CASE t = s
    <3>1. NoBoard(s)
      <4>1. Cardinality(flying[s]) = 0 /\ flying[s] = {} /\ Live(s)
        BY <2>1, <2>3, FS_EmptySet
      <4>2. ~Full(s)
        BY <4>1, Budgets DEF Full
      <4>3. QED BY <4>1, <4>2 DEF PumpRests
    <3>2. \A b \in BoardIds : b \in initial[s]
      BY <2>1, <2>3, <3>1 DEF NoBoard, IdleFirst, Idle, FirstPages, CollectAll
    <3>3. AllInitial(s)
      BY <3>2 DEF AllInitial, Types, BoardTypes
    <3>4. \A b \in BoardIds : bst[s][b] \in Terminal
      BY <2>1, <2>3, <3>1, <3>3 DEF NoBoard, IdleNext, Idle
    <3>5. QED BY <2>1, <2>3, <3>4 DEF Done
  <2>4. QED BY <2>2, <2>3
<1>8. \A s \in Sessions, b \in BoardIds : Skips(s, b) => SessionGoesOn'
  BY GoesFrom DEF Types, SessionTypes, BoardTypes, Live, CollectAll, Unasked, Skips, memberVars, outVars
<1>9. \A s \in Sessions, b \in BoardIds : Fetches(s, b) => SessionGoesOn'
  BY GoesFrom DEF Types, SessionTypes, BoardTypes, Live, CollectAll, Unasked, Fetches, memberVars,
       outVars
<1>10. \A s \in Sessions, b \in BoardIds, picked \in SUBSET Offers, used \in Nat : Brings(s, b, picked,
     used) => SessionGoesOn'
  BY GoesFrom DEF Types, SessionTypes, BoardTypes, Live, CollectAll, Unasked, Brings, Landed, Refunds,
       outVars
<1>11. \A s \in Sessions, b \in BoardIds : PageFails(s, b) => SessionGoesOn'
  BY GoesFrom DEF Types, SessionTypes, BoardTypes, Live, CollectAll, Unasked, PageFails, Landed,
       Refunds, memberVars, outVars
<1>12. \A s \in Sessions, b \in BoardIds : PageLate(s, b) => SessionGoesOn'
  BY GoesFrom DEF Types, SessionTypes, BoardTypes, Live, CollectAll, Unasked, PageLate, Landed,
       memberVars, outVars
<1>13. \A s \in Sessions, b \in BoardIds : AskNext(s, b) => SessionGoesOn'
  BY GoesFrom DEF Types, SessionTypes, BoardTypes, Live, CollectAll, Unasked, AskNext, memberVars,
       outVars
<1>14. \A o \in Offers, action \in {"hide", "delete", "restore"} : Manage(o, action) => SessionGoesOn'
  BY GoesFrom DEF Types, SessionTypes, BoardTypes, Live, CollectAll, Unasked, Manage, Bump, sessionVars
<1>15. \A o \in Offers, on \in BOOLEAN : Blacklist(o, on) => SessionGoesOn'
  BY GoesFrom DEF Types, SessionTypes, BoardTypes, Live, CollectAll, Unasked, Blacklist, Bump,
       sessionVars
<1>16. \A o \in Offers : Refresh(o) => SessionGoesOn'
  BY GoesFrom DEF Types, SessionTypes, BoardTypes, Live, CollectAll, Unasked, Refresh, Bump,
       sessionVars, outVars
<1>17. DetailRequest => SessionGoesOn'
  BY GoesFrom DEF Types, SessionTypes, BoardTypes, Live, CollectAll, Unasked, DetailRequest,
       sessionVars, memberVars, outVars
<1>18. UNCHANGED searchVars => SessionGoesOn'
  BY GoesFrom DEF Types, SessionTypes, BoardTypes, Live, CollectAll, Unasked, searchVars, sessionVars,
       memberVars, outVars
<1>19. QED
  BY <1>1, <1>2, <1>3, <1>4, <1>5, <1>6, <1>7, <1>8, <1>9, <1>10, <1>11, <1>12, <1>13, <1>14, <1>15,
       <1>16, <1>17, <1>18, Cases

(* A deleted offer stays out. *)
LEMMA DeletedStep ==
  ASSUME DiscoveryAssumption, Types, DeletedStaysOut, [Next]_searchVars
  PROVE  DeletedStaysOut'
<1>1. \A s \in Sessions, k \in Kinds : Start(s, k) => DeletedStaysOut'
  BY DEF Types, OfferTypes, DeletedStaysOut, Adds, Collects, Suppressed, Start, Begins, outVars
<1>2. \A s \in Sessions, reset \in BOOLEAN : Refetch(s, reset) => DeletedStaysOut'
  BY DEF Types, OfferTypes, DeletedStaysOut, Adds, Collects, Suppressed, Refetch, Active, Bump, outVars
<1>3. \A s \in Sessions : Cancel(s) => DeletedStaysOut'
  BY DEF Types, OfferTypes, DeletedStaysOut, Adds, Collects, Suppressed, Cancel, Cancels, Active,
       memberVars, outVars
<1>4. \A s \in Sessions : Deadline(s) => DeletedStaysOut'
  BY DEF Types, OfferTypes, DeletedStaysOut, Adds, Collects, Suppressed, Deadline, Stop, Halted,
       memberVars, outVars
<1>5. DeleteSearch => DeletedStaysOut'
  BY DEF Types, OfferTypes, DeletedStaysOut, Adds, Collects, Suppressed, DeleteSearch, Cancels, Active,
       outVars
<1>6. \A s \in Sessions : PumpStops(s) => DeletedStaysOut'
  BY DEF Types, OfferTypes, DeletedStaysOut, Adds, Collects, Suppressed, PumpStops, Stop, Halted,
       memberVars, outVars
<1>7. \A s \in Sessions : PumpRests(s) => DeletedStaysOut'
  BY DEF Types, OfferTypes, DeletedStaysOut, Adds, Collects, Suppressed, PumpRests, boardVars,
       memberVars, outVars
<1>8. \A s \in Sessions, b \in BoardIds : Skips(s, b) => DeletedStaysOut'
  BY DEF Types, OfferTypes, DeletedStaysOut, Adds, Collects, Suppressed, Skips, memberVars, outVars
<1>9. \A s \in Sessions, b \in BoardIds : Fetches(s, b) => DeletedStaysOut'
  BY DEF Types, OfferTypes, DeletedStaysOut, Adds, Collects, Suppressed, Fetches, memberVars, outVars
<1>10. \A s \in Sessions, b \in BoardIds, picked \in SUBSET Offers, used \in Nat : Brings(s, b, picked,
     used) => DeletedStaysOut'
  BY DEF Types, OfferTypes, DeletedStaysOut, Adds, Collects, Suppressed, Brings, Landed, Refunds,
       outVars
<1>11. \A s \in Sessions, b \in BoardIds : PageFails(s, b) => DeletedStaysOut'
  BY DEF Types, OfferTypes, DeletedStaysOut, Adds, Collects, Suppressed, PageFails, Landed, Refunds,
       memberVars, outVars
<1>12. \A s \in Sessions, b \in BoardIds : PageLate(s, b) => DeletedStaysOut'
  BY DEF Types, OfferTypes, DeletedStaysOut, Adds, Collects, Suppressed, PageLate, Landed, memberVars,
       outVars
<1>13. \A s \in Sessions, b \in BoardIds : AskNext(s, b) => DeletedStaysOut'
  BY DEF Types, OfferTypes, DeletedStaysOut, Adds, Collects, Suppressed, AskNext, memberVars, outVars
<1>14. \A o \in Offers, action \in {"hide", "delete", "restore"} : Manage(o, action) => DeletedStaysOut'
  BY DEF Types, OfferTypes, DeletedStaysOut, Adds, Collects, Suppressed, Manage, Bump, sessionVars
<1>15. \A o \in Offers, on \in BOOLEAN : Blacklist(o, on) => DeletedStaysOut'
  BY DEF Types, OfferTypes, DeletedStaysOut, Adds, Collects, Suppressed, Blacklist, Bump, sessionVars
<1>16. \A o \in Offers : Refresh(o) => DeletedStaysOut'
  BY DEF Types, OfferTypes, DeletedStaysOut, Adds, Collects, Suppressed, Refresh, Bump, sessionVars,
       outVars
<1>17. DetailRequest => DeletedStaysOut'
  BY DEF Types, OfferTypes, DeletedStaysOut, Adds, Collects, Suppressed, DetailRequest, sessionVars,
       memberVars, outVars
<1>18. UNCHANGED searchVars => DeletedStaysOut'
  BY DEF Types, OfferTypes, DeletedStaysOut, Adds, Collects, Suppressed, searchVars, sessionVars,
       memberVars, outVars
<1>19. QED
  BY <1>1, <1>2, <1>3, <1>4, <1>5, <1>6, <1>7, <1>8, <1>9, <1>10, <1>11, <1>12, <1>13, <1>14, <1>15,
       <1>16, <1>17, <1>18, Cases

(* What is listed changes with the revision. *)
LEMMA RevisionStep ==
  ASSUME DiscoveryAssumption, Types, DeletedStaysOut, [Next]_searchVars
  PROVE  RevisionMoves
<1>1. \A s \in Sessions, k \in Kinds : Start(s, k) => RevisionMoves
  BY DEF Types, OfferTypes, DeletedStaysOut, RevisionMoves, Adds, Collects, Bump, Listed, Suppressed,
       Start, Begins, outVars
<1>2. \A s \in Sessions, reset \in BOOLEAN : Refetch(s, reset) => RevisionMoves
  BY DEF Types, OfferTypes, DeletedStaysOut, RevisionMoves, Adds, Collects, Bump, Listed, Suppressed,
       Refetch, Active, Bump, outVars
<1>3. \A s \in Sessions : Cancel(s) => RevisionMoves
  BY DEF Types, OfferTypes, DeletedStaysOut, RevisionMoves, Adds, Collects, Bump, Listed, Suppressed,
       Cancel, Cancels, Active, memberVars, outVars
<1>4. \A s \in Sessions : Deadline(s) => RevisionMoves
  BY DEF Types, OfferTypes, DeletedStaysOut, RevisionMoves, Adds, Collects, Bump, Listed, Suppressed,
       Deadline, Stop, Halted, memberVars, outVars
<1>5. DeleteSearch => RevisionMoves
  BY DEF Types, OfferTypes, DeletedStaysOut, RevisionMoves, Adds, Collects, Bump, Listed, Suppressed,
       DeleteSearch, Cancels, Active, outVars
<1>6. \A s \in Sessions : PumpStops(s) => RevisionMoves
  BY DEF Types, OfferTypes, DeletedStaysOut, RevisionMoves, Adds, Collects, Bump, Listed, Suppressed,
       PumpStops, Stop, Halted, memberVars, outVars
<1>7. \A s \in Sessions : PumpRests(s) => RevisionMoves
  BY DEF Types, OfferTypes, DeletedStaysOut, RevisionMoves, Adds, Collects, Bump, Listed, Suppressed,
       PumpRests, boardVars, memberVars, outVars
<1>8. \A s \in Sessions, b \in BoardIds : Skips(s, b) => RevisionMoves
  BY DEF Types, OfferTypes, DeletedStaysOut, RevisionMoves, Adds, Collects, Bump, Listed, Suppressed,
       Skips, memberVars, outVars
<1>9. \A s \in Sessions, b \in BoardIds : Fetches(s, b) => RevisionMoves
  BY DEF Types, OfferTypes, DeletedStaysOut, RevisionMoves, Adds, Collects, Bump, Listed, Suppressed,
       Fetches, memberVars, outVars
<1>10. \A s \in Sessions, b \in BoardIds, picked \in SUBSET Offers, used \in Nat : Brings(s, b, picked,
     used) => RevisionMoves
  BY DEF Types, OfferTypes, DeletedStaysOut, RevisionMoves, Adds, Collects, Bump, Listed, Suppressed,
       Brings, Landed, Refunds, outVars
<1>11. \A s \in Sessions, b \in BoardIds : PageFails(s, b) => RevisionMoves
  BY DEF Types, OfferTypes, DeletedStaysOut, RevisionMoves, Adds, Collects, Bump, Listed, Suppressed,
       PageFails, Landed, Refunds, memberVars, outVars
<1>12. \A s \in Sessions, b \in BoardIds : PageLate(s, b) => RevisionMoves
  BY DEF Types, OfferTypes, DeletedStaysOut, RevisionMoves, Adds, Collects, Bump, Listed, Suppressed,
       PageLate, Landed, memberVars, outVars
<1>13. \A s \in Sessions, b \in BoardIds : AskNext(s, b) => RevisionMoves
  BY DEF Types, OfferTypes, DeletedStaysOut, RevisionMoves, Adds, Collects, Bump, Listed, Suppressed,
       AskNext, memberVars, outVars
<1>14. \A o \in Offers, action \in {"hide", "delete", "restore"} : Manage(o, action) => RevisionMoves
  BY DEF Types, OfferTypes, DeletedStaysOut, RevisionMoves, Adds, Collects, Bump, Listed, Suppressed,
       Manage, Bump, sessionVars
<1>15. \A o \in Offers, on \in BOOLEAN : Blacklist(o, on) => RevisionMoves
  BY DEF Types, OfferTypes, DeletedStaysOut, RevisionMoves, Adds, Collects, Bump, Listed, Suppressed,
       Blacklist, Bump, sessionVars
<1>16. \A o \in Offers : Refresh(o) => RevisionMoves
  BY DEF Types, OfferTypes, DeletedStaysOut, RevisionMoves, Adds, Collects, Bump, Listed, Suppressed,
       Refresh, Bump, sessionVars, outVars
<1>17. DetailRequest => RevisionMoves
  BY DEF Types, OfferTypes, DeletedStaysOut, RevisionMoves, Adds, Collects, Bump, Listed, Suppressed,
       DetailRequest, sessionVars, memberVars, outVars
<1>18. UNCHANGED searchVars => RevisionMoves
  BY DEF Types, OfferTypes, DeletedStaysOut, RevisionMoves, Adds, Collects, Bump, Listed, Suppressed,
       searchVars, sessionVars, memberVars, outVars
<1>19. QED
  BY <1>1, <1>2, <1>3, <1>4, <1>5, <1>6, <1>7, <1>8, <1>9, <1>10, <1>11, <1>12, <1>13, <1>14, <1>15,
       <1>16, <1>17, <1>18, Cases

(* A session that ended gets no offers. *)
LEMMA EndedStep ==
  ASSUME DiscoveryAssumption, Types, [Next]_searchVars
  PROVE  EndedStays
<1>1. \A s \in Sessions, k \in Kinds : Start(s, k) => EndedStays
  BY DEF Types, BoardTypes, OfferTypes, EndedStays, Live, Start, Begins, outVars
<1>2. \A s \in Sessions, reset \in BOOLEAN : Refetch(s, reset) => EndedStays
  BY DEF Types, BoardTypes, OfferTypes, EndedStays, Live, Refetch, Active, Bump, outVars
<1>3. \A s \in Sessions : Cancel(s) => EndedStays
  BY DEF Types, BoardTypes, OfferTypes, EndedStays, Live, Cancel, Cancels, Active, memberVars, outVars
<1>4. \A s \in Sessions : Deadline(s) => EndedStays
  BY DEF Types, BoardTypes, OfferTypes, EndedStays, Live, Deadline, Stop, Halted, memberVars, outVars
<1>5. DeleteSearch => EndedStays
  BY DEF Types, BoardTypes, OfferTypes, EndedStays, Live, DeleteSearch, Cancels, Active, outVars
<1>6. \A s \in Sessions : PumpStops(s) => EndedStays
  BY DEF Types, BoardTypes, OfferTypes, EndedStays, Live, PumpStops, Stop, Halted, memberVars, outVars
<1>7. \A s \in Sessions : PumpRests(s) => EndedStays
  BY DEF Types, BoardTypes, OfferTypes, EndedStays, Live, PumpRests, boardVars, memberVars, outVars
<1>8. \A s \in Sessions, b \in BoardIds : Skips(s, b) => EndedStays
  BY DEF Types, BoardTypes, OfferTypes, EndedStays, Live, Skips, memberVars, outVars
<1>9. \A s \in Sessions, b \in BoardIds : Fetches(s, b) => EndedStays
  BY DEF Types, BoardTypes, OfferTypes, EndedStays, Live, Fetches, memberVars, outVars
<1>10. \A s \in Sessions, b \in BoardIds, picked \in SUBSET Offers, used \in Nat : Brings(s, b, picked,
     used) => EndedStays
  BY DEF Types, BoardTypes, OfferTypes, EndedStays, Live, Brings, Landed, Refunds, outVars
<1>11. \A s \in Sessions, b \in BoardIds : PageFails(s, b) => EndedStays
  BY DEF Types, BoardTypes, OfferTypes, EndedStays, Live, PageFails, Landed, Refunds, memberVars,
       outVars
<1>12. \A s \in Sessions, b \in BoardIds : PageLate(s, b) => EndedStays
  BY DEF Types, BoardTypes, OfferTypes, EndedStays, Live, PageLate, Landed, memberVars, outVars
<1>13. \A s \in Sessions, b \in BoardIds : AskNext(s, b) => EndedStays
  BY DEF Types, BoardTypes, OfferTypes, EndedStays, Live, AskNext, memberVars, outVars
<1>14. \A o \in Offers, action \in {"hide", "delete", "restore"} : Manage(o, action) => EndedStays
  BY DEF Types, BoardTypes, OfferTypes, EndedStays, Live, Manage, Bump, sessionVars
<1>15. \A o \in Offers, on \in BOOLEAN : Blacklist(o, on) => EndedStays
  BY DEF Types, BoardTypes, OfferTypes, EndedStays, Live, Blacklist, Bump, sessionVars
<1>16. \A o \in Offers : Refresh(o) => EndedStays
  BY DEF Types, BoardTypes, OfferTypes, EndedStays, Live, Refresh, Bump, sessionVars, outVars
<1>17. DetailRequest => EndedStays
  BY DEF Types, BoardTypes, OfferTypes, EndedStays, Live, DetailRequest, sessionVars, memberVars,
       outVars
<1>18. UNCHANGED searchVars => EndedStays
  BY DEF Types, BoardTypes, OfferTypes, EndedStays, Live, searchVars, sessionVars, memberVars, outVars
<1>19. QED
  BY <1>1, <1>2, <1>3, <1>4, <1>5, <1>6, <1>7, <1>8, <1>9, <1>10, <1>11, <1>12, <1>13, <1>14, <1>15,
       <1>16, <1>17, <1>18, Cases

-----------------------------------------------------------------------------
(* The first state has the invariant and every step keeps it. *)
LEMMA SessionFirst ==
  ASSUME DiscoveryAssumption, Init
  PROVE  SessionInv
<1>1. Types
  <2>1. 0 \in 0 .. Cost /\ 0 \in 0 .. MaxPages
    BY Budgets
  <2>2. QED BY <2>1 DEF Init, Empty, Types, SessionTypes, BoardTypes, OfferTypes, Kinds
<1>2. Unasked /\ FirstPages /\ SessionGoesOn /\ DeletedStaysOut
  BY Budgets DEF Init, Empty, Unasked, FirstPages, Live, SessionGoesOn, DeletedStaysOut
<1>3. LedgerFits
  <2>1. Units = {}  BY DEF Init, Units, Live
  <2>2. Cardinality(Units) = 0  BY <2>1, FS_EmptySet
  <2>3. QED BY <2>2, Budgets DEF Init, LedgerFits
<1>4. CandidatesFit
  <2>1. \A s \in Sessions : Cardinality(cand[s]) = 0 /\ initial[s] \in SUBSET BoardIds
    BY FS_EmptySet DEF Init, Empty
  <2>2. QED BY <2>1, PartsBound DEF CandidatesFit
<1>5. FlightsFit
  <2>1. \A s \in Sessions : Cardinality(flying[s]) = 0
    BY FS_EmptySet DEF Init, Empty
  <2>2. QED BY <2>1, Budgets DEF FlightsFit
<1>6. QED BY <1>1, <1>2, <1>3, <1>4, <1>5 DEF SessionInv

LEMMA SessionStep ==
  ASSUME DiscoveryAssumption, SessionInv, [Next]_searchVars
  PROVE  SessionInv' /\ RevisionMoves /\ EndedStays
<1>1. /\ Types /\ Unasked /\ FirstPages /\ LedgerFits /\ CandidatesFit /\ FlightsFit
      /\ SessionGoesOn /\ DeletedStaysOut
  BY DEF SessionInv
<1>2. Types'
  BY <1>1, SessionTypeStep, BoardTypeStep, OfferTypeStep DEF Types
<1>3. Unasked' /\ FirstPages' /\ LedgerFits'
  BY <1>1, UnaskedStep, FirstPagesStep, LedgerStep
<1>4. CandidatesFit' /\ FlightsFit' /\ SessionGoesOn' /\ DeletedStaysOut'
  BY <1>1, CandidatesStep, FlightsStep, SessionGoesOnStep, DeletedStep
<1>5. RevisionMoves /\ EndedStays
  BY <1>1, RevisionStep, EndedStep
<1>6. QED BY <1>2, <1>3, <1>4, <1>5 DEF SessionInv

(* What the invariant says of the budget. *)
LEMMA SessionHolds ==
  ASSUME DiscoveryAssumption, SessionInv
  PROVE  TypeOK /\ LedgerCovers /\ BoundsHold /\ SessionGoesOn /\ DeletedStaysOut
<1>1. Types /\ LedgerFits /\ CandidatesFit /\ FlightsFit
  BY DEF SessionInv
<1>2. ledger \in Nat /\ sent \in Nat /\ LedgerCovers
  BY <1>1, Budgets DEF LedgerFits, LedgerCovers
<1>3. TypeOK
  BY <1>1, <1>2 DEF Types, SessionTypes, BoardTypes, OfferTypes, TypeOK
<1>4. \A s \in Sessions : Cardinality(cand[s]) <= MaxCandidates
  <2> TAKE s \in Sessions
  <2>1. initial[s] \in SUBSET BoardIds /\ IsFiniteSet(cand[s]) /\ Cardinality(cand[s]) \in Nat
    BY <1>1, Budgets, FS_Subset, FS_CardinalityType DEF Types, BoardTypes, OfferTypes
  <2>2. Cardinality(Parts(initial[s])) \in Nat /\ Cardinality(Parts(initial[s])) <= MaxCandidates
    BY <2>1, PartsBound
  <2>3. QED BY <1>1, <2>1, <2>2, Budgets DEF CandidatesFit
<1>5. \A s \in Sessions, b \in BoardIds : pages[s][b] <= MaxPages
  BY <1>1, Budgets DEF Types, BoardTypes
<1>6. BoundsHold
  BY <1>1, <1>4, <1>5 DEF FlightsFit, BoundsHold
<1>7. QED BY <1>2, <1>3, <1>6 DEF SessionInv

-----------------------------------------------------------------------------
(* Whatever is started, refetched and refunded, and however late a page     *)
(* arrives, the ledger covers what was sent and no session goes beyond its  *)
(* budget or stops short of its boards' ends (runtime/discovery.ts).        *)
THEOREM BudgetsHold ==
  ASSUME DiscoveryAssumption
  PROVE  Spec => [](TypeOK /\ LedgerCovers /\ BoundsHold /\ SessionGoesOn /\ DeletedStaysOut)
<1>1. Init => SessionInv
  BY SessionFirst
<1>2. SessionInv /\ [Next]_searchVars => SessionInv'
  BY SessionStep
<1>3. SessionInv => TypeOK /\ LedgerCovers /\ BoundsHold /\ SessionGoesOn /\ DeletedStaysOut
  BY SessionHolds
<1>4. QED BY <1>1, <1>2, <1>3, PTL DEF Spec

(* What a search lists changes only with its revision, and a session that   *)
(* ended gets no offer (storage/sqlite/discovery-searches.ts).              *)
THEOREM ReadersAreTold ==
  ASSUME DiscoveryAssumption
  PROVE  Spec => [][RevisionMoves /\ EndedStays]_searchVars
<1>1. Init => SessionInv
  BY SessionFirst
<1>2. SessionInv /\ [Next]_searchVars => SessionInv' /\ [RevisionMoves /\ EndedStays]_searchVars
  BY SessionStep
<1>3. QED BY <1>1, <1>2, PTL DEF Spec
=============================================================================
