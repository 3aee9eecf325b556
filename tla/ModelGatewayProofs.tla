--------------------------- MODULE ModelGatewayProofs ---------------------------
(***************************************************************************)
(* What holds of the gateway however many calls there are, whatever tools  *)
(* they call, and whatever is cancelled or configured meanwhile.           *)
(***************************************************************************)
EXTENDS ModelGateway, FiniteSetTheorems, TLAPS

(* Every step is one of the actions; stated once for what follows. *)
LEMMA Cases ==
  ASSUME NEW P, [Next]_vars,
         \A c \in Calls : Refuse(c) => P,
         \A c \in Calls : BeginInside(c) => P,
         \A c \in Calls : BeginNow(c) => P,
         \A c \in Calls : BeginQueued(c) => P,
         \A c \in Calls : TakeTurn(c) => P,
         \A c \in Calls : PassTurn(c) => P,
         \A c \in Calls : End(c) => P,
         \A kind \in {"chat", "embed"}, p \in Providers : Configure(kind, p) => P,
         \A r \in Runs : Cancel(r) => P,
         UNCHANGED vars => P
  PROVE  P
BY DEF Next, Progress

-----------------------------------------------------------------------------
(* The calls *)

Begun(c) == pc[c] \in {"queued", "woken", "calling", "ended"}

(* A call that began keeps its provider, inside a loop that began before it; *)
(* and only a call whose loop holds no slot of that provider queues for one.  *)
CallShape ==
  \A c \in Calls :
    /\ Begun(c) => choice[c] \in Providers
    /\ Begun(c) /\ Outer[c] # NoCall => Begun(Outer[c])
    /\ pc[c] \in {"queued", "woken"} => choice[c] \notin Held(c)

(* Who waits for a provider has queued for it, once. *)
QueueShape ==
  \A p \in Providers : \A i \in 1..Len(waiting[p]) :
    /\ waiting[p][i] \in Calls /\ pc[waiting[p][i]] = "queued" /\ choice[waiting[p][i]] = p
    /\ \A j \in 1..Len(waiting[p]) : waiting[p][i] = waiting[p][j] => i = j

(* The types; what is in flight is a number of calls by the accounts below.  *)
Types ==
  /\ settings \in [{"chat", "embed"} -> Providers]
  /\ cancelled \subseteq Runs
  /\ pc \in [Calls -> {"idle", "queued", "woken", "calling", "ended", "refused"}]
  /\ choice \in [Calls -> Providers \cup {NoProvider}]
  /\ masked \in [Calls -> BOOLEAN]
  /\ reached \in [Calls -> Providers \cup {NoProvider}]
  /\ inFlight \in [Providers -> Int]
  /\ waiting \in [Providers -> Seq(Calls)]

Basics == Types /\ CallShape /\ QueueShape

(* The first of a queue, and what is left of the queue without it. *)
LEMMA FirstInLine ==
  ASSUME Basics, NEW p \in Providers, waiting[p] # <<>>
  PROVE  LET d == Head(waiting[p])
             rest == Tail(waiting[p])
         IN  /\ d \in Calls /\ pc[d] = "queued" /\ choice[d] = p
             /\ rest \in Seq(Calls) /\ Len(rest) = Len(waiting[p]) - 1
             /\ \A i \in 1..Len(rest) : /\ rest[i] = waiting[p][i + 1] /\ i + 1 \in 1..Len(waiting[p])
                                        /\ rest[i] # d
<1>1. waiting[p] \in Seq(Calls)
  BY DEF Basics, Types
<1>2. Len(waiting[p]) \in Nat /\ Len(waiting[p]) > 0 /\ Head(waiting[p]) = waiting[p][1]
  BY <1>1
<1>3. /\ Tail(waiting[p]) \in Seq(Calls) /\ Len(Tail(waiting[p])) = Len(waiting[p]) - 1
      /\ \A i \in 1..(Len(waiting[p]) - 1) : Tail(waiting[p])[i] = waiting[p][i + 1]
  BY <1>1, <1>2
<1>4. QED BY <1>2, <1>3 DEF Basics, QueueShape

(* A slot is given back: who had it has ended, and the first in line, if     *)
(* there is one, is woken.                                                   *)
LEMMA GivenBack ==
  ASSUME Basics, NEW p \in Providers, NEW c \in Calls, pc[c] \in {"calling", "woken"},
         Release(p, [pc EXCEPT ![c] = "ended"])
  PROVE  \/ /\ waiting[p] = <<>> /\ waiting' = waiting /\ pc' = [pc EXCEPT ![c] = "ended"]
         \/ \E d \in Calls :
              /\ waiting[p] # <<>> /\ d = Head(waiting[p]) /\ d # c /\ pc[d] = "queued" /\ choice[d] = p
              /\ waiting' = [waiting EXCEPT ![p] = Tail(waiting[p])]
              /\ pc' = [[pc EXCEPT ![c] = "ended"] EXCEPT ![d] = "woken"]
<1>1. CASE waiting[p] = <<>>
  BY <1>1 DEF Release
<1>2. CASE waiting[p] # <<>>
  <2> DEFINE d == Head(waiting[p])
  <2>1. d \in Calls /\ pc[d] = "queued" /\ choice[d] = p /\ d # c
    BY <1>2, FirstInLine
  <2>2. /\ waiting' = [waiting EXCEPT ![p] = Tail(waiting[p])]
        /\ pc' = [[pc EXCEPT ![c] = "ended"] EXCEPT ![d] = "woken"]
    BY <1>2 DEF Release
  <2>3. QED BY <1>2, <2>1, <2>2
<1>3. QED BY <1>1, <1>2

LEMMA TypeStep ==
  ASSUME CallsBelong, Basics, [Next]_vars
  PROVE  Types'
<1> USE DEF Basics, Types
<1>0. \A c \in Calls : /\ Described(c) \in Providers
                       /\ \A p \in Providers : Masks(c, p) \in BOOLEAN
                       /\ pc[c] \in {"queued", "woken", "calling"} => choice[c] \in Providers
  BY DEF Described, Masks, CallsBelong, CallShape, Begun
<1>a. \A c \in Calls : Admit(c) => choice' \in [Calls -> Providers \cup {NoProvider}]
                                   /\ masked' \in [Calls -> BOOLEAN]
  BY <1>0 DEF Admit
<1>s. \A c \in Calls, p \in Providers \cup {NoProvider} :
        Send(c, p) => /\ pc' \in [Calls -> {"idle", "queued", "woken", "calling", "ended", "refused"}]
                      /\ reached' \in [Calls -> Providers \cup {NoProvider}]
  BY DEF Send
<1>r. ASSUME NEW p \in Providers, NEW c \in Calls, pc[c] \in {"calling", "woken"},
             Release(p, [pc EXCEPT ![c] = "ended"])
      PROVE  /\ pc' \in [Calls -> {"idle", "queued", "woken", "calling", "ended", "refused"}]
             /\ waiting' \in [Providers -> Seq(Calls)]
  <2>1. CASE waiting' = waiting /\ pc' = [pc EXCEPT ![c] = "ended"]
    BY <2>1
  <2>2. ASSUME NEW d \in Calls, waiting[p] # <<>>,
               waiting' = [waiting EXCEPT ![p] = Tail(waiting[p])],
               pc' = [[pc EXCEPT ![c] = "ended"] EXCEPT ![d] = "woken"]
        PROVE  /\ pc' \in [Calls -> {"idle", "queued", "woken", "calling", "ended", "refused"}]
               /\ waiting' \in [Providers -> Seq(Calls)]
    <3>1. Tail(waiting[p]) \in Seq(Calls)
      BY <2>2, FirstInLine
    <3>2. QED BY <2>2, <3>1
  <2> HIDE DEF Basics, Types
  <2>3. QED BY <1>r, <2>1, <2>2, GivenBack
<1>1. \A c \in Calls : Refuse(c) => Types'  BY DEF Refuse
<1>2. \A c \in Calls : BeginInside(c) => Types'
  BY <1>0, <1>a, <1>s DEF BeginInside, Admit
<1>3. \A c \in Calls : BeginNow(c) => Types'
  BY <1>0, <1>a, <1>s DEF BeginNow, Admit
<1>4. \A c \in Calls : BeginQueued(c) => Types'
  BY <1>0, <1>a DEF BeginQueued, Admit
<1>5. \A c \in Calls : TakeTurn(c) => Types'
  <2> SUFFICES ASSUME NEW c \in Calls, TakeTurn(c) PROVE Types'
    OBVIOUS
  <2>1. choice[c] \in Providers
    BY <1>0 DEF TakeTurn
  <2>2. inFlight' \in [Providers -> Int]
    BY <2>1 DEF TakeTurn
  <2>3. QED BY <1>s, <2>1, <2>2 DEF TakeTurn, Target
<1>6. \A c \in Calls : PassTurn(c) => Types'
  BY <1>0, <1>r DEF PassTurn, LeaveTurn
<1>7. \A c \in Calls : End(c) => Types'
  <2> SUFFICES ASSUME NEW c \in Calls, End(c) PROVE Types'
    OBVIOUS
  <2>1. choice[c] \in Providers /\ pc[c] \in {"calling", "woken"}
    BY <1>0 DEF End
  <2>2. CASE choice[c] \in Held(c)
    BY <2>1, <2>2 DEF End
  <2>3. CASE choice[c] \notin Held(c)
    <3>1. Release(choice[c], [pc EXCEPT ![c] = "ended"])
      BY <2>3 DEF End
    <3>2. inFlight' \in [Providers -> Int]
      BY <2>1, <2>3 DEF End
    <3>3. QED BY <1>r, <2>1, <3>1, <3>2 DEF End
  <2>4. QED BY <2>2, <2>3
<1>8. \A kind \in {"chat", "embed"}, p \in Providers : Configure(kind, p) => Types'
  BY DEF Configure
<1>9. \A r \in Runs : Cancel(r) => Types'  BY DEF Cancel
<1>10. UNCHANGED vars => Types'  BY DEF vars
<1> HIDE DEF Basics, Types
<1>11. QED BY <1>1, <1>2, <1>3, <1>4, <1>5, <1>6, <1>7, <1>8, <1>9, <1>10, Cases

(* What a call that began was described with is never looked at again: its   *)
(* provider, its loop's provider and its mask are what they were.            *)
Kept ==
  \A c \in Calls : Begun(c) =>
    Begun(c)' /\ choice'[c] = choice[c] /\ Held(c)' = Held(c) /\ masked'[c] = masked[c]

LEMMA Pinned ==
  ASSUME ToolsAreCalledByLoops, Basics, [Next]_vars
  PROVE  Kept
<1> USE DEF Basics, Types
<1>0. \A c \in Calls : Outer[c] \in Calls \cup {NoCall}
  BY DEF ToolsAreCalledByLoops
<1>1. ASSUME \A c \in Calls : Begun(c) => Begun(c)' /\ choice'[c] = choice[c] /\ masked'[c] = masked[c]
      PROVE  Kept
  BY <1>0, <1>1 DEF Kept, Held, CallShape
<1>2. ASSUME NEW c \in Calls, Admit(c), pc'[c] \in {"queued", "calling"},
             \A d \in Calls \ {c} : pc'[d] = pc[d]
      PROVE  Kept
  BY <1>1, <1>2 DEF Admit, Begun
<1>3. ASSUME UNCHANGED <<choice, masked>>, \A c \in Calls : Begun(c) => Begun(c)'
      PROVE  Kept
  BY <1>1, <1>3
<1>4. \A c \in Calls : Refuse(c) => Kept  BY <1>3 DEF Refuse, Begun
<1>5. \A c \in Calls : BeginInside(c) => Kept  BY <1>2 DEF BeginInside, Send
<1>6. \A c \in Calls : BeginNow(c) => Kept  BY <1>2 DEF BeginNow, Send
<1>7. \A c \in Calls : BeginQueued(c) => Kept  BY <1>2 DEF BeginQueued
<1>8. \A c \in Calls : TakeTurn(c) => Kept  BY <1>3 DEF TakeTurn, Send, Begun
<1>9. ASSUME NEW c \in Calls, NEW p \in Providers, pc[c] \in {"calling", "woken"},
             Release(p, [pc EXCEPT ![c] = "ended"])
      PROVE  \A d \in Calls : Begun(d) => Begun(d)'
  <2>1. CASE pc' = [pc EXCEPT ![c] = "ended"]
    BY <1>9, <2>1 DEF Begun
  <2>2. ASSUME NEW e \in Calls, pc' = [[pc EXCEPT ![c] = "ended"] EXCEPT ![e] = "woken"]
        PROVE  \A d \in Calls : Begun(d) => Begun(d)'
    BY <1>9, <2>2 DEF Begun
  <2> HIDE DEF Basics, Types
  <2>3. QED BY <1>9, <2>1, <2>2, GivenBack
<1>10. \A c \in Calls : PassTurn(c) => Kept
  BY <1>3, <1>9 DEF PassTurn, LeaveTurn, CallShape, Begun
<1>11. \A c \in Calls : End(c) => Kept
  <2> SUFFICES ASSUME NEW c \in Calls, End(c) PROVE Kept
    OBVIOUS
  <2>1. choice[c] \in Providers /\ pc[c] = "calling"
    BY DEF End, CallShape, Begun
  <2>2. CASE choice[c] \in Held(c)
    BY <1>3, <2>2 DEF End, Begun
  <2>3. CASE choice[c] \notin Held(c)
    BY <1>3, <1>9, <2>1, <2>3 DEF End
  <2>4. QED BY <2>2, <2>3
<1>12. \A kind \in {"chat", "embed"}, p \in Providers : Configure(kind, p) => Kept
  BY <1>3 DEF Configure, Begun
<1>13. \A r \in Runs : Cancel(r) => Kept  BY <1>3 DEF Cancel, Begun
<1>14. UNCHANGED vars => Kept  BY <1>3 DEF vars, Begun
<1>15. QED
  BY <1>4, <1>5, <1>6, <1>7, <1>8, <1>10, <1>11, <1>12, <1>13, <1>14, Cases

LEMMA CallStep ==
  ASSUME CallsBelong, ToolsAreCalledByLoops, Basics, [Next]_vars
  PROVE  CallShape'
<1> USE DEF Begun
<1>0. Kept
  BY Pinned
<1>t. /\ pc \in [Calls -> {"idle", "queued", "woken", "calling", "ended", "refused"}]
      /\ choice \in [Calls -> Providers \cup {NoProvider}]
      /\ \A c \in Calls : Described(c) \in Providers
      /\ \A c \in Calls : Outer[c] \in Calls \cup {NoCall} /\ Outer[c] # c
  BY DEF Basics, Types, Described, ToolsAreCalledByLoops, CallsBelong
<1>1. ASSUME NEW c \in Calls,
             \A d \in Calls \ {c} : /\ Begun(d)' => Begun(d)
                                    /\ pc'[d] \in {"queued", "woken"} => pc[d] \in {"queued", "woken"},
             Begun(c)' => /\ choice'[c] \in Providers
                          /\ Outer[c] # NoCall => Begun(Outer[c]),
             pc'[c] \in {"queued", "woken"} => choice'[c] \notin Held(c)'
      PROVE  CallShape'
  BY <1>0, <1>1, <1>t DEF Basics, CallShape, Kept
<1>2. ASSUME \A d \in Calls : /\ Begun(d)' => Begun(d)
                              /\ pc'[d] \in {"queued", "woken"} => pc[d] \in {"queued", "woken"}
      PROVE  CallShape'
  BY <1>0, <1>2, <1>t DEF Basics, CallShape, Kept
<1>3. ASSUME NEW c \in Calls, Admit(c), Described(c) \notin Held(c), pc' = [pc EXCEPT ![c] = "queued"]
      PROVE  CallShape'
  <2>1. choice'[c] = Described(c)
    BY <1>3, <1>t DEF Admit
  <2>2. Held(c)' = Held(c)
    BY <1>3, <1>t, <1>0 DEF Admit, ToolsTurn, Held, Kept
  <2>3. Outer[c] # NoCall => Begun(Outer[c])
    BY <1>3 DEF Admit, ToolsTurn
  <2>4. QED BY <1>1, <1>3, <1>t, <2>1, <2>2, <2>3
<1>4. ASSUME NEW c \in Calls, Admit(c), pc' = [pc EXCEPT ![c] = "calling"]
      PROVE  CallShape'
  <2>1. choice'[c] = Described(c) /\ pc'[c] = "calling"
    BY <1>4, <1>t DEF Admit
  <2>2. Outer[c] # NoCall => Begun(Outer[c])
    BY <1>4 DEF Admit, ToolsTurn
  <2>3. QED BY <1>1, <1>4, <1>t, <2>1, <2>2
<1>5. \A c \in Calls : Refuse(c) => CallShape'  BY <1>2, <1>t DEF Refuse
<1>6. \A c \in Calls : BeginInside(c) => CallShape'  BY <1>4 DEF BeginInside, Send
<1>7. \A c \in Calls : BeginNow(c) => CallShape'  BY <1>4 DEF BeginNow, Send
<1>8. \A c \in Calls : BeginQueued(c) => CallShape'  BY <1>3 DEF BeginQueued
<1>9. \A c \in Calls : TakeTurn(c) => CallShape'  BY <1>2, <1>t DEF TakeTurn, Send
<1>10. ASSUME NEW c \in Calls, NEW p \in Providers, pc[c] \in {"calling", "woken"},
              Release(p, [pc EXCEPT ![c] = "ended"])
       PROVE  CallShape'
  <2>1. CASE pc' = [pc EXCEPT ![c] = "ended"]
    BY <1>2, <1>10, <1>t, <2>1
  <2>2. ASSUME NEW e \in Calls, pc[e] = "queued", pc' = [[pc EXCEPT ![c] = "ended"] EXCEPT ![e] = "woken"]
        PROVE  CallShape'
    BY <1>2, <1>10, <1>t, <2>2
  <2>3. QED BY <1>10, <2>1, <2>2, GivenBack
<1>11. \A c \in Calls : PassTurn(c) => CallShape'
  BY <1>10 DEF PassTurn, LeaveTurn, Basics, CallShape
<1>12. \A c \in Calls : End(c) => CallShape'
  <2> SUFFICES ASSUME NEW c \in Calls, End(c) PROVE CallShape'
    OBVIOUS
  <2>1. choice[c] \in Providers /\ pc[c] = "calling"
    BY DEF End, Basics, CallShape
  <2>2. CASE choice[c] \in Held(c)
    BY <1>2, <1>t, <2>2 DEF End
  <2>3. CASE choice[c] \notin Held(c)
    BY <1>10, <2>1, <2>3 DEF End
  <2>4. QED BY <2>2, <2>3
<1>13. \A kind \in {"chat", "embed"}, p \in Providers : Configure(kind, p) => CallShape'
  BY <1>2 DEF Configure
<1>14. \A r \in Runs : Cancel(r) => CallShape'  BY <1>2 DEF Cancel
<1>15. UNCHANGED vars => CallShape'  BY <1>2 DEF vars
<1>16. QED
  BY <1>5, <1>6, <1>7, <1>8, <1>9, <1>11, <1>12, <1>13, <1>14, <1>15, Cases

(* A queue loses its first or grows by a call that was in none. *)
LEMMA QueueStep ==
  ASSUME CallsBelong, ToolsAreCalledByLoops, Basics, [Next]_vars
  PROVE  QueueShape'
<1>0. Kept
  BY Pinned
<1>t. /\ pc \in [Calls -> {"idle", "queued", "woken", "calling", "ended", "refused"}]
      /\ choice \in [Calls -> Providers \cup {NoProvider}]
      /\ waiting \in [Providers -> Seq(Calls)]
      /\ \A c \in Calls : Described(c) \in Providers
  BY DEF Basics, Types, Described, CallsBelong
<1>1. ASSUME waiting' = waiting,
             \A d \in Calls : pc[d] = "queued" => pc'[d] = "queued"
      PROVE  QueueShape'
  BY <1>0, <1>1 DEF Basics, QueueShape, Kept, Begun
<1>2. ASSUME NEW c \in Calls, Admit(c), pc' = [pc EXCEPT ![c] = "queued"],
             waiting' = [waiting EXCEPT ![Described(c)] = Append(@, c)]
      PROVE  QueueShape'
  <2> DEFINE p == Described(c)
  <2>1. \A d \in Calls : pc[d] = "queued" => d # c /\ pc'[d] = "queued" /\ choice'[d] = choice[d]
    BY <1>0, <1>2, <1>t DEF Admit, Kept, Begun
  <2>2. pc'[c] = "queued" /\ choice'[c] = p
    BY <1>2, <1>t DEF Admit
  <2>3. \A q \in Providers \ {p} : waiting'[q] = waiting[q]
    BY <1>2, <1>t
  <2>4. /\ Len(waiting[p]) \in Nat /\ Len(waiting'[p]) = Len(waiting[p]) + 1
        /\ waiting'[p][Len(waiting[p]) + 1] = c
        /\ \A i \in 1..Len(waiting[p]) : waiting'[p][i] = waiting[p][i]
    BY <1>2, <1>t
  <2>5. \A q \in Providers : \A i \in 1..Len(waiting[q]) : waiting[q][i] # c
    BY <1>2 DEF Basics, QueueShape, Admit
  <2> HIDE DEF p
  <2>6. QED BY <2>1, <2>2, <2>3, <2>4, <2>5 DEF Basics, QueueShape
<1>3. ASSUME NEW c \in Calls, NEW p \in Providers, pc[c] \in {"calling", "woken"},
             Release(p, [pc EXCEPT ![c] = "ended"]), UNCHANGED choice
      PROVE  QueueShape'
  <2>1. CASE waiting' = waiting /\ pc' = [pc EXCEPT ![c] = "ended"]
    BY <1>1, <1>3, <1>t, <2>1
  <2>2. ASSUME NEW d \in Calls, waiting[p] # <<>>, d = Head(waiting[p]), choice[d] = p,
               waiting' = [waiting EXCEPT ![p] = Tail(waiting[p])],
               pc' = [[pc EXCEPT ![c] = "ended"] EXCEPT ![d] = "woken"]
        PROVE  QueueShape'
    <3>1. \A e \in Calls : pc[e] = "queued" /\ e # d => pc'[e] = "queued"
      BY <1>3, <1>t, <2>2
    <3>2. \A q \in Providers \ {p} : waiting'[q] = waiting[q]
      BY <2>2, <1>t
    <3>3. /\ waiting'[p] = Tail(waiting[p]) /\ Len(Tail(waiting[p])) = Len(waiting[p]) - 1
          /\ \A i \in 1..Len(Tail(waiting[p])) :
               /\ Tail(waiting[p])[i] = waiting[p][i + 1] /\ i + 1 \in 1..Len(waiting[p])
               /\ Tail(waiting[p])[i] # d
      BY <2>2, <1>t, FirstInLine
    <3>4. \A q \in Providers \ {p} : \A i \in 1..Len(waiting'[q]) :
            /\ waiting'[q][i] \in Calls /\ pc'[waiting'[q][i]] = "queued" /\ choice'[waiting'[q][i]] = q
            /\ \A j \in 1..Len(waiting'[q]) : waiting'[q][i] = waiting'[q][j] => i = j
      <4>1. \A q \in Providers : \A i \in 1..Len(waiting[q]) :
              /\ waiting[q][i] \in Calls /\ pc[waiting[q][i]] = "queued" /\ choice[waiting[q][i]] = q
              /\ \A j \in 1..Len(waiting[q]) : waiting[q][i] = waiting[q][j] => i = j
        BY DEF Basics, QueueShape
      <4>2. \A q \in Providers \ {p} : \A i \in 1..Len(waiting[q]) : waiting[q][i] # d
        BY <2>2, <4>1
      <4>3. QED BY <1>3, <3>1, <3>2, <4>1, <4>2
    <3>5. \A i \in 1..Len(waiting'[p]) :
            /\ waiting'[p][i] \in Calls /\ pc'[waiting'[p][i]] = "queued" /\ choice'[waiting'[p][i]] = p
            /\ \A j \in 1..Len(waiting'[p]) : waiting'[p][i] = waiting'[p][j] => i = j
      <4>1. \A i \in 1..Len(waiting[p]) :
              /\ waiting[p][i] \in Calls /\ pc[waiting[p][i]] = "queued" /\ choice[waiting[p][i]] = p
              /\ \A j \in 1..Len(waiting[p]) : waiting[p][i] = waiting[p][j] => i = j
        BY DEF Basics, QueueShape
      <4>2. choice' = choice
        BY <1>3
      <4> DEFINE rest == Tail(waiting[p])
      <4>3. \A i \in 1..Len(rest) : /\ rest[i] = waiting[p][i + 1] /\ i + 1 \in 1..Len(waiting[p])
                                    /\ rest[i] # d /\ i \in Int
        BY <3>3
      <4> HIDE DEF rest
      <4>4. QED BY <3>1, <3>3, <4>1, <4>2, <4>3 DEF rest
    <3>6. QED BY <3>4, <3>5 DEF QueueShape
  <2>3. QED BY <1>3, <2>1, <2>2, GivenBack
<1>4. \A c \in Calls : Refuse(c) => QueueShape'  BY <1>1, <1>t DEF Refuse
<1>5. \A c \in Calls : BeginInside(c) => QueueShape'  BY <1>1, <1>t DEF BeginInside, Send, Admit
<1>6. \A c \in Calls : BeginNow(c) => QueueShape'  BY <1>1, <1>t DEF BeginNow, Send, Admit
<1>7. \A c \in Calls : BeginQueued(c) => QueueShape'  BY <1>2 DEF BeginQueued
<1>8. \A c \in Calls : TakeTurn(c) => QueueShape'  BY <1>1, <1>t DEF TakeTurn, Send
<1>9. \A c \in Calls : PassTurn(c) => QueueShape'
  BY <1>3 DEF PassTurn, LeaveTurn, Basics, CallShape, Begun
<1>10. \A c \in Calls : End(c) => QueueShape'
  <2> SUFFICES ASSUME NEW c \in Calls, End(c) PROVE QueueShape'
    OBVIOUS
  <2>1. choice[c] \in Providers /\ pc[c] = "calling"
    BY DEF End, Basics, CallShape, Begun
  <2>2. CASE choice[c] \in Held(c)
    BY <1>1, <1>t, <2>2 DEF End
  <2>3. CASE choice[c] \notin Held(c)
    BY <1>3, <2>1, <2>3 DEF End
  <2>4. QED BY <2>2, <2>3
<1>11. \A kind \in {"chat", "embed"}, p \in Providers : Configure(kind, p) => QueueShape'
  BY <1>1 DEF Configure
<1>12. \A r \in Runs : Cancel(r) => QueueShape'  BY <1>1 DEF Cancel
<1>13. UNCHANGED vars => QueueShape'  BY <1>1 DEF vars
<1>14. QED
  BY <1>4, <1>5, <1>6, <1>7, <1>8, <1>9, <1>10, <1>11, <1>12, <1>13, Cases

-----------------------------------------------------------------------------
(* The slots *)

(* The account of a provider: who holds a slot and who is woken to take one, *)
(* what is in flight, and who waits behind them.                             *)
Account(p, holders, woken, n, line) ==
  /\ IsFiniteSet(holders) /\ IsFiniteSet(woken)
  /\ n = Cardinality(holders)
  /\ n + Cardinality(woken) <= Limit[p]
  /\ line # <<>> => n + Cardinality(woken) = Limit[p]

Accounts == \A p \in Providers : Account(p, Holders(p), Woken(p), inFlight[p], waiting[p])

LEMMA Counts ==
  ASSUME CallsBelong, NEW p \in Providers, NEW H, NEW W, NEW n, NEW line, Account(p, H, W, n, line)
  PROVE  /\ Limit[p] \in Nat /\ n \in Nat /\ Cardinality(W) \in Nat
         /\ IsFiniteSet(H) /\ IsFiniteSet(W) /\ n = Cardinality(H)
<1>1. Limit[p] \in Nat
  BY DEF CallsBelong
<1>2. IsFiniteSet(H) /\ IsFiniteSet(W) /\ n = Cardinality(H)
  BY DEF Account
<1>3. n \in Nat /\ Cardinality(W) \in Nat
  BY <1>2, FS_CardinalityType
<1>4. QED BY <1>1, <1>2, <1>3

(* A call takes a slot that is free, with nobody woken for it. *)
LEMMA SlotTaken ==
  ASSUME CallsBelong, NEW p \in Providers, NEW H, NEW W, NEW n, NEW line, NEW c,
         Account(p, H, W, n, line), c \notin H, W = {}, n < Limit[p]
  PROVE  Account(p, H \cup {c}, W, n + 1, line)
<1>0. /\ Limit[p] \in Nat /\ n \in Nat /\ Cardinality(W) \in Nat
      /\ IsFiniteSet(H) /\ IsFiniteSet(W) /\ n = Cardinality(H)
  BY Counts
<1>1. IsFiniteSet(H \cup {c}) /\ Cardinality(H \cup {c}) = n + 1
  BY <1>0, FS_AddElement, FS_RemoveElement
<1>2. Cardinality(W) = 0
  BY FS_EmptySet
<1>3. QED BY <1>0, <1>1, <1>2 DEF Account

(* A call takes the slot it was woken for. *)
LEMMA TurnTaken ==
  ASSUME CallsBelong, NEW p \in Providers, NEW H, NEW W, NEW n, NEW line, NEW c,
         Account(p, H, W, n, line), c \notin H, c \in W
  PROVE  Account(p, H \cup {c}, W \ {c}, n + 1, line)
<1>0. /\ Limit[p] \in Nat /\ n \in Nat /\ Cardinality(W) \in Nat
      /\ IsFiniteSet(H) /\ IsFiniteSet(W) /\ n = Cardinality(H)
  BY Counts
<1>1. /\ IsFiniteSet(H \cup {c}) /\ Cardinality(H \cup {c}) = n + 1
      /\ IsFiniteSet(W \ {c}) /\ Cardinality(W \ {c}) = Cardinality(W) - 1
  BY <1>0, FS_AddElement, FS_RemoveElement
<1>2. QED BY <1>0, <1>1 DEF Account

(* A call queues where no slot is free. *)
LEMMA Queues ==
  ASSUME CallsBelong, NEW p \in Providers, NEW H, NEW W, NEW n, NEW line, NEW longer,
         Account(p, H, W, n, line), ~(n < Limit[p])
  PROVE  Account(p, H, W, n, longer)
<1>0. /\ Limit[p] \in Nat /\ n \in Nat /\ Cardinality(W) \in Nat
      /\ IsFiniteSet(H) /\ IsFiniteSet(W) /\ n = Cardinality(H)
  BY Counts
<1>1. QED BY <1>0 DEF Account

(* A slot is given back by its holder, or by a call that was woken for it   *)
(* and leaves, with nobody in line.                                          *)
LEMMA Returned ==
  ASSUME CallsBelong, NEW p \in Providers, NEW H, NEW W, NEW n, NEW line, NEW c,
         Account(p, H, W, n, line), line = <<>>, c \in H
  PROVE  Account(p, H \ {c}, W, n - 1, line)
<1>0. /\ Limit[p] \in Nat /\ n \in Nat /\ Cardinality(W) \in Nat
      /\ IsFiniteSet(H) /\ IsFiniteSet(W) /\ n = Cardinality(H)
  BY Counts
<1>1. /\ IsFiniteSet(H \ {c}) /\ Cardinality(H \ {c}) = n - 1
  BY <1>0, FS_AddElement, FS_RemoveElement
<1>2. QED BY <1>0, <1>1 DEF Account

LEMMA NotTaken ==
  ASSUME CallsBelong, NEW p \in Providers, NEW H, NEW W, NEW n, NEW line, NEW c,
         Account(p, H, W, n, line), line = <<>>, c \in W
  PROVE  Account(p, H, W \ {c}, n, line)
<1>0. /\ Limit[p] \in Nat /\ n \in Nat /\ Cardinality(W) \in Nat
      /\ IsFiniteSet(H) /\ IsFiniteSet(W) /\ n = Cardinality(H)
  BY Counts
<1>1. /\ IsFiniteSet(W \ {c}) /\ Cardinality(W \ {c}) = Cardinality(W) - 1
  BY <1>0, FS_AddElement, FS_RemoveElement
<1>2. QED BY <1>0, <1>1 DEF Account

(* Or the first in line is woken for it. *)
LEMMA HandedOn ==
  ASSUME CallsBelong, NEW p \in Providers, NEW H, NEW W, NEW n, NEW line, NEW c, NEW d, NEW shorter,
         Account(p, H, W, n, line), line # <<>>, d \notin W, c \in H
  PROVE  Account(p, H \ {c}, W \cup {d}, n - 1, shorter)
<1>0. /\ Limit[p] \in Nat /\ n \in Nat /\ Cardinality(W) \in Nat
      /\ IsFiniteSet(H) /\ IsFiniteSet(W) /\ n = Cardinality(H)
  BY Counts
<1>1. /\ IsFiniteSet(H \ {c}) /\ Cardinality(H \ {c}) = n - 1
      /\ IsFiniteSet(W \cup {d}) /\ Cardinality(W \cup {d}) = Cardinality(W) + 1
  BY <1>0, FS_AddElement, FS_RemoveElement
<1>2. QED BY <1>0, <1>1 DEF Account

LEMMA PassedOn ==
  ASSUME CallsBelong, NEW p \in Providers, NEW H, NEW W, NEW n, NEW line, NEW c, NEW d, NEW shorter,
         Account(p, H, W, n, line), line # <<>>, d \notin W, c \in W
  PROVE  Account(p, H, (W \ {c}) \cup {d}, n, shorter)
<1>0. /\ Limit[p] \in Nat /\ n \in Nat /\ Cardinality(W) \in Nat
      /\ IsFiniteSet(H) /\ IsFiniteSet(W) /\ n = Cardinality(H)
  BY Counts
<1>1. IsFiniteSet(W \ {c}) /\ Cardinality(W \ {c}) = Cardinality(W) - 1
  BY <1>0, FS_AddElement, FS_RemoveElement
<1>2. d \notin W \ {c}
  OBVIOUS
<1>3. IsFiniteSet((W \ {c}) \cup {d}) /\ Cardinality((W \ {c}) \cup {d}) = Cardinality(W \ {c}) + 1
  BY <1>1, <1>2, FS_AddElement
<1>4. QED BY <1>0, <1>1, <1>3 DEF Account

(* But for the calls of X nothing moves. *)
LEMMA OthersStay ==
  ASSUME Kept, NEW X,
         \A c \in Calls \ X : (pc'[c] = "calling" <=> pc[c] = "calling")
                              /\ (pc'[c] = "woken" <=> pc[c] = "woken")
  PROVE  \A p \in Providers : Holders(p)' \ X = Holders(p) \ X /\ Woken(p)' \ X = Woken(p) \ X
BY DEF Kept, Begun, Holders, Woken

LEMMA AccountStep ==
  ASSUME CallsBelong, ToolsAreCalledByLoops, Basics, Accounts, [Next]_vars
  PROVE  Accounts'
<1>0. Kept
  BY Pinned
<1>t. /\ pc \in [Calls -> {"idle", "queued", "woken", "calling", "ended", "refused"}]
      /\ choice \in [Calls -> Providers \cup {NoProvider}]
      /\ waiting \in [Providers -> Seq(Calls)] /\ inFlight \in [Providers -> Int]
      /\ \A c \in Calls : Described(c) \in Providers
  BY DEF Basics, Types, Described, CallsBelong
\* Nobody gets or gives back a slot.
<1>1. ASSUME inFlight' = inFlight, waiting' = waiting,
             \A p \in Providers : Holders(p)' = Holders(p) /\ Woken(p)' = Woken(p)
      PROVE  Accounts'
  BY <1>1 DEF Accounts
<1>2. ASSUME inFlight' = inFlight, waiting' = waiting, NEW c \in Calls, NEW s \in {"idle", "refused", "ended"},
             pc' = [pc EXCEPT ![c] = s], pc[c] # "woken", pc[c] = "calling" => choice[c] \in Held(c)
      PROVE  Accounts'
  <2>1. \A p \in Providers : Holders(p)' \ {c} = Holders(p) \ {c} /\ Woken(p)' \ {c} = Woken(p) \ {c}
    BY <1>0, <1>2, <1>t, OthersStay
  <2>2. \A p \in Providers : c \notin Holders(p) /\ c \notin Woken(p)
                             /\ c \notin Holders(p)' /\ c \notin Woken(p)'
    BY <1>2, <1>t DEF Holders, Woken
  <2>3. QED BY <1>1, <1>2, <2>1, <2>2
<1>3. ASSUME inFlight' = inFlight, waiting' = waiting, pc' = pc
      PROVE  Accounts'
  <2>1. \A p \in Providers : Holders(p)' = Holders(p) /\ Woken(p)' = Woken(p)
    BY <1>0, <1>3, OthersStay
  <2>2. QED BY <1>1, <1>3, <2>1
\* One slot is given back.
<1>4. ASSUME NEW c \in Calls, NEW p \in Providers, pc[c] \in {"calling", "woken"}, choice[c] = p,
             choice[c] \notin Held(c), Release(p, [pc EXCEPT ![c] = "ended"]),
             inFlight' = IF pc[c] = "calling" THEN [inFlight EXCEPT ![p] = @ - 1] ELSE inFlight
      PROVE  Accounts'
  <2>0. /\ pc[c] = "calling" => c \in Holders(p) /\ c \notin Woken(p)
        /\ pc[c] = "woken" => c \in Woken(p) /\ c \notin Holders(p)
        /\ \A q \in Providers \ {p} : c \notin Holders(q) /\ c \notin Woken(q)
        /\ Account(p, Holders(p), Woken(p), inFlight[p], waiting[p])
        /\ inFlight'[p] = IF pc[c] = "calling" THEN inFlight[p] - 1 ELSE inFlight[p]
        /\ \A q \in Providers \ {p} : inFlight'[q] = inFlight[q]
    BY <1>4, <1>t DEF Holders, Woken, Accounts
  <2>1. ASSUME waiting[p] = <<>>, waiting' = waiting, pc' = [pc EXCEPT ![c] = "ended"]
        PROVE  Accounts'
    <3>1. \A q \in Providers : Holders(q)' \ {c} = Holders(q) \ {c} /\ Woken(q)' \ {c} = Woken(q) \ {c}
      BY <1>0, <1>t, <2>1, OthersStay
    <3>2. \A q \in Providers : c \notin Holders(q)' /\ c \notin Woken(q)'
      BY <1>t, <2>1 DEF Holders, Woken
    <3>3. \A q \in Providers \ {p} : Holders(q)' = Holders(q) /\ Woken(q)' = Woken(q)
      BY <2>0, <3>1, <3>2
    <3>4. CASE pc[c] = "calling"
      <4>1. Holders(p)' = Holders(p) \ {c} /\ Woken(p)' = Woken(p)
        BY <2>0, <3>1, <3>2, <3>4
      <4>2. Account(p, Holders(p)', Woken(p)', inFlight'[p], waiting'[p])
        BY <2>0, <2>1, <3>4, <4>1, Returned
      <4>3. QED BY <2>0, <2>1, <3>3, <4>2 DEF Accounts
    <3>5. CASE pc[c] = "woken"
      <4>1. Holders(p)' = Holders(p) /\ Woken(p)' = Woken(p) \ {c}
        BY <2>0, <3>1, <3>2, <3>5
      <4>2. Account(p, Holders(p)', Woken(p)', inFlight'[p], waiting'[p])
        BY <2>0, <2>1, <3>5, <4>1, NotTaken
      <4>3. QED BY <2>0, <2>1, <3>3, <4>2 DEF Accounts
    <3>6. QED BY <1>4, <3>4, <3>5
  <2>2. ASSUME NEW d \in Calls, waiting[p] # <<>>, d # c, pc[d] = "queued", choice[d] = p,
               waiting' = [waiting EXCEPT ![p] = Tail(waiting[p])],
               pc' = [[pc EXCEPT ![c] = "ended"] EXCEPT ![d] = "woken"]
        PROVE  Accounts'
    <3>1. \A q \in Providers : /\ Holders(q)' \ {c, d} = Holders(q) \ {c, d}
                               /\ Woken(q)' \ {c, d} = Woken(q) \ {c, d}
      BY <1>0, <1>t, <2>2, OthersStay
    <3>2. /\ \A q \in Providers : /\ c \notin Holders(q)' /\ c \notin Woken(q)'
                                  /\ d \notin Holders(q)' /\ d \notin Holders(q) /\ d \notin Woken(q)
          /\ d \in Woken(p)'
          /\ \A q \in Providers \ {p} : d \notin Woken(q)'
      BY <1>0, <1>t, <2>2 DEF Holders, Woken, Kept, Begun
    <3>3. \A q \in Providers \ {p} : /\ Holders(q)' = Holders(q) /\ Woken(q)' = Woken(q)
                                     /\ waiting'[q] = waiting[q]
      <4>1. ASSUME NEW q \in Providers \ {p} PROVE Holders(q)' = Holders(q)
        <5>1. c \notin Holders(q) /\ c \notin Holders(q)' /\ d \notin Holders(q) /\ d \notin Holders(q)'
          BY <2>0, <3>2
        <5>2. Holders(q)' \ {c, d} = Holders(q) \ {c, d}
          BY <3>1
        <5>3. QED BY <5>1, <5>2
      <4>2. ASSUME NEW q \in Providers \ {p} PROVE Woken(q)' = Woken(q)
        <5>1. c \notin Woken(q) /\ c \notin Woken(q)' /\ d \notin Woken(q) /\ d \notin Woken(q)'
          BY <2>0, <3>2
        <5>2. Woken(q)' \ {c, d} = Woken(q) \ {c, d}
          BY <3>1
        <5>3. QED BY <5>1, <5>2
      <4>3. \A q \in Providers \ {p} : waiting'[q] = waiting[q]
        BY <1>t, <2>2
      <4>4. QED BY <4>1, <4>2, <4>3
    <3>4. CASE pc[c] = "calling"
      <4>1. Holders(p)' = Holders(p) \ {c} /\ Woken(p)' = Woken(p) \cup {d}
        BY <2>0, <3>1, <3>2, <3>4
      <4>2. Account(p, Holders(p)', Woken(p)', inFlight'[p], waiting'[p])
        BY <2>0, <2>2, <3>2, <3>4, <4>1, HandedOn
      <4>3. QED BY <2>0, <3>3, <4>2 DEF Accounts
    <3>5. CASE pc[c] = "woken"
      <4>1. Holders(p)' = Holders(p) /\ Woken(p)' = (Woken(p) \ {c}) \cup {d}
        BY <2>0, <3>1, <3>2, <3>5
      <4>2. Account(p, Holders(p)', Woken(p)', inFlight'[p], waiting'[p])
        BY <2>0, <2>2, <3>2, <3>5, <4>1, PassedOn
      <4>3. QED BY <2>0, <3>3, <4>2 DEF Accounts
    <3>6. QED BY <1>4, <3>4, <3>5
  <2>3. QED BY <1>4, <2>1, <2>2, GivenBack
<1>5. \A c \in Calls : Refuse(c) => Accounts'
  BY <1>2 DEF Refuse
<1>6. \A c \in Calls : BeginInside(c) => Accounts'
  <2> SUFFICES ASSUME NEW c \in Calls, BeginInside(c) PROVE Accounts'
    OBVIOUS
  <2>1. \A p \in Providers : Holders(p)' \ {c} = Holders(p) \ {c} /\ Woken(p)' \ {c} = Woken(p) \ {c}
    BY <1>0, <1>t, OthersStay DEF BeginInside, Send
  <2>2. Held(c)' = Held(c) /\ choice'[c] = Described(c) /\ Described(c) \in Held(c)
    BY <1>0, <1>t DEF BeginInside, Admit, ToolsTurn, Held, Kept, Begun, ToolsAreCalledByLoops
  <2>3. \A p \in Providers : c \notin Holders(p) /\ c \notin Woken(p)
                             /\ c \notin Holders(p)' /\ c \notin Woken(p)'
    BY <1>t, <2>2 DEF BeginInside, Admit, Send, Holders, Woken
  <2>4. \A p \in Providers : Holders(p)' = Holders(p) /\ Woken(p)' = Woken(p)
    BY <2>1, <2>3
  <2>5. QED BY <1>1, <2>4 DEF BeginInside
<1>7. \A c \in Calls : BeginNow(c) => Accounts'
  <2> SUFFICES ASSUME NEW c \in Calls, BeginNow(c) PROVE Accounts'
    OBVIOUS
  <2> PICK p \in Providers : p = Described(c)
    BY <1>t
  <2>1. \A q \in Providers : Holders(q)' \ {c} = Holders(q) \ {c} /\ Woken(q)' \ {c} = Woken(q) \ {c}
    BY <1>0, <1>t, OthersStay DEF BeginNow, Send
  <2>2. Held(c)' = Held(c) /\ choice'[c] = p /\ p \notin Held(c) /\ pc'[c] = "calling" /\ pc[c] = "idle"
    <3>1. choice'[c] = p /\ p \notin Held(c) /\ pc'[c] = "calling" /\ pc[c] = "idle"
      BY <1>t DEF BeginNow, Send, Admit
    <3>2. Outer[c] # NoCall => choice'[Outer[c]] = choice[Outer[c]]
      BY <1>0, <1>t DEF BeginNow, Admit, ToolsTurn, Kept, Begun, ToolsAreCalledByLoops
    <3>3. QED BY <3>1, <3>2 DEF Held
  <2>3. /\ c \in Holders(p)'
        /\ \A q \in Providers : c \notin Holders(q) /\ c \notin Woken(q) /\ c \notin Woken(q)'
        /\ \A q \in Providers \ {p} : c \notin Holders(q)'
    BY <2>2 DEF Holders, Woken
  <2>4. p \in Providers /\ Woken(p) = {} /\ inFlight[p] < Limit[p]
    BY <1>t DEF BeginNow, Admit, Drained, Woken, HasRoom
  <2>5. /\ inFlight'[p] = inFlight[p] + 1 /\ waiting' = waiting
        /\ \A q \in Providers \ {p} : inFlight'[q] = inFlight[q]
    BY <1>t, <2>4 DEF BeginNow
  <2>6. Holders(p)' = Holders(p) \cup {c} /\ Woken(p)' = Woken(p)
    BY <2>1, <2>3, <2>4
  <2>7. Account(p, Holders(p)', Woken(p)', inFlight'[p], waiting'[p])
    <3>1. Account(p, Holders(p), Woken(p), inFlight[p], waiting[p])
      BY DEF Accounts
    <3>2. Account(p, Holders(p) \cup {c}, Woken(p), inFlight[p] + 1, waiting[p])
      BY <2>3, <2>4, <3>1, SlotTaken
    <3>3. QED BY <2>5, <2>6, <3>2
  <2>8. \A q \in Providers \ {p} : Holders(q)' = Holders(q) /\ Woken(q)' = Woken(q)
    BY <2>1, <2>3
  <2>9. QED BY <2>5, <2>7, <2>8 DEF Accounts
<1>8. \A c \in Calls : BeginQueued(c) => Accounts'
  <2> SUFFICES ASSUME NEW c \in Calls, BeginQueued(c) PROVE Accounts'
    OBVIOUS
  <2> PICK p \in Providers : p = Described(c)
    BY <1>t
  <2>1. \A q \in Providers : Holders(q)' \ {c} = Holders(q) \ {c} /\ Woken(q)' \ {c} = Woken(q) \ {c}
    BY <1>0, <1>t, OthersStay DEF BeginQueued
  <2>2. \A q \in Providers : c \notin Holders(q) /\ c \notin Woken(q)
                             /\ c \notin Holders(q)' /\ c \notin Woken(q)'
    BY <1>t DEF BeginQueued, Admit, Holders, Woken
  <2>3. /\ p \in Providers /\ ~(inFlight[p] < Limit[p]) /\ inFlight' = inFlight
        /\ \A q \in Providers \ {p} : waiting'[q] = waiting[q]
    BY <1>t DEF BeginQueued, HasRoom
  <2>4. \A q \in Providers : Holders(q)' = Holders(q) /\ Woken(q)' = Woken(q)
    BY <2>1, <2>2
  <2>5. Account(p, Holders(p)', Woken(p)', inFlight'[p], waiting'[p])
    BY <2>3, <2>4, Queues DEF Accounts
  <2>6. QED BY <2>3, <2>4, <2>5 DEF Accounts
<1>9. \A c \in Calls : TakeTurn(c) => Accounts'
  <2> SUFFICES ASSUME NEW c \in Calls, TakeTurn(c) PROVE Accounts'
    OBVIOUS
  <2> PICK p \in Providers : p = choice[c]
    BY <1>t DEF TakeTurn, Basics, CallShape, Begun
  <2>1. \A q \in Providers : Holders(q)' \ {c} = Holders(q) \ {c} /\ Woken(q)' \ {c} = Woken(q) \ {c}
    BY <1>0, <1>t, OthersStay DEF TakeTurn, Send
  <2>2. /\ p \in Providers /\ p \notin Held(c) /\ Held(c)' = Held(c) /\ choice'[c] = p
        /\ pc[c] = "woken" /\ pc'[c] = "calling"
    BY <1>0, <1>t DEF TakeTurn, Send, Kept, Begun, Basics, CallShape
  <2>3. /\ c \in Holders(p)' /\ c \in Woken(p)
        /\ \A q \in Providers : c \notin Holders(q) /\ c \notin Woken(q)'
        /\ \A q \in Providers \ {p} : c \notin Holders(q)' /\ c \notin Woken(q)
    BY <2>2 DEF Holders, Woken
  <2>4. /\ inFlight'[p] = inFlight[p] + 1 /\ waiting' = waiting
        /\ \A q \in Providers \ {p} : inFlight'[q] = inFlight[q]
    BY <1>t, <2>2 DEF TakeTurn
  <2>5. Holders(p)' = Holders(p) \cup {c} /\ Woken(p)' = Woken(p) \ {c}
    BY <2>1, <2>2, <2>3
  <2>6. Account(p, Holders(p)', Woken(p)', inFlight'[p], waiting'[p])
    BY <2>2, <2>3, <2>4, <2>5, TurnTaken DEF Accounts
  <2>7. \A q \in Providers \ {p} : Holders(q)' = Holders(q) /\ Woken(q)' = Woken(q)
    BY <2>1, <2>3
  <2>8. QED BY <2>4, <2>6, <2>7 DEF Accounts
<1>10. \A c \in Calls : PassTurn(c) => Accounts'
  BY <1>4 DEF PassTurn, LeaveTurn, Basics, CallShape, Begun
<1>11. \A c \in Calls : End(c) => Accounts'
  <2> SUFFICES ASSUME NEW c \in Calls, End(c) PROVE Accounts'
    OBVIOUS
  <2>1. choice[c] \in Providers /\ pc[c] = "calling"
    BY DEF End, Basics, CallShape, Begun
  <2>2. CASE choice[c] \in Held(c)
    BY <1>2, <2>1, <2>2 DEF End
  <2>3. CASE choice[c] \notin Held(c)
    BY <1>4, <2>1, <2>3 DEF End
  <2>4. QED BY <2>2, <2>3
<1>12. \A kind \in {"chat", "embed"}, p \in Providers : Configure(kind, p) => Accounts'
  BY <1>3 DEF Configure
<1>13. \A r \in Runs : Cancel(r) => Accounts'  BY <1>3 DEF Cancel
<1>14. UNCHANGED vars => Accounts'  BY <1>3 DEF vars
<1>15. QED
  BY <1>5, <1>6, <1>7, <1>8, <1>9, <1>10, <1>11, <1>12, <1>13, <1>14, Cases

-----------------------------------------------------------------------------
(* What is sent *)

(* What began was consented to and masked for the provider it is pinned to, *)
(* which is where it goes, if anywhere.                                      *)
CoveredShape ==
  \A c \in Calls :
    /\ Begun(c) => Consented(c, choice[c]) /\ masked[c] = Masks(c, choice[c])
    /\ reached[c] # NoProvider => Begun(c) /\ reached[c] = choice[c]

LEMMA CoveredStep ==
  ASSUME CallsBelong, ToolsAreCalledByLoops, Basics, CoveredShape, [Next]_vars
  PROVE  CoveredShape'
<1> USE DEF Begun
<1>0. Kept
  BY Pinned
<1>t. /\ pc \in [Calls -> {"idle", "queued", "woken", "calling", "ended", "refused"}]
      /\ choice \in [Calls -> Providers \cup {NoProvider}]
      /\ masked \in [Calls -> BOOLEAN]
      /\ reached \in [Calls -> Providers \cup {NoProvider}]
  BY DEF Basics, Types
\* Nothing begins, and nothing is sent.
<1>1. ASSUME reached' = reached, \A c \in Calls : Begun(c)' => Begun(c)
      PROVE  CoveredShape'
  BY <1>0, <1>1 DEF CoveredShape, Kept, Consented, Masks
<1>2. ASSUME NEW c \in Calls, Admit(c), pc' = [pc EXCEPT ![c] = "queued"], reached' = reached
      PROVE  CoveredShape'
  <2>1. /\ Consented(c, choice'[c]) /\ masked'[c] = Masks(c, choice'[c])
        /\ reached[c] = NoProvider
    BY <1>2, <1>t DEF Admit, CoveredShape
  <2>2. \A d \in Calls \ {c} : Begun(d)' => Begun(d)
    BY <1>2, <1>t
  <2>3. QED BY <1>0, <1>2, <2>1, <2>2 DEF CoveredShape, Kept, Consented, Masks
<1>3. ASSUME NEW c \in Calls, Admit(c), Send(c, Described(c))
      PROVE  CoveredShape'
  <2>1. /\ Consented(c, choice'[c]) /\ masked'[c] = Masks(c, choice'[c])
        /\ reached'[c] = choice'[c] /\ Begun(c)'
    BY <1>3, <1>t DEF Admit, Send
  <2>2. \A d \in Calls \ {c} : (Begun(d)' => Begun(d)) /\ reached'[d] = reached[d]
    BY <1>3, <1>t DEF Send
  <2>3. QED BY <1>0, <2>1, <2>2 DEF CoveredShape, Kept, Consented, Masks
<1>4. \A c \in Calls : Refuse(c) => CoveredShape'  BY <1>1, <1>t DEF Refuse
<1>5. \A c \in Calls : BeginInside(c) => CoveredShape'  BY <1>3 DEF BeginInside
<1>6. \A c \in Calls : BeginNow(c) => CoveredShape'  BY <1>3 DEF BeginNow
<1>7. \A c \in Calls : BeginQueued(c) => CoveredShape'  BY <1>2 DEF BeginQueued
<1>8. \A c \in Calls : TakeTurn(c) => CoveredShape'
  <2> SUFFICES ASSUME NEW c \in Calls, TakeTurn(c) PROVE CoveredShape'
    OBVIOUS
  <2>1. /\ Begun(c) /\ Begun(c)' /\ choice'[c] = choice[c]
        /\ reached'[c] = choice[c]
    BY <1>0, <1>t DEF TakeTurn, Send, Target, Kept
  <2>2. \A d \in Calls \ {c} : (Begun(d)' => Begun(d)) /\ reached'[d] = reached[d]
    BY <1>t DEF TakeTurn, Send
  <2>3. QED BY <1>0, <2>1, <2>2 DEF CoveredShape, Kept, Consented, Masks
<1>9. ASSUME NEW c \in Calls, NEW p \in Providers, pc[c] \in {"calling", "woken"},
             Release(p, [pc EXCEPT ![c] = "ended"]), reached' = reached
      PROVE  CoveredShape'
  <2>1. CASE pc' = [pc EXCEPT ![c] = "ended"]
    BY <1>1, <1>9, <1>t, <2>1
  <2>2. ASSUME NEW d \in Calls, pc[d] = "queued", pc' = [[pc EXCEPT ![c] = "ended"] EXCEPT ![d] = "woken"]
        PROVE  CoveredShape'
    BY <1>1, <1>9, <1>t, <2>2
  <2>3. QED BY <1>9, <2>1, <2>2, GivenBack
<1>10. \A c \in Calls : PassTurn(c) => CoveredShape'
  BY <1>9 DEF PassTurn, LeaveTurn, Basics, CallShape
<1>11. \A c \in Calls : End(c) => CoveredShape'
  <2> SUFFICES ASSUME NEW c \in Calls, End(c) PROVE CoveredShape'
    OBVIOUS
  <2>1. choice[c] \in Providers /\ pc[c] = "calling"
    BY DEF End, Basics, CallShape
  <2>2. CASE choice[c] \in Held(c)
    BY <1>1, <1>t, <2>2 DEF End
  <2>3. CASE choice[c] \notin Held(c)
    BY <1>9, <2>1, <2>3 DEF End
  <2>4. QED BY <2>2, <2>3
<1>12. \A kind \in {"chat", "embed"}, p \in Providers : Configure(kind, p) => CoveredShape'
  BY <1>1 DEF Configure
<1>13. \A r \in Runs : Cancel(r) => CoveredShape'  BY <1>1 DEF Cancel
<1>14. UNCHANGED vars => CoveredShape'  BY <1>1 DEF vars
<1>15. QED
  BY <1>4, <1>5, <1>6, <1>7, <1>8, <1>10, <1>11, <1>12, <1>13, <1>14, Cases

-----------------------------------------------------------------------------
GatewayInv == Basics /\ Accounts /\ CoveredShape

LEMMA Invariant ==
  ASSUME CallsBelong, ToolsAreCalledByLoops
  PROVE  Spec => []GatewayInv
<1>1. Init => GatewayInv
  <2> SUFFICES ASSUME Init PROVE GatewayInv
    OBVIOUS
  <2>1. Basics
    BY DEF Init, Basics, Types, CallShape, QueueShape, Begun
  <2>2. \A p \in Providers : Holders(p) = {} /\ Woken(p) = {}
    BY DEF Init, Holders, Woken
  <2>3. \A p \in Providers : Limit[p] \in Nat /\ inFlight[p] = 0 /\ waiting[p] = <<>>
    BY DEF Init, CallsBelong
  <2>4. Accounts
    <3>1. IsFiniteSet({}) /\ Cardinality({}) = 0
      BY FS_EmptySet
    <3>2. \A p \in Providers : Account(p, {}, {}, 0, <<>>)
      BY <2>3, <3>1 DEF Account
    <3>3. \A p \in Providers : Account(p, Holders(p), Woken(p), inFlight[p], waiting[p])
      BY <2>2, <2>3, <3>2
    <3>4. QED BY <3>3 DEF Accounts
  <2>5. CoveredShape
    BY DEF Init, CoveredShape, Begun
  <2>6. QED BY <2>1, <2>4, <2>5 DEF GatewayInv
<1>2. GatewayInv /\ [Next]_vars => GatewayInv'
  BY TypeStep, CallStep, QueueStep, AccountStep, CoveredStep DEF GatewayInv, Basics
<1>3. QED BY <1>1, <1>2, PTL DEF Spec

(* Slots: no provider has more requests of its own than its limit, and no    *)
(* wake-up is lost, whatever is cancelled when (ai.ts, guarded and release). *)
THEOREM SlotsAreExact ==
  ASSUME CallsBelong, ToolsAreCalledByLoops
  PROVE  Spec => []SlotsAddUp
<1>1. GatewayInv => SlotsAddUp
  <2> SUFFICES ASSUME GatewayInv PROVE SlotsAddUp
    OBVIOUS
  <2>1. \A p \in Providers : Account(p, Holders(p), Woken(p), inFlight[p], waiting[p])
    BY DEF GatewayInv, Accounts
  <2>2. \A p \in Providers : inFlight[p] \in Nat
    BY <2>1, FS_CardinalityType DEF Account
  <2>3. TypeOK
    BY <2>2 DEF GatewayInv, Basics, Types, TypeOK
  <2>4. SlotsWithinLimit /\ NoSlotIsLost
    BY <2>1 DEF Account, SlotsWithinLimit, NoSlotIsLost
  <2>5. QED BY <2>3, <2>4 DEF SlotsAddUp
<1>2. QED BY <1>1, Invariant, PTL

(* Whatever the settings become while a call waits, what reaches a hosted    *)
(* provider is masked, and agreed to for that provider (ai.ts, pinned).      *)
THEOREM Covered ==
  ASSUME CallsBelong, ToolsAreCalledByLoops
  PROVE  Spec => []HostedIsCovered
<1>1. GatewayInv => HostedIsCovered
  BY DEF GatewayInv, CoveredShape, HostedIsCovered, Consented, Masks
<1>2. QED BY <1>1, Invariant, PTL
=============================================================================
