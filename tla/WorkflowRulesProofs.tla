------------------------ MODULE WorkflowRulesProofs ------------------------
(***************************************************************************)
(* The laws of WorkflowRules hold in every behaviour, whatever the nodes.  *)
(* The laws are those of WorkflowGraphProofs, whose assumptions on a graph *)
(* are invariants here, where the graph is a variable.  The slice of the   *)
(* sorted candidates holds what WorkflowGraph calls StableReady, and the   *)
(* loop of RollbackPlan ends with what it calls the rollback, so that the  *)
(* workflows with the loop implement those with the rollback as one step.  *)
(***************************************************************************)
EXTENDS RollbackPlan, FiniteSetTheorems, SequenceTheorems, TLAPS

L == INSTANCE WorkflowGraphProofs WITH Edges <- edges

Inv ==
  /\ edges \in {E \in SUBSET (Nodes \X Nodes) : Acyclic(E)}
  /\ st \in [Nodes -> G!NodeStatus]
  /\ limit \in 1..MaxLimit

LEMMA GraphIsValid ==
  ASSUME Inv
  PROVE  /\ L!GraphAssumption
         /\ L!AcyclicAssumption
         /\ st \in L!Statuses
         /\ limit \in Int
<1>1. L!GraphAssumption
  BY RulesAssumption DEF Inv, L!IsFiniteSet, IsFiniteSet
<1>2. L!AcyclicAssumption
  BY DEF Inv, Acyclic, L!Preds
<1>3. st \in L!Statuses /\ limit \in Int
  BY RulesAssumption DEF Inv, L!Statuses, G!NodeStatus, L!NodeStatus
<1> QED BY <1>1, <1>2, <1>3

\* The two instances of WorkflowGraph are one: their operators have the same
\* definitions.
LEMMA SameOperators ==
  ASSUME NEW s, NEW k
  PROVE  /\ G!Admit(s, k) = L!Admit(s, k)
         /\ G!Recalculate(s, k) = L!Recalculate(s, k)
         /\ \A n : G!RolledBack(s, k, n) = L!RolledBack(s, k, n)
         /\ G!AdmitFillsTheSlots(s, k) = L!AdmitFillsTheSlots(s, k)
         /\ G!ProjectionShowsWork(s) = L!ProjectionShowsWork(s)
         /\ G!NodeStatus = L!NodeStatus
<1>1. G!Admit(s, k) = L!Admit(s, k)
  BY DEF G!Admit, L!Admit, G!StableReady, L!StableReady, G!FirstK, L!FirstK,
     G!Cardinality, L!Cardinality, G!ReadyNodes, L!ReadyNodes, G!Active,
     L!Active, G!ActiveStatus, L!ActiveStatus, G!EditableStatus,
     L!EditableStatus, G!DoneStatus, L!DoneStatus, G!Preds, L!Preds
<1>2. G!Recalculate(s, k) = L!Recalculate(s, k)
  BY DEF G!Recalculate, L!Recalculate, G!Admit, L!Admit, G!StableReady,
     L!StableReady, G!FirstK, L!FirstK, G!Cardinality, L!Cardinality,
     G!ReadyNodes, L!ReadyNodes, G!Active, L!Active, G!ActiveStatus,
     L!ActiveStatus, G!EditableStatus, L!EditableStatus, G!DoneStatus,
     L!DoneStatus, G!Preds, L!Preds
<1>3. \A n : G!RolledBack(s, k, n) = L!RolledBack(s, k, n)
  BY DEF G!RolledBack, L!RolledBack, G!Affected, L!Affected, G!Cardinality,
     L!Cardinality, G!Active, L!Active, G!ActiveStatus, L!ActiveStatus
<1>4. G!AdmitFillsTheSlots(s, k) = L!AdmitFillsTheSlots(s, k)
  BY DEF G!AdmitFillsTheSlots, L!AdmitFillsTheSlots, G!Recalculate,
     L!Recalculate, G!Admit, L!Admit, G!StableReady, L!StableReady,
     G!FirstK, L!FirstK, G!Cardinality, L!Cardinality, G!ReadyNodes,
     L!ReadyNodes, G!Active, L!Active, G!ActiveStatus, L!ActiveStatus,
     G!EditableStatus, L!EditableStatus, G!DoneStatus, L!DoneStatus,
     G!Preds, L!Preds
<1>5. G!ProjectionShowsWork(s) = L!ProjectionShowsWork(s)
  BY DEF G!ProjectionShowsWork, L!ProjectionShowsWork, G!Projection,
     L!Projection, G!AllDone, L!AllDone, G!ReadyNodes, L!ReadyNodes,
     G!Active, L!Active, G!ActiveStatus, L!ActiveStatus, G!EditableStatus,
     L!EditableStatus, G!DoneStatus, L!DoneStatus, G!Preds, L!Preds
<1>6. G!NodeStatus = L!NodeStatus
  BY DEF G!NodeStatus, L!NodeStatus
<1> QED BY <1>1, <1>2, <1>3, <1>4, <1>5, <1>6

LEMMA InvHolds == Spec => []Inv
<1>1. Init => Inv
  BY RulesAssumption DEF Init, Inv
<1>2. Inv /\ [Next]_vars => Inv'
  <2> SUFFICES ASSUME Inv, [Next]_vars PROVE Inv'
    OBVIOUS
  <2>1. L!Statuses = [Nodes -> G!NodeStatus]
    BY SameOperators DEF L!Statuses
  <2>2. st' \in [Nodes -> G!NodeStatus] /\ edges' = edges /\ limit' = limit
    <3>1. CASE AdmitStep
      <4>1. L!Admit(st, limit) \in L!Statuses
        BY GraphIsValid, L!AdmitShape
      <4> QED BY <2>1, <3>1, <4>1, SameOperators DEF AdmitStep
    <3>2. CASE RecalculateStep
      <4>1. L!Recalculate(st, limit) \in L!Statuses
        BY GraphIsValid, L!RecalculateShape
      <4> QED BY <2>1, <3>2, <4>1, SameOperators DEF RecalculateStep
    <3>3. CASE RollbackStep
      <4>1. PICK n \in Nodes : st' = G!RolledBack(st, limit, n) /\ UNCHANGED <<edges, limit>>
        BY <3>3 DEF RollbackStep
      <4>2. L!RolledBack(st, limit, n) \in L!Statuses
        BY GraphIsValid, L!RolledBackShape
      <4> QED BY <2>1, <4>1, <4>2, SameOperators
    <3>4. CASE UNCHANGED vars
      BY <3>4 DEF Inv, vars
    <3> QED BY <3>1, <3>2, <3>3, <3>4 DEF Next
  <2> QED BY <2>2 DEF Inv
<1> QED BY <1>1, <1>2, PTL DEF Spec

(* A transaction that recomputes readiness leaves no slot for the next one *)
(* to fill and exceeds the limit only where started nodes did, on every    *)
(* finite acyclic graph and from every statuses                            *)
(* (domain/workflow.ts:296-319 and 772-790).                               *)
THEOREM AdmissionFillsTheSlots == Spec => []AdmitFillsTheSlots
<1>1. ASSUME Inv PROVE AdmitFillsTheSlots
  <2>1. L!AdmitFillsTheSlots(st, limit)
    BY <1>1, GraphIsValid, L!AdmissionLaw
  <2> QED BY <2>1, SameOperators DEF AdmitFillsTheSlots
<1> QED BY <1>1, InvHolds, PTL

(* The projection never hides a node that can be started or admitted, on   *)
(* every finite acyclic graph and from every statuses                      *)
(* (domain/workflow.ts:818-870).                                           *)
THEOREM ProjectionShowsAllWork == Spec => []ProjectionShowsWork
<1>1. ASSUME Inv PROVE ProjectionShowsWork
  <2>1. L!ProjectionShowsWork(st)
    BY <1>1, GraphIsValid, L!ProjectionLaw
  <2> QED BY <2>1, SameOperators DEF ProjectionShowsWork
<1> QED BY <1>1, InvHolds, PTL

-----------------------------------------------------------------------------
(* The slice of the candidates.                                            *)

\* What an array holds in its first n places, and in all.
FirstOf(q, n) == {q[i] : i \in 1..n}
Held(q) == {q[i] : i \in 1..Len(q)}

\* A function without repetition takes as many values as it has arguments.
LEMMA CountOfValues ==
  ASSUME NEW n \in Nat, NEW q, \A i, j \in 1..n : q[i] = q[j] => i = j
  PROVE  Cardinality(FirstOf(q, n)) = n
<1> DEFINE T == FirstOf(q, n)
           f == [i \in 1..n |-> q[i]]
<1>1. IsFiniteSet(1..n) /\ Cardinality(1..n) = n
  BY FS_Interval
<1>2. f \in Bijection(1..n, T)
  BY DEF FirstOf, Bijection, Injection, Surjection, IsInjective
<1>3. ExistsBijection(1..n, T)
  BY <1>2 DEF ExistsBijection
<1> QED BY <1>1, <1>3, FS_Bijection

\* A sorted array holds its set, each member behind those before it.
LEMMA SortedRank ==
  ASSUME NEW S \in SUBSET Nodes, NEW q \in Sorted(S)
  PROVE  /\ IsFiniteSet(S) /\ Cardinality(S) \in Nat
         /\ q \in Seq(Nodes) /\ Len(q) = Cardinality(S)
         /\ \A i, j \in 1..Len(q) : q[i] = q[j] => i = j
         /\ Held(q) = S
         /\ \A i \in 1..Len(q) :
              Cardinality({m \in S : Order[m] < Order[q[i]]}) = i - 1
<1>1. IsFiniteSet(S) /\ Cardinality(S) \in Nat
  BY RulesAssumption, FS_Subset, FS_CardinalityType
<1> DEFINE n == Cardinality(S)
<1>2. /\ q \in [1..n -> S]
      /\ \A i, j \in 1..n : i < j => Order[q[i]] < Order[q[j]]
  BY DEF Sorted
<1>3. q \in Seq(Nodes) /\ Len(q) = n
  BY <1>1, <1>2
<1> HIDE DEF n
<1>4. n \in Nat
  BY <1>1 DEF n
<1>5. \A i \in 1..n : q[i] \in S /\ Order[q[i]] \in Int
  BY <1>2, RulesAssumption
<1>6. \A i, j \in 1..n : q[i] = q[j] => i = j
  <2> SUFFICES ASSUME NEW i \in 1..n, NEW j \in 1..n, q[i] = q[j], i # j PROVE FALSE
    OBVIOUS
  <2>1. i < j \/ j < i
    BY <1>4
  <2> QED BY <1>2, <1>5, <2>1
<1>7. FirstOf(q, n) = S
  <2>1. Cardinality(FirstOf(q, n)) = n
    BY <1>4, <1>6, CountOfValues
  <2>2. FirstOf(q, n) \in SUBSET S
    BY <1>5 DEF FirstOf
  <2> QED BY <1>1, <2>1, <2>2, FS_Subset DEF n
<1>8. ASSUME NEW i \in 1..n
      PROVE  Cardinality({m \in S : Order[m] < Order[q[i]]}) = i - 1
  <2>1. i - 1 \in Nat /\ \A j \in 1..(i - 1) : j \in 1..n /\ j < i
    BY <1>4
  <2>2. \A j \in 1..n : Order[q[j]] < Order[q[i]] <=> j \in 1..(i - 1)
    <3> SUFFICES ASSUME NEW j \in 1..n
                 PROVE  Order[q[j]] < Order[q[i]] <=> j \in 1..(i - 1)
      OBVIOUS
    <3>1. Order[q[j]] \in Int /\ Order[q[i]] \in Int
      BY <1>5
    <3>2. CASE j < i
      BY <1>2, <1>4, <3>2
    <3>3. CASE j = i
      BY <1>4, <3>1, <3>3
    <3>4. CASE i < j
      <4>1. Order[q[i]] < Order[q[j]]
        BY <1>2, <3>4
      <4>2. ~(Order[q[j]] < Order[q[i]])
        BY <3>1, <4>1
      <4> QED BY <1>4, <3>4, <4>2
    <3> QED BY <1>4, <3>2, <3>3, <3>4
  <2>3. {m \in S : Order[m] < Order[q[i]]} = FirstOf(q, i - 1)
    <3>1. \A m \in S : \E j \in 1..n : m = q[j]
      BY <1>7 DEF FirstOf
    <3> QED BY <1>5, <2>1, <2>2, <3>1 DEF FirstOf
  <2>4. Cardinality(FirstOf(q, i - 1)) = i - 1
    <3>1. \A j, k \in 1..(i - 1) : q[j] = q[k] => j = k
      BY <1>6, <2>1
    <3> QED BY <2>1, <3>1, CountOfValues
  <2> QED BY <2>3, <2>4
<1> QED BY <1>1, <1>3, <1>6, <1>7, <1>8 DEF n, Held, FirstOf

\* The first k places of a sorted array are the first k members of its set.
LEMMA SliceIsFirstK ==
  ASSUME NEW S \in SUBSET Nodes, NEW q \in Sorted(S), NEW k \in Int
  PROVE  G!FirstK(S, k) = {q[i] : i \in {j \in 1..Len(q) : j <= k}}
<1>1. G!FirstK(S, k) = {n \in S : Cardinality({m \in S : Order[m] < Order[n]}) < k}
  BY DEF G!FirstK, G!Cardinality, Cardinality
<1>2. \A i \in 1..Len(q) : i - 1 < k <=> i <= k
  BY SortedRank
<1>3. S = {q[i] : i \in 1..Len(q)}
  BY SortedRank DEF Held
<1>4. \A i \in 1..Len(q) : Cardinality({m \in S : Order[m] < Order[q[i]]}) = i - 1
  BY SortedRank
<1>5. \A i \in 1..Len(q) : q[i] \in G!FirstK(S, k) <=> i <= k
  BY <1>1, <1>2, <1>3, <1>4
<1>6. G!FirstK(S, k) \subseteq S
  BY <1>1
<1> QED BY <1>3, <1>5, <1>6

\* What comes of putting one array behind another, when they share nothing.
LEMMA ConcatHolds ==
  ASSUME NEW p \in Seq(Nodes), NEW q \in Seq(Nodes)
  PROVE  /\ p \o q \in Seq(Nodes)
         /\ Held(p \o q) = Held(p) \cup Held(q)
         /\ ( /\ \A i, j \in 1..Len(p) : p[i] = p[j] => i = j
              /\ \A i, j \in 1..Len(q) : q[i] = q[j] => i = j
              /\ Held(p) \cap Held(q) = {} )
            => \A i, j \in 1..Len(p \o q) : (p \o q)[i] = (p \o q)[j] => i = j
<1> DEFINE r == p \o q
<1>1. /\ r \in Seq(Nodes) /\ Len(r) = Len(p) + Len(q)
      /\ \A i \in 1..Len(p) : r[i] = p[i]
      /\ \A i \in 1..Len(q) : r[Len(p) + i] = q[i]
      /\ Len(p) \in Nat /\ Len(q) \in Nat
  OBVIOUS
<1> HIDE DEF r
<1>2. /\ \A i \in 1..Len(p) : i \in 1..Len(r)
      /\ \A i \in 1..Len(q) : Len(p) + i \in 1..Len(r)
      /\ \A i \in 1..Len(r) :
           i \in 1..Len(p) \/ (i - Len(p) \in 1..Len(q) /\ i = Len(p) + (i - Len(p)))
  BY <1>1
<1>3. \A i \in 1..Len(r) :
        \/ i \in 1..Len(p) /\ r[i] = p[i]
        \/ i - Len(p) \in 1..Len(q) /\ r[i] = q[i - Len(p)]
  BY <1>1, <1>2
<1>4. Held(r) = Held(p) \cup Held(q)
  <2>1. ASSUME NEW x \in Held(p) PROVE x \in Held(r)
    BY <1>1, <1>2 DEF Held
  <2>2. ASSUME NEW x \in Held(q) PROVE x \in Held(r)
    BY <1>1, <1>2 DEF Held
  <2>3. ASSUME NEW x \in Held(r) PROVE x \in Held(p) \cup Held(q)
    BY <1>3 DEF Held
  <2> QED BY <2>1, <2>2, <2>3
<1>5. ASSUME \A i, j \in 1..Len(p) : p[i] = p[j] => i = j,
             \A i, j \in 1..Len(q) : q[i] = q[j] => i = j,
             Held(p) \cap Held(q) = {},
             NEW i \in 1..Len(r), NEW j \in 1..Len(r), r[i] = r[j]
      PROVE  i = j
  <2>1. CASE i \in 1..Len(p) /\ j \in 1..Len(p)
    BY <1>1, <1>5, <2>1
  <2>2. CASE i \notin 1..Len(p) /\ j \notin 1..Len(p)
    <3>1. /\ i - Len(p) \in 1..Len(q) /\ j - Len(p) \in 1..Len(q)
          /\ q[i - Len(p)] = q[j - Len(p)]
      BY <1>3, <1>5, <2>2
    <3>2. i - Len(p) = j - Len(p)
      BY <1>5, <3>1
    <3> QED BY <1>1, <3>2
  <2>3. CASE ~(i \in 1..Len(p) <=> j \in 1..Len(p))
    <3>1. \/ r[i] \in Held(p) /\ r[j] \in Held(q)
          \/ r[i] \in Held(q) /\ r[j] \in Held(p)
      BY <1>3, <2>3 DEF Held
    <3> QED BY <1>5, <3>1
  <2> QED BY <2>1, <2>2, <2>3
<1> QED BY <1>1, <1>4, <1>5 DEF r

(* What getStableReadyNodeIds computes is what every other theorem takes   *)
(* it to be: on every finite acyclic graph, from every statuses and under  *)
(* every limit, the array it concatenates from the active nodes and a      *)
(* slice of the sorted candidates holds the set StableReady, each node     *)
(* once (domain/workflow.ts:733-753 and 772-790).                          *)
THEOREM SliceIsStableReady == Spec => []StableReadyIsTheSlice
<1>1. ASSUME Inv PROVE StableReadyIsTheSlice
  <2> DEFINE A == G!Active(st)
             C == ReadyPerEdge \ A
  <2> SUFFICES ASSUME NEW active \in Sorted(A), NEW candidates \in Sorted(C)
               PROVE  LET ids == StableReadyIds(active, candidates)
                      IN  /\ Held(ids) = G!StableReady(st, limit)
                          /\ \A i, j \in 1..Len(ids) : ids[i] = ids[j] => i = j
    BY DEF StableReadyIsTheSlice, Held
  <2>1. A \in SUBSET Nodes /\ C \in SUBSET Nodes /\ A \cap C = {}
    BY DEF G!Active, ReadyPerEdge
  <2>2. ReadyPerEdge = G!ReadyNodes(st)
    <3>1. \A e \in edges : e[1] \in Nodes /\ e[2] \in Nodes /\ e = <<e[1], e[2]>>
      BY <1>1 DEF Inv
    <3>2. ASSUME NEW n \in Nodes
          PROVE  (\A e \in edges : e[2] = n => st[e[1]] \in {"completed", "skipped"})
                   <=> \A m \in G!Preds(n) : st[m] \in G!DoneStatus
      BY <3>1 DEF G!Preds, G!DoneStatus
    <3> QED BY <3>2 DEF ReadyPerEdge, G!ReadyNodes, G!EditableStatus
  <2>3. limit \in Int
    BY <1>1 DEF Inv
  <2>4. /\ active \in Seq(Nodes) /\ Len(active) = Cardinality(A) /\ Len(active) \in Nat
        /\ Held(active) = A
        /\ \A i, j \in 1..Len(active) : active[i] = active[j] => i = j
    BY <2>1, SortedRank
  <2>5. /\ candidates \in Seq(Nodes) /\ Len(candidates) \in Nat
        /\ Held(candidates) = C
        /\ \A i, j \in 1..Len(candidates) : candidates[i] = candidates[j] => i = j
    BY <2>1, SortedRank
  <2> DEFINE free == limit - Len(active)
             chosen == {candidates[i] : i \in {j \in 1..Len(candidates) : j <= free}}
  <2>6. G!StableReady(st, limit) = A \cup chosen
    <3>1. G!StableReady(st, limit) = A \cup G!FirstK(C, free)
      BY <2>2, <2>4 DEF G!StableReady, G!Cardinality, Cardinality
    <3>2. free \in Int
      BY <2>3, <2>4
    <3> QED BY <2>1, <3>1, <3>2, SliceIsFirstK
  <2>7. CASE ~(limit > Len(active))
    <3>1. StableReadyIds(active, candidates) = active
      BY <2>7 DEF StableReadyIds
    <3>2. chosen = {}
      BY <2>3, <2>4, <2>5, <2>7
    <3> QED BY <2>4, <2>6, <3>1, <3>2
  <2>8. CASE limit > Len(active)
    <3> DEFINE k == IF free < Len(candidates) THEN free ELSE Len(candidates)
               slice == SubSeq(candidates, 1, k)
    <3>1. free \in Nat /\ free # 0
      BY <2>3, <2>4, <2>8
    <3>2. StableReadyIds(active, candidates) = active \o slice
      BY <2>8, <3>1 DEF StableReadyIds
    <3>3. /\ k \in Nat /\ k - 1 + 1 = k
          /\ \A i \in 1..k : i \in 1..Len(candidates) /\ 1 + i - 1 = i
          /\ 1..k = {j \in 1..Len(candidates) : j <= free}
      BY <2>5, <3>1
    <3> HIDE DEF free, k
    <3>4. /\ slice \in Seq(Nodes) /\ Len(slice) = k
          /\ \A i \in 1..k : slice[i] = candidates[i]
      <4>1. \A i \in 1..k : candidates[i] \in Nodes
        BY <2>5, <3>3
      <4> QED BY <2>5, <3>3, <4>1, SubSeqProperties
    <3> HIDE DEF slice
    <3>5. Held(slice) = chosen
      BY <3>3, <3>4 DEF Held
    <3>6. \A i, j \in 1..Len(slice) : slice[i] = slice[j] => i = j
      BY <2>5, <3>3, <3>4
    <3>7. chosen \subseteq C
      BY <2>5 DEF Held
    <3>8. Held(active) \cap Held(slice) = {}
      BY <2>1, <2>4, <3>5, <3>7
    <3>9. /\ Held(active \o slice) = Held(active) \cup Held(slice)
          /\ \A i, j \in 1..Len(active \o slice) :
               (active \o slice)[i] = (active \o slice)[j] => i = j
      BY <2>4, <3>4, <3>6, <3>8, ConcatHolds
    <3> HIDE DEF chosen
    <3> QED BY <2>4, <2>6, <3>2, <3>5, <3>9
  <2> QED BY <2>7, <2>8
<1> QED BY <1>1, InvHolds, PTL

-----------------------------------------------------------------------------
(* The worklist of a rollback.                                             *)

LEMMA PopLeaves ==
  ASSUME NEW q \in Seq(Nodes), q # <<>>
  PROVE  /\ q[Len(q)] \in Nodes
         /\ SubSeq(q, 1, Len(q) - 1) \in Seq(Nodes)
         /\ Held(q) = Held(SubSeq(q, 1, Len(q) - 1)) \cup {q[Len(q)]}
<1> DEFINE k == Len(q)
           rest == SubSeq(q, 1, k - 1)
<1>1. k \in Nat /\ k # 0 /\ \A i \in 1..k : q[i] \in Nodes
  OBVIOUS
<1>2. Held(q) = {q[i] : i \in 1..k}
  BY DEF Held
<1> HIDE DEF k
<1>3. k \in Int /\ k - 1 \in Int /\ k - 1 - 1 + 1 = k - 1 /\ k \in 1..k
      /\ 1..k = 1..(k - 1) \cup {k}
  BY <1>1
<1>4. /\ rest \in Seq(Nodes)
      /\ Len(rest) = IF 1 <= k - 1 THEN k - 1 - 1 + 1 ELSE 0
      /\ \A i \in 1..(k - 1 - 1 + 1) : rest[i] = q[1 + i - 1]
  BY <1>1, <1>3, SubSeqProperties
<1> HIDE DEF rest
<1>5. Len(rest) = k - 1 /\ \A i \in 1..(k - 1) : rest[i] = q[i]
  BY <1>1, <1>4
<1>6. Held(q) = Held(rest) \cup {q[k]}
  BY <1>2, <1>3, <1>5 DEF Held
<1> QED BY <1>1, <1>3, <1>4, <1>6 DEF k, rest

LEMMA PushAdds ==
  ASSUME NEW q \in Seq(Nodes), NEW S \in SUBSET Nodes, NEW next \in Arrays(S)
  PROVE  q \o next \in Seq(Nodes) /\ Held(q \o next) = Held(q) \cup S
<1>1. IsFiniteSet(S) /\ Cardinality(S) \in Nat
  BY RulesAssumption, FS_Subset, FS_CardinalityType
<1>2. next \in Seq(Nodes) /\ Len(next) = Cardinality(S) /\ Held(next) = S
  BY <1>1 DEF Arrays, Held
<1>3. /\ q \o next \in Seq(Nodes) /\ Len(q \o next) = Len(q) + Len(next)
      /\ \A i \in 1..Len(q) : (q \o next)[i] = q[i]
      /\ \A i \in 1..Len(next) : (q \o next)[Len(q) + i] = next[i]
      /\ \A i \in 1..(Len(q) + Len(next)) :
           i \in 1..Len(q) \/ (i - Len(q) \in 1..Len(next) /\ i = Len(q) + (i - Len(q)))
      /\ Len(q) \in Nat /\ Len(next) \in Nat
  BY <1>2
<1>4. \A i \in 1..Len(next) : Len(q) + i \in 1..(Len(q) + Len(next))
  BY <1>3
<1>5. ASSUME NEW x \in Held(q) \cup Held(next) PROVE x \in Held(q \o next)
  <2>1. ASSUME NEW i \in 1..Len(q), x = q[i] PROVE x \in Held(q \o next)
    <3>1. i \in 1..Len(q \o next) /\ x = (q \o next)[i]
      BY <1>3, <2>1
    <3> QED BY <3>1 DEF Held
  <2>2. ASSUME NEW i \in 1..Len(next), x = next[i] PROVE x \in Held(q \o next)
    <3>1. Len(q) + i \in 1..Len(q \o next) /\ x = (q \o next)[Len(q) + i]
      BY <1>3, <1>4, <2>2
    <3> QED BY <3>1 DEF Held
  <2> QED BY <2>1, <2>2 DEF Held
<1>6. ASSUME NEW x \in Held(q \o next) PROVE x \in Held(q) \cup Held(next)
  <2>1. PICK i \in 1..(Len(q) + Len(next)) : x = (q \o next)[i]
    BY <1>3 DEF Held
  <2>2. CASE i \in 1..Len(q)
    BY <1>3, <2>1, <2>2 DEF Held
  <2>3. CASE i \notin 1..Len(q)
    <3>1. i - Len(q) \in 1..Len(next) /\ x = next[i - Len(q)]
      BY <1>3, <2>1, <2>3
    <3> QED BY <3>1 DEF Held
  <2> QED BY <2>2, <2>3
<1> QED BY <1>2, <1>3, <1>5, <1>6

\* While a rollback is planned: what has been visited and what is waiting to be is
\* affected, and whatever an edge leads to from a visited node has been visited or
\* waits.
WorklistInv ==
  /\ edges \subseteq Nodes \X Nodes
  /\ affected \subseteq Nodes
  /\ remaining \in Seq(Nodes)
  /\ Idle => remaining = <<>>
  /\ ~Idle =>
       /\ target \in Nodes /\ st[target] \notin {"pending", "ready"}
       /\ affected \cup Held(remaining) \subseteq G!Affected(target)
       /\ target \in affected \cup Held(remaining)
       /\ \A n \in affected : Successors(n) \subseteq affected \cup Held(remaining)

\* The affected nodes are closed under edges.
LEMMA AffectedGrows ==
  ASSUME edges \subseteq Nodes \X Nodes, NEW n \in G!Affected(target)
  PROVE  Successors(n) \subseteq G!Affected(target)
<1> SUFFICES ASSUME NEW m \in Successors(n), NEW S \in SUBSET Nodes,
                    target \in S, \A e \in edges : e[1] \in S => e[2] \in S
             PROVE  m \in S
  BY DEF G!Affected, Successors
<1>1. n \in S
  BY DEF G!Affected
<1>2. <<n, m>> \in edges /\ <<n, m>>[1] = n /\ <<n, m>>[2] = m
  BY DEF Successors
<1> QED BY <1>1, <1>2

LEMMA WorklistStep ==
  ASSUME WorklistInv, [PlanNext]_planVars
  PROVE  WorklistInv'
<1>1. CASE Discard
  <2>1. /\ remaining' \in Seq(Nodes)
        /\ Held(remaining) = Held(remaining') \cup {Top} /\ Top \in affected
    BY <1>1, PopLeaves DEF Discard, WorklistInv, Top, Rest
  <2>2. ~Idle /\ UNCHANGED <<vars, target, affected>> /\ Held(remaining)' = Held(remaining')
    BY <1>1 DEF Discard, WorklistInv
  <2> QED
    BY <2>1, <2>2 DEF WorklistInv, vars, Idle, Successors, G!Affected
<1>2. CASE Visit
  <2>1. PICK next \in Arrays(Successors(Top)) : remaining' = Rest \o next
    BY <1>2 DEF Visit
  <2>2. /\ Top \in Nodes /\ Rest \in Seq(Nodes)
        /\ Held(remaining) = Held(Rest) \cup {Top}
    BY <1>2, PopLeaves DEF Visit, WorklistInv, Top, Rest
  <2>3. /\ remaining' \in Seq(Nodes)
        /\ Held(remaining') = Held(Rest) \cup Successors(Top)
    BY <2>1, <2>2, PushAdds DEF Successors
  <2>4. ~Idle /\ affected' = affected \cup {Top} /\ UNCHANGED <<vars, target>>
    BY <1>2 DEF Visit, WorklistInv
  <2>5. Successors(Top) \subseteq G!Affected(target)
    BY <2>2, <2>4, AffectedGrows DEF WorklistInv
  <2>6. /\ affected' \cup Held(remaining') \subseteq G!Affected(target)
        /\ target \in affected' \cup Held(remaining')
        /\ \A n \in affected' : Successors(n) \subseteq affected' \cup Held(remaining')
    BY <2>2, <2>3, <2>4, <2>5 DEF WorklistInv
  <2> QED
    BY <2>2, <2>3, <2>4, <2>6 DEF WorklistInv, vars, Idle, Successors, G!Affected, Held
<1>3. ASSUME NEW n \in Nodes, Begin(n) PROVE WorklistInv'
  <2>1. /\ target' = n /\ affected' = {} /\ remaining' = <<n>>
        /\ st[n] \notin {"pending", "ready"} /\ UNCHANGED vars
    BY <1>3 DEF Begin
  <2>2. remaining' \in Seq(Nodes) /\ Held(remaining') = {n} /\ ~Idle'
    BY <2>1, PlanAssumption DEF Held, Idle
  <2>3. n \in G!Affected(n)'
    BY DEF G!Affected
  <2> QED BY <2>1, <2>2, <2>3 DEF WorklistInv, vars, Held, G!Affected
<1>4. CASE Write \/ Otherwise
  <2>1. edges' = edges /\ remaining' = remaining /\ target' = NoTarget /\ remaining = <<>>
        /\ affected' \subseteq Nodes
    BY <1>4 DEF Write, Otherwise, AdmitStep, RecalculateStep, Idle, WorklistInv
  <2> QED BY <2>1 DEF WorklistInv, Idle
<1>5. CASE UNCHANGED planVars
  BY <1>5 DEF planVars, WorklistInv, Idle, Successors, G!Affected, Held
<1> QED BY <1>1, <1>2, <1>3, <1>4, <1>5 DEF PlanNext

LEMMA EmptyWorklist ==
  ASSUME WorklistInv
  PROVE  PlanIsTheRollback
<1> SUFFICES ASSUME ~Idle, remaining = <<>>
             PROVE  /\ affected = G!Affected(target)
                    /\ Planned = G!RolledBack(st, limit, target)
  BY DEF PlanIsTheRollback
<1>1. Held(remaining) = {}
  BY DEF Held
<1>2. \A e \in edges : e[1] \in affected => e[2] \in affected
  BY <1>1 DEF WorklistInv, Successors
<1>3. affected = G!Affected(target)
  BY <1>1, <1>2 DEF WorklistInv, G!Affected
<1>4. {n \in Nodes : n \notin affected /\ st[n] \in G!ActiveStatus}
        = {n \in G!Active(st) : n \notin G!Affected(target)}
  BY <1>3 DEF G!Active
<1>5. G!Cardinality({n \in G!Active(st) : n \notin G!Affected(target)})
        = Cardinality({n \in G!Active(st) : n \notin G!Affected(target)})
  BY DEF G!Cardinality, Cardinality
<1> DEFINE free == Cardinality({n \in G!Active(st) : n \notin G!Affected(target)}) < limit
<1>6. Planned = [n \in Nodes |-> IF n \notin G!Affected(target) THEN st[n]
                                ELSE IF n = target /\ free THEN "ready" ELSE "pending"]
  BY <1>3, <1>4 DEF Planned
<1>7. G!RolledBack(st, limit, target)
        = [n \in Nodes |-> CASE n \notin G!Affected(target) -> st[n]
                            [] n = target /\ free -> "ready"
                            [] OTHER -> "pending"]
  BY <1>5 DEF G!RolledBack
<1>8. target \in G!Affected(target)
  BY <1>1, <1>3 DEF WorklistInv
<1> HIDE DEF free
<1>9. ASSUME NEW n \in Nodes
      PROVE  (CASE n \notin G!Affected(target) -> st[n]
                [] n = target /\ free -> "ready"
                [] OTHER -> "pending")
               = IF n \notin G!Affected(target) THEN st[n]
                 ELSE IF n = target /\ free THEN "ready" ELSE "pending"
  BY <1>8
<1> QED BY <1>3, <1>6, <1>7, <1>9

LEMMA WorklistHolds == PlanSpec => []WorklistInv
<1>1. PlanInit => WorklistInv
  <2> SUFFICES ASSUME PlanInit PROVE WorklistInv
    OBVIOUS
  <2> QED BY DEF PlanInit, Init, WorklistInv, Idle
<1> QED BY <1>1, WorklistStep, PTL DEF PlanSpec

(* What planWorkflowRollback computes is what every other theorem about    *)
(* rollbacks takes it to be: on every finite acyclic graph, from every     *)
(* statuses, for every target and in whatever order edges are listed, its  *)
(* worklist visits exactly the nodes reachable from the target             *)
(* (domain/workflow-rollback.ts:50-96).                                    *)
THEOREM WorklistPlansTheRollback == PlanSpec => []PlanIsTheRollback
<1> QED BY WorklistHolds, EmptyWorklist, PTL

(* The workflows whose rollbacks are planned node by node implement those  *)
(* whose rollbacks are one step: what is written is RolledBack, and the    *)
(* planning before it changes nothing, so that all that is proved of       *)
(* WorkflowRules holds of the loop (domain/workflow-rollback.ts:33-96).    *)
THEOREM PlanningImplementsRules == PlanSpec => Spec
<1>1. PlanInit => Init
  BY DEF PlanInit
<1>2. WorklistInv /\ [PlanNext]_planVars => [Next]_vars
  <2> SUFFICES ASSUME WorklistInv, [PlanNext]_planVars PROVE [Next]_vars
    OBVIOUS
  <2>1. CASE Discard \/ Visit \/ UNCHANGED planVars \/ \E n \in Nodes : Begin(n)
    BY <2>1 DEF Discard, Visit, Begin, planVars, vars
  <2>2. CASE Write
    <3>1. st' = G!RolledBack(st, limit, target) /\ UNCHANGED <<edges, limit>>
      BY <2>2, EmptyWorklist DEF Write, PlanIsTheRollback
    <3>2. target \in Nodes /\ st[target] \notin {"pending", "ready"}
      BY <2>2 DEF Write, WorklistInv
    <3> QED BY <3>1, <3>2 DEF RollbackStep, Next
  <2>3. CASE Otherwise
    BY <2>3 DEF Otherwise, Next
  <2> QED BY <2>1, <2>2, <2>3 DEF PlanNext
<1> QED BY <1>1, <1>2, WorklistHolds, PTL DEF PlanSpec, Spec

=============================================================================
