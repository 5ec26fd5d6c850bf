------------------------ MODULE WorkflowGraphProofs ------------------------
(***************************************************************************)
(* Facts about the operators of WorkflowGraph, for every graph and every   *)
(* limit.                                                                  *)
(***************************************************************************)
EXTENDS WorkflowGraph, FiniteSetTheorems, TLAPS

Statuses == [Nodes -> NodeStatus]

-----------------------------------------------------------------------------
(* FirstK: the slice of the ready candidates.                              *)

Before(S, x) == {m \in S : Order[m] < Order[x]}

(* The slice takes members of S only, and none when no slot is free.       *)
LEMMA FirstKSubset ==
  ASSUME NEW S, S \subseteq Nodes, NEW k \in Int
  PROVE  /\ FirstK(S, k) \subseteq S
         /\ k <= 0 => FirstK(S, k) = {}
<1> SUFFICES ASSUME k <= 0, NEW n \in FirstK(S, k) PROVE FALSE
  BY DEF FirstK
<1>1. IsFiniteSet(Before(S, n))
  BY GraphAssumption, FS_Subset DEF GraphAssumption, Before
<1>2. Cardinality(Before(S, n)) \in Nat
  BY <1>1, FS_CardinalityType
<1>3. Cardinality(Before(S, n)) < k
  BY DEF FirstK, Before
<1> QED BY <1>2, <1>3

(* The slice is no longer than the number of free slots: the number of     *)
(* members before a member of the slice tells the members apart.           *)
LEMMA FirstKBound ==
  ASSUME NEW S, S \subseteq Nodes, NEW k \in Nat
  PROVE  IsFiniteSet(FirstK(S, k)) /\ Cardinality(FirstK(S, k)) <= k
<1> DEFINE T == FirstK(S, k)
           rank == [x \in T |-> Cardinality(Before(S, x))]
<1>1. \A x \in S : IsFiniteSet(Before(S, x)) /\ Cardinality(Before(S, x)) \in Nat
  BY GraphAssumption, FS_Subset, FS_CardinalityType DEF GraphAssumption, Before
<1>2. T \subseteq S
  BY DEF FirstK
<1>3. \A x, y \in T : Order[x] < Order[y] => rank[x] < rank[y]
  <2> SUFFICES ASSUME NEW x \in T, NEW y \in T, Order[x] < Order[y]
               PROVE  Cardinality(Before(S, x)) < Cardinality(Before(S, y))
    OBVIOUS
  <2>1. Order[x] \in Int /\ Order[y] \in Int /\ \A m \in S : Order[m] \in Int
    BY <1>2, GraphAssumption DEF GraphAssumption
  <2>2. Before(S, x) \subseteq Before(S, y)
    BY <2>1 DEF Before
  <2>3. x \in Before(S, y) /\ x \notin Before(S, x)
    BY <1>2, <2>1 DEF Before
  <2>4. IsFiniteSet(Before(S, y))
    BY <1>1, <1>2
  <2>5. /\ Cardinality(Before(S, x)) <= Cardinality(Before(S, y))
        /\ Cardinality(Before(S, x)) # Cardinality(Before(S, y))
    BY <2>2, <2>3, <2>4, FS_Subset
  <2> QED BY <2>5, <1>1, <1>2
<1>4. rank \in [T -> 0..(k - 1)]
  BY <1>1, <1>2 DEF FirstK, Before
<1>5. \A x, y \in T : rank[x] = rank[y] => x = y
  <2> SUFFICES ASSUME NEW x \in T, NEW y \in T, rank[x] = rank[y], x # y
               PROVE  FALSE
    OBVIOUS
  <2>1. Order[x] \in Int /\ Order[y] \in Int /\ Order[x] # Order[y]
    BY <1>2, GraphAssumption DEF GraphAssumption
  <2>2. Order[x] < Order[y] \/ Order[y] < Order[x]
    BY <2>1
  <2>3. rank[x] \in Int /\ rank[y] \in Int
    BY <1>4
  <2> QED BY <1>3, <2>2, <2>3
<1>6. rank \in Injection(T, 0..(k - 1))
  BY <1>4, <1>5 DEF Injection, IsInjective
<1>7. IsFiniteSet(0..(k - 1)) /\ Cardinality(0..(k - 1)) = k
  BY FS_Interval
<1> QED BY <1>6, <1>7, FS_Injection

(* A slice that leaves somebody out is full: the first member left out has *)
(* only members of the slice before it.                                    *)
LEMMA FirstKFull ==
  ASSUME NEW S, S \subseteq Nodes, NEW k \in Nat, FirstK(S, k) # S
  PROVE  Cardinality(FirstK(S, k)) >= k
<1> DEFINE T == FirstK(S, k)
           rest == S \ T
           D == {Before(S, x) : x \in rest}
<1>1. \A x \in S : IsFiniteSet(Before(S, x)) /\ Cardinality(Before(S, x)) \in Nat
  BY GraphAssumption, FS_Subset, FS_CardinalityType DEF GraphAssumption, Before
<1>2. T \subseteq S /\ rest # {}
  BY DEF FirstK
<1>3. D \subseteq FiniteSubsetsOf(S) /\ D # {}
  BY <1>1, <1>2 DEF FiniteSubsetsOf, Before
<1>4. PICK d \in D : \A e \in D : <<e, d>> \notin StrictSubsetOrdering(S)
  <2> HIDE DEF D
  <2> QED BY <1>3, FS_StrictSubsetOrderingWellFounded, WFMin
<1>5. PICK y \in rest : d = Before(S, y)
  OBVIOUS
<1>6. Before(S, y) \subseteq T
  <2> SUFFICES ASSUME NEW x \in S, Order[x] < Order[y], x \notin T PROVE FALSE
    BY DEF Before
  <2>1. Order[x] \in Int /\ Order[y] \in Int /\ \A m \in S : Order[m] \in Int
    BY <1>2, GraphAssumption DEF GraphAssumption
  <2>2. Before(S, x) \subseteq Before(S, y) /\ Before(S, x) # Before(S, y)
    BY <2>1 DEF Before
  <2>3. Before(S, x) \in D /\ Before(S, x) \subseteq S /\ Before(S, y) \subseteq S
    BY DEF Before
  <2> QED BY <1>4, <1>5, <2>2, <2>3 DEF StrictSubsetOrdering
<1>7. Cardinality(Before(S, y)) >= k
  BY <1>1 DEF FirstK, Before
<1>8. IsFiniteSet(T) /\ Cardinality(T) \in Nat
  BY FirstKBound, FS_CardinalityType
<1>9. Cardinality(Before(S, y)) <= Cardinality(T)
  BY <1>6, <1>8, FS_Subset
<1> QED BY <1>1, <1>7, <1>8, <1>9

(* A set of nodes that is not empty has a first node in workflow order.    *)
LEMMA FirstExists ==
  ASSUME NEW C, C \subseteq Nodes, C # {}
  PROVE  \E n \in C : \A m \in C : Order[n] <= Order[m]
<1> DEFINE D == {Before(C, x) : x \in C}
<1>1. \A x \in C : IsFiniteSet(Before(C, x))
  BY GraphAssumption, FS_Subset DEF GraphAssumption, Before
<1>2. D \subseteq FiniteSubsetsOf(C) /\ D # {}
  BY <1>1 DEF FiniteSubsetsOf, Before
<1>3. PICK d \in D : \A e \in D : <<e, d>> \notin StrictSubsetOrdering(C)
  <2> HIDE DEF D
  <2> QED BY <1>2, FS_StrictSubsetOrderingWellFounded, WFMin
<1>4. PICK y \in C : d = Before(C, y)
  OBVIOUS
<1>5. ASSUME NEW x \in C PROVE Order[y] <= Order[x]
  <2> SUFFICES ASSUME Order[x] < Order[y] PROVE FALSE
    BY GraphAssumption DEF GraphAssumption
  <2>1. \A m \in C : Order[m] \in Int
    BY GraphAssumption DEF GraphAssumption
  <2>2. Before(C, x) \subseteq Before(C, y) /\ Before(C, x) # Before(C, y)
    BY <2>1 DEF Before
  <2>3. Before(C, x) \in D /\ Before(C, x) \subseteq C /\ Before(C, y) \subseteq C
    BY DEF Before
  <2> QED BY <1>3, <1>4, <2>2, <2>3 DEF StrictSubsetOrdering
<1> QED BY <1>5

-----------------------------------------------------------------------------
(* Admission.                                                              *)

(* Admission only makes pending nodes ready, and only those whose          *)
(* predecessors are all done.                                              *)
LEMMA AdmitShape ==
  ASSUME NEW st \in Statuses, NEW k \in Int
  PROVE  /\ Admit(st, k) \in Statuses
         /\ \A n \in Nodes :
              \/ Admit(st, k)[n] = st[n]
              \/ /\ st[n] = "pending"
                 /\ Admit(st, k)[n] = "ready"
                 /\ n \in ReadyNodes(st)
         /\ \A n \in Nodes : Admit(st, k)[n] \in DoneStatus <=> st[n] \in DoneStatus
<1>1. Admit(st, k) \in Statuses
  BY DEF Admit, Statuses, NodeStatus
<1>2. ASSUME NEW n \in Nodes
      PROVE  \/ Admit(st, k)[n] = st[n]
             \/ /\ st[n] = "pending"
                /\ Admit(st, k)[n] = "ready"
                /\ n \in ReadyNodes(st)
  <2>1. CASE st[n] = "pending" /\ n \in StableReady(st, k)
    <3>1. n \notin Active(st)
      BY <2>1 DEF Active, ActiveStatus
    <3>2. n \in ReadyNodes(st)
      BY <2>1, <3>1 DEF StableReady, FirstK
    <3> QED BY <2>1, <3>2 DEF Admit
  <2>2. CASE ~(st[n] = "pending" /\ n \in StableReady(st, k))
    BY <2>2 DEF Admit
  <2> QED BY <2>1, <2>2
<1>3. ASSUME NEW n \in Nodes
      PROVE  Admit(st, k)[n] \in DoneStatus <=> st[n] \in DoneStatus
  BY <1>2 DEF DoneStatus
<1> QED BY <1>1, <1>2, <1>3

(* The nodes that are active after admission are those                     *)
(* getStableReadyNodeIds returns.                                          *)
LEMMA AdmitActive ==
  ASSUME NEW st \in Statuses, NEW k \in Int
  PROVE  Active(Admit(st, k)) = StableReady(st, k)
<1>1. ASSUME NEW n \in StableReady(st, k) PROVE n \in Active(Admit(st, k))
  <2>1. CASE n \in Active(st)
    <3>1. st[n] # "pending" /\ n \in Nodes
      BY <2>1 DEF Active, ActiveStatus
    <3> QED BY <2>1, <3>1 DEF Active, Admit
  <2>2. CASE n \notin Active(st)
    <3>1. n \in ReadyNodes(st)
      BY <2>2 DEF StableReady, FirstK
    <3>2. st[n] = "pending" /\ n \in Nodes
      BY <2>2, <3>1 DEF ReadyNodes, Active, ActiveStatus, EditableStatus
    <3> QED BY <3>2 DEF Active, ActiveStatus, Admit
  <2> QED BY <2>1, <2>2
<1>2. ASSUME NEW n \in Active(Admit(st, k)) PROVE n \in StableReady(st, k)
  <2>1. n \in Nodes
    BY DEF Active
  <2>2. CASE st[n] = "pending"
    BY <2>1, <2>2 DEF Active, ActiveStatus, Admit
  <2>3. CASE st[n] # "pending"
    BY <2>1, <2>3 DEF Active, Admit, StableReady
  <2> QED BY <2>2, <2>3
<1> QED BY <1>1, <1>2

(* The size of what admission leaves active.                               *)
LEMMA AdmitSize ==
  ASSUME NEW st \in Statuses, NEW k \in Int
  PROVE  LET slice == FirstK(ReadyNodes(st) \ Active(st), k - Cardinality(Active(st)))
         IN  /\ Cardinality(Active(st)) \in Nat
             /\ IsFiniteSet(slice) /\ Cardinality(slice) \in Nat
             /\ Cardinality(Active(Admit(st, k)))
                  = Cardinality(Active(st)) + Cardinality(slice)
<1> DEFINE S == ReadyNodes(st) \ Active(st)
           free == k - Cardinality(Active(st))
           slice == FirstK(S, free)
<1>1. IsFiniteSet(Active(st)) /\ Cardinality(Active(st)) \in Nat
  BY GraphAssumption, FS_Subset, FS_CardinalityType DEF GraphAssumption, Active
<1>2. slice \subseteq S /\ S \subseteq Nodes
  BY DEF FirstK, ReadyNodes
<1>3. IsFiniteSet(slice) /\ Cardinality(slice) \in Nat
  BY <1>2, GraphAssumption, FS_Subset, FS_CardinalityType DEF GraphAssumption
<1>4. Active(st) \cap slice = {}
  BY <1>2
<1>5. Cardinality(Active(st) \cup slice)
        = Cardinality(Active(st)) + Cardinality(slice) - Cardinality({})
  BY <1>1, <1>3, <1>4, FS_Union
<1>6. Cardinality({}) = 0
  BY FS_EmptySet
<1>7. Active(Admit(st, k)) = Active(st) \cup slice
  BY AdmitActive DEF StableReady
<1> QED BY <1>1, <1>3, <1>5, <1>6, <1>7

(* A transaction that admits a node leaves at most k nodes active.         *)
LEMMA AdmitBounded ==
  ASSUME NEW st \in Statuses, NEW k \in Int,
         NEW n \in Nodes, st[n] = "pending", Admit(st, k)[n] = "ready"
  PROVE  Cardinality(Active(Admit(st, k))) <= k
<1> DEFINE S == ReadyNodes(st) \ Active(st)
           free == k - Cardinality(Active(st))
           slice == FirstK(S, free)
<1>1. /\ Cardinality(Active(st)) \in Nat
      /\ Cardinality(slice) \in Nat
      /\ Cardinality(Active(Admit(st, k))) = Cardinality(Active(st)) + Cardinality(slice)
  BY AdmitSize
<1>2. n \in slice
  <2>1. n \in StableReady(st, k)
    BY DEF Admit
  <2>2. n \notin Active(st)
    BY DEF Active, ActiveStatus
  <2> QED BY <2>1, <2>2 DEF StableReady
<1>3. S \subseteq Nodes /\ free \in Int
  BY <1>1 DEF ReadyNodes
<1>4. free > 0
  <2> HIDE DEF S, free
  <2> QED BY <1>2, <1>3, FirstKSubset
<1>5. Cardinality(slice) <= free
  <2> HIDE DEF S
  <2> QED BY <1>3, <1>4, FirstKBound
<1> QED BY <1>1, <1>5

(* After admission no slot is free, or no ready node is left pending.      *)
LEMMA AdmitFills ==
  ASSUME NEW st \in Statuses, NEW k \in Int
  PROVE  \/ Cardinality(Active(Admit(st, k))) >= k
         \/ \A n \in ReadyNodes(Admit(st, k)) : Admit(st, k)[n] = "ready"
<1> DEFINE S == ReadyNodes(st) \ Active(st)
           free == k - Cardinality(Active(st))
           slice == FirstK(S, free)
<1> SUFFICES ASSUME NEW n \in ReadyNodes(Admit(st, k)), Admit(st, k)[n] # "ready"
             PROVE  Cardinality(Active(Admit(st, k))) >= k
  OBVIOUS
<1>1. /\ Cardinality(Active(st)) \in Nat
      /\ Cardinality(slice) \in Nat
      /\ Cardinality(Active(Admit(st, k))) = Cardinality(Active(st)) + Cardinality(slice)
  BY AdmitSize
<1>2. n \in Nodes /\ Admit(st, k)[n] = "pending" /\ st[n] = "pending"
  BY AdmitShape DEF ReadyNodes, EditableStatus
<1>3. n \in S
  <2>1. \A m \in Preds(n) : m \in Nodes /\ Admit(st, k)[m] \in DoneStatus
    BY DEF ReadyNodes, Preds
  <2>2. \A m \in Preds(n) : st[m] \in DoneStatus
    BY <2>1, AdmitShape
  <2> QED BY <1>2, <2>2 DEF ReadyNodes, EditableStatus, Active, ActiveStatus
<1>4. n \notin slice
  BY <1>2 DEF Admit, StableReady
<1>5. S \subseteq Nodes /\ free \in Int
  BY <1>1 DEF ReadyNodes
<1>6. CASE free >= 0
  <2>1. Cardinality(slice) >= free
    <3> HIDE DEF S, free
    <3> QED BY <1>3, <1>4, <1>5, <1>6, FirstKFull
  <2> QED BY <1>1, <2>1
<1>7. CASE free < 0
  BY <1>1, <1>7
<1> QED BY <1>5, <1>6, <1>7

-----------------------------------------------------------------------------
(* The projection.                                                         *)

(* The execution is projected completed exactly when every node is done.   *)
LEMMA ProjectionCompleted ==
  ASSUME NEW st
  PROVE  /\ Projection(st) \in ExecutionStatus
         /\ Projection(st) = "completed" <=> AllDone(st)
         /\ Projection(st) # "created"
BY DEF Projection, ExecutionStatus

-----------------------------------------------------------------------------
(* What is affected by a rollback.                                         *)

LEMMA AffectedShape ==
  ASSUME NEW n \in Nodes
  PROVE  /\ Affected(n) \subseteq Nodes
         /\ n \in Affected(n)
         /\ \A e \in Edges : e[1] \in Affected(n) => e[2] \in Affected(n)
<1>1. \A e \in Edges : e[1] \in Nodes /\ e[2] \in Nodes
  BY GraphAssumption DEF GraphAssumption
<1>2. n \in Affected(n) /\ Affected(n) \subseteq Nodes
  BY DEF Affected
<1>3. ASSUME NEW e \in Edges, e[1] \in Affected(n) PROVE e[2] \in Affected(n)
  <2> SUFFICES ASSUME NEW S \in SUBSET Nodes, n \in S,
                      \A d \in Edges : d[1] \in S => d[2] \in S
               PROVE  e[2] \in S
    BY <1>1, <1>3 DEF Affected
  <2>1. e[1] \in S
    BY <1>3 DEF Affected
  <2> QED BY <1>3, <2>1
<1> QED BY <1>2, <1>3

\* What a rollback to m affects is affected by a rollback to whatever leads to m.
LEMMA AffectedClosed ==
  ASSUME NEW n \in Nodes, NEW m \in Affected(n)
  PROVE  Affected(m) \subseteq Affected(n)
<1>1. Affected(n) \in SUBSET Nodes /\ \A e \in Edges : e[1] \in Affected(n) => e[2] \in Affected(n)
  BY AffectedShape
<1> QED BY <1>1 DEF Affected

\* Every affected node but the target comes right after another.
LEMMA AffectedHasPred ==
  ASSUME NEW n \in Nodes, NEW x \in Affected(n), x # n
  PROVE  \E y \in Affected(n) : y \in Preds(x)
<1> SUFFICES ASSUME \A y \in Affected(n) : y \notin Preds(x) PROVE FALSE
  OBVIOUS
<1> DEFINE S == Affected(n) \ {x}
<1>1. /\ Affected(n) \subseteq Nodes /\ n \in S /\ S \in SUBSET Nodes
      /\ \A e \in Edges : e[1] \in Affected(n) => e[2] \in Affected(n)
  BY AffectedShape
<1>2. \A e \in Edges : e = <<e[1], e[2]>>
  BY GraphAssumption DEF GraphAssumption
<1>3. \A e \in Edges : e[1] \in S => e[2] \in S
  BY <1>1, <1>2 DEF Preds
<1>4. x \in S
  <2> HIDE DEF S
  <2> QED BY <1>1, <1>3 DEF Affected
<1> QED BY <1>4

\* The graph has no cycles: nothing the target waits for is affected.
LEMMA PredsNotAffected ==
  ASSUME NEW n \in Nodes, NEW m \in Preds(n)
  PROVE  m \notin Affected(n)
<1> SUFFICES ASSUME m \in Affected(n) PROVE FALSE
  OBVIOUS
<1> DEFINE S == {x \in Affected(n) : m \in Affected(x)}
<1>1. m \in Nodes /\ n \in S /\ m \in S /\ S \in SUBSET Nodes
  BY AffectedShape DEF Preds
<1>2. ASSUME NEW x \in S PROVE \E y \in S : y \in Preds(x)
  <2>1. CASE x = n
    BY <1>1, <2>1
  <2>2. CASE x # n
    <3>1. PICK y \in Affected(n) : y \in Preds(x)
      BY <2>2, AffectedHasPred
    <3>2. y \in Nodes /\ x \in Nodes /\ <<y, x>> \in Edges
      BY <3>1, AffectedShape DEF Preds
    <3>3. x \in Affected(y)
      <4>1. <<y, x>>[1] = y /\ <<y, x>>[2] = x
        OBVIOUS
      <4> QED BY <3>2, <4>1, AffectedShape
    <3>4. m \in Affected(y)
      BY <3>2, <3>3, AffectedClosed
    <3> QED BY <3>1, <3>4
  <2> QED BY <2>1, <2>2
<1>3. PICK x \in S : Preds(x) \cap S = {}
  <2> HIDE DEF S
  <2> QED BY <1>1, AcyclicAssumption DEF AcyclicAssumption
<1> QED BY <1>2, <1>3

\* A rollback makes the target ready or pending and what comes after pending;
\* the rest stays, the target's predecessors with it.
LEMMA RolledBackShape ==
  ASSUME NEW st \in Statuses, NEW k \in Int, NEW n \in Nodes
  PROVE  /\ RolledBack(st, k, n) \in Statuses
         /\ RolledBack(st, k, n)[n] \in {"ready", "pending"}
         /\ \A m \in Affected(n) \ {n} : RolledBack(st, k, n)[m] = "pending"
         /\ \A m \in Nodes \ Affected(n) : RolledBack(st, k, n)[m] = st[m]
         /\ \A m \in Preds(n) : RolledBack(st, k, n)[m] = st[m]
<1> DEFINE back == RolledBack(st, k, n)
           fits == Cardinality({m \in Active(st) : m \notin Affected(n)}) < k
<1>1. n \in Affected(n) /\ Affected(n) \subseteq Nodes
  BY AffectedShape
<1>2. back = [m \in Nodes |-> CASE m \notin Affected(n) -> st[m]
                                [] m = n /\ fits -> "ready"
                                [] OTHER -> "pending"]
  BY DEF RolledBack
<1> HIDE DEF back, fits
<1>3. \A m \in Nodes \ Affected(n) : back[m] = st[m]
  BY <1>1, <1>2
<1>4. \A m \in Affected(n) \ {n} : back[m] = "pending"
  BY <1>1, <1>2
<1>5. back[n] = IF fits THEN "ready" ELSE "pending"
  BY <1>1, <1>2
<1>6. ASSUME NEW m \in Nodes PROVE back[m] \in NodeStatus
  BY <1>1, <1>3, <1>4, <1>5 DEF Statuses, NodeStatus
<1>7. back \in Statuses
  BY <1>2, <1>6 DEF Statuses
<1>8. \A m \in Preds(n) : m \in Nodes \ Affected(n)
  BY PredsNotAffected DEF Preds
<1>9. /\ back \in Statuses /\ back[n] \in {"ready", "pending"}
      /\ \A m \in Affected(n) \ {n} : back[m] = "pending"
      /\ \A m \in Nodes \ Affected(n) : back[m] = st[m]
      /\ \A m \in Preds(n) : back[m] = st[m]
  BY <1>3, <1>4, <1>5, <1>7, <1>8
<1> QED BY <1>9 DEF back

-----------------------------------------------------------------------------
(* The laws of admission and of the projection.                            *)

\* What admission leaves active fits the limit, or was active before.
LEMMA AdmitWithin ==
  ASSUME NEW st \in Statuses, NEW k \in Int
  PROVE  \/ Cardinality(Active(Admit(st, k))) <= k
         \/ Cardinality(Active(Admit(st, k))) = Cardinality(Active(st))
<1> DEFINE S == ReadyNodes(st) \ Active(st)
           free == k - Cardinality(Active(st))
           slice == FirstK(S, free)
<1>1. /\ Cardinality(Active(st)) \in Nat
      /\ Cardinality(Active(Admit(st, k))) = Cardinality(Active(st)) + Cardinality(slice)
  BY AdmitSize
<1>2. S \subseteq Nodes /\ free \in Int
  BY <1>1 DEF ReadyNodes
<1> HIDE DEF S
<1>3. CASE free > 0
  <2>1. IsFiniteSet(slice) /\ Cardinality(slice) <= free
    BY <1>2, <1>3, FirstKBound
  <2>2. Cardinality(slice) \in Nat
    BY <2>1, FS_CardinalityType
  <2> QED BY <1>1, <2>1, <2>2
<1>4. CASE free <= 0
  <2>1. slice = {}
    BY <1>2, <1>4, FirstKSubset
  <2>2. Cardinality(slice) = 0
    BY <2>1, FS_EmptySet
  <2> QED BY <1>1, <2>2
<1> QED BY <1>2, <1>3, <1>4

\* Admission has nothing left to admit.
LEMMA AdmitTwice ==
  ASSUME NEW st \in Statuses, NEW k \in Int
  PROVE  Admit(Admit(st, k), k) = Admit(st, k)
<1> DEFINE new == Admit(st, k)
           S == ReadyNodes(new) \ Active(new)
           free == k - Cardinality(Active(new))
<1>1. new \in Statuses /\ \A n \in Nodes : new[n] = "pending" => n \notin Active(new)
  BY AdmitShape DEF Active, ActiveStatus
<1>2. \/ Cardinality(Active(new)) >= k
      \/ \A n \in ReadyNodes(new) : new[n] = "ready"
  BY AdmitFills
<1>3. Cardinality(Active(new)) \in Nat
  BY <1>1, AdmitSize
<1>4. FirstK(S, free) = {}
  <2>1. S \subseteq Nodes /\ free \in Int
    BY <1>3 DEF ReadyNodes
  <2>2. CASE Cardinality(Active(new)) >= k
    <3>1. free <= 0
      BY <1>3, <2>2
    <3> HIDE DEF S, free
    <3> QED BY <2>1, <3>1, FirstKSubset
  <2>3. CASE \A n \in ReadyNodes(new) : new[n] = "ready"
    <3>1. S = {}
      BY <2>3 DEF ReadyNodes, Active, ActiveStatus
    <3> QED BY <3>1 DEF FirstK
  <2> QED BY <1>2, <2>2, <2>3
<1>5. StableReady(new, k) = Active(new)
  BY <1>4 DEF StableReady
<1>6. Admit(new, k) = [n \in Nodes |-> new[n]]
  BY <1>1, <1>5 DEF Admit
<1> QED BY <1>1, <1>6 DEF Statuses

\* So is a recount, an admission to the workflow without its ready nodes.
LEMMA RecalculateShape ==
  ASSUME NEW st \in Statuses, NEW k \in Int
  PROVE  Recalculate(st, k) \in Statuses
<1> DEFINE blank == [n \in Nodes |-> IF st[n] \in EditableStatus THEN "pending" ELSE st[n]]
<1>1. blank \in Statuses
  BY DEF Statuses, NodeStatus
<1>2. Recalculate(st, k) = Admit(blank, k)
  BY DEF Recalculate
<1> HIDE DEF blank
<1> QED BY <1>1, <1>2, AdmitShape

(* Admission fills the slots and no more: on every workflow and for every  *)
(* limit the transactions that give away a free slot, and the edits that   *)
(* give all slots out again, leave no slot for the next one and exceed the *)
(* limit only where started nodes did                                      *)
(* (getStableReadyNodeIds, domain/workflow.ts:772-790).                    *)
LEMMA AdmissionLaw ==
  ASSUME NEW st \in Statuses, NEW limit \in Int
  PROVE  AdmitFillsTheSlots(st, limit)
<1> DEFINE blank == [n \in Nodes |-> IF st[n] \in EditableStatus THEN "pending" ELSE st[n]]
           started == {n \in Active(st) : st[n] # "ready"}
<1>1. blank \in Statuses
  BY DEF Statuses, NodeStatus
<1>2. Recalculate(st, limit) = Admit(blank, limit)
  BY DEF Recalculate
<1>3. Active(blank) = started
  BY DEF Active, ActiveStatus, EditableStatus
<1> HIDE DEF blank, started
<1>4. ASSUME NEW s \in Statuses
      PROVE  LET after == Admit(s, limit)
             IN  /\ Admit(after, limit) = after
                 /\ Cardinality(Active(after)) < limit
                      => \A n \in ReadyNodes(after) : after[n] = "ready"
                 /\ \/ Cardinality(Active(after)) <= limit
                    \/ Cardinality(Active(after)) = Cardinality(Active(s))
  <2> DEFINE after == Admit(s, limit)
  <2>1. Admit(after, limit) = after
    BY AdmitTwice
  <2>2. Cardinality(Active(after)) \in Nat
    BY AdmitShape, AdmitSize
  <2>3. Cardinality(Active(after)) < limit
          => \A n \in ReadyNodes(after) : after[n] = "ready"
    BY <2>2, AdmitFills
  <2> QED BY <2>1, <2>3, AdmitWithin
<1>5. ASSUME NEW after \in {Admit(st, limit), Recalculate(st, limit)}
      PROVE  /\ Admit(after, limit) = after
             /\ Cardinality(Active(after)) < limit
                  => \A n \in ReadyNodes(after) : after[n] = "ready"
             /\ after = Admit(st, limit)
                  => \/ Cardinality(Active(after)) <= limit
                     \/ Cardinality(Active(after)) = Cardinality(Active(st))
             /\ after = Recalculate(st, limit)
                  => \/ Cardinality(Active(after)) <= limit
                     \/ Cardinality(Active(after)) = Cardinality(started)
  BY <1>1, <1>2, <1>3, <1>4
<1> QED BY <1>5 DEF AdmitFillsTheSlots, started

(* The projection never hides work: whatever the workflow, an execution    *)
(* with a node to start or to admit is shown running, and one is shown     *)
(* failed only when no node is active and not all are done                 *)
(* (getWorkflowExecutionProjection, domain/workflow.ts:818-870).           *)
LEMMA ProjectionLaw ==
  ASSUME NEW st \in Statuses
  PROVE  ProjectionShowsWork(st)
<1>2. ASSUME NEW n \in ReadyNodes(st) PROVE n \in Nodes /\ st[n] \in {"pending", "ready"}
  BY DEF ReadyNodes, EditableStatus
<1>3. AllDone(st) => \A n \in Nodes : st[n] \notin {"pending", "ready", "running"}
  BY DEF AllDone, DoneStatus
<1>4. (\E n \in Nodes : st[n] \in {"ready", "running"}) => Projection(st) = "running"
  BY <1>3 DEF Projection
<1>5. ReadyNodes(st) # {} => Projection(st) = "running"
  BY <1>2, <1>3, <1>4 DEF Projection
<1>6. Projection(st) = "paused"
        => \A n \in Nodes : st[n] \in ActiveStatus => st[n] = "paused"
  BY DEF Projection, Active
<1>7. Projection(st) = "failed" => Active(st) = {} /\ ~AllDone(st)
  <2> SUFFICES ASSUME Projection(st) = "failed" PROVE Active(st) = {} /\ ~AllDone(st)
    OBVIOUS
  <2>1. /\ ~AllDone(st)
        /\ \A n \in Nodes : st[n] \notin {"ready", "running", "waiting_user", "blocked", "interrupted"}
        /\ ~(Active(st) # {} /\ \A n \in Active(st) : st[n] = "paused")
    BY DEF Projection
  <2>2. \A n \in Active(st) : st[n] = "paused"
    BY <2>1 DEF Active, ActiveStatus
  <2> QED BY <2>1, <2>2
<1> QED BY <1>4, <1>5, <1>6, <1>7 DEF ProjectionShowsWork

=============================================================================
