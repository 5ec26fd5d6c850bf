------------------------ MODULE TopologyEditsProofs ------------------------
(***************************************************************************)
(* What every edit of a workflow under way preserves, for every template,  *)
(* every set of ids and every limit.  The rules come from two instances of *)
(* WorkflowGraph, on the workflow as it is (Now) and on the one an edit    *)
(* leads to (Graph).                                                       *)
(***************************************************************************)
EXTENDS TopologyEdits, FiniteSetTheorems, TLAPS

Status == Now!NodeStatus
Done == Now!DoneStatus

\* The functions from the nodes placed by pos to statuses.
StatusesOf(pos) == [DOMAIN pos -> Status]

-----------------------------------------------------------------------------
(* Admission in the workflow placed by pos with edges E.                   *)

\* Admission only makes pending nodes ready, those whose predecessors are done.
LEMMA AdmitShape ==
  ASSUME NEW pos, NEW E, NEW st \in StatusesOf(pos), NEW k
  PROVE  /\ Graph(pos, E)!Admit(st, k) \in StatusesOf(pos)
         /\ \A n \in DOMAIN pos :
              \/ Graph(pos, E)!Admit(st, k)[n] = st[n]
              \/ /\ st[n] = "pending"
                 /\ Graph(pos, E)!Admit(st, k)[n] = "ready"
                 /\ \A m \in DOMAIN pos : <<m, n>> \in E => st[m] \in Done
<1> DEFINE new == Graph(pos, E)!Admit(st, k)
           R == Graph(pos, E)!StableReady(st, k)
<1>1. new = [n \in DOMAIN pos |-> IF st[n] = "pending" /\ n \in R THEN "ready" ELSE st[n]]
  BY DEF Graph!Admit
<1>2. ASSUME NEW n \in DOMAIN pos, st[n] = "pending", n \in R
      PROVE  \A m \in DOMAIN pos : <<m, n>> \in E => st[m] \in Done
  <2>1. n \notin Graph(pos, E)!Active(st)
    BY <1>2 DEF Graph!Active, Graph!ActiveStatus
  <2>2. n \in Graph(pos, E)!ReadyNodes(st)
    BY <1>2, <2>1 DEF Graph!StableReady, Graph!FirstK
  <2> QED BY <2>2 DEF Graph!ReadyNodes, Graph!Preds, Graph!DoneStatus, Done, Now!DoneStatus
<1> HIDE DEF new, R
<1>3. new \in StatusesOf(pos)
  BY <1>1 DEF StatusesOf, Status, Now!NodeStatus
<1>4. \A n \in DOMAIN pos :
        \/ new[n] = st[n]
        \/ /\ st[n] = "pending" /\ new[n] = "ready"
           /\ \A m \in DOMAIN pos : <<m, n>> \in E => st[m] \in Done
  BY <1>1, <1>2
<1> QED BY <1>3, <1>4 DEF new

\* A set of nodes placed by an injective order has a first one.
LEMMA FirstExists ==
  ASSUME NEW pos, DOMAIN pos # {}, IsFiniteSet(DOMAIN pos),
         pos \in Positions(DOMAIN pos),
         NEW C, C \subseteq DOMAIN pos, C # {}
  PROVE  \E n \in C : \A m \in C : ~(pos[m] < pos[n])
<1> DEFINE Ahead(x) == {m \in C : pos[m] < pos[x]}
           D == {Ahead(x) : x \in C}
<1>1. \A m \in C : pos[m] \in Int
  BY DEF Positions
<1>2. \A x \in C : IsFiniteSet(Ahead(x)) /\ Ahead(x) \subseteq C
  BY FS_Subset
<1>3. D \subseteq FiniteSubsetsOf(C) /\ D # {}
  BY <1>2 DEF FiniteSubsetsOf
<1>4. PICK d \in D : \A e \in D : <<e, d>> \notin StrictSubsetOrdering(C)
  <2> HIDE DEF D
  <2> QED BY <1>3, FS_StrictSubsetOrderingWellFounded, WFMin
<1>5. PICK y \in C : d = Ahead(y)
  OBVIOUS
<1>6. ASSUME NEW x \in C, pos[x] < pos[y] PROVE FALSE
  <2>1. Ahead(x) \subseteq Ahead(y) /\ x \in Ahead(y) /\ x \notin Ahead(x)
    BY <1>1, <1>6
  <2>2. Ahead(x) \in D /\ Ahead(x) \subseteq C /\ Ahead(y) \subseteq C
    OBVIOUS
  <2> QED BY <1>4, <1>5, <2>1, <2>2 DEF StrictSubsetOrdering
<1> QED BY <1>6

\* The first of some nodes belongs to the first k of them.
LEMMA FirstIsAdmitted ==
  ASSUME NEW pos, NEW E, NEW C, NEW k \in Nat \ {0},
         NEW n \in C, \A m \in C : ~(pos[m] < pos[n])
  PROVE  n \in Graph(pos, E)!FirstK(C, k)
<1>1. {m \in C : pos[m] < pos[n]} = {}
  OBVIOUS
<1>2. Graph(pos, E)!Cardinality({}) = 0
  BY DEF Graph!Cardinality
<1> QED BY <1>1, <1>2 DEF Graph!FirstK

\* Where no node is active and some are pending, admission makes one ready.
LEMMA AdmitOpens ==
  ASSUME NEW pos, NEW E, NEW st \in StatusesOf(pos), NEW k \in Nat \ {0},
         IsFiniteSet(DOMAIN pos), pos \in Positions(DOMAIN pos),
         Valid(DOMAIN pos, E),
         \A n \in DOMAIN pos : st[n] \in {"pending"} \cup Done,
         \E n \in DOMAIN pos : st[n] = "pending"
  PROVE  \E n \in DOMAIN pos : Graph(pos, E)!Admit(st, k)[n] = "ready"
<1> DEFINE P == {n \in DOMAIN pos : st[n] = "pending"}
           C == Graph(pos, E)!ReadyNodes(st)
<1>1. P # {} /\ P \in SUBSET DOMAIN pos
  OBVIOUS
<1>2. PICK q \in P : \A m \in P : <<m, q>> \notin E
  BY <1>1 DEF Valid
<1>3. q \in C
  BY <1>2 DEF Graph!ReadyNodes, Graph!Preds, Graph!EditableStatus, Graph!DoneStatus,
              Done, Now!DoneStatus
<1>4. C \subseteq P
  BY DEF Graph!ReadyNodes, Graph!EditableStatus, Done, Now!DoneStatus
<1>5. Graph(pos, E)!Active(st) = {}
  BY DEF Graph!Active, Graph!ActiveStatus, Done, Now!DoneStatus
<1>6. PICK n \in C : \A m \in C : ~(pos[m] < pos[n])
  <2> HIDE DEF C
  <2>1. C # {} /\ C \subseteq DOMAIN pos /\ DOMAIN pos # {}
    BY <1>1, <1>3, <1>4
  <2> QED BY <2>1, FirstExists
<1>7. n \in Graph(pos, E)!FirstK(C, k)
  BY <1>6, FirstIsAdmitted
<1>8. k - Graph(pos, E)!Cardinality({}) = k
  <2>1. Graph(pos, E)!Cardinality({}) = 0
    BY DEF Graph!Cardinality
  <2> QED BY <2>1
<1>9. n \in Graph(pos, E)!StableReady(st, k)
  <2> HIDE DEF C
  <2>1. C \ {} = C
    OBVIOUS
  <2> QED BY <1>5, <1>7, <1>8, <2>1 DEF Graph!StableReady, C
<1> QED BY <1>4, <1>6, <1>9 DEF Graph!Admit

-----------------------------------------------------------------------------
(* The two instances agree, and what an edit computes anew.                *)

\* The graph as it is.
LEMMA AdmitNow ==
  ASSUME NEW st, NEW k
  PROVE  Now!Admit(st, k) = Graph(order, edges)!Admit(st, k)
BY DEF Now!Admit, Graph!Admit, Now!StableReady, Graph!StableReady, Now!FirstK, Graph!FirstK,
       Now!ReadyNodes, Graph!ReadyNodes, Now!Active, Graph!Active, Now!Preds, Graph!Preds,
       Now!EditableStatus, Graph!EditableStatus, Now!ActiveStatus, Graph!ActiveStatus,
       Now!DoneStatus, Graph!DoneStatus, Now!Cardinality, Graph!Cardinality, Present

\* A node that is neither pending nor done.
Started(st, n) == st[n] \notin {"pending"} \cup Done

\* An edit that computes the statuses anew leaves the nodes that have started
\* as they are; the others are pending, or ready behind nodes that are done.
LEMMA RescheduledShape ==
  ASSUME NEW pos, NEW E, DOMAIN pos = Present, node \in StatusesOf(order)
  PROVE  /\ Rescheduled(pos, E) \in StatusesOf(pos)
         /\ \A n \in Present :
              \/ /\ node[n] \notin {"pending", "ready"}
                 /\ Rescheduled(pos, E)[n] = node[n]
              \/ /\ node[n] \in {"pending", "ready"}
                 /\ \/ Rescheduled(pos, E)[n] = "pending"
                    \/ /\ Rescheduled(pos, E)[n] = "ready"
                       /\ \A m \in Present : <<m, n>> \in E => node[m] \in Done
<1> DEFINE blank == [n \in Present |-> IF node[n] \in {"pending", "ready"}
                                         THEN "pending" ELSE node[n]]
           new == Graph(pos, E)!Admit(blank, Limit)
<1>1. Rescheduled(pos, E) = new
  BY DEF Rescheduled, Graph!Recalculate, Graph!EditableStatus
<1>2. blank \in StatusesOf(pos)
  BY DEF StatusesOf, Status, Now!NodeStatus, Present
<1>3. \A n \in Present : blank[n] \in Done => node[n] \in Done
  BY DEF Done, Now!DoneStatus
<1> HIDE DEF new, blank
<1>4. new \in StatusesOf(pos)
  BY <1>2, AdmitShape DEF new
<1>5. ASSUME NEW n \in Present
      PROVE  \/ new[n] = blank[n]
             \/ /\ blank[n] = "pending" /\ new[n] = "ready"
                /\ \A m \in Present : <<m, n>> \in E => blank[m] \in Done
  BY <1>2, AdmitShape DEF new
<1>6. ASSUME NEW n \in Present
      PROVE  \/ node[n] \notin {"pending", "ready"} /\ blank[n] = node[n]
             \/ node[n] \in {"pending", "ready"} /\ blank[n] = "pending"
  BY DEF blank
<1> QED BY <1>1, <1>3, <1>4, <1>5, <1>6

\* It leaves somebody who has started or may start, unless all nodes are done.
LEMMA RescheduledOpens ==
  ASSUME NEW pos, NEW E, DOMAIN pos = Present, node \in StatusesOf(order),
         IsFiniteSet(Present), pos \in Positions(Present), Valid(Present, E),
         \E n \in Present : node[n] \notin Done
  PROVE  \E n \in Present : Started(Rescheduled(pos, E), n)
<1> DEFINE blank == [n \in Present |-> IF node[n] \in {"pending", "ready"}
                                         THEN "pending" ELSE node[n]]
           new == Graph(pos, E)!Admit(blank, Limit)
<1>1. Rescheduled(pos, E) = new
  BY DEF Rescheduled, Graph!Recalculate, Graph!EditableStatus
<1>2. blank \in StatusesOf(pos)
  BY DEF StatusesOf, Status, Now!NodeStatus, Present
<1>3. \E n \in Present : blank[n] \notin Done
  BY DEF Done, Now!DoneStatus
<1>4. Limit \in Nat \ {0}
  BY TopologyAssumption DEF TopologyAssumption
<1> HIDE DEF new, blank
<1>5. CASE \A n \in Present : blank[n] \in {"pending"} \cup Done
  <2>1. PICK n \in Present : new[n] = "ready"
    BY <1>2, <1>3, <1>4, <1>5, AdmitOpens DEF new
  <2> QED BY <1>1, <2>1 DEF Started, Done, Now!DoneStatus
<1>6. CASE \E n \in Present : blank[n] \notin {"pending"} \cup Done
  <2>1. PICK n \in Present : blank[n] \notin {"pending"} \cup Done
    BY <1>6
  <2>2. new[n] = blank[n]
    BY <1>2, <2>1, AdmitShape DEF new
  <2> QED BY <1>1, <2>1, <2>2 DEF Started
<1> QED BY <1>5, <1>6

-----------------------------------------------------------------------------
(* Type correctness.                                                       *)

Typed == TypeOK /\ IsFiniteSet(Present)

\* What an edit counts.
LEMMA EditedTyped ==
  ASSUME Typed, NEW kinds, kinds \subseteq {"ahead", "moved"}, Edited(kinds)
  PROVE  edits' \in 0..MaxEdits /\ edited' \subseteq {"ahead", "moved"}
BY TopologyAssumption DEF Typed, TypeOK, Edited, TopologyAssumption

\* A node put into a workflow is given a position, and the others keep theirs
\* apart.
LEMMA WithNodePlaces ==
  ASSUME Typed, NEW x, x \notin Present, NEW k \in 0..Cardinality(Present)
  PROVE  /\ WithNode(x, k) \in Positions(Present \cup {x})
         /\ IsFiniteSet(Present \cup {x})
<1> DEFINE N == Present \cup {x}
           new == WithNode(x, k)
<1>1. IsFiniteSet(N) /\ Cardinality(N) = Cardinality(Present) + 1 /\ Cardinality(Present) \in Nat
  BY FS_AddElement, FS_CardinalityType DEF Typed
<1>2. \A n \in Present : order[n] \in 0..(Cardinality(Present) - 1)
  BY DEF Typed, TypeOK, Positions
<1>3. \A m, n \in Present : order[m] = order[n] => m = n
  BY DEF Typed, TypeOK, Positions
<1>4. new = [n \in N |-> IF n = x THEN k
                         ELSE IF order[n] >= k THEN order[n] + 1 ELSE order[n]]
  BY DEF WithNode
<1> HIDE DEF new
<1>5. new[x] = k
  BY <1>4
<1>6. ASSUME NEW n \in Present
      PROVE  \/ order[n] >= k /\ new[n] = order[n] + 1
             \/ order[n] < k /\ new[n] = order[n]
  <2>1. n # x /\ order[n] \in Int /\ k \in Int
    BY <1>1, <1>2
  <2> QED BY <1>4, <2>1
<1>7. ASSUME NEW n \in N PROVE new[n] \in 0..(Cardinality(N) - 1)
  BY <1>1, <1>2, <1>5, <1>6
<1>8. ASSUME NEW m \in N, NEW n \in N, new[m] = new[n] PROVE m = n
  <2>1. CASE m \in Present /\ n \in Present
    BY <1>1, <1>2, <1>3, <1>6, <1>8, <2>1
  <2>2. CASE m = x \/ n = x
    BY <1>1, <1>2, <1>5, <1>6, <1>8, <2>2
  <2> QED BY <2>1, <2>2
<1>9. new \in [N -> 0..(Cardinality(N) - 1)]
  BY <1>4, <1>7
<1>10. new \in Positions(N)
  BY <1>8, <1>9 DEF Positions
<1> QED BY <1>1, <1>10 DEF new

\* Where the nodes stand once n is gone.
WithoutNode(n) ==
  [m \in Present \ {n} |-> IF order[m] > order[n] THEN order[m] - 1 ELSE order[m]]

LEMMA WithoutNodePlaces ==
  ASSUME Typed, NEW n \in Present
  PROVE  /\ WithoutNode(n) \in Positions(Present \ {n})
         /\ IsFiniteSet(Present \ {n})
<1> DEFINE N == Present \ {n}
           new == WithoutNode(n)
<1>1. IsFiniteSet(N) /\ Cardinality(N) = Cardinality(Present) - 1 /\ Cardinality(Present) \in Nat
  BY FS_RemoveElement, FS_CardinalityType DEF Typed
<1>2. \A m \in Present : order[m] \in 0..(Cardinality(Present) - 1)
  BY DEF Typed, TypeOK, Positions
<1>3. \A m, q \in Present : order[m] = order[q] => m = q
  BY DEF Typed, TypeOK, Positions
<1>4. new = [m \in N |-> IF order[m] > order[n] THEN order[m] - 1 ELSE order[m]]
  BY DEF WithoutNode
<1> HIDE DEF new
<1>5. ASSUME NEW m \in N
      PROVE  \/ order[m] > order[n] /\ new[m] = order[m] - 1
             \/ order[m] < order[n] /\ new[m] = order[m]
  <2>1. order[m] \in Int /\ order[n] \in Int /\ order[m] # order[n]
    BY <1>1, <1>2, <1>3
  <2> QED BY <1>4, <2>1
<1>6. ASSUME NEW m \in N PROVE new[m] \in 0..(Cardinality(N) - 1)
  <2>1. /\ order[m] \in 0..(Cardinality(Present) - 1)
        /\ order[n] \in 0..(Cardinality(Present) - 1)
    BY <1>2
  <2> QED BY <1>1, <1>5, <2>1
<1>7. ASSUME NEW m \in N, NEW q \in N, new[m] = new[q] PROVE m = q
  <2>1. /\ order[m] \in Int /\ order[n] \in Int /\ order[q] \in Int
        /\ order[m] = order[q] => m = q
    BY <1>1, <1>2, <1>3
  <2> QED BY <1>5, <1>7, <2>1
<1>8. new \in [N -> 0..(Cardinality(N) - 1)]
  BY <1>4, <1>6
<1>9. new \in Positions(N)
  BY <1>7, <1>8 DEF Positions
<1> QED BY <1>1, <1>9 DEF new

\* The position an insertion chooses.
LEMMA PlaceIsOne ==
  ASSUME Typed, NEW a \in Present \cup {NoNode}, NEW b \in Present \cup {NoNode}
  PROVE  Place(a, b) \in 0..Cardinality(Present)
<1>1. Cardinality(Present) \in Nat
  BY FS_CardinalityType DEF Typed
<1>2. \A n \in Present : order[n] \in 0..(Cardinality(Present) - 1)
  BY DEF Typed, TypeOK, Positions
<1> QED BY <1>1, <1>2 DEF Place

\* The statuses a node ends in.
Ends == {"completed", "failed", "skipped"}

\* The end of a node: of the others, only pending ones change, and those that
\* do become ready behind nodes that are done.
LEMMA EndShape ==
  ASSUME Typed, NEW n \in Present, NEW s \in Ends, End(n, s)
  PROVE  /\ order' = order /\ edges' = edges
         /\ node' \in StatusesOf(order) /\ node'[n] = s
         /\ node[n] \notin Done
         /\ node[n] = "pending" => s = "skipped"
         /\ \A m \in Present \ {n} :
              \/ node'[m] = node[m]
              \/ /\ node[m] = "pending" /\ node'[m] = "ready"
                 /\ \A q \in Present : <<q, m>> \in edges => node'[q] \in Done
         /\ exec' = Now!Projection(node')
<1> DEFINE base == [node EXCEPT ![n] = s]
           new == Graph(order, edges)!Admit(base, Limit)
<1>1. order' = order /\ edges' = edges /\ node' = new /\ exec' = Now!Projection(node')
  BY AdmitNow DEF End
<1>2. node[n] \notin Done /\ (node[n] = "pending" => s = "skipped")
  BY DEF End, Now!CanMove, Now!NodeTransitions, Done, Now!DoneStatus, Ends
<1>3. node \in StatusesOf(order)
  BY DEF Typed, TypeOK, StatusesOf, Status, Present
<1>4. base \in StatusesOf(order)
  BY <1>3 DEF StatusesOf, Status, Now!NodeStatus, Ends
<1>5. base[n] = s /\ \A m \in Present \ {n} : base[m] = node[m]
  BY <1>3 DEF StatusesOf, Present
<1> HIDE DEF base, new
<1>6. new \in StatusesOf(order)
  BY <1>4, AdmitShape DEF new
<1>7. ASSUME NEW m \in Present
      PROVE  \/ new[m] = base[m]
             \/ /\ base[m] = "pending" /\ new[m] = "ready"
                /\ \A q \in Present : <<q, m>> \in edges => base[q] \in Done
  BY <1>4, AdmitShape DEF new, Present
<1>8. s # "pending"
  BY DEF Ends
<1>9. new[n] = s
  BY <1>5, <1>7, <1>8
<1>10. ASSUME NEW q \in Present, base[q] \in Done PROVE new[q] \in Done
  BY <1>7, <1>10 DEF Done, Now!DoneStatus
<1>11. ASSUME NEW m \in Present \ {n}
       PROVE  \/ new[m] = node[m]
              \/ /\ node[m] = "pending" /\ new[m] = "ready"
                 /\ \A q \in Present : <<q, m>> \in edges => new[q] \in Done
  BY <1>5, <1>7, <1>10
<1> QED BY <1>1, <1>2, <1>6, <1>9, <1>11

\* Every end of a node is one of these.
LEMMA WorkCases ==
  ASSUME NEW n, ReserveNode(n) \/ CompleteNode(n) \/ FinishNode(n) \/ SkipNode(n)
  PROVE  \/ ReserveNode(n)
         \/ \E s \in Ends : End(n, s)
<1>1. {"completed", "failed", "skipped"} = Ends
  BY DEF Ends
<1> QED BY <1>1 DEF CompleteNode, FinishNode, SkipNode

\* What an execution shows of a workflow.
LEMMA ProjectionShape ==
  ASSUME NEW st
  PROVE  /\ Now!Projection(st) \in Now!ExecutionStatus
         /\ Now!Projection(st) = "completed" <=> Now!AllDone(st)
BY DEF Now!Projection, Now!ExecutionStatus

(* The first workflow.                                                     *)
LEMMA FirstWorkflow ==
  ASSUME Init
  PROVE  /\ Typed
         /\ \A n \in Present : node[n] \in {"pending", "ready"}
         /\ \A e \in edges : node[e[2]] = "pending"
         /\ Present # {} => \E n \in Present : node[n] = "ready"
<1> DEFINE st == [n \in Present |-> "pending"]
           new == Graph(order, edges)!Admit(st, 1)
<1>1. /\ IsFiniteSet(Present) /\ Present \subseteq NodeIds
      /\ order \in Positions(Present) /\ Valid(Present, edges)
  BY TopologyAssumption, TemplateAssumption
     DEF Init, Present, TopologyAssumption, TemplateAssumption
<1>2. node = new /\ run = node
  BY DEF Init, Graph!InstantiatedStatus, Present
<1>3. st \in StatusesOf(order)
  BY DEF StatusesOf, Status, Now!NodeStatus, Present
<1>4. \A n \in Present : st[n] = "pending"
  OBVIOUS
<1> HIDE DEF st, new
<1>5. new \in StatusesOf(order)
  BY <1>3, AdmitShape DEF new
<1>6. ASSUME NEW n \in Present
      PROVE  \/ new[n] = "pending"
             \/ new[n] = "ready" /\ \A m \in Present : <<m, n>> \notin edges
  <2>1. \/ new[n] = st[n]
        \/ new[n] = "ready" /\ \A m \in Present : <<m, n>> \in edges => st[m] \in Done
    BY <1>3, AdmitShape DEF new, Present
  <2> QED BY <1>4, <2>1 DEF Done, Now!DoneStatus
<1>7. ASSUME NEW e \in edges PROVE new[e[2]] = "pending"
  <2>1. e[1] \in Present /\ e[2] \in Present /\ e = <<e[1], e[2]>>
    BY <1>1 DEF Valid
  <2> QED BY <1>6, <2>1
<1>8. ASSUME Present # {} PROVE \E n \in Present : new[n] = "ready"
  <2>1. \E n \in Present : st[n] = "pending"
    BY <1>4, <1>8
  <2> QED BY <1>1, <1>3, <1>4, <2>1, AdmitOpens DEF new, Present
<1>9. Typed
  <2>1. exec \in Now!ExecutionStatus /\ edits \in 0..MaxEdits /\ edited = {}
    BY TopologyAssumption DEF Init, TopologyAssumption, Now!ExecutionStatus
  <2>2. node \in [Present -> Now!NodeStatus] /\ run \in [Present -> Now!NodeStatus]
    BY <1>2, <1>5 DEF StatusesOf, Status, Present
  <2> QED BY <1>1, <2>1, <2>2 DEF Typed, TypeOK
<1> QED BY <1>2, <1>6, <1>7, <1>8, <1>9

LEMMA TypedStep ==
  ASSUME Typed, [Next]_vars
  PROVE  Typed'
<1> USE DEF Status
<1>1. ASSUME NEW x \in NodeIds, NEW a \in Present \cup {NoNode}, NEW b \in Present \cup {NoNode},
             InsertNode(x, a, b)
      PROVE  Typed'
  <2> DEFINE kinds == {"ahead" : n \in {m \in Present : m = b /\ node[m] = "ready"}}
  <2>1. /\ x \notin Present /\ Valid(Present \cup {x}, Anchored(Between(x, a, b)))
        /\ Edited(kinds) /\ exec' = exec
        /\ order' = WithNode(x, Place(a, b))
        /\ edges' = Anchored(Between(x, a, b))
        /\ node' = [n \in Present \cup {x} |-> IF n = x THEN "pending" ELSE node[n]]
        /\ run' = [n \in Present \cup {x} |-> IF n = x THEN "pending" ELSE run[n]]
    BY <1>1 DEF InsertNode
  <2>2. Place(a, b) \in 0..Cardinality(Present)
    BY PlaceIsOne
  <2>3. order' \in Positions(Present \cup {x}) /\ IsFiniteSet(Present \cup {x})
    BY <2>1, <2>2, WithNodePlaces
  <2>4. Present' = Present \cup {x}
    BY <2>1 DEF Present, WithNode
  <2>5. edits' \in 0..MaxEdits /\ edited' \subseteq {"ahead", "moved"}
    BY <2>1, EditedTyped
  <2>6. /\ node' \in [Present' -> Now!NodeStatus] /\ run' \in [Present' -> Now!NodeStatus]
        /\ exec' \in Now!ExecutionStatus /\ Present' \subseteq NodeIds
    BY <2>1, <2>4 DEF Typed, TypeOK, Now!NodeStatus
  <2> QED BY <2>1, <2>3, <2>4, <2>5, <2>6 DEF Typed, TypeOK, Now!NodeStatus, Now!ExecutionStatus
<1>2. ASSUME NEW n \in Present, RemoveNode(n) PROVE Typed'
  <2>1. /\ Valid(Present \ {n}, Reconnected(n)) /\ Edited({}) /\ exec' = exec
        /\ order' = WithoutNode(n) /\ edges' = Reconnected(n)
        /\ node' = [m \in Present \ {n} |-> node[m]]
        /\ run' = [m \in Present \ {n} |-> run[m]]
    BY <1>2 DEF RemoveNode, WithoutNode
  <2>2. order' \in Positions(Present \ {n}) /\ IsFiniteSet(Present \ {n})
    BY <2>1, WithoutNodePlaces
  <2>3. Present' = Present \ {n}
    BY <2>1 DEF Present, WithoutNode
  <2>4. edits' \in 0..MaxEdits /\ edited' \subseteq {"ahead", "moved"}
    BY <2>1, EditedTyped
  <2>5. /\ node' \in [Present' -> Now!NodeStatus] /\ run' \in [Present' -> Now!NodeStatus]
        /\ exec' \in Now!ExecutionStatus /\ Present' \subseteq NodeIds
    BY <2>1, <2>3 DEF Typed, TypeOK
  <2> QED BY <2>1, <2>2, <2>3, <2>4, <2>5 DEF Typed, TypeOK, Now!NodeStatus, Now!ExecutionStatus
<1>3. ASSUME NEW e \in edges, NEW f \in Present \X Present, UpdateEdge(e, f) PROVE Typed'
  <2>1. /\ Valid(Present, (edges \ {e}) \cup {f}) /\ Edited({"moved"})
        /\ edges' = (edges \ {e}) \cup {f}
        /\ node' = Rescheduled(order, edges')
        /\ order' = order /\ run' = run /\ exec' = exec
    BY <1>3 DEF UpdateEdge
  <2>2. node' \in StatusesOf(order)
    BY <2>1, RescheduledShape DEF Typed, TypeOK, StatusesOf, Present
  <2>3. edits' \in 0..MaxEdits /\ edited' \subseteq {"ahead", "moved"}
    BY <2>1, EditedTyped
  <2>4. Present' = Present
    BY <2>1 DEF Present
  <2>5. node' \in [Present -> Now!NodeStatus]
    BY <2>2 DEF StatusesOf, Present
  <2> QED BY <2>1, <2>3, <2>4, <2>5 DEF Typed, TypeOK, Now!NodeStatus, Now!ExecutionStatus
<1>4. ASSUME NEW pos \in Positions(Present), Reorder(pos) PROVE Typed'
  <2>1. /\ Edited({"moved"}) /\ order' = pos /\ node' = Rescheduled(pos, edges)
        /\ edges' = edges /\ run' = run /\ exec' = exec
    BY <1>4 DEF Reorder
  <2>2. DOMAIN pos = Present
    BY DEF Positions
  <2>3. node' \in StatusesOf(pos)
    BY <2>1, <2>2, RescheduledShape DEF Typed, TypeOK, StatusesOf, Present
  <2>4. edits' \in 0..MaxEdits /\ edited' \subseteq {"ahead", "moved"}
    BY <2>1, EditedTyped
  <2>5. Present' = Present
    BY <2>1, <2>2 DEF Present
  <2>6. node' \in [Present -> Now!NodeStatus]
    BY <2>2, <2>3 DEF StatusesOf
  <2> QED BY <2>1, <2>4, <2>5, <2>6 DEF Typed, TypeOK, Now!NodeStatus, Now!ExecutionStatus
<1>5. ASSUME NEW n \in Present, ReserveNode(n) PROVE Typed'
  <2>1. /\ node' = [node EXCEPT ![n] = "running"] /\ run' = [run EXCEPT ![n] = "running"]
        /\ exec' = Now!Projection(node')
        /\ order' = order /\ edges' = edges /\ edits' = edits /\ edited' = edited
    BY <1>5 DEF ReserveNode
  <2>2. exec' \in Now!ExecutionStatus
    BY <2>1, ProjectionShape
  <2>3. Present' = Present
    BY <2>1 DEF Present
  <2>4. node' \in [Present -> Now!NodeStatus] /\ run' \in [Present -> Now!NodeStatus]
    BY <2>1 DEF Typed, TypeOK, Now!NodeStatus
  <2> QED BY <2>1, <2>2, <2>3, <2>4 DEF Typed, TypeOK, Now!NodeStatus, Now!ExecutionStatus
<1>6. ASSUME NEW n \in Present, NEW s \in Ends, End(n, s) PROVE Typed'
  <2>1. /\ order' = order /\ edges' = edges
        /\ node' \in StatusesOf(order) /\ exec' = Now!Projection(node')
    BY <1>6, EndShape
  <2>2. exec' \in Now!ExecutionStatus
    BY <2>1, ProjectionShape
  <2>3. Present' = Present
    BY <2>1 DEF Present
  <2>4. node' \in [Present -> Now!NodeStatus]
    BY <2>1 DEF StatusesOf, Present
  <2>5. edits' = edits /\ edited' = edited /\ \E st : run' = Activated(n, s, st)
    BY <1>6 DEF End
  <2>6. run' \in [Present -> Now!NodeStatus]
    BY <2>5 DEF Activated, Typed, TypeOK, Now!NodeStatus, Ends
  <2> QED BY <2>1, <2>2, <2>3, <2>4, <2>5, <2>6
          DEF Typed, TypeOK, Now!NodeStatus, Now!ExecutionStatus
<1>7. CASE UNCHANGED vars
  BY <1>7 DEF vars, Typed, TypeOK, Present, Now!NodeStatus, Now!ExecutionStatus
<1>8. CASE Edit
  BY <1>1, <1>2, <1>3, <1>4, <1>8 DEF Edit
<1>9. CASE Work
  BY <1>5, <1>6, <1>9, WorkCases DEF Work
<1> QED BY <1>7, <1>8, <1>9 DEF Next

(* Whatever is inserted, removed, reconnected and reordered, the workflow  *)
(* stays a graph without cycles over its nodes, each of which has a        *)
(* position of its own and a run                                           *)
(* (assertValidWorkflow after each edit, domain/workflow.ts:581-729).      *)
THEOREM EditsKeepWorkflowValid == Spec => []TypeOK
<1>1. Init => Typed
  BY FirstWorkflow
<1>2. Typed /\ [Next]_vars => Typed'
  BY TypedStep
<1>3. Typed => TypeOK
  BY DEF Typed
<1> QED BY <1>1, <1>2, <1>3, PTL DEF Spec

-----------------------------------------------------------------------------
(* The execution and its workflow.                                         *)

\* A node is under way or may be started, unless all are done.
SomeOpen ==
  (\E n \in Present : node[n] \notin Done) => \E n \in Present : Started(node, n)

OpenInv == CompletedTogether /\ SomeOpen

LEMMA CompletedMeansDone ==
  CompletedTogether <=> (exec = "completed" <=> \A n \in Present : node[n] \in Done)
BY DEF CompletedTogether, Now!AllDone, Done

\* After a work step the execution shows what the workflow is.
LEMMA WorkCompletesTogether ==
  ASSUME Present' = Present, exec' = Now!Projection(node')
  PROVE  CompletedTogether'
<1>1. exec' = "completed" <=> Now!AllDone(node')
  BY ProjectionShape
<1>2. Now!AllDone(node') <=> Now!AllDone(node)'
  BY DEF Now!AllDone, Now!DoneStatus
<1> QED BY <1>1, <1>2 DEF CompletedTogether

LEMMA OpenStep ==
  ASSUME Typed, Typed', OpenInv, [Next]_vars
  PROVE  OpenInv'
<1> USE DEF Started
<1>1. exec = "completed" <=> \A n \in Present : node[n] \in Done
  BY CompletedMeansDone DEF OpenInv
<1>2. SUFFICES /\ (exec' = "completed" <=> \A n \in Present' : node'[n] \in Done)
               /\ SomeOpen'
  BY DEF OpenInv, CompletedTogether, Now!AllDone, Done, Now!DoneStatus
<1>3. ASSUME NEW x \in NodeIds, NEW a, NEW b, InsertNode(x, a, b)
      PROVE  /\ (exec' = "completed" <=> \A n \in Present' : node'[n] \in Done)
             /\ SomeOpen'
  <2>1. /\ x \notin Present /\ exec # "completed" /\ exec' = exec
        /\ node' = [n \in Present \cup {x} |-> IF n = x THEN "pending" ELSE node[n]]
        /\ Present' = Present \cup {x}
    BY <1>3 DEF InsertNode, ExecutionIsActive, WithNode, Present
  <2>2. PICK n \in Present : Started(node, n)
    BY <1>1, <2>1 DEF OpenInv, SomeOpen
  <2>3. n \in Present' /\ node'[n] = node[n]
    BY <2>1
  <2> QED BY <2>1, <2>2, <2>3 DEF SomeOpen, Done, Now!DoneStatus
<1>4. ASSUME NEW k \in Present, RemoveNode(k)
      PROVE  /\ (exec' = "completed" <=> \A n \in Present' : node'[n] \in Done)
             /\ SomeOpen'
  <2>1. /\ exec # "completed" /\ exec' = exec /\ node[k] = "pending"
        /\ node' = [n \in Present \ {k} |-> node[n]]
        /\ Present' = Present \ {k}
    BY <1>4 DEF RemoveNode, ExecutionIsActive, Present
  <2>2. PICK n \in Present : Started(node, n)
    BY <1>1, <2>1 DEF OpenInv, SomeOpen
  <2>3. n \in Present' /\ node'[n] = node[n]
    BY <2>1, <2>2
  <2> QED BY <2>1, <2>2, <2>3 DEF SomeOpen, Done, Now!DoneStatus
<1>5. ASSUME NEW pos, NEW E, pos \in Positions(Present), Valid(Present, E),
             node' = Rescheduled(pos, E), exec' = exec, Present' = Present
      PROVE  /\ (exec' = "completed" <=> \A n \in Present' : node'[n] \in Done)
             /\ SomeOpen'
  <2>1. DOMAIN pos = Present /\ IsFiniteSet(Present) /\ node \in StatusesOf(order)
    BY <1>5 DEF Positions, Typed, TypeOK, StatusesOf, Status, Present
  <2>2. \A n \in Present : node'[n] \in Done <=> node[n] \in Done
    BY <1>5, <2>1, RescheduledShape DEF Done, Now!DoneStatus
  <2>3. ASSUME \E n \in Present : node'[n] \notin Done
        PROVE  \E n \in Present : Started(node', n)
    BY <1>5, <2>1, <2>2, <2>3, RescheduledOpens
  <2> QED BY <1>1, <1>5, <2>2, <2>3 DEF SomeOpen, Done, Now!DoneStatus
<1>6. ASSUME NEW n \in Present, ReserveNode(n)
      PROVE  /\ (exec' = "completed" <=> \A m \in Present' : node'[m] \in Done)
             /\ SomeOpen'
  <2>1. node' = [node EXCEPT ![n] = "running"] /\ exec' = Now!Projection(node')
    BY <1>6 DEF ReserveNode
  <2>2. Present' = Present
    BY <1>6 DEF ReserveNode, Present
  <2>3. node'[n] = "running"
    BY <2>1 DEF Typed, TypeOK
  <2>4. exec' = "completed" <=> \A m \in Present' : node'[m] \in Done
    BY <2>1, <2>2, WorkCompletesTogether DEF CompletedTogether, Now!AllDone, Done, Now!DoneStatus
  <2> QED BY <2>2, <2>3, <2>4 DEF SomeOpen, Done, Now!DoneStatus
<1>7. ASSUME NEW n \in Present, NEW s \in Ends, End(n, s)
      PROVE  /\ (exec' = "completed" <=> \A m \in Present' : node'[m] \in Done)
             /\ SomeOpen'
  <2> DEFINE base == [node EXCEPT ![n] = s]
             new == Graph(order, edges)!Admit(base, Limit)
  <2>1. node' = new /\ exec' = Now!Projection(node')
    BY <1>7, AdmitNow DEF End
  <2>2. Present' = Present
    BY <1>7 DEF End, Present
  <2>3. exec' = "completed" <=> \A m \in Present' : node'[m] \in Done
    BY <2>1, <2>2, WorkCompletesTogether DEF CompletedTogether, Now!AllDone, Done, Now!DoneStatus
  <2>4. base \in StatusesOf(order)
    BY DEF StatusesOf, Status, Now!NodeStatus, Ends, Typed, TypeOK, Present
  <2>5. /\ IsFiniteSet(DOMAIN order) /\ order \in Positions(DOMAIN order)
        /\ Valid(DOMAIN order, edges) /\ Limit \in Nat \ {0}
    BY TopologyAssumption DEF Typed, TypeOK, Present, TopologyAssumption
  <2> HIDE DEF base, new
  <2>6. ASSUME NEW m \in Present
        PROVE  new[m] = base[m] \/ (base[m] = "pending" /\ new[m] = "ready")
    BY <2>4, AdmitShape DEF new, Present
  <2>7. ASSUME NEW m \in Present, new[m] \notin Done
        PROVE  \E q \in Present : Started(new, q)
    <3>1. CASE \A q \in Present : base[q] \in {"pending"} \cup Done
      <4>1. base[m] = "pending"
        BY <2>6, <2>7, <3>1 DEF Done, Now!DoneStatus
      <4>2. PICK q \in Present : new[q] = "ready"
        BY <2>4, <2>5, <3>1, <4>1, AdmitOpens DEF new, Present
      <4> QED BY <4>2 DEF Done, Now!DoneStatus
    <3>2. CASE \E q \in Present : base[q] \notin {"pending"} \cup Done
      BY <2>6, <3>2
    <3> QED BY <3>1, <3>2
  <2> QED BY <2>1, <2>2, <2>3, <2>7 DEF SomeOpen, Done, Now!DoneStatus
<1>8. CASE UNCHANGED vars
  BY <1>1, <1>8 DEF vars, OpenInv, SomeOpen, Present, Done, Now!DoneStatus
<1>9. CASE Edit
  <2>1. ASSUME NEW e \in edges, NEW f \in Present \X Present, UpdateEdge(e, f)
        PROVE  /\ (exec' = "completed" <=> \A n \in Present' : node'[n] \in Done)
               /\ SomeOpen'
    <3>1. /\ Valid(Present, (edges \ {e}) \cup {f}) /\ order' = order /\ exec' = exec
          /\ node' = Rescheduled(order, (edges \ {e}) \cup {f})
      BY <2>1 DEF UpdateEdge
    <3>2. Present' = Present /\ order \in Positions(Present)
      BY <3>1 DEF Present, Typed, TypeOK
    <3> QED BY <1>5, <3>1, <3>2
  <2>2. ASSUME NEW pos \in Positions(Present), Reorder(pos)
        PROVE  /\ (exec' = "completed" <=> \A n \in Present' : node'[n] \in Done)
               /\ SomeOpen'
    <3>1. order' = pos /\ exec' = exec /\ node' = Rescheduled(pos, edges)
      BY <2>2 DEF Reorder
    <3>2. Present' = Present /\ Valid(Present, edges)
      BY <3>1 DEF Present, Positions, Typed, TypeOK
    <3> QED BY <1>5, <3>1, <3>2
  <2> QED BY <1>3, <1>4, <1>9, <2>1, <2>2 DEF Edit
<1>10. CASE Work
  BY <1>6, <1>7, <1>10, WorkCases DEF Work
<1> QED BY <1>8, <1>9, <1>10 DEF Next

(* No edit looks at the execution's status again, and none has to: an      *)
(* execution is completed exactly when all nodes are done, since an edit   *)
(* always leaves somebody who has started or may start                     *)
(* (manage-requirement-workflow.ts:46-131).  A template is published with a *)
(* node at least (validate-workflow-template-publication.ts:49).           *)
THEOREM EditsKeepCompletion ==
  ASSUME DOMAIN Template # {}
  PROVE  Spec => []CompletedTogether
<1>1. Init => OpenInv
  <2> SUFFICES ASSUME Init PROVE OpenInv
    OBVIOUS
  <2>1. /\ DOMAIN Template = Present /\ exec = "created"
        /\ \A n \in Present : node[n] \in {"pending", "ready"}
        /\ Present # {} => \E n \in Present : node[n] = "ready"
    BY FirstWorkflow DEF Init, Present
  <2>2. Present # {}
    BY <2>1
  <2> QED BY <2>1, <2>2, CompletedMeansDone
          DEF OpenInv, SomeOpen, Started, Done, Now!DoneStatus
<1>2. Typed /\ Typed' /\ OpenInv /\ [Next]_vars => OpenInv'
  BY OpenStep
<1>3. OpenInv => CompletedTogether
  BY DEF OpenInv
<1>4. Init => Typed
  BY FirstWorkflow
<1>5. Typed /\ [Next]_vars => Typed'
  BY TypedStep
<1> QED BY <1>1, <1>2, <1>3, <1>4, <1>5, PTL DEF Spec

-----------------------------------------------------------------------------
(* The order of the nodes.                                                 *)

LEMMA OrderStep ==
  ASSUME Typed, DependencyOrder, [Next]_vars
  PROVE  DependencyOrder'
<1>1. SUFFICES ASSUME "ahead" \notin edited', NEW e \in edges',
                      node'[e[2]] \notin {"pending", "skipped"}
               PROVE  node'[e[1]] \in Done
  BY DEF DependencyOrder, Done, Now!DoneStatus
<1>2. "ahead" \notin edited
  BY <1>1 DEF Next, Edit, Work, InsertNode, RemoveNode, UpdateEdge, Reorder, Edited,
              ReserveNode, CompleteNode, FinishNode, SkipNode, End, vars
<1>3. ASSUME NEW d \in edges
      PROVE  /\ d[1] \in Present /\ d[2] \in Present /\ d = <<d[1], d[2]>>
             /\ node[d[2]] \notin {"pending", "skipped"} => node[d[1]] \in Done
  BY <1>2 DEF Typed, TypeOK, Valid, DependencyOrder, Done
<1>4. ASSUME NEW x \in NodeIds, NEW a \in Present \cup {NoNode}, NEW b \in Present \cup {NoNode},
             InsertNode(x, a, b)
      PROVE  node'[e[1]] \in Done
  <2>1. /\ x \notin Present /\ edges' = Anchored(Between(x, a, b))
        /\ node' = [n \in Present \cup {x} |-> IF n = x THEN "pending" ELSE node[n]]
        /\ b # NoNode => Mutable(b)
        /\ Edited({"ahead" : n \in {m \in Present : m = b /\ node[m] = "ready"}})
    BY <1>4 DEF InsertNode
  <2>2. e \in edges \/ e = <<a, x>> \/ (e = <<x, b>> /\ b # NoNode)
    BY <1>1, <2>1 DEF Anchored, Between
  <2>3. CASE e \in edges
    <3>1. e[1] \in Present /\ e[2] \in Present
      BY <1>3, <2>3
    <3>2. node'[e[2]] = node[e[2]] /\ node'[e[1]] = node[e[1]]
      BY <2>1, <3>1
    <3> QED BY <1>1, <1>3, <2>3, <3>2
  <2>4. CASE e = <<a, x>>
    BY <1>1, <2>1, <2>4
  <2>5. CASE e = <<x, b>> /\ b # NoNode
    <3>1. b \in Present /\ node[b] \in {"pending", "ready"}
      BY <2>1, <2>5 DEF Mutable, Now!EditableStatus
    <3>2. node[b] # "ready"
      <4> SUFFICES ASSUME node[b] = "ready" PROVE FALSE
        OBVIOUS
      <4>1. b \in {m \in Present : m = b /\ node[m] = "ready"}
        BY <3>1
      <4> QED BY <1>1, <2>1, <4>1 DEF Edited
    <3>3. node'[e[2]] = node[b]
      BY <2>1, <2>5, <3>1
    <3> QED BY <1>1, <3>1, <3>2, <3>3
  <2> QED BY <2>2, <2>3, <2>4, <2>5
<1>5. ASSUME NEW k \in Present, RemoveNode(k) PROVE node'[e[1]] \in Done
  <2>1. /\ node[k] = "pending" /\ edges' = Reconnected(k)
        /\ node' = [n \in Present \ {k} |-> node[n]]
    BY <1>5 DEF RemoveNode
  <2>2. \/ e \in edges /\ e[1] # k /\ e[2] # k
        \/ e[2] \in Present /\ e[2] # k /\ <<k, e[2]>> \in edges
    <3>1. CASE e \in {d \in edges : k \notin {d[1], d[2]}}
      BY <3>1
    <3>2. CASE e \in Now!Preds(k) \X {m \in Present : <<k, m>> \in edges}
      <4>1. <<k, k>> \notin edges
        <5>1. {k} \in SUBSET Present
          OBVIOUS
        <5>2. \E n \in {k} : \A m \in {k} : <<m, n>> \notin edges
          BY <5>1 DEF Typed, TypeOK, Valid
        <5> QED BY <5>2
      <4> QED BY <3>2, <4>1
    <3> QED BY <1>1, <2>1, <3>1, <3>2 DEF Reconnected
  <2>3. CASE e \in edges /\ e[1] # k /\ e[2] # k
    BY <1>1, <1>3, <2>1, <2>3
  <2>4. CASE e[2] \in Present /\ e[2] # k /\ <<k, e[2]>> \in edges
    <3>1. node[e[2]] \in {"pending", "skipped"}
      <4>1. <<k, e[2]>>[1] = k /\ <<k, e[2]>>[2] = e[2]
        OBVIOUS
      <4>2. node[k] \notin Done
        BY <2>1 DEF Done, Now!DoneStatus
      <4> QED BY <1>3, <2>4, <4>1, <4>2
    <3> QED BY <1>1, <2>1, <2>4, <3>1
  <2> QED BY <2>2, <2>3, <2>4
<1>6. ASSUME NEW pos \in Positions(Present), NEW E, edges' = E, node' = Rescheduled(pos, E),
             E \subseteq Present \X Present,
             \A d \in E : d \notin edges => node[d[2]] \in {"pending", "ready"}
      PROVE  node'[e[1]] \in Done
  <2>1. DOMAIN pos = Present /\ node \in StatusesOf(order)
    BY DEF Positions, Typed, TypeOK, StatusesOf, Status, Present
  <2>2. e[1] \in Present /\ e[2] \in Present /\ e = <<e[1], e[2]>>
    BY <1>1, <1>6
  <2>3. ASSUME NEW m \in Present, node[m] \in Done PROVE node'[m] \in Done
    BY <1>6, <2>1, <2>3, RescheduledShape DEF Done, Now!DoneStatus
  <2>4. CASE node[e[2]] \notin {"pending", "ready"} /\ node'[e[2]] = node[e[2]]
    BY <1>1, <1>3, <1>6, <2>2, <2>3, <2>4
  <2>5. CASE \A m \in Present : <<m, e[2]>> \in E => node[m] \in Done
    BY <1>1, <1>6, <2>2, <2>3, <2>5
  <2> QED BY <1>1, <1>6, <2>1, <2>2, <2>4, <2>5, RescheduledShape
<1>7. ASSUME NEW n \in Present, ReserveNode(n) PROVE node'[e[1]] \in Done
  <2>1. /\ node' = [node EXCEPT ![n] = "running"] /\ edges' = edges
        /\ Now!CanMove(node[n], "running")
    BY <1>7 DEF ReserveNode
  <2>2. node[n] \notin {"pending", "skipped"} /\ node[n] \notin Done
    BY <2>1 DEF Now!CanMove, Now!NodeTransitions, Done, Now!DoneStatus
  <2>3. \A m \in Present \ {n} : node'[m] = node[m]
    BY <2>1 DEF Typed, TypeOK
  <2>4. /\ e[1] \in Present /\ e[2] \in Present
        /\ node[e[2]] \notin {"pending", "skipped"} => node[e[1]] \in Done
    BY <1>1, <1>3, <2>1
  <2>5. node[e[2]] \notin {"pending", "skipped"}
    BY <1>1, <2>2, <2>3, <2>4
  <2>6. e[1] # n
    BY <2>2, <2>4, <2>5
  <2> QED BY <2>3, <2>4, <2>5, <2>6
<1>8. ASSUME NEW n \in Present, NEW s \in Ends, End(n, s) PROVE node'[e[1]] \in Done
  <2>1. /\ edges' = edges /\ node'[n] = s /\ node[n] \notin Done
        /\ node[n] = "pending" => s = "skipped"
        /\ \A m \in Present \ {n} :
             \/ node'[m] = node[m]
             \/ /\ node[m] = "pending" /\ node'[m] = "ready"
                /\ \A q \in Present : <<q, m>> \in edges => node'[q] \in Done
    BY <1>8, EndShape
  <2>2. /\ e[1] \in Present /\ e[2] \in Present /\ e = <<e[1], e[2]>> /\ e \in edges
        /\ node[e[2]] \notin {"pending", "skipped"} => node[e[1]] \in Done
    BY <1>1, <1>3, <2>1
  <2>3. ASSUME NEW m \in Present, node[m] \in Done PROVE node'[m] \in Done
    BY <2>1, <2>3 DEF Done, Now!DoneStatus
  <2>4. CASE e[2] = n
    <3>1. node[n] \notin {"pending", "skipped"}
      BY <1>1, <2>1, <2>4 DEF Done, Now!DoneStatus
    <3> QED BY <2>2, <2>3, <2>4, <3>1
  <2>5. CASE e[2] # n
    <3>1. \/ node'[e[2]] = node[e[2]]
          \/ \A q \in Present : <<q, e[2]>> \in edges => node'[q] \in Done
      BY <2>1, <2>2, <2>5
    <3>2. CASE node'[e[2]] = node[e[2]]
      BY <1>1, <2>2, <2>3, <3>2
    <3>3. CASE \A q \in Present : <<q, e[2]>> \in edges => node'[q] \in Done
      BY <2>2, <3>3
    <3> QED BY <3>1, <3>2, <3>3
  <2> QED BY <2>4, <2>5
<1>9. CASE UNCHANGED vars
  BY <1>1, <1>3, <1>9 DEF vars
<1>10. CASE Edit
  <2>1. ASSUME NEW d \in edges, NEW f \in Present \X Present, UpdateEdge(d, f)
        PROVE  node'[e[1]] \in Done
    <3>1. /\ edges' = (edges \ {d}) \cup {f} /\ node' = Rescheduled(order, edges')
          /\ Mutable(f[2])
      BY <2>1 DEF UpdateEdge
    <3>2. /\ order \in Positions(Present) /\ edges' \subseteq Present \X Present
          /\ \A g \in edges' : g \notin edges => node[g[2]] \in {"pending", "ready"}
      BY <3>1 DEF Typed, TypeOK, Valid, Mutable, Now!EditableStatus
    <3> QED BY <1>6, <3>1, <3>2
  <2>2. ASSUME NEW pos \in Positions(Present), Reorder(pos) PROVE node'[e[1]] \in Done
    <3>1. edges' = edges /\ node' = Rescheduled(pos, edges)
      BY <2>2 DEF Reorder
    <3> QED BY <1>6, <3>1 DEF Typed, TypeOK, Valid
  <2> QED BY <1>4, <1>5, <1>10, <2>1, <2>2 DEF Edit
<1>11. CASE Work
  BY <1>7, <1>8, <1>11, WorkCases DEF Work
<1> QED BY <1>9, <1>10, <1>11 DEF Next

(* Unless a node was put in front of one that was ready, every node that   *)
(* is admitted or beyond has its predecessors done: an edit reconnects only *)
(* nodes that have not started, and gives readiness out again behind nodes *)
(* that are done (recalculateEditableNodeStatuses, domain/workflow.ts:296). *)
THEOREM EditsKeepOrder == Spec => []DependencyOrder
<1>1. Init => DependencyOrder
  BY FirstWorkflow DEF DependencyOrder
<1>2. Typed /\ DependencyOrder /\ [Next]_vars => DependencyOrder'
  BY OrderStep
<1>3. Init => Typed
  BY FirstWorkflow
<1>4. Typed /\ [Next]_vars => Typed'
  BY TypedStep
<1> QED BY <1>1, <1>2, <1>3, <1>4, PTL DEF Spec

-----------------------------------------------------------------------------
(* A workflow is never stranded by insertions and removals.                *)

\* The statuses a node of this model can have.
Reached == {"pending", "ready", "running", "failed"} \cup Done

\* The node runs keep step with their nodes.
InStep ==
  "moved" \notin edited => /\ run = node
                           /\ \A n \in Present : node[n] \in Reached

LEMMA InStepStep ==
  ASSUME Typed, InStep, [Next]_vars
  PROVE  InStep'
<1>1. SUFFICES ASSUME "moved" \notin edited'
               PROVE  run' = node' /\ \A n \in Present' : node'[n] \in Reached
  BY DEF InStep, Reached, Done, Now!DoneStatus
<1>2. "moved" \notin edited
  BY <1>1 DEF Next, Edit, Work, InsertNode, RemoveNode, UpdateEdge, Reorder, Edited,
              ReserveNode, CompleteNode, FinishNode, SkipNode, End, vars
<1>3. run = node /\ \A n \in Present : node[n] \in Reached
  BY <1>2 DEF InStep
<1>4. node \in [Present -> Now!NodeStatus]
  BY DEF Typed, TypeOK
<1>5. ASSUME NEW x \in NodeIds, NEW a, NEW b, InsertNode(x, a, b)
      PROVE  run' = node' /\ \A n \in Present' : node'[n] \in Reached
  <2>1. /\ node' = [n \in Present \cup {x} |-> IF n = x THEN "pending" ELSE node[n]]
        /\ run' = [n \in Present \cup {x} |-> IF n = x THEN "pending" ELSE run[n]]
        /\ Present' = Present \cup {x}
    BY <1>5 DEF InsertNode, WithNode, Present
  <2> QED BY <1>3, <2>1 DEF Reached
<1>6. ASSUME NEW k \in Present, RemoveNode(k)
      PROVE  run' = node' /\ \A n \in Present' : node'[n] \in Reached
  <2>1. /\ node' = [n \in Present \ {k} |-> node[n]]
        /\ run' = [n \in Present \ {k} |-> run[n]]
        /\ Present' = Present \ {k}
    BY <1>6 DEF RemoveNode, Present
  <2> QED BY <1>3, <2>1
<1>7. ASSUME NEW n \in Present, ReserveNode(n)
      PROVE  run' = node' /\ \A m \in Present' : node'[m] \in Reached
  <2>1. /\ node' = [node EXCEPT ![n] = "running"] /\ run' = [run EXCEPT ![n] = "running"]
        /\ Present' = Present
    BY <1>7 DEF ReserveNode, Present
  <2> QED BY <1>3, <1>4, <2>1 DEF Reached
<1>8. ASSUME NEW n \in Present, NEW s \in Ends, End(n, s)
      PROVE  run' = node' /\ \A m \in Present' : node'[m] \in Reached
  <2>1. /\ order' = order /\ node' \in StatusesOf(order) /\ node'[n] = s
        /\ \A m \in Present \ {n} : \/ node'[m] = node[m]
                                    \/ node[m] = "pending" /\ node'[m] = "ready"
    BY <1>8, EndShape
  <2>2. /\ node' \in [Present -> Now!NodeStatus] /\ Present' = Present
    BY <2>1 DEF StatusesOf, Status, Present
  <2>3. run' = [m \in Present |->
                  IF m = n THEN s
                  ELSE IF node[m] = "pending" /\ node'[m] = "ready" THEN "ready"
                  ELSE run[m]]
    BY <1>8 DEF End, Activated
  <2>4. \A m \in Present : run'[m] = node'[m]
    BY <1>3, <2>1, <2>3
  <2>5. run' = node'
    BY <2>2, <2>3, <2>4
  <2>6. \A m \in Present : node'[m] \in Reached
    BY <1>3, <2>1 DEF Reached, Ends, Done, Now!DoneStatus
  <2> QED BY <2>2, <2>5, <2>6
<1>9. CASE UNCHANGED vars
  BY <1>3, <1>9 DEF vars, Present
<1>10. CASE Edit
  BY <1>1, <1>5, <1>6, <1>10 DEF Edit, UpdateEdge, Reorder, Edited
<1>11. CASE Work
  BY <1>7, <1>8, <1>11, WorkCases DEF Work
<1> QED BY <1>9, <1>10, <1>11 DEF Next

LEMMA OpenCanStart ==
  ASSUME OpenInv, InStep
  PROVE  SomethingCanStart
<1> SUFFICES ASSUME "moved" \notin edited, exec # "completed"
             PROVE  \E n \in Present :
                      \/ run[n] = "running"
                      \/ run[n] \in {"ready", "failed"} /\ Now!CanMove(node[n], "running")
  BY DEF SomethingCanStart
<1>1. \E n \in Present : node[n] \notin Done
  BY CompletedMeansDone DEF OpenInv
<1>2. PICK n \in Present : Started(node, n)
  BY <1>1 DEF OpenInv, SomeOpen
<1>3. run[n] = node[n] /\ node[n] \in {"ready", "running", "failed"}
  BY <1>2 DEF InStep, Started, Reached
<1>4. Now!CanMove("ready", "running") /\ Now!CanMove("failed", "running")
  BY DEF Now!CanMove, Now!NodeTransitions
<1> QED BY <1>3, <1>4

(* Insertions and removals never strand a workflow: one that is not        *)
(* completed has a node that is running or that can be started.  Removing  *)
(* a node that waits takes no readiness away, and the node runs follow.    *)
THEOREM EditsStrandNothing ==
  ASSUME DOMAIN Template # {}
  PROVE  Spec => []SomethingCanStart
<1>1. Init => OpenInv /\ InStep
  <2> SUFFICES ASSUME Init PROVE OpenInv /\ InStep
    OBVIOUS
  <2>1. /\ DOMAIN Template = Present /\ exec = "created" /\ run = node
        /\ \A n \in Present : node[n] \in {"pending", "ready"}
        /\ Present # {} => \E n \in Present : node[n] = "ready"
    BY FirstWorkflow DEF Init, Present
  <2>2. OpenInv
    BY <2>1, CompletedMeansDone DEF OpenInv, SomeOpen, Started, Done, Now!DoneStatus
  <2> QED BY <2>1, <2>2 DEF InStep, Reached
<1>2. Typed /\ Typed' /\ OpenInv /\ InStep /\ [Next]_vars => OpenInv' /\ InStep'
  BY OpenStep, InStepStep
<1>3. OpenInv /\ InStep => SomethingCanStart
  BY OpenCanStart
<1>4. Init => Typed
  BY FirstWorkflow
<1>5. Typed /\ [Next]_vars => Typed'
  BY TypedStep
<1> QED BY <1>1, <1>2, <1>3, <1>4, <1>5, PTL DEF Spec

-----------------------------------------------------------------------------
(* Precedence.                                                             *)

\* S contains what comes before each of its members.
Closed(E, S) == \A e \in E : e[2] \in S => e[1] \in S

\* What is in every closed set that n is in, but n itself, comes before n.
LEMMA BeforeIsClosed ==
  ASSUME NEW E, NEW n, NEW m
  PROVE  m \in Before(E, n) <=>
           /\ m \in NodeIds /\ m # n
           /\ \A S \in SUBSET NodeIds : n \in S /\ Closed(E, S) => m \in S
BY DEF Before, Closed

\* An insertion keeps what comes before what.
LEMMA InsertKeepsPrecedence ==
  ASSUME Typed, NEW x \in NodeIds, NEW a \in Present \cup {NoNode},
         NEW b \in Present \cup {NoNode}, InsertNode(x, a, b), NEW n, NEW m \in Before(edges, n)
  PROVE  m \in Before(edges', n)
<1>1. edges' = Anchored(Between(x, a, b)) /\ x \notin Present /\ x # NoNode
  BY TopologyAssumption DEF InsertNode, TopologyAssumption
<1>2. \A e \in edges : e = <<e[1], e[2]>> /\ NoNode \notin {e[1], e[2]}
  BY TopologyAssumption DEF Typed, TypeOK, Valid, TopologyAssumption
<1>3. ASSUME NEW S \in SUBSET NodeIds, Closed(edges', S) PROVE Closed(edges, S)
  <2> SUFFICES ASSUME NEW e \in edges, e[2] \in S PROVE e[1] \in S
    BY DEF Closed
  <2>1. CASE e = <<a, b>>
    <3>1. a # NoNode /\ b # NoNode /\ e[1] = a /\ e[2] = b
      BY <1>2, <2>1
    <3>2. <<a, x>> \in edges' /\ <<x, b>> \in edges'
      BY <1>1, <3>1 DEF Anchored, Between
    <3>3. /\ <<x, b>>[2] = b /\ <<x, b>>[1] = x
          /\ <<a, x>>[2] = x /\ <<a, x>>[1] = a
      OBVIOUS
    <3>4. x \in S
      BY <1>3, <3>1, <3>2, <3>3 DEF Closed
    <3> QED BY <1>3, <3>1, <3>2, <3>3, <3>4 DEF Closed
  <2>2. CASE e # <<a, b>>
    <3>1. e \in edges'
      BY <1>1, <1>2, <2>2 DEF Anchored, Between
    <3> QED BY <1>3, <3>1 DEF Closed
  <2> QED BY <2>1, <2>2
<1> QED BY <1>3, BeforeIsClosed

\* A removal keeps what comes before what among the nodes that stay, and adds
\* nothing to it.
LEMMA RemoveKeepsPrecedence ==
  ASSUME Typed, NEW k \in Present, RemoveNode(k), NEW n \in Present \ {k}, NEW m
  PROVE  /\ m \in Before(edges, n) /\ m # k => m \in Before(edges', n)
         /\ m \in Before(edges', n) => m \in Before(edges, n)
<1>1. edges' = Reconnected(k) /\ k \in NodeIds
  BY DEF RemoveNode, Typed, TypeOK
<1>2. \A e \in edges : e = <<e[1], e[2]>> /\ e[1] \in Present /\ e[2] \in Present
  BY DEF Typed, TypeOK, Valid
<1>3. \A e \in edges : e[1] # k /\ e[2] # k => e \in edges'
  BY <1>1 DEF Reconnected
<1>4. \A p, q : <<p, k>> \in edges /\ <<k, q>> \in edges => <<p, q>> \in edges'
  <2> SUFFICES ASSUME NEW p, NEW q, <<p, k>> \in edges, <<k, q>> \in edges
               PROVE  <<p, q>> \in edges'
    OBVIOUS
  <2>1. <<p, k>>[1] = p /\ <<k, q>>[2] = q
    OBVIOUS
  <2>2. p \in Present /\ q \in Present
    BY <1>2, <2>1
  <2>3. p \in Now!Preds(k)
    BY <2>2 DEF Now!Preds
  <2> QED BY <1>1, <2>2, <2>3 DEF Reconnected
<1>5. ASSUME NEW S \in SUBSET NodeIds, Closed(edges', S), n \in S
      PROVE  \E T \in SUBSET NodeIds : n \in T /\ Closed(edges, T) /\ T \subseteq S \cup {k}
  <2>1. CASE \E q \in S \ {k} : <<k, q>> \in edges
    <3>1. PICK q \in S \ {k} : <<k, q>> \in edges
      BY <2>1
    <3>2. ASSUME NEW e \in edges, e[2] \in S \cup {k} PROVE e[1] \in S \cup {k}
      <4>1. CASE e[1] # k /\ e[2] # k
        BY <1>3, <1>5, <3>2, <4>1 DEF Closed
      <4>2. CASE e[2] = k
        <5>1. <<e[1], q>> \in edges' /\ <<e[1], q>>[1] = e[1] /\ <<e[1], q>>[2] = q
          BY <1>2, <1>4, <3>1, <4>2
        <5> QED BY <1>5, <3>1, <5>1 DEF Closed
      <4> QED BY <4>1, <4>2
    <3>3. S \cup {k} \in SUBSET NodeIds /\ n \in S \cup {k}
      BY <1>1, <1>5
    <3>4. Closed(edges, S \cup {k})
      BY <3>2 DEF Closed
    <3> QED BY <3>3, <3>4
  <2>2. CASE \A q \in S \ {k} : <<k, q>> \notin edges
    <3>1. ASSUME NEW e \in edges, e[2] \in S \ {k} PROVE e[1] \in S \ {k}
      <4>1. e[1] # k
        BY <1>2, <2>2, <3>1
      <4> QED BY <1>3, <1>5, <3>1, <4>1 DEF Closed
    <3>2. S \ {k} \in SUBSET NodeIds /\ n \in S \ {k}
      BY <1>5
    <3>3. Closed(edges, S \ {k})
      BY <3>1 DEF Closed
    <3> QED BY <3>2, <3>3
  <2> QED BY <2>1, <2>2
<1>6. ASSUME m \in Before(edges, n), m # k PROVE m \in Before(edges', n)
  <2> SUFFICES ASSUME NEW S \in SUBSET NodeIds, n \in S, Closed(edges', S) PROVE m \in S
    BY <1>6, BeforeIsClosed
  <2>1. PICK T \in SUBSET NodeIds : n \in T /\ Closed(edges, T) /\ T \subseteq S \cup {k}
    BY <1>5
  <2>2. m \in T
    BY <1>6, <2>1, BeforeIsClosed
  <2> QED BY <1>6, <2>1, <2>2
<1>7. ASSUME NEW S \in SUBSET NodeIds, Closed(edges, S) PROVE Closed(edges', S)
  <2> SUFFICES ASSUME NEW e \in edges', e[2] \in S PROVE e[1] \in S
    BY DEF Closed
  <2>1. CASE e \in edges
    BY <1>7, <2>1 DEF Closed
  <2>2. CASE e \notin edges
    <3>1. /\ e = <<e[1], e[2]>>
          /\ <<e[1], k>> \in edges /\ <<k, e[2]>> \in edges
      BY <1>1, <2>2 DEF Reconnected, Now!Preds
    <3>2. /\ <<e[1], k>>[1] = e[1] /\ <<e[1], k>>[2] = k
          /\ <<k, e[2]>>[1] = k /\ <<k, e[2]>>[2] = e[2]
      OBVIOUS
    <3>3. k \in S
      BY <1>7, <3>1, <3>2 DEF Closed
    <3> QED BY <1>7, <3>1, <3>2, <3>3 DEF Closed
  <2> QED BY <2>1, <2>2
<1>8. ASSUME m \in Before(edges', n) PROVE m \in Before(edges, n)
  BY <1>7, <1>8, BeforeIsClosed
<1> QED BY <1>6, <1>8

(* An insertion or a removal never takes away what comes before what among *)
(* the nodes that stay, and a removal adds nothing                         *)
(* (removeRequirementNode reconnects each predecessor with each successor, *)
(* domain/workflow.ts:593-613).                                            *)
THEOREM EditsKeepPrecedence == Spec => PrecedenceIsKept
<1>1. ASSUME Typed, [Next]_vars, Present' # Present, NEW n \in Present \cap Present'
      PROVE  /\ Before(edges, n) \cap Present' \subseteq Before(edges', n)
             /\ Present' \subseteq Present => Before(edges', n) \subseteq Before(edges, n)
  <2>1. ASSUME NEW x \in NodeIds, NEW a \in Present \cup {NoNode},
               NEW b \in Present \cup {NoNode}, InsertNode(x, a, b)
        PROVE  /\ Before(edges, n) \cap Present' \subseteq Before(edges', n)
               /\ ~(Present' \subseteq Present)
    <3>1. x \notin Present /\ Present' = Present \cup {x}
      BY <2>1 DEF InsertNode, WithNode, Present
    <3> QED BY <1>1, <2>1, <3>1, InsertKeepsPrecedence
  <2>2. ASSUME NEW k \in Present, RemoveNode(k)
        PROVE  /\ Before(edges, n) \cap Present' \subseteq Before(edges', n)
               /\ Before(edges', n) \subseteq Before(edges, n)
    <3>1. Present' = Present \ {k}
      BY <2>2 DEF RemoveNode, Present
    <3> QED BY <1>1, <2>2, <3>1, RemoveKeepsPrecedence
  <2>3. CASE \/ \E x \in NodeIds, a, b \in Present \cup {NoNode} : InsertNode(x, a, b)
             \/ \E k \in Present : RemoveNode(k)
    BY <2>1, <2>2, <2>3
  <2>4. \A pos \in Positions(Present) : DOMAIN pos = Present
    BY DEF Positions
  <2>5. \/ \E x \in NodeIds, a, b \in Present \cup {NoNode} : InsertNode(x, a, b)
        \/ \E k \in Present : RemoveNode(k)
    BY <1>1, <2>4 DEF Next, Edit, Work, UpdateEdge, Reorder, ReserveNode, CompleteNode,
                      FinishNode, SkipNode, End, vars, Present
  <2> QED BY <2>3, <2>5
<1>2. Typed /\ [Next]_vars =>
        [Present' # Present =>
           \A n \in Present \cap Present' :
             /\ Before(edges, n) \cap Present' \subseteq Before(edges', n)
             /\ Present' \subseteq Present => Before(edges', n) \subseteq Before(edges, n)]_vars
  BY <1>1
<1>3. Init => Typed
  BY FirstWorkflow
<1>4. Typed /\ [Next]_vars => Typed'
  BY TypedStep
<1> QED BY <1>2, <1>3, <1>4, PTL DEF Spec, PrecedenceIsKept

=============================================================================
