--------------------------- MODULE DiskQueueProofs ---------------------------
(***************************************************************************)
(* What holds of DiskQueue for every cap, batch size and set of payloads:  *)
(* the typing of the table, that a trim only costs its head, and that the  *)
(* byte counter is the size of what the table holds.                       *)
(*                                                                         *)
(* The size is a sum over a finite set, which the library defines by       *)
(* taking one id out after the other.  That the order does not matter, and *)
(* so that the sum of two disjoint sets is the sum of their sums, is shown *)
(* by the smallest set of which it is not true.                            *)
(***************************************************************************)
EXTENDS DiskQueue, FiniteSetTheorems, WellFoundedInduction, TLAPS

(* Deleting ids leaves the other rows as they were. *)
LEMMA WithoutFacts ==
  ASSUME NEW r, NEW D
  PROVE  /\ DOMAIN Without(r, D) = DOMAIN r \ D
         /\ \A i \in DOMAIN r \ D : Without(r, D)[i] = r[i]
  BY DEF Without, Restrict

(* The table after an INSERT. *)
LEMMA InsertedFacts ==
  ASSUME NEW p
  PROVE  /\ DOMAIN Inserted(p) = DOMAIN rows \union {lastId + 1}
         /\ Inserted(p)[lastId + 1] = p
         /\ \A i \in DOMAIN rows \ {lastId + 1} : Inserted(p)[i] = rows[i]
  BY DEF Inserted

(* The n oldest ids are a head: none of the others is older. *)
LEMMA OldestIsHead ==
  ASSUME NEW m \in Nat, NEW S \in SUBSET (1..m), NEW n \in Nat,
         NEW i \in Oldest(S, n), NEW j \in S \ Oldest(S, n)
  PROVE  i < j
<1> DEFINE Below(k) == {l \in S : l < k}
<1>1. i \in S /\ Cardinality(Below(i)) < n
  BY DEF Oldest
<1>2. ~(Cardinality(Below(j)) < n)
  BY DEF Oldest
<1>3. IsFiniteSet(1..m)
  BY FS_Interval
<1>4. IsFiniteSet(Below(i)) /\ IsFiniteSet(Below(j))
  BY <1>3, FS_Subset
<1>5. Cardinality(Below(i)) \in Nat /\ Cardinality(Below(j)) \in Nat
  BY <1>4, FS_CardinalityType
<1>6. SUFFICES ASSUME j <= i PROVE FALSE
  BY <1>1
<1>7. Below(j) \in SUBSET Below(i)
  <2>1. i \in Nat /\ j \in Nat /\ \A l \in S : l \in Nat
    BY <1>1
  <2>2. \A l \in S : l < j => l < i
    BY <1>6, <2>1
  <2> QED
    BY <2>2
<1>8. Cardinality(Below(j)) <= Cardinality(Below(i))
  BY <1>4, <1>7, FS_Subset
<1> QED
  BY <1>1, <1>2, <1>5, <1>8
-----------------------------------------------------------------------------
(* The constructor finds an empty, well-typed table. *)
LEMMA QueueTypeInit == QueueInit => QueueTypeOK
  BY DEF QueueInit, QueueTypeOK

(* No operation of the queue spoils the typing of the table. *)
LEMMA QueueTypeStep == QueueTypeOK /\ [QueueNext]_queueVars => QueueTypeOK'
<1> SUFFICES ASSUME QueueTypeOK, [QueueNext]_queueVars PROVE QueueTypeOK'
  OBVIOUS
<1> USE DEF QueueTypeOK
<1>1. ASSUME NEW p \in Payload, Push(p) PROVE QueueTypeOK'
  <2> DEFINE D == Trimmed(Inserted(p), bytes + Length[p])
  <2>1. rows' = Without(Inserted(p), D) /\ lastId' = lastId + 1
    BY <1>1 DEF Push
  <2> HIDE DEF D
  <2>2. DOMAIN rows' \subseteq DOMAIN rows \union {lastId'}
    BY <2>1, WithoutFacts, InsertedFacts
  <2>3. ASSUME NEW i \in DOMAIN rows' PROVE rows'[i] \in Payload
    <3>1. i \in DOMAIN Inserted(p) \ D
      BY <2>1, WithoutFacts
    <3>2. Without(Inserted(p), D)[i] = Inserted(p)[i]
      BY <3>1, WithoutFacts
    <3>3. Inserted(p)[i] \in Payload
      BY <3>1, InsertedFacts
    <3> QED
      BY <2>1, <3>2, <3>3
  <2> QED
    BY <2>1, <2>2, <2>3
<1>2. ASSUME NEW p \in Payload, RestartInsidePush(p) PROVE QueueTypeOK'
  BY <1>2, InsertedFacts DEF RestartInsidePush
<1>3. ASSUME NEW ids, Ack(ids) PROVE QueueTypeOK'
  <2>1. lastId' = lastId /\ rows' = Without(rows, ids \intersect DOMAIN rows)
    BY <1>3 DEF Ack
  <2>2. DOMAIN rows' = DOMAIN rows \ (ids \intersect DOMAIN rows)
    BY <2>1, WithoutFacts
  <2>3. ASSUME NEW i \in DOMAIN rows' PROVE rows'[i] = rows[i]
    BY <2>1, <2>2, WithoutFacts
  <2> QED
    BY <2>1, <2>2, <2>3
<1>4. CASE Restart
  BY <1>4 DEF Restart
<1>5. CASE UNCHANGED queueVars
  BY <1>5 DEF queueVars
<1> HIDE DEF QueueTypeOK
<1> QED
  BY <1>1, <1>2, <1>3, <1>4, <1>5 DEF QueueNext

(* Ids are handed out once and every row keeps its payload type, whatever  *)
(* the mix of pushes, acks, trims and restarts (disk_queue.py:54-142).     *)
THEOREM QueueTypeCorrect == QueueSpec => []QueueTypeOK
<1>1. QueueTypeOK /\ UNCHANGED queueVars => QueueTypeOK'
  BY QueueTypeStep
<1> QED
  BY QueueTypeInit, QueueTypeStep, PTL DEF QueueSpec
-----------------------------------------------------------------------------
(* The ids a trim deletes, whatever the counter says, are a head of the    *)
(* table.                                                                  *)
LEMMA TrimmedIsHead ==
  ASSUME QueueAssumption, NEW m \in Nat, NEW r, DOMAIN r \subseteq 1..m, NEW b,
         NEW i \in Trimmed(r, b), NEW j \in DOMAIN r \ Trimmed(r, b)
  PROVE  i < j
<1>1. Trimmed(r, b) = Oldest(DOMAIN r, TrimBatch)
  BY DEF Trimmed
<1> QED
  BY <1>1, OldestIsHead DEF QueueAssumption

(* A push deletes nothing but a head of the table it has inserted into.    *)
LEMMA PushTrimsHead ==
  ASSUME QueueAssumption, QueueTypeOK, NEW p \in Payload, Push(p),
         NEW i \in DOMAIN rows \ DOMAIN rows', NEW j \in DOMAIN rows'
  PROVE  i < j
<1> DEFINE r == Inserted(p)
           D == Trimmed(r, bytes + Length[p])
<1>1. rows' = Without(r, D)
  BY DEF Push
<1>2. DOMAIN r = DOMAIN rows \union {lastId + 1}
  BY InsertedFacts
<1>3. DOMAIN rows' = DOMAIN r \ D
  BY <1>1, WithoutFacts
<1>4. lastId + 1 \in Nat /\ DOMAIN r \subseteq 1..(lastId + 1)
  BY <1>2 DEF QueueTypeOK
<1>5. i \in D /\ j \in DOMAIN r \ D
  BY <1>2, <1>3
<1> HIDE DEF r, D
<1>6. D = Trimmed(r, bytes + Length[p])
  BY DEF D
<1> QED
  BY <1>4, <1>5, <1>6, TrimmedIsHead

(* TrimsOldestFirst for every TRIM_BATCH and cap: what push costs is older *)
(* than all it keeps (disk_queue.py:127-138, ORDER BY id ASC).             *)
THEOREM TrimsCorrect == QueueSpec => TrimsOldestFirst
<1> DEFINE Step == \A i \in DOMAIN rows \ DOMAIN rows' :
                     lastId' # lastId => \A j \in DOMAIN rows' : i < j
<1>1. QueueTypeOK /\ [QueueNext]_queueVars => [Step]_queueVars
  <2> SUFFICES ASSUME QueueTypeOK, QueueNext PROVE Step
    OBVIOUS
  <2>1. ASSUME NEW p \in Payload, Push(p) PROVE Step
    BY <2>1, QueueAssumption, PushTrimsHead
  <2>2. ASSUME NEW p \in Payload, RestartInsidePush(p) PROVE Step
    BY <2>2, InsertedFacts DEF RestartInsidePush
  <2>3. ASSUME NEW ids, Ack(ids) PROVE Step
    BY <2>3 DEF Ack
  <2>4. CASE Restart
    BY <2>4 DEF Restart
  <2> QED
    BY <2>1, <2>2, <2>3, <2>4 DEF QueueNext
<1> QED
  BY <1>1, QueueTypeCorrect, PTL DEF QueueSpec, TrimsOldestFirst
-----------------------------------------------------------------------------
(* The sum of a function.  SumFunctionOnSet is a fold along CHOOSE, which  *)
(* takes some element; what follows shows that it does not matter which.   *)
(* Induction over finite sets is done by a least counterexample.           *)

LEMMA LeastSet ==
  ASSUME NEW D, IsFiniteSet(D), NEW T, T \subseteq SUBSET D, T # {}
  PROVE  \E s \in T : \A t \in T : t \subseteq s => t = s
<1>1. FiniteSubsetsOf(D) = SUBSET D
  BY FS_FiniteSubsetsOfFinite
<1>2. IsWellFoundedOn(StrictSubsetOrdering(D), SUBSET D)
  BY <1>1, FS_StrictSubsetOrderingWellFounded
<1>3. PICK s \in T : \A t \in T : ~ (<<t, s>> \in StrictSubsetOrdering(D))
  BY <1>2, WFMin
<1>4. \A t \in T : t \subseteq s /\ t # s => <<t, s>> \in StrictSubsetOrdering(D)
  BY DEF StrictSubsetOrdering
<1>5. \A t \in T : t \subseteq s => t = s
  BY <1>3, <1>4
<1> QED
  BY <1>5

(* The element the fold takes, and the equation of its graph.              *)
Taken(s) == CHOOSE x \in s : TRUE

LEMMA TakenIsMember == \A s : s # {} => Taken(s) \in s
  BY DEF Taken

SumStep(f, D, g) ==
  [s \in SUBSET D |-> IF s = {} THEN 0 ELSE f[Taken(s)] + g[s \ {Taken(s)}]]

SumGraph(f, D) == CHOOSE g : g = SumStep(f, D, g)

LEMMA SumIsGraph == ASSUME NEW f, NEW D PROVE SumFunctionOnSet(f, D) = SumGraph(f, D)[D]
  BY DEF SumFunctionOnSet, FoldFunctionOnSet, MapThenFoldSet, SumGraph, SumStep, Taken

LEMMA GraphsAgree ==
  ASSUME NEW f, NEW D, NEW E, IsFiniteSet(E), E \subseteq D,
         NEW g, g = SumStep(f, D, g), NEW h, h = SumStep(f, E, h)
  PROVE  \A s \in SUBSET E : g[s] = h[s]
<1> DEFINE T == {s \in SUBSET E : g[s] # h[s]}
<1> SUFFICES ASSUME T # {} PROVE FALSE
  OBVIOUS
<1>1. PICK s \in T : \A t \in T : t \subseteq s => t = s
  <2>1. T \subseteq SUBSET E
    OBVIOUS
  <2> HIDE DEF T
  <2> QED
    BY <2>1, LeastSet
<1>2. s \in SUBSET E /\ s \in SUBSET D /\ g[s] # h[s]
  BY <1>1
<1>3. g[s] = IF s = {} THEN 0 ELSE f[Taken(s)] + g[s \ {Taken(s)}]
  BY <1>2 DEF SumStep
<1>4. h[s] = IF s = {} THEN 0 ELSE f[Taken(s)] + h[s \ {Taken(s)}]
  BY <1>2 DEF SumStep
<1>5. s # {}
  BY <1>2, <1>3, <1>4
<1>6. s \ {Taken(s)} \in SUBSET E /\ s \ {Taken(s)} # s
  BY <1>2, <1>5, TakenIsMember
<1>7. g[s \ {Taken(s)}] = h[s \ {Taken(s)}]
  BY <1>1, <1>6
<1> QED
  BY <1>2, <1>3, <1>4, <1>7

LEMMA GraphExists ==
  ASSUME NEW f, NEW D, IsFiniteSet(D)
  PROVE  \A s \in SUBSET D : \E g : g = SumStep(f, s, g)
<1> DEFINE T == {s \in SUBSET D : ~\E g : g = SumStep(f, s, g)}
<1> SUFFICES ASSUME T # {} PROVE FALSE
  OBVIOUS
<1>1. PICK E \in T : \A t \in T : t \subseteq E => t = E
  <2>1. T \subseteq SUBSET D
    OBVIOUS
  <2> HIDE DEF T
  <2> QED
    BY <2>1, LeastSet
<1>2. E \in SUBSET D /\ ~\E g : g = SumStep(f, E, g)
  BY <1>1
<1>3. \A t \in SUBSET E : t # E => \E g : g = SumStep(f, t, g)
  BY <1>1, <1>2
<1> DEFINE H(t) == SumGraph(f, t)[t]
           G == [s \in SUBSET E |-> IF s = {} THEN 0 ELSE f[Taken(s)] + H(s \ {Taken(s)})]
<1>4. \A t \in SUBSET E : t # E => SumGraph(f, t) = SumStep(f, t, SumGraph(f, t))
  BY <1>3 DEF SumGraph
<1>5. ASSUME NEW t \in SUBSET E, t # E PROVE G[t] = H(t)
  <2>1. SumGraph(f, t) = SumStep(f, t, SumGraph(f, t))
    BY <1>4, <1>5
  <2>2. H(t) = IF t = {} THEN 0 ELSE f[Taken(t)] + SumGraph(f, t)[t \ {Taken(t)}]
    BY <2>1 DEF SumStep
  <2>3. G[t] = IF t = {} THEN 0 ELSE f[Taken(t)] + H(t \ {Taken(t)})
    OBVIOUS
  <2>4. ASSUME t # {} PROVE SumGraph(f, t)[t \ {Taken(t)}] = H(t \ {Taken(t)})
    <3> DEFINE u == t \ {Taken(t)}
    <3>1. u \in SUBSET E /\ u # E /\ u \subseteq t /\ u \subseteq D
      BY <1>2, <1>5, <2>4, TakenIsMember
    <3>2. IsFiniteSet(u)
      BY <3>1, FS_Subset
    <3>3. SumGraph(f, u) = SumStep(f, u, SumGraph(f, u))
      BY <1>4, <3>1
    <3> HIDE DEF u, G, H
    <3>4. SumGraph(f, t)[u] = SumGraph(f, u)[u]
      BY <2>1, <3>1, <3>2, <3>3, GraphsAgree
    <3> QED
      BY <3>4 DEF u, H
  <2> QED
    BY <2>2, <2>3, <2>4
<1> HIDE DEF H
<1>6. G = SumStep(f, E, G)
  <2>1. \A s \in SUBSET E : s # {} => s \ {Taken(s)} \in SUBSET E /\ s \ {Taken(s)} # E
    BY TakenIsMember
  <2>2. \A s \in SUBSET E : s # {} => G[s \ {Taken(s)}] = H(s \ {Taken(s)})
    BY <1>5, <2>1
  <2> HIDE DEF G
  <2>3. \A s \in SUBSET E : (IF s = {} THEN 0 ELSE f[Taken(s)] + H(s \ {Taken(s)}))
                              = (IF s = {} THEN 0 ELSE f[Taken(s)] + G[s \ {Taken(s)}])
    BY <2>2
  <2>4. G = [s \in SUBSET E |-> IF s = {} THEN 0 ELSE f[Taken(s)] + H(s \ {Taken(s)})]
    BY DEF G
  <2> QED
    BY <2>3, <2>4 DEF SumStep
<1> QED
  BY <1>2, <1>6

(* The recursion the fold follows.                                         *)
LEMMA SumTakes ==
  ASSUME NEW f, NEW D, IsFiniteSet(D)
  PROVE  /\ D = {} => SumFunctionOnSet(f, D) = 0
         /\ D # {} => SumFunctionOnSet(f, D) = f[Taken(D)] + SumFunctionOnSet(f, D \ {Taken(D)})
<1> DEFINE E == D \ {Taken(D)}
<1>1. E \in SUBSET D /\ D \in SUBSET D
  OBVIOUS
<1>2. IsFiniteSet(E)
  BY <1>1, FS_Subset
<1> HIDE DEF E
<1>3. SumGraph(f, D) = SumStep(f, D, SumGraph(f, D))
  BY <1>1, GraphExists DEF SumGraph
<1>4. SumGraph(f, E) = SumStep(f, E, SumGraph(f, E))
  BY <1>1, GraphExists DEF SumGraph
<1>5. SumGraph(f, D)[E] = SumGraph(f, E)[E]
  <2>1. \A s \in SUBSET E : SumGraph(f, D)[s] = SumGraph(f, E)[s]
    BY <1>1, <1>2, <1>3, <1>4, GraphsAgree
  <2> QED
    BY <2>1
<1>6. SumGraph(f, D)[D] = IF D = {} THEN 0 ELSE f[Taken(D)] + SumGraph(f, D)[E]
  BY <1>1, <1>3 DEF SumStep, E
<1>7. SumFunctionOnSet(f, D) = SumGraph(f, D)[D] /\ SumFunctionOnSet(f, E) = SumGraph(f, E)[E]
  BY SumIsGraph
<1> QED
  BY <1>5, <1>6, <1>7 DEF E

(* Sums of natural numbers are natural numbers.                            *)
LEMMA SumType ==
  ASSUME NEW f, NEW D, IsFiniteSet(D), \A x \in D : f[x] \in Nat
  PROVE  \A s \in SUBSET D : SumFunctionOnSet(f, s) \in Nat
<1> DEFINE T == {s \in SUBSET D : SumFunctionOnSet(f, s) \notin Nat}
<1> SUFFICES ASSUME T # {} PROVE FALSE
  OBVIOUS
<1>1. PICK s \in T : \A t \in T : t \subseteq s => t = s
  <2>1. T \subseteq SUBSET D
    OBVIOUS
  <2> HIDE DEF T
  <2> QED
    BY <2>1, LeastSet
<1>2. s \in SUBSET D /\ SumFunctionOnSet(f, s) \notin Nat
  BY <1>1
<1>3. IsFiniteSet(s)
  BY <1>2, FS_Subset
<1>4. s # {} /\ SumFunctionOnSet(f, s) = f[Taken(s)] + SumFunctionOnSet(f, s \ {Taken(s)})
  <2>1. s = {} => SumFunctionOnSet(f, s) = 0
    BY <1>3, SumTakes
  <2>2. s # {}
    BY <1>2, <2>1
  <2> QED
    BY <1>3, <2>2, SumTakes
<1>5. Taken(s) \in s /\ s \ {Taken(s)} \in SUBSET D /\ s \ {Taken(s)} # s
  BY <1>2, <1>4, TakenIsMember
<1>6. SumFunctionOnSet(f, s \ {Taken(s)}) \in Nat
  BY <1>1, <1>5
<1>7. f[Taken(s)] \in Nat
  BY <1>2, <1>5
<1> QED
  BY <1>2, <1>4, <1>6, <1>7

(* Any member may be taken first.                                          *)
LEMMA SumTakesAny ==
  ASSUME NEW f, NEW D, IsFiniteSet(D), \A x \in D : f[x] \in Nat
  PROVE  \A s \in SUBSET D : \A x \in s : SumFunctionOnSet(f, s) = f[x] + SumFunctionOnSet(f, s \ {x})
<1> DEFINE OK(s) == \A x \in s : SumFunctionOnSet(f, s) = f[x] + SumFunctionOnSet(f, s \ {x})
           T == {s \in SUBSET D : ~OK(s)}
<1> SUFFICES ASSUME T # {} PROVE FALSE
  OBVIOUS
<1>1. PICK s \in T : \A t \in T : t \subseteq s => t = s
  <2>1. T \subseteq SUBSET D
    OBVIOUS
  <2> HIDE DEF T
  <2> QED
    BY <2>1, LeastSet
<1>2. s \in SUBSET D /\ ~OK(s) /\ \A t \in SUBSET s : t # s => OK(t)
  BY <1>1
<1>3. PICK x \in s : SumFunctionOnSet(f, s) # f[x] + SumFunctionOnSet(f, s \ {x})
  BY <1>2
<1> DEFINE c == Taken(s)
           u == s \ {x, c}
<1>4. IsFiniteSet(s) /\ c \in s
  BY <1>2, <1>3, FS_Subset, TakenIsMember
<1>5. SumFunctionOnSet(f, s) = f[c] + SumFunctionOnSet(f, s \ {c})
  BY <1>3, <1>4, SumTakes
<1> HIDE DEF c
<1>6. x # c
  BY <1>3, <1>5
<1>7. /\ s \ {c} \in SUBSET s /\ s \ {c} # s /\ x \in s \ {c} /\ (s \ {c}) \ {x} = u
      /\ s \ {x} \in SUBSET s /\ s \ {x} # s /\ c \in s \ {x} /\ (s \ {x}) \ {c} = u
      /\ u \in SUBSET D
  BY <1>2, <1>4, <1>6
<1> HIDE DEF u
<1>8. SumFunctionOnSet(f, s \ {c}) = f[x] + SumFunctionOnSet(f, u)
  BY <1>2, <1>7
<1>9. SumFunctionOnSet(f, s \ {x}) = f[c] + SumFunctionOnSet(f, u)
  BY <1>2, <1>7
<1>10. SumFunctionOnSet(f, u) \in Nat /\ f[x] \in Nat /\ f[c] \in Nat
  BY <1>2, <1>4, <1>7, SumType
<1> QED
  BY <1>3, <1>5, <1>8, <1>9, <1>10

(* A sum splits along a partition.                                         *)
LEMMA SumSplits ==
  ASSUME NEW f, NEW D, IsFiniteSet(D), \A x \in D : f[x] \in Nat
  PROVE  \A s \in SUBSET D :
           SumFunctionOnSet(f, D) = SumFunctionOnSet(f, s) + SumFunctionOnSet(f, D \ s)
<1> DEFINE OK(s) == SumFunctionOnSet(f, D) = SumFunctionOnSet(f, s) + SumFunctionOnSet(f, D \ s)
           T == {s \in SUBSET D : ~OK(s)}
<1> SUFFICES ASSUME T # {} PROVE FALSE
  OBVIOUS
<1>1. PICK s \in T : \A t \in T : t \subseteq s => t = s
  <2>1. T \subseteq SUBSET D
    OBVIOUS
  <2> HIDE DEF T
  <2> QED
    BY <2>1, LeastSet
<1>2. s \in SUBSET D /\ ~OK(s) /\ \A t \in SUBSET s : t # s => OK(t)
  BY <1>1
<1>3. s # {}
  <2>1. SumFunctionOnSet(f, {}) = 0
    BY SumTakes, FS_EmptySet
  <2>2. SumFunctionOnSet(f, D) \in Nat
    BY SumType
  <2>3. SumFunctionOnSet(f, D) = 0 + SumFunctionOnSet(f, D)
    BY <2>2
  <2>4. D \ {} = D
    OBVIOUS
  <2>5. SumFunctionOnSet(f, D) = SumFunctionOnSet(f, {}) + SumFunctionOnSet(f, D \ {})
    BY <2>1, <2>3, <2>4
  <2> QED
    BY <1>2, <2>5
<1>4. PICK x \in s : TRUE
  BY <1>3
<1> DEFINE t == s \ {x}
           u == D \ s
           v == D \ t
<1>5. t \in SUBSET D /\ u \in SUBSET D /\ v \in SUBSET D /\ x \in v /\ v \ {x} = u /\ t \in SUBSET s /\ t # s
  BY <1>2, <1>4
<1>6. SumFunctionOnSet(f, D) = SumFunctionOnSet(f, t) + SumFunctionOnSet(f, v)
  BY <1>2, <1>5
<1>7. SumFunctionOnSet(f, s) = f[x] + SumFunctionOnSet(f, t)
  BY <1>2, <1>4, SumTakesAny
<1> HIDE DEF t, v
<1>8. SumFunctionOnSet(f, v) = f[x] + SumFunctionOnSet(f, u)
  <2>1. SumFunctionOnSet(f, v) = f[x] + SumFunctionOnSet(f, v \ {x})
    BY <1>5, SumTakesAny
  <2> QED
    BY <1>5, <2>1
<1>9. /\ SumFunctionOnSet(f, t) \in Nat /\ SumFunctionOnSet(f, u) \in Nat /\ f[x] \in Nat
  BY <1>2, <1>4, <1>5, SumType
<1> QED
  BY <1>2, <1>6, <1>7, <1>8, <1>9

(* Only the values on the set count.                                       *)
LEMMA SumCongruence ==
  ASSUME NEW f, NEW g, NEW D, IsFiniteSet(D), \A x \in D : f[x] = g[x]
  PROVE  SumFunctionOnSet(f, D) = SumFunctionOnSet(g, D)
<1> DEFINE T == {s \in SUBSET D : SumFunctionOnSet(f, s) # SumFunctionOnSet(g, s)}
<1> SUFFICES ASSUME T # {} PROVE FALSE
  OBVIOUS
<1>1. PICK s \in T : \A t \in T : t \subseteq s => t = s
  <2>1. T \subseteq SUBSET D
    OBVIOUS
  <2> HIDE DEF T
  <2> QED
    BY <2>1, LeastSet
<1>2. s \in SUBSET D /\ SumFunctionOnSet(f, s) # SumFunctionOnSet(g, s)
  BY <1>1
<1>3. IsFiniteSet(s)
  BY <1>2, FS_Subset
<1>4. s # {}
  BY <1>2, <1>3, SumTakes
<1>5. Taken(s) \in s /\ s \ {Taken(s)} \in SUBSET D /\ s \ {Taken(s)} # s
  BY <1>2, <1>4, TakenIsMember
<1>6. /\ SumFunctionOnSet(f, s) = f[Taken(s)] + SumFunctionOnSet(f, s \ {Taken(s)})
      /\ SumFunctionOnSet(g, s) = g[Taken(s)] + SumFunctionOnSet(g, s \ {Taken(s)})
  BY <1>3, <1>4, SumTakes
<1>7. SumFunctionOnSet(f, s \ {Taken(s)}) = SumFunctionOnSet(g, s \ {Taken(s)})
  BY <1>1, <1>5
<1> QED
  BY <1>2, <1>5, <1>6, <1>7

-----------------------------------------------------------------------------
(* The byte counter.                                                       *)

TableOK(r) == IsFiniteSet(DOMAIN r) /\ \A i \in DOMAIN r : r[i] \in Payload

(* A table under the type invariant is finite.                             *)
LEMMA TableIsOK == ASSUME QueueTypeOK PROVE TableOK(rows)
<1>1. lastId \in Nat /\ DOMAIN rows \subseteq 1..lastId
  BY DEF QueueTypeOK
<1>2. IsFiniteSet(1..lastId)
  BY <1>1, FS_Interval
<1> QED
  BY <1>1, <1>2, FS_Subset DEF QueueTypeOK, TableOK

(* SUM(LENGTH(payload)) of a table without some of its rows.               *)
LEMMA LengthWithout ==
  ASSUME QueueAssumption, NEW r, TableOK(r), NEW D \in SUBSET DOMAIN r
  PROVE  /\ TotalLength(r) \in Nat
         /\ TotalLength(Without(r, D)) = Less(TotalLength(r), TotalLength(Restrict(r, D)))
<1> DEFINE f == LengthOf(r)
           E == DOMAIN r \ D
<1>1. DOMAIN f = DOMAIN r /\ \A i \in DOMAIN r : f[i] = Length[r[i]] /\ f[i] \in Nat
  BY DEF LengthOf, TableOK, QueueAssumption
<1>2. IsFiniteSet(DOMAIN r) /\ IsFiniteSet(D) /\ IsFiniteSet(E)
  BY FS_Subset DEF TableOK
<1>3. TotalLength(Restrict(r, D)) = SumFunctionOnSet(f, D)
  <2> DEFINE g == LengthOf(Restrict(r, D))
  <2>1. DOMAIN g = D /\ \A i \in D : f[i] = g[i]
    BY <1>1 DEF LengthOf, Restrict
  <2>2. TotalLength(Restrict(r, D)) = SumFunctionOnSet(g, D)
    BY <2>1 DEF TotalLength, SumFunction
  <2> HIDE DEF f, g
  <2> QED
    BY <1>2, <2>1, <2>2, SumCongruence
<1>4. TotalLength(Without(r, D)) = SumFunctionOnSet(f, E)
  <2> DEFINE g == LengthOf(Without(r, D))
  <2>1. DOMAIN g = E /\ \A i \in E : f[i] = g[i]
    <3> DEFINE w == Without(r, D)
    <3>1. DOMAIN w = E /\ \A i \in E : w[i] = r[i]
      BY WithoutFacts
    <3> HIDE DEF w, f
    <3>2. DOMAIN LengthOf(w) = E /\ \A i \in E : LengthOf(w)[i] = Length[w[i]]
      BY <3>1 DEF LengthOf
    <3>3. \A i \in E : LengthOf(w)[i] = f[i]
      BY <1>1, <3>1, <3>2
    <3> QED
      BY <3>2, <3>3 DEF w
  <2>2. TotalLength(Without(r, D)) = SumFunctionOnSet(g, E)
    BY <2>1 DEF TotalLength, SumFunction
  <2> HIDE DEF f, g, E
  <2> QED
    BY <1>2, <2>1, <2>2, SumCongruence
<1>5. TotalLength(r) = SumFunctionOnSet(f, DOMAIN r)
  BY <1>1 DEF TotalLength, SumFunction
<1> HIDE DEF f
<1>6. /\ SumFunctionOnSet(f, DOMAIN r) \in Nat /\ SumFunctionOnSet(f, D) \in Nat
      /\ SumFunctionOnSet(f, E) \in Nat
  BY <1>1, <1>2, SumType
<1>7. SumFunctionOnSet(f, DOMAIN r) = SumFunctionOnSet(f, D) + SumFunctionOnSet(f, E)
  BY <1>1, <1>2, SumSplits
<1> HIDE DEF E
<1> QED
  BY <1>3, <1>4, <1>5, <1>6, <1>7 DEF Less

(* ... and with one more.                                                  *)
LEMMA LengthInserted ==
  ASSUME QueueAssumption, QueueTypeOK, NEW p \in Payload
  PROVE  /\ TableOK(Inserted(p))
         /\ TotalLength(Inserted(p)) = TotalLength(rows) + Length[p]
<1> DEFINE r == Inserted(p)
           i == lastId + 1
           f == LengthOf(r)
           g == LengthOf(rows)
<1>1. IsFiniteSet(DOMAIN rows) /\ \A j \in DOMAIN rows : rows[j] \in Payload
  BY TableIsOK DEF TableOK
<1>2. i \notin DOMAIN rows
  BY DEF QueueTypeOK
<1>3. DOMAIN r = DOMAIN rows \union {i} /\ r[i] = p /\ \A j \in DOMAIN rows : r[j] = rows[j]
  BY <1>2, InsertedFacts
<1> HIDE DEF r, i
<1>4. IsFiniteSet(DOMAIN r) /\ \A j \in DOMAIN r : r[j] \in Payload
  BY <1>1, <1>3, FS_AddElement
<1>5. /\ DOMAIN f = DOMAIN r /\ (\A j \in DOMAIN r : f[j] = Length[r[j]] /\ f[j] \in Nat)
      /\ DOMAIN g = DOMAIN rows /\ (\A j \in DOMAIN rows : g[j] = Length[rows[j]])
  BY <1>4 DEF LengthOf, QueueAssumption
<1>6. TotalLength(r) = SumFunctionOnSet(f, DOMAIN r) /\ TotalLength(rows) = SumFunctionOnSet(g, DOMAIN rows)
  BY <1>5 DEF TotalLength, SumFunction
<1> HIDE DEF f, g
<1>7. SumFunctionOnSet(f, DOMAIN r) = f[i] + SumFunctionOnSet(f, DOMAIN rows)
  <2>1. i \in DOMAIN r /\ DOMAIN r \in SUBSET DOMAIN r /\ DOMAIN r \ {i} = DOMAIN rows
    BY <1>2, <1>3
  <2>2. SumFunctionOnSet(f, DOMAIN r) = f[i] + SumFunctionOnSet(f, DOMAIN r \ {i})
    BY <1>4, <1>5, <2>1, SumTakesAny
  <2> QED
    BY <2>1, <2>2
<1>8. SumFunctionOnSet(f, DOMAIN rows) = SumFunctionOnSet(g, DOMAIN rows)
  <2>1. \A j \in DOMAIN rows : f[j] = g[j]
    BY <1>3, <1>5
  <2> QED
    BY <1>1, <2>1, SumCongruence
<1>9. f[i] = Length[p] /\ Length[p] \in Nat /\ SumFunctionOnSet(f, DOMAIN rows) \in Nat
  <2>1. DOMAIN rows \in SUBSET DOMAIN r
    BY <1>3
  <2>2. SumFunctionOnSet(f, DOMAIN rows) \in Nat
    BY <1>4, <1>5, <2>1, SumType
  <2> QED
    BY <1>3, <1>5, <2>2
<1>10. TotalLength(r) = TotalLength(rows) + Length[p]
  BY <1>6, <1>7, <1>8, <1>9
<1> QED
  BY <1>4, <1>10 DEF TableOK, r

LEMMA BytesInit == QueueInit => BytesExact
<1> SUFFICES ASSUME QueueInit PROVE BytesExact
  OBVIOUS
<1>1. bytes = 0 /\ DOMAIN rows = {}
  BY DEF QueueInit
<1>2. DOMAIN LengthOf(rows) = {}
  BY <1>1 DEF LengthOf
<1>3. TotalLength(rows) = SumFunctionOnSet(LengthOf(rows), {})
  BY <1>2 DEF TotalLength, SumFunction
<1>4. SumFunctionOnSet(LengthOf(rows), {}) = 0
  BY FS_EmptySet, SumTakes
<1> QED
  BY <1>1, <1>3, <1>4 DEF BytesExact

LEMMA BytesStep ==
  ASSUME QueueAssumption, QueueTypeOK, BytesExact, [QueueNext]_queueVars PROVE BytesExact'
<1>1. ASSUME NEW p \in Payload, Push(p) PROVE BytesExact'
  <2> DEFINE r == Inserted(p)
             D == Trimmed(r, bytes + Length[p])
  <2>1. rows' = Without(r, D) /\ bytes' = Less(bytes + Length[p], TotalLength(Restrict(r, D)))
    BY <1>1 DEF Push
  <2>2. TableOK(r) /\ TotalLength(r) = bytes + Length[p]
    BY LengthInserted DEF BytesExact
  <2>3. D \in SUBSET DOMAIN r
    BY DEF Trimmed, Oldest
  <2> HIDE DEF r, D
  <2>4. TotalLength(Without(r, D)) = Less(TotalLength(r), TotalLength(Restrict(r, D)))
    BY <2>2, <2>3, LengthWithout
  <2>5. bytes' = TotalLength(Without(r, D))
    BY <2>1, <2>2, <2>4
  <2> QED
    BY <2>1, <2>5 DEF BytesExact, TotalLength, LengthOf
<1>2. ASSUME NEW p \in Payload, RestartInsidePush(p) PROVE BytesExact'
  BY <1>2 DEF RestartInsidePush, BytesExact, TotalLength, LengthOf
<1>3. ASSUME NEW ids, Ack(ids) PROVE BytesExact'
  <2> DEFINE D == ids \intersect DOMAIN rows
  <2>1. rows' = Without(rows, D) /\ bytes' = Less(bytes, TotalLength(Restrict(rows, D)))
    BY <1>3 DEF Ack
  <2>2. TableOK(rows) /\ D \in SUBSET DOMAIN rows
    BY TableIsOK
  <2> HIDE DEF D
  <2>3. TotalLength(Without(rows, D)) = Less(TotalLength(rows), TotalLength(Restrict(rows, D)))
    BY <2>2, LengthWithout
  <2>4. bytes' = TotalLength(Without(rows, D))
    BY <2>1, <2>3 DEF BytesExact
  <2> QED
    BY <2>1, <2>4 DEF BytesExact, TotalLength, LengthOf
<1>4. CASE Restart
  BY <1>4 DEF Restart, BytesExact, TotalLength, LengthOf
<1>5. CASE UNCHANGED queueVars
  BY <1>5 DEF queueVars, BytesExact, TotalLength, LengthOf
<1> QED
  BY <1>1, <1>2, <1>3, <1>4, <1>5 DEF QueueNext

(* BytesExact for every cap, batch and set of payloads: the counter that   *)
(* decides about trims is the sum of what the table holds                  *)
(* (disk_queue.py:45-61, 86-103, 119-140).                                 *)
THEOREM BytesCorrect == QueueSpec => []BytesExact
<1>1. QueueTypeOK /\ BytesExact /\ [QueueNext]_queueVars => BytesExact'
  BY QueueAssumption, BytesStep
<1> QED
  BY <1>1, BytesInit, QueueTypeCorrect, PTL DEF QueueSpec
=============================================================================
