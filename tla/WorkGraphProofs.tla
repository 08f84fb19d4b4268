--------------------------- MODULE WorkGraphProofs ---------------------------
(***************************************************************************)
(* WorkGraph for any Plans, Revisions, definitions of Revisions and any    *)
(* finite set of Tasks: what the search for cycles computes, the inductive *)
(* invariant of the state machine, what the search is for, and reads from  *)
(* Snapshots.                                                              *)
(***************************************************************************)
EXTENDS WorkGraph, FiniteSetTheorems, TLAPS

(* Induction over the natural numbers.                                     *)
Log == INSTANCE MissionLogProofs WITH rows <- {}, stream <- << >>, NoKey <- "none"

-----------------------------------------------------------------------------
(* Folding a function over a finite set.                                   *)

(* What the fold of the community modules defines by recursion.            *)
FoldsTo(h, f, base, S) ==
    h = [U \in SUBSET S |-> IF U = {} THEN base
                            ELSE LET x == CHOOSE x \in U : TRUE IN f[x][h[U \ {x}]]]

FoldOf(f, base, S) == FoldSet(LAMBDA next, acc : f[next][acc], base, S)

LEMMA FoldOfIs ==
    ASSUME NEW f, NEW base, NEW S
    PROVE  FoldOf(f, base, S) = (CHOOSE h : FoldsTo(h, f, base, S))[S]
BY DEF FoldOf, FoldSet, MapThenFoldSet, FoldsTo

(* The subsets of S with up to k elements.                                 *)
Small(S, k) == {U \in SUBSET S : Cardinality(U) <= k}
Chosen(U)   == CHOOSE x \in U : TRUE

LEMMA SmallerIsSmall ==
    ASSUME NEW S, IsFiniteSet(S), NEW k \in Nat, NEW U \in Small(S, k + 1), U # {}
    PROVE  /\ Chosen(U) \in U /\ Chosen(U) \in S /\ U \ {Chosen(U)} \in Small(S, k)
           /\ (U \ {Chosen(U)}) \cup {Chosen(U)} = U
<1>1. PICK x : x = Chosen(U)
  OBVIOUS
<1>2. x \in U
  BY <1>1 DEF Chosen
<1>3. U \in SUBSET S /\ Cardinality(U) <= k + 1
  BY DEF Small
<1>4. IsFiniteSet(U) /\ Cardinality(U) \in Nat
  BY <1>3, FS_Subset, FS_CardinalityType
<1>5. Cardinality(U \ {x}) = Cardinality(U) - 1
  BY <1>2, <1>4, FS_RemoveElement
<1>6. Cardinality(U \ {x}) <= k
  BY <1>3, <1>4, <1>5
<1> QED
  BY <1>1, <1>2, <1>3, <1>6 DEF Small

LEMMA SmallSets ==
    ASSUME NEW S, IsFiniteSet(S)
    PROVE  /\ Cardinality(S) \in Nat /\ Small(S, Cardinality(S)) = SUBSET S
           /\ Small(S, 0) = {{}}
           /\ \A k \in Nat : Small(S, k) \subseteq Small(S, k + 1)
<1>1. Cardinality(S) \in Nat
  BY FS_CardinalityType
<1>2. \A U \in SUBSET S : IsFiniteSet(U) /\ Cardinality(U) \in Nat /\ Cardinality(U) <= Cardinality(S)
  BY FS_Subset, FS_CardinalityType
<1>3. Small(S, Cardinality(S)) = SUBSET S
  BY <1>2 DEF Small
<1>4. \A U \in SUBSET S : Cardinality(U) <= 0 <=> U = {}
  BY <1>2, FS_EmptySet
<1>5. Small(S, 0) = {{}}
  BY <1>4 DEF Small
<1>6. \A k \in Nat : Small(S, k) \subseteq Small(S, k + 1)
  BY <1>2 DEF Small
<1> QED
  BY <1>1, <1>3, <1>5, <1>6

(* One step of the fold.                                                   *)
FoldStep(h, f, base, U) == IF U = {} THEN base ELSE f[Chosen(U)][h[U \ {Chosen(U)}]]

(* The fold exists.                                                        *)
LEMMA FoldExists ==
    ASSUME NEW f, NEW base, NEW S, IsFiniteSet(S)
    PROVE  \E h : FoldsTo(h, f, base, S)
<1> DEFINE Part(h, k) == h = [U \in Small(S, k) |-> FoldStep(h, f, base, U)]
           G == {k \in Nat : \E h : Part(h, k)}
<1>1. 0 \in G
  <2>1. PICK h : h = [U \in Small(S, 0) |-> base]
    OBVIOUS
  <2>2. \A U \in Small(S, 0) : U = {}
    BY SmallSets
  <2>3. Part(h, 0)
    BY <2>1, <2>2 DEF FoldStep
  <2> QED
    BY <2>3
<1>2. ASSUME NEW k \in Nat, NEW h, Part(h, k) PROVE k + 1 \in G
  <2>1. PICK g : g = [U \in Small(S, k + 1) |-> FoldStep(h, f, base, U)]
    OBVIOUS
  <2>2. ASSUME NEW U \in Small(S, k) PROVE g[U] = h[U]
    <3>1. U \in Small(S, k + 1)
      BY SmallSets
    <3>2. h[U] = FoldStep(h, f, base, U)
      BY <1>2
    <3> QED
      BY <2>1, <3>1, <3>2
  <2>3. ASSUME NEW U \in Small(S, k + 1) PROVE FoldStep(h, f, base, U) = FoldStep(g, f, base, U)
    <3>1. CASE U = {}
      BY <3>1 DEF FoldStep
    <3>2. CASE U # {}
      <4>1. U \ {Chosen(U)} \in Small(S, k)
        BY <3>2, SmallerIsSmall
      <4>2. g[U \ {Chosen(U)}] = h[U \ {Chosen(U)}]
        BY <2>2, <4>1
      <4> QED
        BY <3>2, <4>2 DEF FoldStep
    <3> QED
      BY <3>1, <3>2
  <2>4. Part(g, k + 1)
    BY <2>1, <2>3
  <2> QED
    BY <2>4
<1>3. \A k \in Nat : k \in G => k + 1 \in G
  BY <1>2
<1>4. Nat \subseteq G
  <2> HIDE DEF G
  <2> QED
    BY <1>1, <1>3, Log!NatSetInduction
<1>5. PICK h : Part(h, Cardinality(S))
  BY <1>4, SmallSets
<1>6. h = [U \in SUBSET S |-> FoldStep(h, f, base, U)]
  BY <1>5, SmallSets
<1> QED
  BY <1>6 DEF FoldStep, FoldsTo, Chosen

(* So FoldOf is the last of its values.                                    *)
EndsIn(h, f, base, S) ==
    /\ FoldOf(f, base, S) = h[S]
    /\ \A U \in SUBSET S : h[U] = FoldStep(h, f, base, U)

LEMMA FoldOfEnds ==
    ASSUME NEW f, NEW base, NEW S, IsFiniteSet(S)
    PROVE  \E h : EndsIn(h, f, base, S)
<1>1. PICK h : h = CHOOSE g : FoldsTo(g, f, base, S)
  OBVIOUS
<1>2. FoldsTo(h, f, base, S) /\ FoldOf(f, base, S) = h[S]
  BY <1>1, FoldOfIs, FoldExists
<1>3. \A U \in SUBSET S : h[U] = FoldStep(h, f, base, U)
  BY <1>2 DEF FoldsTo, FoldStep, Chosen
<1> QED
  BY <1>2, <1>3 DEF EndsIn

(* What holds at first and is kept by each element holds in the end.       *)
LEMMA FoldHolds ==
    ASSUME NEW f, NEW base, NEW S, IsFiniteSet(S), NEW K, <<{}, base>> \in K,
           \A U \in SUBSET S : \A x \in S : \A acc :
               <<U, acc>> \in K => <<U \cup {x}, f[x][acc]>> \in K
    PROVE  <<S, FoldOf(f, base, S)>> \in K
<1>1. PICK h : EndsIn(h, f, base, S)
  BY FoldOfEnds
<1> DEFINE G == {k \in Nat : \A U \in Small(S, k) : <<U, h[U]>> \in K}
<1>2. 0 \in G
  <2>1. h[{}] = base
    BY <1>1 DEF FoldStep, EndsIn
  <2>2. Small(S, 0) = {{}}
    BY SmallSets
  <2> QED
    BY <2>1, <2>2
<1>3. ASSUME NEW k \in Nat, k \in G PROVE k + 1 \in G
  <2>1. ASSUME NEW U \in Small(S, k + 1) PROVE <<U, h[U]>> \in K
    <3>1. CASE U = {}
      <4>1. h[U] = base
        BY <1>1, <3>1 DEF FoldStep, EndsIn
      <4> QED
        BY <3>1, <4>1
    <3>2. CASE U # {}
      <4>1. PICK x, V : x = Chosen(U) /\ V = U \ {x}
        OBVIOUS
      <4>2. x \in S /\ V \in Small(S, k) /\ V \in SUBSET S /\ V \cup {x} = U
        BY <3>2, <4>1, SmallerIsSmall DEF Small
      <4>3. U \in SUBSET S
        BY DEF Small
      <4>4. h[U] = f[x][h[V]]
        BY <1>1, <3>2, <4>1, <4>3 DEF FoldStep, EndsIn
      <4>5. <<V, h[V]>> \in K
        BY <1>3, <4>2
      <4> QED
        BY <4>2, <4>4, <4>5
    <3> QED
      BY <3>1, <3>2
  <2> QED
    BY <2>1
<1>4. \A k \in Nat : k \in G => k + 1 \in G
  BY <1>3
<1>5. Nat \subseteq G
  <2> HIDE DEF G
  <2> QED
    BY <1>2, <1>4, Log!NatSetInduction
<1>6. S \in Small(S, Cardinality(S)) /\ Cardinality(S) \in Nat
  BY SmallSets
<1>7. <<S, h[S]>> \in K
  BY <1>5, <1>6
<1> QED
  BY <1>1, <1>7 DEF EndsIn

(* Functions that agree on all that is reached give the same fold.         *)
LEMMA FoldSame ==
    ASSUME NEW f, NEW g, NEW base, NEW S, IsFiniteSet(S), NEW A, base \in A,
           \A acc \in A : \A x \in S : f[x][acc] \in A /\ f[x][acc] = g[x][acc]
    PROVE  FoldOf(f, base, S) = FoldOf(g, base, S)
<1>1. PICK h : EndsIn(h, f, base, S)
  BY FoldOfEnds
<1>2. PICK i : EndsIn(i, g, base, S)
  BY FoldOfEnds
<1> DEFINE G == {k \in Nat : \A U \in Small(S, k) : h[U] \in A /\ h[U] = i[U]}
<1>3. 0 \in G
  <2>1. {} \in SUBSET S
    OBVIOUS
  <2>2. h[{}] = base
    BY <1>1, <2>1 DEF FoldStep, EndsIn
  <2>3. i[{}] = base
    BY <1>2, <2>1 DEF FoldStep, EndsIn
  <2>4. Small(S, 0) = {{}}
    BY SmallSets
  <2> QED
    BY <2>2, <2>3, <2>4
<1>4. ASSUME NEW k \in Nat, k \in G PROVE k + 1 \in G
  <2>1. ASSUME NEW U \in Small(S, k + 1) PROVE h[U] \in A /\ h[U] = i[U]
    <3>0. U \in SUBSET S
      BY DEF Small
    <3>1. CASE U = {}
      BY <1>1, <1>2, <3>0, <3>1 DEF FoldStep, EndsIn
    <3>2. CASE U # {}
      <4>1. PICK x, V : x = Chosen(U) /\ V = U \ {x}
        OBVIOUS
      <4>2. x \in S /\ V \in Small(S, k)
        BY <3>2, <4>1, SmallerIsSmall
      <4>3. h[U] = f[x][h[V]] /\ i[U] = g[x][i[V]]
        BY <1>1, <1>2, <3>0, <3>2, <4>1 DEF FoldStep, EndsIn
      <4>4. h[V] \in A /\ h[V] = i[V]
        BY <1>4, <4>2
      <4> QED
        BY <4>2, <4>3, <4>4
    <3> QED
      BY <3>1, <3>2
  <2> QED
    BY <2>1
<1>5. \A k \in Nat : k \in G => k + 1 \in G
  BY <1>4
<1>6. Nat \subseteq G
  <2> HIDE DEF G
  <2> QED
    BY <1>3, <1>5, Log!NatSetInduction
<1>7. S \in Small(S, Cardinality(S)) /\ Cardinality(S) \in Nat
  BY SmallSets
<1> QED
  BY <1>1, <1>2, <1>6, <1>7 DEF EndsIn

-----------------------------------------------------------------------------
(* The search for cycles.                                                  *)

Entered(s, t) == [s EXCEPT !.visiting = @ \cup {t}]
Left(s, t)    == [s EXCEPT !.visiting = @ \ {t}, !.visited = @ \cup {t}]

(* One visit, given what the visits of the successors do.                  *)
Visit(f, deps, t, s) ==
    IF s.found \/ t \in s.visiting THEN [s EXCEPT !.found = TRUE]
    ELSE IF t \in s.visited THEN s
    ELSE LET after == FoldOf(f, Entered(s, t), Successors(deps, t))
         IN  IF after.found THEN after ELSE Left(after, t)

IsVisit(f, deps) == f = [t \in Tasks |-> [s \in Visits |-> Visit(f, deps, t, s)]]

LEMMA HasCycleIs ==
    ASSUME NEW deps
    PROVE  HasCycle(deps) = FoldOf(CHOOSE f : IsVisit(f, deps), Unvisited, Tasks).found
BY DEF HasCycle, IsVisit, Visit, Entered, Left, FoldOf

(* What has at most k Tasks left that are not being visited.               *)
Roomy(k) == {s \in Visits : Cardinality(Tasks \ s.visiting) <= k}

LEMMA RoomIsLess ==
    ASSUME IsFiniteSet(Tasks), NEW k \in Nat, NEW s \in Roomy(k + 1), NEW t \in Tasks,
           t \notin s.visiting, NEW acc \in Visits, s.visiting \cup {t} \subseteq acc.visiting
    PROVE  acc \in Roomy(k)
<1>1. PICK A, B : A = Tasks \ s.visiting /\ B = Tasks \ acc.visiting
  OBVIOUS
<1>2. IsFiniteSet(A) /\ Cardinality(A) \in Nat /\ Cardinality(A) <= k + 1
  BY <1>1, FS_Difference, FS_CardinalityType DEF Roomy
<1>3. IsFiniteSet(A \ {t}) /\ Cardinality(A \ {t}) = Cardinality(A) - 1
  BY <1>1, <1>2, FS_RemoveElement
<1>4. B \in SUBSET (A \ {t})
  BY <1>1
<1>5. Cardinality(B) <= Cardinality(A \ {t}) /\ Cardinality(B) \in Nat
  BY <1>3, <1>4, FS_Subset, FS_CardinalityType
<1>6. Cardinality(B) <= k
  BY <1>2, <1>3, <1>5
<1> QED
  BY <1>1, <1>6 DEF Roomy

LEMMA Rooms ==
    ASSUME IsFiniteSet(Tasks)
    PROVE  /\ Cardinality(Tasks) \in Nat /\ Roomy(Cardinality(Tasks)) = Visits
           /\ \A s \in Roomy(0) : s \in Visits /\ s.visiting = Tasks
           /\ \A k \in Nat : Roomy(k) \subseteq Roomy(k + 1)
<1>1. \A s \in Visits : /\ IsFiniteSet(Tasks \ s.visiting)
                        /\ Cardinality(Tasks \ s.visiting) \in Nat
                        /\ Cardinality(Tasks \ s.visiting) <= Cardinality(Tasks)
  <2> TAKE s \in Visits
  <2>1. Tasks \ s.visiting \in SUBSET Tasks
    OBVIOUS
  <2> QED
    BY <2>1, FS_Subset, FS_CardinalityType
<1>2. Cardinality(Tasks) \in Nat
  BY FS_CardinalityType
<1>3. Roomy(Cardinality(Tasks)) = Visits
  BY <1>1 DEF Roomy
<1>4. ASSUME NEW s \in Roomy(0) PROVE s.visiting = Tasks
  <2>1. s \in Visits /\ Cardinality(Tasks \ s.visiting) <= 0
    BY DEF Roomy
  <2>2. Cardinality(Tasks \ s.visiting) = 0
    BY <1>1, <2>1
  <2>3. Tasks \ s.visiting = {}
    BY <1>1, <2>1, <2>2, FS_EmptySet
  <2> QED
    BY <2>1, <2>3 DEF Visits
<1>5. ASSUME NEW k \in Nat, NEW s \in Roomy(k) PROVE s \in Roomy(k + 1)
  <2>1. s \in Visits /\ Cardinality(Tasks \ s.visiting) <= k
    BY DEF Roomy
  <2>2. Cardinality(Tasks \ s.visiting) <= k + 1
    BY <1>1, <2>1
  <2> QED
    BY <2>1, <2>2 DEF Roomy
<1> QED
  BY <1>2, <1>3, <1>4, <1>5 DEF Roomy

LEMMA SuccessorsAreTasks ==
    ASSUME IsFiniteSet(Tasks), NEW deps \in SUBSET (Tasks \X Tasks), NEW t
    PROVE  /\ Successors(deps, t) \subseteq Tasks /\ IsFiniteSet(Successors(deps, t))
           /\ \A x : x \in Successors(deps, t) <=> <<t, x>> \in deps
<1>1. ASSUME NEW x PROVE x \in Successors(deps, t) <=> <<t, x>> \in deps
  <2>1. ASSUME x \in Successors(deps, t) PROVE <<t, x>> \in deps
    <3>1. PICK e \in deps : e[1] = t /\ x = e[2]
      BY <2>1 DEF Successors
    <3>2. e = <<e[1], e[2]>>
      OBVIOUS
    <3> QED
      BY <3>1, <3>2
  <2>2. ASSUME <<t, x>> \in deps PROVE x \in Successors(deps, t)
    <3>1. PICK e \in deps : e = <<t, x>>
      BY <2>2
    <3>2. e[1] = t /\ e[2] = x
      BY <3>1
    <3> QED
      BY <3>2 DEF Successors
  <2> QED
    BY <2>1, <2>2
<1>2. ASSUME NEW x \in Successors(deps, t) PROVE x \in Tasks
  <2>1. <<t, x>> \in Tasks \X Tasks
    BY <1>1
  <2> QED
    BY <2>1
<1>3. Successors(deps, t) \in SUBSET Tasks
  BY <1>2
<1> QED
  BY <1>1, <1>3, FS_Subset

(* A visit leaves nothing out of visiting that was in it.                  *)
Keeps(f, k) ==
    \A t \in Tasks : \A s \in Roomy(k) : f[t][s] \in Visits /\ s.visiting \subseteq f[t][s].visiting

LEMMA EnteredIs ==
    ASSUME NEW s \in Visits, NEW t \in Tasks
    PROVE  /\ Entered(s, t) \in Visits /\ Entered(s, t).visiting = s.visiting \cup {t}
           /\ Entered(s, t).found = s.found /\ Entered(s, t).visited = s.visited
           /\ Left(s, t) \in Visits /\ Left(s, t).visiting = s.visiting \ {t}
           /\ Left(s, t).found = s.found /\ Left(s, t).visited = s.visited \cup {t}
           /\ [s EXCEPT !.found = TRUE] \in Visits
           /\ [s EXCEPT !.found = TRUE].visiting = s.visiting
           /\ [s EXCEPT !.found = TRUE].found = TRUE
BY DEF Visits, Entered, Left

Behind(s, t) == {acc \in Visits : s.visiting \cup {t} \subseteq acc.visiting}

LEMMA KeptOn ==
    ASSUME IsFiniteSet(Tasks), NEW deps \in SUBSET (Tasks \X Tasks), NEW k \in Nat, NEW f,
           Keeps(f, k), NEW t \in Tasks, NEW s \in Roomy(k + 1), t \notin s.visiting
    PROVE  /\ Entered(s, t) \in Behind(s, t)
           /\ \A acc \in Behind(s, t) : acc \in Roomy(k)
           /\ \A acc \in Behind(s, t) : \A x \in Successors(deps, t) : f[x][acc] \in Behind(s, t)
<1>1. s \in Visits
  BY DEF Roomy
<1>2. Entered(s, t) \in Behind(s, t)
  BY <1>1, EnteredIs DEF Behind
<1>3. \A acc \in Behind(s, t) : acc \in Roomy(k)
  BY RoomIsLess DEF Behind
<1>4. ASSUME NEW acc \in Behind(s, t), NEW x \in Successors(deps, t)
      PROVE  f[x][acc] \in Behind(s, t)
  <2>1. x \in Tasks
    BY SuccessorsAreTasks
  <2>2. f[x][acc] \in Visits /\ acc.visiting \subseteq f[x][acc].visiting
    BY <1>3, <2>1 DEF Keeps
  <2> QED
    BY <2>2 DEF Behind
<1> QED
  BY <1>2, <1>3, <1>4

LEMMA VisitKeeps ==
    ASSUME IsFiniteSet(Tasks), NEW deps \in SUBSET (Tasks \X Tasks), NEW k \in Nat, NEW f,
           Keeps(f, k), NEW t \in Tasks, NEW s \in Roomy(k + 1)
    PROVE  Visit(f, deps, t, s) \in Visits /\ s.visiting \subseteq Visit(f, deps, t, s).visiting
<1>1. s \in Visits
  BY DEF Roomy
<1>2. CASE s.found \/ t \in s.visiting \/ t \in s.visited
  BY <1>1, <1>2, EnteredIs DEF Visit
<1>3. CASE ~(s.found \/ t \in s.visiting \/ t \in s.visited)
  <2>1. PICK S, after : S = Successors(deps, t) /\ after = FoldOf(f, Entered(s, t), S)
    OBVIOUS
  <2>2. IsFiniteSet(S)
    BY <2>1, SuccessorsAreTasks
  <2>3. PICK K : K = (SUBSET S) \X Behind(s, t)
    OBVIOUS
  <2>4. <<{}, Entered(s, t)>> \in K
    BY <1>3, <2>3, KeptOn
  <2>5. ASSUME NEW U \in SUBSET S, NEW x \in S, NEW acc, <<U, acc>> \in K
        PROVE  <<U \cup {x}, f[x][acc]>> \in K
    <3>1. acc \in Behind(s, t)
      BY <2>3, <2>5
    <3>2. f[x][acc] \in Behind(s, t)
      BY <1>3, <2>1, <3>1, KeptOn
    <3>3. U \cup {x} \in SUBSET S
      OBVIOUS
    <3> QED
      BY <2>3, <3>2, <3>3
  <2>6. <<S, after>> \in K
    BY <2>1, <2>2, <2>4, <2>5, FoldHolds
  <2>7. after \in Visits /\ s.visiting \cup {t} \subseteq after.visiting
    BY <2>3, <2>6 DEF Behind
  <2>8. Visit(f, deps, t, s) = IF after.found THEN after ELSE Left(after, t)
    BY <1>3, <2>1 DEF Visit
  <2>9. s.visiting \subseteq after.visiting \ {t}
    BY <1>3, <2>7
  <2>10. Left(after, t) \in Visits /\ Left(after, t).visiting = after.visiting \ {t}
    BY <2>7, EnteredIs
  <2>11. CASE after.found
    BY <2>7, <2>8, <2>11
  <2>12. CASE ~after.found
    BY <2>8, <2>9, <2>10, <2>12
  <2> QED
    BY <2>11, <2>12
<1> QED
  BY <1>2, <1>3

LEMMA VisitSame ==
    ASSUME IsFiniteSet(Tasks), NEW deps \in SUBSET (Tasks \X Tasks), NEW k \in Nat, NEW f, NEW g,
           Keeps(f, k), \A x \in Tasks : \A acc \in Roomy(k) : f[x][acc] = g[x][acc],
           NEW t \in Tasks, NEW s \in Roomy(k + 1)
    PROVE  Visit(f, deps, t, s) = Visit(g, deps, t, s)
<1>1. CASE s.found \/ t \in s.visiting \/ t \in s.visited
  BY <1>1 DEF Visit
<1>2. CASE ~(s.found \/ t \in s.visiting \/ t \in s.visited)
  <2>1. PICK S, A, base : S = Successors(deps, t) /\ A = Behind(s, t) /\ base = Entered(s, t)
    OBVIOUS
  <2>2. IsFiniteSet(S) /\ S \subseteq Tasks
    BY <2>1, SuccessorsAreTasks
  <2>3. base \in A
    BY <1>2, <2>1, KeptOn
  <2>4. ASSUME NEW acc \in A, NEW x \in S PROVE f[x][acc] \in A /\ f[x][acc] = g[x][acc]
    <3>1. acc \in Roomy(k) /\ f[x][acc] \in A
      BY <1>2, <2>1, KeptOn
    <3> QED
      BY <2>2, <3>1
  <2>5. FoldOf(f, base, S) = FoldOf(g, base, S)
    BY <2>2, <2>3, <2>4, FoldSame
  <2> QED
    BY <1>2, <2>1, <2>5 DEF Visit
<1> QED
  BY <1>1, <1>2

(* The closure visit() is well-defined: no visit goes round for ever.      *)
LEMMA VisitExists ==
    ASSUME IsFiniteSet(Tasks), NEW deps \in SUBSET (Tasks \X Tasks)
    PROVE  \E f : IsVisit(f, deps)
<1> DEFINE Part(f, k) == /\ f = [t \in Tasks |-> [s \in Roomy(k) |-> Visit(f, deps, t, s)]]
                         /\ Keeps(f, k)
           G == {k \in Nat : \E f : Part(f, k)}
<1>1. 0 \in G
  <2>1. PICK f : f = [t \in Tasks |-> [s \in Roomy(0) |-> [s EXCEPT !.found = TRUE]]]
    OBVIOUS
  <2>2. \A t \in Tasks : \A s \in Roomy(0) : /\ f[t][s] = [s EXCEPT !.found = TRUE]
                                             /\ Visit(f, deps, t, s) = [s EXCEPT !.found = TRUE]
    BY <2>1, Rooms DEF Visit
  <2>3. f = [t \in Tasks |-> [s \in Roomy(0) |-> Visit(f, deps, t, s)]]
    BY <2>1, <2>2
  <2>4. Keeps(f, 0)
    <3> SUFFICES ASSUME NEW t \in Tasks, NEW s \in Roomy(0)
                 PROVE  f[t][s] \in Visits /\ s.visiting \subseteq f[t][s].visiting
      BY DEF Keeps
    <3>1. s \in Visits
      BY Rooms
    <3>2. [s EXCEPT !.found = TRUE] \in Visits /\ [s EXCEPT !.found = TRUE].visiting = s.visiting
      BY <3>1, EnteredIs
    <3> QED
      BY <2>2, <3>2
  <2> QED
    BY <2>3, <2>4
<1>2. ASSUME NEW k \in Nat, NEW f, Part(f, k) PROVE k + 1 \in G
  <2>1. PICK g : g = [t \in Tasks |-> [s \in Roomy(k + 1) |-> Visit(f, deps, t, s)]]
    OBVIOUS
  <2>2. ASSUME NEW t \in Tasks, NEW s \in Roomy(k) PROVE f[t][s] = g[t][s]
    <3>1. s \in Roomy(k + 1)
      BY Rooms
    <3>2. f[t][s] = Visit(f, deps, t, s)
      BY <1>2
    <3> QED
      BY <2>1, <3>1, <3>2
  <2>3. \A t \in Tasks : \A s \in Roomy(k + 1) : Visit(f, deps, t, s) = Visit(g, deps, t, s)
    <3>1. Keeps(f, k)
      BY <1>2
    <3> HIDE DEF Part
    <3> QED
      BY <2>2, <3>1, VisitSame
  <2>4. g = [t \in Tasks |-> [s \in Roomy(k + 1) |-> Visit(g, deps, t, s)]]
    BY <2>1, <2>3
  <2>5. Keeps(g, k + 1)
    <3>1. Keeps(f, k)
      BY <1>2
    <3>2. \A t \in Tasks : \A s \in Roomy(k + 1) : g[t][s] = Visit(f, deps, t, s)
      BY <2>1
    <3> HIDE DEF Part
    <3> SUFFICES ASSUME NEW t \in Tasks, NEW s \in Roomy(k + 1)
                 PROVE  g[t][s] \in Visits /\ s.visiting \subseteq g[t][s].visiting
      BY DEF Keeps
    <3>3. Visit(f, deps, t, s) \in Visits /\ s.visiting \subseteq Visit(f, deps, t, s).visiting
      BY <3>1, VisitKeeps
    <3> QED
      BY <3>2, <3>3
  <2>6. Part(g, k + 1)
    BY <2>4, <2>5
  <2> QED
    BY <2>6
<1>3. \A k \in Nat : k \in G => k + 1 \in G
  BY <1>2
<1>4. Nat \subseteq G
  <2> HIDE DEF G
  <2> QED
    BY <1>1, <1>3, Log!NatSetInduction
<1>5. PICK f : Part(f, Cardinality(Tasks))
  BY <1>4, Rooms
<1> QED
  BY <1>5, Rooms DEF IsVisit

-----------------------------------------------------------------------------
(* What the search says.                                                   *)

(* All that comes after a Task of V is in V, and going on from Task to     *)
(* Task in V comes to an end.                                              *)
Good(deps, V) ==
    /\ \A v \in V : Successors(deps, v) \subseteq V
    /\ \A X \in SUBSET V : X # {} => \E x \in X : Successors(deps, x) \cap X = {}

LEMMA GoodGrows ==
    ASSUME NEW deps, NEW V, NEW t, Good(deps, V), Successors(deps, t) \subseteq V
    PROVE  Good(deps, V \cup {t})
<1>1. \A v \in V \cup {t} : Successors(deps, v) \subseteq V
  BY DEF Good
<1>2. ASSUME NEW X \in SUBSET (V \cup {t}), X # {}
      PROVE  \E x \in X : Successors(deps, x) \cap X = {}
  <2>1. CASE X \cap V = {}
    <3>1. t \in X /\ X \subseteq {t} /\ t \notin V
      BY <1>2, <2>1
    <3>2. Successors(deps, t) \cap X = {}
      BY <3>1
    <3> QED
      BY <3>1, <3>2
  <2>2. CASE X \cap V # {}
    <3>1. PICK Y : Y = X \cap V
      OBVIOUS
    <3>2. Y \in SUBSET V /\ Y # {}
      BY <2>2, <3>1
    <3>3. PICK x \in Y : Successors(deps, x) \cap Y = {}
      BY <3>2 DEF Good
    <3>4. x \in V /\ x \in X /\ Successors(deps, x) \subseteq V
      BY <3>1, <3>3, <1>1
    <3>5. Successors(deps, x) \cap X = {}
      BY <3>1, <3>3, <3>4
    <3> QED
      BY <3>4, <3>5
  <2> QED
    BY <2>1, <2>2
<1> QED
  BY <1>1, <1>2 DEF Good

(* C holds of a Task and one that comes after it, however far: it need     *)
(* only hold that much.                                                    *)
Follows(C, deps) ==
    /\ deps \subseteq C
    /\ \A x, y, z : <<x, y>> \in C /\ <<y, z>> \in deps => <<x, z>> \in C
Circle(C) == \E t \in Tasks : <<t, t>> \in C
LeadTo(C, s, t) == \A x \in s.visiting : <<x, t>> \in C

(* What the visit of t makes of s.                                         *)
VisitIs(deps, C, t, s, r) ==
    /\ r \in Visits /\ s.visiting \subseteq r.visiting
    /\ s.found => r.found
    /\ ~r.found => /\ r.visiting = s.visiting /\ s.visited \subseteq r.visited /\ t \in r.visited
                   /\ Good(deps, s.visited) => Good(deps, r.visited)
    /\ ~s.found /\ r.found /\ LeadTo(C, s, t) => Circle(C)

(* What is so while the successors of t are visited, U of them already.    *)
Underway(deps, C, t, s, U, acc) ==
    /\ acc \in Visits /\ s.visiting \cup {t} \subseteq acc.visiting
    /\ ~acc.found => /\ acc.visiting = s.visiting \cup {t}
                     /\ s.visited \subseteq acc.visited /\ U \subseteq acc.visited
                     /\ Good(deps, s.visited) => Good(deps, acc.visited)
    /\ acc.found /\ LeadTo(C, s, t) => Circle(C)

LEMMA StaysUnderway ==
    ASSUME NEW deps, NEW C, Follows(C, deps), NEW t, NEW s, NEW U, NEW acc,
           Underway(deps, C, t, s, U, acc), NEW x, <<t, x>> \in deps, NEW r,
           VisitIs(deps, C, x, acc, r)
    PROVE  Underway(deps, C, t, s, U \cup {x}, r)
<1>1. r \in Visits /\ s.visiting \cup {t} \subseteq r.visiting
  BY DEF Underway, VisitIs
<1>2. ASSUME ~r.found
      PROVE  /\ r.visiting = s.visiting \cup {t}
             /\ s.visited \subseteq r.visited /\ U \cup {x} \subseteq r.visited
             /\ Good(deps, s.visited) => Good(deps, r.visited)
  BY <1>2 DEF Underway, VisitIs
<1>3. ASSUME r.found, LeadTo(C, s, t) PROVE Circle(C)
  <2>1. CASE acc.found
    BY <1>3, <2>1 DEF Underway
  <2>2. CASE ~acc.found
    <3>1. acc.visiting = s.visiting \cup {t}
      BY <2>2 DEF Underway
    <3>2. <<t, x>> \in C
      BY DEF Follows
    <3>3. \A y \in s.visiting : <<y, x>> \in C
      BY <1>3 DEF LeadTo, Follows
    <3>4. LeadTo(C, acc, x)
      BY <3>1, <3>2, <3>3 DEF LeadTo
    <3> QED
      BY <1>3, <2>2, <3>4 DEF VisitIs
  <2> QED
    BY <2>1, <2>2
<1> QED
  BY <1>1, <1>2, <1>3 DEF Underway

(* A visit, if those of the successors are as they should be.              *)
LEMMA OneVisit ==
    ASSUME IsFiniteSet(Tasks), NEW deps \in SUBSET (Tasks \X Tasks), NEW C, Follows(C, deps),
           NEW k \in Nat, NEW f,
           \A x \in Tasks : \A acc \in Roomy(k) : VisitIs(deps, C, x, acc, f[x][acc]),
           NEW t \in Tasks, NEW s \in Roomy(k + 1)
    PROVE  VisitIs(deps, C, t, s, Visit(f, deps, t, s))
<1>0. s \in Visits
  BY DEF Roomy
<1>1. CASE s.found
  <2>1. Visit(f, deps, t, s) = [s EXCEPT !.found = TRUE]
    BY <1>1 DEF Visit
  <2> QED
    BY <1>0, <1>1, <2>1, EnteredIs DEF VisitIs
<1>2. CASE ~s.found /\ t \in s.visiting
  <2>1. Visit(f, deps, t, s) = [s EXCEPT !.found = TRUE]
    BY <1>2 DEF Visit
  <2>2. LeadTo(C, s, t) => Circle(C)
    BY <1>2 DEF LeadTo, Circle
  <2> QED
    BY <1>0, <1>2, <2>1, <2>2, EnteredIs DEF VisitIs
<1>3. CASE ~s.found /\ t \notin s.visiting /\ t \in s.visited
  <2>1. Visit(f, deps, t, s) = s
    BY <1>3 DEF Visit
  <2> QED
    BY <1>0, <1>3, <2>1 DEF VisitIs
<1>4. CASE ~s.found /\ t \notin s.visiting /\ t \notin s.visited
  <2>1. PICK S, after : S = Successors(deps, t) /\ after = FoldOf(f, Entered(s, t), S)
    OBVIOUS
  <2>2. IsFiniteSet(S) /\ S \subseteq Tasks /\ \A x \in S : <<t, x>> \in deps
    BY <2>1, SuccessorsAreTasks
  <2>3. PICK K : K = {p \in (SUBSET S) \X Visits : Underway(deps, C, t, s, p[1], p[2])}
    OBVIOUS
  <2>4. \A U, acc : <<U, acc>> \in K <=> U \in SUBSET S /\ Underway(deps, C, t, s, U, acc)
    BY <2>3 DEF Underway
  <2>5. <<{}, Entered(s, t)>> \in K
    <3>1. Underway(deps, C, t, s, {}, Entered(s, t))
      <4>1. /\ Entered(s, t) \in Visits /\ Entered(s, t).visiting = s.visiting \cup {t}
            /\ Entered(s, t).found = s.found /\ Entered(s, t).visited = s.visited
        BY <1>0, EnteredIs
      <4> QED
        BY <1>4, <4>1 DEF Underway
    <3> QED
      BY <2>4, <3>1
  <2>6. ASSUME NEW U \in SUBSET S, NEW x \in S, NEW acc, <<U, acc>> \in K
        PROVE  <<U \cup {x}, f[x][acc]>> \in K
    <3>1. Underway(deps, C, t, s, U, acc)
      BY <2>4, <2>6
    <3>2. acc \in Roomy(k)
      BY <1>4, <3>1, RoomIsLess DEF Underway
    <3>3. VisitIs(deps, C, x, acc, f[x][acc])
      BY <2>2, <3>2
    <3>4. Underway(deps, C, t, s, U \cup {x}, f[x][acc])
      BY <2>2, <3>1, <3>3, StaysUnderway
    <3>5. U \cup {x} \in SUBSET S
      OBVIOUS
    <3> QED
      BY <2>4, <3>4, <3>5
  <2>7. <<S, after>> \in K
    BY <2>1, <2>2, <2>5, <2>6, FoldHolds
  <2>8. Underway(deps, C, t, s, S, after)
    BY <2>4, <2>7
  <2>9. Visit(f, deps, t, s) = IF after.found THEN after ELSE Left(after, t)
    BY <1>4, <2>1 DEF Visit
  <2>10. CASE after.found
    <3>1. Visit(f, deps, t, s) = after
      BY <2>9, <2>10
    <3>2. s.visiting \subseteq after.visiting /\ after \in Visits
      BY <2>8 DEF Underway
    <3> QED
      BY <1>4, <2>8, <2>10, <3>1, <3>2 DEF Underway, VisitIs
  <2>11. CASE ~after.found
    <3>1. PICK r : r = Left(after, t)
      OBVIOUS
    <3>2. Visit(f, deps, t, s) = r
      BY <2>9, <2>11, <3>1
    <3>3. after \in Visits
      BY <2>8 DEF Underway
    <3>4. /\ r \in Visits /\ r.visiting = after.visiting \ {t}
          /\ r.found = after.found /\ r.visited = after.visited \cup {t}
      BY <3>1, <3>3, EnteredIs
    <3>5. /\ after.visiting = s.visiting \cup {t}
          /\ s.visited \subseteq after.visited /\ S \subseteq after.visited
          /\ Good(deps, s.visited) => Good(deps, after.visited)
      BY <2>8, <2>11 DEF Underway
    <3>6. r.visiting = s.visiting
      BY <1>4, <3>4, <3>5
    <3>7. Good(deps, s.visited) => Good(deps, r.visited)
      BY <2>1, <3>4, <3>5, GoodGrows
    <3>8. s.visited \subseteq r.visited /\ t \in r.visited
      BY <3>4, <3>5
    <3> QED
      BY <1>4, <2>11, <3>2, <3>4, <3>6, <3>7, <3>8 DEF VisitIs
  <2> QED
    BY <2>10, <2>11
<1> QED
  BY <1>1, <1>2, <1>3, <1>4

(* No Task is left to enter: every one is being visited.                   *)
LEMMA AllVisits ==
    ASSUME IsFiniteSet(Tasks), NEW deps \in SUBSET (Tasks \X Tasks), NEW C, Follows(C, deps),
           NEW f, IsVisit(f, deps)
    PROVE  \A t \in Tasks : \A s \in Visits : VisitIs(deps, C, t, s, f[t][s])
<1>1. \A t \in Tasks : \A s \in Visits : f[t][s] = Visit(f, deps, t, s)
  BY DEF IsVisit
<1> DEFINE G == {k \in Nat : \A t \in Tasks : \A s \in Roomy(k) : VisitIs(deps, C, t, s, f[t][s])}
<1>2. 0 \in G
  <2>1. ASSUME NEW t \in Tasks, NEW s \in Roomy(0) PROVE VisitIs(deps, C, t, s, f[t][s])
    <3>1. s \in Visits /\ t \in s.visiting
      BY Rooms
    <3>2. f[t][s] = [s EXCEPT !.found = TRUE]
      BY <1>1, <3>1 DEF Visit
    <3>3. ~s.found /\ LeadTo(C, s, t) => Circle(C)
      BY <3>1 DEF LeadTo, Circle
    <3> QED
      BY <3>1, <3>2, <3>3, EnteredIs DEF VisitIs
  <2> QED
    BY <2>1
<1>3. ASSUME NEW k \in Nat, k \in G PROVE k + 1 \in G
  <2>1. \A x \in Tasks : \A acc \in Roomy(k) : VisitIs(deps, C, x, acc, f[x][acc])
    BY <1>3
  <2>2. \A t \in Tasks : \A s \in Roomy(k + 1) : VisitIs(deps, C, t, s, Visit(f, deps, t, s))
    BY <2>1, OneVisit
  <2>3. \A t \in Tasks : \A s \in Roomy(k + 1) : VisitIs(deps, C, t, s, f[t][s])
    BY <1>1, <2>2 DEF Roomy
  <2> QED
    BY <2>3
<1>4. \A k \in Nat : k \in G => k + 1 \in G
  BY <1>3
<1>5. Nat \subseteq G
  <2> HIDE DEF G
  <2> QED
    BY <1>2, <1>4, Log!NatSetInduction
<1>6. Cardinality(Tasks) \in G
  BY <1>5, Rooms
<1> QED
  BY <1>6, Rooms

(* _has_cycle says that there is a circle only if there is one, and        *)
(* otherwise every way along the dependencies comes to an end.             *)
LEMMA SearchIsRight ==
    ASSUME IsFiniteSet(Tasks), NEW deps \in SUBSET (Tasks \X Tasks), NEW C, Follows(C, deps)
    PROVE  /\ HasCycle(deps) => Circle(C)
           /\ ~HasCycle(deps) => Good(deps, Tasks)
<1>1. PICK f : f = CHOOSE g : IsVisit(g, deps)
  OBVIOUS
<1>2. IsVisit(f, deps)
  BY <1>1, VisitExists
<1>3. PICK after : after = FoldOf(f, Unvisited, Tasks)
  OBVIOUS
<1>4. HasCycle(deps) = after.found
  BY <1>1, <1>3, HasCycleIs
<1> DEFINE Fine(U, acc) ==
      /\ acc \in Visits
      /\ ~acc.found => acc.visiting = {} /\ U \subseteq acc.visited /\ Good(deps, acc.visited)
      /\ acc.found => Circle(C)
<1>5. PICK K : K = {p \in (SUBSET Tasks) \X Visits : Fine(p[1], p[2])}
  OBVIOUS
<1>6. \A U, acc : <<U, acc>> \in K <=> U \in SUBSET Tasks /\ Fine(U, acc)
  BY <1>5
<1>7. <<{}, Unvisited>> \in K
  <2>1. Good(deps, {})
    BY DEF Good
  <2>2. /\ Unvisited \in Visits /\ Unvisited.visiting = {} /\ ~Unvisited.found
        /\ Unvisited.visited = {}
    BY DEF Unvisited, Visits
  <2>3. Fine({}, Unvisited)
    BY <2>1, <2>2
  <2> QED
    BY <1>6, <2>3
<1>8. ASSUME NEW U \in SUBSET Tasks, NEW x \in Tasks, NEW acc, <<U, acc>> \in K
      PROVE  <<U \cup {x}, f[x][acc]>> \in K
  <2>1. Fine(U, acc)
    BY <1>6, <1>8
  <2>2. PICK r : r = f[x][acc]
    OBVIOUS
  <2>3. VisitIs(deps, C, x, acc, r)
    BY <1>2, <2>1, <2>2, AllVisits
  <2>4. r \in Visits
    BY <2>3 DEF VisitIs
  <2>5. ASSUME ~r.found
        PROVE  r.visiting = {} /\ U \cup {x} \subseteq r.visited /\ Good(deps, r.visited)
    BY <2>1, <2>3, <2>5 DEF VisitIs
  <2>6. ASSUME r.found PROVE Circle(C)
    <3>1. CASE acc.found
      BY <2>1, <3>1
    <3>2. CASE ~acc.found
      <4>1. LeadTo(C, acc, x)
        BY <2>1, <3>2 DEF LeadTo
      <4> QED
        BY <2>3, <2>6, <3>2, <4>1 DEF VisitIs
    <3> QED
      BY <3>1, <3>2
  <2>7. Fine(U \cup {x}, r)
    BY <2>4, <2>5, <2>6
  <2>8. U \cup {x} \in SUBSET Tasks
    OBVIOUS
  <2> QED
    BY <1>6, <2>2, <2>7, <2>8
<1>9. <<Tasks, after>> \in K
  <2> HIDE DEF Fine
  <2> QED
    BY <1>3, <1>7, <1>8, FoldHolds
<1>10. Fine(Tasks, after)
  BY <1>6, <1>9
<1>11. ~after.found => after.visited = Tasks
  BY <1>10 DEF Visits
<1> QED
  BY <1>4, <1>10, <1>11

-----------------------------------------------------------------------------
(* Circles.                                                                *)

AfterPairs(deps) == {p \in Tasks \X Tasks : p[2] \in ComesAfter(deps, p[1])}
Holds(deps, t, U) == /\ Successors(deps, t) \subseteq U
                     /\ \A y \in U : Successors(deps, y) \subseteq U

LEMMA AfterIs ==
    ASSUME NEW deps, NEW t, NEW x
    PROVE  x \in ComesAfter(deps, t) <=>
              x \in Tasks /\ \A U \in SUBSET Tasks : Holds(deps, t, U) => x \in U
BY DEF ComesAfter, Holds

LEMMA AfterFollows ==
    ASSUME IsFiniteSet(Tasks), NEW deps \in SUBSET (Tasks \X Tasks)
    PROVE  /\ Follows(AfterPairs(deps), deps)
           /\ Circle(AfterPairs(deps)) <=> \E t \in Tasks : t \in ComesAfter(deps, t)
<1>1. \A x, y : <<x, y>> \in AfterPairs(deps) <=> x \in Tasks /\ y \in ComesAfter(deps, x)
  <2>1. \A x, y : y \in ComesAfter(deps, x) => y \in Tasks
    BY AfterIs
  <2> QED
    BY <2>1 DEF AfterPairs
<1>2. \A x, y : y \in Successors(deps, x) <=> <<x, y>> \in deps
  BY SuccessorsAreTasks
<1>3. ASSUME NEW x, NEW y, <<x, y>> \in deps PROVE <<x, y>> \in AfterPairs(deps)
  <2>1. x \in Tasks /\ y \in Tasks
    BY <1>3
  <2>2. \A U : Holds(deps, x, U) => y \in U
    BY <1>2, <1>3 DEF Holds
  <2>3. y \in ComesAfter(deps, x)
    BY <2>1, <2>2, AfterIs
  <2> QED
    BY <1>1, <2>1, <2>3
<1>4. ASSUME NEW x, NEW y, NEW z, <<x, y>> \in AfterPairs(deps), <<y, z>> \in deps
      PROVE  <<x, z>> \in AfterPairs(deps)
  <2>1. x \in Tasks /\ y \in ComesAfter(deps, x) /\ z \in Tasks
    BY <1>1, <1>4
  <2>2. ASSUME NEW U \in SUBSET Tasks, Holds(deps, x, U) PROVE z \in U
    <3>1. y \in U
      BY <2>1, <2>2, AfterIs
    <3> QED
      BY <1>2, <1>4, <2>2, <3>1 DEF Holds
  <2>3. z \in ComesAfter(deps, x)
    BY <2>1, <2>2, AfterIs
  <2> QED
    BY <1>1, <2>1, <2>3
<1>5. deps \subseteq AfterPairs(deps)
  <2> SUFFICES ASSUME NEW e \in deps PROVE e \in AfterPairs(deps)
    OBVIOUS
  <2>1. e = <<e[1], e[2]>>
    OBVIOUS
  <2> QED
    BY <1>3, <2>1
<1>6. Follows(AfterPairs(deps), deps)
  BY <1>4, <1>5 DEF Follows
<1>7. Circle(AfterPairs(deps)) <=> \E t \in Tasks : t \in ComesAfter(deps, t)
  BY <1>1 DEF Circle
<1> QED
  BY <1>6, <1>7

(* Where every way comes to an end, no Task comes after itself.            *)
LEMMA GoodHasNoCircle ==
    ASSUME IsFiniteSet(Tasks), NEW deps \in SUBSET (Tasks \X Tasks), Good(deps, Tasks),
           NEW t \in Tasks
    PROVE  t \notin ComesAfter(deps, t)
<1> SUFFICES ASSUME t \in ComesAfter(deps, t) PROVE FALSE
  OBVIOUS
<1>1. PICK X : X = {y \in ComesAfter(deps, t) : t \in ComesAfter(deps, y)}
  OBVIOUS
<1>2. t \in X /\ X \subseteq Tasks
  BY <1>1, AfterIs
<1>3. PICK x \in X : Successors(deps, x) \cap X = {}
  BY <1>2 DEF Good
<1>4. x \in ComesAfter(deps, t) /\ t \in ComesAfter(deps, x)
  BY <1>1
<1>5. ASSUME NEW w \in Successors(deps, x) PROVE w \in ComesAfter(deps, t)
  <2>1. ASSUME NEW U \in SUBSET Tasks, Holds(deps, t, U) PROVE w \in U
    <3>1. x \in U
      BY <1>4, <2>1, AfterIs
    <3> QED
      BY <1>5, <2>1, <3>1 DEF Holds
  <2>2. w \in Tasks
    BY SuccessorsAreTasks
  <2> QED
    BY <2>1, <2>2, AfterIs
<1>6. PICK V : V = {y \in Tasks : \E w \in Successors(deps, x) : y = w \/ y \in ComesAfter(deps, w)}
  OBVIOUS
<1>7. Holds(deps, x, V)
  <2>1. Successors(deps, x) \subseteq V
    BY <1>6, SuccessorsAreTasks
  <2>2. ASSUME NEW y \in V, NEW z \in Successors(deps, y) PROVE z \in V
    <3>1. PICK w \in Successors(deps, x) : y = w \/ y \in ComesAfter(deps, w)
      BY <1>6
    <3>2. z \in Tasks
      BY <2>2, SuccessorsAreTasks
    <3>3. ASSUME NEW U \in SUBSET Tasks, Holds(deps, w, U) PROVE z \in U
      <4>1. CASE y = w
        BY <2>2, <3>3, <4>1 DEF Holds
      <4>2. CASE y \in ComesAfter(deps, w)
        <5>1. y \in U
          BY <3>3, <4>2, AfterIs
        <5> QED
          BY <2>2, <3>3, <5>1 DEF Holds
      <4> QED
        BY <3>1, <4>1, <4>2
    <3>4. z \in ComesAfter(deps, w)
      BY <3>2, <3>3, AfterIs
    <3> QED
      BY <1>6, <3>2, <3>4
  <2> QED
    BY <2>1, <2>2 DEF Holds
<1>8. t \in V
  <2>1. V \in SUBSET Tasks
    BY <1>6
  <2> QED
    BY <1>4, <1>7, <2>1, AfterIs
<1>9. PICK w \in Successors(deps, x) : t = w \/ t \in ComesAfter(deps, w)
  BY <1>6, <1>8
<1>10. w \in X
  BY <1>1, <1>2, <1>5, <1>9
<1> QED
  BY <1>3, <1>9, <1>10

(* Some Task of a set has none of it before it.                            *)
LEMMA FirstOfSome ==
    ASSUME IsFiniteSet(Tasks), NEW deps \in SUBSET (Tasks \X Tasks), Good(deps, Tasks),
           NEW X \in SUBSET Tasks, X # {}
    PROVE  \E x \in X : \A y \in X : <<y, x>> \notin deps
<1> SUFFICES ASSUME \A x \in X : \E y \in X : <<y, x>> \in deps PROVE FALSE
  OBVIOUS
<1> DEFINE Bad(Y) == Y # {} /\ \A x \in Y : \E y \in Y : <<y, x>> \in deps
           G == {k \in Nat : \A Y \in SUBSET Tasks : Cardinality(Y) <= k => ~Bad(Y)}
<1>1. \A Y \in SUBSET Tasks : IsFiniteSet(Y) /\ Cardinality(Y) \in Nat
  BY FS_Subset, FS_CardinalityType
<1>2. 0 \in G
  <2>1. \A Y \in SUBSET Tasks : Cardinality(Y) <= 0 => Y = {}
    BY <1>1, FS_EmptySet
  <2> QED
    BY <2>1
<1>3. ASSUME NEW k \in Nat, k \in G PROVE k + 1 \in G
  <2>1. ASSUME NEW Y \in SUBSET Tasks, Cardinality(Y) <= k + 1, Bad(Y) PROVE FALSE
    <3>1. PICK z \in Y : Successors(deps, z) \cap Y = {}
      BY <2>1 DEF Good
    <3>2. \A y \in Y : <<z, y>> \notin deps
      BY <3>1, SuccessorsAreTasks
    <3>3. PICK Z : Z = Y \ {z}
      OBVIOUS
    <3>4. Bad(Z)
      <4>1. PICK y \in Y : <<y, z>> \in deps
        BY <2>1
      <4>2. Z # {}
        BY <3>2, <3>3, <4>1
      <4>3. \A x \in Z : \E w \in Z : <<w, x>> \in deps
        BY <2>1, <3>2, <3>3
      <4> QED
        BY <4>2, <4>3
    <3>5. Cardinality(Z) = Cardinality(Y) - 1
      BY <1>1, <3>3, FS_RemoveElement
    <3>6. Z \in SUBSET Tasks /\ Cardinality(Z) <= k
      BY <1>1, <2>1, <3>3, <3>5
    <3> QED
      BY <1>3, <3>4, <3>6
  <2> QED
    BY <2>1
<1>4. \A k \in Nat : k \in G => k + 1 \in G
  BY <1>3
<1>5. Nat \subseteq G
  <2> HIDE DEF G
  <2> QED
    BY <1>2, <1>4, Log!NatSetInduction
<1>6. Cardinality(X) \in G /\ Bad(X) /\ Cardinality(X) \in Nat
  BY <1>1, <1>5
<1> QED
  BY <1>6

-----------------------------------------------------------------------------
(* The invariant.                                                          *)

Values(s) == {s[i] : i \in DOMAIN s}

(* A Revision that is or was current has been activated on the stream.     *)
ActivatedOnStream(r) ==
    \E i \in DOMAIN stream : /\ stream[i].type = "plan.revision_activated"
                             /\ stream[i].revision = r

StreamOK == stream \in Seq(Values(stream))
Present == \A d \in graph.revisions : \A t \in d.tasks : graph.tasks[t] # "ABSENT"
CurrentIsActivated ==
    \A p \in Plans : graph.plans[p].current # NoRevision => ActivatedOnStream(graph.plans[p].current)
RevisionsAreSound ==
    \A d \in graph.revisions : /\ d.dependencies \subseteq d.tasks \X d.tasks
                               /\ ~HasCycle(d.dependencies)
EmptyAtFirst == stream = << >> => composed = EmptyState
StateOK == composed = [seq |-> composed.seq, ended |-> composed.ended, graph |-> graph]
           /\ graph = [plans |-> graph.plans, revisions |-> graph.revisions,
                       tasks |-> graph.tasks, snapshots |-> graph.snapshots]

IInv ==
    /\ StreamOK /\ StateOK /\ TypeOK
    /\ TasksBelongToOneRevision
    /\ Present
    /\ CurrentIsActivated
    /\ ClosedPlansAreSettled
    /\ WorkedRevisionsWereCurrent
    /\ RevisionsAreSound
    /\ EmptyAtFirst

LEMMA Grown ==
    ASSUME stream \in Seq(Values(stream)), NEW e, stream' = Append(stream, e)
    PROVE  /\ stream' \in Seq(Values(stream'))
           /\ Len(stream) \in Nat /\ Len(stream') = Len(stream) + 1
           /\ DOMAIN stream \subseteq DOMAIN stream' /\ \A i \in DOMAIN stream : stream'[i] = stream[i]
           /\ Len(stream') \in DOMAIN stream' /\ stream'[Len(stream')] = e
<1>1. Len(stream) \in Nat /\ DOMAIN stream = 1..Len(stream)
  OBVIOUS
<1>2. stream \in Seq(Values(stream) \cup {e})
  <2>1. \A i \in 1..Len(stream) : stream[i] \in Values(stream) \cup {e}
    OBVIOUS
  <2> QED
    BY <2>1
<1>3. stream' \in Seq(Values(stream) \cup {e}) /\ Len(stream') = Len(stream) + 1
  BY <1>2
<1>4. (\A i \in 1..Len(stream) : stream'[i] = stream[i]) /\ stream'[Len(stream) + 1] = e
  BY <1>2
<1>5. DOMAIN stream' = 1..Len(stream')
  BY <1>3
<1>6. \A i \in 1..Len(stream') : stream'[i] \in Values(stream')
  BY <1>5 DEF Values
<1>7. stream' \in Seq(Values(stream'))
  BY <1>3, <1>5, <1>6
<1> QED
  BY <1>1, <1>3, <1>4, <1>5, <1>7

LEMMA InitIInv == Init => IInv
<1> SUFFICES ASSUME Init PROVE IInv
  OBVIOUS
<1>1. stream = << >> /\ composed = EmptyState
  BY DEF Init
<1>2. Len(stream) = 0 /\ stream \in Seq(Values(stream)) /\ DOMAIN stream = {}
  BY <1>1
<1>3. StateOK /\ StreamOK
  BY <1>1, <1>2 DEF StateOK, StreamOK, graph, EmptyState, EmptyGraph
<1>4. TypeOK
  BY <1>1, <1>2, WorkGraphAssumption DEF TypeOK, graph, EmptyState, EmptyGraph, PlanStates, TaskStates
<1> QED
  BY <1>1, <1>3, <1>4 DEF IInv, TasksBelongToOneRevision, Present, CurrentIsActivated,
     ClosedPlansAreSettled, WorkedRevisionsWereCurrent, RevisionsAreSound, EmptyAtFirst,
     graph, EmptyState, EmptyGraph

-----------------------------------------------------------------------------
(* One event is appended and reduced.                                      *)

Step(ev) == Len(stream) < MaxSeq /\ Append1(ev)

(* What may never change from one state to the next.                       *)
Stands ==
    /\ graph.revisions \subseteq graph'.revisions
    /\ \A t \in Tasks : graph.tasks[t] \in TaskTerminal => graph'.tasks[t] = graph.tasks[t]
    /\ \A p \in Plans : graph.plans[p].state = "ARCHIVED" => graph'.plans[p] = graph.plans[p]

Kept == IInv' /\ Fits(composed, Last(stream')) /\ Stands

LEMMA StreamGrows ==
    ASSUME IInv, NEW ev, Step(ev)
    PROVE  /\ StreamOK' /\ Last(stream') = ev
           /\ Len(stream') <= MaxSeq /\ Len(stream') = Len(stream) + 1
           /\ \A r : ActivatedOnStream(r) => ActivatedOnStream(r)'
           /\ ev.type = "plan.revision_activated" => ActivatedOnStream(ev.revision)'
<1>1. stream' = Append(stream, ev) /\ Len(stream) < MaxSeq /\ stream \in Seq(Values(stream))
  BY DEF Step, Append1, IInv, StreamOK
<1>2. /\ stream' \in Seq(Values(stream'))
      /\ Len(stream) \in Nat /\ Len(stream') = Len(stream) + 1
      /\ DOMAIN stream \subseteq DOMAIN stream' /\ \A i \in DOMAIN stream : stream'[i] = stream[i]
      /\ Len(stream') \in DOMAIN stream' /\ stream'[Len(stream')] = ev
  BY <1>1, Grown
<1>3. Len(stream') <= MaxSeq
  BY <1>1, <1>2, WorkGraphAssumption
<1>4. \A r : ActivatedOnStream(r) => ActivatedOnStream(r)'
  BY <1>2 DEF ActivatedOnStream
<1>5. ev.type = "plan.revision_activated" => ActivatedOnStream(ev.revision)'
  BY <1>2 DEF ActivatedOnStream
<1> QED
  BY <1>2, <1>3, <1>4, <1>5 DEF StreamOK, Last

LEMMA Reduced ==
    ASSUME IInv, NEW ev, Step(ev)
    PROVE  /\ composed' = [seq |-> Len(stream'), ended |-> composed'.ended, graph |-> graph']
           /\ composed'.ended = (composed.ended \/ (ev.type = "core" /\ ev.ends))
           /\ composed'.ended \in BOOLEAN
           /\ graph' = Changed(graph, ev)
<1>1. composed' = Reduce(composed, ev)
  BY DEF Step, Append1
<1>2. Len(stream') = composed.seq + 1
  BY StreamGrows DEF IInv, TypeOK
<1>3. (composed.ended \/ (ev.type = "core" /\ ev.ends)) \in BOOLEAN
  OBVIOUS
<1>4. composed' = [seq |-> composed.seq + 1,
                   ended |-> composed.ended \/ (ev.type = "core" /\ ev.ends),
                   graph |-> Changed(graph, ev)]
  BY <1>1 DEF Reduce, graph
<1>5. /\ composed'.seq = Len(stream')
      /\ composed'.ended = (composed.ended \/ (ev.type = "core" /\ ev.ends))
      /\ graph' = Changed(graph, ev)
  BY <1>2, <1>4 DEF graph
<1>6. composed' = [seq |-> Len(stream'), ended |-> composed'.ended, graph |-> graph']
  BY <1>2, <1>4, <1>5
<1> QED
  BY <1>3, <1>5, <1>6

(* The parts of the graph, with none left out.                             *)
Parts(g) ==
    g = [plans |-> g.plans, revisions |-> g.revisions, tasks |-> g.tasks, snapshots |-> g.snapshots]

(* What is left to show of a step once the parts of the graph are known.   *)
LEMMA Collected ==
    ASSUME IInv, NEW ev, Step(ev), Parts(graph'),
           graph'.plans \in [Plans -> [state : PlanStates, current : Revisions \cup {NoRevision}]],
           graph'.revisions \subseteq Definitions,
           graph'.tasks \in [Tasks -> TaskStates],
           \A s \in graph'.snapshots : s.id \in Snapshots /\ s.scope \in Plans \cup {Mission},
           TasksBelongToOneRevision', Present', CurrentIsActivated', ClosedPlansAreSettled',
           WorkedRevisionsWereCurrent', RevisionsAreSound'
    PROVE  IInv'
<1>1. StreamOK' /\ Len(stream') <= MaxSeq
  BY StreamGrows
<1>2. /\ composed' = [seq |-> Len(stream'), ended |-> composed'.ended, graph |-> graph']
      /\ composed'.ended \in BOOLEAN
  BY Reduced
<1>3. composed'.seq = Len(stream')
  BY <1>2
<1>4. StateOK'
  BY <1>2, <1>3 DEF StateOK, Parts
<1>5. TypeOK'
  BY <1>1, <1>2, <1>3 DEF TypeOK
<1>6. EmptyAtFirst'
  <2>1. Len(stream') = Len(stream) + 1 /\ Len(stream) \in Nat
    BY StreamGrows DEF IInv, StreamOK
  <2>2. stream' # << >>
    BY <2>1
  <2> QED
    BY <2>2 DEF EmptyAtFirst
<1> QED
  BY <1>1, <1>4, <1>5, <1>6 DEF IInv

(* A step that leaves Revisions and Tasks alone.                           *)
LEMMA WorkStands ==
    ASSUME IInv, NEW ev, Step(ev),
           graph'.revisions = graph.revisions, graph'.tasks = graph.tasks
    PROVE  /\ TasksBelongToOneRevision' /\ Present' /\ WorkedRevisionsWereCurrent'
           /\ RevisionsAreSound'
           /\ \A p \in Plans : Settled(graph, p) => Settled(graph, p)'
<1>1. \A r : ActivatedOnStream(r) => ActivatedOnStream(r)'
  BY StreamGrows
<1>2. WorkedRevisionsWereCurrent'
  BY <1>1 DEF IInv, WorkedRevisionsWereCurrent, ActivatedOnStream
<1> QED
  BY <1>2 DEF IInv, TasksBelongToOneRevision, Present, Settled, TasksOf, RevisionsOf,
     RevisionsAreSound

LEMMA CreatePlanStep ==
    ASSUME IInv, NEW p \in Plans, Len(stream) < MaxSeq, CreatePlan(p)
    PROVE  Kept
<1> DEFINE ev == PlanCreated(p)
<1>1. Step(ev) /\ ~composed.ended /\ graph.plans[p].state = "ABSENT"
  BY DEF CreatePlan, Step, Mutable
<1>2. ev.type = "plan.created" /\ ev.scope = p
  BY DEF PlanCreated
<1> HIDE DEF ev
<1>3. Parts(graph) /\ graph.plans \in [Plans -> [state : PlanStates, current : Revisions \cup {NoRevision}]]
      /\ graph.revisions \subseteq Definitions /\ graph.tasks \in [Tasks -> TaskStates]
      /\ \A s \in graph.snapshots : s.id \in Snapshots /\ s.scope \in Plans \cup {Mission}
  BY DEF IInv, StateOK, TypeOK, Parts
<1>4. graph' = [graph EXCEPT !.plans[p].state = "OPEN"]
  BY <1>1, <1>2, Reduced DEF Changed
<1>5. /\ Parts(graph') /\ graph'.plans = [graph.plans EXCEPT ![p].state = "OPEN"]
      /\ graph'.revisions = graph.revisions /\ graph'.tasks = graph.tasks
      /\ graph'.snapshots = graph.snapshots
  BY <1>3, <1>4 DEF Parts
<1>6. /\ graph'.plans \in [Plans -> [state : PlanStates, current : Revisions \cup {NoRevision}]]
      /\ \A q \in Plans : graph'.plans[q].current = graph.plans[q].current
      /\ \A q \in Plans : q # p => graph'.plans[q] = graph.plans[q]
      /\ graph'.plans[p].state = "OPEN"
  BY <1>3, <1>5 DEF PlanStates
<1>7. /\ TasksBelongToOneRevision' /\ Present' /\ WorkedRevisionsWereCurrent'
      /\ RevisionsAreSound'
      /\ \A q \in Plans : Settled(graph, q) => Settled(graph, q)'
  BY <1>1, <1>5, WorkStands
<1>8. CurrentIsActivated'
  BY <1>1, <1>6, StreamGrows DEF IInv, CurrentIsActivated
<1>9. ClosedPlansAreSettled'
  BY <1>6, <1>7 DEF IInv, ClosedPlansAreSettled
<1>10. IInv'
  BY <1>1, <1>3, <1>5, <1>6, <1>7, <1>8, <1>9, Collected
<1>11. Fits(composed, Last(stream'))
  <2>1. Last(stream') = ev
    BY <1>1, StreamGrows
  <2> QED
    BY <1>1, <1>2, <2>1 DEF Fits, FitsGraph, graph
<1>12. Stands
  BY <1>1, <1>5, <1>6 DEF Stands
<1> QED
  BY <1>10, <1>11, <1>12 DEF Kept

(* The graph as it is before a step.                                       *)
PlanTypes == [Plans -> [state : PlanStates, current : Revisions \cup {NoRevision}]]
SnapshotsTyped(g) == \A s \in g.snapshots : s.id \in Snapshots /\ s.scope \in Plans \cup {Mission}

LEMMA GraphTyped ==
    ASSUME IInv
    PROVE  /\ Parts(graph) /\ graph.plans \in PlanTypes
           /\ graph.revisions \subseteq Definitions /\ graph.tasks \in [Tasks -> TaskStates]
           /\ SnapshotsTyped(graph)
           /\ \A d \in Definitions : /\ d.plan \in Plans /\ d.revision \in Revisions
                                     /\ d.tasks \subseteq Tasks
BY WorkGraphAssumption DEF IInv, StateOK, TypeOK, Parts, PlanTypes, SnapshotsTyped, DefinitionType

(* A step that only moves one Plan.                                        *)
LEMMA PlanMoves ==
    ASSUME IInv, NEW ev, Step(ev), NEW p \in Plans,
           Parts(graph'), graph'.plans \in PlanTypes,
           graph'.revisions = graph.revisions, graph'.tasks = graph.tasks,
           graph'.snapshots = graph.snapshots,
           \A q \in Plans \ {p} : graph'.plans[q] = graph.plans[q],
           graph.plans[p].state # "ARCHIVED",
           (graph.plans[p].current # NoRevision => ActivatedOnStream(graph.plans[p].current))',
           graph'.plans[p].state \in {"CLOSED", "ARCHIVED"} => Settled(graph, p)
    PROVE  IInv' /\ Stands
<1>1. /\ Parts(graph) /\ graph.plans \in PlanTypes
      /\ graph.revisions \subseteq Definitions /\ graph.tasks \in [Tasks -> TaskStates]
      /\ SnapshotsTyped(graph)
  BY GraphTyped
<1>2. /\ TasksBelongToOneRevision' /\ Present' /\ WorkedRevisionsWereCurrent'
      /\ RevisionsAreSound'
      /\ \A q \in Plans : Settled(graph, q) => Settled(graph, q)'
  BY WorkStands
<1>3. CurrentIsActivated'
  <2> SUFFICES ASSUME NEW q \in Plans, graph'.plans[q].current # NoRevision
               PROVE  ActivatedOnStream(graph.plans[q].current)'
    BY DEF CurrentIsActivated
  <2>1. \A r : ActivatedOnStream(r) => ActivatedOnStream(r)'
    BY StreamGrows
  <2>2. CASE q = p
    BY <2>2 DEF ActivatedOnStream
  <2>3. CASE q # p
    <3>1. PICK r : r = graph.plans[q].current
      OBVIOUS
    <3>2. graph'.plans[q] = graph.plans[q]
      BY <2>3
    <3>3. ActivatedOnStream(r)
      BY <3>1, <3>2 DEF IInv, CurrentIsActivated
    <3>4. ActivatedOnStream(r)' /\ graph'.plans[q].current = r
      BY <2>1, <3>1, <3>2, <3>3
    <3> QED
      BY <3>4 DEF ActivatedOnStream
  <2> QED
    BY <2>2, <2>3
<1>4. ClosedPlansAreSettled'
  BY <1>2 DEF IInv, ClosedPlansAreSettled
<1>5. IInv'
  BY <1>1, <1>2, <1>3, <1>4, Collected DEF PlanTypes, SnapshotsTyped
<1>6. Stands
  BY DEF Stands
<1> QED
  BY <1>5, <1>6

LEMMA ActivateStep ==
    ASSUME IInv, NEW d \in Definitions, Len(stream) < MaxSeq, ActivatePlanRevision(d)
    PROVE  Kept
<1>0. PICK p, ev : p = d.plan /\ ev = RevisionActivated(p, d.revision, graph.plans[p].current)
  OBVIOUS
<1>1. /\ Step(ev) /\ ~composed.ended /\ graph.plans[p].state = "OPEN" /\ d \in graph.revisions
      /\ graph.plans[p].current # d.revision
  BY <1>0 DEF ActivatePlanRevision, Step, Mutable, IsOpen
<1>2. /\ ev.type = "plan.revision_activated" /\ ev.scope = p /\ ev.revision = d.revision
      /\ ev.previous = graph.plans[p].current
  BY <1>0 DEF RevisionActivated
<1>3. /\ Parts(graph) /\ graph.plans \in PlanTypes
      /\ graph.revisions \subseteq Definitions /\ graph.tasks \in [Tasks -> TaskStates]
      /\ SnapshotsTyped(graph)
      /\ p \in Plans /\ d.revision \in Revisions
  BY <1>0, GraphTyped
<1>4. graph' = [graph EXCEPT !.plans[p].current = d.revision]
  <2>1. graph' = Changed(graph, ev)
    BY <1>1, Reduced
  <2> QED
    BY <1>2, <2>1 DEF Changed
<1>5. /\ Parts(graph') /\ graph'.plans = [graph.plans EXCEPT ![p].current = d.revision]
      /\ graph'.revisions = graph.revisions /\ graph'.tasks = graph.tasks
      /\ graph'.snapshots = graph.snapshots
  BY <1>3, <1>4 DEF Parts
<1>6. /\ graph'.plans \in PlanTypes
      /\ graph'.plans[p].current = d.revision /\ graph'.plans[p].state = "OPEN"
      /\ \A q \in Plans \ {p} : graph'.plans[q] = graph.plans[q]
  BY <1>1, <1>3, <1>5 DEF PlanTypes
<1>7. IInv' /\ Stands
  <2>1. ActivatedOnStream(d.revision)'
    BY <1>1, <1>2, StreamGrows
  <2>2. (graph.plans[p].current # NoRevision => ActivatedOnStream(graph.plans[p].current))'
    BY <1>6, <2>1 DEF ActivatedOnStream
  <2> QED
    BY <1>1, <1>3, <1>5, <1>6, <2>2, PlanMoves
<1>8. Fits(composed, Last(stream'))
  <2>1. Last(stream') = ev
    BY <1>1, StreamGrows
  <2>2. d \in RevisionsOf(graph, p)
    BY <1>0, <1>1 DEF RevisionsOf
  <2> QED
    BY <1>1, <1>2, <2>1, <2>2 DEF Fits, FitsGraph, graph, IsOpen
<1> QED
  BY <1>7, <1>8 DEF Kept

(* ClosePlan and ArchivePlan.                                              *)
LEMMA PlanLifecycleStep ==
    ASSUME IInv, NEW p \in Plans, Len(stream) < MaxSeq, ClosePlan(p) \/ ArchivePlan(p)
    PROVE  Kept
<1>1. PICK from \in PlanStates, to \in PlanStates :
         /\ Append1(PlanMoved(p, from, to)) /\ ~composed.ended
         /\ graph.plans[p].state = from
         /\ \/ from = "OPEN" /\ to = "CLOSED" /\ Settled(graph, p)
            \/ from = "CLOSED" /\ to = "ARCHIVED"
  BY DEF ClosePlan, ArchivePlan, Mutable, IsOpen, PlanStates
<1> DEFINE ev == PlanMoved(p, from, to)
<1>2. Step(ev)
  BY <1>1 DEF Step
<1>3. ev.type = "plan.lifecycle_changed" /\ ev.scope = p /\ ev.from = from /\ ev.to = to
  BY DEF PlanMoved
<1> HIDE DEF ev
<1>4. /\ Parts(graph) /\ graph.plans \in PlanTypes
      /\ graph.revisions \subseteq Definitions /\ graph.tasks \in [Tasks -> TaskStates]
      /\ SnapshotsTyped(graph)
  BY GraphTyped
<1>5. graph' = [graph EXCEPT !.plans[p].state = to]
  BY <1>2, <1>3, Reduced DEF Changed
<1>6. /\ Parts(graph') /\ graph'.plans = [graph.plans EXCEPT ![p].state = to]
      /\ graph'.revisions = graph.revisions /\ graph'.tasks = graph.tasks
      /\ graph'.snapshots = graph.snapshots
  BY <1>4, <1>5 DEF Parts
<1>7. /\ graph'.plans \in PlanTypes
      /\ graph'.plans[p].current = graph.plans[p].current /\ graph'.plans[p].state = to
      /\ \A q \in Plans \ {p} : graph'.plans[q] = graph.plans[q]
  BY <1>1, <1>4, <1>6 DEF PlanTypes
<1>8. Settled(graph, p)
  BY <1>1 DEF IInv, ClosedPlansAreSettled
<1>9. (graph.plans[p].current # NoRevision => ActivatedOnStream(graph.plans[p].current))'
  <2>1. \A r : ActivatedOnStream(r) => ActivatedOnStream(r)'
    BY <1>2, StreamGrows
  <2> QED
    BY <1>7, <2>1 DEF IInv, CurrentIsActivated, ActivatedOnStream
<1>10. IInv' /\ Stands
  BY <1>1, <1>2, <1>4, <1>6, <1>7, <1>8, <1>9, PlanMoves
<1>11. Fits(composed, Last(stream'))
  <2>1. Last(stream') = ev
    BY <1>2, StreamGrows
  <2> QED
    BY <1>1, <1>3, <2>1 DEF Fits, FitsGraph, graph
<1> QED
  BY <1>10, <1>11 DEF Kept

LEMMA RecordPlanRevisionStep ==
    ASSUME IInv, NEW d \in Definitions, Len(stream) < MaxSeq, RecordPlanRevision(d)
    PROVE  Kept
<1>0. PICK ev : ev = RevisionRecorded(d)
  OBVIOUS
<1>1. /\ Step(ev) /\ ~composed.ended /\ graph.plans[d.plan].state = "OPEN"
      /\ \A e \in graph.revisions : e.revision # d.revision
      /\ ParentFits(graph, d) /\ WellFormed(graph, d)
      /\ \A t \in d.tasks : graph.tasks[t] = "ABSENT"
  BY <1>0 DEF RecordPlanRevision, Step, Mutable, IsOpen, Recorded, WellFormed
<1>2. ev.type = "plan.revision_recorded" /\ ev.scope = d.plan /\ ev.definition = d
  BY <1>0 DEF RevisionRecorded
<1>3. /\ Parts(graph) /\ graph.plans \in PlanTypes
      /\ graph.revisions \subseteq Definitions /\ graph.tasks \in [Tasks -> TaskStates]
      /\ SnapshotsTyped(graph)
      /\ \A e \in Definitions : e.tasks \subseteq Tasks
  BY GraphTyped
<1>4. graph' = [graph EXCEPT !.revisions = @ \cup {d},
                             !.tasks = [t \in Tasks |-> IF t \in d.tasks THEN "PENDING" ELSE @[t]]]
  <2>1. graph' = Changed(graph, ev)
    BY <1>1, Reduced
  <2> QED
    BY <1>2, <2>1 DEF Changed
<1>5. /\ Parts(graph') /\ graph'.plans = graph.plans
      /\ graph'.revisions = graph.revisions \cup {d}
      /\ graph'.tasks = [t \in Tasks |-> IF t \in d.tasks THEN "PENDING" ELSE graph.tasks[t]]
      /\ graph'.snapshots = graph.snapshots
  BY <1>3, <1>4 DEF Parts
<1>6. graph'.tasks \in [Tasks -> TaskStates] /\ graph'.revisions \subseteq Definitions
  BY <1>3, <1>5 DEF TaskStates
<1>7. \A e \in graph.revisions : /\ e.tasks \cap d.tasks = {}
                                 /\ \A t \in e.tasks : graph'.tasks[t] = graph.tasks[t]
  BY <1>1, <1>3, <1>5 DEF IInv, Present
<1>8. \A t \in d.tasks : graph'.tasks[t] = "PENDING"
  BY <1>3, <1>5
<1>9. TasksBelongToOneRevision'
  BY <1>1, <1>5, <1>7 DEF IInv, TasksBelongToOneRevision
<1>10. Present'
  BY <1>5, <1>7, <1>8 DEF IInv, Present
<1>11. \A r : ActivatedOnStream(r) => ActivatedOnStream(r)'
  BY <1>1, StreamGrows
<1>12. CurrentIsActivated'
  <2> SUFFICES ASSUME NEW p \in Plans, graph'.plans[p].current # NoRevision
               PROVE  ActivatedOnStream(graph.plans[p].current)'
    BY DEF CurrentIsActivated
  <2>1. PICK r : r = graph.plans[p].current
    OBVIOUS
  <2>2. ActivatedOnStream(r)
    BY <1>5, <2>1 DEF IInv, CurrentIsActivated
  <2>3. ActivatedOnStream(r)' /\ graph'.plans[p].current = r
    BY <1>5, <1>11, <2>1, <2>2
  <2> QED
    BY <2>3 DEF ActivatedOnStream
<1>13. ClosedPlansAreSettled'
  <2> SUFFICES ASSUME NEW p \in Plans, graph'.plans[p].state \in {"CLOSED", "ARCHIVED"}
               PROVE  Settled(graph, p)'
    BY DEF ClosedPlansAreSettled
  <2>1. p # d.plan /\ Settled(graph, p)
    BY <1>1, <1>5 DEF IInv, ClosedPlansAreSettled
  <2>2. RevisionsOf(graph, p)' = RevisionsOf(graph, p)
    BY <1>5, <2>1 DEF RevisionsOf
  <2> QED
    BY <1>7, <2>1, <2>2 DEF Settled, TasksOf, RevisionsOf
<1>14. WorkedRevisionsWereCurrent'
  <2> SUFFICES ASSUME NEW e \in graph'.revisions, NEW t \in e.tasks,
                      graph'.tasks[t] \in {"ACTIVE", "SUCCEEDED", "FAILED"}
               PROVE  ActivatedOnStream(e.revision)'
    BY DEF WorkedRevisionsWereCurrent, ActivatedOnStream
  <2>1. e \in graph.revisions
    BY <1>5, <1>8
  <2>2. graph.tasks[t] \in {"ACTIVE", "SUCCEEDED", "FAILED"}
    BY <1>7, <2>1
  <2>3. ActivatedOnStream(e.revision)
    BY <2>1, <2>2 DEF IInv, WorkedRevisionsWereCurrent, ActivatedOnStream
  <2> QED
    BY <1>11, <2>3
<1>a. RevisionsAreSound'
  BY <1>1, <1>5 DEF IInv, RevisionsAreSound, WellFormed
<1>15. IInv'
  BY <1>1, <1>3, <1>5, <1>6, <1>9, <1>10, <1>12, <1>13, <1>14, <1>a, Collected
     DEF PlanTypes, SnapshotsTyped
<1>16. Fits(composed, Last(stream'))
  <2>1. Last(stream') = ev
    BY <1>1, StreamGrows
  <2> QED
    BY <1>1, <1>2, <2>1 DEF Fits, FitsGraph, graph, IsOpen, Recorded
<1>17. Stands
  BY <1>1, <1>3, <1>5 DEF Stands, TaskTerminal
<1> QED
  BY <1>15, <1>16, <1>17 DEF Kept

LEMMA TransitionTaskStep ==
    ASSUME IInv, NEW d \in Definitions, NEW t \in d.tasks, NEW to \in TaskStates,
           Len(stream) < MaxSeq, TransitionTask(d, t, to)
    PROVE  Kept
<1>0. PICK ev : ev = TaskMoved(d, t, graph.tasks[t], to)
  OBVIOUS
<1>1. Step(ev) /\ ~composed.ended /\ d \in graph.revisions /\ MayMove(d, t, to)
  BY <1>0 DEF TransitionTask, Step, Mutable
<1>2. /\ ev.type = "task.moved" /\ ev.scope = d.plan /\ ev.revision = d.revision
      /\ ev.task = t /\ ev.from = graph.tasks[t] /\ ev.to = to
  BY <1>0 DEF TaskMoved
<1>3. /\ Parts(graph) /\ graph.plans \in PlanTypes
      /\ graph.revisions \subseteq Definitions /\ graph.tasks \in [Tasks -> TaskStates]
      /\ SnapshotsTyped(graph)
      /\ t \in Tasks /\ d.plan \in Plans /\ d.revision \in Revisions
      /\ \A e \in Definitions : e.tasks \subseteq Tasks
  BY GraphTyped
<1>4. graph' = [graph EXCEPT !.tasks[t] = to]
  BY <1>1, <1>2, Reduced DEF Changed
<1>5. /\ Parts(graph') /\ graph'.plans = graph.plans /\ graph'.revisions = graph.revisions
      /\ graph'.tasks = [graph.tasks EXCEPT ![t] = to]
      /\ graph'.snapshots = graph.snapshots
  BY <1>3, <1>4 DEF Parts
<1>6. graph.tasks[t] \in {"PENDING", "ACTIVE"} /\ to \in {"ACTIVE", "SUCCEEDED", "FAILED", "CANCELLED"}
  BY <1>1 DEF MayMove
<1>7. /\ graph'.tasks \in [Tasks -> TaskStates] /\ graph'.tasks[t] = to
      /\ \A s \in Tasks : s # t => graph'.tasks[s] = graph.tasks[s]
  BY <1>3, <1>5
<1>8. TasksBelongToOneRevision'
  BY <1>5 DEF IInv, TasksBelongToOneRevision
<1>9. Present'
  BY <1>3, <1>5, <1>6, <1>7 DEF IInv, Present
<1>10. \A r : ActivatedOnStream(r) => ActivatedOnStream(r)'
  BY <1>1, StreamGrows
<1>11. CurrentIsActivated'
  <2> SUFFICES ASSUME NEW p \in Plans, graph'.plans[p].current # NoRevision
               PROVE  ActivatedOnStream(graph.plans[p].current)'
    BY DEF CurrentIsActivated
  <2>1. PICK r : r = graph.plans[p].current
    OBVIOUS
  <2>2. ActivatedOnStream(r)
    BY <1>5, <2>1 DEF IInv, CurrentIsActivated
  <2>3. ActivatedOnStream(r)' /\ graph'.plans[p].current = r
    BY <1>5, <1>10, <2>1, <2>2
  <2> QED
    BY <2>3 DEF ActivatedOnStream
<1>12. ClosedPlansAreSettled'
  <2> SUFFICES ASSUME NEW p \in Plans, graph'.plans[p].state \in {"CLOSED", "ARCHIVED"},
                      NEW s \in TasksOf(graph', p)
               PROVE  graph'.tasks[s] \in TaskTerminal
    BY DEF ClosedPlansAreSettled, Settled, TasksOf, RevisionsOf
  <2>1. s \in TasksOf(graph, p) /\ s \in Tasks
    BY <1>3, <1>5 DEF TasksOf, RevisionsOf
  <2>2. graph.tasks[s] \in TaskTerminal
    BY <1>5, <2>1 DEF IInv, ClosedPlansAreSettled, Settled
  <2>3. s # t
    BY <1>6, <2>2 DEF TaskTerminal
  <2> QED
    BY <1>7, <2>1, <2>2, <2>3
<1>13. WorkedRevisionsWereCurrent'
  <2> SUFFICES ASSUME NEW e \in graph'.revisions, NEW s \in e.tasks,
                      graph'.tasks[s] \in {"ACTIVE", "SUCCEEDED", "FAILED"}
               PROVE  ActivatedOnStream(e.revision)'
    BY DEF WorkedRevisionsWereCurrent, ActivatedOnStream
  <2>1. e \in graph.revisions /\ s \in Tasks
    BY <1>3, <1>5
  <2>2. CASE graph.tasks[s] \in {"ACTIVE", "SUCCEEDED", "FAILED"}
    <3>1. ActivatedOnStream(e.revision)
      BY <2>1, <2>2 DEF IInv, WorkedRevisionsWereCurrent, ActivatedOnStream
    <3> QED
      BY <1>10, <3>1
  <2>3. CASE s = t /\ graph.tasks[t] = "PENDING"
    <3>1. e = d
      BY <1>1, <2>1, <2>3 DEF IInv, TasksBelongToOneRevision
    <3>2. to = "ACTIVE"
      BY <1>1, <1>7, <2>3 DEF MayMove
    <3>3. graph.plans[d.plan].current = d.revision
      BY <1>1, <3>2 DEF MayMove, IsCurrent
    <3>4. ActivatedOnStream(d.revision)
      BY <1>3, <3>3, WorkGraphAssumption DEF IInv, CurrentIsActivated
    <3> QED
      BY <1>10, <3>1, <3>4
  <2> QED
    BY <1>6, <1>7, <2>1, <2>2, <2>3
<1>a. RevisionsAreSound'
  BY <1>5 DEF IInv, RevisionsAreSound
<1>14. IInv'
  BY <1>1, <1>3, <1>5, <1>7, <1>8, <1>9, <1>11, <1>12, <1>13, <1>a, Collected
     DEF PlanTypes, SnapshotsTyped
<1>15. Fits(composed, Last(stream'))
  <2>1. Last(stream') = ev
    BY <1>1, StreamGrows
  <2>2. RevisionOf(graph, d.revision) = d
    BY <1>1 DEF RevisionOf, IInv, TasksBelongToOneRevision
  <2>3. TaskMoveFits(graph, ev)
    BY <1>1, <1>2, <2>2 DEF TaskMoveFits, Recorded, MayMove
  <2> QED
    BY <1>1, <1>2, <2>1, <2>3 DEF Fits, FitsGraph, graph
<1>16. Stands
  BY <1>3, <1>5, <1>6, <1>7 DEF Stands, TaskTerminal
<1> QED
  BY <1>14, <1>15, <1>16 DEF Kept

(* A step that leaves Plans, Revisions and Tasks alone.                    *)
LEMMA GraphStands ==
    ASSUME IInv, NEW ev, Step(ev), Parts(graph'), SnapshotsTyped(graph'),
           graph'.plans = graph.plans, graph'.revisions = graph.revisions,
           graph'.tasks = graph.tasks
    PROVE  IInv' /\ Stands
<1>1. /\ Parts(graph) /\ graph.plans \in PlanTypes
      /\ graph.revisions \subseteq Definitions /\ graph.tasks \in [Tasks -> TaskStates]
      /\ SnapshotsTyped(graph)
  BY GraphTyped
<1>2. /\ TasksBelongToOneRevision' /\ Present' /\ WorkedRevisionsWereCurrent'
      /\ RevisionsAreSound'
      /\ \A q \in Plans : Settled(graph, q) => Settled(graph, q)'
  BY WorkStands
<1>3. CurrentIsActivated'
  <2> SUFFICES ASSUME NEW p \in Plans, graph'.plans[p].current # NoRevision
               PROVE  ActivatedOnStream(graph.plans[p].current)'
    BY DEF CurrentIsActivated
  <2>1. PICK r : r = graph.plans[p].current
    OBVIOUS
  <2>2. ActivatedOnStream(r)
    BY <2>1 DEF IInv, CurrentIsActivated
  <2>3. ActivatedOnStream(r)' /\ graph'.plans[p].current = r
    BY <2>1, <2>2, StreamGrows
  <2> QED
    BY <2>3 DEF ActivatedOnStream
<1>4. ClosedPlansAreSettled'
  BY <1>2 DEF IInv, ClosedPlansAreSettled
<1>5. IInv'
  BY <1>1, <1>2, <1>3, <1>4, Collected DEF PlanTypes, SnapshotsTyped
<1>6. Stands
  BY DEF Stands
<1> QED
  BY <1>5, <1>6

LEMMA RecordWorkSnapshotStep ==
    ASSUME IInv, NEW id \in Snapshots, NEW scope \in Plans \cup {Mission}, Len(stream) < MaxSeq,
           RecordWorkSnapshot(id, scope)
    PROVE  Kept
<1>0. PICK s : s = [id |-> id, scope |-> scope, as_of |-> composed.seq,
                    payload |-> [ended |-> composed.ended, graph |-> Scoped(graph, scope)]]
  OBVIOUS
<1>a. PICK ev : ev = SnapshotRecorded(s)
  OBVIOUS
<1>1. /\ Step(ev) /\ ~composed.ended
      /\ \A o \in graph.snapshots : o.id # id
      /\ scope # Mission => graph.plans[scope].state # "ABSENT"
  BY <1>0, <1>a DEF RecordWorkSnapshot, Step, Mutable
<1>2. /\ ev.type = "snapshot.recorded" /\ ev.scope = scope /\ ev.snapshot = s
  BY <1>0, <1>a DEF SnapshotRecorded
<1>3. /\ Parts(graph) /\ graph.plans \in PlanTypes
      /\ graph.revisions \subseteq Definitions /\ graph.tasks \in [Tasks -> TaskStates]
      /\ SnapshotsTyped(graph)
  BY GraphTyped
<1>4. graph' = [graph EXCEPT !.snapshots = @ \cup {s}]
  <2>1. graph' = Changed(graph, ev)
    BY <1>1, Reduced
  <2> QED
    BY <1>2, <2>1 DEF Changed
<1>5. /\ Parts(graph') /\ graph'.plans = graph.plans /\ graph'.revisions = graph.revisions
      /\ graph'.tasks = graph.tasks /\ graph'.snapshots = graph.snapshots \cup {s}
  BY <1>3, <1>4 DEF Parts
<1>6. s.id = id /\ s.scope = scope /\ s.as_of = composed.seq
      /\ s.payload = [ended |-> composed.ended, graph |-> Scoped(graph, scope)]
  BY <1>0
<1>7. SnapshotsTyped(graph')
  BY <1>3, <1>5, <1>6 DEF SnapshotsTyped
<1>8. IInv' /\ Stands
  BY <1>1, <1>5, <1>7, GraphStands
<1>9. Fits(composed, Last(stream'))
  <2>1. Last(stream') = ev
    BY <1>1, StreamGrows
  <2> QED
    BY <1>1, <1>2, <1>6, <2>1 DEF Fits, FitsGraph, graph
<1> QED
  BY <1>8, <1>9 DEF Kept

LEMMA CoreWritesStep ==
    ASSUME IInv, Len(stream) < MaxSeq, CoreWrites
    PROVE  Kept
<1>1. PICK ends \in BOOLEAN : Append1(CoreEvent(ends))
  BY DEF CoreWrites
<1>2. PICK ev : ev = CoreEvent(ends)
  OBVIOUS
<1>3. Step(ev) /\ ev.type = "core"
  BY <1>1, <1>2 DEF Step, CoreEvent
<1>4. graph' = graph
  <2>1. graph' = Changed(graph, ev)
    BY <1>3, Reduced
  <2> QED
    BY <1>3, <2>1 DEF Changed
<1>5. IInv' /\ Stands
  <2>1. Parts(graph) /\ SnapshotsTyped(graph)
    BY GraphTyped
  <2>2. Parts(graph') /\ SnapshotsTyped(graph')
    BY <1>4, <2>1 DEF Parts, SnapshotsTyped
  <2> QED
    BY <1>3, <1>4, <2>2, GraphStands
<1>6. Last(stream') = ev
  BY <1>3, StreamGrows
<1> QED
  BY <1>3, <1>5, <1>6 DEF Kept, Fits

LEMMA NextKept == IInv /\ Next => Kept
<1> SUFFICES ASSUME IInv, Next PROVE Kept
  OBVIOUS
<1>1. Len(stream) < MaxSeq
  BY DEF Next
<1>2. ASSUME NEW p \in Plans, CreatePlan(p) PROVE Kept
  BY <1>1, <1>2, CreatePlanStep
<1>3. ASSUME NEW p \in Plans, ClosePlan(p) \/ ArchivePlan(p) PROVE Kept
  BY <1>1, <1>3, PlanLifecycleStep
<1>4. ASSUME NEW d \in Definitions, RecordPlanRevision(d) PROVE Kept
  BY <1>1, <1>4, RecordPlanRevisionStep
<1>5. ASSUME NEW d \in Definitions, ActivatePlanRevision(d) PROVE Kept
  BY <1>1, <1>5, ActivateStep
<1>6. ASSUME NEW d \in Definitions, NEW t \in d.tasks, NEW to \in TaskStates, TransitionTask(d, t, to)
      PROVE  Kept
  BY <1>1, <1>6, TransitionTaskStep
<1>7. ASSUME NEW id \in Snapshots, NEW scope \in Plans \cup {Mission}, RecordWorkSnapshot(id, scope)
      PROVE  Kept
  BY <1>1, <1>7, RecordWorkSnapshotStep
<1>8. CASE CoreWrites
  BY <1>1, <1>8, CoreWritesStep
<1> QED
  BY <1>2, <1>3, <1>4, <1>5, <1>6, <1>7, <1>8 DEF Next

LEMMA Stuttered == IInv /\ UNCHANGED vars => IInv'
BY DEF vars, IInv, StreamOK, StateOK, TypeOK, TasksBelongToOneRevision, Present, CurrentIsActivated,
   ActivatedOnStream, ClosedPlansAreSettled, WorkedRevisionsWereCurrent, RevisionsAreSound, EmptyAtFirst,
   Settled, TasksOf, RevisionsOf, Values, graph

-----------------------------------------------------------------------------
(* What the search for cycles is for.                                      *)

(* What _has_cycle lets pass is in order.                                  *)
LEMMA LetPass ==
    ASSUME NEW deps \in SUBSET (Tasks \X Tasks)
    PROVE  /\ ~HasCycle(deps) => Good(deps, Tasks)
           /\ HasCycle(deps) => \E t \in Tasks : t \in ComesAfter(deps, t)
<1>1. IsFiniteSet(Tasks)
  BY WorkGraphAssumption
<1> QED
  BY <1>1, AfterFollows, SearchIsRight

LEMMA FirstPendingIsReady == IInv => NoDependencyDeadlock
<1> SUFFICES ASSUME IInv, NEW d \in graph.revisions, IsCurrent(graph, d),
                    \E t \in d.tasks : graph.tasks[t] = "PENDING",
                    \A t \in d.tasks : graph.tasks[t] \notin {"ACTIVE", "FAILED", "CANCELLED"}
             PROVE  \E t \in d.tasks : Ready(graph, t)
  BY DEF NoDependencyDeadlock
<1>1. d.tasks \subseteq Tasks /\ graph.tasks \in [Tasks -> TaskStates]
  BY GraphTyped
<1>2. \A t \in d.tasks : graph.tasks[t] \in {"PENDING", "SUCCEEDED"}
  BY <1>1 DEF IInv, Present, TaskStates, TaskTerminal
<1>3. PICK deps : deps = d.dependencies
  OBVIOUS
<1>4. deps \subseteq d.tasks \X d.tasks /\ ~HasCycle(deps)
  BY <1>3 DEF IInv, RevisionsAreSound
<1>5. deps \in SUBSET (Tasks \X Tasks)
  BY <1>1, <1>4
<1>6. Good(deps, Tasks)
  BY <1>4, <1>5, LetPass
<1>7. PICK X : X = {t \in d.tasks : graph.tasks[t] = "PENDING"}
  OBVIOUS
<1>8. X \in SUBSET Tasks /\ X # {}
  BY <1>1, <1>7
<1>9. PICK x \in X : \A y \in X : <<y, x>> \notin deps
  BY <1>5, <1>6, <1>8, FirstOfSome, WorkGraphAssumption
<1>10. ASSUME NEW edge \in deps, edge[2] = x PROVE graph.tasks[edge[1]] = "SUCCEEDED"
  <2>1. edge = <<edge[1], x>> /\ edge[1] \in d.tasks
    BY <1>4, <1>10
  <2>2. edge[1] \notin X
    BY <1>9, <1>10, <2>1
  <2> QED
    BY <1>2, <1>7, <2>1, <2>2
<1> QED
  BY <1>3, <1>7, <1>10 DEF Ready

LEMMA FoundIsCircle == IInv => FindsCycles
<1> SUFFICES ASSUME IInv, stream = << >>, NEW deps \in SUBSET (Tasks \X Tasks)
             PROVE  WellFormed(graph, [tasks |-> Tasks, dependencies |-> deps])
                    <=> \A t \in Tasks : t \notin ComesAfter(deps, t)
  BY DEF FindsCycles
<1>1. \A t \in Tasks : graph.tasks[t] = "ABSENT"
  BY DEF IInv, EmptyAtFirst, EmptyState, EmptyGraph, graph
<1>2. WellFormed(graph, [tasks |-> Tasks, dependencies |-> deps])
      <=> (\A edge \in deps : edge[1] # edge[2]) /\ ~HasCycle(deps)
  BY <1>1 DEF WellFormed
<1>3. ASSUME \A t \in Tasks : t \notin ComesAfter(deps, t)
      PROVE  (\A edge \in deps : edge[1] # edge[2]) /\ ~HasCycle(deps)
  <2>1. ~HasCycle(deps)
    BY <1>3, LetPass
  <2>2. ASSUME NEW edge \in deps, edge[1] = edge[2] PROVE FALSE
    <3>1. edge = <<edge[1], edge[1]>> /\ edge[1] \in Tasks
      BY <2>2
    <3>2. <<edge[1], edge[1]>> \in AfterPairs(deps)
      BY <3>1, AfterFollows, WorkGraphAssumption DEF Follows
    <3>3. Circle(AfterPairs(deps))
      BY <3>1, <3>2 DEF Circle
    <3> QED
      BY <1>3, <3>3, AfterFollows, WorkGraphAssumption
  <2> QED
    BY <2>1, <2>2
<1>4. ASSUME ~HasCycle(deps)
      PROVE  \A t \in Tasks : t \notin ComesAfter(deps, t)
  BY <1>4, LetPass, GoodHasNoCircle, WorkGraphAssumption
<1> QED
  BY <1>2, <1>3, <1>4

-----------------------------------------------------------------------------
(* One Plan's part of the graph.                                           *)

(* A state that a replay passes through.                                   *)
Sound(st) ==
    LET g == st.graph
    IN  /\ st = [seq |-> st.seq, ended |-> st.ended, graph |-> g] /\ Parts(g)
        /\ st.seq \in Nat /\ st.ended \in BOOLEAN
        /\ g.plans \in PlanTypes /\ g.revisions \subseteq Definitions
        /\ g.tasks \in [Tasks -> TaskStates]
        /\ \A d, e \in g.revisions : /\ d.revision = e.revision => d = e
                                     /\ d.tasks \cap e.tasks # {} => d = e
        /\ \A d \in g.revisions : \A t \in d.tasks : g.tasks[t] # "ABSENT"

EventTypes ==
    {"core", "plan.created", "plan.revision_recorded", "plan.revision_activated",
     "plan.lifecycle_changed", "task.moved", "snapshot.recorded"}

(* An event as the handlers make them.                                     *)
Event(ev) ==
    /\ ev.type \in EventTypes /\ ev.scope \in Plans \cup {Mission}
    /\ ev.type \notin {"core", "snapshot.recorded"} => ev.scope \in Plans
    /\ ev.type = "plan.revision_recorded" =>
          ev.definition \in Definitions /\ ev.definition.plan = ev.scope
    /\ ev.type = "snapshot.recorded" => ev.snapshot.scope = ev.scope

Viewed(st, scope) ==
    [seq |-> st.seq, ended |-> st.ended, graph |-> Scoped(st.graph, scope)]

LEMMA ScopedIs ==
    ASSUME NEW g, NEW p \in Plans
    PROVE  /\ Parts(Scoped(g, p))
           /\ Scoped(g, p).plans = [q \in Plans |-> IF q = p THEN g.plans[q] ELSE EmptyGraph.plans[q]]
           /\ Scoped(g, p).revisions = RevisionsOf(g, p)
           /\ Scoped(g, p).tasks = [t \in Tasks |-> IF t \in TasksOf(g, p) THEN g.tasks[t] ELSE "ABSENT"]
           /\ Scoped(g, p).snapshots = {s \in g.snapshots : s.scope = p}
<1>1. Scoped(g, p) =
        [plans |-> [q \in Plans |-> IF q = p THEN g.plans[q] ELSE EmptyGraph.plans[q]],
         revisions |-> RevisionsOf(g, p),
         tasks |-> [t \in Tasks |-> IF t \in TasksOf(g, p) THEN g.tasks[t] ELSE "ABSENT"],
         snapshots |-> {s \in g.snapshots : s.scope = p}]
  BY WorkGraphAssumption DEF Scoped
<1> QED
  BY <1>1 DEF Parts

LEMMA SameParts ==
    ASSUME NEW g, NEW h, Parts(g), Parts(h), g.plans = h.plans, g.revisions = h.revisions,
           g.tasks = h.tasks, g.snapshots = h.snapshots
    PROVE  g = h
BY DEF Parts

(* What an event makes of the parts of a graph.                            *)
Becomes(g, ev, c) ==
    /\ Parts(c)
    /\ c.plans = CASE ev.type = "plan.created" -> [g.plans EXCEPT ![ev.scope].state = "OPEN"]
                   [] ev.type = "plan.revision_activated" ->
                         [g.plans EXCEPT ![ev.scope].current = ev.revision]
                   [] ev.type = "plan.lifecycle_changed" -> [g.plans EXCEPT ![ev.scope].state = ev.to]
                   [] OTHER -> g.plans
    /\ c.revisions = IF ev.type = "plan.revision_recorded" THEN g.revisions \cup {ev.definition}
                     ELSE g.revisions
    /\ c.tasks = CASE ev.type = "plan.revision_recorded" ->
                         [t \in Tasks |-> IF t \in ev.definition.tasks THEN "PENDING" ELSE g.tasks[t]]
                   [] ev.type = "task.moved" -> [g.tasks EXCEPT ![ev.task] = ev.to]
                   [] OTHER -> g.tasks
    /\ c.snapshots = IF ev.type = "snapshot.recorded" THEN g.snapshots \cup {ev.snapshot}
                     ELSE g.snapshots

LEMMA ChangedIs ==
    ASSUME NEW g, Parts(g), NEW ev, Event(ev)
    PROVE  Becomes(g, ev, Changed(g, ev))
<1>1. g = [plans |-> g.plans, revisions |-> g.revisions, tasks |-> g.tasks, snapshots |-> g.snapshots]
  BY DEF Parts
<1>2. CASE ev.type = "core"
  BY <1>2, <1>1 DEF Changed, Becomes, Parts
<1>3. CASE ev.type = "plan.created"
  BY <1>3, <1>1 DEF Changed, Becomes, Parts
<1>4. CASE ev.type = "plan.revision_recorded"
  BY <1>4, <1>1 DEF Changed, Becomes, Parts
<1>5. CASE ev.type = "plan.revision_activated"
  BY <1>5, <1>1 DEF Changed, Becomes, Parts
<1>6. CASE ev.type = "plan.lifecycle_changed"
  BY <1>6, <1>1 DEF Changed, Becomes, Parts
<1>7. CASE ev.type = "task.moved"
  BY <1>7, <1>1 DEF Changed, Becomes, Parts
<1>8. CASE ev.type = "snapshot.recorded"
  BY <1>8, <1>1 DEF Changed, Becomes, Parts
<1> QED
  BY <1>2, <1>3, <1>4, <1>5, <1>6, <1>7, <1>8 DEF Event, EventTypes

(* A Task that an event moves is of one Revision of the event's Plan.      *)
LEMMA MovedIsOf ==
    ASSUME NEW st, Sound(st), NEW ev, Event(ev), Fits(st, ev), ev.type = "task.moved"
    PROVE  /\ ev.task \in Tasks /\ ev.task \in TasksOf(st.graph, ev.scope)
           /\ \A p \in Plans : ev.task \in TasksOf(st.graph, p) => p = ev.scope
<1>1. PICK g : g = st.graph
  OBVIOUS
<1>2. TaskMoveFits(g, ev)
  BY <1>1 DEF Fits, FitsGraph
<1>3. PICK d : d = RevisionOf(g, ev.revision)
  OBVIOUS
<1>4. d \in g.revisions /\ d.plan = ev.scope /\ ev.task \in d.tasks
  BY <1>2, <1>3 DEF TaskMoveFits, Recorded, RevisionOf
<1>5. d.tasks \subseteq Tasks
  BY <1>1, <1>4, WorkGraphAssumption DEF Sound, DefinitionType
<1>6. ev.task \in TasksOf(g, ev.scope)
  BY <1>4 DEF TasksOf, RevisionsOf
<1>7. ASSUME NEW p \in Plans, ev.task \in TasksOf(g, p) PROVE p = ev.scope
  <2>1. PICK e \in g.revisions : e.plan = p /\ ev.task \in e.tasks
    BY <1>7 DEF TasksOf, RevisionsOf
  <2>2. e = d
    BY <1>1, <1>4, <2>1 DEF Sound
  <2> QED
    BY <1>4, <2>1, <2>2
<1> QED
  BY <1>1, <1>4, <1>5, <1>6, <1>7

(* An event of another Plan, or a Snapshot of the Mission, leaves a Plan's *)
(* part of the graph as it is.                                             *)
LEMMA ScopedStands ==
    ASSUME NEW st, Sound(st), NEW ev, Event(ev), Fits(st, ev), NEW p \in Plans,
           ev.type = "core" \/ ev.scope # p
    PROVE  Scoped(Changed(st.graph, ev), p) = Scoped(st.graph, p)
<1>1. PICK g, c : g = st.graph /\ c = Changed(g, ev)
  OBVIOUS
<1>2. Parts(g) /\ g.plans \in PlanTypes /\ g.tasks \in [Tasks -> TaskStates]
  BY <1>1 DEF Sound
<1>a. Becomes(g, ev, c)
  BY <1>1, <1>2, ChangedIs
<1>3. c.plans[p] = g.plans[p]
  <2>1. ev.scope \in Plans \/ ev.type \in {"core", "snapshot.recorded"}
    BY DEF Event
  <2> QED
    BY <1>2, <1>a, <2>1 DEF Becomes, PlanTypes
<1>4. RevisionsOf(c, p) = RevisionsOf(g, p)
  <2>1. ev.type = "plan.revision_recorded" => ev.definition.plan # p
    BY DEF Event
  <2>2. c.revisions = IF ev.type = "plan.revision_recorded" THEN g.revisions \cup {ev.definition}
                      ELSE g.revisions
    BY <1>a DEF Becomes
  <2> QED
    BY <2>1, <2>2 DEF RevisionsOf
<1>5. TasksOf(c, p) = TasksOf(g, p)
  BY <1>4 DEF TasksOf
<1>6. \A t \in TasksOf(g, p) : c.tasks[t] = g.tasks[t]
  <2> SUFFICES ASSUME NEW t \in TasksOf(g, p) PROVE c.tasks[t] = g.tasks[t]
    OBVIOUS
  <2>1. PICK d \in g.revisions : d.plan = p /\ t \in d.tasks
    BY DEF TasksOf, RevisionsOf
  <2>2. t \in Tasks /\ g.tasks[t] # "ABSENT"
    BY <1>1, <2>1, WorkGraphAssumption DEF Sound, DefinitionType
  <2>3. CASE ev.type = "plan.revision_recorded"
    <3>1. t \notin ev.definition.tasks
      BY <1>1, <2>2, <2>3 DEF Fits, FitsGraph, WellFormed
    <3>2. c.tasks = [x \in Tasks |-> IF x \in ev.definition.tasks THEN "PENDING" ELSE g.tasks[x]]
      BY <1>a, <2>3 DEF Becomes
    <3> QED
      BY <2>2, <3>1, <3>2
  <2>4. CASE ev.type = "task.moved"
    <3>1. ev.task # t
      BY <1>1, <2>4, MovedIsOf
    <3>2. c.tasks = [g.tasks EXCEPT ![ev.task] = ev.to]
      BY <1>a, <2>4 DEF Becomes
    <3> QED
      BY <1>2, <2>2, <3>1, <3>2
  <2>5. CASE ev.type \notin {"plan.revision_recorded", "task.moved"}
    BY <1>a, <2>5 DEF Becomes
  <2> QED
    BY <2>3, <2>4, <2>5
<1>7. {s \in c.snapshots : s.scope = p} = {s \in g.snapshots : s.scope = p}
  <2>1. ev.type = "snapshot.recorded" => ev.snapshot.scope # p
    BY DEF Event
  <2>2. c.snapshots = IF ev.type = "snapshot.recorded" THEN g.snapshots \cup {ev.snapshot}
                      ELSE g.snapshots
    BY <1>a DEF Becomes
  <2> QED
    BY <2>1, <2>2
<1>8. PICK v, w : v = Scoped(g, p) /\ w = Scoped(c, p)
  OBVIOUS
<1>9. /\ Parts(v) /\ Parts(w)
      /\ v.plans = [q \in Plans |-> IF q = p THEN g.plans[q] ELSE EmptyGraph.plans[q]]
      /\ w.plans = [q \in Plans |-> IF q = p THEN c.plans[q] ELSE EmptyGraph.plans[q]]
      /\ v.revisions = RevisionsOf(g, p) /\ w.revisions = RevisionsOf(c, p)
      /\ v.tasks = [t \in Tasks |-> IF t \in TasksOf(g, p) THEN g.tasks[t] ELSE "ABSENT"]
      /\ w.tasks = [t \in Tasks |-> IF t \in TasksOf(c, p) THEN c.tasks[t] ELSE "ABSENT"]
      /\ v.snapshots = {s \in g.snapshots : s.scope = p}
      /\ w.snapshots = {s \in c.snapshots : s.scope = p}
  BY <1>8, ScopedIs
<1>10. v.plans = w.plans
  BY <1>3, <1>9
<1>11. v.tasks = w.tasks
  BY <1>5, <1>6, <1>9
<1>12. v.revisions = w.revisions /\ v.snapshots = w.snapshots
  BY <1>4, <1>7, <1>9
<1>13. v = w
  BY <1>9, <1>10, <1>11, <1>12, SameParts
<1> QED
  BY <1>1, <1>8, <1>13

(* What a Plan's part of the graph says of the Plan is what the graph says.*)
Part(g, p, v) ==
    /\ Parts(v)
    /\ v.plans = [q \in Plans |-> IF q = p THEN g.plans[q] ELSE EmptyGraph.plans[q]]
    /\ v.revisions = RevisionsOf(g, p)
    /\ v.tasks = [t \in Tasks |-> IF t \in TasksOf(g, p) THEN g.tasks[t] ELSE "ABSENT"]
    /\ v.snapshots = {s \in g.snapshots : s.scope = p}

LEMMA ScopedIsPart ==
    ASSUME NEW g, NEW p \in Plans
    PROVE  Part(g, p, Scoped(g, p))
BY ScopedIs DEF Part

LEMMA PartSays ==
    ASSUME NEW st, Sound(st), NEW g, g = st.graph, NEW p \in Plans, NEW v, Part(g, p, v)
    PROVE  /\ v.plans[p] = g.plans[p] /\ v.plans \in PlanTypes
           /\ v.revisions \subseteq g.revisions /\ \A d \in v.revisions : d.plan = p
           /\ RevisionsOf(v, p) = RevisionsOf(g, p) /\ TasksOf(v, p) = TasksOf(g, p)
           /\ TasksOf(g, p) \subseteq Tasks
           /\ \A t \in TasksOf(g, p) : v.tasks[t] = g.tasks[t]
           /\ \A t \in Tasks : v.tasks[t] \in {g.tasks[t], "ABSENT"}
           /\ v.tasks \in [Tasks -> TaskStates] /\ v.snapshots \subseteq g.snapshots
           /\ Scoped(v, p) = v
<1>1. v.plans[p] = g.plans[p] /\ v.plans \in PlanTypes
  BY DEF Part, Sound, PlanTypes, EmptyGraph, PlanStates
<1>2. v.revisions \subseteq g.revisions /\ \A d \in v.revisions : d.plan = p
  BY DEF Part, RevisionsOf
<1>3. RevisionsOf(v, p) = RevisionsOf(g, p)
  BY DEF Part, RevisionsOf
<1>4. TasksOf(v, p) = TasksOf(g, p)
  BY <1>3 DEF TasksOf
<1>5. TasksOf(g, p) \subseteq Tasks
  <2>1. \A d \in g.revisions : d.tasks \subseteq Tasks
    BY WorkGraphAssumption DEF Sound, DefinitionType
  <2> QED
    BY <2>1 DEF TasksOf, RevisionsOf
<1>6. /\ \A t \in TasksOf(g, p) : v.tasks[t] = g.tasks[t]
      /\ \A t \in Tasks : v.tasks[t] \in {g.tasks[t], "ABSENT"}
  BY <1>5 DEF Part
<1>7. v.tasks \in [Tasks -> TaskStates] /\ v.snapshots \subseteq g.snapshots
  BY DEF Part, Sound, TaskStates
<1>8. Scoped(v, p) = v
  <2>1. PICK w : w = Scoped(v, p)
    OBVIOUS
  <2>2. Part(v, p, w)
    BY <2>1, ScopedIsPart
  <2>3. w.plans = v.plans
    BY <2>2 DEF Part
  <2>4. w.revisions = v.revisions
    BY <1>3, <2>2 DEF Part
  <2>5. w.tasks = v.tasks
    BY <1>4, <2>2 DEF Part
  <2>6. w.snapshots = v.snapshots
    BY <2>2 DEF Part
  <2> QED
    BY <2>1, <2>2, <2>3, <2>4, <2>5, <2>6, SameParts DEF Part
<1> QED
  BY <1>1, <1>2, <1>3, <1>4, <1>5, <1>6, <1>7, <1>8

(* An event of the Plan, or of the core, fits its part of the graph.       *)
LEMMA ScopedFits ==
    ASSUME NEW st, Sound(st), NEW ev, Event(ev), Fits(st, ev), NEW p \in Plans,
           ev.type = "core" \/ ev.scope = p
    PROVE  Fits(Viewed(st, p), ev)
<1>1. PICK g, v : g = st.graph /\ v = Scoped(g, p)
  OBVIOUS
<1>2. Part(g, p, v)
  BY <1>1, ScopedIsPart
<1>3. /\ v.plans[p] = g.plans[p] /\ v.plans \in PlanTypes
      /\ v.revisions \subseteq g.revisions /\ \A d \in v.revisions : d.plan = p
      /\ RevisionsOf(v, p) = RevisionsOf(g, p) /\ TasksOf(v, p) = TasksOf(g, p)
      /\ TasksOf(g, p) \subseteq Tasks
      /\ \A t \in TasksOf(g, p) : v.tasks[t] = g.tasks[t]
      /\ \A t \in Tasks : v.tasks[t] \in {g.tasks[t], "ABSENT"}
      /\ v.tasks \in [Tasks -> TaskStates] /\ v.snapshots \subseteq g.snapshots
      /\ Scoped(v, p) = v
  BY <1>1, <1>2, PartSays
<1>4. PICK u : u = Viewed(st, p)
  OBVIOUS
<1>5. u.seq = st.seq /\ u.ended = st.ended /\ u.graph = v
  BY <1>1, <1>4 DEF Viewed
<1> SUFFICES ASSUME ev.type # "core" PROVE FitsGraph(u, ev)
  BY <1>4, <1>5 DEF Fits
<1>6. ev.scope = p /\ FitsGraph(st, ev)
  BY DEF Fits
<1>7. IsOpen(v, p) = IsOpen(g, p)
  BY <1>3 DEF IsOpen
<1>8. CASE ev.type = "plan.created"
  BY <1>1, <1>3, <1>5, <1>6, <1>8 DEF FitsGraph
<1>9. CASE ev.type = "plan.revision_recorded"
  <2>1. ev.definition.plan = p /\ ev.definition.tasks \subseteq Tasks
    BY <1>6, <1>9, WorkGraphAssumption DEF Event, DefinitionType
  <2>2. /\ IsOpen(g, p) /\ ~Recorded(g, ev.definition.revision)
        /\ ParentFits(g, ev.definition) /\ WellFormed(g, ev.definition)
    BY <1>1, <1>6, <1>9 DEF FitsGraph
  <2>3. ~Recorded(v, ev.definition.revision)
    BY <1>3, <2>2 DEF Recorded
  <2>4. ParentFits(v, ev.definition)
    BY <1>2, <2>1, <2>2 DEF ParentFits, Part, RevisionsOf
  <2>5. WellFormed(v, ev.definition)
    BY <1>3, <2>1, <2>2 DEF WellFormed
  <2> QED
    BY <1>5, <1>6, <1>7, <1>9, <2>2, <2>3, <2>4, <2>5 DEF FitsGraph
<1>10. CASE ev.type = "plan.revision_activated"
  BY <1>1, <1>3, <1>5, <1>6, <1>7, <1>10 DEF FitsGraph
<1>11. CASE ev.type = "plan.lifecycle_changed"
  <2>1. Settled(v, p) = Settled(g, p)
    BY <1>3 DEF Settled
  <2> QED
    BY <1>1, <1>3, <1>5, <1>6, <1>11, <2>1 DEF FitsGraph
<1>12. CASE ev.type = "task.moved"
  <2>1. TaskMoveFits(g, ev)
    BY <1>1, <1>6, <1>12 DEF FitsGraph
  <2>2. PICK d : d = RevisionOf(g, ev.revision)
    OBVIOUS
  <2>3. d \in g.revisions /\ d.revision = ev.revision /\ d.plan = p /\ ev.task \in d.tasks
    BY <1>6, <2>1, <2>2 DEF TaskMoveFits, Recorded, RevisionOf
  <2>4. d \in v.revisions
    BY <1>2, <2>3 DEF Part, RevisionsOf
  <2>5. \A e \in v.revisions : e.revision = ev.revision => e = d
    BY <1>1, <1>3, <2>3 DEF Sound
  <2>6. RevisionOf(v, ev.revision) = d /\ Recorded(v, ev.revision)
    BY <2>3, <2>4, <2>5 DEF RevisionOf, Recorded
  <2>7. v.tasks[ev.task] = g.tasks[ev.task]
    BY <1>3, <2>3 DEF TasksOf, RevisionsOf
  <2>8. IsCurrent(v, d) = IsCurrent(g, d)
    BY <1>3, <1>7, <2>3 DEF IsCurrent
  <2>9. TaskMoveFits(v, ev)
    BY <2>1, <2>2, <2>3, <2>6, <2>7, <2>8, <1>6 DEF TaskMoveFits
  <2> QED
    BY <1>5, <1>12, <2>9 DEF FitsGraph
<1>13. CASE ev.type = "snapshot.recorded"
  <2>1. /\ \A s \in g.snapshots : s.id # ev.snapshot.id
        /\ ev.snapshot.as_of = st.seq
        /\ ev.scope # Mission => g.plans[ev.scope].state # "ABSENT"
        /\ ev.snapshot.payload = [ended |-> st.ended, graph |-> v]
    BY <1>1, <1>6, <1>13 DEF FitsGraph
  <2>2. /\ \A s \in v.snapshots : s.id # ev.snapshot.id
        /\ ev.snapshot.as_of = u.seq
        /\ ev.scope # Mission => v.plans[ev.scope].state # "ABSENT"
        /\ ev.snapshot.payload = [ended |-> u.ended, graph |-> Scoped(v, p)]
    BY <1>3, <1>5, <1>6, <2>1
  <2> QED
    BY <1>5, <1>6, <1>13, <2>2 DEF FitsGraph
<1> QED
  BY <1>8, <1>9, <1>10, <1>11, <1>12, <1>13 DEF Event, EventTypes

(* And it changes the part as it changes the graph.                        *)
LEMMA ScopedChanges ==
    ASSUME NEW st, Sound(st), NEW ev, Event(ev), Fits(st, ev), NEW p \in Plans, ev.scope = p
    PROVE  Scoped(Changed(st.graph, ev), p) = Changed(Scoped(st.graph, p), ev)
<1>1. PICK g, v : g = st.graph /\ v = Scoped(g, p)
  OBVIOUS
<1>2. PICK c, w, x : c = Changed(g, ev) /\ w = Changed(v, ev) /\ x = Scoped(c, p)
  OBVIOUS
<1>3. Part(g, p, v) /\ Part(c, p, x)
  BY <1>1, <1>2, ScopedIsPart
<1>4. Parts(g) /\ Parts(v) /\ g.plans \in PlanTypes /\ g.tasks \in [Tasks -> TaskStates]
  BY <1>1, <1>3 DEF Sound, Part
<1>5. Becomes(g, ev, c) /\ Becomes(v, ev, w)
  BY <1>2, <1>4, ChangedIs
<1>6. x.plans = w.plans
  <2>1. /\ v.plans = [q \in Plans |-> IF q = p THEN g.plans[q] ELSE EmptyGraph.plans[q]]
        /\ x.plans = [q \in Plans |-> IF q = p THEN c.plans[q] ELSE EmptyGraph.plans[q]]
    BY <1>3 DEF Part
  <2>2. CASE ev.type = "plan.created"
    <3>1. c.plans = [g.plans EXCEPT ![p].state = "OPEN"] /\ w.plans = [v.plans EXCEPT ![p].state = "OPEN"]
      BY <1>5, <2>2 DEF Becomes
    <3> QED
      BY <1>4, <2>1, <3>1 DEF PlanTypes
  <2>3. CASE ev.type = "plan.revision_activated"
    <3>1. /\ c.plans = [g.plans EXCEPT ![p].current = ev.revision]
          /\ w.plans = [v.plans EXCEPT ![p].current = ev.revision]
      BY <1>5, <2>3 DEF Becomes
    <3> QED
      BY <1>4, <2>1, <3>1 DEF PlanTypes
  <2>4. CASE ev.type = "plan.lifecycle_changed"
    <3>1. c.plans = [g.plans EXCEPT ![p].state = ev.to] /\ w.plans = [v.plans EXCEPT ![p].state = ev.to]
      BY <1>5, <2>4 DEF Becomes
    <3> QED
      BY <1>4, <2>1, <3>1 DEF PlanTypes
  <2>5. CASE ev.type \notin {"plan.created", "plan.revision_activated", "plan.lifecycle_changed"}
    BY <1>5, <2>1, <2>5 DEF Becomes
  <2> QED
    BY <2>2, <2>3, <2>4, <2>5
<1>7. x.revisions = w.revisions
  <2>1. ev.type = "plan.revision_recorded" => ev.definition.plan = p
    BY DEF Event
  <2>2. /\ c.revisions = IF ev.type = "plan.revision_recorded" THEN g.revisions \cup {ev.definition}
                         ELSE g.revisions
        /\ w.revisions = IF ev.type = "plan.revision_recorded" THEN v.revisions \cup {ev.definition}
                         ELSE v.revisions
    BY <1>5 DEF Becomes
  <2> QED
    BY <1>3, <2>1, <2>2 DEF Part, RevisionsOf
<1>8. x.tasks = w.tasks
  <2>1. /\ v.tasks = [t \in Tasks |-> IF t \in TasksOf(g, p) THEN g.tasks[t] ELSE "ABSENT"]
        /\ x.tasks = [t \in Tasks |-> IF t \in TasksOf(c, p) THEN c.tasks[t] ELSE "ABSENT"]
    BY <1>3 DEF Part
  <2>2. CASE ev.type = "plan.revision_recorded"
    <3>1. ev.definition.plan = p /\ c.revisions = g.revisions \cup {ev.definition}
      BY <1>5, <2>2 DEF Becomes, Event
    <3>2. TasksOf(c, p) = TasksOf(g, p) \cup ev.definition.tasks
      BY <3>1 DEF TasksOf, RevisionsOf
    <3>3. /\ c.tasks = [t \in Tasks |-> IF t \in ev.definition.tasks THEN "PENDING" ELSE g.tasks[t]]
          /\ w.tasks = [t \in Tasks |-> IF t \in ev.definition.tasks THEN "PENDING" ELSE v.tasks[t]]
      BY <1>5, <2>2 DEF Becomes
    <3> QED
      BY <2>1, <3>2, <3>3
  <2>3. CASE ev.type # "plan.revision_recorded"
    <3>1. c.revisions = g.revisions
      BY <1>5, <2>3 DEF Becomes
    <3>2. TasksOf(c, p) = TasksOf(g, p)
      BY <3>1 DEF TasksOf, RevisionsOf
    <3>3. CASE ev.type = "task.moved"
      <4>1. ev.task \in TasksOf(g, p) /\ ev.task \in Tasks
        BY <1>1, <3>3, MovedIsOf
      <4>2. c.tasks = [g.tasks EXCEPT ![ev.task] = ev.to] /\ w.tasks = [v.tasks EXCEPT ![ev.task] = ev.to]
        BY <1>5, <3>3 DEF Becomes
      <4> QED
        BY <1>4, <2>1, <3>2, <4>1, <4>2
    <3>4. CASE ev.type # "task.moved"
      BY <1>5, <2>1, <2>3, <3>2, <3>4 DEF Becomes
    <3> QED
      BY <3>3, <3>4
  <2> QED
    BY <2>2, <2>3
<1>9. x.snapshots = w.snapshots
  <2>1. ev.type = "snapshot.recorded" => ev.snapshot.scope = p
    BY DEF Event
  <2>2. /\ c.snapshots = IF ev.type = "snapshot.recorded" THEN g.snapshots \cup {ev.snapshot}
                         ELSE g.snapshots
        /\ w.snapshots = IF ev.type = "snapshot.recorded" THEN v.snapshots \cup {ev.snapshot}
                         ELSE v.snapshots
    BY <1>5 DEF Becomes
  <2> QED
    BY <1>3, <2>1, <2>2 DEF Part
<1>10. x = w
  BY <1>3, <1>5, <1>6, <1>7, <1>8, <1>9, SameParts DEF Part, Becomes
<1> QED
  BY <1>1, <1>2, <1>10

-----------------------------------------------------------------------------
(* Replays, of the whole stream and of the tail behind a Snapshot.         *)

Goes(mode, scope, acc, ev) == IF mode = "whole" THEN Reduce(acc, ev) ELSE ReduceTail(scope, acc, ev)

(* What the fold of the community modules defines by recursion, over the   *)
(* sets of positions it has yet to visit.                                  *)
Unfolds(mode, scope, f, st, s, D) ==
    f = [S \in SUBSET D |-> IF S = {} THEN st
                            ELSE Goes(mode, scope, f[S \ {Max(S)}], s[Max(S)])]

(* The last of 1..n is the largest.                                        *)
LEMMA LastIsMax ==
    ASSUME NEW n \in Nat, NEW S \in SUBSET (1..n), n \in S
    PROVE  Max(S) = n
<1>1. n \in S /\ \A y \in S : n >= y
  OBVIOUS
<1>2. ASSUME NEW x \in S, \A y \in S : x >= y PROVE x = n
  BY <1>1, <1>2
<1>3. Max(S) \in S /\ \A y \in S : Max(S) >= y
  BY <1>1 DEF Max
<1> QED
  BY <1>2, <1>3

(* The fold exists, as its largest position can be taken off.              *)
LEMMA UnfoldingExists ==
    ASSUME NEW mode, NEW scope, NEW st, NEW s, NEW n \in Nat
    PROVE  \E f : Unfolds(mode, scope, f, st, s, 1..n)
<1> DEFINE G == {k \in Nat : \E f : Unfolds(mode, scope, f, st, s, 1..k)}
           To(f, S, x) == Goes(mode, scope, f[S \ {x}], s[x])
<1>1. 0 \in G
  <2>1. PICK f : f = [S \in SUBSET (1..0) |-> st]
    OBVIOUS
  <2>2. \A S \in SUBSET (1..0) : S = {}
    OBVIOUS
  <2>3. Unfolds(mode, scope, f, st, s, 1..0)
    BY <2>1, <2>2 DEF Unfolds
  <2> QED
    BY <2>3
<1>2. ASSUME NEW k \in Nat, NEW f, Unfolds(mode, scope, f, st, s, 1..k)
      PROVE  \E g : Unfolds(mode, scope, g, st, s, 1..(k + 1))
  <2>1. PICK m \in Nat : m = k + 1
    OBVIOUS
  <2>2. PICK g : g = [S \in SUBSET (1..m) |-> IF m \in S THEN To(f, S, m) ELSE f[S]]
    OBVIOUS
  <2>3. \A S \in SUBSET (1..m) : m \notin S => S \in SUBSET (1..k)
    BY <2>1
  <2>4. \A S \in SUBSET (1..k) : /\ S \in SUBSET (1..m) /\ m \notin S /\ g[S] = f[S]
                                 /\ f[S] = IF S = {} THEN st ELSE To(f, S, Max(S))
    <3> TAKE S \in SUBSET (1..k)
    <3>1. S \in SUBSET (1..m) /\ m \notin S
      BY <2>1
    <3>2. g[S] = f[S]
      BY <2>2, <3>1
    <3> QED
      BY <1>2, <3>1, <3>2 DEF Unfolds
  <2>5. ASSUME NEW S \in SUBSET (1..m) PROVE g[S] = IF S = {} THEN st ELSE To(g, S, Max(S))
    <3>1. CASE m \in S
      <4>1. Max(S) = m /\ S # {} /\ g[S] = To(f, S, m)
        BY <2>2, <3>1, LastIsMax
      <4>2. S \ {m} \in SUBSET (1..k)
        BY <2>3
      <4>3. g[S \ {m}] = f[S \ {m}]
        BY <2>4, <4>2
      <4> QED
        BY <4>1, <4>3
    <3>2. CASE m \notin S
      <4>1. PICK x : x = Max(S)
        OBVIOUS
      <4>2. S \in SUBSET (1..k) /\ S \ {x} \in SUBSET (1..k)
        BY <2>3, <3>2
      <4>3. g[S] = f[S] /\ g[S \ {x}] = f[S \ {x}]
            /\ f[S] = IF S = {} THEN st ELSE To(f, S, x)
        BY <2>4, <4>1, <4>2
      <4> QED
        BY <4>1, <4>3
    <3> QED
      BY <3>1, <3>2
  <2>6. Unfolds(mode, scope, g, st, s, 1..m)
    BY <2>2, <2>5 DEF Unfolds
  <2> QED
    BY <2>1, <2>6
<1>3. \A k \in Nat : k \in G => k + 1 \in G
  BY <1>2
<1>4. Nat \subseteq G
  <2> HIDE DEF G
  <2> QED
    BY <1>1, <1>3, Log!NatSetInduction
<1> QED
  BY <1>4

(* The states passed through, and where they end.                          *)
Path(mode, scope, h, st, s, n) ==
    h[0] = st /\ \A i \in 1..n : h[i] = Goes(mode, scope, h[i - 1], s[i])

LEMMA UnfoldingIsPath ==
    ASSUME NEW mode, NEW scope, NEW st, NEW s, NEW n \in Nat, NEW f,
           Unfolds(mode, scope, f, st, s, 1..n)
    PROVE  \E h : Path(mode, scope, h, st, s, n) /\ h[n] = f[1..n]
<1>1. \A S \in SUBSET (1..n) :
        f[S] = IF S = {} THEN st ELSE Goes(mode, scope, f[S \ {Max(S)}], s[Max(S)])
  BY DEF Unfolds
<1>2. PICK h : h = [i \in 0..n |-> f[1..i]]
  OBVIOUS
<1>3. h[0] = st
  <2>1. 0 \in 0..n /\ 1..0 = {}
    OBVIOUS
  <2> QED
    BY <1>1, <1>2, <2>1
<1>4. ASSUME NEW i \in 1..n PROVE h[i] = Goes(mode, scope, h[i - 1], s[i])
  <2>1. PICK S : S = 1..i
    OBVIOUS
  <2>2. S \in SUBSET (1..n) /\ i \in S /\ S \ {i} = 1..(i - 1) /\ S \in SUBSET (1..i) /\ i \in Nat
    BY <2>1
  <2>3. Max(S) = i
    BY <2>2, LastIsMax
  <2>4. f[S] = Goes(mode, scope, f[1..(i - 1)], s[i])
    BY <1>1, <2>2, <2>3
  <2>5. h[i] = f[S] /\ h[i - 1] = f[1..(i - 1)]
    BY <1>2, <2>1
  <2> QED
    BY <2>4, <2>5
<1>5. h[n] = f[1..n]
  BY <1>2
<1> QED
  BY <1>3, <1>4, <1>5 DEF Path

(* Whatever passes from event to event alike ends alike.                   *)
LEMMA PathsEndAlike ==
    ASSUME NEW mode, NEW scope, NEW st, NEW n \in Nat, NEW s, NEW t, NEW g, NEW h,
           Path(mode, scope, g, st, s, n), Path(mode, scope, h, st, t, n),
           \A i \in 1..n : s[i] = t[i]
    PROVE  g[n] = h[n]
<1> DEFINE G == {k \in Nat : k <= n => g[k] = h[k]}
<1>1. 0 \in G
  BY DEF Path
<1>2. ASSUME NEW k \in Nat, k \in G PROVE k + 1 \in G
  <2> SUFFICES ASSUME k + 1 <= n PROVE g[k + 1] = h[k + 1]
    OBVIOUS
  <2>1. PICK m : m = k + 1
    OBVIOUS
  <2>2. m \in 1..n /\ m - 1 = k /\ g[k] = h[k]
    BY <1>2, <2>1
  <2>3. /\ g[m] = Goes(mode, scope, g[k], s[m]) /\ h[m] = Goes(mode, scope, h[k], t[m])
        /\ s[m] = t[m]
    BY <2>2 DEF Path
  <2> QED
    BY <2>1, <2>2, <2>3
<1>3. \A k \in Nat : k \in G => k + 1 \in G
  BY <1>2
<1>4. Nat \subseteq G
  <2> HIDE DEF G
  <2> QED
    BY <1>1, <1>3, Log!NatSetInduction
<1> QED
  BY <1>4

(* The two folds of the model.                                             *)
Folded(st, s) == FoldLeft(Reduce, st, s)
Tailed(scope, st, s) == FoldLeft(LAMBDA acc, ev : ReduceTail(scope, acc, ev), st, s)

UnfoldsReduce(f, st, s, D) ==
    f = [S \in SUBSET D |-> IF S = {} THEN st ELSE Reduce(f[S \ {Max(S)}], s[Max(S)])]
UnfoldsTail(scope, f, st, s, D) ==
    f = [S \in SUBSET D |-> IF S = {} THEN st ELSE ReduceTail(scope, f[S \ {Max(S)}], s[Max(S)])]

LEMMA FoldedIs ==
    ASSUME NEW st, NEW s
    PROVE  Folded(st, s) = (CHOOSE f : UnfoldsReduce(f, st, s, DOMAIN s))[DOMAIN s]
BY DEF Folded, FoldLeft, MapThenFoldSet, UnfoldsReduce

LEMMA TailedIs ==
    ASSUME NEW scope, NEW st, NEW s
    PROVE  Tailed(scope, st, s) = (CHOOSE f : UnfoldsTail(scope, f, st, s, DOMAIN s))[DOMAIN s]
BY DEF Tailed, FoldLeft, MapThenFoldSet, UnfoldsTail

LEMMA FoldedAlong ==
    ASSUME NEW st, NEW n \in Nat, NEW s, DOMAIN s = 1..n, NEW t, \A i \in 1..n : s[i] = t[i],
           NEW h, Path("whole", Mission, h, st, t, n)
    PROVE  Folded(st, s) = h[n]
<1>a. \A acc, ev : Goes("whole", Mission, acc, ev) = Reduce(acc, ev)
  BY DEF Goes
<1>b. ASSUME NEW f
      PROVE  [S \in SUBSET (1..n) |-> IF S = {} THEN st
                                      ELSE Reduce(f[S \ {Max(S)}], s[Max(S)])]
             = [S \in SUBSET (1..n) |-> IF S = {} THEN st
                                      ELSE Goes("whole", Mission, f[S \ {Max(S)}], s[Max(S)])]
  BY <1>a
<1>1. \A f : UnfoldsReduce(f, st, s, 1..n) <=> Unfolds("whole", Mission, f, st, s, 1..n)
  BY <1>b DEF UnfoldsReduce, Unfolds
<1>c. \E g : UnfoldsReduce(g, st, s, 1..n)
  BY <1>1, UnfoldingExists
<1>2. PICK f : f = CHOOSE g : UnfoldsReduce(g, st, s, 1..n)
  OBVIOUS
<1>d. UnfoldsReduce(f, st, s, 1..n)
  BY <1>2, <1>c, Zenon
<1>3. Unfolds("whole", Mission, f, st, s, 1..n)
  BY <1>1, <1>d
<1>4. PICK g : Path("whole", Mission, g, st, s, n) /\ g[n] = f[1..n]
  BY <1>3, UnfoldingIsPath
<1>5. Folded(st, s) = g[n]
  BY <1>2, <1>4, FoldedIs
<1>6. g[n] = h[n]
  BY <1>4, PathsEndAlike
<1> QED
  BY <1>5, <1>6

LEMMA TailedAlong ==
    ASSUME NEW scope, NEW st, NEW n \in Nat, NEW s, DOMAIN s = 1..n, NEW t, \A i \in 1..n : s[i] = t[i],
           NEW h, Path("tail", scope, h, st, t, n)
    PROVE  Tailed(scope, st, s) = h[n]
<1>a. \A acc, ev : Goes("tail", scope, acc, ev) = ReduceTail(scope, acc, ev)
  BY DEF Goes
<1>b. ASSUME NEW f
      PROVE  [S \in SUBSET (1..n) |-> IF S = {} THEN st
                                      ELSE ReduceTail(scope, f[S \ {Max(S)}], s[Max(S)])]
             = [S \in SUBSET (1..n) |-> IF S = {} THEN st
                                      ELSE Goes("tail", scope, f[S \ {Max(S)}], s[Max(S)])]
  BY <1>a
<1>1. \A f : UnfoldsTail(scope, f, st, s, 1..n) <=> Unfolds("tail", scope, f, st, s, 1..n)
  BY <1>b DEF UnfoldsTail, Unfolds
<1>c. \E g : UnfoldsTail(scope, g, st, s, 1..n)
  BY <1>1, UnfoldingExists
<1>2. PICK f : f = CHOOSE g : UnfoldsTail(scope, g, st, s, 1..n)
  OBVIOUS
<1>d. UnfoldsTail(scope, f, st, s, 1..n)
  BY <1>2, <1>c, Zenon
<1>3. Unfolds("tail", scope, f, st, s, 1..n)
  BY <1>1, <1>d
<1>4. PICK g : Path("tail", scope, g, st, s, n) /\ g[n] = f[1..n]
  BY <1>3, UnfoldingIsPath
<1>5. Tailed(scope, st, s) = g[n]
  BY <1>2, <1>4, TailedIs
<1>6. g[n] = h[n]
  BY <1>4, PathsEndAlike
<1> QED
  BY <1>5, <1>6

(* What a read of a scope has made of a state.                             *)
Seen(st, scope) == [raised |-> FALSE, st |-> Viewed(st, scope)]

(* One event of the tail.                                                  *)
LEMMA TailStep ==
    ASSUME NEW st, Sound(st), NEW ev, Event(ev), Fits(st, ev), NEW scope \in Plans \cup {Mission}
    PROVE  ReduceTail(scope, Seen(st, scope), ev) = Seen(Reduce(st, ev), scope)
<1>1. PICK g, n : g = st.graph /\ n = Reduce(st, ev)
  OBVIOUS
<1>2. PICK over : over = (st.ended \/ (ev.type = "core" /\ ev.ends))
  OBVIOUS
<1>3. n.seq = st.seq + 1 /\ n.ended = over /\ n.graph = Changed(g, ev)
      /\ n = [seq |-> st.seq + 1, ended |-> over, graph |-> Changed(g, ev)]
  BY <1>1, <1>2 DEF Reduce
<1>4. PICK acc : acc = Seen(st, scope)
  OBVIOUS
<1>5. /\ acc.raised = FALSE /\ acc.st = Viewed(st, scope)
      /\ acc = [raised |-> FALSE, st |-> acc.st]
      /\ acc.st = [seq |-> st.seq, ended |-> st.ended, graph |-> Scoped(g, scope)]
  BY <1>1, <1>4 DEF Seen, Viewed
<1>6. Seen(n, scope) = [raised |-> FALSE,
                        st |-> [seq |-> st.seq + 1, ended |-> over,
                                graph |-> Scoped(Changed(g, ev), scope)]]
  BY <1>3 DEF Seen, Viewed
<1>7. CASE Passed(scope, ev)
  <2>1. scope \in Plans /\ ev.type # "core" /\ ev.scope # scope
    BY <1>7 DEF Passed
  <2>2. Scoped(Changed(g, ev), scope) = Scoped(g, scope)
    BY <1>1, <2>1, ScopedStands
  <2>3. over = st.ended
    BY <1>2, <2>1 DEF Sound
  <2>4. ReduceTail(scope, acc, ev) = [acc EXCEPT !.st.seq = @ + 1]
    BY <1>5, <1>7 DEF ReduceTail
  <2>5. [acc EXCEPT !.st.seq = @ + 1] =
          [raised |-> FALSE,
           st |-> [seq |-> st.seq + 1, ended |-> st.ended, graph |-> Scoped(g, scope)]]
    <3>1. PICK w, q, e, v, r :
             w = acc.st /\ q = st.seq /\ e = st.ended /\ v = Scoped(g, scope) /\ r = acc.raised
      OBVIOUS
    <3>2. acc = [raised |-> r, st |-> w] /\ w = [seq |-> q, ended |-> e, graph |-> v]
      BY <1>5, <3>1
    <3>3. [w EXCEPT !.seq = @ + 1] = [seq |-> q + 1, ended |-> e, graph |-> v]
      BY <3>2
    <3>4. [acc EXCEPT !.st.seq = @ + 1] = [raised |-> r, st |-> [w EXCEPT !.seq = @ + 1]]
      BY <3>2
    <3>5. r = FALSE
      BY <1>5, <3>1
    <3> QED
      BY <3>1, <3>3, <3>4, <3>5
  <2> QED
    BY <1>1, <1>4, <1>6, <2>2, <2>3, <2>4, <2>5
<1>8. CASE ~Passed(scope, ev)
  <2>1. Fits(acc.st, ev) /\ Changed(Scoped(g, scope), ev) = Scoped(Changed(g, ev), scope)
    <3>1. CASE scope = Mission
      <4>1. Scoped(g, scope) = g /\ Scoped(Changed(g, ev), scope) = Changed(g, ev)
        BY <3>1 DEF Scoped
      <4>2. acc.st = st
        BY <1>1, <1>5, <4>1 DEF Sound
      <4> QED
        BY <4>1, <4>2
    <3>2. CASE scope \in Plans
      <4>1. scope # Mission
        BY <3>2, WorkGraphAssumption
      <4>2. ev.type = "core" \/ ev.scope = scope
        BY <1>8, <4>1 DEF Passed
      <4>3. Fits(acc.st, ev)
        BY <1>5, <3>2, <4>2, ScopedFits
      <4>4. CASE ev.scope = scope
        BY <1>1, <3>2, <4>3, <4>4, ScopedChanges
      <4>5. CASE ev.type = "core"
        BY <4>3, <4>5 DEF Changed
      <4> QED
        BY <4>2, <4>4, <4>5
    <3> QED
      BY <3>1, <3>2
  <2>2. ReduceTail(scope, acc, ev) = [acc EXCEPT !.st = Reduce(@, ev)]
    BY <1>5, <1>8, <2>1 DEF ReduceTail
  <2>3. PICK after : after = Reduce(acc.st, ev)
    OBVIOUS
  <2>4. acc.st.seq = st.seq /\ acc.st.ended = st.ended /\ acc.st.graph = Scoped(g, scope)
    BY <1>5
  <2>5. after = [seq |-> st.seq + 1, ended |-> over, graph |-> Scoped(Changed(g, ev), scope)]
    BY <1>2, <2>1, <2>3, <2>4 DEF Reduce
  <2>6. ReduceTail(scope, acc, ev) = [raised |-> FALSE, st |-> after]
    BY <1>5, <2>2, <2>3
  <2> QED
    BY <1>1, <1>4, <1>6, <2>5, <2>6
<1> QED
  BY <1>7, <1>8

-----------------------------------------------------------------------------
(* The states that the stream went through.                                *)

(* A Snapshot holds its scope of a state that was.                         *)
Truthful(h, s) ==
    /\ s.as_of \in 0..(Len(stream) - 1)
    /\ s.payload = [ended |-> h[s.as_of].ended, graph |-> Scoped(h[s.as_of].graph, s.scope)]

History(h) ==
    /\ h[0] = EmptyState
    /\ \A i \in 1..Len(stream) : /\ h[i] = Reduce(h[i - 1], stream[i])
                                 /\ Event(stream[i]) /\ Fits(h[i - 1], stream[i])
    /\ \A i \in 0..Len(stream) : Sound(h[i]) /\ h[i].seq = i
    /\ h[Len(stream)] = composed
    /\ \A s \in graph.snapshots : Truthful(h, s)

Remembered == \E h : History(h)

LEMMA NextAppends == Next => \E ev : Step(ev) /\ Event(ev)
<1> SUFFICES ASSUME Next PROVE \E ev : Step(ev) /\ Event(ev)
  OBVIOUS
<1> USE WorkGraphAssumption DEF Step, Event, EventTypes
<1>1. Len(stream) < MaxSeq
  BY DEF Next
<1>2. ASSUME NEW p \in Plans, CreatePlan(p) PROVE \E ev : Step(ev) /\ Event(ev)
  <2>1. Step(PlanCreated(p)) /\ Event(PlanCreated(p))
    BY <1>1, <1>2 DEF CreatePlan, PlanCreated
  <2> QED
    BY <2>1
<1>3. ASSUME NEW p \in Plans, ClosePlan(p) PROVE \E ev : Step(ev) /\ Event(ev)
  <2>1. PICK ev : ev = PlanMoved(p, "OPEN", "CLOSED")
    OBVIOUS
  <2>2. Step(ev) /\ Event(ev)
    BY <1>1, <1>3, <2>1 DEF ClosePlan, PlanMoved
  <2> QED
    BY <2>2
<1>4. ASSUME NEW p \in Plans, ArchivePlan(p) PROVE \E ev : Step(ev) /\ Event(ev)
  <2>1. PICK ev : ev = PlanMoved(p, "CLOSED", "ARCHIVED")
    OBVIOUS
  <2>2. Step(ev) /\ Event(ev)
    BY <1>1, <1>4, <2>1 DEF ArchivePlan, PlanMoved
  <2> QED
    BY <2>2
<1>5. ASSUME NEW d \in Definitions, RecordPlanRevision(d) PROVE \E ev : Step(ev) /\ Event(ev)
  <2>1. PICK ev : ev = RevisionRecorded(d)
    OBVIOUS
  <2>2. d.plan \in Plans
    BY DEF DefinitionType
  <2>3. Step(ev) /\ Event(ev)
    BY <1>1, <1>5, <2>1, <2>2 DEF RecordPlanRevision, RevisionRecorded
  <2> QED
    BY <2>3
<1>6. ASSUME NEW d \in Definitions, ActivatePlanRevision(d) PROVE \E ev : Step(ev) /\ Event(ev)
  <2>1. PICK ev : ev = RevisionActivated(d.plan, d.revision, graph.plans[d.plan].current)
    OBVIOUS
  <2>2. d.plan \in Plans
    BY DEF DefinitionType
  <2>3. Step(ev) /\ Event(ev)
    BY <1>1, <1>6, <2>1, <2>2 DEF ActivatePlanRevision, RevisionActivated
  <2> QED
    BY <2>3
<1>7. ASSUME NEW d \in Definitions, NEW t \in d.tasks, NEW to \in TaskStates, TransitionTask(d, t, to)
      PROVE  \E ev : Step(ev) /\ Event(ev)
  <2>1. PICK ev : ev = TaskMoved(d, t, graph.tasks[t], to)
    OBVIOUS
  <2>2. d.plan \in Plans
    BY DEF DefinitionType
  <2>3. Step(ev) /\ Event(ev)
    BY <1>1, <1>7, <2>1, <2>2 DEF TransitionTask, TaskMoved
  <2> QED
    BY <2>3
<1>8. ASSUME NEW id \in Snapshots, NEW scope \in Plans \cup {Mission}, RecordWorkSnapshot(id, scope)
      PROVE  \E ev : Step(ev) /\ Event(ev)
  <2>1. PICK s : s = [id |-> id, scope |-> scope, as_of |-> composed.seq,
                      payload |-> [ended |-> composed.ended, graph |-> Scoped(graph, scope)]]
    OBVIOUS
  <2>2. PICK ev : ev = SnapshotRecorded(s)
    OBVIOUS
  <2>3. Step(ev) /\ Event(ev)
    BY <1>1, <1>8, <2>1, <2>2 DEF RecordWorkSnapshot, SnapshotRecorded
  <2> QED
    BY <2>3
<1>9. ASSUME CoreWrites PROVE \E ev : Step(ev) /\ Event(ev)
  <2>1. PICK ends \in BOOLEAN : Append1(CoreEvent(ends))
    BY <1>9 DEF CoreWrites
  <2>2. PICK ev : ev = CoreEvent(ends)
    OBVIOUS
  <2>3. Step(ev) /\ Event(ev)
    BY <1>1, <2>1, <2>2 DEF CoreEvent
  <2> QED
    BY <2>3
<1> QED
  BY <1>2, <1>3, <1>4, <1>5, <1>6, <1>7, <1>8, <1>9 DEF Next

LEMMA SoundNow ==
    ASSUME IInv
    PROVE  Sound(composed) /\ composed.seq = Len(stream)
BY DEF IInv, StreamOK, StateOK, TypeOK, TasksBelongToOneRevision, Present, Sound, Parts, PlanTypes, graph

LEMMA SoundNext ==
    ASSUME IInv'
    PROVE  Sound(composed') /\ composed'.seq = Len(stream')
BY DEF IInv, StreamOK, StateOK, TypeOK, TasksBelongToOneRevision, Present, Sound, Parts, PlanTypes, graph

LEMMA HistoryGrows ==
    ASSUME IInv, IInv', Remembered, NEW ev, Step(ev), Event(ev), Fits(composed, ev)
    PROVE  Remembered'
<1>1. PICK h : History(h)
  BY DEF Remembered
<1>2. PICK n : n = Len(stream)
  OBVIOUS
<1>3. PICK c : c = composed'
  OBVIOUS
<1>4. n \in Nat /\ Len(stream') = n + 1 /\ DOMAIN stream = 1..n /\ stream'[n + 1] = ev
      /\ \A i \in 1..n : stream'[i] = stream[i]
  <2>1. stream' = Append(stream, ev) /\ stream \in Seq(Values(stream))
    BY DEF Step, Append1, IInv, StreamOK
  <2>2. DOMAIN stream = 1..n /\ n \in Nat
    BY <1>2, <2>1
  <2> QED
    BY <1>2, <2>1, <2>2, Grown
<1>5. c = Reduce(composed, ev) /\ Sound(c) /\ c.seq = n + 1
  BY <1>3, <1>4, SoundNext DEF Step, Append1
<1>6. PICK k : k = [i \in 0..(n + 1) |-> IF i = n + 1 THEN c ELSE h[i]]
  OBVIOUS
<1>7. k[n + 1] = c /\ \A i \in 0..n : k[i] = h[i]
  BY <1>4, <1>6
<1>8. k[0] = EmptyState
  BY <1>1, <1>4, <1>7 DEF History
<1>9. ASSUME NEW i \in 1..(n + 1)
      PROVE  k[i] = Reduce(k[i - 1], stream'[i]) /\ Event(stream'[i]) /\ Fits(k[i - 1], stream'[i])
  <2>1. CASE i = n + 1
    <3>1. k[i - 1] = composed
      BY <1>1, <1>2, <1>4, <1>7, <2>1 DEF History
    <3> QED
      BY <1>4, <1>5, <1>7, <2>1, <3>1
  <2>2. CASE i # n + 1
    <3>1. i \in 1..n /\ i \in 0..n /\ i - 1 \in 0..n
      BY <1>4, <2>2
    <3>2. h[i] = Reduce(h[i - 1], stream[i]) /\ Event(stream[i]) /\ Fits(h[i - 1], stream[i])
      BY <1>1, <1>2, <3>1 DEF History
    <3> QED
      BY <1>4, <1>7, <3>1, <3>2
  <2> QED
    BY <2>1, <2>2
<1>10. ASSUME NEW i \in 0..(n + 1) PROVE Sound(k[i]) /\ k[i].seq = i
  <2>1. CASE i = n + 1
    BY <1>5, <1>7, <2>1
  <2>2. CASE i # n + 1
    <3>1. i \in 0..n
      BY <1>4, <2>2
    <3> QED
      BY <1>1, <1>2, <1>7, <3>1 DEF History
  <2> QED
    BY <2>1, <2>2
<1>11. ASSUME NEW s \in graph'.snapshots
       PROVE  /\ s.as_of \in 0..n
              /\ s.payload = [ended |-> k[s.as_of].ended, graph |-> Scoped(k[s.as_of].graph, s.scope)]
  <2>1. graph' = Changed(graph, ev) /\ Parts(graph)
    BY Reduced, GraphTyped
  <2>2. Becomes(graph, ev, Changed(graph, ev))
    BY <2>1, ChangedIs
  <2>3. CASE s \in graph.snapshots
    <3>1. Truthful(h, s)
      BY <1>1, <2>3 DEF History
    <3>2. s.as_of \in 0..(n - 1)
      BY <1>2, <3>1 DEF Truthful
    <3>3. s.as_of \in 0..n
      BY <1>4, <3>2
    <3> QED
      BY <1>7, <3>1, <3>3 DEF Truthful
  <2>4. CASE s \notin graph.snapshots
    <3>1. ev.type = "snapshot.recorded" /\ s = ev.snapshot
      BY <2>1, <2>2, <2>4 DEF Becomes
    <3>2. /\ s.as_of = composed.seq
          /\ s.payload = [ended |-> composed.ended, graph |-> Scoped(graph, ev.scope)]
      BY <3>1 DEF Fits, FitsGraph, graph
    <3>3. s.scope = ev.scope
      BY <3>1 DEF Event
    <3>4. s.as_of = n
      BY <1>2, <3>2, SoundNow
    <3>5. k[n] = composed
      BY <1>1, <1>2, <1>4, <1>7 DEF History
    <3> QED
      BY <1>4, <3>2, <3>3, <3>4, <3>5 DEF graph
  <2> QED
    BY <2>3, <2>4
<1>12. ASSUME NEW s \in graph'.snapshots PROVE Truthful(k, s)'
  <2>1. Len(stream') - 1 = n
    BY <1>4
  <2> QED
    BY <1>11, <2>1 DEF Truthful
<1>13. History(k)'
  BY <1>3, <1>4, <1>7, <1>8, <1>9, <1>10, <1>12 DEF History
<1> QED
  BY <1>13 DEF Remembered

LEMMA LatestIsThere ==
    ASSUME NEW C, C # {}, NEW n \in Nat, \A s \in C : s.as_of \in 0..n
    PROVE  Latest(C) \in C
<1> DEFINE Last1(s) == \A o \in C : o.as_of <= s.as_of
           G == {k \in Nat : (\E s \in C : s.as_of + k >= n) => \E s \in C : Last1(s)}
<1>1. 0 \in G
  OBVIOUS
<1>2. ASSUME NEW k \in Nat, k \in G PROVE k + 1 \in G
  <2> SUFFICES ASSUME NEW s \in C, s.as_of + (k + 1) >= n PROVE \E x \in C : Last1(x)
    OBVIOUS
  <2>1. CASE \E x \in C : x.as_of + k >= n
    BY <1>2, <2>1
  <2>2. CASE ~\E x \in C : x.as_of + k >= n
    BY <2>2
  <2> QED
    BY <2>1, <2>2
<1>3. \A k \in Nat : k \in G => k + 1 \in G
  BY <1>2
<1>4. Nat \subseteq G
  <2> HIDE DEF G
  <2> QED
    BY <1>1, <1>3, Log!NatSetInduction
<1>5. \E s \in C : Last1(s)
  BY <1>4
<1> QED
  BY <1>5 DEF Latest

(* Any stretch of the stream.                                              *)
LEMMA Stretch ==
    ASSUME StreamOK, NEW a \in Nat, NEW n \in Nat, a + n <= Len(stream)
    PROVE  /\ DOMAIN SubSeq(stream, a + 1, a + n) = 1..n
           /\ \A i \in 1..n : SubSeq(stream, a + 1, a + n)[i] = stream[a + i]
<1>1. stream \in Seq(Values(stream))
  BY DEF StreamOK
<1> QED
  BY <1>1

LEMMA ReplayIsHistory ==
    ASSUME IInv, NEW h, History(h), NEW k \in 0..Len(stream)
    PROVE  Replay(k) = h[k]
<1>1. StreamOK /\ Len(stream) \in Nat
  BY DEF IInv, StreamOK
<1>2. PICK s : s = SubSeq(stream, 1, k)
  OBVIOUS
<1>3. DOMAIN s = 1..k /\ \A i \in 1..k : s[i] = stream[i]
  <2>1. /\ DOMAIN SubSeq(stream, 0 + 1, 0 + k) = 1..k
        /\ \A i \in 1..k : SubSeq(stream, 0 + 1, 0 + k)[i] = stream[0 + i]
    BY <1>1, Stretch
  <2> QED
    BY <1>2, <2>1
<1>4. Path("whole", Mission, h, EmptyState, stream, k)
  BY <1>1 DEF Path, Goes, History
<1>5. Folded(EmptyState, s) = h[k]
  BY <1>3, <1>4, FoldedAlong
<1> QED
  BY <1>2, <1>5 DEF Replay, Folded

LEMMA ReadIsReplay ==
    ASSUME IInv, Remembered
    PROVE  SnapshotReadIsReplay
<1> SUFFICES ASSUME NEW scope \in Plans \cup {Mission}, NEW target \in 0..Len(stream),
                    Candidates(scope, target) # {}
             PROVE  LET read == SnapshotPlusTail(Latest(Candidates(scope, target)), target)
                    IN  /\ ~read.raised
                        /\ read.st.seq = target
                        /\ read.st.graph = Scoped(Replay(target).graph, scope)
  BY DEF SnapshotReadIsReplay
<1>1. PICK h : History(h)
  BY DEF Remembered
<1>2. StreamOK /\ Len(stream) \in Nat
  BY DEF IInv, StreamOK
<1>3. PICK s : s = Latest(Candidates(scope, target))
  OBVIOUS
<1>4. s \in graph.snapshots /\ s.scope = scope /\ s.as_of + 1 <= target /\ Truthful(h, s)
  <2>1. \A o \in Candidates(scope, target) : Truthful(h, o)
    BY <1>1 DEF Candidates, History
  <2>2. PICK C : C = Candidates(scope, target)
    OBVIOUS
  <2>3. \A o \in C : o.as_of \in 0..Len(stream)
    <3> TAKE o \in C
    <3>1. o.as_of \in 0..(Len(stream) - 1)
      BY <2>1, <2>2 DEF Truthful
    <3> QED
      BY <1>2, <3>1
  <2>4. s \in Candidates(scope, target)
    BY <1>2, <1>3, <2>2, <2>3, LatestIsThere
  <2> QED
    BY <2>1, <2>4 DEF Candidates
<1>5. PICK a, n : a = s.as_of /\ n = target - a
  OBVIOUS
<1>6. a \in Nat /\ n \in Nat /\ a + n = target /\ a + n <= Len(stream)
  BY <1>2, <1>4, <1>5 DEF Truthful
<1>7. PICK tail : tail = SubSeq(stream, a + 1, a + n)
  OBVIOUS
<1>8. DOMAIN tail = 1..n /\ \A i \in 1..n : tail[i] = stream[a + i]
  BY <1>2, <1>6, <1>7, Stretch
<1>9. PICK base : base = [raised |-> FALSE, st |-> [seq |-> s.as_of, ended |-> s.payload.ended,
                                                    graph |-> s.payload.graph]]
  OBVIOUS
<1>10. PICK read : read = SnapshotPlusTail(s, target)
  OBVIOUS
<1>11. read = Tailed(scope, base, tail)
  <2>1. read = Tailed(s.scope, base, SubSeq(stream, s.as_of + 1, target))
    BY <1>9, <1>10 DEF SnapshotPlusTail, Tailed
  <2>2. SubSeq(stream, s.as_of + 1, target) = tail /\ s.scope = scope
    BY <1>4, <1>5, <1>6, <1>7
  <2> QED
    BY <2>1, <2>2
<1>12. PICK r : r = [j \in 0..n |-> Seen(h[a + j], scope)]
  OBVIOUS
<1>13. r[0] = base
  <2>1. h[a].seq = a
    BY <1>1, <1>2, <1>6 DEF History
  <2>2. r[0] = Seen(h[a], scope)
    BY <1>6, <1>12
  <2>3. s.payload = [ended |-> h[a].ended, graph |-> Scoped(h[a].graph, scope)]
    BY <1>4, <1>5 DEF Truthful
  <2>4. base = [raised |-> FALSE, st |-> [seq |-> a, ended |-> h[a].ended,
                                          graph |-> Scoped(h[a].graph, scope)]]
    BY <1>5, <1>9, <2>3
  <2> QED
    BY <2>1, <2>2, <2>4 DEF Seen, Viewed
<1>14. ASSUME NEW i \in 1..n PROVE r[i] = ReduceTail(scope, r[i - 1], tail[i])
  <2>1. PICK k, ev : k = a + i /\ ev = stream[k]
    OBVIOUS
  <2>2. k \in 1..Len(stream) /\ k - 1 \in 0..Len(stream) /\ tail[i] = ev /\ i - 1 \in 0..n
        /\ a + (i - 1) = k - 1
    BY <1>2, <1>6, <1>8, <2>1
  <2>3. /\ h[k] = Reduce(h[k - 1], ev) /\ Event(ev) /\ Fits(h[k - 1], ev)
        /\ Sound(h[k - 1])
    BY <1>1, <2>1, <2>2 DEF History
  <2>4. r[i - 1] = Seen(h[k - 1], scope) /\ r[i] = Seen(h[k], scope)
    BY <1>6, <1>12, <2>1, <2>2
  <2> QED
    BY <2>2, <2>3, <2>4, TailStep
<1>15. Path("tail", scope, r, base, tail, n)
  BY <1>13, <1>14 DEF Path, Goes
<1>16. read = r[n]
  BY <1>6, <1>8, <1>11, <1>15, TailedAlong
<1>17. r[n] = Seen(h[target], scope)
  BY <1>6, <1>12
<1>18. h[target].seq = target /\ Replay(target) = h[target]
  BY <1>1, ReplayIsHistory DEF History
<1>19. ~read.raised /\ read.st.seq = target /\ read.st.graph = Scoped(Replay(target).graph, scope)
  BY <1>16, <1>17, <1>18 DEF Seen, Viewed
<1> QED
  BY <1>3, <1>10, <1>19

LEMMA FirstHistory ==
    ASSUME Init, IInv
    PROVE  Remembered
<1>1. PICK h : h = [i \in 0..0 |-> EmptyState]
  OBVIOUS
<1>2. stream = << >> /\ composed = EmptyState /\ Len(stream) = 0
  BY DEF Init
<1>3. h[0] = EmptyState
  BY <1>1
<1>4. Sound(EmptyState) /\ EmptyState.seq = 0
  BY <1>2, SoundNow
<1>5. graph.snapshots = {}
  BY <1>2 DEF graph, EmptyState, EmptyGraph
<1>6. \A i \in 0..Len(stream) : i = 0
  BY <1>2
<1> QED
  BY <1>2, <1>3, <1>4, <1>5, <1>6 DEF Remembered, History

LEMMA NextRemembers == IInv /\ Remembered /\ Next => Remembered'
<1> SUFFICES ASSUME IInv, Remembered, Next PROVE Remembered'
  OBVIOUS
<1>1. IInv' /\ Fits(composed, Last(stream'))
  BY NextKept DEF Kept
<1>2. PICK ev : Step(ev) /\ Event(ev)
  BY NextAppends
<1>3. Last(stream') = ev
  BY <1>2, StreamGrows
<1> QED
  BY <1>1, <1>2, <1>3, HistoryGrows

LEMMA StutterRemembers == Remembered /\ UNCHANGED vars => Remembered'
BY DEF vars, Remembered, History, Truthful, graph

-----------------------------------------------------------------------------
(* The theorems.                                                           *)

(* The inductive invariant: besides the properties, that a recorded        *)
(* Revision's Tasks are in the graph, and that the current Revision of a   *)
(* Plan has been activated on the stream.                                  *)
THEOREM Invariance == Spec => []IInv
<1>1. Init => IInv
  BY InitIInv
<1>2. IInv /\ [Next]_vars => IInv'
  BY NextKept, Stuttered DEF Kept
<1> QED
  BY <1>1, <1>2, PTL DEF Spec

(* The stream is bounded and the graph is typed.                           *)
THEOREM TypeCorrect == Spec => []TypeOK
<1>1. IInv => TypeOK
  BY DEF IInv
<1> QED
  BY <1>1, Invariance, PTL

(* A Task belongs to one Revision for good: WellFormed takes no task_id    *)
(* that the graph knows (handlers.py, _normalized_tasks).                  *)
THEOREM TasksHaveOneRevision == Spec => []TasksBelongToOneRevision
<1>1. IInv => TasksBelongToOneRevision
  BY DEF IInv
<1> QED
  BY <1>1, Invariance, PTL

(* A Plan that is CLOSED or ARCHIVED has no unfinished Task in any of its  *)
(* Revisions, whatever is recorded, activated or moved afterwards.         *)
THEOREM ClosedMeansSettled == Spec => []ClosedPlansAreSettled
<1>1. IInv => ClosedPlansAreSettled
  BY DEF IInv
<1> QED
  BY <1>1, Invariance, PTL

(* No Task was ever started but in a Revision that had been activated.     *)
THEOREM WorkIsInActivatedRevisions == Spec => []WorkedRevisionsWereCurrent
<1>1. IInv => WorkedRevisionsWereCurrent
  BY DEF IInv
<1> QED
  BY <1>1, Invariance, PTL

(* As long as the current Revision of an OPEN Plan has PENDING Tasks, one  *)
(* of its Tasks is ready or under way, or one has failed or was cancelled: *)
(* Tasks never wait for each other in a circle.                            *)
THEOREM NobodyWaitsInACircle == Spec => []NoDependencyDeadlock
<1>1. IInv => NoDependencyDeadlock
  BY FirstPendingIsReady
<1> QED
  BY <1>1, Invariance, PTL

(* _has_cycle, for any dependencies between any finite number of Tasks:    *)
(* a Revision is refused if and only if some Task comes after itself.      *)
THEOREM SearchFindsExactlyTheCycles == Spec => []FindsCycles
<1>1. IInv => FindsCycles
  BY FoundIsCircle
<1> QED
  BY <1>1, Invariance, PTL

(* A read from the latest Snapshot and the events behind it says what the  *)
(* replay of the whole stream says, for the Mission or one Plan, at every  *)
(* seq, although the tail of a Plan's read passes over other Plans' events.*)
THEOREM SnapshotReadsAreReplays == Spec => []SnapshotReadIsReplay
<1>1. Init => IInv /\ Remembered
  BY InitIInv, FirstHistory
<1>2. IInv /\ Remembered /\ [Next]_vars => (IInv /\ Remembered)'
  BY NextKept, NextRemembers, Stuttered, StutterRemembers DEF Kept
<1>3. IInv /\ Remembered => SnapshotReadIsReplay
  BY ReadIsReplay
<1> QED
  BY <1>1, <1>2, <1>3, PTL DEF Spec

(* What a handler of work_graph proposes its reducer accepts.              *)
THEOREM HandlersAgree == Spec => ReducerAcceptsFacts
<1>1. IInv /\ [Next]_vars => [Fits(composed, Last(stream'))]_stream
  BY NextKept DEF Kept, vars
<1> QED
  BY <1>1, Invariance, PTL DEF Spec, ReducerAcceptsFacts

(* Ended Tasks, archived Plans and recorded Revisions are never changed.   *)
THEOREM NothingIsRewritten == Spec => HistoryStands
<1>1. IInv /\ [Next]_vars => [Stands]_vars
  BY NextKept DEF Kept
<1>2. [Stands]_vars =>
        [/\ graph.revisions \subseteq graph'.revisions
         /\ \A t \in Tasks : graph.tasks[t] \in TaskTerminal => graph'.tasks[t] = graph.tasks[t]
         /\ \A p \in Plans : /\ graph.plans[p].state = "ARCHIVED"
                             => graph'.plans[p] = graph.plans[p]]_vars
  BY DEF Stands
<1> QED
  BY <1>1, <1>2, Invariance, PTL DEF Spec, HistoryStands
=============================================================================
