------------------------- MODULE PanelGrounding_proofs -------------------------
(***************************************************************************)
(* Proofs about the grounding of a panel's answer, for any documents,      *)
(* quotes, rules and limits: the search is exact, what is kept passes the  *)
(* gate of every node, correct citations stand and supported quotes are    *)
(* kept.                                                                   *)
(***************************************************************************)
EXTENDS PanelGrounding, SequenceTheorems, FiniteSetTheorems, WellFoundedInduction, TLAPS

-------------------------------------------------------------------------------
(* Counting.  What a loop computes is proved by collecting the indices for *)
(* which it holds.                                                         *)

LEMMA LeastOf ==
    ASSUME NEW S \in SUBSET Nat, S # {}
    PROVE  Min(S) \in S /\ \A i \in S : Min(S) <= i
<1> DEFINE R == OpToRel(<, Nat)
<1>1. IsWellFoundedOn(R, Nat)
  BY NatLessThanWellFounded
<1>2. PICK n \in S : \A m \in S : ~ (<<m, n>> \in R)
  BY <1>1, WFMin
<1>3. \A m \in S : ~ (m < n)
  BY <1>2 DEF OpToRel
<1>4. \E i \in S : \A j \in S : i <= j
  BY <1>3
<1>5. QED
  BY <1>4 DEF Min

LEMMA GreatestOf ==
    ASSUME NEW n \in Nat, NEW S \in SUBSET (0..n), S # {}
    PROVE  Max(S) \in S /\ \A i \in S : i <= Max(S)
<1> DEFINE T == {n - i : i \in S}
<1>1. T \in SUBSET Nat /\ T # {}
  <2>1. \A i \in S : n - i \in Nat
    OBVIOUS
  <2>2. QED
    BY <2>1
<1>2. Min(T) \in T /\ \A j \in T : Min(T) <= j
  BY <1>1, LeastOf
<1>3. PICK k \in S : Min(T) = n - k
  BY <1>2
<1>4. \A i \in S : n - i \in T
  OBVIOUS
<1>5. \A i \in S : k >= i
  BY <1>2, <1>3, <1>4
<1>6. \E i \in S : \A j \in S : i >= j
  BY <1>5
<1>7. QED
  BY <1>6 DEF Max

LEMMA Counting ==
    ASSUME NEW n \in Nat, NEW S, 0 \in S,
           \A i \in 0..n : i < n /\ i \in S => i + 1 \in S
    PROVE  \A i \in 0..n : i \in S
<1> DEFINE Missing == {i \in 0..n : i \notin S}
<1>1. SUFFICES ASSUME Missing # {}
               PROVE  FALSE
  OBVIOUS
<1>2. /\ Min(Missing) \in Missing /\ \A i \in Missing : Min(Missing) <= i
  <2>1. Missing \in SUBSET Nat
    OBVIOUS
  <2>2. QED
    BY <1>1, <2>1, LeastOf
<1>3. PICK m \in Missing : \A i \in Missing : m <= i
  BY <1>2
<1>4. m # 0 /\ m - 1 \in 0..n
  OBVIOUS
<1>5. m - 1 \in S
  BY <1>3, <1>4
<1>6. (m - 1) + 1 \in S
  BY <1>4, <1>5
<1>7. QED
  BY <1>4, <1>6

(* A recursive definition over 0..n has one solution, g; F[i] says how the *)
(* value at i comes from the one before.                                   *)
Runs(g, n, S, base, F) ==
    /\ g \in [0..n -> S]
    /\ g[0] = base
    /\ \A i \in 1..n : g[i] = F[i][g[i - 1]]

LEMMA Iterates ==
    ASSUME NEW n \in Nat, NEW S, NEW base \in S, NEW F \in [1..n -> [S -> S]]
    PROVE  \E g : Runs(g, n, S, base, F)
<1> DEFINE Solved == {k \in 0..n : \E g : Runs(g, k, S, base, F)}
<1>1. 0 \in Solved
  <2> DEFINE h == [i \in 0..0 |-> base]
  <2>1. Runs(h, 0, S, base, F)
    BY DEF Runs
  <2> HIDE DEF h
  <2>2. QED
    BY <2>1
<1>2. ASSUME NEW k \in 0..n, k < n, k \in Solved
      PROVE  k + 1 \in Solved
  <2>1. PICK g : Runs(g, k, S, base, F)
    BY <1>2
  <2> DEFINE next == F[k + 1][g[k]]
             h == [i \in 0..(k + 1) |-> IF i = k + 1 THEN next ELSE g[i]]
  <2>2. next \in S
    <3>1. F[k + 1] \in [S -> S] /\ g[k] \in S
      BY <1>2, <2>1 DEF Runs
    <3>2. QED
      BY <3>1
  <2>3. h \in [0..(k + 1) -> S] /\ h[0] = base
    BY <2>1, <2>2 DEF Runs
  <2>4. ASSUME NEW i \in 1..(k + 1)
        PROVE  h[i] = F[i][h[i - 1]]
    <3>1. CASE i = k + 1
      BY <3>1
    <3>2. CASE i # k + 1
      <4>1. i \in 1..k /\ i - 1 \in 0..k
        BY <3>2
      <4>2. h[i] = g[i] /\ h[i - 1] = g[i - 1]
        BY <4>1
      <4>3. QED
        BY <2>1, <4>1, <4>2 DEF Runs
    <3>3. QED
      BY <3>1, <3>2
  <2> HIDE DEF h
  <2>5. Runs(h, k + 1, S, base, F)
    BY <2>3, <2>4 DEF Runs
  <2>6. k + 1 \in 0..n
    BY <1>2
  <2>7. QED
    BY <2>5, <2>6
<1>3. \A k \in 0..n : k \in Solved
  <2> HIDE DEF Solved
  <2>1. \A k \in 0..n : k < n /\ k \in Solved => k + 1 \in Solved
    BY <1>2
  <2>2. QED
    BY <1>1, <2>1, Counting
<1>4. QED
  BY <1>3

LEMMA IteratesOnce ==
    ASSUME NEW n \in Nat, NEW S, NEW base, NEW F, NEW g, Runs(g, n, S, base, F),
           NEW h, h[0] = base,
           \A i \in 1..n : h[i - 1] \in S => h[i] = F[i][h[i - 1]]
    PROVE  \A i \in 0..n : h[i] = g[i]
<1> DEFINE Same == {i \in 0..n : h[i] = g[i]}
<1>1. 0 \in Same
  BY DEF Runs
<1>2. ASSUME NEW i \in 0..n, i < n, i \in Same
      PROVE  i + 1 \in Same
  <2>1. i + 1 \in 1..n /\ (i + 1) - 1 = i
    BY <1>2
  <2>2. h[i] = g[i] /\ g[i] \in S
    BY <1>2 DEF Runs
  <2>3. QED
    BY <2>1, <2>2 DEF Runs
<1>3. \A i \in 0..n : i \in Same
  <2> HIDE DEF Same
  <2>1. \A i \in 0..n : i < n /\ i \in Same => i + 1 \in Same
    BY <1>2
  <2>2. QED
    BY <1>1, <2>1, Counting
<1>4. QED
  BY <1>3

-------------------------------------------------------------------------------
(* What the recursive definitions compute.                                 *)

LEMMA PickedIs ==
    ASSUME NEW T, NEW s \in Seq(T), NEW at
    PROVE  \E g \in [0..Len(s) -> Seq(T)] :
              /\ g[0] = <<>>
              /\ \A n \in 1..Len(s) : g[n] = IF n \in at THEN Append(g[n - 1], s[n]) ELSE g[n - 1]
              /\ Picked(s, at) = g[Len(s)]
<1> DEFINE F == [n \in 1..Len(s) |-> [x \in Seq(T) |-> IF n \in at THEN Append(x, s[n]) ELSE x]]
           Is(h) == h = [n \in 0..Len(s) |-> IF n = 0 THEN <<>>
                                             ELSE IF n \in at THEN Append(h[n - 1], s[n]) ELSE h[n - 1]]
           chosen == CHOOSE h : Is(h)
<1>1. Len(s) \in Nat /\ <<>> \in Seq(T)
  BY LenProperties, EmptySeq
<1>2. F \in [1..Len(s) -> [Seq(T) -> Seq(T)]]
  <2>1. \A n \in 1..Len(s), x \in Seq(T) : Append(x, s[n]) \in Seq(T)
    BY ElementOfSeq, AppendProperties
  <2>2. QED
    BY <2>1
<1>3. \E g : Runs(g, Len(s), Seq(T), <<>>, F)
  <2> HIDE DEF F
  <2>1. QED
    BY <1>1, <1>2, Iterates
<1>4. PICK g : Runs(g, Len(s), Seq(T), <<>>, F)
  BY <1>3
<1>5. /\ g \in [0..Len(s) -> Seq(T)] /\ g[0] = <<>>
      /\ \A n \in 1..Len(s) : g[n] = F[n][g[n - 1]] /\ g[n - 1] \in Seq(T)
  <2> HIDE DEF F
  <2>1. \A n \in 1..Len(s) : n - 1 \in 0..Len(s)
    BY <1>1
  <2>2. QED
    BY <1>4, <2>1 DEF Runs
<1>6. \A n \in 1..Len(s) : g[n] = IF n \in at THEN Append(g[n - 1], s[n]) ELSE g[n - 1]
  BY <1>5
<1>7. Is(g)
  <2>1. \A n \in 0..Len(s) : n = 0 \/ n \in 1..Len(s)
    BY <1>1
  <2>2. \A n \in 0..Len(s) : g[n] = IF n = 0 THEN <<>>
                                    ELSE IF n \in at THEN Append(g[n - 1], s[n]) ELSE g[n - 1]
    BY <1>5, <1>6, <2>1
  <2>3. QED
    BY <1>5, <2>2
<1>8. Picked(s, at) = chosen[Len(s)]
  BY DEF Picked
<1>9. Is(chosen)
  <2> HIDE DEF Is
  <2>1. QED
    BY <1>7
<1>10. \A n \in 0..Len(s) : chosen[n] = IF n = 0 THEN <<>>
                                        ELSE IF n \in at THEN Append(chosen[n - 1], s[n]) ELSE chosen[n - 1]
  <2> HIDE DEF chosen
  <2>1. QED
    BY <1>9
<1>11. /\ chosen[0] = <<>>
       /\ \A n \in 1..Len(s) : chosen[n - 1] \in Seq(T) => chosen[n] = F[n][chosen[n - 1]]
  <2> HIDE DEF chosen, Is
  <2>1. \A n \in 1..Len(s) : n \in 0..Len(s) /\ n # 0
    BY <1>1
  <2>2. QED
    BY <1>1, <1>10, <2>1
<1>12. chosen[Len(s)] = g[Len(s)]
  <2> HIDE DEF F, chosen, Is
  <2>1. \A n \in 0..Len(s) : chosen[n] = g[n]
    BY <1>1, <1>4, <1>11, IteratesOnce
  <2>2. QED
    BY <1>1, <2>1
<1>13. QED
  <2> HIDE DEF F, chosen, Is
  <2>1. Picked(s, at) = g[Len(s)]
    BY <1>8, <1>12
  <2>2. QED
    BY <1>5, <1>6, <2>1

LEMMA CharactersIs ==
    ASSUME NEW text \in Seq(DOMAIN Width)
    PROVE  \E g \in [0..Len(text) -> Nat] :
              /\ g[0] = 0
              /\ \A n \in 1..Len(text) : g[n] = g[n - 1] + Width[text[n]] + (IF n = 1 THEN 0 ELSE 1)
              /\ Characters(text) = g[Len(text)]
<1> DEFINE F == [n \in 1..Len(text) |-> [x \in Nat |-> x + Width[text[n]] + (IF n = 1 THEN 0 ELSE 1)]]
           Is(h) == h = [n \in 0..Len(text) |-> IF n = 0 THEN 0
                                                ELSE h[n - 1] + Width[text[n]] + (IF n = 1 THEN 0 ELSE 1)]
           chosen == CHOOSE h : Is(h)
<1>1. Len(text) \in Nat /\ 0 \in Nat
  BY LenProperties
<1>2. F \in [1..Len(text) -> [Nat -> Nat]]
  <2>1. \A n \in 1..Len(text) : Width[text[n]] \in Nat
    BY ElementOfSeq, WidthsArePositive
  <2>2. QED
    BY <2>1
<1>3. \E g : Runs(g, Len(text), Nat, 0, F)
  <2> HIDE DEF F
  <2>1. QED
    BY <1>1, <1>2, Iterates
<1>4. PICK g : Runs(g, Len(text), Nat, 0, F)
  BY <1>3
<1>5. /\ g \in [0..Len(text) -> Nat] /\ g[0] = 0
      /\ \A n \in 1..Len(text) : g[n] = F[n][g[n - 1]] /\ g[n - 1] \in Nat
  <2> HIDE DEF F
  <2>1. \A n \in 1..Len(text) : n - 1 \in 0..Len(text)
    BY <1>1
  <2>2. QED
    BY <1>4, <2>1 DEF Runs
<1>6. \A n \in 1..Len(text) : g[n] = g[n - 1] + Width[text[n]] + (IF n = 1 THEN 0 ELSE 1)
  BY <1>5
<1>7. Is(g)
  <2>1. \A n \in 0..Len(text) : n = 0 \/ n \in 1..Len(text)
    BY <1>1
  <2>2. \A n \in 0..Len(text) : g[n] = IF n = 0 THEN 0
                                       ELSE g[n - 1] + Width[text[n]] + (IF n = 1 THEN 0 ELSE 1)
    BY <1>5, <1>6, <2>1
  <2>3. QED
    BY <1>5, <2>2
<1>8. Characters(text) = chosen[Len(text)]
  BY DEF Characters
<1>9. Is(chosen)
  <2> HIDE DEF Is
  <2>1. QED
    BY <1>7
<1>10. \A n \in 0..Len(text) : chosen[n] = IF n = 0 THEN 0
                                           ELSE chosen[n - 1] + Width[text[n]] + (IF n = 1 THEN 0 ELSE 1)
  <2> HIDE DEF chosen
  <2>1. QED
    BY <1>9
<1>11. /\ chosen[0] = 0
       /\ \A n \in 1..Len(text) : chosen[n - 1] \in Nat => chosen[n] = F[n][chosen[n - 1]]
  <2> HIDE DEF chosen, Is
  <2>1. \A n \in 1..Len(text) : n \in 0..Len(text) /\ n # 0
    BY <1>1
  <2>2. QED
    BY <1>1, <1>10, <2>1
<1>12. chosen[Len(text)] = g[Len(text)]
  <2> HIDE DEF F, chosen, Is
  <2>1. \A n \in 0..Len(text) : chosen[n] = g[n]
    BY <1>1, <1>4, <1>11, IteratesOnce
  <2>2. QED
    BY <1>1, <2>1
<1>13. QED
  <2> HIDE DEF F, chosen, Is
  <2>1. Characters(text) = g[Len(text)]
    BY <1>8, <1>12
  <2>2. QED
    BY <1>5, <1>6, <2>1

-------------------------------------------------------------------------------
(* The search.                                                             *)

Word == DOMAIN Width
Text == Seq(Word)

LEMMA FragmentType ==
    ASSUME NEW text \in Text, NEW i \in Starts(text)
    PROVE  i \in 1..Len(text) /\ Fragment(text, i) \in Text /\ Len(Fragment(text, i)) \in Nat
<1> DEFINE ends == {j \in i..Len(text) : j = Len(text) \/ text[j + 1] = Ellipsis}
<1>1. Len(text) \in Nat /\ DOMAIN text = 1..Len(text)
  BY LenProperties DEF Text
<1>2. i \in 1..Len(text)
  BY <1>1 DEF Starts
<1>3. Len(text) \in ends /\ ends \in SUBSET Nat
  BY <1>1, <1>2
<1>4. Min(ends) \in ends
  <2> HIDE DEF ends
  <2>1. QED
    BY <1>3, LeastOf
<1>5. Min(ends) \in i..Len(text)
  BY <1>4
<1>6. SubSeq(text, i, Min(ends)) \in Text
  <2> HIDE DEF ends
  <2>1. QED
    BY <1>1, <1>2, <1>5, SubSeqProperties DEF Text
<1>7. Fragment(text, i) \in Text
  BY <1>6 DEF Fragment
<1>8. QED
  BY <1>2, <1>7, LenProperties DEF Text

LEMMA FindRunIs ==
    ASSUME NEW source \in Text, NEW needle, Len(needle) \in Nat, NEW start \in Nat
    PROVE  \/ /\ FindRun(source, needle, start) = NotFound
              /\ \A i \in start..Len(source) : ~OccursAt(source, needle, i)
           \/ \E i \in start..Len(source) :
                 /\ OccursAt(source, needle, i)
                 /\ FindRun(source, needle, start) = i + Len(needle)
                 /\ \A j \in start..Len(source) : OccursAt(source, needle, j) => i <= j
<1> DEFINE starts == {i \in start..Len(source) : OccursAt(source, needle, i)}
<1>1. CASE starts = {}
  BY <1>1 DEF FindRun
<1>2. CASE starts # {}
  <2>1. starts \in SUBSET Nat
    OBVIOUS
  <2>2. Min(starts) \in starts /\ \A i \in starts : Min(starts) <= i
    <3> HIDE DEF starts
    <3>1. QED
      BY <1>2, <2>1, LeastOf
  <2>3. FindRun(source, needle, start) = Min(starts) + Len(needle)
    BY <1>2 DEF FindRun
  <2>4. QED
    BY <2>2, <2>3
<1>3. QED
  BY <1>1, <1>2

Reached(source) == {NotFound} \union 0..Len(source)

LEMMA FindRunType ==
    ASSUME NEW source \in Text, NEW needle, Len(needle) \in Nat,
           NEW start \in Reached(source), start # NotFound
    PROVE  FindRun(source, needle, start) \in Reached(source)
<1>1. Len(source) \in Nat /\ start \in Nat
  BY LenProperties DEF Text, Reached
<1>2. FindRun(source, needle, start) = NotFound
        \/ \E i \in start..Len(source) : /\ OccursAt(source, needle, i)
                                         /\ FindRun(source, needle, start) = i + Len(needle)
  BY <1>1, FindRunIs
<1>3. ASSUME NEW i \in start..Len(source), OccursAt(source, needle, i)
      PROVE  i + Len(needle) \in 0..Len(source)
  BY <1>1, <1>3 DEF OccursAt
<1>4. QED
  BY <1>2, <1>3 DEF Reached

LEMMA SearchIs ==
    ASSUME NEW text \in Text, NEW source \in Text
    PROVE  \E g \in [0..Len(text) -> Reached(source)] :
              /\ g[0] = 0
              /\ \A n \in 1..Len(text) : g[n] = IF n \in Starts(text) /\ g[n - 1] # NotFound
                                         THEN FindRun(source, Fragment(text, n), g[n - 1]) ELSE g[n - 1]
              /\ Search(text, source) = g[Len(text)]
<1> DEFINE F == [n \in 1..Len(text) |-> [x \in Reached(source) |-> IF n \in Starts(text) /\ x # NotFound
                                                THEN FindRun(source, Fragment(text, n), x) ELSE x]]
           Is(h) == h = [n \in 0..Len(text) |-> IF n = 0 THEN 0
                                                ELSE IF n \in Starts(text) /\ h[n - 1] # NotFound
                                         THEN FindRun(source, Fragment(text, n), h[n - 1]) ELSE h[n - 1]]
           chosen == CHOOSE h : Is(h)
<1>1. Len(text) \in Nat /\ 0 \in Reached(source)
  BY LenProperties DEF Text, Reached
<1>2. F \in [1..Len(text) -> [Reached(source) -> Reached(source)]]
  <2>1. \A n \in Starts(text), x \in Reached(source) :
           x # NotFound => FindRun(source, Fragment(text, n), x) \in Reached(source)
    BY FragmentType, FindRunType
  <2>2. QED
    BY <2>1
<1>3. \E g : Runs(g, Len(text), Reached(source), 0, F)
  <2> HIDE DEF F
  <2>1. QED
    BY <1>1, <1>2, Iterates
<1>4. PICK g : Runs(g, Len(text), Reached(source), 0, F)
  BY <1>3
<1>5. /\ g \in [0..Len(text) -> Reached(source)] /\ g[0] = 0
      /\ \A n \in 1..Len(text) : g[n] = F[n][g[n - 1]] /\ g[n - 1] \in Reached(source)
  <2> HIDE DEF F
  <2>1. \A n \in 1..Len(text) : n - 1 \in 0..Len(text)
    BY <1>1
  <2>2. QED
    BY <1>4, <2>1 DEF Runs
<1>6. \A n \in 1..Len(text) : g[n] = IF n \in Starts(text) /\ g[n - 1] # NotFound
                                         THEN FindRun(source, Fragment(text, n), g[n - 1]) ELSE g[n - 1]
  BY <1>5
<1>7. Is(g)
  <2>1. \A n \in 0..Len(text) : n = 0 \/ n \in 1..Len(text)
    BY <1>1
  <2>2. \A n \in 0..Len(text) : g[n] = IF n = 0 THEN 0
                                       ELSE IF n \in Starts(text) /\ g[n - 1] # NotFound
                                         THEN FindRun(source, Fragment(text, n), g[n - 1]) ELSE g[n - 1]
    BY <1>5, <1>6, <2>1
  <2>3. QED
    BY <1>5, <2>2
<1>8. Search(text, source) = chosen[Len(text)]
  BY DEF Search
<1>9. Is(chosen)
  <2> HIDE DEF Is
  <2>1. QED
    BY <1>7
<1>10. \A n \in 0..Len(text) : chosen[n] = IF n = 0 THEN 0
                                           ELSE IF n \in Starts(text) /\ chosen[n - 1] # NotFound
                                         THEN FindRun(source, Fragment(text, n), chosen[n - 1]) ELSE chosen[n - 1]
  <2> HIDE DEF chosen
  <2>1. QED
    BY <1>9
<1>11. /\ chosen[0] = 0
       /\ \A n \in 1..Len(text) : chosen[n - 1] \in Reached(source) => chosen[n] = F[n][chosen[n - 1]]
  <2> HIDE DEF chosen, Is
  <2>1. \A n \in 1..Len(text) : n \in 0..Len(text) /\ n # 0
    BY <1>1
  <2>2. QED
    BY <1>1, <1>10, <2>1
<1>12. chosen[Len(text)] = g[Len(text)]
  <2> HIDE DEF F, chosen, Is
  <2>1. \A n \in 0..Len(text) : chosen[n] = g[n]
    BY <1>1, <1>4, <1>11, IteratesOnce
  <2>2. QED
    BY <1>1, <2>1
<1>13. QED
  <2> HIDE DEF F, chosen, Is
  <2>1. Search(text, source) = g[Len(text)]
    BY <1>8, <1>12
  <2>2. QED
    BY <1>5, <1>6, <2>1

-------------------------------------------------------------------------------
(* The search is exact: taking each fragment at its first occurrence never *)
(* leaves less room for those that follow.                                 *)

LEMMA PlacedIsFound ==
    ASSUME NEW text \in Text, NEW source \in Text, Placed(text, source)
    PROVE  Search(text, source) # NotFound
<1>1. PICK g \in [0..Len(text) -> Reached(source)] :
         /\ g[0] = 0
         /\ \A n \in 1..Len(text) : g[n] = IF n \in Starts(text) /\ g[n - 1] # NotFound
                                    THEN FindRun(source, Fragment(text, n), g[n - 1]) ELSE g[n - 1]
         /\ Search(text, source) = g[Len(text)]
  BY SearchIs
<1>2. PICK at \in [Starts(text) -> 0..Len(source)] :
         \A i \in Starts(text) :
            /\ OccursAt(source, Fragment(text, i), at[i])
            /\ \A j \in Starts(text) : j < i => at[j] + Len(Fragment(text, j)) <= at[i]
  BY DEF Placed
<1> DEFINE Room(i) == g[i] # NotFound /\ \A j \in Starts(text) : j > i => g[i] <= at[j]
           Roomy == {i \in 0..Len(text) : Room(i)}
<1>3. Len(text) \in Nat /\ Len(source) \in Nat
  BY LenProperties DEF Text
<1>4. Room(0)
  BY <1>1, <1>2, <1>3 DEF NotFound
<1>5. ASSUME NEW i \in 0..Len(text), i < Len(text), Room(i)
      PROVE  Room(i + 1)
  <2> DEFINE n == i + 1
  <2>1. n \in 1..Len(text) /\ n - 1 = i
    BY <1>3, <1>5
  <2>2. CASE n \notin Starts(text)
    <3>1. g[n] = g[i]
      BY <1>1, <2>1, <2>2
    <3>2. \A j \in Starts(text) : j > n => j > i
      BY FragmentType
    <3>3. QED
      BY <1>5, <3>1, <3>2
  <2>3. CASE n \in Starts(text)
    <3> DEFINE needle == Fragment(text, n)
    <3>1. g[n] = FindRun(source, needle, g[i])
      BY <1>1, <1>5, <2>1, <2>3
    <3>2. g[i] \in Nat /\ Len(needle) \in Nat
      <4>1. g[i] \in Reached(source) /\ g[i] # NotFound
        BY <1>5
      <4>2. QED
        BY <2>3, <4>1, <1>3, FragmentType DEF Reached
    <3>3. at[n] \in g[i]..Len(source) /\ OccursAt(source, needle, at[n])
      BY <1>2, <1>5, <2>1, <2>3, <3>2, <1>3
    <3>4. PICK k \in g[i]..Len(source) : g[n] = k + Len(needle) /\ k <= at[n]
      <4> HIDE DEF needle, n
      <4>1. QED
        BY <3>1, <3>2, <3>3, FindRunIs
    <3>5. g[n] # NotFound
      BY <3>2, <3>4 DEF NotFound
    <3>6. ASSUME NEW j \in Starts(text), j > n
          PROVE  g[n] <= at[j]
      <4>1. at[n] + Len(needle) <= at[j] /\ at[j] \in Nat /\ at[n] \in Nat
        BY <1>2, <2>3, <3>6, <1>3
      <4> HIDE DEF needle, n
      <4>2. QED
        BY <3>2, <3>4, <4>1
    <3>7. QED
      BY <3>5, <3>6
  <2>4. QED
    BY <2>2, <2>3
<1>6. \A i \in 0..Len(text) : i \in Roomy
  <2>1. 0 \in Roomy
    BY <1>3, <1>4
  <2>2. \A i \in 0..Len(text) : i < Len(text) /\ i \in Roomy => i + 1 \in Roomy
    <3> HIDE DEF Room
    <3>1. QED
      BY <1>3, <1>5
  <2> HIDE DEF Roomy
  <2>3. QED
    BY <1>3, <2>1, <2>2, Counting
<1>7. Room(Len(text))
  BY <1>3, <1>6
<1>8. QED
  BY <1>1, <1>7

LEMMA FoundIsPlaced ==
    ASSUME NEW text \in Text, NEW source \in Text, Search(text, source) # NotFound
    PROVE  Placed(text, source)
<1>1. PICK g \in [0..Len(text) -> Reached(source)] :
         /\ g[0] = 0
         /\ \A n \in 1..Len(text) : g[n] = IF n \in Starts(text) /\ g[n - 1] # NotFound
                                    THEN FindRun(source, Fragment(text, n), g[n - 1]) ELSE g[n - 1]
         /\ Search(text, source) = g[Len(text)]
  BY SearchIs
<1>2. Len(text) \in Nat /\ Len(source) \in Nat
  BY LenProperties DEF Text
<1>3. \A i \in 0..Len(text) : g[i] # NotFound
  <2> DEFINE Live == {k \in 0..Len(text) : g[Len(text) - k] # NotFound}
  <2>1. 0 \in Live
    BY <1>1, <1>2
  <2>2. ASSUME NEW k \in 0..Len(text), k < Len(text), k \in Live
        PROVE  k + 1 \in Live
    <3>1. Len(text) - k \in 1..Len(text) /\ (Len(text) - k) - 1 = Len(text) - (k + 1)
      BY <1>2, <2>2
    <3>2. g[(Len(text) - k) - 1] # NotFound
      BY <1>1, <2>2, <3>1
    <3>3. QED
      BY <1>2, <2>2, <3>1, <3>2
  <2>3. \A k \in 0..Len(text) : k \in Live
    <3> HIDE DEF Live
    <3>1. \A k \in 0..Len(text) : k < Len(text) /\ k \in Live => k + 1 \in Live
      BY <2>2
    <3>2. QED
      BY <1>2, <2>1, <3>1, Counting
  <2>4. ASSUME NEW i \in 0..Len(text)
        PROVE  g[i] # NotFound
    <3>1. Len(text) - i \in 0..Len(text) /\ Len(text) - (Len(text) - i) = i
      BY <1>2
    <3>2. Len(text) - i \in Live
      BY <2>3, <3>1
    <3>3. QED
      BY <3>1, <3>2
  <2>5. QED
    BY <2>4
<1>4. \A i \in 0..Len(text) : g[i] \in 0..Len(source)
  BY <1>1, <1>3 DEF Reached
<1>5. \A i \in Starts(text) :
         \E k \in g[i - 1]..Len(source) :
            OccursAt(source, Fragment(text, i), k) /\ g[i] = k + Len(Fragment(text, i))
  <2> SUFFICES ASSUME NEW i \in Starts(text)
               PROVE  \E k \in g[i - 1]..Len(source) :
                         /\ OccursAt(source, Fragment(text, i), k)
                         /\ g[i] = k + Len(Fragment(text, i))
    OBVIOUS
  <2>1. i \in 1..Len(text) /\ i - 1 \in 0..Len(text) /\ i \in 0..Len(text) /\ Len(Fragment(text, i)) \in Nat
    BY FragmentType, <1>2
  <2>2. g[i] = FindRun(source, Fragment(text, i), g[i - 1]) /\ g[i] # NotFound /\ g[i - 1] \in Nat
    BY <1>1, <1>3, <1>4, <2>1
  <2>3. QED
    BY <2>1, <2>2, FindRunIs
<1>6. \A i \in 1..Len(text) : g[i - 1] <= g[i]
  <2> SUFFICES ASSUME NEW i \in 1..Len(text)
               PROVE  g[i - 1] <= g[i]
    OBVIOUS
  <2>1. i - 1 \in 0..Len(text) /\ i \in 0..Len(text)
    BY <1>2
  <2>2. CASE i \in Starts(text)
    <3>1. Len(Fragment(text, i)) \in Nat
      BY <2>2, FragmentType
    <3>2. g[i - 1] \in Nat
      BY <1>4, <2>1
    <3>3. PICK k \in g[i - 1]..Len(source) : g[i] = k + Len(Fragment(text, i))
      BY <1>5, <2>2
    <3>4. QED
      BY <3>1, <3>2, <3>3, <1>2
  <2>3. CASE i \notin Starts(text)
    BY <1>1, <1>4, <2>1, <2>3
  <2>4. QED
    BY <2>2, <2>3
<1>7. \A i \in 0..Len(text) : \A j \in 0..i : g[j] <= g[i]
  <2> DEFINE Above == {i \in 0..Len(text) : \A j \in 0..i : g[j] <= g[i]}
  <2>1. 0 \in Above
    BY <1>2, <1>4
  <2>2. ASSUME NEW i \in 0..Len(text), i < Len(text), i \in Above
        PROVE  i + 1 \in Above
    <3>1. i + 1 \in 1..Len(text) /\ i + 1 \in 0..Len(text) /\ (i + 1) - 1 = i
      BY <1>2, <2>2
    <3>2. g[i] <= g[i + 1] /\ g[i] \in Nat /\ g[i + 1] \in Nat
      BY <1>4, <1>6, <3>1
    <3>3. ASSUME NEW j \in 0..(i + 1)
          PROVE  g[j] <= g[i + 1]
      <4>1. CASE j = i + 1
        BY <4>1, <3>2
      <4>2. CASE j # i + 1
        <5>1. j \in 0..i /\ j \in 0..Len(text)
          BY <4>2, <1>2
        <5>2. g[j] <= g[i] /\ g[j] \in Nat
          BY <2>2, <5>1, <1>4
        <5>3. QED
          BY <3>2, <5>2
      <4>3. QED
        BY <4>1, <4>2
    <3>4. QED
      BY <3>1, <3>3
  <2>3. \A i \in 0..Len(text) : i \in Above
    <3> HIDE DEF Above
    <3>1. \A i \in 0..Len(text) : i < Len(text) /\ i \in Above => i + 1 \in Above
      BY <2>2
    <3>2. QED
      BY <1>2, <2>1, <3>1, Counting
  <2>4. QED
    BY <2>3
<1> DEFINE at == [i \in Starts(text) |-> g[i] - Len(Fragment(text, i))]
<1>8. \A i \in Starts(text) : /\ at[i] \in 0..Len(source) /\ g[i - 1] <= at[i]
                              /\ at[i] + Len(Fragment(text, i)) = g[i]
                              /\ OccursAt(source, Fragment(text, i), at[i])
  <2> SUFFICES ASSUME NEW i \in Starts(text)
               PROVE  /\ at[i] \in 0..Len(source) /\ g[i - 1] <= at[i]
                      /\ at[i] + Len(Fragment(text, i)) = g[i]
                      /\ OccursAt(source, Fragment(text, i), at[i])
    OBVIOUS
  <2>1. i \in 1..Len(text) /\ i - 1 \in 0..Len(text) /\ Len(Fragment(text, i)) \in Nat
    BY FragmentType, <1>2
  <2>2. PICK k \in g[i - 1]..Len(source) :
           OccursAt(source, Fragment(text, i), k) /\ g[i] = k + Len(Fragment(text, i))
    BY <1>5
  <2>3. g[i - 1] \in Nat /\ k \in Nat
    BY <1>4, <2>1, <2>2, <1>2
  <2>4. at[i] = k
    BY <2>1, <2>2, <2>3
  <2> HIDE DEF at
  <2>5. QED
    BY <2>1, <2>2, <2>3, <2>4, <1>2
<1>9. ASSUME NEW i \in Starts(text), NEW j \in Starts(text), j < i
      PROVE  at[j] + Len(Fragment(text, j)) <= at[i]
  <2>1. i \in 1..Len(text) /\ j \in 1..Len(text)
    BY FragmentType
  <2>2. i - 1 \in 0..Len(text) /\ j \in 0..(i - 1) /\ j \in 0..Len(text)
    BY <2>1, <1>9, <1>2
  <2>3. g[j] <= g[i - 1] /\ g[j] \in Nat /\ g[i - 1] \in Nat
    BY <1>4, <1>7, <2>2
  <2>4. at[j] + Len(Fragment(text, j)) = g[j] /\ g[i - 1] <= at[i] /\ at[i] \in Nat
    BY <1>8, <1>2
  <2> HIDE DEF at
  <2>5. QED
    BY <2>3, <2>4
<1>10. at \in [Starts(text) -> 0..Len(source)]
  BY <1>8
<1>11. QED
  <2> HIDE DEF at
  <2>1. QED
    BY <1>8, <1>9, <1>10 DEF Placed

LEMMA SearchExact ==
    ASSUME NEW text \in Text, NEW source \in Text
    PROVE  Search(text, source) # NotFound <=> Placed(text, source)
BY PlacedIsFound, FoundIsPlaced

-------------------------------------------------------------------------------
(* Cutting and keeping one quote.                                          *)

LEMMA CharactersType ==
    ASSUME NEW text \in Text
    PROVE  Characters(text) \in Nat
<1>1. PICK g \in [0..Len(text) -> Nat] : Characters(text) = g[Len(text)]
  BY CharactersIs DEF Text, Word
<1>2. Len(text) \in 0..Len(text)
  BY LenProperties DEF Text
<1>3. QED
  BY <1>1, <1>2

LEMMA NothingIsEmpty == <<>> \in Text /\ Characters(<<>>) = 0 /\ WordCount(<<>>) = 0
<1>1. <<>> \in Text /\ Len(<<>>) = 0 /\ DOMAIN <<>> = {}
  BY EmptySeq DEF Text
<1>2. Characters(<<>>) = 0
  <2>1. \E g \in [0..Len(<<>>) -> Nat] : g[0] = 0 /\ Characters(<<>>) = g[Len(<<>>)]
    BY <1>1, CharactersIs DEF Text, Word
  <2>2. QED
    BY <1>1, <2>1
<1>3. WordCount(<<>>) = 0
  <2>1. {i \in DOMAIN <<>> : <<>>[i] # Ellipsis} = {}
    BY <1>1
  <2>2. QED
    BY <2>1, FS_EmptySet DEF WordCount
<1>4. QED
  BY <1>1, <1>2, <1>3

\* An over-long quote is cut to a text within the cap.
LEMMA CutType ==
    ASSUME NEW text \in Text
    PROVE  Cut(text) \in Text /\ Characters(Cut(text)) \in 0..QUOTE_CAP
<1>1. Characters(text) \in Nat /\ QUOTE_CAP \in Nat /\ Len(text) \in Nat
  BY CharactersType, GroundingLimits, LenProperties DEF Text
<1>2. CASE Characters(text) <= QUOTE_CAP
  BY <1>1, <1>2 DEF Cut
<1>3. CASE ~(Characters(text) <= QUOTE_CAP)
  <2> DEFINE kept == {n \in 0..Len(text) : n = 0 \/ Characters(SubSeq(text, 1, n)) < QUOTE_CAP}
             last == Max(kept)
  <2>1. Cut(text) = SubSeq(text, 1, last)
    BY <1>3 DEF Cut
  <2>2. last \in kept
    <3>1. kept \in SUBSET (0..Len(text)) /\ kept # {}
      BY <1>1
    <3> HIDE DEF kept
    <3>2. QED
      BY <1>1, <3>1, GreatestOf
  <2>3. last \in 0..Len(text) /\ (last = 0 \/ Characters(SubSeq(text, 1, last)) < QUOTE_CAP)
    BY <2>2
  <2> HIDE DEF last
  <2>4. SubSeq(text, 1, last) \in Text
    BY <1>1, <2>3, SubSeqProperties DEF Text
  <2>5. Characters(SubSeq(text, 1, last)) \in Nat
    BY <2>4, CharactersType
  <2>6. CASE last = 0
    <3>1. SubSeq(text, 1, 0) = <<>>
      BY SubSeqProperties DEF Text
    <3>2. Cut(text) = <<>>
      BY <2>1, <2>6, <3>1
    <3>3. QED
      BY <1>1, <3>2, NothingIsEmpty
  <2>7. CASE last # 0
    BY <1>1, <2>1, <2>3, <2>4, <2>5, <2>7
  <2>8. QED
    BY <2>6, <2>7
<1>4. QED
  BY <1>2, <1>3

LEMMA FirstHoldingHolds ==
    ASSUME NEW D, NEW eligible \in Seq(D),
           NEW holding \in SUBSET Range(eligible), holding # {}, NEW cited
    PROVE  FirstHolding(holding, cited, eligible) \in holding
<1> DEFINE at == {k \in DOMAIN eligible : eligible[k] \in holding}
<1>1. DOMAIN eligible \subseteq Nat
  BY LenProperties
<1>2. at \in SUBSET Nat /\ at # {}
  BY <1>1 DEF Range
<1>3. Min(at) \in at
  <2> HIDE DEF at
  <2>1. QED
    BY <1>2, LeastOf
<1>4. eligible[Min(at)] \in holding
  BY <1>3
<1>5. QED
  BY <1>4 DEF FirstHolding

(* What becomes of the i-th quote of an answer.                            *)
Offered(t, i) == Cut(t.quotes[i].text)
Holders(t, i) == Holding(Offered(t, i), t.eligible, t.texts)
Grounded(t, i) == GroundQuote(t.quotes[i], t.eligible, t.texts)

LEMMA TaskType ==
    ASSUME NEW t \in Tasks
    PROVE  /\ t.texts \in [DOMAIN t.texts -> Text]
           /\ t.eligible \in Seq(DOMAIN t.texts) /\ IsInjective(t.eligible)
           /\ Range(t.eligible) \subseteq DOMAIN t.texts
           /\ Undecided \in t.vocab /\ Undecided # t.rule.state
           /\ Len(t.quotes) \in Nat /\ DOMAIN t.quotes = 1..Len(t.quotes)
           /\ \A i \in 1..Len(t.quotes) : t.quotes[i].text \in Text /\ Offered(t, i) \in Text
<1>1. /\ t.texts \in [DOMAIN t.texts -> Text]
      /\ t.eligible \in Seq(DOMAIN t.texts) /\ IsInjective(t.eligible)
      /\ Undecided \in t.vocab /\ Undecided # t.rule.state
      /\ t.quotes \in Seq([text: Text, cited: DOMAIN t.texts \union {NoReference}])
  BY TasksAreAnswers DEF Text, Word
<1>2. Range(t.eligible) \subseteq DOMAIN t.texts
  BY <1>1, ElementOfSeq, LenProperties DEF Range
<1>3. Len(t.quotes) \in Nat /\ DOMAIN t.quotes = 1..Len(t.quotes)
  BY <1>1, LenProperties
<1>4. ASSUME NEW i \in 1..Len(t.quotes)
      PROVE  t.quotes[i].text \in Text
  <2>1. t.quotes[i] \in [text: Text, cited: DOMAIN t.texts \union {NoReference}]
    BY <1>1, ElementOfSeq
  <2>2. QED
    BY <2>1
<1>5. \A i \in 1..Len(t.quotes) : Offered(t, i) \in Text
  BY <1>4, CutType DEF Offered
<1>6. QED
  BY <1>1, <1>2, <1>3, <1>4, <1>5

\* Searching the documents themselves, not the empty stand-in of the boundary.
LEMMA HoldersAre ==
    ASSUME NEW t \in Tasks, NEW text
    PROVE  Holding(text, t.eligible, t.texts) =
              {e \in Range(t.eligible) :
                  WordCount(text) >= 2 /\ Search(text, t.texts[e]) # NotFound}
<1>1. Range(t.eligible) \subseteq DOMAIN t.texts
  BY TaskType
<1>2. \A e \in Range(t.eligible) : t.texts # NoTexts
  <2>1. DOMAIN NoTexts = {}
    BY EmptySeq DEF NoTexts
  <2>2. QED
    BY <1>1, <2>1
<1>3. ASSUME NEW e \in Range(t.eligible)
      PROVE  QuoteGrounded([evidence_id |-> e, text |-> text], t.eligible, t.texts)
                <=> WordCount(text) >= 2 /\ Search(text, t.texts[e]) # NotFound
  BY <1>1, <1>2, <1>3 DEF QuoteGrounded
<1>4. QED
  BY <1>3 DEF Holding

LEMMA GroundQuoteIs ==
    ASSUME NEW t \in Tasks, NEW i \in 1..Len(t.quotes)
    PROVE  \/ /\ Grounded(t, i) = Nowhere
              /\ Characters(Offered(t, i)) < QUOTE_MIN \/ Holders(t, i) = {}
           \/ /\ Grounded(t, i) # Nowhere
              /\ Characters(Offered(t, i)) >= QUOTE_MIN
              /\ Grounded(t, i) = [evidence_id |-> Grounded(t, i).evidence_id, text |-> Offered(t, i)]
              /\ Grounded(t, i).evidence_id \in Holders(t, i)
              /\ t.quotes[i].cited \in Holders(t, i) =>
                    Grounded(t, i).evidence_id = t.quotes[i].cited
<1> DEFINE first == FirstHolding(Holders(t, i), t.quotes[i].cited, t.eligible)
<1>1. Offered(t, i) \in Text
  BY TaskType
<1>2. CASE Characters(Offered(t, i)) < QUOTE_MIN \/ Holders(t, i) = {}
  BY <1>2 DEF Grounded, GroundQuote, Offered, Holders
<1>3. CASE ~(Characters(Offered(t, i)) < QUOTE_MIN \/ Holders(t, i) = {})
  <2>1. Grounded(t, i) = [evidence_id |-> first, text |-> Offered(t, i)]
    BY <1>3 DEF Grounded, GroundQuote, Offered, Holders
  <2>2. Holders(t, i) \in SUBSET Range(t.eligible) /\ Holders(t, i) # {}
    BY <1>3 DEF Holders, Holding
  <2>3. first \in Holders(t, i)
    BY <2>2, TaskType, FirstHoldingHolds
  <2>4. t.quotes[i].cited \in Holders(t, i) => first = t.quotes[i].cited
    BY DEF FirstHolding
  <2>5. Characters(Offered(t, i)) >= QUOTE_MIN
    BY <1>1, <1>3, CharactersType, GroundingLimits
  <2>6. Offered(t, i) # <<>>
    <3>1. WordCount(Offered(t, i)) >= 2
      BY <2>3, HoldersAre DEF Holders
    <3>2. QED
      BY <3>1, NothingIsEmpty
  <2> HIDE DEF first
  <2>7. Grounded(t, i) # Nowhere
    BY <2>1, <2>6 DEF Nowhere
  <2>8. QED
    BY <2>1, <2>3, <2>4, <2>5, <2>7
<1>4. QED
  BY <1>2, <1>3

-------------------------------------------------------------------------------
(* The ids of a finding: the eligible documents named, in record order.    *)

LEMMA RangeOfAppend ==
    ASSUME NEW T, NEW x \in Seq(T), NEW e \in T
    PROVE  /\ Range(Append(x, e)) = Range(x) \union {e}
           /\ IsInjective(x) /\ e \notin Range(x) => IsInjective(Append(x, e))
<1> DEFINE y == Append(x, e)
<1>1. /\ Len(x) \in Nat /\ DOMAIN x = 1..Len(x) /\ DOMAIN y = 1..(Len(x) + 1)
      /\ \A i \in 1..Len(x) : y[i] = x[i]
      /\ y[Len(x) + 1] = e
  BY LenProperties, AppendProperties
<1> HIDE DEF y
<1>2. \A i \in DOMAIN y : i \in DOMAIN x \/ i = Len(x) + 1
  BY <1>1
<1>3. Range(y) = Range(x) \union {e}
  <2>1. Range(y) \subseteq Range(x) \union {e}
    BY <1>1, <1>2 DEF Range
  <2>2. \A i \in DOMAIN x : i \in DOMAIN y /\ y[i] = x[i]
    BY <1>1
  <2>3. Range(x) \subseteq Range(y)
    BY <2>2 DEF Range
  <2>4. e \in Range(y)
    <3>1. Len(x) + 1 \in DOMAIN y
      BY <1>1
    <3>2. QED
      BY <1>1, <3>1 DEF Range
  <2>5. QED
    BY <2>1, <2>3, <2>4
<1>4. ASSUME IsInjective(x), e \notin Range(x), NEW a \in DOMAIN y, NEW b \in DOMAIN y, y[a] = y[b]
      PROVE  a = b
  <2>1. \A i \in DOMAIN x : x[i] # e
    BY <1>4 DEF Range
  <2>2. CASE a \in DOMAIN x /\ b \in DOMAIN x
    BY <1>1, <1>4, <2>2 DEF IsInjective
  <2>3. QED
    BY <1>1, <1>2, <1>4, <2>1, <2>2
<1>5. QED
  BY <1>3, <1>4 DEF IsInjective, y

LEMMA PickedHas ==
    ASSUME NEW T, NEW s \in Seq(T), NEW at \in SUBSET DOMAIN s
    PROVE  /\ Picked(s, at) \in Seq(T)
           /\ Range(Picked(s, at)) = {s[k] : k \in at}
           /\ IsInjective(s) => IsInjective(Picked(s, at))
<1>1. PICK g \in [0..Len(s) -> Seq(T)] :
         /\ g[0] = <<>>
         /\ \A n \in 1..Len(s) : g[n] = IF n \in at THEN Append(g[n - 1], s[n]) ELSE g[n - 1]
         /\ Picked(s, at) = g[Len(s)]
  BY PickedIs
<1>2. Len(s) \in Nat /\ DOMAIN s = 1..Len(s)
  BY LenProperties
<1> DEFINE So(n) == /\ Range(g[n]) = {s[k] : k \in {j \in at : j <= n}}
                    /\ IsInjective(s) => IsInjective(g[n])
           Had == {n \in 0..Len(s) : So(n)}
<1>3. So(0)
  <2>1. DOMAIN g[0] = {}
    BY <1>1, EmptySeq
  <2>2. Range(g[0]) = {} /\ IsInjective(g[0])
    BY <2>1 DEF Range, IsInjective
  <2>3. {j \in at : j <= 0} = {}
    BY <1>2
  <2>4. QED
    BY <2>2, <2>3
<1>4. ASSUME NEW m \in 0..Len(s), m < Len(s), So(m)
      PROVE  So(m + 1)
  <2> DEFINE n == m + 1
             before == {j \in at : j <= m}
             upto == {j \in at : j <= n}
  <2>1. n \in 1..Len(s) /\ n - 1 = m
    BY <1>2, <1>4
  <2>2. CASE n \notin at
    <3>1. g[n] = g[m]
      BY <1>1, <2>1, <2>2
    <3>2. upto = before
      BY <1>2, <2>1, <2>2
    <3>3. QED
      BY <1>4, <3>1, <3>2
  <2>3. CASE n \in at
    <3>1. g[n] = Append(g[m], s[n]) /\ g[m] \in Seq(T) /\ s[n] \in T
      BY <1>1, <1>2, <2>1, <2>3, ElementOfSeq
    <3>2. upto = before \union {n} /\ n \notin before
      BY <1>2, <2>1, <2>3
    <3>3. {s[k] : k \in upto} = {s[k] : k \in before} \union {s[n]}
      <4> HIDE DEF upto, before, n
      <4>1. QED
        BY <3>2
    <3>4. Range(g[m]) = {s[k] : k \in before}
      BY <1>4
    <3>5. Range(g[n]) = {s[k] : k \in upto}
      <4> HIDE DEF upto, before, n
      <4>1. Range(g[n]) = Range(g[m]) \union {s[n]}
        BY <3>1, RangeOfAppend
      <4>2. QED
        BY <3>3, <3>4, <4>1
    <3>6. ASSUME IsInjective(s)
          PROVE  IsInjective(g[n])
      <4>1. \A k \in before : s[k] # s[n]
        BY <1>2, <2>1, <3>2, <3>6 DEF IsInjective
      <4>2. s[n] \notin Range(g[m])
        <5> HIDE DEF before, n
        <5>1. QED
          BY <3>4, <4>1
      <4>3. IsInjective(g[m])
        BY <1>4, <3>6
      <4> HIDE DEF n
      <4>4. QED
        BY <3>1, <4>2, <4>3, RangeOfAppend
    <3>7. QED
      BY <3>5, <3>6
  <2>4. QED
    BY <2>2, <2>3
<1>5. \A n \in 0..Len(s) : n \in Had
  <2>1. 0 \in Had
    BY <1>2, <1>3
  <2>2. \A n \in 0..Len(s) : n < Len(s) /\ n \in Had => n + 1 \in Had
    <3> HIDE DEF So
    <3>1. QED
      BY <1>2, <1>4
  <2> HIDE DEF Had
  <2>3. QED
    BY <1>2, <2>1, <2>2, Counting
<1>6. So(Len(s)) /\ g[Len(s)] \in Seq(T)
  BY <1>2, <1>5
<1>7. {j \in at : j <= Len(s)} = at
  BY <1>2
<1>8. QED
  BY <1>1, <1>6, <1>7

\* They are distinct, and the gate's comparison returns them as they are.
LEMMA InOrderIs ==
    ASSUME NEW D, NEW eligible \in Seq(D), IsInjective(eligible), NEW ids
    PROVE  /\ Range(InOrder(eligible, ids)) = Range(eligible) \intersect ids
           /\ IsInjective(InOrder(eligible, ids))
           /\ InOrder(eligible, Range(InOrder(eligible, ids))) = InOrder(eligible, ids)
<1> DEFINE at == {k \in DOMAIN eligible : eligible[k] \in ids}
<1>1. InOrder(eligible, ids) = Picked(eligible, at)
  BY DEF InOrder
<1>2. Range(Picked(eligible, at)) = {eligible[k] : k \in at} /\ IsInjective(Picked(eligible, at))
  <2>1. at \in SUBSET DOMAIN eligible
    OBVIOUS
  <2> HIDE DEF at
  <2>2. QED
    BY <2>1, PickedHas
<1>3. Range(InOrder(eligible, ids)) = Range(eligible) \intersect ids
  <2>1. {eligible[k] : k \in at} = Range(eligible) \intersect ids
    BY DEF Range
  <2>2. QED
    BY <1>1, <1>2, <2>1
<1>4. {k \in DOMAIN eligible : eligible[k] \in Range(InOrder(eligible, ids))} = at
  <2>1. \A k \in DOMAIN eligible : eligible[k] \in Range(eligible)
    BY DEF Range
  <2>2. QED
    BY <1>3, <2>1
<1>5. InOrder(eligible, Range(InOrder(eligible, ids))) = Picked(eligible, at)
  BY <1>4 DEF InOrder
<1>6. QED
  BY <1>1, <1>2, <1>3, <1>5

-------------------------------------------------------------------------------
(* The inductive invariant.  While the answer is read, what is kept is     *)
(* what some quote read so far grounds to, and a grounded quote is kept    *)
(* unless the list was full before the last quote was read.                *)

Concluded ==
    [state |-> IF StateKept THEN task.state ELSE Undecided,
     evidence_ids |-> EvidenceIds, quotes |-> quotes, note |-> CleanNote(task.note)]

KeptAreGrounded ==
    \A q \in Range(quotes) : q # Nowhere /\ \E i \in 1..position : q = Grounded(task, i)

NoneIsLost ==
    \A i \in 1..position :
        \/ Grounded(task, i) \in Range(quotes) \union {Nowhere}
        \/ Len(quotes) = MAX_QUOTES /\ MAX_QUOTES < position

GroundingInv ==
    /\ task \in Tasks
    /\ position \in 0..Len(task.quotes)
    /\ quotes \in Seq([evidence_id: DOMAIN task.texts, text: Text])
    /\ Len(quotes) <= MAX_QUOTES /\ Len(quotes) <= position
    /\ KeptAreGrounded
    /\ NoneIsLost
    /\ finding # NoFinding => finding = Concluded /\ position = Len(task.quotes)

LEMMA InitGrounding ==
    ASSUME Init
    PROVE  GroundingInv
<1>1. task \in Tasks /\ position = 0 /\ quotes = <<>> /\ finding = NoFinding
  BY DEF Init
<1>2. Len(task.quotes) \in Nat /\ MAX_QUOTES \in Nat
  BY <1>1, TaskType, GroundingLimits
<1>3. /\ quotes \in Seq([evidence_id: DOMAIN task.texts, text: Text])
      /\ Len(quotes) = 0 /\ DOMAIN quotes = {}
  BY <1>1, EmptySeq
<1>4. KeptAreGrounded
  BY <1>3 DEF KeptAreGrounded, Range
<1>5. NoneIsLost
  BY <1>1 DEF NoneIsLost
<1>6. QED
  BY <1>1, <1>2, <1>3, <1>4, <1>5 DEF GroundingInv

\* What a grounded quote is made of.
LEMMA GroundedType ==
    ASSUME NEW t \in Tasks, NEW i \in 1..Len(t.quotes), Grounded(t, i) # Nowhere
    PROVE  Grounded(t, i) \in [evidence_id: DOMAIN t.texts, text: Text]
<1>1. /\ Grounded(t, i) = [evidence_id |-> Grounded(t, i).evidence_id, text |-> Offered(t, i)]
      /\ Grounded(t, i).evidence_id \in Range(t.eligible)
  BY GroundQuoteIs DEF Holders, Holding
<1>2. Offered(t, i) \in Text /\ Range(t.eligible) \subseteq DOMAIN t.texts
  BY TaskType
<1>3. QED
  BY <1>1, <1>2

LEMMA KeepGrounding ==
    ASSUME GroundingInv, Keep
    PROVE  GroundingInv'
<1>1. /\ task \in Tasks /\ task' = task /\ finding = NoFinding /\ finding' = finding
      /\ position \in 0..Len(task.quotes) /\ position < Len(task.quotes)
      /\ position' = position + 1
      /\ Len(quotes) <= MAX_QUOTES /\ Len(quotes) <= position
  BY DEF GroundingInv, Keep, More
<1>2. Len(task.quotes) \in Nat /\ MAX_QUOTES \in Nat
  BY <1>1, TaskType, GroundingLimits
<1>3. position' \in 1..Len(task.quotes)
  BY <1>1, <1>2
<1>4. Candidate = Grounded(task, position')
  BY <1>1 DEF Candidate, Raw, Grounded
<1>5. Candidate # Nowhere /\ quotes' = Append(quotes, Candidate)
  BY DEF Keep
<1>6. Candidate \in [evidence_id: DOMAIN task.texts, text: Text]
  BY <1>1, <1>3, <1>4, <1>5, GroundedType
<1>7. quotes \in Seq([evidence_id: DOMAIN task.texts, text: Text])
  BY DEF GroundingInv
<1>8. /\ quotes' \in Seq([evidence_id: DOMAIN task.texts, text: Text])
      /\ Len(quotes') = Len(quotes) + 1 /\ Len(quotes) \in Nat
  BY <1>5, <1>6, <1>7, AppendProperties, LenProperties
<1>9. Range(quotes') = Range(quotes) \union {Candidate}
  <2> DEFINE Quote == [evidence_id: DOMAIN task.texts, text: Text]
  <2>1. quotes \in Seq(Quote) /\ Candidate \in Quote
    BY <1>6, <1>7
  <2>2. Range(Append(quotes, Candidate)) = Range(quotes) \union {Candidate}
    <3> HIDE DEF Quote
    <3>1. QED
      BY <2>1, RangeOfAppend
  <2>3. QED
    BY <1>5, <2>2
<1>10. Len(quotes) < MAX_QUOTES
  BY <1>1, <1>2, <1>8 DEF Keep, Full
<1>11. KeptAreGrounded'
  <2>1. \A q \in Range(quotes) : q # Nowhere /\ \E i \in 1..position : q = Grounded(task, i)
    BY DEF GroundingInv, KeptAreGrounded
  <2>2. 1..position \subseteq 1..position' /\ position' \in 1..position'
    BY <1>1, <1>2
  <2>3. \A q \in Range(quotes') : q # Nowhere /\ \E i \in 1..position' : q = Grounded(task, i)
    BY <1>4, <1>5, <1>9, <2>1, <2>2
  <2>4. QED
    BY <1>1, <2>3 DEF KeptAreGrounded, Grounded
<1>12. NoneIsLost'
  <2>1. \A i \in 1..position : Grounded(task, i) \in Range(quotes) \union {Nowhere}
    BY <1>2, <1>8, <1>10 DEF GroundingInv, NoneIsLost
  <2>2. \A i \in 1..position' : i \in 1..position \/ i = position'
    BY <1>1, <1>2
  <2>3. \A i \in 1..position' : Grounded(task, i) \in Range(quotes') \union {Nowhere}
    BY <1>4, <1>9, <2>1, <2>2
  <2>4. QED
    BY <1>1, <2>3 DEF NoneIsLost, Grounded
<1>13. Len(quotes') <= MAX_QUOTES /\ Len(quotes') <= position'
  BY <1>1, <1>2, <1>8, <1>10
<1>14. QED
  BY <1>1, <1>2, <1>3, <1>8, <1>11, <1>12, <1>13 DEF GroundingInv

LEMMA DropGrounding ==
    ASSUME GroundingInv, Drop
    PROVE  GroundingInv'
<1>1. /\ task \in Tasks /\ task' = task /\ finding = NoFinding /\ finding' = finding
      /\ position \in 0..Len(task.quotes) /\ position < Len(task.quotes)
      /\ position' = position + 1 /\ quotes' = quotes
      /\ Len(quotes) <= MAX_QUOTES /\ Len(quotes) <= position
      /\ quotes \in Seq([evidence_id: DOMAIN task.texts, text: Text])
  BY DEF GroundingInv, Drop, More
<1>2. Len(task.quotes) \in Nat /\ MAX_QUOTES \in Nat /\ Len(quotes) \in Nat
  BY <1>1, TaskType, GroundingLimits, LenProperties
<1>3. Candidate = Grounded(task, position')
  BY <1>1 DEF Candidate, Raw, Grounded
<1>4. KeptAreGrounded'
  <2>1. \A q \in Range(quotes) : q # Nowhere /\ \E i \in 1..position : q = Grounded(task, i)
    BY DEF GroundingInv, KeptAreGrounded
  <2>2. 1..position \subseteq 1..position'
    BY <1>1, <1>2
  <2>3. QED
    BY <1>1, <2>1, <2>2 DEF KeptAreGrounded, Grounded
<1>5. NoneIsLost'
  <2>1. \A i \in 1..position :
            \/ Grounded(task, i) \in Range(quotes) \union {Nowhere}
            \/ Len(quotes) = MAX_QUOTES /\ MAX_QUOTES < position
    BY DEF GroundingInv, NoneIsLost
  <2>2. CASE Full
    <3>1. Len(quotes) = MAX_QUOTES /\ MAX_QUOTES < position'
      BY <1>1, <1>2, <2>2 DEF Full
    <3>2. QED
      BY <1>1, <3>1 DEF NoneIsLost
  <2>3. CASE ~Full
    <3>1. Grounded(task, position') \in Range(quotes) \union {Nowhere}
      BY <1>3, <2>3 DEF Drop
    <3>2. \A i \in 1..position : Grounded(task, i) \in Range(quotes) \union {Nowhere}
      BY <1>2, <2>1, <2>3 DEF Full
    <3>3. \A i \in 1..position' : i \in 1..position \/ i = position'
      BY <1>1, <1>2
    <3>4. \A i \in 1..position' : Grounded(task, i) \in Range(quotes) \union {Nowhere}
      BY <3>1, <3>2, <3>3
    <3>5. QED
      BY <1>1, <3>4 DEF NoneIsLost, Grounded
  <2>4. QED
    BY <2>2, <2>3
<1>6. position' \in 0..Len(task.quotes) /\ Len(quotes) <= position'
  BY <1>1, <1>2
<1>7. QED
  BY <1>1, <1>4, <1>5, <1>6 DEF GroundingInv

LEMMA ConcludeGrounding ==
    ASSUME GroundingInv, Conclude
    PROVE  GroundingInv'
<1>1. UNCHANGED <<task, position, quotes>> /\ position = Len(task.quotes) /\ finding' = Concluded
  BY DEF Conclude, Concluded
<1>2. Concluded' = Concluded
  BY <1>1 DEF Concluded, StateKept, EvidenceIds
<1>3. KeptAreGrounded' /\ NoneIsLost'
  BY <1>1 DEF GroundingInv, KeptAreGrounded, NoneIsLost, Grounded
<1>4. QED
  BY <1>1, <1>2, <1>3 DEF GroundingInv

(* The kept quotes are what the quotes read so far ground to, none of them *)
(* lost before the list is full, and the finding is concluded from them    *)
(* once (_normalize_answer, _panel_findings).                              *)
THEOREM GroundingInvariant == Spec => []GroundingInv
<1>1. Init => GroundingInv
  BY InitGrounding
<1>2. GroundingInv /\ [Next]_groundingVars => GroundingInv'
  <2>1. CASE Keep
    BY <2>1, KeepGrounding
  <2>2. CASE Drop
    BY <2>2, DropGrounding
  <2>3. CASE Conclude
    BY <2>3, ConcludeGrounding
  <2>4. ASSUME GroundingInv, UNCHANGED groundingVars
        PROVE  GroundingInv'
    <3>1. UNCHANGED <<task, position, quotes, finding>>
      BY <2>4 DEF groundingVars
    <3>2. Concluded' = Concluded
      BY <3>1 DEF Concluded, StateKept, EvidenceIds
    <3>3. KeptAreGrounded' /\ NoneIsLost'
      BY <2>4, <3>1 DEF GroundingInv, KeptAreGrounded, NoneIsLost, Grounded
    <3>4. QED
      BY <2>4, <3>1, <3>2, <3>3 DEF GroundingInv
  <2>5. QED
    BY <2>1, <2>2, <2>3, <2>4 DEF Next
<1>3. QED
  BY <1>1, <1>2, PTL DEF Spec

-------------------------------------------------------------------------------
(* The properties.                                                         *)

(* Whatever the quote and the documents, repetitions and overlaps          *)
(* included, searching each fragment from the end of the previous match    *)
(* accepts exactly the quotes whose fragments lie in the document in order *)
(* and apart (_quote_grounded, _find_run).                                 *)
THEOREM SearchCorrect == Spec => []SearchIsExact
<1>1. GroundingInv => SearchIsExact
  <2> SUFFICES ASSUME GroundingInv, More, NEW e \in Range(task.eligible)
               PROVE  QuoteGrounded([evidence_id |-> e, text |-> Raw.text], task.eligible, task.texts)
                         <=> WordCount(Raw.text) >= 2 /\ Placed(Raw.text, task.texts[e])
    BY DEF SearchIsExact
  <2>1. task \in Tasks /\ position \in 0..Len(task.quotes) /\ position < Len(task.quotes)
    BY DEF GroundingInv, More
  <2>2. position + 1 \in 1..Len(task.quotes)
    BY <2>1, TaskType
  <2>3. Raw.text \in Text /\ task.texts[e] \in Text
    BY <2>1, <2>2, TaskType DEF Raw
  <2>4. Search(Raw.text, task.texts[e]) # NotFound <=> Placed(Raw.text, task.texts[e])
    BY <2>3, SearchExact
  <2>5. e \in Holding(Raw.text, task.eligible, task.texts)
           <=> WordCount(Raw.text) >= 2 /\ Search(Raw.text, task.texts[e]) # NotFound
    BY <2>1, HoldersAre
  <2>6. e \in Holding(Raw.text, task.eligible, task.texts)
           <=> QuoteGrounded([evidence_id |-> e, text |-> Raw.text], task.eligible, task.texts)
    BY DEF Holding
  <2>7. QED
    BY <2>4, <2>5, <2>6
<1>2. QED
  BY <1>1, GroundingInvariant, PTL

\* What the gate asks of each quote holds of each quote that is kept.
LEMMA KeptQuoteIs ==
    ASSUME GroundingInv, NEW k \in DOMAIN quotes
    PROVE  /\ \E i \in 1..position : quotes[k] = Grounded(task, i)
           /\ quotes[k].evidence_id \in Range(task.eligible)
           /\ QuoteGrounded(quotes[k], task.eligible, task.texts)
           /\ QuoteGrounded(quotes[k], task.eligible, NoTexts)
           /\ Characters(quotes[k].text) \in QUOTE_MIN..QUOTE_CAP
<1>1. task \in Tasks /\ position \in 0..Len(task.quotes) /\ Len(task.quotes) \in Nat
  BY TaskType DEF GroundingInv
<1>2. PICK i \in 1..position : quotes[k] = Grounded(task, i) /\ Grounded(task, i) # Nowhere
  BY DEF GroundingInv, KeptAreGrounded, Range
<1>3. i \in 1..Len(task.quotes)
  BY <1>1, <1>2
<1>4. /\ Characters(Offered(task, i)) >= QUOTE_MIN
      /\ quotes[k] = [evidence_id |-> quotes[k].evidence_id, text |-> Offered(task, i)]
      /\ quotes[k].evidence_id \in Holders(task, i)
  BY <1>1, <1>2, <1>3, GroundQuoteIs
<1>5. /\ quotes[k].evidence_id \in Range(task.eligible)
      /\ QuoteGrounded(quotes[k], task.eligible, task.texts)
  BY <1>4 DEF Holders, Holding
<1>6. QuoteGrounded(quotes[k], task.eligible, NoTexts)
  BY <1>5 DEF QuoteGrounded
<1>7. Characters(quotes[k].text) \in QUOTE_MIN..QUOTE_CAP
  <2>1. task.quotes[i].text \in Text
    BY <1>1, <1>3, TaskType
  <2>2. Characters(Offered(task, i)) \in 0..QUOTE_CAP
    BY <2>1, CutType DEF Offered
  <2>3. quotes[k].text = Offered(task, i)
    BY <1>4
  <2>4. QED
    BY <1>4, <2>2, <2>3, GroundingLimits
<1>8. QED
  BY <1>2, <1>5, <1>6, <1>7

LEMMA ConcludedPasses ==
    ASSUME GroundingInv, finding # NoFinding, CleanNote(finding.note) = finding.note,
           NEW texts \in {task.texts, NoTexts}
    PROVE  CheckPanelFinding(finding, task, texts)
<1>1. /\ finding.quotes = quotes /\ finding.evidence_ids = EvidenceIds
      /\ finding.state = IF StateKept THEN task.state ELSE Undecided
  BY DEF GroundingInv, Concluded
<1>2. task \in Tasks
  BY DEF GroundingInv
<1>3. /\ Range(EvidenceIds) = Range(task.eligible)
            \intersect (task.evidence_ids \union {quotes[i].evidence_id : i \in DOMAIN quotes})
      /\ IsInjective(EvidenceIds)
      /\ InOrder(task.eligible, Range(EvidenceIds)) = EvidenceIds
  <2>1. task.eligible \in Seq(DOMAIN task.texts) /\ IsInjective(task.eligible)
    BY <1>2, TaskType
  <2>2. QED
    BY <2>1, InOrderIs DEF EvidenceIds
<1>4. ValidFindingShape(finding)
  <2>1. Len(finding.quotes) <= MAX_QUOTES
    BY <1>1 DEF GroundingInv
  <2>2. ASSUME NEW k \in DOMAIN quotes
        PROVE  /\ Characters(quotes[k].text) \in QUOTE_MIN..QUOTE_CAP
               /\ quotes[k].evidence_id \in Range(EvidenceIds)
    BY <1>3, KeptQuoteIs
  <2>3. QED
    BY <1>1, <1>3, <2>1, <2>2 DEF ValidFindingShape
<1>5. finding.state \in task.vocab
  BY <1>1, <1>2, TaskType DEF StateKept
<1>6. finding.state = task.rule.state => QuotesSatisfy(task.rule, finding.quotes, task.kinds)
  BY <1>1, <1>2, TaskType DEF StateKept
<1>7. \A k \in DOMAIN finding.quotes : QuoteGrounded(finding.quotes[k], task.eligible, texts)
  BY <1>1, KeptQuoteIs
<1>8. QED
  BY <1>1, <1>3, <1>4, <1>5, <1>6, <1>7 DEF CheckPanelFinding

(* Any node that holds the same bytes accepts what an honest node keeps,   *)
(* and so does the boundary, which holds none, whatever the answer was     *)
(* (_normalize_answer against _check_panel_finding).                       *)
THEOREM KeptPass == Spec => []KeptFindingsPassTheGate
<1>1. GroundingInv => KeptFindingsPassTheGate
  BY ConcludedPasses DEF KeptFindingsPassTheGate
<1>2. QED
  BY <1>1, GroundingInvariant, PTL

LEMMA DocumentsAmong ==
    ASSUME NEW these, NEW those,
           \A i \in DOMAIN these :
              \E k \in DOMAIN those : those[k].evidence_id = these[i].evidence_id
    PROVE  {these[i].evidence_id : i \in DOMAIN these}
              \subseteq {those[k].evidence_id : k \in DOMAIN those}
<1>1. ASSUME NEW d \in {these[i].evidence_id : i \in DOMAIN these}
      PROVE  \E k \in DOMAIN those : d = those[k].evidence_id
  <2>1. PICK i \in DOMAIN these : d = these[i].evidence_id
    OBVIOUS
  <2>2. PICK k \in DOMAIN those : those[k].evidence_id = these[i].evidence_id
    OBVIOUS
  <2>3. QED
    BY <2>1, <2>2
<1>2. QED
  BY <1>1

LEMMA CitationStands ==
    ASSUME GroundingInv, finding # NoFinding, Len(task.quotes) <= MAX_QUOTES,
           NEW offered, DOMAIN offered = DOMAIN task.quotes,
           \A i \in DOMAIN offered :
              /\ offered[i].evidence_id = task.quotes[i].cited
              /\ offered[i].text = Offered(task, i)
              /\ QuoteGrounded(offered[i], task.eligible, task.texts)
              /\ Characters(offered[i].text) >= QUOTE_MIN
    PROVE  \A rule, kinds : QuotesSatisfy(rule, offered, kinds) <=> QuotesSatisfy(rule, quotes, kinds)
<1>1. /\ task \in Tasks /\ position = Len(task.quotes) /\ Len(task.quotes) \in Nat
      /\ DOMAIN task.quotes = 1..Len(task.quotes)
  BY TaskType DEF GroundingInv
<1>2. ASSUME NEW i \in 1..Len(task.quotes)
      PROVE  /\ Grounded(task, i) # Nowhere
             /\ Grounded(task, i).evidence_id = task.quotes[i].cited
  <2>1. i \in DOMAIN offered
    BY <1>1
  <2>2. offered[i].evidence_id = task.quotes[i].cited /\ offered[i].text = Offered(task, i)
    BY <2>1
  <2>3. QuoteGrounded(offered[i], task.eligible, task.texts) /\ Characters(Offered(task, i)) >= QUOTE_MIN
    BY <2>1, <2>2
  <2>4. task.quotes[i].cited \in Holders(task, i)
    <3> DEFINE cited == [evidence_id |-> task.quotes[i].cited, text |-> Offered(task, i)]
    <3>1. task.quotes[i].cited \in Range(task.eligible)
      BY <2>2, <2>3 DEF QuoteGrounded
    <3>2. cited.evidence_id = offered[i].evidence_id /\ cited.text = offered[i].text
      BY <2>2
    <3>3. QuoteGrounded(cited, task.eligible, task.texts)
      <4> HIDE DEF cited
      <4>1. QED
        BY <2>3, <3>2 DEF QuoteGrounded
    <3>4. QED
      BY <3>1, <3>3 DEF Holders, Holding
  <2>5. ~(Characters(Offered(task, i)) < QUOTE_MIN)
    BY <1>1, <2>3, TaskType, CharactersType, GroundingLimits
  <2>6. QED
    BY <1>1, <2>4, <2>5, GroundQuoteIs
<1>3. \A i \in 1..Len(task.quotes) : Grounded(task, i) \in Range(quotes)
  <2>1. Len(quotes) \in Nat /\ MAX_QUOTES \in Nat
    BY LenProperties, GroundingLimits DEF GroundingInv
  <2>2. QED
    BY <1>1, <1>2, <2>1 DEF GroundingInv, NoneIsLost
<1>4. {offered[i].evidence_id : i \in DOMAIN offered} = {quotes[k].evidence_id : k \in DOMAIN quotes}
  <2>1. \A i \in DOMAIN offered : i \in 1..Len(task.quotes) /\ offered[i].evidence_id = task.quotes[i].cited
    BY <1>1
  <2>2. ASSUME NEW i \in DOMAIN offered
        PROVE  \E k \in DOMAIN quotes : quotes[k].evidence_id = offered[i].evidence_id
    <3>1. PICK k \in DOMAIN quotes : quotes[k] = Grounded(task, i)
      BY <1>3, <2>1 DEF Range
    <3>2. QED
      BY <1>2, <2>1, <3>1
  <2>3. ASSUME NEW k \in DOMAIN quotes
        PROVE  \E i \in DOMAIN offered : offered[i].evidence_id = quotes[k].evidence_id
    <3>1. PICK i \in 1..Len(task.quotes) : quotes[k] = Grounded(task, i)
      BY <1>1, KeptQuoteIs
    <3>2. i \in DOMAIN offered
      BY <1>1
    <3>3. QED
      BY <1>2, <2>1, <3>1, <3>2
  <2>4. {offered[i].evidence_id : i \in DOMAIN offered}
           \subseteq {quotes[k].evidence_id : k \in DOMAIN quotes}
    BY <2>2, DocumentsAmong
  <2>5. {quotes[k].evidence_id : k \in DOMAIN quotes}
           \subseteq {offered[i].evidence_id : i \in DOMAIN offered}
    BY <2>3, DocumentsAmong
  <2>6. QED
    BY <2>4, <2>5
<1>5. QED
  BY <1>4 DEF QuotesSatisfy

(* A finding whose quotes are all in the documents they are cited to, and  *)
(* carry its state there, is never downgraded, whichever other documents   *)
(* hold the same words (_ground_quote, _quotes_satisfy, _panel_findings).  *)
THEOREM CitationsStand == Spec => []CorrectCitationsStand
<1>1. GroundingInv => CorrectCitationsStand
  <2> DEFINE offered == [i \in DOMAIN task.quotes |->
                [evidence_id |-> task.quotes[i].cited, text |-> Cut(task.quotes[i].text)]]
  <2>1. ASSUME GroundingInv, finding # NoFinding, Len(offered) <= MAX_QUOTES,
               \A i \in DOMAIN offered :
                  /\ QuoteGrounded(offered[i], task.eligible, task.texts)
                  /\ Characters(offered[i].text) >= QUOTE_MIN,
               task.state = task.rule.state, task.state \in task.vocab,
               QuotesSatisfy(task.rule, offered, task.kinds)
        PROVE  finding.state = task.state
    <3>1. Len(offered) = Len(task.quotes)
      <4>1. DOMAIN task.quotes = 1..Len(task.quotes) /\ Len(task.quotes) \in Nat
        BY <2>1, TaskType DEF GroundingInv
      <4>2. QED
        BY <4>1
    <3>2. QuotesSatisfy(task.rule, quotes, task.kinds)
      <4>1. Len(task.quotes) <= MAX_QUOTES /\ DOMAIN offered = DOMAIN task.quotes
        BY <2>1, <3>1
      <4>2. \A i \in DOMAIN offered : /\ offered[i].evidence_id = task.quotes[i].cited
                                      /\ offered[i].text = Offered(task, i)
        BY DEF Offered
      <4> HIDE DEF offered
      <4>3. QED
        BY <2>1, <4>1, <4>2, CitationStands
    <3>3. StateKept
      BY <2>1, <3>2 DEF StateKept
    <3>4. QED
      BY <2>1, <3>3 DEF GroundingInv, Concluded
  <2>2. QED
    BY <2>1 DEF CorrectCitationsStand
<1>2. QED
  BY <1>1, GroundingInvariant, PTL

(* Among the quotes read, one that some eligible document holds is kept    *)
(* unless MAX_QUOTES others are: unsupported, repeated and too short       *)
(* quotes before it take no place (_normalize_answer).                     *)
THEOREM SupportedKept == Spec => []SupportedQuotesAreKept
<1>1. GroundingInv => SupportedQuotesAreKept
  <2> SUFFICES ASSUME GroundingInv, NEW i \in 1..position,
                      Len(quotes) # MAX_QUOTES,
                      ~(Characters(Offered(task, i)) < QUOTE_MIN),
                      ~(WordCount(Offered(task, i)) < 2),
                      NEW e \in Range(task.eligible), Placed(Offered(task, i), task.texts[e])
               PROVE  \E k \in DOMAIN quotes : quotes[k].text = Offered(task, i)
    BY DEF SupportedQuotesAreKept, Offered
  <2>1. task \in Tasks /\ i \in 1..Len(task.quotes)
    BY TaskType DEF GroundingInv
  <2>2. Offered(task, i) \in Text /\ task.texts[e] \in Text
    BY <2>1, TaskType
  <2>3. Search(Offered(task, i), task.texts[e]) # NotFound
    BY <2>2, SearchExact
  <2>4. WordCount(Offered(task, i)) >= 2
    <3>1. WordCount(Offered(task, i)) \in Nat
      <4> DEFINE words == {j \in DOMAIN Offered(task, i) : Offered(task, i)[j] # Ellipsis}
      <4>1. Len(Offered(task, i)) \in Nat /\ DOMAIN Offered(task, i) = 1..Len(Offered(task, i))
        BY <2>2, LenProperties DEF Text
      <4>2. IsFiniteSet(1..Len(Offered(task, i))) /\ words \subseteq 1..Len(Offered(task, i))
        BY <4>1, FS_Interval
      <4>3. IsFiniteSet(words)
        <5> HIDE DEF words
        <5>1. QED
          BY <4>2, FS_Subset
      <4>4. QED
        BY <4>3, FS_CardinalityType DEF WordCount
    <3>2. QED
      BY <3>1
  <2>5. e \in Holders(task, i)
    BY <2>1, <2>3, <2>4, HoldersAre DEF Holders
  <2>6. Grounded(task, i) # Nowhere /\ Grounded(task, i).text = Offered(task, i)
    BY <2>1, <2>5, GroundQuoteIs
  <2>7. Grounded(task, i) \in Range(quotes)
    BY <2>6 DEF GroundingInv, NoneIsLost
  <2>8. QED
    BY <2>6, <2>7 DEF Range
<1>2. QED
  BY <1>1, GroundingInvariant, PTL

================================================================================
