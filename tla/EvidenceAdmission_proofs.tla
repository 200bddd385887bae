------------------------ MODULE EvidenceAdmission_proofs ------------------------
(***************************************************************************)
(* Proofs about the loop of _evidence_error, for any documents, locations, *)
(* policy bounds and calls of up to one entry more than these allow: the   *)
(* loop accepts exactly the acceptable amendments and returns them, and    *)
(* the committed list only grows.  The loop invariant relates the working copy to the entries      *)
(* already read; its lemmas are about lists, not about the variables: `old`*)
(* is the committed list, `call` the arguments, `list` the working copy,   *)
(* `marked` the indices touched and n the loop index.                      *)
(***************************************************************************)
EXTENDS EvidenceAdmission, SequenceTheorems, FiniteSetTheorems, TLAPS

-------------------------------------------------------------------------------
(* The new documents of a call and their places.                           *)

NewIn(old, call) ==
    {k \in DOMAIN call : \A i \in DOMAIN old : old[i].sha256 # call[k].sha256}

NewBefore(old, call, n) == {k \in NewIn(old, call) : k < n}

PlaceIn(old, call, k) == Cardinality({j \in NewIn(old, call) : j <= k})

LEMMA NewFinite ==
    ASSUME NEW old, NEW call \in Seq(Entry), NEW n \in Nat
    PROVE  /\ IsFiniteSet(NewBefore(old, call, n))
           /\ Cardinality(NewBefore(old, call, n)) \in Nat
           /\ NewBefore(old, call, Len(call) + 1) = NewIn(old, call)
<1>1. DOMAIN call = 1..Len(call) /\ Len(call) \in Nat
  BY LenProperties
<1>2. NewBefore(old, call, n) \subseteq 1..Len(call)
  BY <1>1 DEF NewBefore, NewIn
<1>3. IsFiniteSet(NewBefore(old, call, n))
  <2>1. IsFiniteSet(1..Len(call))
    BY <1>1, FS_Interval
  <2>2. QED
    BY <1>2, <2>1, FS_Subset
<1>4. NewBefore(old, call, Len(call) + 1) = NewIn(old, call)
  BY <1>1 DEF NewBefore, NewIn
<1>5. QED
  BY <1>3, <1>4, FS_CardinalityType

\* The n-th entry, when it is new, takes the place behind the new ones before.
LEMMA PlaceIsNext ==
    ASSUME NEW old, NEW call \in Seq(Entry), NEW n \in NewIn(old, call)
    PROVE  /\ NewBefore(old, call, n + 1) = NewBefore(old, call, n) \union {n}
           /\ Cardinality(NewBefore(old, call, n + 1))
                 = Cardinality(NewBefore(old, call, n)) + 1
           /\ PlaceIn(old, call, n) = Cardinality(NewBefore(old, call, n)) + 1
<1>1. DOMAIN call = 1..Len(call) /\ Len(call) \in Nat
  BY LenProperties
<1>2. n \in Nat /\ NewIn(old, call) \subseteq Nat
  BY <1>1 DEF NewIn
<1>3. /\ NewBefore(old, call, n + 1) = NewBefore(old, call, n) \union {n}
      /\ n \notin NewBefore(old, call, n)
      /\ {j \in NewIn(old, call) : j <= n} = NewBefore(old, call, n + 1)
  BY <1>2 DEF NewBefore
<1>4. Cardinality(NewBefore(old, call, n) \union {n})
         = Cardinality(NewBefore(old, call, n)) + 1
  BY <1>2, <1>3, NewFinite, FS_AddElement
<1>5. QED
  BY <1>3, <1>4 DEF PlaceIn

LEMMA PlaceWithin ==
    ASSUME NEW old, NEW call \in Seq(Entry), NEW n \in Nat,
           NEW k \in NewBefore(old, call, n)
    PROVE  PlaceIn(old, call, k) \in 1..Cardinality(NewBefore(old, call, n))
<1>1. DOMAIN call = 1..Len(call) /\ Len(call) \in Nat
  BY LenProperties
<1>2. k \in Nat /\ k < n /\ k \in NewIn(old, call) /\ NewIn(old, call) \subseteq Nat
  BY <1>1 DEF NewIn, NewBefore
<1>3. PlaceIn(old, call, k) = Cardinality(NewBefore(old, call, k)) + 1
      /\ PlaceIn(old, call, k) = Cardinality(NewBefore(old, call, k + 1))
  BY <1>2, PlaceIsNext
<1>4. NewBefore(old, call, k + 1) \subseteq NewBefore(old, call, n)
  BY <1>2 DEF NewBefore
<1>5. Cardinality(NewBefore(old, call, k + 1)) <= Cardinality(NewBefore(old, call, n))
  BY <1>4, NewFinite, FS_Subset
<1>6. Cardinality(NewBefore(old, call, k)) \in Nat /\ Cardinality(NewBefore(old, call, n)) \in Nat
  BY <1>2, NewFinite
<1>7. QED
  BY <1>3, <1>5, <1>6

-------------------------------------------------------------------------------
(* The loop invariant: what has become of the entries before n.            *)

\* The entries before n are of different documents, and of the kinds committed.
Consistent(old, call, n) ==
    /\ \A j, k \in DOMAIN call :
          j < n /\ k < n /\ j # k => call[j].sha256 # call[k].sha256
    /\ \A k \in DOMAIN call, i \in DOMAIN old :
          k < n /\ call[k].sha256 = old[i].sha256 => call[k].kind = old[i].kind

\* The committed documents stay, those named before n at their new location.
KeepsOld(old, call, n, list) ==
    \A i \in DOMAIN old :
        /\ i \in DOMAIN list
        /\ list[i].sha256 = old[i].sha256 /\ list[i].kind = old[i].kind
        /\ \A k \in DOMAIN call :
              k < n /\ call[k].sha256 = old[i].sha256 => list[i].url = call[k].url
        /\ (\A k \in DOMAIN call : k < n => call[k].sha256 # old[i].sha256)
              => list[i].url = old[i].url

\* Behind them are the new documents before n, each at its place.
TakesNew(old, call, n, list) ==
    /\ Len(list) = Len(old) + Cardinality(NewBefore(old, call, n))
    /\ \A k \in NewBefore(old, call, n) :
          list[Len(old) + PlaceIn(old, call, k)] = call[k]
    /\ \A i \in DOMAIN list : i > Len(old) =>
          \E k \in NewBefore(old, call, n) : i = Len(old) + PlaceIn(old, call, k)

Looped(old, call, n, list, marked) ==
    /\ Consistent(old, call, n)
    /\ KeepsOld(old, call, n, list)
    /\ TakesNew(old, call, n, list)
    /\ marked = {i \in DOMAIN list :
                   \E k \in DOMAIN call : k < n /\ list[i].sha256 = call[k].sha256}

Lists(old, call, n, list) ==
    /\ old \in Seq(Entry) /\ NoRepeats(old)
    /\ call \in Seq(Entry) /\ list \in Seq(Entry)
    /\ n \in 1..Len(call) + 1

LEMMA ListsType ==
    ASSUME NEW old, NEW call, NEW n, NEW list, Lists(old, call, n, list)
    PROVE  /\ Len(old) \in Nat /\ DOMAIN old = 1..Len(old)
           /\ Len(call) \in Nat /\ DOMAIN call = 1..Len(call)
           /\ Len(list) \in Nat /\ DOMAIN list = 1..Len(list)
           /\ n \in Nat \ {0}
           /\ \A i \in DOMAIN old : old[i] \in Entry
           /\ \A k \in DOMAIN call : call[k] \in Entry
           /\ \A i \in DOMAIN list : list[i] \in Entry
<1>1. /\ Len(old) \in Nat /\ DOMAIN old = 1..Len(old)
      /\ Len(call) \in Nat /\ DOMAIN call = 1..Len(call)
      /\ Len(list) \in Nat /\ DOMAIN list = 1..Len(list)
  BY LenProperties DEF Lists
<1>2. /\ \A i \in DOMAIN old : old[i] \in Entry
      /\ \A k \in DOMAIN call : call[k] \in Entry
      /\ \A i \in DOMAIN list : list[i] \in Entry
  BY <1>1, ElementOfSeq DEF Lists
<1>3. n \in Nat \ {0}
  BY <1>1 DEF Lists
<1>4. QED
  BY <1>1, <1>2, <1>3

\* A document the loop has not touched is a committed one.
LEMMA UnmarkedIsOld ==
    ASSUME NEW old, NEW call, NEW n, NEW list, NEW marked,
           Lists(old, call, n, list), Looped(old, call, n, list, marked),
           NEW i \in DOMAIN list, i \notin marked
    PROVE  i \in DOMAIN old
<1>1. SUFFICES ASSUME i \notin DOMAIN old
               PROVE  FALSE
  OBVIOUS
<1>2. i > Len(old)
  BY <1>1, ListsType
<1>3. PICK k \in NewBefore(old, call, n) : i = Len(old) + PlaceIn(old, call, k)
  BY <1>2 DEF Looped, TakesNew
<1>4. list[i] = call[k]
  BY <1>3 DEF Looped, TakesNew
<1>5. k \in DOMAIN call /\ k < n
  BY DEF NewBefore, NewIn
<1>6. QED
  BY <1>4, <1>5 DEF Looped

LEMMA LoopBegins ==
    ASSUME NEW old, NEW call, Lists(old, call, 1, old)
    PROVE  Looped(old, call, 1, old, {})
<1>1. NewBefore(old, call, 1) = {} /\ \A k \in DOMAIN call : ~(k < 1)
  BY ListsType DEF NewBefore, NewIn
<1>2. Cardinality(NewBefore(old, call, 1)) = 0
  BY <1>1, FS_EmptySet
<1>3. Consistent(old, call, 1) /\ KeepsOld(old, call, 1, old)
  BY <1>1 DEF Consistent, KeepsOld
<1>4. TakesNew(old, call, 1, old)
  BY <1>1, <1>2, ListsType DEF TakesNew
<1>5. QED
  BY <1>1, <1>3, <1>4 DEF Looped

LEMMA LoopRelocates ==
    ASSUME NEW old, NEW call, NEW n, NEW list, NEW marked,
           Lists(old, call, n, list), Looped(old, call, n, list, marked),
           n \in DOMAIN call, NEW i \in DOMAIN list, i \notin marked,
           list[i].sha256 = call[n].sha256, list[i].kind = call[n].kind
    PROVE  LET moved == [list EXCEPT ![i].url = call[n].url]
           IN /\ Lists(old, call, n + 1, moved)
              /\ Looped(old, call, n + 1, moved, marked \union {i})
<1> DEFINE moved == [list EXCEPT ![i].url = call[n].url]
           at == [list[i] EXCEPT !.url = call[n].url]
<1>1. i \in DOMAIN old
  BY UnmarkedIsOld
<1>2. /\ at \in Entry /\ at.url = call[n].url
      /\ at.sha256 = list[i].sha256 /\ at.kind = list[i].kind
  BY ListsType DEF Entry
<1>3. moved = [list EXCEPT ![i] = at]
  OBVIOUS
<1> HIDE DEF at, moved
<1>4. /\ moved \in Seq(Entry) /\ Len(moved) = Len(list) /\ DOMAIN moved = DOMAIN list
      /\ moved[i] = at /\ \A j \in DOMAIN list : j # i => moved[j] = list[j]
  BY <1>2, <1>3, ExceptSeq, ListsType DEF Lists
<1>5. \A j \in DOMAIN list : moved[j].sha256 = list[j].sha256 /\ moved[j].kind = list[j].kind
  BY <1>2, <1>4
<1>6. old[i].sha256 = call[n].sha256 /\ old[i].kind = call[n].kind
  BY <1>1 DEF Looped, KeepsOld
<1>7. \A j \in DOMAIN old : old[j].sha256 = call[n].sha256 => j = i
  BY <1>1, <1>6 DEF Lists, NoRepeats
<1>8. \A k \in DOMAIN call : k < n => call[k].sha256 # call[n].sha256
  BY DEF Looped
<1>9. \A k \in DOMAIN call : k < n + 1 <=> k < n \/ k = n
  BY ListsType
<1>10. Lists(old, call, n + 1, moved)
  BY <1>4, ListsType DEF Lists
<1>11. Consistent(old, call, n + 1)
  <2>1. Consistent(old, call, n)
    BY DEF Looped
  <2>2. QED
    BY <1>6, <1>7, <1>8, <1>9, <2>1 DEF Consistent
<1>12. KeepsOld(old, call, n + 1, moved)
  <2>1. SUFFICES ASSUME NEW j \in DOMAIN old
                 PROVE  /\ j \in DOMAIN moved
                        /\ moved[j].sha256 = old[j].sha256 /\ moved[j].kind = old[j].kind
                        /\ \A k \in DOMAIN call :
                              k < n + 1 /\ call[k].sha256 = old[j].sha256
                                 => moved[j].url = call[k].url
                        /\ (\A k \in DOMAIN call : k < n + 1 => call[k].sha256 # old[j].sha256)
                              => moved[j].url = old[j].url
    BY DEF KeepsOld
  <2>2. /\ j \in DOMAIN list
        /\ list[j].sha256 = old[j].sha256 /\ list[j].kind = old[j].kind
        /\ \A k \in DOMAIN call :
              k < n /\ call[k].sha256 = old[j].sha256 => list[j].url = call[k].url
        /\ (\A k \in DOMAIN call : k < n => call[k].sha256 # old[j].sha256)
              => list[j].url = old[j].url
    BY DEF Looped, KeepsOld
  <2>3. CASE j = i
    BY <1>2, <1>4, <1>5, <1>6, <1>8, <1>9, <2>2, <2>3
  <2>4. CASE j # i
    BY <1>4, <1>7, <1>9, <2>2, <2>4
  <2>5. QED
    BY <2>3, <2>4
<1>13. TakesNew(old, call, n + 1, moved)
  <2>1. n \notin NewIn(old, call)
    BY <1>1, <1>6 DEF NewIn
  <2>2. NewBefore(old, call, n + 1) = NewBefore(old, call, n)
    BY <1>9, <2>1 DEF NewBefore, NewIn
  <2>3. ASSUME NEW k \in NewBefore(old, call, n)
        PROVE  moved[Len(old) + PlaceIn(old, call, k)] = call[k]
    <3>1. PlaceIn(old, call, k) \in 1..Cardinality(NewBefore(old, call, n))
      BY PlaceWithin, ListsType DEF Lists
    <3>2. Cardinality(NewBefore(old, call, n)) \in Nat
      BY NewFinite, ListsType DEF Lists
    <3>3. /\ Len(old) + PlaceIn(old, call, k) \in DOMAIN list
          /\ Len(old) + PlaceIn(old, call, k) # i
      BY <1>1, <3>1, <3>2, ListsType DEF Looped, TakesNew
    <3>4. list[Len(old) + PlaceIn(old, call, k)] = call[k]
      BY DEF Looped, TakesNew
    <3>5. QED
      BY <1>4, <3>3, <3>4
  <2>4. QED
    BY <1>4, <2>2, <2>3 DEF Looped, TakesNew
<1>14. marked \union {i} = {j \in DOMAIN moved :
                              \E k \in DOMAIN call :
                                 k < n + 1 /\ moved[j].sha256 = call[k].sha256}
  <2>1. marked = {j \in DOMAIN list :
                    \E k \in DOMAIN call : k < n /\ list[j].sha256 = call[k].sha256}
    BY DEF Looped
  <2>2. ASSUME NEW j \in DOMAIN list, list[j].sha256 = call[n].sha256
        PROVE  j = i
    <3>1. j \in DOMAIN old
      <4>1. j \notin marked
        BY <1>8, <2>1, <2>2
      <4>2. QED
        BY <4>1, UnmarkedIsOld
    <3>2. QED
      BY <1>7, <2>2, <3>1 DEF Looped, KeepsOld
  <2>3. \A j \in DOMAIN list :
           (\E k \in DOMAIN call : k < n + 1 /\ moved[j].sha256 = call[k].sha256)
              <=> j \in marked \union {i}
    BY <1>5, <1>9, <2>1, <2>2
  <2>4. QED
    BY <1>4, <2>1, <2>3
<1>15. QED
  BY <1>10, <1>11, <1>12, <1>13, <1>14 DEF Looped, moved

LEMMA LoopAppends ==
    ASSUME NEW old, NEW call, NEW n, NEW list, NEW marked,
           Lists(old, call, n, list), Looped(old, call, n, list, marked),
           n \in DOMAIN call, \A i \in DOMAIN list : list[i].sha256 # call[n].sha256
    PROVE  /\ Lists(old, call, n + 1, Append(list, call[n]))
           /\ Looped(old, call, n + 1, Append(list, call[n]), marked \union {Len(list) + 1})
<1> DEFINE longer == Append(list, call[n])
           last == Len(list) + 1
<1>1. /\ longer \in Seq(Entry) /\ Len(longer) = last
      /\ \A i \in 1..Len(list) : longer[i] = list[i]
      /\ longer[last] = call[n]
  BY AppendProperties, ListsType DEF Lists
<1>2. DOMAIN longer = 1..last
  BY <1>1, LenProperties
<1> HIDE DEF longer
<1>3. /\ \A i \in DOMAIN list : i \in DOMAIN longer /\ longer[i] = list[i]
      /\ \A i \in DOMAIN longer : i \in DOMAIN list \/ i = last
      /\ last \notin DOMAIN list /\ last \in DOMAIN longer
  BY <1>1, <1>2, ListsType
<1>4. \A k \in DOMAIN call : k < n + 1 <=> k < n \/ k = n
  BY ListsType
<1>5. \A i \in DOMAIN old : /\ i \in DOMAIN list /\ list[i].sha256 = old[i].sha256
                            /\ old[i].sha256 # call[n].sha256
  BY DEF Looped, KeepsOld
<1>6. n \in NewIn(old, call)
  BY <1>5 DEF NewIn
<1>7. /\ NewBefore(old, call, n + 1) = NewBefore(old, call, n) \union {n}
      /\ Cardinality(NewBefore(old, call, n + 1)) = Cardinality(NewBefore(old, call, n)) + 1
      /\ PlaceIn(old, call, n) = Cardinality(NewBefore(old, call, n)) + 1
      /\ Cardinality(NewBefore(old, call, n)) \in Nat
  <2>1. call \in Seq(Entry) /\ n \in Nat
    BY ListsType DEF Lists
  <2>2. QED
    BY <1>6, <2>1, PlaceIsNext, NewFinite
<1>8. Len(list) = Len(old) + Cardinality(NewBefore(old, call, n))
  BY DEF Looped, TakesNew
<1>9. last = Len(old) + PlaceIn(old, call, n)
  BY <1>7, <1>8, ListsType
<1>10. ASSUME NEW k \in NewBefore(old, call, n)
       PROVE  /\ Len(old) + PlaceIn(old, call, k) \in DOMAIN list
              /\ list[Len(old) + PlaceIn(old, call, k)] = call[k]
  <2>1. PlaceIn(old, call, k) \in 1..Cardinality(NewBefore(old, call, n))
    BY PlaceWithin, ListsType DEF Lists
  <2>2. Len(old) + PlaceIn(old, call, k) \in DOMAIN list
    BY <1>7, <1>8, <2>1, ListsType
  <2>3. QED
    BY <2>2 DEF Looped, TakesNew
<1>11. \A k \in DOMAIN call : k < n => call[k].sha256 # call[n].sha256
  <2>1. SUFFICES ASSUME NEW k \in DOMAIN call, k < n, call[k].sha256 = call[n].sha256
                 PROVE  FALSE
    OBVIOUS
  <2>2. k \in NewBefore(old, call, n)
    BY <1>5, <2>1 DEF NewBefore, NewIn
  <2>3. QED
    BY <1>10, <2>1, <2>2
<1>12. Lists(old, call, n + 1, longer)
  BY <1>1, ListsType DEF Lists
<1>13. Consistent(old, call, n + 1)
  <2>1. Consistent(old, call, n)
    BY DEF Looped
  <2>2. QED
    BY <1>4, <1>5, <1>11, <2>1 DEF Consistent
<1>14. KeepsOld(old, call, n + 1, longer)
  <2>1. KeepsOld(old, call, n, list)
    BY DEF Looped
  <2>2. QED
    BY <1>3, <1>4, <1>5, <2>1 DEF KeepsOld
<1>15. TakesNew(old, call, n + 1, longer)
  <2>1. Len(longer) = Len(old) + Cardinality(NewBefore(old, call, n + 1))
    BY <1>1, <1>7, <1>8, ListsType
  <2>2. ASSUME NEW k \in NewBefore(old, call, n + 1)
        PROVE  longer[Len(old) + PlaceIn(old, call, k)] = call[k]
    <3>1. CASE k = n
      BY <1>1, <1>9, <3>1
    <3>2. CASE k \in NewBefore(old, call, n)
      BY <1>3, <1>10, <3>2
    <3>3. QED
      BY <1>7, <3>1, <3>2
  <2>3. ASSUME NEW i \in DOMAIN longer, i > Len(old)
        PROVE  \E k \in NewBefore(old, call, n + 1) : i = Len(old) + PlaceIn(old, call, k)
    <3>1. CASE i = last
      BY <1>7, <1>9, <3>1
    <3>2. CASE i \in DOMAIN list
      BY <1>7, <2>3, <3>2 DEF Looped, TakesNew
    <3>3. QED
      BY <1>3, <3>1, <3>2
  <2>4. QED
    BY <2>1, <2>2, <2>3 DEF TakesNew
<1>16. marked \union {last} = {i \in DOMAIN longer :
                                 \E k \in DOMAIN call :
                                    k < n + 1 /\ longer[i].sha256 = call[k].sha256}
  <2>1. marked = {i \in DOMAIN list :
                    \E k \in DOMAIN call : k < n /\ list[i].sha256 = call[k].sha256}
    BY DEF Looped
  <2>2. \A i \in DOMAIN longer :
           (\E k \in DOMAIN call : k < n + 1 /\ longer[i].sha256 = call[k].sha256)
              <=> i \in marked \union {last}
    <3>1. \A i \in DOMAIN list :
             (\E k \in DOMAIN call : k < n + 1 /\ longer[i].sha256 = call[k].sha256)
                <=> i \in marked
      BY <1>3, <1>4, <2>1
    <3>2. \E k \in DOMAIN call : k < n + 1 /\ longer[last].sha256 = call[k].sha256
      BY <1>1, <1>4
    <3>3. QED
      BY <1>3, <3>1, <3>2
  <2>3. QED
    BY <1>3, <2>1, <2>2
<1>17. QED
  BY <1>12, <1>13, <1>14, <1>15, <1>16 DEF Looped, longer

LEMMA LoopRejects ==
    ASSUME NEW old, NEW call, NEW n, NEW list, NEW marked,
           Lists(old, call, n, list), Looped(old, call, n, list, marked),
           n \in DOMAIN call, NEW i \in DOMAIN list, list[i].sha256 = call[n].sha256,
           i \in marked \/ list[i].kind # call[n].kind
    PROVE  ~Consistent(old, call, Len(call) + 1)
<1>1. \A k \in DOMAIN call : k < Len(call) + 1
  BY ListsType
<1>2. CASE i \in marked
  <2>1. PICK k \in DOMAIN call : k < n /\ list[i].sha256 = call[k].sha256
    BY <1>2 DEF Looped
  <2>2. k # n
    BY <2>1, ListsType
  <2>3. QED
    BY <1>1, <2>1, <2>2 DEF Consistent
<1>3. CASE i \notin marked
  <2>1. i \in DOMAIN old /\ list[i].kind # call[n].kind
    BY <1>3, UnmarkedIsOld
  <2>2. old[i].sha256 = call[n].sha256 /\ old[i].kind # call[n].kind
    BY <2>1 DEF Looped, KeepsOld
  <2>3. QED
    BY <1>1, <2>1, <2>2 DEF Consistent
<1>4. QED
  BY <1>2, <1>3

-------------------------------------------------------------------------------
(* The loop's result.                                                      *)

LEMMA DocumentsDiffer ==
    ASSUME NEW old, NEW call, NEW list, NEW marked,
           Lists(old, call, Len(call) + 1, list),
           Looped(old, call, Len(call) + 1, list, marked)
    PROVE  \A i, j \in DOMAIN list : i # j => list[i].sha256 # list[j].sha256
<1> DEFINE n == Len(call) + 1
<1>1. \A i \in DOMAIN list :
         \/ i \in DOMAIN old /\ list[i].sha256 = old[i].sha256
         \/ \E k \in NewBefore(old, call, n) :
               i = Len(old) + PlaceIn(old, call, k) /\ list[i] = call[k]
  <2>1. SUFFICES ASSUME NEW i \in DOMAIN list, i \notin DOMAIN old
                 PROVE  \E k \in NewBefore(old, call, n) :
                           i = Len(old) + PlaceIn(old, call, k) /\ list[i] = call[k]
    BY DEF Looped, KeepsOld
  <2>2. i > Len(old)
    BY <2>1, ListsType
  <2>3. QED
    BY <2>2 DEF Looped, TakesNew
<1>2. \A k \in NewBefore(old, call, n) :
         /\ k \in DOMAIN call /\ k < n
         /\ \A i \in DOMAIN old : old[i].sha256 # call[k].sha256
  BY DEF NewBefore, NewIn
<1>3. \A j, k \in NewBefore(old, call, n) : j # k => call[j].sha256 # call[k].sha256
  BY <1>2 DEF Looped, Consistent
<1>4. \A i, j \in DOMAIN old : i # j => old[i].sha256 # old[j].sha256
  BY DEF Lists, NoRepeats
<1> HIDE DEF n
<1>5. QED
  BY <1>1, <1>2, <1>3, <1>4

LoopInv == Looped(existing, entries, next, items, touched)

AdmissionType ==
    /\ Lists(existing, entries, next, items)
    /\ outcome \in {"idle", "looping", "error", "accepted"}

LEMMA AmendsOld ==
    ASSUME AdmissionType, LoopInv, next = Len(entries) + 1
    PROVE  /\ Relocated(existing, Moves) \in Seq(Entry)
           /\ Len(Relocated(existing, Moves)) = Len(existing)
           /\ \A i \in DOMAIN existing : Relocated(existing, Moves)[i] = items[i]
<1>1. Lists(existing, entries, next, items)
  BY DEF AdmissionType
<1>2. \A k \in DOMAIN entries : k < next
  BY <1>1, ListsType
<1>3. KeepsOld(existing, entries, next, items)
  BY DEF LoopInv, Looped
<1>4. ASSUME NEW i \in DOMAIN existing
      PROVE  Relocated(existing, Moves)[i] = items[i] /\ items[i] \in Entry
  <2>1. existing[i] \in Entry /\ i \in DOMAIN items /\ items[i] \in Entry
    BY <1>1, <1>3, ListsType DEF KeepsOld
  <2>2. items[i].sha256 = existing[i].sha256 /\ items[i].kind = existing[i].kind
    BY <1>3 DEF KeepsOld
  <2>3. CASE \E k \in DOMAIN entries : entries[k].sha256 = existing[i].sha256
    <3> DEFINE k == CHOOSE k \in DOMAIN entries : entries[k].sha256 = existing[i].sha256
    <3>1. k \in DOMAIN entries /\ entries[k].sha256 = existing[i].sha256
      BY <2>3
    <3>2. i \in DOMAIN Moves /\ Moves[i] = entries[k].url
      BY <2>3 DEF Moves
    <3> HIDE DEF k
    <3>3. items[i].url = Moves[i]
      BY <1>2, <1>3, <3>1, <3>2 DEF KeepsOld
    <3>4. Relocated(existing, Moves)[i] = [existing[i] EXCEPT !.url = Moves[i]]
      BY <3>2 DEF Relocated
    <3>5. [existing[i] EXCEPT !.url = items[i].url] = items[i]
      BY <2>1, <2>2 DEF Entry
    <3>6. QED
      BY <2>1, <3>3, <3>4, <3>5
  <2>4. CASE \A k \in DOMAIN entries : entries[k].sha256 # existing[i].sha256
    <3>1. i \notin DOMAIN Moves
      BY <2>4 DEF Moves
    <3>2. Relocated(existing, Moves)[i] = existing[i]
      BY <3>1 DEF Relocated
    <3>3. items[i].url = existing[i].url
      BY <1>3, <2>4 DEF KeepsOld
    <3>4. items[i] = existing[i]
      BY <2>1, <2>2, <3>3 DEF Entry
    <3>5. QED
      BY <2>1, <3>2, <3>4
  <2>5. QED
    BY <2>3, <2>4
<1>5. Relocated(existing, Moves) \in [1..Len(existing) -> Entry]
  BY <1>1, <1>4, ListsType DEF Relocated
<1>6. QED
  BY <1>1, <1>4, <1>5, ListsType

LEMMA AmendsNew ==
    ASSUME AdmissionType, LoopInv, next = Len(entries) + 1
    PROVE  /\ Additions \in Seq(Entry)
           /\ Len(items) = Len(existing) + Len(Additions)
           /\ \A n \in 1..Len(Additions) : Additions[n] = items[Len(existing) + n]
<1>1. Lists(existing, entries, next, items)
  BY DEF AdmissionType
<1>2. /\ New = NewIn(existing, entries)
      /\ NewBefore(existing, entries, next) = New
      /\ \A k : Place(k) = PlaceIn(existing, entries, k)
  <2>1. New = NewIn(existing, entries)
    BY DEF New, NewIn, Carries
  <2>2. NewBefore(existing, entries, next) = NewIn(existing, entries)
    BY <1>1, NewFinite DEF Lists
  <2>3. QED
    BY <2>1, <2>2 DEF Place, PlaceIn
<1>3. Cardinality(New) \in Nat
  BY <1>1, <1>2, NewFinite, ListsType DEF Lists
<1>4. TakesNew(existing, entries, next, items)
  BY DEF LoopInv, Looped
<1>5. Len(items) = Len(existing) + Cardinality(New)
  BY <1>2, <1>4 DEF TakesNew
<1>6. ASSUME NEW n \in 1..Cardinality(New)
      PROVE  Additions[n] = items[Len(existing) + n] /\ items[Len(existing) + n] \in Entry
  <2>1. Len(existing) + n \in DOMAIN items /\ Len(existing) + n > Len(existing)
    BY <1>1, <1>3, <1>5, ListsType
  <2>2. \E k \in New : Len(existing) + n = Len(existing) + PlaceIn(existing, entries, k)
    BY <1>2, <1>4, <2>1 DEF TakesNew
  <2>3. \A k \in New : Place(k) \in Nat
    <3>1. \A k \in New : PlaceIn(existing, entries, k) \in 1..Cardinality(New)
      BY <1>1, <1>2, PlaceWithin, ListsType DEF Lists
    <3>2. QED
      BY <1>2, <1>3, <3>1
  <2>4. \E k \in New : Place(k) = n
    BY <1>1, <1>2, <2>2, <2>3, ListsType
  <2> DEFINE k == CHOOSE k \in New : Place(k) = n
  <2>5. k \in New /\ Place(k) = n
    BY <2>4
  <2>6. Additions[n] = entries[k]
    BY DEF Additions
  <2> HIDE DEF k
  <2>7. items[Len(existing) + n] = entries[k]
    BY <1>2, <1>4, <2>5 DEF TakesNew
  <2>8. QED
    BY <1>1, <2>1, <2>6, <2>7, ListsType
<1>7. Additions \in [1..Cardinality(New) -> Entry]
  BY <1>6 DEF Additions
<1>8. Additions \in Seq(Entry) /\ Len(Additions) = Cardinality(New)
  BY <1>3, <1>7
<1>9. QED
  BY <1>5, <1>6, <1>8

LEMMA LoopAmends ==
    ASSUME AdmissionType, LoopInv, next = Len(entries) + 1
    PROVE  items = Amendment
<1> DEFINE front == Relocated(existing, Moves)
<1>1. /\ front \in Seq(Entry) /\ Len(front) = Len(existing)
      /\ \A i \in DOMAIN existing : front[i] = items[i]
  BY AmendsOld
<1>2. /\ Additions \in Seq(Entry) /\ Len(items) = Len(existing) + Len(Additions)
      /\ \A n \in 1..Len(Additions) : Additions[n] = items[Len(existing) + n]
  BY AmendsNew
<1>3. /\ DOMAIN existing = 1..Len(existing) /\ Len(existing) \in Nat
      /\ items \in Seq(Entry) /\ Len(items) \in Nat
  BY ListsType DEF AdmissionType, Lists
<1>4. Amendment = front \o Additions
  BY DEF Amendment
<1> HIDE DEF front
<1>5. /\ front \o Additions \in Seq(Entry)
      /\ Len(front \o Additions) = Len(items)
      /\ \A i \in 1..Len(items) :
            (front \o Additions)[i] = IF i <= Len(existing) THEN front[i]
                                     ELSE Additions[i - Len(existing)]
  <2>1. /\ front \o Additions \in Seq(Entry)
        /\ Len(front \o Additions) = Len(front) + Len(Additions)
        /\ \A i \in 1..Len(front) + Len(Additions) :
              (front \o Additions)[i] = IF i <= Len(front) THEN front[i]
                                       ELSE Additions[i - Len(front)]
    BY <1>1, <1>2, ConcatProperties
  <2>2. QED
    BY <1>1, <1>2, <2>1
<1>6. Len(Additions) \in Nat
  BY <1>2, LenProperties
<1>7. ASSUME NEW i \in 1..Len(items)
      PROVE  (front \o Additions)[i] = items[i]
  <2>1. CASE i <= Len(existing)
    BY <1>1, <1>3, <1>5, <2>1
  <2>2. CASE ~(i <= Len(existing))
    <3>1. /\ i - Len(existing) \in 1..Len(Additions)
          /\ Len(existing) + (i - Len(existing)) = i
      BY <1>2, <1>3, <1>6, <2>2
    <3>2. QED
      BY <1>2, <1>5, <2>2, <3>1
  <2>3. QED
    BY <2>1, <2>2
<1>8. QED
  BY <1>3, <1>4, <1>5, <1>7, SeqEqual

LEMMA LoopDecides ==
    ASSUME AdmissionType, LoopInv, next = Len(entries) + 1
    PROVE  AmendmentAcceptable
              <=> LocationsDistinct /\ WithinPolicy(items, Definition, MinimumApplies)
<1>1. items = Amendment
  BY LoopAmends
<1>2. Lists(existing, entries, next, items)
  BY DEF AdmissionType
<1>3. Consistent(existing, entries, next) /\ \A k \in DOMAIN entries : k < next
  BY <1>2, ListsType DEF LoopInv, Looped
<1>4. /\ \A j, k \in DOMAIN entries : j # k => entries[j].sha256 # entries[k].sha256
      /\ \A k \in DOMAIN entries, i \in DOMAIN existing :
            entries[k].sha256 = existing[i].sha256 => entries[k].kind = existing[i].kind
  BY <1>3 DEF Consistent
<1>5. \A i, j \in DOMAIN items : i # j => items[i].sha256 # items[j].sha256
  BY <1>2, DocumentsDiffer DEF LoopInv
<1>6. NoRepeats(items) <=> LocationsDistinct
  BY <1>5 DEF NoRepeats, LocationsDistinct
<1>7. QED
  BY <1>1, <1>4, <1>6 DEF AmendmentAcceptable, Acceptable

LEMMA LoopResult ==
    AdmissionType /\ LoopInv /\ next = Len(entries) + 1
       => /\ items = Amendment
          /\ AmendmentAcceptable
                <=> LocationsDistinct /\ WithinPolicy(items, Definition, MinimumApplies)
BY LoopAmends, LoopDecides

\* The same of the next state.
LEMMA LoopResultNext ==
    (AdmissionType /\ LoopInv /\ next = Len(entries) + 1)'
       => (/\ items = Amendment
           /\ AmendmentAcceptable
                 <=> LocationsDistinct /\ WithinPolicy(items, Definition, MinimumApplies))'
BY LoopResult, PTL

LEMMA InconsistentIsRefused ==
    ASSUME AdmissionType, ~Consistent(existing, entries, Len(entries) + 1)
    PROVE  ~AmendmentAcceptable
BY DEF AmendmentAcceptable, Consistent

LEMMA InconsistentNext ==
    (AdmissionType /\ ~Consistent(existing, entries, Len(entries) + 1))'
       => ~AmendmentAcceptable'
<1>1. AdmissionType /\ ~Consistent(existing, entries, Len(entries) + 1)
         => ~AmendmentAcceptable
  BY InconsistentIsRefused
<1>2. QED
  BY <1>1, PTL

-------------------------------------------------------------------------------
(* The steps.                                                              *)

(* The loop invariant holds until an accepted list is returned; what it    *)
(* says of a finished loop is LoopIsAmendment, which outlives a refusal.   *)
AdmissionInv ==
    /\ AdmissionType
    /\ outcome \in {"looping", "accepted"} => LoopInv
    /\ LoopIsAmendment

LEMMA CallType ==
    ASSUME NEW n \in 0..Definition.maximum_evidence + 1, NEW args \in [1..n -> CallEntries]
    PROVE  args \in Seq(Entry)
<1>1. n \in Nat /\ CallEntries \subseteq Entry
  BY BoundsAreOrdered
<1>2. QED
  BY <1>1

LEMMA CallStep ==
    ASSUME AdmissionInv, NEW args \in Seq(Entry), Call(args)
    PROVE  AdmissionInv'
<1>1. /\ existing' = existing /\ entries' = args /\ items' = existing
      /\ next' = 1 /\ touched' = {} /\ outcome' = "looping"
  BY DEF Call
<1>2. Lists(existing, args, 1, existing)
  <2>1. Len(args) \in Nat
    BY LenProperties
  <2>2. QED
    BY <2>1 DEF AdmissionInv, AdmissionType, Lists
<1>3. AdmissionType'
  BY <1>1, <1>2 DEF AdmissionType
<1>4. LoopInv'
  BY <1>1, <1>2, LoopBegins DEF LoopInv
<1>5. QED
  BY <1>1, <1>3, <1>4 DEF AdmissionInv, LoopIsAmendment

LEMMA EntryStep ==
    ASSUME AdmissionInv, Step
    PROVE  AdmissionInv'
<1>1. /\ Lists(existing, entries, next, items) /\ outcome = "looping"
      /\ Looped(existing, entries, next, items, touched)
  BY DEF AdmissionInv, AdmissionType, LoopInv, Step
<1>2. next \in DOMAIN entries
  BY <1>1, ListsType DEF Step
<1>3. CASE RejectEntry(entries[next])
  <2>1. PICK i \in Matches(entries[next]) :
           i \in touched \/ items[i].kind # entries[next].kind
    BY <1>3 DEF RejectEntry
  <2>2. i \in DOMAIN items /\ items[i].sha256 = entries[next].sha256
    BY DEF Matches
  <2>3. ~Consistent(existing, entries, Len(entries) + 1)
    BY <1>1, <1>2, <2>1, <2>2, LoopRejects
  <2>4. outcome' = "error" /\ UNCHANGED <<existing, entries, next, items, touched>>
    BY <1>3 DEF RejectEntry, Fail
  <2>5. AdmissionType' /\ ~Consistent(existing, entries, Len(entries) + 1)'
    BY <1>1, <2>3, <2>4 DEF AdmissionType
  <2>6. ~AmendmentAcceptable'
    BY <2>5, InconsistentNext
  <2>7. QED
    BY <2>4, <2>5, <2>6 DEF AdmissionInv, LoopIsAmendment
<1>4. CASE Relocate(entries[next])
  <2>1. PICK i \in Matches(entries[next]) :
           /\ i \notin touched /\ items[i].kind = entries[next].kind
           /\ items' = [items EXCEPT ![i].url = entries[next].url]
           /\ touched' = touched \union {i}
           /\ next' = next + 1
           /\ UNCHANGED <<existing, entries, outcome>>
    BY <1>4 DEF Relocate
  <2>2. i \in DOMAIN items /\ items[i].sha256 = entries[next].sha256
    BY DEF Matches
  <2>3. /\ Lists(existing, entries, next', items')
        /\ Looped(existing, entries, next', items', touched')
    BY <1>1, <1>2, <2>1, <2>2, LoopRelocates
  <2>4. AdmissionType' /\ LoopInv'
    BY <1>1, <2>1, <2>3 DEF AdmissionType, LoopInv
  <2>5. QED
    BY <1>1, <2>1, <2>4 DEF AdmissionInv, LoopIsAmendment
<1>5. CASE AppendEntry(entries[next])
  <2>1. /\ \A i \in DOMAIN items : items[i].sha256 # entries[next].sha256
        /\ items' = Append(items, entries[next])
        /\ touched' = touched \union {Len(items) + 1}
        /\ next' = next + 1
        /\ UNCHANGED <<existing, entries, outcome>>
    BY <1>5 DEF AppendEntry, Matches
  <2>2. /\ Lists(existing, entries, next', items')
        /\ Looped(existing, entries, next', items', touched')
    BY <1>1, <1>2, <2>1, LoopAppends
  <2>3. AdmissionType' /\ LoopInv'
    BY <1>1, <2>1, <2>2 DEF AdmissionType, LoopInv
  <2>4. QED
    BY <1>1, <2>1, <2>3 DEF AdmissionInv, LoopIsAmendment
<1>6. QED
  BY <1>3, <1>4, <1>5 DEF Step

LEMMA FinishStep ==
    ASSUME AdmissionInv, Finish
    PROVE  AdmissionInv'
<1>1. /\ Lists(existing, entries, next, items) /\ LoopInv
      /\ outcome' \in {"accepted", "error"}
      /\ UNCHANGED <<existing, entries, next, items, touched>>
      /\ outcome' = "accepted" <=> /\ LocationsDistinct
                                   /\ WithinPolicy(items, Definition, MinimumApplies)
  BY DEF AdmissionInv, AdmissionType, Finish
<1>2. next = Len(entries) + 1
  BY <1>1, ListsType DEF Finish, Lists
<1>3. AdmissionType' /\ LoopInv' /\ (next = Len(entries) + 1)'
  BY <1>1, <1>2 DEF AdmissionType, LoopInv
<1>4. /\ LocationsDistinct' <=> LocationsDistinct
      /\ WithinPolicy(items, Definition, MinimumApplies)'
            <=> WithinPolicy(items, Definition, MinimumApplies)
  BY <1>1 DEF LocationsDistinct, WithinPolicy, MinimumApplies
<1>5. /\ items' = Amendment'
      /\ AmendmentAcceptable'
            <=> LocationsDistinct' /\ WithinPolicy(items, Definition, MinimumApplies)'
  BY <1>3, LoopResultNext
<1>6. QED
  BY <1>1, <1>3, <1>4, <1>5 DEF AdmissionInv, LoopIsAmendment

LEMMA ReturnStep ==
    ASSUME AdmissionInv, Return
    PROVE  AdmissionInv'
<1>1. Lists(existing, entries, next, items)
  BY DEF AdmissionInv, AdmissionType
<1>2. existing' \in Seq(Entry) /\ NoRepeats(existing')
  <2>1. CASE outcome = "accepted"
    <3>1. NoRepeats(items)
      BY <2>1 DEF AdmissionInv, LoopIsAmendment, AmendmentAcceptable, Acceptable
    <3>2. QED
      BY <1>1, <2>1, <3>1 DEF Return, Lists
  <2>2. CASE outcome # "accepted"
    BY <1>1, <2>2 DEF Return, Lists
  <2>3. QED
    BY <2>1, <2>2
<1>3. /\ <<>> \in Seq(Entry) /\ Len(<<>>) = 0
      /\ entries' = <<>> /\ items' = <<>> /\ next' = 1 /\ outcome' = "idle"
  BY EmptySeq DEF Return
<1>4. AdmissionType'
  BY <1>2, <1>3 DEF AdmissionType, Lists
<1>5. QED
  BY <1>3, <1>4 DEF AdmissionInv, LoopIsAmendment

LEMMA AmendmentStays ==
    ASSUME UNCHANGED <<existing, entries>>
    PROVE  Amendment' = Amendment
<1>1. Moves' = Moves
  BY DEF Moves
<1>2. New' = New
  BY DEF New, Carries
<1>3. \A k : Place(k)' = Place(k)
  BY <1>2 DEF Place
<1>4. Additions' = Additions
  BY DEF Additions, New, Place, Carries
<1>5. QED
  BY <1>1, <1>4 DEF Amendment, Relocated

LEMMA StutterStep ==
    ASSUME AdmissionInv, UNCHANGED admissionVars
    PROVE  AdmissionInv'
<1>1. Amendment' = Amendment
  BY AmendmentStays DEF admissionVars
<1>2. AmendmentAcceptable' <=> AmendmentAcceptable
  BY <1>1 DEF AmendmentAcceptable, admissionVars, Acceptable, NoRepeats, WithinPolicy,
              MinimumApplies
<1>3. QED
  BY <1>1, <1>2 DEF admissionVars, AdmissionInv, AdmissionType, LoopInv, LoopIsAmendment

LEMMA AdmissionStep ==
    ASSUME AdmissionInv, [Next]_admissionVars
    PROVE  AdmissionInv'
<1>1. CASE UNCHANGED admissionVars
  BY <1>1, StutterStep
<1>2. CASE Next
  BY <1>2, CallType, CallStep, EntryStep, FinishStep, ReturnStep DEF Next
<1>3. QED
  BY <1>1, <1>2

LEMMA AdmissionStarts == Init => AdmissionInv
<1>1. <<>> \in Seq(Entry) /\ Len(<<>>) = 0 /\ DOMAIN <<>> = {}
  BY EmptySeq
<1>2. QED
  BY <1>1 DEF Init, AdmissionInv, AdmissionType, Lists, NoRepeats, LoopIsAmendment

LEMMA AdmissionHolds == Spec => []AdmissionInv
BY AdmissionStarts, AdmissionStep, PTL DEF Spec

(* The loop of _evidence_error accepts exactly the calls that are an       *)
(* acceptable amendment of the committed list, and its working copy is     *)
(* then that amendment, for calls of up to one entry more than a claim may *)
(* hold (Next offers no longer ones) and in any order.                     *)
THEOREM LoopIsExact == Spec => []LoopIsAmendment
<1>1. AdmissionInv => LoopIsAmendment
  BY DEF AdmissionInv
<1>2. QED
  BY <1>1, AdmissionHolds, PTL

(* The committed list never repeats a document or a location.              *)
THEOREM CommittedStayDistinct == Spec => []CommittedDistinct
<1>1. AdmissionInv => CommittedDistinct
  BY DEF AdmissionInv, AdmissionType, Lists, CommittedDistinct
<1>2. QED
  BY <1>1, AdmissionHolds, PTL

\* What a step leaves of the committed documents.
Keeps ==
    \A i \in DOMAIN existing :
       /\ i \in DOMAIN existing'
       /\ existing'[i].sha256 = existing[i].sha256
       /\ existing'[i].kind = existing[i].kind

LEMMA StepKeeps ==
    ASSUME AdmissionInv, [Next]_admissionVars
    PROVE  Keeps
<1>1. CASE UNCHANGED existing
  BY <1>1 DEF Keeps
<1>2. CASE Return
  <2>1. CASE outcome = "accepted"
    <3>1. KeepsOld(existing, entries, next, items)
      BY <2>1 DEF AdmissionInv, LoopInv, Looped
    <3>2. existing' = items
      BY <1>2, <2>1 DEF Return
    <3>3. QED
      BY <3>1, <3>2 DEF KeepsOld, Keeps
  <2>2. CASE outcome # "accepted"
    BY <1>2, <2>2 DEF Return, Keeps
  <2>3. QED
    BY <2>1, <2>2
<1>3. QED
  BY <1>1, <1>2 DEF Next, Call, Step, RejectEntry, Fail, Relocate, AppendEntry, Finish,
                    admissionVars

(* No accepted call drops, relabels or reorders a committed document.      *)
THEOREM NothingIsWithdrawn == Spec => NothingWithdrawn
<1>1. AdmissionInv /\ [Next]_admissionVars
         => \A i \in DOMAIN existing :
               /\ i \in DOMAIN existing'
               /\ existing'[i].sha256 = existing[i].sha256
               /\ existing'[i].kind = existing[i].kind
  BY StepKeeps DEF Keeps
<1>2. QED
  BY <1>1, AdmissionHolds, PTL DEF Spec, NothingWithdrawn

===============================================================================
