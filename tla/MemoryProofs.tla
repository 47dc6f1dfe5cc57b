-------------------------- MODULE MemoryProofs -----------------------------
(***************************************************************************)
(* What the memories of the workspace keep: the Brain, for any texts, and  *)
(* the two stores that processes share, MemoryBus and SecretVault, for any *)
(* calls, processes and passphrases.                                       *)
(*                                                                         *)
(* Of the Brain, EpisodesTrue says that a store which lacks an episode is  *)
(* full, and Spoken that a vector has the places of the words of its text  *)
(* only.                                                                   *)
(*                                                                         *)
(* Of structured memory, InsideLocks, BusesOwn and FileHeld say that who   *)
(* is between the locks holds both, WritersHold that nobody else writes;   *)
(* SerialsCount numbers the writes that are finished, and the other parts  *)
(* of MemoryInv compare every copy of the value, in a file, a row, an      *)
(* index or a process, with them.  Of the vault, SaltHasMaker and OneSalt  *)
(* say that there is one salt unless two programs made one, ChangesInTurn  *)
(* what a change that nothing overlaps will leave.                         *)
(***************************************************************************)
EXTENDS Functions, MCWorkspace, SequenceTheorems, FiniteSetTheorems,
        WellFoundedInduction, TLAPS

----------------------------------------------------------------------------
(* Brain: episodes.                                                        *)
Above(rows, e) == {f \in rows : Sooner(e, f)}

Numbered(rows) ==
    /\ rows \subseteq [n : Nat, importance : Nat]
    /\ IsFiniteSet(rows)
    /\ \A e, f \in rows : e.n = f.n => e = f

\* The store is full as soon as an episode is missing.
EpisodesTrue ==
    /\ Numbered(perceived)
    /\ \A e \in perceived : e.n < Cardinality(perceived)
    /\ episodes = KeepEpisodes(perceived)
    /\ episodes = perceived \/ Cardinality(episodes) = MaxEpisodes

LEMMA SoonerOrders ==
    ASSUME NEW rows, Numbered(rows)
    PROVE  /\ \A e \in rows : ~Sooner(e, e)
           /\ \A e, f \in rows : e = f \/ Sooner(e, f) \/ Sooner(f, e)
           /\ \A e, f \in rows : ~(Sooner(e, f) /\ Sooner(f, e))
           /\ \A e, f, g \in rows : Sooner(e, f) /\ Sooner(f, g) => Sooner(e, g)
<1>1. \A e \in rows : e.n \in Nat /\ e.importance \in Nat BY DEF Numbered
<1>2. \A e, f \in rows : e.n = f.n => e = f BY DEF Numbered
<1> QED BY <1>1, <1>2 DEF Sooner

LEMMA AboveIsFinite ==
    ASSUME NEW rows, IsFiniteSet(rows), NEW e
    PROVE  /\ IsFiniteSet(Above(rows, e)) /\ Cardinality(Above(rows, e)) \in Nat
           /\ KeepEpisodes(rows) \subseteq rows /\ IsFiniteSet(KeepEpisodes(rows))
<1>1. Above(rows, e) \in SUBSET rows /\ KeepEpisodes(rows) \in SUBSET rows
  BY DEF Above, KeepEpisodes
<1> QED BY <1>1, FS_Subset, FS_CardinalityType

\* Which are kept, said with Above.
LEMMA KeepAbove ==
    ASSUME NEW rows
    PROVE  \A e : e \in KeepEpisodes(rows)
                    <=> e \in rows /\ Cardinality(Above(rows, e)) < MaxEpisodes
BY DEF KeepEpisodes, Above

\* One of them has all others above it.
LEMMA Lowest ==
    ASSUME NEW rows, Numbered(rows), NEW m \in Nat, Cardinality(rows) = m + 1
    PROVE  \E e \in rows : Cardinality(Above(rows, e)) >= m
<1> SUFFICES ASSUME \A e \in rows : Cardinality(Above(rows, e)) < m PROVE FALSE
  <2>1. \A e \in rows : Cardinality(Above(rows, e)) \in Nat
    BY AboveIsFinite DEF Numbered
  <2> QED BY <2>1
<1> DEFINE Rank == [e \in rows |-> Cardinality(Above(rows, e))]
<1>1. \A e \in rows : Cardinality(Above(rows, e)) \in Nat BY AboveIsFinite DEF Numbered
<1>2. Rank \in [rows -> 0..(m - 1)] BY <1>1
<1>3. IsFiniteSet(0..(m - 1)) /\ Cardinality(0..(m - 1)) = m
  <2>1. 0 \in Int /\ m - 1 \in Int OBVIOUS
  <2>2. /\ IsFiniteSet(0..(m - 1))
        /\ Cardinality(0..(m - 1)) = IF 0 > m - 1 THEN 0 ELSE (m - 1) - 0 + 1
    BY ONLY <2>1, FS_Interval
  <2> QED BY <2>2
<1>4. IsFiniteSet(rows) BY DEF Numbered
<1>5. Cardinality(0..(m - 1)) < Cardinality(rows) BY <1>3
<1> HIDE DEF Rank
<1>6. \E e, f \in rows : e # f /\ Rank[e] = Rank[f]
  BY ONLY <1>2, <1>3, <1>4, <1>5, FS_PigeonHole
<1>7. PICK e \in rows, f \in rows : e # f /\ Rank[e] = Rank[f] /\ Sooner(e, f)
  BY <1>6, SoonerOrders
<1>8. Above(rows, f) \in SUBSET Above(rows, e) /\ f \in Above(rows, e) /\ f \notin Above(rows, f)
  BY <1>7, SoonerOrders DEF Above
<1>9. Cardinality(Above(rows, f)) = Cardinality(Above(rows, e)) BY <1>7 DEF Rank
<1>10. IsFiniteSet(Above(rows, e)) BY <1>4, AboveIsFinite
<1> QED BY ONLY <1>8, <1>9, <1>10, FS_Subset

\* What is kept of a part that is large enough is what is kept of the whole.
LEMMA KeepAgrees ==
    ASSUME NEW all, NEW e, e \notin all, Numbered(all \cup {e}),
           NEW stored, stored = KeepEpisodes(all), stored = all \/ Cardinality(stored) = MaxEpisodes
    PROVE  KeepEpisodes(stored \cup {e}) = KeepEpisodes(all \cup {e})
<1> DEFINE A == all \cup {e}
           P == stored \cup {e}
<1>1. IsFiniteSet(A) /\ IsFiniteSet(all) /\ Numbered(all)
  <2>1. all \in SUBSET A OBVIOUS
  <2>2. IsFiniteSet(all) BY <2>1, FS_Subset DEF Numbered
  <2> QED BY <2>2 DEF Numbered
<1>2. stored \subseteq all BY DEF KeepEpisodes
<1>3. MaxEpisodes \in Nat \ {0} BY BrainAssumption
<1>4. ASSUME NEW x \in P, Cardinality(Above(A, x)) < MaxEpisodes
      PROVE  Cardinality(Above(P, x)) < MaxEpisodes
  <2>1. Above(P, x) \in SUBSET Above(A, x) BY <1>2 DEF Above
  <2>2. IsFiniteSet(Above(A, x)) /\ Cardinality(Above(A, x)) \in Nat
    BY <1>1, AboveIsFinite
  <2>3. Cardinality(Above(P, x)) <= Cardinality(Above(A, x)) /\ IsFiniteSet(Above(P, x))
    BY <2>1, <2>2, FS_Subset
  <2>4. Cardinality(Above(P, x)) \in Nat BY <2>3, FS_CardinalityType
  <2> HIDE DEF P, A
  <2> QED BY <1>3, <1>4, <2>2, <2>3, <2>4
<1>5. ASSUME NEW x \in A, Cardinality(Above(A, x)) < MaxEpisodes
      PROVE  x \in P
  <2> SUFFICES ASSUME x \in all PROVE x \in stored OBVIOUS
  <2>1. Above(all, x) \in SUBSET Above(A, x) BY DEF Above
  <2>2. IsFiniteSet(Above(A, x)) /\ Cardinality(Above(A, x)) \in Nat
    BY <1>1, AboveIsFinite
  <2>3. Cardinality(Above(all, x)) <= Cardinality(Above(A, x)) /\ IsFiniteSet(Above(all, x))
    BY <2>1, <2>2, FS_Subset
  <2>4. Cardinality(Above(all, x)) \in Nat BY <2>3, FS_CardinalityType
  <2>5. Cardinality(Above(all, x)) < MaxEpisodes
    <3> HIDE DEF A
    <3> QED BY <1>3, <1>5, <2>2, <2>3, <2>4
  <2> QED BY <2>5, KeepAbove
<1>6. ASSUME NEW x \in P, Cardinality(Above(P, x)) < MaxEpisodes
      PROVE  Cardinality(Above(A, x)) < MaxEpisodes
  <2>1. CASE Above(A, x) \subseteq P
    <3>1. Above(A, x) = Above(P, x) BY <1>2, <2>1 DEF Above
    <3> QED BY <1>6, <3>1
  <2>2. CASE ~(Above(A, x) \subseteq P)
    <3>1. PICK y \in all : y \notin stored /\ Sooner(x, y) BY <2>2 DEF Above
    <3>2. ~(Cardinality(Above(all, y)) < MaxEpisodes) BY <3>1, KeepAbove
    <3>3. ASSUME NEW k \in stored PROVE Sooner(y, k)
      <4>1. k \in all /\ Cardinality(Above(all, k)) < MaxEpisodes BY <3>3, KeepAbove
      <4>2. k # y BY <3>1, <3>3
      <4>3. CASE Sooner(k, y)
        <5>1. Above(all, y) \in SUBSET Above(all, k)
          BY <1>1, <3>1, <4>1, <4>3, SoonerOrders DEF Above
        <5>2. IsFiniteSet(Above(all, k)) /\ Cardinality(Above(all, k)) \in Nat
          BY <1>1, AboveIsFinite
        <5>3. Cardinality(Above(all, y)) <= Cardinality(Above(all, k))
          BY <5>1, <5>2, FS_Subset
        <5>4. Cardinality(Above(all, y)) \in Nat BY <1>1, AboveIsFinite
        <5> QED BY <1>3, <3>2, <4>1, <5>2, <5>3, <5>4
      <4> QED BY <1>1, <3>1, <4>1, <4>2, <4>3, SoonerOrders
    <3>4. stored \in SUBSET Above(P, x)
      <4>1. x \in A /\ y \in A /\ stored \subseteq A BY <1>2
      <4>2. \A k \in stored : Sooner(x, k) BY <3>1, <3>3, <4>1, SoonerOrders
      <4> QED BY <4>2 DEF Above
    <3>5. Cardinality(stored) = MaxEpisodes BY <3>1
    <3>6. IsFiniteSet(P)
      <4>1. P \in SUBSET A BY <1>2
      <4> QED BY <1>1, <4>1, FS_Subset
    <3>7. IsFiniteSet(Above(P, x)) /\ Cardinality(Above(P, x)) \in Nat
      BY <3>6, AboveIsFinite
    <3>8. Cardinality(stored) <= Cardinality(Above(P, x)) BY <3>4, <3>7, FS_Subset
    <3> HIDE DEF P
    <3> QED BY <1>3, <1>6, <3>5, <3>7, <3>8
  <2> QED BY <2>1, <2>2
<1>7. P \subseteq A BY <1>2
<1> HIDE DEF P, A
<1>8. KeepEpisodes(P) = KeepEpisodes(A)
  <2>1. \A x : x \in KeepEpisodes(P) <=> x \in KeepEpisodes(A)
    BY <1>4, <1>5, <1>6, <1>7, KeepAbove
  <2> QED BY <2>1 DEF KeepEpisodes
<1> QED BY <1>8 DEF P, A

\* The store holds everything, or as much as it may.
LEMMA KeepFills ==
    ASSUME NEW all, NEW e, e \notin all, Numbered(all \cup {e}),
           NEW stored, stored = KeepEpisodes(all), stored = all \/ Cardinality(stored) = MaxEpisodes
    PROVE  \/ KeepEpisodes(stored \cup {e}) = all \cup {e}
           \/ Cardinality(KeepEpisodes(stored \cup {e})) = MaxEpisodes
<1> DEFINE A == all \cup {e}
           P == stored \cup {e}
<1>1. IsFiniteSet(A) /\ IsFiniteSet(all) /\ Numbered(all)
  <2>1. all \in SUBSET A OBVIOUS
  <2>2. IsFiniteSet(all) BY <2>1, FS_Subset DEF Numbered
  <2> QED BY <2>2 DEF Numbered
<1>2. stored \subseteq all BY DEF KeepEpisodes
<1>3. MaxEpisodes \in Nat \ {0} BY BrainAssumption
<1>4. Cardinality(all) \in Nat /\ IsFiniteSet(stored)
  <2>1. stored \in SUBSET all BY <1>2
  <2> QED BY <1>1, <2>1, FS_Subset, FS_CardinalityType
<1>5. CASE stored = all /\ Cardinality(all) < MaxEpisodes
  <2>1. ASSUME NEW x \in A PROVE Cardinality(Above(A, x)) < MaxEpisodes
    <3>1. Cardinality(A) = Cardinality(all) + 1 BY <1>1, FS_AddElement
    <3>2. IsFiniteSet(A \ {x}) /\ Cardinality(A \ {x}) = Cardinality(A) - 1
      BY <1>1, FS_RemoveElement
    <3>3. Above(A, x) \in SUBSET (A \ {x}) BY SoonerOrders DEF Above
    <3>4. Cardinality(Above(A, x)) <= Cardinality(A \ {x}) BY <3>2, <3>3, FS_Subset
    <3>5. Cardinality(Above(A, x)) \in Nat BY <1>1, AboveIsFinite
    <3> HIDE DEF A
    <3> QED BY <1>3, <1>4, <1>5, <3>1, <3>2, <3>4, <3>5
  <2> HIDE DEF A, P
  <2>2. KeepEpisodes(A) = A BY <2>1, KeepAbove
  <2> QED BY <1>5, <2>2 DEF A
<1>6. CASE Cardinality(stored) = MaxEpisodes
  <2>1. IsFiniteSet(P) /\ Cardinality(P) = MaxEpisodes + 1
    BY <1>2, <1>4, <1>6, FS_AddElement
  <2>2. Numbered(P) BY <1>2, <2>1 DEF Numbered
  <2>3. PICK y \in P : Cardinality(Above(P, y)) >= MaxEpisodes
    <3> HIDE DEF P
    <3> QED BY <1>3, <2>1, <2>2, Lowest
  <2>4. IsFiniteSet(P \ {y}) /\ Cardinality(P \ {y}) = MaxEpisodes
    <3> HIDE DEF P
    <3> QED BY <1>3, <2>1, FS_RemoveElement
  <2>5. Above(P, y) = P \ {y}
    <3>1. Above(P, y) \in SUBSET (P \ {y}) BY <2>2, SoonerOrders DEF Above
    <3>2. Cardinality(Above(P, y)) <= Cardinality(P \ {y}) BY <2>4, <3>1, FS_Subset
    <3>3. Cardinality(Above(P, y)) \in Nat BY <2>1, AboveIsFinite
    <3>4. Cardinality(Above(P, y)) = Cardinality(P \ {y})
      BY <1>3, <2>3, <2>4, <3>2, <3>3
    <3> HIDE DEF P
    <3> QED BY ONLY <2>4, <3>1, <3>4, FS_Subset
  <2>6. ASSUME NEW x \in P \ {y} PROVE Cardinality(Above(P, x)) < MaxEpisodes
    <3> HIDE DEF P
    <3>1. Above(P, x) \in SUBSET ((P \ {y}) \ {x})
      <4>1. Sooner(y, x) BY <2>5, <2>6 DEF Above
      <4>2. y \notin Above(P, x) /\ x \notin Above(P, x)
        BY <2>2, <4>1, SoonerOrders DEF Above
      <4> QED BY <4>2 DEF Above
    <3>2. /\ IsFiniteSet((P \ {y}) \ {x})
          /\ Cardinality((P \ {y}) \ {x}) = MaxEpisodes - 1
      <4> DEFINE Q == P \ {y}
      <4>1. x \in Q /\ IsFiniteSet(Q) /\ Cardinality(Q) = MaxEpisodes BY <2>4, <2>6
      <4> HIDE DEF Q
      <4>2. IsFiniteSet(Q \ {x}) /\ Cardinality(Q \ {x}) = MaxEpisodes - 1
        BY <4>1, FS_RemoveElement
      <4> QED BY <4>2 DEF Q
    <3>3. Cardinality(Above(P, x)) <= MaxEpisodes - 1 BY <3>1, <3>2, FS_Subset
    <3>4. Cardinality(Above(P, x)) \in Nat BY <2>1, AboveIsFinite
    <3> QED BY <1>3, <3>3, <3>4
  <2>7. ~(Cardinality(Above(P, y)) < MaxEpisodes)
    <3>1. Cardinality(Above(P, y)) \in Nat BY <2>1, AboveIsFinite
    <3> QED BY <1>3, <2>3, <3>1
  <2> HIDE DEF P
  <2>8. KeepEpisodes(P) = P \ {y}
    <3>1. \A x : x \in KeepEpisodes(P) <=> x \in P \ {y} BY <2>3, <2>6, <2>7, KeepAbove
    <3> QED BY <3>1
  <2> QED BY <2>4, <2>8 DEF P
<1>7. CASE stored = all /\ ~(Cardinality(all) < MaxEpisodes) /\ Cardinality(stored) # MaxEpisodes
  <2>1. Cardinality(all) - 1 \in Nat /\ Cardinality(all) - 1 >= MaxEpisodes
    BY <1>3, <1>4, <1>7
  <2>2. PICK y \in all : Cardinality(Above(all, y)) >= Cardinality(all) - 1
    <3>1. \A m \in Nat : Cardinality(all) = m + 1
              => \E y \in all : Cardinality(Above(all, y)) >= m
      BY <1>1, Lowest
    <3>2. Cardinality(all) = (Cardinality(all) - 1) + 1 BY <1>4
    <3> QED BY <2>1, <3>1, <3>2
  <2>3. Cardinality(Above(all, y)) \in Nat BY <1>1, AboveIsFinite
  <2>4. Cardinality(Above(all, y)) < MaxEpisodes BY <1>7, KeepAbove
  <2> QED BY <1>3, <1>4, <2>1, <2>2, <2>3, <2>4
<1> QED BY <1>5, <1>6, <1>7

LEMMA PerceiveKeeps ==
    ASSUME EpisodesTrue, NEW x \in Experiences, Perceive(x)
    PROVE  EpisodesTrue'
<1>1. PICK rows : rows = perceived OBVIOUS
<1>2. IsFiniteSet(rows) BY <1>1 DEF EpisodesTrue, Numbered
<1>3. PICK n \in Nat : n = Cardinality(rows) BY <1>2, FS_CardinalityType
<1>4. PICK had : had = episodes OBVIOUS
<1> DEFINE e == [n |-> n, importance |-> x.importance]
<1>5. episodes' = KeepEpisodes(had \cup {e}) /\ perceived' = rows \cup {e}
  BY <1>1, <1>3, <1>4 DEF Perceive
<1>6. e \in [n : Nat, importance : Nat] /\ e.n = n BY <1>3, BrainAssumption
<1>7. /\ Numbered(rows) /\ \A f \in rows : f.n < n
      /\ had = KeepEpisodes(rows)
      /\ had = rows \/ Cardinality(had) = MaxEpisodes
  BY <1>1, <1>3, <1>4 DEF EpisodesTrue
<1> HIDE DEF e
<1>8. \A f \in rows : f.n \in Nat /\ f.n # n BY <1>3, <1>7 DEF Numbered
<1>9. e \notin rows BY <1>6, <1>8
<1>10. IsFiniteSet(rows \cup {e}) /\ Cardinality(rows \cup {e}) = n + 1
  BY <1>2, <1>3, <1>9, FS_AddElement
<1>11. Numbered(rows \cup {e}) BY <1>6, <1>7, <1>8, <1>10 DEF Numbered
<1>12. \A f \in rows \cup {e} : f.n < n + 1 BY <1>3, <1>6, <1>7, <1>8
<1>13. KeepEpisodes(had \cup {e}) = KeepEpisodes(rows \cup {e})
  BY <1>7, <1>9, <1>11, KeepAgrees
<1>14. \/ KeepEpisodes(had \cup {e}) = rows \cup {e}
       \/ Cardinality(KeepEpisodes(had \cup {e})) = MaxEpisodes
  BY <1>7, <1>9, <1>11, KeepFills
<1> QED BY <1>5, <1>10, <1>11, <1>12, <1>13, <1>14 DEF EpisodesTrue

----------------------------------------------------------------------------
(* Brain: the places of words.                                             *)

\* No two words share a place.
Placed(known) ==
    /\ IsFiniteSet(DOMAIN known)
    /\ \A w \in DOMAIN known : known[w] \in 1..Cardinality(DOMAIN known)
    /\ \A v, w \in DOMAIN known : known[v] = known[w] => v = w

IsList(text) == text \in Seq(Members(text))

LEMMA ListsAreFinite ==
    ASSUME NEW text, IsList(text)
    PROVE  /\ IsFiniteSet(Members(text))
           /\ Len(text) \in Nat /\ DOMAIN text = 1..Len(text)
<1>1. PICK S : S = Members(text) OBVIOUS
<1>2. text \in Seq(S) BY <1>1 DEF IsList
<1>3. Len(text) \in Nat /\ DOMAIN text = 1..Len(text) BY <1>2
<1>4. PICK n \in Nat : n = Len(text) BY <1>3
<1>5. text \in Surjection(1..n, S) BY <1>1, <1>2, <1>3, <1>4 DEF Surjection, Members
<1>6. ExistsSurjection(1..n, S) BY <1>5 DEF ExistsSurjection
<1>7. IsFiniteSet(S) BY <1>6, FS_NatSurjection
<1> QED BY <1>1, <1>3, <1>7

\* A set of natural numbers that is not empty has its least element.
LEMMA LeastOne ==
    ASSUME NEW S \in SUBSET Nat, S # {}
    PROVE  \E x \in S : \A y \in S : x <= y
<1> DEFINE R == OpToRel(<, Nat)
<1>1. IsWellFoundedOn(R, Nat) BY NatLessThanWellFounded
<1>2. \A x, y \in Nat : y < x => <<y, x>> \in R BY DEF OpToRel
<1> HIDE DEF R
<1>3. PICK x \in S : \A y \in S : ~(<<y, x>> \in R) BY <1>1, WFMin, Zenon
<1>4. \A y \in S : ~(y < x) BY <1>2, <1>3
<1> QED BY <1>4

LEMMA FirstIs ==
    ASSUME NEW text, IsList(text), NEW w \in Members(text)
    PROVE  /\ FirstUse(text, w) \in 1..Len(text)
           /\ text[FirstUse(text, w)] = w
           /\ \A j \in 1..(FirstUse(text, w) - 1) : text[j] # w
<1>1. Len(text) \in Nat /\ DOMAIN text = 1..Len(text) BY ListsAreFinite
<1> DEFINE S == {i \in 1..Len(text) : text[i] = w}
<1>2. S \in SUBSET Nat /\ S # {} BY <1>1 DEF Members
<1>3. PICK i \in S : \A j \in S : i <= j BY <1>2, LeastOne
<1>4. \A j \in 1..(i - 1) : text[j] # w BY <1>1, <1>3
<1>5. \E k \in DOMAIN text : text[k] = w /\ \A j \in 1..(k - 1) : text[j] # w
  BY <1>1, <1>3, <1>4
<1> QED BY <1>1, <1>5 DEF FirstUse

\* What the process knew it still knows, and it knows the words of the text.
LEMMA MeetKeeps ==
    ASSUME NEW known, NEW text
    PROVE  /\ DOMAIN Meet(known, text) = DOMAIN known \cup Members(text)
           /\ \A w \in DOMAIN known : Meet(known, text)[w] = known[w]
BY DEF Meet

LEMMA MeetPlaces ==
    ASSUME NEW known, Placed(known), NEW text, IsList(text)
    PROVE  Placed(Meet(known, text))
<1> DEFINE D == DOMAIN known
           M == Meet(known, text)
           UpTo(w) == D \cup {text[i] : i \in 1..FirstUse(text, w)}
<1>1. IsFiniteSet(D) /\ IsFiniteSet(Members(text)) /\ IsFiniteSet(D \cup Members(text))
  BY ListsAreFinite, FS_Union DEF Placed
<1>2. Len(text) \in Nat /\ DOMAIN text = 1..Len(text) BY ListsAreFinite
<1>3. ASSUME NEW w \in Members(text) \ D
      PROVE  /\ M[w] = Cardinality(UpTo(w))
             /\ w \in UpTo(w) /\ D \subseteq UpTo(w)
             /\ UpTo(w) \in SUBSET (D \cup Members(text))
             /\ IsFiniteSet(UpTo(w))
  <2>1. FirstUse(text, w) \in 1..Len(text) /\ text[FirstUse(text, w)] = w BY FirstIs
  <2>2. M[w] = Cardinality(UpTo(w)) BY DEF Meet
  <2>3. w \in UpTo(w) BY <1>2, <2>1
  <2>4. UpTo(w) \in SUBSET (D \cup Members(text)) BY <1>2, <2>1 DEF Members
  <2>5. IsFiniteSet(UpTo(w))
    <3> HIDE DEF UpTo
    <3> QED BY <1>1, <2>4, FS_Subset
  <2> QED BY <2>2, <2>3, <2>4, <2>5
<1>4. ASSUME NEW v \in Members(text) \ D, NEW w \in Members(text) \ D,
             FirstUse(text, v) < FirstUse(text, w)
      PROVE  UpTo(v) \in SUBSET UpTo(w) /\ w \notin UpTo(v)
  <2>1. /\ FirstUse(text, w) \in 1..Len(text)
        /\ \A j \in 1..(FirstUse(text, w) - 1) : text[j] # w
    BY FirstIs
  <2>2. FirstUse(text, v) \in 1..Len(text) BY FirstIs
  <2>3. \A i \in 1..FirstUse(text, v) : i \in 1..(FirstUse(text, w) - 1)
    BY <1>2, <1>4, <2>1, <2>2
  <2> QED BY <1>2, <2>1, <2>2, <2>3
<1>5. ASSUME NEW v \in Members(text) \ D, NEW w \in Members(text) \ D,
             FirstUse(text, v) < FirstUse(text, w)
      PROVE  M[v] # M[w]
  <2>1. UpTo(v) \in SUBSET UpTo(w) /\ UpTo(v) # UpTo(w)
    <3>1. UpTo(v) \in SUBSET UpTo(w) /\ w \notin UpTo(v) BY <1>4, <1>5
    <3>2. w \in UpTo(w) BY <1>3
    <3> HIDE DEF UpTo
    <3> QED BY <3>1, <3>2
  <2>2. /\ IsFiniteSet(UpTo(w))
        /\ M[v] = Cardinality(UpTo(v)) /\ M[w] = Cardinality(UpTo(w))
    BY <1>3
  <2> HIDE DEF UpTo, M
  <2> QED BY <2>1, <2>2, FS_Subset
<1>6. ASSUME NEW w \in Members(text) \ D
      PROVE  /\ M[w] \in 1..Cardinality(D \cup Members(text))
             /\ M[w] > Cardinality(D)
  <2>1. /\ IsFiniteSet(UpTo(w)) /\ M[w] = Cardinality(UpTo(w))
        /\ UpTo(w) \in SUBSET (D \cup Members(text))
        /\ D \in SUBSET UpTo(w) /\ D # UpTo(w)
    BY <1>3
  <2> HIDE DEF UpTo, M, D
  <2>2. /\ Cardinality(UpTo(w)) <= Cardinality(D \cup Members(text))
        /\ Cardinality(D \cup Members(text)) \in Nat
    BY <1>1, <2>1, FS_Subset, FS_CardinalityType
  <2>3. /\ Cardinality(D) <= Cardinality(UpTo(w)) /\ Cardinality(D) # Cardinality(UpTo(w))
        /\ Cardinality(D) \in Nat /\ Cardinality(UpTo(w)) \in Nat
    BY <1>1, <2>1, FS_Subset, FS_CardinalityType
  <2> QED BY <2>1, <2>2, <2>3
<1>7. ASSUME NEW w \in D
      PROVE  /\ M[w] = known[w] /\ M[w] \in 1..Cardinality(D)
             /\ M[w] \in 1..Cardinality(D \cup Members(text))
  <2>1. M[w] = known[w] /\ M[w] \in 1..Cardinality(D) BY MeetKeeps DEF Placed
  <2>2. /\ Cardinality(D) <= Cardinality(D \cup Members(text))
        /\ Cardinality(D) \in Nat /\ Cardinality(D \cup Members(text)) \in Nat
    <3>1. D \in SUBSET (D \cup Members(text)) OBVIOUS
    <3> HIDE DEF D
    <3> QED BY <1>1, <3>1, FS_Subset, FS_CardinalityType
  <2> QED BY <2>1, <2>2
<1>8. DOMAIN M = D \cup Members(text) BY MeetKeeps
<1>9. ASSUME NEW v \in DOMAIN M, NEW w \in DOMAIN M, M[v] = M[w]
      PROVE  v = w
  <2>1. CASE v \in D /\ w \in D BY <1>7, <1>9, <2>1 DEF Placed
  <2>2. CASE (v \in D) # (w \in D)
    <3>1. Cardinality(D) \in Nat BY <1>1, FS_CardinalityType
    <3> HIDE DEF M, D, UpTo
    <3> QED BY <1>6, <1>7, <1>8, <1>9, <2>2, <3>1
  <2>3. CASE v \notin D /\ w \notin D
    <3>1. v \in Members(text) \ D /\ w \in Members(text) \ D BY <1>8, <2>3
    <3>2. FirstUse(text, v) = FirstUse(text, w)
      <4>1. FirstUse(text, v) \in 1..Len(text) /\ FirstUse(text, w) \in 1..Len(text)
        BY <3>1, FirstIs
      <4>2. ~(FirstUse(text, v) < FirstUse(text, w)) /\ ~(FirstUse(text, w) < FirstUse(text, v))
        BY <1>5, <1>9, <3>1
      <4> QED BY <1>2, <4>1, <4>2
    <3>3. text[FirstUse(text, v)] = v /\ text[FirstUse(text, w)] = w BY <3>1, FirstIs
    <3> QED BY <3>2, <3>3
  <2> QED BY <2>1, <2>2, <2>3
<1>10. \A w \in DOMAIN M : M[w] \in 1..Cardinality(DOMAIN M) BY <1>6, <1>7, <1>8
<1> HIDE DEF M, D, UpTo
<1>11. Placed(M) BY <1>1, <1>8, <1>9, <1>10 DEF Placed
<1> QED BY <1>11 DEF M

----------------------------------------------------------------------------
(* Brain: concepts.                                                        *)
IsRow(c) ==
    /\ DOMAIN c = {"id", "label", "description", "related", "vector"}
    /\ IsList(c.label) /\ IsList(c.description)

\* The vector of a concept has only the places of words of its text.
Speaks(c, known) ==
    \A p \in DOMAIN c.vector :
        \E w \in Members(Text(c)) : w \in DOMAIN known /\ known[w] = p

Known(table, known) ==
    /\ Placed(known)
    /\ IsList(table) /\ \A c \in Members(table) : IsRow(c)

Spoken(table, known) == \A c \in Members(table) : Speaks(c, known)

LEMMA ListOf ==
    ASSUME NEW S, NEW list \in Seq(S)
    PROVE  IsList(list) /\ Members(list) \subseteq S
<1>1. Len(list) \in Nat /\ DOMAIN list = 1..Len(list) /\ list \in [1..Len(list) -> S]
  OBVIOUS
<1>2. PICK T : T = Members(list) OBVIOUS
<1>3. \A i \in 1..Len(list) : list[i] \in T BY <1>1, <1>2 DEF Members
<1>4. list \in Seq(T) BY <1>1, <1>3
<1>5. T \subseteq S BY <1>1, <1>2 DEF Members
<1> QED BY <1>2, <1>4, <1>5 DEF IsList

LEMMA ListsJoin ==
    ASSUME NEW s, IsList(s), NEW t, IsList(t)
    PROVE  IsList(s \o t)
<1>1. PICK S, T : S = Members(s) /\ T = Members(t) OBVIOUS
<1>2. s \in Seq(S \cup T) /\ t \in Seq(S \cup T)
  <2>1. s \in Seq(S) /\ t \in Seq(T) BY <1>1 DEF IsList
  <2> QED BY <2>1
<1>3. s \o t \in Seq(S \cup T) BY <1>2
<1> QED BY <1>3, ListOf

LEMMA ShortLists ==
    ASSUME NEW w
    PROVE  /\ IsList(<<w>>) /\ Members(<<w>>) = {w}
           /\ IsList(<<"also", w>>)
           /\ IsList(<<"auto", "extracted", "from", "experience", w>>)
<1>1. IsList(<<w>>)
  <2>1. PICK list : list = <<w>> OBVIOUS
  <2>2. list \in Seq({w}) BY <2>1
  <2> QED BY <2>1, <2>2, ListOf
<1>2. IsList(<<"also", w>>)
  <2>1. PICK list : list = <<"also", w>> OBVIOUS
  <2>2. list \in Seq({"also", w}) BY <2>1
  <2> QED BY <2>1, <2>2, ListOf
<1>3. IsList(<<"auto", "extracted", "from", "experience", w>>)
  <2>1. PICK list : list = <<"auto", "extracted", "from", "experience", w>> OBVIOUS
  <2>2. list \in Seq({"auto", "extracted", "from", "experience", w}) BY <2>1
  <2> QED BY <2>1, <2>2, ListOf
<1>4. Members(<<w>>) = {w} BY DEF Members
<1> QED BY <1>1, <1>2, <1>3, <1>4

LEMMA RowIsThere ==
    ASSUME NEW table, NEW id, HasConcept(table, id)
    PROVE  Row(table, id) \in DOMAIN table
BY DEF HasConcept, Row

\* What may be left when a row was written.
LEMMA UpsertedRows ==
    ASSUME NEW table, IsList(table), NEW c
    PROVE  IsList(Upserted(table, c)) /\ Members(Upserted(table, c)) \subseteq Members(table) \cup {c}
<1>1. PICK S : S = Members(table) OBVIOUS
<1>2. table \in Seq(S \cup {c})
  <2>1. table \in Seq(S) BY <1>1 DEF IsList
  <2> QED BY <2>1
<1>3. Upserted(table, c) \in Seq(S \cup {c})
  <2>1. CASE HasConcept(table, c.id)
    <3>1. PICK i \in DOMAIN table : i = Row(table, c.id) BY <2>1, RowIsThere
    <3>2. Upserted(table, c) = [table EXCEPT ![i] = c] BY <2>1, <3>1 DEF Upserted
    <3> QED BY <1>2, <3>1, <3>2
  <2>2. CASE ~HasConcept(table, c.id) BY <1>2, <2>2 DEF Upserted
  <2> QED BY <2>1, <2>2
<1> QED BY <1>1, <1>3, ListOf

LEMMA CappedRows ==
    ASSUME NEW table, IsList(table), NEW t \in Capped(table)
    PROVE  IsList(t) /\ Members(t) \subseteq Members(table)
<1>1. PICK S : S = Members(table) OBVIOUS
<1>2. table \in Seq(S) /\ Len(table) \in Nat BY <1>1, ListsAreFinite DEF IsList
<1>3. CASE t = table BY <1>3
<1>4. CASE t # table
  <2>1. ~(Len(table) <= MaxConcepts) /\ \E i \in DOMAIN table : t = Evicted(table, i)
    BY <1>4 DEF Capped
  <2>2. PICK i \in 1..Len(table) : t = Evicted(table, i) BY <1>2, <2>1
  <2>3. PICK n \in Nat : n = Len(table) - 1 BY <1>2, <2>2
  <2>4. \A k \in 1..n : IF k < i THEN table[k] \in S ELSE table[k + 1] \in S
    BY <1>2, <2>2, <2>3
  <2>5. t = [k \in 1..n |-> IF k < i THEN table[k] ELSE table[k + 1]]
    BY <2>2, <2>3 DEF Evicted
  <2>6. t \in Seq(S) BY <2>3, <2>4, <2>5
  <2> QED BY <1>1, <2>6, ListOf
<1> QED BY <1>3, <1>4

\* Concepts keep what is said of them while the engine learns words.
LEMMA KnownGrows ==
    ASSUME NEW table, NEW known, Known(table, known), NEW text, IsList(text)
    PROVE  /\ Known(table, Meet(known, text))
           /\ Spoken(table, known) => Spoken(table, Meet(known, text))
<1>1. Placed(Meet(known, text)) BY MeetPlaces DEF Known
<1>2. ASSUME NEW c, Speaks(c, known) PROVE Speaks(c, Meet(known, text))
  BY <1>2, MeetKeeps DEF Speaks
<1> QED BY <1>1, <1>2 DEF Known, Spoken

LEMMA Teaches ==
    ASSUME NEW table, NEW known, Known(table, known),
           NEW c, IsList(c.label), IsList(c.description),
           NEW met, met = Meet(known, Text(c)),
           NEW t \in Capped(Upserted(table, Concept(met, c)))
    PROVE  /\ Known(t, met)
           /\ Spoken(table, known) => Spoken(t, met)
<1>1. PICK d : d = Concept(met, c) OBVIOUS
<1>2. IsList(Text(c)) BY ListsJoin DEF Text
<1>3. Known(table, met) /\ (Spoken(table, known) => Spoken(table, met))
  BY <1>2, KnownGrows
<1>4. /\ DOMAIN d = {"id", "label", "description", "related", "vector"}
      /\ d.label = c.label /\ d.description = c.description
      /\ d.vector = Encode(met, Text(c))
  BY <1>1 DEF Concept
<1>5. IsRow(d) /\ Text(d) = Text(c) BY <1>4 DEF IsRow, Text
<1>6. Members(Text(c)) \subseteq DOMAIN met BY MeetKeeps
<1>7. DOMAIN d.vector = {met[w] : w \in Members(Text(c))} BY <1>4 DEF Encode
<1>8. Speaks(d, met) BY <1>5, <1>6, <1>7 DEF Speaks
<1>9. /\ IsList(Upserted(table, d))
      /\ Members(Upserted(table, d)) \subseteq Members(table) \cup {d}
  BY UpsertedRows DEF Known
<1>10. IsList(t) /\ Members(t) \subseteq Members(table) \cup {d}
  BY <1>1, <1>9, CappedRows
<1> QED BY <1>3, <1>5, <1>8, <1>10 DEF Known, Spoken

LEMMA RelatedKeeps ==
    ASSUME NEW table, NEW known, Known(table, known), NEW id, NEW other
    PROVE  /\ Known(Related(table, id, other), known)
           /\ Spoken(table, known) => Spoken(Related(table, id, other), known)
<1>1. CASE Related(table, id, other) = table BY <1>1
<1>2. CASE Related(table, id, other) # table
  <2>1. /\ HasConcept(table, id)
        /\ Related(table, id, other)
             = [table EXCEPT ![Row(table, id)].related = Append(@, other)]
    BY <1>2 DEF Related
  <2>2. PICK i \in DOMAIN table : i = Row(table, id) BY <2>1, RowIsThere
  <2>3. PICK c : c = table[i] OBVIOUS
  <2>4. PICK d : d = [c EXCEPT !.related = Append(@, other)] OBVIOUS
  <2>5. PICK t : t = [table EXCEPT ![i] = d] OBVIOUS
  <2>6. Related(table, id, other) = t BY <2>1, <2>2, <2>3, <2>4, <2>5
  <2>7. c \in Members(table) /\ IsRow(c) BY <2>2, <2>3 DEF Members, Known
  <2>8. /\ DOMAIN d = DOMAIN c
        /\ d.label = c.label /\ d.description = c.description /\ d.vector = c.vector
    BY <2>4, <2>7 DEF IsRow
  <2>9. IsRow(d) /\ (Speaks(c, known) => Speaks(d, known))
    BY <2>7, <2>8 DEF IsRow, Speaks, Text
  <2>10. IsList(t) /\ Members(t) \subseteq Members(table) \cup {d}
    <3>1. PICK S : S = Members(table) OBVIOUS
    <3>2. table \in Seq(S) BY <3>1 DEF Known, IsList
    <3>3. t \in Seq(S \cup {d}) BY <2>2, <2>5, <3>2
    <3> QED BY <3>1, <3>3, ListOf
  <2> QED BY <2>6, <2>7, <2>9, <2>10 DEF Known, Spoken
<1> QED BY <1>1, <1>2

----------------------------------------------------------------------------
(* Brain: what holds always.                                               *)
ConceptsTrue ==
    /\ Known(concepts, places)
    /\ restarts \in Nat
    /\ restarts = 0 => Spoken(concepts, places)
    /\ LinksMeanSomething

BrainInv == EpisodesTrue /\ ConceptsTrue

LEMMA BrainStarts == BrainInit => BrainInv
<1> SUFFICES ASSUME BrainInit PROVE BrainInv OBVIOUS
<1>1. EpisodesTrue
  <2>1. Numbered({}) BY FS_EmptySet DEF Numbered
  <2>2. KeepEpisodes({}) = {} BY DEF KeepEpisodes
  <2> QED BY <2>1, <2>2 DEF BrainInit, EpisodesTrue
<1>2. PICK list : list = <<>> OBVIOUS
<1>3. DOMAIN list = {} /\ list \in Seq({}) BY <1>2
<1>4. Members(list) = {} /\ IsList(list) BY <1>3, ListOf
<1>5. Placed(list) BY <1>3, FS_EmptySet DEF Placed
<1>6. Known(list, list) /\ Spoken(list, list) BY <1>4, <1>5 DEF Known, Spoken
<1> QED BY <1>1, <1>2, <1>6 DEF BrainInit, BrainInv, ConceptsTrue, LinksMeanSomething

\* What the engine met.
LEMMA MeetingKeeps ==
    ASSUME ConceptsTrue, NEW text, IsList(text), places' = Meet(places, text),
           concepts' = concepts, links' = links, restarts' = restarts
    PROVE  ConceptsTrue'
<1>1. PICK known, table : known = places /\ table = concepts OBVIOUS
<1>2. Known(table, known) /\ (restarts = 0 => Spoken(table, known))
  BY <1>1 DEF ConceptsTrue
<1>3. /\ Known(table, Meet(known, text))
      /\ Spoken(table, known) => Spoken(table, Meet(known, text))
  BY <1>2, KnownGrows
<1>4. PICK met : met = Meet(known, text) OBVIOUS
<1>5. places' = met /\ concepts' = table BY <1>1, <1>4
<1> QED BY <1>2, <1>3, <1>4, <1>5 DEF ConceptsTrue, LinksMeanSomething

\* What was learned, of a table and an engine with these words.
LEMMA LearningKeeps ==
    ASSUME ConceptsTrue,
           NEW table, NEW known, Known(table, known), restarts = 0 => Spoken(table, known),
           NEW c, IsList(c.label), IsList(c.description), LearnConcept(table, known, c),
           restarts' = restarts, LinksMeanSomething'
    PROVE  ConceptsTrue'
<1>1. PICK met : met = Meet(known, Text(c)) OBVIOUS
<1>2. PICK t \in Capped(Upserted(table, Concept(met, c))) : concepts' = t /\ places' = met
  BY <1>1 DEF LearnConcept
<1>3. Known(t, met) /\ (Spoken(table, known) => Spoken(t, met)) BY <1>1, Teaches
<1> QED BY <1>2, <1>3 DEF ConceptsTrue

LEMMA PerceiveMeets ==
    ASSUME ConceptsTrue, NEW x \in Experiences, Perceive(x)
    PROVE  ConceptsTrue'
<1>1. IsList(x.text) BY BrainAssumption DEF IsList
<1>2. /\ places' = Meet(places, x.text)
      /\ concepts' = concepts /\ links' = links /\ restarts' = restarts
  BY DEF Perceive
<1> QED BY <1>1, <1>2, MeetingKeeps

LEMMA RememberMeets ==
    ASSUME ConceptsTrue, NEW w, Remember(<<w>>)
    PROVE  ConceptsTrue'
<1>1. PICK text : text = <<w>> OBVIOUS
<1>2. IsList(text) BY <1>1, ShortLists
<1>3. /\ places' = Meet(places, text)
      /\ concepts' = concepts /\ links' = links /\ restarts' = restarts
  BY <1>1 DEF Remember
<1> QED BY <1>2, <1>3, MeetingKeeps

LEMMA LearnLearns ==
    ASSUME ConceptsTrue, NEW l \in Lessons, Learn(l)
    PROVE  ConceptsTrue'
<1>1. IsList(l.label) /\ IsList(l.description) BY BrainAssumption DEF IsList
<1>2. PICK known, table : known = places /\ table = concepts OBVIOUS
<1>3. Known(table, known) /\ (restarts = 0 => Spoken(table, known))
  BY <1>2 DEF ConceptsTrue
<1>4. LearnConcept(table, known, l) /\ restarts' = restarts BY <1>2 DEF Learn
<1>5. LinksMeanSomething' BY DEF ConceptsTrue, LinksMeanSomething, Learn
<1> QED BY <1>1, <1>3, <1>4, <1>5, LearningKeeps

LEMMA RelateRelates ==
    ASSUME ConceptsTrue, NEW a, NEW b, Relate(a, b)
    PROVE  ConceptsTrue'
<1>1. PICK known, table : known = places /\ table = concepts OBVIOUS
<1>2. Known(table, known) /\ (restarts = 0 => Spoken(table, known))
  BY <1>1 DEF ConceptsTrue
<1>3. PICK t : t = Related(table, a, b) OBVIOUS
<1>4. concepts' = t /\ places' = known /\ restarts' = restarts /\ links' = links
  BY <1>1, <1>3 DEF Relate
<1>5. Known(t, known) /\ (Spoken(table, known) => Spoken(t, known))
  BY <1>2, <1>3, RelatedKeeps
<1> QED BY <1>2, <1>4, <1>5 DEF ConceptsTrue, LinksMeanSomething

\* A vector that is like a word at all has its place, which is the place of a
\* word of the text: of that word.
LEMMA LikeMeansNamed ==
    ASSUME NEW c, NEW known, Placed(known), Speaks(c, known),
           NEW w \in DOMAIN known, Alike(c, known[w])
    PROVE  w \in Members(Text(c))
<1>1. known[w] \in DOMAIN c.vector BY DEF Alike, MoreThan, Product
<1>2. PICK u \in Members(Text(c)) : u \in DOMAIN known /\ known[u] = known[w]
  BY <1>1 DEF Speaks
<1> QED BY <1>2 DEF Placed

LEMMA ExtractLearns ==
    ASSUME ConceptsTrue, NEW w, Extract(w)
    PROVE  ConceptsTrue'
<1>1. PICK table : table = concepts OBVIOUS
<1>2. PICK known : known = Meet(places, <<w>>) OBVIOUS
<1>3. /\ Known(table, known) /\ restarts' = restarts
      /\ restarts = 0 => Spoken(table, known)
  <2>1. IsList(<<w>>) BY ShortLists
  <2>2. /\ Known(concepts, Meet(places, <<w>>))
        /\ restarts = 0 => Spoken(concepts, Meet(places, <<w>>))
    BY <2>1, KnownGrows DEF ConceptsTrue
  <2>3. restarts' = restarts BY DEF Extract
  <2> QED BY <1>1, <1>2, <2>2, <2>3
<1>4. w \in DOMAIN known BY <1>2, MeetKeeps, ShortLists
<1>5. ASSUME NEW related PROVE IsList(OfWord(w, related).label) /\ IsList(OfWord(w, related).description)
  BY ShortLists DEF OfWord
<1>6. CASE UNCHANGED <<concepts, places, links>>
  BY <1>3, <1>6 DEF ConceptsTrue, LinksMeanSomething
<1>7. CASE LearnConcept(concepts, Meet(places, <<w>>), OfWord(w, <<>>)) /\ UNCHANGED links
  <2>1. LearnConcept(table, known, OfWord(w, <<>>)) BY <1>1, <1>2, <1>7
  <2>2. LinksMeanSomething' BY <1>3, <1>7 DEF ConceptsTrue, LinksMeanSomething
  <2>3. PICK c : c = OfWord(w, <<>>) OBVIOUS
  <2> QED BY <1>3, <1>5, <2>1, <2>2, <2>3, LearningKeeps
<1>8. CASE \E i \in DOMAIN concepts :
             /\ Alike(concepts[i], Meet(places, <<w>>)[w])
             /\ links' = links \cup {[word |-> w, text |-> Members(Text(concepts[i]))]}
             /\ \/ LearnConcept(concepts, Meet(places, <<w>>),
                       [concepts[i] EXCEPT !.description = @ \o <<"also", w>>])
                \/ LearnConcept(Related(concepts, concepts[i].id, w), Meet(places, <<w>>),
                       OfWord(w, <<concepts[i].id>>))
  <2>1. PICK i \in DOMAIN concepts :
             /\ Alike(concepts[i], Meet(places, <<w>>)[w])
             /\ links' = links \cup {[word |-> w, text |-> Members(Text(concepts[i]))]}
             /\ \/ LearnConcept(concepts, Meet(places, <<w>>),
                       [concepts[i] EXCEPT !.description = @ \o <<"also", w>>])
                \/ LearnConcept(Related(concepts, concepts[i].id, w), Meet(places, <<w>>),
                       OfWord(w, <<concepts[i].id>>))
    BY <1>8
  <2>2. PICK c : c = concepts[i] OBVIOUS
  <2>3. /\ i \in DOMAIN table /\ c = table[i]
        /\ Alike(c, known[w])
        /\ links' = links \cup {[word |-> w, text |-> Members(Text(c))]}
        /\ \/ LearnConcept(table, known, [c EXCEPT !.description = @ \o <<"also", w>>])
           \/ LearnConcept(Related(table, c.id, w), known, OfWord(w, <<c.id>>))
    BY <1>1, <1>2, <2>1, <2>2
  <2>4. c \in Members(table) /\ IsRow(c) BY <1>3, <2>3 DEF Members, Known
  <2>5. LinksMeanSomething'
    <3>1. ASSUME restarts = 0 PROVE w \in Members(Text(c))
      BY <1>3, <1>4, <2>3, <2>4, <3>1, LikeMeansNamed DEF Known, Spoken
    <3> QED BY <1>3, <2>3, <3>1 DEF ConceptsTrue, LinksMeanSomething
  <2>6. CASE LearnConcept(table, known, [c EXCEPT !.description = @ \o <<"also", w>>])
    <3>1. PICK d : d = [c EXCEPT !.description = @ \o <<"also", w>>] OBVIOUS
    <3>2. d.label = c.label /\ d.description = c.description \o <<"also", w>>
      BY <2>4, <3>1 DEF IsRow
    <3>3. IsList(c.description \o <<"also", w>>)
      <4>1. IsList(c.description) /\ IsList(<<"also", w>>) BY <2>4, ShortLists DEF IsRow
      <4> QED BY ONLY <4>1, ListsJoin
    <3>4. IsList(d.label) /\ IsList(d.description) BY <2>4, <3>2, <3>3 DEF IsRow
    <3>5. LearnConcept(table, known, d) BY <2>6, <3>1
    <3> QED BY <1>3, <2>5, <3>4, <3>5, LearningKeeps
  <2>7. CASE LearnConcept(Related(table, c.id, w), known, OfWord(w, <<c.id>>))
    <3>1. PICK t : t = Related(table, c.id, w) OBVIOUS
    <3>2. Known(t, known) /\ (restarts = 0 => Spoken(t, known))
      BY <1>3, <3>1, RelatedKeeps
    <3>3. PICK d : d = OfWord(w, <<c.id>>) OBVIOUS
    <3>4. IsList(d.label) /\ IsList(d.description) /\ LearnConcept(t, known, d)
      BY <1>5, <2>7, <3>1, <3>3
    <3> QED BY <1>3, <2>5, <3>2, <3>4, LearningKeeps
  <2> QED BY <2>3, <2>6, <2>7
<1> QED BY <1>6, <1>7, <1>8 DEF Extract

LEMMA RestartForgets ==
    ASSUME ConceptsTrue, Restart
    PROVE  ConceptsTrue'
<1>1. restarts' \in Nat /\ restarts' # 0 /\ concepts' = concepts /\ places' = <<>>
  BY DEF Restart, ConceptsTrue
<1>2. PICK list : list = <<>> OBVIOUS
<1>3. DOMAIN list = {} BY <1>2
<1>4. Placed(list) BY <1>3, FS_EmptySet DEF Placed
<1>5. PICK table : table = concepts OBVIOUS
<1>6. Known(table, list) BY <1>4, <1>5 DEF ConceptsTrue, Known
<1> QED BY <1>1, <1>2, <1>5, <1>6 DEF ConceptsTrue, LinksMeanSomething

LEMMA BrainStep == BrainInv /\ [BrainNext]_brainVars => BrainInv'
<1> SUFFICES ASSUME BrainInv, [BrainNext]_brainVars PROVE BrainInv' OBVIOUS
<1>1. CASE \E x \in Experiences : Perceive(x)
  BY <1>1, PerceiveKeeps, PerceiveMeets DEF BrainInv
<1>2. CASE ~\E x \in Experiences : Perceive(x)
  <2>1. EpisodesTrue'
    <3>1. perceived' = perceived /\ episodes' = episodes
      BY <1>2 DEF BrainNext, brainVars, Extract, Remember, Learn, Relate, Restart
    <3>2. PICK all, stored : all = perceived /\ stored = episodes OBVIOUS
    <3>3. perceived' = all /\ episodes' = stored BY <3>1, <3>2
    <3> QED BY <3>2, <3>3 DEF EpisodesTrue, BrainInv
  <2>2. ConceptsTrue'
    <3>1. CASE \E w \in BrainWords : Extract(w) BY <3>1, ExtractLearns DEF BrainInv
    <3>2. CASE \E w \in BrainWords : Remember(<<w>>) BY <3>2, RememberMeets DEF BrainInv
    <3>3. CASE \E l \in Lessons : Learn(l) BY <3>3, LearnLearns DEF BrainInv
    <3>4. CASE \E a, b \in BrainWords \cup {l.id : l \in Lessons} : a # b /\ Relate(a, b)
      BY <3>4, RelateRelates DEF BrainInv
    <3>5. CASE Restart BY <3>5, RestartForgets DEF BrainInv
    <3>6. CASE UNCHANGED brainVars
      <4>1. PICK table, known : table = concepts /\ known = places OBVIOUS
      <4>2. concepts' = table /\ places' = known /\ links' = links /\ restarts' = restarts
        BY <3>6, <4>1 DEF brainVars
      <4> QED BY <4>1, <4>2 DEF BrainInv, ConceptsTrue, LinksMeanSomething
    <3> QED BY <1>2, <3>1, <3>2, <3>3, <3>4, <3>5, <3>6 DEF BrainNext
  <2> QED BY <2>1, <2>2 DEF BrainInv
<1> QED BY <1>1, <1>2

\* Whatever is perceived, learned, related and asked for: the store of
\* episodes holds the most important of all there were, and as long as one
\* process made all vectors, a concept is linked only with words of its text.
THEOREM MemoriesAreTrue == BrainSpec => []MemoriesMakeSense
<1>1. BrainInv => MemoriesMakeSense
  <2> SUFFICES ASSUME BrainInv PROVE MemoriesMakeSense OBVIOUS
  <2>1. KeepsTheImportant BY DEF BrainInv, EpisodesTrue, KeepsTheImportant, KeepEpisodes
  <2> QED BY <2>1 DEF BrainInv, ConceptsTrue, MemoriesMakeSense
<1> QED BY <1>1, BrainStarts, BrainStep, PTL DEF BrainSpec

----------------------------------------------------------------------------
(* MemoryBus.                                                              *)
MemoryPlaces == {"new", "lock", "lockfile", "backend", "read", "write", "replace", "dump",
                 "unlock", "done", "dead", "refused"}

MemoryRecords ==
    [at : MemoryPlaces, op : MemoryOps \cup {"failed"}, backend : Backends \cup {"global"},
     depth : Nat, copy : Seq(MemoryCalls), value : MemoryCalls \cup {NoValue}]

BusRecords ==
    [lock : MemoryCalls \cup {NoValue}, holder : MemoryCalls \cup {NoValue},
     loaded : BOOLEAN, value : MemoryCalls \cup {NoValue}]

MemoryTypes ==
    /\ lines \in Seq(MemoryCalls)
    /\ row \in MemoryCalls \cup {NoValue}
    /\ index \in [is : {"whole", "torn"}, value : MemoryCalls \cup {NoValue}]
    /\ lockFile \in Processes \cup {NoValue}
    /\ bus \in [Processes -> BusRecords]
    /\ memory \in [MemoryCalls -> MemoryRecords]
    /\ serial \in [MemoryCalls -> Nat]
    /\ before \in [MemoryCalls -> SUBSET MemoryCalls]

\* What a call is, by the place it is at.
Asks(m) ==
    /\ m.at \in {"new", "done", "dead"} => m.depth = 0
    /\ m.at = "lock" => m.depth = 0 \/ m.op = "nested"
    /\ m.at \notin {"new", "lock", "done", "dead"} => m.depth > 0
    /\ m.at \in {"lockfile", "write", "replace", "dump"} => m.op \in {"write", "nested"}
    /\ m.at = "read" => m.op = "read"
    /\ m.at \in {"new", "lock", "backend", "read"} => m.op # "failed"
    /\ m.at \in {"read", "write"} => m.backend \in Backends
    /\ m.at = "replace" => m.backend = "jsonl"
    /\ m.at = "dump" => m.backend = "vector"
    /\ m.at \in {"new", "lock", "lockfile", "backend", "read"} => m.value = NoValue

NeedsFile == {"write", "replace", "dump"}

CallsAsk == \A t \in MemoryCalls : Asks(memory[t])

\* Who is inside has the lock of its bus.
InsideLocks == \A t \in MemoryCalls : memory[t].depth > 0 <=> bus[ProcessOf[t]].lock = t

\* Who holds the lock file has the lock of its bus as well.
BusesOwn ==
    \A p \in Processes :
        /\ bus[p].lock # NoValue => ProcessOf[bus[p].lock] = p
        /\ bus[p].holder # NoValue => bus[p].holder = bus[p].lock /\ lockFile = p

FileHeld == lockFile # NoValue => bus[lockFile].holder # NoValue

\* Who writes, or is about to, holds the lock file; who was refused does not.
WritersHold ==
    \A t \in MemoryCalls :
        /\ memory[t].at \in NeedsFile \/ (memory[t].at = "backend" /\ memory[t].op # "read") =>
               AlreadyHolds(t)
        /\ memory[t].at = "refused" => ~AlreadyHolds(t)

Wrote(t) == memory[t].op \in {"write", "nested"} /\ memory[t].at \in {"unlock", "done"}

Served == {u \in MemoryCalls : serial[u] > 0}

\* The finished writes are numbered.
SerialsCount ==
    \A t \in MemoryCalls :
        /\ serial[t] <= Cardinality(Served)
        /\ memory[t].at \notin {"unlock", "done", "dead"} => serial[t] = 0
        /\ Wrote(t) => serial[t] > 0

\* v is the value of t or of a later write.
AsNew(v, t) == v # NoValue /\ serial[v] >= serial[t]

LinesOrdered ==
    /\ \A i \in DOMAIN lines : serial[lines[i]] > 0
    /\ \A i, j \in DOMAIN lines : i < j => serial[lines[i]] < serial[lines[j]]

LinesKept ==
    \A t \in MemoryCalls :
        Wrote(t) /\ memory[t].backend = "jsonl" => \E i \in DOMAIN lines : lines[i] = t

\* Nobody appends between the copy and the replacement.
CopiesFresh == \A t \in MemoryCalls : memory[t].at = "replace" => memory[t].copy = lines

RowKept == \A t \in MemoryCalls : Wrote(t) /\ memory[t].backend = "sqlite" => AsNew(row, t)

Dumping(p) == \E u \in MemoryCalls : ProcessOf[u] = p /\ memory[u].at = "dump"

\* A whole index is as new as every write of a vector, ...
IndexKept ==
    index.is = "whole" =>
        \A t \in MemoryCalls : Wrote(t) /\ memory[t].backend = "vector" => AsNew(index.value, t)

\* ... what a process keeps of it as every write of its own, ...
VectorsKept ==
    \A t \in MemoryCalls :
        /\ Wrote(t) /\ memory[t].backend = "vector"
        /\ bus[ProcessOf[t]].loaded /\ ~Dumping(ProcessOf[t])
        => AsNew(bus[ProcessOf[t]].value, t)

\* ... and who dumps it has put its value there.
VectorsLoaded ==
    \A t \in MemoryCalls :
        /\ memory[t].at = "dump" => bus[ProcessOf[t]].value = t
        /\ memory[t].at \in {"read", "write", "dump"} /\ memory[t].backend = "vector" =>
             bus[ProcessOf[t]].loaded

BeforeWritten == \A t \in MemoryCalls : before[t] \subseteq Written

ReadsKept ==
    \A t \in MemoryCalls :
        memory[t].at \in {"unlock",
        "done"} /\ memory[t].op = "read" /\ memory[t].backend \in Backends =>
            \A w \in before[t] : NewerThan(t, w)

MemoryInv ==
    /\ MemoryTypes /\ CallsAsk /\ InsideLocks /\ BusesOwn /\ FileHeld /\ WritersHold
    /\ SerialsCount /\ LinesOrdered /\ LinesKept /\ CopiesFresh /\ RowKept
    /\ IndexKept /\ VectorsKept /\ VectorsLoaded /\ BeforeWritten /\ ReadsKept

MemoryBecomes(t, m) == memory' = [memory EXCEPT ![t] = m] /\ m \in MemoryRecords

BusBecomes(t, b) == bus' = [bus EXCEPT ![ProcessOf[t]] = b] /\ b \in BusRecords

LEMMA LastLineIs ==
    ASSUME MemoryTypes
    PROVE  LastLine \in MemoryCalls \cup {NoValue}
BY DEF LastLine, MemoryTypes

\* A finished write is the last of them.
LEMMA CommitIs ==
    ASSUME MemoryTypes, NEW t \in MemoryCalls, serial[t] = 0, Commit(t),
           \A u \in MemoryCalls : serial[u] <= Cardinality(Served)
    PROVE  /\ serial' \in [MemoryCalls -> Nat] /\ serial'[t] > 0
           /\ \A u \in MemoryCalls : serial'[u] >= serial[u]
                /\ serial'[u] <= Cardinality(Served')
           /\ \A u \in MemoryCalls : u # t => serial'[u] = serial[u] /\ serial[u] < serial'[t]
<1>1. IsFiniteSet(Served) /\ Cardinality(Served) \in Nat
  <2>1. IsFiniteSet(MemoryCalls) /\ Served \in SUBSET MemoryCalls
    BY MemoryAssumption DEF Served
  <2>2. IsFiniteSet(Served) BY ONLY <2>1, FS_Subset
  <2> QED BY ONLY <2>2, FS_CardinalityType
<1>2. serial' = [serial EXCEPT ![t] = 1 + Cardinality(Served)]
  <2>1. serial' = [serial EXCEPT ![t] = 1 + Cardinality({u \in MemoryCalls : serial[u] > 0})]
    BY DEF Commit
  <2> QED BY ONLY <2>1 DEF Served
<1>3. serial' \in [MemoryCalls -> Nat] BY <1>1, <1>2 DEF MemoryTypes
<1>4. Served' = Served \cup {t} /\ t \notin Served
  <2>1. \A u \in MemoryCalls : serial'[u] = IF u = t THEN 1 + Cardinality(Served) ELSE serial[u]
    BY <1>2 DEF MemoryTypes
  <2>2. 1 + Cardinality(Served) > 0 BY <1>1
  <2>3. \A u \in MemoryCalls : u \in Served' <=> u \in Served \cup {t}
    BY <2>1, <2>2 DEF Served
  <2> QED BY <2>3 DEF Served
<1>5. Cardinality(Served \cup {t}) = Cardinality(Served) + 1
  BY <1>1, <1>4, FS_AddElement
<1> QED BY <1>1, <1>2, <1>3, <1>4, <1>5 DEF MemoryTypes

LEMMA OneWriter ==
    ASSUME MemoryInv, NEW t \in MemoryCalls, NEW u \in MemoryCalls, AlreadyHolds(t),
    AlreadyHolds(u)
    PROVE  u = t
<1>1. ProcessOf[t] \in Processes /\ ProcessOf[u] \in Processes BY DEF Processes
<1>2. t # NoValue /\ u # NoValue BY MemoryAssumption
<1> QED BY <1>1, <1>2 DEF MemoryInv, BusesOwn, AlreadyHolds, BusOf

LEMMA MemoryTyped ==
    ASSUME MemoryTypes
    PROVE  /\ serial \in [MemoryCalls -> Nat]
           /\ \A i \in DOMAIN lines : lines[i] \in MemoryCalls
           /\ row \in MemoryCalls \cup {NoValue} /\ index.value \in MemoryCalls \cup {NoValue}
           /\ \A p \in Processes : bus[p].value \in MemoryCalls \cup {NoValue}
           /\ \A u \in MemoryCalls : memory[u].value \in MemoryCalls \cup {NoValue}
           /\ \A u \in MemoryCalls : before[u] \subseteq MemoryCalls
<1>1. \A p \in Processes : bus[p] \in BusRecords BY DEF MemoryTypes
<1>2. \A u \in MemoryCalls : memory[u] \in MemoryRecords /\ before[u] \in SUBSET MemoryCalls
  BY DEF MemoryTypes
<1>3. \A i \in DOMAIN lines : lines[i] \in MemoryCalls BY DEF MemoryTypes
<1>4. index.value \in MemoryCalls \cup {NoValue} BY DEF MemoryTypes
<1>5. \A p \in Processes : bus[p].value \in MemoryCalls \cup {NoValue}
  BY <1>1 DEF BusRecords
<1>6. \A u \in MemoryCalls : memory[u].value \in MemoryCalls \cup {NoValue}
  BY <1>2 DEF MemoryRecords
<1> QED BY <1>2, <1>3, <1>4, <1>5, <1>6 DEF MemoryTypes

LEMMA LastIsNewest ==
    ASSUME MemoryInv, NEW w \in MemoryCalls, Wrote(w), memory[w].backend = "jsonl"
    PROVE  AsNew(LastLine, w)
<1>1. PICK i \in DOMAIN lines : lines[i] = w BY DEF MemoryInv, LinesKept
<1>2. lines \in Seq(MemoryCalls) BY DEF MemoryInv, MemoryTypes
<1>3. Len(lines) \in DOMAIN lines /\ i <= Len(lines) /\ lines # <<>> BY <1>1, <1>2
<1>4. LastLine = lines[Len(lines)] /\ LastLine \in MemoryCalls
  BY <1>2, <1>3 DEF LastLine
<1>5. serial[LastLine] \in Nat /\ serial[w] \in Nat BY <1>4, MemoryTyped DEF MemoryInv
<1>6. LastLine # NoValue BY <1>4, MemoryAssumption
<1>7. CASE i = Len(lines) BY <1>1, <1>4, <1>5, <1>6, <1>7 DEF AsNew
<1>8. CASE i < Len(lines)
  <2>1. serial[lines[i]] < serial[lines[Len(lines)]]
    BY <1>1, <1>3, <1>8 DEF MemoryInv, LinesOrdered
  <2> QED BY <2>1, <1>1, <1>4, <1>5, <1>6 DEF AsNew
<1> QED BY <1>1, <1>2, <1>3, <1>7, <1>8

LEMMA StartMemoryKeeps ==
    ASSUME MemoryInv, NEW t \in MemoryCalls, NEW op \in MemoryOps,
           NEW backend \in Backends \cup {"global"}, StartMemory(t, op, backend)
    PROVE  MemoryInv'
<1>1. PICK m : /\ MemoryBecomes(t, m)
               /\ m.at = "lock" /\ m.op = op
               /\ m.depth = memory[t].depth /\ m.copy = memory[t].copy
               /\ m.value = memory[t].value
  <2>1. PICK here : here = memory[t] /\ here \in MemoryRecords
    BY DEF MemoryInv, MemoryTypes
  <2>2. PICK m : m = [here EXCEPT !.at = "lock", !.op = op, !.backend = backend] OBVIOUS
  <2>3. memory' = [memory EXCEPT ![t] = m] BY <2>1, <2>2 DEF StartMemory, MemoryAt
  <2>4. m \in MemoryRecords BY <2>1, <2>2 DEF MemoryRecords, MemoryPlaces
  <2>5. /\ m.at = "lock" /\ m.op = op
        /\ m.depth = memory[t].depth /\ m.copy = memory[t].copy /\ m.value = memory[t].value
    BY <2>1, <2>2 DEF MemoryRecords
  <2> QED BY <2>3, <2>4, <2>5 DEF MemoryBecomes
<1>2. /\ memory[t].at = "new"
      /\ UNCHANGED <<lines, row, index, lockFile, bus, serial>>
      /\ before' = [before EXCEPT ![t] = Written]
  BY DEF StartMemory, ThreadMayLock, BusOf, LockFileFree, AlreadyHolds, Commit
<1>3. /\ m.depth \in Nat /\ memory[t].depth \in Nat
      /\ memory[t].op \in MemoryOps \cup {"failed"}
      /\ \A u \in MemoryCalls : memory'[u] = IF u = t THEN m ELSE memory[u]
      /\ \A u \in MemoryCalls : ProcessOf[u] \in Processes
      /\ NoValue \notin MemoryCalls \cup Processes
      /\ lockFile # NoValue => lockFile \in Processes
  BY <1>1, MemoryAssumption DEF MemoryBecomes, MemoryInv, MemoryTypes, MemoryRecords, Processes
<1>4. MemoryTypes'
  <2>1. Written \subseteq MemoryCalls BY DEF Written
  <2> QED BY <1>1, <1>2, <1>3, <2>1 DEF MemoryBecomes, MemoryInv, MemoryTypes
<1>5. CallsAsk'
  <2>1. ASSUME NEW u \in MemoryCalls, u # t PROVE Asks(memory[u])'
    BY <1>3, <2>1 DEF MemoryInv, CallsAsk, Asks
  <2>2. Asks(memory[t])' BY <1>1, <1>2, <1>3 DEF MemoryInv, CallsAsk, Asks, MemoryOps
  <2> QED BY <2>1, <2>2 DEF CallsAsk
<1>6. InsideLocks'
  BY <1>1, <1>2, <1>3 DEF MemoryInv, InsideLocks, CallsAsk, Asks, BusesOwn
<1>7. BusesOwn' BY <1>1, <1>2, <1>3 DEF MemoryInv, BusesOwn, InsideLocks
<1>8. FileHeld' BY <1>1, <1>2, <1>3 DEF MemoryInv, FileHeld, BusesOwn
<1>9. WritersHold'
  BY <1>1, <1>2, <1>3 DEF MemoryInv, WritersHold, AlreadyHolds, BusOf, NeedsFile, CallsAsk, Asks
<1>10. SerialsCount'
  <2>1. Served' = Served BY <1>2 DEF Served
  <2> QED BY <1>1, <1>2, <1>3, <2>1 DEF MemoryInv, SerialsCount, Wrote, CallsAsk, Asks
<1>11. LinesOrdered' BY <1>1, <1>2, <1>3 DEF MemoryInv, LinesOrdered
<1>12. LinesKept' BY <1>1, <1>2, <1>3 DEF MemoryInv, LinesKept, Wrote, CallsAsk, Asks
<1>13. CopiesFresh' BY <1>1, <1>2, <1>3 DEF MemoryInv, CopiesFresh
<1>14. RowKept' BY <1>1, <1>2, <1>3 DEF MemoryInv, RowKept, AsNew, Wrote, CallsAsk, Asks
<1>15. IndexKept'
  BY <1>1, <1>2, <1>3 DEF MemoryInv, IndexKept, AsNew, Wrote, CallsAsk, Asks
<1>16. VectorsKept'
  BY <1>1, <1>2, <1>3 DEF MemoryInv, VectorsKept, AsNew, Wrote, CallsAsk, Asks, Dumping
<1>17. VectorsLoaded' BY <1>1, <1>2, <1>3 DEF MemoryInv, VectorsLoaded
<1>18. BeforeWritten' BY <1>1, <1>2, <1>3 DEF MemoryInv, BeforeWritten, Written
<1>19. ReadsKept'
  BY <1>1, <1>2, <1>3 DEF MemoryInv, ReadsKept, BeforeWritten, NewerThan, Written
<1> QED
  BY <1>4, <1>5, <1>6, <1>7, <1>8, <1>9, <1>10, <1>11, <1>12, <1>13, <1>14, <1>15, <1>16,
     <1>17, <1>18, <1>19 DEF MemoryInv

LEMMA LockThreadKeeps ==
    ASSUME MemoryInv, NEW t \in MemoryCalls, LockThread(t)
    PROVE  MemoryInv'
<1>1. PICK m : /\ MemoryBecomes(t, m)
               /\ m.depth = memory[t].depth + 1
               /\ m.at = IF memory[t].op = "read" THEN "backend" ELSE "lockfile"
               /\ m.op = memory[t].op /\ m.backend = memory[t].backend
               /\ m.copy = memory[t].copy /\ m.value = memory[t].value
  <2>1. PICK here : here = memory[t] /\ here \in MemoryRecords
    BY DEF MemoryInv, MemoryTypes
  <2>2. PICK d : d = (here.depth + 1) /\ d \in Nat BY <2>1 DEF MemoryRecords
  <2>3. PICK a : a = (IF here.op = "read" THEN "backend" ELSE "lockfile") /\ a \in MemoryPlaces
    BY DEF MemoryPlaces
  <2>4. PICK m : m = [here EXCEPT !.depth = d, !.at = a] OBVIOUS
  <2>5. memory' = [memory EXCEPT ![t] = m]
    <3>1. memory' = [memory EXCEPT ![t].depth = d, ![t].at = a]
      BY <2>1, <2>2, <2>3, <2>1 DEF LockThread
    <3> QED BY <2>1, <2>4, <3>1 DEF MemoryRecords, MemoryInv, MemoryTypes
  <2>6. m \in MemoryRecords BY <2>1, <2>2, <2>3, <2>4 DEF MemoryRecords, MemoryPlaces
  <2>7. /\ m.depth = memory[t].depth + 1
        /\ m.at = IF memory[t].op = "read" THEN "backend" ELSE "lockfile"
        /\ m.op = memory[t].op /\ m.backend = memory[t].backend /\ m.copy = memory[t].copy
        /\ m.value = memory[t].value
    BY <2>1, <2>2, <2>3, <2>4 DEF MemoryRecords
  <2> QED BY <2>5, <2>6, <2>7 DEF MemoryBecomes
<1>2. /\ memory[t].at = "lock"
      /\ bus[ProcessOf[t]].lock \in {NoValue, t}
      /\ UNCHANGED <<lines, row, index, lockFile, serial, before>>
  BY DEF LockThread, ThreadMayLock, BusOf, LockFileFree, AlreadyHolds, Commit
<1>3. /\ m.depth \in Nat /\ memory[t].depth \in Nat
      /\ memory[t].op \in MemoryOps \cup {"failed"}
      /\ \A u \in MemoryCalls : memory'[u] = IF u = t THEN m ELSE memory[u]
      /\ \A u \in MemoryCalls : ProcessOf[u] \in Processes
      /\ NoValue \notin MemoryCalls \cup Processes
      /\ lockFile # NoValue => lockFile \in Processes
  BY <1>1, MemoryAssumption DEF MemoryBecomes, MemoryInv, MemoryTypes, MemoryRecords, Processes
<1>4. PICK b : /\ BusBecomes(t, b)
               /\ b.lock = t
               /\ b.holder = bus[ProcessOf[t]].holder /\ b.loaded = bus[ProcessOf[t]].loaded
               /\ b.value = bus[ProcessOf[t]].value
  <2>1. PICK here : here = bus[ProcessOf[t]] /\ here \in BusRecords
    BY <1>3 DEF MemoryInv, MemoryTypes
  <2>2. PICK b : b = [here EXCEPT !.lock = t] OBVIOUS
  <2>3. bus' = [bus EXCEPT ![ProcessOf[t]] = b]
    BY <1>3, <2>1, <2>2 DEF LockThread, BusRecords, MemoryInv, MemoryTypes
  <2>4. b \in BusRecords BY <2>1, <2>2 DEF BusRecords, MemoryInv, MemoryTypes
  <2>5. /\ b.lock = t
        /\ b.holder = bus[ProcessOf[t]].holder /\ b.loaded = bus[ProcessOf[t]].loaded
        /\ b.value = bus[ProcessOf[t]].value
    BY <2>1, <2>2, <1>2 DEF BusRecords
  <2> QED BY <2>3, <2>4, <2>5 DEF BusBecomes
<1>5. \A p \in Processes : bus'[p] = IF p = ProcessOf[t] THEN b ELSE bus[p]
  BY <1>3, <1>4 DEF BusBecomes, MemoryInv, MemoryTypes
<1>6. MemoryTypes'
  BY <1>1, <1>2, <1>3, <1>4, <1>5 DEF MemoryBecomes, BusBecomes, MemoryInv, MemoryTypes
<1>7. CallsAsk'
  <2>1. ASSUME NEW u \in MemoryCalls, u # t PROVE Asks(memory[u])'
    BY <1>3, <2>1 DEF MemoryInv, CallsAsk, Asks
  <2>2. Asks(memory[t])' BY <1>1, <1>2, <1>3 DEF MemoryInv, CallsAsk, Asks, MemoryOps
  <2> QED BY <2>1, <2>2 DEF CallsAsk
<1>8. InsideLocks'
  BY <1>1, <1>2, <1>3, <1>4, <1>5 DEF MemoryInv, InsideLocks, CallsAsk, Asks, BusesOwn
<1>9. BusesOwn' BY <1>1, <1>2, <1>3, <1>4, <1>5 DEF MemoryInv, BusesOwn, InsideLocks
<1>10. FileHeld' BY <1>1, <1>2, <1>3, <1>4, <1>5 DEF MemoryInv, FileHeld, BusesOwn
<1>11. WritersHold'
  BY <1>1, <1>2, <1>3, <1>4, <1>5 DEF MemoryInv, WritersHold, AlreadyHolds, BusOf, NeedsFile,
     CallsAsk, Asks
<1>12. SerialsCount'
  <2>1. Served' = Served BY <1>2 DEF Served
  <2> QED BY <1>1, <1>2, <1>3, <2>1 DEF MemoryInv, SerialsCount, Wrote, CallsAsk, Asks
<1>13. LinesOrdered' BY <1>1, <1>2, <1>3, <1>4, <1>5 DEF MemoryInv, LinesOrdered
<1>14. LinesKept'
  BY <1>1, <1>2, <1>3, <1>4, <1>5 DEF MemoryInv, LinesKept, Wrote, CallsAsk, Asks
<1>15. CopiesFresh' BY <1>1, <1>2, <1>3, <1>4, <1>5 DEF MemoryInv, CopiesFresh
<1>16. RowKept'
  BY <1>1, <1>2, <1>3, <1>4, <1>5 DEF MemoryInv, RowKept, AsNew, Wrote, CallsAsk, Asks
<1>17. IndexKept'
  BY <1>1, <1>2, <1>3, <1>4, <1>5 DEF MemoryInv, IndexKept, AsNew, Wrote, CallsAsk, Asks
<1>18. VectorsKept'
  BY <1>1, <1>2, <1>3, <1>4, <1>5 DEF MemoryInv, VectorsKept, AsNew, Wrote, CallsAsk, Asks,
     Dumping
<1>19. VectorsLoaded' BY <1>1, <1>2, <1>3, <1>4, <1>5 DEF MemoryInv, VectorsLoaded
<1>20. BeforeWritten'
  BY <1>1, <1>2, <1>3, <1>4, <1>5 DEF MemoryInv, BeforeWritten, Written
<1>21. ReadsKept'
  BY <1>1, <1>2, <1>3, <1>4, <1>5 DEF MemoryInv, ReadsKept, BeforeWritten, NewerThan, Written
<1> QED
  BY <1>6, <1>7, <1>8, <1>9, <1>10, <1>11, <1>12, <1>13, <1>14, <1>15, <1>16, <1>17, <1>18,
     <1>19, <1>20, <1>21 DEF MemoryInv

LEMMA LockFileRefusedKeeps ==
    ASSUME MemoryInv, NEW t \in MemoryCalls, LockFileRefused(t)
    PROVE  MemoryInv'
<1>1. PICK m : /\ MemoryBecomes(t, m)
               /\ m.at = "refused"
               /\ m.depth = memory[t].depth /\ m.op = memory[t].op
               /\ m.backend = memory[t].backend /\ m.copy = memory[t].copy
               /\ m.value = memory[t].value
  <2>1. PICK here : here = memory[t] /\ here \in MemoryRecords
    BY DEF MemoryInv, MemoryTypes
  <2>2. PICK m : m = [here EXCEPT !.at = "refused"] OBVIOUS
  <2>3. memory' = [memory EXCEPT ![t] = m] BY <2>1, <2>2 DEF LockFileRefused, MemoryAt
  <2>4. m \in MemoryRecords BY <2>1, <2>2 DEF MemoryRecords, MemoryPlaces
  <2>5. /\ m.at = "refused"
        /\ m.depth = memory[t].depth /\ m.op = memory[t].op /\ m.backend = memory[t].backend
        /\ m.copy = memory[t].copy /\ m.value = memory[t].value
    BY <2>1, <2>2 DEF MemoryRecords
  <2> QED BY <2>3, <2>4, <2>5 DEF MemoryBecomes
<1>2. /\ memory[t].at = "lockfile" /\ bus[ProcessOf[t]].holder # t
      /\ UNCHANGED <<lines, row, index, lockFile, bus, serial, before>>
  BY DEF LockFileRefused, AlreadyHolds, BusOf
<1>3. /\ memory[t].depth \in Nat /\ memory[t].op \in MemoryOps \cup {"failed"}
      /\ \A u \in MemoryCalls : memory'[u] = IF u = t THEN m ELSE memory[u]
      /\ \A u \in MemoryCalls : ProcessOf[u] \in Processes
      /\ NoValue \notin MemoryCalls \cup Processes
      /\ lockFile # NoValue => lockFile \in Processes
  BY <1>1, MemoryAssumption DEF MemoryBecomes, MemoryInv, MemoryTypes, MemoryRecords, Processes
<1>4. MemoryTypes' BY <1>1, <1>2, <1>3 DEF MemoryBecomes, MemoryInv, MemoryTypes
<1>5. CallsAsk'
  <2>1. ASSUME NEW u \in MemoryCalls, u # t PROVE Asks(memory[u])'
    BY <1>3, <2>1 DEF MemoryInv, CallsAsk, Asks
  <2>2. Asks(memory[t])' BY <1>1, <1>2, <1>3 DEF MemoryInv, CallsAsk, Asks, MemoryOps
  <2> QED BY <2>1, <2>2 DEF CallsAsk
<1>6. InsideLocks' /\ FileHeld' BY <1>1, <1>2, <1>3 DEF MemoryInv, InsideLocks, FileHeld
<1>7. BusesOwn' BY <1>2 DEF MemoryInv, BusesOwn
<1>8. WritersHold'
  BY <1>1, <1>2, <1>3 DEF MemoryInv, WritersHold, AlreadyHolds, BusOf, NeedsFile
<1>9. SerialsCount'
  <2>1. Served' = Served BY <1>2 DEF Served
  <2> QED BY <1>1, <1>2, <1>3, <2>1 DEF MemoryInv, SerialsCount, Wrote
<1>10. LinesOrdered' /\ LinesKept' /\ CopiesFresh'
  BY <1>1, <1>2, <1>3 DEF MemoryInv, LinesOrdered, LinesKept, CopiesFresh, Wrote
<1>11. RowKept' /\ IndexKept'
  BY <1>1, <1>2, <1>3 DEF MemoryInv, RowKept, IndexKept, AsNew, Wrote
<1>12. VectorsKept'
  BY <1>1, <1>2, <1>3 DEF MemoryInv, VectorsKept, AsNew, Wrote, Dumping
<1>13. VectorsLoaded' /\ BeforeWritten'
  BY <1>1, <1>2, <1>3 DEF MemoryInv, VectorsLoaded, BeforeWritten, Written
<1>14. ReadsKept'
  BY <1>1, <1>2, <1>3 DEF MemoryInv, ReadsKept, BeforeWritten, NewerThan, Written
<1> QED
  BY <1>4, <1>5, <1>6, <1>7, <1>8, <1>9, <1>10, <1>11, <1>12, <1>13, <1>14 DEF MemoryInv

LEMMA LockTheFileKeeps ==
    ASSUME MemoryInv, NEW t \in MemoryCalls, LockTheFile(t)
    PROVE  MemoryInv'
<1>1. PICK m : /\ MemoryBecomes(t, m)
               /\ m.at = IF memory[t].op = "nested" /\ memory[t].depth = 1 THEN "lock"
                         ELSE "backend"
               /\ m.depth = memory[t].depth /\ m.op = memory[t].op
               /\ m.backend = memory[t].backend /\ m.copy = memory[t].copy
               /\ m.value = memory[t].value
  <2>1. PICK here : here = memory[t] /\ here \in MemoryRecords
    BY DEF MemoryInv, MemoryTypes
  <2>2. PICK m : m = [here EXCEPT !.at = IF here.op = "nested" /\ here.depth = 1
                                         THEN "lock" ELSE "backend"]
    OBVIOUS
  <2>3. memory' = [memory EXCEPT ![t] = m] BY <2>1, <2>2 DEF LockTheFile, MemoryAt
  <2>4. m \in MemoryRecords BY <2>1, <2>2 DEF MemoryRecords, MemoryPlaces
  <2>5. /\ m.at = IF memory[t].op = "nested" /\ memory[t].depth = 1 THEN "lock" ELSE "backend"
        /\ m.depth = memory[t].depth /\ m.op = memory[t].op /\ m.backend = memory[t].backend
        /\ m.copy = memory[t].copy /\ m.value = memory[t].value
    BY <2>1, <2>2 DEF MemoryRecords
  <2> QED BY <2>3, <2>4, <2>5 DEF MemoryBecomes
<1>2. /\ memory[t].at = "lockfile"
      /\ \/ bus[ProcessOf[t]].holder = t /\ lockFile' = lockFile
         \/ lockFile = NoValue /\ lockFile' = ProcessOf[t]
      /\ UNCHANGED <<lines, row, index, serial, before>>
  BY DEF LockTheFile, ThreadMayLock, BusOf, LockFileFree, AlreadyHolds, Commit
<1>3. /\ m.depth \in Nat /\ memory[t].depth \in Nat
      /\ memory[t].op \in MemoryOps \cup {"failed"}
      /\ \A u \in MemoryCalls : memory'[u] = IF u = t THEN m ELSE memory[u]
      /\ \A u \in MemoryCalls : ProcessOf[u] \in Processes
      /\ NoValue \notin MemoryCalls \cup Processes
      /\ lockFile # NoValue => lockFile \in Processes
  BY <1>1, MemoryAssumption DEF MemoryBecomes, MemoryInv, MemoryTypes, MemoryRecords, Processes
<1>4. PICK b : /\ BusBecomes(t, b)
               /\ b.holder = t
               /\ b.lock = bus[ProcessOf[t]].lock /\ b.loaded = bus[ProcessOf[t]].loaded
               /\ b.value = bus[ProcessOf[t]].value
  <2>1. PICK here : here = bus[ProcessOf[t]] /\ here \in BusRecords
    BY <1>3 DEF MemoryInv, MemoryTypes
  <2>2. PICK b : b = IF here.holder = t THEN here ELSE [here EXCEPT !.holder = t]
    OBVIOUS
  <2>3. bus' = [bus EXCEPT ![ProcessOf[t]] = b]
    BY <1>3, <2>1, <2>2 DEF LockTheFile, AlreadyHolds, BusOf, BusRecords, MemoryInv, MemoryTypes
  <2>4. b \in BusRecords BY <2>1, <2>2 DEF BusRecords, MemoryInv, MemoryTypes
  <2>5. /\ b.holder = t
        /\ b.lock = bus[ProcessOf[t]].lock /\ b.loaded = bus[ProcessOf[t]].loaded
        /\ b.value = bus[ProcessOf[t]].value
    BY <2>1, <2>2, <1>2 DEF BusRecords
  <2> QED BY <2>3, <2>4, <2>5 DEF BusBecomes
<1>5. \A p \in Processes : bus'[p] = IF p = ProcessOf[t] THEN b ELSE bus[p]
  BY <1>3, <1>4 DEF BusBecomes, MemoryInv, MemoryTypes
<1>6. bus[ProcessOf[t]].lock = t /\ memory[t].depth > 0
  BY <1>2, <1>3 DEF MemoryInv, CallsAsk, Asks, InsideLocks
<1>7. MemoryTypes'
  BY <1>1, <1>2, <1>3, <1>4, <1>5, <1>6 DEF MemoryBecomes, BusBecomes, MemoryInv, MemoryTypes
<1>8. CallsAsk'
  <2>1. ASSUME NEW u \in MemoryCalls, u # t PROVE Asks(memory[u])'
    BY <1>3, <2>1 DEF MemoryInv, CallsAsk, Asks
  <2>2. Asks(memory[t])' BY <1>1, <1>2, <1>3 DEF MemoryInv, CallsAsk, Asks, MemoryOps
  <2> QED BY <2>1, <2>2 DEF CallsAsk
<1>9. InsideLocks'
  BY <1>1, <1>2, <1>3, <1>4, <1>5, <1>6 DEF MemoryInv, InsideLocks, CallsAsk, Asks, BusesOwn
<1>10. BusesOwn'
  BY <1>1, <1>2, <1>3, <1>4, <1>5, <1>6 DEF MemoryInv, BusesOwn, InsideLocks
<1>11. FileHeld' BY <1>1, <1>2, <1>3, <1>4, <1>5, <1>6 DEF MemoryInv, FileHeld, BusesOwn
<1>12. WritersHold'
  BY <1>1, <1>2, <1>3, <1>4, <1>5, <1>6 DEF MemoryInv, WritersHold, AlreadyHolds, BusOf,
     NeedsFile, BusesOwn
<1>13. SerialsCount'
  <2>1. Served' = Served BY <1>2 DEF Served
  <2> QED BY <1>1, <1>2, <1>3, <2>1 DEF MemoryInv, SerialsCount, Wrote, CallsAsk, Asks
<1>14. LinesOrdered' BY <1>1, <1>2, <1>3, <1>4, <1>5, <1>6 DEF MemoryInv, LinesOrdered
<1>15. LinesKept'
  BY <1>1, <1>2, <1>3, <1>4, <1>5, <1>6 DEF MemoryInv, LinesKept, Wrote, CallsAsk, Asks
<1>16. CopiesFresh' BY <1>1, <1>2, <1>3, <1>4, <1>5, <1>6 DEF MemoryInv, CopiesFresh
<1>17. RowKept'
  BY <1>1, <1>2, <1>3, <1>4, <1>5, <1>6 DEF MemoryInv, RowKept, AsNew, Wrote, CallsAsk, Asks
<1>18. IndexKept'
  BY <1>1, <1>2, <1>3, <1>4, <1>5, <1>6 DEF MemoryInv, IndexKept, AsNew, Wrote, CallsAsk, Asks
<1>19. VectorsKept'
  BY <1>1, <1>2, <1>3, <1>4, <1>5, <1>6 DEF MemoryInv, VectorsKept, AsNew, Wrote, CallsAsk,
     Asks, Dumping
<1>20. VectorsLoaded' BY <1>1, <1>2, <1>3, <1>4, <1>5, <1>6 DEF MemoryInv, VectorsLoaded
<1>21. BeforeWritten'
  BY <1>1, <1>2, <1>3, <1>4, <1>5, <1>6 DEF MemoryInv, BeforeWritten, Written
<1>22. ReadsKept'
  BY <1>1, <1>2, <1>3, <1>4, <1>5, <1>6 DEF MemoryInv, ReadsKept, BeforeWritten, NewerThan,
     Written
<1> QED
  BY <1>7, <1>8, <1>9, <1>10, <1>11, <1>12, <1>13, <1>14, <1>15, <1>16, <1>17, <1>18, <1>19,
     <1>20, <1>21, <1>22 DEF MemoryInv

LEMMA UnlockKeeps ==
    ASSUME MemoryInv, NEW t \in MemoryCalls, Unlock(t)
    PROVE  MemoryInv'
<1>1. PICK m : /\ MemoryBecomes(t, m)
               /\ m.depth = memory[t].depth - 1
               /\ m.at = IF memory[t].depth = 1 THEN "done" ELSE memory[t].at
               /\ m.op = memory[t].op /\ m.backend = memory[t].backend
               /\ m.copy = memory[t].copy /\ m.value = memory[t].value
  <2>1. PICK here : here = memory[t] /\ here \in MemoryRecords
    BY DEF MemoryInv, MemoryTypes
  <2>2. PICK d : d = (here.depth - 1) /\ d \in Nat
    BY <2>1 DEF MemoryRecords, Unlock, MemoryInv, CallsAsk, Asks
  <2>3. PICK a : a = (IF here.depth = 1 THEN "done" ELSE here.at) /\ a \in MemoryPlaces
    BY <2>1 DEF MemoryPlaces, MemoryRecords
  <2>4. PICK m : m = [here EXCEPT !.depth = d, !.at = a] OBVIOUS
  <2>5. memory' = [memory EXCEPT ![t] = m]
    <3>1. memory' = [memory EXCEPT ![t].depth = d, ![t].at = a]
      BY <2>1, <2>2, <2>3, <2>1 DEF Unlock
    <3> QED BY <2>1, <2>4, <3>1 DEF MemoryRecords, MemoryInv, MemoryTypes
  <2>6. m \in MemoryRecords BY <2>1, <2>2, <2>3, <2>4 DEF MemoryRecords, MemoryPlaces
  <2>7. /\ m.depth = memory[t].depth - 1
        /\ m.at = IF memory[t].depth = 1 THEN "done" ELSE memory[t].at
        /\ m.op = memory[t].op /\ m.backend = memory[t].backend /\ m.copy = memory[t].copy
        /\ m.value = memory[t].value
    BY <2>1, <2>2, <2>3, <2>4 DEF MemoryRecords
  <2> QED BY <2>5, <2>6, <2>7 DEF MemoryBecomes
<1>2. /\ memory[t].at = "unlock"
      /\ lockFile' = IF memory[t].depth = 1 /\ bus[ProcessOf[t]].holder = t THEN NoValue
                     ELSE lockFile
      /\ UNCHANGED <<lines, row, index, serial, before>>
  BY DEF Unlock, ThreadMayLock, BusOf, LockFileFree, AlreadyHolds, Commit
<1>3. /\ m.depth \in Nat /\ memory[t].depth \in Nat
      /\ memory[t].op \in MemoryOps \cup {"failed"}
      /\ \A u \in MemoryCalls : memory'[u] = IF u = t THEN m ELSE memory[u]
      /\ \A u \in MemoryCalls : ProcessOf[u] \in Processes
      /\ NoValue \notin MemoryCalls \cup Processes
      /\ lockFile # NoValue => lockFile \in Processes
  BY <1>1, MemoryAssumption DEF MemoryBecomes, MemoryInv, MemoryTypes, MemoryRecords, Processes
<1>4. PICK b : /\ BusBecomes(t, b)
               /\ b.lock = IF memory[t].depth = 1 THEN NoValue ELSE bus[ProcessOf[t]].lock
               /\ b.holder = IF memory[t].depth = 1 THEN NoValue ELSE bus[ProcessOf[t]].holder
               /\ b.loaded = bus[ProcessOf[t]].loaded /\ b.value = bus[ProcessOf[t]].value
  <2>1. PICK here : here = bus[ProcessOf[t]] /\ here \in BusRecords
    BY <1>3 DEF MemoryInv, MemoryTypes
  <2>2. PICK b : b = IF memory[t].depth = 1
                     THEN [here EXCEPT !.lock = NoValue, !.holder = NoValue] ELSE here
    OBVIOUS
  <2>3. bus' = [bus EXCEPT ![ProcessOf[t]] = b]
    BY <1>3, <2>1, <2>2 DEF Unlock, BusRecords, MemoryInv, MemoryTypes
  <2>4. b \in BusRecords BY <2>1, <2>2 DEF BusRecords, MemoryInv, MemoryTypes
  <2>5. /\ b.lock = IF memory[t].depth = 1 THEN NoValue ELSE bus[ProcessOf[t]].lock
        /\ b.holder = IF memory[t].depth = 1 THEN NoValue ELSE bus[ProcessOf[t]].holder
        /\ b.loaded = bus[ProcessOf[t]].loaded /\ b.value = bus[ProcessOf[t]].value
    BY <2>1, <2>2, <1>2 DEF BusRecords
  <2> QED BY <2>3, <2>4, <2>5 DEF BusBecomes
<1>5. \A p \in Processes : bus'[p] = IF p = ProcessOf[t] THEN b ELSE bus[p]
  BY <1>3, <1>4 DEF BusBecomes, MemoryInv, MemoryTypes
<1>6. bus[ProcessOf[t]].lock = t /\ memory[t].depth > 0
  BY <1>2, <1>3 DEF MemoryInv, CallsAsk, Asks, InsideLocks
<1>7. /\ memory[t].depth = 1 => m.depth = 0 /\ m.at = "done" /\ b.lock = NoValue
           /\ b.holder = NoValue
      /\ memory[t].depth # 1 => m.depth > 0 /\ m.at = "unlock" /\ b.lock = t
           /\ b.holder = bus[ProcessOf[t]].holder
  <2>1. memory[t].depth # 1 => memory[t].depth - 1 > 0 BY <1>3, <1>6
  <2> QED BY <1>1, <1>2, <1>3, <1>4, <1>6, <2>1
<1>8. MemoryTypes'
  BY <1>1, <1>2, <1>3, <1>4, <1>5, <1>6, <1>7 DEF MemoryBecomes, BusBecomes, MemoryInv,
     MemoryTypes
<1>9. CallsAsk'
  <2>1. ASSUME NEW u \in MemoryCalls, u # t PROVE Asks(memory[u])'
    BY <1>3, <2>1 DEF MemoryInv, CallsAsk, Asks
  <2>2. Asks(memory[t])' BY <1>1, <1>2, <1>3 DEF MemoryInv, CallsAsk, Asks, MemoryOps
  <2> QED BY <2>1, <2>2 DEF CallsAsk
<1>10. InsideLocks'
  <2>1. CASE memory[t].depth = 1
    BY <1>2, <1>3, <1>5, <1>6, <1>7, <2>1 DEF MemoryInv, InsideLocks, CallsAsk, Asks
  <2>2. CASE memory[t].depth # 1
    BY <1>2, <1>3, <1>5, <1>6, <1>7, <2>2 DEF MemoryInv, InsideLocks, CallsAsk, Asks
  <2> QED BY <1>2, <1>3, <2>1, <2>2
<1>11. BusesOwn'
  <2>1. CASE memory[t].depth = 1
    BY <1>2, <1>3, <1>5, <1>6, <1>7, <2>1 DEF MemoryInv, BusesOwn, InsideLocks
  <2>2. CASE memory[t].depth # 1
    BY <1>2, <1>3, <1>5, <1>6, <1>7, <2>2 DEF MemoryInv, BusesOwn, InsideLocks
  <2> QED BY <1>2, <1>3, <2>1, <2>2
<1>12. FileHeld'
  <2>1. CASE memory[t].depth = 1
    BY <1>2, <1>3, <1>5, <1>6, <1>7, <2>1 DEF MemoryInv, FileHeld, BusesOwn, MemoryTypes
  <2>2. CASE memory[t].depth # 1
    BY <1>2, <1>3, <1>5, <1>6, <1>7, <2>2 DEF MemoryInv, FileHeld, BusesOwn, MemoryTypes
  <2> QED BY <1>2, <1>3, <2>1, <2>2
<1>13. WritersHold'
  <2>1. CASE memory[t].depth = 1
    BY <1>1, <1>2, <1>3, <1>5, <1>6, <1>7, <2>1 DEF MemoryInv, WritersHold, AlreadyHolds,
       BusOf, NeedsFile, CallsAsk, Asks, InsideLocks
  <2>2. CASE memory[t].depth # 1
    BY <1>1, <1>2, <1>3, <1>5, <1>6, <1>7, <2>2 DEF MemoryInv, WritersHold, AlreadyHolds,
       BusOf, NeedsFile, CallsAsk, Asks, InsideLocks
  <2> QED BY <1>2, <1>3, <2>1, <2>2
<1>14. SerialsCount'
  <2>1. Served' = Served BY <1>2 DEF Served
  <2> QED BY <1>1, <1>2, <1>3, <2>1 DEF MemoryInv, SerialsCount, Wrote, CallsAsk, Asks
<1>15. LinesOrdered'
  BY <1>1, <1>2, <1>3, <1>4, <1>5, <1>6, <1>7 DEF MemoryInv, LinesOrdered
<1>16. LinesKept'
  BY <1>1, <1>2, <1>3, <1>4, <1>5, <1>6, <1>7 DEF MemoryInv, LinesKept, Wrote, CallsAsk, Asks
<1>17. CopiesFresh'
  BY <1>1, <1>2, <1>3, <1>4, <1>5, <1>6, <1>7 DEF MemoryInv, CopiesFresh
<1>18. RowKept'
  BY <1>1, <1>2, <1>3, <1>4, <1>5, <1>6, <1>7 DEF MemoryInv, RowKept, AsNew, Wrote, CallsAsk,
     Asks
<1>19. IndexKept'
  BY <1>1, <1>2, <1>3, <1>4, <1>5, <1>6, <1>7 DEF MemoryInv, IndexKept, AsNew, Wrote,
     CallsAsk, Asks
<1>20. VectorsKept'
  BY <1>1, <1>2, <1>3, <1>4, <1>5, <1>7 DEF MemoryInv, VectorsKept, AsNew, Wrote, Dumping
<1>21. VectorsLoaded' BY <1>1, <1>2, <1>3, <1>4, <1>5, <1>7 DEF MemoryInv, VectorsLoaded
<1>22. BeforeWritten'
  BY <1>1, <1>2, <1>3, <1>4, <1>5, <1>6, <1>7 DEF MemoryInv, BeforeWritten, Written
<1>23. ReadsKept'
  BY <1>1, <1>2, <1>3, <1>4, <1>5, <1>6, <1>7 DEF MemoryInv, ReadsKept, BeforeWritten,
     NewerThan, Written
<1> QED
  BY <1>8, <1>9, <1>10, <1>11, <1>12, <1>13, <1>14, <1>15, <1>16, <1>17, <1>18, <1>19, <1>20,
     <1>21, <1>22, <1>23 DEF MemoryInv

LEMMA ReadValueKeeps ==
    ASSUME MemoryInv, NEW t \in MemoryCalls, ReadValue(t)
    PROVE  MemoryInv'
<1>1. PICK m : /\ MemoryBecomes(t, m)
               /\ m.at = "unlock"
               /\ m.depth = memory[t].depth /\ m.op = memory[t].op
               /\ m.backend = memory[t].backend /\ m.copy = memory[t].copy
               /\ m.value = IF memory[t].value = NoValue /\ memory[t].backend = "jsonl"
                            THEN LastLine ELSE IF memory[t].value = NoValue /\ memory[t].backend = "sqlite" THEN row ELSE bus[ProcessOf[t]].value
  <2>1. PICK here : here = memory[t] /\ here \in MemoryRecords
    BY DEF MemoryInv, MemoryTypes
  <2>2. PICK v : v = (IF here.value = NoValue /\ here.backend = "jsonl" THEN LastLine
                      ELSE IF here.value = NoValue /\ here.backend = "sqlite" THEN row
                           ELSE bus[ProcessOf[t]].value) /\ v \in MemoryCalls \cup {NoValue}
    BY LastLineIs DEF MemoryInv, MemoryTypes, BusRecords, Processes
  <2>3. PICK m : m = [here EXCEPT !.at = "unlock", !.value = v] OBVIOUS
  <2>4. memory' = [memory EXCEPT ![t] = m]
    <3>1. memory' = [memory EXCEPT ![t].at = "unlock", ![t].value = v]
      BY <2>1, <2>2, <2>1 DEF ReadValue, BusOf
    <3> QED BY <2>1, <2>3, <3>1 DEF MemoryRecords, MemoryInv, MemoryTypes
  <2>5. m \in MemoryRecords BY <2>1, <2>2, <2>3 DEF MemoryRecords, MemoryPlaces
  <2>6. /\ m.at = "unlock"
        /\ m.depth = memory[t].depth /\ m.op = memory[t].op /\ m.backend = memory[t].backend
        /\ m.copy = memory[t].copy
        /\ m.value = IF memory[t].value = NoValue /\ memory[t].backend = "jsonl"
                     THEN LastLine ELSE IF memory[t].value = NoValue /\ memory[t].backend = "sqlite" THEN row ELSE bus[ProcessOf[t]].value
    BY <2>1, <2>2, <2>3 DEF MemoryRecords
  <2> QED BY <2>4, <2>5, <2>6 DEF MemoryBecomes
<1>2. /\ memory[t].at = "read"
      /\ UNCHANGED <<lines, row, index, lockFile, bus, serial, before>>
  BY DEF ReadValue, ThreadMayLock, BusOf, LockFileFree, AlreadyHolds, Commit
<1>3. /\ m.depth \in Nat /\ memory[t].depth \in Nat
      /\ memory[t].op \in MemoryOps \cup {"failed"}
      /\ \A u \in MemoryCalls : memory'[u] = IF u = t THEN m ELSE memory[u]
      /\ \A u \in MemoryCalls : ProcessOf[u] \in Processes
      /\ NoValue \notin MemoryCalls \cup Processes
      /\ lockFile # NoValue => lockFile \in Processes
  BY <1>1, MemoryAssumption DEF MemoryBecomes, MemoryInv, MemoryTypes, MemoryRecords, Processes
<1>4. MemoryTypes'
  BY <1>1, <1>2, <1>3 DEF MemoryBecomes, BusBecomes, MemoryInv, MemoryTypes
<1>5. CallsAsk'
  <2>1. ASSUME NEW u \in MemoryCalls, u # t PROVE Asks(memory[u])'
    BY <1>3, <2>1 DEF MemoryInv, CallsAsk, Asks
  <2>2. Asks(memory[t])' BY <1>1, <1>2, <1>3 DEF MemoryInv, CallsAsk, Asks, MemoryOps
  <2> QED BY <2>1, <2>2 DEF CallsAsk
<1>6. InsideLocks'
  BY <1>1, <1>2, <1>3 DEF MemoryInv, InsideLocks, CallsAsk, Asks, BusesOwn
<1>7. BusesOwn' BY <1>1, <1>2, <1>3 DEF MemoryInv, BusesOwn, InsideLocks
<1>8. FileHeld' BY <1>1, <1>2, <1>3 DEF MemoryInv, FileHeld, BusesOwn
<1>9. WritersHold'
  BY <1>1, <1>2, <1>3 DEF MemoryInv, WritersHold, AlreadyHolds, BusOf, NeedsFile, CallsAsk, Asks
<1>10. SerialsCount'
  <2>1. Served' = Served BY <1>2 DEF Served
  <2> QED BY <1>1, <1>2, <1>3, <2>1 DEF MemoryInv, SerialsCount, Wrote, CallsAsk, Asks
<1>11. LinesOrdered' BY <1>1, <1>2, <1>3 DEF MemoryInv, LinesOrdered
<1>12. LinesKept' BY <1>1, <1>2, <1>3 DEF MemoryInv, LinesKept, Wrote, CallsAsk, Asks
<1>13. CopiesFresh' BY <1>1, <1>2, <1>3 DEF MemoryInv, CopiesFresh
<1>14. RowKept' BY <1>1, <1>2, <1>3 DEF MemoryInv, RowKept, AsNew, Wrote, CallsAsk, Asks
<1>15. IndexKept'
  BY <1>1, <1>2, <1>3 DEF MemoryInv, IndexKept, AsNew, Wrote, CallsAsk, Asks
<1>16. VectorsKept'
  BY <1>1, <1>2, <1>3 DEF MemoryInv, VectorsKept, AsNew, Wrote, CallsAsk, Asks, Dumping
<1>17. VectorsLoaded' BY <1>1, <1>2, <1>3 DEF MemoryInv, VectorsLoaded
<1>18. BeforeWritten' BY <1>1, <1>2, <1>3 DEF MemoryInv, BeforeWritten, Written
<1>19. ReadsKept'
  <2>1. ASSUME NEW u \in MemoryCalls, (memory[u].at \in {"unlock", "done"})',
               (memory[u].op = "read")',
               (memory[u].backend \in Backends)', NEW w \in before[u]'
        PROVE  NewerThan(u, w)'
    <3>1. w \in before[u] /\ w \in Written /\ w # t /\ w \in MemoryCalls /\ Wrote(w)
      BY <1>2, <2>1 DEF MemoryInv, BeforeWritten, Written, Wrote
    <3>2. CASE u # t
      BY <1>1, <1>2, <1>3, <2>1, <3>1, <3>2 DEF MemoryInv, ReadsKept, NewerThan
    <3>3. CASE u = t
      <4>1. memory[t].value = NoValue /\ memory[t].backend \in Backends
        BY <1>2 DEF MemoryInv, CallsAsk, Asks
      <4>2. ASSUME memory[w].backend = memory[t].backend,
                   memory[t].backend = "vector" => ProcessOf[w] = ProcessOf[t]
            PROVE  AsNew(m.value, w)
        <5>1. CASE memory[t].backend = "jsonl"
          <6>1. m.value = LastLine BY <1>1, <4>1, <5>1
          <6> QED BY <3>1, <4>2, <5>1, <6>1, LastIsNewest
        <5>2. CASE memory[t].backend = "sqlite"
          BY <1>1, <3>1, <4>1, <4>2, <5>2 DEF MemoryInv, RowKept
        <5>3. CASE memory[t].backend = "vector"
          <6>1. bus[ProcessOf[t]].loaded /\ bus[ProcessOf[t]].lock = t
            BY <1>2, <5>3 DEF MemoryInv, VectorsLoaded, InsideLocks, CallsAsk, Asks
          <6>2. ~Dumping(ProcessOf[t])
            BY <1>2, <6>1 DEF MemoryInv, InsideLocks, CallsAsk, Asks, Dumping
          <6>3. m.value = bus[ProcessOf[t]].value BY <1>1, <4>1, <5>3
          <6> QED BY <3>1, <4>2, <5>3, <6>1, <6>2, <6>3 DEF MemoryInv, VectorsKept
        <5> QED BY <4>1, <5>1, <5>2, <5>3 DEF Backends
      <4> QED BY <1>1, <1>2, <1>3, <3>1, <3>3, <4>2 DEF NewerThan, AsNew
    <3> QED BY <3>2, <3>3
  <2> QED BY <2>1 DEF ReadsKept
<1> QED
  BY <1>4, <1>5, <1>6, <1>7, <1>8, <1>9, <1>10, <1>11, <1>12, <1>13, <1>14, <1>15, <1>16,
     <1>17, <1>18, <1>19 DEF MemoryInv

LEMMA CopyLinesKeeps ==
    ASSUME MemoryInv, NEW t \in MemoryCalls, CopyLines(t)
    PROVE  MemoryInv'
<1>1. PICK m : /\ MemoryBecomes(t, m)
               /\ m.at = "replace" /\ m.copy = lines
               /\ m.depth = memory[t].depth /\ m.op = memory[t].op
               /\ m.backend = memory[t].backend /\ m.value = memory[t].value
  <2>1. PICK here : here = memory[t] /\ here \in MemoryRecords
    BY DEF MemoryInv, MemoryTypes
  <2>2. PICK m : m = [here EXCEPT !.at = "replace", !.copy = lines] OBVIOUS
  <2>3. memory' = [memory EXCEPT ![t] = m] BY <2>1, <2>2 DEF CopyLines, MemoryAt
  <2>4. m \in MemoryRecords
    BY <2>1, <2>2 DEF MemoryRecords, MemoryPlaces, MemoryInv, MemoryTypes
  <2>5. /\ m.at = "replace" /\ m.copy = lines
        /\ m.depth = memory[t].depth /\ m.op = memory[t].op /\ m.backend = memory[t].backend
        /\ m.value = memory[t].value
    BY <2>1, <2>2 DEF MemoryRecords
  <2> QED BY <2>3, <2>4, <2>5 DEF MemoryBecomes
<1>2. /\ memory[t].at = "write" /\ memory[t].backend = "jsonl"
      /\ UNCHANGED <<lines, row, index, lockFile, bus, serial, before>>
  BY DEF CopyLines, ThreadMayLock, BusOf, LockFileFree, AlreadyHolds, Commit
<1>3. /\ m.depth \in Nat /\ memory[t].depth \in Nat
      /\ memory[t].op \in MemoryOps \cup {"failed"}
      /\ \A u \in MemoryCalls : memory'[u] = IF u = t THEN m ELSE memory[u]
      /\ \A u \in MemoryCalls : ProcessOf[u] \in Processes
      /\ NoValue \notin MemoryCalls \cup Processes
      /\ lockFile # NoValue => lockFile \in Processes
  BY <1>1, MemoryAssumption DEF MemoryBecomes, MemoryInv, MemoryTypes, MemoryRecords, Processes
<1>4. MemoryTypes'
  BY <1>1, <1>2, <1>3 DEF MemoryBecomes, BusBecomes, MemoryInv, MemoryTypes
<1>5. CallsAsk'
  <2>1. ASSUME NEW u \in MemoryCalls, u # t PROVE Asks(memory[u])'
    BY <1>3, <2>1 DEF MemoryInv, CallsAsk, Asks
  <2>2. Asks(memory[t])' BY <1>1, <1>2, <1>3 DEF MemoryInv, CallsAsk, Asks, MemoryOps
  <2> QED BY <2>1, <2>2 DEF CallsAsk
<1>6. InsideLocks'
  BY <1>1, <1>2, <1>3 DEF MemoryInv, InsideLocks, CallsAsk, Asks, BusesOwn
<1>7. BusesOwn' BY <1>1, <1>2, <1>3 DEF MemoryInv, BusesOwn, InsideLocks
<1>8. FileHeld' BY <1>1, <1>2, <1>3 DEF MemoryInv, FileHeld, BusesOwn
<1>9. WritersHold'
  BY <1>1, <1>2, <1>3 DEF MemoryInv, WritersHold, AlreadyHolds, BusOf, NeedsFile, CallsAsk, Asks
<1>10. SerialsCount'
  <2>1. Served' = Served BY <1>2 DEF Served
  <2> QED BY <1>1, <1>2, <1>3, <2>1 DEF MemoryInv, SerialsCount, Wrote, CallsAsk, Asks
<1>11. LinesOrdered' BY <1>1, <1>2, <1>3 DEF MemoryInv, LinesOrdered
<1>12. LinesKept' BY <1>1, <1>2, <1>3 DEF MemoryInv, LinesKept, Wrote, CallsAsk, Asks
<1>13. CopiesFresh' BY <1>1, <1>2, <1>3 DEF MemoryInv, CopiesFresh
<1>14. RowKept' BY <1>1, <1>2, <1>3 DEF MemoryInv, RowKept, AsNew, Wrote, CallsAsk, Asks
<1>15. IndexKept'
  BY <1>1, <1>2, <1>3 DEF MemoryInv, IndexKept, AsNew, Wrote, CallsAsk, Asks
<1>16. VectorsKept'
  BY <1>1, <1>2, <1>3 DEF MemoryInv, VectorsKept, AsNew, Wrote, CallsAsk, Asks, Dumping
<1>17. VectorsLoaded' BY <1>1, <1>2, <1>3 DEF MemoryInv, VectorsLoaded
<1>18. BeforeWritten' BY <1>1, <1>2, <1>3 DEF MemoryInv, BeforeWritten, Written
<1>19. ReadsKept'
  BY <1>1, <1>2, <1>3 DEF MemoryInv, ReadsKept, BeforeWritten, NewerThan, Written
<1> QED
  BY <1>4, <1>5, <1>6, <1>7, <1>8, <1>9, <1>10, <1>11, <1>12, <1>13, <1>14, <1>15, <1>16,
     <1>17, <1>18, <1>19 DEF MemoryInv

LEMMA RewriteIndexKeeps ==
    ASSUME MemoryInv, NEW t \in MemoryCalls, RewriteIndex(t)
    PROVE  MemoryInv'
<1>1. PICK m : /\ MemoryBecomes(t, m)
               /\ m.at = "dump"
               /\ m.depth = memory[t].depth /\ m.op = memory[t].op
               /\ m.backend = memory[t].backend /\ m.copy = memory[t].copy
               /\ m.value = memory[t].value
  <2>1. PICK here : here = memory[t] /\ here \in MemoryRecords
    BY DEF MemoryInv, MemoryTypes
  <2>2. PICK m : m = [here EXCEPT !.at = "dump"] OBVIOUS
  <2>3. memory' = [memory EXCEPT ![t] = m] BY <2>1, <2>2 DEF RewriteIndex, MemoryAt
  <2>4. m \in MemoryRecords BY <2>1, <2>2 DEF MemoryRecords, MemoryPlaces
  <2>5. /\ m.at = "dump"
        /\ m.depth = memory[t].depth /\ m.op = memory[t].op /\ m.backend = memory[t].backend
        /\ m.copy = memory[t].copy /\ m.value = memory[t].value
    BY <2>1, <2>2 DEF MemoryRecords
  <2> QED BY <2>3, <2>4, <2>5 DEF MemoryBecomes
<1>2. /\ memory[t].at = "write" /\ memory[t].backend = "vector"
      /\ index' = [is |-> "torn", value |-> NoValue]
      /\ UNCHANGED <<lines, row, lockFile, serial, before>>
  BY DEF RewriteIndex, ThreadMayLock, BusOf, LockFileFree, AlreadyHolds, Commit
<1>3. /\ m.depth \in Nat /\ memory[t].depth \in Nat
      /\ memory[t].op \in MemoryOps \cup {"failed"}
      /\ \A u \in MemoryCalls : memory'[u] = IF u = t THEN m ELSE memory[u]
      /\ \A u \in MemoryCalls : ProcessOf[u] \in Processes
      /\ NoValue \notin MemoryCalls \cup Processes
      /\ lockFile # NoValue => lockFile \in Processes
  BY <1>1, MemoryAssumption DEF MemoryBecomes, MemoryInv, MemoryTypes, MemoryRecords, Processes
<1>4. PICK b : /\ BusBecomes(t, b)
               /\ b.value = t
               /\ b.lock = bus[ProcessOf[t]].lock /\ b.holder = bus[ProcessOf[t]].holder
               /\ b.loaded = bus[ProcessOf[t]].loaded
  <2>1. PICK here : here = bus[ProcessOf[t]] /\ here \in BusRecords
    BY <1>3 DEF MemoryInv, MemoryTypes
  <2>2. PICK b : b = [here EXCEPT !.value = t] OBVIOUS
  <2>3. bus' = [bus EXCEPT ![ProcessOf[t]] = b]
    BY <1>3, <2>1, <2>2 DEF RewriteIndex, BusRecords, MemoryInv, MemoryTypes
  <2>4. b \in BusRecords BY <2>1, <2>2 DEF BusRecords, MemoryInv, MemoryTypes
  <2>5. /\ b.value = t
        /\ b.lock = bus[ProcessOf[t]].lock /\ b.holder = bus[ProcessOf[t]].holder
        /\ b.loaded = bus[ProcessOf[t]].loaded
    BY <2>1, <2>2, <1>2 DEF BusRecords
  <2> QED BY <2>3, <2>4, <2>5 DEF BusBecomes
<1>5. \A p \in Processes : bus'[p] = IF p = ProcessOf[t] THEN b ELSE bus[p]
  BY <1>3, <1>4 DEF BusBecomes, MemoryInv, MemoryTypes
<1>6. \A u \in MemoryCalls : memory[u].at \in NeedsFile => u = t
  BY <1>2, OneWriter DEF MemoryInv, WritersHold, NeedsFile
<1>7. MemoryTypes'
  BY <1>1, <1>2, <1>3, <1>4, <1>5, <1>6 DEF MemoryBecomes, BusBecomes, MemoryInv, MemoryTypes
<1>8. CallsAsk'
  <2>1. ASSUME NEW u \in MemoryCalls, u # t PROVE Asks(memory[u])'
    BY <1>3, <2>1 DEF MemoryInv, CallsAsk, Asks
  <2>2. Asks(memory[t])' BY <1>1, <1>2, <1>3 DEF MemoryInv, CallsAsk, Asks, MemoryOps
  <2> QED BY <2>1, <2>2 DEF CallsAsk
<1>9. InsideLocks'
  BY <1>1, <1>2, <1>3, <1>4, <1>5, <1>6 DEF MemoryInv, InsideLocks, CallsAsk, Asks, BusesOwn
<1>10. BusesOwn'
  BY <1>1, <1>2, <1>3, <1>4, <1>5, <1>6 DEF MemoryInv, BusesOwn, InsideLocks
<1>11. FileHeld' BY <1>1, <1>2, <1>3, <1>4, <1>5, <1>6 DEF MemoryInv, FileHeld, BusesOwn
<1>12. WritersHold'
  BY <1>1, <1>2, <1>3, <1>4, <1>5, <1>6 DEF MemoryInv, WritersHold, AlreadyHolds, BusOf,
     NeedsFile, CallsAsk, Asks
<1>13. SerialsCount'
  <2>1. Served' = Served BY <1>2 DEF Served
  <2> QED BY <1>1, <1>2, <1>3, <2>1 DEF MemoryInv, SerialsCount, Wrote, CallsAsk, Asks
<1>14. LinesOrdered' BY <1>1, <1>2, <1>3, <1>4, <1>5, <1>6 DEF MemoryInv, LinesOrdered
<1>15. LinesKept'
  BY <1>1, <1>2, <1>3, <1>4, <1>5, <1>6 DEF MemoryInv, LinesKept, Wrote, CallsAsk, Asks
<1>16. CopiesFresh' BY <1>1, <1>2, <1>3, <1>4, <1>5, <1>6 DEF MemoryInv, CopiesFresh
<1>17. RowKept'
  BY <1>1, <1>2, <1>3, <1>4, <1>5, <1>6 DEF MemoryInv, RowKept, AsNew, Wrote, CallsAsk, Asks
<1>18. IndexKept'
  BY <1>1, <1>2, <1>3, <1>4, <1>5, <1>6 DEF MemoryInv, IndexKept, AsNew, Wrote, CallsAsk, Asks
<1>19. VectorsKept'
  BY <1>1, <1>2, <1>3, <1>4, <1>5, <1>6 DEF MemoryInv, VectorsKept, AsNew, Wrote, CallsAsk,
     Asks, Dumping
<1>20. VectorsLoaded'
  BY <1>1, <1>2, <1>3, <1>4, <1>5, <1>6 DEF MemoryInv, VectorsLoaded, NeedsFile
<1>21. BeforeWritten'
  BY <1>1, <1>2, <1>3, <1>4, <1>5, <1>6 DEF MemoryInv, BeforeWritten, Written
<1>22. ReadsKept'
  BY <1>1, <1>2, <1>3, <1>4, <1>5, <1>6 DEF MemoryInv, ReadsKept, BeforeWritten, NewerThan,
     Written
<1> QED
  BY <1>7, <1>8, <1>9, <1>10, <1>11, <1>12, <1>13, <1>14, <1>15, <1>16, <1>17, <1>18, <1>19,
     <1>20, <1>21, <1>22 DEF MemoryInv

LEMMA ReplaceFileKeeps ==
    ASSUME MemoryInv, NEW t \in MemoryCalls, ReplaceFile(t)
    PROVE  MemoryInv'
<1>1. PICK m : /\ MemoryBecomes(t, m)
               /\ m.at = "unlock"
               /\ m.depth = memory[t].depth /\ m.op = memory[t].op
               /\ m.backend = memory[t].backend /\ m.value = memory[t].value
  <2>1. PICK here : here = memory[t] /\ here \in MemoryRecords
    BY DEF MemoryInv, MemoryTypes
  <2>2. PICK none : none = (<<>>) /\ none \in Seq(MemoryCalls) BY EmptySeq
  <2>3. PICK m : m = [here EXCEPT !.at = "unlock", !.copy = none] OBVIOUS
  <2>4. memory' = [memory EXCEPT ![t] = m]
    BY <2>1, <2>2, <2>3 DEF ReplaceFile, Commit, MemoryAt
  <2>5. m \in MemoryRecords BY <2>1, <2>2, <2>3 DEF MemoryRecords, MemoryPlaces
  <2>6. /\ m.at = "unlock"
        /\ m.depth = memory[t].depth /\ m.op = memory[t].op /\ m.backend = memory[t].backend
        /\ m.value = memory[t].value
    BY <2>1, <2>2, <2>3 DEF MemoryRecords
  <2> QED BY <2>4, <2>5, <2>6 DEF MemoryBecomes
<1>2. /\ memory[t].at = "replace"
      /\ lines' = Append(memory[t].copy, t)
      /\ UNCHANGED <<row, index, lockFile, bus, before>>
  BY DEF ReplaceFile, ThreadMayLock, BusOf, LockFileFree, AlreadyHolds, Commit
<1>3. /\ m.depth \in Nat /\ memory[t].depth \in Nat
      /\ memory[t].op \in MemoryOps \cup {"failed"}
      /\ \A u \in MemoryCalls : memory'[u] = IF u = t THEN m ELSE memory[u]
      /\ \A u \in MemoryCalls : ProcessOf[u] \in Processes
      /\ NoValue \notin MemoryCalls \cup Processes
      /\ lockFile # NoValue => lockFile \in Processes
  BY <1>1, MemoryAssumption DEF MemoryBecomes, MemoryInv, MemoryTypes, MemoryRecords, Processes
<1>4. /\ serial' \in [MemoryCalls -> Nat] /\ serial'[t] > 0
      /\ \A u \in MemoryCalls : serial'[u] >= serial[u] /\ serial'[u] <= Cardinality(Served')
      /\ \A u \in MemoryCalls : u # t => serial'[u] = serial[u] /\ serial[u] < serial'[t]
  BY <1>1, CommitIs DEF ReplaceFile, MemoryInv, SerialsCount
<1>5. /\ serial \in [MemoryCalls -> Nat] /\ serial[t] = 0
      /\ \A i \in DOMAIN lines : lines[i] \in MemoryCalls
      /\ row \in MemoryCalls \cup {NoValue} /\ index.value \in MemoryCalls \cup {NoValue}
      /\ \A p \in Processes : bus[p].value \in MemoryCalls \cup {NoValue}
      /\ \A u \in MemoryCalls : memory[u].value \in MemoryCalls \cup {NoValue}
           /\ before[u] \subseteq MemoryCalls
  BY <1>2, MemoryTyped DEF MemoryInv, SerialsCount
<1>6. \A u \in MemoryCalls : memory[u].at \in NeedsFile => u = t
  BY <1>2, OneWriter DEF MemoryInv, WritersHold, NeedsFile
<1>7. /\ lines' = Append(lines, t) /\ lines' \in Seq(MemoryCalls)
      /\ \A i \in DOMAIN lines' :
           (i \in DOMAIN lines /\ lines'[i] = lines[i] /\ i < Len(lines) + 1)
             \/ (i = Len(lines) + 1 /\ lines'[i] = t)
      /\ \A i \in DOMAIN lines : i \in DOMAIN lines' /\ lines'[i] = lines[i]
      /\ Len(lines) + 1 \in DOMAIN lines' /\ lines'[Len(lines) + 1] = t
  <2>1. memory[t].copy = lines /\ lines \in Seq(MemoryCalls)
    BY <1>2 DEF MemoryInv, CopiesFresh, MemoryTypes
  <2>2. lines' = Append(lines, t) BY <1>2, <2>1
  <2> QED BY <2>1, <2>2
<1>8. m.backend = "jsonl" BY <1>1, <1>2 DEF MemoryInv, CallsAsk, Asks
<1>9. MemoryTypes'
  BY <1>1, <1>2, <1>3, <1>4, <1>7 DEF MemoryBecomes, MemoryInv, MemoryTypes
<1>10. CallsAsk'
  <2>1. ASSUME NEW u \in MemoryCalls, u # t PROVE Asks(memory[u])'
    BY <1>3, <2>1 DEF MemoryInv, CallsAsk, Asks
  <2>2. Asks(memory[t])' BY <1>1, <1>2, <1>3 DEF MemoryInv, CallsAsk, Asks, MemoryOps
  <2> QED BY <2>1, <2>2 DEF CallsAsk
<1>11. InsideLocks'
  BY <1>1, <1>2, <1>3, <1>4, <1>5, <1>6, <1>7, <1>8 DEF MemoryInv, InsideLocks, CallsAsk,
     Asks, BusesOwn
<1>12. BusesOwn'
  BY <1>1, <1>2, <1>3, <1>4, <1>5, <1>6, <1>7, <1>8 DEF MemoryInv, BusesOwn, InsideLocks
<1>13. FileHeld'
  BY <1>1, <1>2, <1>3, <1>4, <1>5, <1>6, <1>7, <1>8 DEF MemoryInv, FileHeld, BusesOwn
<1>14. WritersHold'
  BY <1>1, <1>2, <1>3, <1>4, <1>5, <1>6, <1>7, <1>8 DEF MemoryInv, WritersHold, AlreadyHolds,
     BusOf, NeedsFile, CallsAsk, Asks
<1>15. SerialsCount'
  BY <1>1, <1>2, <1>3, <1>4 DEF MemoryInv, SerialsCount, Wrote, CallsAsk, Asks, MemoryTypes
<1>16. LinesOrdered'
  <2>1. \A i \in DOMAIN lines : serial'[lines'[i]] = serial[lines[i]] /\ serial[lines[i]] > 0
                                /\ serial[lines[i]] < serial'[t]
    BY <1>4, <1>5, <1>7 DEF MemoryInv, LinesOrdered
  <2>2. \A i \in DOMAIN lines' : serial'[lines'[i]] > 0 BY <1>4, <1>7, <2>1
  <2>3. ASSUME NEW i \in DOMAIN lines', NEW j \in DOMAIN lines', i < j
        PROVE  serial'[lines'[i]] < serial'[lines'[j]]
    <3>1. i \in DOMAIN lines BY <1>7, <2>3
    <3>2. CASE j \in DOMAIN lines
      BY <1>7, <2>1, <2>3, <3>1, <3>2 DEF MemoryInv, LinesOrdered
    <3>3. CASE j = Len(lines) + 1 BY <1>7, <2>1, <3>1, <3>3
    <3> QED BY <1>7, <3>2, <3>3
  <2> QED BY <2>2, <2>3 DEF LinesOrdered
<1>17. LinesKept'
  BY <1>1, <1>2, <1>3, <1>4, <1>5, <1>6, <1>7, <1>8 DEF MemoryInv, LinesKept, Wrote
<1>18. CopiesFresh'
  BY <1>1, <1>2, <1>3, <1>4, <1>5, <1>6 DEF MemoryInv, CopiesFresh, NeedsFile
<1>19. RowKept'
  BY <1>1, <1>2, <1>3, <1>4, <1>5, <1>6, <1>8 DEF MemoryInv, RowKept, AsNew, Wrote
<1>20. IndexKept'
  BY <1>1, <1>2, <1>3, <1>4, <1>5, <1>6, <1>8 DEF MemoryInv, IndexKept, AsNew, Wrote
<1>21. VectorsKept'
  <2>1. ASSUME NEW u \in MemoryCalls, Wrote(u)', (memory[u].backend = "vector")',
               bus[ProcessOf[u]].loaded', ~Dumping(ProcessOf[u])'
        PROVE  AsNew(bus[ProcessOf[u]].value, u)'
    <3>1. CASE u = t
      BY <1>1, <1>2, <1>3, <1>4, <1>5, <1>6, <2>1, <3>1 DEF MemoryInv, CallsAsk, Asks
    <3>2. CASE u # t
      <4>1. Wrote(u) /\ memory[u].backend = "vector" /\ bus[ProcessOf[u]].loaded
        BY <1>1, <1>2, <1>3, <1>4, <1>5, <1>6, <2>1, <3>2 DEF Wrote
      <4>2. ~Dumping(ProcessOf[u])
        BY <1>1, <1>2, <1>3, <1>4, <1>5, <1>6, <2>1, <3>2 DEF Dumping
      <4>3. AsNew(bus[ProcessOf[u]].value, u) BY <4>1, <4>2 DEF MemoryInv, VectorsKept
      <4> QED BY <1>1, <1>2, <1>3, <1>4, <1>5, <1>6, <3>2, <4>3 DEF AsNew
    <3> QED BY <3>1, <3>2
  <2> QED BY <2>1 DEF VectorsKept
<1>22. VectorsLoaded' BY <1>1, <1>2, <1>3, <1>4, <1>5, <1>6 DEF MemoryInv, VectorsLoaded
<1>23. BeforeWritten' BY <1>1, <1>2, <1>3 DEF MemoryInv, BeforeWritten, Written
<1>24. ReadsKept'
  <2>1. ASSUME NEW u \in MemoryCalls, (memory[u].at \in {"unlock", "done"})',
               (memory[u].op = "read")',
               (memory[u].backend \in Backends)', NEW w \in before[u]'
        PROVE  NewerThan(u, w)'
    <3>1. u # t
      BY <1>1, <1>2, <1>3, <1>4, <1>5, <1>6, <2>1 DEF MemoryInv, CallsAsk, Asks
    <3>2. w \in before[u] /\ w \in Written /\ w # t
      BY <1>1, <1>2, <1>3, <1>4, <1>5, <1>6, <2>1 DEF MemoryInv, BeforeWritten, Written
    <3>3. NewerThan(u, w)
      BY <1>1, <1>2, <1>3, <1>4, <1>5, <1>6, <2>1, <3>1, <3>2 DEF MemoryInv, ReadsKept
    <3> QED BY <1>1, <1>2, <1>3, <1>4, <1>5, <1>6, <3>1, <3>2, <3>3 DEF NewerThan
  <2> QED BY <2>1 DEF ReadsKept
<1> QED
  BY <1>9, <1>10, <1>11, <1>12, <1>13, <1>14, <1>15, <1>16, <1>17, <1>18, <1>19, <1>20, <1>21,
     <1>22, <1>23, <1>24 DEF MemoryInv

LEMMA UpsertKeeps ==
    ASSUME MemoryInv, NEW t \in MemoryCalls, Upsert(t)
    PROVE  MemoryInv'
<1>1. PICK m : /\ MemoryBecomes(t, m)
               /\ m.at = "unlock"
               /\ m.depth = memory[t].depth /\ m.op = memory[t].op
               /\ m.backend = memory[t].backend /\ m.value = memory[t].value
  <2>1. PICK here : here = memory[t] /\ here \in MemoryRecords
    BY DEF MemoryInv, MemoryTypes
  <2>2. PICK none : none = (<<>>) /\ none \in Seq(MemoryCalls) BY EmptySeq
  <2>3. PICK m : m = [here EXCEPT !.at = "unlock", !.copy = none] OBVIOUS
  <2>4. memory' = [memory EXCEPT ![t] = m]
    BY <2>1, <2>2, <2>3 DEF Upsert, Commit, MemoryAt
  <2>5. m \in MemoryRecords BY <2>1, <2>2, <2>3 DEF MemoryRecords, MemoryPlaces
  <2>6. /\ m.at = "unlock"
        /\ m.depth = memory[t].depth /\ m.op = memory[t].op /\ m.backend = memory[t].backend
        /\ m.value = memory[t].value
    BY <2>1, <2>2, <2>3 DEF MemoryRecords
  <2> QED BY <2>4, <2>5, <2>6 DEF MemoryBecomes
<1>2. /\ memory[t].at = "write" /\ memory[t].backend = "sqlite"
      /\ row' = t
      /\ UNCHANGED <<lines, index, lockFile, bus, before>>
  BY DEF Upsert, ThreadMayLock, BusOf, LockFileFree, AlreadyHolds, Commit
<1>3. /\ m.depth \in Nat /\ memory[t].depth \in Nat
      /\ memory[t].op \in MemoryOps \cup {"failed"}
      /\ \A u \in MemoryCalls : memory'[u] = IF u = t THEN m ELSE memory[u]
      /\ \A u \in MemoryCalls : ProcessOf[u] \in Processes
      /\ NoValue \notin MemoryCalls \cup Processes
      /\ lockFile # NoValue => lockFile \in Processes
  BY <1>1, MemoryAssumption DEF MemoryBecomes, MemoryInv, MemoryTypes, MemoryRecords, Processes
<1>4. /\ serial' \in [MemoryCalls -> Nat] /\ serial'[t] > 0
      /\ \A u \in MemoryCalls : serial'[u] >= serial[u] /\ serial'[u] <= Cardinality(Served')
      /\ \A u \in MemoryCalls : u # t => serial'[u] = serial[u] /\ serial[u] < serial'[t]
  BY <1>1, CommitIs DEF Upsert, MemoryInv, SerialsCount
<1>5. /\ serial \in [MemoryCalls -> Nat] /\ serial[t] = 0
      /\ \A i \in DOMAIN lines : lines[i] \in MemoryCalls
      /\ row \in MemoryCalls \cup {NoValue} /\ index.value \in MemoryCalls \cup {NoValue}
      /\ \A p \in Processes : bus[p].value \in MemoryCalls \cup {NoValue}
      /\ \A u \in MemoryCalls : memory[u].value \in MemoryCalls \cup {NoValue}
           /\ before[u] \subseteq MemoryCalls
  BY <1>2, MemoryTyped DEF MemoryInv, SerialsCount
<1>6. \A u \in MemoryCalls : memory[u].at \in NeedsFile => u = t
  BY <1>2, OneWriter DEF MemoryInv, WritersHold, NeedsFile
<1>7. MemoryTypes' BY <1>1, <1>2, <1>3, <1>4 DEF MemoryBecomes, MemoryInv, MemoryTypes
<1>8. CallsAsk'
  <2>1. ASSUME NEW u \in MemoryCalls, u # t PROVE Asks(memory[u])'
    BY <1>3, <2>1 DEF MemoryInv, CallsAsk, Asks
  <2>2. Asks(memory[t])' BY <1>1, <1>2, <1>3 DEF MemoryInv, CallsAsk, Asks, MemoryOps
  <2> QED BY <2>1, <2>2 DEF CallsAsk
<1>9. InsideLocks'
  BY <1>1, <1>2, <1>3, <1>4, <1>5, <1>6 DEF MemoryInv, InsideLocks, CallsAsk, Asks, BusesOwn
<1>10. BusesOwn'
  BY <1>1, <1>2, <1>3, <1>4, <1>5, <1>6 DEF MemoryInv, BusesOwn, InsideLocks
<1>11. FileHeld' BY <1>1, <1>2, <1>3, <1>4, <1>5, <1>6 DEF MemoryInv, FileHeld, BusesOwn
<1>12. WritersHold'
  BY <1>1, <1>2, <1>3, <1>4, <1>5, <1>6 DEF MemoryInv, WritersHold, AlreadyHolds, BusOf,
     NeedsFile, CallsAsk, Asks
<1>13. SerialsCount'
  BY <1>1, <1>2, <1>3, <1>4 DEF MemoryInv, SerialsCount, Wrote, CallsAsk, Asks, MemoryTypes
<1>14. LinesOrdered' BY <1>1, <1>2, <1>3, <1>4, <1>5, <1>6 DEF MemoryInv, LinesOrdered
<1>15. LinesKept' BY <1>1, <1>2, <1>3, <1>4, <1>5, <1>6 DEF MemoryInv, LinesKept, Wrote
<1>16. CopiesFresh'
  BY <1>1, <1>2, <1>3, <1>4, <1>5, <1>6 DEF MemoryInv, CopiesFresh, NeedsFile
<1>17. RowKept'
  BY <1>1, <1>2, <1>3, <1>4, <1>5, <1>6 DEF MemoryInv, RowKept, AsNew, Wrote
<1>18. IndexKept'
  BY <1>1, <1>2, <1>3, <1>4, <1>5, <1>6 DEF MemoryInv, IndexKept, AsNew, Wrote
<1>19. VectorsKept'
  <2>1. ASSUME NEW u \in MemoryCalls, Wrote(u)', (memory[u].backend = "vector")',
               bus[ProcessOf[u]].loaded', ~Dumping(ProcessOf[u])'
        PROVE  AsNew(bus[ProcessOf[u]].value, u)'
    <3>1. CASE u = t
      BY <1>1, <1>2, <1>3, <1>4, <1>5, <1>6, <2>1, <3>1 DEF MemoryInv, CallsAsk, Asks
    <3>2. CASE u # t
      <4>1. Wrote(u) /\ memory[u].backend = "vector" /\ bus[ProcessOf[u]].loaded
        BY <1>1, <1>2, <1>3, <1>4, <1>5, <1>6, <2>1, <3>2 DEF Wrote
      <4>2. ~Dumping(ProcessOf[u])
        BY <1>1, <1>2, <1>3, <1>4, <1>5, <1>6, <2>1, <3>2 DEF Dumping
      <4>3. AsNew(bus[ProcessOf[u]].value, u) BY <4>1, <4>2 DEF MemoryInv, VectorsKept
      <4> QED BY <1>1, <1>2, <1>3, <1>4, <1>5, <1>6, <3>2, <4>3 DEF AsNew
    <3> QED BY <3>1, <3>2
  <2> QED BY <2>1 DEF VectorsKept
<1>20. VectorsLoaded' BY <1>1, <1>2, <1>3, <1>4, <1>5, <1>6 DEF MemoryInv, VectorsLoaded
<1>21. BeforeWritten'
  BY <1>1, <1>2, <1>3, <1>4, <1>5, <1>6 DEF MemoryInv, BeforeWritten, Written
<1>22. ReadsKept'
  <2>1. ASSUME NEW u \in MemoryCalls, (memory[u].at \in {"unlock", "done"})',
               (memory[u].op = "read")',
               (memory[u].backend \in Backends)', NEW w \in before[u]'
        PROVE  NewerThan(u, w)'
    <3>1. u # t
      BY <1>1, <1>2, <1>3, <1>4, <1>5, <1>6, <2>1 DEF MemoryInv, CallsAsk, Asks
    <3>2. w \in before[u] /\ w \in Written /\ w # t
      BY <1>1, <1>2, <1>3, <1>4, <1>5, <1>6, <2>1 DEF MemoryInv, BeforeWritten, Written
    <3>3. NewerThan(u, w)
      BY <1>1, <1>2, <1>3, <1>4, <1>5, <1>6, <2>1, <3>1, <3>2 DEF MemoryInv, ReadsKept
    <3> QED BY <1>1, <1>2, <1>3, <1>4, <1>5, <1>6, <3>1, <3>2, <3>3 DEF NewerThan
  <2> QED BY <2>1 DEF ReadsKept
<1> QED
  BY <1>7, <1>8, <1>9, <1>10, <1>11, <1>12, <1>13, <1>14, <1>15, <1>16, <1>17, <1>18, <1>19,
     <1>20, <1>21, <1>22 DEF MemoryInv

LEMMA DumpIndexKeeps ==
    ASSUME MemoryInv, NEW t \in MemoryCalls, DumpIndex(t)
    PROVE  MemoryInv'
<1>1. PICK m : /\ MemoryBecomes(t, m)
               /\ m.at = "unlock"
               /\ m.depth = memory[t].depth /\ m.op = memory[t].op
               /\ m.backend = memory[t].backend /\ m.value = memory[t].value
  <2>1. PICK here : here = memory[t] /\ here \in MemoryRecords
    BY DEF MemoryInv, MemoryTypes
  <2>2. PICK none : none = (<<>>) /\ none \in Seq(MemoryCalls) BY EmptySeq
  <2>3. PICK m : m = [here EXCEPT !.at = "unlock", !.copy = none] OBVIOUS
  <2>4. memory' = [memory EXCEPT ![t] = m]
    BY <2>1, <2>2, <2>3 DEF DumpIndex, Commit, MemoryAt
  <2>5. m \in MemoryRecords BY <2>1, <2>2, <2>3 DEF MemoryRecords, MemoryPlaces
  <2>6. /\ m.at = "unlock"
        /\ m.depth = memory[t].depth /\ m.op = memory[t].op /\ m.backend = memory[t].backend
        /\ m.value = memory[t].value
    BY <2>1, <2>2, <2>3 DEF MemoryRecords
  <2> QED BY <2>4, <2>5, <2>6 DEF MemoryBecomes
<1>2. /\ memory[t].at = "dump"
      /\ index' = [is |-> "whole", value |-> bus[ProcessOf[t]].value]
      /\ UNCHANGED <<lines, row, lockFile, bus, before>>
  BY DEF DumpIndex, ThreadMayLock, BusOf, LockFileFree, AlreadyHolds, Commit
<1>3. /\ m.depth \in Nat /\ memory[t].depth \in Nat
      /\ memory[t].op \in MemoryOps \cup {"failed"}
      /\ \A u \in MemoryCalls : memory'[u] = IF u = t THEN m ELSE memory[u]
      /\ \A u \in MemoryCalls : ProcessOf[u] \in Processes
      /\ NoValue \notin MemoryCalls \cup Processes
      /\ lockFile # NoValue => lockFile \in Processes
  BY <1>1, MemoryAssumption DEF MemoryBecomes, MemoryInv, MemoryTypes, MemoryRecords, Processes
<1>4. /\ serial' \in [MemoryCalls -> Nat] /\ serial'[t] > 0
      /\ \A u \in MemoryCalls : serial'[u] >= serial[u] /\ serial'[u] <= Cardinality(Served')
      /\ \A u \in MemoryCalls : u # t => serial'[u] = serial[u] /\ serial[u] < serial'[t]
  BY <1>1, CommitIs DEF DumpIndex, MemoryInv, SerialsCount
<1>5. /\ serial \in [MemoryCalls -> Nat] /\ serial[t] = 0
      /\ \A i \in DOMAIN lines : lines[i] \in MemoryCalls
      /\ row \in MemoryCalls \cup {NoValue} /\ index.value \in MemoryCalls \cup {NoValue}
      /\ \A p \in Processes : bus[p].value \in MemoryCalls \cup {NoValue}
      /\ \A u \in MemoryCalls : memory[u].value \in MemoryCalls \cup {NoValue}
           /\ before[u] \subseteq MemoryCalls
  BY <1>2, MemoryTyped DEF MemoryInv, SerialsCount
<1>6. \A u \in MemoryCalls : memory[u].at \in NeedsFile => u = t
  BY <1>2, OneWriter DEF MemoryInv, WritersHold, NeedsFile
<1>7. bus[ProcessOf[t]].value = t /\ index' = [is |-> "whole", value |-> t]
  BY <1>2 DEF MemoryInv, VectorsLoaded
<1>8. m.backend = "vector" BY <1>1, <1>2 DEF MemoryInv, CallsAsk, Asks
<1>9. MemoryTypes'
  <2>1. index' \in [is : {"whole", "torn"}, value : MemoryCalls \cup {NoValue}] BY <1>7
  <2> QED BY <1>1, <1>2, <1>3, <1>4, <2>1 DEF MemoryBecomes, MemoryInv, MemoryTypes
<1>10. CallsAsk'
  <2>1. ASSUME NEW u \in MemoryCalls, u # t PROVE Asks(memory[u])'
    BY <1>3, <2>1 DEF MemoryInv, CallsAsk, Asks
  <2>2. Asks(memory[t])' BY <1>1, <1>2, <1>3 DEF MemoryInv, CallsAsk, Asks, MemoryOps
  <2> QED BY <2>1, <2>2 DEF CallsAsk
<1>11. InsideLocks'
  BY <1>1, <1>2, <1>3, <1>4, <1>5, <1>6, <1>7, <1>8 DEF MemoryInv, InsideLocks, CallsAsk,
     Asks, BusesOwn
<1>12. BusesOwn'
  BY <1>1, <1>2, <1>3, <1>4, <1>5, <1>6, <1>7, <1>8 DEF MemoryInv, BusesOwn, InsideLocks
<1>13. FileHeld'
  BY <1>1, <1>2, <1>3, <1>4, <1>5, <1>6, <1>7, <1>8 DEF MemoryInv, FileHeld, BusesOwn
<1>14. WritersHold'
  BY <1>1, <1>2, <1>3, <1>4, <1>5, <1>6, <1>7, <1>8 DEF MemoryInv, WritersHold, AlreadyHolds,
     BusOf, NeedsFile, CallsAsk, Asks
<1>15. SerialsCount'
  BY <1>1, <1>2, <1>3, <1>4 DEF MemoryInv, SerialsCount, Wrote, CallsAsk, Asks, MemoryTypes
<1>16. LinesOrdered' BY <1>1, <1>2, <1>3, <1>4, <1>5, <1>6 DEF MemoryInv, LinesOrdered
<1>17. LinesKept'
  BY <1>1, <1>2, <1>3, <1>4, <1>5, <1>6, <1>7, <1>8 DEF MemoryInv, LinesKept, Wrote
<1>18. CopiesFresh'
  BY <1>1, <1>2, <1>3, <1>4, <1>5, <1>6 DEF MemoryInv, CopiesFresh, NeedsFile
<1>19. RowKept'
  BY <1>1, <1>2, <1>3, <1>4, <1>5, <1>6, <1>7, <1>8 DEF MemoryInv, RowKept, AsNew, Wrote
<1>20. IndexKept'
  BY <1>1, <1>2, <1>3, <1>4, <1>5, <1>6, <1>7, <1>8 DEF MemoryInv, IndexKept, AsNew, Wrote
<1>21. VectorsKept'
  <2>1. ASSUME NEW u \in MemoryCalls, Wrote(u)', (memory[u].backend = "vector")',
               bus[ProcessOf[u]].loaded', ~Dumping(ProcessOf[u])'
        PROVE  AsNew(bus[ProcessOf[u]].value, u)'
    <3>1. CASE ProcessOf[u] = ProcessOf[t]
      BY <1>1, <1>2, <1>3, <1>4, <1>5, <1>6, <1>7, <2>1, <3>1 DEF AsNew
    <3>2. CASE ProcessOf[u] # ProcessOf[t]
      <4>1. Wrote(u) /\ memory[u].backend = "vector" /\ bus[ProcessOf[u]].loaded
        BY <1>1, <1>2, <1>3, <1>4, <1>5, <1>6, <2>1, <3>2 DEF Wrote
      <4>2. ~Dumping(ProcessOf[u])
        BY <1>1, <1>2, <1>3, <1>4, <1>5, <1>6, <2>1, <3>2 DEF Dumping
      <4>3. AsNew(bus[ProcessOf[u]].value, u) BY <4>1, <4>2 DEF MemoryInv, VectorsKept
      <4> QED BY <1>1, <1>2, <1>3, <1>4, <1>5, <1>6, <3>2, <4>3 DEF AsNew
    <3> QED BY <3>1, <3>2
  <2> QED BY <2>1 DEF VectorsKept
<1>22. VectorsLoaded' BY <1>1, <1>2, <1>3, <1>4, <1>5, <1>6 DEF MemoryInv, VectorsLoaded
<1>23. BeforeWritten'
  BY <1>1, <1>2, <1>3, <1>4, <1>5, <1>6, <1>7, <1>8 DEF MemoryInv, BeforeWritten, Written
<1>24. ReadsKept'
  <2>1. ASSUME NEW u \in MemoryCalls, (memory[u].at \in {"unlock", "done"})',
               (memory[u].op = "read")',
               (memory[u].backend \in Backends)', NEW w \in before[u]'
        PROVE  NewerThan(u, w)'
    <3>1. u # t
      BY <1>1, <1>2, <1>3, <1>4, <1>5, <1>6, <2>1 DEF MemoryInv, CallsAsk, Asks
    <3>2. w \in before[u] /\ w \in Written /\ w # t
      BY <1>1, <1>2, <1>3, <1>4, <1>5, <1>6, <2>1 DEF MemoryInv, BeforeWritten, Written
    <3>3. NewerThan(u, w)
      BY <1>1, <1>2, <1>3, <1>4, <1>5, <1>6, <2>1, <3>1, <3>2 DEF MemoryInv, ReadsKept
    <3> QED BY <1>1, <1>2, <1>3, <1>4, <1>5, <1>6, <3>1, <3>2, <3>3 DEF NewerThan
  <2> QED BY <2>1 DEF ReadsKept
<1> QED
  BY <1>9, <1>10, <1>11, <1>12, <1>13, <1>14, <1>15, <1>16, <1>17, <1>18, <1>19, <1>20, <1>21,
     <1>22, <1>23, <1>24 DEF MemoryInv

\* The two ways GetBackend ends.
NoBackend(t) ==
    /\ memory[t].at = "backend"
    /\ memory' = [memory EXCEPT ![t].at = "unlock", ![t].op = "failed"]
    /\ UNCHANGED <<lines, row, index, lockFile, bus, serial, before>>

FindBackend(t) ==
    /\ memory[t].at = "backend" /\ memory[t].backend \in Backends
    /\ memory[t].backend = "vector" => bus[ProcessOf[t]].loaded \/ index.is = "whole"
    /\ bus' = IF memory[t].backend = "vector" /\ ~bus[ProcessOf[t]].loaded
              THEN [bus EXCEPT ![ProcessOf[t]].loaded = TRUE,
              ![ProcessOf[t]].value = index.value]
              ELSE bus
    /\ memory' = [memory EXCEPT ![t].at = IF memory[t].op = "read" THEN "read" ELSE "write"]
    /\ UNCHANGED <<lines, row, index, lockFile, serial, before>>

LEMMA NoBackendKeeps ==
    ASSUME MemoryInv, NEW t \in MemoryCalls, NoBackend(t)
    PROVE  MemoryInv'
<1>1. PICK m : /\ MemoryBecomes(t, m)
               /\ m.at = "unlock" /\ m.op = "failed"
               /\ m.depth = memory[t].depth /\ m.backend = memory[t].backend
               /\ m.copy = memory[t].copy /\ m.value = memory[t].value
  <2>1. PICK here : here = memory[t] /\ here \in MemoryRecords
    BY DEF MemoryInv, MemoryTypes
  <2>2. PICK m : m = [here EXCEPT !.at = "unlock", !.op = "failed"] OBVIOUS
  <2>3. memory' = [memory EXCEPT ![t] = m] BY <2>1, <2>2 DEF NoBackend, MemoryAt
  <2>4. m \in MemoryRecords BY <2>1, <2>2 DEF MemoryRecords, MemoryPlaces
  <2>5. /\ m.at = "unlock" /\ m.op = "failed"
        /\ m.depth = memory[t].depth /\ m.backend = memory[t].backend
        /\ m.copy = memory[t].copy /\ m.value = memory[t].value
    BY <2>1, <2>2 DEF MemoryRecords
  <2> QED BY <2>3, <2>4, <2>5 DEF MemoryBecomes
<1>2. /\ memory[t].at = "backend"
      /\ UNCHANGED <<lines, row, index, lockFile, bus, serial, before>>
  BY DEF NoBackend, ThreadMayLock, BusOf, LockFileFree, AlreadyHolds, Commit
<1>3. /\ m.depth \in Nat /\ memory[t].depth \in Nat
      /\ memory[t].op \in MemoryOps \cup {"failed"}
      /\ \A u \in MemoryCalls : memory'[u] = IF u = t THEN m ELSE memory[u]
      /\ \A u \in MemoryCalls : ProcessOf[u] \in Processes
      /\ NoValue \notin MemoryCalls \cup Processes
      /\ lockFile # NoValue => lockFile \in Processes
  BY <1>1, MemoryAssumption DEF MemoryBecomes, MemoryInv, MemoryTypes, MemoryRecords, Processes
<1>4. MemoryTypes'
  BY <1>1, <1>2, <1>3 DEF MemoryBecomes, BusBecomes, MemoryInv, MemoryTypes
<1>5. CallsAsk'
  <2>1. ASSUME NEW u \in MemoryCalls, u # t PROVE Asks(memory[u])'
    BY <1>3, <2>1 DEF MemoryInv, CallsAsk, Asks
  <2>2. Asks(memory[t])' BY <1>1, <1>2, <1>3 DEF MemoryInv, CallsAsk, Asks, MemoryOps
  <2> QED BY <2>1, <2>2 DEF CallsAsk
<1>6. InsideLocks'
  BY <1>1, <1>2, <1>3 DEF MemoryInv, InsideLocks, CallsAsk, Asks, BusesOwn
<1>7. BusesOwn' BY <1>1, <1>2, <1>3 DEF MemoryInv, BusesOwn, InsideLocks
<1>8. FileHeld' BY <1>1, <1>2, <1>3 DEF MemoryInv, FileHeld, BusesOwn
<1>9. WritersHold'
  BY <1>1, <1>2, <1>3 DEF MemoryInv, WritersHold, AlreadyHolds, BusOf, NeedsFile, CallsAsk, Asks
<1>10. SerialsCount'
  <2>1. Served' = Served BY <1>2 DEF Served
  <2> QED BY <1>1, <1>2, <1>3, <2>1 DEF MemoryInv, SerialsCount, Wrote, CallsAsk, Asks
<1>11. LinesOrdered' BY <1>1, <1>2, <1>3 DEF MemoryInv, LinesOrdered
<1>12. LinesKept' BY <1>1, <1>2, <1>3 DEF MemoryInv, LinesKept, Wrote, CallsAsk, Asks
<1>13. CopiesFresh' BY <1>1, <1>2, <1>3 DEF MemoryInv, CopiesFresh
<1>14. RowKept' BY <1>1, <1>2, <1>3 DEF MemoryInv, RowKept, AsNew, Wrote, CallsAsk, Asks
<1>15. IndexKept'
  BY <1>1, <1>2, <1>3 DEF MemoryInv, IndexKept, AsNew, Wrote, CallsAsk, Asks
<1>16. VectorsKept'
  BY <1>1, <1>2, <1>3 DEF MemoryInv, VectorsKept, AsNew, Wrote, CallsAsk, Asks, Dumping
<1>17. VectorsLoaded' BY <1>1, <1>2, <1>3 DEF MemoryInv, VectorsLoaded
<1>18. BeforeWritten' BY <1>1, <1>2, <1>3 DEF MemoryInv, BeforeWritten, Written
<1>19. ReadsKept'
  BY <1>1, <1>2, <1>3 DEF MemoryInv, ReadsKept, BeforeWritten, NewerThan, Written
<1> QED
  BY <1>4, <1>5, <1>6, <1>7, <1>8, <1>9, <1>10, <1>11, <1>12, <1>13, <1>14, <1>15, <1>16,
     <1>17, <1>18, <1>19 DEF MemoryInv

LEMMA FindBackendKeeps ==
    ASSUME MemoryInv, NEW t \in MemoryCalls, FindBackend(t)
    PROVE  MemoryInv'
<1>1. PICK m : /\ MemoryBecomes(t, m)
               /\ m.at = IF memory[t].op = "read" THEN "read" ELSE "write"
               /\ m.depth = memory[t].depth /\ m.op = memory[t].op
               /\ m.backend = memory[t].backend /\ m.copy = memory[t].copy
               /\ m.value = memory[t].value
  <2>1. PICK here : here = memory[t] /\ here \in MemoryRecords
    BY DEF MemoryInv, MemoryTypes
  <2>2. PICK a : a = (IF here.op = "read" THEN "read" ELSE "write") /\ a \in MemoryPlaces
    BY DEF MemoryPlaces
  <2>3. PICK m : m = [here EXCEPT !.at = a] OBVIOUS
  <2>4. memory' = [memory EXCEPT ![t] = m]
    <3>1. memory' = [memory EXCEPT ![t].at = a] BY <2>1, <2>2, <2>1 DEF FindBackend
    <3> QED BY <2>1, <2>3, <3>1 DEF MemoryRecords, MemoryInv, MemoryTypes
  <2>5. m \in MemoryRecords BY <2>1, <2>2, <2>3 DEF MemoryRecords, MemoryPlaces
  <2>6. /\ m.at = IF memory[t].op = "read" THEN "read" ELSE "write"
        /\ m.depth = memory[t].depth /\ m.op = memory[t].op /\ m.backend = memory[t].backend
        /\ m.copy = memory[t].copy /\ m.value = memory[t].value
    BY <2>1, <2>2, <2>3 DEF MemoryRecords
  <2> QED BY <2>4, <2>5, <2>6 DEF MemoryBecomes
<1>2. /\ memory[t].at = "backend" /\ memory[t].backend \in Backends
      /\ memory[t].backend = "vector" => bus[ProcessOf[t]].loaded \/ index.is = "whole"
      /\ UNCHANGED <<lines, row, index, lockFile, serial, before>>
  BY DEF FindBackend, ThreadMayLock, BusOf, LockFileFree, AlreadyHolds, Commit
<1>3. /\ m.depth \in Nat /\ memory[t].depth \in Nat
      /\ memory[t].op \in MemoryOps \cup {"failed"}
      /\ \A u \in MemoryCalls : memory'[u] = IF u = t THEN m ELSE memory[u]
      /\ \A u \in MemoryCalls : ProcessOf[u] \in Processes
      /\ NoValue \notin MemoryCalls \cup Processes
      /\ lockFile # NoValue => lockFile \in Processes
  BY <1>1, MemoryAssumption DEF MemoryBecomes, MemoryInv, MemoryTypes, MemoryRecords, Processes
<1>4. PICK b : /\ BusBecomes(t, b)
               /\ IF bus[ProcessOf[t]].loaded \/ memory[t].backend # "vector"
                  THEN b.loaded = bus[ProcessOf[t]].loaded /\ b.value = bus[ProcessOf[t]].value
                  ELSE b.loaded = TRUE /\ b.value = index.value
               /\ b.lock = bus[ProcessOf[t]].lock /\ b.holder = bus[ProcessOf[t]].holder
  <2>1. PICK here : here = bus[ProcessOf[t]] /\ here \in BusRecords
    BY <1>3 DEF MemoryInv, MemoryTypes
  <2>2. PICK b : b = IF here.loaded \/ memory[t].backend # "vector" THEN here
                     ELSE [here EXCEPT !.loaded = TRUE, !.value = index.value]
    OBVIOUS
  <2>3. bus' = [bus EXCEPT ![ProcessOf[t]] = b]
    BY <1>3, <2>1, <2>2 DEF FindBackend, BusRecords, MemoryInv, MemoryTypes
  <2>4. b \in BusRecords BY <2>1, <2>2 DEF BusRecords, MemoryInv, MemoryTypes
  <2>5. /\ IF bus[ProcessOf[t]].loaded \/ memory[t].backend # "vector"
                  THEN b.loaded = bus[ProcessOf[t]].loaded /\ b.value = bus[ProcessOf[t]].value
                  ELSE b.loaded = TRUE /\ b.value = index.value
        /\ b.lock = bus[ProcessOf[t]].lock /\ b.holder = bus[ProcessOf[t]].holder
    BY <2>1, <2>2, <1>2 DEF BusRecords
  <2> QED BY <2>3, <2>4, <2>5 DEF BusBecomes
<1>5. \A p \in Processes : bus'[p] = IF p = ProcessOf[t] THEN b ELSE bus[p]
  BY <1>3, <1>4 DEF BusBecomes, MemoryInv, MemoryTypes
<1>6. MemoryTypes'
  BY <1>1, <1>2, <1>3, <1>4, <1>5 DEF MemoryBecomes, BusBecomes, MemoryInv, MemoryTypes
<1>7. CallsAsk'
  <2>1. ASSUME NEW u \in MemoryCalls, u # t PROVE Asks(memory[u])'
    BY <1>3, <2>1 DEF MemoryInv, CallsAsk, Asks
  <2>2. Asks(memory[t])' BY <1>1, <1>2, <1>3 DEF MemoryInv, CallsAsk, Asks, MemoryOps
  <2> QED BY <2>1, <2>2 DEF CallsAsk
<1>8. InsideLocks'
  BY <1>1, <1>2, <1>3, <1>4, <1>5 DEF MemoryInv, InsideLocks, CallsAsk, Asks, BusesOwn
<1>9. BusesOwn' BY <1>1, <1>2, <1>3, <1>4, <1>5 DEF MemoryInv, BusesOwn, InsideLocks
<1>10. FileHeld' BY <1>1, <1>2, <1>3, <1>4, <1>5 DEF MemoryInv, FileHeld, BusesOwn
<1>11. WritersHold'
  BY <1>1, <1>2, <1>3, <1>4, <1>5 DEF MemoryInv, WritersHold, AlreadyHolds, BusOf, NeedsFile,
     CallsAsk, Asks
<1>12. SerialsCount'
  <2>1. Served' = Served BY <1>2 DEF Served
  <2> QED BY <1>1, <1>2, <1>3, <2>1 DEF MemoryInv, SerialsCount, Wrote, CallsAsk, Asks
<1>13. LinesOrdered' BY <1>1, <1>2, <1>3, <1>4, <1>5 DEF MemoryInv, LinesOrdered
<1>14. LinesKept'
  BY <1>1, <1>2, <1>3, <1>4, <1>5 DEF MemoryInv, LinesKept, Wrote, CallsAsk, Asks
<1>15. CopiesFresh' BY <1>1, <1>2, <1>3, <1>4, <1>5 DEF MemoryInv, CopiesFresh
<1>16. RowKept'
  BY <1>1, <1>2, <1>3, <1>4, <1>5 DEF MemoryInv, RowKept, AsNew, Wrote, CallsAsk, Asks
<1>17. IndexKept'
  BY <1>1, <1>2, <1>3, <1>4, <1>5 DEF MemoryInv, IndexKept, AsNew, Wrote, CallsAsk, Asks
<1>18. VectorsKept'
  <2>1. ASSUME NEW u \in MemoryCalls, Wrote(u)', (memory[u].backend = "vector")',
               bus[ProcessOf[u]].loaded', ~Dumping(ProcessOf[u])'
        PROVE  AsNew(bus[ProcessOf[u]].value, u)'
    <3>1. u # t /\ Wrote(u) /\ memory[u].backend = "vector"
      BY <1>1, <1>2, <1>3, <2>1 DEF Wrote
    <3>2. ~Dumping(ProcessOf[u]) BY <1>1, <1>2, <1>3, <2>1 DEF Dumping
    <3>3. CASE bus'[ProcessOf[u]].loaded = bus[ProcessOf[u]].loaded
                 /\ bus'[ProcessOf[u]].value = bus[ProcessOf[u]].value
      BY <1>2, <2>1, <3>1, <3>2, <3>3 DEF MemoryInv, VectorsKept, AsNew
    <3>4. CASE ProcessOf[u] = ProcessOf[t] /\ b.value = index.value /\ index.is = "whole"
      <4>1. AsNew(index.value, u) BY <3>1, <3>4 DEF MemoryInv, IndexKept
      <4>2. bus'[ProcessOf[u]].value = index.value BY <1>3, <1>5, <3>4
      <4> QED BY <1>2, <4>1, <4>2 DEF AsNew
    <3> QED BY <1>2, <1>3, <1>4, <1>5, <3>3, <3>4
  <2> QED BY <2>1 DEF VectorsKept
<1>19. VectorsLoaded'
  <2>1. ASSUME NEW u \in MemoryCalls, u # t
        PROVE  /\ memory[u].at = "dump" => bus'[ProcessOf[u]].value = u
               /\ memory[u].at \in {"read", "write", "dump"} /\ memory[u].backend = "vector" =>
                    bus'[ProcessOf[u]].loaded
    <3>1. memory[u].at = "dump" => memory[u].backend = "vector"
      BY DEF MemoryInv, CallsAsk, Asks
    <3>2. CASE bus'[ProcessOf[u]].loaded = bus[ProcessOf[u]].loaded
                 /\ bus'[ProcessOf[u]].value = bus[ProcessOf[u]].value
      BY <3>2 DEF MemoryInv, VectorsLoaded
    <3>3. CASE ~bus[ProcessOf[u]].loaded /\ bus'[ProcessOf[u]].loaded
      BY <3>1, <3>3 DEF MemoryInv, VectorsLoaded
    <3> QED BY <1>2, <1>3, <1>4, <1>5, <3>2, <3>3 DEF MemoryInv, MemoryTypes, BusRecords
  <2>2. /\ m.at \in {"read", "write"}
        /\ m.backend = "vector" => b.loaded
    BY <1>1, <1>2, <1>4
  <2> QED BY <1>3, <1>5, <2>1, <2>2 DEF VectorsLoaded
<1>20. BeforeWritten'
  BY <1>1, <1>2, <1>3, <1>4, <1>5 DEF MemoryInv, BeforeWritten, Written
<1>21. ReadsKept'
  BY <1>1, <1>2, <1>3, <1>4, <1>5 DEF MemoryInv, ReadsKept, BeforeWritten, NewerThan, Written
<1> QED
  BY <1>6, <1>7, <1>8, <1>9, <1>10, <1>11, <1>12, <1>13, <1>14, <1>15, <1>16, <1>17, <1>18,
     <1>19, <1>20, <1>21 DEF MemoryInv

LEMMA GetBackendKeeps ==
    ASSUME MemoryInv, NEW t \in MemoryCalls, GetBackend(t)
    PROVE  MemoryInv'
BY NoBackendKeeps, FindBackendKeeps DEF GetBackend, MemoryAt, NoBackend, FindBackend

LEMMA ProcessDiesKeeps ==
    ASSUME MemoryInv, NEW p \in Processes, ProcessDies(p)
    PROVE  MemoryInv'
<1>1. PICK dead \in MemoryRecords :
        /\ dead = [NewMemoryCall EXCEPT !.at = "dead"]
        /\ dead.at = "dead" /\ dead.depth = 0 /\ dead.op = "read" /\ dead.value = NoValue
  <2>1. PICK dead : dead = [NewMemoryCall EXCEPT !.at = "dead"] OBVIOUS
  <2>2. PICK none : none = <<>> /\ none \in Seq(MemoryCalls) BY EmptySeq
  <2>3. dead = [at |-> "dead", op |-> "read", backend |-> "jsonl", depth |-> 0,
                copy |-> none, value |-> NoValue]
    BY <2>1, <2>2 DEF NewMemoryCall
  <2> QED BY <2>1, <2>2, <2>3 DEF MemoryRecords, MemoryPlaces, MemoryOps, Backends
<1>2. /\ memory' = [u \in MemoryCalls |->
           IF ProcessOf[u] = p /\ memory[u].at \notin {"new", "done"} THEN dead ELSE memory[u]]
      /\ lockFile' = IF lockFile = p THEN NoValue ELSE lockFile
      /\ UNCHANGED <<lines, row, index, serial, before>>
  BY <1>1 DEF ProcessDies
<1>3. /\ \A u \in MemoryCalls :
           memory'[u] = IF ProcessOf[u] = p /\ memory[u].at \notin {"new", "done"}
                        THEN dead ELSE memory[u]
      /\ \A u \in MemoryCalls : memory'[u] = memory[u] \/ memory'[u] = dead
      /\ \A u \in MemoryCalls : ProcessOf[u] \in Processes
      /\ NoValue \notin MemoryCalls \cup Processes
      /\ lockFile # NoValue => lockFile \in Processes
  BY <1>2, MemoryAssumption DEF MemoryInv, MemoryTypes, Processes
<1>4. PICK fresh \in BusRecords :
        /\ fresh = NewBus /\ ~fresh.loaded
        /\ fresh.lock = NoValue /\ fresh.holder = NoValue /\ fresh.value = NoValue
  <2>1. /\ NewBus \in BusRecords /\ ~NewBus.loaded
        /\ NewBus.lock = NoValue /\ NewBus.holder = NoValue /\ NewBus.value = NoValue
    BY DEF NewBus, BusRecords
  <2> QED BY <2>1
<1>5. \A q \in Processes : bus'[q] = IF q = p THEN fresh ELSE bus[q]
  BY <1>4 DEF ProcessDies, MemoryInv, MemoryTypes
<1>6. MemoryTypes'
  <2>1. memory' \in [MemoryCalls -> MemoryRecords]
    BY <1>1, <1>2 DEF MemoryInv, MemoryTypes
  <2>2. bus' \in [Processes -> BusRecords]
    BY <1>4 DEF ProcessDies, MemoryInv, MemoryTypes
  <2> QED BY <1>2, <2>1, <2>2 DEF MemoryInv, MemoryTypes
<1>7. CallsAsk'
  <2>1. ASSUME NEW u \in MemoryCalls PROVE Asks(memory[u])'
    <3>1. CASE memory'[u] = memory[u] BY <3>1 DEF MemoryInv, CallsAsk, Asks
    <3>2. CASE memory'[u] = dead BY <1>1, <3>2 DEF Asks
    <3> QED BY <1>3, <3>1, <3>2
  <2> QED BY <2>1 DEF CallsAsk
<1>8. \A u \in MemoryCalls : ProcessOf[u] = p =>
        memory'[u].at \in {"new", "done", "dead"} /\ ~(memory'[u].depth > 0)
  <2>1. ASSUME NEW u \in MemoryCalls, memory[u].at \in {"new",
               "done"} PROVE ~(memory[u].depth > 0)
    BY <2>1 DEF MemoryInv, CallsAsk, Asks
  <2>2. ASSUME NEW u \in MemoryCalls, ProcessOf[u] = p
        PROVE  memory'[u].at \in {"new", "done", "dead"} /\ ~(memory'[u].depth > 0)
    <3>1. CASE memory[u].at \in {"new", "done"} BY <1>3, <2>1, <3>1
    <3>2. CASE memory[u].at \notin {"new", "done"}
      <4>1. memory'[u] = dead BY <1>3, <2>2, <3>2
      <4> QED BY <1>1, <4>1
    <3> QED BY <3>1, <3>2
  <2> QED BY <2>2
<1>9. InsideLocks' BY <1>3, <1>4, <1>5, <1>8 DEF MemoryInv, InsideLocks
<1>10. BusesOwn' BY <1>2, <1>3, <1>4, <1>5 DEF MemoryInv, BusesOwn
<1>11. FileHeld' BY <1>2, <1>3, <1>4, <1>5 DEF MemoryInv, FileHeld
<1>12. WritersHold'
  BY <1>1, <1>3, <1>4, <1>5, <1>8 DEF MemoryInv, WritersHold, AlreadyHolds, BusOf, NeedsFile
<1>13. SerialsCount'
  <2>1. Served' = Served BY <1>2 DEF Served
  <2> QED BY <1>1, <1>2, <1>3, <2>1 DEF MemoryInv, SerialsCount, Wrote
<1>14. LinesOrdered' BY <1>2 DEF MemoryInv, LinesOrdered
<1>15. LinesKept' /\ CopiesFresh'
  BY <1>1, <1>2, <1>3 DEF MemoryInv, LinesKept, CopiesFresh, Wrote
<1>16. RowKept' /\ IndexKept'
  BY <1>1, <1>2, <1>3 DEF MemoryInv, RowKept, IndexKept, AsNew, Wrote
<1>17. VectorsKept'
  <2>1. ASSUME NEW u \in MemoryCalls, Wrote(u)', (memory[u].backend = "vector")',
               bus[ProcessOf[u]].loaded', ~Dumping(ProcessOf[u])'
        PROVE  AsNew(bus[ProcessOf[u]].value, u)'
    <3>1. ProcessOf[u] # p /\ memory'[u] = memory[u] /\ bus'[ProcessOf[u]] = bus[ProcessOf[u]]
      BY <1>3, <1>4, <1>5, <2>1
    <3>2. Wrote(u) /\ memory[u].backend = "vector" /\ bus[ProcessOf[u]].loaded
      BY <2>1, <3>1 DEF Wrote
    <3>3. ~Dumping(ProcessOf[u]) BY <1>3, <2>1, <3>1 DEF Dumping
    <3> QED BY <1>2, <3>1, <3>2, <3>3 DEF MemoryInv, VectorsKept, AsNew
  <2> QED BY <2>1 DEF VectorsKept
<1>18. VectorsLoaded' BY <1>1, <1>3, <1>4, <1>5, <1>8 DEF MemoryInv, VectorsLoaded
<1>19. BeforeWritten' BY <1>2, <1>3 DEF MemoryInv, BeforeWritten, Written
<1>20. ReadsKept'
  <2>1. ASSUME NEW u \in MemoryCalls, (memory[u].at \in {"unlock", "done"})',
               (memory[u].op = "read")',
               (memory[u].backend \in Backends)', NEW w \in before[u]'
        PROVE  NewerThan(u, w)'
    <3>1. w \in before[u] /\ w \in Written BY <1>2, <2>1 DEF MemoryInv, BeforeWritten
    <3>2. memory'[u] = memory[u] /\ memory'[w] = memory[w]
      BY <1>1, <1>3, <2>1, <3>1 DEF Written
    <3>3. NewerThan(u, w) BY <2>1, <3>1, <3>2 DEF MemoryInv, ReadsKept
    <3> QED BY <1>2, <3>2, <3>3 DEF NewerThan
  <2> QED BY <2>1 DEF ReadsKept
<1> QED
  BY <1>6, <1>7, <1>9, <1>10, <1>11, <1>12, <1>13, <1>14, <1>15, <1>16, <1>17, <1>18, <1>19,
     <1>20 DEF MemoryInv

LEMMA MemoryStarts == MemoryInit => MemoryInv
<1> SUFFICES ASSUME MemoryInit PROVE MemoryInv OBVIOUS
<1>1. <<>> \in Seq(MemoryCalls) BY EmptySeq
<1>2. NewMemoryCall \in MemoryRecords
  BY <1>1 DEF NewMemoryCall, MemoryRecords, MemoryPlaces, MemoryOps, Backends
<1>3. /\ NewMemoryCall.at = "new" /\ NewMemoryCall.depth = 0 /\ NewMemoryCall.op = "read"
      /\ NewMemoryCall.value = NoValue
  BY DEF NewMemoryCall
<1>4. NewBus \in BusRecords /\ NewBus.lock = NoValue /\ NewBus.holder = NoValue /\ ~NewBus.loaded
  BY DEF NewBus, BusRecords
<1>5. /\ \A t \in MemoryCalls : memory[t] = NewMemoryCall /\ serial[t] = 0 /\ before[t] = {}
      /\ \A p \in Processes : bus[p] = NewBus
      /\ lines = <<>> /\ lockFile = NoValue /\ row = NoValue
      /\ NoValue \notin MemoryCalls /\ \A t \in MemoryCalls : ProcessOf[t] \in Processes
  BY MemoryAssumption DEF MemoryInit, Processes
<1>6. MemoryTypes BY <1>1, <1>2, <1>4 DEF MemoryInit, MemoryTypes
<1>7. CallsAsk BY <1>3, <1>5 DEF CallsAsk, Asks
<1>8. InsideLocks /\ BusesOwn /\ FileHeld
  BY <1>3, <1>4, <1>5 DEF InsideLocks, BusesOwn, FileHeld
<1>9. WritersHold BY <1>3, <1>5 DEF WritersHold, NeedsFile
<1>10. SerialsCount
  <2>1. Served = {} BY <1>5 DEF Served
  <2>2. Cardinality(Served) = 0 BY <2>1, FS_EmptySet
  <2> QED BY <1>3, <1>5, <2>2 DEF SerialsCount, Wrote
<1>11. \A t \in MemoryCalls : ~Wrote(t) BY <1>3, <1>5 DEF Wrote
<1>12. LinesOrdered /\ LinesKept /\ CopiesFresh
  BY <1>3, <1>5, <1>11 DEF LinesOrdered, LinesKept, CopiesFresh
<1>13. RowKept /\ IndexKept /\ VectorsKept BY <1>11 DEF RowKept, IndexKept, VectorsKept
<1>14. VectorsLoaded /\ BeforeWritten /\ ReadsKept
  BY <1>3, <1>5 DEF VectorsLoaded, BeforeWritten, ReadsKept
<1> QED BY <1>6, <1>7, <1>8, <1>9, <1>10, <1>12, <1>13, <1>14 DEF MemoryInv

LEMMA MemoryMoves == MemoryInv /\ [MemoryNext]_memoryVars => MemoryInv'
<1> SUFFICES ASSUME MemoryInv, [MemoryNext]_memoryVars PROVE MemoryInv' OBVIOUS
<1>1. ASSUME NEW t \in MemoryCalls, NEW r \in RequestsOf[t], StartMemory(t, r.op, r.backend)
      PROVE  MemoryInv'
  <2>1. r.op \in MemoryOps /\ r.backend \in Backends \cup {"global"} BY MemoryAssumption
  <2> QED BY <1>1, <2>1, StartMemoryKeeps
<1>2. ASSUME NEW t \in MemoryCalls, MemoryStep(t) PROVE MemoryInv'
  BY <1>2, LockThreadKeeps, LockTheFileKeeps, LockFileRefusedKeeps, UnlockKeeps, GetBackendKeeps, ReadValueKeeps,
     CopyLinesKeeps, ReplaceFileKeeps, UpsertKeeps, RewriteIndexKeeps, DumpIndexKeeps
     DEF MemoryStep
<1>3. CASE UNCHANGED memoryVars
  <2>1. Served' = Served BY <1>3 DEF memoryVars, Served
  <2>2. MemoryTypes' /\ CallsAsk' /\ InsideLocks' /\ BusesOwn' /\ FileHeld' /\ WritersHold'
    BY <1>3 DEF memoryVars, MemoryInv, MemoryTypes, CallsAsk, Asks, InsideLocks, BusesOwn,
       FileHeld, WritersHold, AlreadyHolds, BusOf
  <2>3. SerialsCount' /\ LinesOrdered' /\ LinesKept' /\ CopiesFresh' /\ RowKept'
    BY <1>3, <2>1 DEF memoryVars, MemoryInv, SerialsCount, LinesOrdered, LinesKept, CopiesFresh,
       RowKept, Wrote, AsNew
  <2>4. IndexKept' /\ VectorsKept' /\ VectorsLoaded'
    BY <1>3 DEF memoryVars, MemoryInv, IndexKept, VectorsKept, VectorsLoaded, Wrote, AsNew,
       Dumping
  <2>5. BeforeWritten' /\ ReadsKept'
    BY <1>3 DEF memoryVars, MemoryInv, BeforeWritten, ReadsKept, Written, NewerThan
  <2> QED BY <2>2, <2>3, <2>4, <2>5 DEF MemoryInv
<1> QED BY <1>1, <1>2, <1>3, ProcessDiesKeeps DEF MemoryNext

\* Who has a lock and is not at another goes on; who waits does so for one of them.
LEMMA NobodyIsStuck == MemoryInv => MemoryNeverStuck
<1> SUFFICES ASSUME MemoryInv, NEW t \in MemoryCalls,
                    memory[t].at \notin {"new", "done", "dead"}, ~Forsaken(ProcessOf[t])
             PROVE  \E u \in MemoryCalls : CanStep(u)
  BY DEF MemoryNeverStuck
<1>1. \A u \in MemoryCalls : ProcessOf[u] \in Processes /\ memory[u].at \in MemoryPlaces
  BY DEF Processes, MemoryInv, MemoryTypes, MemoryRecords
<1>2. \A u \in MemoryCalls :
        memory[u].at \notin {"new", "done", "dead", "lock", "lockfile", "refused"} => CanStep(u)
  BY <1>1 DEF MemoryPlaces, CanStep, MemoryInv, CallsAsk, Asks
<1>3. \A p \in Processes :
        /\ bus[p].lock \in MemoryCalls \cup {NoValue}
        /\ bus[p].holder \in MemoryCalls \cup {NoValue}
        /\ bus[p].lock # NoValue => ProcessOf[bus[p].lock] = p
  BY DEF MemoryInv, MemoryTypes, BusRecords, BusesOwn
<1>4. ASSUME NEW u \in MemoryCalls,
             bus[ProcessOf[u]].lock = u PROVE memory[u].at \notin {"new", "done", "dead"}
  <2>1. memory[u].depth > 0 BY <1>4 DEF MemoryInv, InsideLocks
  <2> QED BY <2>1 DEF MemoryInv, CallsAsk, Asks
<1>5. ASSUME NEW u \in MemoryCalls, bus[ProcessOf[u]].lock = u,
             memory[u].at = "lock" PROVE CanStep(u)
  BY <1>5 DEF CanStep, ThreadMayLock, BusOf
\* The lock file is with a call that can go on.
<1>6. ASSUME NEW u \in MemoryCalls,
             memory[u].at = "lockfile" PROVE \E v \in MemoryCalls : CanStep(v)
  <2>1. CASE lockFile = NoValue BY <1>6, <2>1 DEF CanStep, LockFileFree
  <2>2. CASE lockFile # NoValue
    <3>1. PICK p \in Processes : p = lockFile BY <2>2 DEF MemoryInv, MemoryTypes
    <3>2. PICK v \in MemoryCalls : v = bus[p].holder /\ v = bus[p].lock
      BY <1>3, <2>2, <3>1 DEF MemoryInv, FileHeld, BusesOwn
    <3>3. ProcessOf[v] = p BY <1>3, <3>2, MemoryAssumption
    <3>4. CASE memory[v].at = "lockfile"
      BY <3>2, <3>3, <3>4 DEF CanStep, AlreadyHolds, BusOf
    <3>5. CASE memory[v].at # "lockfile"
      <4>1. memory[v].at # "refused"
        BY <3>2, <3>3 DEF MemoryInv, WritersHold, AlreadyHolds, BusOf
      <4> QED BY <4>1, <1>2, <1>4, <1>5, <3>2, <3>3, <3>5
    <3> QED BY <3>4, <3>5
  <2> QED BY <2>1, <2>2
<1>7. CASE memory[t].at = "lock"
  <2>1. CASE bus[ProcessOf[t]].lock = NoValue
    BY <1>7, <2>1 DEF CanStep, ThreadMayLock, BusOf
  <2>2. CASE bus[ProcessOf[t]].lock # NoValue
    <3>1. PICK u \in MemoryCalls : u = bus[ProcessOf[t]].lock BY <1>1, <1>3, <2>2
    <3>2. bus[ProcessOf[u]].lock = u BY <1>1, <1>3, <2>2, <3>1
    <3>3. memory[u].at # "refused" BY <2>2, <3>1 DEF Forsaken
    <3> QED BY <1>2, <1>4, <1>5, <1>6, <3>2, <3>3
  <2> QED BY <2>1, <2>2
\* Who was refused has the lock of its bus, which is then forsaken.
<1>8. memory[t].at # "refused"
  <2>1. SUFFICES ASSUME memory[t].at = "refused" PROVE FALSE OBVIOUS
  <2>2. bus[ProcessOf[t]].lock = t
    BY <1>1, <2>1 DEF MemoryInv, CallsAsk, Asks, InsideLocks
  <2> QED BY <2>1, <2>2, MemoryAssumption DEF Forsaken
<1> QED BY <1>2, <1>6, <1>7, <1>8

LEMMA MemoryHolds == MemoryInv => MemoryServes
<1> SUFFICES ASSUME MemoryInv PROVE MemoryServes OBVIOUS
<1>1. \A t \in Written : Wrote(t) /\ t \in MemoryCalls BY DEF Written, Wrote
<1>2. MemoryKept BY <1>1 DEF MemoryInv, LinesOrdered, LinesKept, ReadsKept, MemoryKept
<1> QED BY <1>2, NobodyIsStuck DEF MemoryServes

----------------------------------------------------------------------------
(* SecretVault.                                                            *)
VaultRecords ==
    [at : {"idle", "loading", "opening", "salting", "making", "filling", "saving", "writing",
           "done", "refused"},
     op : {"set", "get", "delete"}, ref : Refs \cup {NoSecret}, data : Secrets,
     key : VaultKeys \cup {NoSecret}]

VaultTypes ==
    /\ vcall \in [VaultCalls -> VaultRecords]
    /\ vault \in {NoSecret, TornVault} \cup [key : VaultKeys, data : Secrets]
    /\ salt \in VaultCalls \cup {NoSecret, "empty"}
    /\ kept \in Secrets
    /\ unsalted \subseteq VaultCalls
    /\ overlapped \in BOOLEAN /\ diedWriting \in BOOLEAN

Keyed == {"saving", "writing"}

SavePlaces == {"salting", "making", "filling", "saving", "writing"}

Two == \E c, d \in unsalted : c # d

\* A salt was emptied by a call that missed it, which is past making it.
SaltHasMaker ==
    /\ \A c \in VaultCalls : vcall[c].at \in {"making", "filling"} => c \in unsalted
    /\ \A c \in unsalted : vcall[c].at \notin {"idle", "loading", "opening", "salting"}
    /\ salt # NoSecret => \E d \in unsalted : vcall[d].at # "making"

\* Without a salt there is no vault.
SaltComesFirst ==
    salt = NoSecret =>
        vault = NoSecret /\ \A c \in VaultCalls : vcall[c].at \notin {"filling", "saving",
        "writing"}

\* One call at most missed the salt: while it fills it there is no vault, and
\* every key is of the salt it made.
OneSalt ==
    \/ Two
    \/ /\ \A c \in VaultCalls : vcall[c].at = "filling" =>
            /\ vault = NoSecret /\ salt = "empty"
            /\ \A d \in VaultCalls : vcall[d].at \notin Keyed
       /\ \A c \in VaultCalls : vcall[c].at \in Keyed => vcall[c].key.salt = salt
       /\ Opened => vault.key.salt = salt

HasKey == \A c \in VaultCalls : vcall[c].at \in Keyed => vcall[c].key \in VaultKeys

\* Somebody is at the torn vault, or was.
TornByWriter ==
    vault = TornVault => diedWriting \/ \E c \in VaultCalls : vcall[c].at = "writing"

OnlyChangesSave == \A c \in VaultCalls : vcall[c].at \in SavePlaces => vcall[c].op # "get"

OneChanges == overlapped \/ \A c, d \in VaultCalls : Changing(c) /\ Changing(d) => c = d

Contents == IF Opened THEN vault.data ELSE NoSecrets

\* The only change there is: what the vault holds, and what will be saved.
ChangesInTurn ==
    \/ overlapped \/ diedWriting
    \/ /\ (\A c \in VaultCalls : vcall[c].at # "writing") => kept = Contents
       /\ \A c \in VaultCalls : vcall[c].at \in SavePlaces => vcall[c].data = Applied(c, kept)

VaultInv ==
    /\ VaultTypes /\ SaltHasMaker /\ SaltComesFirst /\ OneSalt /\ HasKey
    /\ TornByWriter /\ OnlyChangesSave /\ OneChanges /\ ChangesInTurn

\* The next state: call c is as in q.
Becomes(c, q) == q \in VaultRecords /\ vcall' = [vcall EXCEPT ![c] = q]

LEMMA NoSecretsAre == NoSecrets \in Secrets
BY DEF NoSecrets, Secrets

LEMMA AppliedIs ==
    ASSUME VaultTypes, NEW c \in VaultCalls, NEW data \in Secrets
    PROVE  Applied(c, data) \in Secrets
BY DEF Applied, VaultTypes, VaultRecords, Secrets

\* A vault that was written can be opened.
LEMMA WrittenOpens ==
    ASSUME NEW k \in VaultKeys, NEW d \in Secrets
    PROVE  [key |-> k, data |-> d] \notin {NoSecret, TornVault}
BY VaultAssumption DEF TornVault

LEMMA OpenedIs ==
    ASSUME VaultTypes, Opened
    PROVE  vault \in [key : VaultKeys, data : Secrets]
BY DEF VaultTypes, Opened

LEMMA LoadedIs ==
    ASSUME VaultTypes, NEW c \in VaultCalls, NEW data \in Secrets, Loaded(c, data)
    PROVE  \E q : /\ Becomes(c, q)
                  /\ q.op = vcall[c].op /\ q.ref = vcall[c].ref /\ q.key = vcall[c].key
                  /\ q.data = Applied(c, data)
                  /\ q.at \in {"salting", "done", "refused"}
                  /\ q.at = "salting" => vcall[c].op # "get"
<1>1. PICK here : here = vcall[c] OBVIOUS
<1>2. PICK new : new = Applied(c, data) /\ new \in Secrets BY AppliedIs
<1>3. here \in VaultRecords BY <1>1 DEF VaultTypes
<1>4. PICK to : /\ to \in {"salting", "done", "refused"}
                /\ to = "salting" => here.op # "get"
                /\ vcall' = [vcall EXCEPT ![c].data = new, ![c].at = to]
  <2>1. vcall' = [vcall EXCEPT ![c].data = new,
                     ![c].at = IF Saves(c, data) THEN "salting"
                               ELSE IF vcall[c].op = "get" /\ data[vcall[c].ref] = NoSecret
                               THEN "refused" ELSE "done"]
    BY <1>2 DEF Loaded
  <2>2. Saves(c, data) => here.op # "get" BY <1>1 DEF Saves
  <2> QED BY <1>1, <2>1, <2>2
<1>5. PICK q : q = [here EXCEPT !.data = new, !.at = to] OBVIOUS
<1>6. vcall' = [vcall EXCEPT ![c] = q] BY <1>1, <1>4, <1>5
<1>7. /\ q.op = here.op /\ q.ref = here.ref /\ q.key = here.key
      /\ q.data = new /\ q.at = to /\ q \in VaultRecords
  BY <1>2, <1>3, <1>4, <1>5 DEF VaultRecords
<1> QED BY <1>1, <1>2, <1>4, <1>6, <1>7 DEF Becomes

LEMMA CallVaultKeeps ==
    ASSUME VaultInv, NEW c \in VaultCalls, NEW op \in {"set", "get", "delete"},
    NEW ref \in Refs,
           CallVault(c, op, ref)
    PROVE  VaultInv'
<1>1. PICK q : /\ Becomes(c, q)
               /\ q.at = "loading" /\ vcall[c].at = "idle" /\ q.op = op
  <2>1. PICK here : here = vcall[c] /\ here \in VaultRecords BY DEF VaultInv, VaultTypes
  <2>2. PICK q : q = [here EXCEPT !.at = "loading", !.op = op, !.ref = ref] OBVIOUS
  <2>3. vcall' = [vcall EXCEPT ![c] = q] BY <2>1, <2>2 DEF CallVault
  <2>4. q \in VaultRecords BY <2>1, <2>2 DEF VaultRecords
  <2>5. /\ q.at = "loading" /\ vcall[c].at = "idle" /\ q.op = op
    BY <2>1, <2>2 DEF CallVault, VaultRecords, VaultInv, VaultTypes
  <2> QED BY <2>3, <2>4, <2>5 DEF Becomes
<1>2. /\ UNCHANGED <<vault, salt, kept, unsalted, diedWriting>>
      /\ overlapped' = (overlapped \/ (op # "get" /\ \E d \in VaultCalls : Changing(d)))
  BY DEF CallVault
<1>3. /\ q \in VaultRecords
      /\ \A d \in VaultCalls : vcall'[d] = IF d = c THEN q ELSE vcall[d]
  BY <1>1 DEF Becomes, VaultInv, VaultTypes
<1>4. VaultTypes' BY <1>1, <1>2, <1>3 DEF Becomes, VaultInv, VaultTypes
<1>5. SaltHasMaker' BY <1>1, <1>2, <1>3 DEF VaultInv, VaultTypes, SaltHasMaker
<1>6. SaltComesFirst' BY <1>1, <1>2, <1>3 DEF VaultInv, VaultTypes, SaltComesFirst
<1>7. OneSalt' BY <1>1, <1>2, <1>3 DEF VaultInv, OneSalt, Two, Opened, Keyed
<1>8. HasKey' BY <1>1, <1>2, <1>3 DEF VaultInv, HasKey, Keyed
<1>9. TornByWriter' BY <1>1, <1>2, <1>3 DEF VaultInv, TornByWriter
<1>10. OnlyChangesSave' BY <1>1, <1>2, <1>3 DEF VaultInv, OnlyChangesSave, SavePlaces
<1>11. OneChanges' BY <1>1, <1>2, <1>3 DEF VaultInv, OneChanges, Changing, VaultCallOpen
<1>12. ChangesInTurn'
  BY <1>1, <1>2, <1>3 DEF VaultInv, ChangesInTurn, SavePlaces, Contents, Opened, Applied
<1> QED BY <1>4, <1>5, <1>6, <1>7, <1>8, <1>9, <1>10, <1>11, <1>12 DEF VaultInv

LEMMA LoadNothingKeeps ==
    ASSUME VaultInv, NEW c \in VaultCalls, LoadNothing(c)
    PROVE  VaultInv'
<1>1. PICK q : /\ Becomes(c, q)
               /\ q.op = vcall[c].op /\ q.ref = vcall[c].ref
               /\ q.data = Applied(c, NoSecrets)
               /\ q.at \in {"salting", "done", "refused"}
               /\ q.at = "salting" => vcall[c].op # "get"
  BY NoSecretsAre, LoadedIs DEF LoadNothing, VaultInv
<1>2. /\ vcall[c].at = "loading" /\ vault = NoSecret
      /\ UNCHANGED <<vault, salt, kept, unsalted, overlapped, diedWriting>>
  BY DEF LoadNothing
<1>3. /\ q \in VaultRecords
      /\ \A d \in VaultCalls : vcall'[d] = IF d = c THEN q ELSE vcall[d]
  BY <1>1 DEF Becomes, VaultInv, VaultTypes
<1>4. VaultTypes' BY <1>1, <1>2, <1>3 DEF Becomes, VaultInv, VaultTypes
<1>5. SaltHasMaker' BY <1>1, <1>2, <1>3 DEF VaultInv, VaultTypes, SaltHasMaker
<1>6. SaltComesFirst' BY <1>1, <1>2, <1>3 DEF VaultInv, VaultTypes, SaltComesFirst
<1>7. OneSalt' BY <1>1, <1>2, <1>3 DEF VaultInv, OneSalt, Two, Opened, Keyed
<1>8. HasKey' BY <1>1, <1>2, <1>3 DEF VaultInv, HasKey, Keyed
<1>9. TornByWriter' BY <1>1, <1>2, <1>3 DEF VaultInv, TornByWriter
<1>10. OnlyChangesSave' BY <1>1, <1>2, <1>3 DEF VaultInv, OnlyChangesSave, SavePlaces
<1>11. OneChanges' BY <1>1, <1>2, <1>3 DEF VaultInv, OneChanges, Changing, VaultCallOpen
<1>12. ChangesInTurn'
  <2>1. CASE overlapped \/ diedWriting BY <1>2, <2>1 DEF ChangesInTurn
  <2>2. CASE ~(overlapped \/ diedWriting)
    <3>1. /\ (\A d \in VaultCalls : vcall[d].at # "writing") => kept = Contents
          /\ \A d \in VaultCalls : vcall[d].at \in SavePlaces => vcall[d].data = Applied(d, kept)
          /\ \A d, e \in VaultCalls : Changing(d) /\ Changing(e) => d = e
      BY <2>2 DEF VaultInv, ChangesInTurn, OneChanges
    <3>2. \A d \in VaultCalls : vcall[d].at \in SavePlaces => Changing(d)
      BY DEF VaultInv, OnlyChangesSave, SavePlaces, Changing, VaultCallOpen
    <3>3. (\A d \in VaultCalls : vcall'[d].at # "writing") =>
              \A d \in VaultCalls : vcall[d].at # "writing"
      BY <1>1, <1>2, <1>3
    <3>4. Contents' = Contents BY <1>2 DEF Contents, Opened
    <3>5. ASSUME q.at = "salting" PROVE q.data = Applied(c, kept)
      <4>1. Changing(c) BY <1>1, <1>2, <3>5 DEF Changing, VaultCallOpen
      <4>2. \A d \in VaultCalls : vcall[d].at # "writing"
        BY <1>2, <3>1, <3>2, <4>1 DEF SavePlaces
      <4>3. kept = Contents BY <3>1, <4>2
      <4> QED BY <1>1, <1>2, <3>5, <4>3 DEF Contents, Opened
    <3>6. Applied(c, kept)' = Applied(c, kept) BY <1>1, <1>2, <1>3 DEF Applied
    <3>7. ASSUME NEW d \in VaultCalls, vcall'[d].at \in SavePlaces
          PROVE  vcall'[d].data = Applied(d, kept)'
      <4>1. CASE d = c BY <1>1, <1>3, <3>5, <3>6, <3>7, <4>1 DEF SavePlaces
      <4>2. CASE d # c BY <1>2, <1>3, <3>1, <3>7, <4>2 DEF Applied
      <4> QED BY <4>1, <4>2
    <3>8. kept' = kept BY <1>2
    <3> QED BY <3>1, <3>3, <3>4, <3>7, <3>8 DEF ChangesInTurn
  <2> QED BY <2>1, <2>2
<1> QED BY <1>4, <1>5, <1>6, <1>7, <1>8, <1>9, <1>10, <1>11, <1>12 DEF VaultInv

LEMMA LoadKeyKeeps ==
    ASSUME VaultInv, NEW c \in VaultCalls, NEW p \in Phrases, LoadKey(c, p)
    PROVE  VaultInv'
<1>1. PICK q : /\ Becomes(c, q)
               /\ q.at = "opening" /\ vcall[c].at = "loading" /\ q.op = vcall[c].op
  <2>1. PICK here : here = vcall[c] /\ here \in VaultRecords BY DEF VaultInv, VaultTypes
  <2>2. PICK key : key = Key(salt, p) /\ key \in VaultKeys
    <3>1. salt \in VaultCalls \cup {"empty"}
      BY DEF LoadKey, VaultInv, VaultTypes, SaltComesFirst
    <3>2. [salt |-> salt, phrase |-> p] \in VaultKeys BY <3>1 DEF VaultKeys
    <3> QED BY <3>2 DEF Key
  <2>3. PICK q : q = [here EXCEPT !.at = "opening", !.key = key] OBVIOUS
  <2>4. vcall' = [vcall EXCEPT ![c] = q] BY <2>1, <2>2, <2>3 DEF LoadKey
  <2>5. q \in VaultRecords BY <2>1, <2>2, <2>3 DEF VaultRecords
  <2>6. /\ q.at = "opening" /\ vcall[c].at = "loading" /\ q.op = vcall[c].op
    BY <2>1, <2>2, <2>3 DEF LoadKey, VaultRecords, VaultInv, VaultTypes, Key
  <2> QED BY <2>4, <2>5, <2>6 DEF Becomes
<1>2. /\ UNCHANGED <<vault, salt, kept, unsalted, overlapped, diedWriting>>
  BY DEF LoadKey
<1>3. /\ q \in VaultRecords
      /\ \A d \in VaultCalls : vcall'[d] = IF d = c THEN q ELSE vcall[d]
  BY <1>1 DEF Becomes, VaultInv, VaultTypes
<1>4. VaultTypes' BY <1>1, <1>2, <1>3 DEF Becomes, VaultInv, VaultTypes
<1>5. SaltHasMaker' BY <1>1, <1>2, <1>3 DEF VaultInv, VaultTypes, SaltHasMaker
<1>6. SaltComesFirst' BY <1>1, <1>2, <1>3 DEF VaultInv, VaultTypes, SaltComesFirst
<1>7. OneSalt' BY <1>1, <1>2, <1>3 DEF VaultInv, OneSalt, Two, Opened, Keyed
<1>8. HasKey' BY <1>1, <1>2, <1>3 DEF VaultInv, HasKey, Keyed
<1>9. TornByWriter' BY <1>1, <1>2, <1>3 DEF VaultInv, TornByWriter
<1>10. OnlyChangesSave' BY <1>1, <1>2, <1>3 DEF VaultInv, OnlyChangesSave, SavePlaces
<1>11. OneChanges' BY <1>1, <1>2, <1>3 DEF VaultInv, OneChanges, Changing, VaultCallOpen
<1>12. ChangesInTurn'
  BY <1>1, <1>2, <1>3 DEF VaultInv, ChangesInTurn, SavePlaces, Contents, Opened, Applied
<1> QED BY <1>4, <1>5, <1>6, <1>7, <1>8, <1>9, <1>10, <1>11, <1>12 DEF VaultInv

LEMMA DecryptKeeps ==
    ASSUME VaultInv, NEW c \in VaultCalls, Decrypt(c)
    PROVE  VaultInv'
<1>1. PICK q : /\ Becomes(c, q)
               /\ q.op = vcall[c].op /\ q.ref = vcall[c].ref
               /\ q.at \in {"salting", "done", "refused"}
               /\ q.at = "salting" => vcall[c].op # "get" /\ Opened
                    /\ q.data = Applied(c, vault.data)
  <2>1. CASE Decrypts(c)
    <3>1. Opened /\ vault.data \in Secrets /\ Loaded(c, vault.data)
      BY <2>1, OpenedIs DEF Decrypt, Decrypts, VaultInv
    <3> QED BY <3>1, LoadedIs DEF VaultInv
  <2>2. CASE ~Decrypts(c)
    <3>1. PICK here : here = vcall[c] /\ here \in VaultRecords
      BY DEF VaultInv, VaultTypes
    <3>2. PICK q : q = [here EXCEPT !.at = "refused"] OBVIOUS
    <3>3. vcall' = [vcall EXCEPT ![c] = q] BY <2>2, <3>1, <3>2 DEF Decrypt
    <3>4. q \in VaultRecords /\ q.at = "refused" /\ q.op = here.op /\ q.ref = here.ref
      BY <3>1, <3>2 DEF VaultRecords
    <3> QED BY <3>1, <3>3, <3>4 DEF Becomes
  <2> QED BY <2>1, <2>2
<1>2. /\ vcall[c].at = "opening"
      /\ UNCHANGED <<vault, salt, kept, unsalted, overlapped, diedWriting>>
  BY DEF Decrypt
<1>3. /\ q \in VaultRecords
      /\ \A d \in VaultCalls : vcall'[d] = IF d = c THEN q ELSE vcall[d]
  BY <1>1 DEF Becomes, VaultInv, VaultTypes
<1>4. VaultTypes' BY <1>1, <1>2, <1>3 DEF Becomes, VaultInv, VaultTypes
<1>5. SaltHasMaker' BY <1>1, <1>2, <1>3 DEF VaultInv, VaultTypes, SaltHasMaker
<1>6. SaltComesFirst' BY <1>1, <1>2, <1>3 DEF VaultInv, VaultTypes, SaltComesFirst
<1>7. OneSalt' BY <1>1, <1>2, <1>3 DEF VaultInv, OneSalt, Two, Opened, Keyed
<1>8. HasKey' BY <1>1, <1>2, <1>3 DEF VaultInv, HasKey, Keyed
<1>9. TornByWriter' BY <1>1, <1>2, <1>3 DEF VaultInv, TornByWriter
<1>10. OnlyChangesSave' BY <1>1, <1>2, <1>3 DEF VaultInv, OnlyChangesSave, SavePlaces
<1>11. OneChanges' BY <1>1, <1>2, <1>3 DEF VaultInv, OneChanges, Changing, VaultCallOpen
<1>12. ChangesInTurn'
  <2>1. CASE overlapped \/ diedWriting BY <1>2, <2>1 DEF ChangesInTurn
  <2>2. CASE ~(overlapped \/ diedWriting)
    <3>1. /\ (\A d \in VaultCalls : vcall[d].at # "writing") => kept = Contents
          /\ \A d \in VaultCalls : vcall[d].at \in SavePlaces => vcall[d].data = Applied(d, kept)
          /\ \A d, e \in VaultCalls : Changing(d) /\ Changing(e) => d = e
      BY <2>2 DEF VaultInv, ChangesInTurn, OneChanges
    <3>2. \A d \in VaultCalls : vcall[d].at \in SavePlaces => Changing(d)
      BY DEF VaultInv, OnlyChangesSave, SavePlaces, Changing, VaultCallOpen
    <3>3. (\A d \in VaultCalls : vcall'[d].at # "writing") =>
              \A d \in VaultCalls : vcall[d].at # "writing"
      BY <1>1, <1>2, <1>3
    <3>4. Contents' = Contents BY <1>2 DEF Contents, Opened
    <3>5. ASSUME q.at = "salting" PROVE q.data = Applied(c, kept)
      <4>1. Changing(c) BY <1>1, <1>2, <3>5 DEF Changing, VaultCallOpen
      <4>2. \A d \in VaultCalls : vcall[d].at # "writing"
        BY <1>2, <3>1, <3>2, <4>1 DEF SavePlaces
      <4>3. kept = Contents BY <3>1, <4>2
      <4> QED BY <1>1, <1>2, <3>5, <4>3 DEF Contents, Opened
    <3>6. Applied(c, kept)' = Applied(c, kept) BY <1>1, <1>2, <1>3 DEF Applied
    <3>7. ASSUME NEW d \in VaultCalls, vcall'[d].at \in SavePlaces
          PROVE  vcall'[d].data = Applied(d, kept)'
      <4>1. CASE d = c BY <1>1, <1>3, <3>5, <3>6, <3>7, <4>1 DEF SavePlaces
      <4>2. CASE d # c BY <1>2, <1>3, <3>1, <3>7, <4>2 DEF Applied
      <4> QED BY <4>1, <4>2
    <3>8. kept' = kept BY <1>2
    <3> QED BY <3>1, <3>3, <3>4, <3>7, <3>8 DEF ChangesInTurn
  <2> QED BY <2>1, <2>2
<1> QED BY <1>4, <1>5, <1>6, <1>7, <1>8, <1>9, <1>10, <1>11, <1>12 DEF VaultInv

LEMMA SaveKeyKeeps ==
    ASSUME VaultInv, NEW c \in VaultCalls, NEW p \in Phrases, SaveKey(c, p)
    PROVE  VaultInv'
<1>1. PICK q : /\ Becomes(c, q)
               /\ q.at = "saving" /\ vcall[c].at = "salting"
               /\ q.op = vcall[c].op /\ q.ref = vcall[c].ref /\ q.data = vcall[c].data
               /\ q.key \in VaultKeys /\ q.key.salt = salt
  <2>1. PICK here : here = vcall[c] /\ here \in VaultRecords BY DEF VaultInv, VaultTypes
  <2>2. PICK key : key = Key(salt, p) /\ key \in VaultKeys
    <3>1. salt \in VaultCalls \cup {"empty"}
      BY DEF SaveKey, VaultInv, VaultTypes, SaltComesFirst
    <3>2. [salt |-> salt, phrase |-> p] \in VaultKeys BY <3>1 DEF VaultKeys
    <3> QED BY <3>2 DEF Key
  <2>3. PICK q : q = [here EXCEPT !.at = "saving", !.key = key] OBVIOUS
  <2>4. vcall' = [vcall EXCEPT ![c] = q] BY <2>1, <2>2, <2>3 DEF SaveKey
  <2>5. q \in VaultRecords BY <2>1, <2>2, <2>3 DEF VaultRecords
  <2>6. /\ q.at = "saving" /\ vcall[c].at = "salting"
        /\ q.op = vcall[c].op /\ q.ref = vcall[c].ref /\ q.data = vcall[c].data
        /\ q.key \in VaultKeys /\ q.key.salt = salt
    BY <2>1, <2>2, <2>3 DEF SaveKey, VaultRecords, VaultInv, VaultTypes, Key
  <2> QED BY <2>4, <2>5, <2>6 DEF Becomes
<1>2. /\ salt # NoSecret
      /\ unsalted' = IF salt = "empty" THEN unsalted \cup {c} ELSE unsalted
      /\ UNCHANGED <<vault, salt, kept, overlapped, diedWriting>>
  BY DEF SaveKey
<1>3. /\ q \in VaultRecords
      /\ \A d \in VaultCalls : vcall'[d] = IF d = c THEN q ELSE vcall[d]
  BY <1>1 DEF Becomes, VaultInv, VaultTypes
<1>4. VaultTypes' BY <1>1, <1>2, <1>3 DEF Becomes, VaultInv, VaultTypes
<1>5. SaltHasMaker' BY <1>1, <1>2, <1>3 DEF VaultInv, VaultTypes, SaltHasMaker
<1>6. SaltComesFirst' BY <1>1, <1>2, <1>3 DEF VaultInv, VaultTypes, SaltComesFirst
<1>7. OneSalt'
  <2>1. CASE Two BY <1>2, <2>1 DEF OneSalt, Two
  <2>2. CASE salt = "empty"
    <3>1. PICK d \in unsalted : d # c BY <1>1, <1>2 DEF VaultInv, SaltHasMaker
    <3> QED BY <1>2, <2>2, <3>1 DEF OneSalt, Two
  <2>3. CASE ~Two /\ salt # "empty"
    <3>1. \A d \in VaultCalls : vcall[d].at # "filling" BY <2>3 DEF VaultInv, OneSalt
    <3> QED BY <1>1, <1>2, <1>3, <2>3, <3>1 DEF VaultInv, OneSalt, Opened, Keyed
  <2> QED BY <2>1, <2>2, <2>3
<1>8. HasKey' BY <1>1, <1>2, <1>3 DEF VaultInv, HasKey, Keyed
<1>9. TornByWriter' BY <1>1, <1>2, <1>3 DEF VaultInv, TornByWriter
<1>10. OnlyChangesSave' BY <1>1, <1>2, <1>3 DEF VaultInv, OnlyChangesSave, SavePlaces
<1>11. OneChanges' BY <1>1, <1>2, <1>3 DEF VaultInv, OneChanges, Changing, VaultCallOpen
<1>12. ChangesInTurn'
  BY <1>1, <1>2, <1>3 DEF VaultInv, ChangesInTurn, SavePlaces, Contents, Opened, Applied
<1> QED BY <1>4, <1>5, <1>6, <1>7, <1>8, <1>9, <1>10, <1>11, <1>12 DEF VaultInv

LEMMA MissSaltKeeps ==
    ASSUME VaultInv, NEW c \in VaultCalls, MissSalt(c)
    PROVE  VaultInv'
<1>1. PICK q : /\ Becomes(c, q)
               /\ q.at = "making" /\ vcall[c].at = "salting"
               /\ q.op = vcall[c].op /\ q.ref = vcall[c].ref /\ q.data = vcall[c].data
  <2>1. PICK here : here = vcall[c] /\ here \in VaultRecords BY DEF VaultInv, VaultTypes
  <2>2. PICK q : q = [here EXCEPT !.at = "making"] OBVIOUS
  <2>3. vcall' = [vcall EXCEPT ![c] = q] BY <2>1, <2>2 DEF MissSalt
  <2>4. q \in VaultRecords BY <2>1, <2>2 DEF VaultRecords
  <2>5. /\ q.at = "making" /\ vcall[c].at = "salting"
        /\ q.op = vcall[c].op /\ q.ref = vcall[c].ref /\ q.data = vcall[c].data
    BY <2>1, <2>2 DEF MissSalt, VaultRecords, VaultInv, VaultTypes
  <2> QED BY <2>3, <2>4, <2>5 DEF Becomes
<1>2. /\ salt = NoSecret
      /\ unsalted' = unsalted \cup {c}
      /\ UNCHANGED <<vault, salt, kept, overlapped, diedWriting>>
  BY DEF MissSalt
<1>3. /\ q \in VaultRecords
      /\ \A d \in VaultCalls : vcall'[d] = IF d = c THEN q ELSE vcall[d]
  BY <1>1 DEF Becomes, VaultInv, VaultTypes
<1>4. VaultTypes' BY <1>1, <1>2, <1>3 DEF Becomes, VaultInv, VaultTypes
<1>5. SaltHasMaker' BY <1>1, <1>2, <1>3 DEF VaultInv, VaultTypes, SaltHasMaker
<1>6. SaltComesFirst' BY <1>1, <1>2, <1>3 DEF VaultInv, VaultTypes, SaltComesFirst
<1>7. OneSalt' BY <1>1, <1>2, <1>3 DEF VaultInv, OneSalt, Two, Opened, Keyed
<1>8. HasKey' BY <1>1, <1>2, <1>3 DEF VaultInv, HasKey, Keyed
<1>9. TornByWriter' BY <1>1, <1>2, <1>3 DEF VaultInv, TornByWriter
<1>10. OnlyChangesSave' BY <1>1, <1>2, <1>3 DEF VaultInv, OnlyChangesSave, SavePlaces
<1>11. OneChanges' BY <1>1, <1>2, <1>3 DEF VaultInv, OneChanges, Changing, VaultCallOpen
<1>12. ChangesInTurn'
  BY <1>1, <1>2, <1>3 DEF VaultInv, ChangesInTurn, SavePlaces, Contents, Opened, Applied
<1> QED BY <1>4, <1>5, <1>6, <1>7, <1>8, <1>9, <1>10, <1>11, <1>12 DEF VaultInv

LEMMA EmptySaltKeeps ==
    ASSUME VaultInv, NEW c \in VaultCalls, EmptySalt(c)
    PROVE  VaultInv'
<1>1. PICK q : /\ Becomes(c, q)
               /\ q.at = "filling" /\ vcall[c].at = "making"
               /\ q.op = vcall[c].op /\ q.ref = vcall[c].ref /\ q.data = vcall[c].data
  <2>1. PICK here : here = vcall[c] /\ here \in VaultRecords BY DEF VaultInv, VaultTypes
  <2>2. PICK q : q = [here EXCEPT !.at = "filling"] OBVIOUS
  <2>3. vcall' = [vcall EXCEPT ![c] = q] BY <2>1, <2>2 DEF EmptySalt
  <2>4. q \in VaultRecords BY <2>1, <2>2 DEF VaultRecords
  <2>5. /\ q.at = "filling" /\ vcall[c].at = "making"
        /\ q.op = vcall[c].op /\ q.ref = vcall[c].ref /\ q.data = vcall[c].data
    BY <2>1, <2>2 DEF EmptySalt, VaultRecords, VaultInv, VaultTypes
  <2> QED BY <2>3, <2>4, <2>5 DEF Becomes
<1>2. /\ salt' = "empty"
      /\ UNCHANGED <<vault, kept, unsalted, overlapped, diedWriting>>
  BY DEF EmptySalt
<1>3. /\ q \in VaultRecords
      /\ \A d \in VaultCalls : vcall'[d] = IF d = c THEN q ELSE vcall[d]
  BY <1>1 DEF Becomes, VaultInv, VaultTypes
<1>4. VaultTypes' BY <1>1, <1>2, <1>3 DEF Becomes, VaultInv, VaultTypes
<1>5. SaltHasMaker' BY <1>1, <1>2, <1>3 DEF VaultInv, VaultTypes, SaltHasMaker
<1>6. SaltComesFirst' BY <1>2, VaultAssumption DEF SaltComesFirst
<1>7. OneSalt'
  <2>1. CASE Two BY <1>2, <2>1 DEF OneSalt, Two
  <2>2. CASE ~Two
    <3>1. c \in unsalted BY <1>1 DEF VaultInv, SaltHasMaker
    <3>2. salt = NoSecret BY <1>1, <2>2, <3>1 DEF VaultInv, SaltHasMaker, Two
    <3>3. vault = NoSecret /\ \A d \in VaultCalls : vcall[d].at \notin {"filling", "saving",
    "writing"}
      BY <3>2 DEF VaultInv, SaltComesFirst
    <3> QED BY <1>1, <1>2, <1>3, <3>3 DEF OneSalt, Opened, Keyed
  <2> QED BY <2>1, <2>2
<1>8. HasKey' BY <1>1, <1>2, <1>3 DEF VaultInv, HasKey, Keyed
<1>9. TornByWriter' BY <1>1, <1>2, <1>3 DEF VaultInv, TornByWriter
<1>10. OnlyChangesSave' BY <1>1, <1>2, <1>3 DEF VaultInv, OnlyChangesSave, SavePlaces
<1>11. OneChanges' BY <1>1, <1>2, <1>3 DEF VaultInv, OneChanges, Changing, VaultCallOpen
<1>12. ChangesInTurn'
  BY <1>1, <1>2, <1>3 DEF VaultInv, ChangesInTurn, SavePlaces, Contents, Opened, Applied
<1> QED BY <1>4, <1>5, <1>6, <1>7, <1>8, <1>9, <1>10, <1>11, <1>12 DEF VaultInv

LEMMA FillSaltKeeps ==
    ASSUME VaultInv, NEW c \in VaultCalls, NEW p \in Phrases, FillSalt(c, p)
    PROVE  VaultInv'
<1>1. PICK q : /\ Becomes(c, q)
               /\ q.at = "saving" /\ vcall[c].at = "filling"
               /\ q.op = vcall[c].op /\ q.ref = vcall[c].ref /\ q.data = vcall[c].data
               /\ q.key \in VaultKeys /\ q.key.salt = c
  <2>1. PICK here : here = vcall[c] /\ here \in VaultRecords BY DEF VaultInv, VaultTypes
  <2>2. PICK key : key = Key(c, p) /\ key \in VaultKeys
    <3>1. c \in VaultCalls \cup {"empty"} OBVIOUS
    <3>2. [salt |-> c, phrase |-> p] \in VaultKeys BY <3>1 DEF VaultKeys
    <3> QED BY <3>2 DEF Key
  <2>3. PICK q : q = [here EXCEPT !.at = "saving", !.key = key] OBVIOUS
  <2>4. vcall' = [vcall EXCEPT ![c] = q] BY <2>1, <2>2, <2>3 DEF FillSalt
  <2>5. q \in VaultRecords BY <2>1, <2>2, <2>3 DEF VaultRecords
  <2>6. /\ q.at = "saving" /\ vcall[c].at = "filling"
        /\ q.op = vcall[c].op /\ q.ref = vcall[c].ref /\ q.data = vcall[c].data
        /\ q.key \in VaultKeys /\ q.key.salt = c
    BY <2>1, <2>2, <2>3 DEF FillSalt, VaultRecords, VaultInv, VaultTypes, Key
  <2> QED BY <2>4, <2>5, <2>6 DEF Becomes
<1>2. /\ salt' = c
      /\ UNCHANGED <<vault, kept, unsalted, overlapped, diedWriting>>
  BY DEF FillSalt
<1>3. /\ q \in VaultRecords
      /\ \A d \in VaultCalls : vcall'[d] = IF d = c THEN q ELSE vcall[d]
  BY <1>1 DEF Becomes, VaultInv, VaultTypes
<1>4. VaultTypes' BY <1>1, <1>2, <1>3 DEF Becomes, VaultInv, VaultTypes
<1>5. SaltHasMaker' BY <1>1, <1>2, <1>3 DEF VaultInv, VaultTypes, SaltHasMaker
<1>6. SaltComesFirst' BY <1>2, VaultAssumption DEF SaltComesFirst
<1>7. OneSalt'
  <2>1. CASE Two BY <1>2, <2>1 DEF OneSalt, Two
  <2>2. CASE ~Two
    <3>1. vault = NoSecret /\ \A d \in VaultCalls : vcall[d].at \notin Keyed
      BY <1>1, <2>2 DEF VaultInv, OneSalt
    <3>2. \A d \in VaultCalls : vcall'[d].at # "filling"
      <4>1. \A d \in VaultCalls : vcall[d].at = "filling" => d \in unsalted
        BY DEF VaultInv, SaltHasMaker
      <4> QED BY <1>1, <1>3, <2>2, <4>1 DEF Two
    <3> QED BY <1>1, <1>2, <1>3, <3>1, <3>2 DEF OneSalt, Opened, Keyed
  <2> QED BY <2>1, <2>2
<1>8. HasKey' BY <1>1, <1>2, <1>3 DEF VaultInv, HasKey, Keyed
<1>9. TornByWriter' BY <1>1, <1>2, <1>3 DEF VaultInv, TornByWriter
<1>10. OnlyChangesSave' BY <1>1, <1>2, <1>3 DEF VaultInv, OnlyChangesSave, SavePlaces
<1>11. OneChanges' BY <1>1, <1>2, <1>3 DEF VaultInv, OneChanges, Changing, VaultCallOpen
<1>12. ChangesInTurn'
  BY <1>1, <1>2, <1>3 DEF VaultInv, ChangesInTurn, SavePlaces, Contents, Opened, Applied
<1> QED BY <1>4, <1>5, <1>6, <1>7, <1>8, <1>9, <1>10, <1>11, <1>12 DEF VaultInv

LEMMA EmptyVaultKeeps ==
    ASSUME VaultInv, NEW c \in VaultCalls, EmptyVault(c)
    PROVE  VaultInv'
<1>1. PICK q : /\ Becomes(c, q)
               /\ q.at = "writing" /\ vcall[c].at = "saving"
               /\ q.op = vcall[c].op /\ q.ref = vcall[c].ref /\ q.data = vcall[c].data
               /\ q.key = vcall[c].key
  <2>1. PICK here : here = vcall[c] /\ here \in VaultRecords BY DEF VaultInv, VaultTypes
  <2>2. PICK q : q = [here EXCEPT !.at = "writing"] OBVIOUS
  <2>3. vcall' = [vcall EXCEPT ![c] = q] BY <2>1, <2>2 DEF EmptyVault
  <2>4. q \in VaultRecords BY <2>1, <2>2 DEF VaultRecords
  <2>5. /\ q.at = "writing" /\ vcall[c].at = "saving"
        /\ q.op = vcall[c].op /\ q.ref = vcall[c].ref /\ q.data = vcall[c].data
        /\ q.key = vcall[c].key
    BY <2>1, <2>2 DEF EmptyVault, VaultRecords, VaultInv, VaultTypes
  <2> QED BY <2>3, <2>4, <2>5 DEF Becomes
<1>2. /\ vault' = TornVault
      /\ UNCHANGED <<salt, kept, unsalted, overlapped, diedWriting>>
  BY DEF EmptyVault
<1>3. /\ q \in VaultRecords
      /\ \A d \in VaultCalls : vcall'[d] = IF d = c THEN q ELSE vcall[d]
  BY <1>1 DEF Becomes, VaultInv, VaultTypes
<1>4. VaultTypes' BY <1>1, <1>2, <1>3 DEF Becomes, VaultInv, VaultTypes
<1>5. SaltHasMaker' BY <1>1, <1>2, <1>3 DEF VaultInv, VaultTypes, SaltHasMaker
<1>6. SaltComesFirst' BY <1>1, <1>2, <1>3 DEF VaultInv, VaultTypes, SaltComesFirst
<1>7. OneSalt' BY <1>1, <1>2, <1>3 DEF VaultInv, OneSalt, Two, Opened, Keyed
<1>8. HasKey' BY <1>1, <1>2, <1>3 DEF VaultInv, HasKey, Keyed
<1>9. TornByWriter' BY <1>1, <1>2, <1>3 DEF VaultInv, TornByWriter
<1>10. OnlyChangesSave' BY <1>1, <1>2, <1>3 DEF VaultInv, OnlyChangesSave, SavePlaces
<1>11. OneChanges' BY <1>1, <1>2, <1>3 DEF VaultInv, OneChanges, Changing, VaultCallOpen
<1>12. ChangesInTurn'
  BY <1>1, <1>2, <1>3 DEF VaultInv, ChangesInTurn, SavePlaces, Contents, Opened, Applied
<1> QED BY <1>4, <1>5, <1>6, <1>7, <1>8, <1>9, <1>10, <1>11, <1>12 DEF VaultInv

LEMMA FillVaultKeeps ==
    ASSUME VaultInv, NEW c \in VaultCalls, FillVault(c)
    PROVE  VaultInv'
<1>1. PICK q : /\ Becomes(c, q)
               /\ q.at = "done" /\ vcall[c].at = "writing"
               /\ q.op = vcall[c].op /\ q.ref = vcall[c].ref /\ q.data = vcall[c].data
  <2>1. PICK here : here = vcall[c] /\ here \in VaultRecords BY DEF VaultInv, VaultTypes
  <2>2. PICK q : q = [here EXCEPT !.at = "done"] OBVIOUS
  <2>3. vcall' = [vcall EXCEPT ![c] = q] BY <2>1, <2>2 DEF FillVault
  <2>4. q \in VaultRecords BY <2>1, <2>2 DEF VaultRecords
  <2>5. /\ q.at = "done" /\ vcall[c].at = "writing"
        /\ q.op = vcall[c].op /\ q.ref = vcall[c].ref /\ q.data = vcall[c].data
    BY <2>1, <2>2 DEF FillVault, VaultRecords, VaultInv, VaultTypes
  <2> QED BY <2>3, <2>4, <2>5 DEF Becomes
<1>2. /\ vault' = [key |-> vcall[c].key, data |-> vcall[c].data]
      /\ kept' = Applied(c, kept)
      /\ UNCHANGED <<salt, unsalted, overlapped, diedWriting>>
  BY DEF FillVault
<1>3. /\ q \in VaultRecords
      /\ \A d \in VaultCalls : vcall'[d] = IF d = c THEN q ELSE vcall[d]
  BY <1>1 DEF Becomes, VaultInv, VaultTypes
<1>4. VaultTypes'
  <2>1. vault' \in [key : VaultKeys, data : Secrets]
    <3>1. vcall[c].key \in VaultKeys /\ vcall[c].data \in Secrets
      BY <1>1 DEF VaultInv, HasKey, Keyed, VaultTypes, VaultRecords
    <3> QED BY <1>2, <3>1
  <2>2. kept' \in Secrets BY <1>2, AppliedIs DEF VaultInv, VaultTypes
  <2> QED BY <1>1, <1>2, <2>1, <2>2 DEF Becomes, VaultInv, VaultTypes
<1>5. SaltHasMaker' BY <1>1, <1>2, <1>3 DEF VaultInv, VaultTypes, SaltHasMaker
<1>6. SaltComesFirst' BY <1>1, <1>2, <1>3 DEF VaultInv, VaultTypes, SaltComesFirst
<1>7. OneSalt' BY <1>1, <1>2, <1>3 DEF VaultInv, OneSalt, Two, Opened, Keyed
<1>8. HasKey' BY <1>1, <1>2, <1>3 DEF VaultInv, HasKey, Keyed
<1>9. TornByWriter'
  <2>1. vcall[c].key \in VaultKeys /\ vcall[c].data \in Secrets
    BY <1>1 DEF VaultInv, HasKey, Keyed, VaultTypes, VaultRecords
  <2>2. vault' # TornVault BY <1>2, <2>1, WrittenOpens
  <2> QED BY <2>2 DEF TornByWriter, TornVault, NoSecrets
<1>10. OnlyChangesSave' BY <1>1, <1>2, <1>3 DEF VaultInv, OnlyChangesSave, SavePlaces
<1>11. OneChanges' BY <1>1, <1>2, <1>3 DEF VaultInv, OneChanges, Changing, VaultCallOpen
<1>12. ChangesInTurn'
  <2>1. CASE overlapped \/ diedWriting BY <1>2, <2>1 DEF ChangesInTurn
  <2>2. CASE ~(overlapped \/ diedWriting)
    <3>1. /\ vcall[c].data = Applied(c, kept)
          /\ \A d, e \in VaultCalls : Changing(d) /\ Changing(e) => d = e
      BY <1>1, <2>2 DEF VaultInv, ChangesInTurn, OneChanges, SavePlaces
    <3>2. \A d \in VaultCalls : vcall[d].at \in SavePlaces => Changing(d)
      BY DEF VaultInv, OnlyChangesSave, SavePlaces, Changing, VaultCallOpen
    <3>3. \A d \in VaultCalls : vcall'[d].at \notin SavePlaces
      BY <1>1, <1>3, <3>1, <3>2 DEF SavePlaces
    <3>4. vcall[c].key \in VaultKeys /\ vcall[c].data \in Secrets
      BY <1>1 DEF VaultInv, HasKey, Keyed, VaultTypes, VaultRecords
    <3>5. vault' # TornVault /\ vault' # NoSecret /\ vault'.data = vcall[c].data
      BY <1>2, <3>4, WrittenOpens
    <3>6. Contents' = vcall[c].data BY <3>5 DEF Contents, Opened, TornVault, NoSecrets
    <3> QED BY <1>2, <3>1, <3>3, <3>6 DEF ChangesInTurn
  <2> QED BY <2>1, <2>2
<1> QED BY <1>4, <1>5, <1>6, <1>7, <1>8, <1>9, <1>10, <1>11, <1>12 DEF VaultInv

LEMMA VaultCrashKeeps ==
    ASSUME VaultInv, NEW c \in VaultCalls, VaultCrash(c)
    PROVE  VaultInv'
<1>1. PICK q : /\ Becomes(c, q)
               /\ q.at = "refused" /\ q.op = vcall[c].op
  <2>1. PICK here : here = vcall[c] /\ here \in VaultRecords BY DEF VaultInv, VaultTypes
  <2>2. PICK q : q = [here EXCEPT !.at = "refused"] OBVIOUS
  <2>3. vcall' = [vcall EXCEPT ![c] = q] BY <2>1, <2>2 DEF VaultCrash
  <2>4. q \in VaultRecords BY <2>1, <2>2 DEF VaultRecords
  <2>5. /\ q.at = "refused" /\ q.op = vcall[c].op
    BY <2>1, <2>2 DEF VaultCrash, VaultRecords, VaultInv, VaultTypes
  <2> QED BY <2>3, <2>4, <2>5 DEF Becomes
<1>2. /\ VaultCallOpen(c)
      /\ diedWriting' = (diedWriting \/ vcall[c].at = "writing")
      /\ UNCHANGED <<vault, salt, kept, unsalted, overlapped>>
  BY DEF VaultCrash
<1>3. /\ q \in VaultRecords
      /\ \A d \in VaultCalls : vcall'[d] = IF d = c THEN q ELSE vcall[d]
  BY <1>1 DEF Becomes, VaultInv, VaultTypes
<1>4. VaultTypes' BY <1>1, <1>2, <1>3 DEF Becomes, VaultInv, VaultTypes
<1>5. SaltHasMaker' BY <1>1, <1>2, <1>3 DEF VaultInv, VaultTypes, SaltHasMaker
<1>6. SaltComesFirst' BY <1>1, <1>2, <1>3 DEF VaultInv, VaultTypes, SaltComesFirst
<1>7. OneSalt' BY <1>1, <1>2, <1>3 DEF VaultInv, OneSalt, Two, Opened, Keyed
<1>8. HasKey' BY <1>1, <1>2, <1>3 DEF VaultInv, HasKey, Keyed
<1>9. TornByWriter' BY <1>1, <1>2, <1>3 DEF VaultInv, TornByWriter
<1>10. OnlyChangesSave' BY <1>1, <1>2, <1>3 DEF VaultInv, OnlyChangesSave, SavePlaces
<1>11. OneChanges' BY <1>1, <1>2, <1>3 DEF VaultInv, OneChanges, Changing, VaultCallOpen
<1>12. ChangesInTurn'
  BY <1>1, <1>2, <1>3 DEF VaultInv, ChangesInTurn, SavePlaces, Contents, Opened, Applied
<1> QED BY <1>4, <1>5, <1>6, <1>7, <1>8, <1>9, <1>10, <1>11, <1>12 DEF VaultInv

LEMMA VaultStarts == VaultInit => VaultInv
<1> SUFFICES ASSUME VaultInit PROVE VaultInv OBVIOUS
<1>1. ColdCall \in VaultRecords /\ NoSecrets \in Secrets
  BY NoSecretsAre DEF ColdCall, VaultRecords
<1>2. VaultTypes BY <1>1 DEF VaultInit, VaultTypes
<1>3. \A c \in VaultCalls : vcall[c].at = "idle" BY DEF VaultInit, ColdCall
<1>4. vault = NoSecret /\ NoSecret # TornVault /\ unsalted = {} /\ salt = NoSecret /\ kept = NoSecrets
  BY VaultAssumption DEF VaultInit
<1> QED
  BY <1>2, <1>3, <1>4 DEF VaultInv, SaltHasMaker, SaltComesFirst, OneSalt, HasKey, Keyed,
     TornByWriter, OnlyChangesSave, SavePlaces, OneChanges, Changing, VaultCallOpen,
     ChangesInTurn, Contents, Opened

LEMMA VaultStep == VaultInv /\ [VaultNext]_vaultVars => VaultInv'
<1> SUFFICES ASSUME VaultInv, [VaultNext]_vaultVars PROVE VaultInv' OBVIOUS
<1>1. CASE VaultNext
  <2>1. PICK c \in VaultCalls :
          \/ \E op \in {"set", "get", "delete"}, ref \in Refs : CallVault(c, op, ref)
          \/ LoadNothing(c) \/ Decrypt(c) \/ MissSalt(c) \/ EmptySalt(c)
          \/ \E p \in Phrases : LoadKey(c, p) \/ SaveKey(c, p) \/ FillSalt(c, p)
          \/ EmptyVault(c) \/ FillVault(c) \/ VaultCrash(c)
    BY <1>1 DEF VaultNext
  <2> QED
    BY <2>1, CallVaultKeeps, LoadNothingKeeps, DecryptKeeps, MissSaltKeeps, EmptySaltKeeps,
       LoadKeyKeeps, SaveKeyKeeps, FillSaltKeeps, EmptyVaultKeeps, FillVaultKeeps,
       VaultCrashKeeps
<1>2. CASE UNCHANGED vaultVars
  BY <1>2 DEF vaultVars, VaultInv, VaultTypes, SaltHasMaker, SaltComesFirst, OneSalt, Two,
     HasKey, TornByWriter, OnlyChangesSave, OneChanges, Changing, VaultCallOpen, ChangesInTurn,
     Contents, Opened, Applied
<1> QED BY <1>1, <1>2

LEMMA VaultHolds == VaultInv => SecretsKept
<1> SUFFICES ASSUME VaultInv PROVE SecretsKept OBVIOUS
<1>1. ASSUME Opened, vault.key.salt # salt PROVE Cardinality(unsalted) > 1
  <2>1. PICK c \in unsalted, d \in unsalted : c # d BY <1>1 DEF VaultInv, OneSalt, Two
  <2>2. IsFiniteSet(unsalted) BY VaultAssumption, FS_Subset DEF VaultInv, VaultTypes
  <2>3. {c, d} \in SUBSET unsalted /\ IsFiniteSet({c}) /\ Cardinality({c}) = 1
    BY <2>1, FS_Singleton
  <2>4. IsFiniteSet({c} \cup {d}) /\ Cardinality({c} \cup {d}) = 2
    <3>1. /\ IsFiniteSet({c} \cup {d})
          /\ Cardinality({c} \cup {d}) = IF d \in {c} THEN Cardinality({c})
                                         ELSE Cardinality({c}) + 1
      BY ONLY <2>3, FS_AddElement
    <3> QED BY <2>1, <2>3, <3>1
  <2>5. Cardinality({c} \cup {d}) <= Cardinality(unsalted) /\ Cardinality(unsalted) \in Nat
    <3>1. {c} \cup {d} \in SUBSET unsalted OBVIOUS
    <3> QED BY <2>2, <3>1, FS_Subset, FS_CardinalityType
  <2> QED BY <2>4, <2>5
<1>2. ASSUME ~overlapped, ~diedWriting, \A c \in VaultCalls : ~Changing(c)
      PROVE  kept = IF Opened THEN vault.data ELSE NoSecrets
  <2>1. \A c \in VaultCalls : vcall[c].at # "writing"
    BY <1>2 DEF VaultInv, OnlyChangesSave, SavePlaces, Changing, VaultCallOpen
  <2> QED BY <1>2, <2>1 DEF VaultInv, ChangesInTurn, Contents
<1> QED BY <1>1, <1>2 DEF SecretsKept, VaultInv, TornByWriter

----------------------------------------------------------------------------
\* The stores that the processes of the workspace share keep what they were
\* given.  Of structured memory, a write that was answered stays in its file,
\* once and in its order, no later read of it returns an older value, and while
\* a call is under way one can go on, in whatever order the two locks are taken
\* and whichever process dies; of the vault of secrets, only two first saves at
\* once, a death while it is written and overlapping changes lose anything
\* (MemoryBus.exclusive and shared, the backends, EncryptedFileSecretStore).
THEOREM StoresAreKept == MCSpec => []StoresServe
<1>1. MCInit => MemoryInv /\ VaultInv BY MemoryStarts, VaultStarts DEF MCInit
<1>2. MemoryInv /\ VaultInv /\ [MCNext]_workspaceVars => (MemoryInv /\ VaultInv)'
  <2> SUFFICES ASSUME MemoryInv, VaultInv, [MCNext]_workspaceVars PROVE MemoryInv' /\ VaultInv'
    OBVIOUS
  <2>1. [MemoryNext]_memoryVars /\ [VaultNext]_vaultVars
    BY DEF MCNext, Only, workspaceVars
  <2> QED BY <2>1, MemoryMoves, VaultStep
<1>3. MemoryInv /\ VaultInv => StoresServe BY MemoryHolds, VaultHolds DEF StoresServe
<1> QED BY <1>1, <1>2, <1>3, PTL DEF MCSpec
=============================================================================
