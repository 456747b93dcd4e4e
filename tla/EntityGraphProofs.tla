---------------------------- MODULE EntityGraphProofs ----------------------------
(***************************************************************************)
(* Theorems about the graph of entities, from the two ends that write it:   *)
(* the scripts that fill it from documents (Bootstrap) and the              *)
(* administrators who edit it (GraphEdit).                                  *)
(*                                                                         *)
(* Bootstrap, for any documents, replies, groupings, chunk and batch sizes  *)
(* and bounds: names of any length become types that stay what they are     *)
(* (NamesConvertOnce); then BootstrapHolds follows a fact from the reply it  *)
(* was heard in through both files and the loader's batches into the graph, *)
(* and, the other way round, says of each row of a load without errors that *)
(* it is in the graph or in a batch still to come.                          *)
(*                                                                         *)
(* GraphEdit, for any number of nodes, requests, labels, names and          *)
(* relationship types, and any graph at the start that keeps to the schema: *)
(* the label of a node never changes while its id is not freed, so a copy   *)
(* read long ago still tells the label (NodesStay, CopiesStep); therefore   *)
(* the edge that is merged keeps to the schema.  A create looks for the     *)
(* name in the statement that writes it, so only a rename can make twins    *)
(* (TwinsStep), and that only if another request was open between its check *)
(* and its write (InTurnStep).                                              *)
(***************************************************************************)
EXTENDS Bootstrap, GraphEdit, FiniteSetTheorems, TLAPS

-----------------------------------------------------------------------------
(* Places of a sequence in ascending order                                  *)

\* A set of natural numbers has a least one.
LEMMA LeastPlace ==
  ASSUME NEW T, T \subseteq Nat, T # {}
  PROVE  \E m \in T : \A k \in T : m <= k
<1> DEFINE R == {ss \in Nat \X Nat : ss[1] < ss[2]}
<1>1. IsWellFoundedOn(R, Nat)
  BY NatLessThanWellFounded DEF OpToRel
<1> HIDE DEF R
<1>2. PICK m \in T : \A k \in T : <<k, m>> \notin R
  BY <1>1, WFMin
<1>3. \A k \in T : ~(k < m)
  BY <1>2 DEF R
<1> QED BY <1>3

\* How many of the places come before one.
Rank(T, i) == Cardinality({j \in T : j < i})

LEMMA Ranks ==
  ASSUME NEW n \in Nat, NEW T, T \subseteq 1 .. n
  PROVE  /\ IsFiniteSet(T) /\ Cardinality(T) \in Nat
         /\ \A i \in T : Rank(T, i) \in 0 .. Cardinality(T) - 1
         /\ \A i, j \in T : i < j => Rank(T, i) < Rank(T, j)
<1>1. IsFiniteSet(T) /\ Cardinality(T) \in Nat
  <2>1. IsFiniteSet(1 .. n)
    BY FS_Interval
  <2>2. IsFiniteSet(T)
    BY <2>1, FS_Subset
  <2> QED BY <2>2, FS_CardinalityType
<1>2. ASSUME NEW i \in T, NEW U, U \subseteq T, \A k \in T : k <= i => k \in U
      PROVE  Rank(T, i) \in Nat /\ Rank(T, i) < Cardinality(U) /\ Cardinality(U) <= Cardinality(T)
  <2> DEFINE B == {j \in T : j < i}
  <2>1. IsFiniteSet(U) /\ Cardinality(U) <= Cardinality(T) /\ Cardinality(U) \in Nat
    BY <1>1, <1>2, FS_Subset, FS_CardinalityType
  <2>2. IsFiniteSet(B) /\ Cardinality(B) \in Nat
    BY <1>1, FS_Subset, FS_CardinalityType
  <2>3. Cardinality(B \cup {i}) = Cardinality(B) + 1
    <3>1. i \notin B
      BY <1>2
    <3> QED BY <2>2, <3>1, FS_AddElement
  <2>4. B \cup {i} \subseteq U
    <3>1. \A k \in T : k \in Int /\ (k < i => k <= i)
      OBVIOUS
    <3>2. i \in U
      BY <1>2
    <3>3. \A k \in B : k \in U
      BY <1>2, <3>1
    <3> QED BY <3>2, <3>3
  <2>5. Cardinality(B \cup {i}) <= Cardinality(U)
    BY <2>1, <2>4, FS_Subset
  <2> QED BY <2>1, <2>2, <2>3, <2>5 DEF Rank
<1>3. ASSUME NEW i \in T PROVE Rank(T, i) \in 0 .. Cardinality(T) - 1
  <2>1. Rank(T, i) \in Nat /\ Rank(T, i) < Cardinality(T)
    BY <1>2, <1>3
  <2> QED BY <1>1, <2>1
<1>4. ASSUME NEW i \in T, NEW j \in T, i < j PROVE Rank(T, i) < Rank(T, j)
  <2> DEFINE B == {k \in T : k < j}
  <2>1. B \subseteq T /\ \A k \in T : k <= i => k \in B
    BY <1>4
  <2>2. Rank(T, i) < Cardinality(B)
    BY <1>2, <2>1
  <2> QED BY <2>2 DEF Rank
<1> QED BY <1>1, <1>3, <1>4

\* Every place comes at its rank.
LEMMA AscendingIs ==
  ASSUME NEW n \in Nat, NEW T, T \subseteq 1 .. n
  PROVE  /\ Cardinality(T) \in 0 .. n
         /\ Ascending(T) \in [1 .. Cardinality(T) -> T]
         /\ \A k, l \in 1 .. Cardinality(T) : k < l => Ascending(T)[k] < Ascending(T)[l]
         /\ \A i \in T : \E k \in 1 .. Cardinality(T) : Ascending(T)[k] = i
<1> DEFINE c == Cardinality(T)
           f == [i \in T |-> Rank(T, i) + 1]
<1>1. /\ IsFiniteSet(T) /\ c \in Nat
      /\ \A i \in T : Rank(T, i) \in 0 .. c - 1
      /\ \A i, j \in T : i < j => Rank(T, i) < Rank(T, j)
  BY Ranks
<1>2. \A i, j \in T : i # j => i < j \/ j < i
  OBVIOUS
<1>3. f \in Injection(T, 1 .. c)
  <2>1. f \in [T -> 1 .. c]
    BY <1>1
  <2>2. \A i, j \in T : f[i] = f[j] => i = j
    BY <1>1, <1>2
  <2> QED BY <2>1, <2>2 DEF Injection, IsInjective
<1>4. f \in Surjection(T, 1 .. c)
  <2>1. IsFiniteSet(1 .. c) /\ Cardinality(1 .. c) = c
    BY <1>1, FS_Interval
  <2> QED BY <1>3, <2>1, FS_Injection
<1>5. \A k \in 1 .. c : \E i \in T : Rank(T, i) = k - 1
  <2>1. \A k \in 1 .. c : \E i \in T : f[i] = k
    BY <1>4 DEF Surjection
  <2> QED BY <1>1, <2>1
<1>6. \A k \in 1 .. c : Ascending(T)[k] \in T /\ Rank(T, Ascending(T)[k]) = k - 1
  <2> SUFFICES ASSUME NEW k \in 1 .. c
               PROVE  Ascending(T)[k] \in T /\ Rank(T, Ascending(T)[k]) = k - 1
    OBVIOUS
  <2>1. Ascending(T)[k] = CHOOSE i \in T : Rank(T, i) = k - 1
    BY DEF Ascending, Rank
  <2> QED BY <1>5, <2>1
<1>7. Ascending(T) \in [1 .. c -> T]
  BY <1>6 DEF Ascending
<1>8. \A k, l \in 1 .. c : k < l => Ascending(T)[k] < Ascending(T)[l]
  <2> SUFFICES ASSUME NEW k \in 1 .. c, NEW l \in 1 .. c, k < l,
                      ~(Ascending(T)[k] < Ascending(T)[l])
               PROVE  FALSE
    OBVIOUS
  <2>1. Ascending(T)[k] \in T /\ Ascending(T)[l] \in T
    BY <1>6
  <2>2. Rank(T, Ascending(T)[k]) = k - 1 /\ Rank(T, Ascending(T)[l]) = l - 1
    BY <1>6
  <2> DEFINE a == Ascending(T)[k]
             b == Ascending(T)[l]
  <2>3. a # b
    BY <1>1, <2>2
  <2> HIDE DEF a, b
  <2>4. b < a
    BY <1>2, <2>1, <2>3 DEF a, b
  <2>5. Rank(T, b) < Rank(T, a)
    BY <1>1, <2>1, <2>4 DEF a, b
  <2> QED BY <1>1, <2>2, <2>5 DEF a, b
<1>9. \A i \in T : \E k \in 1 .. c : Ascending(T)[k] = i
  <2> SUFFICES ASSUME NEW i \in T PROVE \E k \in 1 .. c : Ascending(T)[k] = i
    OBVIOUS
  <2>1. Rank(T, i) + 1 \in 1 .. c
    BY <1>1
  <2> DEFINE j == Ascending(T)[Rank(T, i) + 1]
  <2>2. j \in T /\ Rank(T, j) = Rank(T, i)
    BY <1>1, <1>6, <2>1
  <2>3. j = i
    <3> HIDE DEF j
    <3>1. \A p, q \in T : p < q => Rank(T, p) # Rank(T, q)
      BY <1>1
    <3> QED BY <1>2, <2>2, <3>1
  <2> QED BY <2>1, <2>3
<1>10. c \in 0 .. n
  <2>1. IsFiniteSet(1 .. n) /\ Cardinality(1 .. n) = n
    BY FS_Interval
  <2>2. c <= n
    BY <2>1, FS_Subset
  <2> QED BY <1>1, <2>2
<1> QED BY <1>7, <1>8, <1>9, <1>10

\* What a sequence has at some places: its elements there, in their order.
LEMMA PickedIs ==
  ASSUME NEW A, NEW s \in Seq(A), NEW T, T \subseteq DOMAIN s
  PROVE  /\ Picked(s, T) \in Seq(A) /\ Len(Picked(s, T)) = Cardinality(T)
         /\ Len(Picked(s, T)) <= Len(s)
         /\ \A k \in 1 .. Cardinality(T) :
              Ascending(T)[k] \in T /\ Picked(s, T)[k] = s[Ascending(T)[k]]
         /\ \A k, l \in 1 .. Cardinality(T) : k < l => Ascending(T)[k] < Ascending(T)[l]
         /\ \A i \in T : \E k \in 1 .. Cardinality(T) : Ascending(T)[k] = i
<1>1. T \subseteq 1 .. Len(s) /\ Len(s) \in Nat
  OBVIOUS
<1>2. /\ Cardinality(T) \in 0 .. Len(s)
      /\ Ascending(T) \in [1 .. Cardinality(T) -> T]
      /\ \A k, l \in 1 .. Cardinality(T) : k < l => Ascending(T)[k] < Ascending(T)[l]
      /\ \A i \in T : \E k \in 1 .. Cardinality(T) : Ascending(T)[k] = i
  BY <1>1, AscendingIs
<1>3. \A k \in 1 .. Cardinality(T) : Ascending(T)[k] \in T /\ s[Ascending(T)[k]] \in A
  BY <1>1, <1>2
<1>4. Picked(s, T) = [k \in 1 .. Cardinality(T) |-> s[Ascending(T)[k]]]
  BY DEF Picked
<1> HIDE DEF Picked
<1>5. Picked(s, T) \in Seq(A) /\ Len(Picked(s, T)) = Cardinality(T)
  BY <1>2, <1>3, <1>4
<1> QED BY <1>2, <1>3, <1>4, <1>5

LEMMA IsList ==
  ASSUME NEW A, NEW n \in Nat, NEW f \in [1 .. n -> A]
  PROVE  f \in Seq(A) /\ Len(f) = n /\ DOMAIN f = 1 .. n /\ (f # <<>> <=> n # 0)
OBVIOUS

LEMMA ListIs ==
  ASSUME NEW A, NEW s \in Seq(A)
  PROVE  /\ Len(s) \in Nat /\ DOMAIN s = 1 .. Len(s) /\ s \in [1 .. Len(s) -> A]
         /\ \A i \in 1 .. Len(s) : s[i] \in A
         /\ (s = <<>> <=> Len(s) = 0) /\ \A i \in DOMAIN s : s # <<>> /\ 1 \in DOMAIN s
OBVIOUS

\* The first place, the last one, and two that follow each other.
LEMMA PickedEnds ==
  ASSUME NEW A, NEW s \in Seq(A), NEW T, T \subseteq DOMAIN s,
         NEW m, m = Cardinality(T), NEW g, g = Ascending(T), NEW p, p = Picked(s, T)
  PROVE  /\ m \in Nat /\ p \in Seq(A) /\ Len(p) = m /\ (p = <<>> <=> m = 0)
         /\ \A k \in 1 .. m : g[k] \in T /\ g[k] \in 1 .. Len(s) /\ p[k] = s[g[k]]
         /\ \A j \in T : g[1] <= j /\ j <= g[m]
         /\ \A k \in 1 .. m - 1 : g[k] < g[k + 1] /\ \A j \in T : j <= g[k] \/ g[k + 1] <= j
<1>1. /\ p \in Seq(A) /\ Len(p) = m
      /\ \A k \in 1 .. m : g[k] \in T /\ p[k] = s[g[k]]
      /\ \A k, l \in 1 .. m : k < l => g[k] < g[l]
      /\ \A j \in T : \E k \in 1 .. m : g[k] = j
  <2>1. /\ Picked(s, T) \in Seq(A) /\ Len(Picked(s, T)) = Cardinality(T)
        /\ \A k \in 1 .. Cardinality(T) :
             Ascending(T)[k] \in T /\ Picked(s, T)[k] = s[Ascending(T)[k]]
        /\ \A k, l \in 1 .. Cardinality(T) : k < l => Ascending(T)[k] < Ascending(T)[l]
        /\ \A j \in T : \E k \in 1 .. Cardinality(T) : Ascending(T)[k] = j
    BY PickedIs
  <2> QED BY <2>1
<1>2. m \in Nat /\ (p = <<>> <=> m = 0)
  BY <1>1, ListIs
<1>3. DOMAIN s = 1 .. Len(s) /\ Len(s) \in Nat
  BY ListIs
<1>4. \A j \in T : j \in 1 .. Len(s) /\ j \in Int
  BY <1>3
<1>5. \A k \in 1 .. m : g[k] \in T /\ g[k] \in 1 .. Len(s) /\ g[k] \in Int
  BY <1>1, <1>4
<1>6. \A k, l \in 1 .. m : k <= l => g[k] <= g[l]
  <2> SUFFICES ASSUME NEW k \in 1 .. m, NEW l \in 1 .. m, k <= l PROVE g[k] <= g[l]
    OBVIOUS
  <2>1. k = l \/ k < l
    BY <1>2
  <2>2. k < l => g[k] < g[l]
    BY <1>1
  <2> QED BY <1>5, <2>1, <2>2
<1>7. ASSUME NEW j \in T PROVE g[1] <= j /\ j <= g[m]
  <2>1. PICK k \in 1 .. m : g[k] = j
    BY <1>1
  <2>2. 1 \in 1 .. m /\ m \in 1 .. m /\ 1 <= k /\ k <= m
    BY <1>2
  <2> QED BY <1>6, <2>1, <2>2
<1>8. ASSUME NEW k \in 1 .. m - 1, NEW j \in T PROVE j <= g[k] \/ g[k + 1] <= j
  <2>1. PICK l \in 1 .. m : g[l] = j
    BY <1>1
  <2>2. k \in 1 .. m /\ k + 1 \in 1 .. m /\ (l <= k \/ k + 1 <= l)
    BY <1>2
  <2> QED BY <1>6, <2>1, <2>2
<1>9. \A k \in 1 .. m - 1 : g[k] < g[k + 1]
  <2>1. \A k \in 1 .. m - 1 : k \in 1 .. m /\ k + 1 \in 1 .. m /\ k < k + 1
    BY <1>2
  <2> QED BY <1>1, <2>1
<1> QED BY <1>1, <1>2, <1>5, <1>7, <1>8, <1>9

\* The elements that are picked are those at the places.
LEMMA PickedRange ==
  ASSUME NEW A, NEW s \in Seq(A), NEW T, T \subseteq DOMAIN s
  PROVE  Range(Picked(s, T)) = {s[i] : i \in T}
<1>1. Picked(s, T) \in Seq(A) /\ Len(Picked(s, T)) = Cardinality(T)
  BY PickedIs
<1>2. \A k \in 1 .. Cardinality(T) :
        Ascending(T)[k] \in T /\ Picked(s, T)[k] = s[Ascending(T)[k]]
  BY PickedIs
<1>3. \A i \in T : \E k \in 1 .. Cardinality(T) : Picked(s, T)[k] = s[i]
  BY <1>2, PickedIs
<1>4. DOMAIN Picked(s, T) = 1 .. Cardinality(T)
  BY <1>1
<1> QED BY <1>2, <1>3, <1>4 DEF Range

\* The only way to list places in ascending order.
LEMMA AscendingOnly ==
  ASSUME NEW n \in Nat, NEW T, T \subseteq 1 .. n, NEW m \in Nat, NEW g \in [1 .. m -> T],
         \A k, l \in 1 .. m : k < l => g[k] < g[l],
         \A i \in T : \E k \in 1 .. m : g[k] = i
  PROVE  Cardinality(T) = m /\ Ascending(T) = g
<1>0. \A k \in 1 .. m : g[k] \in T /\ g[k] \in Int
  <2>1. \A k \in 1 .. m : g[k] \in T
    OBVIOUS
  <2>2. \A i \in T : i \in Int
    OBVIOUS
  <2> QED BY <2>1, <2>2
<1>1. ASSUME NEW i \in 0 .. m, NEW U, U = {g[k] : k \in 1 .. i}
      PROVE  Cardinality(U) = i
  <2> DEFINE h == [k \in 1 .. i |-> g[k]]
  <2>1. h \in Bijection(1 .. i, U)
    <3>1. h \in [1 .. i -> U]
      BY <1>1
    <3>2. \A k, l \in 1 .. i : h[k] = h[l] => k = l
      <4> SUFFICES ASSUME NEW k \in 1 .. i, NEW l \in 1 .. i, h[k] = h[l], k # l PROVE FALSE
        OBVIOUS
      <4>1. k \in 1 .. m /\ l \in 1 .. m /\ g[k] = g[l]
        BY <1>1
      <4>2. k < l \/ l < k
        OBVIOUS
      <4>3. g[k] < g[l] \/ g[l] < g[k]
        BY <4>1, <4>2
      <4> QED BY <1>0, <4>1, <4>3
    <3>3. \A u \in U : \E k \in 1 .. i : h[k] = u
      BY <1>1
    <3> QED BY <3>1, <3>2, <3>3 DEF Bijection, Injection, Surjection, IsInjective
  <2>2. IsFiniteSet(1 .. i) /\ Cardinality(1 .. i) = i
    BY FS_Interval
  <2>3. ExistsBijection(1 .. i, U)
    BY <2>1 DEF ExistsBijection
  <2> HIDE DEF h
  <2> QED BY <2>2, <2>3, FS_Bijection
<1>2. Cardinality(T) = m
  <2>1. T = {g[k] : k \in 1 .. m}
    OBVIOUS
  <2> QED BY <1>1, <2>1
<1>3. ASSUME NEW k \in 1 .. m PROVE Rank(T, g[k]) = k - 1
  <2>1. {j \in T : j < g[k]} = {g[l] : l \in 1 .. k - 1}
    <3>1. ASSUME NEW l \in 1 .. m PROVE g[l] < g[k] <=> l \in 1 .. k - 1
      <4>1. l < k \/ l = k \/ k < l
        OBVIOUS
      <4>2. g[l] \in Int /\ g[k] \in Int
        BY <1>0
      <4>3. (l < k => g[l] < g[k]) /\ (k < l => g[k] < g[l])
        OBVIOUS
      <4> QED BY <4>1, <4>2, <4>3
    <3>2. ASSUME NEW j \in T, j < g[k] PROVE j \in {g[l] : l \in 1 .. k - 1}
      <4>1. PICK l \in 1 .. m : g[l] = j
        OBVIOUS
      <4> QED BY <3>1, <3>2, <4>1
    <3>3. ASSUME NEW l \in 1 .. k - 1 PROVE g[l] \in T /\ g[l] < g[k]
      BY <1>0, <3>1
    <3> QED BY <3>2, <3>3
  <2>2. k - 1 \in 0 .. m
    OBVIOUS
  <2> QED BY <1>1, <2>1, <2>2 DEF Rank
<1>4. \A i, j \in T : i # j => Rank(T, i) # Rank(T, j)
  <2>1. \A i, j \in T : i # j => i < j \/ j < i
    OBVIOUS
  <2>2. \A i, j \in T : /\ i < j => Rank(T, i) < Rank(T, j)
                        /\ Rank(T, i) \in 0 .. Cardinality(T) - 1
    BY Ranks
  <2> QED BY <1>2, <2>1, <2>2
<1>5. ASSUME NEW k \in 1 .. m PROVE Ascending(T)[k] = g[k]
  <2>1. Ascending(T)[k] = CHOOSE i \in T : Rank(T, i) = k - 1
    BY <1>2 DEF Ascending, Rank
  <2>2. g[k] \in T /\ Rank(T, g[k]) = k - 1
    BY <1>3
  <2>3. \A i \in T : Rank(T, i) = k - 1 => i = g[k]
    BY <1>4, <2>2
  <2> QED BY <2>1, <2>2, <2>3
<1>6. Ascending(T) \in [1 .. m -> T]
  BY <1>2, AscendingIs
<1> QED BY <1>2, <1>5, <1>6

\* What is picked at all places is the sequence.
LEMMA AllPicked ==
  ASSUME NEW A, NEW s \in Seq(A)
  PROVE  Picked(s, DOMAIN s) = s
<1> DEFINE g == [k \in 1 .. Len(s) |-> k]
<1>1. Cardinality(1 .. Len(s)) = Len(s) /\ Ascending(1 .. Len(s)) = g
  BY AscendingOnly
<1>2. DOMAIN s = 1 .. Len(s) /\ s = [k \in 1 .. Len(s) |-> s[k]]
  OBVIOUS
<1> QED BY <1>1, <1>2 DEF Picked

-----------------------------------------------------------------------------
(* Converting a name again changes nothing                                  *)

LEMMA UnderscoredIs ==
  ASSUME NEW s \in Seq(Kinds)
  PROVE  /\ Underscored(s) \in Seq(Kinds) /\ Len(Underscored(s)) = Len(s)
         /\ DOMAIN Underscored(s) = DOMAIN s
         /\ \A i \in DOMAIN s :
              /\ Underscored(s)[i] = IF s[i] \in {" ", "-"} THEN "_" ELSE s[i]
              /\ Underscored(s)[i] = "A" <=> s[i] = "A"
              /\ Underscored(s)[i] = "a" <=> s[i] = "a"
         /\ Underscored(Underscored(s)) = Underscored(s)
<1> DEFINE n == Len(s)
           u == Underscored(s)
           Under(c) == IF c \in {" ", "-"} THEN "_" ELSE c
<1>1. n \in Nat /\ DOMAIN s = 1 .. n /\ \A i \in 1 .. n : s[i] \in Kinds
  OBVIOUS
<1>2. u = [i \in 1 .. n |-> Under(s[i])]
  BY <1>1 DEF Underscored
<1>3. \A c \in Kinds : /\ Under(c) \in Kinds /\ Under(Under(c)) = Under(c)
                       /\ Under(c) = "A" <=> c = "A"
                       /\ Under(c) = "a" <=> c = "a"
  BY DEF Kinds
<1> HIDE DEF n, u, Under
<1>4. u \in [1 .. n -> Kinds]
  BY <1>1, <1>2, <1>3
<1>5. u \in Seq(Kinds) /\ Len(u) = n /\ DOMAIN u = 1 .. n
  BY <1>1, <1>4, IsList
<1>6. Underscored(u) = [i \in 1 .. n |-> Under(u[i])]
  BY <1>5 DEF Underscored, Under
<1>7. \A i \in 1 .. n : u[i] = Under(s[i]) /\ Under(u[i]) = u[i]
  BY <1>1, <1>2, <1>3
<1>8. Underscored(u) = u
  BY <1>2, <1>6, <1>7
<1> QED BY <1>1, <1>3, <1>5, <1>7, <1>8 DEF u, n, Under

\* With room for an underscore nowhere, only the capitals change.
LEMMA PartedNowhere ==
  ASSUME NEW s \in Seq(Kinds)
  PROVE  Parted(s, {}) = [i \in DOMAIN s |-> Up(s[i])]
<1> DEFINE n == Len(s)
           both == [k \in 1 .. 2 * n |-> IF k % 2 = 1 THEN "_" ELSE Up(s[k \div 2])]
           T == {2 * i : i \in DOMAIN s}
           g == [i \in 1 .. n |-> 2 * i]
<1>1. n \in Nat /\ DOMAIN s = 1 .. n
  OBVIOUS
<1>2. T \subseteq 1 .. 2 * n /\ 2 * n \in Nat
  BY <1>1
<1>3. g \in [1 .. n -> T] /\ \A k, l \in 1 .. n : k < l => g[k] < g[l]
  BY <1>1
<1>4. \A i \in T : \E k \in 1 .. n : g[k] = i
  BY <1>1
<1>5. Cardinality(T) = n /\ Ascending(T) = g
  <2> HIDE DEF n, T, g
  <2> QED BY <1>1, <1>2, <1>3, <1>4, AscendingOnly
<1>6. Parted(s, {}) = Picked(both, T)
  <2>1. {2 * i : i \in DOMAIN s} \cup {2 * i - 1 : i \in {}} = T
    OBVIOUS
  <2> QED BY <2>1 DEF Parted
<1>7. Picked(both, T) = [k \in 1 .. n |-> both[g[k]]]
  <2> HIDE DEF n, T, g, both
  <2> QED BY <1>5 DEF Picked
<1>8. \A k \in 1 .. n : both[g[k]] = Up(s[k])
  <2> SUFFICES ASSUME NEW k \in 1 .. n PROVE both[g[k]] = Up(s[k])
    OBVIOUS
  <2>1. 2 * k \in 1 .. 2 * n /\ (2 * k) % 2 # 1 /\ (2 * k) \div 2 = k
    BY <1>1
  <2> QED BY <2>1
<1> HIDE DEF n, T, g, both
<1> QED BY <1>1, <1>6, <1>7, <1>8

LEMMA PartedIs ==
  ASSUME NEW s \in Seq(Kinds), NEW P, P \subseteq DOMAIN s
  PROVE  Parted(s, P) \in Seq(Kinds \ {"a"})
<1> DEFINE n == Len(s)
           both == [k \in 1 .. 2 * n |-> IF k % 2 = 1 THEN "_" ELSE Up(s[k \div 2])]
           T == {2 * i : i \in DOMAIN s} \cup {2 * i - 1 : i \in P}
<1>1. n \in Nat /\ DOMAIN s = 1 .. n /\ \A i \in 1 .. n : s[i] \in Kinds
  OBVIOUS
<1>2. both \in Seq(Kinds \ {"a"})
  <2>1. ASSUME NEW k \in 1 .. 2 * n, k % 2 # 1 PROVE k \div 2 \in 1 .. n
    <3>1. k \in Int /\ n \in Int /\ 1 <= k /\ k <= 2 * n
      BY <1>1
    <3> HIDE DEF n
    <3> QED BY <2>1, <3>1
  <2>2. \A k \in 1 .. 2 * n : (IF k % 2 = 1 THEN "_" ELSE Up(s[k \div 2])) \in Kinds \ {"a"}
    BY <1>1, <2>1 DEF Up, Kinds
  <2>3. 2 * n \in Nat
    BY <1>1
  <2>4. both \in [1 .. 2 * n -> Kinds \ {"a"}]
    BY <2>2
  <2> HIDE DEF both
  <2> QED BY <2>3, <2>4, IsList
<1>3. T \subseteq DOMAIN both
  <2>1. \A i \in 1 .. n : 2 * i \in 1 .. 2 * n /\ 2 * i - 1 \in 1 .. 2 * n
    BY <1>1
  <2> QED BY <1>1, <2>1
<1>4. Picked(both, T) \in Seq(Kinds \ {"a"})
  <2> HIDE DEF both, T
  <2> QED BY <1>2, <1>3, PickedIs
<1> QED BY <1>4 DEF Parted

LEMMA SnakeIs ==
  ASSUME NEW s \in Seq(Kinds)
  PROVE  /\ ToScreamingSnake(s) \in Seq(Kinds)
         /\ ToScreamingSnake(ToScreamingSnake(s)) = ToScreamingSnake(s)
<1> DEFINE snake == ToScreamingSnake(s)
<1>1. CASE IsUpper(s)
  <2>1. snake = Underscored(s)
    BY <1>1 DEF ToScreamingSnake
  <2>2. IsUpper(snake)
    <3>0. /\ DOMAIN Underscored(s) = DOMAIN s
          /\ \A i \in DOMAIN s : /\ Underscored(s)[i] = "A" <=> s[i] = "A"
                                 /\ Underscored(s)[i] = "a" <=> s[i] = "a"
      BY UnderscoredIs
    <3>1. /\ DOMAIN snake = DOMAIN s
          /\ \A i \in DOMAIN s : /\ snake[i] = "A" <=> s[i] = "A"
                                 /\ snake[i] = "a" <=> s[i] = "a"
      <4> HIDE DEF snake
      <4> QED BY <2>1, <3>0
    <3> HIDE DEF snake
    <3> QED BY <1>1, <3>1 DEF IsUpper, Range
  <2>3. ToScreamingSnake(snake) = Underscored(snake)
    BY <2>2 DEF ToScreamingSnake
  <2> QED BY <2>1, <2>3, UnderscoredIs
<1>2. CASE ~IsUpper(s)
  <2> DEFINE p == Parted(s, {i \in 2 .. Len(s) : s[i] = "A"})
  <2>1. snake = Underscored(p)
    BY <1>2 DEF ToScreamingSnake
  <2>2. p \in Seq(Kinds \ {"a"})
    <3>1. {i \in 2 .. Len(s) : s[i] = "A"} \subseteq DOMAIN s
      OBVIOUS
    <3> QED BY <3>1, PartedIs
  <2> HIDE DEF p
  <2>3. p \in Seq(Kinds) /\ \A i \in DOMAIN p : p[i] # "a"
    BY <2>2
  <2>4. /\ snake \in Seq(Kinds) /\ Underscored(snake) = snake
        /\ \A i \in DOMAIN snake : snake[i] # "a"
    <3>1. /\ Underscored(p) \in Seq(Kinds) /\ DOMAIN Underscored(p) = DOMAIN p
          /\ \A i \in DOMAIN p : Underscored(p)[i] = "a" <=> p[i] = "a"
          /\ Underscored(Underscored(p)) = Underscored(p)
      BY <2>3, UnderscoredIs
    <3> QED BY <2>1, <2>3, <3>1
  <2> HIDE DEF snake
  <2>5. CASE "A" \in Range(snake)
    <3>1. IsUpper(snake)
      BY <2>4, <2>5 DEF IsUpper, Range
    <3> QED BY <2>4, <3>1 DEF ToScreamingSnake, snake
  <2>6. CASE "A" \notin Range(snake)
    <3>1. ~IsUpper(snake) /\ {i \in 2 .. Len(snake) : snake[i] = "A"} = {}
      BY <2>4, <2>6 DEF IsUpper, Range
    <3>2. Parted(snake, {}) = snake
      <4>1. Parted(snake, {}) = [i \in DOMAIN snake |-> Up(snake[i])]
        BY <2>4, PartedNowhere
      <4>2. \A i \in DOMAIN snake : Up(snake[i]) = snake[i]
        BY <2>4 DEF Up
      <4>3. snake = [i \in DOMAIN snake |-> snake[i]]
        BY <2>4
      <4> QED BY <4>1, <4>2, <4>3
    <3>3. ToScreamingSnake(snake) = snake
      BY <2>4, <3>1, <3>2 DEF ToScreamingSnake
    <3> QED BY <2>4, <3>3 DEF snake
  <2> QED BY <2>5, <2>6
<1> QED BY <1>1, <1>2

\* Letters in two cases, and what they are no longer
LEMMA CasesOf ==
  \A c \in Kinds : /\ Up(c) \in Kinds \ {"a"} /\ Down(c) \in Kinds
                   /\ Up(Up(c)) = Up(c) /\ (c # "a" => Up(c) = c)
                   /\ (c \notin {" ", "_"} => /\ Up(c) \notin {" ", "_"}
                                              /\ Down(c) \notin {" ", "_"})
BY DEF Up, Down, Kinds

\* A name without separators that begins with no small letter stays as it is.
LEMMA PascalStays ==
  ASSUME NEW p \in Seq(Kinds), \A i \in 1 .. Len(p) : p[i] \notin {" ", "_"},
         p # <<>> => p[1] # "a"
  PROVE  ToPascalCase(p) = p
<1>1. DOMAIN p = 1 .. Len(p) /\ p \in [1 .. Len(p) -> Kinds] /\ \A i \in DOMAIN p : p # <<>>
  BY ListIs
<1>2. ToPascalCase(p) = [i \in DOMAIN p |-> IF i = 1 THEN Up(p[i]) ELSE p[i]]
  BY <1>1 DEF ToPascalCase, Separated, Range
<1>3. \A i \in DOMAIN p : (IF i = 1 THEN Up(p[i]) ELSE p[i]) = p[i]
  BY <1>1 DEF Up
<1> QED BY <1>1, <1>2, <1>3

\* What is left of a name that has separators
Cased(s) == [i \in DOMAIN s |-> IF Begins(s, i) THEN Up(s[i]) ELSE Down(s[i])]
Letters(s) == {i \in DOMAIN s : s[i] \notin {" ", "_"}}

LEMMA PascalOfSeparated ==
  ASSUME NEW s \in Seq(Kinds), NEW p, p = Picked(Cased(s), Letters(s))
  PROVE  /\ p \in Seq(Kinds) /\ \A i \in 1 .. Len(p) : p[i] \notin {" ", "_"}
         /\ p # <<>> => p[1] # "a"
<1>1. DOMAIN s = 1 .. Len(s) /\ Len(s) \in Nat /\ \A i \in 1 .. Len(s) : s[i] \in Kinds
  BY ListIs
<1>2. Cased(s) \in [1 .. Len(s) -> Kinds]
  BY <1>1, CasesOf DEF Cased
<1>3. Cased(s) \in Seq(Kinds) /\ DOMAIN Cased(s) = DOMAIN s
  BY <1>1, <1>2, IsList
<1>4. Letters(s) \subseteq DOMAIN Cased(s)
  BY <1>3 DEF Letters
<1>5. \A i \in Letters(s) :
        Cased(s)[i] \notin {" ", "_"} /\ (Begins(s, i) => Cased(s)[i] # "a")
  BY <1>1, CasesOf DEF Cased, Letters
<1> PICK m, g : m = Cardinality(Letters(s)) /\ g = Ascending(Letters(s))
  OBVIOUS
<1>6. /\ m \in Nat /\ p \in Seq(Kinds) /\ Len(p) = m /\ (p = <<>> <=> m = 0)
      /\ \A k \in 1 .. m : g[k] \in Letters(s) /\ p[k] = Cased(s)[g[k]]
      /\ \A j \in Letters(s) : g[1] <= j
  BY <1>3, <1>4, PickedEnds
<1>7. \A k \in 1 .. m : p[k] \notin {" ", "_"}
  BY <1>5, <1>6
<1>8. ASSUME p # <<>> PROVE p[1] # "a"
  <2>0. m \in Nat /\ m # 0
    BY <1>6, <1>8
  <2>1. 1 \in 1 .. m
    BY <2>0
  <2>2. g[1] \in Letters(s) /\ p[1] = Cased(s)[g[1]] /\ g[1] \in 1 .. Len(s)
    BY <1>1, <1>6, <2>1 DEF Letters
  <2>3. ASSUME g[1] # 1 PROVE s[g[1] - 1] \in {" ", "_"}
    <3>0. \A i \in 1 .. Len(s) : i # 1 => i - 1 \in 1 .. Len(s) /\ ~(i <= i - 1)
      BY <1>1
    <3>1. g[1] - 1 \in 1 .. Len(s) /\ ~(g[1] <= g[1] - 1)
      BY <2>2, <2>3, <3>0
    <3>2. g[1] - 1 \notin Letters(s)
      BY <1>6, <3>1
    <3> QED BY <1>1, <3>1, <3>2 DEF Letters
  <2> QED BY <1>5, <2>2, <2>3 DEF Begins
<1> QED BY <1>6, <1>7, <1>8

LEMMA PascalTwice ==
  ASSUME NEW s \in Seq(Kinds)
  PROVE  ToPascalCase(ToPascalCase(s)) = ToPascalCase(s)
<1>1. PICK p : p = ToPascalCase(s)
  OBVIOUS
<1>2. /\ p \in Seq(Kinds) /\ \A i \in 1 .. Len(p) : p[i] \notin {" ", "_"}
      /\ p # <<>> => p[1] # "a"
  <2>1. CASE Separated(s)
    <3>1. p = Picked(Cased(s), Letters(s))
      BY <1>1, <2>1 DEF ToPascalCase, Cased, Letters
    <3> QED BY <3>1, PascalOfSeparated
  <2>2. CASE ~Separated(s)
    <3>1. p = [i \in DOMAIN s |-> IF i = 1 THEN Up(s[i]) ELSE s[i]]
      BY <1>1, <2>2 DEF ToPascalCase
    <3>2. \A i \in DOMAIN s : s[i] \notin {" ", "_"}
      BY <2>2 DEF Separated, Range
    <3>3. DOMAIN s = 1 .. Len(s) /\ Len(s) \in Nat /\ \A i \in 1 .. Len(s) : s[i] \in Kinds
      BY ListIs
    <3>4. p \in [1 .. Len(s) -> Kinds]
      BY <3>1, <3>3, CasesOf
    <3>5. p \in Seq(Kinds) /\ Len(p) = Len(s) /\ (p # <<>> => 1 \in 1 .. Len(s))
      <4>1. p \in Seq(Kinds) /\ Len(p) = Len(s) /\ (p # <<>> => Len(s) # 0)
        BY <3>3, <3>4, IsList
      <4> QED BY <3>3, <4>1
    <3>6. \A i \in 1 .. Len(p) : p[i] \notin {" ", "_"}
      BY <3>1, <3>2, <3>3, <3>5, CasesOf
    <3>7. p # <<>> => p[1] # "a"
      BY <3>1, <3>3, <3>5, CasesOf
    <3> QED BY <3>5, <3>6, <3>7
  <2> QED BY <2>1, <2>2
<1> QED BY <1>1, <1>2, PascalStays

\* What types are made of
Alphabet == {"A", "k", "1", "_"}
Blank(c) == c = "_"
Clean(c) == IF c \in {"a", "A", "k", "1"} THEN Up(c) ELSE "_"

LEMMA CleanedIs ==
  ASSUME NEW s \in Seq(Kinds)
  PROVE  /\ Cleaned(s) \in Seq(Alphabet) /\ Len(Cleaned(s)) = Len(s)
         /\ \A i \in 1 .. Len(s) : Cleaned(s)[i] = Clean(s[i])
<1>1. DOMAIN s = 1 .. Len(s) /\ Len(s) \in Nat /\ \A i \in 1 .. Len(s) : s[i] \in Kinds
  BY ListIs
<1>2. Cleaned(s) = [i \in 1 .. Len(s) |-> Clean(s[i])]
  BY <1>1 DEF Cleaned, Clean
<1>3. \A c \in Kinds : Clean(c) \in Alphabet
  BY DEF Up, Clean, Alphabet, Kinds
<1>4. Cleaned(s) \in [1 .. Len(s) -> Alphabet]
  BY <1>1, <1>2, <1>3
<1> QED BY <1>1, <1>2, <1>4, IsList

\* Neighbours among the places of a sequence
LEMMA Neighbours ==
  ASSUME NEW n \in Nat
  PROVE  /\ n # 0 => 1 \in 1 .. n /\ n \in 1 .. n
         /\ \A i \in 1 .. n : i # 1 => /\ i > 1 /\ i - 1 \in 1 .. n /\ i - 1 \in 1 .. n - 1
                                       /\ (i - 1) + 1 = i
         /\ \A i \in 1 .. n : ~(i <= i - 1)
         /\ \A i \in 1 .. n : i # n => n \in i + 1 .. n
         /\ \A k \in 1 .. n - 1 : k \in 1 .. n /\ k + 1 \in 1 .. n
         /\ \A i \in 1 .. n : \A j \in i + 1 .. n : j \in 1 .. n /\ i < j
         /\ \A i, j \in 1 .. n : /\ ~(i < j /\ j <= i)
                                 /\ (i < j /\ j - 1 <= i => i = j - 1)
OBVIOUS

\* The places that Squeezed keeps
Single(s) == {i \in DOMAIN s :
                Blank(s[i]) => /\ i > 1 /\ ~Blank(s[i - 1])
                               /\ \E j \in i + 1 .. Len(s) : ~Blank(s[j])}

LEMMA SqueezedPicks == \A s : Squeezed(s) = Picked(s, Single(s))
BY DEF Squeezed, Single, Blank

\* No underscore at either end and no two that follow each other
Spaced(s) == /\ Len(s) \in Nat \ {0} /\ ~Blank(s[1]) /\ ~Blank(s[Len(s)])
             /\ \A k \in 1 .. Len(s) - 1 : ~Blank(s[k]) \/ ~Blank(s[k + 1])

LEMMA SqueezedIs ==
  ASSUME NEW s \in Seq(Alphabet), NEW p, p = Squeezed(s), p # <<>>
  PROVE  p \in Seq(Alphabet) /\ Spaced(p)
<1>1. DOMAIN s = 1 .. Len(s) /\ Len(s) \in Nat
  BY ListIs
<1>2. Single(s) \subseteq DOMAIN s
  BY DEF Single
<1>3. p = Picked(s, Single(s))
  BY SqueezedPicks
<1> PICK m, g : m = Cardinality(Single(s)) /\ g = Ascending(Single(s))
  OBVIOUS
<1>4. /\ m \in Nat /\ p \in Seq(Alphabet) /\ Len(p) = m /\ (p = <<>> <=> m = 0)
      /\ \A k \in 1 .. m : g[k] \in Single(s) /\ g[k] \in 1 .. Len(s) /\ p[k] = s[g[k]]
      /\ \A j \in Single(s) : g[1] <= j /\ j <= g[m]
      /\ \A k \in 1 .. m - 1 :
           g[k] < g[k + 1] /\ \A j \in Single(s) : j <= g[k] \/ g[k + 1] <= j
  BY <1>2, <1>3, PickedEnds
<1>5. m \in Nat /\ m # 0
  BY <1>4
<1>6. 1 \in 1 .. m /\ m \in 1 .. m /\ \A k \in 1 .. m - 1 : k \in 1 .. m /\ k + 1 \in 1 .. m
  BY <1>5, Neighbours
<1>7. \A j \in 1 .. Len(s) : ~Blank(s[j]) => j \in Single(s)
  BY <1>1 DEF Single
<1>8. ASSUME NEW i \in Single(s), Blank(s[i])
      PROVE  /\ i - 1 \in Single(s) /\ ~Blank(s[i - 1])
             /\ \E j \in Single(s) : i < j
  <2>1. /\ i \in 1 .. Len(s) /\ i > 1 /\ ~Blank(s[i - 1])
        /\ \E j \in i + 1 .. Len(s) : ~Blank(s[j])
    BY <1>1, <1>8 DEF Single
  <2>2. i # 1
    BY <2>1
  <2>3. i - 1 \in 1 .. Len(s) /\ \A j \in i + 1 .. Len(s) : j \in 1 .. Len(s) /\ i < j
    BY <1>1, <2>1, <2>2, Neighbours
  <2> QED BY <1>7, <2>1, <2>3
<1>9. ~Blank(p[1])
  <2>1. SUFFICES ASSUME Blank(p[1]) PROVE FALSE
    OBVIOUS
  <2>2. g[1] \in Single(s) /\ g[1] \in 1 .. Len(s) /\ Blank(s[g[1]])
    BY <1>4, <1>6, <2>1
  <2>3. g[1] <= g[1] - 1
    BY <1>4, <1>8, <2>2
  <2> QED BY <1>1, <2>2, <2>3, Neighbours
<1>10. ~Blank(p[m])
  <2>1. SUFFICES ASSUME Blank(p[m]) PROVE FALSE
    OBVIOUS
  <2>2. g[m] \in Single(s) /\ g[m] \in 1 .. Len(s) /\ Blank(s[g[m]])
    BY <1>4, <1>6, <2>1
  <2>3. PICK j \in Single(s) : g[m] < j
    BY <1>8, <2>2
  <2>4. j <= g[m] /\ j \in 1 .. Len(s)
    BY <1>1, <1>2, <1>4
  <2> QED BY <1>1, <2>2, <2>3, <2>4, Neighbours
<1>11. ASSUME NEW k \in 1 .. m - 1, Blank(p[k]), Blank(p[k + 1]) PROVE FALSE
  <2>1. /\ g[k] \in 1 .. Len(s) /\ Blank(s[g[k]])
        /\ g[k + 1] \in Single(s) /\ g[k + 1] \in 1 .. Len(s) /\ Blank(s[g[k + 1]])
        /\ g[k] < g[k + 1]
    BY <1>4, <1>6, <1>11
  <2>2. g[k + 1] - 1 \in Single(s) /\ ~Blank(s[g[k + 1] - 1])
    BY <1>8, <2>1
  <2>3. g[k + 1] - 1 <= g[k] \/ g[k + 1] <= g[k + 1] - 1
    BY <1>4, <2>2
  <2>4. g[k + 1] - 1 # g[k]
    BY <2>1, <2>2
  <2> QED BY <1>1, <2>1, <2>3, <2>4, Neighbours
<1> QED BY <1>4, <1>5, <1>9, <1>10, <1>11 DEF Spaced

LEMMA TypesAreSpaced ==
  ASSUME NEW s \in Seq(Kinds), s # <<>>
  PROVE  IsType(s) <=> /\ s \in Seq(Alphabet) /\ Spaced(s) /\ s[1] # "1"
<1>1. /\ DOMAIN s = 1 .. Len(s) /\ Len(s) \in Nat \ {0} /\ s \in [1 .. Len(s) -> Kinds]
  BY ListIs
<1>2. (Range(s) \subseteq Alphabet) <=> (s \in [1 .. Len(s) -> Alphabet])
  BY <1>1 DEF Range
<1>3. (s \in [1 .. Len(s) -> Alphabet]) <=> (s \in Seq(Alphabet))
  BY <1>1, IsList, ListIs
<1> QED BY <1>1, <1>2, <1>3 DEF IsType, Spaced, Blank, Alphabet

\* A type stays as it is, unless it is too long now.
LEMMA TypeStays ==
  ASSUME NEW s \in Seq(Kinds), s # <<>>, IsType(s), ~(Len(s) > MaxRelationTypeLength)
  PROVE  NormalizeRelationType(s) = s
<1>1. /\ DOMAIN s = 1 .. Len(s) /\ Len(s) \in Nat /\ s \in [1 .. Len(s) -> Kinds]
  BY ListIs
<1>2. s \in Seq(Alphabet) /\ Spaced(s) /\ s[1] # "1"
  BY TypesAreSpaced
<1>3. Cleaned(s) = s
  <2>1. Cleaned(s) = [i \in 1 .. Len(s) |-> Clean(s[i])]
    BY <1>1 DEF Cleaned, Clean
  <2>2. \A c \in Alphabet : Clean(c) = c
    BY DEF Clean, Up, Alphabet
  <2>3. \A i \in 1 .. Len(s) : Clean(s[i]) = s[i]
    BY <1>2, <2>2, ListIs
  <2> QED BY <1>1, <2>1, <2>3
<1>4. Single(s) = DOMAIN s
  <2>1. /\ ~Blank(s[1]) /\ ~Blank(s[Len(s)])
        /\ \A k \in 1 .. Len(s) - 1 : ~Blank(s[k]) \/ ~Blank(s[k + 1])
    BY <1>2 DEF Spaced
  <2>2. ASSUME NEW i \in 1 .. Len(s), Blank(s[i])
        PROVE  /\ i > 1 /\ ~Blank(s[i - 1]) /\ \E j \in i + 1 .. Len(s) : ~Blank(s[j])
    <3>1. i # 1 /\ i # Len(s)
      BY <2>1, <2>2
    <3>2. i > 1 /\ i - 1 \in 1 .. Len(s) - 1 /\ (i - 1) + 1 = i /\ Len(s) \in i + 1 .. Len(s)
      BY <1>1, <3>1, Neighbours
    <3>3. ~Blank(s[i - 1]) \/ ~Blank(s[(i - 1) + 1])
      BY <2>1, <3>2
    <3> QED BY <2>1, <2>2, <3>2, <3>3
  <2> QED BY <1>1, <2>2 DEF Single
<1>5. Squeezed(s) = s
  BY <1>4, SqueezedPicks, AllPicked
<1> QED BY <1>2, <1>3, <1>5 DEF NormalizeRelationType

\* With a prefix, what begins with a digit is spaced as well.
Prefix == <<"A", "A", "A", "_">>

LEMMA PrefixIs ==
  /\ Prefix \in Seq(Alphabet) /\ Len(Prefix) = 4 /\ Prefix[1] = "A"
  /\ ~Blank(Prefix[1]) /\ ~Blank(Prefix[2]) /\ ~Blank(Prefix[3])
<1>1. "A" \in Alphabet /\ "_" \in Alphabet
  BY DEF Alphabet
<1>2. Prefix \in Seq(Alphabet) /\ Len(Prefix) = 4
  <2>1. \A a, b \in Alphabet : <<a, a, a, b>> \in Seq(Alphabet) /\ Len(<<a, a, a, b>>) = 4
    OBVIOUS
  <2> QED BY <1>1, <2>1 DEF Prefix
<1>3. Prefix[1] = "A" /\ Prefix[2] = "A" /\ Prefix[3] = "A"
  BY DEF Prefix
<1> QED BY <1>2, <1>3 DEF Blank

LEMMA Joined ==
  ASSUME NEW A, NEW u \in Seq(A), NEW v \in Seq(A)
  PROVE  /\ u \o v \in Seq(A) /\ Len(u \o v) = Len(u) + Len(v)
         /\ \A k \in 1 .. Len(u) + Len(v) :
              (u \o v)[k] = IF k <= Len(u) THEN u[k] ELSE v[k - Len(u)]
OBVIOUS

LEMMA AfterFour ==
  ASSUME NEW n \in Nat \ {0}
  PROVE  /\ {1, 2, 3, 5, n + 4} \subseteq 1 .. 4 + n /\ 1 <= 4 /\ 2 <= 4 /\ 3 <= 4
         /\ ~(5 <= 4) /\ 5 - 4 = 1 /\ ~(n + 4 <= 4) /\ (n + 4) - 4 = n
         /\ 4 + n = n + 4 /\ (n + 4) - 1 = n + 3 /\ n + 4 \in Nat \ {0}
         /\ \A k \in 1 .. n + 3 : k = 1 \/ k = 2 \/ k = 3 \/ k = 4 \/ k - 4 \in 1 .. n - 1
         /\ \A k \in 1 .. n + 3 : k - 4 \in 1 .. n - 1 =>
              /\ k \in 1 .. 4 + n /\ ~(k <= 4) /\ k + 1 \in 1 .. 4 + n /\ ~(k + 1 <= 4)
              /\ (k + 1) - 4 = (k - 4) + 1
OBVIOUS

LEMMA PrefixSpaced ==
  ASSUME NEW s \in Seq(Alphabet), Spaced(s), NEW t, t = Prefix \o s
  PROVE  t \in Seq(Alphabet) /\ Spaced(t) /\ t[1] = "A"
<1> PICK n : n = Len(s)
  OBVIOUS
<1>1. /\ n \in Nat \ {0} /\ ~Blank(s[1]) /\ ~Blank(s[n])
      /\ \A k \in 1 .. n - 1 : ~Blank(s[k]) \/ ~Blank(s[k + 1])
  BY DEF Spaced
<1>2. /\ t \in Seq(Alphabet) /\ Len(t) = 4 + n
      /\ \A k \in 1 .. 4 + n : t[k] = IF k <= 4 THEN Prefix[k] ELSE s[k - 4]
  <2>1. /\ t \in Seq(Alphabet) /\ Len(t) = Len(Prefix) + n
        /\ \A k \in 1 .. Len(Prefix) + n :
             t[k] = IF k <= Len(Prefix) THEN Prefix[k] ELSE s[k - Len(Prefix)]
    BY PrefixIs, Joined
  <2> QED BY <2>1, PrefixIs
<1>3. /\ t[1] = Prefix[1] /\ t[2] = Prefix[2] /\ t[3] = Prefix[3]
      /\ t[5] = s[1] /\ t[n + 4] = s[n]
  BY <1>1, <1>2, AfterFour
<1>4. ASSUME NEW k \in 1 .. n + 3 PROVE ~Blank(t[k]) \/ ~Blank(t[k + 1])
  <2>1. CASE k = 1 \/ k = 2 \/ k = 3
    BY <1>3, <2>1, PrefixIs
  <2>2. CASE k = 4
    <3>1. k + 1 = 5
      BY <2>2
    <3> QED BY <1>1, <1>3, <3>1
  <2>3. CASE k - 4 \in 1 .. n - 1
    <3>1. /\ k \in 1 .. 4 + n /\ ~(k <= 4) /\ k + 1 \in 1 .. 4 + n /\ ~(k + 1 <= 4)
          /\ (k + 1) - 4 = (k - 4) + 1
      BY <1>1, <2>3, AfterFour
    <3>2. t[k] = s[k - 4] /\ t[k + 1] = s[(k - 4) + 1]
      BY <1>2, <3>1
    <3> QED BY <1>1, <2>3, <3>2
  <2> QED BY <1>1, <2>1, <2>2, <2>3, AfterFour
<1>5. Len(t) = n + 4 /\ Len(t) - 1 = n + 3 /\ Len(t) \in Nat \ {0}
  BY <1>1, <1>2, AfterFour
<1> QED BY <1>1, <1>2, <1>3, <1>4, <1>5, PrefixIs DEF Spaced

LEMMA TypesSettle ==
  ASSUME NEW s \in Seq(Kinds), NEW type, type = NormalizeRelationType(s), type # Refused
  PROVE  type \in Seq(Kinds) /\ type # <<>> /\ Settled(type)
<1>1. PICK safe : safe = Squeezed(Cleaned(s))
  OBVIOUS
<1>2. /\ safe # <<>>
      /\ \/ type = safe /\ safe[1] # "1"
         \/ type = Prefix \o safe
  BY <1>1 DEF NormalizeRelationType, Refused, Prefix
<1>3. safe \in Seq(Alphabet) /\ Spaced(safe)
  BY <1>1, <1>2, CleanedIs, SqueezedIs
<1>4. type \in Seq(Alphabet) /\ Spaced(type) /\ type[1] # "1"
  <2>1. CASE type = safe /\ safe[1] # "1"
    BY <1>3, <2>1
  <2>2. CASE type = Prefix \o safe
    <3>1. type \in Seq(Alphabet) /\ Spaced(type) /\ type[1] = "A"
      BY <1>3, <2>2, PrefixSpaced
    <3> QED BY <3>1
  <2> QED BY <1>2, <2>1, <2>2
<1>5. type \in Seq(Kinds) /\ type # <<>>
  <2>1. Alphabet \subseteq Kinds
    BY DEF Kinds, Alphabet
  <2>2. type \in [1 .. Len(type) -> Kinds] /\ Len(type) \in Nat
    BY <1>4, <2>1, ListIs
  <2>3. type \in Seq(Kinds)
    BY <2>2, IsList
  <2> QED BY <1>4, <2>3, ListIs DEF Spaced
<1>6. IsType(type)
  BY <1>4, <1>5, TypesAreSpaced
<1> QED BY <1>5, <1>6, TypeStays DEF Settled

\* What a type comes from: a name's length and its cleaned form.
LEMMA TypeOfCleaned ==
  ASSUME NEW s \in Seq(Kinds), NEW t \in Seq(Kinds), Len(s) = Len(t),
         \A i \in 1 .. Len(s) : Cleaned(s)[i] = Cleaned(t)[i]
  PROVE  NormalizeRelationType(s) = NormalizeRelationType(t)
<1>1. /\ Cleaned(s) \in [1 .. Len(s) -> Alphabet]
      /\ Cleaned(t) \in [1 .. Len(s) -> Alphabet]
  <2>1. Cleaned(s) \in Seq(Alphabet) /\ Len(Cleaned(s)) = Len(s)
    BY CleanedIs
  <2>2. Cleaned(t) \in Seq(Alphabet) /\ Len(Cleaned(t)) = Len(s)
    BY CleanedIs
  <2>3. Cleaned(s) \in [1 .. Len(s) -> Alphabet]
    BY <2>1, ListIs
  <2> QED BY <2>2, <2>3, ListIs
<1>2. Cleaned(s) = Cleaned(t)
  BY <1>1
<1>3. s = <<>> <=> t = <<>>
  BY ListIs
<1> QED BY <1>2, <1>3 DEF NormalizeRelationType

LEMMA SnakeType ==
  ASSUME NEW s \in Seq(Kinds), s # <<>>, IsUpper(s) \/ "A" \notin Range(Tail(s))
  PROVE  NormalizeRelationType(ToScreamingSnake(s)) = NormalizeRelationType(s)
<1>1. Len(s) \in Nat /\ DOMAIN s = 1 .. Len(s) /\ \A i \in 1 .. Len(s) : s[i] \in Kinds
  BY ListIs
<1>2. PICK t : /\ t \in Seq(Kinds) /\ Len(t) = Len(s) /\ ToScreamingSnake(s) = Underscored(t)
               /\ \A i \in 1 .. Len(s) : t[i] = s[i] \/ t[i] = Up(s[i])
  <2>1. CASE IsUpper(s)
    BY <2>1 DEF ToScreamingSnake
  <2>2. CASE ~IsUpper(s)
    <3>1. \A i \in 2 .. Len(s) : s[i] # "A"
      <4> SUFFICES ASSUME NEW i \in 2 .. Len(s) PROVE s[i] \in Range(Tail(s))
        BY <2>2
      <4>1. Tail(s) \in Seq(Kinds) /\ Len(Tail(s)) = Len(s) - 1
            /\ \A k \in 1 .. Len(s) - 1 : Tail(s)[k] = s[k + 1]
        OBVIOUS
      <4>2. i - 1 \in 1 .. Len(s) - 1 /\ (i - 1) + 1 = i
        BY <1>1
      <4>3. DOMAIN Tail(s) = 1 .. Len(s) - 1
        BY <4>1, ListIs
      <4> QED BY <4>1, <4>2, <4>3 DEF Range
    <3>2. {i \in 2 .. Len(s) : s[i] = "A"} = {}
      BY <3>1
    <3>3. ToScreamingSnake(s) = Underscored([i \in DOMAIN s |-> Up(s[i])])
      BY <2>2, <3>2, PartedNowhere DEF ToScreamingSnake
    <3> DEFINE u == [i \in 1 .. Len(s) |-> Up(s[i])]
    <3>4. u \in [1 .. Len(s) -> Kinds]
      BY <1>1, CasesOf
    <3>5. u \in Seq(Kinds) /\ Len(u) = Len(s)
      BY <1>1, <3>4, IsList
    <3>6. \A i \in 1 .. Len(s) : u[i] = Up(s[i])
      OBVIOUS
    <3>7. ToScreamingSnake(s) = Underscored(u)
      BY <1>1, <3>3
    <3> HIDE DEF u
    <3> QED BY <3>5, <3>6, <3>7
  <2> QED BY <2>1, <2>2
<1>3. /\ Underscored(t) \in Seq(Kinds) /\ Len(Underscored(t)) = Len(s)
      /\ \A i \in 1 .. Len(s) :
           Underscored(t)[i] = IF t[i] \in {" ", "-"} THEN "_" ELSE t[i]
  <2>1. DOMAIN t = 1 .. Len(s)
    BY <1>2, ListIs
  <2> QED BY <1>2, <2>1, UnderscoredIs
<1>4. \A i \in 1 .. Len(s) : Cleaned(Underscored(t))[i] = Cleaned(s)[i]
  <2> SUFFICES ASSUME NEW i \in 1 .. Len(s) PROVE Cleaned(Underscored(t))[i] = Cleaned(s)[i]
    OBVIOUS
  <2> DEFINE Under(c) == IF c \in {" ", "-"} THEN "_" ELSE c
  <2>1. Cleaned(Underscored(t))[i] = Clean(Underscored(t)[i]) /\ Cleaned(s)[i] = Clean(s[i])
    BY <1>3, CleanedIs
  <2>2. Underscored(t)[i] = Under(s[i]) \/ Underscored(t)[i] = Under(Up(s[i]))
    BY <1>2, <1>3
  <2>3. \A c \in Kinds : Clean(Under(c)) = Clean(c) /\ Clean(Under(Up(c))) = Clean(c)
    BY DEF Kinds, Up, Clean
  <2> HIDE DEF Under
  <2> QED BY <1>1, <2>1, <2>2, <2>3
<1> QED BY <1>2, <1>3, <1>4, TypeOfCleaned

\* Every name, of any length, converts to what converts to itself.
THEOREM NamesConvertOnce ==
  \A s \in Seq(Kinds) : s # <<>> => ConvertsOnce(s)
<1> SUFFICES ASSUME NEW s \in Seq(Kinds), s # <<>> PROVE ConvertsOnce(s)
  OBVIOUS
<1>1. ToScreamingSnake(ToScreamingSnake(s)) = ToScreamingSnake(s)
  BY SnakeIs
<1>2. ToPascalCase(ToPascalCase(s)) = ToPascalCase(s)
  BY PascalTwice
<1>3. NormalizeRelationType(s) # Refused => Settled(NormalizeRelationType(s))
  BY TypesSettle
<1>4. IsUpper(s) \/ "A" \notin Range(Tail(s)) =>
        NormalizeRelationType(ToScreamingSnake(s)) = NormalizeRelationType(s)
  BY SnakeType
<1> QED BY <1>1, <1>2, <1>3, <1>4 DEF ConvertsOnce

-----------------------------------------------------------------------------
(* The invariant of the three scripts                                       *)

\* Facts the LLM may tell that are kept, and what was heard of the documents
Kept == {fact \in UNION {Range(reply) : reply \in Replies} :
           /\ fact.confidence \in MinConfidence .. MaxConfidence
           /\ fact.relation # <<>>}

\* Triples of facts that were heard: of a relation that is one of the types the
\* fact's may come to, and as the extraction writes them.
Rows == [subject: STRING, relation: Seq(Kinds), object: STRING, confidence: Int,
         source: Range(Documents), original: Seq(Kinds)]

ToldRows(h) ==
  {t \in Rows : /\ [fact |-> Fact(t), of |-> t.source] \in h
                /\ NormalizeRelationType(t.relation) \in TypesOf[Fact(t).relation]}

FirstRows(h) == {t \in ToldRows(h) : t.original = <<>> /\ t.relation # <<>>}

\* Facts with the number of the document they were told of
NumberedFacts(docs, h) ==
  {n \in [fact: Kept, id: DOMAIN docs] : [fact |-> n.fact, of |-> docs[n.id]] \in h}

ExtractHolds ==
  \/ ex = ExIdle
  \/ /\ ex.pc = "batch"
     /\ ex = [pc |-> "batch", docs |-> ex.docs, next |-> ex.next,
              result |-> ex.result, waiting |-> ex.waiting]
     /\ ex.docs \in Seq(Range(Documents)) /\ ex.next \in Nat \ {0}
     /\ ex.result \in Seq(NumberedFacts(ex.docs, heard))
     /\ ex.waiting \subseteq DOMAIN ex.docs
  \/ /\ ex.pc = "chunks"
     /\ ex = [pc |-> "chunks", docs |-> ex.docs, next |-> ex.next, result |-> ex.result]
     /\ ex.docs \in Seq(Range(Documents)) /\ ex.next \in Nat \ {0}
     /\ ex.result \in Seq(NumberedFacts(ex.docs, heard))
  \/ /\ ex.pc = "cutting"
     /\ ex = [pc |-> "cutting", docs |-> ex.docs, next |-> ex.next,
              start |-> ex.start, chunks |-> ex.chunks]
  \/ /\ ex.pc = "write" /\ ex = [pc |-> "write", docs |-> ex.docs, result |-> ex.result]
     /\ ex.docs \in Seq(Range(Documents))
     /\ ex.result \in Seq(NumberedFacts(ex.docs, heard))

NormalizeHolds ==
  \/ nz = NzIdle
  \/ /\ nz.pc = "ask" /\ nz = [pc |-> "ask", triples |-> nz.triples]
     /\ nz.triples \in Seq(FirstRows(heard))
  \/ /\ nz.pc \in {"normalized", "write triples", "mapping", "write mapping"}
     /\ nz = [pc |-> nz.pc, mapping |-> nz.mapping, triples |-> nz.triples]
     /\ nz.triples \in Seq(ToldRows(heard))

FilesHold ==
  /\ DOMAIN file = {"triples", "normalized", "mapping"}
  /\ Readable("triples") => file["triples"] \in Seq(FirstRows(heard))
  /\ Readable("normalized") => file["normalized"] \in Seq(ToldRows(heard))

\* Entities, and rows of one type
EntityRows == [name: STRING, type: {"subject", "object"}, count: Nat]

Groups(h) ==
  {g \in [type: Seq(Kinds) \ {Refused}, rows: Seq(ToldRows(h))] :
     \A r \in Range(g.rows) : NormalizeRelationType(r.relation) = g.type}

LoadHolds ==
  \/ ld = LdIdle
  \/ /\ ld.pc = "done" /\ ld = [pc |-> "done", input |-> ld.input, errors |-> ld.errors]
     /\ ld.input \in Seq(ToldRows(heard)) /\ ld.errors \in Nat
  \/ /\ ld.pc = "load"
     /\ ld = [pc |-> "load", input |-> ld.input, errors |-> ld.errors,
              nodes |-> ld.nodes, rels |-> ld.rels]
     /\ ld.input \in Seq(ToldRows(heard)) /\ ld.errors \in Nat
     /\ ld.nodes \in Seq(EntityRows) /\ ld.rels \in Seq(Groups(heard))

\* A relationship with these properties was told.
ToldRel(key, r, h) ==
  /\ Settled(key[2])
  /\ r \in [confidence: MinConfidence .. MaxConfidence, source: Range(Documents)]
  /\ \E x \in h : Supports(x, key) /\ x.fact.confidence = r.confidence
  /\ \E x \in h : Supports(x, key) /\ x.of = r.source

GraphHolds == \A key \in DOMAIN rel : ToldRel(key, rel[key], heard)

\* What a load without errors has brought, or will: the names of its file...
NameComes(n) ==
  \/ \E m \in DOMAIN entity : Lower[m] = Lower[n]
  \/ ld.pc = "load" /\ \E e \in Range(ld.nodes) : Lower[e.name] = Lower[n]

\* ... and its rows.
KeyOf(t) == <<t.subject, NormalizeRelationType(t.relation), t.object>>

RowComes(t) ==
  \/ KeyOf(t)[2] = Refused
  \/ /\ ld.pc = "load"
     /\ \E g \in Range(ld.rels) : g.type = KeyOf(t)[2] /\ t \in Range(g.rows)
  \/ /\ ld.pc = "load" => ld.nodes = <<>>
     /\ ~({t.subject, t.object} \subseteq DOMAIN entity)
  \/ KeyOf(t) \in DOMAIN rel /\ rel[KeyOf(t)].confidence >= t.confidence

LoadComes ==
  ld.pc \in {"load", "done"} /\ ld.errors = 0 =>
    \A t \in Range(ld.input) :
      NameComes(t.subject) /\ NameComes(t.object) /\ RowComes(t)

BootstrapHolds ==
  /\ heard \subseteq [fact: Kept, of: Range(Documents)]
  /\ ExtractHolds /\ NormalizeHolds /\ FilesHold /\ LoadHolds /\ GraphHolds
  /\ LoadComes

-----------------------------------------------------------------------------
(* What the scripts compute                                                 *)

LEMMA SeqGrows ==
  ASSUME NEW A, NEW B, A \subseteq B
  PROVE  Seq(A) \subseteq Seq(B)
<1> SUFFICES ASSUME NEW s \in Seq(A) PROVE s \in Seq(B)
  OBVIOUS
<1>1. Len(s) \in Nat /\ s \in [1 .. Len(s) -> B]
  BY ListIs
<1> QED BY <1>1, IsList

LEMMA RangeIs ==
  ASSUME NEW A, NEW s \in Seq(A)
  PROVE  Range(s) \subseteq A /\ \A x \in Range(s) : \E i \in 1 .. Len(s) : s[i] = x
<1>1. DOMAIN s = 1 .. Len(s) /\ \A i \in 1 .. Len(s) : s[i] \in A
  BY ListIs
<1> QED BY <1>1 DEF Range

\* What grows with what was heard
LEMMA MoreHeard ==
  ASSUME NEW h, NEW k, h \subseteq k
  PROVE  /\ ToldRows(h) \subseteq ToldRows(k) /\ FirstRows(h) \subseteq FirstRows(k)
         /\ \A docs : NumberedFacts(docs, h) \subseteq NumberedFacts(docs, k)
         /\ Groups(h) \subseteq Groups(k)
         /\ \A key, r : ToldRel(key, r, h) => ToldRel(key, r, k)
<1>1. ToldRows(h) \subseteq ToldRows(k)
  BY DEF ToldRows
<1>2. FirstRows(h) \subseteq FirstRows(k)
  BY <1>1 DEF FirstRows
<1>3. \A docs : NumberedFacts(docs, h) \subseteq NumberedFacts(docs, k)
  BY DEF NumberedFacts
<1>4. Groups(h) \subseteq Groups(k)
  <2>1. Seq(ToldRows(h)) \subseteq Seq(ToldRows(k))
    BY <1>1, SeqGrows
  <2> QED BY <2>1 DEF Groups
<1>5. \A key, r : ToldRel(key, r, h) => ToldRel(key, r, k)
  BY DEF ToldRel
<1> QED BY <1>1, <1>2, <1>3, <1>4, <1>5

Raws == [subject: STRING, relation: Seq(Kinds), object: STRING, confidence: Int]

LEMMA KeptIs ==
  /\ Kept \subseteq Raws
  /\ \A fact \in Kept : /\ fact.relation # <<>>
                        /\ fact.confidence \in MinConfidence .. MaxConfidence
                        /\ fact.relation \in DOMAIN TypesOf
<1>1. \A reply \in Replies : reply \in Seq(Raws)
  BY RepliesAssumption DEF Raws
<1>2. \A reply \in Replies : Range(reply) \subseteq Raws
  BY <1>1, RangeIs
<1>3. \A fact \in Kept : fact.relation \in DOMAIN TypesOf
  <2> SUFFICES ASSUME NEW fact \in Kept PROVE fact.relation \in DOMAIN TypesOf
    OBVIOUS
  <2>1. PICK reply \in Replies : fact \in Range(reply)
    BY DEF Kept
  <2>2. \E i \in DOMAIN reply : reply[i] = fact
    BY <2>1 DEF Range
  <2>3. fact.relation \in {reply[i].relation : i \in DOMAIN reply}
    BY <2>2
  <2> QED BY <2>1, <2>3 DEF TypesOf
<1> QED BY <1>2, <1>3 DEF Kept

\* What is parsed is kept.
LEMMA ParsedIs ==
  ASSUME NEW reply \in Replies
  PROVE  Parsed(reply) \in Seq(Kept)
<1> DEFINE T == {i \in DOMAIN reply :
                   /\ reply[i].confidence \in MinConfidence .. MaxConfidence
                   /\ "" \notin {reply[i].subject, reply[i].object}
                   /\ reply[i].relation # <<>>}
<1>1. reply \in Seq(Raws) /\ Parsed(reply) = Picked(reply, T)
  BY RepliesAssumption DEF Raws, Parsed
<1>2. ASSUME NEW i \in T PROVE reply[i] \in Kept
  <2>1. reply[i] \in Range(reply)
    BY DEF Range
  <2>2. reply[i] \in UNION {Range(r) : r \in Replies}
    BY <2>1
  <2>3. reply[i].confidence \in MinConfidence .. MaxConfidence /\ reply[i].relation # <<>>
    OBVIOUS
  <2> HIDE DEF T
  <2> QED BY <2>2, <2>3 DEF Kept
<1>3. T \subseteq DOMAIN reply
  OBVIOUS
<1> HIDE DEF T
<1>4. /\ Parsed(reply) \in Seq(Raws)
      /\ \A k \in 1 .. Len(Parsed(reply)) :
           Parsed(reply)[k] = reply[Ascending(T)[k]] /\ Ascending(T)[k] \in T
  BY <1>1, <1>3, PickedIs
<1>5. Parsed(reply) \in [1 .. Len(Parsed(reply)) -> Kept] /\ Len(Parsed(reply)) \in Nat
  BY <1>2, <1>4, ListIs
<1> QED BY <1>5, IsList

\* A fact that was heard is a triple of its document.
LEMMA TripleIs ==
  ASSUME NEW fact \in Kept, NEW d \in Range(Documents), NEW h, [fact |-> fact, of |-> d] \in h
  PROVE  Triple(fact, d) \in FirstRows(h)
<1>1. fact \in Raws /\ fact.relation # <<>> /\ fact.relation \in DOMAIN TypesOf
  BY KeptIs
<1>2. <<>> \in Seq(Kinds)
  OBVIOUS
<1>3. Triple(fact, d) \in Rows
  BY <1>1, <1>2 DEF Triple, Rows, Raws
<1>4. Fact(Triple(fact, d)) = fact
  BY <1>1 DEF Fact, Triple, Raws
<1>5. /\ Triple(fact, d).source = d /\ Triple(fact, d).relation = fact.relation
      /\ Triple(fact, d).original = <<>>
  BY DEF Triple
<1>6. NormalizeRelationType(fact.relation) \in TypesOf[fact.relation]
  BY <1>1 DEF TypesOf
<1> QED BY <1>1, <1>3, <1>4, <1>5, <1>6 DEF FirstRows, ToldRows

\* A last one of a sequence's places
LEMMA LastPlace ==
  ASSUME NEW n \in Nat, NEW T, T \subseteq 1 .. n, T # {}
  PROVE  \E l \in T : \A k \in T : k <= l
<1> DEFINE U == {n - k : k \in T}
<1>0. \A k \in T : n - k \in Nat
  OBVIOUS
<1>1. U \subseteq Nat /\ U # {}
  BY <1>0
<1>2. PICK u \in U : \A v \in U : u <= v
  BY <1>1, LeastPlace
<1>3. PICK l \in T : u = n - l
  BY <1>2
<1>4. \A k \in T : n - l <= n - k
  BY <1>2, <1>3
<1> QED BY <1>4

\* A relation that was grouped has the name of a group it is in.
LEMMA MappingIs ==
  ASSUME NEW groups, DOMAIN groups = 1 .. Len(groups), Len(groups) \in Nat,
         NEW r \in DOMAIN Mapping(groups)
  PROVE  \E i \in DOMAIN groups : /\ r \in Range(groups[i].variants)
                                  /\ Mapping(groups)[r] = ToScreamingSnake(groups[i].canonical)
<1> DEFINE Has(i) == r \in Range(groups[i].variants)
           Final(i) == Has(i) /\ \A j \in i + 1 .. Len(groups) : ~Has(j)
           T == {i \in 1 .. Len(groups) : Has(i)}
<1>1. r \in UNION {Range(groups[i].variants) : i \in DOMAIN groups}
  BY DEF Mapping
<1>2. T # {} /\ T \subseteq 1 .. Len(groups)
  BY <1>1
<1>3. PICK l \in T : \A k \in T : k <= l
  <2> HIDE DEF T
  <2> QED BY <1>2, LastPlace
<1>4. Final(l) /\ l \in DOMAIN groups
  <2>1. ASSUME NEW j \in l + 1 .. Len(groups) PROVE ~Has(j)
    <3>1. l \in 1 .. Len(groups)
      OBVIOUS
    <3> HIDE DEF Has
    <3>2. j \in 1 .. Len(groups) /\ ~(j <= l)
      BY <3>1, <2>1
    <3> QED BY <1>3, <3>2
  <2> HIDE DEF Has
  <2> QED BY <2>1
<1> DEFINE last == CHOOSE i \in DOMAIN groups : Final(i)
<1>5. last \in DOMAIN groups /\ Final(last)
  <2> HIDE DEF Final
  <2> QED BY <1>4
<1>6. Mapping(groups)[r] = ToScreamingSnake(groups[last].canonical)
  BY <1>1 DEF Mapping
<1> HIDE DEF last
<1> QED BY <1>5, <1>6

LEMMA GroupingsAre ==
  ASSUME NEW groups \in Groupings \cup {<<>>}
  PROVE  /\ DOMAIN groups = 1 .. Len(groups) /\ Len(groups) \in Nat
         /\ \A i \in DOMAIN groups : groups[i].canonical \in Seq(Kinds)
<1>1. CASE groups = <<>>
  BY <1>1
<1>2. CASE groups \in Groupings
  <2>1. groups \in Seq([canonical: Seq(Kinds), variants: Seq(Seq(Kinds))])
    BY <1>2, RepliesAssumption
  <2>2. \A A : groups \in Seq(A) =>
          /\ DOMAIN groups = 1 .. Len(groups) /\ Len(groups) \in Nat
          /\ \A i \in 1 .. Len(groups) : groups[i] \in A
    BY ListIs
  <2>3. /\ DOMAIN groups = 1 .. Len(groups) /\ Len(groups) \in Nat
        /\ \A i \in 1 .. Len(groups) :
             groups[i] \in [canonical: Seq(Kinds), variants: Seq(Seq(Kinds))]
    BY <2>1, <2>2
  <2> QED BY <2>3
<1> QED BY <1>1, <1>2

\* A triple whose relation is renamed is still one of its fact's.
LEMMA NormalizeTripleIs ==
  ASSUME NEW h, h \subseteq [fact: Kept, of: Range(Documents)], NEW t \in FirstRows(h),
         NEW groups \in Groupings \cup {<<>>}
  PROVE  NormalizeTriple(t, Mapping(groups)) \in ToldRows(h)
<1> PICK mapping : mapping = Mapping(groups)
  OBVIOUS
<1>1. /\ t \in Rows /\ t \in ToldRows(h) /\ t.original = <<>> /\ t.relation # <<>>
      /\ [fact |-> Fact(t), of |-> t.source] \in h
  BY DEF FirstRows, ToldRows
<1>2. Fact(t) \in Kept /\ Fact(t).relation = t.relation
  <2>1. [fact |-> Fact(t), of |-> t.source] \in [fact: Kept, of: Range(Documents)]
    BY <1>1
  <2> QED BY <1>1, <2>1 DEF Fact
<1>3. CASE ~(t.relation \in DOMAIN mapping /\ mapping[t.relation] # <<>>)
  BY <1>1, <1>3 DEF NormalizeTriple
<1>4. CASE t.relation \in DOMAIN mapping /\ mapping[t.relation] # <<>>
  <2>2. /\ DOMAIN groups = 1 .. Len(groups) /\ Len(groups) \in Nat
        /\ \A i \in DOMAIN groups : groups[i].canonical \in Seq(Kinds)
    BY GroupingsAre
  <2>3. PICK i \in DOMAIN groups :
          /\ t.relation \in Range(groups[i].variants)
          /\ mapping[t.relation] = ToScreamingSnake(groups[i].canonical)
    BY <1>4, <2>2, MappingIs
  <2> PICK new : new = mapping[t.relation]
    OBVIOUS
  <2>4. new \in Seq(Kinds)
    BY <2>2, <2>3, SnakeIs
  <2>5. NormalizeRelationType(new) \in TypesOf[t.relation]
    <3>1. groups \in Groupings
      <4>1. groups # <<>>
        BY <2>3
      <4> QED BY <4>1
    <3>2. t.relation \in DOMAIN TypesOf
      BY <1>2, KeptIs
    <3>3. i \in {k \in DOMAIN groups : t.relation \in Range(groups[k].variants)}
      BY <2>3
    <3>4. NormalizeRelationType(new) \in
            {NormalizeRelationType(ToScreamingSnake(groups[j].canonical)) :
               j \in {k \in DOMAIN groups : t.relation \in Range(groups[k].variants)}}
      BY <2>3, <3>3
    <3>5. NormalizeRelationType(new) \in
            UNION {{NormalizeRelationType(ToScreamingSnake(g[j].canonical)) :
                      j \in {k \in DOMAIN g : t.relation \in Range(g[k].variants)}} :
                     g \in Groupings}
      BY <3>1, <3>4
    <3> QED BY <3>2, <3>5 DEF TypesOf
  <2> PICK u : u = [t EXCEPT !.relation = new, !.original = t.relation]
    OBVIOUS
  <2>6. NormalizeTriple(t, mapping) = u
    BY <1>4 DEF NormalizeTriple
  <2>7. /\ u \in Rows /\ u.relation = new /\ u.original = t.relation /\ u.source = t.source
        /\ u.subject = t.subject /\ u.object = t.object /\ u.confidence = t.confidence
    BY <1>1, <2>4 DEF Rows
  <2>8. Fact(u) = Fact(t)
    BY <1>1, <2>7 DEF Fact
  <2> QED BY <1>1, <1>2, <2>5, <2>6, <2>7, <2>8 DEF ToldRows
<1> QED BY <1>3, <1>4

\* A batch and what it leaves are the sequence.
LEMMA BatchRest ==
  ASSUME NEW A, NEW s \in Seq(A)
  PROVE  /\ Batch(s) \in Seq(A) /\ Rest(s) \in Seq(A)
         /\ Range(s) = Range(Batch(s)) \cup Range(Rest(s))
<1> PICK b, n : b = LoadBatch /\ n = Len(s)
  OBVIOUS
<1>1. b \in Nat \ {0} /\ n \in Nat /\ DOMAIN s = 1 .. n /\ \A i \in 1 .. n : s[i] \in A
  BY RepliesAssumption, ListIs
<1> PICK m : m = IF b < n THEN b ELSE n
  OBVIOUS
<1>2. m \in 0 .. n /\ m \in Nat
  BY <1>1
<1>3. Batch(s) \in Seq(A) /\ DOMAIN Batch(s) = 1 .. m /\ \A i \in 1 .. m : Batch(s)[i] = s[i]
  <2>1. Batch(s) = SubSeq(s, 1, m)
    BY DEF Batch
  <2>2. Batch(s) = [i \in 1 .. m |-> s[i]]
    BY <1>1, <1>2, <2>1
  <2>3. Batch(s) \in [1 .. m -> A]
    BY <1>1, <1>2, <2>2
  <2> QED BY <1>2, <2>2, <2>3, IsList
<1> PICK l : l = IF b < n THEN n - b ELSE 0
  OBVIOUS
<1>4. l \in Nat /\ \A i \in 1 .. l : b + i \in 1 .. n
  BY <1>1
<1>5. Rest(s) \in Seq(A) /\ DOMAIN Rest(s) = 1 .. l /\ \A i \in 1 .. l : Rest(s)[i] = s[b + i]
  <2>1. Rest(s) = SubSeq(s, b + 1, n)
    BY DEF Rest
  <2>2. Rest(s) = [i \in 1 .. l |-> s[b + i]]
    BY <1>1, <2>1
  <2>3. Rest(s) \in [1 .. l -> A]
    BY <1>1, <1>4, <2>2
  <2> QED BY <1>4, <2>2, <2>3, IsList
<1>6. \A i \in 1 .. n : i \in 1 .. m \/ (i - b \in 1 .. l /\ b + (i - b) = i)
  BY <1>1
<1>7. \A i \in 1 .. m : i \in 1 .. n
  BY <1>1, <1>2
<1>8. ASSUME NEW i \in 1 .. n PROVE s[i] \in Range(Batch(s)) \cup Range(Rest(s))
  <2>1. CASE i \in 1 .. m
    BY <1>3, <2>1 DEF Range
  <2>2. CASE i - b \in 1 .. l /\ b + (i - b) = i
    <3>1. Rest(s)[i - b] = s[i]
      BY <1>5, <2>2
    <3> QED BY <1>5, <2>2, <3>1 DEF Range
  <2> QED BY <1>6, <2>1, <2>2
<1>9. Range(s) \subseteq Range(Batch(s)) \cup Range(Rest(s))
  BY <1>1, <1>8 DEF Range
<1>10. Range(Batch(s)) \subseteq Range(s) /\ Range(Rest(s)) \subseteq Range(s)
  <2>1. Range(Batch(s)) \subseteq Range(s)
    BY <1>1, <1>3, <1>7 DEF Range
  <2>2. \A i \in 1 .. l : Rest(s)[i] \in Range(s)
    BY <1>1, <1>4, <1>5 DEF Range
  <2>3. Range(Rest(s)) \subseteq Range(s)
    BY <1>5, <2>2 DEF Range
  <2> QED BY <2>1, <2>3
<1> QED BY <1>3, <1>5, <1>9, <1>10

\* Every key comes at some first place.
LEMMA FirstPlaceIs ==
  ASSUME NEW keys, NEW n \in Nat, DOMAIN keys = 1 .. n, NEW i \in 1 .. n
  PROVE  \E f \in FirstPlaces(keys) : f \in 1 .. n /\ keys[f] = keys[i]
<1> DEFINE T == {j \in 1 .. n : keys[j] = keys[i]}
<1>1. T \subseteq Nat /\ T # {} /\ \A j \in T : keys[j] = keys[i]
  OBVIOUS
<1>2. PICK f \in T : \A j \in T : f <= j
  <2> HIDE DEF T
  <2> QED BY <1>1, LeastPlace
<1>3. ASSUME NEW j \in 1 .. f - 1 PROVE keys[j] # keys[f]
  <2>1. f \in 1 .. n
    OBVIOUS
  <2>2. j \in 1 .. n /\ ~(f <= j)
    BY <1>3, <2>1
  <2> QED BY <1>1, <1>2, <2>2
<1>4. f \in FirstPlaces(keys)
  BY <1>3 DEF FirstPlaces
<1> QED BY <1>1, <1>4

\* Every name of the triples is one of the entities', in some spelling.
LEMMA EntitiesIs ==
  ASSUME NEW ts \in Seq(Rows)
  PROVE  /\ Entities(ts) \in Seq(EntityRows)
         /\ \A t \in Range(ts) :
              /\ \E e \in Range(Entities(ts)) : Lower[e.name] = Lower[t.subject]
              /\ \E e \in Range(Entities(ts)) : Lower[e.name] = Lower[t.object]
<1> PICK ms, n : ms = Mentions(ts) /\ n = 2 * Len(ts)
  OBVIOUS
<1>1. Len(ts) \in Nat /\ n \in Nat /\ \A i \in 1 .. Len(ts) : ts[i] \in Rows
  <2>1. Len(ts) \in Nat /\ \A i \in 1 .. Len(ts) : ts[i] \in Rows
    BY ListIs
  <2> QED BY <2>1
<1>2. /\ DOMAIN ms = 1 .. n
      /\ \A i \in 1 .. n : ms[i].name \in STRING /\ ms[i].type \in {"subject", "object"}
      /\ \A i \in 1 .. Len(ts) : /\ 2 * i - 1 \in 1 .. n /\ ms[2 * i - 1].name = ts[i].subject
                                 /\ 2 * i \in 1 .. n /\ ms[2 * i].name = ts[i].object
  <2> DEFINE At(m) == IF m % 2 = 1
                      THEN [name |-> ts[(m + 1) \div 2].subject, type |-> "subject"]
                      ELSE [name |-> ts[m \div 2].object, type |-> "object"]
  <2>1. ms = [m \in 1 .. n |-> At(m)]
    BY DEF Mentions
  <2>2. ASSUME NEW m \in 1 .. n
        PROVE  /\ m % 2 = 1 => (m + 1) \div 2 \in 1 .. Len(ts)
               /\ m % 2 # 1 => m \div 2 \in 1 .. Len(ts)
    <3>1. \A k \in Nat : \A i \in 1 .. 2 * k : /\ i % 2 = 1 => (i + 1) \div 2 \in 1 .. k
                                             /\ i % 2 # 1 => i \div 2 \in 1 .. k
      OBVIOUS
    <3> QED BY <1>1, <3>1
  <2>3. \A i \in 1 .. Len(ts) : ts[i].subject \in STRING /\ ts[i].object \in STRING
    BY <1>1 DEF Rows
  <2>4. \A m \in 1 .. n : At(m).name \in STRING /\ At(m).type \in {"subject", "object"}
    BY <2>2, <2>3
  <2>5. ASSUME NEW i \in 1 .. Len(ts)
        PROVE  /\ 2 * i - 1 \in 1 .. n /\ (2 * i - 1) % 2 = 1 /\ ((2 * i - 1) + 1) \div 2 = i
               /\ 2 * i \in 1 .. n /\ (2 * i) % 2 # 1 /\ (2 * i) \div 2 = i
    <3>1. \A k \in Nat : \A j \in 1 .. k :
            /\ 2 * j - 1 \in 1 .. 2 * k /\ (2 * j - 1) % 2 = 1 /\ ((2 * j - 1) + 1) \div 2 = j
            /\ 2 * j \in 1 .. 2 * k /\ (2 * j) % 2 # 1 /\ (2 * j) \div 2 = j
      OBVIOUS
    <3> QED BY <1>1, <3>1
  <2>6. \A i \in 1 .. Len(ts) :
          At(2 * i - 1).name = ts[i].subject /\ At(2 * i).name = ts[i].object
    BY <2>5
  <2> HIDE DEF At
  <2> QED BY <2>1, <2>4, <2>5, <2>6
<1> DEFINE Key(m) == Lower[m.name]
           keys == [i \in DOMAIN ms |-> Key(ms[i])]
           counted == [i \in DOMAIN ms |->
                      [name |-> ms[i].name, type |-> ms[i].type,
                       count |-> Cardinality({j \in DOMAIN ms : Key(ms[j]) = Key(ms[i])})]]
           T == FirstPlaces(keys)
<1>3. Entities(ts) = Picked(counted, T)
  BY DEF Entities
<1>4. counted \in Seq(EntityRows) /\ DOMAIN counted = 1 .. n
  <2>1. \A i \in 1 .. n : Cardinality({j \in 1 .. n : Key(ms[j]) = Key(ms[i])}) \in Nat
    <3> SUFFICES ASSUME NEW i \in 1 .. n
                 PROVE  Cardinality({j \in 1 .. n : Key(ms[j]) = Key(ms[i])}) \in Nat
      OBVIOUS
    <3> DEFINE S == {j \in 1 .. n : Key(ms[j]) = Key(ms[i])}
    <3>1. S \subseteq 1 .. n
      OBVIOUS
    <3> HIDE DEF S
    <3>2. Cardinality(S) \in Nat
      BY <1>1, <3>1, Ranks
    <3> QED BY <3>2 DEF S
  <2>2. counted \in [1 .. n -> EntityRows]
    BY <1>2, <2>1 DEF EntityRows
  <2> HIDE DEF counted
  <2> QED BY <1>1, <2>2, IsList
<1>5. T \subseteq DOMAIN counted
  <2>1. DOMAIN keys = 1 .. n
    BY <1>2
  <2> HIDE DEF keys, counted
  <2> QED BY <1>4, <2>1 DEF FirstPlaces
<1>6. Picked(counted, T) \in Seq(EntityRows) /\ Range(Picked(counted, T)) = {counted[i] : i \in T}
  <2> HIDE DEF counted, T
  <2>1. Picked(counted, T) \in Seq(EntityRows)
    BY <1>4, <1>5, PickedIs
  <2>2. Range(Picked(counted, T)) = {counted[i] : i \in T}
    BY <1>4, <1>5, PickedRange
  <2> QED BY <2>1, <2>2
<1>7. ASSUME NEW i \in 1 .. n
      PROVE  \E e \in Range(Entities(ts)) : Lower[e.name] = Lower[ms[i].name]
  <2>1. DOMAIN keys = 1 .. n /\ \A j \in 1 .. n : keys[j] = Lower[ms[j].name]
    BY <1>2
  <2>2. PICK f \in T : f \in 1 .. n /\ keys[f] = keys[i]
    <3> HIDE DEF keys
    <3> QED BY <1>1, <2>1, FirstPlaceIs
  <2>3. counted[f].name = ms[f].name
    BY <1>2, <2>2
  <2>4. counted[f] \in Range(Entities(ts))
    <3> HIDE DEF counted, T
    <3> QED BY <1>3, <1>6
  <2> HIDE DEF counted, keys, T
  <2>5. Lower[ms[f].name] = Lower[ms[i].name]
    BY <2>1, <2>2
  <2> QED BY <2>3, <2>4, <2>5
<1>8. Entities(ts) \in Seq(EntityRows)
  BY <1>3, <1>6
<1>9. ASSUME NEW t \in Range(ts)
      PROVE  /\ \E e \in Range(Entities(ts)) : Lower[e.name] = Lower[t.subject]
             /\ \E e \in Range(Entities(ts)) : Lower[e.name] = Lower[t.object]
  <2>1. PICK i \in 1 .. Len(ts) : ts[i] = t
    BY RangeIs
  <2> HIDE DEF counted, T, keys
  <2> QED BY <1>2, <1>7, <2>1, Zenon
<1> QED BY <1>8, <1>9

\* Every triple whose relation is a type is a row of that type's group.
LEMMA RelationGroupsIs ==
  ASSUME NEW h, NEW ts \in Seq(ToldRows(h))
  PROVE  /\ RelationGroups(ts) \in Seq(Groups(h))
         /\ \A t \in Range(ts) : NormalizeRelationType(t.relation) # Refused =>
              \E g \in Range(RelationGroups(ts)) :
                g.type = NormalizeRelationType(t.relation) /\ t \in Range(g.rows)
<1> PICK n : n = Len(ts)
  OBVIOUS
<1>1. n \in Nat /\ DOMAIN ts = 1 .. n /\ \A i \in 1 .. n : ts[i] \in ToldRows(h)
  BY ListIs
<1> DEFINE Type(i) == NormalizeRelationType(ts[i].relation)
           Same(i) == {j \in DOMAIN ts : ts[j].relation = ts[i].relation}
           group == [i \in DOMAIN ts |-> [type |-> Type(i), rows |-> Picked(ts, Same(i))]]
           keys == [i \in DOMAIN ts |-> ts[i].relation]
           T == {i \in FirstPlaces(keys) : Type(i) # Refused}
<1>2. RelationGroups(ts) = Picked(group, T)
  BY DEF RelationGroups
<1>3. ASSUME NEW i \in 1 .. n
      PROVE  /\ Picked(ts, Same(i)) \in Seq(ToldRows(h))
             /\ Range(Picked(ts, Same(i))) = {ts[j] : j \in Same(i)}
  <2>1. Same(i) \subseteq DOMAIN ts
    OBVIOUS
  <2> HIDE DEF Same
  <2> QED BY <2>1, PickedIs, PickedRange
<1>4. T \subseteq 1 .. n
  <2>1. DOMAIN keys = 1 .. n
    BY <1>1
  <2> HIDE DEF keys
  <2> QED BY <2>1 DEF FirstPlaces
<1>5. ASSUME NEW i \in T PROVE group[i] \in Groups(h)
  <2>1. i \in 1 .. n /\ Type(i) # Refused
    BY <1>4
  <2> HIDE DEF T, keys
  <2>2. group[i] = [type |-> Type(i), rows |-> Picked(ts, Same(i))]
    BY <1>1, <2>1
  <2>3. ts[i].relation \in Seq(Kinds)
    BY <1>1, <2>1 DEF ToldRows, Rows
  <2>4. Type(i) \in Seq(Kinds) \ {Refused}
    BY <2>1, <2>3, TypesSettle
  <2>5. \A r \in Range(Picked(ts, Same(i))) : NormalizeRelationType(r.relation) = Type(i)
    BY <1>3, <2>1
  <2> HIDE DEF group, Type, Same
  <2> QED BY <1>3, <2>1, <2>2, <2>4, <2>5 DEF Groups
<1>6. /\ Picked(group, T) \in Seq(Groups(h))
      /\ \A i \in T : group[i] \in Range(Picked(group, T))
  <2> PICK A : A = {group[i] : i \in 1 .. n}
    OBVIOUS
  <2>1. group \in [1 .. n -> A]
    BY <1>1
  <2>2. group \in Seq(A) /\ DOMAIN group = 1 .. n
    <3> HIDE DEF group
    <3> QED BY <1>1, <2>1, IsList
  <2> HIDE DEF group, T
  <2>0. T \subseteq DOMAIN group
    BY <1>4, <2>2
  <2>3. /\ Picked(group, T) \in Seq(A)
        /\ \A k \in 1 .. Len(Picked(group, T)) :
             Ascending(T)[k] \in T /\ Picked(group, T)[k] = group[Ascending(T)[k]]
    BY <2>0, <2>2, PickedIs
  <2>6. Range(Picked(group, T)) = {group[i] : i \in T}
    BY <2>0, <2>2, PickedRange
  <2>4. /\ Len(Picked(group, T)) \in Nat
        /\ Picked(group, T) \in [1 .. Len(Picked(group, T)) -> Groups(h)]
    BY <1>5, <2>3, ListIs
  <2>5. Picked(group, T) \in Seq(Groups(h))
    BY <2>4, IsList
  <2> QED BY <2>5, <2>6
<1>7. ASSUME NEW t \in Range(ts), NormalizeRelationType(t.relation) # Refused
      PROVE  \E g \in Range(RelationGroups(ts)) :
               g.type = NormalizeRelationType(t.relation) /\ t \in Range(g.rows)
  <2>1. PICK i \in 1 .. n : ts[i] = t
    BY RangeIs
  <2>2. DOMAIN keys = 1 .. n /\ \A j \in 1 .. n : keys[j] = ts[j].relation
    BY <1>1
  <2>3. PICK f \in FirstPlaces(keys) : f \in 1 .. n /\ keys[f] = keys[i]
    <3> HIDE DEF keys
    <3> QED BY <1>1, <2>2, FirstPlaceIs
  <2>4. ts[f].relation = t.relation
    <3> HIDE DEF keys
    <3> QED BY <2>1, <2>2, <2>3
  <2>5. f \in T /\ i \in Same(f)
    BY <1>1, <1>7, <2>1, <2>3, <2>4
  <2>6. group[f].type = NormalizeRelationType(t.relation) /\ group[f].rows = Picked(ts, Same(f))
    BY <1>1, <2>3, <2>4
  <2>7. t \in Range(Picked(ts, Same(f)))
    <3> HIDE DEF Same, T, group, keys
    <3> QED BY <1>3, <2>1, <2>3, <2>5
  <2> HIDE DEF Same, T, group, keys
  <2> QED BY <1>2, <1>6, <2>5, <2>6, <2>7
<1>8. RelationGroups(ts) \in Seq(Groups(h))
  <2> HIDE DEF T, group
  <2> QED BY <1>2, <1>6
<1> QED BY <1>7, <1>8

\* The highest of some numbers
LEMMA HighestIs ==
  ASSUME NEW T, T \subseteq MinConfidence .. MaxConfidence, T # {}
  PROVE  Max(T) \in T /\ \A x \in T : Max(T) >= x
<1> PICK a, b : a = MinConfidence /\ b = MaxConfidence
  OBVIOUS
<1>1. a \in Int /\ b \in Int
  BY RepliesAssumption
<1> DEFINE U == {b - x : x \in T}
<1>2. \A x \in T : b - x \in Nat /\ x \in Int
  BY <1>1
<1>3. U \subseteq Nat /\ U # {}
  BY <1>2
<1>4. PICK u \in U : \A v \in U : u <= v
  BY <1>3, LeastPlace
<1>5. PICK l \in T : u = b - l
  BY <1>4
<1>6. \A x \in T : b - l <= b - x
  BY <1>4, <1>5
<1>7. \A x \in T : l >= x
  BY <1>1, <1>2, <1>6
<1> QED BY <1>7 DEF Max

Stored == [confidence: MinConfidence .. MaxConfidence, source: Range(Documents)]

LEMMA NothingIsNotStored == \A r \in Stored : r # Missing
<1> SUFFICES ASSUME NEW r \in Stored PROVE r \in [confidence: Int, source: Range(Documents)]
  BY RepliesAssumption
<1>1. MinConfidence .. MaxConfidence \subseteq Int
  BY RepliesAssumption
<1> QED BY <1>1 DEF Stored

\* A relationship that rows were merged into has the confidence and the text
\* of some of them, and none of them has more confidence.
LEMMA MergedRelIs ==
  ASSUME NEW A, NEW ts \in Seq(A), NEW old, old \in Stored \cup {Missing},
         \A t \in A : t.confidence \in MinConfidence .. MaxConfidence
                      /\ t.source \in Range(Documents),
         old = Missing => ts # <<>>, NEW r, r = MergedRel(ts, old)
  PROVE  /\ r \in Stored /\ \A t \in Range(ts) : r.confidence >= t.confidence
         /\ old # Missing => r.confidence >= old.confidence /\ r.source = old.source
         /\ \/ \E t \in Range(ts) : r.confidence = t.confidence
            \/ old # Missing /\ r.confidence = old.confidence
         /\ \/ \E t \in Range(ts) : r.source = t.source
            \/ old # Missing /\ r.source = old.source
<1>1. /\ Len(ts) \in Nat /\ DOMAIN ts = 1 .. Len(ts) /\ \A i \in 1 .. Len(ts) : ts[i] \in A
      /\ ts = <<>> <=> Len(ts) = 0
  BY ListIs
<1>2. Range(ts) = {ts[i] : i \in 1 .. Len(ts)}
  BY <1>1 DEF Range
<1>3. \A x \in MinConfidence .. MaxConfidence : x >= x
  BY RepliesAssumption
<1>4. CASE ts = <<>>
  <2>1. r = old /\ Range(ts) = {} /\ old \in Stored
    BY <1>1, <1>2, <1>4 DEF MergedRel
  <2> QED BY <1>3, <2>1, NothingIsNotStored DEF Stored
<1>5. CASE ts # <<>>
  <2> PICK told : told = {ts[i].confidence : i \in DOMAIN ts}
    OBVIOUS
  <2>1. /\ told = {t.confidence : t \in Range(ts)} /\ told \subseteq MinConfidence .. MaxConfidence
        /\ 1 \in 1 .. Len(ts)
    <3>1. 1 \in 1 .. Len(ts)
      BY <1>1, <1>5
    <3>2. told = {t.confidence : t \in Range(ts)}
      BY <1>1, <1>2
    <3> QED BY <1>1, <3>1, <3>2
  <2>2. ts[1] \in Range(ts) /\ ts[1].source \in Range(Documents) /\ ts[1].confidence \in told
    BY <1>1, <1>2, <2>1
  <2>3. CASE old = Missing
    <3>1. Max(told) \in told /\ \A x \in told : Max(told) >= x
      BY <2>1, <2>2, HighestIs
    <3>2. r = [confidence |-> Max(told), source |-> ts[1].source]
      BY <1>5, <2>3 DEF MergedRel
    <3>3. r.confidence = Max(told) /\ r.source = ts[1].source
      BY <3>2
    <3>4. r \in Stored
      BY <2>1, <2>2, <3>1, <3>2 DEF Stored
    <3>5. \A t \in Range(ts) : t.confidence \in told
      BY <2>1
    <3>6. \A t \in Range(ts) : r.confidence >= t.confidence
      BY <3>1, <3>3, <3>5
    <3>7. \E t \in Range(ts) : r.confidence = t.confidence
      BY <2>1, <3>1, <3>3
    <3>8. \E t \in Range(ts) : r.source = t.source
      BY <2>2, <3>3
    <3> QED BY <2>3, <3>4, <3>6, <3>7, <3>8
  <2>4. CASE old # Missing
    <3>1. old \in Stored
      BY <2>4
    <3> PICK all : all = told \cup {old.confidence}
      OBVIOUS
    <3>2. all \subseteq MinConfidence .. MaxConfidence /\ all # {}
      BY <2>1, <3>1 DEF Stored
    <3>3. Max(all) \in all /\ \A x \in all : Max(all) >= x
      BY <3>2, HighestIs
    <3>4. r = [old EXCEPT !.confidence = Max(all)]
      BY <1>5, <2>4 DEF MergedRel
    <3>5. r \in Stored /\ r.confidence = Max(all) /\ r.source = old.source
      BY <3>1, <3>2, <3>3, <3>4 DEF Stored
    <3>6. \A t \in Range(ts) : t.confidence \in all
      BY <2>1
    <3>7. (\A t \in Range(ts) : r.confidence >= t.confidence) /\ r.confidence >= old.confidence
      BY <3>3, <3>5, <3>6
    <3>8. r.confidence = old.confidence \/ \E t \in Range(ts) : r.confidence = t.confidence
      BY <2>1, <3>3, <3>5
    <3> QED BY <2>4, <3>5, <3>7, <3>8
  <2> QED BY <2>3, <2>4
<1> QED BY <1>4, <1>5

\* What a row says of its relationship was told.
LEMMA RowIsTold ==
  ASSUME NEW h, h \subseteq [fact: Kept, of: Range(Documents)], NEW t \in ToldRows(h),
         NEW key, key = KeyOf(t)
  PROVE  /\ \E x \in h : /\ Supports(x, key) /\ x.fact.confidence = t.confidence
                         /\ x.of = t.source
         /\ t.confidence \in MinConfidence .. MaxConfidence /\ t.source \in Range(Documents)
         /\ key[2] = NormalizeRelationType(t.relation) /\ t.relation \in Seq(Kinds)
         /\ key[2] # Refused => Settled(key[2])
<1> PICK x : x = [fact |-> Fact(t), of |-> t.source]
  OBVIOUS
<1>1. /\ x \in h /\ t \in Rows
      /\ NormalizeRelationType(t.relation) \in TypesOf[Fact(t).relation]
  BY DEF ToldRows
<1>2. x.fact \in Kept /\ x.of \in Range(Documents)
  BY <1>1
<1>3. /\ x.fact = Fact(t) /\ x.of = t.source
      /\ Fact(t).subject = t.subject /\ Fact(t).object = t.object
      /\ Fact(t).confidence = t.confidence
  BY DEF Fact
<1>4. key[1] = t.subject /\ key[2] = NormalizeRelationType(t.relation) /\ key[3] = t.object
  BY DEF KeyOf
<1>5. Supports(x, key)
  BY <1>1, <1>3, <1>4 DEF Supports
<1>6. t.confidence \in MinConfidence .. MaxConfidence
  BY <1>2, <1>3, KeptIs
<1>7. t.relation \in Seq(Kinds)
  BY <1>1 DEF Rows
<1> QED BY <1>1, <1>2, <1>3, <1>4, <1>5, <1>6, <1>7, TypesSettle

\* Merging rows of a type keeps what the graph holds, or raises its confidence,
\* and brings every row whose ends are both found.
LEMMA MergedRelsIs ==
  ASSUME heard \subseteq [fact: Kept, of: Range(Documents)], GraphHolds,
         NEW type \in Seq(Kinds) \ {Refused}, NEW rows \in Seq(ToldRows(heard)),
         \A t \in Range(rows) : NormalizeRelationType(t.relation) = type,
         NEW merged, merged = MergedRels(type, rows)
  PROVE  /\ \A key \in DOMAIN merged : ToldRel(key, merged[key], heard)
         /\ \A key \in DOMAIN rel :
              /\ key \in DOMAIN merged /\ merged[key].confidence >= rel[key].confidence
              /\ merged[key].source = rel[key].source
         /\ \A t \in Range(rows) : {t.subject, t.object} \subseteq DOMAIN entity =>
              KeyOf(t) \in DOMAIN merged /\ merged[KeyOf(t)].confidence >= t.confidence
<1> DEFINE matched == {i \in DOMAIN rows :
                       {rows[i].subject, rows[i].object} \subseteq DOMAIN entity}
           Key(i) == <<rows[i].subject, type, rows[i].object>>
           At(key) == {i \in matched : Key(i) = key}
           Of(key) == Picked(rows, At(key))
           Old(key) == IF key \in DOMAIN rel THEN rel[key] ELSE Missing
<1>1. /\ DOMAIN rows = 1 .. Len(rows) /\ Len(rows) \in Nat
      /\ \A i \in 1 .. Len(rows) : rows[i] \in ToldRows(heard)
  BY ListIs
<1>2. merged = [key \in DOMAIN rel \cup {Key(i) : i \in matched} |->
                  MergedRel(Of(key), Old(key))]
  BY DEF MergedRels
<1>3. \A i \in matched : Key(i) = KeyOf(rows[i])
  BY DEF KeyOf, Range
<1>4. ASSUME NEW key
      PROVE  Of(key) \in Seq(ToldRows(heard)) /\ Range(Of(key)) = {rows[i] : i \in At(key)}
  <2>1. At(key) \subseteq DOMAIN rows
    OBVIOUS
  <2> HIDE DEF At
  <2>2. Of(key) \in Seq(ToldRows(heard))
    BY <2>1, PickedIs
  <2>3. Range(Of(key)) = {rows[i] : i \in At(key)}
    BY <2>1, PickedRange
  <2> QED BY <2>2, <2>3
<1>5. \A key : \A t \in Range(Of(key)) :
        t \in ToldRows(heard) /\ t \in Range(rows) /\ KeyOf(t) = key
  <2> SUFFICES ASSUME NEW key, NEW t \in Range(Of(key))
               PROVE  t \in ToldRows(heard) /\ t \in Range(rows) /\ KeyOf(t) = key
    OBVIOUS
  <2>1. PICK i \in At(key) : t = rows[i]
    <3> HIDE DEF At, Of
    <3> QED BY <1>4
  <2>2. i \in matched /\ Key(i) = key /\ i \in 1 .. Len(rows)
    BY <1>1
  <2> HIDE DEF matched, Key, At, Of
  <2> QED BY <1>1, <1>3, <2>1, <2>2 DEF Range
<1>6. ASSUME NEW t \in Range(rows), {t.subject, t.object} \subseteq DOMAIN entity
      PROVE  KeyOf(t) \in DOMAIN merged /\ t \in Range(Of(KeyOf(t)))
  <2>1. PICK i \in 1 .. Len(rows) : rows[i] = t
    BY RangeIs
  <2>2. i \in matched
    BY <1>1, <1>6, <2>1
  <2>3. Key(i) = KeyOf(t)
    BY <1>3, <2>1, <2>2
  <2>4. i \in At(KeyOf(t))
    BY <2>2, <2>3
  <2>5. t \in Range(Of(KeyOf(t)))
    <3> HIDE DEF At, Of
    <3> QED BY <1>4, <2>1, <2>4
  <2>6. KeyOf(t) \in {Key(j) : j \in matched}
    BY <2>2, <2>3
  <2>7. DOMAIN merged = DOMAIN rel \cup {Key(j) : j \in matched}
    BY <1>2
  <2> QED BY <2>5, <2>6, <2>7
<1>7. \A t \in ToldRows(heard) : /\ t.confidence \in MinConfidence .. MaxConfidence
                                 /\ t.source \in Range(Documents)
  BY RowIsTold
<1>8. \A key : /\ Old(key) \in Stored \cup {Missing}
               /\ Old(key) # Missing <=> key \in DOMAIN rel
  <2> SUFFICES ASSUME NEW key PROVE /\ Old(key) \in Stored \cup {Missing}
                                    /\ Old(key) # Missing <=> key \in DOMAIN rel
    OBVIOUS
  <2>1. CASE key \in DOMAIN rel
    <3>1. rel[key] \in Stored
      BY <2>1 DEF GraphHolds, ToldRel, Stored
    <3> QED BY <2>1, <3>1, NothingIsNotStored
  <2>2. CASE key \notin DOMAIN rel
    BY <2>2
  <2> QED BY <2>1, <2>2
<1>9. ASSUME NEW key \in DOMAIN merged PROVE key \in DOMAIN rel \/ Of(key) # <<>>
  <2>1. CASE \E i \in matched : Key(i) = key
    <3>1. PICK i \in matched : Key(i) = key
      BY <2>1
    <3>2. i \in At(key)
      BY <3>1
    <3> HIDE DEF At, Of, matched, Key
    <3>3. rows[i] \in Range(Of(key))
      BY <1>4, <3>2
    <3> QED BY <3>3 DEF Range
  <2> QED BY <1>2, <2>1
<1> HIDE DEF matched, Key, At, Of, Old
<1>10. ASSUME NEW key \in DOMAIN merged, NEW r, r = merged[key]
       PROVE  /\ r \in Stored /\ \A t \in Range(Of(key)) : r.confidence >= t.confidence
              /\ key \in DOMAIN rel =>
                   r.confidence >= rel[key].confidence /\ r.source = rel[key].source
              /\ \/ \E t \in Range(Of(key)) : r.confidence = t.confidence
                 \/ key \in DOMAIN rel /\ r.confidence = rel[key].confidence
              /\ \/ \E t \in Range(Of(key)) : r.source = t.source
                 \/ key \in DOMAIN rel /\ r.source = rel[key].source
  <2>1. r = MergedRel(Of(key), Old(key))
    BY <1>2, <1>10
  <2>2. Old(key) = Missing => Of(key) # <<>>
    BY <1>8, <1>9
  <2>3. key \in DOMAIN rel => Old(key) = rel[key]
    BY DEF Old
  <2>4. /\ r \in Stored /\ \A t \in Range(Of(key)) : r.confidence >= t.confidence
        /\ Old(key) # Missing =>
             r.confidence >= Old(key).confidence /\ r.source = Old(key).source
        /\ \/ \E t \in Range(Of(key)) : r.confidence = t.confidence
           \/ Old(key) # Missing /\ r.confidence = Old(key).confidence
        /\ \/ \E t \in Range(Of(key)) : r.source = t.source
           \/ Old(key) # Missing /\ r.source = Old(key).source
    BY <1>4, <1>7, <1>8, <2>1, <2>2, MergedRelIs
  <2> QED BY <1>8, <2>3, <2>4
<1>11. ASSUME NEW key \in DOMAIN merged PROVE ToldRel(key, merged[key], heard)
  <2> PICK r : r = merged[key]
    OBVIOUS
  <2>1. ASSUME NEW t \in Range(Of(key))
        PROVE  /\ Settled(key[2])
               /\ \E x \in heard : Supports(x, key) /\ x.fact.confidence = t.confidence
               /\ \E x \in heard : Supports(x, key) /\ x.of = t.source
    <3>1. t \in ToldRows(heard) /\ t \in Range(rows) /\ KeyOf(t) = key
      BY <1>5
    <3>2. key[2] # Refused
      BY <3>1 DEF KeyOf
    <3> QED BY <3>1, <3>2, RowIsTold
  <2>2. key \in DOMAIN rel => ToldRel(key, rel[key], heard)
    BY DEF GraphHolds
  <2>3. Settled(key[2])
    BY <1>10, <2>1, <2>2 DEF ToldRel
  <2>4. \E x \in heard : Supports(x, key) /\ x.fact.confidence = r.confidence
    BY <1>10, <2>1, <2>2 DEF ToldRel
  <2>5. \E x \in heard : Supports(x, key) /\ x.of = r.source
    BY <1>10, <2>1, <2>2 DEF ToldRel
  <2> QED BY <1>10, <2>3, <2>4, <2>5 DEF ToldRel, Stored
<1>12. ASSUME NEW key \in DOMAIN rel
       PROVE  /\ key \in DOMAIN merged /\ merged[key].confidence >= rel[key].confidence
              /\ merged[key].source = rel[key].source
  BY <1>2, <1>10
<1>13. ASSUME NEW t \in Range(rows), {t.subject, t.object} \subseteq DOMAIN entity
       PROVE  KeyOf(t) \in DOMAIN merged /\ merged[KeyOf(t)].confidence >= t.confidence
  BY <1>6, <1>10, <1>13
<1> QED BY <1>11, <1>12, <1>13

-----------------------------------------------------------------------------
(* Every step keeps the invariant                                           *)

\* What a step leaves alone still holds when more was heard.
LEMMA Undisturbed ==
  ASSUME BootstrapHolds, heard \subseteq heard'
  PROVE  /\ ex' = ex => ExtractHolds'
         /\ nz' = nz => NormalizeHolds'
         /\ file' = file => FilesHold'
         /\ ld' = ld => LoadHolds'
         /\ rel' = rel => GraphHolds'
         /\ ld' = ld /\ entity' = entity /\ rel' = rel => LoadComes'
<1>1. /\ ToldRows(heard) \subseteq ToldRows(heard') /\ FirstRows(heard) \subseteq FirstRows(heard')
      /\ \A docs : NumberedFacts(docs, heard) \subseteq NumberedFacts(docs, heard')
      /\ Groups(heard) \subseteq Groups(heard')
      /\ \A key, r : ToldRel(key, r, heard) => ToldRel(key, r, heard')
  BY MoreHeard
<1>2. /\ Seq(ToldRows(heard)) \subseteq Seq(ToldRows(heard'))
      /\ Seq(FirstRows(heard)) \subseteq Seq(FirstRows(heard'))
      /\ Seq(Groups(heard)) \subseteq Seq(Groups(heard'))
      /\ \A docs : Seq(NumberedFacts(docs, heard)) \subseteq Seq(NumberedFacts(docs, heard'))
  BY <1>1, SeqGrows
<1>3. ASSUME ex' = ex PROVE ExtractHolds'
  <2>1. ExtractHolds
    BY DEF BootstrapHolds
  <2> QED BY <1>2, <1>3, <2>1 DEF ExtractHolds
<1>4. ASSUME nz' = nz PROVE NormalizeHolds'
  <2>1. NormalizeHolds
    BY DEF BootstrapHolds
  <2> QED BY <1>2, <1>4, <2>1 DEF NormalizeHolds
<1>5. ASSUME file' = file PROVE FilesHold'
  <2>1. FilesHold
    BY DEF BootstrapHolds
  <2> QED BY <1>2, <1>5, <2>1 DEF FilesHold, Readable
<1>6. ASSUME ld' = ld PROVE LoadHolds'
  <2>1. LoadHolds
    BY DEF BootstrapHolds
  <2> QED BY <1>2, <1>6, <2>1 DEF LoadHolds
<1>7. ASSUME rel' = rel PROVE GraphHolds'
  <2>1. GraphHolds
    BY DEF BootstrapHolds
  <2> QED BY <1>1, <1>7, <2>1 DEF GraphHolds
<1>8. ASSUME ld' = ld, entity' = entity, rel' = rel PROVE LoadComes'
  <2>1. LoadComes
    BY DEF BootstrapHolds
  <2> QED BY <1>8, <2>1 DEF LoadComes, NameComes, RowComes
<1> QED BY <1>3, <1>4, <1>5, <1>6, <1>7, <1>8

\* The facts of a document, numbered
LEMMA NumberedIs ==
  ASSUME NEW docs \in Seq(Range(Documents)), NEW j \in DOMAIN docs, NEW ts \in Seq(Kept),
         NEW h, Told(docs[j], ts) \subseteq h
  PROVE  /\ Numbered(j, ts) \in Seq(NumberedFacts(docs, h))
         /\ Told(docs[j], ts) \subseteq [fact: Kept, of: Range(Documents)]
<1>1. /\ DOMAIN ts = 1 .. Len(ts) /\ Len(ts) \in Nat /\ \A i \in 1 .. Len(ts) : ts[i] \in Kept
      /\ docs[j] \in Range(Documents)
  BY ListIs
<1>2. \A i \in 1 .. Len(ts) : [fact |-> ts[i], of |-> docs[j]] \in h
  BY <1>1 DEF Told
<1>3. \A i \in 1 .. Len(ts) : [fact |-> ts[i], id |-> j] \in NumberedFacts(docs, h)
  BY <1>1, <1>2 DEF NumberedFacts
<1>4. Numbered(j, ts) \in [1 .. Len(ts) -> NumberedFacts(docs, h)]
  BY <1>1, <1>3 DEF Numbered
<1>5. Numbered(j, ts) \in Seq(NumberedFacts(docs, h))
  BY <1>1, <1>4, IsList
<1> QED BY <1>1, <1>5 DEF Told

LEMMA NextBatchHolds ==
  ASSUME BootstrapHolds, NextBatch
  PROVE  ExtractHolds'
<1>1. /\ ex.docs \in Seq(Range(Documents)) /\ ex.next \in Nat \ {0}
      /\ ex.result \in Seq(NumberedFacts(ex.docs, heard))
  BY DEF BootstrapHolds, NextBatch, ExtractHolds, ExIdle
<1>2. ex' = BatchFrom(ex.docs, ex.next) /\ heard' = heard
  BY DEF NextBatch
<1>3. /\ ex' = [pc |-> "batch", docs |-> ex'.docs, next |-> ex'.next,
                result |-> ex'.result, waiting |-> ex'.waiting]
      /\ ex'.pc = "batch" /\ ex'.docs = ex.docs /\ ex'.next = ex.next + BatchSize
      /\ ex'.result = ex.result /\ ex'.waiting \subseteq DOMAIN ex.docs
  BY <1>2 DEF BatchFrom
<1>4. ex'.next \in Nat \ {0}
  BY <1>1, <1>3, RepliesAssumption
<1> QED BY <1>1, <1>2, <1>3, <1>4 DEF ExtractHolds

LEMMA ExtractStepHolds ==
  ASSUME BootstrapHolds, NEW j, NEW reply \in Replies, Extract(j, reply)
  PROVE  /\ ExtractHolds' /\ heard \subseteq heard'
         /\ heard' \subseteq [fact: Kept, of: Range(Documents)]
<1>1. /\ ex = [pc |-> "batch", docs |-> ex.docs, next |-> ex.next,
               result |-> ex.result, waiting |-> ex.waiting]
      /\ ex.docs \in Seq(Range(Documents)) /\ ex.next \in Nat \ {0}
      /\ ex.result \in Seq(NumberedFacts(ex.docs, heard))
      /\ ex.waiting \subseteq DOMAIN ex.docs /\ j \in ex.waiting
  BY DEF BootstrapHolds, Extract, ExtractHolds, ExIdle
<1>2. heard' = heard \cup Told(ex.docs[j], Parsed(reply))
  BY DEF Extract
<1>3. /\ Numbered(j, Parsed(reply)) \in Seq(NumberedFacts(ex.docs, heard'))
      /\ Told(ex.docs[j], Parsed(reply)) \subseteq [fact: Kept, of: Range(Documents)]
  BY <1>1, <1>2, ParsedIs, NumberedIs
<1>4. ex.result \in Seq(NumberedFacts(ex.docs, heard'))
  <2>1. heard \subseteq heard'
    BY <1>2
  <2>2. NumberedFacts(ex.docs, heard) \subseteq NumberedFacts(ex.docs, heard')
    BY <2>1, MoreHeard
  <2> QED BY <1>1, <2>2, SeqGrows
<1>5. ex.result \o Numbered(j, Parsed(reply)) \in Seq(NumberedFacts(ex.docs, heard'))
  BY <1>3, <1>4, Joined
<1>6. ex' = [pc |-> "batch", docs |-> ex.docs, next |-> ex.next,
             result |-> ex.result \o Numbered(j, Parsed(reply)),
             waiting |-> ex.waiting \ {j}]
  BY <1>1 DEF Extract
<1>7. /\ ex'.pc = "batch" /\ ex'.docs = ex.docs /\ ex'.next = ex.next
      /\ ex'.result = ex.result \o Numbered(j, Parsed(reply))
      /\ ex'.waiting = ex.waiting \ {j}
  BY <1>6
<1>8. ExtractHolds'
  BY <1>1, <1>5, <1>6, <1>7 DEF ExtractHolds
<1> QED BY <1>2, <1>3, <1>8 DEF BootstrapHolds

LEMMA ExtractFailsHolds ==
  ASSUME BootstrapHolds, NEW j, ExtractFails(j)
  PROVE  ExtractHolds'
<1>1. /\ ex = [pc |-> "batch", docs |-> ex.docs, next |-> ex.next,
               result |-> ex.result, waiting |-> ex.waiting]
      /\ ex.docs \in Seq(Range(Documents)) /\ ex.next \in Nat \ {0}
      /\ ex.result \in Seq(NumberedFacts(ex.docs, heard))
      /\ ex.waiting \subseteq DOMAIN ex.docs
  BY DEF BootstrapHolds, ExtractFails, ExtractHolds, ExIdle
<1>2. /\ ex' = [pc |-> "batch", docs |-> ex.docs, next |-> ex.next,
                result |-> ex.result, waiting |-> ex.waiting \ {j}]
      /\ heard' = heard
  BY <1>1 DEF ExtractFails
<1>3. /\ ex'.pc = "batch" /\ ex'.docs = ex.docs /\ ex'.next = ex.next
      /\ ex'.result = ex.result /\ ex'.waiting = ex.waiting \ {j}
  BY <1>2
<1> QED BY <1>1, <1>2, <1>3 DEF ExtractHolds

LEMMA ExtractWholeHolds ==
  ASSUME BootstrapHolds, NEW reply \in Replies, ExtractWhole(reply)
  PROVE  /\ ExtractHolds' /\ heard \subseteq heard'
         /\ heard' \subseteq [fact: Kept, of: Range(Documents)]
<1>1. /\ ex = [pc |-> "chunks", docs |-> ex.docs, next |-> ex.next, result |-> ex.result]
      /\ ex.docs \in Seq(Range(Documents)) /\ ex.next \in Nat \ {0}
      /\ ex.result \in Seq(NumberedFacts(ex.docs, heard))
      /\ ex.next <= Len(ex.docs)
  BY DEF BootstrapHolds, ExtractWhole, ExtractHolds, ExIdle
<1>2. CASE ex' = ExIdle /\ heard' = heard
  BY <1>2 DEF ExtractHolds, BootstrapHolds
<1>3. CASE /\ ex' = [ex EXCEPT !.next = @ + 1,
                               !.result = @ \o Numbered(ex.next, Parsed(reply))]
           /\ heard' = heard \cup Told(ex.docs[ex.next], Parsed(reply))
  <2>1. ex.next \in DOMAIN ex.docs
    <3>1. DOMAIN ex.docs = 1 .. Len(ex.docs) /\ Len(ex.docs) \in Nat
      BY <1>1, ListIs
    <3> QED BY <1>1, <3>1
  <2>2. /\ Numbered(ex.next, Parsed(reply)) \in Seq(NumberedFacts(ex.docs, heard'))
        /\ Told(ex.docs[ex.next], Parsed(reply)) \subseteq [fact: Kept, of: Range(Documents)]
    BY <1>1, <1>3, <2>1, ParsedIs, NumberedIs
  <2>3. ex.result \in Seq(NumberedFacts(ex.docs, heard'))
    <3>1. heard \subseteq heard'
      BY <1>3
    <3>2. NumberedFacts(ex.docs, heard) \subseteq NumberedFacts(ex.docs, heard')
      BY <3>1, MoreHeard
    <3> QED BY <1>1, <3>2, SeqGrows
  <2>4. ex.result \o Numbered(ex.next, Parsed(reply)) \in Seq(NumberedFacts(ex.docs, heard'))
    BY <2>2, <2>3, Joined
  <2>5. ex' = [pc |-> "chunks", docs |-> ex.docs, next |-> ex.next + 1,
               result |-> ex.result \o Numbered(ex.next, Parsed(reply))]
    <3> PICK n, ts : n = ex.next + 1 /\ ts = ex.result \o Numbered(ex.next, Parsed(reply))
      OBVIOUS
    <3>1. ex' = [ex EXCEPT !.next = n, !.result = ts]
      BY <1>3
    <3>2. PICK d, m, l : ex = [pc |-> "chunks", docs |-> d, next |-> m, result |-> l]
      BY <1>1
    <3>3. ex' = [pc |-> "chunks", docs |-> d, next |-> n, result |-> ts] /\ ex.docs = d
      BY <3>1, <3>2
    <3> QED BY <3>3
  <2>6. /\ ex'.pc = "chunks" /\ ex'.docs = ex.docs /\ ex'.next = ex.next + 1
        /\ ex'.result = ex.result \o Numbered(ex.next, Parsed(reply))
    BY <2>5
  <2>7. ex.next + 1 \in Nat \ {0}
    BY <1>1
  <2>8. ExtractHolds'
    BY <1>1, <2>4, <2>5, <2>6, <2>7 DEF ExtractHolds
  <2> QED BY <1>3, <2>2, <2>8 DEF BootstrapHolds
<1> QED BY <1>2, <1>3 DEF ExtractWhole

LEMMA CuttingHolds ==
  ASSUME BootstrapHolds, StartCutting \/ CutChunk
  PROVE  ExtractHolds'
<1>1. CASE StartCutting
  <2>1. ex' = [pc |-> "cutting", docs |-> ex.docs, next |-> ex.next, start |-> 0,
               chunks |-> {}]
    BY <1>1 DEF StartCutting
  <2>2. /\ ex'.pc = "cutting"
        /\ ex' = [pc |-> "cutting", docs |-> ex'.docs, next |-> ex'.next,
                  start |-> ex'.start, chunks |-> ex'.chunks]
    BY <2>1
  <2> QED BY <2>2 DEF ExtractHolds
<1>2. CASE CutChunk
  <2>1. ex = [pc |-> "cutting", docs |-> ex.docs, next |-> ex.next,
              start |-> ex.start, chunks |-> ex.chunks]
    BY <1>2 DEF CutChunk, BootstrapHolds, ExtractHolds, ExIdle
  <2>2. PICK c, s : ex' = [ex EXCEPT !.chunks = c, !.start = s]
    BY <1>2 DEF CutChunk
  <2> PICK d, n, l, m : ex = [pc |-> "cutting", docs |-> d, next |-> n, start |-> l,
                              chunks |-> m]
    BY <2>1
  <2>3. ex' = [pc |-> "cutting", docs |-> d, next |-> n, start |-> s, chunks |-> c]
    BY <2>2
  <2>4. /\ ex'.pc = "cutting"
        /\ ex' = [pc |-> "cutting", docs |-> ex'.docs, next |-> ex'.next,
                  start |-> ex'.start, chunks |-> ex'.chunks]
    BY <2>3
  <2> QED BY <2>4 DEF ExtractHolds
<1> QED BY <1>1, <1>2

LEMMA TriplesHold ==
  ASSUME BootstrapHolds, OpenTriples \/ WriteTriples
  PROVE  ExtractHolds' /\ FilesHold'
<1>1. FilesHold /\ ExtractHolds /\ heard \subseteq [fact: Kept, of: Range(Documents)]
  BY DEF BootstrapHolds
<1>2. CASE OpenTriples
  <2>1. /\ ex.docs \in Seq(Range(Documents))
        /\ ex.result \in Seq(NumberedFacts(ex.docs, heard))
    BY <1>1, <1>2 DEF OpenTriples, ExtractHolds, ExIdle
  <2>2. /\ ex' = [pc |-> "write", docs |-> ex.docs, result |-> ex.result]
        /\ file' = [file EXCEPT !["triples"] = Torn] /\ heard' = heard
    BY <1>2 DEF OpenTriples
  <2>3. ex'.pc = "write" /\ ex'.docs = ex.docs /\ ex'.result = ex.result
    BY <2>2
  <2>4. ExtractHolds'
    BY <2>1, <2>2, <2>3 DEF ExtractHolds
  <2>5. FilesHold'
    BY <1>1, <2>2 DEF FilesHold, Readable
  <2> QED BY <2>4, <2>5
<1>3. CASE WriteTriples
  <2>1. /\ ex.docs \in Seq(Range(Documents))
        /\ ex.result \in Seq(NumberedFacts(ex.docs, heard))
    BY <1>1, <1>3 DEF WriteTriples, ExtractHolds, ExIdle
  <2> DEFINE ts == [i \in DOMAIN ex.result |->
                      Triple(ex.result[i].fact, ex.docs[ex.result[i].id])]
  <2>2. /\ ex' = ExIdle /\ file' = [file EXCEPT !["triples"] = ts] /\ heard' = heard
    BY <1>3 DEF WriteTriples
  <2>3. ts \in Seq(FirstRows(heard))
    <3>1. /\ DOMAIN ex.result = 1 .. Len(ex.result) /\ Len(ex.result) \in Nat
          /\ \A i \in 1 .. Len(ex.result) : ex.result[i] \in NumberedFacts(ex.docs, heard)
      BY <2>1, ListIs
    <3>2. \A d \in DOMAIN ex.docs : ex.docs[d] \in Range(Documents)
      BY <2>1, ListIs
    <3>3. ASSUME NEW i \in 1 .. Len(ex.result)
          PROVE  Triple(ex.result[i].fact, ex.docs[ex.result[i].id]) \in FirstRows(heard)
      <4> PICK fact, d : fact = ex.result[i].fact /\ d = ex.docs[ex.result[i].id]
        OBVIOUS
      <4>1. fact \in Kept /\ d \in Range(Documents) /\ [fact |-> fact, of |-> d] \in heard
        BY <3>1, <3>2 DEF NumberedFacts
      <4> QED BY <4>1, TripleIs
    <3>4. ts \in [1 .. Len(ex.result) -> FirstRows(heard)]
      BY <3>1, <3>3
    <3> HIDE DEF ts
    <3> QED BY <3>1, <3>4, IsList
  <2> HIDE DEF ts
  <2>4. FilesHold'
    BY <1>1, <2>2, <2>3 DEF FilesHold, Readable
  <2> QED BY <2>2, <2>4 DEF ExtractHolds
<1> QED BY <1>2, <1>3

LEMMA StartExtractHolds ==
  ASSUME BootstrapHolds, NEW kept \in SUBSET (DOMAIN Documents),
         StartExtract(Picked(Documents, kept))
  PROVE  ExtractHolds'
<1> PICK docs : docs = Picked(Documents, kept)
  OBVIOUS
<1>1. docs \in Seq(Range(Documents))
  BY RepliesAssumption, PickedIs
<1>2. /\ \A A : <<>> \in Seq(A)
      /\ {} \subseteq DOMAIN docs /\ 1 \in Nat \ {0}
  OBVIOUS
<1>3. \/ ex' = [pc |-> "batch", docs |-> docs, next |-> 1, result |-> <<>>, waiting |-> {}]
      \/ ex' = [pc |-> "chunks", docs |-> docs, next |-> 1, result |-> <<>>]
  BY DEF StartExtract
<1>4. CASE ex' = [pc |-> "batch", docs |-> docs, next |-> 1, result |-> <<>>, waiting |-> {}]
  <2>1. /\ ex'.pc = "batch" /\ ex'.docs = docs /\ ex'.next = 1 /\ ex'.result = <<>>
        /\ ex'.waiting = {}
    BY <1>4
  <2> QED BY <1>1, <1>2, <1>4, <2>1 DEF ExtractHolds
<1>5. CASE ex' = [pc |-> "chunks", docs |-> docs, next |-> 1, result |-> <<>>]
  <2>1. ex'.pc = "chunks" /\ ex'.docs = docs /\ ex'.next = 1 /\ ex'.result = <<>>
    BY <1>5
  <2> QED BY <1>1, <1>2, <1>5, <2>1 DEF ExtractHolds
<1> QED BY <1>3, <1>4, <1>5

LEMMA NormalizationHolds ==
  ASSUME BootstrapHolds,
         \/ StartNormalize \/ GroupFails \/ OpenNormalized \/ WriteNormalized
         \/ \E groups \in Groupings, min \in {1, 2} : Group(groups, min)
  PROVE  NormalizeHolds' /\ FilesHold'
<1>1. /\ FilesHold /\ NormalizeHolds /\ heard \subseteq heard
      /\ heard \subseteq [fact: Kept, of: Range(Documents)]
  BY DEF BootstrapHolds
<1>2. CASE StartNormalize
  <2>1. nz' = [pc |-> "ask", triples |-> file["triples"]] /\ file' = file /\ heard' = heard
    BY <1>2 DEF StartNormalize
  <2>2. file["triples"] \in Seq(FirstRows(heard))
    BY <1>1, <1>2 DEF StartNormalize, FilesHold
  <2>3. nz'.pc = "ask" /\ nz'.triples = file["triples"]
    BY <2>1
  <2>4. NormalizeHolds'
    BY <2>1, <2>2, <2>3 DEF NormalizeHolds
  <2>5. FilesHold'
    BY <1>1, <2>1 DEF FilesHold, Readable
  <2> QED BY <2>4, <2>5
<1>3. CASE GroupFails
  <2>1. nz' = NzIdle /\ file' = file /\ heard' = heard
    BY <1>3 DEF GroupFails
  <2> QED BY <1>1, <2>1 DEF NormalizeHolds, FilesHold, Readable
<1>4. CASE OpenNormalized
  <2>1. /\ nz = [pc |-> nz.pc, mapping |-> nz.mapping, triples |-> nz.triples]
        /\ nz.pc \in {"normalized", "mapping"} /\ nz.triples \in Seq(ToldRows(heard))
    <3>1. nz.pc \in {"normalized", "mapping"} /\ nz.pc # "ask"
      BY <1>4 DEF OpenNormalized
    <3>2. nz.pc # "idle"
      BY <3>1
    <3>3. NzIdle.pc = "idle"
      BY DEF NzIdle
    <3>4. nz # NzIdle
      BY <3>2, <3>3
    <3> QED BY <1>1, <3>1, <3>4 DEF NormalizeHolds
  <2>2. PICK place \in {"write triples", "write mapping"} : nz' = [nz EXCEPT !.pc = place]
    BY <1>4 DEF OpenNormalized
  <2>3. nz' = [pc |-> place, mapping |-> nz.mapping, triples |-> nz.triples]
    BY <2>1, <2>2
  <2>4. nz'.pc = place /\ nz'.mapping = nz.mapping /\ nz'.triples = nz.triples
    BY <2>3
  <2>5. file' = [file EXCEPT ![nz.pc] = Torn] /\ heard' = heard
    BY <1>4 DEF OpenNormalized
  <2>6. NormalizeHolds'
    BY <2>1, <2>3, <2>4, <2>5 DEF NormalizeHolds
  <2>7. FilesHold'
    BY <1>1, <2>1, <2>5 DEF FilesHold, Readable
  <2> QED BY <2>6, <2>7
<1>5. CASE WriteNormalized
  <2>1. /\ nz = [pc |-> nz.pc, mapping |-> nz.mapping, triples |-> nz.triples]
        /\ nz.triples \in Seq(ToldRows(heard)) /\ heard' = heard
    <3>1. /\ nz.pc \in {"write triples", "write mapping"} /\ nz.pc # "ask" /\ nz.pc # "idle"
          /\ heard' = heard
      BY <1>5 DEF WriteNormalized
    <3>2. nz.pc # "idle"
      BY <3>1
    <3>3. NzIdle.pc = "idle"
      BY DEF NzIdle
    <3>4. nz # NzIdle
      BY <3>2, <3>3
    <3> QED BY <1>1, <3>1, <3>4 DEF NormalizeHolds
  <2>2. CASE /\ nz' = [nz EXCEPT !.pc = "mapping"]
             /\ file' = [file EXCEPT !["normalized"] = nz.triples]
    <3>1. nz' = [pc |-> "mapping", mapping |-> nz.mapping, triples |-> nz.triples]
      BY <2>1, <2>2
    <3>2. nz'.pc = "mapping" /\ nz'.mapping = nz.mapping /\ nz'.triples = nz.triples
      BY <3>1
    <3>3. NormalizeHolds'
      BY <2>1, <3>1, <3>2 DEF NormalizeHolds
    <3>4. FilesHold'
      BY <1>1, <2>1, <2>2 DEF FilesHold, Readable
    <3> QED BY <3>3, <3>4
  <2>3. CASE nz' = NzIdle /\ file' = [file EXCEPT !["mapping"] = nz.mapping]
    <3>1. FilesHold'
      BY <1>1, <2>1, <2>3 DEF FilesHold, Readable
    <3> QED BY <2>3, <3>1 DEF NormalizeHolds
  <2> QED BY <1>5, <2>2, <2>3 DEF WriteNormalized
<1>6. ASSUME NEW groups \in Groupings, NEW min \in {1, 2}, Group(groups, min)
      PROVE  NormalizeHolds' /\ FilesHold'
  <2>1. nz.triples \in Seq(FirstRows(heard)) /\ file' = file /\ heard' = heard
    BY <1>1, <1>6 DEF Group, NormalizeHolds, NzIdle
  <2>2. PICK asked \in Groupings \cup {<<>>} :
          nz' = [pc |-> "normalized", mapping |-> Mapping(asked),
                 triples |-> [i \in DOMAIN nz.triples |->
                                NormalizeTriple(nz.triples[i], Mapping(asked))]]
    BY <1>6 DEF Group
  <2> DEFINE ts == [i \in DOMAIN nz.triples |->
                      NormalizeTriple(nz.triples[i], Mapping(asked))]
  <2>3. ts \in Seq(ToldRows(heard))
    <3>1. /\ DOMAIN nz.triples = 1 .. Len(nz.triples) /\ Len(nz.triples) \in Nat
          /\ \A i \in 1 .. Len(nz.triples) : nz.triples[i] \in FirstRows(heard)
      BY <2>1, ListIs
    <3>2. \A i \in 1 .. Len(nz.triples) :
            NormalizeTriple(nz.triples[i], Mapping(asked)) \in ToldRows(heard)
      BY <1>1, <3>1, NormalizeTripleIs
    <3>3. ts \in [1 .. Len(nz.triples) -> ToldRows(heard)]
      BY <3>1, <3>2
    <3> HIDE DEF ts
    <3> QED BY <3>1, <3>3, IsList
  <2> HIDE DEF ts
  <2>4. nz' = [pc |-> "normalized", mapping |-> Mapping(asked), triples |-> ts]
    BY <2>2 DEF ts
  <2>5. nz'.pc = "normalized" /\ nz'.mapping = Mapping(asked) /\ nz'.triples = ts
    BY <2>4
  <2>6. NormalizeHolds'
    BY <2>1, <2>3, <2>4, <2>5 DEF NormalizeHolds
  <2>7. FilesHold'
    BY <1>1, <2>1 DEF FilesHold, Readable
  <2> QED BY <2>6, <2>7
<1> QED BY <1>2, <1>3, <1>4, <1>5, <1>6

LEMMA StartLoadHolds ==
  ASSUME BootstrapHolds, NEW f, StartLoad(f)
  PROVE  LoadHolds' /\ LoadComes'
<1>1. FilesHold /\ heard \subseteq heard
  BY DEF BootstrapHolds
<1>2. /\ f \in {"triples", "normalized"} /\ Readable(f)
      /\ ld' = [pc |-> "load", input |-> file[f], errors |-> 0,
                nodes |-> Entities(file[f]), rels |-> RelationGroups(file[f])]
      /\ heard' = heard
  BY DEF StartLoad
<1> PICK ts : ts = file[f]
  OBVIOUS
<1>3. ts \in Seq(ToldRows(heard))
  <2>1. FirstRows(heard) \subseteq ToldRows(heard)
    BY DEF FirstRows
  <2> QED BY <1>1, <1>2, <2>1, SeqGrows DEF FilesHold
<1>4. ts \in Seq(Rows)
  <2>1. ToldRows(heard) \subseteq Rows
    BY DEF ToldRows
  <2> QED BY <1>3, <2>1, SeqGrows
<1>5. /\ ld'.pc = "load" /\ ld'.input = ts /\ ld'.errors = 0
      /\ ld'.nodes = Entities(ts) /\ ld'.rels = RelationGroups(ts)
      /\ ld' = [pc |-> "load", input |-> ld'.input, errors |-> ld'.errors,
                nodes |-> ld'.nodes, rels |-> ld'.rels]
  BY <1>2
<1>6. Entities(ts) \in Seq(EntityRows) /\ RelationGroups(ts) \in Seq(Groups(heard))
  BY <1>3, <1>4, EntitiesIs, RelationGroupsIs
<1>7. LoadHolds'
  <2>1. 0 \in Nat
    OBVIOUS
  <2> QED BY <1>2, <1>3, <1>5, <1>6, <2>1 DEF LoadHolds
<1>8. ASSUME NEW t \in Range(ts) PROVE NameComes(t.subject)' /\ NameComes(t.object)'
  <2>1. /\ \E e \in Range(Entities(ts)) : Lower[e.name] = Lower[t.subject]
        /\ \E e \in Range(Entities(ts)) : Lower[e.name] = Lower[t.object]
    BY <1>4, EntitiesIs
  <2> QED BY <1>5, <2>1 DEF NameComes
<1>9. ASSUME NEW t \in Range(ts) PROVE RowComes(t)'
  <2>1. KeyOf(t)[2] = NormalizeRelationType(t.relation)
    BY DEF KeyOf
  <2>2. KeyOf(t)[2] # Refused =>
          \E g \in Range(RelationGroups(ts)) : g.type = KeyOf(t)[2] /\ t \in Range(g.rows)
    BY <1>3, <2>1, RelationGroupsIs
  <2> QED BY <1>5, <2>2 DEF RowComes
<1>10. LoadComes'
  BY <1>5, <1>8, <1>9 DEF LoadComes
<1> QED BY <1>7, <1>10

\* Once no error is reported, there was none and what was to be merged is.
LEMMA NoErrorMerges ==
  ASSUME ld.errors \in Nat, NEW e \in {0, 1}, ld'.errors = ld.errors + e, ld'.errors = 0,
         NEW merged, NEW old, NEW new, Outcome(merged, old, new)
  PROVE  ld.errors = 0 /\ merged = new
<1>1. ld.errors = 0 /\ ld'.errors # ld.errors + 1
  <2> PICK a, b : a = ld.errors /\ b = ld'.errors
    OBVIOUS
  <2>1. a \in Nat /\ b = a + e /\ b = 0
    OBVIOUS
  <2>2. a = 0 /\ b # a + 1
    BY <2>1
  <2> QED BY <2>2
<1> QED BY <1>1 DEF Outcome

LEMMA LoadNodesHolds ==
  ASSUME BootstrapHolds, LoadNodes
  PROVE  LoadHolds' /\ LoadComes'
<1>1. /\ LoadHolds /\ LoadComes /\ ld.pc = "load" /\ ld.nodes # <<>>
      /\ heard' = heard /\ rel' = rel
      /\ Outcome(entity', entity, MergedNodes(Batch(ld.nodes)))
  BY DEF BootstrapHolds, LoadNodes
<1>2. /\ ld = [pc |-> "load", input |-> ld.input, errors |-> ld.errors,
               nodes |-> ld.nodes, rels |-> ld.rels]
      /\ ld.input \in Seq(ToldRows(heard)) /\ ld.errors \in Nat
      /\ ld.nodes \in Seq(EntityRows) /\ ld.rels \in Seq(Groups(heard))
  BY <1>1 DEF LoadHolds, LdIdle
<1>3. PICK e \in {0, 1} : ld' = [ld EXCEPT !.nodes = Rest(@), !.errors = @ + e]
  BY DEF LoadNodes
<1>4. /\ ld'.pc = "load" /\ ld'.input = ld.input /\ ld'.errors = ld.errors + e
      /\ ld'.nodes = Rest(ld.nodes) /\ ld'.rels = ld.rels
      /\ ld' = [pc |-> "load", input |-> ld'.input, errors |-> ld'.errors,
                nodes |-> ld'.nodes, rels |-> ld'.rels]
  <2> PICK i, n, s, g : ld = [pc |-> "load", input |-> i, errors |-> n, nodes |-> s,
                              rels |-> g]
    BY <1>2
  <2>1. ld' = [pc |-> "load", input |-> i, errors |-> n + e, nodes |-> Rest(s), rels |-> g]
    BY <1>3
  <2> QED BY <2>1
<1>5. /\ Rest(ld.nodes) \in Seq(EntityRows)
      /\ Range(ld.nodes) = Range(Batch(ld.nodes)) \cup Range(Rest(ld.nodes))
  BY <1>2, BatchRest
<1>6. ld'.errors \in Nat
  BY <1>2, <1>4
<1>7. LoadHolds'
  BY <1>1, <1>2, <1>4, <1>5, <1>6 DEF LoadHolds
<1>8. ASSUME ld'.errors = 0 PROVE ld.errors = 0 /\ entity' = MergedNodes(Batch(ld.nodes))
  BY <1>1, <1>2, <1>4, <1>8, NoErrorMerges
<1>9. ASSUME ld'.errors = 0, NEW n, NameComes(n) PROVE NameComes(n)'
  <2>1. DOMAIN entity' = DOMAIN entity \cup {e1.name : e1 \in Range(Batch(ld.nodes))}
    BY <1>8, <1>9 DEF MergedNodes
  <2>2. CASE \E m \in DOMAIN entity : Lower[m] = Lower[n]
    BY <2>1, <2>2 DEF NameComes
  <2>3. ASSUME NEW e1 \in Range(ld.nodes), Lower[e1.name] = Lower[n] PROVE NameComes(n)'
    <3>1. CASE e1 \in Range(Batch(ld.nodes))
      BY <2>1, <2>3, <3>1 DEF NameComes
    <3>2. CASE e1 \in Range(Rest(ld.nodes))
      BY <1>4, <2>3, <3>2 DEF NameComes
    <3> QED BY <1>5, <3>1, <3>2
  <2> QED BY <1>9, <2>2, <2>3 DEF NameComes
<1>10. ASSUME NEW t, RowComes(t) PROVE RowComes(t)'
  BY <1>1, <1>4, <1>10 DEF RowComes
<1>11. LoadComes'
  <2> SUFFICES ASSUME ld'.errors = 0, NEW t \in Range(ld'.input)
               PROVE  NameComes(t.subject)' /\ NameComes(t.object)' /\ RowComes(t)'
    BY DEF LoadComes
  <2>1. NameComes(t.subject) /\ NameComes(t.object) /\ RowComes(t)
    BY <1>1, <1>4, <1>8 DEF LoadComes
  <2> QED BY <1>9, <1>10, <2>1
<1> QED BY <1>7, <1>11

\* What is not in the batch is in the groups that follow.
LEMMA GroupsAfterIs ==
  ASSUME NEW h, NEW groups \in Seq(Groups(h)), groups # <<>>
  PROVE  /\ Head(groups) \in Groups(h) /\ GroupsAfter(groups) \in Seq(Groups(h))
         /\ \A g \in Range(groups) : \A t \in Range(g.rows) :
              \/ g = Head(groups) /\ t \in Range(Batch(g.rows))
              \/ \E a \in Range(GroupsAfter(groups)) : a.type = g.type /\ t \in Range(a.rows)
<1> PICK n, first : n = Len(groups) /\ first = groups[1]
  OBVIOUS
<1>1. /\ n \in Nat \ {0} /\ DOMAIN groups = 1 .. n /\ groups \in [1 .. n -> Groups(h)]
      /\ \A i \in 1 .. n : groups[i] \in Groups(h)
  <2>1. /\ n \in Nat /\ DOMAIN groups = 1 .. n /\ groups \in [1 .. n -> Groups(h)]
        /\ \A i \in 1 .. n : groups[i] \in Groups(h)
    BY ListIs
  <2>2. n # 0
    BY ListIs
  <2> QED BY <2>1, <2>2
<1>2. 1 \in 1 .. n /\ first \in Groups(h) /\ Head(groups) = first
  <2>1. 1 \in 1 .. n
    BY <1>1
  <2> QED BY <1>1, <2>1
<1>3. /\ first = [type |-> first.type, rows |-> first.rows]
      /\ first.type \in Seq(Kinds) \ {Refused} /\ first.rows \in Seq(ToldRows(h))
      /\ \A r \in Range(first.rows) : NormalizeRelationType(r.relation) = first.type
  BY <1>2 DEF Groups
<1>4. /\ Rest(first.rows) \in Seq(ToldRows(h))
      /\ Range(first.rows) = Range(Batch(first.rows)) \cup Range(Rest(first.rows))
  BY <1>3, BatchRest
<1>5. CASE Rest(first.rows) = <<>>
  <2>1. GroupsAfter(groups) = Tail(groups)
    BY <1>2, <1>5 DEF GroupsAfter
  <2>2. /\ Tail(groups) \in Seq(Groups(h)) /\ Len(Tail(groups)) = n - 1
        /\ \A i \in 1 .. n - 1 : Tail(groups)[i] = groups[i + 1]
    <3>1. \A A : \A s \in Seq(A) : s # <<>> =>
            /\ Tail(s) \in Seq(A) /\ Len(Tail(s)) = Len(s) - 1
            /\ \A i \in 1 .. Len(s) - 1 : Tail(s)[i] = s[i + 1]
      OBVIOUS
    <3> QED BY <3>1
  <2>3. ASSUME NEW i \in 1 .. n, i # 1 PROVE groups[i] \in Range(Tail(groups))
    <3>1. i - 1 \in 1 .. n - 1 /\ (i - 1) + 1 = i
      BY <1>1, <2>3
    <3>2. DOMAIN Tail(groups) = 1 .. n - 1
      BY <2>2, ListIs
    <3>3. Tail(groups)[i - 1] = groups[i]
      BY <2>2, <3>1
    <3> QED BY <3>1, <3>2, <3>3 DEF Range
  <2>4. Range(Rest(first.rows)) = {}
    BY <1>5 DEF Range
  <2>5. ASSUME NEW g \in Range(groups), NEW t \in Range(g.rows)
        PROVE  \/ g = first /\ t \in Range(Batch(g.rows))
               \/ g \in Range(Tail(groups))
    <3>1. PICK i \in 1 .. n : groups[i] = g
      BY RangeIs
    <3> QED BY <1>4, <2>3, <2>4, <3>1
  <2> QED BY <1>2, <2>1, <2>2, <2>5
<1>6. CASE Rest(first.rows) # <<>>
  <2> PICK left, after : /\ left = [type |-> first.type, rows |-> Rest(first.rows)]
                         /\ after = [i \in 1 .. n |-> IF i = 1 THEN left ELSE groups[i]]
    OBVIOUS
  <2>1. GroupsAfter(groups) = after
    <3>1. [first EXCEPT !.rows = Rest(@)] = left
      BY <1>3
    <3>2. GroupsAfter(groups) = [groups EXCEPT ![1] = [first EXCEPT !.rows = Rest(@)]]
      BY <1>2, <1>6 DEF GroupsAfter
    <3>3. GroupsAfter(groups) = [groups EXCEPT ![1] = left]
      BY <3>1, <3>2
    <3> QED BY <1>1, <1>2, <3>3
  <2>2. left \in Groups(h)
    <3>1. Range(Rest(first.rows)) \subseteq Range(first.rows)
      BY <1>4
    <3> QED BY <1>3, <1>4, <3>1 DEF Groups
  <2>3. after \in [1 .. n -> Groups(h)]
    BY <1>1, <2>2
  <2>4. after \in Seq(Groups(h)) /\ DOMAIN after = 1 .. n
    BY <1>1, <2>3, IsList
  <2>5. left \in Range(after) /\ \A i \in 1 .. n : i # 1 => groups[i] \in Range(after)
    BY <1>2, <2>4 DEF Range
  <2>6. ASSUME NEW g \in Range(groups), NEW t \in Range(g.rows)
        PROVE  \/ g = first /\ t \in Range(Batch(g.rows))
               \/ \E a \in Range(after) : a.type = g.type /\ t \in Range(a.rows)
    <3>1. PICK i \in 1 .. n : groups[i] = g
      BY RangeIs
    <3>2. CASE i = 1
      <4>1. g = first /\ t \in Range(Batch(first.rows)) \cup Range(Rest(first.rows))
        BY <1>4, <3>1, <3>2
      <4>2. left.type = first.type /\ left.rows = Rest(first.rows)
        OBVIOUS
      <4> QED BY <2>5, <4>1, <4>2
    <3>3. CASE i # 1
      BY <2>5, <3>1, <3>3
    <3> QED BY <3>2, <3>3
  <2> QED BY <1>2, <2>1, <2>4, <2>6
<1> QED BY <1>5, <1>6

\* No relationship goes, none becomes less certain or takes another text.
Raised ==
  \A key \in DOMAIN rel :
    /\ key \in DOMAIN rel' /\ rel'[key].confidence >= rel[key].confidence
    /\ rel'[key].source = rel[key].source

LEMMA LoadRelationsHolds ==
  ASSUME BootstrapHolds, LoadRelations
  PROVE  LoadHolds' /\ GraphHolds' /\ LoadComes' /\ Raised
<1>1. /\ LoadHolds /\ LoadComes /\ GraphHolds
      /\ heard \subseteq [fact: Kept, of: Range(Documents)]
      /\ ld.pc = "load" /\ ld.nodes = <<>> /\ ld.rels # <<>>
      /\ heard' = heard /\ entity' = entity
  BY DEF BootstrapHolds, LoadRelations
<1>2. /\ ld = [pc |-> "load", input |-> ld.input, errors |-> ld.errors,
               nodes |-> ld.nodes, rels |-> ld.rels]
      /\ ld.input \in Seq(ToldRows(heard)) /\ ld.errors \in Nat
      /\ ld.nodes \in Seq(EntityRows) /\ ld.rels \in Seq(Groups(heard))
  BY <1>1 DEF LoadHolds, LdIdle
<1> PICK first, rows, merged : /\ first = Head(ld.rels) /\ rows = Batch(first.rows)
                               /\ merged = MergedRels(first.type, rows)
  OBVIOUS
<1>3. /\ \E e \in {0, 1} : ld' = [ld EXCEPT !.rels = GroupsAfter(@), !.errors = @ + e]
      /\ rel' \in {rel, merged} /\ Outcome(rel', rel, merged)
  BY DEF LoadRelations
<1>4. PICK e \in {0, 1} : ld' = [ld EXCEPT !.rels = GroupsAfter(@), !.errors = @ + e]
  BY <1>3
<1>5. /\ ld'.pc = "load" /\ ld'.input = ld.input /\ ld'.errors = ld.errors + e
      /\ ld'.nodes = ld.nodes /\ ld'.rels = GroupsAfter(ld.rels)
      /\ ld' = [pc |-> "load", input |-> ld'.input, errors |-> ld'.errors,
                nodes |-> ld'.nodes, rels |-> ld'.rels]
  <2> PICK i, n, s, g : ld = [pc |-> "load", input |-> i, errors |-> n, nodes |-> s,
                              rels |-> g]
    BY <1>2
  <2>1. ld' = [pc |-> "load", input |-> i, errors |-> n + e, nodes |-> s,
               rels |-> GroupsAfter(g)]
    BY <1>4
  <2> QED BY <2>1
<1>6. /\ first \in Groups(heard) /\ GroupsAfter(ld.rels) \in Seq(Groups(heard))
      /\ \A g \in Range(ld.rels) : \A t \in Range(g.rows) :
           \/ g = first /\ t \in Range(rows)
           \/ \E a \in Range(GroupsAfter(ld.rels)) : a.type = g.type /\ t \in Range(a.rows)
  BY <1>1, <1>2, GroupsAfterIs
<1>7. ld'.errors \in Nat
  BY <1>2, <1>5
<1>8. LoadHolds'
  BY <1>1, <1>2, <1>5, <1>6, <1>7 DEF LoadHolds
<1>9. /\ first.type \in Seq(Kinds) \ {Refused} /\ rows \in Seq(ToldRows(heard))
      /\ \A t \in Range(rows) : NormalizeRelationType(t.relation) = first.type
  <2>1. /\ first.type \in Seq(Kinds) \ {Refused} /\ first.rows \in Seq(ToldRows(heard))
        /\ \A t \in Range(first.rows) : NormalizeRelationType(t.relation) = first.type
    BY <1>6 DEF Groups
  <2>2. rows \in Seq(ToldRows(heard)) /\ Range(rows) \subseteq Range(first.rows)
    BY <2>1, BatchRest
  <2> QED BY <2>1, <2>2
<1>10. /\ \A key \in DOMAIN merged : ToldRel(key, merged[key], heard)
       /\ \A key \in DOMAIN rel :
            /\ key \in DOMAIN merged /\ merged[key].confidence >= rel[key].confidence
            /\ merged[key].source = rel[key].source
       /\ \A t \in Range(rows) : {t.subject, t.object} \subseteq DOMAIN entity =>
            KeyOf(t) \in DOMAIN merged /\ merged[KeyOf(t)].confidence >= t.confidence
  BY <1>1, <1>9, MergedRelsIs
<1>11. GraphHolds'
  BY <1>1, <1>3, <1>10 DEF GraphHolds
<1>12. ASSUME ld'.errors = 0 PROVE ld.errors = 0 /\ rel' = merged
  BY <1>2, <1>3, <1>5, <1>12, NoErrorMerges
<1>13. ASSUME NEW n, NameComes(n) PROVE NameComes(n)'
  BY <1>1, <1>5, <1>13 DEF NameComes
<1>14. ASSUME ld'.errors = 0, NEW t \in ToldRows(heard), RowComes(t) PROVE RowComes(t)'
  <2>1. CASE KeyOf(t)[2] = Refused
    BY <2>1 DEF RowComes
  <2>2. CASE ~({t.subject, t.object} \subseteq DOMAIN entity)
    BY <1>1, <1>5, <2>2 DEF RowComes
  <2>3. ASSUME NEW g \in Range(ld.rels), g.type = KeyOf(t)[2], t \in Range(g.rows),
               {t.subject, t.object} \subseteq DOMAIN entity
        PROVE  RowComes(t)'
    <3>1. CASE g = first /\ t \in Range(rows)
      BY <1>10, <1>12, <1>14, <2>3, <3>1 DEF RowComes
    <3>2. CASE \E a \in Range(GroupsAfter(ld.rels)) : a.type = g.type /\ t \in Range(a.rows)
      BY <1>5, <2>3, <3>2 DEF RowComes
    <3> QED BY <1>6, <2>3, <3>1, <3>2
  <2>4. CASE KeyOf(t) \in DOMAIN rel /\ rel[KeyOf(t)].confidence >= t.confidence
    <3> PICK a, b, c : /\ a = merged[KeyOf(t)].confidence /\ b = rel[KeyOf(t)].confidence
                       /\ c = t.confidence
      OBVIOUS
    <3>1. KeyOf(t) \in DOMAIN merged /\ a >= b /\ b >= c
      BY <1>10, <2>4
    <3>2. c \in MinConfidence .. MaxConfidence
      BY <1>1, RowIsTold
    <3>3. b \in MinConfidence .. MaxConfidence /\ a \in MinConfidence .. MaxConfidence
      BY <1>1, <1>10, <2>4, <3>1 DEF GraphHolds, ToldRel
    <3>4. a >= c
      <4>1. a \in Int /\ b \in Int /\ c \in Int
        BY <3>2, <3>3, RepliesAssumption
      <4> QED BY <3>1, <4>1
    <3> QED BY <1>12, <1>14, <3>1, <3>4 DEF RowComes
  <2> QED BY <1>14, <2>1, <2>2, <2>3, <2>4 DEF RowComes
<1>15. LoadComes'
  <2> SUFFICES ASSUME ld'.errors = 0, NEW t \in Range(ld'.input)
               PROVE  NameComes(t.subject)' /\ NameComes(t.object)' /\ RowComes(t)'
    BY DEF LoadComes
  <2>1. NameComes(t.subject) /\ NameComes(t.object) /\ RowComes(t)
    BY <1>1, <1>5, <1>12 DEF LoadComes
  <2>2. t \in ToldRows(heard)
    BY <1>2, <1>5, RangeIs
  <2> QED BY <1>13, <1>14, <2>1, <2>2
<1>16. Raised
  <2>1. \A x \in MinConfidence .. MaxConfidence : x >= x
    BY RepliesAssumption
  <2>2. CASE rel' = rel
    <3>1. \A key \in DOMAIN rel : rel[key].confidence >= rel[key].confidence
      BY <1>1, <2>1 DEF GraphHolds, ToldRel
    <3> QED BY <2>2, <3>1 DEF Raised
  <2>3. CASE rel' = merged
    BY <1>10, <2>3 DEF Raised
  <2> QED BY <1>3, <2>2, <2>3
<1> QED BY <1>8, <1>11, <1>15, <1>16

LEMMA EndLoadHolds ==
  ASSUME BootstrapHolds, EndLoad
  PROVE  LoadHolds' /\ LoadComes'
<1>1. /\ LoadHolds /\ LoadComes /\ ld.pc = "load" /\ ld.nodes = <<>> /\ ld.rels = <<>>
      /\ heard' = heard /\ entity' = entity /\ rel' = rel
      /\ ld' = [pc |-> "done", input |-> ld.input, errors |-> ld.errors]
  BY DEF BootstrapHolds, EndLoad, graph
<1>2. ld.input \in Seq(ToldRows(heard)) /\ ld.errors \in Nat
  BY <1>1 DEF LoadHolds, LdIdle
<1>3. ld'.pc = "done" /\ ld'.input = ld.input /\ ld'.errors = ld.errors
  BY <1>1
<1>4. LoadHolds'
  BY <1>1, <1>2, <1>3 DEF LoadHolds
<1>5. Range(ld.nodes) = {} /\ Range(ld.rels) = {}
  BY <1>1 DEF Range
<1>6. ASSUME NEW n, NameComes(n) PROVE NameComes(n)'
  BY <1>1, <1>5, <1>6 DEF NameComes
<1>7. ASSUME NEW t, RowComes(t) PROVE RowComes(t)'
  BY <1>1, <1>3, <1>5, <1>7 DEF RowComes
<1>8. LoadComes'
  BY <1>1, <1>3, <1>6, <1>7 DEF LoadComes
<1> QED BY <1>4, <1>8


\* What was there stays there when a script is killed.
LEMMA KillHolds ==
  ASSUME BootstrapHolds, NEW s \in Scripts, Kill(s)
  PROVE  BootstrapHolds'
<1>1. /\ file' = file /\ entity' = entity /\ rel' = rel /\ heard' = heard
      /\ ex' \in {ExIdle, ex} /\ nz' \in {NzIdle, nz} /\ ld' \in {LdIdle, ld}
  BY DEF Kill, graph
<1>2. /\ ex' = ex => ExtractHolds'
      /\ nz' = nz => NormalizeHolds'
      /\ FilesHold' /\ GraphHolds'
      /\ ld' = ld => LoadHolds' /\ LoadComes'
  BY <1>1, Undisturbed
<1>3. ex' = ExIdle => ExtractHolds'
  BY DEF ExtractHolds
<1>4. nz' = NzIdle => NormalizeHolds'
  BY DEF NormalizeHolds
<1>5. LdIdle.pc \notin {"load", "done"}
  BY DEF LdIdle
<1>6. ld' = LdIdle => LoadHolds' /\ LoadComes'
  BY <1>5 DEF LoadHolds, LoadComes
<1>7. heard' \subseteq [fact: Kept, of: Range(Documents)]
  BY <1>1 DEF BootstrapHolds
<1> QED BY <1>1, <1>2, <1>3, <1>4, <1>6, <1>7 DEF BootstrapHolds

LEMMA BootstrapStarts == BootstrapInit => BootstrapHolds
<1> SUFFICES ASSUME BootstrapInit PROVE BootstrapHolds
  OBVIOUS
<1>1. /\ file = [f \in {"triples", "normalized", "mapping"} |-> Missing]
      /\ ex = ExIdle /\ nz = NzIdle /\ ld = LdIdle /\ rel = <<>> /\ heard = {}
  BY DEF BootstrapInit
<1>2. ExtractHolds /\ NormalizeHolds
  BY <1>1 DEF ExtractHolds, NormalizeHolds
<1>3. FilesHold
  BY <1>1 DEF FilesHold, Readable
<1>4. LdIdle.pc \notin {"load", "done"}
  BY DEF LdIdle
<1>5. LoadHolds /\ LoadComes
  BY <1>1, <1>4 DEF LoadHolds, LoadComes
<1>6. DOMAIN rel = {}
  BY <1>1
<1>7. GraphHolds
  BY <1>6 DEF GraphHolds
<1> QED BY <1>1, <1>2, <1>3, <1>5, <1>7 DEF BootstrapHolds

LEMMA ExtractionKeeps ==
  ASSUME BootstrapHolds, Extraction
  PROVE  BootstrapHolds'
<1>1. /\ nz' = nz /\ ld' = ld /\ entity' = entity /\ rel' = rel
  BY DEF Extraction, NextBatch, StartCutting, CutChunk, OpenTriples, WriteTriples,
         Extract, ExtractWhole, graph
<1>2. /\ ExtractHolds' /\ heard \subseteq heard'
      /\ heard' \subseteq [fact: Kept, of: Range(Documents)]
      /\ file' = file \/ FilesHold'
  <2>1. heard \subseteq [fact: Kept, of: Range(Documents)]
    BY DEF BootstrapHolds
  <2>2. CASE NextBatch
    <3>1. heard' = heard /\ file' = file
      BY <2>2 DEF NextBatch
    <3> QED BY <2>1, <2>2, <3>1, NextBatchHolds
  <2>3. CASE StartCutting \/ CutChunk
    <3>1. heard' = heard /\ file' = file
      BY <2>3 DEF StartCutting, CutChunk
    <3> QED BY <2>1, <2>3, <3>1, CuttingHolds
  <2>4. CASE OpenTriples \/ WriteTriples
    <3>1. heard' = heard
      BY <2>4 DEF OpenTriples, WriteTriples
    <3> QED BY <2>1, <2>4, <3>1, TriplesHold
  <2>5. ASSUME NEW reply \in Replies, NEW j \in DOMAIN Documents, Extract(j, reply)
        PROVE  /\ ExtractHolds' /\ heard \subseteq heard'
               /\ heard' \subseteq [fact: Kept, of: Range(Documents)]
               /\ file' = file \/ FilesHold'
    <3>1. file' = file
      BY <2>5 DEF Extract
    <3> QED BY <2>5, <3>1, ExtractStepHolds
  <2>6. ASSUME NEW reply \in Replies, ExtractWhole(reply)
        PROVE  /\ ExtractHolds' /\ heard \subseteq heard'
               /\ heard' \subseteq [fact: Kept, of: Range(Documents)]
               /\ file' = file \/ FilesHold'
    <3>1. file' = file
      BY <2>6 DEF ExtractWhole
    <3> QED BY <2>6, <3>1, ExtractWholeHolds
  <2> QED BY <2>2, <2>3, <2>4, <2>5, <2>6 DEF Extraction
<1>3. NormalizeHolds' /\ LoadHolds' /\ GraphHolds' /\ LoadComes' /\ FilesHold'
  BY <1>1, <1>2, Undisturbed
<1> QED BY <1>2, <1>3 DEF BootstrapHolds

LEMMA LoadingKeeps ==
  ASSUME BootstrapHolds, Loading
  PROVE  BootstrapHolds'
<1>1. /\ file' = file /\ ex' = ex /\ nz' = nz /\ heard' = heard
      /\ heard \subseteq [fact: Kept, of: Range(Documents)]
  BY DEF Loading, LoadNodes, LoadRelations, EndLoad, BootstrapHolds
<1>2. FilesHold' /\ ExtractHolds' /\ NormalizeHolds' /\ (rel' = rel => GraphHolds')
  BY <1>1, Undisturbed
<1>3. LoadHolds' /\ LoadComes' /\ GraphHolds'
  <2>1. CASE LoadNodes
    <3>1. rel' = rel
      BY <2>1 DEF LoadNodes
    <3> QED BY <1>2, <2>1, <3>1, LoadNodesHolds
  <2>2. CASE LoadRelations
    BY <2>2, LoadRelationsHolds
  <2>3. CASE EndLoad
    <3>1. rel' = rel
      BY <2>3 DEF EndLoad, graph
    <3> QED BY <1>2, <2>3, <3>1, EndLoadHolds
  <2> QED BY <2>1, <2>2, <2>3 DEF Loading
<1> QED BY <1>1, <1>2, <1>3 DEF BootstrapHolds

LEMMA NormalizationKeeps ==
  ASSUME BootstrapHolds, StartNormalize \/ GroupFails \/ Normalization
  PROVE  BootstrapHolds'
<1>1. /\ ex' = ex /\ ld' = ld /\ entity' = entity /\ rel' = rel /\ heard' = heard
      /\ heard \subseteq [fact: Kept, of: Range(Documents)]
  BY DEF Normalization, StartNormalize, GroupFails, OpenNormalized, WriteNormalized, Group,
         graph, BootstrapHolds
<1>2. ExtractHolds' /\ LoadHolds' /\ GraphHolds' /\ LoadComes'
  BY <1>1, Undisturbed
<1>3. NormalizeHolds' /\ FilesHold'
  BY NormalizationHolds DEF Normalization
<1> QED BY <1>1, <1>2, <1>3 DEF BootstrapHolds

LEMMA BootstrapSteps ==
  ASSUME BootstrapHolds, [BootstrapNext]_bootstrap
  PROVE  BootstrapHolds'
<1>1. heard \subseteq [fact: Kept, of: Range(Documents)]
  BY DEF BootstrapHolds
<1>2. ASSUME NEW kept \in SUBSET (DOMAIN Documents),
             StartExtract(Picked(Documents, kept))
      PROVE  BootstrapHolds'
  <2>1. /\ file' = file /\ nz' = nz /\ ld' = ld /\ entity' = entity /\ rel' = rel
        /\ heard' = heard
    BY <1>2 DEF StartExtract, graph
  <2>2. ExtractHolds'
    BY <1>2, StartExtractHolds
  <2>3. NormalizeHolds' /\ FilesHold' /\ LoadHolds' /\ GraphHolds' /\ LoadComes'
    BY <2>1, Undisturbed
  <2> QED BY <1>1, <2>1, <2>2, <2>3 DEF BootstrapHolds
<1>3. ASSUME NEW j \in DOMAIN Documents, ExtractFails(j) PROVE BootstrapHolds'
  <2>1. /\ file' = file /\ nz' = nz /\ ld' = ld /\ entity' = entity /\ rel' = rel
        /\ heard' = heard
    BY <1>3 DEF ExtractFails, graph
  <2>2. ExtractHolds'
    BY <1>3, ExtractFailsHolds
  <2>3. NormalizeHolds' /\ FilesHold' /\ LoadHolds' /\ GraphHolds' /\ LoadComes'
    BY <2>1, Undisturbed
  <2> QED BY <1>1, <2>1, <2>2, <2>3 DEF BootstrapHolds
<1>4. ASSUME NEW f \in {"triples", "normalized"}, StartLoad(f) PROVE BootstrapHolds'
  <2>1. /\ file' = file /\ ex' = ex /\ nz' = nz /\ rel' = rel /\ heard' = heard
    BY <1>4 DEF StartLoad, graph
  <2>2. LoadHolds' /\ LoadComes'
    BY <1>4, StartLoadHolds
  <2>3. ExtractHolds' /\ NormalizeHolds' /\ FilesHold' /\ GraphHolds'
    BY <2>1, Undisturbed
  <2> QED BY <1>1, <2>1, <2>2, <2>3 DEF BootstrapHolds
<1>5. CASE UNCHANGED bootstrap
  <2>1. /\ file' = file /\ ex' = ex /\ nz' = nz /\ ld' = ld /\ entity' = entity
        /\ rel' = rel /\ heard' = heard
    BY <1>5 DEF bootstrap
  <2>2. /\ ExtractHolds' /\ NormalizeHolds' /\ FilesHold' /\ LoadHolds' /\ GraphHolds'
        /\ LoadComes'
    BY <2>1, Undisturbed
  <2> QED BY <1>1, <2>1, <2>2 DEF BootstrapHolds
<1> QED
  BY <1>2, <1>3, <1>4, <1>5, ExtractionKeeps, NormalizationKeeps, LoadingKeeps, KillHolds
  DEF BootstrapNext

-----------------------------------------------------------------------------
(* Theorems                                                                 *)

\* Whatever the LLM replies and whichever call, statement or script stops where,
\* the files, the scripts at work and the graph hold only facts that were heard,
\* of names that became types, and a load without errors is bringing all of its
\* file.
THEOREM BootstrapInvariance == BootstrapSpec => []BootstrapHolds
<1>1. BootstrapHolds /\ [BootstrapNext]_bootstrap => BootstrapHolds'
  BY BootstrapSteps
<1> QED BY <1>1, BootstrapStarts, PTL DEF BootstrapSpec

LEMMA HeldFactsAreTold == BootstrapHolds => FactsAreTold
<1> SUFFICES ASSUME BootstrapHolds PROVE FactsAreTold
  OBVIOUS
<1>1. FilesHold /\ GraphHolds /\ heard \subseteq [fact: Kept, of: Range(Documents)]
  BY DEF BootstrapHolds
<1>2. ASSUME NEW f \in {"triples", "normalized"}, Readable(f), NEW t \in Range(file[f])
      PROVE  /\ [fact |-> Fact(t), of |-> t.source] \in heard
             /\ t.confidence >= MinConfidence /\ t.confidence <= MaxConfidence
  <2>1. FirstRows(heard) \subseteq ToldRows(heard)
    BY DEF FirstRows
  <2>2. file[f] \in Seq(ToldRows(heard))
    BY <1>1, <1>2, <2>1, SeqGrows DEF FilesHold
  <2>3. t \in ToldRows(heard)
    BY <2>2, RangeIs
  <2>4. t.confidence \in MinConfidence .. MaxConfidence
    BY <1>1, <2>3, RowIsTold
  <2>5. t.confidence >= MinConfidence /\ t.confidence <= MaxConfidence
    BY <2>4, RepliesAssumption
  <2> QED BY <2>3, <2>5 DEF ToldRows
<1>3. ASSUME NEW k \in DOMAIN rel
      PROVE  /\ \E h \in heard : Supports(h, k) /\ h.fact.confidence = rel[k].confidence
             /\ \E h \in heard : Supports(h, k) /\ h.of = rel[k].source
  BY <1>1 DEF GraphHolds, ToldRel
<1> QED BY <1>2, <1>3 DEF FactsAreTold

\* Names and relationships that one load has stored outlive every other load,
\* error and kill: batches merge, so a relationship is only ever raised to a
\* higher confidence and keeps the text it was first stored with.
THEOREM StoredFactsStay ==
  BootstrapSpec => [][Raised /\ DOMAIN entity \subseteq DOMAIN entity']_bootstrap
<1>1. ASSUME BootstrapHolds, [BootstrapNext]_bootstrap
      PROVE  [Raised /\ DOMAIN entity \subseteq DOMAIN entity']_bootstrap
  <2>1. CASE rel' = rel /\ entity' = entity
    <3>1. \A x \in MinConfidence .. MaxConfidence : x >= x
      BY RepliesAssumption
    <3>2. \A key \in DOMAIN rel : rel[key].confidence >= rel[key].confidence
      BY <1>1, <3>1 DEF BootstrapHolds, GraphHolds, ToldRel
    <3>3. Raised
      BY <2>1, <3>2 DEF Raised
    <3> QED BY <2>1, <3>3
  <2>2. CASE LoadNodes
    <3>1. rel' = rel /\ entity' \in {entity, MergedNodes(Batch(ld.nodes))}
      BY <2>2 DEF LoadNodes
    <3>2. DOMAIN entity \subseteq DOMAIN MergedNodes(Batch(ld.nodes))
      BY DEF MergedNodes
    <3>3. DOMAIN entity \subseteq DOMAIN entity'
      BY <3>1, <3>2
    <3>4. \A x \in MinConfidence .. MaxConfidence : x >= x
      BY RepliesAssumption
    <3>5. \A key \in DOMAIN rel : rel[key].confidence >= rel[key].confidence
      BY <1>1, <3>4 DEF BootstrapHolds, GraphHolds, ToldRel
    <3>6. Raised
      BY <3>1, <3>5 DEF Raised
    <3> QED BY <3>3, <3>6
  <2>3. CASE LoadRelations
    <3>1. entity' = entity
      BY <2>3 DEF LoadRelations
    <3>2. Raised
      BY <1>1, <2>3, LoadRelationsHolds
    <3> QED BY <3>1, <3>2
  <2>4. BootstrapNext => \/ rel' = rel /\ entity' = entity
                         \/ LoadNodes \/ LoadRelations
    BY DEF BootstrapNext, Extraction, Normalization, Loading, NextBatch, StartCutting,
           CutChunk, OpenTriples, WriteTriples, Extract, ExtractWhole, OpenNormalized,
           WriteNormalized, Group, EndLoad, StartExtract, ExtractFails, StartNormalize,
           GroupFails, StartLoad, Kill, graph
  <2> QED BY <1>1, <2>1, <2>2, <2>3, <2>4
<1> QED BY <1>1, BootstrapInvariance, PTL DEF BootstrapSpec

\* Every triple of a readable file was told of the document it names, above the
\* threshold, and so were every relationship's confidence and text.
THEOREM FactsStayTold == BootstrapSpec => []FactsAreTold
BY BootstrapInvariance, HeldFactsAreTold, PTL

LEMMA ALoadIsComplete == BootstrapHolds => LoadIsComplete
<1> SUFFICES ASSUME BootstrapHolds, ld.pc = "done", ld.errors = 0, NEW t \in Range(ld.input)
             PROVE  /\ \A n \in {t.subject, t.object} :
                         \E m \in DOMAIN entity : Lower[m] = Lower[n]
                    /\ \/ KeyOf(t)[2] = Refused
                       \/ ~({t.subject, t.object} \subseteq DOMAIN entity)
                       \/ /\ KeyOf(t) \in DOMAIN rel
                          /\ rel[KeyOf(t)].confidence >= t.confidence
  BY DEF LoadIsComplete, KeyOf
<1>1. NameComes(t.subject) /\ NameComes(t.object) /\ RowComes(t)
  BY DEF BootstrapHolds, LoadComes
<1>2. ld.pc # "load"
  OBVIOUS
<1>3. \A n \in {t.subject, t.object} : \E m \in DOMAIN entity : Lower[m] = Lower[n]
  BY <1>1, <1>2 DEF NameComes
<1>4. \/ KeyOf(t)[2] = Refused
      \/ ~({t.subject, t.object} \subseteq DOMAIN entity)
      \/ /\ KeyOf(t) \in DOMAIN rel
         /\ rel[KeyOf(t)].confidence >= t.confidence
  BY <1>1, <1>2 DEF RowComes
<1> QED BY <1>3, <1>4

\* A load that ended without an error left every name and every triple of its
\* file in the graph, but for the rows the scripts are known to leave out.
THEOREM LoadsAreComplete == BootstrapSpec => []LoadIsComplete
BY BootstrapInvariance, ALoadIsComplete, PTL

LEMMA HeldNamesSettle == BootstrapHolds => NamesSettle
<1> SUFFICES ASSUME BootstrapHolds PROVE NamesSettle
  OBVIOUS
<1>1. ASSUME NEW s \in ShortNames PROVE ConvertsOnce(s)
  <2>1. PICK n \in 1 .. MaxRelationTypeLength + 1 : s \in [1 .. n -> Kinds]
    BY DEF ShortNames
  <2>2. n \in Nat /\ n > 0
    BY <2>1, LengthAssumption
  <2>3. s \in Seq(Kinds) /\ Len(s) = n
    BY <2>1, <2>2, IsList
  <2>4. s # <<>>
    BY <2>2, <2>3
  <2> QED BY <2>3, <2>4, NamesConvertOnce
<1>2. \A key \in DOMAIN rel : Settled(key[2])
  BY DEF BootstrapHolds, GraphHolds, ToldRel
<1> QED BY <1>1, <1>2 DEF NamesSettle, ConvertedOnce

\* Names of any length settle when they are converted, and so has every type in
\* the graph.
THEOREM NamesStaySettled == BootstrapSpec => []NamesSettle
BY BootstrapInvariance, HeldNamesSettle, PTL

-----------------------------------------------------------------------------
(* GraphEdit                                                                *)

USE DEF Open, Goto, Keep, observed

-----------------------------------------------------------------------------
(* Types                                                                    *)

\* What an edge consists of.
LEMMA EdgeParts ==
  \A e \in Edges : e[1] \in Ids /\ e[2] \in DOMAIN Combinations /\ e[3] \in Ids
  BY DEF Edges

\* The requests administrators make.
LEMMA AskTyped ==
  /\ \A l \in Labels, n \in Names :
       /\ [NoRequest EXCEPT !.label = l, !.name = n] \in Asks
       /\ [NoRequest EXCEPT !.label = l, !.name = n].label = l
       /\ [NoRequest EXCEPT !.label = l, !.name = n].name = n
  /\ \A i \in Ids, n \in Names :
       /\ [NoRequest EXCEPT !.id = i, !.name = n] \in Asks
       /\ [NoRequest EXCEPT !.id = i, !.name = n].id = i
       /\ [NoRequest EXCEPT !.id = i, !.name = n].name = n
  /\ \A i \in Ids, b \in BOOLEAN :
       [NoRequest EXCEPT !.id = i, !.force = b] \in Asks
  /\ \A e \in Edges :
       /\ [NoRequest EXCEPT !.edge = e] \in Asks
       /\ [NoRequest EXCEPT !.edge = e].edge = e
  BY DEF NoRequest, Asks

\* No request, node or edge is None.
LEMMA NoneApart ==
  /\ None \notin Names /\ None \notin Labels /\ None \notin Ids
  /\ None \notin Nodes /\ None \notin Edges
  BY ConstantsAssumption, GraphAssumption, Zenon

\* The part of TypeOK that tells where requests are.
Placed ==
  /\ pc \in [Tasks -> Open \cup {"idle", "created", "updated", "deleted",
                                 "conflict", "not_found", "invalid", "error"}]
  /\ ask \in [Tasks -> Asks]
  /\ found \in [Tasks -> Copies]
  /\ \A t \in Tasks :
       /\ pc[t] \in {"check", "create"} => ask[t].label # None
       /\ pc[t] \in {"find", "unique", "rename"} => ask[t].id # None
       /\ pc[t] \in {"check", "create", "find", "unique", "rename"} =>
            ask[t].name # None
       /\ pc[t] \in {"source", "target", "merge"} => ask[t].edge # None
       /\ pc[t] \in {"unique", "rename", "target"} => found[t].source # None
       /\ pc[t] = "merge" => found[t].source # None /\ found[t].target # None
  /\ overlapped \in BOOLEAN

\* A request arrives at a step its parameters fit.
LEMMA Arrival ==
  ASSUME TypeOK, NEW t \in Tasks, NEW r \in Asks,
         NEW l \in {"check", "find", "source", "deleted", "not_found"},
         Arrive(t, l, r), UNCHANGED found,
         l = "check" => r.label # None /\ r.name # None,
         l = "find" => r.id # None /\ r.name # None,
         l = "source" => r.edge # None
  PROVE  Placed'
  BY DEF Arrive, TypeOK, Placed

\* The type invariant is kept by every step.
LEMMA TypeStep == TypeOK /\ [Next]_vars => TypeOK'
<1> SUFFICES ASSUME TypeOK, [Next]_vars PROVE TypeOK'
  OBVIOUS
<1> USE NoneApart
<1>1. CASE UNCHANGED vars
  BY <1>1 DEF vars, TypeOK
<1>2. ASSUME NEW t \in Tasks, Request(t) \/ Step(t), Meet PROVE TypeOK'
  <2>0. met' \subseteq Tasks
    BY <1>2 DEF Meet, TypeOK
  <2>1. ASSUME NEW l \in Labels, NEW n \in Names, AskCreate(t, l, n)
        PROVE  TypeOK'
    <3>1. Placed'
      <4> DEFINE r == [NoRequest EXCEPT !.label = l, !.name = n]
      <4>1. r \in Asks /\ r.name = n /\ r.label = l
        BY AskTyped
      <4>2. Arrive(t, "check", r) /\ UNCHANGED found
        BY <2>1 DEF AskCreate
      <4> HIDE DEF r
      <4> QED
        BY <4>1, <4>2, Arrival
    <3> QED
      BY <2>0, <2>1, <3>1 DEF AskCreate, Arrive, TypeOK, Placed
  <2>2. ASSUME NEW i \in Ids, NEW n \in Names, AskRename(t, i, n)
        PROVE  TypeOK'
    <3>1. Placed'
      <4> DEFINE r == [NoRequest EXCEPT !.id = i, !.name = n]
      <4>1. r \in Asks /\ r.name = n /\ r.id = i
        BY AskTyped
      <4>2. Arrive(t, "find", r) /\ UNCHANGED found
        BY <2>2 DEF AskRename
      <4> HIDE DEF r
      <4> QED
        BY <4>1, <4>2, Arrival
    <3> QED
      BY <2>0, <2>2, <3>1 DEF AskRename, TypeOK, Placed
  <2>3. ASSUME NEW i \in Ids, NEW force \in BOOLEAN, Delete(t, i, force)
        PROVE  TypeOK'
    <3>1. Placed'
      <4> DEFINE r == [NoRequest EXCEPT !.id = i, !.force = force]
      <4>1. r \in Asks
        BY AskTyped
      <4>2. PICK l \in {"deleted", "not_found"} : Arrive(t, l, r)
        BY <2>3 DEF Delete
      <4>3. UNCHANGED found
        BY <2>3 DEF Delete
      <4> HIDE DEF r
      <4> QED
        BY <4>1, <4>2, <4>3, Arrival
    <3> QED
      BY <2>0, <2>3, <3>1 DEF Delete, TypeOK, Placed
  <2>4. ASSUME NEW i \in Ids, NEW j \in Ids, NEW r \in DOMAIN Combinations,
               AskEdge(t, i, r, j)
        PROVE  TypeOK'
    <3>1. <<i, r, j>> \in Edges
      BY DEF Edges
    <3>2. Placed'
      <4> DEFINE q == [NoRequest EXCEPT !.edge = <<i, r, j>>]
      <4>1. q \in Asks /\ q.edge = <<i, r, j>>
        BY <3>1, AskTyped
      <4>2. Arrive(t, "source", q) /\ UNCHANGED found
        BY <2>4 DEF AskEdge
      <4>3. q.edge # None
        BY <3>1, <4>1
      <4> HIDE DEF q
      <4> QED
        BY <4>1, <4>2, <4>3, Arrival
    <3> QED
      BY <2>0, <2>4, <3>2 DEF AskEdge, TypeOK, Placed
  <2>5. ASSUME NEW e \in edges, DeleteEdge(t, e) PROVE TypeOK'
    <3>1. e \in Edges
      BY DEF TypeOK
    <3>2. Placed'
      <4> DEFINE r == [NoRequest EXCEPT !.edge = e]
      <4>1. r \in Asks
        BY <3>1, AskTyped
      <4>2. Arrive(t, "deleted", r) /\ UNCHANGED found
        BY <2>5 DEF DeleteEdge
      <4> HIDE DEF r
      <4> QED
        BY <4>1, <4>2, Arrival
    <3> QED
      BY <2>0, <2>5, <3>2 DEF DeleteEdge, TypeOK, Placed
  <2>6. CASE CheckDuplicate(t)
    BY <2>0, <2>6 DEF CheckDuplicate, TypeOK
  <2>7. ASSUME NEW i \in Ids, Create(t, i) PROVE TypeOK'
    BY <2>0, <2>7 DEF Create, TypeOK, Asks, Nodes
  <2>8. CASE CreateNothing(t)
    BY <2>0, <2>8 DEF CreateNothing, TypeOK
  <2>9. CASE FindRenamed(t)
    <3>1. ask[t].id \in Ids
      BY <2>9 DEF FindRenamed, TypeOK, Asks
    <3>2. found' \in [Tasks -> Copies]
      BY <2>9, <3>1 DEF FindRenamed, TypeOK, Copies
    <3>3. pc'[t] \in {"unique", "rename"} => found'[t].source # None
      BY <2>9 DEF FindRenamed, TypeOK, Copies
    <3> QED
      BY <2>0, <2>9, <3>2, <3>3 DEF FindRenamed, TypeOK
  <2>10. CASE CheckRename(t)
    BY <2>0, <2>10 DEF CheckRename, TypeOK
  <2>11. CASE Rename(t)
    BY <2>0, <2>11 DEF Rename, TypeOK, Asks, Nodes, Present
  <2>12. CASE FindEnd(t, "source", 1, "target")
    <3>1. ask[t].edge[1] \in Ids
      BY <2>12, EdgeParts DEF FindEnd, TypeOK, Asks
    <3>2. found' \in [Tasks -> Copies]
      BY <2>12, <3>1 DEF FindEnd, TypeOK, Copies
    <3>3. pc'[t] = "target" => found'[t].source # None
      BY <2>12 DEF FindEnd, TypeOK, Copies
    <3> QED
      BY <2>0, <2>12, <3>2, <3>3 DEF FindEnd, TypeOK
  <2>13. CASE FindEnd(t, "target", 3, "merge")
    <3>1. ask[t].edge[3] \in Ids
      BY <2>13, EdgeParts DEF FindEnd, TypeOK, Asks
    <3> QED
      <4>1. found' \in [Tasks -> Copies]
        BY <2>13, <3>1 DEF FindEnd, TypeOK, Copies
      <4>2. found'[t].source = found[t].source
        BY <2>13 DEF FindEnd, TypeOK, Copies
      <4>3. pc'[t] = "merge" => found'[t].target # None
        BY <2>13 DEF FindEnd, TypeOK, Copies
      <4> QED
        BY <2>0, <2>13, <4>1, <4>2, <4>3 DEF FindEnd, TypeOK
  <2>14. CASE MergeEdge(t)
    BY <2>0, <2>14 DEF MergeEdge, TypeOK, Asks
  <2>15. CASE RefuseEdge(t)
    BY <2>0, <2>15 DEF RefuseEdge, TypeOK
  <2>16. CASE Fail(t)
    BY <2>0, <2>16 DEF Fail, TypeOK
  <2> QED
    BY <1>2, <2>1, <2>2, <2>3, <2>4, <2>5, <2>6, <2>7, <2>8, <2>9, <2>10,
       <2>11, <2>12, <2>13, <2>14, <2>15, <2>16 DEF Request, Step
<1> QED
  BY <1>1, <1>2 DEF Next

-----------------------------------------------------------------------------
(* What a step does to nodes and to the requests of others                  *)

\* A step of one request leaves the others where they are.
LEMMA OthersStay ==
  ASSUME TypeOK, NEW t \in Tasks, Request(t) \/ Step(t),
         NEW u \in Tasks, u # t
  PROVE  pc'[u] = pc[u] /\ ask'[u] = ask[u] /\ found'[u] = found[u]
<1>1. CASE Request(t)
  BY <1>1 DEF TypeOK, Request, AskCreate, AskRename, Delete, AskEdge, DeleteEdge,
     Arrive
<1>2. CASE Step(t)
  BY <1>2 DEF TypeOK, Step, CheckDuplicate, Create, CreateNothing, FindRenamed,
     CheckRename, Rename, FindEnd, MergeEdge, RefuseEdge, Fail
<1> QED
  BY <1>1, <1>2

\* The steps that write no node.
Quiet(t) ==
  \/ \E l \in Labels, n \in Names : AskCreate(t, l, n)
  \/ \E i \in Ids, n \in Names : AskRename(t, i, n)
  \/ \E i, j \in Ids, r \in DOMAIN Combinations : AskEdge(t, i, r, j)
  \/ \E e \in edges : DeleteEdge(t, e)
  \/ CheckDuplicate(t) \/ CreateNothing(t) \/ FindRenamed(t) \/ CheckRename(t)
  \/ FindEnd(t, "source", 1, "target") \/ FindEnd(t, "target", 3, "merge")
  \/ MergeEdge(t) \/ RefuseEdge(t) \/ Fail(t)

\* A step writes no node, or it is one of three.
LEMMA Writers ==
  ASSUME NEW t \in Tasks, Request(t) \/ Step(t)
  PROVE  \/ Quiet(t) /\ UNCHANGED <<node, renamed, freed>>
         \/ \E i \in Ids : Create(t, i)
         \/ Rename(t)
         \/ \E i \in Ids, force \in BOOLEAN : Delete(t, i, force)
<1>1. CASE Request(t)
  BY <1>1 DEF Request, Quiet, AskCreate, AskRename, AskEdge, DeleteEdge
<1>2. CASE Step(t)
  BY <1>2 DEF Step, Quiet, CheckDuplicate, CreateNothing, FindRenamed,
     CheckRename, FindEnd, MergeEdge, RefuseEdge, Fail
<1> QED
  BY <1>1, <1>2

\* A rename keeps the node and its label.
LEMMA RenameKeeps ==
  ASSUME TypeOK, NEW t \in Tasks, Rename(t), NEW i \in Present
  PROVE  i \in Present' /\ node'[i].label = node[i].label
<1> USE NoneApart DEF Present
<1>1. node[i] \in Nodes
  BY DEF TypeOK
<1>2. ask[t].name \in Names
  BY DEF Rename, TypeOK, Asks
<1>3. node'[i] = node[i] \/ node'[i] = [node[i] EXCEPT !.name = ask[t].name]
  BY DEF Rename, TypeOK
<1>4. /\ [node[i] EXCEPT !.name = ask[t].name] \in Nodes
      /\ [node[i] EXCEPT !.name = ask[t].name].label = node[i].label
  BY <1>1, <1>2 DEF Nodes
<1> QED
  BY <1>1, <1>3, <1>4

\* A node keeps its label until its id is freed.
LEMMA NodesStay ==
  ASSUME TypeOK, [Next]_vars
  PROVE  /\ freed \subseteq freed'
         /\ \A i \in Ids : i \in Present /\ i \notin freed' =>
              i \in Present' /\ node'[i].label = node[i].label
<1> USE NoneApart DEF Present
<1>1. CASE UNCHANGED vars
  BY <1>1 DEF vars
<1>2. ASSUME NEW t \in Tasks, Request(t) \/ Step(t)
      PROVE  /\ freed \subseteq freed'
             /\ \A i \in Ids : i \in Present /\ i \notin freed' =>
                  i \in Present' /\ node'[i].label = node[i].label
  <2>1. CASE UNCHANGED <<node, freed>>
    BY <2>1
  <2>2. ASSUME NEW k \in Ids, Create(t, k)
        PROVE  /\ UNCHANGED freed
               /\ \A i \in Present : node'[i] = node[i]
    BY <2>2 DEF Create, TypeOK
  <2>3. CASE Rename(t)
    BY <2>3, RenameKeeps DEF Rename
  <2>4. ASSUME NEW k \in Ids, NEW force \in BOOLEAN, Delete(t, k, force)
        PROVE  /\ freed \subseteq freed'
               /\ \A i \in Present : node'[i] = node[i] \/ i \in freed'
    BY <2>4 DEF Delete, TypeOK
  <2> QED
    BY <1>2, <2>1, <2>2, <2>3, <2>4, Writers
<1> QED
  BY <1>1, <1>2 DEF Next

-----------------------------------------------------------------------------
(* Names                                                                    *)

\* Only a rename makes twins: a create looks for the name as it writes.
LEMMA TwinsStep ==
  ASSUME TypeOK, TwinsOnlyByRename, [Next]_vars
  PROVE  TwinsOnlyByRename'
<1> USE DEF Present, Twins
<1>1. CASE UNCHANGED <<node, renamed>>
  BY <1>1 DEF TwinsOnlyByRename
<1>2. ASSUME NEW t \in Tasks, NEW k \in Ids, Create(t, k)
      PROVE  TwinsOnlyByRename'
  <2>1. SUFFICES ASSUME NEW i \in Ids, NEW j \in Ids,
                        node'[i] # None, node'[j] # None, Twins(i, j)'
                 PROVE  {i, j} \cap renamed' # {}
    BY DEF TwinsOnlyByRename
  <2>2. /\ node'[k] = [label |-> ask[t].label, name |-> ask[t].name]
        /\ \A m \in Ids \ {k} : node'[m] = node[m]
        /\ renamed' = renamed \ {k}
    BY <1>2 DEF Create, TypeOK
  <2>3. \A m \in Present : ~(/\ node[m].label = ask[t].label
                             /\ LowerCase[node[m].name] = LowerCase[ask[t].name])
    BY <1>2 DEF Create, StillFree, Named, SameName
  <2>4. i # k /\ j # k
    BY <2>1, <2>2, <2>3 DEF SameName
  <2> QED
    BY <2>1, <2>2, <2>4 DEF TwinsOnlyByRename, SameName
<1>3. ASSUME NEW t \in Tasks, Rename(t) PROVE TwinsOnlyByRename'
  <2>1. \/ UNCHANGED <<node, renamed>>
        \/ /\ renamed' = renamed \cup {ask[t].id}
           /\ \A m \in Ids \ {ask[t].id} : node'[m] = node[m]
    BY <1>3 DEF Rename, TypeOK
  <2> QED
    BY <1>1, <2>1 DEF TwinsOnlyByRename, SameName
<1>4. ASSUME NEW t \in Tasks, NEW k \in Ids, NEW force \in BOOLEAN,
             Delete(t, k, force)
      PROVE  TwinsOnlyByRename'
  <2>1. /\ UNCHANGED renamed
        /\ \A m \in Ids : node'[m] = node[m] \/ node'[m] = None
    BY <1>4 DEF Delete, TypeOK
  <2> QED
    BY <2>1 DEF TwinsOnlyByRename, SameName
<1>5. CASE UNCHANGED vars
  BY <1>1, <1>5 DEF vars
<1> QED
  BY <1>1, <1>2, <1>3, <1>4, <1>5, Writers DEF Next

\* Requests that come one after the other make no twins: the check of a rename
\* and its write see the same graph.
LEMMA InTurnStep ==
  ASSUME TypeOK, InTurn, [Next]_vars
  PROVE  InTurn'
<1> USE NoneApart DEF Present
<1>1. CASE UNCHANGED vars
  BY <1>1 DEF vars, InTurn, Twins, Cleared
<1>2. ASSUME NEW t \in Tasks, Request(t), ~overlapped' PROVE InTurn'
  <2>1. ~overlapped /\ \A u \in Tasks : pc[u] \notin Open
    BY <1>2 DEF Request, AskCreate, AskRename, Delete, AskEdge, DeleteEdge,
       Arrive, TypeOK
  <2>2. \A u \in Tasks : /\ pc'[u] \notin {"unique", "rename"}
                         /\ pc'[u] \in Open => u = t
    BY <1>2, <2>1 DEF Request, AskCreate, AskRename, Delete, AskEdge,
       DeleteEdge, Arrive, TypeOK
  <2>3. \A i \in Ids : node'[i] = node[i] \/ node'[i] = None
    BY <1>2 DEF Request, AskCreate, AskRename, Delete, AskEdge, DeleteEdge, TypeOK
  <2> QED
    BY <2>1, <2>2, <2>3 DEF InTurn, Twins
<1>3. ASSUME NEW t \in Tasks, Step(t), ~overlapped' PROVE InTurn'
  <2>1. ~overlapped /\ pc[t] \in Open
    BY <1>3 DEF Step, CheckDuplicate, Create, CreateNothing, FindRenamed,
       CheckRename, Rename, FindEnd, MergeEdge, RefuseEdge, Fail
  <2>2. \A u \in Tasks : pc[u] \in Open => u = t
    BY <2>1 DEF InTurn
  <2>3. \A u \in Tasks : pc'[u] \in Open => u = t
    BY <1>3, <2>2, OthersStay
  <2>4. ASSUME \A i, j \in Present' : ~Twins(i, j)',
               pc'[t] \in {"unique", "rename"} =>
                 found'[t].source = node'[ask'[t].id],
               pc'[t] = "rename" => Cleared(t)'
        PROVE  InTurn'
    <3>1. \A u \in Tasks : pc'[u] \in {"unique", "rename"} => u = t
      BY <2>3
    <3> QED
      BY <2>3, <2>4, <3>1 DEF InTurn
  <2>5. ASSUME UNCHANGED node, pc'[t] \notin {"unique", "rename"}
        PROVE  InTurn'
    BY <2>1, <2>4, <2>5 DEF InTurn, Twins
  <2>6. ASSUME NEW k \in Ids, Create(t, k) PROVE InTurn'
    <3>1. /\ node'[k] = [label |-> ask[t].label, name |-> ask[t].name]
          /\ \A m \in Ids \ {k} : node'[m] = node[m]
          /\ pc'[t] = "created"
      BY <2>6 DEF Create, TypeOK
    <3>2. \A m \in Present : ~(/\ node[m].label = ask[t].label
                               /\ LowerCase[node[m].name] = LowerCase[ask[t].name])
      BY <2>6 DEF Create, StillFree, Named, SameName
    <3>3. \A i, j \in Present' : ~Twins(i, j)'
      BY <2>1, <3>1, <3>2 DEF InTurn, Twins, SameName
    <3> QED
      BY <2>4, <3>1, <3>3
  <2>7. CASE FindRenamed(t)
    <3>1. pc'[t] \in {"unique", "rename"} =>
            /\ node[ask[t].id] # None
            /\ found'[t].source = node[ask[t].id]
      BY <2>7 DEF FindRenamed, TypeOK, Copies
    <3>2. UNCHANGED <<node, ask>> /\ ask[t].id \in Ids
      BY <2>7 DEF FindRenamed, TypeOK, Asks
    <3>3. pc'[t] = "rename" => SameName(node[ask[t].id].name, ask[t].name)
      BY <2>7 DEF FindRenamed, NeedsCheck, TypeOK
    <3>4. \A i, j \in Present : ~Twins(i, j)
      BY <2>1 DEF InTurn
    <3>5. pc'[t] = "rename" => Cleared(t)'
      BY <3>1, <3>2, <3>3, <3>4 DEF Cleared, Twins, SameName
    <3> QED
      BY <2>4, <3>1, <3>2, <3>4, <3>5 DEF Twins
  <2>8. CASE CheckRename(t)
    <3>1. UNCHANGED <<node, ask, found>> /\ pc[t] = "unique"
      BY <2>8 DEF CheckRename
    <3>2. found[t].source = node[ask[t].id] /\ \A i, j \in Present : ~Twins(i, j)
      BY <2>1, <3>1 DEF InTurn
    <3>3. pc'[t] = "rename" => Named(found[t].source.label, ask[t].name) = {}
      BY <2>8 DEF CheckRename, Taken, TypeOK
    <3>4. pc'[t] = "rename" => Cleared(t)'
      BY <3>1, <3>3 DEF Cleared, Named
    <3> QED
      BY <2>4, <3>1, <3>2, <3>4 DEF Twins
  <2>9. CASE Rename(t)
    <3>1. pc[t] = "rename" /\ pc'[t] \in {"updated", "not_found"}
      BY <2>9 DEF Rename, TypeOK
    <3>2. CASE UNCHANGED node
      BY <2>5, <3>1, <3>2
    <3>3. CASE ask[t].id \in Present
      <4> DEFINE k == ask[t].id
      <4>1. /\ found[t].source = node[k] /\ Cleared(t)
            /\ \A i, j \in Present : ~Twins(i, j)
        BY <2>1, <3>1 DEF InTurn
      <4>2. /\ node'[k].label = node[k].label
            /\ node'[k].name = ask[t].name
            /\ \A m \in Ids \ {k} : node'[m] = node[m]
        <5>1. node[k] \in Nodes /\ node' = [node EXCEPT ![k].name = ask[t].name]
          BY <2>9, <3>3 DEF Rename, TypeOK
        <5> QED
          BY <3>3, <5>1 DEF TypeOK, Nodes
      <4>3. \A i \in Ids \ {k} : node'[i] # None =>
              ~(node[i].label = node[k].label /\ SameName(node[i].name, ask[t].name))
        BY <4>1, <4>2 DEF Cleared
      <4>4. \A i, j \in Present' : ~Twins(i, j)'
        BY <4>1, <4>2, <4>3 DEF Twins, SameName
      <4> QED
        BY <2>4, <3>1, <4>4
    <3> QED
      BY <2>9, <3>2, <3>3 DEF Rename
  <2> QED
    BY <1>3, <2>5, <2>6, <2>7, <2>8, <2>9
    DEF Step, CheckDuplicate, CreateNothing, FindEnd, MergeEdge, RefuseEdge,
        Fail, TypeOK
<1> QED
  BY <1>1, <1>2, <1>3 DEF Next, InTurn

-----------------------------------------------------------------------------
(* Edges                                                                    *)

\* What is true of a node at the end of an edge, or of a copy, stays true.
LEMMA SoundStays ==
  ASSUME TypeOK, [Next]_vars, NEW i \in Ids, NEW n, Sound(i, n)
  PROVE  Sound(i, n)'
  BY NodesStay DEF Sound

\* The copies of a create_edge request stay sound.
LEMMA CopiesStep ==
  ASSUME TypeOK, CopiesSound, [Next]_vars
  PROVE  CopiesSound'
<1> USE NoneApart
<1>0. \A u \in Tasks :
        /\ pc[u] \in {"source", "target", "merge"} =>
             ask[u].edge[1] \in Ids /\ ask[u].edge[3] \in Ids
  BY EdgeParts DEF TypeOK, Asks
<1>1. CASE UNCHANGED vars
  BY <1>1 DEF vars, CopiesSound, Sound, Present
<1>2. ASSUME NEW t \in Tasks, Request(t) \/ Step(t), [Next]_vars
      PROVE  CopiesSound'
  <2>1. SUFFICES ASSUME NEW u \in Tasks
                 PROVE  /\ pc'[u] \in {"target", "merge"} =>
                             Sound(ask[u].edge[1], found[u].source)'
                        /\ pc'[u] = "merge" =>
                             Sound(ask[u].edge[3], found[u].target)'
    BY DEF CopiesSound
  <2>2. CASE UNCHANGED <<pc[u], ask[u], found[u]>>
    <3>1. pc[u] \in {"target", "merge"} =>
            Sound(ask[u].edge[1], found[u].source)'
      BY <1>0, <2>2, SoundStays DEF CopiesSound
    <3>2. pc[u] = "merge" => Sound(ask[u].edge[3], found[u].target)'
      BY <1>0, <2>2, SoundStays DEF CopiesSound
    <3> QED
      BY <2>2, <3>1, <3>2
  <2>3. CASE u = t /\ FindEnd(t, "source", 1, "target")
    <3>1. pc'[t] # "merge" /\ UNCHANGED <<ask, node, freed>>
      BY <2>3 DEF FindEnd, TypeOK
    <3>2. pc'[t] = "target" =>
            /\ node[ask[t].edge[1]] # None
            /\ found'[t].source = node[ask[t].edge[1]]
      BY <2>3 DEF FindEnd, TypeOK, Copies
    <3>3. pc[t] = "source"
      BY <2>3 DEF FindEnd
    <3> QED
      BY <1>0, <2>3, <3>1, <3>2, <3>3 DEF Sound, Present
  <2>4. CASE u = t /\ FindEnd(t, "target", 3, "merge")
    <3>1. /\ pc'[t] # "target"
          /\ UNCHANGED <<ask, node, freed>>
          /\ pc[t] = "target"
      BY <2>4 DEF FindEnd, TypeOK
    <3>2. pc'[t] = "merge" =>
            /\ node[ask[t].edge[3]] # None
            /\ found'[t].target = node[ask[t].edge[3]]
            /\ found'[t].source = found[t].source
      BY <2>4 DEF FindEnd, TypeOK, Copies
    <3> QED
      BY <1>0, <2>4, <3>1, <3>2 DEF CopiesSound, Sound, Present
  <2>5. CASE u = t /\ pc'[t] \notin {"target", "merge"}
    BY <2>5
  <2>6. ASSUME u = t, Request(t) PROVE pc'[t] \notin {"target", "merge"}
    BY <2>6 DEF Request, AskCreate, AskRename, Delete, AskEdge, DeleteEdge,
       Arrive, TypeOK
  <2>7. ASSUME u = t, Step(t)
        PROVE  \/ FindEnd(t, "source", 1, "target")
               \/ FindEnd(t, "target", 3, "merge")
               \/ pc'[t] \notin {"target", "merge"}
    BY <2>7 DEF Step, CheckDuplicate, Create, CreateNothing, FindRenamed,
       CheckRename, Rename, MergeEdge, RefuseEdge, Fail, TypeOK
  <2> QED
    BY <1>2, <2>2, <2>3, <2>4, <2>5, <2>6, <2>7, OthersStay
<1> QED
  BY <1>1, <1>2 DEF Next

\* The edges a step adds.
LEMMA NewEdges ==
  ASSUME TypeOK, NEW t \in Tasks, Request(t) \/ Step(t),
         NEW e \in edges', e \notin edges
  PROVE  MergeEdge(t) /\ e = ask[t].edge /\ {e[1], e[3]} \subseteq Present
<1>1. CASE Request(t)
  BY <1>1 DEF Request, AskCreate, AskRename, Delete, AskEdge, DeleteEdge
<1>2. CASE Step(t)
  BY <1>2 DEF Step, CheckDuplicate, Create, CreateNothing, FindRenamed,
     CheckRename, Rename, FindEnd, MergeEdge, RefuseEdge, Fail
<1> QED
  BY <1>1, <1>2

\* An edge that stays keeps its nodes: the statement that deletes a node deletes
\* its edges.
LEMMA EndsStay ==
  ASSUME TypeOK, SchemaHolds, NEW t \in Tasks, Request(t) \/ Step(t),
         NEW e \in edges, e \in edges'
  PROVE  {e[1], e[3]} \subseteq Present'
<1> USE NoneApart, EdgeParts DEF Present
<1>0. {e[1], e[3]} \subseteq Present /\ e[1] \in Ids /\ e[3] \in Ids
  BY DEF SchemaHolds, TypeOK
<1>1. CASE UNCHANGED node
  BY <1>0, <1>1
<1>2. CASE \E i \in Ids : Create(t, i)
  BY <1>0, <1>2 DEF Create, TypeOK
<1>3. CASE Rename(t)
  BY <1>0, <1>3, RenameKeeps
<1>4. ASSUME NEW i \in Ids, NEW force \in BOOLEAN, Delete(t, i, force)
      PROVE  {e[1], e[3]} \subseteq Present'
  <2>1. CASE UNCHANGED node
    BY <1>0, <2>1
  <2>2. CASE ~UNCHANGED node
    <3>1. node' = [node EXCEPT ![i] = None] /\ edges' = edges \ Touching(i)
      BY <1>4, <2>2 DEF Delete
    <3>2. e[1] # i /\ e[3] # i
      BY <3>1 DEF Touching
    <3> QED
      BY <1>0, <3>1, <3>2 DEF TypeOK
  <2> QED
    BY <2>1, <2>2
<1> QED
  BY <1>1, <1>2, <1>3, <1>4, Writers

\* Every edge keeps to the schema.
LEMMA SchemaStep ==
  ASSUME TypeOK, SchemaHolds, CopiesSound, [Next]_vars
  PROVE  SchemaHolds'
<1> USE NoneApart
<1>1. CASE UNCHANGED vars
  BY <1>1 DEF vars, SchemaHolds, Present
<1>2. ASSUME NEW t \in Tasks, Request(t) \/ Step(t), [Next]_vars,
             NEW e \in edges'
      PROVE  /\ {e[1], e[3]} \subseteq Present'
             /\ \/ <<node'[e[1]].label, node'[e[3]].label>> \in Combinations[e[2]]
                \/ {e[1], e[3]} \cap freed' # {}
  <2>1. CASE e \in edges
    <3>1. e[1] \in Ids /\ e[3] \in Ids
      BY <2>1, EdgeParts DEF TypeOK
    <3>2. {e[1], e[3]} \subseteq Present'
      BY <1>2, <2>1, EndsStay
    <3>3. CASE {e[1], e[3]} \cap freed' # {}
      BY <3>2, <3>3
    <3>4. CASE {e[1], e[3]} \cap freed' = {}
      <4>1. /\ node'[e[1]].label = node[e[1]].label
            /\ node'[e[3]].label = node[e[3]].label
            /\ {e[1], e[3]} \cap freed = {}
        BY <1>2, <2>1, <3>1, <3>4, NodesStay DEF SchemaHolds
      <4> QED
        BY <2>1, <3>2, <4>1 DEF SchemaHolds
    <3> QED
      BY <3>3, <3>4
  <2>2. CASE e \notin edges
    <3>1. MergeEdge(t) /\ e = ask[t].edge /\ {e[1], e[3]} \subseteq Present
      BY <1>2, <2>2, NewEdges
    <3>2. UNCHANGED <<node, freed>>
      BY <3>1 DEF MergeEdge
    <3>3. /\ <<found[t].source.label, found[t].target.label>> \in Combinations[e[2]]
          /\ Sound(e[1], found[t].source)
          /\ Sound(e[3], found[t].target)
      BY <3>1 DEF MergeEdge, Valid, CopiesSound
    <3> QED
      BY <3>1, <3>2, <3>3 DEF Sound, Present
  <2> QED
    BY <2>1, <2>2
<1> QED
  BY <1>1, <1>2 DEF Next, SchemaHolds

-----------------------------------------------------------------------------
(* Refusals                                                                 *)

\* Whoever wants a name that is taken has met it.
LEMMA MetStep ==
  ASSUME TypeOK, Met, [Next]_vars
  PROVE  Met'
<1>1. CASE UNCHANGED vars
  BY <1>1 DEF vars, Met, Wanted, Present
<1>2. CASE Meet
  <2>1. SUFFICES ASSUME NEW t \in Tasks, NEW i \in Ids,
                        NEW l \in Wanted(ask'[t], found'[t].source),
                        node'[i] # None, pc'[t] \in Open, node'[i].label = l,
                        SameName(node'[i].name, ask'[t].name)
                 PROVE  t \in met'
    BY DEF Met, Present
  <2> QED
    BY <1>2, <2>1 DEF Meet
<1> QED
  BY <1>1, <1>2 DEF Next

\* A step that refuses a name has found it taken.
LEMMA RefusalStep ==
  ASSUME TypeOK, Met, ConflictJustified, [Next]_vars
  PROVE  ConflictJustified'
<1> USE NoneApart
<1>1. CASE UNCHANGED vars
  BY <1>1 DEF vars, ConflictJustified
<1>2. ASSUME NEW t \in Tasks, Request(t) \/ Step(t), Meet,
             NEW u \in Tasks, pc'[u] = "conflict"
      PROVE  u \in met'
  <2>0. met \subseteq met'
    BY <1>2 DEF Meet
  <2>1. CASE pc[u] = "conflict"
    BY <2>0, <2>1 DEF ConflictJustified
  <2>2. ASSUME NEW l \in Labels, l \in Wanted(ask[u], found[u].source),
               pc[u] \in Open, Named(l, ask[u].name) # {}
        PROVE  u \in met'
    BY <2>0, <2>2 DEF Met, Named
  <2>3. CASE u = t /\ (CheckDuplicate(t) \/ CreateNothing(t))
    <3>1. pc[u] \in {"check", "create"} /\ Named(ask[u].label, ask[u].name) # {}
      BY <1>2, <2>3 DEF CheckDuplicate, CreateNothing, Taken, StillFree, TypeOK
    <3>2. ask[u].label \in Labels /\ ask[u].name # None
      BY <3>1 DEF TypeOK, Asks
    <3> QED
      BY <2>2, <3>1, <3>2 DEF Wanted
  <2>4. CASE u = t /\ CheckRename(t)
    <3>1. /\ pc[u] = "unique"
          /\ Named(found[u].source.label, ask[u].name) # {}
      BY <1>2, <2>4 DEF CheckRename, Taken, TypeOK
    <3>2. /\ found[u].source # None /\ found[u].source.label \in Labels
          /\ ask[u].name # None
      BY <3>1 DEF TypeOK, Copies, Nodes
    <3> QED
      BY <2>2, <3>1, <3>2 DEF Wanted
  <2>5. ASSUME u = t, pc[u] # "conflict"
        PROVE  CheckDuplicate(t) \/ CreateNothing(t) \/ CheckRename(t)
    <3>1. CASE Request(t)
      BY <1>2, <2>5, <3>1 DEF Request, AskCreate, AskRename, Delete, AskEdge,
         DeleteEdge, Arrive, TypeOK
    <3>2. CASE Step(t)
      BY <1>2, <2>5, <3>2 DEF Step, Create, FindRenamed, Rename, FindEnd,
         MergeEdge, RefuseEdge, Fail, TypeOK
    <3> QED
      BY <1>2, <3>1, <3>2
  <2> QED
    BY <1>2, <2>1, <2>3, <2>4, <2>5, OthersStay
<1> QED
  BY <1>1, <1>2 DEF Next, ConflictJustified

-----------------------------------------------------------------------------
(* Theorems                                                                 *)

LEMMA InitInv == Init => Inv
<1> SUFFICES ASSUME Init PROVE Inv
  OBVIOUS
<1> USE NoneApart
<1>1. TypeOK
  <2>1. NoRequest \in Asks
    BY DEF NoRequest, Asks
  <2>2. [source |-> None, target |-> None] \in Copies
    BY DEF Copies
  <2>3. node \in [Ids -> Nodes \cup {None}] /\ edges \subseteq Edges
    BY GraphAssumption DEF Init
  <2> QED
    BY <2>1, <2>2, <2>3 DEF Init, TypeOK
<1>2. TwinsOnlyByRename
  BY GraphAssumption DEF Init, TwinsOnlyByRename, Twins, SameName, Present
<1>3. SchemaHolds
  BY GraphAssumption, EdgeParts DEF Init, SchemaHolds, Present
<1>4. CopiesSound /\ Met /\ ConflictJustified
  BY DEF Init, CopiesSound, Met, ConflictJustified
<1>5. InTurn
  BY GraphAssumption DEF Init, InTurn, Twins, SameName, Present
<1> QED
  BY <1>1, <1>2, <1>3, <1>4, <1>5 DEF Inv

\* Inv holds always.
THEOREM Invariance == Spec => []Inv
<1>1. Inv /\ [Next]_vars => Inv'
  BY TypeStep, TwinsStep, SchemaStep, CopiesStep, MetStep, RefusalStep,
     InTurnStep DEF Inv
<1> QED
  BY InitInv, <1>1, PTL DEF Spec

\* A request never reads a copy it has not made or an end that is no id.
THEOREM TypeCorrect == Spec => []TypeOK
<1>1. Inv => TypeOK
  BY DEF Inv
<1> QED
  BY Invariance, <1>1, PTL

\* Of two nodes of a label with one name one was renamed: creates that race
\* never make twins, because create_node_generic looks as it writes.
THEOREM CreatesMakeNoTwins == Spec => []TwinsOnlyByRename
<1>1. Inv => TwinsOnlyByRename
  BY DEF Inv
<1> QED
  BY Invariance, <1>1, PTL

\* As long as no two requests overlap, no two nodes of a label share a name.
THEOREM NamesStayUniqueInTurn == Spec => []NamesUniqueInTurn
<1>1. Inv => NamesUniqueInTurn
  BY DEF Inv, InTurn, NamesUniqueInTurn
<1> QED
  BY Invariance, <1>1, PTL

\* An edge has both its nodes and joins labels its type allows, unless the id
\* of one of them was given out again.
THEOREM EdgesKeepToSchema == Spec => []SchemaHolds
<1>1. Inv => SchemaHolds
  BY DEF Inv
<1> QED
  BY Invariance, <1>1, PTL

\* A name is refused only to a request that has met it on a node of the label.
THEOREM RefusalsAreJustified == Spec => []ConflictJustified
<1>1. Inv => ConflictJustified
  BY DEF Inv
<1> QED
  BY Invariance, <1>1, PTL

\* An edge is lost only to a deletion of itself or a forced one of its node.
THEOREM NoEdgeIsLost == Spec => EdgesLostOnlyByForce
<1>1. ASSUME TypeOK, [Next]_vars, NEW e \in edges \ edges'
      PROVE  \E t \in Tasks :
               /\ pc[t] = "idle" /\ pc'[t] = "deleted"
               /\ \/ ask'[t].edge = e
                  \/ ask'[t].force /\ ask'[t].id \in {e[1], e[3]}
  <2>1. PICK t \in Tasks : Request(t) \/ Step(t)
    BY <1>1 DEF Next, vars
  <2>2. ~Step(t)
    BY <1>1 DEF Step, CheckDuplicate, Create, CreateNothing, FindRenamed,
       CheckRename, Rename, FindEnd, MergeEdge, RefuseEdge, Fail
  <2>3. \/ DeleteEdge(t, e)
        \/ \E i \in Ids, force \in BOOLEAN : Delete(t, i, force)
    BY <1>1, <2>1, <2>2 DEF Request, AskCreate, AskRename, AskEdge, DeleteEdge
  <2>4. CASE DeleteEdge(t, e)
    <3>1. pc[t] = "idle" /\ pc'[t] = "deleted"
      BY <1>1, <2>4 DEF DeleteEdge, Arrive, TypeOK
    <3>2. ask'[t].edge = e
      BY <1>1, <2>4 DEF DeleteEdge, Arrive, TypeOK, NoRequest
    <3> QED
      BY <3>1, <3>2
  <2>5. ASSUME NEW i \in Ids, NEW force \in BOOLEAN, Delete(t, i, force)
        PROVE  /\ pc[t] = "idle" /\ pc'[t] = "deleted"
               /\ ask'[t].force /\ ask'[t].id \in {e[1], e[3]}
    <3>1. e \in Touching(i) /\ i \in Present /\ force
      BY <1>1, <2>5 DEF Delete, Touching, Unconnected
    <3>2. pc[t] = "idle" /\ pc'[t] = "deleted"
      BY <1>1, <2>5, <3>1 DEF Delete, Arrive, TypeOK
    <3>3. ask'[t] = [NoRequest EXCEPT !.id = i, !.force = force]
      BY <1>1, <2>5 DEF Delete, Arrive, TypeOK
    <3>4. ask'[t].force = force /\ ask'[t].id = i
      BY <3>3 DEF NoRequest
    <3> QED
      BY <3>1, <3>2, <3>4 DEF Touching
  <2> QED
    BY <2>3, <2>4, <2>5
<1>2. TypeOK /\ [Next]_vars =>
        [\A e \in edges \ edges' :
           \E t \in Tasks :
             /\ pc[t] = "idle" /\ pc'[t] = "deleted"
             /\ \/ ask'[t].edge = e
                \/ ask'[t].force /\ ask'[t].id \in {e[1], e[3]}]_vars
  BY <1>1
<1> QED
  BY TypeCorrect, <1>2, PTL DEF Spec, EdgesLostOnlyByForce
=============================================================================
