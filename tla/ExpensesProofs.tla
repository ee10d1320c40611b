--------------------------- MODULE ExpensesProofs ----------------------------
(***************************************************************************)
(* Theorems about the shared expenses of a trip, for every set of people,  *)
(* every amount and split, and every number of requests: the shares of an  *)
(* expense add up to its amount however it is split, the suggested         *)
(* settlements even out whatever is owed, and a payment is for a debt that *)
(* exists.  Cents are counted with sums over finite sets, which the first  *)
(* section is about; what a loop of the code does is shown by induction on *)
(* its rounds.                                                             *)
(***************************************************************************)
EXTENDS Expenses, FiniteSetTheorems, WellFoundedInduction, TLAPS

(* Induction over a set given as such, not as an operator.                 *)

(* A set of naturals with zero and every successor holds them all.         *)
LEMMA NatInduct ==
    ASSUME NEW Z \in SUBSET Nat, 0 \in Z, \A n \in Z : n + 1 \in Z
    PROVE  Z = Nat
  <1>1. SUFFICES ASSUME Nat \ Z # {} PROVE FALSE
    OBVIOUS
  <1>2. PICK m \in Nat \ Z : \A k \in Nat \ Z : ~ (<<k, m>> \in OpToRel(<, Nat))
    BY <1>1, NatLessThanWellFounded, WFMin
  <1>3. m # 0 /\ m - 1 \in Nat
    OBVIOUS
  <1>4. (m - 1) \notin Z
    <2>1. ASSUME m - 1 \in Z PROVE FALSE
      <3>1. (m - 1) + 1 \in Z
        BY <2>1
      <3> QED BY <3>1
    <2> QED BY <2>1
  <1>5. <<m - 1, m>> \in OpToRel(<, Nat)
    <2>1. <<m - 1, m>> \in Nat \X Nat /\ <<m - 1, m>>[1] < <<m - 1, m>>[2]
      BY <1>3
    <2> QED BY <2>1 DEF OpToRel
  <1> QED BY <1>2, <1>3, <1>4, <1>5

(* A set of subsets with {} and every extension by an element holds S.     *)
LEMMA SetInduct ==
    ASSUME NEW S, IsFiniteSet(S), NEW Z \in SUBSET SUBSET S, {} \in Z,
           \A T \in Z : \A x \in S \ T : T \cup {x} \in Z
    PROVE  S \in Z
  <1> DEFINE N == {n \in Nat : \A T \in SUBSET S : Cardinality(T) = n => T \in Z}
  <1>1. 0 \in N
    <2>1. \A T \in SUBSET S : Cardinality(T) = 0 => T = {}
      BY FS_Subset, FS_EmptySet
    <2> QED BY <2>1
  <1>2. \A n \in N : n + 1 \in N
    <2>1. SUFFICES ASSUME NEW n \in N, NEW T \in SUBSET S, Cardinality(T) = n + 1 PROVE T \in Z
      OBVIOUS
    <2>2. IsFiniteSet(T) /\ n \in Nat
      BY FS_Subset
    <2>3. T # {}
      BY <2>1, <2>2, FS_EmptySet
    <2>4. PICK x : x \in T
      BY <2>3
    <2>5. IsFiniteSet(T \ {x}) /\ Cardinality(T \ {x}) = n
      <3>1. Cardinality(T \ {x}) = Cardinality(T) - 1 /\ IsFiniteSet(T \ {x})
        BY <2>2, <2>4, FS_RemoveElement
      <3> QED BY <2>1, <2>2, <3>1
    <2>6. T \ {x} \in Z
      BY <2>5
    <2>7. (T \ {x}) \cup {x} \in Z
      BY <2>4, <2>6
    <2>8. (T \ {x}) \cup {x} = T
      BY <2>4
    <2> QED BY <2>7, <2>8
  <1>3. N = Nat
    <2>1. N \in SUBSET Nat
      OBVIOUS
    <2> HIDE DEF N
    <2> QED BY <2>1, <1>1, <1>2, NatInduct
  <1>4. Cardinality(S) \in Nat
    BY FS_CardinalityType
  <1> QED BY <1>3, <1>4

(* Sums over a finite set of integers.                                     *)

(* Subsets of at most n elements.                                          *)
Upto(S, n) == {T \in SUBSET S : Cardinality(T) =< n}

Chosen(s) == CHOOSE x \in s : TRUE

Summed(f, D, g) == g = [s \in D |-> IF s = {} THEN 0 ELSE f[Chosen(s)] + g[s \ {Chosen(s)}]]

(* The fold is the value of the function that sums every subset.           *)
LEMMA SumIsSummed ==
    ASSUME NEW f, NEW S
    PROVE  SumOver(f, S) = LET iter == CHOOSE iter : Summed(f, SUBSET S, iter) IN iter[S]
  BY DEF SumOver, FoldFunctionOnSet, MapThenFoldSet, Summed, Chosen

(* That function takes an element off a set and adds its value.            *)
LEMMA SummedValues ==
    ASSUME NEW f, NEW D, NEW g, Summed(f, D, g)
    PROVE  \A s \in D : g[s] = IF s = {} THEN 0 ELSE f[Chosen(s)] + g[s \ {Chosen(s)}]
  BY DEF Summed

(* A finite set has such a function.                                       *)
LEMMA SummedExists ==
    ASSUME NEW f, NEW S, IsFiniteSet(S)
    PROVE  \E g : Summed(f, SUBSET S, g)
  <1> DEFINE Z == {n \in Nat : \E g : Summed(f, Upto(S, n), g)}
  <1>1. 0 \in Z
    <2> DEFINE g == [s \in Upto(S, 0) |-> 0]
    <2>1. \A s \in Upto(S, 0) : s = {}
      BY FS_Subset, FS_EmptySet, FS_CardinalityType DEF Upto
    <2>2. Summed(f, Upto(S, 0), g)
      BY <2>1 DEF Summed
    <2> QED BY <2>2
  <1>2. \A n \in Z : n + 1 \in Z
    <2>1. SUFFICES ASSUME NEW n \in Nat, NEW g, Summed(f, Upto(S, n), g)
                   PROVE  \E h : Summed(f, Upto(S, n + 1), h)
      OBVIOUS
    <2> DEFINE body(k, s) == IF s = {} THEN 0 ELSE f[Chosen(s)] + k[s \ {Chosen(s)}]
    <2> DEFINE h == [s \in Upto(S, n + 1) |-> body(g, s)]
    <2>2. \A s \in Upto(S, n) : g[s] = body(g, s)
      BY <2>1 DEF Summed
    <2>3. \A s \in Upto(S, n) : s \in Upto(S, n + 1) /\ h[s] = g[s]
      <3>1. \A s \in Upto(S, n) : s \in Upto(S, n + 1)
        BY FS_Subset, FS_CardinalityType DEF Upto
      <3> QED BY <3>1, <2>2
    <2>4. \A s \in Upto(S, n + 1) : s # {} => (s \ {Chosen(s)}) \in Upto(S, n)
      <3>1. SUFFICES ASSUME NEW s \in Upto(S, n + 1), s # {}, NEW x \in s
                     PROVE  s \ {x} \in Upto(S, n)
        BY DEF Chosen
      <3>2. IsFiniteSet(s) /\ Cardinality(s) \in Nat /\ Cardinality(s) =< n + 1
        BY FS_Subset, FS_CardinalityType DEF Upto
      <3>3. Cardinality(s \ {x}) = Cardinality(s) - 1
        BY <3>2, FS_RemoveElement
      <3>4. Cardinality(s \ {x}) =< n
        BY <3>2, <3>3
      <3> QED BY <3>4 DEF Upto
    <2>5. \A s \in Upto(S, n + 1) : body(g, s) = body(h, s)
      <3> HIDE DEF h
      <3> QED BY <2>3, <2>4
    <2>6. h = [s \in Upto(S, n + 1) |-> body(h, s)]
      <3>1. \A s \in Upto(S, n + 1) : h[s] = body(h, s)
        BY <2>5
      <3>2. h = [s \in Upto(S, n + 1) |-> h[s]]
        OBVIOUS
      <3> HIDE DEF h
      <3> QED BY <3>1, <3>2
    <2>7. Summed(f, Upto(S, n + 1), h)
      <3> HIDE DEF h
      <3> QED BY <2>6 DEF Summed
    <2> QED BY <2>7
  <1>3. Z = Nat
    <2>1. Z \in SUBSET Nat
      OBVIOUS
    <2> HIDE DEF Z
    <2> QED BY <2>1, <1>1, <1>2, NatInduct
  <1>4. Upto(S, Cardinality(S)) = SUBSET S
    BY FS_Subset DEF Upto
  <1>5. Cardinality(S) \in Z
    BY <1>3, FS_CardinalityType
  <1>6. \E g : Summed(f, Upto(S, Cardinality(S)), g)
    BY <1>5
  <1> QED BY <1>4, <1>6

(* Every summing function of f has the same values.                        *)
LEMMA SummedAgree ==
    ASSUME NEW f, NEW S, NEW U, NEW g, NEW h, IsFiniteSet(S), S \subseteq U,
           NEW D, NEW E, D = SUBSET S, E = SUBSET U, Summed(f, D, g), Summed(f, E, h)
    PROVE  g[S] = h[S]
  <1> DEFINE Z == {n \in Nat : \A T \in SUBSET S : Cardinality(T) = n => g[T] = h[T]}
  <1>0. \A T \in SUBSET S : /\ g[T] = IF T = {} THEN 0 ELSE f[Chosen(T)] + g[T \ {Chosen(T)}]
                            /\ h[T] = IF T = {} THEN 0 ELSE f[Chosen(T)] + h[T \ {Chosen(T)}]
    <2>1. \A T \in SUBSET S : g[T] = IF T = {} THEN 0 ELSE f[Chosen(T)] + g[T \ {Chosen(T)}]
      BY DEF Summed
    <2>2. \A T \in SUBSET U : h[T] = IF T = {} THEN 0 ELSE f[Chosen(T)] + h[T \ {Chosen(T)}]
      BY DEF Summed
    <2> QED BY <2>1, <2>2
  <1>1. 0 \in Z
    <2>1. \A T \in SUBSET S : Cardinality(T) = 0 => T = {}
      BY FS_Subset, FS_EmptySet
    <2> QED BY <2>1, <1>0
  <1>2. \A n \in Z : n + 1 \in Z
    <2>1. SUFFICES ASSUME NEW n \in Z, NEW T \in SUBSET S, Cardinality(T) = n + 1 PROVE g[T] = h[T]
      OBVIOUS
    <2>2. IsFiniteSet(T) /\ n \in Nat
      BY FS_Subset
    <2>3. T # {}
      BY <2>1, <2>2, FS_EmptySet
    <2>4. PICK x \in T : x = Chosen(T)
      BY <2>3 DEF Chosen
    <2>5. Cardinality(T \ {x}) = Cardinality(T) - 1
      BY <2>2, <2>4, FS_RemoveElement
    <2>6. g[T \ {x}] = h[T \ {x}]
      BY <2>1, <2>2, <2>5
    <2> QED BY <1>0, <2>3, <2>4, <2>6
  <1>3. Z = Nat
    <2>1. Z \in SUBSET Nat
      OBVIOUS
    <2> HIDE DEF Z
    <2> QED BY <2>1, <1>1, <1>2, NatInduct
  <1>4. Cardinality(S) \in Nat
    BY FS_CardinalityType
  <1> QED BY <1>3, <1>4

(* The sum over no element is zero.                                        *)
LEMMA SumEmpty ==
    ASSUME NEW f
    PROVE  SumOver(f, {}) = 0
  BY DEF SumOver, FoldFunctionOnSet, MapThenFoldSet

(* A sum is the value of one element and the sum over the others.          *)
LEMMA SumPick ==
    ASSUME NEW f, NEW S, IsFiniteSet(S), S # {}
    PROVE  \E x \in S : SumOver(f, S) = f[x] + SumOver(f, S \ {x})
  <1>1. PICK x \in S : x = Chosen(S)
    BY DEF Chosen
  <1>2. IsFiniteSet(S \ {x})
    BY FS_RemoveElement
  <1>3. PICK g : Summed(f, SUBSET S, g) /\ SumOver(f, S) = g[S]
    BY SummedExists, SumIsSummed
  <1>4. PICK h : Summed(f, SUBSET (S \ {x}), h) /\ SumOver(f, S \ {x}) = h[S \ {x}]
    BY <1>2, SummedExists, SumIsSummed
  <1>5. h[S \ {x}] = g[S \ {x}]
    <2>1. PICK T : T = S \ {x}
      OBVIOUS
    <2>2. PICK D : D = SUBSET T
      OBVIOUS
    <2>3. PICK E : E = SUBSET S
      OBVIOUS
    <2>4. T \subseteq S /\ IsFiniteSet(T) /\ Summed(f, D, h) /\ Summed(f, E, g)
      BY <1>2, <1>3, <1>4, <2>1, <2>2, <2>3
    <2>5. h[T] = g[T]
      BY <2>2, <2>3, <2>4, SummedAgree
    <2> QED BY <2>1, <2>5
  <1>6. g[S] = f[x] + g[S \ {x}]
    BY <1>1, <1>3, SummedValues
  <1> QED BY <1>3, <1>4, <1>5, <1>6

(* Integers sum to an integer.                                             *)
LEMMA SumType ==
    ASSUME NEW f, NEW S, IsFiniteSet(S), \A y \in S : f[y] \in Int
    PROVE  SumOver(f, S) \in Int
  <1> DEFINE Z == {n \in Nat : \A T \in SUBSET S : Cardinality(T) = n => SumOver(f, T) \in Int}
  <1>1. 0 \in Z
    <2>1. \A T \in SUBSET S : Cardinality(T) = 0 => T = {}
      BY FS_Subset, FS_EmptySet
    <2>2. SumOver(f, {}) \in Int
      BY SumEmpty
    <2> QED BY <2>1, <2>2
  <1>2. \A n \in Z : n + 1 \in Z
    <2>1. SUFFICES ASSUME NEW n \in Z, NEW T \in SUBSET S, Cardinality(T) = n + 1
                   PROVE  SumOver(f, T) \in Int
      OBVIOUS
    <2>2. IsFiniteSet(T) /\ n \in Nat
      BY FS_Subset
    <2>3. T # {}
      BY <2>1, <2>2, FS_EmptySet
    <2>4. PICK x \in T : SumOver(f, T) = f[x] + SumOver(f, T \ {x})
      BY <2>2, <2>3, SumPick
    <2>5. Cardinality(T \ {x}) = Cardinality(T) - 1
      BY <2>2, FS_RemoveElement
    <2>6. SumOver(f, T \ {x}) \in Int
      BY <2>1, <2>2, <2>5
    <2> QED BY <2>4, <2>6
  <1>3. Z = Nat
    <2>1. Z \in SUBSET Nat
      OBVIOUS
    <2> HIDE DEF Z
    <2> QED BY <2>1, <1>1, <1>2, NatInduct
  <1>4. Cardinality(S) \in Nat
    BY FS_CardinalityType
  <1> QED BY <1>3, <1>4

(* The sum over a set is that over the set without an element, and its     *)
(* value: the order in which the fold takes the elements does not matter.  *)
LEMMA SumTake ==
    ASSUME NEW f, NEW S, IsFiniteSet(S), \A y \in S : f[y] \in Int
    PROVE  \A x \in S : SumOver(f, S) = f[x] + SumOver(f, S \ {x})
  <1> DEFINE Z == {n \in Nat : \A T \in SUBSET S : Cardinality(T) = n =>
                      \A x \in T : SumOver(f, T) = f[x] + SumOver(f, T \ {x})}
  <1>1. 0 \in Z
    <2>1. \A T \in SUBSET S : Cardinality(T) = 0 => T = {}
      BY FS_Subset, FS_EmptySet
    <2> QED BY <2>1
  <1>2. \A n \in Z : n + 1 \in Z
    <2>1. SUFFICES ASSUME NEW n \in Z, NEW T \in SUBSET S, Cardinality(T) = n + 1, NEW y \in T
                   PROVE  SumOver(f, T) = f[y] + SumOver(f, T \ {y})
      OBVIOUS
    <2>2. IsFiniteSet(T) /\ n \in Nat
      BY FS_Subset
    <2>3. PICK x \in T : SumOver(f, T) = f[x] + SumOver(f, T \ {x})
      BY <2>2, SumPick
    <2>4. \A v \in T : \A z \in T \ {v} : SumOver(f, T \ {v}) = f[z] + SumOver(f, (T \ {v}) \ {z})
      <3>1. SUFFICES ASSUME NEW v \in T
                     PROVE  \A z \in T \ {v} : SumOver(f, T \ {v}) = f[z] + SumOver(f, (T \ {v}) \ {z})
        OBVIOUS
      <3>2. Cardinality(T \ {v}) = Cardinality(T) - 1
        BY <2>2, FS_RemoveElement
      <3>3. Cardinality(T \ {v}) = n
        BY <3>2, <2>1, <2>2
      <3> QED BY <3>3
    <2>5. CASE y = x
      BY <2>3, <2>5
    <2>6. CASE y # x
      <3>1. (T \ {x}) \ {y} = (T \ {y}) \ {x}
        OBVIOUS
      <3>2. SumOver(f, T \ {x}) = f[y] + SumOver(f, (T \ {x}) \ {y})
        BY <2>4, <2>6
      <3>3. SumOver(f, T \ {y}) = f[x] + SumOver(f, (T \ {y}) \ {x})
        BY <2>4, <2>6
      <3>4. SumOver(f, (T \ {x}) \ {y}) \in Int
        <4>1. IsFiniteSet((T \ {x}) \ {y})
          BY <2>2, FS_RemoveElement
        <4>2. \A z \in (T \ {x}) \ {y} : f[z] \in Int
          OBVIOUS
        <4> QED BY <4>1, <4>2, SumType
      <3>5. f[x] \in Int /\ f[y] \in Int
        OBVIOUS
      <3>6. PICK r \in Int : r = SumOver(f, (T \ {x}) \ {y}) /\ r = SumOver(f, (T \ {y}) \ {x})
        BY <3>1, <3>4
      <3>7. SumOver(f, T) = f[x] + (f[y] + r) /\ SumOver(f, T \ {y}) = f[x] + r
        BY <2>3, <3>2, <3>3, <3>6
      <3> QED BY <3>5, <3>7
    <2> QED BY <2>5, <2>6
  <1>3. Z = Nat
    <2>1. Z \in SUBSET Nat
      OBVIOUS
    <2> HIDE DEF Z
    <2> QED BY <2>1, <1>1, <1>2, NatInduct
  <1>4. Cardinality(S) \in Nat
    BY FS_CardinalityType
  <1> QED BY <1>3, <1>4

(* A new element adds its value.                                           *)
LEMMA SumAdd ==
    ASSUME NEW f, NEW S, IsFiniteSet(S), \A y \in S : f[y] \in Int, NEW x, x \notin S, f[x] \in Int
    PROVE  SumOver(f, S \cup {x}) = f[x] + SumOver(f, S)
  <1>1. IsFiniteSet(S \cup {x})
    BY FS_AddElement
  <1>2. \A y \in S \cup {x} : f[y] \in Int
    OBVIOUS
  <1>3. (S \cup {x}) \ {x} = S
    OBVIOUS
  <1>4. SumOver(f, S \cup {x}) = f[x] + SumOver(f, (S \cup {x}) \ {x})
    BY <1>1, <1>2, SumTake
  <1> QED BY <1>3, <1>4

(* Equal values, equal sums.                                               *)
LEMMA SumSame ==
    ASSUME NEW S, IsFiniteSet(S), NEW f, NEW g,
           \A x \in S : f[x] \in Int /\ g[x] = f[x]
    PROVE  SumOver(f, S) = SumOver(g, S)
  <1> DEFINE Z == {T \in SUBSET S : SumOver(f, T) = SumOver(g, T)}
  <1>1. {} \in Z
    BY SumEmpty
  <1>2. \A T \in Z : \A x \in S \ T : T \cup {x} \in Z
    <2>1. SUFFICES ASSUME NEW T \in Z, NEW x \in S \ T
                   PROVE  SumOver(f, (T \cup {x})) = SumOver(g, (T \cup {x}))
      OBVIOUS
    <2>2. IsFiniteSet(T) /\ T \subseteq S
      BY FS_Subset
    <2>3. SumOver(f, T \cup {x}) = f[x] + SumOver(f, T) /\ SumOver(f, T) \in Int
      BY <2>2, SumAdd, SumType
    <2>4. SumOver(g, T \cup {x}) = g[x] + SumOver(g, T) /\ SumOver(g, T) \in Int
      BY <2>2, SumAdd, SumType
    <2> QED BY <2>1, <2>2, <2>3, <2>4
  <1>3. Z \in SUBSET SUBSET S
    OBVIOUS
  <1>4. S \in Z
    <2> HIDE DEF Z
    <2> QED BY <1>1, <1>2, <1>3, SetInduct
  <1> QED BY <1>4

(* Sums add up.                                                            *)
LEMMA SumPlus ==
    ASSUME NEW S, IsFiniteSet(S), NEW f, NEW g, NEW h,
           \A x \in S : f[x] \in Int /\ g[x] \in Int /\ h[x] = f[x] + g[x]
    PROVE  SumOver(h, S) = SumOver(f, S) + SumOver(g, S)
  <1> DEFINE Z == {T \in SUBSET S : SumOver(h, T) = SumOver(f, T) + SumOver(g, T)}
  <1>1. {} \in Z
    BY SumEmpty
  <1>2. \A T \in Z : \A x \in S \ T : T \cup {x} \in Z
    <2>1. SUFFICES ASSUME NEW T \in Z, NEW x \in S \ T
                   PROVE  SumOver(h, (T \cup {x})) = SumOver(f, (T \cup {x})) + SumOver(g, (T \cup {x}))
      OBVIOUS
    <2>2. IsFiniteSet(T) /\ T \subseteq S
      BY FS_Subset
    <2>3. SumOver(f, T \cup {x}) = f[x] + SumOver(f, T) /\ SumOver(f, T) \in Int
      BY <2>2, SumAdd, SumType
    <2>4. SumOver(g, T \cup {x}) = g[x] + SumOver(g, T) /\ SumOver(g, T) \in Int
      BY <2>2, SumAdd, SumType
    <2>5. SumOver(h, T \cup {x}) = h[x] + SumOver(h, T) /\ SumOver(h, T) \in Int
      BY <2>2, SumAdd, SumType
    <2> QED BY <2>1, <2>2, <2>3, <2>4, <2>5
  <1>3. Z \in SUBSET SUBSET S
    OBVIOUS
  <1>4. S \in Z
    <2> HIDE DEF Z
    <2> QED BY <1>1, <1>2, <1>3, SetInduct
  <1> QED BY <1>4

(* A common factor.                                                        *)
LEMMA SumScale ==
    ASSUME NEW S, IsFiniteSet(S), NEW f, NEW h, NEW c \in Int,
           \A x \in S : f[x] \in Int /\ h[x] = c * f[x]
    PROVE  SumOver(h, S) = c * SumOver(f, S)
  <1> DEFINE Z == {T \in SUBSET S : SumOver(h, T) = c * SumOver(f, T)}
  <1>1. {} \in Z
    BY SumEmpty
  <1>2. \A T \in Z : \A x \in S \ T : T \cup {x} \in Z
    <2>1. SUFFICES ASSUME NEW T \in Z, NEW x \in S \ T
                   PROVE  SumOver(h, (T \cup {x})) = c * SumOver(f, (T \cup {x}))
      OBVIOUS
    <2>2. IsFiniteSet(T) /\ T \subseteq S
      BY FS_Subset
    <2>3. SumOver(f, T \cup {x}) = f[x] + SumOver(f, T) /\ SumOver(f, T) \in Int
      BY <2>2, SumAdd, SumType
    <2>4. SumOver(h, T \cup {x}) = h[x] + SumOver(h, T) /\ SumOver(h, T) \in Int
      BY <2>2, SumAdd, SumType
    <2> QED BY <2>1, <2>2, <2>3, <2>4
  <1>3. Z \in SUBSET SUBSET S
    OBVIOUS
  <1>4. S \in Z
    <2> HIDE DEF Z
    <2> QED BY <1>1, <1>2, <1>3, SetInduct
  <1> QED BY <1>4

(* Sums of smaller values are smaller.                                     *)
LEMMA SumAtMost ==
    ASSUME NEW S, IsFiniteSet(S), NEW f, NEW g,
           \A x \in S : f[x] \in Int /\ g[x] \in Int /\ f[x] =< g[x]
    PROVE  SumOver(f, S) =< SumOver(g, S)
  <1> DEFINE Z == {T \in SUBSET S : SumOver(f, T) =< SumOver(g, T)}
  <1>1. {} \in Z
    BY SumEmpty
  <1>2. \A T \in Z : \A x \in S \ T : T \cup {x} \in Z
    <2>1. SUFFICES ASSUME NEW T \in Z, NEW x \in S \ T
                   PROVE  SumOver(f, (T \cup {x})) =< SumOver(g, (T \cup {x}))
      OBVIOUS
    <2>2. IsFiniteSet(T) /\ T \subseteq S
      BY FS_Subset
    <2>3. SumOver(f, T \cup {x}) = f[x] + SumOver(f, T) /\ SumOver(f, T) \in Int
      BY <2>2, SumAdd, SumType
    <2>4. SumOver(g, T \cup {x}) = g[x] + SumOver(g, T) /\ SumOver(g, T) \in Int
      BY <2>2, SumAdd, SumType
    <2> QED BY <2>1, <2>2, <2>3, <2>4
  <1>3. Z \in SUBSET SUBSET S
    OBVIOUS
  <1>4. S \in Z
    <2> HIDE DEF Z
    <2> QED BY <1>1, <1>2, <1>3, SetInduct
  <1> QED BY <1>4

(* A sum of zeros and ones counts the ones.                                *)
LEMMA SumCounts ==
    ASSUME NEW S, IsFiniteSet(S), NEW f, \A x \in S : f[x] \in {0, 1}
    PROVE  SumOver(f, S) = Cardinality({x \in S : f[x] = 1})
  <1> DEFINE Ones(T) == {x \in T : f[x] = 1}
             Z == {T \in SUBSET S : SumOver(f, T) = Cardinality(Ones(T))}
  <1>1. {} \in Z
    <2>1. Ones({}) = {}
      OBVIOUS
    <2> QED BY <2>1, SumEmpty, FS_EmptySet
  <1>2. \A T \in Z : \A x \in S \ T : T \cup {x} \in Z
    <2>1. SUFFICES ASSUME NEW T \in Z, NEW x \in S \ T
                   PROVE  SumOver(f, T \cup {x}) = Cardinality(Ones(T \cup {x}))
      OBVIOUS
    <2>2. IsFiniteSet(T) /\ T \subseteq S /\ IsFiniteSet(Ones(T))
      BY FS_Subset
    <2>3. SumOver(f, T \cup {x}) = f[x] + SumOver(f, T) /\ SumOver(f, T) \in Int
      <3>1. \A y \in T : f[y] \in Int
        OBVIOUS
      <3> QED BY <3>1, <2>2, SumAdd, SumType
    <2>4. CASE f[x] = 1
      <3>1. Ones(T \cup {x}) = Ones(T) \cup {x}
        BY <2>4
      <3>2. Cardinality(Ones(T) \cup {x}) = Cardinality(Ones(T)) + 1
        BY <2>2, FS_AddElement
      <3> QED BY <2>3, <2>4, <3>1, <3>2
    <2>5. CASE f[x] = 0
      <3>1. Ones(T \cup {x}) = Ones(T)
        BY <2>5
      <3>2. SumOver(f, T \cup {x}) = SumOver(f, T)
        BY <2>3, <2>5
      <3>3. SumOver(f, T) = Cardinality(Ones(T))
        BY <2>1
      <3> QED BY <3>1, <3>2, <3>3
    <2> QED BY <2>4, <2>5
  <1>3. Z \in SUBSET SUBSET S
    OBVIOUS
  <1>4. S \in Z
    <2> HIDE DEF Z
    <2> QED BY <1>1, <1>2, <1>3, SetInduct
  <1> QED BY <1>4

(* Equal values sum to a multiple of the number of elements.               *)
LEMMA SumConstant ==
    ASSUME NEW S, IsFiniteSet(S), NEW f, NEW c \in Int, \A x \in S : f[x] = c
    PROVE  SumOver(f, S) = c * Cardinality(S)
  <1> DEFINE one == [x \in S |-> 1]
  <1>1. SumOver(one, S) = Cardinality(S)
    <2>1. {x \in S : one[x] = 1} = S
      OBVIOUS
    <2>2. \A x \in S : one[x] \in {0, 1}
      OBVIOUS
    <2> HIDE DEF one
    <2> QED BY <2>1, <2>2, SumCounts
  <1>2. \A x \in S : one[x] \in Int /\ f[x] = c * one[x]
    OBVIOUS
  <1> HIDE DEF one
  <1> QED BY <1>1, <1>2, SumScale

-----------------------------------------------------------------------------
(* The place of an element in an order: who has k before it.               *)

(* How many of S are before x.                                             *)
Rank(x, S, R) == Cardinality({y \in S : <<y, x>> \in R})

Orders(R, S) ==
    /\ \A x \in S : <<x, x>> \notin R
    /\ \A x \in S, y \in S : x # y => <<x, y>> \in R \/ <<y, x>> \in R
    /\ \A x \in S, y \in S, z \in S : <<x, y>> \in R /\ <<y, z>> \in R => <<x, z>> \in R

(* A smaller element has fewer before it.                                  *)
LEMMA RankGrows ==
    ASSUME NEW S, IsFiniteSet(S), NEW R, Orders(R, S)
    PROVE  /\ \A x \in S : Rank(x, S, R) \in 0..(Cardinality(S) - 1)
           /\ \A x \in S, y \in S : <<x, y>> \in R => Rank(x, S, R) < Rank(y, S, R)
  <1> DEFINE Smaller(x) == {z \in S : <<z, x>> \in R}
  <1>1. \A x \in S : IsFiniteSet(Smaller(x)) /\ Cardinality(Smaller(x)) \in Nat
    BY FS_Subset, FS_CardinalityType
  <1>2. ASSUME NEW x \in S PROVE Rank(x, S, R) \in 0..(Cardinality(S) - 1)
    <2>1. Smaller(x) \subseteq S \ {x}
      BY DEF Orders
    <2>2. IsFiniteSet(S \ {x}) /\ Cardinality(S \ {x}) = Cardinality(S) - 1
      BY FS_RemoveElement
    <2>3. Cardinality(Smaller(x)) =< Cardinality(S \ {x})
      BY <2>1, <2>2, FS_Subset
    <2>4. Cardinality(S) \in Nat
      BY FS_CardinalityType
    <2> QED BY <1>1, <2>2, <2>3, <2>4 DEF Rank
  <1>3. ASSUME NEW x \in S, NEW y \in S, <<x, y>> \in R PROVE Rank(x, S, R) < Rank(y, S, R)
    <2>1. Smaller(x) \subseteq Smaller(y)
      BY <1>3 DEF Orders
    <2>2. x \in Smaller(y) /\ x \notin Smaller(x)
      BY <1>3 DEF Orders
    <2>3. /\ Cardinality(Smaller(x)) =< Cardinality(Smaller(y))
          /\ Cardinality(Smaller(x)) # Cardinality(Smaller(y))
      <3> HIDE DEF Smaller
      <3> QED BY <1>1, <2>1, <2>2, FS_Subset
    <2> QED BY <1>1, <2>3 DEF Rank
  <1> QED BY <1>2, <1>3

(* Two elements have two places.                                           *)
LEMMA RankInjective ==
    ASSUME NEW S, IsFiniteSet(S), NEW R, Orders(R, S), NEW x \in S, NEW y \in S,
           Rank(x, S, R) = Rank(y, S, R)
    PROVE  x = y
  <1>1. SUFFICES ASSUME x # y PROVE FALSE
    OBVIOUS
  <1>2. <<x, y>> \in R \/ <<y, x>> \in R
    BY <1>1 DEF Orders
  <1>3. Rank(x, S, R) \in Int
    BY RankGrows
  <1>4. Rank(x, S, R) < Rank(y, S, R) \/ Rank(y, S, R) < Rank(x, S, R)
    BY <1>2, RankGrows
  <1> QED BY <1>3, <1>4

(* Every place is taken.                                                   *)
LEMMA RankSurjective ==
    ASSUME NEW S, IsFiniteSet(S), NEW R, Orders(R, S), NEW k \in 0..(Cardinality(S) - 1)
    PROVE  \E x \in S : Rank(x, S, R) = k
  <1> DEFINE n == Cardinality(S)
             f == [x \in S |-> Rank(x, S, R)]
  <1>0. n \in Nat
    BY FS_CardinalityType
  <1>1. f \in [S -> 0..(n - 1)]
    BY RankGrows
  <1>2. \A x \in S, y \in S : f[x] = f[y] => x = y
    BY RankInjective
  <1>3. f \in Injection(S, 0..(n - 1))
    <2> HIDE DEF f
    <2> QED BY <1>1, <1>2 DEF Injection, IsInjective
  <1>4. IsFiniteSet(0..(n - 1)) /\ Cardinality(0..(n - 1)) = n
    BY <1>0, FS_Interval
  <1>5. f \in Surjection(S, 0..(n - 1))
    <2> HIDE DEF f
    <2> QED BY <1>3, <1>4, FS_Injection
  <1>6. \E x \in S : f[x] = k
    <2> HIDE DEF f
    <2> QED BY <1>5 DEF Surjection
  <1> QED BY <1>6

(* The first r places hold r elements.                                     *)
LEMMA RankCount ==
    ASSUME NEW S, IsFiniteSet(S), NEW R, Orders(R, S), NEW r \in 0..Cardinality(S)
    PROVE  Cardinality({x \in S : Rank(x, S, R) < r}) = r
  <1> DEFINE T == {x \in S : Rank(x, S, R) < r}
             f == [x \in T |-> Rank(x, S, R)]
  <1>0. Cardinality(S) \in Nat
    BY FS_CardinalityType
  <1>1. f \in [T -> 0..(r - 1)]
    BY RankGrows
  <1>2. \A x \in T, y \in T : f[x] = f[y] => x = y
    BY RankInjective
  <1>3. f \in Injection(T, 0..(r - 1))
    <2> HIDE DEF f, T
    <2> QED BY <1>1, <1>2 DEF Injection, IsInjective
  <1>4. \A k \in 0..(r - 1) : \E x \in T : f[x] = k
    <2>1. SUFFICES ASSUME NEW k \in 0..(r - 1) PROVE \E x \in T : f[x] = k
      OBVIOUS
    <2>2. k \in 0..(Cardinality(S) - 1) /\ k < r
      BY <1>0
    <2>3. PICK x \in S : Rank(x, S, R) = k
      BY <2>2, RankSurjective
    <2> QED BY <2>2, <2>3
  <1>5. f \in Surjection(T, 0..(r - 1))
    <2> HIDE DEF f, T
    <2> QED BY <1>1, <1>4 DEF Surjection
  <1>6. IsFiniteSet(0..(r - 1)) /\ Cardinality(0..(r - 1)) = r
    <2>1. r \in Nat /\ 0 \in Int /\ r - 1 \in Int
      BY <1>0
    <2> QED BY <2>1, FS_Interval
  <1>7. Cardinality(T) = r
    <2> HIDE DEF f, T
    <2> QED BY <1>3, <1>5, <1>6, FS_Injection
  <1> QED BY <1>7

-----------------------------------------------------------------------------
(* calculateExpenseParticipants: shares that add up.                       *)

(* What is left of a division is less than the divisor.                    *)
LEMMA Division ==
    ASSUME NEW t \in Nat, NEW n \in Nat, n > 0
    PROVE  /\ t \div n \in Nat /\ t % n \in 0..(n - 1)
           /\ t = n * (t \div n) + (t % n)
           /\ t < n => t \div n = 0
  OBVIOUS

(* The first r ids get one more: r of them, if there are as many.          *)
LEMMA BeforeCount ==
    ASSUME NEW ids \in SUBSET Nat, IsFiniteSet(ids), NEW r \in 0..Cardinality(ids)
    PROVE  Cardinality({id \in ids : Before(id, ids) < r}) = r
  <1> DEFINE R == {pair \in ids \X ids : pair[1] < pair[2]}
  <1>1. \A a \in ids, b \in ids : <<a, b>> \in R <=> a < b
    OBVIOUS
  <1>2. Orders(R, ids)
    <2> HIDE DEF R
    <2> QED BY <1>1 DEF Orders
  <1>3. \A id \in ids : {other \in ids : other < id} = {other \in ids : <<other, id>> \in R}
    <2> HIDE DEF R
    <2> QED BY <1>1
  <1>4. \A id \in ids : Before(id, ids) = Rank(id, ids, R)
    <2> HIDE DEF R
    <2> QED BY <1>3 DEF Before, Rank
  <1>5. {id \in ids : Before(id, ids) < r} = {id \in ids : Rank(id, ids, R) < r}
    <2> HIDE DEF R
    <2> QED BY <1>4
  <1>6. Cardinality({id \in ids : Rank(id, ids, R) < r}) = r
    <2> HIDE DEF R
    <2> QED BY <1>2, RankCount
  <1> QED BY <1>5, <1>6

(* An amount is spread over the ids to the cent: every one gets the same   *)
(* part, and the first ones what is left.                                  *)
Spread(total, ids) ==
    [id \in ids |-> total \div Cardinality(ids)
                    + (IF Before(id, ids) < total % Cardinality(ids) THEN 1 ELSE 0)]

(* The parts of an amount that is spread sum to the amount.                *)
LEMMA SpreadSums ==
    ASSUME NEW ids \in SUBSET Nat, IsFiniteSet(ids), ids # {}, NEW total \in Nat
    PROVE  /\ Spread(total, ids) \in [ids -> Nat]
           /\ SumOver(Spread(total, ids), ids) = total
  <1> DEFINE n == Cardinality(ids)
             q == total \div n
             r == total % n
             extra == [id \in ids |-> IF Before(id, ids) < r THEN 1 ELSE 0]
             same == [id \in ids |-> q]
  <1>1. n \in Nat /\ n > 0
    BY FS_CardinalityType, FS_EmptySet
  <1>2. q \in Nat /\ r \in 0..(n - 1) /\ r \in 0..n /\ total = n * q + r
    <2>1. n \in Nat /\ n > 0
      BY <1>1
    <2> HIDE DEF n
    <2> QED BY <2>1, Division
  <1> HIDE DEF q, r, n
  <1>3. SumOver(extra, ids) = r
    <2>1. \A id \in ids : extra[id] \in {0, 1}
      OBVIOUS
    <2>2. {id \in ids : extra[id] = 1} = {id \in ids : Before(id, ids) < r}
      OBVIOUS
    <2>3. r \in 0..Cardinality(ids)
      BY <1>2 DEF n
    <2>4. Cardinality({id \in ids : Before(id, ids) < r}) = r
      BY <2>3, BeforeCount
    <2>5. SumOver(extra, ids) = Cardinality({id \in ids : extra[id] = 1})
      <3> HIDE DEF extra
      <3> QED BY <2>1, SumCounts
    <2> QED BY <2>2, <2>4, <2>5
  <1>4. SumOver(same, ids) = q * n
    <2>1. \A id \in ids : same[id] = q
      OBVIOUS
    <2>2. q \in Int
      BY <1>2
    <2> HIDE DEF same
    <2> QED BY <2>1, <2>2, SumConstant DEF n
  <1>5. \A id \in ids : /\ same[id] \in Int /\ extra[id] \in Int
                        /\ Spread(total, ids)[id] = same[id] + extra[id]
    BY <1>2 DEF Spread, q, r, n
  <1>6. SumOver(Spread(total, ids), ids) = SumOver(same, ids) + SumOver(extra, ids)
    <2> HIDE DEF same, extra
    <2> QED BY <1>5, SumPlus
  <1>7. Spread(total, ids) \in [ids -> Nat]
    BY <1>2 DEF Spread, q, r, n
  <1>8. q * n + r = total
    BY <1>1, <1>2
  <1> QED BY <1>3, <1>4, <1>6, <1>7, <1>8

(* assignEqualShares gives natural shares that sum to the total.           *)
LEMMA EqualShares ==
    ASSUME NEW ids \in SUBSET Nat, IsFiniteSet(ids), ids # {}, NEW total \in Nat
    PROVE  /\ assignEqualShares(total, ids) \in [ids -> Nat]
           /\ SumOf(assignEqualShares(total, ids)) = total
  <1>1. assignEqualShares(total, ids) = Spread(total, ids)
    BY DEF assignEqualShares, Spread
  <1>2. DOMAIN assignEqualShares(total, ids) = ids
    BY DEF assignEqualShares
  <1> QED BY <1>1, <1>2, SpreadSums DEF SumOf

(* Rounding a percentage misses half a cent at most, either way.           *)
LEMMA RoundedNear ==
    ASSUME NEW total \in Nat, NEW percentage \in Nat, Hundred \in Nat \ {0}
    PROVE  /\ Rounded(total, percentage) \in Nat
           /\ (2 * Hundred) * Rounded(total, percentage) =< (2 * total) * percentage + Hundred
  <1>1. PICK q \in Nat : q = (2 * total) * percentage
    OBVIOUS
  <1>2. PICK w \in Nat : w = 2 * Hundred /\ w > 0
    OBVIOUS
  <1>3. Rounded(total, percentage) = (q + Hundred) \div w
    BY <1>1, <1>2 DEF Rounded
  <1>4. /\ (q + Hundred) \div w \in Nat /\ (q + Hundred) % w \in 0..(w - 1)
        /\ q + Hundred = w * ((q + Hundred) \div w) + ((q + Hundred) % w)
    <2>1. q + Hundred \in Nat
      OBVIOUS
    <2> QED BY <1>2, <2>1, Division
  <1>5. PICK r \in Nat : r = (q + Hundred) \div w
    BY <1>4
  <1>6. w * r =< q + Hundred
    <2>1. w * r \in Nat
      BY <1>2, <1>5
    <2> QED BY <1>4, <1>5, <2>1
  <1> QED BY <1>1, <1>2, <1>3, <1>5, <1>6

(* Values that exceed others by c at most do so for each term of a sum.    *)
LEMMA NearSums ==
    ASSUME NEW S, IsFiniteSet(S), NEW f, NEW g, NEW c \in Nat,
           \A x \in S : f[x] \in Int /\ g[x] \in Int /\ f[x] =< g[x] + c
    PROVE  SumOver(f, S) =< SumOver(g, S) + c * Cardinality(S)
  <1>1. PICK slack : slack = [x \in S |-> c]
    OBVIOUS
  <1>2. PICK upper : upper = [x \in S |-> g[x] + slack[x]]
    OBVIOUS
  <1>3. \A x \in S : slack[x] = c /\ slack[x] \in Int
    BY <1>1
  <1>4. \A x \in S : upper[x] \in Int /\ upper[x] = g[x] + slack[x] /\ f[x] =< upper[x]
    BY <1>2, <1>3
  <1>5. SumOver(upper, S) = SumOver(g, S) + SumOver(slack, S)
    BY <1>3, <1>4, SumPlus
  <1>6. SumOver(slack, S) = c * Cardinality(S)
    BY <1>3, SumConstant
  <1>7. SumOver(f, S) =< SumOver(upper, S)
    BY <1>4, SumAtMost
  <1> QED BY <1>5, <1>6, <1>7

(* Percentages that make up the whole, but for the tolerance.              *)
MakeUp(p, ids) ==
    p \in [ids -> Nat] /\ SumOf(p) \in (Hundred - Grain)..(Hundred + Grain)

Rounding(total, p, ids) == [id \in ids |-> Rounded(total, p[id])]

(* What is common to both sides of an inequality.                          *)
LEMMA Cancel ==
    ASSUME NEW g \in Nat \ {0}, NEW x \in Int, NEW y \in Int, g * x =< g * y
    PROVE  x =< y
  <1>1. SUFFICES ASSUME x >= y + 1 PROVE FALSE
    OBVIOUS
  <1>2. PICK d \in Nat : x = (y + 1) + d
    <2>1. x - (y + 1) \in Nat
      BY <1>1
    <2> QED BY <2>1
  <1>3. g * x = g * y + g + g * d
    BY <1>2
  <1>4. g * d \in Nat /\ g * y \in Int
    BY <1>2
  <1> QED BY <1>3, <1>4

(* The rounded shares exceed the total by a ten thousandth of it and half  *)
(* a cent per id at most.                                                  *)
LEMMA RoundedSums ==
    ASSUME NEW ids, IsFiniteSet(ids), NEW total \in Nat, Grain \in Nat \ {0},
           NEW p, MakeUp(p, ids),
           NEW rounded, rounded = Rounding(total, p, ids),
           NEW sum, sum = SumOver(rounded, ids), NEW n, n = Cardinality(ids)
    PROVE  /\ \A id \in ids : rounded[id] \in Nat
           /\ sum \in Int /\ ids # {} /\ n \in Nat /\ n > 0
           /\ 20000 * sum =< 20000 * total + 2 * total + 10000 * n
  <1>0. /\ DOMAIN p = ids /\ (\A id \in ids : p[id] \in Nat)
        /\ SumOver(p, ids) \in (Hundred - Grain)..(Hundred + Grain)
    BY DEF MakeUp, SumOf
  <1>1. Hundred \in Nat \ {0} /\ Hundred = 10000 * Grain /\ Hundred > Grain
    BY DEF Hundred
  <1>2. ids # {}
    <2>1. SumOver(p, ids) # 0
      BY <1>0, <1>1
    <2> QED BY <2>1, SumEmpty
  <1>3. n \in Nat /\ n > 0
    BY <1>2, FS_CardinalityType, FS_EmptySet
  <1>4. PICK t \in Nat, w \in Nat : t = 2 * total /\ w = 2 * Hundred
    BY <1>1
  <1>5. PICK scaled : scaled = [id \in ids |-> w * rounded[id]]
    OBVIOUS
  <1>6. PICK exact : exact = [id \in ids |-> t * p[id]]
    OBVIOUS
  <1>7. \A id \in ids : /\ rounded[id] \in Nat /\ p[id] \in Int
                        /\ scaled[id] \in Int /\ scaled[id] = w * rounded[id]
                        /\ exact[id] \in Int /\ exact[id] = t * p[id]
                        /\ scaled[id] =< exact[id] + Hundred
    <2> SUFFICES ASSUME NEW id \in ids
                 PROVE  /\ rounded[id] \in Nat /\ p[id] \in Int
                        /\ scaled[id] \in Int /\ scaled[id] = w * rounded[id]
                        /\ exact[id] \in Int /\ exact[id] = t * p[id]
                        /\ scaled[id] =< exact[id] + Hundred
      OBVIOUS
    <2>1. PICK q \in Nat : q = p[id]
      BY <1>0
    <2>2. rounded[id] = Rounded(total, q)
      BY <2>1 DEF Rounding
    <2>3. PICK r \in Nat : r = rounded[id] /\ w * r =< t * q + Hundred
      <3>1. /\ Rounded(total, q) \in Nat
            /\ (2 * Hundred) * Rounded(total, q) =< (2 * total) * q + Hundred
        <4>1. Hundred \in Nat \ {0}
          BY <1>1
        <4> QED BY <4>1, RoundedNear, Zenon
      <3> QED BY <1>4, <2>2, <3>1
    <2>4. scaled[id] = w * r /\ exact[id] = t * q
      BY <1>5, <1>6, <2>1, <2>3
    <2>5. w * r \in Int /\ t * q \in Int
      BY <1>4, <2>1, <2>3
    <2> QED BY <2>1, <2>3, <2>4, <2>5
  <1>8. PICK whole \in Int : whole = SumOver(p, ids) /\ whole =< Hundred + Grain
    BY <1>0, <1>1
  <1>9. SumOver(exact, ids) = t * whole
    <2>1. \A id \in ids : p[id] \in Int /\ exact[id] = t * p[id]
      BY <1>7
    <2>2. t \in Int
      BY <1>4
    <2> QED BY <1>8, <2>1, <2>2, SumScale
  <1>10. sum \in Int
    BY <1>7, SumType
  <1>11. SumOver(scaled, ids) = w * sum
    <2>1. \A id \in ids : rounded[id] \in Int /\ scaled[id] = w * rounded[id]
      BY <1>7
    <2>2. w \in Int
      BY <1>4
    <2> QED BY <2>1, <2>2, SumScale
  <1>12. SumOver(scaled, ids) =< SumOver(exact, ids) + Hundred * n
    <2>1. Hundred \in Nat
      BY <1>1
    <2> QED BY <1>7, <2>1, NearSums
  <1>13. w * sum =< t * whole + Hundred * n
    BY <1>9, <1>11, <1>12
  <1>14. t * whole =< t * (Hundred + Grain)
    <2>1. PICK d \in Nat : Hundred + Grain = whole + d
      <3>1. (Hundred + Grain) - whole \in Nat
        BY <1>1, <1>8
      <3> QED BY <1>1, <1>8, <3>1
    <2>2. t * (whole + d) = t * whole + t * d /\ t * d \in Nat /\ t * whole \in Int
      BY <1>4, <1>8, <2>1
    <2> QED BY <2>1, <2>2
  <1>15. Grain * (20000 * sum) =< Grain * (20000 * total + 2 * total + 10000 * n)
    <2>1. w * sum = Grain * (20000 * sum)
      BY <1>1, <1>4, <1>10
    <2>2. t * (Hundred + Grain) + Hundred * n
          = Grain * (20000 * total + 2 * total + 10000 * n)
      BY <1>1, <1>3, <1>4
    <2>3. /\ w * sum \in Int /\ t * whole \in Int /\ Hundred * n \in Int
          /\ t * (Hundred + Grain) \in Int
      BY <1>1, <1>3, <1>4, <1>8, <1>10
    <2>4. w * sum =< t * (Hundred + Grain) + Hundred * n
      BY <1>13, <1>14, <2>3
    <2> QED BY <2>1, <2>2, <2>4
  <1>16. 20000 * sum =< 20000 * total + 2 * total + 10000 * n
    <2>1. PICK x \in Int, y \in Int : /\ x = 20000 * sum
                                     /\ y = 20000 * total + 2 * total + 10000 * n
      BY <1>3, <1>10
    <2>2. x =< y
      BY <1>15, <2>1, Cancel
    <2> QED BY <2>1, <2>2
  <1> QED BY <1>2, <1>3, <1>7, <1>10, <1>16

(* A quotient is the largest factor that fits.                             *)
LEMMA FactorFits ==
    ASSUME NEW x \in Nat, NEW m \in Nat \ {0}, NEW q \in Int, m * q =< x
    PROVE  q =< x \div m
  <1>1. /\ x \div m \in Nat /\ x % m \in 0..(m - 1) /\ x = m * (x \div m) + (x % m)
    BY Division
  <1>2. PICK d \in Nat : d = x \div m
    BY <1>1
  <1>3. m * d \in Int /\ m * (d + 1) = m * d + m /\ m * q \in Int
    BY <1>2
  <1>5. SUFFICES ASSUME q >= d + 1 PROVE FALSE
    BY <1>2
  <1>6. PICK e \in Nat : q = (d + 1) + e
    <2>1. q - (d + 1) \in Nat
      BY <1>2, <1>5
    <2> QED BY <1>2, <2>1
  <1>7. m * q = m * (d + 1) + m * e /\ m * e \in Nat /\ m * (d + 1) \in Int
    BY <1>2, <1>6
  <1>8. m * (d + 1) > x
    BY <1>1, <1>2, <1>3
  <1> QED BY <1>7, <1>8

(* What a round of the loop takes from each of n participants, and one     *)
(* cent more, is the most that it can forget at one.                       *)
LEMMA ForgottenBound ==
    ASSUME NEW total \in Nat, NEW n \in Nat, n > 0, NEW left \in Nat,
           20000 * left =< 2 * total + 10000 * n
    PROVE  /\ MostForgotten(total, n) \in Nat
           /\ left \div n + 1 =< MostForgotten(total, n)
  <1>1. left \div n \in Nat /\ left % n \in 0..(n - 1) /\ left = n * (left \div n) + (left % n)
    BY Division
  <1>2. PICK q \in Nat : q = left \div n
    BY <1>1
  <1>3. n * q \in Nat /\ n * q =< left
    BY <1>1, <1>2
  <1>4. (20000 * n) * q = 20000 * (n * q)
    BY <1>2
  <1>5. PICK m \in Nat \ {0}, x \in Nat : m = 20000 * n /\ x = 2 * total + 10000 * n
    OBVIOUS
  <1>6. m * q =< x
    BY <1>3, <1>4, <1>5
  <1>7. q =< x \div m /\ x \div m \in Nat
    BY <1>5, <1>6, FactorFits, Division
  <1> QED BY <1>2, <1>5, <1>7 DEF MostForgotten

(* Shares that never miss the amount, and exceed it only by what was       *)
(* forgotten at participants who have none.                                *)
AddUp(split, total) ==
    /\ SumOf(split) >= total
    /\ SumOf(split) =< total + Cardinality({id \in DOMAIN split : split[id] = 0})
                                * MostForgotten(total, Cardinality(DOMAIN split))

(* Percentages that make up the whole, but for the tolerance, give shares  *)
(* that add up.                                                            *)
LEMMA PercentageShares ==
    ASSUME NEW ids \in SUBSET Nat, IsFiniteSet(ids), NEW total \in Nat,
           Grain \in Nat \ {0}, NEW p, MakeUp(p, ids),
           NEW s, s = assignPercentageShares(total, p)
    PROVE  s \in [ids -> Nat] /\ AddUp(s, total)
  <1>0. DOMAIN p = ids /\ \A id \in ids : p[id] \in Nat
    BY DEF MakeUp
  <1>1. PICK rounded : rounded = Rounding(total, p, ids)
    OBVIOUS
  <1>2. PICK n : n = Cardinality(ids)
    OBVIOUS
  <1>3. PICK sum : sum = SumOver(rounded, ids)
    OBVIOUS
  <1>4. PICK left : left = IF total >= sum THEN total - sum ELSE sum - total
    OBVIOUS
  <1>5. PICK visits : visits = Spread(left, ids)
    OBVIOUS
  <1>6. \A id \in ids : rounded[id] = Rounded(total, p[id])
    BY <1>1 DEF Rounding
  <1>7. /\ \A id \in ids : rounded[id] \in Nat
        /\ sum \in Int /\ ids # {} /\ n \in Nat
        /\ n > 0 /\ 20000 * sum =< 20000 * total + 2 * total + 10000 * n
    BY <1>1, <1>2, <1>3, RoundedSums
  <1>8. left \in Nat
    BY <1>4, <1>7
  <1>9. visits \in [ids -> Nat] /\ SumOver(visits, ids) = left
    BY <1>5, <1>7, <1>8, SpreadSums
  <1>10. PICK c \in Nat : c = left \div n + 1 /\ \A id \in ids : visits[id] \in 0..c
    <2>1. PICK q \in Nat : q = left \div n
      BY <1>7, <1>8, Division
    <2>2. \A id \in ids : visits[id] = q \/ visits[id] = q + 1
      BY <2>1, <1>2, <1>5 DEF Spread
    <2>3. q + 1 \in Nat /\ \A id \in ids : visits[id] \in 0..(q + 1)
      BY <2>1, <2>2
    <2> QED BY <2>1, <2>3
  <1>11. SumOf(rounded) = sum
    BY <1>1, <1>3 DEF SumOf, Rounding
  <1>12. s = [id \in ids |-> IF total - sum >= 0 THEN rounded[id] + visits[id]
                  ELSE IF rounded[id] >= visits[id] THEN rounded[id] - visits[id] ELSE 0]
    <2>1. left = IF total - sum >= 0 THEN total - sum ELSE -(total - sum)
      BY <1>4, <1>7
    <2>2. \A id \in ids : visits[id] = left \div n + (IF Before(id, ids) < left % n THEN 1 ELSE 0)
      BY <1>2, <1>5 DEF Spread
    <2> QED
      BY <1>0, <1>1, <1>2, <1>11, <2>1, <2>2 DEF assignPercentageShares, Rounding
  <1>13. DOMAIN s = ids /\ SumOf(s) = SumOver(s, ids)
    BY <1>12 DEF SumOf
  <1>14. \A id \in ids : rounded[id] \in Int /\ visits[id] \in Int /\ s[id] \in Nat
    BY <1>7, <1>9, <1>10, <1>12
  <1>15. s \in [ids -> Nat]
    BY <1>12, <1>14
  <1>16. PICK most : most = MostForgotten(total, n)
    OBVIOUS
  <1>17. ASSUME ~ (total - sum >= 0) PROVE most \in Nat /\ c =< most
    <2>1. left = sum - total
      BY <1>4, <1>7, <1>17
    <2>2. 20000 * left =< 2 * total + 10000 * n
      BY <1>7, <2>1
    <2> QED BY <1>7, <1>8, <1>10, <1>16, <2>2, ForgottenBound
  <1>18. most \in Nat
    <2>1. 20000 * 0 =< 2 * total + 10000 * n
      BY <1>7
    <2> QED BY <1>7, <1>16, <2>1, ForgottenBound
  <1>19. PICK zeros \in Nat : zeros = Cardinality({id \in ids : s[id] = 0})
    <2>1. IsFiniteSet({id \in ids : s[id] = 0})
      BY FS_Subset
    <2> QED BY <2>1, FS_CardinalityType
  <1>20. CASE total - sum >= 0
    <2>1. \A id \in ids : s[id] = rounded[id] + visits[id]
      BY <1>12, <1>20
    <2>2. SumOver(s, ids) = sum + left
      <3>1. \A id \in ids : rounded[id] \in Int /\ visits[id] \in Int /\ s[id] = rounded[id] + visits[id]
        BY <2>1, <1>14
      <3>2. SumOver(s, ids) = SumOver(rounded, ids) + SumOver(visits, ids)
        BY <3>1, SumPlus
      <3> QED BY <3>2, <1>3, <1>9
    <2>3. SumOver(s, ids) = total
      BY <2>2, <1>4, <1>7, <1>20
    <2>4. zeros * most \in Nat
      BY <1>19, <1>18
    <2> QED BY <2>3, <2>4, <1>2, <1>13, <1>15, <1>19, <1>16 DEF AddUp
  <1>21. CASE ~ (total - sum >= 0)
    <2>1. PICK evened : evened = [id \in ids |-> rounded[id] - visits[id]]
      OBVIOUS
    <2>2. PICK none : none = [id \in ids |-> IF s[id] = 0 THEN c ELSE 0]
      OBVIOUS
    <2>3. PICK bound : bound = [id \in ids |-> evened[id] + none[id]]
      OBVIOUS
    <2>4. \A id \in ids : /\ evened[id] \in Int /\ none[id] \in Nat /\ bound[id] \in Int
                          /\ rounded[id] = evened[id] + visits[id]
                          /\ bound[id] = evened[id] + none[id]
                          /\ evened[id] =< s[id] /\ s[id] =< bound[id]
      <3>1. SUFFICES ASSUME NEW id \in ids
                     PROVE  /\ evened[id] \in Int /\ none[id] \in Nat /\ bound[id] \in Int
                            /\ rounded[id] = evened[id] + visits[id]
                            /\ bound[id] = evened[id] + none[id]
                            /\ evened[id] =< s[id] /\ s[id] =< bound[id]
        OBVIOUS
      <3>2. evened[id] = rounded[id] - visits[id] /\ none[id] = (IF s[id] = 0 THEN c ELSE 0)
            /\ bound[id] = evened[id] + none[id]
        BY <2>1, <2>2, <2>3
      <3>3. s[id] = IF rounded[id] >= visits[id] THEN rounded[id] - visits[id] ELSE 0
        BY <1>12, <1>21
      <3>4. rounded[id] \in Nat /\ visits[id] \in 0..c /\ c \in Nat
        BY <1>7, <1>10
      <3> QED BY <3>2, <3>3, <3>4
    <2>5. sum = SumOver(evened, ids) + left
      <3>1. \A id \in ids : evened[id] \in Int /\ visits[id] \in Int /\ rounded[id] = evened[id] + visits[id]
        BY <1>14, <2>4
      <3>2. SumOver(rounded, ids) = SumOver(evened, ids) + SumOver(visits, ids)
        BY <3>1, SumPlus
      <3> QED BY <3>2, <1>3, <1>9
    <2>6. SumOver(evened, ids) \in Int
      BY <2>4, SumType
    <2>7. SumOver(evened, ids) = total
      BY <2>5, <2>6, <1>4, <1>7, <1>21
    <2>8. SumOver(none, ids) = c * zeros
      <3>1. PICK ones : ones = [id \in ids |-> IF s[id] = 0 THEN 1 ELSE 0]
        OBVIOUS
      <3>2. {id \in ids : ones[id] = 1} = {id \in ids : s[id] = 0}
        BY <3>1
      <3>3. \A id \in ids : ones[id] \in {0, 1}
        BY <3>1
      <3>4. SumOver(ones, ids) = zeros
        <4>1. SumOver(ones, ids) = Cardinality({id \in ids : ones[id] = 1})
          BY <3>3, SumCounts
        <4> QED BY <3>2, <4>1, <1>19
      <3>5. \A id \in ids : ones[id] \in Int /\ none[id] = c * ones[id]
        BY <2>2, <3>1
      <3>6. c \in Int
        OBVIOUS
      <3>7. SumOver(none, ids) = c * SumOver(ones, ids)
        BY <3>5, <3>6, SumScale
      <3> QED BY <3>4, <3>7
    <2>9. SumOver(bound, ids) = SumOver(evened, ids) + SumOver(none, ids)
      <3>1. \A id \in ids : evened[id] \in Int /\ none[id] \in Int /\ bound[id] = evened[id] + none[id]
        BY <2>4
      <3> QED BY <3>1, SumPlus
    <2>10. SumOver(evened, ids) =< SumOver(s, ids) /\ SumOver(s, ids) =< SumOver(bound, ids)
      <3>1. \A id \in ids : s[id] \in Int
        BY <1>14
      <3> QED BY <2>4, <3>1, SumAtMost
    <2>11. c * zeros =< zeros * most /\ c * zeros \in Nat /\ zeros * most \in Nat
      <3>1. PICK d \in Nat : most = c + d
        <4>1. most - c \in Nat
          BY <1>21, <1>17
        <4> QED BY <1>18, <4>1
      <3>2. zeros * (c + d) = c * zeros + zeros * d /\ zeros * d \in Nat /\ c * zeros \in Nat
        BY <1>19, <3>1
      <3> QED BY <3>1, <3>2
    <2>12. SumOver(s, ids) \in Int
      <3>1. \A id \in ids : s[id] \in Int
        BY <1>14
      <3> QED BY <3>1, SumType
    <2>13. SumOver(s, ids) >= total /\ SumOver(s, ids) =< total + zeros * most
      BY <2>7, <2>8, <2>9, <2>10, <2>11, <2>12
    <2> QED BY <2>13, <1>2, <1>13, <1>15, <1>19, <1>16 DEF AddUp
  <1> QED BY <1>20, <1>21

Shares == UNION {[ids -> Nat] : ids \in SUBSET People}

(* Shares that sum to the total add up.                                    *)
LEMMA ExactAddsUp ==
    ASSUME NEW ids \in SUBSET People, IsFiniteSet(ids), ids # {},
           NEW split \in [ids -> Nat], NEW total \in Nat, SumOf(split) = total
    PROVE  split \in Shares /\ AddUp(split, total)
  <1>1. DOMAIN split = ids
    OBVIOUS
  <1>2. IsFiniteSet({id \in ids : split[id] = 0})
    BY FS_Subset
  <1>3. Cardinality({id \in ids : split[id] = 0}) \in Nat
    BY <1>2, FS_CardinalityType
  <1>4. MostForgotten(total, Cardinality(ids)) \in Nat
    <2>1. PICK n \in Nat : n = Cardinality(ids) /\ n > 0
      BY FS_CardinalityType, FS_EmptySet
    <2>2. 20000 * 0 =< 2 * total + 10000 * n
      OBVIOUS
    <2> QED BY <2>1, <2>2, ForgottenBound
  <1>5. PICK zeros \in Nat, most \in Nat :
           /\ zeros = Cardinality({id \in ids : split[id] = 0})
           /\ most = MostForgotten(total, Cardinality(ids))
    BY <1>3, <1>4
  <1>6. zeros * most \in Nat
    OBVIOUS
  <1>7. AddUp(split, total)
    BY <1>1, <1>5, <1>6 DEF AddUp
  <1> QED BY <1>7 DEF Shares

(* Whatever the way an expense is split (calculateExpenseParticipants),    *)
(* its shares add up.                                                      *)
THEOREM SplitsAddUp ==
    ASSUME ExpenseAssumption, NEW total \in Nat, NEW split \in SplitsOf(total)
    PROVE  split \in Shares /\ AddUp(split, total)
  <1>1. \A ids \in SUBSET People : ids \in SUBSET Nat /\ IsFiniteSet(ids)
    BY FS_Subset DEF ExpenseAssumption
  <1>2. PICK type \in SplitTypes :
            split \in CASE type = "selected_equal" ->
                             {assignEqualShares(total, ids) : ids \in (SUBSET People) \ {{}}}
                        [] type = "custom_amounts" -> CustomAmounts(total)
                        [] type = "custom_percentages" ->
                             {assignPercentageShares(total, p) : p \in Percentages}
    BY DEF SplitsOf
  <1>3. type \in {"selected_equal", "custom_amounts", "custom_percentages"}
    BY DEF ExpenseAssumption
  <1>4. CASE type = "selected_equal"
    <2>1. PICK ids \in (SUBSET People) \ {{}} : split = assignEqualShares(total, ids)
      BY <1>2, <1>4
    <2>2. ids \in SUBSET Nat /\ IsFiniteSet(ids) /\ ids # {} /\ ids \in SUBSET People
      BY <1>1
    <2>3. split \in [ids -> Nat] /\ SumOf(split) = total
      BY <2>1, <2>2, EqualShares, Zenon
    <2> QED BY <2>2, <2>3, ExactAddsUp
  <1>5. CASE type = "custom_amounts"
    <2>1. PICK ids \in (SUBSET People) \ {{}} : split \in [ids -> 0..total] /\ SumOf(split) = total
      BY <1>2, <1>5 DEF CustomAmounts
    <2>2. split \in [ids -> Nat] /\ ids \in SUBSET People /\ ids # {}
      BY <2>1
    <2> QED BY <1>1, <2>1, <2>2, ExactAddsUp
  <1>6. CASE type = "custom_percentages"
    <2>1. PICK p \in Percentages : split = assignPercentageShares(total, p)
      BY <1>2, <1>6
    <2>2. PICK ids \in SUBSET People :
             p \in [ids -> Parts] /\ SumOf(p) \in (Hundred - Grain)..(Hundred + Grain)
      BY DEF Percentages
    <2>3. MakeUp(p, ids)
      <3>1. Parts \subseteq Nat
        BY DEF ExpenseAssumption
      <3>2. p = [id \in ids |-> p[id]] /\ \A id \in ids : p[id] \in Parts
        BY <2>2, Zenon
      <3>3. \A id \in ids : p[id] \in Nat
        BY <3>1, <3>2, Zenon
      <3>4. p \in [ids -> Nat]
        BY <3>2, <3>3, Zenon
      <3> QED BY <2>2, <3>4 DEF MakeUp
    <2>4. ids \in SUBSET Nat /\ IsFiniteSet(ids) /\ Grain \in Nat \ {0}
      BY <1>1 DEF ExpenseAssumption
    <2>5. split \in [ids -> Nat] /\ AddUp(split, total)
      BY <2>1, <2>3, <2>4, PercentageShares
    <2> QED BY <2>5 DEF Shares
  <1> QED BY <1>3, <1>4, <1>5, <1>6

-----------------------------------------------------------------------------
(* The sides of a settlement.                                              *)

Nets == [People -> Int]

Ahead(amounts, users) ==
    {pair \in users \X users :
        \/ amounts[pair[1]] > amounts[pair[2]]
        \/ amounts[pair[1]] = amounts[pair[2]] /\ pair[1] < pair[2]}

(* The order in which sides are sorted is total.                           *)
LEMMA AheadOrders ==
    ASSUME NEW users \in SUBSET Nat, NEW amounts, \A id \in users : amounts[id] \in Int
    PROVE  Orders(Ahead(amounts, users), users)
  <1>1. \A a \in users, b \in users : <<a, b>> \in Ahead(amounts, users) <=>
            (amounts[a] > amounts[b] \/ (amounts[a] = amounts[b] /\ a < b))
    BY DEF Ahead
  <1>2. \A x \in users : <<x, x>> \notin Ahead(amounts, users)
    BY <1>1
  <1>3. \A x \in users, y \in users : x # y =>
            <<x, y>> \in Ahead(amounts, users) \/ <<y, x>> \in Ahead(amounts, users)
    BY <1>1
  <1>4. \A x \in users, y \in users, z \in users :
            <<x, y>> \in Ahead(amounts, users) /\ <<y, z>> \in Ahead(amounts, users)
            => <<x, z>> \in Ahead(amounts, users)
    BY <1>1
  <1> QED BY <1>2, <1>3, <1>4 DEF Orders

(* The sides of a settlement: everyone once, more than the tolerance.      *)
SideRows == [user : People, amount : Int]

GoodSides(S) ==
    /\ S \in Seq(SideRows)
    /\ \A k \in 1..Len(S) : S[k].amount > settlementTolerance
    /\ \A i \in 1..Len(S), j \in 1..Len(S) : S[i].user = S[j].user => i = j

UsersOf(S) == {S[k].user : k \in 1..Len(S)}

(* What everyone owes, or is owed.                                         *)
Owed(net, owing) == [id \in People |-> IF owing THEN -net[id] ELSE net[id]]

IsSideOf(S, amounts) ==
    /\ GoodSides(S)
    /\ \A k \in 1..Len(S) : S[k].amount = amounts[S[k].user]
    /\ UsersOf(S) = {id \in People : amounts[id] > settlementTolerance}
    /\ Len(S) = Cardinality(UsersOf(S))

(* Sides lists whoever owes, or is owed, more than the tolerance.          *)
LEMMA SidesAreGood ==
    ASSUME ExpenseAssumption, NEW net \in Nets, NEW owing \in BOOLEAN,
           NEW S, S = Sides(net, owing), NEW amounts, amounts = Owed(net, owing)
    PROVE  IsSideOf(S, amounts)
  <1> DEFINE size(id) == IF owing THEN -net[id] ELSE net[id]
             users == {id \in People : size(id) > settlementTolerance}
             ahead(id) == {other \in users : size(other) > size(id) \/ (size(other) = size(id) /\ other < id)}
             at(k) == CHOOSE id \in users : Cardinality(ahead(id)) = k - 1
             R == Ahead(amounts, users)
  <1>1. S = [k \in 1..Cardinality(users) |-> [user |-> at(k), amount |-> size(at(k))]]
    BY DEF Sides
  <1>2. \A id \in People : amounts[id] \in Int /\ amounts[id] = size(id)
    BY DEF Owed, Nets
  <1>3. users = {id \in People : amounts[id] > settlementTolerance}
    BY <1>2
  <1>4. users \in SUBSET Nat /\ IsFiniteSet(users) /\ users \subseteq People
    <2>1. users \subseteq People
      OBVIOUS
    <2> HIDE DEF users
    <2> QED BY <2>1, FS_Subset DEF ExpenseAssumption
  <1>5. Orders(R, users)
    <2>1. \A id \in users : amounts[id] \in Int
      BY <1>4, <1>2
    <2> HIDE DEF users
    <2> QED BY <1>4, <2>1, AheadOrders
  <1>6. \A id \in users : Cardinality(ahead(id)) = Rank(id, users, R)
    <2>1. ASSUME NEW id \in users PROVE ahead(id) = {other \in users : <<other, id>> \in R}
      <3>1. \A other \in users : size(other) = amounts[other]
        BY <1>2, <1>4
      <3> HIDE DEF users, size
      <3> QED BY <3>1 DEF Ahead
    <2> HIDE DEF users, ahead, R
    <2> QED BY <2>1 DEF Rank
  <1>7. PICK n \in Nat : n = Cardinality(users)
    <2> HIDE DEF users
    <2> QED BY <1>4, FS_CardinalityType
  <1>8. \A k \in 1..n : at(k) \in users /\ Rank(at(k), users, R) = k - 1
    <2>1. SUFFICES ASSUME NEW k \in 1..n PROVE \E id \in users : Cardinality(ahead(id)) = k - 1
      BY <1>6
    <2>2. PICK q \in 0..(Cardinality(users) - 1) : q = k - 1
      <3> HIDE DEF users
      <3> QED BY <1>7
    <2>3. \E id \in users : Rank(id, users, R) = q
      <3>1. IsFiniteSet(users) /\ Orders(R, users)
        BY <1>4, <1>5
      <3> HIDE DEF users, R, ahead, at, size
      <3> QED BY <3>1, <2>2, RankSurjective
    <2> HIDE DEF users, ahead, R
    <2> QED BY <2>2, <2>3, <1>6
  <1> HIDE DEF at, users, ahead, R
  <1>9. \A k \in 1..n : at(k) \in People /\ size(at(k)) = amounts[at(k)] /\ amounts[at(k)] \in Int
    BY <1>2, <1>4, <1>8
  <1> HIDE DEF size
  <1>10. S = [k \in 1..n |-> [user |-> at(k), amount |-> amounts[at(k)]]]
    BY <1>1, <1>7, <1>9
  <1>11. S \in Seq(SideRows) /\ Len(S) = n
    BY <1>9, <1>10 DEF SideRows
  <1>12. \A k \in 1..n : S[k].user = at(k) /\ S[k].amount = amounts[at(k)]
    BY <1>10
  <1>13. \A k \in 1..n : S[k].amount > settlementTolerance
    BY <1>12, <1>8, <1>3
  <1>14. \A i \in 1..n, j \in 1..n : S[i].user = S[j].user => i = j
    <2>1. SUFFICES ASSUME NEW i \in 1..n, NEW j \in 1..n, at(i) = at(j) PROVE i = j
      BY <1>12
    <2>2. i - 1 = j - 1
      BY <2>1, <1>8
    <2> QED BY <2>2
  <1>15. UsersOf(S) = users
    <2>1. ASSUME NEW id \in users PROVE \E k \in 1..n : at(k) = id
      <3>1. PICK q \in 0..(Cardinality(users) - 1) : q = Rank(id, users, R)
        BY <1>4, <1>5, RankGrows
      <3>2. q + 1 \in 1..n /\ (q + 1) - 1 = q
        BY <1>7
      <3>3. at(q + 1) \in users /\ Rank(at(q + 1), users, R) = q
        BY <1>8, <3>2
      <3>4. at(q + 1) = id
        BY <3>1, <3>3, <1>4, <1>5, RankInjective
      <3> QED BY <3>2, <3>4
    <2>2. UsersOf(S) = {S[k].user : k \in 1..n}
      BY <1>11 DEF UsersOf
    <2>3. \A id \in UsersOf(S) : id \in users
      BY <2>2, <1>8, <1>12
    <2>4. \A id \in users : id \in UsersOf(S)
      BY <2>1, <2>2, <1>12
    <2> QED BY <2>3, <2>4
  <1>16. GoodSides(S)
    BY <1>11, <1>13, <1>14 DEF GoodSides
  <1> QED BY <1>3, <1>7, <1>11, <1>12, <1>15, <1>16 DEF IsSideOf

-----------------------------------------------------------------------------
(* What payments make of the balances.                                     *)

Payments == [from : People, to : People, amount : Int]

AmountsOf(out) == [k \in DOMAIN out |-> out[k].amount]
SentBy(out, id) == SumOver(AmountsOf(out), {k \in DOMAIN out : out[k].from = id})
SentTo(out, id) == SumOver(AmountsOf(out), {k \in DOMAIN out : out[k].to = id})

(* What a list of payments makes of what people are owed.                  *)
AfterPaid(net, out) == [id \in People |-> net[id] + SentBy(out, id) - SentTo(out, id)]

(* g continues f by one value.                                             *)
Longer(f, g, n, m) ==
    /\ n \in Nat /\ m = n + 1
    /\ \A k \in 1..n : f[k] \in Int /\ g[k] = f[k]
    /\ g[m] \in Int

SameUpTo(T, U, n, m) == T \subseteq 1..n /\ U \subseteq 1..m /\ \A k \in 1..n : k \in U <=> k \in T

(* A sum over one index more.                                              *)
LEMMA SumLast ==
    ASSUME NEW n, NEW m, NEW f, NEW g, NEW T, NEW U, Longer(f, g, n, m), SameUpTo(T, U, n, m)
    PROVE  SumOver(f, T) \in Int /\ SumOver(g, U) = SumOver(f, T) + (IF m \in U THEN g[m] ELSE 0)
  <1> USE DEF Longer, SameUpTo
  <1>0. \A k \in U : k \in 1..n \/ k = m
    OBVIOUS
  <1>1. IsFiniteSet(T)
    <2>1. IsFiniteSet(1..n)
      BY FS_Interval
    <2> QED BY <2>1, FS_Subset
  <1>2. \A k \in T : f[k] \in Int /\ g[k] \in Int /\ g[k] = f[k]
    OBVIOUS
  <1>3. SumOver(f, T) \in Int /\ SumOver(g, T) = SumOver(f, T)
    <2>1. SumOver(f, T) = SumOver(g, T)
      BY <1>1, <1>2, SumSame
    <2> QED BY <1>1, <1>2, <2>1, SumType
  <1>4. CASE m \in U
    <2>1. U = T \cup {m}
      BY <1>0, <1>4
    <2>2. m \notin T
      OBVIOUS
    <2>3. SumOver(g, T \cup {m}) = g[m] + SumOver(g, T)
      BY <1>1, <1>2, <2>2, SumAdd
    <2> QED BY <1>3, <1>4, <2>1, <2>3
  <1>5. CASE m \notin U
    <2>1. U = T
      BY <1>0, <1>5
    <2> QED BY <1>3, <1>5, <2>1
  <1> QED BY <1>4, <1>5

OneMore(out, p, more) == out \in Seq(Payments) /\ p \in Payments /\ more = Append(out, p)

PaysFor(out, p, more, id) ==
    /\ SentBy(out, id) \in Int /\ SentTo(out, id) \in Int
    /\ SentBy(more, id) = SentBy(out, id) + (IF p.from = id THEN p.amount ELSE 0)
    /\ SentTo(more, id) = SentTo(out, id) + (IF p.to = id THEN p.amount ELSE 0)

(* One payment more, one amount more.                                      *)
LEMMA PaidAppend ==
    ASSUME NEW out, NEW p, NEW more, OneMore(out, p, more), NEW id
    PROVE  PaysFor(out, p, more, id)
  <1> USE DEF OneMore
  <1>1. PICK n \in Nat : n = Len(out)
    OBVIOUS
  <1>0. PICK m : m = n + 1
    OBVIOUS
  <1>2. /\ DOMAIN out = 1..n /\ DOMAIN more = 1..m
        /\ \A k \in 1..n : more[k] = out[k] /\ out[k] \in Payments
        /\ more[m] = p
    BY <1>0, <1>1
  <1>3. PICK f : f = AmountsOf(out)
    OBVIOUS
  <1>4. PICK g : g = AmountsOf(more)
    OBVIOUS
  <1>5. \A k \in 1..n : f[k] \in Int /\ g[k] = f[k]
    BY <1>0, <1>2, <1>3, <1>4 DEF AmountsOf, Payments
  <1>6. g[m] = p.amount /\ g[m] \in Int
    BY <1>0, <1>2, <1>4 DEF AmountsOf, Payments
  <1>7. /\ SentBy(out, id) \in Int
        /\ SentBy(more, id) = SentBy(out, id) + (IF p.from = id THEN p.amount ELSE 0)
    <2>1. PICK T : T = {k \in DOMAIN out : out[k].from = id}
      OBVIOUS
    <2>2. PICK U : U = {k \in DOMAIN more : more[k].from = id}
      OBVIOUS
    <2>3. T \subseteq 1..n /\ U \subseteq 1..m /\ \A k \in 1..n : k \in U <=> k \in T
      BY <1>0, <1>2, <2>1, <2>2
    <2>4. m \in U <=> p.from = id
      BY <1>0, <1>2, <2>2
    <2>5. SumOver(f, T) \in Int /\ SumOver(g, U) = SumOver(f, T) + (IF m \in U THEN g[m] ELSE 0)
      <3>1. n \in Nat /\ m = n + 1 /\ g[m] \in Int
        BY <1>0, <1>6
      <3>2. (\A k \in 1..n : f[k] \in Int /\ g[k] = f[k]) /\ (\A k \in 1..n : k \in U <=> k \in T)
        BY <1>5, <2>3
      <3>3. T \subseteq 1..n /\ U \subseteq 1..m
        BY <2>3
      <3>4. Longer(f, g, n, m) /\ SameUpTo(T, U, n, m)
        BY <3>1, <3>2, <3>3 DEF Longer, SameUpTo
      <3> QED BY <3>4, SumLast
    <2> QED BY <2>1, <2>2, <2>4, <2>5, <1>3, <1>4, <1>6 DEF SentBy
  <1>8. /\ SentTo(out, id) \in Int
        /\ SentTo(more, id) = SentTo(out, id) + (IF p.to = id THEN p.amount ELSE 0)
    <2>1. PICK T : T = {k \in DOMAIN out : out[k].to = id}
      OBVIOUS
    <2>2. PICK U : U = {k \in DOMAIN more : more[k].to = id}
      OBVIOUS
    <2>3. T \subseteq 1..n /\ U \subseteq 1..m /\ \A k \in 1..n : k \in U <=> k \in T
      BY <1>0, <1>2, <2>1, <2>2
    <2>4. m \in U <=> p.to = id
      BY <1>0, <1>2, <2>2
    <2>5. SumOver(f, T) \in Int /\ SumOver(g, U) = SumOver(f, T) + (IF m \in U THEN g[m] ELSE 0)
      <3>1. n \in Nat /\ m = n + 1 /\ g[m] \in Int
        BY <1>0, <1>6
      <3>2. (\A k \in 1..n : f[k] \in Int /\ g[k] = f[k]) /\ (\A k \in 1..n : k \in U <=> k \in T)
        BY <1>5, <2>3
      <3>3. T \subseteq 1..n /\ U \subseteq 1..m
        BY <2>3
      <3>4. Longer(f, g, n, m) /\ SameUpTo(T, U, n, m)
        BY <3>1, <3>2, <3>3 DEF Longer, SameUpTo
      <3> QED BY <3>4, SumLast
    <2> QED BY <2>1, <2>2, <2>4, <2>5, <1>3, <1>4, <1>6 DEF SentTo
  <1> QED BY <1>7, <1>8 DEF PaysFor

(* A payment moves its amount from one balance to another.                 *)
Transfer(S, f, g, a, i, j) ==
    /\ IsFiniteSet(S) /\ a \in Int /\ i \in S /\ j \in S /\ i # j
    /\ \A x \in S : f[x] \in Int
    /\ g[i] = f[i] + a /\ g[j] = f[j] - a /\ \A x \in S \ {i, j} : g[x] = f[x]

(* Such a transfer leaves the sum as it is.                                *)
LEMMA SumTransfer ==
    ASSUME NEW S, NEW f, NEW g, NEW a, NEW i, NEW j, Transfer(S, f, g, a, i, j)
    PROVE  SumOver(g, S) = SumOver(f, S)
  <1> USE DEF Transfer
  <1>1. PICK T : T = (S \ {i}) \ {j}
    OBVIOUS
  <1>2. IsFiniteSet(S \ {i}) /\ IsFiniteSet(T)
    BY <1>1, FS_RemoveElement
  <1>3. \A x \in S : f[x] \in Int /\ g[x] \in Int
    OBVIOUS
  <1>4. \A x \in T : f[x] \in Int /\ g[x] = f[x]
    BY <1>1
  <1>5. SumOver(f, T) = SumOver(g, T) /\ SumOver(f, T) \in Int
    BY <1>2, <1>4, SumSame, SumType
  <1>6. SumOver(f, S) = f[i] + SumOver(f, S \ {i}) /\ SumOver(g, S) = g[i] + SumOver(g, S \ {i})
    BY <1>3, SumTake
  <1>7. SumOver(f, S \ {i}) = f[j] + SumOver(f, T) /\ SumOver(g, S \ {i}) = g[j] + SumOver(g, T)
    <2>1. j \in S \ {i} /\ \A x \in S \ {i} : f[x] \in Int /\ g[x] \in Int
      BY <1>3
    <2> QED BY <1>1, <1>2, <2>1, SumTake
  <1> QED BY <1>3, <1>5, <1>6, <1>7

(* Values that add up to little and are nowhere far below zero are nowhere *)
(* far above it.                                                           *)
LEMMA SumBounds ==
    ASSUME NEW S, IsFiniteSet(S), NEW f, NEW x \in S, \A y \in S : f[y] \in Int /\ f[y] >= -1
    PROVE  /\ SumOver(f, S) \in Int /\ Cardinality(S) \in Nat /\ Cardinality(S) >= 1
           /\ f[x] =< SumOver(f, S) + (Cardinality(S) - 1)
           /\ Cardinality(S) = 1 => f[x] = SumOver(f, S)
  <1>1. PICK T : T = S \ {x}
    OBVIOUS
  <1>2. PICK n \in Nat : n = Cardinality(S)
    BY FS_CardinalityType
  <1>3. IsFiniteSet(T) /\ Cardinality(T) = n - 1 /\ Cardinality(T) \in Nat
    BY <1>1, <1>2, FS_RemoveElement, FS_CardinalityType
  <1>4. SumOver(f, S) = f[x] + SumOver(f, T)
    BY <1>1, SumTake
  <1>5. SumOver(f, T) \in Int
    BY <1>1, <1>3, SumType
  <1>6. PICK least : least = [y \in T |-> -1]
    OBVIOUS
  <1>7. PICK c \in Int : c = -1
    OBVIOUS
  <1>8. \A y \in T : least[y] = c /\ least[y] \in Int /\ f[y] \in Int /\ least[y] =< f[y]
    BY <1>1, <1>6, <1>7
  <1>9. SumOver(least, T) = c * Cardinality(T)
    BY <1>3, <1>8, SumConstant
  <1>10. SumOver(least, T) =< SumOver(f, T)
    BY <1>3, <1>8, SumAtMost
  <1>11. n >= 1
    BY <1>3
  <1>12. SumOver(f, T) >= -(n - 1)
    BY <1>2, <1>3, <1>5, <1>7, <1>9, <1>10
  <1>13. n = 1 => SumOver(f, T) = 0
    <2>1. n = 1 => T = {}
      BY <1>3, FS_EmptySet
    <2> QED BY <2>1, SumEmpty
  <1>14. f[x] \in Int
    OBVIOUS
  <1> QED BY <1>2, <1>4, <1>5, <1>11, <1>12, <1>13, <1>14

-----------------------------------------------------------------------------
(* A round of settlementSuggestions.                                       *)

(* What a payment leaves of the side it concerns.                          *)
Leaves(S, a, S2) ==
    /\ GoodSides(S2) /\ Len(S2) \in Nat /\ Len(S2) =< Len(S)
    /\ S[1].amount = a => Len(S2) = Len(S) - 1
    /\ \A k \in 1..Len(S2) : \E j \in 1..Len(S) :
          /\ S2[k].user = S[j].user
          /\ S2[k].amount = (IF j = 1 THEN S[1].amount - a ELSE S[j].amount)
    /\ \A j \in 1..Len(S) : j # 1 => S[j].user \in UsersOf(S2)
    /\ S[1].user \notin UsersOf(S2) => S[1].amount - a =< settlementTolerance

(* A payment leaves a side good, and shorter if it evens it out.           *)
LEMMA RestIsGood ==
    ASSUME NEW S, GoodSides(S), Len(S) >= 1, NEW a \in Int, NEW S2, S2 = Reduced(S, a)
    PROVE  Leaves(S, a, S2)
  <1>1. PICK n \in Nat : n = Len(S) /\ n >= 1
    BY DEF GoodSides
  <1>2. S \in Seq(SideRows) /\ S # << >> /\ Head(S) = S[1]
    BY <1>1 DEF GoodSides
  <1>3. \A k \in 1..n : S[k] \in SideRows /\ S[k].amount > settlementTolerance
    BY <1>1, <1>2 DEF GoodSides
  <1>4. S[1] \in SideRows /\ S[1].amount \in Int
    BY <1>1, <1>3 DEF SideRows
  <1>5. CASE S[1].amount - a =< settlementTolerance
    <2>1. S2 = Tail(S)
      BY <1>2, <1>5 DEF Reduced
    <2>2. S2 \in Seq(SideRows) /\ Len(S2) = n - 1 /\ \A k \in 1..(n - 1) : S2[k] = S[k + 1] /\ k + 1 \in 1..n
      BY <1>1, <1>2, <2>1
    <2>3. \A k \in 1..(n - 1) : S2[k].amount > settlementTolerance
      BY <1>3, <2>2
    <2>4. \A i \in 1..(n - 1), j \in 1..(n - 1) : S2[i].user = S2[j].user => i = j
      <3>1. SUFFICES ASSUME NEW i \in 1..(n - 1), NEW j \in 1..(n - 1), S[i + 1].user = S[j + 1].user
                     PROVE  i = j
        BY <2>2
      <3>2. i + 1 = j + 1
        BY <1>1, <2>2, <3>1 DEF GoodSides
      <3> QED BY <3>2
    <2>5. GoodSides(S2)
      BY <2>2, <2>3, <2>4 DEF GoodSides
    <2>6. \A k \in 1..Len(S2) : \E j \in 1..Len(S) :
             S2[k].user = S[j].user /\ S2[k].amount = (IF j = 1 THEN S[1].amount - a ELSE S[j].amount)
      <3>1. SUFFICES ASSUME NEW k \in 1..(n - 1)
                     PROVE \E j \in 1..n : S2[k].user = S[j].user
                              /\ S2[k].amount = (IF j = 1 THEN S[1].amount - a ELSE S[j].amount)
        BY <1>1, <2>2
      <3>2. k + 1 \in 1..n /\ k + 1 # 1
        OBVIOUS
      <3> QED BY <2>2, <3>2
    <2>7. \A j \in 1..n : j # 1 => S[j].user \in UsersOf(S2)
      <3>1. SUFFICES ASSUME NEW j \in 1..n, j # 1 PROVE S[j].user \in UsersOf(S2)
        OBVIOUS
      <3>2. j - 1 \in 1..(n - 1) /\ (j - 1) + 1 = j
        BY <3>1
      <3>3. S2[j - 1] = S[j]
        BY <2>2, <3>2
      <3> QED BY <2>2, <3>2, <3>3 DEF UsersOf
    <2> QED BY <1>1, <1>5, <2>2, <2>5, <2>6, <2>7 DEF Leaves
  <1>6. CASE ~ (S[1].amount - a =< settlementTolerance)
    <2>0. PICK left : left = [S[1] EXCEPT !.amount = S[1].amount - a]
      OBVIOUS
    <2>1. S2 = [S EXCEPT ![1] = left]
      BY <1>2, <1>6, <2>0 DEF Reduced
    <2>2. /\ left \in SideRows
          /\ left.user = S[1].user
          /\ left.amount = S[1].amount - a
          /\ left.amount > settlementTolerance
      BY <1>4, <1>6, <2>0 DEF SideRows, settlementTolerance
    <2>3. S2 \in Seq(SideRows) /\ Len(S2) = n /\ S2[1] = left /\ \A k \in 1..n : k # 1 => S2[k] = S[k]
      BY <1>1, <1>2, <2>1, <2>2
    <2>4. \A k \in 1..n : S2[k].user = S[k].user /\ S2[k].amount > settlementTolerance
      BY <1>3, <2>2, <2>3
    <2>5. GoodSides(S2)
      BY <1>1, <2>3, <2>4 DEF GoodSides
    <2>6. \A k \in 1..n : S2[k].amount = (IF k = 1 THEN S[1].amount - a ELSE S[k].amount)
      BY <2>2, <2>3
    <2>7. \A k \in 1..n : S[k].user \in UsersOf(S2)
      BY <2>3, <2>4 DEF UsersOf
    <2>8. a # S[1].amount
      BY <1>4, <1>6 DEF settlementTolerance
    <2> QED BY <1>1, <2>3, <2>4, <2>5, <2>6, <2>7, <2>8 DEF Leaves
  <1> QED BY <1>5, <1>6

(* Every side says what its user still owes, or is still owed, and that is *)
(* no more than at first.                                                  *)
Debtors(net, b, D) ==
    /\ GoodSides(D)
    /\ \A k \in 1..Len(D) : b[D[k].user] = -D[k].amount /\ net[D[k].user] =< b[D[k].user]

Creditors(net, b, C) ==
    /\ GoodSides(C)
    /\ \A k \in 1..Len(C) : b[C[k].user] = C[k].amount /\ net[C[k].user] >= b[C[k].user]

SameSide(x, y) == (x >= 0 /\ y >= 0) \/ (x =< 0 /\ y =< 0)

IsEven(x) == x \in -settlementTolerance..settlementTolerance

(* The others are even, and nobody has changed sides.                      *)
Balanced(net, b, D, C) ==
    /\ net \in Nets /\ b \in Nets
    /\ \A id \in People : SameSide(b[id], net[id])
    /\ \A id \in People : id \in UsersOf(D) \/ id \in UsersOf(C) \/ IsEven(b[id])

Pays(b, from, to, a) ==
    [id \in People |-> IF id = from THEN b[id] + a ELSE IF id = to THEN b[id] - a ELSE b[id]]

(* A round pays part of a debt to one it is owed to, and passes a side.    *)
LEMMA RoundSides ==
    ASSUME NEW net, NEW b, NEW D, NEW C, Debtors(net, b, D), Creditors(net, b, C), Balanced(net, b, D, C),
           Len(D) >= 1, Len(C) >= 1, NEW a, a = SmallerOf(D[1].amount, C[1].amount),
           NEW D2, D2 = Reduced(D, a), NEW C2, C2 = Reduced(C, a),
           NEW b2, b2 = Pays(b, D[1].user, C[1].user, a)
    PROVE  /\ a \in Int /\ a > settlementTolerance
           /\ D[1].user \in People /\ C[1].user \in People /\ D[1].user # C[1].user
           /\ net[D[1].user] + a =< 0 /\ net[C[1].user] - a >= 0
           /\ Debtors(net, b2, D2) /\ Creditors(net, b2, C2) /\ Balanced(net, b2, D2, C2)
           /\ Len(D2) \in Nat /\ Len(C2) \in Nat /\ Len(D2) =< Len(D) /\ Len(C2) =< Len(C)
           /\ Len(D2) + Len(C2) < Len(D) + Len(C)
  <1>1. PICK f : f = D[1].user
    OBVIOUS
  <1>2. PICK t : t = C[1].user
    OBVIOUS
  <1>3. /\ D \in Seq(SideRows) /\ C \in Seq(SideRows)
        /\ \A k \in 1..Len(D) : D[k].user \in People /\ D[k].amount \in Int /\ D[k].amount > 1
        /\ \A k \in 1..Len(C) : C[k].user \in People /\ C[k].amount \in Int /\ C[k].amount > 1
    <2>1. D \in Seq(SideRows) /\ \A k \in 1..Len(D) : D[k].amount > 1
      BY DEF Debtors, GoodSides, settlementTolerance
    <2>2. C \in Seq(SideRows) /\ \A k \in 1..Len(C) : C[k].amount > 1
      BY DEF Creditors, GoodSides, settlementTolerance
    <2>3. \A k \in 1..Len(D) : D[k] \in SideRows
      BY <2>1
    <2>4. \A k \in 1..Len(C) : C[k] \in SideRows
      BY <2>2
    <2> QED BY <2>1, <2>2, <2>3, <2>4 DEF SideRows
  <1>4. PICK d \in Int : d = D[1].amount /\ d > 1
    BY <1>3
  <1>5. PICK c \in Int : c = C[1].amount /\ c > 1
    BY <1>3
  <1>6. f \in People /\ t \in People
    BY <1>1, <1>2, <1>3
  <1>7. b[f] = -d /\ net[f] =< b[f] /\ b[t] = c /\ net[t] >= b[t]
    BY <1>1, <1>2, <1>3, <1>4, <1>5 DEF Debtors, Creditors
  <1>8. a \in Int /\ a > 1 /\ a =< d /\ a =< c /\ (a = d \/ a = c)
    BY <1>4, <1>5 DEF SmallerOf
  <1>9. f # t
    BY <1>4, <1>5, <1>7
  <1>10. \A id \in People : net[id] \in Int /\ b[id] \in Int
    BY DEF Balanced, Nets
  <1>11. /\ b2 \in Nets
         /\ b2[f] = a - d /\ b2[t] = c - a
         /\ \A id \in People : id # f /\ id # t => b2[id] = b[id]
    <2>1. b2 = [id \in People |-> IF id = f THEN b[id] + a ELSE IF id = t THEN b[id] - a ELSE b[id]]
      BY <1>1, <1>2 DEF Pays
    <2> QED BY <2>1, <1>4, <1>5, <1>6, <1>7, <1>8, <1>9, <1>10 DEF Nets
  <1>12. net[f] + a =< 0 /\ net[t] - a >= 0
    BY <1>4, <1>5, <1>6, <1>7, <1>8, <1>10
  <1>13. /\ GoodSides(D2) /\ Len(D2) \in Nat /\ Len(D2) =< Len(D)
         /\ a = d => Len(D2) = Len(D) - 1
         /\ \A k \in 1..Len(D2) : \E j \in 1..Len(D) :
               /\ D2[k].user = D[j].user
               /\ D2[k].amount = (IF j = 1 THEN d - a ELSE D[j].amount)
         /\ \A j \in 1..Len(D) : j # 1 => D[j].user \in UsersOf(D2)
         /\ f \notin UsersOf(D2) => d - a =< 1
    <2>1. GoodSides(D)
      BY DEF Debtors
    <2>2. Leaves(D, a, D2)
      BY <1>8, <2>1, RestIsGood
    <2> QED BY <1>1, <1>4, <2>2 DEF Leaves, settlementTolerance
  <1>14. /\ GoodSides(C2) /\ Len(C2) \in Nat /\ Len(C2) =< Len(C)
         /\ a = c => Len(C2) = Len(C) - 1
         /\ \A k \in 1..Len(C2) : \E j \in 1..Len(C) :
               /\ C2[k].user = C[j].user
               /\ C2[k].amount = (IF j = 1 THEN c - a ELSE C[j].amount)
         /\ \A j \in 1..Len(C) : j # 1 => C[j].user \in UsersOf(C2)
         /\ t \notin UsersOf(C2) => c - a =< 1
    <2>1. GoodSides(C)
      BY DEF Creditors
    <2>2. Leaves(C, a, C2)
      BY <1>8, <2>1, RestIsGood
    <2> QED BY <1>2, <1>5, <2>2 DEF Leaves, settlementTolerance
  <1>15. \A j \in 1..Len(D) : D[j].user # t /\ (j # 1 => D[j].user # f)
    <2>1. \A j \in 1..Len(D) : b[D[j].user] < 0
      BY <1>3 DEF Debtors
    <2>2. \A j \in 1..Len(D) : D[j].user = D[1].user => j = 1
      BY <1>3 DEF Debtors, GoodSides
    <2> QED BY <2>1, <2>2, <1>1, <1>5, <1>7
  <1>16. \A j \in 1..Len(C) : C[j].user # f /\ (j # 1 => C[j].user # t)
    <2>1. \A j \in 1..Len(C) : b[C[j].user] > 0
      BY <1>3 DEF Creditors
    <2>2. \A j \in 1..Len(C) : C[j].user = C[1].user => j = 1
      BY <1>3 DEF Creditors, GoodSides
    <2> QED BY <2>1, <2>2, <1>2, <1>4, <1>7
  <1>17. Debtors(net, b2, D2)
    <2>1. SUFFICES ASSUME NEW k \in 1..Len(D2)
                   PROVE  b2[D2[k].user] = -D2[k].amount /\ net[D2[k].user] =< b2[D2[k].user]
      BY <1>13 DEF Debtors
    <2>2. PICK j \in 1..Len(D) : /\ D2[k].user = D[j].user
                                 /\ D2[k].amount = (IF j = 1 THEN d - a ELSE D[j].amount)
      BY <1>13
    <2>3. CASE j = 1
      <3>1. D2[k].user = f /\ D2[k].amount = d - a
        BY <2>2, <2>3, <1>1
      <3>2. b2[f] = a - d /\ net[f] \in Int /\ net[f] =< -d
        BY <1>6, <1>7, <1>10, <1>11
      <3>3. b2[f] = -(d - a) /\ net[f] =< b2[f]
        BY <3>2, <1>4, <1>8
      <3> QED BY <3>1, <3>3
    <2>4. CASE j # 1
      <3>1. D[j].user # f /\ D[j].user # t /\ D[j].user \in People
        BY <2>4, <1>15, <1>3
      <3>2. b[D[j].user] = -D[j].amount /\ net[D[j].user] =< b[D[j].user]
        BY DEF Debtors
      <3> QED BY <2>2, <2>4, <3>1, <3>2, <1>11
    <2> QED BY <2>3, <2>4
  <1>18. Creditors(net, b2, C2)
    <2>1. SUFFICES ASSUME NEW k \in 1..Len(C2)
                   PROVE  b2[C2[k].user] = C2[k].amount /\ net[C2[k].user] >= b2[C2[k].user]
      BY <1>14 DEF Creditors
    <2>2. PICK j \in 1..Len(C) : /\ C2[k].user = C[j].user
                                 /\ C2[k].amount = (IF j = 1 THEN c - a ELSE C[j].amount)
      BY <1>14
    <2>3. CASE j = 1
      <3>1. C2[k].user = t /\ C2[k].amount = c - a
        BY <2>2, <2>3, <1>2
      <3>2. b2[t] = c - a /\ net[t] \in Int /\ net[t] >= c
        BY <1>6, <1>7, <1>10, <1>11
      <3>3. net[t] >= b2[t]
        BY <3>2, <1>5, <1>8
      <3> QED BY <3>1, <3>2, <3>3
    <2>4. CASE j # 1
      <3>1. C[j].user # f /\ C[j].user # t /\ C[j].user \in People
        BY <2>4, <1>16, <1>3
      <3>2. b[C[j].user] = C[j].amount /\ net[C[j].user] >= b[C[j].user]
        BY DEF Creditors
      <3> QED BY <2>2, <2>4, <3>1, <3>2, <1>11
    <2> QED BY <2>3, <2>4
  <1>19. Balanced(net, b2, D2, C2)
    <2>1. SUFFICES ASSUME NEW id \in People
                   PROVE  /\ SameSide(b2[id], net[id])
                          /\ id \in UsersOf(D2) \/ id \in UsersOf(C2) \/ IsEven(b2[id])
      BY <1>11 DEF Balanced
    <2>2. CASE id = f
      <3>1. SameSide(b2[id], net[id])
        BY <2>2, <1>4, <1>6, <1>7, <1>8, <1>10, <1>11 DEF SameSide
      <3>2. f \notin UsersOf(D2) => IsEven(b2[f])
        <4>1. f \notin UsersOf(D2) => d - a =< 1
          BY <1>13
        <4>2. b2[f] = a - d
          BY <1>11
        <4> QED BY <4>1, <4>2, <1>4, <1>8 DEF IsEven, settlementTolerance
      <3> QED BY <2>2, <3>1, <3>2
    <2>3. CASE id = t
      <3>1. SameSide(b2[id], net[id])
        BY <2>3, <1>5, <1>6, <1>7, <1>8, <1>10, <1>11 DEF SameSide
      <3>2. t \notin UsersOf(C2) => IsEven(b2[t])
        <4>1. t \notin UsersOf(C2) => c - a =< 1
          BY <1>14
        <4>2. b2[t] = c - a
          BY <1>11
        <4> QED BY <4>1, <4>2, <1>5, <1>8 DEF IsEven, settlementTolerance
      <3> QED BY <2>3, <3>1, <3>2
    <2>4. CASE id # f /\ id # t
      <3>1. b2[id] = b[id]
        BY <2>4, <1>11
      <3>2. SameSide(b2[id], net[id])
        BY <3>1 DEF Balanced
      <3>3. id \in UsersOf(D) => id \in UsersOf(D2)
        BY <2>4, <1>1, <1>13 DEF UsersOf
      <3>4. id \in UsersOf(C) => id \in UsersOf(C2)
        BY <2>4, <1>2, <1>14 DEF UsersOf
      <3> QED BY <3>1, <3>2, <3>3, <3>4 DEF Balanced
    <2> QED BY <2>2, <2>3, <2>4
  <1>20. Len(D2) + Len(C2) < Len(D) + Len(C)
    <2>1. Len(D) \in Nat /\ Len(C) \in Nat
      BY <1>3
    <2>2. CASE a = d
      BY <2>1, <2>2, <1>13, <1>14
    <2>3. CASE a = c
      BY <2>1, <2>3, <1>13, <1>14
    <2> QED BY <2>2, <2>3, <1>8
  <1> QED
    BY <1>1, <1>2, <1>6, <1>8, <1>9, <1>12, <1>13, <1>14, <1>17, <1>18, <1>19, <1>20 DEF settlementTolerance

(* A payment of a debt to whom something is owed, and no more of it.       *)
ReducesDebt(net, p) ==
    /\ p \in Payments /\ p.from # p.to /\ p.amount > 0
    /\ net[p.from] + p.amount =< 0 /\ net[p.to] - p.amount >= 0

RoundOk(net, sides, D, C, out) ==
    /\ out \in Seq(Payments) /\ \A k \in 1..Len(out) : ReducesDebt(net, out[k])
    /\ Debtors(net, AfterPaid(net, out), D)
    /\ Creditors(net, AfterPaid(net, out), C)
    /\ Balanced(net, AfterPaid(net, out), D, C)
    /\ SumOver(AfterPaid(net, out), People) = SumOver(net, People)
    /\ Len(out) + Len(D) + Len(C) =< sides
    /\ Len(out) >= 1 => Len(out) < sides

ByOneMore(net, out, p, more) ==
    AfterPaid(net, more) = Pays(AfterPaid(net, out), p.from, p.to, p.amount)

(* Paying one more is paying after having paid the others.                 *)
LEMMA AfterPayment ==
    ASSUME NEW net \in Nets, NEW out, NEW p, NEW more, OneMore(out, p, more), ReducesDebt(net, p)
    PROVE  ByOneMore(net, out, p, more)
  <1> DEFINE b == AfterPaid(net, out)
  <1>1. \A id \in People : AfterPaid(net, more)[id] = Pays(b, p.from, p.to, p.amount)[id]
    <2>1. SUFFICES ASSUME NEW id \in People
                   PROVE  AfterPaid(net, more)[id] = Pays(b, p.from, p.to, p.amount)[id]
      OBVIOUS
    <2>0. /\ SentBy(out, id) \in Int /\ SentTo(out, id) \in Int
          /\ SentBy(more, id) = SentBy(out, id) + (IF p.from = id THEN p.amount ELSE 0)
          /\ SentTo(more, id) = SentTo(out, id) + (IF p.to = id THEN p.amount ELSE 0)
      <3>2. PaysFor(out, p, more, id)
        BY PaidAppend, Zenon
      <3> QED BY <3>2 DEF PaysFor
    <2>2. PICK by \in Int : by = SentBy(out, id)
      BY <2>0
    <2>3. PICK to \in Int : to = SentTo(out, id)
      BY <2>0
    <2>4. /\ SentBy(more, id) = by + (IF p.from = id THEN p.amount ELSE 0)
          /\ SentTo(more, id) = to + (IF p.to = id THEN p.amount ELSE 0)
      BY <2>0, <2>2, <2>3, Zenon
    <2>5. PICK n \in Int : n = net[id]
      BY DEF Nets
    <2>6. b[id] = n + by - to
      BY <2>2, <2>3, <2>5 DEF AfterPaid
    <2>7. AfterPaid(net, more)[id] = n + SentBy(more, id) - SentTo(more, id)
      BY <2>5 DEF AfterPaid
    <2>8. p.amount \in Int
      BY DEF OneMore, Payments
    <2>9. Pays(b, p.from, p.to, p.amount)[id] =
             IF id = p.from THEN b[id] + p.amount ELSE IF id = p.to THEN b[id] - p.amount ELSE b[id]
      BY DEF Pays
    <2>10. p.from # p.to
      BY DEF ReducesDebt
    <2> QED BY <2>4, <2>6, <2>7, <2>8, <2>9, <2>10
  <1>2. AfterPaid(net, more) = [id \in People |-> AfterPaid(net, more)[id]]
    BY DEF AfterPaid
  <1>3. Pays(b, p.from, p.to, p.amount) = [id \in People |-> Pays(b, p.from, p.to, p.amount)[id]]
    BY DEF Pays
  <1> QED BY <1>1, <1>2, <1>3 DEF ByOneMore

(* No payment changes nothing.                                             *)
LEMMA NothingPaid ==
    ASSUME NEW net \in Nets
    PROVE  AfterPaid(net, << >>) = net
  <1>1. \A id : SentBy(<< >>, id) = 0 /\ SentTo(<< >>, id) = 0
    BY SumEmpty DEF SentBy, SentTo
  <1>2. \A id \in People : net[id] \in Int
    BY DEF Nets
  <1>3. net = [id \in People |-> net[id]]
    BY DEF Nets
  <1>4. \A id \in People : net[id] + SentBy(<< >>, id) - SentTo(<< >>, id) = net[id]
    BY <1>1, <1>2
  <1> QED BY <1>3, <1>4 DEF AfterPaid

PaidRound(D, C, out, a, p, D2, C2, more) ==
    /\ D # << >> /\ C # << >> /\ a = SmallerOf(D[1].amount, C[1].amount)
    /\ p = [from |-> D[1].user, to |-> C[1].user, amount |-> a]
    /\ D2 = Reduced(D, a) /\ C2 = Reduced(C, a) /\ more = Append(out, p)

RoundKept(net, sides, D, C, a, D2, C2, more) ==
    /\ a > settlementTolerance
    /\ RoundOk(net, sides, D2, C2, more)
    /\ Len(D2) + Len(C2) < Len(D) + Len(C)

(* A round keeps what holds of rounds, and shortens the sides.             *)
LEMMA SettleKeeps ==
    ASSUME ExpenseAssumption, NEW net, NEW sides \in Nat, NEW D, NEW C, NEW out,
           RoundOk(net, sides, D, C, out), NEW a, NEW p, NEW D2, NEW C2, NEW more,
           PaidRound(D, C, out, a, p, D2, C2, more)
    PROVE  RoundKept(net, sides, D, C, a, D2, C2, more)
  <1> USE DEF PaidRound
  <1>1. PICK b : b = AfterPaid(net, out)
    OBVIOUS
  <1>2. Debtors(net, b, D) /\ Creditors(net, b, C) /\ Balanced(net, b, D, C)
    BY <1>1 DEF RoundOk
  <1>3. Len(D) \in Nat /\ Len(C) \in Nat /\ Len(D) >= 1 /\ Len(C) >= 1
    BY <1>2 DEF Debtors, Creditors, GoodSides
  <1>4. PICK b2 : b2 = Pays(b, D[1].user, C[1].user, a)
    OBVIOUS
  <1>5. /\ a \in Int /\ a > settlementTolerance
        /\ D[1].user \in People /\ C[1].user \in People /\ D[1].user # C[1].user
        /\ net[D[1].user] + a =< 0 /\ net[C[1].user] - a >= 0
        /\ Debtors(net, b2, D2) /\ Creditors(net, b2, C2) /\ Balanced(net, b2, D2, C2)
        /\ Len(D2) \in Nat /\ Len(C2) \in Nat /\ Len(D2) =< Len(D) /\ Len(C2) =< Len(C)
        /\ Len(D2) + Len(C2) < Len(D) + Len(C)
    BY <1>2, <1>3, <1>4, RoundSides
  <1>6. p \in Payments /\ ReducesDebt(net, p)
    BY <1>5 DEF Payments, ReducesDebt, settlementTolerance
  <1>7. out \in Seq(Payments) /\ net \in Nets /\ b \in Nets
    BY <1>2 DEF RoundOk, Balanced
  <1>8. AfterPaid(net, more) = b2
    <2>1. p.from = D[1].user /\ p.to = C[1].user /\ p.amount = a
      OBVIOUS
    <2>2. p \in Payments /\ p.from # p.to
      BY <1>5, <1>6, <2>1
    <2>3. AfterPaid(net, more) = Pays(b, p.from, p.to, p.amount)
      <3>1. OneMore(out, p, more)
        BY <1>7, <2>2 DEF OneMore
      <3>2. ByOneMore(net, out, p, more)
        BY <1>6, <1>7, <3>1, AfterPayment, Zenon
      <3> QED BY <1>1, <3>2 DEF ByOneMore
    <2> QED BY <1>4, <2>1, <2>3, Zenon
  <1>9. more \in Seq(Payments) /\ Len(more) = Len(out) + 1 /\ Len(out) \in Nat
        /\ \A k \in 1..Len(more) : ReducesDebt(net, more[k])
    <2>1. \A k \in 1..Len(out) : ReducesDebt(net, out[k])
      BY DEF RoundOk
    <2> HIDE DEF RoundOk
    <2> QED BY <2>1, <1>6, <1>7
  <1>10. SumOver(b2, People) = SumOver(net, People)
    <2>1. PICK f \in People : f = D[1].user
      BY <1>5
    <2>2. PICK t \in People : t = C[1].user
      BY <1>5
    <2>3. \A id \in People : b[id] \in Int
      BY <1>7 DEF Nets
    <2>4. f # t /\ b2[f] = b[f] + a /\ b2[t] = b[t] - a
      BY <1>4, <1>5, <2>1, <2>2 DEF Pays
    <2>5. \A id \in People \ {f, t} : b2[id] = b[id]
      BY <1>4, <2>1, <2>2 DEF Pays
    <2>6. IsFiniteSet(People) /\ a \in Int
      BY <1>5 DEF ExpenseAssumption
    <2>7. SumOver(b2, People) = SumOver(b, People)
      <3>1. Transfer(People, b, b2, a, f, t)
        BY <2>3, <2>4, <2>5, <2>6 DEF Transfer
      <3> QED BY <3>1, SumTransfer, Zenon
    <2> QED BY <2>7, <1>1 DEF RoundOk
  <1>11. Len(more) + Len(D2) + Len(C2) =< sides /\ Len(more) < sides
    <2>1. Len(out) + Len(D) + Len(C) =< sides
      BY DEF RoundOk
    <2> QED BY <2>1, <1>3, <1>5, <1>9
  <1> QED BY <1>5, <1>8, <1>9, <1>10, <1>11 DEF RoundOk, RoundKept

TwoSides(net, owes, owed, D, C) ==
    /\ net \in Nets /\ IsSideOf(D, owes) /\ IsSideOf(C, owed)
    /\ \A id \in People : owes[id] = -net[id] /\ owed[id] = net[id]

StartOk(net, sides, D, C) ==
    /\ sides \in Nat /\ sides =< Cardinality(People)
    /\ RoundOk(net, sides, D, C, << >>)

(* Before the first round, the sides tell what everyone owes.              *)
LEMMA StartIsOk ==
    ASSUME ExpenseAssumption, NEW net, NEW owes, NEW owed, NEW D, NEW C, TwoSides(net, owes, owed, D, C),
           NEW sides, sides = Len(D) + Len(C)
    PROVE  StartOk(net, sides, D, C)
  <1>3. \A id \in People : net[id] \in Int /\ owes[id] = -net[id] /\ owed[id] = net[id]
    BY DEF TwoSides, Nets
  <1>4. /\ GoodSides(D) /\ UsersOf(D) = {id \in People : owes[id] > settlementTolerance}
        /\ \A k \in 1..Len(D) : D[k].amount = owes[D[k].user]
        /\ Len(D) = Cardinality(UsersOf(D))
    BY DEF TwoSides, IsSideOf
  <1>5. /\ GoodSides(C) /\ UsersOf(C) = {id \in People : owed[id] > settlementTolerance}
        /\ \A k \in 1..Len(C) : C[k].amount = owed[C[k].user]
        /\ Len(C) = Cardinality(UsersOf(C))
    BY DEF TwoSides, IsSideOf
  <1>6. \A k \in 1..Len(D) : D[k].user \in People
    BY <1>4 DEF UsersOf
  <1>7. \A k \in 1..Len(C) : C[k].user \in People
    BY <1>5 DEF UsersOf
  <1>8. Debtors(net, net, D)
    <2>1. ASSUME NEW k \in 1..Len(D)
          PROVE  net[D[k].user] = -D[k].amount /\ net[D[k].user] =< net[D[k].user]
      <3>1. PICK u \in People : u = D[k].user
        BY <1>6
      <3>2. PICK x \in Int : x = net[u]
        BY <1>3
      <3>3. D[k].amount = -x
        BY <1>3, <1>4, <3>1, <3>2
      <3> QED BY <3>1, <3>2, <3>3
    <2> QED BY <2>1, <1>4 DEF Debtors
  <1>9. Creditors(net, net, C)
    <2>1. ASSUME NEW k \in 1..Len(C)
          PROVE  net[C[k].user] = C[k].amount /\ net[C[k].user] >= net[C[k].user]
      <3>1. PICK u \in People : u = C[k].user
        BY <1>7
      <3>2. PICK x \in Int : x = net[u]
        BY <1>3
      <3>3. C[k].amount = x
        BY <1>3, <1>5, <3>1, <3>2
      <3> QED BY <3>1, <3>2, <3>3
    <2> QED BY <2>1, <1>5 DEF Creditors
  <1>10. Balanced(net, net, D, C)
    <2>1. ASSUME NEW id \in People
          PROVE  /\ SameSide(net[id], net[id])
                 /\ id \in UsersOf(D) \/ id \in UsersOf(C) \/ IsEven(net[id])
      <3>1. PICK x \in Int : x = net[id]
        BY <1>3
      <3>2. owes[id] = -x /\ owed[id] = x
        BY <1>3, <3>1
      <3>3. id \notin UsersOf(D) => -x =< 1
        BY <1>4, <3>2 DEF settlementTolerance
      <3>4. id \notin UsersOf(C) => x =< 1
        BY <1>5, <3>2 DEF settlementTolerance
      <3>5. SameSide(x, x)
        BY <3>1 DEF SameSide
      <3>6. -x =< 1 /\ x =< 1 => IsEven(x)
        BY <3>1 DEF IsEven, settlementTolerance
      <3> QED BY <3>1, <3>3, <3>4, <3>5, <3>6
    <2> QED BY <2>1 DEF Balanced, TwoSides
  <1>11. sides \in Nat /\ sides =< Cardinality(People)
    <2>1. PICK A : A = UsersOf(D)
      OBVIOUS
    <2>2. PICK B : B = UsersOf(C)
      OBVIOUS
    <2>3. A \subseteq People /\ B \subseteq People /\ A \cap B = {}
      <3>1. A \subseteq People /\ B \subseteq People
        BY <1>4, <1>5, <2>1, <2>2
      <3>2. ASSUME NEW id \in People, id \in A, id \in B PROVE FALSE
        <4>1. PICK x \in Int : x = net[id]
          BY <1>3
        <4>2. owes[id] = -x /\ owed[id] = x
          BY <1>3, <4>1
        <4>3. -x > 1
          BY <1>4, <2>1, <3>2, <4>2 DEF settlementTolerance
        <4>4. x > 1
          BY <1>5, <2>2, <3>2, <4>2 DEF settlementTolerance
        <4> QED BY <4>3, <4>4
      <3> QED BY <3>1, <3>2
    <2>4. IsFiniteSet(People)
      BY DEF ExpenseAssumption
    <2>5. IsFiniteSet(A) /\ IsFiniteSet(B) /\ A \cup B \subseteq People
      BY <2>3, <2>4, FS_Subset
    <2>6. Cardinality(A \cup B) = Cardinality(A) + Cardinality(B) - 0
      BY <2>3, <2>5, FS_Union, FS_EmptySet
    <2>7. Cardinality(A) \in Nat /\ Cardinality(B) \in Nat
      BY <2>5, FS_CardinalityType
    <2>8. Cardinality(A \cup B) =< Cardinality(People)
      BY <2>4, <2>5, FS_Subset
    <2>9. sides = Cardinality(A) + Cardinality(B)
      BY <1>4, <1>5, <2>1, <2>2
    <2>10. PICK m \in Nat : m = Cardinality(People)
      BY <2>4, FS_CardinalityType
    <2> QED BY <2>6, <2>7, <2>8, <2>9, <2>10
  <1>12. AfterPaid(net, << >>) = net
    BY NothingPaid DEF TwoSides
  <1>13. << >> \in Seq(Payments) /\ Len(<< >>) = 0
    OBVIOUS
  <1>14. Len(<< >>) + Len(D) + Len(C) =< sides
    <2>1. Len(D) \in Nat /\ Len(C) \in Nat
      BY <1>4, <1>5 DEF GoodSides
    <2> QED BY <2>1, <1>13
  <1>15. RoundOk(net, sides, D, C, << >>)
    BY <1>8, <1>9, <1>10, <1>12, <1>13, <1>14 DEF RoundOk
  <1> QED BY <1>11, <1>15 DEF StartOk

(* The rounds of a settlement, and what they keep.                         *)
Follows(rounds, start, m) ==
    rounds = [n \in 0..m |-> IF n = 0 THEN start ELSE Settle(rounds[n - 1])]

(* The loop has its rounds: the recursive function is defined.             *)
LEMMA RoundsExist ==
    ASSUME NEW start, NEW last \in Nat
    PROVE  \E rounds : Follows(rounds, start, last)
  <1> DEFINE Z == {m \in Nat : \E rounds : Follows(rounds, start, m)}
  <1>1. 0 \in Z
    <2>1. PICK r : r = [n \in 0..0 |-> start]
      OBVIOUS
    <2>2. r = [n \in 0..0 |-> IF n = 0 THEN start ELSE Settle(r[n - 1])]
      BY <2>1
    <2> QED BY <2>2 DEF Follows
  <1>2. ASSUME NEW m \in Z PROVE m + 1 \in Z
    <2>1. PICK f : Follows(f, start, m)
      OBVIOUS
    <2>2. PICK g : g = [n \in 0..(m + 1) |-> IF n = m + 1 THEN Settle(f[m]) ELSE f[n]]
      OBVIOUS
    <2>3. \A n \in 0..(m + 1) : g[n] = IF n = 0 THEN start ELSE Settle(g[n - 1])
      <3>1. SUFFICES ASSUME NEW n \in 0..(m + 1) PROVE g[n] = IF n = 0 THEN start ELSE Settle(g[n - 1])
        OBVIOUS
      <3>2. CASE n = m + 1
        BY <2>2, <3>2
      <3>3. CASE n # m + 1
        <4>1. n \in 0..m
          BY <3>3
        <4>2. f[n] = IF n = 0 THEN start ELSE Settle(f[n - 1])
          BY <2>1, <4>1 DEF Follows
        <4>3. n # 0 => g[n - 1] = f[n - 1]
          BY <2>2, <4>1
        <4> QED BY <2>2, <3>3, <4>2, <4>3
      <3> QED BY <3>2, <3>3
    <2>4. g = [n \in 0..(m + 1) |-> g[n]]
      BY <2>2
    <2>5. Follows(g, start, m + 1)
      BY <2>3, <2>4 DEF Follows
    <2> QED BY <2>5
  <1>3. Z \in SUBSET Nat
    OBVIOUS
  <1> HIDE DEF Z
  <1>4. Z = Nat
    BY <1>1, <1>2, <1>3, NatInduct
  <1>5. last \in Z
    BY <1>4
  <1> QED BY <1>5 DEF Z

RoundAt(net, sides, n, round) ==
    /\ RoundOk(net, sides, round.debtors, round.creditors, round.out)
    /\ \/ round.debtors = << >> \/ round.creditors = << >>
       \/ Len(round.debtors) + Len(round.creditors) + n =< sides

(* Every round, even one that finds an empty side, keeps it.               *)
LEMMA SettleRound ==
    ASSUME ExpenseAssumption, NEW net, NEW sides \in Nat, NEW n \in Nat, NEW round, RoundAt(net, sides, n, round)
    PROVE  RoundAt(net, sides, n + 1, Settle(round))
  <1>1. PICK D : D = round.debtors
    OBVIOUS
  <1>2. PICK C : C = round.creditors
    OBVIOUS
  <1>3. PICK out : out = round.out
    OBVIOUS
  <1>4. RoundOk(net, sides, D, C, out)
    BY <1>1, <1>2, <1>3 DEF RoundAt
  <1>5. CASE D = << >> \/ C = << >>
    BY <1>1, <1>2, <1>5 DEF Settle, RoundAt
  <1>6. CASE D # << >> /\ C # << >>
    <2>1. Head(D) = D[1] /\ Head(C) = C[1]
      <3>1. D \in Seq(SideRows) /\ C \in Seq(SideRows)
        BY <1>4 DEF RoundOk, Debtors, Creditors, GoodSides
      <3> QED BY <3>1, <1>6
    <2>2. PICK a : a = SmallerOf(D[1].amount, C[1].amount)
      OBVIOUS
    <2>3. PICK p : p = [from |-> D[1].user, to |-> C[1].user, amount |-> a]
      OBVIOUS
    <2>4. PICK D2 : D2 = Reduced(D, a)
      OBVIOUS
    <2>5. PICK C2 : C2 = Reduced(C, a)
      OBVIOUS
    <2>6. PICK more : more = Append(out, p)
      OBVIOUS
    <2>7. /\ a > settlementTolerance /\ RoundOk(net, sides, D2, C2, more)
          /\ Len(D2) + Len(C2) < Len(D) + Len(C)
      <3>1. PaidRound(D, C, out, a, p, D2, C2, more)
        BY <1>6, <2>2, <2>3, <2>4, <2>5, <2>6 DEF PaidRound
      <3>2. RoundKept(net, sides, D, C, a, D2, C2, more)
        BY <1>4, <3>1, SettleKeeps, Zenon
      <3> QED BY <3>2 DEF RoundKept
    <2>8. Settle(round) = [debtors |-> D2, creditors |-> C2, out |-> more]
      BY <1>1, <1>2, <1>3, <1>6, <2>1, <2>2, <2>3, <2>4, <2>5, <2>6, <2>7 DEF Settle
    <2>9. Len(D) + Len(C) + n =< sides
      BY <1>1, <1>2, <1>6 DEF RoundAt
    <2>10. Len(D) \in Nat /\ Len(C) \in Nat /\ Len(D2) \in Nat /\ Len(C2) \in Nat
      BY <1>4, <2>7 DEF RoundOk, Debtors, Creditors, GoodSides
    <2>11. Len(D2) + Len(C2) + (n + 1) =< sides
      BY <2>7, <2>9, <2>10
    <2> QED BY <2>7, <2>8, <2>11 DEF RoundAt
  <1> QED BY <1>5, <1>6

(* So it holds after the last round ...                                    *)
LEMMA LastRound ==
    ASSUME ExpenseAssumption, NEW net, NEW last \in Nat, NEW start, RoundAt(net, last, 0, start),
           NEW rounds, Follows(rounds, start, last)
    PROVE  RoundAt(net, last, last, rounds[last])
  <1>1. \A n \in 0..last : rounds[n] = IF n = 0 THEN start ELSE Settle(rounds[n - 1])
    BY DEF Follows
  <1> DEFINE Z == {n \in Nat : n \in 0..last => RoundAt(net, last, n, rounds[n])}
  <1>2. 0 \in Z
    BY <1>1
  <1>3. ASSUME NEW n \in Z PROVE n + 1 \in Z
    <2>1. SUFFICES ASSUME n + 1 \in 0..last PROVE RoundAt(net, last, n + 1, rounds[n + 1])
      OBVIOUS
    <2>2. n \in Nat /\ RoundAt(net, last, n, rounds[n])
      BY <2>1
    <2>3. n + 1 # 0 /\ (n + 1) - 1 = n
      BY <2>2
    <2>4. rounds[n + 1] = Settle(rounds[n])
      BY <1>1, <2>1, <2>3
    <2>5. RoundAt(net, last, n + 1, Settle(rounds[n]))
      BY <2>2, SettleRound
    <2> QED BY <2>4, <2>5
  <1>4. Z \in SUBSET Nat
    OBVIOUS
  <1> HIDE DEF Z
  <1>5. Z = Nat
    BY <1>2, <1>3, <1>4, NatInduct
  <1>6. last \in Z
    BY <1>5
  <1> QED BY <1>6 DEF Z

(* ... when a side is empty: the suggestions even out the other.           *)
LEMMA SuggestionsAreRounds ==
    ASSUME ExpenseAssumption, NEW net \in Nets
    PROVE  \E sides, D, C :
              /\ sides \in Nat /\ sides =< Cardinality(People) /\ (D = << >> \/ C = << >>)
              /\ RoundOk(net, sides, D, C, settlementSuggestions(net))
  <1>1. PICK D0 : D0 = Sides(net, TRUE)
    OBVIOUS
  <1>2. PICK C0 : C0 = Sides(net, FALSE)
    OBVIOUS
  <1>3. PICK last : last = Len(D0) + Len(C0)
    OBVIOUS
  <1>4. last \in Nat /\ last =< Cardinality(People) /\ RoundOk(net, last, D0, C0, << >>)
    <2>1. PICK owes : owes = Owed(net, TRUE)
      OBVIOUS
    <2>2. PICK owed : owed = Owed(net, FALSE)
      OBVIOUS
    <2>3. IsSideOf(D0, owes)
      BY <1>1, <2>1, SidesAreGood
    <2>4. IsSideOf(C0, owed)
      BY <1>2, <2>2, SidesAreGood
    <2>5. \A id \in People : owes[id] = -net[id] /\ owed[id] = net[id]
      BY <2>1, <2>2 DEF Owed
    <2>6. TwoSides(net, owes, owed, D0, C0)
      BY <2>3, <2>4, <2>5 DEF TwoSides
    <2>7. StartOk(net, last, D0, C0)
      BY <1>3, <2>6, StartIsOk
    <2> QED BY <2>7 DEF StartOk
  <1>5. PICK start : start = [debtors |-> D0, creditors |-> C0, out |-> << >>]
    OBVIOUS
  <1> DEFINE rounds == CHOOSE rounds : Follows(rounds, start, last)
  <1>6. Follows(rounds, start, last)
    BY <1>4, RoundsExist
  <1>7. settlementSuggestions(net) = rounds[last].out
    BY <1>1, <1>2, <1>3, <1>5 DEF settlementSuggestions, Follows
  <1> HIDE DEF rounds
  <1>8. RoundAt(net, last, 0, start)
    <2>1. Len(D0) + Len(C0) + 0 =< last
      BY <1>3, <1>4
    <2> QED BY <1>4, <1>5, <2>1 DEF RoundAt
  <1>9. RoundAt(net, last, last, rounds[last])
    BY <1>4, <1>6, <1>8, LastRound
  <1>10. PICK r : r = rounds[last]
    OBVIOUS
  <1>11. PICK D : D = r.debtors
    OBVIOUS
  <1>12. PICK C : C = r.creditors
    OBVIOUS
  <1>13. RoundOk(net, last, D, C, settlementSuggestions(net))
    BY <1>7, <1>9, <1>10, <1>11, <1>12 DEF RoundAt
  <1>14. D = << >> \/ C = << >>
    <2>1. SUFFICES ASSUME Len(D) + Len(C) + last =< last PROVE D = << >>
      BY <1>9, <1>10, <1>11, <1>12 DEF RoundAt
    <2>2. D \in Seq(SideRows) /\ C \in Seq(SideRows)
      BY <1>13 DEF RoundOk, Debtors, Creditors, GoodSides
    <2>3. Len(D) = 0
      BY <2>1, <2>2, <1>4
    <2> QED BY <2>2, <2>3
  <1> QED BY <1>4, <1>13, <1>14

-----------------------------------------------------------------------------
(* What the suggestions do.                                                *)

(* No value is far from zero: the sum, and a tolerance per other element.  *)
Near(b, S) ==
    \A x \in S : Magnitude(b[x]) =< Magnitude(SumOver(b, S)) + settlementTolerance * (Cardinality(S) - 1)

(* If nobody owes much, nobody is owed much more than the sum.             *)
LEMMA NearlyEven ==
    ASSUME NEW S, IsFiniteSet(S), NEW b, \A y \in S : b[y] \in Int /\ b[y] >= -1
    PROVE  Near(b, S)
  <1>1. SUFFICES ASSUME NEW x \in S
                 PROVE  Magnitude(b[x]) =< Magnitude(SumOver(b, S)) + settlementTolerance * (Cardinality(S) - 1)
    BY DEF Near
  <1>2. /\ SumOver(b, S) \in Int /\ Cardinality(S) \in Nat /\ Cardinality(S) >= 1
        /\ b[x] =< SumOver(b, S) + (Cardinality(S) - 1)
        /\ Cardinality(S) = 1 => b[x] = SumOver(b, S)
    BY SumBounds
  <1>3. PICK n \in Nat : n = Cardinality(S)
    BY <1>2
  <1>4. PICK t \in Int : t = SumOver(b, S)
    BY <1>2
  <1>5. PICK v \in Int : v = b[x] /\ v >= -1
    OBVIOUS
  <1>6. n >= 1 /\ v =< t + (n - 1) /\ (n = 1 => v = t)
    BY <1>2, <1>3, <1>4, <1>5
  <1>7. Magnitude(v) =< Magnitude(t) + settlementTolerance * (n - 1)
    BY <1>5, <1>6 DEF Magnitude, settlementTolerance
  <1> QED BY <1>3, <1>4, <1>5, <1>7

(* If nobody is owed much, nobody owes much more than the sum.             *)
LEMMA NearlyEvenBelow ==
    ASSUME NEW S, IsFiniteSet(S), NEW b, \A y \in S : b[y] \in Int /\ b[y] =< 1
    PROVE  Near(b, S)
  <1>1. PICK opposite : opposite = [y \in S |-> -b[y]]
    OBVIOUS
  <1>2. \A y \in S : opposite[y] = -b[y] /\ opposite[y] \in Int /\ opposite[y] >= -1
    BY <1>1
  <1>3. Near(opposite, S)
    BY <1>2, NearlyEven
  <1>4. SumOver(b, S) \in Int
    BY SumType
  <1>5. SumOver(opposite, S) = -SumOver(b, S)
    <2>1. PICK c \in Int : c = -1
      OBVIOUS
    <2>2. \A y \in S : b[y] \in Int /\ opposite[y] = c * b[y]
      BY <1>2, <2>1
    <2>3. SumOver(opposite, S) = c * SumOver(b, S)
      BY <2>2, SumScale
    <2> QED BY <1>4, <2>1, <2>3
  <1>6. \A y \in S : Magnitude(opposite[y]) = Magnitude(b[y])
    BY <1>2 DEF Magnitude
  <1>7. Magnitude(SumOver(opposite, S)) = Magnitude(SumOver(b, S))
    BY <1>4, <1>5 DEF Magnitude
  <1> QED BY <1>3, <1>6, <1>7 DEF Near

(* What paying all of out does to net.                                     *)
Settles(net, out) ==
    /\ \A k \in DOMAIN out : ReducesDebt(net, out[k])
    /\ \A id \in People :
          /\ Magnitude(AfterPaid(net, out)[id])
                =< Magnitude(SumOf(net)) + settlementTolerance * (Cardinality(People) - 1)
          /\ AfterPaid(net, out)[id] * net[id] >= 0
    /\ out # << >> => Len(out) < Cardinality(People)

(* Whatever the balances are: paying all that is suggested leaves everyone *)
(* with no more than what the balances miss and a tolerance per other      *)
(* person, makes no creditor a debtor, and takes fewer payments than there *)
(* are people; and every payment is of a debt to somebody whom as much is  *)
(* owed (settlementSuggestions).                                           *)
THEOREM SuggestionsSettleAny ==
    ASSUME ExpenseAssumption, NEW net \in Nets
    PROVE  Settles(net, settlementSuggestions(net))
  <1>1. PICK out : out = settlementSuggestions(net)
    OBVIOUS
  <1>2. PICK sides, D, C :
              /\ sides \in Nat /\ sides =< Cardinality(People) /\ (D = << >> \/ C = << >>)
              /\ RoundOk(net, sides, D, C, out)
    BY <1>1, SuggestionsAreRounds
  <1>3. PICK b : b = AfterPaid(net, out)
    OBVIOUS
  <1>4. /\ out \in Seq(Payments) /\ \A k \in 1..Len(out) : ReducesDebt(net, out[k])
        /\ Debtors(net, b, D) /\ Creditors(net, b, C) /\ Balanced(net, b, D, C)
        /\ SumOver(b, People) = SumOver(net, People)
        /\ (Len(out) >= 1 => Len(out) < sides)
    BY <1>2, <1>3 DEF RoundOk
  <1>5. IsFiniteSet(People) /\ Cardinality(People) \in Nat
    BY FS_CardinalityType DEF ExpenseAssumption
  <1>6. \A k \in DOMAIN out : ReducesDebt(net, out[k])
    BY <1>4
  <1>7. out # << >> => Len(out) < Cardinality(People)
    <2>1. Len(out) \in Nat /\ (out # << >> => Len(out) >= 1)
      BY <1>4
    <2> QED BY <1>2, <1>4, <1>5, <2>1
  <1>8. \A id \in People : b[id] \in Int /\ net[id] \in Int
    BY <1>4 DEF Balanced, Nets
  <1>9. SumOf(net) = SumOver(net, People)
    BY DEF SumOf, Nets
  <1>10. Near(b, People)
    <2>1. CASE D = << >>
      <3>1. ASSUME NEW id \in People PROVE b[id] >= -1
        <4>1. CASE id \in UsersOf(C)
          <5>1. PICK k \in 1..Len(C) : C[k].user = id
            BY <4>1 DEF UsersOf
          <5>2. b[id] = C[k].amount
            BY <1>4, <5>1 DEF Creditors
          <5>3. C[k].amount > 1
            BY <1>4 DEF Creditors, GoodSides, settlementTolerance
          <5> QED BY <5>2, <5>3, <1>8
        <4>2. CASE id \notin UsersOf(C)
          <5>1. id \notin UsersOf(D)
            BY <2>1 DEF UsersOf
          <5>2. IsEven(b[id])
            BY <4>2, <5>1, <1>4 DEF Balanced
          <5> QED BY <5>2, <1>8 DEF IsEven, settlementTolerance
        <4> QED BY <4>1, <4>2
      <3> QED BY <3>1, <1>5, <1>8, NearlyEven
    <2>2. CASE C = << >>
      <3>1. ASSUME NEW id \in People PROVE b[id] =< 1
        <4>1. CASE id \in UsersOf(D)
          <5>1. PICK k \in 1..Len(D) : D[k].user = id
            BY <4>1 DEF UsersOf
          <5>2. b[id] = -D[k].amount
            BY <1>4, <5>1 DEF Debtors
          <5>3. D[k].amount > 1 /\ D[k] \in SideRows
            BY <1>4 DEF Debtors, GoodSides, settlementTolerance
          <5>4. D[k].amount \in Int
            BY <5>3 DEF SideRows
          <5> QED BY <5>2, <5>3, <5>4, <1>8
        <4>2. CASE id \notin UsersOf(D)
          <5>1. id \notin UsersOf(C)
            BY <2>2 DEF UsersOf
          <5>2. IsEven(b[id])
            BY <4>2, <5>1, <1>4 DEF Balanced
          <5> QED BY <5>2, <1>8 DEF IsEven, settlementTolerance
        <4> QED BY <4>1, <4>2
      <3> QED BY <3>1, <1>5, <1>8, NearlyEvenBelow
    <2> QED BY <1>2, <2>1, <2>2
  <1>11. \A id \in People : b[id] * net[id] >= 0
    <2>1. SUFFICES ASSUME NEW id \in People PROVE b[id] * net[id] >= 0
      OBVIOUS
    <2>2. PICK x \in Int : x = b[id]
      BY <1>8
    <2>3. PICK y \in Int : y = net[id]
      BY <1>8
    <2>4. SameSide(x, y)
      BY <1>4, <2>2, <2>3 DEF Balanced
    <2>5. x * y >= 0
      BY <2>4 DEF SameSide
    <2> QED BY <2>2, <2>3, <2>5
  <1>12. Settles(net, out)
    BY <1>3, <1>4, <1>6, <1>7, <1>9, <1>10, <1>11 DEF Settles, Near
  <1> QED BY <1>1, <1>12

-----------------------------------------------------------------------------
(* The inductive invariant of the requests.                                *)

ExpenseRows == [amount : Amounts, payer : People, status : {"active", "deleted"}]
SettlementRows == [from : People, to : People, amount : Nat, status : {"paid", "cancelled"}]
RealPayments == {p \in Payments : p.from # p.to /\ p.amount > 0}

Updates == [phase : {"updating"}, expense : Nat, next : ExpenseRows, replace : BOOLEAN,
            split : Shares \cup {<< >>}]
RowsRead == [phase : {"paying"}, rows : Seq(ExpenseRows), raced : BOOLEAN]
NetRead == [phase : {"paying"}, net : Nets, raced : BOOLEAN]
Suggested == [phase : {"paying"}, raced : BOOLEAN, suggestions : SUBSET RealPayments]
ExpenseClaims == {NoClaim} \cup Updates \cup RowsRead \cup NetRead \cup Suggested

TypesKept ==
    /\ expenses \in Seq(ExpenseRows)
    /\ shares \in Seq(Shares) /\ Len(shares) = Len(expenses)
    /\ settlements \in Seq(SettlementRows)
    /\ \A s \in 1..Len(settlements) : settlements[s].from # settlements[s].to
    /\ claims \in [Spenders -> ExpenseClaims]
    /\ racedRows \in SUBSET ExpenseIds

SumsKept ==
    \A e \in ExpenseIds :
        expenses[e].status = "active" /\ e \notin racedRows => AddUp(shares[e], expenses[e].amount)

(* An update holds shares that add up for the row it will write, or that   *)
(* row as it is, unless another write has overtaken it.                    *)
UpdateHolds(c) ==
    /\ c.expense \in ExpenseIds
    /\ IF c.replace THEN c.split \in Shares /\ AddUp(c.split, c.next.amount)
       ELSE expenses[c.expense] = c.next \/ c.expense \in racedRows

(* A payment that nothing has overtaken holds what it would read now.      *)
RowsHold(c) == c.raced \/ c.rows = expenses
NetHolds(c) == c.raced \/ c.net = NetBefore(expenses, shares)
SuggestionsHold(c) == c.raced \/ c.suggestions = Range(settlementSuggestions(Outstanding))

ClaimHolds(c) ==
    /\ c \in Updates => UpdateHolds(c)
    /\ c \in RowsRead => RowsHold(c)
    /\ c \in NetRead => NetHolds(c)
    /\ c \in Suggested => SuggestionsHold(c)

ClaimsHold == \A u \in Spenders, c \in ExpenseClaims : claims[u] = c => ClaimHolds(c)

ExpensesKept == TypesKept /\ SumsKept /\ ClaimsHold

(* The balances before settlements are integers, whatever was read.        *)
LEMMA NetIsInt ==
    ASSUME ExpenseAssumption, NEW rows \in Seq(ExpenseRows), NEW shareRows \in Seq(Shares)
    PROVE  NetBefore(rows, shareRows) \in Nets
  <1>1. SUFFICES ASSUME NEW id \in People PROVE NetBefore(rows, shareRows)[id] \in Int
    BY DEF NetBefore, Nets
  <1>2. PICK paid : paid = [e \in DOMAIN rows |-> rows[e].amount]
    OBVIOUS
  <1>3. PICK share : share = [e \in DOMAIN shareRows |->
                                IF id \in DOMAIN shareRows[e] THEN shareRows[e][id] ELSE 0]
    OBVIOUS
  <1>4. PICK P : P = {e \in Active(rows) : rows[e].payer = id}
    OBVIOUS
  <1>5. PICK Q : Q = Active(rows) \cap DOMAIN shareRows
    OBVIOUS
  <1>6. P \subseteq 1..Len(rows) /\ Q \subseteq 1..Len(rows) /\ Q \subseteq 1..Len(shareRows)
    BY <1>4, <1>5 DEF Active
  <1>7. IsFiniteSet(P) /\ IsFiniteSet(Q)
    <2>1. Len(rows) \in Int /\ 1 \in Int
      OBVIOUS
    <2>2. IsFiniteSet(1..Len(rows))
      BY <2>1, FS_Interval
    <2> QED BY <1>6, <2>2, FS_Subset
  <1>8. \A e \in P : paid[e] \in Int
    <2>1. \A e \in 1..Len(rows) : rows[e] \in ExpenseRows
      OBVIOUS
    <2>2. \A e \in 1..Len(rows) : rows[e].amount \in Int
      <3>1. \A x \in Amounts : x \in Int
        BY DEF ExpenseAssumption
      <3> QED BY <2>1, <3>1 DEF ExpenseRows
    <2> QED BY <1>2, <1>6, <2>2
  <1>9. \A e \in Q : share[e] \in Int
    <2>1. SUFFICES ASSUME NEW e \in 1..Len(shareRows) PROVE share[e] \in Int
      BY <1>6
    <2>2. PICK ids \in SUBSET People : shareRows[e] \in [ids -> Nat]
      <3>1. shareRows[e] \in Shares
        OBVIOUS
      <3> QED BY <3>1 DEF Shares
    <2> QED BY <1>3, <2>2
  <1>10. PICK x \in Int : x = SumOver(paid, P)
    BY <1>7, <1>8, SumType
  <1>11. PICK y \in Int : y = SumOver(share, Q)
    BY <1>7, <1>9, SumType
  <1>12. NetBefore(rows, shareRows)[id] = x - y
    BY <1>2, <1>3, <1>4, <1>5, <1>10, <1>11 DEF NetBefore
  <1> QED BY <1>12

(* So are those after settlements.                                         *)
LEMMA OutstandingIsInt ==
    ASSUME NEW net \in Nets, NEW rows \in Seq(SettlementRows)
    PROVE  NetOutstanding(net, rows) \in Nets
  <1>1. SUFFICES ASSUME NEW id \in People PROVE NetOutstanding(net, rows)[id] \in Int
    BY DEF NetOutstanding, Nets
  <1>2. PICK amounts : amounts = [s \in DOMAIN rows |-> rows[s].amount]
    OBVIOUS
  <1>3. PICK P : P = {s \in PaidRows(rows) : rows[s].from = id}
    OBVIOUS
  <1>4. PICK Q : Q = {s \in PaidRows(rows) : rows[s].to = id}
    OBVIOUS
  <1>5. P \subseteq 1..Len(rows) /\ Q \subseteq 1..Len(rows)
    BY <1>3, <1>4 DEF PaidRows
  <1>6. IsFiniteSet(P) /\ IsFiniteSet(Q)
    <2>1. Len(rows) \in Int /\ 1 \in Int
      OBVIOUS
    <2>2. IsFiniteSet(1..Len(rows))
      BY <2>1, FS_Interval
    <2> QED BY <1>5, <2>2, FS_Subset
  <1>7. \A s \in 1..Len(rows) : amounts[s] \in Int
    <2>1. \A s \in 1..Len(rows) : rows[s] \in SettlementRows
      OBVIOUS
    <2> QED BY <1>2, <2>1 DEF SettlementRows
  <1>8. PICK x \in Int : x = SumOver(amounts, P)
    BY <1>5, <1>6, <1>7, SumType
  <1>9. PICK y \in Int : y = SumOver(amounts, Q)
    BY <1>5, <1>6, <1>7, SumType
  <1>10. PICK z \in Int : z = net[id]
    BY DEF Nets
  <1>11. NetOutstanding(net, rows)[id] = z + x - y
    BY <1>2, <1>3, <1>4, <1>8, <1>9, <1>10 DEF NetOutstanding
  <1> QED BY <1>11

(* A suggestion is a payment of a debt.                                    *)
LEMMA SuggestionsAreReal ==
    ASSUME ExpenseAssumption, NEW net \in Nets, NEW p \in Range(settlementSuggestions(net))
    PROVE  p \in RealPayments /\ ReducesDebt(net, p)
  <1>1. PICK k \in DOMAIN settlementSuggestions(net) : p = settlementSuggestions(net)[k]
    BY DEF Range
  <1>2. Settles(net, settlementSuggestions(net))
    BY SuggestionsSettleAny
  <1>3. ReducesDebt(net, p)
    BY <1>1, <1>2 DEF Settles
  <1> QED BY <1>3 DEF ReducesDebt, RealPayments

(* What a request holds tells which of its steps is next.                  *)
LEMMA ClaimKinds ==
    ASSUME NEW c \in ExpenseClaims
    PROVE  /\ c.phase = "none" => c = NoClaim
           /\ c.phase = "updating" => c \in Updates
           /\ c.phase = "paying" => c \in RowsRead \cup NetRead \cup Suggested
           /\ c.phase = "paying" /\ "rows" \in DOMAIN c => c \in RowsRead
           /\ c.phase = "paying" /\ "net" \in DOMAIN c => c \in NetRead
           /\ c.phase = "paying" /\ "suggestions" \in DOMAIN c => c \in Suggested
  <1>1. NoClaim.phase = "none"
    BY DEF NoClaim
  <1>2. \A x \in Updates : x.phase = "updating"
    BY DEF Updates
  <1>3. \A x \in RowsRead : x.phase = "paying" /\ DOMAIN x = {"phase", "rows", "raced"}
    BY DEF RowsRead
  <1>4. \A x \in NetRead : x.phase = "paying" /\ DOMAIN x = {"phase", "net", "raced"}
    BY DEF NetRead
  <1>5. \A x \in Suggested : x.phase = "paying" /\ DOMAIN x = {"phase", "raced", "suggestions"}
    BY DEF Suggested
  <1> QED BY <1>1, <1>2, <1>3, <1>4, <1>5 DEF ExpenseClaims

(* Where no row changes, the balances do not.                              *)
LEMMA SameReads ==
    ASSUME UNCHANGED <<expenses, shares, settlements>>
    PROVE  Outstanding' = Outstanding /\ NetBefore(expenses, shares)' = NetBefore(expenses, shares)
  BY DEF Outstanding

-----------------------------------------------------------------------------
(* What a write, and what a read, keeps.                                   *)

(* A write leaves all rows but that of expense e alone.                    *)
WritesOnly(e) ==
    /\ Len(expenses') >= Len(expenses)
    /\ \A i \in ExpenseIds : i # e => expenses'[i] = expenses[i]

(* A payment that is overtaken remains one.                                *)
LEMMA RacedPayment ==
    ASSUME NEW c \in ExpenseClaims, c.phase = "paying", NEW d, d = [c EXCEPT !.raced = TRUE]
    PROVE  d \in ExpenseClaims /\ d.phase = "paying" /\ d.raced
  <1>1. c \in RowsRead \cup NetRead \cup Suggested
    BY ClaimKinds
  <1>2. CASE c \in RowsRead
    <2>1. d \in RowsRead /\ d.phase = "paying" /\ d.raced
      BY <1>2 DEF RowsRead
    <2> QED BY <2>1 DEF ExpenseClaims
  <1>3. CASE c \in NetRead
    <2>1. d \in NetRead /\ d.phase = "paying" /\ d.raced
      BY <1>3 DEF NetRead
    <2> QED BY <2>1 DEF ExpenseClaims
  <1>4. CASE c \in Suggested
    <2>1. d \in Suggested /\ d.phase = "paying" /\ d.raced
      BY <1>4 DEF Suggested
    <2> QED BY <2>1 DEF ExpenseClaims
  <1> QED BY <1>1, <1>2, <1>3, <1>4

(* A request that is over holds nothing.                                   *)
LEMMA NoneHolds ==
    ClaimHolds(NoClaim)' /\ NoClaim \in ExpenseClaims
  <1>1. /\ NoClaim \notin Updates
        /\ NoClaim \notin RowsRead
        /\ NoClaim \notin NetRead
        /\ NoClaim \notin Suggested
    BY DEF NoClaim, Updates, RowsRead, NetRead, Suggested
  <1> QED BY <1>1 DEF ClaimHolds, ExpenseClaims

(* Nothing is asked of an overtaken payment.                               *)
LEMMA RacedHolds ==
    ASSUME NEW c, c.phase = "paying", c.raced
    PROVE  ClaimHolds(c)'
  <1>1. c \notin Updates
    BY DEF Updates
  <1> QED BY <1>1 DEF ClaimHolds, RowsHold, NetHolds, SuggestionsHold

(* An update remains sound, or its expense is raced.                       *)
LEMMA OvertakenHolds ==
    ASSUME TypesKept, NEW u \in Spenders, NEW e, Overtake(u, e), WritesOnly(e), NEW w \in Spenders, w # u,
           NEW c \in Updates, claims[w] = c, ClaimHolds(c)
    PROVE  ClaimHolds(c)'
  <1>1. c \notin RowsRead /\ c \notin NetRead /\ c \notin Suggested /\ c.phase = "updating"
    BY DEF Updates, RowsRead, NetRead, Suggested
  <1>2. UpdateHolds(c)
    BY DEF ClaimHolds
  <1>3. c.expense \in 1..Len(expenses) /\ Len(expenses) \in Nat /\ c.expense \in ExpenseIds
    BY <1>2 DEF UpdateHolds, ExpenseIds, TypesKept
  <1>4. c.expense \in 1..Len(expenses')
    <2>1. Len(expenses) \in Nat /\ Len(expenses') >= Len(expenses)
      BY <1>3 DEF WritesOnly
    <2> QED BY <1>3, <2>1
  <1>5. racedRows \subseteq racedRows' /\ (c.expense = e => e \in racedRows')
    BY <1>1 DEF Overtake
  <1>6. c.expense # e => expenses'[c.expense] = expenses[c.expense]
    BY <1>3 DEF WritesOnly
  <1>7. UpdateHolds(c)'
    BY <1>2, <1>4, <1>5, <1>6 DEF UpdateHolds, ExpenseIds
  <1> QED BY <1>1, <1>7 DEF ClaimHolds

OtherClaims(e) ==
    /\ claims' \in [Spenders -> ExpenseClaims]
    /\ ClaimsHold'
    /\ racedRows \subseteq racedRows' /\ racedRows' \subseteq racedRows \cup {e}
    /\ racedRows' \in SUBSET (ExpenseIds')

(* A write keeps the requests sound by overtaking them.                    *)
LEMMA OvertakeKeepsClaims ==
    ASSUME TypesKept, ClaimsHold, NEW u \in Spenders, NEW e, Overtake(u, e), WritesOnly(e)
    PROVE  OtherClaims(e)
  <1>1. \A w \in Spenders : claims[w] \in ExpenseClaims
    BY DEF TypesKept
  <1>2. claims' = [w \in Spenders |->
            IF w = u THEN NoClaim
            ELSE IF claims[w].phase = "paying" THEN [claims[w] EXCEPT !.raced = TRUE]
            ELSE claims[w]]
    BY DEF Overtake
  <1>3. ASSUME NEW w \in Spenders, NEW d, claims'[w] = d
        PROVE  d \in ExpenseClaims /\ ClaimHolds(d)'
    <2>1. PICK c \in ExpenseClaims : c = claims[w]
      BY <1>1
    <2>2. ClaimHolds(c)
      BY <2>1 DEF ClaimsHold
    <2>3. CASE w = u
      BY <1>2, <1>3, <2>3, NoneHolds
    <2>4. CASE w # u /\ c.phase = "paying"
      <3>1. d = [c EXCEPT !.raced = TRUE]
        BY <1>2, <1>3, <2>1, <2>4
      <3>2. d \in ExpenseClaims /\ d.phase = "paying" /\ d.raced
        BY <2>4, <3>1, RacedPayment
      <3> QED BY <3>2, RacedHolds
    <2>5. CASE w # u /\ c.phase # "paying"
      <3>1. d = c
        BY <1>2, <1>3, <2>1, <2>5
      <3>2. c = NoClaim \/ c \in Updates
        BY <2>5 DEF ExpenseClaims, RowsRead, NetRead, Suggested
      <3>3. c = NoClaim => ClaimHolds(c)'
        BY NoneHolds
      <3>4. c \in Updates => ClaimHolds(c)'
        BY <2>1, <2>2, <2>5, OvertakenHolds
      <3> QED BY <3>1, <3>2, <3>3, <3>4
    <2> QED BY <2>3, <2>4, <2>5
  <1>4. claims' \in [Spenders -> ExpenseClaims]
    BY <1>2, <1>3
  <1>5. ClaimsHold'
    BY <1>3 DEF ClaimsHold
  <1>6. racedRows \subseteq racedRows' /\ racedRows' \subseteq racedRows \cup {e}
    BY DEF Overtake
  <1>7. \A i \in ExpenseIds : i \in ExpenseIds'
    <2>1. Len(expenses) \in Nat /\ Len(expenses') >= Len(expenses)
      BY DEF TypesKept, WritesOnly
    <2> QED BY <2>1 DEF ExpenseIds
  <1>8. e \in racedRows' => e \in ExpenseIds
    <2>1. CASE e \in racedRows
      BY <2>1 DEF TypesKept
    <2>2. CASE e \notin racedRows
      <3>1. SUFFICES ASSUME e \in racedRows' PROVE e \in ExpenseIds
        OBVIOUS
      <3>2. PICK w \in Spenders : claims[w].phase = "updating" /\ claims[w].expense = e
        BY <2>2, <3>1 DEF Overtake
      <3>3. PICK c \in ExpenseClaims : c = claims[w]
        BY <1>1
      <3>4. c \in Updates /\ ClaimHolds(c)
        BY <3>2, <3>3, ClaimKinds DEF ClaimsHold
      <3> QED BY <3>2, <3>3, <3>4 DEF ClaimHolds, UpdateHolds
    <2> QED BY <2>1, <2>2
  <1>9. racedRows' \in SUBSET (ExpenseIds')
    BY <1>6, <1>7, <1>8 DEF TypesKept
  <1> QED BY <1>4, <1>5, <1>6, <1>9 DEF OtherClaims

(* A request that writes nothing changes only its own claim.               *)
LEMMA ReadKeepsOthers ==
    ASSUME TypesKept, SumsKept, ClaimsHold, NEW u \in Spenders, NEW claim \in ExpenseClaims, Claim(u, claim),
           ClaimHolds(claim)', UNCHANGED <<expenses, shares, settlements, racedRows>>
    PROVE  ExpensesKept'
  <1>1. \A w \in Spenders : claims'[w] = IF w = u THEN claim ELSE claims[w]
    BY DEF Claim, TypesKept
  <1>2. claims' \in [Spenders -> ExpenseClaims]
    BY DEF Claim, TypesKept
  <1>3. TypesKept'
    BY <1>2 DEF TypesKept, ExpenseIds
  <1>4. SumsKept'
    BY DEF SumsKept, ExpenseIds
  <1>5. ASSUME NEW w \in Spenders, NEW c \in ExpenseClaims, claims'[w] = c
        PROVE  ClaimHolds(c)'
    <2>1. CASE w = u
      BY <1>1, <1>5, <2>1
    <2>2. CASE w # u
      <3>1. ClaimHolds(c)
        BY <1>1, <1>5, <2>2 DEF ClaimsHold
      <3>2. UpdateHolds(c) => UpdateHolds(c)'
        BY DEF UpdateHolds, ExpenseIds
      <3>3. RowsHold(c) => RowsHold(c)'
        BY DEF RowsHold
      <3>4. NetHolds(c) => NetHolds(c)'
        BY SameReads DEF NetHolds
      <3>5. SuggestionsHold(c) => SuggestionsHold(c)'
        BY SameReads DEF SuggestionsHold
      <3> QED BY <3>1, <3>2, <3>3, <3>4, <3>5 DEF ClaimHolds
    <2> QED BY <2>1, <2>2
  <1>6. ClaimsHold'
    BY <1>5 DEF ClaimsHold
  <1> QED BY <1>3, <1>4, <1>6 DEF ExpensesKept

-----------------------------------------------------------------------------
(* The steps.                                                              *)

(* A write that keeps the sums keeps the invariant.                        *)
LEMMA WriteKeeps ==
    ASSUME ExpensesKept, NEW u \in Spenders, NEW e, Overtake(u, e), WritesOnly(e),
           expenses' \in Seq(ExpenseRows), shares' \in Seq(Shares), Len(shares') = Len(expenses'),
           settlements' \in Seq(SettlementRows),
           \A s \in 1..Len(settlements') : settlements'[s].from # settlements'[s].to,
           SumsKept'
    PROVE  ExpensesKept'
  <1>1. OtherClaims(e)
    BY OvertakeKeepsClaims DEF ExpensesKept
  <1>2. TypesKept'
    BY <1>1 DEF OtherClaims, TypesKept
  <1> QED BY <1>1, <1>2 DEF OtherClaims, ExpensesKept

(* CreateTripExpense keeps the invariant.                                  *)
LEMMA CreateExpenseKeeps ==
    ASSUME ExpenseAssumption, ExpensesKept, NEW u \in Spenders, CreateTripExpense(u)
    PROVE  ExpensesKept'
  <1>0. PICK amount \in Amounts : \E split \in SplitsOf(amount) :
            /\ expenses' = Append(expenses, [amount |-> amount, payer |-> u, status |-> "active"])
            /\ shares' = Append(shares, split)
    BY DEF CreateTripExpense
  <1>1. PICK split \in SplitsOf(amount) :
            /\ expenses' = Append(expenses, [amount |-> amount, payer |-> u, status |-> "active"])
            /\ shares' = Append(shares, split)
    BY <1>0
  <1>2. amount \in Nat /\ u \in People
    BY DEF ExpenseAssumption
  <1>3. split \in Shares /\ AddUp(split, amount)
    BY <1>2, SplitsAddUp
  <1>4. PICK row \in ExpenseRows : row = [amount |-> amount, payer |-> u, status |-> "active"]
    BY <1>2 DEF ExpenseRows
  <1>5. PICK n \in Nat : n = Len(expenses) /\ n = Len(shares)
    BY DEF ExpensesKept, TypesKept
  <1>6. expenses \in Seq(ExpenseRows) /\ shares \in Seq(Shares)
    BY DEF ExpensesKept, TypesKept
  <1>7. /\ expenses' \in Seq(ExpenseRows) /\ Len(expenses') = n + 1 /\ expenses'[n + 1] = row
        /\ \A i \in 1..n : expenses'[i] = expenses[i]
    <2>1. expenses \in Seq(ExpenseRows) /\ n = Len(expenses) /\ expenses' = Append(expenses, row)
      BY <1>1, <1>4, <1>5, <1>6
    <2> QED BY <2>1
  <1>8. /\ shares' \in Seq(Shares) /\ Len(shares') = n + 1 /\ shares'[n + 1] = split
        /\ \A i \in 1..n : shares'[i] = shares[i]
    BY <1>1, <1>3, <1>5, <1>6
  <1>9. Overtake(u, 0) /\ settlements' = settlements
    BY DEF CreateTripExpense
  <1>10. WritesOnly(0)
    BY <1>5, <1>7 DEF WritesOnly, ExpenseIds
  <1>11. SumsKept'
    <2>1. ASSUME NEW i \in 1..(n + 1), expenses'[i].status = "active", i \notin racedRows'
          PROVE  AddUp(shares'[i], expenses'[i].amount)
      <3>1. CASE i = n + 1
        BY <1>3, <1>4, <1>7, <1>8, <3>1
      <3>2. CASE i # n + 1
        <4>1. i \in 1..n /\ i \in ExpenseIds
          BY <1>5, <3>2 DEF ExpenseIds
        <4>2. racedRows \subseteq racedRows'
          BY <1>9 DEF Overtake
        <4>3. AddUp(shares[i], expenses[i].amount)
          BY <2>1, <4>1, <4>2, <1>7 DEF ExpensesKept, SumsKept
        <4> QED BY <4>1, <4>3, <1>7, <1>8
      <3> QED BY <3>1, <3>2
    <2> QED BY <2>1, <1>7 DEF SumsKept, ExpenseIds
  <1>12. /\ settlements \in Seq(SettlementRows)
         /\ \A s \in 1..Len(settlements) : settlements[s].from # settlements[s].to
    BY DEF ExpensesKept, TypesKept
  <1>13. Len(shares') = Len(expenses')
    BY <1>7, <1>8
  <1> QED BY <1>7, <1>8, <1>9, <1>10, <1>11, <1>12, <1>13, WriteKeeps

(* UpdateTripExpenseWithParticipants keeps the invariant: it may keep the  *)
(* shares, for the amount it writes is the one it has read.                *)
LEMMA UpdateKeeps ==
    ASSUME ExpensesKept, NEW u \in Spenders, UpdateTripExpenseWithParticipants(u)
    PROVE  ExpensesKept'
  <1>1. PICK c \in ExpenseClaims : c = claims[u]
    BY DEF ExpensesKept, TypesKept
  <1>2. c \in Updates /\ UpdateHolds(c)
    <2>1. c.phase = "updating" /\ ClaimHolds(c)
      BY <1>1 DEF UpdateTripExpenseWithParticipants, ExpensesKept, ClaimsHold
    <2>2. c \in Updates
      BY <2>1, ClaimKinds
    <2> QED BY <2>1, <2>2 DEF ClaimHolds
  <1>3. PICK e \in ExpenseIds : e = c.expense
    BY <1>2 DEF UpdateHolds
  <1>4. PICK next \in ExpenseRows : next = c.next
    BY <1>2 DEF Updates
  <1>5. PICK n \in Nat : n = Len(expenses) /\ n = Len(shares)
    BY DEF ExpensesKept, TypesKept
  <1>6. /\ expenses \in Seq(ExpenseRows) /\ shares \in Seq(Shares)
        /\ settlements \in Seq(SettlementRows)
        /\ \A s \in 1..Len(settlements) : settlements[s].from # settlements[s].to
    BY DEF ExpensesKept, TypesKept
  <1>7. e \in 1..n
    BY <1>3, <1>5 DEF ExpenseIds
  <1>8. settlements' = settlements
    BY DEF UpdateTripExpenseWithParticipants
  <1>9. CASE expenses[e].status = "active"
    <2>1. /\ expenses' = [expenses EXCEPT ![e] = next]
          /\ shares' = IF c.replace THEN [shares EXCEPT ![e] = c.split] ELSE shares
          /\ Overtake(u, e)
      BY <1>1, <1>3, <1>4, <1>9 DEF UpdateTripExpenseWithParticipants
    <2>2. c.replace => c.split \in Shares /\ AddUp(c.split, next.amount)
      BY <1>2, <1>4 DEF UpdateHolds
    <2>3. ~c.replace => expenses[e] = next \/ e \in racedRows
      BY <1>2, <1>3, <1>4 DEF UpdateHolds
    <2>4. /\ expenses' \in Seq(ExpenseRows) /\ Len(expenses') = n /\ expenses'[e] = next
          /\ \A i \in 1..n : i # e => expenses'[i] = expenses[i]
      <3>1. /\ expenses \in Seq(ExpenseRows)
            /\ n = Len(expenses)
            /\ expenses' = [expenses EXCEPT ![e] = next]
        BY <2>1, <1>5, <1>6
      <3> QED BY <3>1, <1>7
    <2>5. /\ shares' \in Seq(Shares) /\ Len(shares') = n
          /\ \A i \in 1..n : i # e => shares'[i] = shares[i]
          /\ shares'[e] = IF c.replace THEN c.split ELSE shares[e]
      <3>1. CASE c.replace
        BY <2>1, <2>2, <3>1, <1>5, <1>6, <1>7
      <3>2. CASE ~c.replace
        BY <2>1, <3>2, <1>5, <1>6, <1>7
      <3> QED BY <3>1, <3>2
    <2>6. WritesOnly(e)
      BY <2>4, <1>5 DEF WritesOnly, ExpenseIds
    <2>7. racedRows \subseteq racedRows'
      BY <2>1 DEF Overtake
    <2>8. SumsKept'
      <3>1. ASSUME NEW i \in 1..n, expenses'[i].status = "active", i \notin racedRows'
            PROVE  AddUp(shares'[i], expenses'[i].amount)
        <4>1. i \in ExpenseIds /\ i \notin racedRows
          BY <1>5, <2>7, <3>1 DEF ExpenseIds
        <4>2. expenses[i].status = "active" => AddUp(shares[i], expenses[i].amount)
          BY <4>1 DEF ExpensesKept, SumsKept
        <4>3. CASE i # e
          BY <4>2, <4>3, <3>1, <2>4, <2>5
        <4>4. CASE i = e /\ c.replace
          BY <4>4, <2>2, <2>4, <2>5
        <4>5. CASE i = e /\ ~c.replace
          <5>1. expenses[e] = next
            BY <4>1, <4>5, <2>3
          <5> QED BY <5>1, <4>2, <4>5, <1>9, <2>4, <2>5
        <4> QED BY <4>3, <4>4, <4>5
      <3> QED BY <3>1, <2>4 DEF SumsKept, ExpenseIds
    <2>9. Len(shares') = Len(expenses')
      BY <2>4, <2>5
    <2> QED BY <2>1, <2>4, <2>5, <2>6, <2>8, <2>9, <1>6, <1>8, WriteKeeps
  <1>10. CASE expenses[e].status # "active"
    <2>1. UNCHANGED <<expenses, shares, settlements, racedRows>> /\ Claim(u, NoClaim)
      BY <1>1, <1>3, <1>8, <1>10 DEF UpdateTripExpenseWithParticipants
    <2>2. ClaimHolds(NoClaim)' /\ NoClaim \in ExpenseClaims
      BY NoneHolds
    <2> QED BY <2>1, <2>2, ReadKeepsOthers DEF ExpensesKept
  <1> QED BY <1>9, <1>10

(* DeleteTripExpense keeps the invariant.                                  *)
LEMMA DeleteExpenseKeeps ==
    ASSUME ExpensesKept, NEW u \in Spenders, NEW e \in ExpenseIds, DeleteTripExpense(u, e)
    PROVE  ExpensesKept'
  <1>1. PICK n \in Nat : n = Len(expenses) /\ n = Len(shares)
    BY DEF ExpensesKept, TypesKept
  <1>2. /\ expenses \in Seq(ExpenseRows) /\ shares \in Seq(Shares)
        /\ settlements \in Seq(SettlementRows)
        /\ \A s \in 1..Len(settlements) : settlements[s].from # settlements[s].to
    BY DEF ExpensesKept, TypesKept
  <1>3. e \in 1..n
    BY <1>1 DEF ExpenseIds
  <1>4. /\ expenses' = [expenses EXCEPT ![e].status = "deleted"]
        /\ Overtake(u, e) /\ shares' = shares /\ settlements' = settlements
    BY DEF DeleteTripExpense
  <1>14. expenses \in Seq(ExpenseRows) /\ n = Len(expenses)
    BY <1>1, <1>2
  <1>5. expenses[e] \in ExpenseRows
    BY <1>3, <1>14
  <1>6. PICK row : row = [expenses[e] EXCEPT !.status = "deleted"]
    OBVIOUS
  <1>7. row \in ExpenseRows /\ row.status = "deleted"
    BY <1>5, <1>6 DEF ExpenseRows
  <1>8. expenses' = [expenses EXCEPT ![e] = row]
    BY <1>4, <1>6
  <1>9. /\ expenses' \in Seq(ExpenseRows) /\ Len(expenses') = n /\ expenses'[e] = row
        /\ \A i \in 1..n : i # e => expenses'[i] = expenses[i]
    BY <1>3, <1>7, <1>8, <1>14
  <1>10. WritesOnly(e)
    BY <1>1, <1>9 DEF WritesOnly, ExpenseIds
  <1>11. racedRows \subseteq racedRows'
    BY <1>4 DEF Overtake
  <1>12. SumsKept'
    <2>1. ASSUME NEW i \in 1..n, expenses'[i].status = "active", i \notin racedRows'
          PROVE  AddUp(shares'[i], expenses'[i].amount)
      <3>1. i # e
        BY <2>1, <1>7, <1>9
      <3>2. i \in ExpenseIds /\ i \notin racedRows
        BY <1>1, <1>11, <2>1 DEF ExpenseIds
      <3>3. expenses[i].status = "active" => AddUp(shares[i], expenses[i].amount)
        BY <3>2 DEF ExpensesKept, SumsKept
      <3> QED BY <3>1, <3>3, <2>1, <1>4, <1>9
    <2> QED BY <2>1, <1>9 DEF SumsKept, ExpenseIds
  <1>13. shares' \in Seq(Shares) /\ Len(shares') = Len(expenses')
    BY <1>1, <1>2, <1>4, <1>9
  <1> QED BY <1>2, <1>4, <1>9, <1>10, <1>12, <1>13, WriteKeeps

(* A write of settlements keeps the invariant.                             *)
LEMMA SameRows ==
    ASSUME ExpensesKept, NEW u \in Spenders, Overtake(u, 0), UNCHANGED <<expenses, shares>>,
           settlements' \in Seq(SettlementRows),
           \A s \in 1..Len(settlements') : settlements'[s].from # settlements'[s].to
    PROVE  ExpensesKept'
  <1>1. expenses \in Seq(ExpenseRows) /\ shares \in Seq(Shares) /\ Len(shares) = Len(expenses)
    BY DEF ExpensesKept, TypesKept
  <1>2. Len(expenses) \in Nat
    BY <1>1
  <1>3. WritesOnly(0)
    BY <1>2 DEF WritesOnly
  <1>4. racedRows \subseteq racedRows'
    BY DEF Overtake
  <1>5. SumsKept'
    BY <1>4 DEF ExpensesKept, SumsKept, ExpenseIds
  <1> QED BY <1>1, <1>3, <1>5, WriteKeeps

(* BeginUpdate keeps the invariant: the new shares add up.                 *)
LEMMA BeginUpdateKeeps ==
    ASSUME ExpenseAssumption, ExpensesKept, NEW u \in Spenders, NEW e \in ExpenseIds, BeginUpdate(u, e)
    PROVE  ExpensesKept'
  <1>1. PICK n \in Nat : n = Len(expenses)
    BY DEF ExpensesKept, TypesKept
  <1>2. e \in 1..n /\ e \in Nat /\ expenses \in Seq(ExpenseRows)
    BY <1>1 DEF ExpenseIds, ExpensesKept, TypesKept
  <1>3. PICK row \in ExpenseRows : row = expenses[e]
    BY <1>1, <1>2
  <1>4. UNCHANGED <<expenses, shares, settlements, racedRows>>
    BY DEF BeginUpdate
  <1>5. e \in ExpenseIds'
    BY <1>4 DEF ExpenseIds
  <1>6. CASE Claim(u, [phase |-> "updating", expense |-> e, next |-> expenses[e],
                       replace |-> FALSE, split |-> << >>])
    <2>1. PICK c : c = [phase |-> "updating", expense |-> e, next |-> row, replace |-> FALSE, split |-> << >>]
      OBVIOUS
    <2>2. c \in Updates
      BY <1>2, <2>1 DEF Updates
    <2>3. c.expense = e /\ c.replace = FALSE /\ c.next = row
      BY <2>1
    <2>4. UpdateHolds(c)'
      BY <1>3, <1>4, <1>5, <2>3 DEF UpdateHolds
    <2>5. Claim(u, c)
      BY <1>3, <1>6, <2>1
    <2>6. ClaimHolds(c)' /\ c \in ExpenseClaims
      <3>1. c \notin RowsRead /\ c \notin NetRead /\ c \notin Suggested
        BY <2>2 DEF Updates, RowsRead, NetRead, Suggested
      <3> QED BY <2>2, <2>4, <3>1 DEF ClaimHolds, ExpenseClaims
    <2> QED BY <1>4, <2>5, <2>6, ReadKeepsOthers DEF ExpensesKept
  <1>7. CASE \E amount \in Amounts, payer \in Spenders : \E split \in SplitsOf(amount) :
             Claim(u, [phase |-> "updating", expense |-> e,
                       next |-> [expenses[e] EXCEPT !.amount = amount, !.payer = payer],
                       replace |-> TRUE, split |-> split])
    <2>1. PICK amount \in Amounts, payer \in Spenders : \E split \in SplitsOf(amount) :
             Claim(u, [phase |-> "updating", expense |-> e,
                       next |-> [row EXCEPT !.amount = amount, !.payer = payer],
                       replace |-> TRUE, split |-> split])
      BY <1>3, <1>7
    <2>2. PICK next : next = [row EXCEPT !.amount = amount, !.payer = payer]
      OBVIOUS
    <2>3. PICK split \in SplitsOf(amount) :
             Claim(u, [phase |-> "updating", expense |-> e, next |-> next, replace |-> TRUE, split |-> split])
      BY <2>1, <2>2
    <2>4. amount \in Nat /\ payer \in People
      BY DEF ExpenseAssumption
    <2>5. next \in ExpenseRows /\ next.amount = amount
      BY <2>2, <2>4 DEF ExpenseRows
    <2>6. split \in Shares /\ AddUp(split, amount)
      BY <2>4, SplitsAddUp
    <2>7. PICK c : c = [phase |-> "updating", expense |-> e, next |-> next, replace |-> TRUE, split |-> split]
      OBVIOUS
    <2>8. c \in Updates
      BY <1>2, <2>5, <2>6, <2>7 DEF Updates
    <2>9. c.expense = e /\ c.replace = TRUE /\ c.next = next /\ c.split = split
      BY <2>7
    <2>10. UpdateHolds(c)'
      BY <1>5, <2>5, <2>6, <2>9 DEF UpdateHolds
    <2>11. ClaimHolds(c)' /\ c \in ExpenseClaims
      <3>1. c \notin RowsRead /\ c \notin NetRead /\ c \notin Suggested
        BY <2>8 DEF Updates, RowsRead, NetRead, Suggested
      <3> QED BY <2>8, <2>10, <3>1 DEF ClaimHolds, ExpenseClaims
    <2> QED BY <1>4, <2>3, <2>7, <2>11, ReadKeepsOthers DEF ExpensesKept
  <1> QED BY <1>6, <1>7 DEF BeginUpdate

(* BeginPayment keeps the invariant.                                       *)
LEMMA BeginPaymentKeeps ==
    ASSUME ExpensesKept, NEW u \in Spenders, BeginPayment(u)
    PROVE  ExpensesKept'
  <1>1. PICK c : c = [phase |-> "paying", rows |-> expenses, raced |-> FALSE]
    OBVIOUS
  <1>2. UNCHANGED <<expenses, shares, settlements, racedRows>> /\ Claim(u, c)
    BY <1>1 DEF BeginPayment
  <1>3. c \in RowsRead
    BY <1>1 DEF RowsRead, ExpensesKept, TypesKept
  <1>4. c \notin Updates /\ c \notin NetRead /\ c \notin Suggested
    BY <1>3 DEF Updates, RowsRead, NetRead, Suggested
  <1>5. RowsHold(c)'
    BY <1>1, <1>2 DEF RowsHold
  <1>6. ClaimHolds(c)' /\ c \in ExpenseClaims
    BY <1>3, <1>4, <1>5 DEF ClaimHolds, ExpenseClaims
  <1> QED BY <1>2, <1>6, ReadKeepsOthers DEF ExpensesKept

(* ReadShares keeps the invariant.                                         *)
LEMMA ReadSharesKeeps ==
    ASSUME ExpenseAssumption, ExpensesKept, NEW u \in Spenders, ReadShares(u)
    PROVE  ExpensesKept'
  <1>1. PICK c \in ExpenseClaims : c = claims[u]
    BY DEF ExpensesKept, TypesKept
  <1>2. c \in RowsRead /\ RowsHold(c)
    <2>1. c.phase = "paying" /\ "rows" \in DOMAIN c /\ ClaimHolds(c)
      BY <1>1 DEF ReadShares, ExpensesKept, ClaimsHold
    <2>2. c \in RowsRead
      BY <2>1, ClaimKinds
    <2> QED BY <2>1, <2>2 DEF ClaimHolds
  <1>3. PICK net : net = NetBefore(c.rows, shares)
    OBVIOUS
  <1>4. net \in Nets /\ c.raced \in BOOLEAN
    <2>1. c.rows \in Seq(ExpenseRows) /\ shares \in Seq(Shares) /\ c.raced \in BOOLEAN
      BY <1>2 DEF RowsRead, ExpensesKept, TypesKept
    <2> QED BY <1>3, <2>1, NetIsInt
  <1>5. PICK d : d = [phase |-> "paying", net |-> net, raced |-> c.raced]
    OBVIOUS
  <1>6. UNCHANGED <<expenses, shares, settlements, racedRows>> /\ Claim(u, d)
    BY <1>1, <1>3, <1>5 DEF ReadShares
  <1>7. d \in NetRead
    BY <1>4, <1>5 DEF NetRead
  <1>8. d \notin Updates /\ d \notin RowsRead /\ d \notin Suggested
    BY <1>7 DEF Updates, RowsRead, NetRead, Suggested
  <1>9. NetHolds(d)'
    <2>1. d.raced = c.raced /\ d.net = net
      BY <1>5
    <2>2. c.raced \/ net = NetBefore(expenses, shares)
      BY <1>2, <1>3 DEF RowsHold
    <2>3. NetBefore(expenses, shares)' = NetBefore(expenses, shares)
      BY <1>6, SameReads
    <2> QED BY <2>1, <2>2, <2>3 DEF NetHolds
  <1>10. ClaimHolds(d)' /\ d \in ExpenseClaims
    BY <1>7, <1>8, <1>9 DEF ClaimHolds, ExpenseClaims
  <1> QED BY <1>6, <1>10, ReadKeepsOthers DEF ExpensesKept

(* ReadSettlements keeps the invariant.                                    *)
LEMMA ReadSettlementsKeeps ==
    ASSUME ExpenseAssumption, ExpensesKept, NEW u \in Spenders, ReadSettlements(u)
    PROVE  ExpensesKept'
  <1>1. PICK c \in ExpenseClaims : c = claims[u]
    BY DEF ExpensesKept, TypesKept
  <1>2. c \in NetRead /\ NetHolds(c)
    <2>1. c.phase = "paying" /\ "net" \in DOMAIN c /\ ClaimHolds(c)
      BY <1>1 DEF ReadSettlements, ExpensesKept, ClaimsHold
    <2>2. c \in NetRead
      BY <2>1, ClaimKinds
    <2> QED BY <2>1, <2>2 DEF ClaimHolds
  <1>3. PICK net : net = NetOutstanding(c.net, settlements)
    OBVIOUS
  <1>4. net \in Nets /\ c.raced \in BOOLEAN
    <2>1. c.net \in Nets /\ settlements \in Seq(SettlementRows) /\ c.raced \in BOOLEAN
      BY <1>2 DEF NetRead, ExpensesKept, TypesKept
    <2> QED BY <1>3, <2>1, OutstandingIsInt
  <1>5. PICK found : found = Range(settlementSuggestions(net))
    OBVIOUS
  <1>6. found \in SUBSET RealPayments
    BY <1>4, <1>5, SuggestionsAreReal
  <1>7. PICK d : d = [phase |-> "paying", raced |-> c.raced, suggestions |-> found]
    OBVIOUS
  <1>8. UNCHANGED <<expenses, shares, settlements, racedRows>> /\ Claim(u, d)
    BY <1>1, <1>3, <1>5, <1>7 DEF ReadSettlements
  <1>9. d \in Suggested
    BY <1>4, <1>6, <1>7 DEF Suggested
  <1>10. d \notin Updates /\ d \notin RowsRead /\ d \notin NetRead
    <2>1. d.phase = "paying" /\ DOMAIN d = {"phase", "raced", "suggestions"}
      BY <1>7
    <2>2. d \notin Updates
      BY <2>1 DEF Updates
    <2>3. d \notin RowsRead
      BY <2>1 DEF RowsRead
    <2>4. d \notin NetRead
      BY <2>1 DEF NetRead
    <2> QED BY <2>2, <2>3, <2>4
  <1>11. SuggestionsHold(d)'
    <2>1. d.raced = c.raced /\ d.suggestions = found
      BY <1>7
    <2>2. c.raced \/ net = Outstanding
      BY <1>2, <1>3 DEF NetHolds, Outstanding
    <2>3. Outstanding' = Outstanding
      BY <1>8, SameReads
    <2> QED BY <2>1, <2>2, <2>3, <1>5 DEF SuggestionsHold
  <1>12. ClaimHolds(d)' /\ d \in ExpenseClaims
    BY <1>9, <1>10, <1>11 DEF ClaimHolds, ExpenseClaims
  <1> QED BY <1>8, <1>12, ReadKeepsOthers DEF ExpensesKept

Receipt(p) == [from |-> p.from, to |-> p.to, amount |-> p.amount, status |-> "paid"]

(* What CreateTripSettlement records is a real payment and, if nothing has *)
(* overtaken it, one that the present state suggests.                      *)
LEMMA RecordedPayment ==
    ASSUME ExpensesKept, NEW u \in Spenders, CreateTripSettlement(u)
    PROVE  \E p \in RealPayments :
              /\ settlements' = Append(settlements, Receipt(p))
              /\ ~lastPaid' => p \in Range(settlementSuggestions(Outstanding))
  <1>1. PICK c \in ExpenseClaims : c = claims[u]
    BY DEF ExpensesKept, TypesKept
  <1>2. c \in Suggested /\ SuggestionsHold(c)
    <2>1. c.phase = "paying" /\ "suggestions" \in DOMAIN c /\ ClaimHolds(c)
      BY <1>1 DEF CreateTripSettlement, ExpensesKept, ClaimsHold
    <2>2. c \in Suggested
      BY <2>1, ClaimKinds
    <2> QED BY <2>1, <2>2 DEF ClaimHolds
  <1>3. PICK p \in c.suggestions :
            settlements' = Append(settlements, Receipt(p))
    BY <1>1 DEF CreateTripSettlement, Receipt
  <1>4. p \in RealPayments
    BY <1>2, <1>3 DEF Suggested
  <1>5. lastPaid' = c.raced
    BY <1>1 DEF CreateTripSettlement
  <1>6. ~lastPaid' => p \in Range(settlementSuggestions(Outstanding))
    BY <1>2, <1>3, <1>5 DEF SuggestionsHold
  <1> QED BY <1>3, <1>4, <1>6

(* CreateTripSettlement keeps the invariant.                               *)
LEMMA PaymentKeeps ==
    ASSUME ExpensesKept, NEW u \in Spenders, CreateTripSettlement(u)
    PROVE  ExpensesKept'
  <1>1. PICK p \in RealPayments :
            settlements' = Append(settlements, Receipt(p))
    BY RecordedPayment
  <1>2. PICK row : row = Receipt(p)
    OBVIOUS
  <1>3. p.from \in People /\ p.to \in People /\ p.amount \in Nat /\ p.from # p.to
    BY DEF RealPayments, Payments
  <1>4. row \in SettlementRows /\ row.from # row.to
    BY <1>2, <1>3 DEF SettlementRows, Receipt
  <1>5. /\ settlements \in Seq(SettlementRows)
        /\ \A s \in 1..Len(settlements) : settlements[s].from # settlements[s].to
    BY DEF ExpensesKept, TypesKept
  <1>6. settlements' = Append(settlements, row)
    BY <1>1, <1>2
  <1>7. /\ settlements' \in Seq(SettlementRows)
        /\ \A s \in 1..Len(settlements') : settlements'[s].from # settlements'[s].to
    BY <1>4, <1>5, <1>6
  <1>8. Overtake(u, 0) /\ UNCHANGED <<expenses, shares>>
    BY DEF CreateTripSettlement
  <1> QED BY <1>7, <1>8, SameRows

(* CancelTripSettlement keeps the invariant, and adds no row.              *)
LEMMA CancelKeeps ==
    ASSUME ExpensesKept, NEW u \in Spenders, NEW s \in DOMAIN settlements, CancelTripSettlement(u, s)
    PROVE  ExpensesKept' /\ Len(settlements') = Len(settlements)
  <1>1. /\ settlements \in Seq(SettlementRows)
        /\ \A i \in 1..Len(settlements) : settlements[i].from # settlements[i].to
    BY DEF ExpensesKept, TypesKept
  <1>2. PICK n \in Nat : n = Len(settlements)
    BY <1>1
  <1>3. s \in 1..n
    BY <1>1, <1>2
  <1>4. PICK old \in SettlementRows : old = settlements[s] /\ old.from # old.to
    BY <1>1, <1>2, <1>3
  <1>5. PICK row : row = [old EXCEPT !.status = "cancelled"]
    OBVIOUS
  <1>6. row \in SettlementRows /\ row.from # row.to
    BY <1>4, <1>5 DEF SettlementRows
  <1>7. settlements' = [settlements EXCEPT ![s] = row]
    BY <1>4, <1>5 DEF CancelTripSettlement
  <1>8. settlements' \in Seq(SettlementRows) /\ Len(settlements') = n
    <2>1. settlements \in Seq(SettlementRows) /\ n = Len(settlements)
      BY <1>1, <1>2
    <2> QED BY <2>1, <1>3, <1>6, <1>7
  <1>9. \A i \in 1..n : settlements'[i] = IF i = s THEN row ELSE settlements[i]
    <2>1. DOMAIN settlements = 1..n
      BY <1>1, <1>2
    <2> QED BY <2>1, <1>7
  <1>10. \A i \in 1..Len(settlements') : settlements'[i].from # settlements'[i].to
    BY <1>1, <1>2, <1>6, <1>8, <1>9
  <1>11. Overtake(u, 0) /\ UNCHANGED <<expenses, shares>>
    BY DEF CancelTripSettlement
  <1> QED BY <1>2, <1>8, <1>10, <1>11, SameRows

(* RefusePayment keeps the invariant.                                      *)
LEMMA RefuseKeeps ==
    ASSUME ExpensesKept, NEW u \in Spenders, RefusePayment(u)
    PROVE  ExpensesKept'
  <1>1. UNCHANGED <<expenses, shares, settlements, racedRows>> /\ Claim(u, NoClaim)
    BY DEF RefusePayment
  <1> QED BY <1>1, NoneHolds, ReadKeepsOthers DEF ExpensesKept

(* The rows hold values of their types, shares add up, and a request under *)
(* way holds what it has read unless it was overtaken.                     *)
THEOREM ExpensesAreKept == ExpenseSpec => []ExpensesKept
  <1>1. ExpenseInit => ExpensesKept
    <2>1. SUFFICES ASSUME ExpenseInit PROVE ExpensesKept
      OBVIOUS
    <2>2. NoClaim \in ExpenseClaims
      BY DEF ExpenseClaims
    <2>3. TypesKept
      BY <2>1, <2>2 DEF ExpenseInit, TypesKept
    <2>4. SumsKept
      BY <2>1 DEF ExpenseInit, SumsKept, ExpenseIds
    <2>5. ClaimsHold
      <3>1. /\ NoClaim \notin Updates
            /\ NoClaim \notin RowsRead
            /\ NoClaim \notin NetRead
            /\ NoClaim \notin Suggested
        BY DEF NoClaim, Updates, RowsRead, NetRead, Suggested
      <3> QED BY <2>1, <3>1 DEF ExpenseInit, ClaimsHold, ClaimHolds
    <2> QED BY <2>3, <2>4, <2>5 DEF ExpensesKept
  <1>2. ExpensesKept /\ [ExpenseNext]_expenseVars => ExpensesKept'
    <2>1. SUFFICES ASSUME ExpensesKept, [ExpenseNext]_expenseVars PROVE ExpensesKept'
      OBVIOUS
    <2>2. CASE UNCHANGED expenseVars
      BY <2>1, <2>2 DEF expenseVars, ExpensesKept, TypesKept, SumsKept, ClaimsHold, ClaimHolds, UpdateHolds,
                        RowsHold, NetHolds, SuggestionsHold, ExpenseIds, Outstanding
    <2>3. ASSUME NEW u \in Spenders, CreateTripExpense(u) PROVE ExpensesKept'
      BY <2>1, <2>3, CreateExpenseKeeps, ExpenseAssumption
    <2>4. ASSUME NEW u \in Spenders, UpdateTripExpenseWithParticipants(u) PROVE ExpensesKept'
      BY <2>1, <2>4, UpdateKeeps
    <2>5. ASSUME NEW u \in Spenders, NEW e \in ExpenseIds, BeginUpdate(u, e) PROVE ExpensesKept'
      BY <2>1, <2>5, BeginUpdateKeeps, ExpenseAssumption
    <2>6. ASSUME NEW u \in Spenders, NEW e \in ExpenseIds, DeleteTripExpense(u, e) PROVE ExpensesKept'
      BY <2>1, <2>6, DeleteExpenseKeeps
    <2>7. ASSUME NEW u \in Spenders, BeginPayment(u) PROVE ExpensesKept'
      BY <2>1, <2>7, BeginPaymentKeeps
    <2>8. ASSUME NEW u \in Spenders, ReadShares(u) PROVE ExpensesKept'
      BY <2>1, <2>8, ReadSharesKeeps, ExpenseAssumption
    <2>9. ASSUME NEW u \in Spenders, ReadSettlements(u) PROVE ExpensesKept'
      BY <2>1, <2>9, ReadSettlementsKeeps, ExpenseAssumption
    <2>10. ASSUME NEW u \in Spenders, CreateTripSettlement(u) PROVE ExpensesKept'
      BY <2>1, <2>10, PaymentKeeps
    <2>11. ASSUME NEW u \in Spenders, RefusePayment(u) PROVE ExpensesKept'
      BY <2>1, <2>11, RefuseKeeps
    <2>12. ASSUME NEW u \in Spenders, NEW s \in DOMAIN settlements, CancelTripSettlement(u, s)
           PROVE  ExpensesKept'
      BY <2>1, <2>12, CancelKeeps
    <2> QED
      BY <2>1, <2>2, <2>3, <2>4, <2>5, <2>6, <2>7, <2>8, <2>9, <2>10, <2>11, <2>12 DEF ExpenseNext
  <1> QED BY <1>1, <1>2, PTL DEF ExpenseSpec

(* What is outstanding is an integer for everyone.                         *)
LEMMA OutstandingTyped ==
    ASSUME ExpenseAssumption, ExpensesKept
    PROVE  Outstanding \in Nets
  <1>1. expenses \in Seq(ExpenseRows) /\ shares \in Seq(Shares) /\ settlements \in Seq(SettlementRows)
    BY DEF ExpensesKept, TypesKept
  <1>2. NetBefore(expenses, shares) \in Nets
    BY <1>1, NetIsInt
  <1> QED BY <1>1, <1>2, OutstandingIsInt DEF Outstanding

(* Every row, share and settlement has values of its types.                *)
THEOREM ExpensesTyped == ExpenseSpec => []ExpenseTypeOK
  <1>1. ExpensesKept => ExpenseTypeOK
    <2>1. SUFFICES ASSUME ExpensesKept PROVE ExpenseTypeOK
      OBVIOUS
    <2>2. /\ expenses \in Seq(ExpenseRows) /\ Len(shares) = Len(expenses) /\ shares \in Seq(Shares)
          /\ settlements \in Seq(SettlementRows) /\ racedRows \in SUBSET ExpenseIds
          /\ \A s \in 1..Len(settlements) : settlements[s].from # settlements[s].to
      BY <2>1 DEF ExpensesKept, TypesKept
    <2>3. ASSUME NEW e \in ExpenseIds
          PROVE  DOMAIN shares[e] \subseteq People /\ Range(shares[e]) \subseteq Nat
      <3>1. e \in 1..Len(shares)
        BY <2>2 DEF ExpenseIds
      <3>2. shares[e] \in Shares
        BY <2>2, <3>1
      <3>3. PICK ids \in SUBSET People : shares[e] \in [ids -> Nat]
        BY <3>2 DEF Shares
      <3> QED BY <3>3 DEF Range
    <2>4. \A s \in DOMAIN settlements : settlements[s].from # settlements[s].to
      BY <2>2
    <2> QED BY <2>2, <2>3, <2>4 DEF ExpenseTypeOK, ExpenseRows, SettlementRows
  <1> QED BY <1>1, ExpensesAreKept, PTL

(* The shares of an expense that no two updates raced for never miss its   *)
(* amount, and exceed it only where a participant has no share, by the     *)
(* cents that percentages beside 100, within the tolerance, make the loop  *)
(* forget there (calculateExpenseParticipants).                            *)
THEOREM SharesAlwaysAddUp == ExpenseSpec => []SharesAddUpUnlessRaced
  <1>1. ExpensesKept => SharesAddUpUnlessRaced
    <2>1. SUFFICES ASSUME ExpensesKept PROVE SharesAddUpUnlessRaced
      OBVIOUS
    <2>2. ASSUME NEW e \in Active(expenses) \ racedRows
          PROVE  /\ ShareSum(e) >= expenses[e].amount
                 /\ ShareSum(e) =< expenses[e].amount
                       + Cardinality({id \in DOMAIN shares[e] : shares[e][id] = 0})
                         * MostForgotten(expenses[e].amount, Cardinality(DOMAIN shares[e]))
      <3>1. expenses \in Seq(ExpenseRows)
        BY <2>1 DEF ExpensesKept, TypesKept
      <3>2. e \in ExpenseIds /\ expenses[e].status = "active" /\ e \notin racedRows
        BY <3>1 DEF Active, ExpenseIds
      <3>3. AddUp(shares[e], expenses[e].amount)
        BY <2>1, <3>2 DEF ExpensesKept, SumsKept
      <3> QED BY <3>3 DEF AddUp, ShareSum
    <2> QED BY <2>2 DEF SharesAddUpUnlessRaced
  <1> QED BY <1>1, ExpensesAreKept, PTL

(* Paying all that is suggested evens out what people owe.                 *)
THEOREM SuggestionsAlwaysSettle == ExpenseSpec => []SuggestionsSettle
  <1>1. ExpensesKept => SuggestionsSettle
    <2>1. SUFFICES ASSUME ExpensesKept PROVE SuggestionsSettle
      OBVIOUS
    <2>2. Outstanding \in Nets
      BY <2>1, OutstandingTyped, ExpenseAssumption
    <2>3. Settles(Outstanding, settlementSuggestions(Outstanding))
      BY <2>2, SuggestionsSettleAny, ExpenseAssumption
    <2> QED BY <2>3 DEF Settles, SuggestionsSettle, AfterPaid, SentBy, SentTo, AmountsOf
  <1> QED BY <1>1, ExpensesAreKept, PTL

(* A payment that nothing has overtaken brings both sides nearer to zero.  *)
THEOREM PaymentsAlwaysReduceDebts == ExpenseSpec => PaymentsReduceDebts
  <1> DEFINE Reduces ==
        Len(settlements') > Len(settlements) /\ ~lastPaid' =>
          LET s == settlements'[Len(settlements')] IN
          /\ Outstanding[s.from] + s.amount =< 0
          /\ Outstanding[s.to] - s.amount >= 0
  <1>1. ExpensesKept /\ [ExpenseNext]_expenseVars => [Reduces]_expenseVars
    <2>1. SUFFICES ASSUME ExpensesKept, ExpenseNext, Len(settlements') > Len(settlements), ~lastPaid'
                   PROVE  LET s == settlements'[Len(settlements')] IN
                          /\ Outstanding[s.from] + s.amount =< 0
                          /\ Outstanding[s.to] - s.amount >= 0
      OBVIOUS
    <2>2. settlements \in Seq(SettlementRows) /\ Len(settlements) \in Nat
      BY <2>1 DEF ExpensesKept, TypesKept
    <2>3. settlements' # settlements
      BY <2>1, <2>2
    <2>4. PICK u \in Spenders : CreateTripSettlement(u)
      <3>1. PICK u \in Spenders :
               CreateTripSettlement(u) \/ (\E s \in DOMAIN settlements : CancelTripSettlement(u, s))
        BY <2>1, <2>3 DEF ExpenseNext, CreateTripExpense, UpdateTripExpenseWithParticipants, BeginUpdate,
              DeleteTripExpense, BeginPayment, ReadShares, ReadSettlements, RefusePayment
      <3>2. \A s \in DOMAIN settlements : ~ CancelTripSettlement(u, s)
        <4>1. SUFFICES ASSUME NEW s \in DOMAIN settlements, CancelTripSettlement(u, s) PROVE FALSE
          OBVIOUS
        <4>2. Len(settlements') = Len(settlements)
          BY <2>1, <4>1, CancelKeeps
        <4> QED BY <2>1, <2>2, <4>2
      <3> QED BY <3>1, <3>2
    <2>5. PICK p \in RealPayments :
              /\ settlements' = Append(settlements, Receipt(p))
              /\ ~lastPaid' => p \in Range(settlementSuggestions(Outstanding))
      BY <2>1, <2>4, RecordedPayment
    <2>6. Outstanding \in Nets
      BY <2>1, OutstandingTyped, ExpenseAssumption
    <2>7. ReducesDebt(Outstanding, p)
      BY <2>1, <2>5, <2>6, SuggestionsAreReal, ExpenseAssumption
    <2>8. PICK row : row = Receipt(p)
      OBVIOUS
    <2>9. settlements'[Len(settlements')] = row
      BY <2>2, <2>5, <2>8
    <2>10. row.from = p.from /\ row.to = p.to /\ row.amount = p.amount
      BY <2>8 DEF Receipt
    <2> QED BY <2>7, <2>9, <2>10 DEF ReducesDebt
  <1> HIDE DEF Reduces
  <1>2. []ExpensesKept /\ [][ExpenseNext]_expenseVars => [][Reduces]_expenseVars
    BY <1>1, PTL
  <1> QED BY <1>2, ExpensesAreKept, PTL DEF ExpenseSpec, PaymentsReduceDebts, Reduces
==============================================================================
