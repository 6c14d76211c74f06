-------------------------- MODULE SeqFilterProofs ---------------------------
(***************************************************************************)
(* What Pick and FlattenSeq return, for sequences of every length.         *)
(***************************************************************************)
EXTENDS SeqFilter, SequencesExt, WellFoundedInduction, TLAPS

(* Every non-empty set of naturals has a least element.                     *)
LEMMA LeastNat ==
  ASSUME NEW T, T \subseteq Nat, T # {}
  PROVE  \E n \in T : \A m \in T : n <= m
  <1> DEFINE R == {ss \in Nat \X Nat : ss[1] < ss[2]}
  <1>1. IsWellFoundedOn(OpToRel(<, Nat), Nat)
    BY NatLessThanWellFounded
  <1>2. OpToRel(<, Nat) = R
    BY DEF OpToRel
  <1>3. IsWellFoundedOn(R, Nat)
    BY <1>1, <1>2, Zenon
  <1>4. PICK n \in T : \A m \in T : ~(<<m, n>> \in R)
    <2> HIDE DEF R
    <2> QED
      BY <1>3, WFMin
  <1>5. ASSUME NEW m \in T PROVE n <= m
    <2>1. <<m, n>> \notin R
      BY <1>4
    <2>2. m \in Nat /\ n \in Nat
      OBVIOUS
    <2>3. ~(m < n)
      BY <2>1, <2>2
    <2> QED
      BY <2>2, <2>3
  <1> QED
    BY <1>5

(* Induction, on a set instead of a predicate.                              *)
LEMMA InductionTo ==
  ASSUME NEW m \in Nat, NEW T, 0 \in T, \A n \in 0..(m - 1) : n \in T => n + 1 \in T
  PROVE  0..m \subseteq T
  <1> SUFFICES ASSUME (0..m) \ T # {} PROVE FALSE
    OBVIOUS
  <1>1. PICK n \in (0..m) \ T : \A k \in (0..m) \ T : n <= k
    <2>1. (0..m) \ T \subseteq Nat
      OBVIOUS
    <2> QED
      BY <2>1, LeastNat
  <1>2. n # 0 /\ n - 1 \in 0..(m - 1)
    BY <1>1
  <1>3. n - 1 \in T
    BY <1>1, <1>2
  <1>4. (n - 1) + 1 \in T
    BY <1>2, <1>3
  <1> QED
    BY <1>1, <1>2, <1>4

-----------------------------------------------------------------------------
(* The equation of the recursive function in Pick.                          *)
PickEq(seq, I, n, g) ==
  g = [i \in 0..n |-> IF i = 0 THEN <<>>
                      ELSE IF i \in I THEN Append(g[i - 1], seq[i]) ELSE g[i - 1]]

(* It has a solution.                                                       *)
LEMMA PickEqSolvable ==
  ASSUME NEW seq, NEW I, NEW m \in Nat
  PROVE  \E g : PickEq(seq, I, m, g)
  <1> DEFINE T == {n \in Nat : \E g : PickEq(seq, I, n, g)}
  <1>1. 0 \in T
    <2>1. PickEq(seq, I, 0, [i \in 0..0 |-> <<>>])
      BY DEF PickEq
    <2> QED
      BY <2>1
  <1>2. ASSUME NEW n \in 0..(m - 1), n \in T PROVE n + 1 \in T
    <2>1. PICK g : PickEq(seq, I, n, g)
      BY <1>2
    <2> DEFINE h == [i \in 0..(n + 1) |->
                       IF i = n + 1
                       THEN IF i \in I THEN Append(g[n], seq[i]) ELSE g[n]
                       ELSE g[i]]
    <2>2. \A i \in 0..n : h[i] = g[i]
      OBVIOUS
    <2>3. \A i \in 0..(n + 1) :
            h[i] = IF i = 0 THEN <<>>
                   ELSE IF i \in I THEN Append(h[i - 1], seq[i]) ELSE h[i - 1]
      <3> SUFFICES ASSUME NEW i \in 0..(n + 1)
                   PROVE  h[i] = IF i = 0 THEN <<>>
                                 ELSE IF i \in I THEN Append(h[i - 1], seq[i]) ELSE h[i - 1]
        OBVIOUS
      <3>1. CASE i = n + 1
        BY <3>1
      <3>2. CASE i \in 0..n
        <4>1. g[i] = IF i = 0 THEN <<>>
                     ELSE IF i \in I THEN Append(g[i - 1], seq[i]) ELSE g[i - 1]
          BY <2>1, <3>2 DEF PickEq
        <4> QED
          BY <4>1, <3>2
      <3> QED
        BY <3>1, <3>2
    <2>4. PickEq(seq, I, n + 1, h)
      <3>1. DOMAIN h = 0..(n + 1)
        OBVIOUS
      <3>2. h = [i \in 0..(n + 1) |-> h[i]]
        OBVIOUS
      <3> HIDE DEF h
      <3> QED
        BY <2>3, <3>1, <3>2 DEF PickEq
    <2> QED
      BY <2>4
  <1>3. 0..m \subseteq T
    <2> HIDE DEF T
    <2> QED
      BY <1>1, <1>2, InductionTo
  <1> QED
    BY <1>3

(* Pick is the last value of a solution, value by value.                    *)
LEMMA PickSolves ==
  ASSUME NEW seq, NEW I, Len(seq) \in Nat
  PROVE  \E g : /\ g[0] = <<>>
                /\ \A n \in 0..(Len(seq) - 1) :
                     g[n + 1] = IF n + 1 \in I THEN Append(g[n], seq[n + 1]) ELSE g[n]
                /\ Pick(seq, I) = g[Len(seq)]
  <1> DEFINE g == CHOOSE g : PickEq(seq, I, Len(seq), g)
  <1>1. PickEq(seq, I, Len(seq), g)
    BY PickEqSolvable
  <1>2. Pick(seq, I) = g[Len(seq)]
    BY DEF Pick, PickEq
  <1> HIDE DEF g
  <1>3. \A i \in 0..Len(seq) :
          g[i] = IF i = 0 THEN <<>>
                 ELSE IF i \in I THEN Append(g[i - 1], seq[i]) ELSE g[i - 1]
    BY <1>1 DEF PickEq
  <1>4. g[0] = <<>>
    BY <1>3
  <1>5. ASSUME NEW n \in 0..(Len(seq) - 1)
        PROVE  g[n + 1] = IF n + 1 \in I THEN Append(g[n], seq[n + 1]) ELSE g[n]
    <2>1. n + 1 \in 0..Len(seq) /\ n + 1 # 0 /\ (n + 1) - 1 = n
      OBVIOUS
    <2> QED
      BY <1>3, <2>1
  <1> QED
    BY <1>2, <1>4, <1>5

(* f lists the indices J in increasing order.                               *)
Enumerates(f, n, J) ==
  /\ f \in [1..n -> J]
  /\ \A a, b \in 1..n : a < b => f[a] < f[b]
  /\ \A j \in J : \E a \in 1..n : f[a] = j

(* out holds the elements of seq at the indices J, in their order.          *)
Selects(out, seq, J) ==
  \E f : Enumerates(f, Len(out), J) /\ \A a \in 1..Len(out) : out[a] = seq[f[a]]

(* One more element.                                                        *)
LEMMA SelectsMore ==
  ASSUME NEW S, NEW out \in Seq(S), NEW seq \in Seq(S), NEW J,
         NEW n \in 1..Len(seq), J \subseteq 1..(n - 1), Selects(out, seq, J)
  PROVE  Selects(Append(out, seq[n]), seq, J \cup {n})
  <1>1. PICK f : Enumerates(f, Len(out), J) /\ \A a \in 1..Len(out) : out[a] = seq[f[a]]
    BY DEF Selects
  <1> DEFINE l == Len(out)
             new == Append(out, seq[n])
             h == [a \in 1..(l + 1) |-> IF a = l + 1 THEN n ELSE f[a]]
  <1>2. /\ l \in Nat /\ Len(new) = l + 1 /\ new[l + 1] = seq[n]
        /\ \A a \in 1..l : new[a] = out[a]
    OBVIOUS
  <1>3. f \in [1..l -> J] /\ \A a \in 1..l : f[a] < n
    <2>1. f \in [1..l -> J]
      BY <1>1 DEF Enumerates
    <2>2. ASSUME NEW a \in 1..l PROVE f[a] < n
      <3>1. f[a] \in J
        BY <2>1
      <3>2. f[a] \in 1..(n - 1)
        BY <3>1, Zenon
      <3>3. Len(seq) \in Nat
        OBVIOUS
      <3>4. n \in Int
        BY <3>3
      <3> QED
        BY <3>2, <3>4
    <2> QED
      BY <2>1, <2>2
  <1>4. h \in [1..(l + 1) -> J \cup {n}]
    BY <1>2, <1>3
  <1>5. \A a, b \in 1..(l + 1) : a < b => h[a] < h[b]
    <2> SUFFICES ASSUME NEW a \in 1..(l + 1), NEW b \in 1..(l + 1), a < b PROVE h[a] < h[b]
      OBVIOUS
    <2>1. a \in 1..l /\ h[a] = f[a]
      BY <1>2
    <2>2. CASE b = l + 1
      BY <2>1, <2>2, <1>3
    <2>3. CASE b # l + 1
      <3>1. b \in 1..l /\ h[b] = f[b]
        BY <1>2, <2>3
      <3> QED
        BY <2>1, <3>1, <1>1 DEF Enumerates
    <2> QED
      BY <2>2, <2>3
  <1>6. \A j \in J \cup {n} : \E a \in 1..(l + 1) : h[a] = j
    <2> SUFFICES ASSUME NEW j \in J \cup {n} PROVE \E a \in 1..(l + 1) : h[a] = j
      OBVIOUS
    <2>1. CASE j = n
      <3>1. l + 1 \in 1..(l + 1) /\ h[l + 1] = n
        BY <1>2
      <3> QED
        BY <2>1, <3>1
    <2>2. CASE j \in J
      <3>1. PICK a \in 1..l : f[a] = j
        BY <1>1, <2>2 DEF Enumerates
      <3>2. a \in 1..(l + 1) /\ h[a] = j
        BY <1>2, <3>1
      <3> QED
        BY <3>2
    <2> QED
      BY <2>1, <2>2
  <1>7. \A a \in 1..(l + 1) : new[a] = seq[h[a]]
    BY <1>1, <1>2
  <1>8. Enumerates(h, Len(new), J \cup {n})
    <2> HIDE DEF h
    <2> QED
      BY <1>2, <1>4, <1>5, <1>6 DEF Enumerates
  <1> HIDE DEF h, new
  <1> QED
    BY <1>2, <1>7, <1>8 DEF Selects, new

(* Pick returns a sequence of what it was asked for.                        *)
LEMMA PickSelects ==
  ASSUME NEW S, NEW seq \in Seq(S), NEW I \in SUBSET (1..Len(seq))
  PROVE  Pick(seq, I) \in Seq(S) /\ Selects(Pick(seq, I), seq, I)
  <1>0. Len(seq) \in Nat
    OBVIOUS
  <1>1. PICK g : /\ g[0] = <<>>
                 /\ \A n \in 0..(Len(seq) - 1) :
                      g[n + 1] = IF n + 1 \in I THEN Append(g[n], seq[n + 1]) ELSE g[n]
                 /\ Pick(seq, I) = g[Len(seq)]
    BY <1>0, PickSolves
  <1> DEFINE P(n) == g[n] \in Seq(S) /\ Selects(g[n], seq, I \cap (1..n))
             T == {n \in Nat : P(n)}
  <1>2. P(0)
    <2>1. I \cap (1..0) = {} /\ Len(<<>>) = 0
      OBVIOUS
    <2>2. Enumerates(<<>>, 0, {})
      BY DEF Enumerates
    <2>3. Selects(<<>>, seq, {})
      BY <2>1, <2>2 DEF Selects
    <2> QED
      BY <1>1, <2>1, <2>3
  <1>3. ASSUME NEW n \in 0..(Len(seq) - 1), P(n) PROVE P(n + 1)
    <2>1. g[n + 1] = IF n + 1 \in I THEN Append(g[n], seq[n + 1]) ELSE g[n]
      BY <1>1
    <2>2. n + 1 \in 1..Len(seq) /\ seq[n + 1] \in S
      BY <1>0
    <2>3. CASE n + 1 \in I
      <3>1. I \cap (1..(n + 1)) = (I \cap (1..n)) \cup {n + 1}
        BY <2>3
      <3>2. I \cap (1..n) \subseteq 1..((n + 1) - 1)
        OBVIOUS
      <3>3. Selects(Append(g[n], seq[n + 1]), seq, (I \cap (1..n)) \cup {n + 1})
        BY <1>3, <2>2, <3>2, SelectsMore
      <3>4. Append(g[n], seq[n + 1]) \in Seq(S)
        BY <1>3, <2>2
      <3> QED
        BY <2>1, <2>3, <3>1, <3>3, <3>4
    <2>4. CASE n + 1 \notin I
      <3>1. I \cap (1..(n + 1)) = I \cap (1..n)
        BY <2>4
      <3> QED
        BY <1>3, <2>1, <2>4, <3>1
    <2> QED
      BY <2>3, <2>4
  <1>4. P(Len(seq))
    <2> HIDE DEF P
    <2>1. 0 \in T /\ \A n \in 0..(Len(seq) - 1) : n \in T => n + 1 \in T
      BY <1>2, <1>3
    <2>2. 0..Len(seq) \subseteq T
      <3> HIDE DEF T
      <3> QED
        BY <1>0, <2>1, InductionTo
    <2> QED
      BY <1>0, <2>2
  <1>5. I \cap (1..Len(seq)) = I
    OBVIOUS
  <1> QED
    BY <1>1, <1>4, <1>5

-----------------------------------------------------------------------------
(* The equation of the recursive function in FlattenSeq.                    *)
FlattenEq(ss, n, g) ==
  g = [i \in 1..n |-> IF i = 1 THEN ss[i] ELSE g[i - 1] \o ss[i]]

(* It has a solution.                                                       *)
LEMMA FlattenEqSolvable ==
  ASSUME NEW ss, NEW m \in Nat
  PROVE  \E g : FlattenEq(ss, m, g)
  <1> DEFINE P(n) == \E g : FlattenEq(ss, n, g)
             T == {n \in Nat : P(n)}
  <1>1. P(0)
    <2>1. FlattenEq(ss, 0, [i \in 1..0 |-> ss[i]])
      BY DEF FlattenEq
    <2> QED
      BY <2>1
  <1>2. ASSUME NEW n \in 0..(m - 1), P(n) PROVE P(n + 1)
    <2>1. PICK g : FlattenEq(ss, n, g)
      BY <1>2
    <2> DEFINE h == [i \in 1..(n + 1) |->
                       IF i = n + 1
                       THEN IF i = 1 THEN ss[i] ELSE g[n] \o ss[i]
                       ELSE g[i]]
    <2>2. \A i \in 1..n : h[i] = g[i]
      OBVIOUS
    <2>3. \A i \in 1..(n + 1) : h[i] = IF i = 1 THEN ss[i] ELSE h[i - 1] \o ss[i]
      <3> SUFFICES ASSUME NEW i \in 1..(n + 1)
                   PROVE  h[i] = IF i = 1 THEN ss[i] ELSE h[i - 1] \o ss[i]
        OBVIOUS
      <3>1. CASE i = n + 1
        BY <3>1
      <3>2. CASE i \in 1..n
        <4>1. g[i] = IF i = 1 THEN ss[i] ELSE g[i - 1] \o ss[i]
          BY <2>1, <3>2 DEF FlattenEq
        <4> QED
          BY <4>1, <3>2
      <3> QED
        BY <3>1, <3>2
    <2>4. FlattenEq(ss, n + 1, h)
      <3>1. DOMAIN h = 1..(n + 1)
        OBVIOUS
      <3>2. h = [i \in 1..(n + 1) |-> h[i]]
        OBVIOUS
      <3> HIDE DEF h
      <3> QED
        BY <2>3, <3>1, <3>2 DEF FlattenEq
    <2> QED
      BY <2>4
  <1> HIDE DEF P
  <1>3. 0 \in T /\ \A n \in 0..(m - 1) : n \in T => n + 1 \in T
    BY <1>1, <1>2
  <1>4. 0..m \subseteq T
    <2> HIDE DEF T
    <2> QED
      BY <1>3, InductionTo
  <1>5. P(m)
    BY <1>4
  <1> QED
    BY <1>5 DEF P

(* FlattenSeq is the last value of a solution, value by value.              *)
LEMMA FlattenSolves ==
  ASSUME NEW ss, Len(ss) \in Nat, Len(ss) # 0
  PROVE  \E g : /\ g[1] = ss[1]
                /\ \A n \in 1..(Len(ss) - 1) : g[n + 1] = g[n] \o ss[n + 1]
                /\ FlattenSeq(ss) = g[Len(ss)]
  <1> DEFINE g == CHOOSE g : FlattenEq(ss, Len(ss), g)
  <1>1. FlattenEq(ss, Len(ss), g)
    BY FlattenEqSolvable
  <1>2. FlattenSeq(ss) = g[Len(ss)]
    BY DEF FlattenSeq, FlattenEq
  <1> HIDE DEF g
  <1>3. \A i \in 1..Len(ss) : g[i] = IF i = 1 THEN ss[i] ELSE g[i - 1] \o ss[i]
    BY <1>1 DEF FlattenEq
  <1>4. g[1] = ss[1]
    BY <1>3
  <1>5. ASSUME NEW n \in 1..(Len(ss) - 1) PROVE g[n + 1] = g[n] \o ss[n + 1]
    <2>1. n + 1 \in 1..Len(ss) /\ n + 1 # 1 /\ (n + 1) - 1 = n
      OBVIOUS
    <2> QED
      BY <1>3, <2>1
  <1> QED
    BY <1>2, <1>4, <1>5

(* out holds the elements of the first n sequences of ss, those of each     *)
(* after those of the ones before it: own says which one each came from.    *)
FlattensBy(own, out, ss, n) ==
  /\ own \in [1..Len(out) -> 1..n]
  /\ \A p, q \in 1..Len(out) : p <= q => own[p] <= own[q]
  /\ \A p \in 1..Len(out) : \E j \in 1..Len(ss[own[p]]) : out[p] = ss[own[p]][j]
  /\ \A i \in 1..n : \A j \in 1..Len(ss[i]) :
       \E p \in 1..Len(out) : own[p] = i /\ out[p] = ss[i][j]

Flattens(out, ss, n) == \E own : FlattensBy(own, out, ss, n)

(* One more sequence.                                                       *)
LEMMA FlattensMore ==
  ASSUME NEW S, NEW ss \in Seq(Seq(S)), NEW n \in Nat, n + 1 \in 1..Len(ss),
         NEW out \in Seq(S), Flattens(out, ss, n)
  PROVE  Flattens(out \o ss[n + 1], ss, n + 1)
  <1> DEFINE l == Len(out)
             new == out \o ss[n + 1]
             k == Len(ss[n + 1])
  <1>1. ss[n + 1] \in Seq(S)
    OBVIOUS
  <1>2. /\ l \in Nat /\ k \in Nat /\ Len(new) = l + k
        /\ \A p \in 1..l : new[p] = out[p]
        /\ \A j \in 1..k : new[l + j] = ss[n + 1][j]
    BY <1>1
  <1>3. PICK own :
          /\ own \in [1..l -> 1..n]
          /\ \A p, q \in 1..l : p <= q => own[p] <= own[q]
          /\ \A p \in 1..l : \E j \in 1..Len(ss[own[p]]) : out[p] = ss[own[p]][j]
          /\ \A i \in 1..n : \A j \in 1..Len(ss[i]) :
               \E p \in 1..l : own[p] = i /\ out[p] = ss[i][j]
    BY DEF Flattens, FlattensBy
  <1> DEFINE h == [p \in 1..(l + k) |-> IF p <= l THEN own[p] ELSE n + 1]
  <1> HIDE DEF new, k, l
  <1>o. /\ \A p \in 1..l : p \in 1..(l + k) /\ h[p] = own[p] /\ own[p] \in 1..n
        /\ \A p \in 1..(l + k) : p \in 1..l \/ (p - l \in 1..k /\ h[p] = n + 1)
        /\ \A j \in 1..k : l + j \in 1..(l + k) /\ h[l + j] = n + 1
    BY <1>2, <1>3
  <1>4. h \in [1..(l + k) -> 1..(n + 1)]
    BY <1>2, <1>3
  <1>5. \A p, q \in 1..(l + k) : p <= q => h[p] <= h[q]
    <2> SUFFICES ASSUME NEW p \in 1..(l + k), NEW q \in 1..(l + k), p <= q PROVE h[p] <= h[q]
      OBVIOUS
    <2>1. CASE q \in 1..l
      <3>1. p \in 1..l
        BY <1>2, <2>1
      <3> QED
        BY <1>3, <1>o, <2>1, <3>1
    <2>2. CASE h[q] = n + 1
      BY <1>4, <2>2
    <2> QED
      BY <1>o, <2>1, <2>2
  <1>6. \A p \in 1..(l + k) : \E j \in 1..Len(ss[h[p]]) : new[p] = ss[h[p]][j]
    <2> SUFFICES ASSUME NEW p \in 1..(l + k)
                 PROVE  \E j \in 1..Len(ss[h[p]]) : new[p] = ss[h[p]][j]
      OBVIOUS
    <2>1. CASE p \in 1..l
      <3>1. PICK j \in 1..Len(ss[own[p]]) : out[p] = ss[own[p]][j]
        BY <1>3, <2>1
      <3>2. h[p] = own[p] /\ new[p] = out[p]
        BY <1>2, <1>o, <2>1
      <3> QED
        BY <3>1, <3>2
    <2>2. CASE p - l \in 1..k /\ h[p] = n + 1
      <3>1. p = l + (p - l)
        BY <1>2
      <3>2. new[p] = ss[n + 1][p - l]
        BY <1>2, <2>2, <3>1
      <3> QED
        BY <2>2, <3>2 DEF k
    <2> QED
      BY <1>o, <2>1, <2>2
  <1>7. \A i \in 1..(n + 1) : \A j \in 1..Len(ss[i]) :
          \E p \in 1..(l + k) : h[p] = i /\ new[p] = ss[i][j]
    <2> SUFFICES ASSUME NEW i \in 1..(n + 1), NEW j \in 1..Len(ss[i])
                 PROVE  \E p \in 1..(l + k) : h[p] = i /\ new[p] = ss[i][j]
      OBVIOUS
    <2>1. CASE i \in 1..n
      <3>1. PICK p \in 1..l : own[p] = i /\ out[p] = ss[i][j]
        BY <1>3, <2>1
      <3> QED
        BY <1>2, <1>o, <3>1
    <2>2. CASE i = n + 1
      <3>1. j \in 1..k
        BY <2>2 DEF k
      <3> QED
        BY <1>2, <1>o, <2>2, <3>1
    <2> QED
      BY <2>1, <2>2
  <1>8. Flattens(new, ss, n + 1)
    <2> HIDE DEF h
    <2>1. Len(new) = l + k
      BY <1>2
    <2>2. h \in [1..Len(new) -> 1..(n + 1)]
      BY <1>4, <2>1
    <2>3. \A p, q \in 1..Len(new) : p <= q => h[p] <= h[q]
      BY <1>5, <2>1
    <2>4. \A p \in 1..Len(new) : \E j \in 1..Len(ss[h[p]]) : new[p] = ss[h[p]][j]
      BY <1>6, <2>1
    <2>5. \A i \in 1..(n + 1) : \A j \in 1..Len(ss[i]) :
            \E p \in 1..Len(new) : h[p] = i /\ new[p] = ss[i][j]
      BY <1>7, <2>1
    <2>6. FlattensBy(h, new, ss, n + 1)
      BY <2>2, <2>3, <2>4, <2>5, Zenon DEF FlattensBy
    <2> QED
      BY <2>6 DEF Flattens
  <1> QED
    BY <1>8 DEF new

(* FlattenSeq returns a sequence of all the elements.                       *)
LEMMA FlattenSeqFlattens ==
  ASSUME NEW S, NEW ss \in Seq(Seq(S))
  PROVE  FlattenSeq(ss) \in Seq(S) /\ Flattens(FlattenSeq(ss), ss, Len(ss))
  <1>0. Len(ss) \in Nat /\ \A i \in 1..Len(ss) : ss[i] \in Seq(S)
    OBVIOUS
  <1>e. <<>> \in Seq(S) /\ Flattens(<<>>, ss, 0)
    <2>1. <<>> \in [1..0 -> 1..0] /\ Len(<<>>) = 0 /\ 1..0 = {}
      OBVIOUS
    <2>2. FlattensBy(<<>>, <<>>, ss, 0)
      BY <2>1 DEF FlattensBy
    <2> QED
      BY <2>2 DEF Flattens
  <1>1. CASE Len(ss) = 0
    <2>1. FlattenSeq(ss) = ss /\ ss = <<>>
      BY <1>1 DEF FlattenSeq
    <2> QED
      BY <1>1, <1>e, <2>1
  <1>2. CASE Len(ss) # 0
    <2>1. PICK g : /\ g[1] = ss[1]
                   /\ \A n \in 1..(Len(ss) - 1) : g[n + 1] = g[n] \o ss[n + 1]
                   /\ FlattenSeq(ss) = g[Len(ss)]
      BY <1>0, <1>2, FlattenSolves
    <2> DEFINE P(n) == g[n + 1] \in Seq(S) /\ Flattens(g[n + 1], ss, n + 1)
               T == {n \in Nat : P(n)}
    <2>2. P(0)
      <3>1. 1 \in 1..Len(ss) /\ ss[1] \in Seq(S) /\ 0 + 1 = 1
        BY <1>0, <1>2
      <3>2. <<>> \o ss[1] = ss[1]
        BY <3>1
      <3>3. Flattens(<<>> \o ss[0 + 1], ss, 0 + 1)
        BY <1>e, <3>1, FlattensMore
      <3> QED
        BY <2>1, <3>1, <3>2, <3>3
    <2>3. ASSUME NEW n \in 0..((Len(ss) - 1) - 1), P(n) PROVE P(n + 1)
      <3>1. n + 1 \in 1..(Len(ss) - 1) /\ n + 1 \in Nat /\ (n + 1) + 1 \in 1..Len(ss)
        BY <1>0
      <3>2. g[(n + 1) + 1] = g[n + 1] \o ss[(n + 1) + 1]
        BY <2>1, <3>1
      <3>3. Flattens(g[n + 1] \o ss[(n + 1) + 1], ss, (n + 1) + 1)
        BY <2>3, <3>1, FlattensMore
      <3>4. g[n + 1] \o ss[(n + 1) + 1] \in Seq(S)
        BY <1>0, <2>3, <3>1
      <3> QED
        BY <3>2, <3>3, <3>4
    <2>4. P(Len(ss) - 1)
      <3> HIDE DEF P
      <3>1. 0 \in T /\ \A n \in 0..((Len(ss) - 1) - 1) : n \in T => n + 1 \in T
        BY <2>2, <2>3
      <3>2. Len(ss) - 1 \in Nat
        BY <1>0, <1>2
      <3>3. 0..(Len(ss) - 1) \subseteq T
        <4> HIDE DEF T
        <4> QED
          BY <3>1, <3>2, InductionTo
      <3> QED
        BY <3>2, <3>3
    <2>5. (Len(ss) - 1) + 1 = Len(ss)
      BY <1>0
    <2> QED
      BY <2>1, <2>4, <2>5
  <1> QED
    BY <1>1, <1>2

-----------------------------------------------------------------------------
(* g holds what is picked from each beginning of seq.                       *)
PicksBy(g, seq, I) ==
  /\ g[0] = <<>>
  /\ \A n \in 0..(Len(seq) - 1) :
       g[n + 1] = IF n + 1 \in I THEN Append(g[n], seq[n + 1]) ELSE g[n]

(* From equal beginnings the same is picked.                                *)
LEMMA PicksAgree ==
  ASSUME NEW seq, NEW I, NEW g, PicksBy(g, seq, I), Len(seq) \in Nat,
         NEW seq2, NEW I2, NEW g2, PicksBy(g2, seq2, I2), Len(seq2) \in Nat,
         NEW m \in Nat, m <= Len(seq), m <= Len(seq2),
         \A k \in 1..m : seq[k] = seq2[k] /\ (k \in I <=> k \in I2)
  PROVE  g[m] = g2[m]
  <1> DEFINE T == {n \in Nat : g[n] = g2[n]}
  <1>1. 0 \in T
    BY DEF PicksBy
  <1>2. ASSUME NEW n \in 0..(m - 1), n \in T PROVE n + 1 \in T
    <2>1. n \in 0..(Len(seq) - 1) /\ n \in 0..(Len(seq2) - 1) /\ n + 1 \in 1..m /\ n + 1 \in Nat
      OBVIOUS
    <2>2. /\ g[n + 1] = IF n + 1 \in I THEN Append(g[n], seq[n + 1]) ELSE g[n]
          /\ g2[n + 1] = IF n + 1 \in I2 THEN Append(g2[n], seq2[n + 1]) ELSE g2[n]
      BY <2>1 DEF PicksBy
    <2>3. g[n] = g2[n] /\ seq[n + 1] = seq2[n + 1] /\ (n + 1 \in I <=> n + 1 \in I2)
      BY <1>2, <2>1
    <2>4. g[n + 1] = g2[n + 1]
      BY <2>2, <2>3
    <2> QED
      BY <2>1, <2>4
  <1>3. 0..m \subseteq T
    <2> HIDE DEF T
    <2> QED
      BY <1>1, <1>2, InductionTo
  <1> QED
    BY <1>3

(* The elements of seq that are in M: Filter, with a set for a test.        *)
Keep(seq, M) == Pick(seq, {i \in DOMAIN seq : seq[i] \in M})

(* Keep, beginning by beginning.                                            *)
LEMMA KeepSolves ==
  ASSUME NEW S, NEW seq \in Seq(S), NEW M
  PROVE  /\ Keep(seq, M) \in Seq(S)
         /\ \E g : /\ PicksBy(g, seq, {i \in DOMAIN seq : seq[i] \in M})
                   /\ Keep(seq, M) = g[Len(seq)]
  <1> DEFINE I == {i \in DOMAIN seq : seq[i] \in M}
  <1>1. Len(seq) \in Nat /\ I \in SUBSET (1..Len(seq))
    OBVIOUS
  <1> HIDE DEF I
  <1>2. Pick(seq, I) \in Seq(S)
    BY <1>1, PickSelects
  <1>3. \E g : PicksBy(g, seq, I) /\ Pick(seq, I) = g[Len(seq)]
    <2>1. PICK g : /\ g[0] = <<>>
                   /\ \A n \in 0..(Len(seq) - 1) :
                        g[n + 1] = IF n + 1 \in I THEN Append(g[n], seq[n + 1]) ELSE g[n]
                   /\ Pick(seq, I) = g[Len(seq)]
      BY <1>1, PickSolves
    <2>2. PicksBy(g, seq, I)
      BY <2>1, Zenon DEF PicksBy
    <2> QED
      BY <2>1, <2>2, Zenon
  <1> QED
    BY <1>2, <1>3 DEF Keep, I

(* Nothing is kept of nothing.                                              *)
LEMMA KeepEmpty == \A M : Keep(<<>>, M) = <<>>
  <1> TAKE M
  <1>1. <<>> \in Seq({}) /\ Len(<<>>) = 0
    OBVIOUS
  <1>2. PICK g : /\ PicksBy(g, <<>>, {i \in DOMAIN <<>> : <<>>[i] \in M})
                 /\ Keep(<<>>, M) = g[Len(<<>>)]
    BY <1>1, KeepSolves, Zenon
  <1>3. g[0] = <<>>
    BY <1>2, Zenon DEF PicksBy
  <1> QED
    BY <1>1, <1>2, <1>3

(* One more element.                                                        *)
LEMMA KeepAppend ==
  ASSUME NEW S, NEW seq \in Seq(S), NEW e \in S, NEW M
  PROVE  Keep(Append(seq, e), M) = IF e \in M THEN Append(Keep(seq, M), e) ELSE Keep(seq, M)
  <1> DEFINE new == Append(seq, e)
             l == Len(seq)
             I == {i \in DOMAIN seq : seq[i] \in M}
             J == {i \in DOMAIN new : new[i] \in M}
  <1>1. /\ new \in Seq(S) /\ l \in Nat /\ Len(new) = l + 1 /\ new[l + 1] = e
        /\ DOMAIN seq = 1..l /\ DOMAIN new = 1..(l + 1)
        /\ \A k \in 1..l : new[k] = seq[k]
    OBVIOUS
  <1> HIDE DEF new
  <1>2. PICK g : PicksBy(g, seq, I) /\ Keep(seq, M) = g[l]
    BY KeepSolves, Zenon
  <1>3. PICK h : PicksBy(h, new, J) /\ Keep(new, M) = h[Len(new)]
    BY <1>1, KeepSolves, Zenon
  <1>4. \A k \in 1..l : seq[k] = new[k] /\ (k \in I <=> k \in J)
    BY <1>1
  <1>5. l + 1 \in J <=> e \in M
    BY <1>1
  <1> HIDE DEF I, J
  <1>6. g[l] = h[l]
    BY <1>1, <1>2, <1>3, <1>4, PicksAgree
  <1>7. h[l + 1] = IF l + 1 \in J THEN Append(h[l], new[l + 1]) ELSE h[l]
    <2>1. l \in 0..(Len(new) - 1)
      BY <1>1
    <2> QED
      BY <1>3, <2>1 DEF PicksBy
  <1> QED
    BY <1>1, <1>2, <1>3, <1>5, <1>6, <1>7 DEF new

(* Keeping less of what was kept.                                           *)
LEMMA KeepKeep ==
  ASSUME NEW S, NEW seq \in Seq(S), NEW A, NEW M, M \subseteq A
  PROVE  Keep(Keep(seq, A), M) = Keep(seq, M)
  <1> DEFINE l == Len(seq)
             I == {i \in DOMAIN seq : seq[i] \in A}
             J == {i \in DOMAIN seq : seq[i] \in M}
  <1>1. l \in Nat /\ DOMAIN seq = 1..l
    OBVIOUS
  <1>2. PICK g : PicksBy(g, seq, I) /\ Keep(seq, A) = g[l]
    BY KeepSolves, Zenon
  <1>3. PICK h : PicksBy(h, seq, J) /\ Keep(seq, M) = h[l]
    BY KeepSolves, Zenon
  <1> DEFINE P(n) == g[n] \in Seq(S) /\ Keep(g[n], M) = h[n]
             T == {n \in Nat : P(n)}
  <1>4. P(0)
    <2>1. g[0] = <<>> /\ h[0] = <<>>
      BY <1>2, <1>3, Zenon DEF PicksBy
    <2> QED
      BY <2>1, KeepEmpty
  <1>5. ASSUME NEW n \in 0..(l - 1), P(n) PROVE P(n + 1)
    <2> DEFINE e == seq[n + 1]
    <2>1. n + 1 \in 1..l /\ e \in S
      BY <1>1
    <2>2. (n + 1 \in I <=> e \in A) /\ (n + 1 \in J <=> e \in M)
      BY <1>1, <2>1
    <2> HIDE DEF I, J
    <2>3. /\ g[n + 1] = IF n + 1 \in I THEN Append(g[n], e) ELSE g[n]
          /\ h[n + 1] = IF n + 1 \in J THEN Append(h[n], e) ELSE h[n]
      BY <1>2, <1>3 DEF PicksBy
    <2> HIDE DEF e
    <2>4. Keep(Append(g[n], e), M) = IF e \in M THEN Append(Keep(g[n], M), e) ELSE Keep(g[n], M)
      BY <1>5, <2>1, KeepAppend
    <2>5. g[n + 1] \in Seq(S)
      BY <1>5, <2>1, <2>3
    <2>6. Keep(g[n + 1], M) = h[n + 1]
      BY <1>5, <2>2, <2>3, <2>4
    <2> QED
      BY <2>5, <2>6
  <1>6. P(l)
    <2> HIDE DEF P
    <2>1. 0 \in T /\ \A n \in 0..(l - 1) : n \in T => n + 1 \in T
      BY <1>1, <1>4, <1>5
    <2>2. 0..l \subseteq T
      <3> HIDE DEF T
      <3> QED
        BY <1>1, <2>1, InductionTo
    <2> QED
      BY <1>1, <2>2
  <1> QED
    BY <1>2, <1>3, <1>6

(* Nothing is kept of what has nothing to keep.                             *)
LEMMA KeepConcat ==
  ASSUME NEW S, NEW u \in Seq(S), NEW v \in Seq(S), NEW M, \A k \in 1..Len(v) : v[k] \notin M
  PROVE  Keep(u \o v, M) = Keep(u, M)
  <1> DEFINE new == u \o v
             l == Len(u)
             k == Len(v)
             I == {i \in DOMAIN u : u[i] \in M}
             J == {i \in DOMAIN new : new[i] \in M}
  <1>1. /\ l \in Nat /\ k \in Nat /\ new \in Seq(S) /\ Len(new) = l + k
        /\ DOMAIN u = 1..l /\ DOMAIN new = 1..(l + k)
        /\ \A i \in 1..l : new[i] = u[i]
        /\ \A i \in 1..k : new[l + i] = v[i]
    OBVIOUS
  <1> HIDE DEF new
  <1>2. PICK g : PicksBy(g, u, I) /\ Keep(u, M) = g[l]
    BY KeepSolves, Zenon
  <1>3. PICK h : PicksBy(h, new, J) /\ Keep(new, M) = h[Len(new)]
    BY <1>1, KeepSolves, Zenon
  <1>4. \A i \in 1..l : u[i] = new[i] /\ (i \in I <=> i \in J)
    BY <1>1
  <1>5. \A i \in 1..k : l + i \notin J
    BY <1>1
  <1> HIDE DEF I, J
  <1>6. g[l] = h[l]
    <2>1. l <= Len(u) /\ Len(u) \in Nat /\ l <= Len(new) /\ Len(new) \in Nat /\ l \in Nat
      BY <1>1
    <2>2. PicksBy(g, u, I) /\ PicksBy(h, new, J)
      BY <1>2, <1>3
    <2> HIDE DEF l
    <2> QED
      BY <1>4, <2>1, <2>2, PicksAgree
  <1> DEFINE T == {n \in Nat : h[l + n] = h[l]}
  <1>7. 0 \in T
    BY <1>1
  <1>8. ASSUME NEW n \in 0..(k - 1), n \in T PROVE n + 1 \in T
    <2>1. l + n \in 0..(Len(new) - 1) /\ (l + n) + 1 = l + (n + 1) /\ n + 1 \in 1..k /\ n + 1 \in Nat
      BY <1>1
    <2>2. h[(l + n) + 1] = IF (l + n) + 1 \in J THEN Append(h[l + n], new[(l + n) + 1]) ELSE h[l + n]
      BY <1>3, <2>1 DEF PicksBy
    <2>3. h[l + (n + 1)] = h[l + n]
      BY <1>5, <2>1, <2>2
    <2> QED
      BY <1>8, <2>1, <2>3
  <1>9. 0..k \subseteq T
    <2> HIDE DEF T
    <2> QED
      BY <1>1, <1>7, <1>8, InductionTo
  <1>10. h[l + k] = h[l]
    BY <1>1, <1>9
  <1> QED
    BY <1>1, <1>2, <1>3, <1>6, <1>10 DEF new

(* Nothing is kept where nothing passes.                                    *)
LEMMA KeepNone ==
  ASSUME NEW S, NEW seq \in Seq(S), NEW M, \A k \in 1..Len(seq) : seq[k] \notin M
  PROVE  Keep(seq, M) = <<>>
  <1>1. <<>> \in Seq(S) /\ <<>> \o seq = seq
    OBVIOUS
  <1>2. Keep(<<>> \o seq, M) = Keep(<<>>, M)
    BY <1>1, KeepConcat
  <1> QED
    BY <1>1, <1>2, KeepEmpty

(* What is kept passed the test.                                            *)
LEMMA KeepPasses ==
  ASSUME NEW S, NEW seq \in Seq(S), NEW M
  PROVE  \A k \in 1..Len(Keep(seq, M)) : Keep(seq, M)[k] \in M
  <1> DEFINE I == {i \in DOMAIN seq : seq[i] \in M}
  <1>1. I \in SUBSET (1..Len(seq)) /\ \A i \in I : seq[i] \in M
    OBVIOUS
  <1>2. Keep(seq, M) = Pick(seq, I)
    BY Zenon DEF Keep
  <1> HIDE DEF I
  <1>3. Selects(Pick(seq, I), seq, I)
    BY <1>1, PickSelects
  <1>4. PICK f : /\ Enumerates(f, Len(Pick(seq, I)), I)
                 /\ \A a \in 1..Len(Pick(seq, I)) : Pick(seq, I)[a] = seq[f[a]]
    BY <1>3, Zenon DEF Selects
  <1>5. \A a \in 1..Len(Pick(seq, I)) : f[a] \in I
    BY <1>4 DEF Enumerates
  <1>6. \A a \in 1..Len(Pick(seq, I)) : Pick(seq, I)[a] \in M
    BY <1>1, <1>4, <1>5
  <1> QED
    BY <1>2, <1>6, Zenon

(* All of what is appended is kept, and nothing of what it is appended to.  *)
LEMMA KeepAppended ==
  ASSUME NEW S, NEW u \in Seq(S), NEW v \in Seq(S), NEW M,
         \A k \in 1..Len(u) : u[k] \notin M, \A k \in 1..Len(v) : v[k] \in M
  PROVE  Keep(u \o v, M) = v
  <1> DEFINE new == u \o v
             l == Len(u)
             k == Len(v)
             I == {i \in DOMAIN u : u[i] \in M}
             J == {i \in DOMAIN new : new[i] \in M}
  <1>1. /\ l \in Nat /\ k \in Nat /\ new \in Seq(S) /\ Len(new) = l + k
        /\ DOMAIN u = 1..l /\ DOMAIN new = 1..(l + k)
        /\ \A i \in 1..l : new[i] = u[i]
        /\ \A i \in 1..k : new[l + i] = v[i]
        /\ v = [i \in 1..k |-> v[i]] /\ \A i \in 1..k : v[i] \in S
    OBVIOUS
  <1> HIDE DEF new
  <1>2. PICK g : PicksBy(g, u, I) /\ Keep(u, M) = g[l]
    BY KeepSolves, Zenon
  <1>3. PICK h : PicksBy(h, new, J) /\ Keep(new, M) = h[Len(new)]
    BY <1>1, KeepSolves, Zenon
  <1>4. \A i \in 1..l : u[i] = new[i] /\ (i \in I <=> i \in J)
    BY <1>1
  <1>5. \A i \in 1..k : l + i \in J
    BY <1>1
  <1> HIDE DEF I, J
  <1>6. h[l] = <<>>
    <2>1. l <= Len(u) /\ Len(u) \in Nat /\ l <= Len(new) /\ Len(new) \in Nat /\ l \in Nat
      BY <1>1
    <2>2. PicksBy(g, u, I) /\ PicksBy(h, new, J)
      BY <1>2, <1>3
    <2>3. Keep(u, M) = <<>>
      BY KeepNone
    <2>4. g[l] = h[l]
      <3> HIDE DEF l
      <3> QED
        BY <1>4, <2>1, <2>2, PicksAgree
    <2> QED
      BY <1>2, <2>3, <2>4
  <1> DEFINE w(n) == [i \in 1..n |-> v[i]]
             T == {n \in Nat : h[l + n] = w(n)}
  <1>7. 0 \in T
    BY <1>1, <1>6
  <1>8. ASSUME NEW n \in 0..(k - 1), n \in T PROVE n + 1 \in T
    <2>1. l + n \in 0..(Len(new) - 1) /\ (l + n) + 1 = l + (n + 1) /\ n + 1 \in 1..k /\ n + 1 \in Nat
      BY <1>1
    <2>2. h[(l + n) + 1] = IF (l + n) + 1 \in J THEN Append(h[l + n], new[(l + n) + 1]) ELSE h[l + n]
      BY <1>3, <2>1 DEF PicksBy
    <2>3. h[l + (n + 1)] = Append(w(n), v[n + 1])
      BY <1>1, <1>5, <1>8, <2>1, <2>2
    <2>4. Append(w(n), v[n + 1]) = w(n + 1)
      <3>1. w(n) \in Seq(S) /\ Len(w(n)) = n
        <4>1. n \in Nat /\ \A i \in 1..n : v[i] \in S
          BY <1>1
        <4>2. w(n) \in [1..n -> S]
          BY <4>1
        <4> HIDE DEF w
        <4> QED
          BY <4>1, <4>2
      <3> QED
        BY <1>1, <2>1, <3>1
    <2> QED
      BY <2>1, <2>3, <2>4
  <1>9. 0..k \subseteq T
    <2> HIDE DEF T
    <2> QED
      BY <1>1, <1>7, <1>8, InductionTo
  <1>10. h[l + k] = w(k)
    <2>1. k \in T
      <3> HIDE DEF T, w
      <3> QED
        BY <1>1, <1>9
    <2> HIDE DEF w
    <2> QED
      BY <2>1
  <1> QED
    BY <1>1, <1>3, <1>10 DEF new
=============================================================================
