--------------------------- MODULE SequenceLemmas ---------------------------
(***************************************************************************)
(* Facts about FlattenSeq, the join of a sequence of sequences.  It is a   *)
(* recursive function of its own, so its values follow from an induction   *)
(* over the numbers that is done here once.                                *)
(***************************************************************************)
EXTENDS Naturals, Sequences, SequencesExt, SequenceTheorems,
        WellFoundedInduction, TLAPS

(* Induction, for a set of numbers. *)
LEMMA Induction ==
  ASSUME NEW P \in SUBSET Nat, 0 \in P, \A n \in P : n + 1 \in P
  PROVE  P = Nat
<1> SUFFICES ASSUME P # Nat PROVE FALSE
  OBVIOUS
<1> DEFINE T == Nat \ P
           R == OpToRel(<, Nat)
<1>1. T \subseteq Nat /\ T # {}
  OBVIOUS
<1>2. PICK m \in T : \A k \in T : ~(<<k, m>> \in R)
  <2>1. IsWellFoundedOn(R, Nat)
    BY NatLessThanWellFounded
  <2> HIDE DEF T, R
  <2> QED
    BY <1>1, <2>1, WFMin
<1> HIDE DEF R
<1>3. m \in Nat /\ m # 0 /\ m - 1 \in Nat
  OBVIOUS
<1>4. m - 1 \notin P
  <2>1. (m - 1) + 1 = m
    BY <1>3
  <2> QED
    BY <1>3, <2>1
<1>5. <<m - 1, m>> \in R
  BY <1>3 DEF R, OpToRel
<1> QED
  BY <1>2, <1>3, <1>4, <1>5

(* The function f over 0 .. n has a first value and a step. *)
Recurs(f, n, base, step) ==
    f[0] = base /\ \A i \in 1 .. n : f[i] = step[i][f[i - 1]]

(* Such a function exists if the step is itself a function. *)
LEMMA RecursionExists ==
  ASSUME NEW S, NEW n \in Nat, NEW base \in S, NEW step \in [1 .. n -> [S -> S]]
  PROVE  \E f \in [0 .. n -> S] : Recurs(f, n, base, step)
<1> DEFINE P == {m \in Nat : m <= n => \E f \in [0 .. m -> S] : Recurs(f, m, base, step)}
<1>1. 0 \in P
  <2>1. [i \in 0 .. 0 |-> base] \in [0 .. 0 -> S]
        /\ Recurs([i \in 0 .. 0 |-> base], 0, base, step)
    BY DEF Recurs
  <2> QED
    BY <2>1
<1>2. ASSUME NEW m \in P PROVE m + 1 \in P
  <2> SUFFICES ASSUME m + 1 <= n
               PROVE  \E f \in [0 .. m + 1 -> S] : Recurs(f, m + 1, base, step)
    OBVIOUS
  <2>1. PICK f \in [0 .. m -> S] : Recurs(f, m, base, step)
    BY <1>2
  <2> DEFINE g == [i \in 0 .. m + 1 |-> IF i <= m THEN f[i] ELSE step[m + 1][f[m]]]
  <2>2. m \in Nat /\ m \in 0 .. m /\ f[m] \in S /\ m + 1 \in 1 .. n
    BY <2>1
  <2>3. step[m + 1][f[m]] \in S
    BY <2>2
  <2>4. g \in [0 .. m + 1 -> S] /\ g[0] = base
    BY <2>1, <2>2, <2>3 DEF Recurs
  <2>5. ASSUME NEW i \in 1 .. m + 1
        PROVE  g[i] = step[i][g[i - 1]]
    <3>1. CASE i <= m
      <4>1. i \in 1 .. m /\ i \in 0 .. m + 1 /\ i - 1 \in 0 .. m + 1 /\ i - 1 <= m
        BY <2>2, <3>1
      <4>2. g[i] = f[i] /\ g[i - 1] = f[i - 1]
        BY <3>1, <4>1
      <4> QED
        BY <2>1, <4>1, <4>2 DEF Recurs
    <3>2. CASE i = m + 1
      <4>1. ~(i <= m) /\ i \in 0 .. m + 1 /\ m \in 0 .. m + 1 /\ i - 1 = m
        BY <2>2, <3>2
      <4>2. g[i] = step[m + 1][f[m]] /\ g[m] = f[m]
        BY <2>2, <4>1
      <4> QED
        BY <3>2, <4>1, <4>2
    <3> QED
      BY <2>2, <3>1, <3>2
  <2> QED
    BY <2>4, <2>5 DEF Recurs
<1>3. P = Nat
  <2>1. P \in SUBSET Nat
    OBVIOUS
  <2> HIDE DEF P
  <2> QED
    BY <1>1, <1>2, <2>1, Induction
<1> QED
  BY <1>3

(* FlattenSeq joins the sequences from the first on. *)
LEMMA FlattenIs ==
  ASSUME NEW T, NEW s \in Seq(Seq(T)), NEW f \in [0 .. Len(s) -> Seq(T)],
         f[0] = <<>>, \A i \in 1 .. Len(s) : f[i] = f[i - 1] \o s[i]
  PROVE  FlattenSeq(s) = f[Len(s)]
<1> DEFINE n == Len(s)
           h == [i \in 1 .. n |-> f[i]]
<1>1. n \in Nat
  OBVIOUS
<1>2. CASE n = 0
  <2>1. s = <<>>
    BY <1>2
  <2> QED
    BY <1>2, <2>1 DEF FlattenSeq
<1>3. CASE n # 0
  <2>1. ASSUME NEW i \in 1 .. n
        PROVE  h[i] = IF i = 1 THEN s[i] ELSE h[i - 1] \o s[i]
    <3>1. f[i] = f[i - 1] \o s[i] /\ h[i] = f[i]
      OBVIOUS
    <3>2. CASE i = 1
      <4>1. s[i] \in Seq(T) /\ i - 1 = 0
        BY <3>2, ElementOfSeq
      <4> QED
        BY <3>1, <3>2, <4>1, ConcatEmptySeq
    <3>3. CASE i # 1
      <4>1. i - 1 \in 1 .. n
        BY <1>1, <3>3
      <4> QED
        BY <3>1, <3>3, <4>1
    <3> QED
      BY <3>2, <3>3
  <2>2. h = [i \in 1 .. n |-> IF i = 1 THEN s[i] ELSE h[i - 1] \o s[i]]
    BY <2>1
  <2>3. ASSUME NEW g, g = [i \in 1 .. n |-> IF i = 1 THEN s[i] ELSE g[i - 1] \o s[i]]
        PROVE  g = h
    <3> DEFINE P == {m \in Nat : m + 1 <= n => g[m + 1] = h[m + 1]}
    <3>1. \A i \in 1 .. n : g[i] = IF i = 1 THEN s[i] ELSE g[i - 1] \o s[i]
      BY <2>3
    <3> HIDE DEF h
    <3>2. 0 \in P
      <4>1. 1 \in 1 .. n
        BY <1>1, <1>3
      <4>2. g[1] = s[1] /\ h[1] = s[1]
        BY <2>1, <3>1, <4>1
      <4> QED
        BY <4>2
    <3>3. ASSUME NEW m \in P PROVE m + 1 \in P
      <4> SUFFICES ASSUME m + 2 <= n PROVE g[m + 2] = h[m + 2]
        OBVIOUS
      <4>1. /\ m \in Nat /\ g[m + 1] = h[m + 1]
            /\ m + 2 \in 1 .. n /\ m + 2 # 1 /\ (m + 2) - 1 = m + 1
        BY <1>1
      <4> QED
        BY <2>1, <3>1, <4>1
    <3>4. P = Nat
      <4>1. P \in SUBSET Nat
        OBVIOUS
      <4> HIDE DEF P
      <4> QED
        BY <3>2, <3>3, <4>1, Induction
    <3>5. ASSUME NEW i \in 1 .. n PROVE g[i] = h[i]
      <4>1. i - 1 \in Nat /\ (i - 1) + 1 = i /\ i <= n
        BY <1>1
      <4> QED
        BY <3>4, <4>1
    <3>6. h = [i \in 1 .. n |-> h[i]] /\ g = [i \in 1 .. n |-> g[i]]
      BY <2>2, <2>3
    <3>7. [i \in 1 .. n |-> h[i]] = [i \in 1 .. n |-> g[i]]
      BY <3>5
    <3> QED
      BY <3>6, <3>7
  <2>4. FlattenSeq(s) = h[n]
    <3> HIDE DEF h
    <3> QED
      BY <1>3, <2>2, <2>3 DEF FlattenSeq
  <2> QED
    BY <1>1, <1>3, <2>4
<1> QED
  BY <1>2, <1>3

(* There always is such a function. *)
LEMMA FlattenExists ==
  ASSUME NEW T, NEW s \in Seq(Seq(T))
  PROVE  \E f \in [0 .. Len(s) -> Seq(T)] :
            f[0] = <<>> /\ \A i \in 1 .. Len(s) : f[i] = f[i - 1] \o s[i]
<1> DEFINE n == Len(s)
           step == [i \in 1 .. n |-> [t \in Seq(T) |-> t \o s[i]]]
<1>1. n \in Nat /\ <<>> \in Seq(T)
  OBVIOUS
<1>2. step \in [1 .. n -> [Seq(T) -> Seq(T)]]
  OBVIOUS
<1>3. \A i \in 1 .. n, t \in Seq(T) : step[i][t] = t \o s[i]
  OBVIOUS
<1> HIDE DEF step, n
<1>4. PICK f \in [0 .. n -> Seq(T)] : Recurs(f, n, <<>>, step)
  <2>1. \A base \in Seq(T) : \E f \in [0 .. n -> Seq(T)] : Recurs(f, n, base, step)
    BY <1>1, <1>2, RecursionExists
  <2> QED
    BY <1>1, <2>1
<1>5. ASSUME NEW i \in 1 .. n PROVE f[i] = f[i - 1] \o s[i]
  <2>1. i - 1 \in 0 .. n
    BY <1>1
  <2> QED
    BY <1>3, <1>4, <2>1 DEF Recurs
<1> QED
  BY <1>4, <1>5 DEF n, Recurs

(* No sequences make the empty one. *)
LEMMA FlattenEmpty == FlattenSeq(<<>>) = <<>>
<1> QED
  BY EmptySeq DEF FlattenSeq

(* What they make has their elements. *)
LEMMA FlattenIsSeq ==
  ASSUME NEW T, NEW s \in Seq(Seq(T))
  PROVE  FlattenSeq(s) \in Seq(T)
<1>1. PICK f \in [0 .. Len(s) -> Seq(T)] :
         f[0] = <<>> /\ \A i \in 1 .. Len(s) : f[i] = f[i - 1] \o s[i]
  BY FlattenExists
<1>2. FlattenSeq(s) = f[Len(s)]
  BY <1>1, FlattenIs
<1>3. Len(s) \in 0 .. Len(s)
  OBVIOUS
<1> QED
  BY <1>2, <1>3

(* One more behind them comes last. *)
LEMMA FlattenAppend ==
  ASSUME NEW T, NEW s \in Seq(Seq(T)), NEW e \in Seq(T)
  PROVE  FlattenSeq(Append(s, e)) = FlattenSeq(s) \o e
<1> DEFINE n == Len(s)
<1>1. n \in Nat
  OBVIOUS
<1>2. PICK f \in [0 .. n -> Seq(T)] :
              f[0] = <<>> /\ \A i \in 1 .. n : f[i] = f[i - 1] \o s[i]
  BY FlattenExists
<1>3. FlattenSeq(s) = f[n]
  BY <1>2, FlattenIs
<1> DEFINE t == Append(s, e)
           g == [i \in 0 .. n + 1 |-> IF i <= n THEN f[i] ELSE f[n] \o e]
<1>4. /\ t \in Seq(Seq(T)) /\ Len(t) = n + 1
      /\ (\A i \in 1 .. n : t[i] = s[i]) /\ t[n + 1] = e
  BY AppendProperties
<1>5. f[n] \in Seq(T) /\ f[n] \o e \in Seq(T)
  BY <1>1
<1>6. g \in [0 .. n + 1 -> Seq(T)] /\ g[0] = <<>>
  BY <1>1, <1>2, <1>5
<1>7. ASSUME NEW i \in 1 .. n + 1 PROVE g[i] = g[i - 1] \o t[i]
  <2>1. CASE i <= n
    <3>1. i \in 1 .. n /\ i \in 0 .. n + 1 /\ i - 1 \in 0 .. n + 1 /\ i - 1 <= n
      BY <1>1, <2>1
    <3>2. g[i] = f[i] /\ g[i - 1] = f[i - 1] /\ t[i] = s[i]
      BY <1>4, <2>1, <3>1
    <3> QED
      BY <1>2, <3>1, <3>2
  <2>2. CASE i = n + 1
    <3>1. ~(i <= n) /\ i - 1 = n /\ n \in 0 .. n + 1 /\ i \in 0 .. n + 1
      BY <1>1, <2>2
    <3>2. g[i] = f[n] \o e /\ g[n] = f[n]
      BY <1>1, <3>1
    <3>3. t[i] = e
      BY <1>4, <2>2
    <3> QED
      BY <3>1, <3>2, <3>3
  <2>3. i <= n \/ i = n + 1
    BY <1>1
  <2> QED
    BY <2>1, <2>2, <2>3
<1>8. g[n + 1] = f[n] \o e
  BY <1>1
<1> HIDE DEF g, t, n
<1>9. /\ g \in [0 .. Len(t) -> Seq(T)]
      /\ \A i \in 1 .. Len(t) : g[i] = g[i - 1] \o t[i]
  BY <1>4, <1>6, <1>7
<1>10. FlattenSeq(t) = g[Len(t)]
  BY <1>4, <1>6, <1>9, FlattenIs
<1>11. FlattenSeq(t) = FlattenSeq(s) \o e
  BY <1>3, <1>4, <1>8, <1>10
<1> QED
  BY <1>11 DEF t

(* Three sequences can be joined in either order. *)
JoinsAssociate(T) == \A a, b, c \in Seq(T) : (a \o b) \o c = a \o (b \o c)

(* This is so whatever the elements. *)
LEMMA JoinAssociative == \A T : JoinsAssociate(T)
<1> QED
  BY ConcatAssociative DEF JoinsAssociate

(* One more in front of them comes first. *)
LEMMA FlattenCons ==
  ASSUME NEW T, NEW e \in Seq(T), NEW s \in Seq(Seq(T))
  PROVE  FlattenSeq(<<e>> \o s) = e \o FlattenSeq(s)
<1> DEFINE n == Len(s)
<1>1. JoinsAssociate(T)
  BY JoinAssociative
<1>2. n \in Nat
  OBVIOUS
<1>3. PICK f \in [0 .. n -> Seq(T)] :
              f[0] = <<>> /\ \A i \in 1 .. n : f[i] = f[i - 1] \o s[i]
  BY FlattenExists
<1>4. FlattenSeq(s) = f[n]
  BY <1>3, FlattenIs
<1> DEFINE t == <<e>> \o s
           g == [i \in 0 .. n + 1 |-> IF i = 0 THEN <<>> ELSE e \o f[i - 1]]
<1>5. /\ t \in Seq(Seq(T)) /\ Len(t) = n + 1
      /\ t[1] = e /\ (\A i \in 1 .. n : t[i + 1] = s[i])
  <2>1. <<e>> \in Seq(Seq(T)) /\ Len(<<e>>) = 1 /\ <<e>>[1] = e
    OBVIOUS
  <2> QED
    BY <1>2, <2>1, ConcatProperties
<1>6. g \in [0 .. n + 1 -> Seq(T)] /\ g[0] = <<>>
  BY <1>2, <1>3
<1>7. ASSUME NEW i \in 1 .. n + 1 PROVE g[i] = g[i - 1] \o t[i]
  <2>1. CASE i = 1
    <3>1. g[1] = e \o f[0] /\ g[0] = <<>>
      BY <1>2
    <3> QED
      BY <1>3, <1>5, <2>1, <3>1, ConcatEmptySeq
  <2>2. CASE i # 1
    <3>1. i - 1 \in 1 .. n /\ i - 1 \in 0 .. n + 1 /\ i \in 0 .. n + 1 /\ i # 0 /\ i - 1 # 0
          /\ (i - 1) + 1 = i /\ (i - 1) - 1 \in 0 .. n
      BY <1>2, <2>2
    <3>2. g[i] = e \o f[i - 1] /\ g[i - 1] = e \o f[(i - 1) - 1] /\ t[i] = s[i - 1]
      BY <1>5, <3>1
    <3>3. \A j \in 1 .. n : f[j] = f[j - 1] \o s[j]
      BY <1>3
    <3>4. f[i - 1] = f[(i - 1) - 1] \o s[i - 1]
      BY <3>1, <3>3
    <3>5. f[(i - 1) - 1] \in Seq(T)
      BY <3>1
    <3>6. s[i - 1] \in Seq(T)
      BY <3>1, ElementOfSeq
    <3>7. (e \o f[(i - 1) - 1]) \o s[i - 1] = e \o (f[(i - 1) - 1] \o s[i - 1])
      BY <1>1, <3>5, <3>6 DEF JoinsAssociate
    <3> QED
      BY <3>2, <3>4, <3>7
  <2> QED
    BY <2>1, <2>2
<1>8. g[n + 1] = e \o f[n]
  BY <1>2
<1> HIDE DEF g, t, n
<1>9. FlattenSeq(t) = g[Len(t)]
  BY <1>5, <1>6, <1>7, FlattenIs
<1>10. FlattenSeq(t) = e \o FlattenSeq(s)
  BY <1>4, <1>5, <1>8, <1>9
<1> QED
  BY <1>10 DEF t
=============================================================================
