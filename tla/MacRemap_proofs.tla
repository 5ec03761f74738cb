-------------------------- MODULE MacRemap_proofs --------------------------
(***************************************************************************)
(* The event tap and the virtual keyboard of macOS, for every set of keys, *)
(* rules, frames and every capacity.                                       *)
(*                                                                         *)
(* For the tap the argument is about the stream of all that was emitted:   *)
(* the reports r come back as the events T, of which the first n are typed *)
(* and the first e were seen, taken for seen or have expired.  Pending says *)
(* where in that stream the wire, the channel and the predicted echoes     *)
(* are, Claims what the keys that are down have to do with it.             *)
(*                                                                         *)
(* For the keyboard it is about the reports that are due: each is followed *)
(* by one that clears its page.                                            *)
(***************************************************************************)
EXTENDS MacRemap, VirtualKeyboard, KeyEngine_proofs, FiniteSetTheorems, WellFoundedInduction

-----------------------------------------------------------------------------
(* Induction and joined sequences *)

(* Every set of naturals that has a member has a least one.                *)
LEMMA LeastNat ==
  ASSUME NEW T, T \subseteq Nat, T # {}
  PROVE  \E n \in T : \A m \in T : n <= m
<1>1. \E x \in T : \A y \in T : ~ (<<y, x>> \in OpToRel(<, Nat))
  BY NatLessThanWellFounded, WFMin, Zenon
<1>2. PICK x \in T : \A y \in T : ~ (<<y, x>> \in OpToRel(<, Nat))
  BY <1>1
<1>3. \A y \in T : ~(y < x)
  BY <1>2 DEF OpToRel
<1>. QED BY <1>3

(* Induction for a set of naturals.                                        *)
LEMMA SetInduction ==
  ASSUME NEW S, 0 \in S, \A n \in Nat : n \in S => n + 1 \in S
  PROVE  \A n \in Nat : n \in S
<1>. DEFINE T == {n \in Nat : n \notin S}
<1>1. SUFFICES ASSUME T # {} PROVE FALSE
  OBVIOUS
<1>2. PICK n \in T : \A m \in T : n <= m
  BY <1>1, LeastNat
<1>3. n # 0 /\ n - 1 \in Nat /\ n = (n - 1) + 1 /\ ~(n <= n - 1)
  BY <1>2
<1>4. n - 1 \notin T
  BY <1>2, <1>3
<1>. QED BY <1>2, <1>3, <1>4

IsFlattening(s, f) ==
  f = [i \in 1 .. Len(s) |-> IF i = 1 THEN s[i] ELSE f[i - 1] \o s[i]]

\* f joins the first n elements of s one by one.
Joins(f, s, n) == f[0] = << >> /\ \A i \in 1 .. n : f[i] = f[i - 1] \o s[i]

(* FlattenSeq joins the elements of a sequence one after the other.        *)
LEMMA FlattenJoins ==
  ASSUME NEW A, NEW s \in Seq(Seq(A))
  PROVE  \E f \in [0 .. Len(s) -> Seq(A)] :
           Joins(f, s, Len(s)) /\ FlattenSeq(s) = f[Len(s)]
<1>0. Len(s) \in Nat /\ \A i \in 1 .. Len(s) : s[i] \in Seq(A)
  OBVIOUS
<1>1. CASE Len(s) = 0
  <2>. DEFINE f == [i \in 0 .. 0 |-> << >>]
  <2>1. s = << >>
    BY <1>1
  <2>2. FlattenSeq(s) = << >>
    BY <1>1, <2>1 DEF FlattenSeq
  <2>3. f \in [0 .. Len(s) -> Seq(A)] /\ f[0] = << >>
    BY <1>1
  <2>4. Joins(f, s, Len(s))
    BY <2>3, <1>1 DEF Joins
  <2>. QED BY <2>2, <2>3, <2>4, <1>1
<1>2. CASE Len(s) # 0
  <2>. DEFINE S == {n \in Nat : n <= Len(s) =>
                      \E f \in [0 .. n -> Seq(A)] : Joins(f, s, n)}
  <2>1. 0 \in S
    <3>. DEFINE f == [i \in 0 .. 0 |-> << >>]
    <3>1. f \in [0 .. 0 -> Seq(A)] /\ f[0] = << >>
      OBVIOUS
    <3>. HIDE DEF f
    <3>2. Joins(f, s, 0)
      BY <3>1 DEF Joins
    <3>. QED BY <3>1, <3>2
  <2>2. ASSUME NEW n \in Nat, n \in S PROVE n + 1 \in S
    <3>1. SUFFICES ASSUME n + 1 <= Len(s)
                   PROVE  \E f \in [0 .. n + 1 -> Seq(A)] : Joins(f, s, n + 1)
      OBVIOUS
    <3>2. PICK f \in [0 .. n -> Seq(A)] : Joins(f, s, n)
      BY <2>2, <3>1, <1>0
    <3>. DEFINE g == [i \in 0 .. n + 1 |-> IF i = n + 1 THEN f[n] \o s[n + 1] ELSE f[i]]
    <3>3. f[n] \o s[n + 1] \in Seq(A)
      BY <3>1, <1>0
    <3>4. g \in [0 .. n + 1 -> Seq(A)]
      BY <3>3
    <3>5. g[n + 1] = f[n] \o s[n + 1] /\ \A i \in 0 .. n : g[i] = f[i]
      <4>1. n + 1 \in 0 .. n + 1 /\ \A i \in 0 .. n : i \in 0 .. n + 1 /\ i # n + 1
        OBVIOUS
      <4>. QED BY <4>1
    <3>. HIDE DEF g
    <3>6. g[0] = << >>
      BY <3>2, <3>5 DEF Joins
    <3>7. ASSUME NEW i \in 1 .. n + 1 PROVE g[i] = g[i - 1] \o s[i]
      <4>1. CASE i = n + 1
        <5>1. g[n] = f[n] /\ (n + 1) - 1 = n
          BY <3>5
        <5>. QED BY <4>1, <3>5, <5>1
      <4>2. CASE i # n + 1
        <5>1. i \in 1 .. n /\ i \in 0 .. n /\ i - 1 \in 0 .. n
          BY <4>2
        <5>. QED BY <5>1, <3>2, <3>5 DEF Joins
      <4>. QED BY <4>1, <4>2
    <3>8. Joins(g, s, n + 1)
      BY <3>6, <3>7 DEF Joins
    <3>. QED BY <3>4, <3>8
  <2>3. Len(s) \in S
    <3>. HIDE DEF S
    <3>. QED BY <2>1, <2>2, SetInduction, <1>0
  <2>4. PICK f \in [0 .. Len(s) -> Seq(A)] : Joins(f, s, Len(s))
    BY <2>3, <1>0
  <2>. DEFINE h == [i \in 1 .. Len(s) |-> f[i]]
              g == CHOOSE x : IsFlattening(s, x)
  <2>5. IsFlattening(s, h)
    <3>1. f[1] = s[1]
      <4>1. 1 \in 1 .. Len(s) /\ 1 - 1 = 0
        BY <1>0, <1>2
      <4>2. f[1] = f[0] \o s[1] /\ f[0] = << >>
        BY <2>4, <4>1 DEF Joins
      <4>. QED BY <4>1, <4>2, <1>0
    <3>2. ASSUME NEW i \in 1 .. Len(s), i # 1 PROVE f[i] = h[i - 1] \o s[i]
      <4>1. i - 1 \in 1 .. Len(s)
        BY <3>2, <1>0
      <4>2. h[i - 1] = f[i - 1]
        BY <4>1
      <4>. QED BY <4>2, <2>4 DEF Joins
    <3>. QED BY <3>1, <3>2 DEF IsFlattening
  <2>6. IsFlattening(s, g)
    BY <2>5, Zenon
  <2>7. FlattenSeq(s) = g[Len(s)]
    BY <1>2, Zenon DEF FlattenSeq, IsFlattening
  <2>. HIDE DEF g, h
  <2>8. g[1] = s[1] /\ \A i \in 1 .. Len(s) : i # 1 => g[i] = g[i - 1] \o s[i]
    <3>1. 1 \in 1 .. Len(s)
      BY <1>0, <1>2
    <3>. DEFINE x == [i \in 1 .. Len(s) |-> IF i = 1 THEN s[i] ELSE g[i - 1] \o s[i]]
    <3>2. g = x
      BY <2>6 DEF IsFlattening
    <3>3. x[1] = s[1] /\ \A i \in 1 .. Len(s) : i # 1 => x[i] = g[i - 1] \o s[i]
      BY <3>1
    <3>. HIDE DEF x
    <3>. QED BY <3>2, <3>3
  <2>. DEFINE S2 == {n \in Nat : n + 1 <= Len(s) => g[n + 1] = f[n + 1]}
  <2>9. 0 \in S2
    <3>1. 1 \in 1 .. Len(s) /\ 1 - 1 = 0
      BY <1>0, <1>2
    <3>2. f[1] = f[0] \o s[1] /\ f[0] = << >>
      BY <2>4, <3>1 DEF Joins
    <3>3. f[1] = g[1]
      BY <3>1, <3>2, <1>0, <2>8
    <3>. QED BY <3>3
  <2>10. ASSUME NEW n \in Nat, n \in S2 PROVE n + 1 \in S2
    <3>1. SUFFICES ASSUME (n + 1) + 1 <= Len(s)
                   PROVE  g[(n + 1) + 1] = f[(n + 1) + 1]
      OBVIOUS
    <3>2. g[n + 1] = f[n + 1]
      BY <2>10, <3>1, <1>0
    <3>3. (n + 1) + 1 \in 1 .. Len(s) /\ (n + 1) + 1 # 1 /\ ((n + 1) + 1) - 1 = n + 1
      BY <3>1, <1>0
    <3>4. f[(n + 1) + 1] = f[n + 1] \o s[(n + 1) + 1]
      BY <2>4, <3>3 DEF Joins
    <3>5. g[(n + 1) + 1] = g[n + 1] \o s[(n + 1) + 1]
      BY <2>8, <3>3
    <3>. QED BY <3>2, <3>4, <3>5
  <2>11. Len(s) - 1 \in Nat /\ Len(s) - 1 \in S2
    <3>1. Len(s) - 1 \in Nat
      BY <1>0, <1>2
    <3>. HIDE DEF S2
    <3>. QED BY <2>9, <2>10, SetInduction, <3>1
  <2>12. g[Len(s)] = f[Len(s)]
    BY <2>11, <1>0
  <2>. QED BY <2>4, <2>7, <2>12
<1>. QED BY <1>1, <1>2

(* The modifiers of a mask in order: each is one of the mask, none is there *)
(* twice.                                                                  *)
LEMMA InOrderFacts ==
  ASSUME NEW mask
  PROVE  /\ InOrder(mask) \in Seq(DOMAIN ModifierUsage)
         /\ \A i \in 1 .. Len(InOrder(mask)) : InOrder(mask)[i] \in mask
         /\ \A i, j \in 1 .. Len(InOrder(mask)) :
              InOrder(mask)[i] = InOrder(mask)[j] => i = j
<1>. DEFINE D == DOMAIN ModifierOrder
            set == {i \in D : ModifierOrder[i] \in mask}
            upTo(i) == {j \in set : j <= i}
            N == Cardinality(set)
            nth(n) == CHOOSE i \in set : Cardinality({j \in set : j <= i}) = n
            c == [i \in set |-> Cardinality(upTo(i))]
<1>1. /\ D = 1 .. Len(ModifierOrder) /\ Len(ModifierOrder) \in Nat
      /\ \A i \in D : ModifierOrder[i] \in DOMAIN ModifierUsage
  BY KeyReportsAssumption
<1>2. IsFiniteSet(D)
  BY <1>1, FS_Interval
<1>3. IsFiniteSet(set) /\ N \in Nat
  <2>1. set \in SUBSET D
    OBVIOUS
  <2>2. IsFiniteSet(set)
    <3>. HIDE DEF set, D
    <3>. QED BY <1>2, <2>1, FS_Subset
  <2>. HIDE DEF set
  <2>. QED BY <2>2, FS_CardinalityType
<1>4. \A i \in set : i \in Nat
  BY <1>1
<1>. HIDE DEF set, D
<1>5. ASSUME NEW i \in set
      PROVE  IsFiniteSet(upTo(i)) /\ Cardinality(upTo(i)) \in 1 .. N
  <2>1. upTo(i) \in SUBSET set /\ upTo(i) # {}
    BY <1>4
  <2>. HIDE DEF upTo
  <2>2. IsFiniteSet(upTo(i)) /\ Cardinality(upTo(i)) <= N
    BY <2>1, <1>3, FS_Subset
  <2>3. Cardinality(upTo(i)) \in Nat /\ Cardinality(upTo(i)) # 0
    BY <2>1, <2>2, FS_CardinalityType, FS_EmptySet
  <2>. QED BY <2>2, <2>3, <1>3
<1>6. ASSUME NEW i \in set, NEW j \in set, i < j
      PROVE  Cardinality(upTo(i)) # Cardinality(upTo(j))
  <2>1. upTo(i) \in SUBSET upTo(j) /\ j \in upTo(j) /\ j \notin upTo(i)
    BY <1>4, <1>6
  <2>2. IsFiniteSet(upTo(j))
    BY <1>5
  <2>. HIDE DEF upTo
  <2>. QED BY <2>1, <2>2, FS_Subset
<1>7. c \in [set -> 1 .. N]
  BY <1>5
<1>8. \A i, j \in set : c[i] = c[j] => i = j
  <2>. HIDE DEF upTo
  <2>1. \A i, j \in set : i < j \/ j < i \/ i = j
    BY <1>4
  <2>. QED BY <1>6, <2>1
<1>9. c \in Injection(set, 1 .. N)
  BY <1>7, <1>8, Zenon DEF Injection, IsInjective
<1>10. c \in Surjection(set, 1 .. N)
  <2>1. IsFiniteSet(1 .. N) /\ Cardinality(1 .. N) = N
    BY <1>3, FS_Interval
  <2>. HIDE DEF c
  <2>. QED BY <2>1, <1>9, FS_Injection
<1>11. ASSUME NEW n \in 1 .. N
       PROVE  nth(n) \in set /\ Cardinality(upTo(nth(n))) = n
  <2>1. \E i \in set : c[i] = n
    BY <1>10 DEF Surjection
  <2>2. \E i \in set : Cardinality({j \in set : j <= i}) = n
    BY <2>1
  <2>3. nth(n) \in set /\ Cardinality({j \in set : j <= nth(n)}) = n
    BY <2>2, Zenon
  <2>. HIDE DEF nth
  <2>. QED BY <2>3
<1>12. InOrder(mask) = [n \in 1 .. N |-> ModifierOrder[nth(n)]]
  BY Zenon DEF InOrder, set, D
<1>. HIDE DEF nth, upTo
<1>13. \A n \in 1 .. N : nth(n) \in D /\ ModifierOrder[nth(n)] \in mask
  BY <1>11 DEF set
<1>14. \A n \in 1 .. N : ModifierOrder[nth(n)] \in DOMAIN ModifierUsage
  BY <1>13, <1>1
<1>15. InOrder(mask) \in Seq(DOMAIN ModifierUsage) /\ Len(InOrder(mask)) = N
  BY <1>12, <1>14, <1>3
<1>16. ASSUME NEW i \in 1 .. N, NEW j \in 1 .. N,
              ModifierOrder[nth(i)] = ModifierOrder[nth(j)]
       PROVE  i = j
  <2>1. nth(i) = nth(j)
    BY <1>16, <1>13, KeyReportsAssumption DEF D
  <2>. QED BY <2>1, <1>11
<1>. QED BY <1>12, <1>13, <1>15, <1>16

-----------------------------------------------------------------------------
(* Reports and the echoes they come back as *)

KeyEvents == [usage : Keys, isDown : BOOLEAN]

\* The event s turns the keys v that are down into w.
Turns(v, w, s) ==
  IF s.isDown THEN s.usage \notin v /\ w = v \cup {s.usage}
              ELSE s.usage \in v /\ w = v \ {s.usage}

Report(r, i) == IF i = 0 THEN {} ELSE r[i]

\* The events e are what the reports r come back as; in the end no key is
\* down.
Mirrors(r, e) ==
  /\ r \in Seq(SUBSET Keys) /\ e \in Seq(KeyEvents) /\ Len(r) = Len(e)
  /\ \A i \in 1 .. Len(e) : Turns(Report(r, i - 1), r[i], e[i])
  /\ Report(r, Len(r)) = {}

\* An output as the rules may contain it.
Usable(nk) == nk \in NativeKey /\ BitOf[nk.usage] \notin nk.modifiers

(* No report, no echo.                                                     *)
LEMMA MirrorsNothing == Mirrors(<< >>, << >>)
BY DEF Mirrors, Report

(* Typing two lists of outputs is typing one after the other.              *)
LEMMA MirrorsConcat ==
  ASSUME NEW r, NEW e, Mirrors(r, e), NEW r2, NEW e2, Mirrors(r2, e2)
  PROVE  Mirrors(r \o r2, e \o e2)
<1>. DEFINE R == r \o r2
            E == e \o e2
            n == Len(e)
            m == Len(e2)
<1>1. /\ r \in Seq(SUBSET Keys) /\ r2 \in Seq(SUBSET Keys)
      /\ e \in Seq(KeyEvents) /\ e2 \in Seq(KeyEvents)
      /\ Len(r) = n /\ Len(r2) = m /\ n \in Nat /\ m \in Nat
  BY DEF Mirrors
<1>2. /\ R \in Seq(SUBSET Keys) /\ E \in Seq(KeyEvents)
      /\ Len(R) = n + m /\ Len(E) = n + m
      /\ \A i \in 1 .. n : R[i] = r[i] /\ E[i] = e[i]
      /\ \A i \in 1 .. m : R[n + i] = r2[i] /\ E[n + i] = e2[i]
  BY <1>1
<1>3. /\ \A i \in 0 .. n : Report(R, i) = Report(r, i)
      /\ \A i \in 0 .. m : Report(R, n + i) = Report(r2, i)
  <2>1. \A i \in 0 .. n : Report(R, i) = Report(r, i)
    <3>. HIDE DEF R
    <3>. QED BY <1>2, <1>1 DEF Report
  <2>2. Report(R, n) = {}
    <3>1. Report(r, n) = {} /\ n \in 0 .. n
      BY <1>1 DEF Mirrors
    <3>. HIDE DEF R
    <3>. QED BY <2>1, <3>1
  <2>3. ASSUME NEW i \in 0 .. m PROVE Report(R, n + i) = Report(r2, i)
    <3>1. CASE i = 0
      BY <3>1, <2>2, <1>1 DEF Report
    <3>2. CASE i # 0
      <4>1. i \in 1 .. m /\ n + i # 0
        BY <3>2, <1>1
      <4>. HIDE DEF R
      <4>. QED BY <4>1, <1>2, <3>2 DEF Report
    <3>. QED BY <3>1, <3>2
  <2>. QED BY <2>1, <2>3
<1>. HIDE DEF R, E, n, m
<1>4. \A i \in 1 .. n + m : i \in 1 .. n \/ \E j \in 1 .. m : i = n + j
  <2>1. \A i \in 1 .. n + m : i \in 1 .. n \/ (i - n \in 1 .. m /\ i = n + (i - n))
    BY <1>1
  <2>. QED BY <2>1
<1>5. ASSUME NEW i \in 1 .. n + m PROVE Turns(Report(R, i - 1), R[i], E[i])
  <2>1. CASE i \in 1 .. n
    <3>1. Turns(Report(r, i - 1), r[i], e[i])
      BY <2>1 DEF Mirrors, n
    <3>2. i - 1 \in 0 .. n
      BY <2>1, <1>1
    <3>. QED BY <3>1, <3>2, <2>1, <1>2, <1>3
  <2>2. ASSUME NEW j \in 1 .. m, i = n + j PROVE Turns(Report(R, i - 1), R[i], E[i])
    <3>1. Turns(Report(r2, j - 1), r2[j], e2[j])
      BY DEF Mirrors, m
    <3>2. j - 1 \in 0 .. m /\ i - 1 = n + (j - 1)
      BY <2>2, <1>1
    <3>3. Report(R, i - 1) = Report(r2, j - 1)
      BY <3>2, <1>3
    <3>. QED BY <3>1, <3>3, <2>2, <1>2
  <2>. QED BY <2>1, <2>2, <1>4
<1>6. Report(R, Len(R)) = {}
  <2>1. Report(r2, m) = {} /\ m \in 0 .. m
    BY <1>1 DEF Mirrors
  <2>. QED BY <2>1, <1>2, <1>3
<1>7. Mirrors(R, E)
  BY <1>2, <1>5, <1>6 DEF Mirrors
<1>. QED BY <1>7 DEF R, E

\* s is a, followed by b, in a sequence of elements of A.
Joined(s, a, b, A) ==
  /\ s \in Seq(A) /\ Len(s) = Len(a) + Len(b)
  /\ \A i \in 1 .. Len(a) : s[i] = a[i]
  /\ \A i \in 1 .. Len(b) : s[Len(a) + i] = b[i]

(* Where the elements of two sequences are when they are joined.           *)
LEMMA JoinTwo ==
  ASSUME NEW A, NEW a \in Seq(A), NEW b \in Seq(A)
  PROVE  Joined(a \o b, a, b, A)
BY DEF Joined

(* Where the elements of three sequences are when they are joined.         *)
LEMMA JoinThree ==
  ASSUME NEW A, NEW a \in Seq(A), NEW b \in Seq(A), NEW c \in Seq(A),
         NEW n \in Nat, Len(a) = n, Len(b) = 2, Len(c) = n,
         NEW ab, Joined(ab, a, b, A), NEW s, Joined(s, ab, c, A)
  PROVE  /\ s \in Seq(A) /\ Len(s) = n + n + 2
         /\ \A i \in 1 .. n : s[i] = a[i]
         /\ s[n + 1] = b[1] /\ s[n + 2] = b[2]
         /\ \A i \in 1 .. n : s[n + 2 + i] = c[i]
<1>1. /\ Len(ab) = n + 2
      /\ \A i \in 1 .. n : ab[i] = a[i]
      /\ ab[n + 1] = b[1] /\ ab[n + 2] = b[2]
  BY DEF Joined
<1>. DEFINE m == n + 2
<1>2. m \in Nat /\ m = n + 2
  OBVIOUS
<1>. HIDE DEF m
<1>3. /\ s \in Seq(A) /\ Len(s) = m + n
      /\ \A i \in 1 .. m : s[i] = ab[i]
      /\ \A i \in 1 .. n : s[m + i] = c[i]
  BY <1>1, <1>2 DEF Joined
<1>4. /\ \A i \in 1 .. n : i \in 1 .. m
      /\ n + 1 \in 1 .. m /\ n + 2 \in 1 .. m /\ n + n + 2 = m + n
  BY <1>2
<1>5. \A i \in 1 .. n : s[n + 2 + i] = c[i]
  BY <1>2, <1>3
<1>6. /\ s \in Seq(A) /\ Len(s) = n + n + 2
      /\ \A i \in 1 .. n : s[i] = a[i]
      /\ s[n + 1] = b[1] /\ s[n + 2] = b[2]
  BY <1>1, <1>3, <1>4
<1>. QED BY <1>5, <1>6

(* The reports of an output come back as the echo predicted for it.        *)
LEMMA MirrorsOutput ==
  ASSUME NEW nk, Usable(nk), nk.usage \notin ConsumerUsages
  PROVE  Mirrors(KeyboardReports(nk), EchoOf(nk))
<1>. DEFINE mods == InOrder(nk.modifiers)
            N == Len(mods)
            first(n) == {ModifierUsage[mods[j]] : j \in 1 .. n}
            ups == [i \in DOMAIN mods |-> Step(ModifierUsage[mods[i]], FALSE)]
            r == KeyboardReports(nk)
            e == EchoOf(nk)
            M == N + N + 2
<1>1. /\ mods \in Seq(Modifiers) /\ N \in Nat /\ DOMAIN mods = 1 .. N
      /\ \A i \in 1 .. N : mods[i] \in nk.modifiers
      /\ \A i, j \in 1 .. N : mods[i] = mods[j] => i = j
  <2>1. DOMAIN ModifierUsage = Modifiers
    BY MacAssumption
  <2>2. mods \in Seq(Modifiers)
    BY <2>1, InOrderFacts
  <2>3. /\ \A i \in 1 .. N : mods[i] \in nk.modifiers
        /\ \A i, j \in 1 .. N : mods[i] = mods[j] => i = j
    BY InOrderFacts
  <2>. HIDE DEF mods
  <2>. QED BY <2>2, <2>3
<1>2. nk.usage \in Keys
  BY MacAssumption DEF Usable, NativeKey
<1>. HIDE DEF mods, N
<1>3. /\ \A i \in 1 .. N : /\ mods[i] \in Modifiers
                           /\ ModifierUsage[mods[i]] \in Keys
                           /\ ModifierUsage[mods[i]] # nk.usage
      /\ \A i, j \in 1 .. N : ModifierUsage[mods[i]] = ModifierUsage[mods[j]] => i = j
  <2>1. \A i \in 1 .. N : mods[i] \in Modifiers /\ mods[i] \in nk.modifiers
    BY <1>1
  <2>2. \A m \in Modifiers : ModifierUsage[m] \in Keys /\ BitOf[ModifierUsage[m]] = m
    BY MacAssumption
  <2>3. BitOf[nk.usage] \notin nk.modifiers
    BY DEF Usable
  <2>. QED BY <1>1, <2>1, <2>2, <2>3
<1>4. ASSUME NEW n \in 0 .. N, n # N
      PROVE  /\ first(n + 1) = first(n) \cup {ModifierUsage[mods[n + 1]]}
             /\ ModifierUsage[mods[n + 1]] \notin first(n)
  <2>1. n + 1 \in 1 .. N /\ \A j \in 1 .. n : j \in 1 .. N /\ j # n + 1
    BY <1>4, <1>1
  <2>2. \A j \in 1 .. n + 1 : j \in 1 .. n \/ j = n + 1
    BY <1>1
  <2>3. \A j : j \in 1 .. n => j \in 1 .. n + 1
    BY <1>1
  <2>4. n + 1 \in 1 .. n + 1
    BY <1>1
  <2>. QED BY <2>1, <2>2, <2>3, <2>4, <1>3
<1>5. \A n \in 0 .. N : first(n) \in SUBSET Keys /\ nk.usage \notin first(n)
  <2>1. \A n \in 0 .. N : \A j \in 1 .. n : j \in 1 .. N
    BY <1>1
  <2>. QED BY <2>1, <1>3
<1>6. first(0) = {}
  OBVIOUS
<1>. HIDE DEF first
<1>7. /\ r \in Seq(SUBSET Keys) /\ Len(r) = M
      /\ \A i \in 1 .. N : r[i] = first(i)
      /\ r[N + 1] = first(N) \cup {nk.usage}
      /\ r[N + 2] = first(N)
      /\ \A i \in 1 .. N : r[N + 2 + i] = first(N - i)
  <2>. DEFINE a == [i \in 1 .. N |-> first(i)]
              b == <<first(N) \cup {nk.usage}, first(N)>>
              c == [i \in 1 .. N |-> first(N - i)]
  <2>1. r = a \o b \o c
    BY DEF KeyboardReports, first, mods, N
  <2>2. /\ a \in Seq(SUBSET Keys) /\ Len(a) = N
        /\ b \in Seq(SUBSET Keys) /\ Len(b) = 2
        /\ c \in Seq(SUBSET Keys) /\ Len(c) = N
    <3>1. \A i \in 1 .. N : i \in 0 .. N /\ N - i \in 0 .. N
      BY <1>1
    <3>2. N \in Nat /\ N \in 0 .. N
      BY <1>1
    <3>3. /\ first(N) \in SUBSET Keys /\ first(N) \cup {nk.usage} \in SUBSET Keys
          /\ \A i \in 1 .. N : first(i) \in SUBSET Keys /\ first(N - i) \in SUBSET Keys
      BY <3>1, <3>2, <1>2, <1>5
    <3>4. a \in Seq(SUBSET Keys) /\ Len(a) = N
      <4>1. a \in [1 .. N -> SUBSET Keys]
        BY <3>3
      <4>. HIDE DEF a
      <4>. QED BY <3>2, <4>1
    <3>5. b \in Seq(SUBSET Keys) /\ Len(b) = 2
      BY <3>3
    <3>6. c \in Seq(SUBSET Keys) /\ Len(c) = N
      <4>1. c \in [1 .. N -> SUBSET Keys]
        BY <3>3
      <4>. HIDE DEF c
      <4>. QED BY <3>2, <4>1
    <3>. QED BY <3>4, <3>5, <3>6
  <2>3. /\ \A i \in 1 .. N : a[i] = first(i) /\ c[i] = first(N - i)
        /\ b[1] = first(N) \cup {nk.usage} /\ b[2] = first(N)
    OBVIOUS
  <2>. HIDE DEF a, b, c
  <2>4. N \in Nat
    BY <1>1
  <2>. DEFINE abc == a \o b \o c
  <2>5. /\ abc \in Seq(SUBSET Keys) /\ Len(abc) = M
        /\ \A i \in 1 .. N : abc[i] = a[i]
        /\ abc[N + 1] = b[1] /\ abc[N + 2] = b[2]
        /\ \A i \in 1 .. N : abc[N + 2 + i] = c[i]
    <3>. DEFINE ab == a \o b
    <3>1. Joined(ab, a, b, SUBSET Keys)
      BY <2>2, <2>4, JoinTwo
    <3>2. ab \in Seq(SUBSET Keys)
      BY <3>1 DEF Joined
    <3>3. Joined(abc, ab, c, SUBSET Keys)
      <4>. HIDE DEF ab
      <4>1. Joined(ab \o c, ab, c, SUBSET Keys)
        BY <2>2, <2>4, <3>2, JoinTwo
      <4>. QED BY <4>1 DEF ab
    <3>. HIDE DEF ab, abc
    <3>. QED BY <2>2, <2>4, <3>1, <3>3, JoinThree
  <2>. HIDE DEF abc
  <2>6. r = abc
    BY <2>1 DEF abc
  <2>. HIDE DEF r
  <2>. QED BY <2>3, <2>5, <2>6
<1>8. /\ e \in Seq(KeyEvents) /\ Len(e) = M
      /\ \A i \in 1 .. N : e[i] = Step(ModifierUsage[mods[i]], TRUE)
      /\ e[N + 1] = Step(nk.usage, TRUE)
      /\ e[N + 2] = Step(nk.usage, FALSE)
      /\ \A i \in 1 .. N :
           e[N + 2 + i] = Step(ModifierUsage[mods[N - i + 1]], FALSE)
  <2>. DEFINE a == [i \in DOMAIN mods |-> Step(ModifierUsage[mods[i]], TRUE)]
              b == <<Step(nk.usage, TRUE), Step(nk.usage, FALSE)>>
              c == Reverse(ups)
  <2>1. e = a \o b \o c
    BY DEF EchoOf, mods
  <2>2. ups \in Seq(KeyEvents) /\ Len(ups) = N
    <3>1. ups = [i \in 1 .. N |-> Step(ModifierUsage[mods[i]], FALSE)]
      BY <1>1
    <3>2. \A i \in 1 .. N : Step(ModifierUsage[mods[i]], FALSE) \in KeyEvents
      BY <1>3 DEF Step, KeyEvents
    <3>. HIDE DEF ups
    <3>3. ups \in [1 .. N -> KeyEvents]
      BY <3>1, <3>2
    <3>. QED BY <3>3, <1>1
  <2>3. c = [i \in 1 .. N |-> ups[(N - i) + 1]]
    <3>. HIDE DEF ups
    <3>. QED BY <2>2 DEF Reverse
  <2>4. /\ a \in Seq(KeyEvents) /\ Len(a) = N
        /\ b \in Seq(KeyEvents) /\ Len(b) = 2
    BY <1>1, <1>2, <1>3 DEF Step, KeyEvents
  <2>5. /\ \A i \in 1 .. N : a[i] = Step(ModifierUsage[mods[i]], TRUE)
        /\ b[1] = Step(nk.usage, TRUE) /\ b[2] = Step(nk.usage, FALSE)
    BY <1>1
  <2>6. \A i \in 1 .. N : N - i + 1 \in 1 .. N
    BY <1>1
  <2>7. \A i \in 1 .. N : ups[N - i + 1] = Step(ModifierUsage[mods[N - i + 1]], FALSE)
    BY <1>1, <2>6
  <2>8. \A i \in 1 .. N : ups[N - i + 1] \in KeyEvents
    <3>. HIDE DEF ups
    <3>. QED BY <2>2, <2>6
  <2>9. /\ c \in Seq(KeyEvents) /\ Len(c) = N
        /\ \A i \in 1 .. N : c[i] = Step(ModifierUsage[mods[N - i + 1]], FALSE)
    <3>. HIDE DEF ups, c
    <3>1. \A i \in 1 .. N : c[i] = ups[N - i + 1]
      BY <2>3
    <3>2. c \in Seq(KeyEvents) /\ Len(c) = N
      BY <2>3, <2>8, <1>1
    <3>. QED BY <2>7, <3>1, <3>2
  <2>. HIDE DEF a, b, c
  <2>10. N \in Nat
    BY <1>1
  <2>. DEFINE abc == a \o b \o c
  <2>11. /\ abc \in Seq(KeyEvents) /\ Len(abc) = M
         /\ \A i \in 1 .. N : abc[i] = a[i]
         /\ abc[N + 1] = b[1] /\ abc[N + 2] = b[2]
         /\ \A i \in 1 .. N : abc[N + 2 + i] = c[i]
    <3>. DEFINE ab == a \o b
    <3>1. Joined(ab, a, b, KeyEvents)
      BY <2>4, <2>9, <2>10, JoinTwo
    <3>2. ab \in Seq(KeyEvents)
      BY <3>1 DEF Joined
    <3>3. Joined(abc, ab, c, KeyEvents)
      <4>. HIDE DEF ab
      <4>1. Joined(ab \o c, ab, c, KeyEvents)
        BY <2>4, <2>9, <2>10, <3>2, JoinTwo
      <4>. QED BY <4>1 DEF ab
    <3>. HIDE DEF ab, abc
    <3>. QED BY <2>4, <2>9, <2>10, <3>1, <3>3, JoinThree
  <2>. HIDE DEF abc
  <2>12. e = abc
    BY <2>1 DEF abc
  <2>. HIDE DEF e
  <2>. QED BY <2>5, <2>9, <2>11, <2>12
<1>. HIDE DEF r, e
<1>9. \A i \in 1 .. M : \/ i \in 1 .. N \/ i = N + 1 \/ i = N + 2
                        \/ \E j \in 1 .. N : i = N + 2 + j
  <2>1. \A i \in 1 .. M : \/ i \in 1 .. N \/ i = N + 1 \/ i = N + 2
                          \/ i - (N + 2) \in 1 .. N /\ i = N + 2 + (i - (N + 2))
    BY <1>1
  <2>. QED BY <2>1
<1>10. ASSUME NEW i \in 1 .. M PROVE Turns(Report(r, i - 1), r[i], e[i])
  <2>1. CASE i \in 1 .. N
    <3>1. Report(r, i - 1) = first(i - 1)
      <4>1. i - 1 = 0 \/ (i - 1 # 0 /\ i - 1 \in 1 .. N)
        BY <2>1, <1>1
      <4>. QED BY <4>1, <1>6, <1>7 DEF Report
    <3>2. i - 1 \in 0 .. N /\ i - 1 # N /\ (i - 1) + 1 = i
      BY <2>1, <1>1
    <3>3. /\ first(i) = first(i - 1) \cup {ModifierUsage[mods[i]]}
          /\ ModifierUsage[mods[i]] \notin first(i - 1)
      BY <3>2, <1>4
    <3>4. r[i] = first(i) /\ e[i] = Step(ModifierUsage[mods[i]], TRUE)
      BY <2>1, <1>7, <1>8
    <3>. QED BY <3>1, <3>3, <3>4 DEF Turns, Step
  <2>2. CASE i = N + 1
    <3>1. Report(r, i - 1) = first(N)
      <4>1. i - 1 = N /\ (N = 0 \/ (N # 0 /\ N \in 1 .. N))
        BY <2>2, <1>1
      <4>. QED BY <4>1, <1>6, <1>7 DEF Report
    <3>2. N \in 0 .. N
      BY <1>1
    <3>3. /\ r[i] = Report(r, i - 1) \cup {nk.usage} /\ e[i] = Step(nk.usage, TRUE)
          /\ nk.usage \notin Report(r, i - 1)
      BY <3>1, <3>2, <2>2, <1>5, <1>7, <1>8
    <3>. QED BY <3>3 DEF Turns, Step
  <2>3. CASE i = N + 2
    <3>1. i - 1 = N + 1 /\ N + 1 # 0 /\ N \in 0 .. N
      BY <2>3, <1>1
    <3>2. Report(r, i - 1) = first(N) \cup {nk.usage}
      BY <3>1, <1>7 DEF Report
    <3>. QED BY <3>1, <3>2, <2>3, <1>5, <1>7, <1>8 DEF Turns, Step
  <2>4. ASSUME NEW j \in 1 .. N, i = N + 2 + j
        PROVE  Turns(Report(r, i - 1), r[i], e[i])
    <3>1. Report(r, i - 1) = first(N - j + 1)
      <4>1. CASE j = 1
        <5>1. i - 1 = N + 2 /\ N + 2 # 0 /\ N - j + 1 = N
          BY <4>1, <2>4, <1>1
        <5>. QED BY <5>1, <1>7 DEF Report
      <4>2. CASE j # 1
        <5>1. /\ j - 1 \in 1 .. N /\ i - 1 = N + 2 + (j - 1)
              /\ i - 1 # 0 /\ N - (j - 1) = N - j + 1
          BY <4>2, <2>4, <1>1
        <5>. QED BY <5>1, <1>7 DEF Report
      <4>. QED BY <4>1, <4>2
    <3>2. N - j \in 0 .. N /\ N - j # N
      BY <1>1
    <3>3. /\ first(N - j + 1) = first(N - j) \cup {ModifierUsage[mods[N - j + 1]]}
          /\ ModifierUsage[mods[N - j + 1]] \notin first(N - j)
      BY <3>2, <1>4
    <3>4. /\ r[i] = first(N - j)
          /\ e[i] = Step(ModifierUsage[mods[N - j + 1]], FALSE)
      BY <2>4, <1>7, <1>8
    <3>. QED BY <3>1, <3>3, <3>4 DEF Turns, Step
  <2>. QED BY <2>1, <2>2, <2>3, <2>4, <1>9
<1>11. Report(r, Len(r)) = {}
  <2>1. CASE N = 0
    <3>1. M = N + 2 /\ M # 0
      BY <2>1
    <3>. QED BY <3>1, <2>1, <1>6, <1>7 DEF Report
  <2>2. CASE N # 0
    <3>1. N \in 1 .. N /\ M = N + 2 + N /\ M # 0 /\ N - N = 0
      BY <2>2, <1>1
    <3>. QED BY <3>1, <1>6, <1>7 DEF Report
  <2>. QED BY <2>1, <2>2
<1>12. Mirrors(r, e)
  BY <1>7, <1>8, <1>10, <1>11 DEF Mirrors
<1>. QED BY <1>12 DEF r, e

(* The reports of a batch come back as the echo predicted for it.          *)
LEMMA MirrorsBatch ==
  ASSUME NEW b \in Seq(NativeKey), \A i \in DOMAIN b : Usable(b[i])
  PROVE  Mirrors(ReportsOfBatch(b), EchoOfBatch(b))
<1>. DEFINE N == Len(b)
            rs == [i \in DOMAIN b |->
                     IF b[i].usage \in ConsumerUsages THEN << >> ELSE KeyboardReports(b[i])]
            es == [i \in DOMAIN b |-> EchoOf(b[i])]
<1>1. N \in Nat /\ DOMAIN b = 1 .. N
  OBVIOUS
<1>2. ASSUME NEW i \in 1 .. N PROVE Mirrors(rs[i], es[i])
  <2>1. CASE b[i].usage \in ConsumerUsages
    <3>1. rs[i] = << >> /\ es[i] = << >>
      BY <2>1, <1>1 DEF EchoOf
    <3>. QED BY <3>1, MirrorsNothing
  <2>2. CASE b[i].usage \notin ConsumerUsages
    <3>1. rs[i] = KeyboardReports(b[i]) /\ es[i] = EchoOf(b[i])
      BY <2>2, <1>1
    <3>2. Usable(b[i])
      BY <1>1
    <3>. HIDE DEF rs, es
    <3>. QED BY <2>2, <3>1, <3>2, MirrorsOutput
  <2>. QED BY <2>1, <2>2
<1>3. /\ DOMAIN rs = 1 .. N /\ DOMAIN es = 1 .. N
      /\ rs = [i \in 1 .. N |-> rs[i]] /\ es = [i \in 1 .. N |-> es[i]]
  BY <1>1
<1>. HIDE DEF rs, es
<1>4. /\ rs \in Seq(Seq(SUBSET Keys)) /\ Len(rs) = N
      /\ es \in Seq(Seq(KeyEvents)) /\ Len(es) = N
  <2>1. \A i \in 1 .. N : rs[i] \in Seq(SUBSET Keys) /\ es[i] \in Seq(KeyEvents)
    BY <1>2 DEF Mirrors
  <2>2. rs \in [1 .. N -> Seq(SUBSET Keys)] /\ es \in [1 .. N -> Seq(KeyEvents)]
    BY <1>3, <2>1
  <2>. HIDE DEF N
  <2>3. rs \in Seq(Seq(SUBSET Keys)) /\ Len(rs) = N
    BY <2>2, <1>1
  <2>4. es \in Seq(Seq(KeyEvents)) /\ Len(es) = N
    BY <2>2, <1>1
  <2>. QED BY <2>3, <2>4
<1>5. PICK f \in [0 .. N -> Seq(SUBSET Keys)] : Joins(f, rs, N) /\ FlattenSeq(rs) = f[N]
  BY <1>4, FlattenJoins
<1>6. PICK g \in [0 .. N -> Seq(KeyEvents)] : Joins(g, es, N) /\ FlattenSeq(es) = g[N]
  BY <1>4, FlattenJoins
<1>. DEFINE S == {n \in Nat : n <= N => Mirrors(f[n], g[n])}
<1>7. 0 \in S
  BY <1>5, <1>6, MirrorsNothing DEF Joins
<1>8. ASSUME NEW n \in Nat, n \in S PROVE n + 1 \in S
  <2>1. SUFFICES ASSUME n + 1 <= N PROVE Mirrors(f[n + 1], g[n + 1])
    OBVIOUS
  <2>2. n + 1 \in 1 .. N /\ (n + 1) - 1 = n
    BY <2>1, <1>1
  <2>3. Mirrors(f[n], g[n])
    BY <1>8, <2>1, <1>1
  <2>4. f[n + 1] = f[n] \o rs[n + 1] /\ g[n + 1] = g[n] \o es[n + 1]
    BY <1>5, <1>6, <2>2 DEF Joins
  <2>5. Mirrors(rs[n + 1], es[n + 1])
    BY <1>2, <2>2
  <2>6. Mirrors(f[n] \o rs[n + 1], g[n] \o es[n + 1])
    BY <2>3, <2>5, MirrorsConcat
  <2>. QED BY <2>4, <2>6
<1>9. N \in S
  <2>. HIDE DEF S
  <2>. QED BY <1>7, <1>8, SetInduction, <1>1
<1>10. Mirrors(f[N], g[N])
  BY <1>9, <1>1
<1>11. ReportsOfBatch(b) = f[N] /\ EchoOfBatch(b) = g[N]
  BY <1>5, <1>6 DEF ReportsOfBatch, EchoOfBatch, rs, es
<1>. QED BY <1>10, <1>11

-----------------------------------------------------------------------------
(* What is still to be typed *)

\* All that was emitted is the reports r and the events T they come back as:
\* n are typed, the echoes of e have been seen, the reports up to q[0] are
\* written and those up to q[j] will be with the j-th batch of the channel.
Pending(r, T, n, e, q, v, w, c, x) ==
  /\ Mirrors(r, T)
  /\ n \in Nat /\ e \in Nat /\ n <= e /\ e <= Len(T)
  /\ v = Report(r, n)
  /\ w \in Seq(SUBSET Keys) /\ \A i \in 1 .. Len(w) : w[i] = r[n + i]
  /\ c \in Seq(Seq(NativeKey))
  /\ q \in [0 .. Len(c) -> 0 .. Len(T)] /\ q[0] = n + Len(w) /\ q[Len(c)] = Len(T)
  /\ \A j \in 1 .. Len(c) :
       LET posts == ReportsOfBatch(c[j]) IN
       /\ posts \in Seq(SUBSET Keys) /\ q[j] = q[j - 1] + Len(posts)
       /\ \A i \in 1 .. Len(posts) : posts[i] = r[q[j - 1] + i]
  /\ x \in Seq(KeyEvents) /\ Len(x) = Len(T) - e
  /\ \A i \in 1 .. Len(x) : x[i] = T[e + i]

(* Nothing is to be typed when nothing was emitted.                        *)
LEMMA PendingNothing ==
  Pending(<< >>, << >>, 0, 0, [i \in 0 .. 0 |-> 0], {}, << >>, << >>, << >>)
<1>. DEFINE q == [i \in 0 .. 0 |-> 0]
<1>1. q \in [0 .. 0 -> 0 .. 0] /\ q[0] = 0
  OBVIOUS
<1>. HIDE DEF q
<1>2. Pending(<< >>, << >>, 0, 0, q, {}, << >>, << >>, << >>)
  BY <1>1, MirrorsNothing DEF Pending, Report
<1>. QED BY <1>2 DEF q

(* An event taken for the next echo.                                       *)
LEMMA PendingMatched ==
  ASSUME NEW r, NEW T, NEW n, NEW e, NEW q, NEW v, NEW w, NEW c, NEW x,
         Pending(r, T, n, e, q, v, w, c, x), x # << >>
  PROVE  /\ Pending(r, T, n, e + 1, q, v, w, c, Tail(x))
         /\ e + 1 \in 1 .. Len(T) /\ T[e + 1] = Head(x)
         /\ Turns(Report(r, e), Report(r, e + 1), Head(x))
<1>1. /\ Mirrors(r, T) /\ T \in Seq(KeyEvents) /\ Len(T) \in Nat /\ e \in Nat /\ n \in Nat
      /\ x \in Seq(KeyEvents) /\ Len(x) = Len(T) - e
      /\ \A i \in 1 .. Len(x) : x[i] = T[e + i]
  <2>1. /\ Mirrors(r, T) /\ e \in Nat /\ n \in Nat
        /\ x \in Seq(KeyEvents) /\ Len(x) = Len(T) - e
        /\ \A i \in 1 .. Len(x) : x[i] = T[e + i]
    BY DEF Pending
  <2>2. T \in Seq(KeyEvents) /\ Len(T) \in Nat
    BY <2>1 DEF Mirrors
  <2>. QED BY <2>1, <2>2
<1>2. Len(x) # 0 /\ Len(x) \in Nat /\ Head(x) = x[1] /\ 1 \in 1 .. Len(x)
  BY <1>1
<1>3. e + 1 \in 1 .. Len(T) /\ T[e + 1] = Head(x)
  BY <1>1, <1>2
<1>4. Turns(Report(r, e), Report(r, e + 1), Head(x))
  <2>1. Turns(Report(r, (e + 1) - 1), r[e + 1], T[e + 1])
    BY <1>1, <1>3 DEF Mirrors
  <2>2. (e + 1) - 1 = e /\ Report(r, e + 1) = r[e + 1]
    BY <1>1 DEF Report
  <2>. QED BY <2>1, <2>2, <1>3
<1>5. /\ Tail(x) \in Seq(KeyEvents) /\ Len(Tail(x)) = Len(T) - (e + 1)
      /\ \A i \in 1 .. Len(Tail(x)) : Tail(x)[i] = T[(e + 1) + i]
  <2>1. /\ Tail(x) \in Seq(KeyEvents) /\ Len(Tail(x)) = Len(x) - 1
        /\ \A i \in 1 .. Len(Tail(x)) : Tail(x)[i] = x[i + 1]
    BY <1>1, <1>2, HeadTailProperties
  <2>2. ASSUME NEW i \in 1 .. Len(Tail(x)) PROVE Tail(x)[i] = T[(e + 1) + i]
    <3>1. i + 1 \in 1 .. Len(x) /\ (e + 1) + i = e + (i + 1)
      BY <2>1, <1>1, <1>2
    <3>2. x[i + 1] = T[e + (i + 1)]
      BY <3>1, <1>1
    <3>. QED BY <2>1, <3>1, <3>2
  <2>3. Len(Tail(x)) = Len(T) - (e + 1)
    BY <2>1, <1>1
  <2>. QED BY <2>1, <2>2, <2>3
<1>6. e + 1 \in Nat /\ n <= e + 1 /\ e + 1 <= Len(T)
  BY <1>1, <1>3 DEF Pending
<1>7. Pending(r, T, n, e + 1, q, v, w, c, Tail(x))
  BY <1>5, <1>6 DEF Pending
<1>. QED BY <1>3, <1>4, <1>7

(* The next report is typed; it is one key away from the last.             *)
LEMMA PendingNext ==
  ASSUME NEW r, NEW T, NEW n, NEW e, NEW q, NEW v, NEW w, NEW c, NEW x,
         Pending(r, T, n, e, q, v, w, c, x), w # << >>
  PROVE  /\ n + 1 \in 1 .. Len(T)
         /\ Turns(v, Head(w), T[n + 1]) /\ T[n + 1] \in KeyEvents
         /\ n = e => x # << >> /\ Head(x) = T[n + 1]
         /\ n < e => Pending(r, T, n + 1, e, q, Head(w), Tail(w), c, x)
<1>1. /\ Mirrors(r, T) /\ T \in Seq(KeyEvents) /\ Len(T) \in Nat /\ n \in Nat /\ e \in Nat
      /\ w \in Seq(SUBSET Keys) /\ \A i \in 1 .. Len(w) : w[i] = r[n + i]
      /\ v = Report(r, n)
      /\ q[0] = n + Len(w)
  <2>1. /\ Mirrors(r, T) /\ n \in Nat /\ e \in Nat
        /\ w \in Seq(SUBSET Keys) /\ \A i \in 1 .. Len(w) : w[i] = r[n + i]
        /\ v = Report(r, n)
        /\ q[0] = n + Len(w)
    BY DEF Pending
  <2>2. T \in Seq(KeyEvents) /\ Len(T) \in Nat
    BY <2>1 DEF Mirrors
  <2>. QED BY <2>1, <2>2
<1>2. Len(w) # 0 /\ Len(w) \in Nat /\ Head(w) = w[1] /\ 1 \in 1 .. Len(w)
  BY <1>1
<1>3. n + 1 \in 1 .. Len(T)
  <2>1. Len(c) \in Nat /\ q \in [0 .. Len(c) -> 0 .. Len(T)]
    BY DEF Pending
  <2>2. q[0] \in 0 .. Len(T)
    BY <2>1
  <2>. QED BY <2>2, <1>1, <1>2
<1>4. Head(w) = Report(r, n + 1) /\ Head(w) = r[n + 1]
  BY <1>1, <1>2 DEF Report
<1>5. Turns(v, Head(w), T[n + 1]) /\ T[n + 1] \in KeyEvents
  <2>1. Turns(Report(r, (n + 1) - 1), r[n + 1], T[n + 1])
    BY <1>1, <1>3 DEF Mirrors
  <2>2. (n + 1) - 1 = n
    BY <1>1
  <2>. QED BY <2>1, <2>2, <1>1, <1>3, <1>4
<1>6. ASSUME n = e PROVE x # << >> /\ Head(x) = T[n + 1]
  <2>1. /\ x \in Seq(KeyEvents) /\ Len(x) = Len(T) - e
        /\ \A i \in 1 .. Len(x) : x[i] = T[e + i]
    BY DEF Pending
  <2>2. 1 \in 1 .. Len(x) /\ Len(x) # 0
    BY <2>1, <1>1, <1>3, <1>6
  <2>3. Head(x) = x[1] /\ x # << >>
    BY <2>1, <2>2
  <2>. QED BY <2>1, <2>2, <2>3, <1>6
<1>7. ASSUME n < e PROVE Pending(r, T, n + 1, e, q, Head(w), Tail(w), c, x)
  <2>1. /\ Tail(w) \in Seq(SUBSET Keys) /\ Len(Tail(w)) = Len(w) - 1
        /\ \A i \in 1 .. Len(Tail(w)) : Tail(w)[i] = w[i + 1]
    BY <1>1, <1>2, HeadTailProperties
  <2>2. ASSUME NEW i \in 1 .. Len(Tail(w)) PROVE Tail(w)[i] = r[(n + 1) + i]
    <3>1. i + 1 \in 1 .. Len(w) /\ (n + 1) + i = n + (i + 1)
      BY <2>1, <1>1, <1>2
    <3>2. w[i + 1] = r[n + (i + 1)]
      BY <3>1, <1>1
    <3>. QED BY <2>1, <3>1, <3>2
  <2>3. q[0] = (n + 1) + Len(Tail(w))
    BY <2>1, <1>1, <1>2
  <2>4. n + 1 \in Nat /\ n + 1 <= e
    BY <1>1, <1>7
  <2>. QED BY <2>1, <2>2, <2>3, <2>4, <1>4 DEF Pending
<1>. QED BY <1>3, <1>5, <1>6, <1>7

(* A batch leaves the channel and is written.                              *)
LEMMA PendingWritten ==
  ASSUME NEW r, NEW T, NEW n, NEW e, NEW q, NEW v, NEW w, NEW c, NEW x,
         Pending(r, T, n, e, q, v, w, c, x), c # << >>
  PROVE  \E p : Pending(r, T, n, e, p, v, w \o ReportsOfBatch(Head(c)), Tail(c), x)
<1>. DEFINE posts == ReportsOfBatch(Head(c))
            w2 == w \o posts
            c2 == Tail(c)
            p == [j \in 0 .. Len(c) - 1 |-> q[j + 1]]
<1>1. /\ c \in Seq(Seq(NativeKey)) /\ Len(c) \in Nat /\ Len(c) # 0 /\ Head(c) = c[1]
      /\ c2 \in Seq(Seq(NativeKey)) /\ Len(c2) = Len(c) - 1
      /\ \A j \in 1 .. Len(c) - 1 : c2[j] = c[j + 1]
      /\ Len(c) - 1 \in Nat
  <2>1. c \in Seq(Seq(NativeKey))
    BY DEF Pending
  <2>2. /\ c2 \in Seq(Seq(NativeKey)) /\ Len(c2) = Len(c) - 1
        /\ \A j \in 1 .. Len(c2) : c2[j] = c[j + 1]
    BY <2>1, HeadTailProperties
  <2>. QED BY <2>1, <2>2
<1>2. /\ q \in [0 .. Len(c) -> 0 .. Len(T)] /\ q[0] = n + Len(w) /\ q[Len(c)] = Len(T)
      /\ n \in Nat /\ w \in Seq(SUBSET Keys)
      /\ \A i \in 1 .. Len(w) : w[i] = r[n + i]
  BY DEF Pending
<1>3. /\ posts \in Seq(SUBSET Keys) /\ q[1] = q[0] + Len(posts)
      /\ \A i \in 1 .. Len(posts) : posts[i] = r[q[0] + i]
  <2>1. 1 \in 1 .. Len(c) /\ 1 - 1 = 0
    BY <1>1
  <2>. QED BY <2>1, <1>1 DEF Pending
<1>. HIDE DEF posts
<1>4. /\ w2 \in Seq(SUBSET Keys) /\ Len(w2) = Len(w) + Len(posts)
      /\ \A i \in 1 .. Len(w2) : w2[i] = r[n + i]
  <2>1. Joined(w2, w, posts, SUBSET Keys)
    BY <1>2, <1>3, JoinTwo
  <2>. HIDE DEF w2
  <2>2. Len(w) \in Nat /\ Len(posts) \in Nat
    BY <1>2, <1>3
  <2>3. w2 \in Seq(SUBSET Keys) /\ Len(w2) = Len(w) + Len(posts)
    BY <2>1 DEF Joined
  <2>4. ASSUME NEW i \in 1 .. Len(w2) PROVE w2[i] = r[n + i]
    <3>1. CASE i \in 1 .. Len(w)
      BY <3>1, <2>1, <1>2 DEF Joined
    <3>2. CASE i \notin 1 .. Len(w)
      <4>1. PICK j \in 1 .. Len(posts) : i = Len(w) + j
        <5>1. i - Len(w) \in 1 .. Len(posts) /\ i = Len(w) + (i - Len(w))
          BY <3>2, <2>2, <2>3
        <5>. QED BY <5>1
      <4>2. w2[i] = posts[j] /\ posts[j] = r[q[0] + j]
        BY <4>1, <2>1, <1>3 DEF Joined
      <4>3. q[0] + j = n + i
        BY <4>1, <1>2, <2>2
      <4>. QED BY <4>2, <4>3
    <3>. QED BY <3>1, <3>2
  <2>. QED BY <2>3, <2>4
<1>5. /\ p \in [0 .. Len(c2) -> 0 .. Len(T)]
      /\ \A j \in 0 .. Len(c2) : p[j] = q[j + 1]
  <2>1. \A j \in 0 .. Len(c) - 1 : j + 1 \in 0 .. Len(c)
    BY <1>1
  <2>. QED BY <2>1, <1>1, <1>2
<1>. HIDE DEF p, w2, c2
<1>6. p[0] = n + Len(w2)
  <2>1. 0 \in 0 .. Len(c2) /\ Len(w) \in Nat /\ Len(posts) \in Nat
    BY <1>1, <1>2, <1>3
  <2>. QED BY <2>1, <1>2, <1>3, <1>4, <1>5
<1>7. p[Len(c2)] = Len(T)
  <2>1. Len(c2) \in 0 .. Len(c2) /\ Len(c2) + 1 = Len(c)
    BY <1>1
  <2>. QED BY <2>1, <1>2, <1>5
<1>8. ASSUME NEW j \in 1 .. Len(c2)
      PROVE  LET b == ReportsOfBatch(c2[j]) IN
             /\ b \in Seq(SUBSET Keys) /\ p[j] = p[j - 1] + Len(b)
             /\ \A i \in 1 .. Len(b) : b[i] = r[p[j - 1] + i]
  <2>. DEFINE b == ReportsOfBatch(c2[j])
  <2>1. /\ j + 1 \in 1 .. Len(c) /\ (j + 1) - 1 = j /\ j \in 0 .. Len(c2)
        /\ j - 1 \in 0 .. Len(c2) /\ (j - 1) + 1 = j
    BY <1>1
  <2>2. b = ReportsOfBatch(c[j + 1])
    BY <1>1
  <2>3. p[j] = q[j + 1] /\ p[j - 1] = q[j]
    BY <2>1, <1>5
  <2>4. LET d == ReportsOfBatch(c[j + 1]) IN
        /\ d \in Seq(SUBSET Keys) /\ q[j + 1] = q[(j + 1) - 1] + Len(d)
        /\ \A i \in 1 .. Len(d) : d[i] = r[q[(j + 1) - 1] + i]
    BY <2>1 DEF Pending
  <2>5. /\ b \in Seq(SUBSET Keys) /\ q[j + 1] = q[j] + Len(b)
        /\ \A i \in 1 .. Len(b) : b[i] = r[q[j] + i]
    <3>. HIDE DEF b
    <3>. QED BY <2>1, <2>2, <2>4
  <2>. HIDE DEF b
  <2>6. /\ b \in Seq(SUBSET Keys) /\ p[j] = p[j - 1] + Len(b)
        /\ \A i \in 1 .. Len(b) : b[i] = r[p[j - 1] + i]
    BY <2>3, <2>5
  <2>. QED BY <2>6 DEF b
<1>9. Pending(r, T, n, e, p, v, w2, c2, x)
  BY <1>1, <1>4, <1>5, <1>6, <1>7, <1>8 DEF Pending
<1>. QED BY <1>9 DEF w2, c2, posts

(* A batch enters the channel and its echoes are predicted: nothing that   *)
(* was seen of the keyboard changes.                                       *)
LEMMA PendingEmitted ==
  ASSUME NEW r, NEW T, NEW n, NEW e, NEW q, NEW v, NEW w, NEW c, NEW x,
         Pending(r, T, n, e, q, v, w, c, x),
         NEW b \in Seq(NativeKey), \A i \in DOMAIN b : Usable(b[i])
  PROVE  \E r2, T2, q2 :
           /\ Pending(r2, T2, n, e, q2, v, w, Append(c, b), x \o EchoOfBatch(b))
           /\ Report(r2, e) = Report(r, e)
           /\ \A i \in 1 .. e : T2[i] = T[i]
<1>. DEFINE rb == ReportsOfBatch(b)
            eb == EchoOfBatch(b)
            r2 == r \o rb
            T2 == T \o eb
            c2 == Append(c, b)
            x2 == x \o eb
            q2 == [j \in 0 .. Len(c) + 1 |-> IF j = Len(c) + 1 THEN Len(T2) ELSE q[j]]
<1>1. /\ rb \in Seq(SUBSET Keys) /\ eb \in Seq(KeyEvents)
      /\ Len(rb) = Len(eb) /\ Len(eb) \in Nat
      /\ Mirrors(rb, eb)
  <2>1. Mirrors(rb, eb)
    BY MirrorsBatch
  <2>. HIDE DEF rb, eb
  <2>2. rb \in Seq(SUBSET Keys) /\ eb \in Seq(KeyEvents) /\ Len(rb) = Len(eb)
    BY <2>1, Zenon DEF Mirrors
  <2>3. Len(eb) \in Nat
    BY <2>2
  <2>. QED BY <2>1, <2>2, <2>3
<1>. HIDE DEF rb, eb
<1>2. /\ r \in Seq(SUBSET Keys) /\ T \in Seq(KeyEvents)
      /\ Len(r) = Len(T) /\ Len(T) \in Nat
      /\ Mirrors(r, T) /\ n \in Nat /\ e \in Nat /\ n <= e /\ e <= Len(T)
  <2>1. Mirrors(r, T) /\ n \in Nat /\ e \in Nat /\ n <= e /\ e <= Len(T)
    BY Zenon DEF Pending
  <2>2. r \in Seq(SUBSET Keys) /\ T \in Seq(KeyEvents) /\ Len(r) = Len(T)
    BY <2>1, Zenon DEF Mirrors
  <2>3. Len(T) \in Nat
    BY <2>2
  <2>. QED BY <2>1, <2>2, <2>3
<1>3. /\ r2 \in Seq(SUBSET Keys) /\ Len(r2) = Len(r) + Len(rb)
      /\ \A i \in 1 .. Len(r) : r2[i] = r[i]
      /\ \A i \in 1 .. Len(rb) : r2[Len(r) + i] = rb[i]
  <2>1. Joined(r2, r, rb, SUBSET Keys)
    BY <1>1, <1>2, JoinTwo
  <2>. HIDE DEF r2
  <2>. QED BY <2>1 DEF Joined
<1>4. /\ T2 \in Seq(KeyEvents) /\ Len(T2) = Len(T) + Len(eb)
      /\ \A i \in 1 .. Len(T) : T2[i] = T[i]
      /\ \A i \in 1 .. Len(eb) : T2[Len(T) + i] = eb[i]
  <2>1. Joined(T2, T, eb, KeyEvents)
    BY <1>1, <1>2, JoinTwo
  <2>. HIDE DEF T2
  <2>. QED BY <2>1 DEF Joined
<1>5. Mirrors(r2, T2)
  BY <1>1, <1>2, MirrorsConcat
<1>6. /\ x \in Seq(KeyEvents) /\ Len(x) = Len(T) - e /\ Len(x) \in Nat
      /\ \A i \in 1 .. Len(x) : x[i] = T[e + i]
  <2>1. /\ x \in Seq(KeyEvents) /\ Len(x) = Len(T) - e
        /\ \A i \in 1 .. Len(x) : x[i] = T[e + i]
    BY Zenon DEF Pending
  <2>2. Len(x) \in Nat
    BY <2>1
  <2>. QED BY <2>1, <2>2
<1>7. /\ x2 \in Seq(KeyEvents) /\ Len(x2) = Len(x) + Len(eb)
      /\ \A i \in 1 .. Len(x) : x2[i] = x[i]
      /\ \A i \in 1 .. Len(eb) : x2[Len(x) + i] = eb[i]
  <2>1. Joined(x2, x, eb, KeyEvents)
    BY <1>1, <1>6, JoinTwo
  <2>. HIDE DEF x2
  <2>. QED BY <2>1 DEF Joined
<1>8. /\ c \in Seq(Seq(NativeKey)) /\ Len(c) \in Nat
      /\ c2 \in Seq(Seq(NativeKey)) /\ Len(c2) = Len(c) + 1
      /\ \A j \in 1 .. Len(c) : c2[j] = c[j]
      /\ c2[Len(c) + 1] = b
  <2>1. c \in Seq(Seq(NativeKey))
    BY DEF Pending
  <2>. QED BY <2>1
<1>9. /\ q \in [0 .. Len(c) -> 0 .. Len(T)] /\ q[0] = n + Len(w) /\ q[Len(c)] = Len(T)
      /\ w \in Seq(SUBSET Keys) /\ \A i \in 1 .. Len(w) : w[i] = r[n + i]
      /\ v = Report(r, n)
  BY DEF Pending
<1>. HIDE DEF r2, T2, c2, x2
<1>10. Len(T2) \in Nat /\ Len(T) <= Len(T2)
  BY <1>1, <1>2, <1>4
<1>11. /\ q2 \in [0 .. Len(c2) -> 0 .. Len(T2)]
       /\ q2[Len(c) + 1] = Len(T2)
       /\ \A j \in 0 .. Len(c) : q2[j] = q[j]
  <2>1. \A j \in 0 .. Len(c) + 1 : j # Len(c) + 1 => j \in 0 .. Len(c)
    BY <1>8
  <2>2. \A j \in 0 .. Len(c) : q[j] \in 0 .. Len(T2)
    <3>1. 0 .. Len(T) \subseteq 0 .. Len(T2)
      BY <1>10, <1>2
    <3>. QED BY <3>1, <1>9
  <2>3. Len(T2) \in 0 .. Len(T2)
    BY <1>10
  <2>4. Len(c) + 1 \in 0 .. Len(c) + 1
    BY <1>8
  <2>5. \A j \in 0 .. Len(c) : j \in 0 .. Len(c) + 1 /\ j # Len(c) + 1
    BY <1>8
  <2>. QED BY <2>1, <2>2, <2>3, <2>4, <2>5, <1>8
<1>. HIDE DEF q2
<1>12. \A i \in 0 .. Len(T) : Report(r2, i) = Report(r, i)
  BY <1>2, <1>3 DEF Report
<1>13. v = Report(r2, n) /\ Report(r2, e) = Report(r, e)
  <2>1. n \in 0 .. Len(T) /\ e \in 0 .. Len(T)
    BY <1>2
  <2>. QED BY <2>1, <1>9, <1>12
<1>14. \A i \in 1 .. Len(w) : w[i] = r2[n + i]
  <2>1. q[0] \in 0 .. Len(T) /\ Len(w) \in Nat
    <3>1. 0 \in 0 .. Len(c)
      BY <1>8
    <3>2. q[0] \in 0 .. Len(T)
      BY <3>1, <1>9
    <3>3. w \in Seq(SUBSET Keys)
      BY <1>9
    <3>4. Len(w) \in Nat
      BY <3>3
    <3>. QED BY <3>2, <3>4
  <2>2. \A i \in 1 .. Len(w) : n + i \in 1 .. Len(r)
    BY <2>1, <1>2, <1>9
  <2>. QED BY <2>2, <1>3, <1>9
<1>15. q2[0] = n + Len(w) /\ q2[Len(c2)] = Len(T2)
  <2>1. 0 \in 0 .. Len(c)
    BY <1>8
  <2>. QED BY <2>1, <1>8, <1>9, <1>11
<1>16. ASSUME NEW j \in 1 .. Len(c2)
       PROVE  LET d == ReportsOfBatch(c2[j]) IN
              /\ d \in Seq(SUBSET Keys) /\ q2[j] = q2[j - 1] + Len(d)
              /\ \A i \in 1 .. Len(d) : d[i] = r2[q2[j - 1] + i]
  <2>. DEFINE d == ReportsOfBatch(c2[j])
  <2>1. CASE j = Len(c) + 1
    <3>1. d = rb
      BY <2>1, <1>8 DEF rb
    <3>2. j - 1 = Len(c) /\ Len(c) \in 0 .. Len(c)
      BY <2>1, <1>8
    <3>3. q2[j] = Len(T2) /\ q2[j - 1] = Len(T)
      BY <2>1, <3>2, <1>9, <1>11
    <3>. HIDE DEF d
    <3>. QED BY <3>1, <3>3, <1>1, <1>2, <1>3, <1>4 DEF d
  <2>2. CASE j # Len(c) + 1
    <3>1. j \in 1 .. Len(c) /\ j \in 0 .. Len(c) /\ j - 1 \in 0 .. Len(c)
      BY <2>2, <1>8
    <3>2. LET f == ReportsOfBatch(c[j]) IN
          /\ f \in Seq(SUBSET Keys) /\ q[j] = q[j - 1] + Len(f)
          /\ \A i \in 1 .. Len(f) : f[i] = r[q[j - 1] + i]
      BY <3>1 DEF Pending
    <3>3. d = ReportsOfBatch(c[j])
      BY <3>1, <1>8
    <3>4. /\ d \in Seq(SUBSET Keys) /\ q[j] = q[j - 1] + Len(d)
          /\ \A i \in 1 .. Len(d) : d[i] = r[q[j - 1] + i]
      <4>. HIDE DEF d
      <4>. QED BY <3>2, <3>3
    <3>. HIDE DEF d
    <3>5. q2[j] = q[j] /\ q2[j - 1] = q[j - 1]
      BY <3>1, <1>11
    <3>6. q[j] \in 0 .. Len(T) /\ q[j - 1] \in 0 .. Len(T) /\ Len(d) \in Nat
      BY <3>1, <3>4, <1>9
    <3>7. \A i \in 1 .. Len(d) : q[j - 1] + i \in 1 .. Len(r)
      BY <3>4, <3>6, <1>2
    <3>8. \A i \in 1 .. Len(d) : d[i] = r2[q[j - 1] + i]
      BY <3>4, <3>7, <1>3
    <3>. QED BY <3>4, <3>5, <3>8 DEF d
  <2>. QED BY <2>1, <2>2
<1>17. Len(x2) = Len(T2) - e /\ \A i \in 1 .. Len(x2) : x2[i] = T2[e + i]
  <2>1. Len(x2) = Len(T2) - e
    BY <1>1, <1>2, <1>4, <1>6, <1>7
  <2>2. ASSUME NEW i \in 1 .. Len(x2) PROVE x2[i] = T2[e + i]
    <3>1. CASE i \in 1 .. Len(x)
      <4>1. e + i \in 1 .. Len(T)
        BY <3>1, <1>2, <1>6
      <4>2. x2[i] = T[e + i] /\ T2[e + i] = T[e + i]
        BY <3>1, <4>1, <1>4, <1>6, <1>7
      <4>. QED BY <4>2
    <3>2. CASE i \notin 1 .. Len(x)
      <4>1. PICK k \in 1 .. Len(eb) : i = Len(x) + k
        <5>1. i - Len(x) \in 1 .. Len(eb) /\ i = Len(x) + (i - Len(x))
          BY <3>2, <1>1, <1>6, <1>7
        <5>. QED BY <5>1
      <4>2. x2[i] = eb[k] /\ T2[Len(T) + k] = eb[k]
        BY <4>1, <1>4, <1>7
      <4>3. Len(T) + k = e + i
        BY <4>1, <1>2, <1>6
      <4>. QED BY <4>2, <4>3
    <3>. QED BY <3>1, <3>2
  <2>. QED BY <2>1, <2>2
<1>18. \A i \in 1 .. e : T2[i] = T[i]
  <2>1. \A i \in 1 .. e : i \in 1 .. Len(T)
    BY <1>2
  <2>. QED BY <2>1, <1>4
<1>19. e <= Len(T2)
  BY <1>2, <1>10
<1>20. Pending(r2, T2, n, e, q2, v, w, c2, x2)
  BY <1>2, <1>5, <1>7, <1>8, <1>9, <1>11, <1>13, <1>14, <1>15, <1>16, <1>17, <1>19
     DEF Pending
<1>21. Pending(r2, T2, n, e, q2, v, w, Append(c, b), x \o EchoOfBatch(b))
  BY <1>20 DEF c2, x2, eb
<1>. QED BY <1>13, <1>18, <1>21

-----------------------------------------------------------------------------
(* The echoes the engine may still decide *)

\* The presses whose prediction was used up before they are typed.
Overtaken(T, n, e) == {i \in n + 1 .. e : T[i].isDown}

(* How many events were overtaken is a number.                             *)
LEMMA OvertakenType ==
  ASSUME NEW T, NEW n \in Nat, NEW e \in Nat
  PROVE  IsFiniteSet(Overtaken(T, n, e)) /\ Cardinality(Overtaken(T, n, e)) \in Nat
<1>1. IsFiniteSet(n + 1 .. e)
  BY FS_Interval
<1>2. Overtaken(T, n, e) \in SUBSET (n + 1 .. e)
  BY DEF Overtaken
<1>3. IsFiniteSet(Overtaken(T, n, e))
  BY <1>1, <1>2, FS_Subset
<1>. QED BY <1>3, FS_CardinalityType

(* One more prediction is used up.                                         *)
LEMMA OvertakenMore ==
  ASSUME NEW T, NEW n \in Nat, NEW e \in Nat, n <= e
  PROVE  Cardinality(Overtaken(T, n, e + 1))
           = Cardinality(Overtaken(T, n, e)) + One(T[e + 1].isDown)
<1>1. n + 1 .. e + 1 = (n + 1 .. e) \cup {e + 1} /\ e + 1 \notin n + 1 .. e
  OBVIOUS
<1>2. e + 1 \notin Overtaken(T, n, e)
  BY <1>1 DEF Overtaken
<1>3. IsFiniteSet(Overtaken(T, n, e)) /\ Cardinality(Overtaken(T, n, e)) \in Nat
  BY OvertakenType
<1>4. CASE T[e + 1].isDown
  <2>1. Overtaken(T, n, e + 1) = Overtaken(T, n, e) \cup {e + 1}
    BY <1>1, <1>4 DEF Overtaken
  <2>2. Cardinality(Overtaken(T, n, e) \cup {e + 1}) = Cardinality(Overtaken(T, n, e)) + 1
    BY <1>2, <1>3, FS_AddElement
  <2>. QED BY <1>4, <2>1, <2>2 DEF One
<1>5. CASE ~T[e + 1].isDown
  <2>1. Overtaken(T, n, e + 1) = Overtaken(T, n, e)
    BY <1>1, <1>5 DEF Overtaken
  <2>. QED BY <1>3, <1>5, <2>1 DEF One
<1>. QED BY <1>4, <1>5

(* One more event has been typed.                                          *)
LEMMA OvertakenLess ==
  ASSUME NEW T, NEW n \in Nat, NEW e \in Nat, n < e
  PROVE  Cardinality(Overtaken(T, n + 1, e))
           = Cardinality(Overtaken(T, n, e)) - One(T[n + 1].isDown)
<1>1. (n + 1) + 1 .. e = (n + 1 .. e) \ {n + 1} /\ n + 1 \in n + 1 .. e
  OBVIOUS
<1>2. Overtaken(T, n + 1, e) = Overtaken(T, n, e) \ {n + 1}
  BY <1>1 DEF Overtaken
<1>3. n + 1 \in Overtaken(T, n, e) <=> T[n + 1].isDown
  BY <1>1 DEF Overtaken
<1>4. IsFiniteSet(Overtaken(T, n, e)) /\ Cardinality(Overtaken(T, n, e)) \in Nat
  BY OvertakenType
<1>5. Cardinality(Overtaken(T, n, e) \ {n + 1})
        = IF n + 1 \in Overtaken(T, n, e) THEN Cardinality(Overtaken(T, n, e)) - 1
                                          ELSE Cardinality(Overtaken(T, n, e))
  BY <1>4, FS_RemoveElement
<1>6. CASE T[n + 1].isDown
  <2>1. One(T[n + 1].isDown) = 1
    BY <1>6 DEF One
  <2>. QED BY <1>2, <1>3, <1>4, <1>5, <1>6, <2>1
<1>7. CASE ~T[n + 1].isDown
  <2>1. One(T[n + 1].isDown) = 0
    BY <1>7 DEF One
  <2>. QED BY <1>2, <1>3, <1>4, <1>5, <1>7, <2>1
<1>. QED BY <1>6, <1>7

(* The next m predictions expire: no more presses are overtaken than there *)
(* are among them.                                                         *)
LEMMA OvertakenExpired ==
  ASSUME NEW T, NEW n \in Nat, NEW e \in Nat, NEW m \in Nat
  PROVE  LET S == {i \in 1 .. m : T[e + i].isDown} IN
         /\ Cardinality(S) \in Nat
         /\ Cardinality(Overtaken(T, n, e + m)) <= Cardinality(Overtaken(T, n, e)) + Cardinality(S)
<1>. DEFINE S == {i \in 1 .. m : T[e + i].isDown}
            O == Overtaken(T, n, e)
            O2 == Overtaken(T, n, e + m)
            f == [i \in S |-> e + i]
            U == {f[i] : i \in S}
<1>1. IsFiniteSet(S) /\ Cardinality(S) \in Nat
  <2>1. IsFiniteSet(1 .. m)
    BY FS_Interval
  <2>2. S \in SUBSET (1 .. m)
    OBVIOUS
  <2>3. IsFiniteSet(S)
    BY <2>1, <2>2, FS_Subset
  <2>. QED BY <2>3, FS_CardinalityType
<1>2. IsFiniteSet(O) /\ Cardinality(O) \in Nat
  BY OvertakenType
<1>3. O2 \subseteq O \cup U
  <2>1. ASSUME NEW j \in O2, j \notin n + 1 .. e PROVE j \in U
    <3>1. j \in n + 1 .. e + m /\ T[j].isDown
      BY DEF Overtaken
    <3>2. j - e \in 1 .. m /\ e + (j - e) = j
      BY <2>1, <3>1
    <3>3. j - e \in S
      BY <3>1, <3>2
    <3>. QED BY <3>2, <3>3
  <2>2. ASSUME NEW j \in O2, j \in n + 1 .. e PROVE j \in O
    BY <2>2 DEF Overtaken
  <2>. QED BY <2>1, <2>2
<1>. HIDE DEF O, O2
<1>4. IsFiniteSet(U) /\ Cardinality(U) <= Cardinality(S)
  <2>1. f \in Surjection(S, U)
    BY DEF Surjection
  <2>. HIDE DEF f, U
  <2>. QED BY <2>1, <1>1, FS_Surjection
<1>. HIDE DEF U
<1>5. /\ IsFiniteSet(O \cup U)
      /\ Cardinality(O \cup U) = Cardinality(O) + Cardinality(U) - Cardinality(O \cap U)
  BY <1>2, <1>4, FS_Union
<1>6. Cardinality(O2) <= Cardinality(O \cup U) /\ IsFiniteSet(O2)
  BY <1>3, <1>5, FS_Subset
<1>7. Cardinality(U) \in Nat /\ Cardinality(O \cap U) \in Nat /\ Cardinality(O2) \in Nat
  <2>1. IsFiniteSet(O \cap U)
    BY <1>2, FS_Intersection
  <2>. QED BY <2>1, <1>4, <1>6, FS_CardinalityType
<1>8. Cardinality(O2) <= Cardinality(O) + Cardinality(S)
  BY <1>1, <1>2, <1>4, <1>5, <1>6, <1>7
<1>. QED BY <1>1, <1>8 DEF O, O2

-----------------------------------------------------------------------------
(* What the keys that are down have to do with each other *)

After(S, k, isDown) == IF isDown THEN S \cup {k} ELSE S \ {k}

\* The keys app that the applications see down, the engine's pressed and
\* swallowed keys, and the keys down when the next echo is due.
Claims(r, n, e, pressed, swallowed, phys, v, seen, taken) ==
  LET atEcho == Report(r, e) IN
  /\ seen \subseteq atEcho \cup (pressed \ swallowed)
  /\ seen \subseteq atEcho \cup phys \cup v
  /\ ~taken => n = e /\ pressed \subseteq phys

\* What one decision of the engine about k does to the marks.
Decides(k, isDown, pressed, swallowed, pressed2, swallowed2, passes) ==
  /\ pressed2 = After(pressed, k, isDown)
  /\ \A j : j # k => (j \in swallowed2 <=> j \in swallowed)
  /\ passes <=> k \notin IF isDown THEN swallowed2 ELSE swallowed
  /\ isDown /\ k \in pressed => (k \in swallowed2 <=> k \in swallowed)
  /\ swallowed \subseteq pressed

(* The user's event is taken for the next echo.                            *)
LEMMA ClaimsUserMatched ==
  ASSUME NEW r, NEW n \in Nat, NEW e \in Nat,
         NEW pressed, NEW swallowed, NEW phys, NEW v, NEW seen, NEW taken,
         Claims(r, n, e, pressed, swallowed, phys, v, seen, taken),
         NEW k, NEW isDown \in BOOLEAN,
         Turns(Report(r, e), Report(r, e + 1), Step(k, isDown))
  PROVE  Claims(r, n, e + 1, pressed, swallowed, After(phys, k, isDown), v,
                After(seen, k, isDown), TRUE)
<1>. DEFINE B == Report(r, e)
            B2 == Report(r, e + 1)
            phys2 == After(phys, k, isDown)
            seen2 == After(seen, k, isDown)
<1>1. B2 = After(B, k, isDown)
  BY DEF Turns, Step, After
<1>2. /\ seen \subseteq B \cup (pressed \ swallowed)
      /\ seen \subseteq B \cup phys \cup v
  BY DEF Claims
<1>. HIDE DEF B, B2, phys2, seen2
<1>3. /\ seen2 \subseteq B2 \cup (pressed \ swallowed)
      /\ seen2 \subseteq B2 \cup phys2 \cup v
  <2>1. CASE isDown
    BY <2>1, <1>1, <1>2 DEF After, seen2, phys2
  <2>2. CASE ~isDown
    BY <2>2, <1>1, <1>2 DEF After, seen2, phys2
  <2>. QED BY <2>1, <2>2
<1>4. Claims(r, n, e + 1, pressed, swallowed, phys2, v, seen2, TRUE)
  BY <1>3 DEF Claims, B2
<1>. QED BY <1>4 DEF phys2, seen2

(* The engine decides on the user's event.                                 *)
LEMMA ClaimsUserDecided ==
  ASSUME NEW r, NEW n \in Nat, NEW e \in Nat,
         NEW pressed, NEW swallowed, NEW phys, NEW v, NEW seen, NEW taken,
         Claims(r, n, e, pressed, swallowed, phys, v, seen, taken),
         NEW k, NEW isDown \in BOOLEAN,
         NEW pressed2, NEW swallowed2, NEW passes \in BOOLEAN,
         Decides(k, isDown, pressed, swallowed, pressed2, swallowed2, passes)
  PROVE  Claims(r, n, e, pressed2, swallowed2, After(phys, k, isDown), v,
                IF passes THEN After(seen, k, isDown) ELSE seen, taken)
<1>. DEFINE B == Report(r, e)
            phys2 == After(phys, k, isDown)
            seen2 == IF passes THEN After(seen, k, isDown) ELSE seen
<1>1. /\ pressed2 = After(pressed, k, isDown)
      /\ \A j : j # k => (j \in swallowed2 <=> j \in swallowed)
      /\ passes <=> k \notin IF isDown THEN swallowed2 ELSE swallowed
      /\ isDown /\ k \in pressed => (k \in swallowed2 <=> k \in swallowed)
      /\ swallowed \subseteq pressed
  BY DEF Decides
<1>2. /\ seen \subseteq B \cup (pressed \ swallowed)
      /\ seen \subseteq B \cup phys \cup v
      /\ ~taken => n = e /\ pressed \subseteq phys
  BY DEF Claims
<1>. HIDE DEF B, phys2, seen2
<1>3. /\ seen2 \subseteq B \cup (pressed2 \ swallowed2)
      /\ seen2 \subseteq B \cup phys2 \cup v
  <2>1. CASE isDown
    <3>1. pressed2 = pressed \cup {k} /\ phys2 = phys \cup {k}
      BY <2>1, <1>1 DEF After, phys2
    <3>2. IF k \in swallowed2 THEN seen2 = seen ELSE seen2 = seen \cup {k}
      BY <2>1, <1>1 DEF After, seen2
    <3>3. CASE k \in swallowed2
      BY <2>1, <3>1, <3>2, <3>3, <1>1, <1>2
    <3>4. CASE k \notin swallowed2
      BY <2>1, <3>1, <3>2, <3>4, <1>1, <1>2
    <3>. QED BY <3>3, <3>4
  <2>2. CASE ~isDown
    <3>1. pressed2 = pressed \ {k} /\ phys2 = phys \ {k}
      BY <2>2, <1>1 DEF After, phys2
    <3>2. IF k \in swallowed THEN seen2 = seen ELSE seen2 = seen \ {k}
      BY <2>2, <1>1 DEF After, seen2
    <3>. QED BY <3>1, <3>2, <1>1, <1>2
  <2>. QED BY <2>1, <2>2
<1>4. ~taken => n = e /\ pressed2 \subseteq phys2
  BY <1>1, <1>2 DEF After, phys2
<1>5. Claims(r, n, e, pressed2, swallowed2, phys2, v, seen2, taken)
  BY <1>3, <1>4 DEF Claims, B
<1>. QED BY <1>5 DEF phys2, seen2

(* The next event of the virtual keyboard is the next echo.                *)
LEMMA ClaimsTypedMatched ==
  ASSUME NEW r, NEW n \in Nat, NEW e \in Nat,
         NEW pressed, NEW swallowed, NEW phys, NEW v, NEW seen, NEW taken,
         Claims(r, n, e, pressed, swallowed, phys, v, seen, taken),
         NEW k, NEW isDown \in BOOLEAN,
         Turns(Report(r, e), Report(r, e + 1), Step(k, isDown))
  PROVE  Claims(r, n + 1, e + 1, pressed, swallowed, phys, After(v, k, isDown),
                After(seen, k, isDown), taken)
<1>. DEFINE B == Report(r, e)
            B2 == Report(r, e + 1)
            v2 == After(v, k, isDown)
            seen2 == After(seen, k, isDown)
<1>1. B2 = After(B, k, isDown)
  BY DEF Turns, Step, After
<1>2. /\ seen \subseteq B \cup (pressed \ swallowed)
      /\ seen \subseteq B \cup phys \cup v
      /\ ~taken => n = e /\ pressed \subseteq phys
  BY DEF Claims
<1>. HIDE DEF B, B2, v2, seen2
<1>3. /\ seen2 \subseteq B2 \cup (pressed \ swallowed)
      /\ seen2 \subseteq B2 \cup phys \cup v2
  <2>1. CASE isDown
    BY <2>1, <1>1, <1>2 DEF After, seen2, v2
  <2>2. CASE ~isDown
    BY <2>2, <1>1, <1>2 DEF After, seen2, v2
  <2>. QED BY <2>1, <2>2
<1>4. ~taken => n + 1 = e + 1 /\ pressed \subseteq phys
  BY <1>2
<1>5. Claims(r, n + 1, e + 1, pressed, swallowed, phys, v2, seen2, taken)
  BY <1>3, <1>4 DEF Claims, B2
<1>. QED BY <1>5 DEF v2, seen2

(* The engine decides on the next event of the virtual keyboard, the       *)
(* prediction of which was used up before.                                 *)
LEMMA ClaimsTypedDecided ==
  ASSUME NEW r, NEW n \in Nat, NEW e \in Nat, n < e,
         NEW pressed, NEW swallowed, NEW phys, NEW v, NEW seen, NEW taken,
         Claims(r, n, e, pressed, swallowed, phys, v, seen, taken),
         NEW k, NEW isDown \in BOOLEAN,
         NEW pressed2, NEW swallowed2, NEW passes \in BOOLEAN,
         Decides(k, isDown, pressed, swallowed, pressed2, swallowed2, passes)
  PROVE  Claims(r, n + 1, e, pressed2, swallowed2, phys, After(v, k, isDown),
                IF passes THEN After(seen, k, isDown) ELSE seen, taken)
<1>. DEFINE B == Report(r, e)
            v2 == After(v, k, isDown)
            seen2 == IF passes THEN After(seen, k, isDown) ELSE seen
<1>1. /\ pressed2 = After(pressed, k, isDown)
      /\ \A j : j # k => (j \in swallowed2 <=> j \in swallowed)
      /\ passes <=> k \notin IF isDown THEN swallowed2 ELSE swallowed
      /\ isDown /\ k \in pressed => (k \in swallowed2 <=> k \in swallowed)
      /\ swallowed \subseteq pressed
  BY DEF Decides
<1>2. /\ seen \subseteq B \cup (pressed \ swallowed)
      /\ seen \subseteq B \cup phys \cup v
      /\ ~taken => n = e
  BY DEF Claims
<1>3. taken
  <2>1. n # e
    OBVIOUS
  <2>. QED BY <2>1, <1>2, Zenon
<1>. HIDE DEF B, v2, seen2
<1>4. /\ seen2 \subseteq B \cup (pressed2 \ swallowed2)
      /\ seen2 \subseteq B \cup phys \cup v2
  <2>1. CASE isDown
    <3>1. pressed2 = pressed \cup {k} /\ v2 = v \cup {k}
      BY <2>1, <1>1 DEF After, v2
    <3>2. IF k \in swallowed2 THEN seen2 = seen ELSE seen2 = seen \cup {k}
      BY <2>1, <1>1 DEF After, seen2
    <3>3. CASE k \in swallowed2
      BY <2>1, <3>1, <3>2, <3>3, <1>1, <1>2
    <3>4. CASE k \notin swallowed2
      BY <2>1, <3>1, <3>2, <3>4, <1>1, <1>2
    <3>. QED BY <3>3, <3>4
  <2>2. CASE ~isDown
    <3>1. pressed2 = pressed \ {k} /\ v2 = v \ {k}
      BY <2>2, <1>1 DEF After, v2
    <3>2. IF k \in swallowed THEN seen2 = seen ELSE seen2 = seen \ {k}
      BY <2>2, <1>1 DEF After, seen2
    <3>. QED BY <3>1, <3>2, <1>1, <1>2
  <2>. QED BY <2>1, <2>2
<1>5. Claims(r, n + 1, e, pressed2, swallowed2, phys, v2, seen2, taken)
  BY <1>3, <1>4 DEF Claims, B
<1>. QED BY <1>5 DEF v2, seen2

(* Predictions that expire are used up.                                    *)
LEMMA PendingExpired ==
  ASSUME NEW r, NEW T, NEW n, NEW e, NEW q, NEW v, NEW w, NEW c, NEW x,
         Pending(r, T, n, e, q, v, w, c, x), NEW m \in 0 .. Len(x)
  PROVE  /\ Pending(r, T, n, e + m, q, v, w, c, SubSeq(x, m + 1, Len(x)))
         /\ \A i \in 1 .. m : x[i] = T[e + i]
<1>. DEFINE y == SubSeq(x, m + 1, Len(x))
<1>1. /\ Mirrors(r, T) /\ T \in Seq(KeyEvents) /\ Len(T) \in Nat /\ e \in Nat /\ n \in Nat
      /\ n <= e /\ x \in Seq(KeyEvents) /\ Len(x) = Len(T) - e
      /\ \A i \in 1 .. Len(x) : x[i] = T[e + i]
  <2>1. /\ Mirrors(r, T) /\ e \in Nat /\ n \in Nat /\ n <= e
        /\ x \in Seq(KeyEvents) /\ Len(x) = Len(T) - e
        /\ \A i \in 1 .. Len(x) : x[i] = T[e + i]
    BY DEF Pending
  <2>2. T \in Seq(KeyEvents) /\ Len(T) \in Nat
    BY <2>1 DEF Mirrors
  <2>. QED BY <2>1, <2>2
<1>2. Len(x) \in Nat /\ m \in Nat /\ m <= Len(x)
  BY <1>1
<1>3. /\ y \in Seq(KeyEvents) /\ Len(y) = Len(x) - m
      /\ \A i \in 1 .. Len(y) : y[i] = x[m + i]
  BY <1>1, <1>2
<1>. HIDE DEF y
<1>4. ASSUME NEW i \in 1 .. Len(y) PROVE y[i] = T[(e + m) + i]
  <2>1. m + i \in 1 .. Len(x) /\ e + (m + i) = (e + m) + i
    BY <1>1, <1>2, <1>3
  <2>. QED BY <1>1, <1>3, <2>1
<1>5. /\ e + m \in Nat /\ n <= e + m /\ e + m <= Len(T)
      /\ Len(y) = Len(T) - (e + m)
  BY <1>1, <1>2, <1>3
<1>6. Pending(r, T, n, e + m, q, v, w, c, y)
  BY <1>3, <1>4, <1>5 DEF Pending
<1>7. \A i \in 1 .. m : x[i] = T[e + i]
  BY <1>1, <1>2
<1>. QED BY <1>6, <1>7 DEF y

\* Some stream of reports and echoes accounts for what is under way, for the
\* predictions that were used up and, while none has expired, for the keys
\* that are down.
Balanced(v, w, c, x, pressed, swallowed, phys, seen, taken, due, expiries) ==
  \E r, T, n, e, q :
    /\ Pending(r, T, n, e, q, v, w, c, x)
    /\ due >= Cardinality(Overtaken(T, n, e))
    /\ expiries = 0 => Claims(r, n, e, pressed, swallowed, phys, v, seen, taken)

(* Nothing is down and nothing is under way.                               *)
LEMMA BalancedNothing ==
  ASSUME NEW swallowed, NEW taken, NEW expiries
  PROVE  Balanced({}, << >>, << >>, << >>, {}, swallowed, {}, {}, taken, 0, expiries)
<1>. DEFINE q == [i \in 0 .. 0 |-> 0]
<1>1. Pending(<< >>, << >>, 0, 0, q, {}, << >>, << >>, << >>)
  BY PendingNothing
<1>. HIDE DEF q
<1>2. Claims(<< >>, 0, 0, {}, swallowed, {}, {}, {}, taken)
  BY DEF Claims
<1>3. 0 >= Cardinality(Overtaken(<< >>, 0, 0))
  <2>1. Overtaken(<< >>, 0, 0) = {}
    BY DEF Overtaken
  <2>2. Cardinality(Overtaken(<< >>, 0, 0)) = 0
    BY <2>1, FS_EmptySet, Zenon
  <2>. QED BY <2>2
<1>. QED BY <1>1, <1>2, <1>3 DEF Balanced

(* A key that changes with a report is the key of its event.               *)
LEMMA TurnsOnce ==
  ASSUME NEW v, NEW w, NEW s \in KeyEvents, Turns(v, w, s),
         NEW k, NEW isDown \in BOOLEAN, k \in IF isDown THEN w \ v ELSE v \ w
  PROVE  s = Step(k, isDown) /\ w = After(v, k, isDown)
<1>1. s = [usage |-> s.usage, isDown |-> s.isDown] /\ s.isDown \in BOOLEAN
  BY DEF KeyEvents
<1>2. s.usage = k /\ s.isDown = isDown
  <2>1. CASE s.isDown
    BY <2>1, <1>1 DEF Turns
  <2>2. CASE ~s.isDown
    BY <2>2, <1>1 DEF Turns
  <2>. QED BY <2>1, <2>2
<1>3. s = Step(k, isDown)
  BY <1>1, <1>2 DEF Step
<1>4. w = After(v, k, isDown)
  BY <1>2 DEF Turns, After
<1>. QED BY <1>3, <1>4

(* The positions of a stream and the echoes are what they should be.       *)
LEMMA PendingTypes ==
  ASSUME NEW r, NEW T, NEW n, NEW e, NEW q, NEW v, NEW w, NEW c, NEW x,
         Pending(r, T, n, e, q, v, w, c, x)
  PROVE  /\ n \in Nat /\ e \in Nat /\ n <= e /\ e <= Len(T) /\ Len(T) \in Nat
         /\ Mirrors(r, T) /\ x \in Seq(KeyEvents)
<1>1. n \in Nat /\ e \in Nat /\ n <= e /\ e <= Len(T) /\ Mirrors(r, T) /\ x \in Seq(KeyEvents)
  BY Zenon DEF Pending
<1>2. T \in Seq(KeyEvents)
  BY <1>1, Zenon DEF Mirrors
<1>. QED BY <1>1, <1>2

(* What the engine emits is accounted for.                                 *)
LEMMA BalancedEmitted ==
  ASSUME NEW v, NEW w, NEW c, NEW x, NEW pressed, NEW swallowed, NEW phys, NEW seen,
         NEW taken, NEW due, NEW expiries,
         Balanced(v, w, c, x, pressed, swallowed, phys, seen, taken, due, expiries),
         NEW b \in Seq(NativeKey), \A i \in DOMAIN b : Usable(b[i])
  PROVE  Balanced(v, w, Append(c, b), x \o EchoOfBatch(b), pressed, swallowed, phys, seen,
                  taken, due, expiries)
<1>1. PICK r, T, n, e, q :
        /\ Pending(r, T, n, e, q, v, w, c, x)
        /\ due >= Cardinality(Overtaken(T, n, e))
        /\ expiries = 0 => Claims(r, n, e, pressed, swallowed, phys, v, seen, taken)
  BY DEF Balanced
<1>2. n \in Nat /\ e \in Nat
  BY <1>1, PendingTypes
<1>3. PICK r2, T2, q2 : /\ Pending(r2, T2, n, e, q2, v, w, Append(c, b), x \o EchoOfBatch(b))
                        /\ Report(r2, e) = Report(r, e)
                        /\ \A i \in 1 .. e : T2[i] = T[i]
  BY <1>1, PendingEmitted
<1>4. Overtaken(T2, n, e) = Overtaken(T, n, e)
  <2>1. \A i \in n + 1 .. e : T2[i] = T[i]
    BY <1>2, <1>3
  <2>. QED BY <2>1 DEF Overtaken
<1>5. expiries = 0 => Claims(r2, n, e, pressed, swallowed, phys, v, seen, taken)
  BY <1>1, <1>3, Zenon DEF Claims
<1>6. due >= Cardinality(Overtaken(T2, n, e))
  BY <1>1, <1>4
<1>. QED BY <1>3, <1>5, <1>6 DEF Balanced

(* A batch that the writer writes stays accounted for.                     *)
LEMMA BalancedWritten ==
  ASSUME NEW v, NEW w, NEW c, NEW x, NEW pressed, NEW swallowed, NEW phys, NEW seen,
         NEW taken, NEW due, NEW expiries,
         Balanced(v, w, c, x, pressed, swallowed, phys, seen, taken, due, expiries), c # << >>
  PROVE  Balanced(v, w \o ReportsOfBatch(Head(c)), Tail(c), x, pressed, swallowed, phys,
                  seen, taken, due, expiries)
<1>1. PICK r, T, n, e, q :
        /\ Pending(r, T, n, e, q, v, w, c, x)
        /\ due >= Cardinality(Overtaken(T, n, e))
        /\ expiries = 0 => Claims(r, n, e, pressed, swallowed, phys, v, seen, taken)
  BY DEF Balanced
<1>2. PICK p : Pending(r, T, n, e, p, v, w \o ReportsOfBatch(Head(c)), Tail(c), x)
  BY <1>1, PendingWritten
<1>. QED BY <1>1, <1>2 DEF Balanced

(* Predictions that expire are paid for by those of presses among them, and *)
(* nothing is claimed any more of the keys that are down.                  *)
LEMMA BalancedExpired ==
  ASSUME NEW v, NEW w, NEW c, NEW x, NEW pressed, NEW swallowed, NEW phys, NEW seen,
         NEW taken, NEW due \in Int, NEW expiries,
         Balanced(v, w, c, x, pressed, swallowed, phys, seen, taken, due, expiries),
         NEW m \in 0 .. Len(x), NEW expiries2, expiries2 # 0
  PROVE  LET S == {i \in 1 .. m : x[i].isDown} IN
         Balanced(v, w, c, SubSeq(x, m + 1, Len(x)), pressed, swallowed, phys, seen, taken,
                  due + Cardinality(S), expiries2)
<1>. DEFINE S == {i \in 1 .. m : x[i].isDown}
            y == SubSeq(x, m + 1, Len(x))
<1>1. PICK r, T, n, e, q :
        /\ Pending(r, T, n, e, q, v, w, c, x)
        /\ due >= Cardinality(Overtaken(T, n, e))
  BY DEF Balanced
<1>2. n \in Nat /\ e \in Nat /\ x \in Seq(KeyEvents)
  BY <1>1, PendingTypes
<1>3. m \in Nat
  BY <1>2
<1>4. Pending(r, T, n, e + m, q, v, w, c, y) /\ \A i \in 1 .. m : x[i] = T[e + i]
  BY <1>1, PendingExpired
<1>5. S = {i \in 1 .. m : T[e + i].isDown}
  BY <1>4
<1>6. /\ Cardinality({i \in 1 .. m : T[e + i].isDown}) \in Nat
      /\ Cardinality(Overtaken(T, n, e + m))
           <= Cardinality(Overtaken(T, n, e)) + Cardinality({i \in 1 .. m : T[e + i].isDown})
  BY <1>2, <1>3, OvertakenExpired
<1>. HIDE DEF S, y
<1>7. e + m \in Nat
  BY <1>2, <1>3
<1>8. Cardinality(Overtaken(T, n, e)) \in Nat /\ Cardinality(Overtaken(T, n, e + m)) \in Nat
  BY <1>2, <1>7, OvertakenType
<1>9. due + Cardinality(S) >= Cardinality(Overtaken(T, n, e + m))
  <2>1. /\ Cardinality(S) \in Nat
        /\ Cardinality(Overtaken(T, n, e + m)) <= Cardinality(Overtaken(T, n, e)) + Cardinality(S)
    BY <1>5, <1>6, Zenon
  <2>. QED BY <1>1, <1>8, <2>1
<1>10. Balanced(v, w, c, y, pressed, swallowed, phys, seen, taken, due + Cardinality(S), expiries2)
  BY <1>4, <1>9, Zenon DEF Balanced
<1>. QED BY <1>10 DEF S, y

(* An event of the user is taken for the echo that is due.                 *)
LEMMA BalancedUserMatched ==
  ASSUME NEW v, NEW w, NEW c, NEW x, NEW pressed, NEW swallowed, NEW phys, NEW seen,
         NEW taken, NEW due \in Int, NEW expiries,
         Balanced(v, w, c, x, pressed, swallowed, phys, seen, taken, due, expiries),
         NEW k, NEW isDown \in BOOLEAN, x # << >>, Head(x) = Step(k, isDown)
  PROVE  Balanced(v, w, c, Tail(x), pressed, swallowed, After(phys, k, isDown),
                  After(seen, k, isDown), TRUE, due + One(isDown), expiries)
<1>1. PICK r, T, n, e, q :
        /\ Pending(r, T, n, e, q, v, w, c, x)
        /\ due >= Cardinality(Overtaken(T, n, e))
        /\ expiries = 0 => Claims(r, n, e, pressed, swallowed, phys, v, seen, taken)
  BY DEF Balanced
<1>2. n \in Nat /\ e \in Nat /\ n <= e
  BY <1>1, PendingTypes
<1>. DEFINE e2 == e + 1
            due2 == due + One(isDown)
<1>3. /\ Pending(r, T, n, e2, q, v, w, c, Tail(x))
      /\ T[e + 1] = Step(k, isDown)
      /\ Turns(Report(r, e), Report(r, e + 1), Step(k, isDown))
  <2>1. /\ Pending(r, T, n, e + 1, q, v, w, c, Tail(x))
        /\ T[e + 1] = Head(x)
        /\ Turns(Report(r, e), Report(r, e + 1), Head(x))
    BY <1>1, PendingMatched
  <2>. QED BY <2>1
<1>4. expiries = 0 => Claims(r, n, e2, pressed, swallowed, After(phys, k, isDown), v,
                          After(seen, k, isDown), TRUE)
  BY <1>1, <1>2, <1>3, ClaimsUserMatched
<1>5. due2 >= Cardinality(Overtaken(T, n, e2))
  <2>1. Cardinality(Overtaken(T, n, e2)) = Cardinality(Overtaken(T, n, e)) + One(T[e + 1].isDown)
    BY <1>2, OvertakenMore
  <2>2. T[e + 1].isDown = isDown
    BY <1>3 DEF Step
  <2>3. One(isDown) \in Int /\ Cardinality(Overtaken(T, n, e)) \in Nat
    BY <1>2, OvertakenType DEF One
  <2>. HIDE DEF e2
  <2>. QED BY <1>1, <2>1, <2>2, <2>3
<1>. HIDE DEF e2, due2
<1>6. Balanced(v, w, c, Tail(x), pressed, swallowed, After(phys, k, isDown),
               After(seen, k, isDown), TRUE, due2, expiries)
  BY <1>3, <1>4, <1>5, Zenon DEF Balanced
<1>. QED BY <1>6 DEF due2

(* The engine decides on an event of the user that is not the echo due.    *)
LEMMA BalancedUserDecided ==
  ASSUME NEW v, NEW w, NEW c, NEW x, NEW pressed, NEW swallowed, NEW phys, NEW seen,
         NEW taken, NEW due, NEW expiries,
         Balanced(v, w, c, x, pressed, swallowed, phys, seen, taken, due, expiries),
         NEW k, NEW isDown \in BOOLEAN,
         NEW pressed2, NEW swallowed2, NEW passes \in BOOLEAN,
         Decides(k, isDown, pressed, swallowed, pressed2, swallowed2, passes)
  PROVE  Balanced(v, w, c, x, pressed2, swallowed2, After(phys, k, isDown),
                  IF passes THEN After(seen, k, isDown) ELSE seen, taken, due, expiries)
<1>1. PICK r, T, n, e, q :
        /\ Pending(r, T, n, e, q, v, w, c, x)
        /\ due >= Cardinality(Overtaken(T, n, e))
        /\ expiries = 0 => Claims(r, n, e, pressed, swallowed, phys, v, seen, taken)
  BY DEF Balanced
<1>2. n \in Nat /\ e \in Nat
  BY <1>1, PendingTypes
<1>3. expiries = 0 => Claims(r, n, e, pressed2, swallowed2, After(phys, k, isDown), v,
                          IF passes THEN After(seen, k, isDown) ELSE seen, taken)
  BY <1>1, <1>2, ClaimsUserDecided
<1>. QED BY <1>1, <1>3, Zenon DEF Balanced

(* The next event typed is the echo that is due.                           *)
LEMMA BalancedTypedMatched ==
  ASSUME NEW v, NEW w, NEW c, NEW x, NEW pressed, NEW swallowed, NEW phys, NEW seen,
         NEW taken, NEW due \in Int, NEW expiries,
         Balanced(v, w, c, x, pressed, swallowed, phys, seen, taken, due, expiries),
         w # << >>, NEW k, NEW isDown \in BOOLEAN,
         k \in IF isDown THEN Head(w) \ v ELSE v \ Head(w),
         x # << >>, Head(x) = Step(k, isDown)
  PROVE  /\ Head(w) = After(v, k, isDown)
         /\ Balanced(After(v, k, isDown), Tail(w), c, Tail(x), pressed, swallowed, phys,
                     After(seen, k, isDown), taken, due, expiries)
<1>1. PICK r, T, n, e, q :
        /\ Pending(r, T, n, e, q, v, w, c, x)
        /\ due >= Cardinality(Overtaken(T, n, e))
        /\ expiries = 0 => Claims(r, n, e, pressed, swallowed, phys, v, seen, taken)
  BY DEF Balanced
<1>2. n \in Nat /\ e \in Nat /\ n <= e
  BY <1>1, PendingTypes
<1>. DEFINE e2 == e + 1
            n2 == n + 1
<1>3. /\ Pending(r, T, n, e2, q, v, w, c, Tail(x))
      /\ T[e + 1] = Step(k, isDown)
      /\ Turns(Report(r, e), Report(r, e + 1), Step(k, isDown))
  <2>1. /\ Pending(r, T, n, e + 1, q, v, w, c, Tail(x))
        /\ T[e + 1] = Head(x)
        /\ Turns(Report(r, e), Report(r, e + 1), Head(x))
    BY <1>1, PendingMatched
  <2>. QED BY <2>1
<1>4. Turns(v, Head(w), T[n + 1]) /\ T[n + 1] \in KeyEvents
  BY <1>1, PendingNext
<1>5. T[n + 1] = Step(k, isDown) /\ Head(w) = After(v, k, isDown)
  BY <1>4, TurnsOnce
<1>6. Pending(r, T, n2, e2, q, Head(w), Tail(w), c, Tail(x))
  <2>1. n < e2
    BY <1>2
  <2>. HIDE DEF e2
  <2>. QED BY <1>3, <2>1, PendingNext, Zenon
<1>7. expiries = 0 => Claims(r, n2, e2, pressed, swallowed, phys, After(v, k, isDown),
                          After(seen, k, isDown), taken)
  BY <1>1, <1>2, <1>3, ClaimsTypedMatched
<1>8. due >= Cardinality(Overtaken(T, n2, e2))
  <2>. DEFINE O == Cardinality(Overtaken(T, n, e))
              O1 == Cardinality(Overtaken(T, n, e2))
              O2 == Cardinality(Overtaken(T, n2, e2))
  <2>1. O1 = O + One(T[e + 1].isDown)
    BY <1>2, OvertakenMore
  <2>2. O2 = O1 - One(T[n + 1].isDown)
    <3>1. n < e + 1 /\ e + 1 \in Nat
      BY <1>2
    <3>. QED BY <1>2, <3>1, OvertakenLess
  <2>3. One(T[n + 1].isDown) = One(T[e + 1].isDown)
    BY <1>3, <1>5
  <2>4. One(T[e + 1].isDown) \in Int /\ O \in Nat
    BY <1>2, OvertakenType DEF One
  <2>5. due >= O
    BY <1>1
  <2>. HIDE DEF O, O1, O2
  <2>6. due >= O2
    BY <2>1, <2>2, <2>3, <2>4, <2>5
  <2>. QED BY <2>6 DEF O2
<1>. HIDE DEF e2, n2
<1>9. Balanced(After(v, k, isDown), Tail(w), c, Tail(x), pressed, swallowed, phys,
               After(seen, k, isDown), taken, due, expiries)
  BY <1>5, <1>6, <1>7, <1>8, Zenon DEF Balanced
<1>. QED BY <1>5, <1>9

(* The engine decides on an event typed that is not the echo due: its      *)
(* prediction was used up before.                                          *)
LEMMA BalancedTypedDecided ==
  ASSUME NEW v, NEW w, NEW c, NEW x, NEW pressed, NEW swallowed, NEW phys, NEW seen,
         NEW taken, NEW due \in Int, NEW expiries,
         Balanced(v, w, c, x, pressed, swallowed, phys, seen, taken, due, expiries),
         w # << >>, NEW k, NEW isDown \in BOOLEAN,
         k \in IF isDown THEN Head(w) \ v ELSE v \ Head(w),
         ~(x # << >> /\ Head(x) = Step(k, isDown)),
         NEW pressed2, NEW swallowed2, NEW passes \in BOOLEAN,
         Decides(k, isDown, pressed, swallowed, pressed2, swallowed2, passes)
  PROVE  /\ Head(w) = After(v, k, isDown)
         /\ Balanced(After(v, k, isDown), Tail(w), c, x, pressed2, swallowed2, phys,
                     IF passes THEN After(seen, k, isDown) ELSE seen, taken,
                     due - One(isDown), expiries)
<1>1. PICK r, T, n, e, q :
        /\ Pending(r, T, n, e, q, v, w, c, x)
        /\ due >= Cardinality(Overtaken(T, n, e))
        /\ expiries = 0 => Claims(r, n, e, pressed, swallowed, phys, v, seen, taken)
  BY DEF Balanced
<1>2. n \in Nat /\ e \in Nat /\ n <= e
  BY <1>1, PendingTypes
<1>. DEFINE n2 == n + 1
            due2 == due - One(isDown)
<1>3. Turns(v, Head(w), T[n + 1]) /\ T[n + 1] \in KeyEvents
  BY <1>1, PendingNext
<1>4. T[n + 1] = Step(k, isDown) /\ Head(w) = After(v, k, isDown)
  BY <1>3, TurnsOnce
<1>5. n < e
  <2>1. n # e
    BY <1>1, <1>4, PendingNext
  <2>. QED BY <2>1, <1>2
<1>6. Pending(r, T, n2, e, q, Head(w), Tail(w), c, x)
  BY <1>1, <1>5, PendingNext, Zenon
<1>7. expiries = 0 => Claims(r, n2, e, pressed2, swallowed2, phys, After(v, k, isDown),
                          IF passes THEN After(seen, k, isDown) ELSE seen, taken)
  BY <1>1, <1>2, <1>5, ClaimsTypedDecided
<1>8. due2 >= Cardinality(Overtaken(T, n2, e))
  <2>1. Cardinality(Overtaken(T, n2, e)) = Cardinality(Overtaken(T, n, e)) - One(T[n + 1].isDown)
    BY <1>2, <1>5, OvertakenLess
  <2>2. T[n + 1].isDown = isDown
    BY <1>4 DEF Step
  <2>3. One(isDown) \in Int /\ Cardinality(Overtaken(T, n, e)) \in Nat
    BY <1>2, OvertakenType DEF One
  <2>. HIDE DEF n2
  <2>. QED BY <1>1, <2>1, <2>2, <2>3
<1>. HIDE DEF n2, due2
<1>9. Balanced(After(v, k, isDown), Tail(w), c, x, pressed2, swallowed2, phys,
               IF passes THEN After(seen, k, isDown) ELSE seen, taken, due2, expiries)
  BY <1>4, <1>6, <1>7, <1>8, Zenon DEF Balanced
<1>. QED BY <1>4, <1>9 DEF due2

-----------------------------------------------------------------------------
(* The engine, the scanner and the callback *)

(* A key-down: the marks of the other keys stay, and the press is passed   *)
(* exactly when the key is not marked as swallowed afterwards.             *)
LEMMA EngineDown ==
  ASSUME NEW g, EngineInv(g), g.stale = {}, NEW k \in Keys, NEW reach
  PROVE  LET f == AfterDown(g, k, NoDevice, reach, Rules)
             d == DownDecision(g, k, NoDevice, reach, Rules)
         IN /\ EngineInv(f) /\ f.stale = {}
            /\ Decides(k, TRUE, g.pressed, g.swallowed, f.pressed, f.swallowed, Passes(d.kind))
            /\ d.outputs \in Seq(NativeKey) /\ \A i \in DOMAIN d.outputs : Usable(d.outputs[i])
<1>. DEFINE f == AfterDown(g, k, NoDevice, reach, Rules)
            d == DownDecision(g, k, NoDevice, reach, Rules)
<1>1. UsageOf[k] # NoUsage
  BY MacAssumption, EngineAssumption
<1>2. \A t \in DOMAIN Rules : Rules[t] \in Seq(NativeKey)
  BY MacAssumption
<1>3. EngineInv(f)
  BY <1>1, <1>2, AfterDownInv
<1>4. g \in Engine /\ g.swallowed \subseteq g.pressed
  BY DEF EngineInv, KeyMarksJustified
<1>5. /\ f.stale = {} /\ f.pressed = g.pressed \cup {k}
      /\ f.swallowed = IF k \notin g.pressed /\ Fires(g, k, NoDevice, reach, Rules)
                       THEN g.swallowed \cup {k} ELSE g.swallowed
  <2>1. CASE k \in g.pressed
    BY <2>1 DEF AfterDown
  <2>2. CASE k \notin g.pressed /\ Fires(g, k, NoDevice, reach, Rules)
    BY <2>2 DEF AfterDown, FireTrigger
  <2>3. CASE k \notin g.pressed /\ ~Fires(g, k, NoDevice, reach, Rules) /\ reach
    BY <2>3, <1>4 DEF AfterDown, PressUnmapped, Engine
  <2>4. CASE k \notin g.pressed /\ ~Fires(g, k, NoDevice, reach, Rules) /\ ~reach
    BY <2>4, <1>4 DEF AfterDown, PressUnreachable, Engine
  <2>. QED BY <2>1, <2>2, <2>3, <2>4
<1>6. /\ d.outputs \in Seq(NativeKey) /\ \A i \in DOMAIN d.outputs : Usable(d.outputs[i])
      /\ Passes(d.kind) <=> IF k \in g.pressed THEN k \notin g.swallowed
                            ELSE ~Fires(g, k, NoDevice, reach, Rules)
  <2>1. CASE k \in g.pressed
    BY <2>1 DEF DownDecision, Swallow, Pass, Passes
  <2>2. CASE k \notin g.pressed /\ Fires(g, k, NoDevice, reach, Rules)
    <3>. DEFINE t == TriggerOf(g, k, NoDevice)
    <3>1. d.outputs = Rules[t] /\ d.kind = "Emit" /\ t \in DOMAIN Rules
      BY <2>2 DEF DownDecision, Emit, Fires
    <3>. HIDE DEF t, d
    <3>2. /\ Rules[t] \in Seq(NativeKey)
          /\ \A i \in DOMAIN Rules[t] : BitOf[Rules[t][i].usage] \notin Rules[t][i].modifiers
      BY <3>1, MacAssumption
    <3>3. \A i \in DOMAIN Rules[t] : Rules[t][i] \in NativeKey
      BY <3>2
    <3>. QED BY <2>2, <3>1, <3>2, <3>3 DEF Passes, Usable
  <2>3. CASE k \notin g.pressed /\ ~Fires(g, k, NoDevice, reach, Rules)
    BY <2>3 DEF DownDecision, Pass, Passes
  <2>. QED BY <2>1, <2>2, <2>3
<1>. HIDE DEF f, d
<1>7. Decides(k, TRUE, g.pressed, g.swallowed, f.pressed, f.swallowed, Passes(d.kind))
  <2>1. Passes(d.kind) <=> k \notin f.swallowed
    BY <1>4, <1>5, <1>6
  <2>2. f.pressed = After(g.pressed, k, TRUE)
    BY <1>5 DEF After
  <2>. QED BY <2>1, <2>2, <1>4, <1>5 DEF Decides
<1>. QED BY <1>3, <1>5, <1>6, <1>7 DEF f, d

(* A key-up: it is passed exactly when the key was not marked as swallowed. *)
LEMMA EngineUp ==
  ASSUME NEW g, EngineInv(g), g.stale = {}, NEW k \in Keys
  PROVE  LET f == AfterUp(g, k)
             d == UpDecision(g, k)
         IN /\ EngineInv(f) /\ f.stale = {}
            /\ Decides(k, FALSE, g.pressed, g.swallowed, f.pressed, f.swallowed, Passes(d.kind))
            /\ d.outputs = << >>
<1>. DEFINE f == AfterUp(g, k)
            d == UpDecision(g, k)
<1>1. EngineInv(f)
  BY AfterUpInv
<1>2. g \in Engine /\ g.swallowed \subseteq g.pressed
  BY DEF EngineInv, KeyMarksJustified
<1>3. f.stale = {} /\ f.pressed = g.pressed \ {k} /\ f.swallowed = g.swallowed \ {k}
  <2>1. CASE k \notin g.pressed
    BY <2>1, <1>2 DEF AfterUp
  <2>2. CASE k \in g.pressed /\ k \in g.swallowed
    BY <2>2, <1>2 DEF AfterUp, ReleaseSwallowed, Engine
  <2>3. CASE k \in g.pressed /\ k \notin g.swallowed
    BY <2>3, <1>2 DEF AfterUp, ReleaseForwarded, Engine
  <2>. QED BY <2>1, <2>2, <2>3
<1>4. d.outputs = << >> /\ (Passes(d.kind) <=> k \notin g.swallowed)
  <2>1. CASE k \notin g.pressed
    BY <2>1, <1>2 DEF UpDecision, Pass, Passes
  <2>2. CASE k \in g.pressed
    BY <2>2 DEF UpDecision, Pass, Swallow, ConsumedRelease, Passes
  <2>. QED BY <2>1, <2>2
<1>. HIDE DEF f, d
<1>5. Decides(k, FALSE, g.pressed, g.swallowed, f.pressed, f.swallowed, Passes(d.kind))
  BY <1>2, <1>3, <1>4 DEF Decides, After
<1>. QED BY <1>1, <1>3, <1>4, <1>5 DEF f, d

(* The scanner reads the true direction of an event that does not mislead  *)
(* it.                                                                     *)
LEMMA ScannerRight ==
  ASSUME alpha \in BOOLEAN, prevAlpha \in BOOLEAN, NEW k, NEW isDown \in BOOLEAN, NEW others,
         ~isDown /\ k = CapsLock => alpha = prevAlpha, ~Misleading(k, isDown, others),
         NEW down, down = others \cup (IF isDown THEN {k} ELSE {}),
         NEW lit, lit = IF k = CapsLock /\ isDown THEN ~alpha ELSE alpha
  PROVE  Scanned(k, isDown, down, lit) = isDown
<1>1. CASE k = CapsLock
  <2>1. CASE isDown
    <3>1. alpha = prevAlpha
      BY <1>1, <2>1 DEF Misleading
    <3>. QED BY <1>1, <2>1, <3>1 DEF Scanned
  <2>2. CASE ~isDown
    BY <1>1, <2>2 DEF Scanned
  <2>. QED BY <2>1, <2>2
<1>2. CASE k # CapsLock /\ FlagOf[k] = NoFlag
  BY <1>2 DEF Scanned
<1>3. CASE k # CapsLock /\ FlagOf[k] # NoFlag
  <2>1. CASE isDown
    BY <1>3, <2>1 DEF Scanned, FlagSet
  <2>2. CASE ~isDown
    BY <1>3, <2>2 DEF Scanned, FlagSet, Misleading
  <2>. QED BY <2>1, <2>2
<1>. QED BY <1>1, <1>2, <1>3

-----------------------------------------------------------------------------
(* The invariant *)

MacTypes ==
  /\ EngineInv(engine) /\ engine.stale = {}
  /\ alpha \in BOOLEAN /\ prevAlpha \in BOOLEAN
  /\ credit \in Int /\ late \in Nat
  /\ lost \in BOOLEAN /\ muddled \in BOOLEAN /\ mistaken \in BOOLEAN

ScannerKnows == alpha = prevAlpha \/ CapsLock \notin physical \cup virtual

EventsAccounted ==
  Balanced(virtual, wire, channel, echo, engine.pressed, engine.swallowed,
           physical, app, mistaken, credit, late)

MacInv == MacTypes /\ (Undisturbed => ScannerKnows /\ EventsAccounted)

(* When nothing is down or under way everything is accounted for.          *)
LEMMA CalmAccounted == Calm /\ credit' = 0 => ScannerKnows' /\ EventsAccounted'
<1>. SUFFICES ASSUME Calm, credit' = 0 PROVE ScannerKnows' /\ EventsAccounted'
  OBVIOUS
<1>1. /\ physical' = {} /\ virtual' = {} /\ app' = {} /\ engine'.pressed = {}
      /\ wire' = << >> /\ channel' = << >> /\ echo' = << >>
  BY DEF Calm
<1>2. EventsAccounted'
  BY <1>1, BalancedNothing DEF EventsAccounted
<1>. QED BY <1>1, <1>2 DEF ScannerKnows

(* At the start nothing is down or under way.                              *)
LEMMA MacInitInv == MacInit => MacInv
<1>. SUFFICES ASSUME MacInit PROVE MacInv
  OBVIOUS
<1>1. MacTypes
  <2>1. EngineInv(FreshEngine) /\ FreshEngine.stale = {} /\ FreshEngine.pressed = {}
    BY FreshEngineInv DEF FreshEngine
  <2>2. engine = FreshEngine
    BY DEF MacInit
  <2>3. EngineInv(engine) /\ engine.stale = {}
    BY <2>1, <2>2
  <2>4. /\ alpha \in BOOLEAN /\ prevAlpha \in BOOLEAN
        /\ lost \in BOOLEAN /\ muddled \in BOOLEAN /\ mistaken \in BOOLEAN
    BY Zenon DEF MacInit
  <2>5. credit \in Int /\ late \in Nat
    BY DEF MacInit
  <2>. QED BY <2>3, <2>4, <2>5, Zenon DEF MacTypes
<1>2. ScannerKnows /\ EventsAccounted
  <2>1. /\ engine.pressed = {} /\ physical = {} /\ virtual = {} /\ app = {}
        /\ wire = << >> /\ channel = << >> /\ echo = << >> /\ credit = 0
    BY DEF MacInit, FreshEngine
  <2>2. EventsAccounted
    BY <2>1, BalancedNothing DEF EventsAccounted
  <2>. QED BY <2>1, <2>2 DEF ScannerKnows
<1>. QED BY <1>1, <1>2 DEF MacInv

\* The predictions that have not expired, and what those that have leave to be
\* decided.
Live(stale) == SubSeq(echo, stale + 1, Len(echo))
Paid(stale) == credit + ExpiredPresses(stale)

\* What an event does while nothing has gone wrong: it is the echo that is due
\* or the engine decides on it.
Accepted(k, isDown, mine, stale) ==
  IF Live(stale) # << >> /\ Head(Live(stale)) = Step(k, isDown)
  THEN /\ app' = After(app, k, isDown)
       /\ echo' = Tail(Live(stale))
       /\ engine' = engine /\ channel' = channel
       /\ credit' = Paid(stale) + One(isDown /\ ~mine)
       /\ mistaken' <=> mistaken \/ ~mine
  ELSE \E passes \in BOOLEAN, b \in Seq(NativeKey) :
         /\ \A i \in DOMAIN b : Usable(b[i])
         /\ Decides(k, isDown, engine.pressed, engine.swallowed,
                    engine'.pressed, engine'.swallowed, passes)
         /\ app' = IF passes THEN After(app, k, isDown) ELSE app
         /\ \/ channel' = channel /\ echo' = Live(stale)
            \/ channel' = Append(channel, b) /\ echo' = Live(stale) \o EchoOfBatch(b)
         /\ credit' = Paid(stale) - One(isDown /\ mine)
         /\ mistaken' <=> mistaken

(* How many presses there are among the first predictions is a number.     *)
LEMMA PressesType ==
  ASSUME NEW stale \in Nat
  PROVE  ExpiredPresses(stale) \in Nat /\ ExpiredPresses(0) = 0
<1>. DEFINE S == {i \in 1 .. stale : echo[i].isDown}
<1>1. IsFiniteSet(1 .. stale) /\ S \in SUBSET (1 .. stale)
  BY FS_Interval
<1>. HIDE DEF S
<1>2. IsFiniteSet(S)
  BY <1>1, FS_Subset
<1>3. Cardinality(S) \in Nat
  BY <1>2, FS_CardinalityType
<1>4. {i \in 1 .. 0 : echo[i].isDown} = {}
  OBVIOUS
<1>5. ExpiredPresses(0) = 0
  BY <1>4, FS_EmptySet DEF ExpiredPresses
<1>. QED BY <1>3, <1>5 DEF S, ExpiredPresses

(* A delivered event is counted by TrackHistory.                           *)
LEMMA DeliverCounts ==
  ASSUME NEW k, NEW isDown, NEW stale, NEW mine, NEW others,
         Deliver(k, isDown, stale, mine, others)
  PROVE  \E nowLate, nowLost, nowMuddled, nowMistaken, c1, c2 :
           TrackHistory(nowLate, nowLost, nowMuddled, nowMistaken,
                        ExpiredPresses(stale) + One(c1), One(c2))
           \/ TrackHistory(nowLate, nowLost, nowMuddled, nowMistaken, 0, 0)
<1>. DEFINE dir == Scanned(k, isDown, others \cup (IF isDown THEN {k} ELSE {}),
                           IF k = CapsLock /\ isDown THEN ~alpha ELSE alpha)
            taken == ~mine /\ IsEcho(k, dir, stale)
<1>1. CASE tapOn
  <2>1. TrackHistory(stale > 0 /\ Undisturbed, FALSE, Misleading(k, isDown, others), taken,
                     ExpiredPresses(stale) + One(dir /\ taken),
                     One(dir /\ mine /\ ~IsEcho(k, dir, stale)))
    BY <1>1 DEF Deliver
  <2>. HIDE DEF dir, taken
  <2>. QED BY <2>1, Zenon
<1>2. CASE ~tapOn
  <2>1. TrackHistory(FALSE, mine, TRUE, FALSE, 0, 0)
    BY <1>2 DEF Deliver
  <2>. QED BY <2>1, Zenon
<1>. QED BY <1>1, <1>2

(* A delivered event keeps the types.                                      *)
LEMMA DeliverTypes ==
  ASSUME MacTypes, NEW k \in Keys, NEW isDown \in BOOLEAN, NEW stale \in Nat,
         NEW mine \in BOOLEAN, NEW others, Deliver(k, isDown, stale, mine, others)
  PROVE  MacTypes'
<1>. DEFINE lit == IF k = CapsLock /\ isDown THEN ~alpha ELSE alpha
            dir == Scanned(k, isDown, others \cup (IF isDown THEN {k} ELSE {}), lit)
<1>1. EngineInv(engine') /\ engine'.stale = {}
  <2>. HIDE DEF dir, lit
  <2>1. \/ engine' = engine
        \/ engine' = AfterDown(engine, k, NoDevice, reachable, Rules)
        \/ engine' = AfterUp(engine, k)
    BY DEF Deliver, TapCallback, dir, lit
  <2>. QED BY <2>1, EngineDown, EngineUp DEF MacTypes
<1>2. alpha' \in BOOLEAN /\ prevAlpha' \in BOOLEAN
  BY DEF Deliver, MacTypes
<1>3. /\ credit' \in Int /\ late' \in Nat
      /\ lost' \in BOOLEAN /\ muddled' \in BOOLEAN /\ mistaken' \in BOOLEAN
  <2>1. PICK nowLate, nowLost, nowMuddled, nowMistaken, c1, c2 :
          TrackHistory(nowLate, nowLost, nowMuddled, nowMistaken,
                       ExpiredPresses(stale) + One(c1), One(c2))
          \/ TrackHistory(nowLate, nowLost, nowMuddled, nowMistaken, 0, 0)
    BY DeliverCounts, Zenon
  <2>2. lost' \in BOOLEAN /\ muddled' \in BOOLEAN /\ mistaken' \in BOOLEAN
    BY <2>1 DEF TrackHistory
  <2>3. late' = 0 \/ late' = late \/ late' = late + 1
    BY <2>1 DEF TrackHistory
  <2>4. \/ credit' = 0 \/ credit' = credit + 0 - 0
        \/ credit' = credit + (ExpiredPresses(stale) + One(c1)) - One(c2)
    BY <2>1 DEF TrackHistory
  <2>5. ExpiredPresses(stale) \in Int /\ One(c1) \in Int /\ One(c2) \in Int
    BY PressesType DEF One
  <2>6. credit \in Int /\ late \in Nat
    BY DEF MacTypes
  <2>7. credit' \in Int
    BY <2>4, <2>5, <2>6
  <2>8. late' \in Nat
    BY <2>3, <2>6
  <2>. QED BY <2>2, <2>7, <2>8
<1>. QED BY <1>1, <1>2, <1>3 DEF MacTypes

(* While nothing has gone wrong an event is taken for the echo that is due *)
(* or the engine decides on it in its true direction, and the scanner      *)
(* knows the state of CapsLock after it.                                   *)
LEMMA Delivered ==
  ASSUME MacTypes, Undisturbed, echo \in Seq(KeyEvents),
         NEW k \in Keys, NEW isDown \in BOOLEAN, NEW stale \in Nat, NEW mine \in BOOLEAN,
         NEW others, Deliver(k, isDown, stale, mine, others),
         ~isDown /\ k = CapsLock => alpha = prevAlpha,
         ~Calm, ~lost', ~muddled'
  PROVE  /\ Accepted(k, isDown, mine, stale)
         /\ stale \in 0 .. Len(echo)
         /\ late' = IF stale > 0 THEN late + 1 ELSE late
         /\ k = CapsLock => alpha' = prevAlpha'
         /\ k # CapsLock => alpha' = alpha /\ prevAlpha' = prevAlpha
<1>. DEFINE lit == IF k = CapsLock /\ isDown THEN ~alpha ELSE alpha
            seen == others \cup (IF isDown THEN {k} ELSE {})
            dir == Scanned(k, isDown, seen, lit)
            live == EchoAfter(k, isDown, stale)
            d == IF isDown THEN DownDecision(engine, k, NoDevice, reachable, Rules)
                           ELSE UpDecision(engine, k)
            match == Live(stale) # << >> /\ Head(Live(stale)) = Step(k, isDown)
<1>1. stale \in 0 .. Len(echo)
  BY DEF Deliver, Expire
<1>2. tapOn
  <2>1. SUFFICES ASSUME ~tapOn PROVE FALSE
    OBVIOUS
  <2>2. TrackHistory(FALSE, mine, TRUE, FALSE, 0, 0)
    BY <2>1 DEF Deliver
  <2>. QED BY <2>2 DEF TrackHistory
<1>3. /\ TapCallback(k, isDown, dir, stale)
      /\ alpha' = lit
      /\ prevAlpha' = IF k = CapsLock THEN lit ELSE prevAlpha
      /\ TrackHistory(stale > 0 /\ Undisturbed, FALSE, Misleading(k, isDown, others),
                      ~mine /\ IsEcho(k, dir, stale),
                      ExpiredPresses(stale) + One(dir /\ (~mine /\ IsEcho(k, dir, stale))),
                      One(dir /\ mine /\ ~IsEcho(k, dir, stale)))
  BY <1>2 DEF Deliver
<1>4. ~Misleading(k, isDown, others)
  BY <1>3 DEF TrackHistory
<1>5. dir = isDown
  <2>1. alpha \in BOOLEAN /\ prevAlpha \in BOOLEAN
    BY DEF MacTypes
  <2>2. /\ seen = others \cup (IF isDown THEN {k} ELSE {})
        /\ lit = IF k = CapsLock /\ isDown THEN ~alpha ELSE alpha
    OBVIOUS
  <2>. HIDE DEF seen, lit
  <2>3. Scanned(k, isDown, seen, lit) = isDown
    BY <2>1, <2>2, <1>4, ScannerRight DEF Scanned, Misleading
  <2>. QED BY <2>3
<1>. HIDE DEF dir
<1>6. /\ TapCallback(k, isDown, isDown, stale)
      /\ TrackHistory(stale > 0 /\ Undisturbed, FALSE, Misleading(k, isDown, others),
                      ~mine /\ IsEcho(k, isDown, stale),
                      ExpiredPresses(stale) + One(isDown /\ (~mine /\ IsEcho(k, isDown, stale))),
                      One(isDown /\ mine /\ ~IsEcho(k, isDown, stale)))
  BY <1>3, <1>5
<1>7. IsEcho(k, isDown, stale) <=> match
  <2>1. /\ Live(stale) \in Seq(KeyEvents) /\ Len(Live(stale)) = Len(echo) - stale
        /\ stale < Len(echo) => Live(stale)[1] = echo[stale + 1]
        /\ Len(echo) \in Nat
    BY <1>1 DEF Live
  <2>2. /\ Live(stale) # << >> <=> stale < Len(echo)
        /\ Live(stale) # << >> => Head(Live(stale)) = echo[stale + 1]
    BY <2>1, <1>1
  <2>. QED BY <2>2 DEF IsEcho
<1>8. live = IF match THEN Tail(Live(stale)) ELSE Live(stale)
  BY Zenon DEF EchoAfter, Live
<1>9. /\ mistaken' <=> mistaken \/ (~mine /\ match)
      /\ late' = IF stale > 0 THEN late + 1 ELSE late
      /\ credit' = credit + (ExpiredPresses(stale) + One(isDown /\ (~mine /\ match)))
                     - One(isDown /\ mine /\ ~match)
  <2>1. mistaken' = (~Calm /\ (mistaken \/ (~mine /\ IsEcho(k, isDown, stale))))
    BY <1>6 DEF TrackHistory
  <2>2. late' = IF Calm THEN 0 ELSE IF stale > 0 /\ Undisturbed THEN late + 1 ELSE late
    BY <1>6 DEF TrackHistory
  <2>3. credit' = IF lost' \/ muddled' \/ Calm THEN 0
                  ELSE credit + (ExpiredPresses(stale) + One(isDown /\ (~mine /\ IsEcho(k, isDown, stale))))
                         - One(isDown /\ mine /\ ~IsEcho(k, isDown, stale))
    BY <1>6 DEF TrackHistory
  <2>4. credit' = credit + (ExpiredPresses(stale) + One(isDown /\ (~mine /\ IsEcho(k, isDown, stale))))
                    - One(isDown /\ mine /\ ~IsEcho(k, isDown, stale))
    BY <2>3
  <2>5. /\ One(isDown /\ (~mine /\ IsEcho(k, isDown, stale))) = One(isDown /\ (~mine /\ match))
        /\ One(isDown /\ mine /\ ~IsEcho(k, isDown, stale)) = One(isDown /\ mine /\ ~match)
    BY <1>7 DEF One
  <2>6. mistaken' <=> mistaken \/ (~mine /\ match)
    BY <1>7, <2>1
  <2>7. late' = IF stale > 0 THEN late + 1 ELSE late
    BY <2>2
  <2>. HIDE DEF match
  <2>. QED BY <2>4, <2>5, <2>6, <2>7
<1>10. credit \in Int /\ ExpiredPresses(stale) \in Int
  BY PressesType DEF MacTypes
<1>. HIDE DEF live, match
<1>11. CASE match
  <2>1. /\ app' = After(app, k, isDown) /\ echo' = live
        /\ engine' = engine /\ channel' = channel
    BY <1>6, <1>7, <1>11 DEF TapCallback, AppSees, After, live
  <2>2. credit' = Paid(stale) + One(isDown /\ ~mine)
    <3>1. One(isDown /\ (~mine /\ match)) = One(isDown /\ ~mine)
      BY <1>11 DEF One
    <3>2. One(isDown /\ mine /\ ~match) = 0 /\ One(isDown /\ ~mine) \in Int
      BY <1>11 DEF One
    <3>. QED BY <1>9, <1>10, <3>1, <3>2 DEF Paid
  <2>3. mistaken' <=> mistaken \/ ~mine
    BY <1>9, <1>11
  <2>4. Live(stale) # << >> /\ Head(Live(stale)) = Step(k, isDown)
    BY <1>11 DEF match
  <2>5. Accepted(k, isDown, mine, stale)
    BY <1>8, <1>11, <2>1, <2>2, <2>3, <2>4 DEF Accepted
  <2>. QED BY <2>5, <1>1, <1>3, <1>9
<1>12. CASE ~match
  <2>1. /\ engine' = IF isDown THEN AfterDown(engine, k, NoDevice, reachable, Rules)
                               ELSE AfterUp(engine, k)
        /\ EmitBatch(d.outputs, live)
        /\ IF Passes(d.kind) THEN AppSees(k, isDown) ELSE app' = app
    BY <1>6, <1>7, <1>12 DEF TapCallback, live
  <2>2. live = Live(stale)
    BY <1>8, <1>12
  <2>3. /\ Decides(k, isDown, engine.pressed, engine.swallowed,
                   engine'.pressed, engine'.swallowed, Passes(d.kind))
        /\ d.outputs \in Seq(NativeKey) /\ \A i \in DOMAIN d.outputs : Usable(d.outputs[i])
    <3>1. EngineInv(engine) /\ engine.stale = {}
      BY DEF MacTypes
    <3>2. CASE isDown
      <4>1. isDown = TRUE
        BY <3>2
      <4>2. /\ engine' = AfterDown(engine, k, NoDevice, reachable, Rules)
            /\ d = DownDecision(engine, k, NoDevice, reachable, Rules)
        BY <4>1, <2>1
      <4>. HIDE DEF d
      <4>3. /\ Decides(k, TRUE, engine.pressed, engine.swallowed,
                       engine'.pressed, engine'.swallowed, Passes(d.kind))
            /\ d.outputs \in Seq(NativeKey)
            /\ \A i \in DOMAIN d.outputs : Usable(d.outputs[i])
        BY <3>1, <4>2, EngineDown, Zenon
      <4>. QED BY <4>1, <4>3
    <3>3. CASE ~isDown
      <4>1. isDown = FALSE
        BY <3>3
      <4>2. engine' = AfterUp(engine, k) /\ d = UpDecision(engine, k)
        BY <4>1, <2>1
      <4>. HIDE DEF d
      <4>3. /\ Decides(k, FALSE, engine.pressed, engine.swallowed,
                       engine'.pressed, engine'.swallowed, Passes(d.kind))
            /\ d.outputs = << >>
        BY <3>1, <4>2, EngineUp, Zenon
      <4>4. d.outputs \in Seq(NativeKey) /\ \A i \in DOMAIN d.outputs : Usable(d.outputs[i])
        BY <4>3
      <4>. QED BY <4>1, <4>3, <4>4
    <3>. QED BY <3>2, <3>3
  <2>. HIDE DEF d
  <2>4. \/ channel' = channel /\ echo' = Live(stale)
        \/ channel' = Append(channel, d.outputs) /\ echo' = Live(stale) \o EchoOfBatch(d.outputs)
    BY <2>1, <2>2 DEF EmitBatch
  <2>5. app' = IF Passes(d.kind) THEN After(app, k, isDown) ELSE app
    BY <2>1 DEF AppSees, After
  <2>6. credit' = Paid(stale) - One(isDown /\ mine)
    <3>1. One(isDown /\ (~mine /\ match)) = 0
      BY <1>12 DEF One
    <3>2. One(isDown /\ mine /\ ~match) = One(isDown /\ mine) /\ One(isDown /\ mine) \in Int
      BY <1>12 DEF One
    <3>. QED BY <1>9, <1>10, <3>1, <3>2 DEF Paid
  <2>7. mistaken' <=> mistaken
    BY <1>9, <1>12
  <2>8. Passes(d.kind) \in BOOLEAN
    BY DEF Passes
  <2>9. \E passes \in BOOLEAN, b \in Seq(NativeKey) :
         /\ \A i \in DOMAIN b : Usable(b[i])
         /\ Decides(k, isDown, engine.pressed, engine.swallowed,
                    engine'.pressed, engine'.swallowed, passes)
         /\ app' = IF passes THEN After(app, k, isDown) ELSE app
         /\ \/ channel' = channel /\ echo' = Live(stale)
            \/ channel' = Append(channel, b) /\ echo' = Live(stale) \o EchoOfBatch(b)
         /\ credit' = Paid(stale) - One(isDown /\ mine)
         /\ mistaken' <=> mistaken
    BY <2>3, <2>4, <2>5, <2>6, <2>7, <2>8
  <2>10. ~(Live(stale) # << >> /\ Head(Live(stale)) = Step(k, isDown))
    BY <1>12 DEF match
  <2>11. Accepted(k, isDown, mine, stale)
    BY <2>9, <2>10 DEF Accepted
  <2>. QED BY <2>11, <1>1, <1>3, <1>9
<1>. QED BY <1>11, <1>12

(* A history that has ended, or never begun, left nothing behind.          *)
LEMMA DeliverHistory ==
  ASSUME NEW k, NEW isDown, NEW stale, NEW mine, NEW others,
         Deliver(k, isDown, stale, mine, others)
  PROVE  /\ Calm => credit' = 0
         /\ ~Calm /\ ~lost' /\ ~muddled' => Undisturbed
<1>1. PICK nowLate, nowLost, nowMuddled, nowMistaken, c1, c2 :
        TrackHistory(nowLate, nowLost, nowMuddled, nowMistaken,
                     ExpiredPresses(stale) + One(c1), One(c2))
        \/ TrackHistory(nowLate, nowLost, nowMuddled, nowMistaken, 0, 0)
  BY DeliverCounts, Zenon
<1>. QED BY <1>1 DEF TrackHistory, Undisturbed

(* When predictions expire the rest stays accounted for.                   *)
LEMMA LiveAccounted ==
  ASSUME MacTypes, EventsAccounted, NEW stale \in 0 .. Len(echo),
         late' = IF stale > 0 THEN late + 1 ELSE late
  PROVE  Balanced(virtual, wire, channel, Live(stale), engine.pressed, engine.swallowed,
                  physical, app, mistaken, Paid(stale), late') /\ Paid(stale) \in Int
<1>1. credit \in Int /\ late \in Nat /\ stale \in Nat
  BY DEF MacTypes
<1>2. Balanced(virtual, wire, channel, echo, engine.pressed, engine.swallowed,
               physical, app, mistaken, credit, late)
  BY DEF EventsAccounted
<1>3. echo \in Seq(KeyEvents)
  BY <1>2, PendingTypes DEF Balanced
<1>4. Paid(stale) \in Int
  BY <1>1, PressesType DEF Paid
<1>5. CASE stale = 0
  <2>1. Live(stale) = echo /\ late' = late
    <3>1. SubSeq(echo, 1, Len(echo)) = echo
      BY <1>3, SubSeqFull
    <3>2. 0 + 1 = 1
      OBVIOUS
    <3>. QED BY <1>5, <3>1, <3>2 DEF Live
  <2>2. Paid(stale) = credit
    BY <1>1, <1>5, PressesType DEF Paid
  <2>. QED BY <1>2, <1>4, <2>1, <2>2
<1>6. CASE stale # 0
  <2>1. late' # 0
    BY <1>1, <1>6
  <2>2. LET S == {i \in 1 .. stale : echo[i].isDown} IN
        Balanced(virtual, wire, channel, SubSeq(echo, stale + 1, Len(echo)), engine.pressed,
                 engine.swallowed, physical, app, mistaken, credit + Cardinality(S), late')
    BY <1>1, <1>2, <2>1, BalancedExpired
  <2>. QED BY <1>4, <2>2 DEF Live, Paid, ExpiredPresses
<1>. QED BY <1>5, <1>6

(* What the user does to a key is accounted for.                           *)
LEMMA UserEventInv ==
  ASSUME MacInv, NEW k \in Keys, NEW isDown \in BOOLEAN, NEW stale \in Nat,
         UserEvent(k, isDown, stale)
  PROVE  MacInv'
<1>. DEFINE others == (physical \ {k}) \cup virtual
<1>1. /\ Deliver(k, isDown, stale, FALSE, others)
      /\ physical' = After(physical, k, isDown)
      /\ virtual' = virtual /\ wire' = wire
      /\ isDown \/ k \in physical
  BY DEF UserEvent, After
<1>. HIDE DEF others
<1>2. MacTypes'
  BY <1>1, DeliverTypes DEF MacInv
<1>3. ASSUME Undisturbed' PROVE ScannerKnows' /\ EventsAccounted'
  <2>1. CASE Calm
    BY <1>1, <2>1, CalmAccounted, DeliverHistory
  <2>2. CASE ~Calm
    <3>1. ~lost' /\ ~muddled'
      BY <1>3 DEF Undisturbed
    <3>2. Undisturbed
      BY <1>1, <2>2, <3>1, DeliverHistory
    <3>3. MacTypes /\ ScannerKnows /\ EventsAccounted
      BY <3>2 DEF MacInv
    <3>4. mistaken' \in BOOLEAN /\ mistaken \in BOOLEAN
      BY <3>3, <1>2 DEF MacTypes
    <3>5. echo \in Seq(KeyEvents)
      BY <3>3, PendingTypes DEF EventsAccounted, Balanced
    <3>6. ~isDown /\ k = CapsLock => alpha = prevAlpha
      BY <3>3, <1>1 DEF ScannerKnows
    <3>7. /\ Accepted(k, isDown, FALSE, stale)
          /\ stale \in 0 .. Len(echo)
          /\ late' = IF stale > 0 THEN late + 1 ELSE late
          /\ k = CapsLock => alpha' = prevAlpha'
          /\ k # CapsLock => alpha' = alpha /\ prevAlpha' = prevAlpha
      BY <1>1, <2>2, <3>1, <3>2, <3>3, <3>5, <3>6, Delivered
    <3>8. ScannerKnows'
      <4>1. k # CapsLock => (CapsLock \in physical' <=> CapsLock \in physical)
        BY <1>1 DEF After
      <4>. QED BY <4>1, <1>1, <3>3, <3>7 DEF ScannerKnows
    <3>. DEFINE x == Live(stale)
                paid == Paid(stale)
    <3>9. /\ Balanced(virtual, wire, channel, x, engine.pressed, engine.swallowed,
                      physical, app, mistaken, paid, late')
          /\ paid \in Int
      BY <3>3, <3>7, LiveAccounted
    <3>10. CASE x # << >> /\ Head(x) = Step(k, isDown)
      <4>1. /\ app' = After(app, k, isDown) /\ echo' = Tail(x)
            /\ engine' = engine /\ channel' = channel
            /\ credit' = paid + One(isDown /\ ~FALSE)
            /\ mistaken' = TRUE
        BY <3>4, <3>7, <3>10 DEF Accepted
      <4>. HIDE DEF x, paid
      <4>2. Balanced(virtual, wire, channel, Tail(x), engine.pressed, engine.swallowed,
                     After(physical, k, isDown), After(app, k, isDown), TRUE,
                     paid + One(isDown), late')
        BY <3>9, <3>10, BalancedUserMatched
      <4>3. credit' = paid + One(isDown)
        BY <4>1 DEF One
      <4>4. EventsAccounted'
        BY <1>1, <4>1, <4>2, <4>3, Zenon DEF EventsAccounted
      <4>. QED BY <3>8, <4>4
    <3>11. CASE ~(x # << >> /\ Head(x) = Step(k, isDown))
      <4>1. PICK passes \in BOOLEAN, b \in Seq(NativeKey) :
              /\ \A i \in DOMAIN b : Usable(b[i])
              /\ Decides(k, isDown, engine.pressed, engine.swallowed,
                         engine'.pressed, engine'.swallowed, passes)
              /\ app' = IF passes THEN After(app, k, isDown) ELSE app
              /\ \/ channel' = channel /\ echo' = x
                 \/ channel' = Append(channel, b) /\ echo' = x \o EchoOfBatch(b)
              /\ credit' = paid - One(isDown /\ FALSE)
              /\ mistaken' <=> mistaken
        BY <3>7, <3>11 DEF Accepted
      <4>. HIDE DEF x, paid
      <4>2. mistaken' = mistaken /\ credit' = paid
        <5>1. mistaken' = mistaken
          BY <3>4, <4>1
        <5>2. One(isDown /\ FALSE) = 0
          BY DEF One
        <5>. QED BY <3>9, <4>1, <5>1, <5>2
      <4>3. Balanced(virtual, wire, channel, x, engine'.pressed, engine'.swallowed,
                     After(physical, k, isDown), IF passes THEN After(app, k, isDown) ELSE app,
                     mistaken, paid, late')
        BY <3>9, <4>1, BalancedUserDecided
      <4>4. Balanced(virtual', wire', channel, x, engine'.pressed, engine'.swallowed,
                     physical', app', mistaken', credit', late')
        BY <1>1, <4>1, <4>2, <4>3, Zenon
      <4>5. Balanced(virtual', wire', channel', echo', engine'.pressed, engine'.swallowed,
                     physical', app', mistaken', credit', late')
        BY <4>1, <4>4, BalancedEmitted
      <4>. QED BY <3>8, <4>5 DEF EventsAccounted
    <3>. QED BY <3>10, <3>11
  <2>. QED BY <2>1, <2>2
<1>. QED BY <1>2, <1>3 DEF MacInv

(* What the virtual keyboard types is accounted for.                       *)
LEMMA EchoEventInv ==
  ASSUME MacInv, NEW k \in Keys, NEW isDown \in BOOLEAN, NEW stale \in Nat,
         EchoEvent(k, isDown, stale)
  PROVE  MacInv'
<1>. DEFINE others == physical \cup (virtual \ {k})
<1>1. /\ Deliver(k, isDown, stale, TRUE, others)
      /\ virtual' = After(virtual, k, isDown)
      /\ wire' = IF virtual' = Head(wire) THEN Tail(wire) ELSE wire
      /\ wire # << >>
      /\ k \in IF isDown THEN Head(wire) \ virtual ELSE virtual \ Head(wire)
      /\ physical' = physical
  BY DEF EchoEvent, After
<1>. HIDE DEF others
<1>2. MacTypes'
  BY <1>1, DeliverTypes DEF MacInv
<1>3. ASSUME Undisturbed' PROVE ScannerKnows' /\ EventsAccounted'
  <2>1. CASE Calm
    BY <1>1, <2>1, CalmAccounted, DeliverHistory
  <2>2. CASE ~Calm
    <3>1. ~lost' /\ ~muddled'
      BY <1>3 DEF Undisturbed
    <3>2. Undisturbed
      BY <1>1, <2>2, <3>1, DeliverHistory
    <3>3. MacTypes /\ ScannerKnows /\ EventsAccounted
      BY <3>2 DEF MacInv
    <3>4. mistaken' \in BOOLEAN /\ mistaken \in BOOLEAN
      BY <3>3, <1>2 DEF MacTypes
    <3>5. echo \in Seq(KeyEvents)
      BY <3>3, PendingTypes DEF EventsAccounted, Balanced
    <3>6. ~isDown /\ k = CapsLock => alpha = prevAlpha
      BY <3>3, <1>1 DEF ScannerKnows
    <3>7. /\ Accepted(k, isDown, TRUE, stale)
          /\ stale \in 0 .. Len(echo)
          /\ late' = IF stale > 0 THEN late + 1 ELSE late
          /\ k = CapsLock => alpha' = prevAlpha'
          /\ k # CapsLock => alpha' = alpha /\ prevAlpha' = prevAlpha
      BY <1>1, <2>2, <3>1, <3>2, <3>3, <3>5, <3>6, Delivered
    <3>8. ScannerKnows'
      <4>1. k # CapsLock => (CapsLock \in virtual' <=> CapsLock \in virtual)
        BY <1>1 DEF After
      <4>. QED BY <4>1, <1>1, <3>3, <3>7 DEF ScannerKnows
    <3>. DEFINE x == Live(stale)
                paid == Paid(stale)
    <3>9. /\ Balanced(virtual, wire, channel, x, engine.pressed, engine.swallowed,
                      physical, app, mistaken, paid, late')
          /\ paid \in Int
      BY <3>3, <3>7, LiveAccounted
    <3>10. CASE x # << >> /\ Head(x) = Step(k, isDown)
      <4>1. /\ app' = After(app, k, isDown) /\ echo' = Tail(x)
            /\ engine' = engine /\ channel' = channel
            /\ credit' = paid + One(isDown /\ ~TRUE)
            /\ mistaken' = mistaken
        BY <3>4, <3>7, <3>10 DEF Accepted
      <4>. HIDE DEF x, paid
      <4>2. /\ Head(wire) = After(virtual, k, isDown)
            /\ Balanced(After(virtual, k, isDown), Tail(wire), channel, Tail(x),
                        engine.pressed, engine.swallowed, physical,
                        After(app, k, isDown), mistaken, paid, late')
        BY <1>1, <3>9, <3>10, BalancedTypedMatched
      <4>3. wire' = Tail(wire)
        BY <1>1, <4>2
      <4>4. credit' = paid
        <5>1. One(isDown /\ ~TRUE) = 0
          BY DEF One
        <5>. QED BY <3>9, <4>1, <5>1
      <4>5. EventsAccounted'
        BY <1>1, <4>1, <4>2, <4>3, <4>4, Zenon DEF EventsAccounted
      <4>. QED BY <3>8, <4>5
    <3>11. CASE ~(x # << >> /\ Head(x) = Step(k, isDown))
      <4>1. PICK passes \in BOOLEAN, b \in Seq(NativeKey) :
              /\ \A i \in DOMAIN b : Usable(b[i])
              /\ Decides(k, isDown, engine.pressed, engine.swallowed,
                         engine'.pressed, engine'.swallowed, passes)
              /\ app' = IF passes THEN After(app, k, isDown) ELSE app
              /\ \/ channel' = channel /\ echo' = x
                 \/ channel' = Append(channel, b) /\ echo' = x \o EchoOfBatch(b)
              /\ credit' = paid - One(isDown /\ TRUE)
              /\ mistaken' <=> mistaken
        BY <3>7, <3>11 DEF Accepted
      <4>. HIDE DEF x, paid
      <4>2. mistaken' = mistaken /\ credit' = paid - One(isDown)
        <5>1. mistaken' = mistaken
          BY <3>4, <4>1
        <5>2. One(isDown /\ TRUE) = One(isDown)
          BY DEF One
        <5>. QED BY <4>1, <5>1, <5>2
      <4>3. /\ Head(wire) = After(virtual, k, isDown)
            /\ Balanced(After(virtual, k, isDown), Tail(wire), channel, x,
                        engine'.pressed, engine'.swallowed, physical,
                        IF passes THEN After(app, k, isDown) ELSE app, mistaken,
                        paid - One(isDown), late')
        BY <1>1, <3>9, <3>11, <4>1, BalancedTypedDecided
      <4>4. wire' = Tail(wire)
        BY <1>1, <4>3
      <4>5. Balanced(virtual', wire', channel, x, engine'.pressed, engine'.swallowed,
                     physical', app', mistaken', credit', late')
        BY <1>1, <4>1, <4>2, <4>3, <4>4, Zenon
      <4>6. Balanced(virtual', wire', channel', echo', engine'.pressed, engine'.swallowed,
                     physical', app', mistaken', credit', late')
        BY <4>1, <4>5, BalancedEmitted
      <4>. QED BY <3>8, <4>6 DEF EventsAccounted
    <3>. QED BY <3>10, <3>11
  <2>. QED BY <2>1, <2>2
<1>. QED BY <1>2, <1>3 DEF MacInv

(* When nothing is down on the user's keyboards and nothing is under way   *)
(* the applications see no key down, nor does the engine unless an event   *)
(* was mistaken.                                                           *)
LEMMA BalancedAtRest ==
  ASSUME NEW v, NEW w, NEW c, NEW x, NEW pressed, NEW swallowed, NEW phys, NEW seen,
         NEW taken, NEW due,
         Balanced(v, w, c, x, pressed, swallowed, phys, seen, taken, due, 0),
         w = << >>, c = << >>, phys = {}
  PROVE  seen = {} /\ (~taken => pressed = {})
<1>1. PICK r, T, n, e, q : /\ Pending(r, T, n, e, q, v, w, c, x)
                           /\ Claims(r, n, e, pressed, swallowed, phys, v, seen, taken)
  BY DEF Balanced
<1>2. n \in Nat /\ e \in Nat /\ n <= e /\ e <= Len(T) /\ Len(T) \in Nat /\ Mirrors(r, T)
  BY <1>1, PendingTypes
<1>3. v = Report(r, n) /\ q[0] = n + Len(w) /\ q[Len(c)] = Len(T)
  BY <1>1, Zenon DEF Pending
<1>4. n = Len(T) /\ e = n
  BY <1>2, <1>3
<1>5. Report(r, Len(r)) = {} /\ Len(r) = Len(T)
  BY <1>2, Zenon DEF Mirrors
<1>6. v = {} /\ Report(r, e) = {}
  BY <1>3, <1>4, <1>5
<1>7. /\ seen \subseteq Report(r, e) \cup phys \cup v
      /\ ~taken => n = e /\ pressed \subseteq phys
  BY <1>1, Zenon DEF Claims
<1>. QED BY <1>6, <1>7

(* The steps that change neither what is under way nor what is down.       *)
LEMMA IdleInv ==
  ASSUME MacInv, TapDisabled \/ ServerFound \/ GiveUp \/ UNCHANGED macVars
  PROVE  MacInv'
<1>1. /\ engine' = engine /\ physical' = physical /\ virtual' = virtual
      /\ alpha' = alpha /\ prevAlpha' = prevAlpha /\ echo' = echo /\ channel' = channel
      /\ wire' = wire /\ app' = app /\ credit' = credit /\ late' = late
      /\ lost' = lost /\ muddled' = muddled /\ mistaken' = mistaken
  BY DEF TapDisabled, ServerFound, GiveUp, WriterUnchanged, macVars
<1>2. MacTypes'
  BY <1>1 DEF MacInv, MacTypes
<1>3. Undisturbed' => ScannerKnows' /\ EventsAccounted'
  BY <1>1 DEF MacInv, Undisturbed, ScannerKnows, EventsAccounted
<1>. QED BY <1>2, <1>3 DEF MacInv

(* A batch is written.                                                     *)
LEMMA WriteBatchInv ==
  ASSUME MacInv, WriteBatch
  PROVE  MacInv'
<1>1. /\ engine' = engine /\ physical' = physical /\ virtual' = virtual
      /\ alpha' = alpha /\ prevAlpha' = prevAlpha /\ echo' = echo /\ app' = app
      /\ credit' = credit /\ late' = late
      /\ lost' = lost /\ muddled' = muddled /\ mistaken' = mistaken
      /\ channel # << >> /\ channel' = Tail(channel)
      /\ wire' = wire \o ReportsOfBatch(Head(channel))
  BY DEF WriteBatch, WriterUnchanged
<1>2. MacTypes'
  BY <1>1 DEF MacInv, MacTypes
<1>3. ASSUME Undisturbed' PROVE ScannerKnows' /\ EventsAccounted'
  <2>1. Undisturbed
    BY <1>1, <1>3 DEF Undisturbed
  <2>2. ScannerKnows'
    BY <1>1, <2>1 DEF MacInv, ScannerKnows
  <2>3. EventsAccounted
    BY <2>1 DEF MacInv
  <2>4. EventsAccounted'
    BY <1>1, <2>3, BalancedWritten DEF EventsAccounted
  <2>. QED BY <2>2, <2>4
<1>. QED BY <1>2, <1>3 DEF MacInv

(* What was predicted is lost: nothing is claimed until all is at rest.    *)
LEMMA LossInv ==
  ASSUME MacInv, BatchFails \/ DaemonDies
  PROVE  MacInv'
<1>1. /\ engine' = engine /\ physical' = physical
      /\ alpha' = alpha /\ prevAlpha' = prevAlpha
      /\ TrackHistory(FALSE, TRUE, FALSE, FALSE, 0, 0)
  BY DEF BatchFails, DaemonDies, WriterUnchanged
<1>2. MacTypes'
  <2>1. credit' = 0 \/ credit' = credit + 0 - 0
    BY <1>1 DEF TrackHistory
  <2>2. lost' \in BOOLEAN /\ muddled' \in BOOLEAN /\ mistaken' \in BOOLEAN
    BY <1>1 DEF TrackHistory
  <2>3. credit' \in Int /\ late' \in Nat
    <3>1. late' = 0 \/ late' = late
      BY <1>1 DEF TrackHistory
    <3>. QED BY <2>1, <3>1 DEF MacInv, MacTypes
  <2>. QED BY <1>1, <2>2, <2>3 DEF MacInv, MacTypes
<1>3. ASSUME Undisturbed' PROVE ScannerKnows' /\ EventsAccounted'
  <2>1. Calm /\ credit' = 0
    BY <1>1, <1>3 DEF TrackHistory, Undisturbed
  <2>. QED BY <2>1, CalmAccounted
<1>. QED BY <1>2, <1>3 DEF MacInv

(* Every step keeps the invariant.                                         *)
LEMMA MacStepInv == MacInv /\ [MacNext]_macVars => MacInv'
<1>. SUFFICES ASSUME MacInv, [MacNext]_macVars PROVE MacInv'
  OBVIOUS
<1>1. ASSUME NEW k \in Keys, NEW isDown \in BOOLEAN, NEW stale \in 0 .. Len(echo),
             UserEvent(k, isDown, stale)
      PROVE  MacInv'
  <2>1. stale \in Nat
    OBVIOUS
  <2>. QED BY <1>1, <2>1, UserEventInv
<1>2. ASSUME NEW k \in Keys, NEW isDown \in BOOLEAN, NEW stale \in 0 .. Len(echo),
             EchoEvent(k, isDown, stale)
      PROVE  MacInv'
  <2>1. stale \in Nat
    OBVIOUS
  <2>. QED BY <1>2, <2>1, EchoEventInv
<1>3. CASE TapDisabled \/ ServerFound \/ GiveUp \/ UNCHANGED macVars
  BY <1>3, IdleInv
<1>4. CASE WriteBatch
  BY <1>4, WriteBatchInv
<1>5. CASE BatchFails \/ DaemonDies
  BY <1>5, LossInv
<1>. QED BY <1>1, <1>2, <1>3, <1>4, <1>5 DEF MacNext

(* The invariant holds in every reachable state.                           *)
LEMMA MacAlways == MacSpec => []MacInv
<1>1. MacInit => MacInv
  BY MacInitInv
<1>2. MacInv /\ [MacNext]_macVars => MacInv'
  BY MacStepInv
<1>. QED BY <1>1, <1>2, PTL DEF MacSpec

(* While every echo comes back, if late, and the scanner is not misled,    *)
(* tap_callback does not feed on its own output: every echo that decide    *)
(* gets is paid for by a prediction that expired (matches) or that a press *)
(* or repeat of the user was taken for.                                    *)
THEOREM NoFeedbackAlways == MacSpec => []NoFeedback
<1>1. MacInv => NoFeedback
  <2>. SUFFICES ASSUME MacInv, Undisturbed PROVE credit >= 0
    BY DEF NoFeedback
  <2>1. Balanced(virtual, wire, channel, echo, engine.pressed, engine.swallowed,
                 physical, app, mistaken, credit, late)
    BY DEF MacInv, EventsAccounted
  <2>2. credit \in Int
    BY DEF MacInv, MacTypes
  <2>3. PICK r, T, n, e, q :
          /\ Pending(r, T, n, e, q, virtual, wire, channel, echo)
          /\ credit >= Cardinality(Overtaken(T, n, e))
    BY <2>1 DEF Balanced
  <2>4. Cardinality(Overtaken(T, n, e)) \in Nat
    BY <2>3, PendingTypes, OvertakenType
  <2>. QED BY <2>2, <2>3, <2>4
<1>. QED BY <1>1, MacAlways, PTL

(* When the user's keyboards are at rest and all reports are typed, no     *)
(* application sees a key down: what tap_callback swallows and what the    *)
(* writer types go down and up together while no prediction expires early. *)
THEOREM NoStuckKeysAlways == MacSpec => []NoStuckKeys
<1>1. MacInv => NoStuckKeys
  <2>. SUFFICES ASSUME MacInv, Undisturbed, late = 0, physical = {}, channel = << >>, wire = << >>
                PROVE  app = {}
    BY DEF NoStuckKeys
  <2>1. Balanced(virtual, wire, channel, echo, engine.pressed, engine.swallowed,
                 physical, app, mistaken, credit, 0)
    BY DEF MacInv, EventsAccounted
  <2>. QED BY <2>1, BalancedAtRest
<1>. QED BY <1>1, MacAlways, PTL

(* When all is at rest the engine takes no key for pressed and looks rules *)
(* up with no modifier: decide saw the release of every press it saw.      *)
THEOREM EngineAtRestAlways == MacSpec => []EngineAtRest
<1>1. MacInv => EngineAtRest
  <2>. SUFFICES ASSUME MacInv, Undisturbed, ~mistaken, late = 0, physical = {},
                       channel = << >>, wire = << >>
                PROVE  engine.pressed = {} /\ engine.modifierState = {}
    BY DEF EngineAtRest
  <2>1. Balanced(virtual, wire, channel, echo, engine.pressed, engine.swallowed,
                 physical, app, mistaken, credit, 0)
    BY DEF MacInv, EventsAccounted
  <2>2. engine.pressed = {}
    BY <2>1, BalancedAtRest
  <2>3. KeyMarksJustified(engine) /\ LookupBitsJustified(engine)
    BY DEF MacInv, MacTypes, EngineInv
  <2>4. PassedKeys(engine) = {} /\ engine.swallowed = {}
    BY <2>2, <2>3 DEF PassedKeys, KeyMarksJustified
  <2>5. BitsOf(PassedKeys(engine)) = {} /\ HeldBits(engine) = {}
    BY <2>3, <2>4 DEF BitsOf, HeldBits, KeyMarksJustified
  <2>6. engine.modifierState = {}
    BY <2>3, <2>5 DEF LookupBitsJustified
  <2>. QED BY <2>2, <2>6
<1>. QED BY <1>1, MacAlways, PTL

-----------------------------------------------------------------------------
(* The virtual keyboard of macOS *)

\* The reports of all outputs, and what they leave down.
Reports == UNION {{Commands[nk][i] : i \in DOMAIN Commands[nk]} : nk \in Outputs}
Downs == {r.keys : r \in Reports} \cup {{}}

\* A report of this page that lets everything go.
Clears(r, page) == r.page = page /\ r.keys = {}

\* Every report is followed by one that clears its page.
Closed(reports) ==
  \A i \in 1 .. Len(reports) :
    \E j \in i .. Len(reports) : Clears(reports[j], reports[i].page)

\* The reports that are still to be posted.
Due == queue \o typing

ReportTypes ==
  /\ batch \in Seq(Outputs)
  /\ inbox \in Seq(Frames \cup {Corrupt})
  /\ typing \in Seq(Reports) /\ queue \in Seq(Reports)
  /\ ready \in BOOLEAN
  /\ posted \in [Pages -> Downs]

\* The report being enqueued finds room.
RoomForAll == Len(queue) + Len(typing) <= QueueCapacity

\* What is down will be cleared.
DownIsCleared ==
  \A p \in Pages : posted[p] # {} => \E i \in 1 .. Len(Due) : Clears(Due[i], p)

KeyboardInv ==
  /\ ReportTypes
  /\ RoomForAll
  /\ ~ready => posted = NothingDown
  /\ Closed(Due)
  /\ DownIsCleared

-----------------------------------------------------------------------------

\* A report is of a page.
LEMMA ReportPages ==
  ASSUME NEW r \in Reports
  PROVE  r.page \in Pages
  BY DEF Reports, Commands, Pages

LEMMA OrderIsFinite ==
  ASSUME NEW mask
  PROVE  Len(InOrder(mask)) \in Nat
<1>. DEFINE set == {i \in DOMAIN ModifierOrder : ModifierOrder[i] \in mask}
<1>1. DOMAIN ModifierOrder = 1 .. Len(ModifierOrder) /\ Len(ModifierOrder) \in Nat
  BY KeyReportsAssumption, LenProperties
<1>2. IsFiniteSet(1 .. Len(ModifierOrder))
  BY <1>1, FS_Interval
<1>3. IsFiniteSet(set)
  BY <1>1, <1>2, FS_Subset
<1>4. Cardinality(set) \in Nat
  BY <1>3, FS_CardinalityType
<1>. HIDE DEF set
<1>. QED BY <1>4 DEF InOrder, set

\* The end of three sequences, one after the other.
LEMMA LastOfThree ==
  ASSUME NEW S, NEW a \in Seq(S), NEW b \in Seq(S), NEW c \in Seq(S),
         Len(b) > 0, Len(c) = 0 => b[Len(b)] = {}, Len(c) > 0 => c[Len(c)] = {}
  PROVE  LET all == (a \o b) \o c
         IN all \in Seq(S) /\ all # << >> /\ all[Len(all)] = {}
<1>. DEFINE ab == a \o b
<1>1. ab \in Seq(S) /\ Len(ab) = Len(a) + Len(b) /\ ab[Len(ab)] = b[Len(b)]
  OBVIOUS
<1>. HIDE DEF ab
<1>. DEFINE all == ab \o c
<1>2. Len(a) \in Nat /\ Len(b) \in Nat /\ Len(c) \in Nat
  OBVIOUS
<1>3. all \in Seq(S) /\ Len(all) = Len(ab) + Len(c)
  <2>1. ab \in Seq(S)
    BY <1>1
  <2>. QED BY <2>1, ConcatProperties
<1>4. all # << >>
  BY <1>1, <1>2, <1>3
<1>5. Len(c) > 0 => all[Len(all)] = c[Len(c)]
  BY <1>1, <1>2, <1>3
<1>6. Len(c) = 0 => all[Len(all)] = ab[Len(ab)]
  BY <1>1, <1>2, <1>3
<1>. HIDE DEF all
<1>7. all[Len(all)] = {}
  BY <1>1, <1>2, <1>5, <1>6
<1>. QED BY <1>3, <1>4, <1>7 DEF ab, all

\* The reports of a key are finitely many, and the last lets everything go.
LEMMA KeyEndsUp ==
  ASSUME NEW nk
  PROVE  \E S : /\ KeyboardReports(nk) \in Seq(S)
                /\ KeyboardReports(nk) # << >>
                /\ KeyboardReports(nk)[Len(KeyboardReports(nk))] = {}
<1>. DEFINE mods == InOrder(nk.modifiers)
            n == Len(mods)
            first(i) == {ModifierUsage[mods[j]] : j \in 1 .. i}
            full == first(n) \cup {nk.usage}
            up == [i \in 1 .. n |-> first(i)]
            key == <<full, first(n)>>
            back == [i \in 1 .. n |-> first(n - i)]
            S == {first(i) : i \in 0 .. n} \cup {full}
<1>1. n \in Nat
  BY OrderIsFinite
<1>2. KeyboardReports(nk) = (up \o key) \o back
  BY DEF KeyboardReports
<1>3. \A i \in 0 .. n : first(i) \in S
  OBVIOUS
<1>4. first(0) = {}
  OBVIOUS
<1>5. full \in S /\ first(n) \in S
  BY <1>1, <1>3
<1>. HIDE DEF n, first, full, S, mods
<1>6. up \in Seq(S) /\ Len(up) = n
  BY <1>1, <1>3
<1>7. back \in Seq(S) /\ Len(back) = n /\ \A i \in 1 .. n : back[i] = first(n - i)
  BY <1>1, <1>3
<1>8. key \in Seq(S) /\ Len(key) = 2 /\ key[2] = first(n)
  BY <1>5
<1>. HIDE DEF up, key, back
<1>9. /\ Len(key) > 0
      /\ Len(back) = 0 => key[Len(key)] = {}
      /\ Len(back) > 0 => back[Len(back)] = {}
  BY <1>1, <1>4, <1>7, <1>8
<1>10. LET all == (up \o key) \o back
       IN all \in Seq(S) /\ all # << >> /\ all[Len(all)] = {}
  BY <1>6, <1>7, <1>8, <1>9, LastOfThree
<1>. QED BY <1>2, <1>10

LEMMA CommandsClose ==
  ASSUME NEW nk \in Outputs
  PROVE  Commands[nk] \in Seq(Reports) /\ Closed(Commands[nk])
<1>. DEFINE all == ReportsOf(nk)
            page == IF nk.usage \in ConsumerUsages THEN "consumer" ELSE "keyboard"
<1>1. \E S : all \in Seq(S) /\ all # << >> /\ all[Len(all)] = {}
  <2>1. CASE nk.usage \in ConsumerUsages
    <3>1. all = <<{nk.usage}, {}>>
      BY <2>1 DEF ReportsOf
    <3>2. all \in Seq({{nk.usage}, {}}) /\ Len(all) = 2 /\ all # << >> /\ all[2] = {}
      BY <3>1
    <3>. QED BY <3>2
  <2>2. CASE nk.usage \notin ConsumerUsages
    BY <2>2, KeyEndsUp DEF ReportsOf
  <2>. QED BY <2>1, <2>2
<1>2. Len(all) \in Nat \ {0} /\ DOMAIN all = 1 .. Len(all)
  BY <1>1
<1>3. Commands[nk] = [i \in DOMAIN all |-> [page |-> page, keys |-> all[i]]]
  BY DEF Commands
<1>. HIDE DEF all, page
<1>4. \A i \in DOMAIN Commands[nk] : Commands[nk][i] \in Reports
  BY DEF Reports
<1>5. Commands[nk] \in Seq(Reports) /\ Len(Commands[nk]) = Len(all)
  BY <1>2, <1>3, <1>4
<1>6. \A i \in 1 .. Len(all) : Clears(Commands[nk][Len(all)], Commands[nk][i].page)
  BY <1>1, <1>2, <1>3 DEF Clears
<1>. QED BY <1>2, <1>5, <1>6 DEF Closed

\* Closed runs of reports one after the other are closed.
LEMMA ClosedTogether ==
  ASSUME NEW a \in Seq(Reports), NEW b \in Seq(Reports), Closed(a), Closed(b)
  PROVE  Closed(a \o b)
<1>. DEFINE all == a \o b
<1>1. /\ Len(a) \in Nat /\ Len(b) \in Nat
      /\ Len(all) = Len(a) + Len(b)
      /\ \A i \in 1 .. Len(a) : all[i] = a[i]
      /\ \A i \in 1 .. Len(b) : all[Len(a) + i] = b[i]
  OBVIOUS
<1>. HIDE DEF all
<1>2. ASSUME NEW i \in 1 .. Len(a)
      PROVE  \E j \in i .. Len(all) : Clears(all[j], all[i].page)
  <2>1. PICK j \in i .. Len(a) : Clears(a[j], a[i].page)
    BY DEF Closed
  <2>. QED BY <1>1, <2>1
<1>3. ASSUME NEW i \in 1 .. Len(b)
      PROVE  \E j \in Len(a) + i .. Len(all) : Clears(all[j], all[Len(a) + i].page)
  <2>1. PICK j \in i .. Len(b) : Clears(b[j], b[i].page)
    BY DEF Closed
  <2>2. Len(a) + j \in Len(a) + i .. Len(all) /\ all[Len(a) + j] = b[j]
    BY <1>1, <2>1
  <2>. QED BY <1>1, <2>1, <2>2
<1>4. ASSUME NEW i \in 1 .. Len(all)
      PROVE  \E j \in i .. Len(all) : Clears(all[j], all[i].page)
  <2>1. CASE i <= Len(a)
    BY <1>1, <1>2, <2>1
  <2>2. CASE i > Len(a)
    <3>1. i - Len(a) \in 1 .. Len(b) /\ Len(a) + (i - Len(a)) = i
      BY <1>1, <2>2
    <3>. QED BY <1>3, <3>1
  <2>. QED BY <1>1, <2>1, <2>2
<1>. QED BY <1>4 DEF Closed, all

LEMMA ClosedTail ==
  ASSUME NEW a \in Seq(Reports), Closed(a), a # << >>
  PROVE  Closed(Tail(a))
  BY HeadTailProperties DEF Closed

-----------------------------------------------------------------------------

LEMMA InitKeyboardInv == Init => KeyboardInv
<1>. SUFFICES ASSUME Init PROVE KeyboardInv
  OBVIOUS
<1>1. ReportTypes
  <2>1. posted \in [Pages -> Downs]
    BY DEF Init, NothingDown, Downs
  <2>2. batch = << >> /\ inbox = << >> /\ typing = << >> /\ queue = << >> /\ ready = FALSE
    BY DEF Init
  <2>. QED BY <2>1, <2>2, EmptySeq DEF ReportTypes
<1>2. RoomForAll
  BY VirtualKeyboardAssumption DEF Init, RoomForAll
<1>3. Len(Due) = 0
  BY DEF Init, Due
<1>4. \A p \in Pages : posted[p] = {}
  BY DEF Init, NothingDown
<1>. QED BY <1>1, <1>2, <1>3, <1>4 DEF Init, KeyboardInv, Closed, DownIsCleared

\* Most steps neither enqueue nor post.
LEMMA SameReports ==
  ASSUME KeyboardInv, UNCHANGED <<batch, typing, queue, ready, posted>>,
         inbox' \in Seq(Frames \cup {Corrupt})
  PROVE  KeyboardInv'
  BY DEF KeyboardInv, ReportTypes, RoomForAll, DownIsCleared, Due, Closed, Clears,
         NothingDown, Downs, Reports

LEMMA NewBatch ==
  ASSUME KeyboardInv, ReadFrame
  PROVE  KeyboardInv'
<1>. USE DEF KeyboardInv, ReportTypes
<1>1. CASE ~Decodes(Head(inbox)) \/ console # peer \/ ~FrameAllowed
  <2>1. inbox' = << >> /\ batch' = batch
    BY <1>1 DEF ReadFrame, Drop
  <2>. QED BY <2>1, SameReports DEF ReadFrame, clientVars
<1>2. CASE ~(~Decodes(Head(inbox)) \/ console # peer \/ ~FrameAllowed)
  <2>1. batch' = Head(inbox) /\ inbox' = Tail(inbox) /\ inbox # << >>
    BY <1>2 DEF ReadFrame
  <2>2. Head(inbox) \in Frames /\ inbox' \in Seq(Frames \cup {Corrupt})
    BY <1>2, <2>1 DEF Decodes
  <2>3. batch' \in Seq(Outputs)
    BY <2>1, <2>2, VirtualKeyboardAssumption
  <2>. QED BY <2>2, <2>3 DEF ReadFrame, clientVars, RoomForAll, DownIsCleared, Due,
                             Closed, Clears, NothingDown, Downs, Reports
<1>. QED BY <1>1, <1>2

LEMMA EmitKeyKeeps ==
  ASSUME KeyboardInv, EmitKey
  PROVE  KeyboardInv'
<1>. DEFINE nk == Head(batch)
            reports == Commands[nk]
<1>1. /\ batch \in Seq(Outputs) /\ batch # << >> /\ typing = << >>
      /\ batch' = Tail(batch)
      /\ UNCHANGED <<inbox, queue, ready, posted>>
  BY DEF EmitKey, KeyboardInv, ReportTypes, peerVars, clientVars
<1>2. nk \in Outputs /\ batch' \in Seq(Outputs)
  BY <1>1
<1>3. reports \in Seq(Reports) /\ Closed(reports)
  BY <1>2, CommandsClose
<1>4. queue \in Seq(Reports) /\ Due = queue
  BY <1>1, ConcatEmptySeq DEF KeyboardInv, ReportTypes, Due
<1>5. typing' \in Seq(Reports) /\ Closed(typing') /\ Len(queue) + Len(typing') <= QueueCapacity
  <2>1. typing' = IF HasRoom(Len(reports)) THEN reports ELSE << >>
    BY DEF EmitKey
  <2>2. Closed(<< >>) /\ << >> \in Seq(Reports) /\ Len(<< >>) = 0
    BY DEF Closed
  <2>3. Len(reports) \in Nat /\ Len(queue) \in Nat /\ QueueCapacity \in Nat
    BY <1>3, <1>4, VirtualKeyboardAssumption
  <2>. HIDE DEF reports
  <2>4. Len(queue) <= QueueCapacity
    BY <1>1, <2>2, <2>3 DEF KeyboardInv, RoomForAll
  <2>5. CASE HasRoom(Len(reports))
    BY <1>3, <2>1, <2>3, <2>5 DEF HasRoom
  <2>6. CASE ~HasRoom(Len(reports))
    BY <2>1, <2>2, <2>3, <2>4, <2>6
  <2>. QED BY <2>5, <2>6
<1>6. Due' = queue \o typing'
  BY <1>1 DEF Due
<1>7. Closed(Due)'
  <2>1. Closed(queue \o typing')
    BY <1>4, <1>5, ClosedTogether DEF KeyboardInv
  <2>. QED BY <2>1, <1>6 DEF Closed, Clears
<1>8. DownIsCleared'
  <2>1. ASSUME NEW p \in Pages, posted[p] # {}
        PROVE  \E i \in 1 .. Len(queue \o typing') : Clears((queue \o typing')[i], p)
    <3>1. PICK i \in 1 .. Len(queue) : Clears(queue[i], p)
      BY <1>4, <2>1 DEF KeyboardInv, DownIsCleared
    <3>2. i \in 1 .. Len(queue \o typing') /\ (queue \o typing')[i] = queue[i]
      BY <1>4, <1>5
    <3>. QED BY <3>1, <3>2
  <2>. QED BY <1>1, <1>6, <2>1 DEF DownIsCleared, Clears
<1>9. ReportTypes'
  BY <1>1, <1>2, <1>5 DEF KeyboardInv, ReportTypes, Reports, Downs
<1>. QED BY <1>1, <1>5, <1>7, <1>8, <1>9 DEF KeyboardInv, RoomForAll, NothingDown

LEMMA EnqueueKeeps ==
  ASSUME KeyboardInv, EnqueueReport
  PROVE  KeyboardInv'
<1>1. /\ typing \in Seq(Reports) /\ queue \in Seq(Reports) /\ typing # << >>
      /\ UNCHANGED <<batch, inbox, ready, posted>>
  BY DEF EnqueueReport, KeyboardInv, ReportTypes, peerVars, clientVars
<1>2. Len(queue) < QueueCapacity
  <2>1. Len(typing) \in Nat \ {0} /\ Len(queue) \in Nat /\ QueueCapacity \in Nat
    BY <1>1, EmptySeq, LenProperties, VirtualKeyboardAssumption
  <2>. QED BY <2>1 DEF KeyboardInv, RoomForAll
<1>3. queue' = Append(queue, Head(typing)) /\ typing' = Tail(typing)
  BY <1>2 DEF EnqueueReport
<1>4. /\ Head(typing) \in Reports
      /\ typing' \in Seq(Reports) /\ queue' \in Seq(Reports)
      /\ Len(typing') = Len(typing) - 1 /\ Len(queue') = Len(queue) + 1
      /\ Len(typing) \in Nat \ {0} /\ Len(queue) \in Nat
  BY <1>1, <1>3
<1>5. Due' = Due
  <2>. DEFINE due == Append(queue, Head(typing)) \o Tail(typing)
  <2>1. due \in Seq(Reports) /\ Due \in Seq(Reports) /\ Len(due) = Len(Due)
    BY <1>1, <1>3, <1>4 DEF Due
  <2>2. \A i \in 1 .. Len(Due) : due[i] = Due[i]
    BY <1>1, <1>3, <1>4 DEF Due
  <2>. HIDE DEF due
  <2>3. due = Due
    BY <2>1, <2>2, SeqEqual
  <2>. QED BY <1>3, <2>3 DEF Due, due
<1>6. ReportTypes' /\ RoomForAll'
  BY <1>1, <1>4 DEF KeyboardInv, ReportTypes, RoomForAll, Reports, Downs
<1>. QED BY <1>1, <1>5, <1>6 DEF KeyboardInv, Closed, DownIsCleared, Clears, NothingDown

\* When the connection to the Karabiner daemon is lost, so is what was down.
LEMMA NothingIsDown ==
  ASSUME KeyboardInv, UNCHANGED <<batch, inbox, typing, queue>>,
         ready' \in BOOLEAN, posted' = NothingDown
  PROVE  KeyboardInv'
<1>1. \A p \in Pages : posted'[p] = {}
  BY DEF NothingDown
<1>2. posted' \in [Pages -> Downs]
  BY DEF NothingDown, Downs
<1>. QED BY <1>1, <1>2 DEF KeyboardInv, ReportTypes, RoomForAll, DownIsCleared, Due, Closed,
                           Clears, Downs, Reports, NothingDown

\* The first report that is due leaves the queue.
LEMMA FirstLeaves ==
  ASSUME KeyboardInv, queue # << >>, queue' = Tail(queue),
         UNCHANGED <<batch, inbox, typing>>
  PROVE  /\ queue' \in Seq(Reports) /\ RoomForAll' /\ Closed(Due)'
         /\ Due # << >> /\ Due \in Seq(Reports) /\ Head(Due) = Head(queue)
         /\ Due' = Tail(Due)
<1>1. typing \in Seq(Reports) /\ queue \in Seq(Reports)
  BY DEF KeyboardInv, ReportTypes
<1>2. /\ queue' \in Seq(Reports) /\ Len(queue') = Len(queue) - 1
      /\ Len(queue) \in Nat \ {0} /\ Len(typing) \in Nat
  BY <1>1
<1>3. RoomForAll'
  BY <1>2, VirtualKeyboardAssumption DEF KeyboardInv, RoomForAll
<1>4. Due # << >> /\ Due \in Seq(Reports) /\ Head(Due) = Head(queue)
  BY <1>1, <1>2 DEF Due
<1>5. Tail(queue) \o typing = Tail(Due)
  <2>. DEFINE due == Tail(queue) \o typing
              rest == Tail(Due)
  <2>1. due \in Seq(Reports) /\ rest \in Seq(Reports) /\ Len(due) = Len(rest)
    BY <1>1, <1>2, <1>4 DEF Due
  <2>2. \A i \in 1 .. Len(due) : due[i] = rest[i]
    BY <1>1, <1>2, <1>4 DEF Due
  <2>. HIDE DEF due, rest
  <2>3. due = rest
    BY <2>1, <2>2, SeqEqual
  <2>. QED BY <2>3 DEF due, rest
<1>6. Closed(Tail(Due))
  BY <1>4, ClosedTail DEF KeyboardInv
<1>. QED BY <1>2, <1>3, <1>4, <1>5, <1>6 DEF Due, Closed, Clears

LEMMA DisconnectKeeps ==
  ASSUME KeyboardInv, Disconnect
  PROVE  KeyboardInv'
<1>1. UNCHANGED <<batch, inbox, typing>> /\ ready' = FALSE /\ posted' = NothingDown
  BY DEF Disconnect, ConnectionLost, ServerUnchanged, emitVars, peerVars
<1>2. CASE queue' = queue
  BY <1>1, <1>2, NothingIsDown
<1>3. CASE queue # << >> /\ queue' = Tail(queue)
  <2>1. queue' \in Seq(Reports) /\ RoomForAll' /\ Closed(Due)'
    BY <1>1, <1>3, FirstLeaves
  <2>2. posted' \in [Pages -> Downs] /\ \A p \in Pages : posted'[p] = {}
    BY <1>1 DEF NothingDown, Downs
  <2>3. ReportTypes'
    BY <1>1, <2>1, <2>2 DEF KeyboardInv, ReportTypes, Reports, Downs
  <2>. QED BY <1>1, <2>1, <2>2, <2>3 DEF KeyboardInv, DownIsCleared, NothingDown
<1>. QED BY <1>2, <1>3 DEF Disconnect

LEMMA HandleFrameKeeps ==
  ASSUME KeyboardInv, NEW m \in Messages, HandleFrame(m)
  PROVE  KeyboardInv'
<1>1. UNCHANGED <<batch, inbox, typing, queue>>
  BY DEF HandleFrame, ServerUnchanged, emitVars, peerVars
<1>2. CASE UNCHANGED <<ready, posted>>
  BY <1>1, <1>2, SameReports DEF KeyboardInv, ReportTypes
<1>3. CASE ConnectionLost
  BY <1>1, <1>3, NothingIsDown DEF ConnectionLost
<1>4. CASE ready' = ReadyAfter(m.pairs) /\ posted' = IF ready' THEN posted ELSE NothingDown
  <2>1. ready' \in BOOLEAN
    <3>. DEFINE told == {i \in DOMAIN m.pairs : m.pairs[i].type = "keyboard ready"}
    <3>1. CASE told = {}
      BY <1>4, <3>1 DEF ReadyAfter, KeyboardInv, ReportTypes
    <3>2. CASE told # {}
      BY <1>4, <3>2 DEF ReadyAfter
    <3>. QED BY <3>1, <3>2
  <2>2. CASE ready'
    <3>1. posted' = posted
      BY <1>4, <2>2
    <3>. QED BY <1>1, <2>1, <2>2, <3>1 DEF KeyboardInv, ReportTypes, RoomForAll,
             DownIsCleared, Due, Closed, Clears, Downs, Reports
  <2>3. CASE ~ready'
    BY <1>1, <1>4, <2>1, <2>3, NothingIsDown
  <2>. QED BY <2>2, <2>3
<1>. QED BY <1>2, <1>3, <1>4 DEF HandleFrame

LEMMA DrainKeeps ==
  ASSUME KeyboardInv, Drain
  PROVE  KeyboardInv'
<1>. DEFINE r == Head(queue)
<1>1. /\ UNCHANGED <<batch, inbox, typing, ready>>
      /\ queue # << >> /\ queue' = Tail(queue)
  BY DEF Drain, ServerUnchanged, emitVars, peerVars
<1>2. /\ queue' \in Seq(Reports) /\ RoomForAll' /\ Closed(Due)'
      /\ Due # << >> /\ Due \in Seq(Reports) /\ Head(Due) = r /\ Due' = Tail(Due)
  BY <1>1, FirstLeaves
<1>3. r \in Reports /\ r.page \in Pages /\ r.keys \in Downs
  BY <1>2, HeadTailProperties, ReportPages DEF Downs
<1>4. posted' = IF ready THEN [posted EXCEPT ![r.page] = r.keys] ELSE posted
  BY <1>3 DEF Drain, SendCommand, Carries, KeyboardReport, ConsumerReport, Request,
              IdFrame, RequestPayload, Pages
<1>5. posted' \in [Pages -> Downs] /\ (~ready => posted' = NothingDown)
  BY <1>3, <1>4 DEF KeyboardInv, ReportTypes
<1>6. ReportTypes'
  BY <1>1, <1>2, <1>5 DEF KeyboardInv, ReportTypes, Reports, Downs
<1>7. ASSUME NEW p \in Pages, posted'[p] # {}
      PROVE  \E i \in 1 .. Len(Tail(Due)) : Clears(Tail(Due)[i], p)
  <2>. HIDE DEF r
  <2>1. PICK i \in 1 .. Len(Due) : Clears(Due[i], p) /\ i # 1
    <3>1. Due[1] = r /\ Len(Due) \in Nat \ {0}
      BY <1>2, EmptySeq
    <3>2. CASE ready /\ p = r.page
      <4>1. r.keys # {}
        BY <1>4, <1>7, <3>2 DEF KeyboardInv, ReportTypes
      <4>2. PICK i \in 1 .. Len(Due) : Clears(Due[i], Due[1].page)
        BY <3>1 DEF KeyboardInv, Closed
      <4>. QED BY <3>1, <3>2, <4>1, <4>2 DEF Clears
    <3>3. CASE ready /\ p # r.page
      <4>1. posted[p] # {}
        BY <1>4, <1>7, <3>3 DEF KeyboardInv, ReportTypes
      <4>2. PICK i \in 1 .. Len(Due) : Clears(Due[i], p)
        BY <4>1 DEF KeyboardInv, DownIsCleared
      <4>. QED BY <3>1, <3>3, <4>2 DEF Clears
    <3>4. CASE ~ready
      BY <1>5, <1>7, <3>4 DEF NothingDown
    <3>. QED BY <3>2, <3>3, <3>4
  <2>2. i - 1 \in 1 .. Len(Tail(Due)) /\ Tail(Due)[i - 1] = Due[i]
    BY <1>2, <2>1
  <2>. QED BY <2>1, <2>2
<1>8. DownIsCleared'
  BY <1>2, <1>7 DEF DownIsCleared, Clears
<1>. QED BY <1>1, <1>2, <1>5, <1>6, <1>8 DEF KeyboardInv, NothingDown

LEMMA StepKeyboardInv == KeyboardInv /\ [Next]_vars => KeyboardInv'
<1>. SUFFICES ASSUME KeyboardInv, [Next]_vars PROVE KeyboardInv'
  OBVIOUS
<1>1. CASE Environment
  <2>1. UNCHANGED <<batch, typing, queue, ready, posted>>
    BY <1>1 DEF Environment, ConsoleSwitches, Signal, Knock, Send, Close, WindowsSlide,
                emitVars, clientVars
  <2>2. inbox' \in Seq(Frames \cup {Corrupt})
    <3>1. ASSUME NEW frame \in Frames \cup {Corrupt}, Send(frame)
          PROVE  inbox' \in Seq(Frames \cup {Corrupt})
      <4>1. inbox \in Seq(Frames \cup {Corrupt}) /\ inbox' = Append(inbox, frame)
        BY <3>1 DEF KeyboardInv, ReportTypes, Send
      <4>. QED BY <4>1, AppendProperties
    <3>2. CASE ~\E frame \in Frames \cup {Corrupt} : Send(frame)
      BY <1>1, <3>2 DEF Environment, ConsoleSwitches, Signal, Knock, Close, WindowsSlide,
                        peerVars, KeyboardInv, ReportTypes
    <3>. QED BY <3>1, <3>2
  <2>. QED BY <2>1, <2>2, SameReports
<1>2. CASE StartServing \/ Listen \/ PollTimeout \/ ReadTimeout \/ ReadEof
           \/ \E known, bounded \in BOOLEAN : Accept(known, bounded)
  <2>1. UNCHANGED <<batch, typing, queue, ready, posted>>
    BY <1>2 DEF StartServing, Listen, PollTimeout, ReadTimeout, ReadEof, Accept, Drop,
                emitVars, clientVars
  <2>2. inbox' = inbox \/ inbox' = << >>
    BY <1>2 DEF StartServing, Listen, PollTimeout, ReadTimeout, ReadEof, Accept, Drop, peerVars
  <2>3. inbox' \in Seq(Frames \cup {Corrupt})
    BY <2>2, EmptySeq DEF KeyboardInv, ReportTypes
  <2>. QED BY <2>1, <2>3, SameReports
<1>3. CASE ReadFrame
  BY <1>3, NewBatch
<1>4. CASE EmitKey
  BY <1>4, EmitKeyKeeps
<1>5. CASE EnqueueReport
  BY <1>5, EnqueueKeeps
<1>6. CASE \E path \in Paths, karabiner \in Servers : Connect(path, karabiner)
  <2>1. UNCHANGED <<batch, inbox, typing, queue, ready>>
    BY <1>6 DEF Connect, ServerUnchanged, emitVars, peerVars
  <2>2. posted' = posted \/ posted' = NothingDown
    BY <1>6 DEF Connect, Carries, Initialize, Request, IdFrame, RequestPayload
  <2>. QED BY <2>1, <2>2, SameReports, NothingIsDown DEF KeyboardInv, ReportTypes
<1>7. CASE Disconnect
  BY <1>7, DisconnectKeeps
<1>8. CASE \E m \in Messages : HandleFrame(m)
  BY <1>8, HandleFrameKeeps
<1>9. CASE Drain
  BY <1>9, DrainKeeps
<1>10. CASE ReadNothing \/ ReadHalfFrame \/ DrainEnds \/ UNCHANGED vars
  <2>1. UNCHANGED <<batch, inbox, typing, queue, ready, posted>>
    BY <1>10 DEF ReadNothing, ReadHalfFrame, DrainEnds, ServerUnchanged, emitVars, peerVars,
                 clientVars, vars
  <2>. QED BY <2>1, SameReports DEF KeyboardInv, ReportTypes
<1>. QED BY <1>1, <1>2, <1>3, <1>4, <1>5, <1>6, <1>7, <1>8, <1>9, <1>10 DEF Next, Server, Client

(* A key is emitted whole or not at all, and what the queue loses it loses *)
(* with the connection (emit.rs:26-27): when nothing is left to emit, no   *)
(* key is down on the virtual keyboard.                                    *)
THEOREM KeysAreReleased == Spec => []NothingStuck
<1>1. KeyboardInv => NothingStuck
  <2>. SUFFICES ASSUME KeyboardInv, typing = << >>, queue = << >>
                PROVE  posted = NothingDown
    BY DEF NothingStuck
  <2>1. Len(Due) = 0
    BY DEF Due
  <2>2. \A p \in Pages : posted[p] = {}
    BY <2>1 DEF KeyboardInv, DownIsCleared
  <2>. QED BY <2>2 DEF KeyboardInv, ReportTypes, NothingDown
<1>. QED BY <1>1, InitKeyboardInv, StepKeyboardInv, PTL DEF Spec
=============================================================================
