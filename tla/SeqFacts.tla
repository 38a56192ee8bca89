------------------------------ MODULE SeqFacts ------------------------------
(***************************************************************************)
(* Induction, and with it what the operators of SeqOps do to any sequence.   *)
(***************************************************************************)
EXTENDS SeqOps, SequencesExt, SequenceTheorems, WellFoundedInduction, TLAPS

(* Induction, for a set in the place of a predicate: the theorem of the     *)
(* library takes an operator, which the provers cannot instantiate.         *)
LEMMA SetInduction ==
  ASSUME NEW S, 0 \in S, \A n \in Nat : n \in S => n + 1 \in S
  PROVE  \A n \in Nat : n \in S
<1>1. SUFFICES ASSUME Nat \ S # {} PROVE FALSE
  OBVIOUS
<1> DEFINE R == {ss \in Nat \X Nat : ss[1] < ss[2]}
<1>2. IsWellFoundedOn(R, Nat)
  BY NatLessThanWellFounded DEF OpToRel
<1>3. PICK x \in Nat \ S : \A y \in Nat \ S : <<y, x>> \notin R
  <2> HIDE DEF R
  <2>1. Nat \ S \subseteq Nat
    OBVIOUS
  <2>2. QED
    BY <1>1, <1>2, <2>1, WFMin
<1>4. \A y \in Nat \ S : ~(y < x)
  BY <1>3
<1>5. x # 0 /\ x - 1 \in Nat /\ x - 1 < x /\ (x - 1) + 1 = x
  OBVIOUS
<1>6. x - 1 \in S
  BY <1>4, <1>5
<1>7. QED
  BY <1>5, <1>6

(* The elements of a sequence, and of one that is longer or shorter.        *)
LEMMA RangeFacts ==
  ASSUME NEW X, NEW s \in Seq(X)
  PROVE  /\ ToSet(s) = {s[i] : i \in 1 .. Len(s)} /\ ToSet(s) \subseteq X
         /\ \A Y : ToSet(s) \subseteq Y => s \in Seq(Y)
BY DEF ToSet

LEMMA AppendFacts ==
  ASSUME NEW X, NEW s \in Seq(X), NEW x \in X
  PROVE  /\ Append(s, x) \in Seq(X) /\ s \o <<x>> = Append(s, x)
         /\ Len(Append(s, x)) = Len(s) + 1 /\ Len(s) \in Nat
         /\ \A i \in 1 .. Len(s) : Append(s, x)[i] = s[i]
         /\ Append(s, x)[Len(s) + 1] = x
         /\ ToSet(Append(s, x)) = ToSet(s) \cup {x}
         /\ IsInjective(s) /\ x \notin ToSet(s) => IsInjective(Append(s, x))
<1> DEFINE t == Append(s, x)
<1>1. /\ t \in Seq(X) /\ s \o <<x>> = t
      /\ Len(t) = Len(s) + 1 /\ Len(s) \in Nat
      /\ \A i \in 1 .. Len(s) : t[i] = s[i]
      /\ t[Len(s) + 1] = x
  BY AppendProperties, AppendIsConcat
<1> HIDE DEF t
<1>2. \A i \in 1 .. Len(t) : i \in 1 .. Len(s) \/ i = Len(s) + 1
  BY <1>1
<1>3. /\ ToSet(t) = {t[i] : i \in 1 .. Len(t)}
      /\ ToSet(s) = {s[i] : i \in 1 .. Len(s)}
      /\ DOMAIN t = 1 .. Len(t) /\ DOMAIN s = 1 .. Len(s)
  BY <1>1, RangeFacts
<1>4. ToSet(t) = ToSet(s) \cup {x}
  BY <1>1, <1>2, <1>3
<1>5. ASSUME IsInjective(s), x \notin ToSet(s)
      PROVE  IsInjective(t)
  <2>1. \A i \in 1 .. Len(s) : s[i] # x
    BY <1>3, <1>5
  <2>2. QED
    BY <1>1, <1>2, <1>3, <1>5, <2>1 DEF IsInjective
<1>6. QED
  BY <1>1, <1>4, <1>5 DEF t

LEMMA TailFacts ==
  ASSUME NEW X, NEW s \in Seq(X), s # <<>>
  PROVE  /\ Tail(s) \in Seq(X) /\ Head(s) \in X /\ Head(s) = s[1]
         /\ Len(Tail(s)) = Len(s) - 1 /\ Len(s) \in Nat /\ Len(s) > 0
         /\ \A i \in 1 .. Len(s) - 1 : Tail(s)[i] = s[i + 1]
         /\ ToSet(s) = ToSet(Tail(s)) \cup {Head(s)}
         /\ IsInjective(s) => IsInjective(Tail(s)) /\ Head(s) \notin ToSet(Tail(s))
<1> DEFINE t == Tail(s)
           x == Head(s)
<1>1. /\ t \in Seq(X) /\ x \in X /\ x = s[1]
      /\ Len(t) = Len(s) - 1 /\ Len(s) \in Nat /\ Len(s) > 0
      /\ \A i \in 1 .. Len(s) - 1 : t[i] = s[i + 1]
  OBVIOUS
<1> HIDE DEF t, x
<1>2. /\ ToSet(t) = {t[i] : i \in 1 .. Len(t)}
      /\ ToSet(s) = {s[i] : i \in 1 .. Len(s)}
      /\ DOMAIN t = 1 .. Len(t) /\ DOMAIN s = 1 .. Len(s)
  BY <1>1, RangeFacts
<1>3. /\ \A i \in 1 .. Len(t) : i + 1 \in 1 .. Len(s) /\ i + 1 # 1 /\ i \in 1 .. Len(s) - 1
      /\ \A i \in 1 .. Len(s) : i = 1 \/ (i - 1 \in 1 .. Len(t) /\ i = (i - 1) + 1)
      /\ 1 \in 1 .. Len(s)
  BY <1>1
<1>4. ToSet(s) = ToSet(t) \cup {x}
  <2>1. ToSet(t) \cup {x} \subseteq ToSet(s)
    BY <1>1, <1>2, <1>3
  <2>2. ASSUME NEW i \in 1 .. Len(s)
        PROVE  s[i] \in ToSet(t) \cup {x}
    <3>1. CASE i = 1
      BY <1>1, <3>1
    <3>2. CASE i # 1
      <4>1. i - 1 \in 1 .. Len(t) /\ i - 1 \in 1 .. Len(s) - 1 /\ (i - 1) + 1 = i
        BY <1>1, <1>3, <3>2
      <4>2. t[i - 1] = s[i]
        BY <1>1, <4>1
      <4>3. QED
        BY <1>2, <4>1, <4>2
    <3>3. QED
      BY <3>1, <3>2
  <2>3. QED
    BY <1>2, <2>1, <2>2
<1>5. ASSUME IsInjective(s)
      PROVE  IsInjective(t) /\ x \notin ToSet(t)
  <2>1. x \notin ToSet(t)
    BY <1>1, <1>2, <1>3, <1>5 DEF IsInjective
  <2>2. \A i, j \in 1 .. Len(t) : t[i] = t[j] => i + 1 = j + 1
    <3>1. \A i \in 1 .. Len(t) : i + 1 \in DOMAIN s /\ t[i] = s[i + 1]
      BY <1>1, <1>2, <1>3
    <3>2. QED
      BY <1>5, <3>1 DEF IsInjective
  <2>3. \A i, j \in 1 .. Len(t) : i + 1 = j + 1 => i = j
    OBVIOUS
  <2>4. QED
    BY <1>2, <2>1, <2>2, <2>3 DEF IsInjective
<1>6. QED
  BY <1>1, <1>4, <1>5 DEF t, x

LEMMA ConcatFacts ==
  ASSUME NEW X, NEW s \in Seq(X), NEW t \in Seq(X)
  PROVE  /\ s \o t \in Seq(X) /\ Len(s \o t) = Len(s) + Len(t)
         /\ Len(s) \in Nat /\ Len(t) \in Nat
         /\ \A i \in 1 .. Len(s) : (s \o t)[i] = s[i]
         /\ \A i \in 1 .. Len(t) : (s \o t)[Len(s) + i] = t[i]
         /\ ToSet(s \o t) = ToSet(s) \cup ToSet(t)
<1> DEFINE u == s \o t
<1>1. /\ u \in Seq(X) /\ Len(u) = Len(s) + Len(t)
      /\ Len(s) \in Nat /\ Len(t) \in Nat
      /\ \A i \in 1 .. Len(s) + Len(t) : u[i] = IF i <= Len(s) THEN s[i] ELSE t[i - Len(s)]
  BY ConcatProperties
<1> HIDE DEF u
<1>2. \A i \in 1 .. Len(s) : i \in 1 .. Len(u) /\ u[i] = s[i]
  BY <1>1
<1>3. \A i \in 1 .. Len(t) : Len(s) + i \in 1 .. Len(u) /\ u[Len(s) + i] = t[i]
  <2>1. \A i \in 1 .. Len(t) : /\ Len(s) + i \in 1 .. Len(u) /\ ~(Len(s) + i <= Len(s))
                               /\ (Len(s) + i) - Len(s) = i
    BY <1>1
  <2>2. QED
    BY <1>1, <2>1
<1>4. \A i \in 1 .. Len(u) : \/ i \in 1 .. Len(s) /\ u[i] = s[i]
                             \/ i - Len(s) \in 1 .. Len(t) /\ u[i] = t[i - Len(s)]
  BY <1>1
<1>5. /\ ToSet(u) = {u[i] : i \in 1 .. Len(u)}
      /\ ToSet(s) = {s[i] : i \in 1 .. Len(s)}
      /\ ToSet(t) = {t[i] : i \in 1 .. Len(t)}
  BY <1>1, RangeFacts
<1>6. ToSet(u) = ToSet(s) \cup ToSet(t)
  <2>1. ToSet(s) \subseteq ToSet(u)
    BY <1>2, <1>5
  <2>2. ToSet(t) \subseteq ToSet(u)
    BY <1>3, <1>5
  <2>3. ToSet(u) \subseteq ToSet(s) \cup ToSet(t)
    BY <1>4, <1>5
  <2>4. QED
    BY <2>1, <2>2, <2>3
<1>7. QED
  BY <1>1, <1>2, <1>3, <1>6 DEF u

(* A sequence cut in two after k.                                           *)
LEMMA CutFacts ==
  ASSUME NEW X, NEW s \in Seq(X), NEW k \in 0 .. Len(s)
  PROVE  /\ SubSeq(s, 1, k) \in Seq(X) /\ Len(SubSeq(s, 1, k)) = k
         /\ \A i \in 1 .. k : SubSeq(s, 1, k)[i] = s[i]
         /\ SubSeq(s, k + 1, Len(s)) \in Seq(X)
         /\ Len(SubSeq(s, k + 1, Len(s))) = Len(s) - k /\ Len(s) \in Nat
         /\ \A i \in 1 .. Len(s) - k : SubSeq(s, k + 1, Len(s))[i] = s[k + i]
         /\ ToSet(s) = ToSet(SubSeq(s, 1, k)) \cup ToSet(SubSeq(s, k + 1, Len(s)))
<1> DEFINE t == SubSeq(s, 1, k)
           u == SubSeq(s, k + 1, Len(s))
<1>1. Len(s) \in Nat /\ k \in Nat /\ k <= Len(s) /\ \A i \in 1 .. Len(s) : s[i] \in X
  OBVIOUS
<1>2. t \in Seq(X) /\ Len(t) = k /\ \A i \in 1 .. k : t[i] = s[i]
  BY <1>1, SubSeqProperties
<1>3. u \in Seq(X) /\ Len(u) = Len(s) - k /\ \A i \in 1 .. Len(s) - k : u[i] = s[k + i]
  OBVIOUS
<1> HIDE DEF t, u
<1>4. /\ ToSet(u) = {u[i] : i \in 1 .. Len(u)}
      /\ ToSet(s) = {s[i] : i \in 1 .. Len(s)}
      /\ ToSet(t) = {t[i] : i \in 1 .. Len(t)}
  BY <1>2, <1>3, RangeFacts
<1>5. ToSet(t) \subseteq ToSet(s)
  <2>1. \A i \in 1 .. Len(t) : i \in 1 .. Len(s)
    BY <1>1, <1>2
  <2>2. QED
    BY <1>2, <1>4, <2>1
<1>6. ToSet(u) \subseteq ToSet(s)
  <2>1. \A i \in 1 .. Len(u) : k + i \in 1 .. Len(s)
    BY <1>1, <1>3
  <2>2. QED
    BY <1>3, <1>4, <2>1
<1>7. ToSet(s) \subseteq ToSet(t) \cup ToSet(u)
  <2>1. ASSUME NEW i \in 1 .. Len(s)
        PROVE  s[i] \in ToSet(t) \cup ToSet(u)
    <3>1. CASE i <= k
      BY <1>1, <1>2, <1>4, <3>1
    <3>2. CASE ~(i <= k)
      <4>1. i - k \in 1 .. Len(u) /\ k + (i - k) = i
        BY <1>1, <1>3, <3>2
      <4>2. QED
        BY <1>3, <1>4, <4>1
    <3>3. QED
      BY <3>1, <3>2
  <2>2. QED
    BY <1>4, <2>1
<1>8. QED
  BY <1>1, <1>2, <1>3, <1>5, <1>6, <1>7 DEF t, u

(* A loop of m steps from e has a result after each of them. *)
IsRun(g, n, e, step) ==
  g[0] = e /\ \A i \in 0 .. n - 1 : g[i + 1] = step[<<i + 1, g[i]>>]

LEMMA RunExists ==
  ASSUME NEW T, NEW e \in T, NEW m \in Nat, NEW step \in [(1 .. m) \X T -> T]
  PROVE  \E g \in [0 .. m -> T] : IsRun(g, m, e, step)
<1> DEFINE S == {n \in Nat : n <= m => \E g \in [0 .. n -> T] : IsRun(g, n, e, step)}
<1>1. 0 \in S
  <2> DEFINE g == [i \in 0 .. 0 |-> e]
  <2>1. g \in [0 .. 0 -> T] /\ IsRun(g, 0, e, step)
    BY DEF IsRun
  <2>2. QED
    BY <2>1
<1>2. ASSUME NEW n \in Nat, n \in S
      PROVE  n + 1 \in S
  <2> SUFFICES ASSUME n + 1 <= m
               PROVE  \E g \in [0 .. n + 1 -> T] : IsRun(g, n + 1, e, step)
    OBVIOUS
  <2>1. PICK g \in [0 .. n -> T] : IsRun(g, n, e, step)
    BY <1>2
  <2> DEFINE h == [i \in 0 .. n + 1 |-> IF i <= n THEN g[i] ELSE step[<<n + 1, g[n]>>]]
  <2>2. h \in [0 .. n + 1 -> T]
    BY <2>1
  <2>3. IsRun(h, n + 1, e, step)
    <3>1. h[0] = e
      BY <2>1 DEF IsRun
    <3>2. ASSUME NEW i \in 0 .. n
          PROVE  h[i + 1] = step[<<i + 1, h[i]>>]
      <4>1. CASE i = n
        BY <4>1
      <4>2. CASE i # n
        <5>1. i \in 0 .. n - 1 /\ i + 1 \in 0 .. n + 1 /\ i + 1 <= n /\ i \in 0 .. n + 1 /\ i <= n
          BY <4>2
        <5>2. g[i + 1] = step[<<i + 1, g[i]>>]
          BY <2>1, <5>1 DEF IsRun
        <5>3. QED
          BY <5>1, <5>2
      <4>3. QED
        BY <4>1, <4>2
    <3>3. (n + 1) - 1 = n
      OBVIOUS
    <3> HIDE DEF h
    <3>4. QED
      BY <3>1, <3>2, <3>3 DEF IsRun
  <2>4. QED
    BY <2>2, <2>3
<1>3. m \in S
  <2> HIDE DEF S
  <2>1. QED
    BY <1>1, <1>2, SetInduction
<1>4. QED
  BY <1>3

(* The recursive functions of Keep and Total are such runs. *)
LEMMA KeepIsRun ==
  ASSUME NEW X, NEW s \in Seq(X), NEW S
  PROVE  \E k \in [0 .. Len(s) -> Seq(X)] :
           /\ Keep(s, S) = k[Len(s)]
           /\ k[0] = <<>>
           /\ \A i \in 1 .. Len(s) :
                k[i] = IF s[i] \in S THEN Append(k[i - 1], s[i]) ELSE k[i - 1]
<1> DEFINE T == Seq(X)
           m == Len(s)
           step == [w \in (1 .. m) \X T |-> IF s[w[1]] \in S THEN Append(w[2], s[w[1]]) ELSE w[2]]
           Is(k) == k = [i \in 0 .. m |->
                           IF i = 0 THEN <<>>
                           ELSE IF s[i] \in S THEN Append(k[i - 1], s[i]) ELSE k[i - 1]]
<1>1. m \in Nat /\ <<>> \in T
  OBVIOUS
<1>2. step \in [(1 .. m) \X T -> T]
  OBVIOUS
<1>3. PICK g \in [0 .. m -> T] : IsRun(g, m, <<>>, step)
  <2> HIDE DEF step, T, m
  <2>1. QED
    BY <1>1, <1>2, RunExists
<1>4. Is(g)
  <2>1. \A i \in 1 .. m : i - 1 \in 0 .. m - 1 /\ (i - 1) + 1 = i /\ i # 0
    BY <1>1
  <2>2. \A i \in 1 .. m : g[i] = step[<<i, g[i - 1]>>]
    BY <1>3, <2>1 DEF IsRun
  <2>3. \A i \in 1 .. m : <<i, g[i - 1]>> \in (1 .. m) \X T
    <3> HIDE DEF T, m
    <3>1. \A i \in 1 .. m : i - 1 \in 0 .. m
      BY <1>1
    <3>2. QED
      BY <1>3, <3>1
  <2>4. \A i \in 1 .. m : g[i] = IF s[i] \in S THEN Append(g[i - 1], s[i]) ELSE g[i - 1]
    BY <2>2, <2>3
  <2>5. g[0] = <<>>
    BY <1>3 DEF IsRun
  <2>6. \A i \in 0 .. m : i = 0 \/ i \in 1 .. m
    BY <1>1
  <2> HIDE DEF T, m
  <2>7. g = [i \in 0 .. m |-> g[i]]
    BY <1>3
  <2>8. QED
    BY <1>1, <1>3, <2>1, <2>4, <2>5, <2>6, <2>7
<1> DEFINE k == CHOOSE k : Is(k)
<1>5. Keep(s, S) = k[m]
  BY DEF Keep
<1>6. Is(k)
  BY <1>4
<1> HIDE DEF k
<1>7. /\ k = [i \in 0 .. m |-> k[i]]
      /\ k[0] = <<>>
      /\ \A i \in 1 .. m : k[i] = IF s[i] \in S THEN Append(k[i - 1], s[i]) ELSE k[i - 1]
  <2> HIDE DEF m
  <2>1. k[0] = <<>> /\ k = [i \in 0 .. m |-> k[i]]
    BY <1>1, <1>6
  <2>2. \A i \in 1 .. m : i \in 0 .. m /\ i # 0
    BY <1>1
  <2>3. QED
    BY <1>6, <2>1, <2>2
<1>8. \A n \in Nat : n \in {i \in Nat : i <= m => k[i] \in T}
  <2>1. ASSUME NEW n \in Nat, n <= m => k[n] \in T, n + 1 <= m
        PROVE  k[n + 1] \in T
    <3>1. n + 1 \in 1 .. m /\ (n + 1) - 1 = n /\ k[n] \in T /\ s[n + 1] \in X
      BY <1>1, <2>1
    <3>2. k[n + 1] = IF s[n + 1] \in S THEN Append(k[n], s[n + 1]) ELSE k[n]
      BY <1>7, <3>1
    <3>3. QED
      BY <3>1, <3>2
  <2>2. k[0] \in T
    BY <1>1, <1>7
  <2> DEFINE I == {i \in Nat : i <= m => k[i] \in T}
  <2>3. 0 \in I /\ \A n \in Nat : n \in I => n + 1 \in I
    BY <2>1, <2>2
  <2> HIDE DEF I, T, m
  <2>4. \A n \in Nat : n \in I
    BY <2>3, SetInduction
  <2>5. QED
    BY <2>4 DEF I
<1>9. \A i \in 0 .. m : k[i] \in T
  BY <1>1, <1>8
<1> HIDE DEF T, m, Is
<1>10. k \in [0 .. m -> T]
  BY <1>7, <1>9
<1>11. QED
  BY <1>5, <1>7, <1>10 DEF T, m

(* What Keep keeps.                                                         *)
LEMMA KeepFacts ==
  ASSUME NEW X, NEW s \in Seq(X), NEW S
  PROVE  /\ Keep(s, S) \in Seq(X)
         /\ ToSet(Keep(s, S)) = ToSet(s) \cap S
         /\ IsInjective(s) => IsInjective(Keep(s, S))
<1> DEFINE m == Len(s)
           From(i) == {s[j] : j \in 1 .. i}
<1>1. PICK k \in [0 .. m -> Seq(X)] :
        /\ Keep(s, S) = k[m]
        /\ k[0] = <<>>
        /\ \A i \in 1 .. m : k[i] = IF s[i] \in S THEN Append(k[i - 1], s[i]) ELSE k[i - 1]
  BY KeepIsRun
<1>2. m \in Nat
  OBVIOUS
<1> DEFINE Good(i) == /\ ToSet(k[i]) = From(i) \cap S
                      /\ IsInjective(s) => IsInjective(k[i])
           I == {i \in Nat : i <= m => Good(i)}
<1>3. Good(0)
  BY <1>1 DEF ToSet, IsInjective
<1>4. ASSUME NEW i \in Nat, i + 1 <= m, Good(i)
      PROVE  Good(i + 1)
  <2>1. /\ i \in 0 .. m /\ i + 1 \in 1 .. m /\ (i + 1) - 1 = i /\ k[i] \in Seq(X)
        /\ s[i + 1] \in X
    <3> HIDE DEF Good
    <3>1. s[i + 1] \in X
      BY <1>4
    <3> HIDE DEF m
    <3>2. QED
      BY <1>1, <1>2, <1>4, <3>1
  <2>2. From(i + 1) = From(i) \cup {s[i + 1]}
    BY <1>4
  <2>3. k[i + 1] = IF s[i + 1] \in S THEN Append(k[i], s[i + 1]) ELSE k[i]
    BY <1>1, <2>1
  <2>4. CASE s[i + 1] \notin S
    BY <1>4, <2>2, <2>3, <2>4
  <2>5. CASE s[i + 1] \in S
    <3> DEFINE t == k[i]
               u == k[i + 1]
    <3>1. u = Append(t, s[i + 1]) /\ t \in Seq(X)
      BY <2>1, <2>3, <2>5
    <3>2. /\ Len(u) = Len(t) + 1 /\ Len(t) \in Nat /\ DOMAIN u = 1 .. Len(u) /\ DOMAIN t = 1 .. Len(t)
          /\ \A j \in 1 .. Len(t) : u[j] = t[j]
          /\ u[Len(t) + 1] = s[i + 1]
      BY <2>1, <3>1
    <3>3. ToSet(t) = From(i) \cap S
      BY <1>4
    <3> HIDE DEF t, u, From
    <3>4. ToSet(u) = ToSet(t) \cup {s[i + 1]}
      BY <3>2 DEF ToSet
    <3>5. ToSet(u) = From(i + 1) \cap S
      BY <2>2, <2>5, <3>3, <3>4
    <3>6. ASSUME IsInjective(s)
          PROVE  IsInjective(u)
      <4>1. s[i + 1] \notin From(i)
        BY <2>1, <3>6 DEF IsInjective, From
      <4>2. \A j \in 1 .. Len(t) : u[j] # s[i + 1]
        BY <3>2, <3>3, <4>1 DEF ToSet
      <4>3. IsInjective(t)
        BY <1>4, <3>6 DEF t
      <4>4. \A j \in DOMAIN u : j \in DOMAIN t \/ j = Len(t) + 1
        BY <3>2
      <4>5. QED
        BY <3>2, <4>2, <4>3, <4>4 DEF IsInjective
    <3>7. QED
      BY <3>5, <3>6 DEF u
  <2>6. QED
    BY <2>4, <2>5
<1>5. \A i \in Nat : i \in I
  <2>1. 0 \in I /\ \A i \in Nat : i \in I => i + 1 \in I
    <3> HIDE DEF Good, m
    <3>1. QED
      BY <1>2, <1>3, <1>4
  <2> HIDE DEF I
  <2>2. QED
    BY <2>1, SetInduction
<1>6. Good(m)
  <2> HIDE DEF Good, m
  <2>1. QED
    BY <1>2, <1>5
<1>7. From(m) = ToSet(s)
  BY DEF ToSet
<1>8. QED
  BY <1>1, <1>2, <1>6, <1>7

\* Each element is related by R to those after it.
Sorted(s, R) == \A i, j \in 1 .. Len(s) : i < j => <<s[i], s[j]>> \in R

(* Keep keeps the order.                                                      *)
LEMMA KeepOrder ==
  ASSUME NEW X, NEW s \in Seq(X), NEW S
  PROVE  \A R : Sorted(s, R) => Sorted(Keep(s, S), R)
<1> DEFINE m == Len(s)
<1>1. PICK k \in [0 .. m -> Seq(X)] :
        /\ Keep(s, S) = k[m]
        /\ k[0] = <<>>
        /\ \A i \in 1 .. m : k[i] = IF s[i] \in S THEN Append(k[i - 1], s[i]) ELSE k[i - 1]
  BY KeepIsRun
<1> SUFFICES ASSUME NEW R, Sorted(s, R)
             PROVE  Sorted(Keep(s, S), R)
  OBVIOUS
<1>2. m \in Nat
  OBVIOUS
<1> DEFINE Upto(i, t) == \A p \in 1 .. Len(t) : \E j \in 1 .. i : t[p] = s[j]
           Good(i) == Upto(i, k[i]) /\ Sorted(k[i], R)
           I == {i \in Nat : i <= m => Good(i)}
<1>3. Good(0)
  BY <1>1 DEF Sorted
<1>4. ASSUME NEW i \in Nat, i + 1 <= m, Good(i)
      PROVE  Good(i + 1)
  <2>1. /\ i \in 0 .. m /\ i + 1 \in 1 .. m /\ (i + 1) - 1 = i /\ k[i] \in Seq(X)
        /\ s[i + 1] \in X
    <3> HIDE DEF Good
    <3>1. s[i + 1] \in X
      BY <1>4
    <3> HIDE DEF m
    <3>2. QED
      BY <1>1, <1>2, <1>4, <3>1
  <2>2. k[i + 1] = IF s[i + 1] \in S THEN Append(k[i], s[i + 1]) ELSE k[i]
    BY <1>1, <2>1
  <2>3. \A j \in 1 .. i : j \in 1 .. i + 1
    BY <2>1
  <2>4. CASE s[i + 1] \notin S
    <3>1. k[i + 1] = k[i]
      BY <2>2, <2>4
    <3>2. QED
      BY <1>4, <2>3, <3>1
  <2>5. CASE s[i + 1] \in S
    <3> DEFINE t == k[i]
               u == k[i + 1]
    <3>1. u = Append(t, s[i + 1]) /\ t \in Seq(X)
      BY <2>1, <2>2, <2>5
    <3>2. /\ Len(u) = Len(t) + 1 /\ Len(t) \in Nat
          /\ \A j \in 1 .. Len(t) : u[j] = t[j]
          /\ u[Len(t) + 1] = s[i + 1]
      BY <2>1, <3>1
    <3>3. Upto(i, t) /\ Sorted(t, R)
      BY <1>4
    <3>4. \A j \in 1 .. i : <<s[j], s[i + 1]>> \in R
      <4>1. ASSUME NEW j \in 1 .. i
            PROVE  j \in 1 .. m /\ j < i + 1
        BY <1>2, <2>1
      <4>2. QED
        BY <2>1, <4>1 DEF Sorted
    <3> HIDE DEF t, u
    <3>5. Upto(i + 1, u)
      <4>1. ASSUME NEW p \in 1 .. Len(u)
            PROVE  \E j \in 1 .. i + 1 : u[p] = s[j]
        <5>1. CASE p \in 1 .. Len(t)
          BY <2>3, <3>2, <3>3, <5>1
        <5>2. CASE p = Len(t) + 1
          BY <2>1, <3>2, <5>2
        <5>3. QED
          BY <3>2, <5>1, <5>2
      <4>2. QED
        BY <4>1
    <3>6. Sorted(u, R)
      <4>1. ASSUME NEW p \in 1 .. Len(u), NEW q \in 1 .. Len(u), p < q
            PROVE  <<u[p], u[q]>> \in R
        <5>1. p \in 1 .. Len(t) /\ u[p] = t[p]
          BY <3>2, <4>1
        <5>2. CASE q \in 1 .. Len(t)
          BY <3>2, <3>3, <4>1, <5>1, <5>2 DEF Sorted
        <5>3. CASE q = Len(t) + 1
          BY <3>2, <3>3, <3>4, <5>1, <5>3
        <5>4. QED
          BY <3>2, <5>2, <5>3
      <4>2. QED
        BY <4>1 DEF Sorted
    <3>7. QED
      BY <3>5, <3>6 DEF u
  <2>6. QED
    BY <2>4, <2>5
<1>5. \A i \in Nat : i \in I
  <2>1. 0 \in I /\ \A i \in Nat : i \in I => i + 1 \in I
    <3> HIDE DEF Good, m
    <3>1. QED
      BY <1>2, <1>3, <1>4
  <2> HIDE DEF I
  <2>2. QED
    BY <2>1, SetInduction
<1>6. Good(m)
  <2> HIDE DEF Good, m
  <2>1. QED
    BY <1>2, <1>5
<1>7. QED
  BY <1>1, <1>6

(* The partial sums of Total.                                                 *)
LEMMA TotalIsRun ==
  ASSUME NEW s \in Seq(Nat)
  PROVE  \E t \in [0 .. Len(s) -> Nat] :
           /\ Total(s) = t[Len(s)]
           /\ t[0] = 0
           /\ \A i \in 1 .. Len(s) : t[i] = t[i - 1] + s[i]
<1> DEFINE m == Len(s)
           step == [w \in (1 .. m) \X Nat |-> w[2] + s[w[1]]]
           Is(t) == t = [i \in 0 .. m |-> IF i = 0 THEN 0 ELSE t[i - 1] + s[i]]
<1>1. m \in Nat /\ \A i \in 1 .. m : s[i] \in Nat
  OBVIOUS
<1> HIDE DEF m
<1>2. step \in [(1 .. m) \X Nat -> Nat]
  BY <1>1
<1>3. PICK g \in [0 .. m -> Nat] : IsRun(g, m, 0, step)
  <2> HIDE DEF step
  <2>1. QED
    BY <1>1, <1>2, RunExists
<1>4. Is(g)
  <2>1. \A i \in 1 .. m : i - 1 \in 0 .. m - 1 /\ i - 1 \in 0 .. m /\ (i - 1) + 1 = i /\ i # 0
    BY <1>1
  <2>2. \A i \in 1 .. m : g[i] = step[<<i, g[i - 1]>>]
    BY <1>3, <2>1 DEF IsRun
  <2>3. \A i \in 1 .. m : g[i] = g[i - 1] + s[i]
    BY <1>3, <2>1, <2>2
  <2>4. g[0] = 0
    BY <1>3 DEF IsRun
  <2>5. \A i \in 0 .. m : i = 0 \/ i \in 1 .. m
    BY <1>1
  <2>6. g = [i \in 0 .. m |-> g[i]]
    BY <1>3
  <2>7. QED
    BY <1>1, <2>1, <2>3, <2>4, <2>5, <2>6
<1> DEFINE t == CHOOSE t : Is(t)
<1>5. Total(s) = t[m]
  BY DEF Total, m
<1>6. Is(t)
  BY <1>4
<1> HIDE DEF t
<1>7. /\ t = [i \in 0 .. m |-> t[i]]
      /\ t[0] = 0
      /\ \A i \in 1 .. m : t[i] = t[i - 1] + s[i]
  <2>1. t[0] = 0 /\ t = [i \in 0 .. m |-> t[i]]
    BY <1>1, <1>6
  <2>2. \A i \in 1 .. m : i \in 0 .. m /\ i # 0
    BY <1>1
  <2>3. QED
    BY <1>6, <2>1, <2>2
<1>8. \A i \in 0 .. m : t[i] \in Nat
  <2> DEFINE I == {i \in Nat : i <= m => t[i] \in Nat}
  <2>1. ASSUME NEW n \in Nat, n <= m => t[n] \in Nat, n + 1 <= m
        PROVE  t[n + 1] \in Nat
    <3>1. n + 1 \in 1 .. m /\ (n + 1) - 1 = n /\ t[n] \in Nat /\ s[n + 1] \in Nat
      BY <1>1, <2>1
    <3>2. t[n + 1] = t[n] + s[n + 1]
      BY <1>7, <3>1
    <3>3. QED
      BY <3>1, <3>2
  <2>2. 0 \in I /\ \A n \in Nat : n \in I => n + 1 \in I
    <3>1. 0 \in I
      BY <1>7
    <3>2. QED
      BY <2>1, <3>1
  <2> HIDE DEF I
  <2>3. \A n \in Nat : n \in I
    BY <2>2, SetInduction
  <2>4. QED
    BY <1>1, <2>3 DEF I
<1> HIDE DEF Is
<1>9. t \in [0 .. m -> Nat]
  BY <1>7, <1>8
<1>10. QED
  BY <1>5, <1>7, <1>9 DEF m

(* Joining sequences of the same kind, first as the sequence of its values. *)
LEMMA JoinedIsRun ==
  ASSUME NEW X, NEW ss \in Seq(Seq(X))
  PROVE  \E k \in [0 .. Len(ss) -> Seq(X)] :
           /\ Joined(ss) = k[Len(ss)]
           /\ k[0] = <<>>
           /\ \A i \in 1 .. Len(ss) : k[i] = k[i - 1] \o ss[i]
<1> DEFINE T == Seq(X)
           m == Len(ss)
           step == [w \in (1 .. m) \X T |-> w[2] \o ss[w[1]]]
           Is(k) == k = [i \in 0 .. m |-> IF i = 0 THEN <<>> ELSE k[i - 1] \o ss[i]]
<1>1. m \in Nat /\ <<>> \in T /\ (\A i \in 1 .. m : ss[i] \in T)
      /\ \A s, t \in T : s \o t \in T
  OBVIOUS
<1> HIDE DEF T, m
<1>2. step \in [(1 .. m) \X T -> T]
  BY <1>1
<1>3. PICK g \in [0 .. m -> T] : IsRun(g, m, <<>>, step)
  <2> HIDE DEF step
  <2>1. QED
    BY <1>1, <1>2, RunExists
<1>4. Is(g)
  <2>1. \A i \in 1 .. m : i - 1 \in 0 .. m - 1 /\ i - 1 \in 0 .. m /\ (i - 1) + 1 = i /\ i # 0
    BY <1>1
  <2>2. \A i \in 1 .. m : g[i] = step[<<i, g[i - 1]>>]
    BY <1>3, <2>1 DEF IsRun
  <2>3. \A i \in 1 .. m : <<i, g[i - 1]>> \in (1 .. m) \X T
    BY <1>3, <2>1
  <2>4. \A i \in 1 .. m : g[i] = g[i - 1] \o ss[i]
    BY <2>2, <2>3
  <2>5. g[0] = <<>>
    BY <1>3 DEF IsRun
  <2>6. \A i \in 0 .. m : i = 0 \/ i \in 1 .. m
    BY <1>1
  <2>7. g = [i \in 0 .. m |-> g[i]]
    BY <1>3
  <2>8. QED
    BY <1>1, <1>3, <2>1, <2>4, <2>5, <2>6, <2>7
<1> DEFINE k == CHOOSE k : Is(k)
<1>5. Joined(ss) = k[m]
  BY DEF Joined, m
<1>6. Is(k)
  BY <1>4
<1> HIDE DEF k
<1>7. k[0] = <<>> /\ \A i \in 1 .. m : k[i] = k[i - 1] \o ss[i]
  <2>1. k[0] = <<>>
    BY <1>1, <1>6
  <2>2. \A i \in 1 .. m : i \in 0 .. m /\ i # 0
    BY <1>1
  <2>3. QED
    BY <1>6, <2>1, <2>2
<1>8. \A n \in Nat : n <= m => k[n] \in T
  <2>1. ASSUME NEW n \in Nat, n <= m => k[n] \in T, n + 1 <= m
        PROVE  k[n + 1] \in T
    <3>1. n + 1 \in 1 .. m /\ (n + 1) - 1 = n /\ n <= m
      BY <1>1, <2>1
    <3>2. k[n] \in T /\ ss[n + 1] \in T
      BY <1>1, <2>1, <3>1
    <3>3. k[n + 1] = k[n] \o ss[n + 1]
      BY <1>7, <3>1
    <3>4. QED
      BY <1>1, <3>2, <3>3
  <2> DEFINE I == {i \in Nat : i <= m => k[i] \in T}
  <2>2. 0 \in I /\ \A n \in Nat : n \in I => n + 1 \in I
    BY <1>1, <1>7, <2>1
  <2> HIDE DEF I
  <2>3. \A n \in Nat : n \in I
    BY <2>2, SetInduction
  <2>4. QED
    BY <2>3 DEF I
<1> HIDE DEF Is
<1>9. k \in [0 .. m -> T]
  <2>1. \A i \in 0 .. m : k[i] \in T
    BY <1>1, <1>8
  <2>2. k = [i \in 0 .. m |-> k[i]]
    BY <1>6 DEF Is
  <2>3. QED
    BY <2>1, <2>2
<1>10. QED
  BY <1>5, <1>7, <1>9 DEF T, m

LEMMA JoinedType ==
  ASSUME NEW X, NEW ss \in Seq(Seq(X))
  PROVE  Joined(ss) \in Seq(X) /\ (ss = <<>> => Joined(ss) = <<>>)
<1>1. PICK k \in [0 .. Len(ss) -> Seq(X)] : Joined(ss) = k[Len(ss)] /\ k[0] = <<>>
  BY JoinedIsRun
<1>2. Len(ss) \in 0 .. Len(ss) /\ (ss = <<>> => Len(ss) = 0)
  OBVIOUS
<1>3. QED
  BY <1>1, <1>2

(* One sequence more at the end.                                            *)
LEMMA JoinedAppend ==
  ASSUME NEW X, NEW ss \in Seq(Seq(X)), NEW s \in Seq(X)
  PROVE  Joined(Append(ss, s)) = Joined(ss) \o s
<1> DEFINE T == Seq(X)
           m == Len(ss)
           tt == Append(ss, s)
<1>1. /\ tt \in Seq(T) /\ Len(tt) = m + 1 /\ m \in Nat
      /\ \A i \in 1 .. m : tt[i] = ss[i]
      /\ tt[m + 1] = s
  BY AppendFacts
<1>2. PICK k \in [0 .. m -> T] :
        /\ Joined(ss) = k[m] /\ k[0] = <<>>
        /\ \A i \in 1 .. m : k[i] = k[i - 1] \o ss[i]
  BY JoinedIsRun
<1> HIDE DEF m, tt, T
<1>3. PICK l \in [0 .. Len(tt) -> T] :
        /\ Joined(tt) = l[Len(tt)] /\ l[0] = <<>>
        /\ \A i \in 1 .. Len(tt) : l[i] = l[i - 1] \o tt[i]
  BY <1>1, JoinedIsRun DEF T
<1> DEFINE I == {n \in Nat : n <= m => l[n] = k[n]}
<1>4. ASSUME NEW n \in Nat, n \in I
      PROVE  n + 1 \in I
  <2> SUFFICES ASSUME n + 1 <= m
               PROVE  l[n + 1] = k[n + 1]
    OBVIOUS
  <2>1. n + 1 \in 1 .. m /\ n + 1 \in 1 .. Len(tt) /\ (n + 1) - 1 = n /\ n <= m
    BY <1>1
  <2>2. l[n] = k[n]
    BY <1>4, <2>1
  <2>3. l[n + 1] = l[n] \o tt[n + 1] /\ k[n + 1] = k[n] \o ss[n + 1]
    BY <1>2, <1>3, <2>1
  <2>4. QED
    BY <1>1, <2>1, <2>2, <2>3
<1>5. 0 \in I
  BY <1>2, <1>3
<1> HIDE DEF I
<1>6. m \in I
  BY <1>1, <1>4, <1>5, SetInduction
<1>7. l[m] = k[m]
  BY <1>1, <1>6 DEF I
<1>8. m + 1 \in 1 .. Len(tt) /\ (m + 1) - 1 = m
  BY <1>1
<1>9. l[m + 1] = l[m] \o tt[m + 1]
  BY <1>3, <1>8
<1>10. QED
  BY <1>1, <1>2, <1>3, <1>7, <1>9 DEF tt

Associative(T) == \A a, b, c \in T : (a \o b) \o c = a \o (b \o c)

LEMMA Associates ==
  ASSUME NEW X
  PROVE  Associative(Seq(X))
<1>1. SUFFICES ASSUME NEW a \in Seq(X), NEW b \in Seq(X), NEW c \in Seq(X)
               PROVE  (a \o b) \o c = a \o (b \o c)
  BY DEF Associative
<1>2. QED
  BY ConcatAssociative

(* One less at the front.                                                   *)
LEMMA JoinedTail ==
  ASSUME NEW X, NEW ss \in Seq(Seq(X)), ss # <<>>
  PROVE  Joined(ss) = Head(ss) \o Joined(Tail(ss))
<1> DEFINE T == Seq(X)
           s == Head(ss)
           tt == Tail(ss)
           m == Len(tt)
<1>1. /\ tt \in Seq(T) /\ s \in T /\ s = ss[1] /\ Len(ss) = m + 1 /\ m \in Nat
      /\ \A i \in 1 .. m : tt[i] = ss[i + 1]
  <2>1. /\ tt \in Seq(T) /\ s \in T /\ s = ss[1] /\ m = Len(ss) - 1 /\ Len(ss) \in Nat
        /\ Len(ss) > 0 /\ \A i \in 1 .. Len(ss) - 1 : tt[i] = ss[i + 1]
    BY TailFacts
  <2> HIDE DEF tt, s, T
  <2>2. QED
    BY <2>1
<1> HIDE DEF m, tt, s
<1>2. /\ \A a \in T : <<>> \o a = a /\ a \o <<>> = a
      /\ \A b, c \in T : (s \o b) \o c = s \o (b \o c)
  <2>1. \A a \in T : <<>> \o a = a /\ a \o <<>> = a
    BY ConcatEmptySeq
  <2>2. s \in T
    BY <1>1
  <2>3. \A a, b, c \in T : (a \o b) \o c = a \o (b \o c)
    <3>1. Associative(T)
      BY Associates DEF T
    <3>2. QED
      BY <3>1, Zenon DEF Associative
  <2>4. QED
    BY <2>1, <2>2, <2>3, Zenon
<1> HIDE DEF T
<1>3. PICK k \in [0 .. Len(ss) -> T] :
        /\ Joined(ss) = k[Len(ss)] /\ k[0] = <<>>
        /\ \A i \in 1 .. Len(ss) : k[i] = k[i - 1] \o ss[i]
  BY JoinedIsRun DEF T
<1>4. PICK l \in [0 .. m -> T] :
        /\ Joined(tt) = l[m] /\ l[0] = <<>>
        /\ \A i \in 1 .. m : l[i] = l[i - 1] \o tt[i]
  BY <1>1, JoinedIsRun DEF T, m
<1> DEFINE I == {n \in Nat : n <= m => k[n + 1] = s \o l[n]}
<1>5. 0 \in I
  <2>1. 1 \in 1 .. Len(ss) /\ 1 - 1 = 0 /\ 0 + 1 = 1
    BY <1>1
  <2>2. k[1] = k[0] \o ss[1]
    BY <1>3, <2>1
  <2>3. k[1] = s /\ s \o l[0] = s
    BY <1>1, <1>2, <1>3, <1>4, <2>2
  <2>4. QED
    BY <2>1, <2>3
<1>6. ASSUME NEW n \in Nat, n \in I
      PROVE  n + 1 \in I
  <2> SUFFICES ASSUME n + 1 <= m
               PROVE  k[(n + 1) + 1] = s \o l[n + 1]
    OBVIOUS
  <2>1. /\ n + 1 \in 1 .. m /\ (n + 1) + 1 \in 1 .. Len(ss) /\ (n + 1) - 1 = n /\ n <= m
        /\ ((n + 1) + 1) - 1 = n + 1 /\ n \in 0 .. m
    BY <1>1
  <2>2. k[n + 1] = s \o l[n]
    BY <1>6, <2>1
  <2>3. k[(n + 1) + 1] = k[n + 1] \o ss[(n + 1) + 1] /\ l[n + 1] = l[n] \o tt[n + 1]
    BY <1>3, <1>4, <2>1
  <2>4. tt[n + 1] = ss[(n + 1) + 1]
    BY <1>1, <2>1
  <2>5. tt[n + 1] \in T /\ l[n] \in T
    <3>1. \A i \in 1 .. m : tt[i] \in T
      BY <1>1 DEF m
    <3>2. QED
      BY <2>1, <3>1
  <2>6. k[(n + 1) + 1] = (s \o l[n]) \o tt[n + 1]
    BY <2>2, <2>3, <2>4
  <2>7. (s \o l[n]) \o tt[n + 1] = s \o (l[n] \o tt[n + 1])
    BY <1>2, <2>5, Zenon
  <2>8. QED
    BY <2>3, <2>6, <2>7
<1> HIDE DEF I
<1>7. m \in I
  BY <1>1, <1>5, <1>6, SetInduction
<1>8. k[m + 1] = s \o l[m]
  BY <1>1, <1>7 DEF I
<1>9. QED
  BY <1>1, <1>3, <1>4, <1>8 DEF s, tt
=============================================================================
