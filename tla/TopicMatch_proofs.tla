-------------------------- MODULE TopicMatch_proofs --------------------------
(***************************************************************************)
(* Proofs about TopicMatch: IsFit's table says what the two wildcards      *)
(* mean, for keys of any length over any words.                            *)
(*                                                                         *)
(* Fit says of the first i words of a key and the first j words of a       *)
(* pattern that the words can be cut into j parts, each of which its word  *)
(* of the pattern replaces.  Fit follows the equations of Cell wherever    *)
(* the pattern does not begin with #; the table is the only function that  *)
(* does; and in the corner Fit is Matches.                                 *)
(***************************************************************************)
EXTENDS TopicMatch, SeqFacts, TLAPS

(* Two truth values that are equivalent are equal.                         *)
LEMMA SameTruth ==
  ASSUME NEW P \in BOOLEAN, NEW Q \in BOOLEAN, P <=> Q
  PROVE  P = Q
OBVIOUS

\* The word r[p] of the pattern replaces the words after x up to y.
One(r, b, p, x, y) ==
  /\ x <= y
  /\ \/ r[p] = "#"
     \/ r[p] = "*" /\ y = x + 1
     \/ y = x + 1 /\ b[y] = r[p]

\* f cuts the first i words into j parts, one for each word of the pattern.
Cut(r, b, f, i, j) ==
  /\ f \in [0 .. j -> Nat]
  /\ f[0] = 0 /\ f[j] = i
  /\ \A p \in 1 .. j : One(r, b, p, f[p - 1], f[p])

Fit(r, b, i, j) == \E f : Cut(r, b, f, i, j)

(* The last part of a cut taken off, and a part put behind a cut.           *)
LEMMA CutOneMore ==
  ASSUME NEW r, NEW b, NEW f, NEW x \in Nat, NEW y \in Nat, NEW j \in Nat, j > 0
  PROVE  /\ Cut(r, b, f, y, j) => /\ f[j - 1] \in Nat
                                  /\ Fit(r, b, f[j - 1], j - 1)
                                  /\ One(r, b, j, f[j - 1], y)
         /\ Fit(r, b, x, j - 1) /\ One(r, b, j, x, y) => Fit(r, b, y, j)
<1>0. j - 1 \in Nat /\ j \in 1 .. j /\ j \in 0 .. j /\ j - 1 \in 0 .. j - 1 /\ j - 1 \in 0 .. j
      /\ 0 \in 0 .. j - 1 /\ 0 \in 0 .. j /\ j \notin 0 .. j - 1
  OBVIOUS
<1>1. ASSUME Cut(r, b, f, y, j)
      PROVE  f[j - 1] \in Nat /\ Fit(r, b, f[j - 1], j - 1) /\ One(r, b, j, f[j - 1], y)
  <2> DEFINE g == [p \in 0 .. j - 1 |-> f[p]]
  <2>1. /\ f \in [0 .. j -> Nat] /\ f[0] = 0 /\ f[j] = y
        /\ \A p \in 1 .. j : One(r, b, p, f[p - 1], f[p])
    BY <1>1 DEF Cut
  <2>2. f[j - 1] \in Nat /\ One(r, b, j, f[j - 1], y)
    BY <2>1, <1>0
  <2>3. /\ g \in [0 .. j - 1 -> Nat] /\ g[0] = 0 /\ g[j - 1] = f[j - 1]
    BY <2>1, <1>0
  <2>4. ASSUME NEW p \in 1 .. j - 1
        PROVE  One(r, b, p, g[p - 1], g[p])
    <3>1. p \in 0 .. j - 1 /\ p - 1 \in 0 .. j - 1 /\ p \in 1 .. j
      OBVIOUS
    <3>2. g[p - 1] = f[p - 1] /\ g[p] = f[p]
      BY <3>1
    <3>3. QED
      BY <2>1, <3>1, <3>2
  <2>5. Cut(r, b, g, f[j - 1], j - 1)
    <3> HIDE DEF g
    <3>1. QED
      BY <2>3, <2>4 DEF Cut
  <2>6. QED
    BY <2>2, <2>5 DEF Fit
<1>2. ASSUME Fit(r, b, x, j - 1), One(r, b, j, x, y)
      PROVE  Fit(r, b, y, j)
  <2>1. PICK h : Cut(r, b, h, x, j - 1)
    BY <1>2 DEF Fit
  <2> DEFINE g == [p \in 0 .. j |-> IF p = j THEN y ELSE h[p]]
  <2>2. /\ h \in [0 .. j - 1 -> Nat] /\ h[0] = 0 /\ h[j - 1] = x
        /\ \A p \in 1 .. j - 1 : One(r, b, p, h[p - 1], h[p])
    BY <2>1 DEF Cut
  <2>3. g \in [0 .. j -> Nat] /\ g[0] = 0 /\ g[j] = y
    BY <2>2
  <2>4. ASSUME NEW p \in 1 .. j
        PROVE  One(r, b, p, g[p - 1], g[p])
    <3>1. CASE p = j
      <4>1. g[p - 1] = x /\ g[p] = y
        BY <2>2, <3>1, <1>0
      <4>2. QED
        BY <4>1, <3>1, <1>2
    <3>2. CASE p # j
      <4>1. p \in 1 .. j - 1 /\ p - 1 # j /\ p - 1 \in 0 .. j /\ p \in 0 .. j
        BY <3>2
      <4>2. g[p - 1] = h[p - 1] /\ g[p] = h[p]
        BY <4>1, <3>2
      <4>3. QED
        BY <2>2, <4>1, <4>2
    <3>3. QED
      BY <3>1, <3>2
  <2>5. Cut(r, b, g, y, j)
    <3> HIDE DEF g
    <3>1. QED
      BY <2>3, <2>4 DEF Cut
  <2>6. QED
    BY <2>5 DEF Fit
<1>3. QED
  BY <1>1, <1>2

(* Fit by its last part.                                                     *)
LEMMA FitOneMore ==
  ASSUME NEW r, NEW b, NEW y \in Nat, NEW j \in Nat, j > 0
  PROVE  Fit(r, b, y, j) <=> \E x \in Nat : Fit(r, b, x, j - 1) /\ One(r, b, j, x, y)
<1>1. ASSUME Fit(r, b, y, j)
      PROVE  \E x \in Nat : Fit(r, b, x, j - 1) /\ One(r, b, j, x, y)
  <2>1. PICK f : Cut(r, b, f, y, j)
    BY <1>1 DEF Fit
  <2>2. QED
    BY <2>1, CutOneMore
<1>2. ASSUME NEW x \in Nat, Fit(r, b, x, j - 1), One(r, b, j, x, y)
      PROVE  Fit(r, b, y, j)
  BY <1>2, CutOneMore
<1>3. QED
  BY <1>1, <1>2

(* The empty pattern fits no words but none: column 0 of the table.          *)
LEMMA FitBorder ==
  ASSUME NEW r, NEW b
  PROVE  \A y \in Nat : Fit(r, b, y, 0) <=> y = 0
<1>1. ASSUME NEW y \in Nat
      PROVE  Fit(r, b, y, 0) => y = 0
  BY DEF Fit, Cut
<1>2. Cut(r, b, [p \in 0 .. 0 |-> 0], 0, 0)
  BY DEF Cut
<1>3. QED
  BY <1>1, <1>2 DEF Fit

(* No words fit a pattern that does not begin with #: row 0 of the table.    *)
LEMMA FitNone ==
  ASSUME NEW r, NEW b, r[1] # "#"
  PROVE  \A j \in Nat : j > 0 => ~Fit(r, b, 0, j)
<1> DEFINE I == {j \in Nat : j > 0 => ~Fit(r, b, 0, j)}
<1>1. 0 \in I
  OBVIOUS
<1>2. ASSUME NEW j \in Nat, j \in I
      PROVE  j + 1 \in I
  <2>0. (j + 1) - 1 = j /\ j + 1 \in Nat /\ j + 1 > 0 /\ 0 \in Nat
    OBVIOUS
  <2> SUFFICES ASSUME Fit(r, b, 0, j + 1)
               PROVE  FALSE
    BY <2>0
  <2>1. PICK x \in Nat : Fit(r, b, x, j) /\ One(r, b, j + 1, x, 0)
    <3>1. Fit(r, b, 0, j + 1) <=>
            \E x \in Nat : Fit(r, b, x, (j + 1) - 1) /\ One(r, b, j + 1, x, 0)
      BY <2>0, FitOneMore
    <3>2. QED
      BY <2>0, <3>1
  <2>2. x = 0 /\ r[j + 1] = "#"
    BY <2>1 DEF One
  <2>3. j > 0
    BY <2>2
  <2>4. QED
    BY <1>2, <2>1, <2>2, <2>3
<1>3. QED
  <2> HIDE DEF I
  <2>1. \A j \in Nat : j \in I
    BY <1>1, <1>2, SetInduction
  <2>2. QED
    BY <2>1 DEF I

(* The two loops' assignments (288-297), said of Fit: # takes one word more   *)
(* or none, any other word takes one.                                         *)
LEMMA FitSteps ==
  ASSUME NEW r, NEW b, NEW i \in Nat, NEW j \in Nat, i > 0, j > 0
  PROVE  /\ r[j] = "#" => (Fit(r, b, i, j) <=> Fit(r, b, i - 1, j) \/ Fit(r, b, i, j - 1))
         /\ r[j] # "#" => (Fit(r, b, i, j) <=>
                             (r[j] = "*" \/ b[i] = r[j]) /\ Fit(r, b, i - 1, j - 1))
<1>0. i - 1 \in Nat /\ (i - 1) + 1 = i
  OBVIOUS
<1>1. Fit(r, b, i, j) <=> \E x \in Nat : Fit(r, b, x, j - 1) /\ One(r, b, j, x, i)
  BY FitOneMore
<1>2. Fit(r, b, i - 1, j) <=> \E x \in Nat : Fit(r, b, x, j - 1) /\ One(r, b, j, x, i - 1)
  BY <1>0, FitOneMore
<1>3. ASSUME r[j] = "#"
      PROVE  Fit(r, b, i, j) <=> Fit(r, b, i - 1, j) \/ Fit(r, b, i, j - 1)
  <2>1. \A x \in Nat : /\ One(r, b, j, x, i) <=> x <= i
                       /\ One(r, b, j, x, i - 1) <=> x <= i - 1
                       /\ x <= i <=> x <= i - 1 \/ x = i
    BY <1>3 DEF One
  <2>2. QED
    BY <1>1, <1>2, <2>1
<1>4. ASSUME r[j] # "#"
      PROVE  Fit(r, b, i, j) <=> (r[j] = "*" \/ b[i] = r[j]) /\ Fit(r, b, i - 1, j - 1)
  <2>1. \A x \in Nat : One(r, b, j, x, i) <=> x = i - 1 /\ (r[j] = "*" \/ b[i] = r[j])
    BY <1>4 DEF One
  <2>2. QED
    BY <1>0, <1>1, <2>1
<1>5. QED
  BY <1>3, <1>4
-----------------------------------------------------------------------------
\* What the table holds: row and column 0 are never filled in, so that a
\* pattern that begins with # fits nothing.
Right(r, b, i, j) == Fit(r, b, i, j) /\ (j > 0 => r[1] # "#")

(* A cell is right when the cells it is computed from are.                    *)
LEMMA CellIsRight ==
  ASSUME NEW r, NEW b, NEW m \in Nat, NEW n \in Nat, NEW dp,
         NEW i \in 0 .. m, NEW j \in 0 .. n,
         i > 0 /\ j > 0 => /\ dp[<<i - 1, j>>] <=> Right(r, b, i - 1, j)
                           /\ dp[<<i, j - 1>>] <=> Right(r, b, i, j - 1)
                           /\ dp[<<i - 1, j - 1>>] <=> Right(r, b, i - 1, j - 1)
  PROVE  Cell(dp, i, j, b, r) <=> Right(r, b, i, j)
<1>0. i \in Nat /\ j \in Nat
  OBVIOUS
<1>1. CASE j = 0
  <2>1. Cell(dp, i, j, b, r) <=> i = 0
    BY <1>1 DEF Cell
  <2>2. Fit(r, b, i, 0) <=> i = 0
    BY <1>0, FitBorder
  <2>3. QED
    BY <1>1, <2>1, <2>2 DEF Right
<1>2. CASE j > 0 /\ i = 0
  <2>1. ~Cell(dp, i, j, b, r)
    BY <1>2 DEF Cell
  <2>2. r[1] # "#" => ~Fit(r, b, 0, j)
    BY <1>0, <1>2, FitNone
  <2>3. QED
    BY <1>2, <2>1, <2>2 DEF Right
<1>3. CASE j > 0 /\ i > 0
  <2>1. /\ r[j] = "#" => (Fit(r, b, i, j) <=> Fit(r, b, i - 1, j) \/ Fit(r, b, i, j - 1))
        /\ r[j] # "#" => (Fit(r, b, i, j) <=>
                            (r[j] = "*" \/ b[i] = r[j]) /\ Fit(r, b, i - 1, j - 1))
    BY <1>0, <1>3, FitSteps
  <2>2. i # 0 /\ j # 0 /\ (j - 1 > 0 <=> j # 1)
    BY <1>0, <1>3
  <2>3. j = 1 => (Fit(r, b, i, j - 1) <=> FALSE)
    <3>1. Fit(r, b, i, 0) <=> i = 0
      BY <1>0, FitBorder
    <3>2. QED
      BY <3>1, <2>2
  <2>4. /\ Right(r, b, i - 1, j) <=> Fit(r, b, i - 1, j) /\ r[1] # "#"
        /\ Right(r, b, i, j) <=> Fit(r, b, i, j) /\ r[1] # "#"
        /\ Right(r, b, i, j - 1) <=> Fit(r, b, i, j - 1) /\ (j # 1 => r[1] # "#")
        /\ Right(r, b, i - 1, j - 1) <=> Fit(r, b, i - 1, j - 1) /\ (j # 1 => r[1] # "#")
    BY <1>3, <2>2 DEF Right
  <2>5. Cell(dp, i, j, b, r) <=>
          IF r[j] = "#" THEN dp[<<i - 1, j>>] \/ dp[<<i, j - 1>>]
          ELSE (r[j] = "*" \/ b[i] = r[j]) /\ dp[<<i - 1, j - 1>>]
    BY <2>2 DEF Cell
  <2>6. CASE r[j] = "#"
    <3>1. Cell(dp, i, j, b, r) <=> Right(r, b, i - 1, j) \/ Right(r, b, i, j - 1)
      BY <1>3, <2>5, <2>6
    <3>2. QED
      BY <2>1, <2>3, <2>4, <2>6, <3>1
  <2>7. CASE r[j] # "#"
    <3>1. Cell(dp, i, j, b, r) <=> (r[j] = "*" \/ b[i] = r[j]) /\ Right(r, b, i - 1, j - 1)
      BY <1>3, <2>5, <2>7
    <3>2. QED
      BY <2>1, <2>4, <2>7, <3>1
  <2>8. QED
    BY <2>6, <2>7
<1>4. QED
  BY <1>0, <1>1, <1>2, <1>3

\* The recursive function of IsFit.
IsTable(dp, r, b, m, n) == dp = [at \in (0 .. m) \X (0 .. n) |-> Cell(dp, at[1], at[2], b, r)]

(* The function of Right is such a table ...                                  *)
LEMMA TableExists ==
  ASSUME NEW r, NEW b, NEW m \in Nat, NEW n \in Nat
  PROVE  \E dp : IsTable(dp, r, b, m, n)
<1> DEFINE D == (0 .. m) \X (0 .. n)
           dp == [at \in D |-> Right(r, b, at[1], at[2])]
<1>1. \A i \in 0 .. m, j \in 0 .. n : dp[<<i, j>>] = Right(r, b, i, j)
  OBVIOUS
<1>2. ASSUME NEW at \in D
      PROVE  Right(r, b, at[1], at[2]) = Cell(dp, at[1], at[2], b, r)
  <2> DEFINE i == at[1]
             j == at[2]
  <2>1. i \in 0 .. m /\ j \in 0 .. n
    OBVIOUS
  <2>2. i > 0 /\ j > 0 => /\ dp[<<i - 1, j>>] <=> Right(r, b, i - 1, j)
                          /\ dp[<<i, j - 1>>] <=> Right(r, b, i, j - 1)
                          /\ dp[<<i - 1, j - 1>>] <=> Right(r, b, i - 1, j - 1)
    <3> HIDE DEF dp, i, j
    <3>1. i > 0 /\ j > 0 => i - 1 \in 0 .. m /\ j - 1 \in 0 .. n
      BY <2>1
    <3>2. QED
      BY <1>1, <2>1, <3>1
  <2>3. Cell(dp, i, j, b, r) <=> Right(r, b, i, j)
    <3> HIDE DEF dp, i, j
    <3>1. QED
      BY <2>1, <2>2, CellIsRight
  <2>4. Right(r, b, i, j) \in BOOLEAN
    BY DEF Right
  <2>5. Cell(dp, i, j, b, r) \in BOOLEAN
    <3> HIDE DEF dp, i, j
    <3>1. CASE i = 0 \/ j = 0
      BY <3>1 DEF Cell
    <3>2. CASE ~(i = 0 \/ j = 0) /\ r[j] = "#"
      BY <3>2 DEF Cell
    <3>3. CASE ~(i = 0 \/ j = 0) /\ r[j] # "#"
      BY <3>3 DEF Cell
    <3>4. QED
      BY <3>1, <3>2, <3>3
  <2>6. QED
    <3> HIDE DEF dp, i, j
    <3>1. Right(r, b, i, j) = Cell(dp, i, j, b, r)
      BY <2>3, <2>4, <2>5, SameTruth
    <3>2. QED
      BY <3>1 DEF i, j
<1>3. PICK t : t = dp
  OBVIOUS
<1>4. t = [at \in D |-> Right(r, b, at[1], at[2])]
  BY <1>3
<1>5. \A at \in D : Right(r, b, at[1], at[2]) = Cell(t, at[1], at[2], b, r)
  <2> HIDE DEF dp, D
  <2>1. QED
    BY <1>2, <1>3
<1>6. t = [at \in D |-> Cell(t, at[1], at[2], b, r)]
  <2> HIDE DEF dp, D
  <2>1. QED
    BY <1>4, <1>5
<1>7. QED
  BY <1>6 DEF IsTable

(* ... and every such table is right everywhere: by induction over i + j.     *)
LEMMA TableIsRight ==
  ASSUME NEW r, NEW b, NEW m \in Nat, NEW n \in Nat, NEW dp, IsTable(dp, r, b, m, n)
  PROVE  dp[<<m, n>>] <=> Right(r, b, m, n)
<1>1. \A i \in 0 .. m, j \in 0 .. n : dp[<<i, j>>] = Cell(dp, i, j, b, r)
  <2> SUFFICES ASSUME NEW i \in 0 .. m, NEW j \in 0 .. n
               PROVE  dp[<<i, j>>] = Cell(dp, i, j, b, r)
    OBVIOUS
  <2>1. PICK at \in (0 .. m) \X (0 .. n) : at = <<i, j>>
    OBVIOUS
  <2>2. dp[at] = Cell(dp, at[1], at[2], b, r)
    BY DEF IsTable
  <2>3. at[1] = i /\ at[2] = j
    BY <2>1
  <2>4. QED
    BY <2>1, <2>2, <2>3
<1> DEFINE I == {k \in Nat : \A i \in 0 .. m, j \in 0 .. n :
                   i + j <= k => (dp[<<i, j>>] <=> Right(r, b, i, j))}
<1>2. ASSUME NEW k \in Nat,
             \A i \in 0 .. m, j \in 0 .. n : i + j < k => (dp[<<i, j>>] <=> Right(r, b, i, j))
      PROVE  k \in I
  <2> SUFFICES ASSUME NEW i \in 0 .. m, NEW j \in 0 .. n, i + j <= k
               PROVE  dp[<<i, j>>] <=> Right(r, b, i, j)
    OBVIOUS
  <2>1. i > 0 /\ j > 0 => /\ i - 1 \in 0 .. m /\ j - 1 \in 0 .. n
                          /\ (i - 1) + j < k /\ i + (j - 1) < k /\ (i - 1) + (j - 1) < k
    OBVIOUS
  <2>2. i > 0 /\ j > 0 => /\ dp[<<i - 1, j>>] <=> Right(r, b, i - 1, j)
                          /\ dp[<<i, j - 1>>] <=> Right(r, b, i, j - 1)
                          /\ dp[<<i - 1, j - 1>>] <=> Right(r, b, i - 1, j - 1)
    BY <1>2, <2>1
  <2>3. Cell(dp, i, j, b, r) <=> Right(r, b, i, j)
    BY <2>2, CellIsRight
  <2>4. dp[<<i, j>>] = Cell(dp, i, j, b, r)
    BY <1>1
  <2>5. QED
    BY <2>3, <2>4
<1>3. 0 \in I
  <2>1. \A i \in 0 .. m, j \in 0 .. n : ~(i + j < 0)
    OBVIOUS
  <2> HIDE DEF I
  <2>2. QED
    BY <1>2, <2>1
<1>4. ASSUME NEW k \in Nat, k \in I
      PROVE  k + 1 \in I
  <2>1. \A i \in 0 .. m, j \in 0 .. n : i + j < k + 1 => i + j <= k
    OBVIOUS
  <2>2. \A i \in 0 .. m, j \in 0 .. n : i + j < k + 1 => (dp[<<i, j>>] <=> Right(r, b, i, j))
    BY <1>4, <2>1
  <2> HIDE DEF I
  <2>3. QED
    BY <1>2, <2>2
<1>5. m + n \in I
  <2> HIDE DEF I
  <2>1. \A k \in Nat : k \in I
    BY <1>3, <1>4, SetInduction
  <2>2. QED
    BY <2>1
<1>6. m \in 0 .. m /\ n \in 0 .. n /\ m + n <= m + n
  OBVIOUS
<1>7. QED
  BY <1>5, <1>6
-----------------------------------------------------------------------------
(* A sequence of one element.                                                 *)
LEMMA OneLong ==
  ASSUME NEW X, NEW s \in Seq(X), Len(s) = 1
  PROVE  s = <<s[1]>>
<1>1. s[1] \in X
  OBVIOUS
<1>2. <<s[1]>> \in Seq(X) /\ Len(<<s[1]>>) = 1 /\ <<s[1]>>[1] = s[1]
  BY <1>1
<1>3. \A i \in 1 .. 1 : i = 1
  OBVIOUS
<1>4. QED
  BY <1>2, <1>3, SeqEqual

(* One says of positions what Replaces says of the part between them.         *)
LEMMA OnePart ==
  ASSUME NEW X, NEW r, NEW b \in Seq(X), NEW p,
         NEW x \in 0 .. Len(b), NEW y \in 0 .. Len(b)
  PROVE  One(r, b, p, x, y) <=> x <= y /\ Replaces(r[p], SubSeq(b, x + 1, y))
<1> DEFINE s == SubSeq(b, x + 1, y)
<1>1. SUFFICES ASSUME x <= y
               PROVE  One(r, b, p, x, y) <=> Replaces(r[p], s)
  BY DEF One
<1>2. /\ Len(s) = y - x
      /\ y = x + 1 => s[1] = b[y]
      /\ s \in Seq(X)
  <2>1. x + 1 \in Int /\ y \in Int /\ \A i \in x + 1 .. y : b[i] \in X
    OBVIOUS
  <2>2. /\ s \in Seq(X) /\ Len(s) = IF x + 1 <= y THEN y - (x + 1) + 1 ELSE 0
        /\ \A i \in 1 .. y - (x + 1) + 1 : s[i] = b[(x + 1) + i - 1]
    BY <2>1, SubSeqProperties
  <2>3. (x + 1 <= y <=> x # y) /\ y - (x + 1) + 1 = y - x
    BY <1>1
  <2>4. y = x + 1 => 1 \in 1 .. y - (x + 1) + 1 /\ (x + 1) + 1 - 1 = y
    OBVIOUS
  <2> HIDE DEF s
  <2>5. Len(s) = y - x
    BY <1>1, <2>2, <2>3
  <2>6. y = x + 1 => s[1] = b[y]
    BY <2>2, <2>4
  <2>7. QED
    BY <2>2, <2>5, <2>6
<1>3. Len(s) = 1 <=> y = x + 1
  BY <1>1, <1>2
<1>4. s = <<r[p]>> <=> y = x + 1 /\ b[y] = r[p]
  <2>1. ASSUME s = <<r[p]>>
        PROVE  y = x + 1 /\ b[y] = r[p]
    <3> HIDE DEF s
    <3>1. Len(s) = 1 /\ s[1] = r[p]
      BY <2>1
    <3>2. QED
      BY <1>2, <1>3, <3>1
  <2>2. ASSUME y = x + 1, b[y] = r[p]
        PROVE  s = <<r[p]>>
    <3>1. Len(s) = 1 /\ s[1] = r[p]
      BY <1>2, <1>3, <2>2
    <3> HIDE DEF s
    <3>2. s = <<s[1]>>
      BY <1>2, <3>1, OneLong
    <3>3. QED
      BY <3>1, <3>2
  <2>3. QED
    BY <2>1, <2>2
<1>5. QED
  <2> HIDE DEF s
  <2>1. QED
    BY <1>1, <1>3, <1>4 DEF One, Replaces

(* A cut never leaves the words it cuts.                                      *)
LEMMA CutBounded ==
  ASSUME NEW r, NEW b, NEW m \in Nat, NEW n \in Nat, NEW f, Cut(r, b, f, m, n)
  PROVE  \A p \in 0 .. n : f[p] \in 0 .. m
<1>1. /\ f \in [0 .. n -> Nat] /\ f[n] = m
      /\ \A p \in 1 .. n : f[p - 1] <= f[p]
  BY DEF Cut, One
<1> DEFINE I == {k \in Nat : k <= n => f[n - k] <= m}
<1>2. 0 \in I
  BY <1>1
<1>3. ASSUME NEW k \in Nat, k \in I
      PROVE  k + 1 \in I
  <2> SUFFICES ASSUME k + 1 <= n
               PROVE  f[n - (k + 1)] <= m
    OBVIOUS
  <2>1. /\ n - k \in 1 .. n /\ n - k \in 0 .. n /\ n - (k + 1) \in 0 .. n
        /\ (n - k) - 1 = n - (k + 1)
    OBVIOUS
  <2>2. f[n - (k + 1)] <= f[n - k] /\ f[n - k] \in Nat /\ f[n - (k + 1)] \in Nat
    <3>1. f[(n - k) - 1] <= f[n - k]
      BY <1>1, <2>1
    <3>2. QED
      BY <1>1, <2>1, <3>1
  <2>3. f[n - k] <= m
    BY <1>3
  <2>4. QED
    BY <2>2, <2>3
<1>4. \A k \in Nat : k \in I
  <2> HIDE DEF I
  <2>1. QED
    BY <1>2, <1>3, SetInduction
<1>5. QED
  <2> SUFFICES ASSUME NEW p \in 0 .. n
               PROVE  f[p] \in 0 .. m
    OBVIOUS
  <2>1. n - p \in Nat /\ n - p <= n /\ n - (n - p) = p
    OBVIOUS
  <2>2. f[n - (n - p)] <= m
    BY <1>4, <2>1
  <2>3. QED
    BY <1>1, <2>1, <2>2

(* Matches is Fit, of all the words and the whole pattern.                    *)
LEMMA MatchesIsFit ==
  ASSUME NEW X, NEW r \in Seq(X), NEW b \in Seq(X)
  PROVE  Matches(r, b) <=> Fit(r, b, Len(b), Len(r))
<1> DEFINE m == Len(b)
           n == Len(r)
<1>0. m \in Nat /\ n \in Nat
  OBVIOUS
<1>1. ASSUME NEW f \in [0 .. n -> 0 .. m], NEW p \in 1 .. n
      PROVE  One(r, b, p, f[p - 1], f[p]) <=>
               f[p - 1] <= f[p] /\ Replaces(r[p], SubSeq(b, f[p - 1] + 1, f[p]))
  <2>1. f[p - 1] \in 0 .. m /\ f[p] \in 0 .. m
    <3> HIDE DEF m, n
    <3>1. p - 1 \in 0 .. n /\ p \in 0 .. n
      BY <1>0
    <3>2. QED
      BY <3>1
  <2>2. QED
    BY <2>1, OnePart
<1>2. ASSUME Matches(r, b)
      PROVE  Fit(r, b, m, n)
  <2>1. PICK f \in Cuts(r, b) : \A p \in 1 .. n :
          f[p - 1] <= f[p] /\ Replaces(r[p], SubSeq(b, f[p - 1] + 1, f[p]))
    BY <1>2 DEF Matches
  <2>2. f \in [0 .. n -> 0 .. m] /\ f[0] = 0 /\ f[n] = m
    BY <2>1 DEF Cuts
  <2>3. f \in [0 .. n -> Nat]
    <3> HIDE DEF m, n
    <3>1. QED
      BY <1>0, <2>2
  <2>4. \A p \in 1 .. n : One(r, b, p, f[p - 1], f[p])
    BY <1>1, <2>1, <2>2
  <2>5. QED
    <3> HIDE DEF m, n
    <3>1. QED
      BY <2>2, <2>3, <2>4 DEF Cut, Fit
<1>3. ASSUME Fit(r, b, m, n)
      PROVE  Matches(r, b)
  <2>1. PICK f : Cut(r, b, f, m, n)
    BY <1>3 DEF Fit
  <2>2. /\ f \in [0 .. n -> Nat] /\ f[0] = 0 /\ f[n] = m
        /\ \A p \in 1 .. n : One(r, b, p, f[p - 1], f[p])
    BY <2>1 DEF Cut
  <2>3. \A p \in 0 .. n : f[p] \in 0 .. m
    <3> HIDE DEF m, n
    <3>1. QED
      BY <1>0, <2>1, CutBounded
  <2>4. f \in [0 .. n -> 0 .. m]
    <3> HIDE DEF m, n
    <3>1. QED
      BY <2>2, <2>3
  <2>5. f \in Cuts(r, b)
    BY <2>2, <2>4 DEF Cuts
  <2>6. \A p \in 1 .. n : f[p - 1] <= f[p] /\ Replaces(r[p], SubSeq(b, f[p - 1] + 1, f[p]))
    BY <1>1, <2>2, <2>4
  <2>7. QED
    BY <2>5, <2>6 DEF Matches
<1>4. QED
  BY <1>2, <1>3

(* Exchange::IsFit answers true exactly when the comments on the wildcards    *)
(* (282-284) say so, the routing key taken as the pattern, unless it begins   *)
(* with #: for keys of any length over any words.                             *)
THEOREM FitMeansMatch ==
  \A X : \A routing, binding \in Seq(X) :
    IsFit(routing, binding) <=>
      ~LeadingHash(routing) /\ Matches(Words(routing), Words(binding))
<1> SUFFICES ASSUME NEW X, NEW routing \in Seq(X), NEW binding \in Seq(X)
             PROVE  IsFit(routing, binding) <=>
                      ~LeadingHash(routing) /\ Matches(Words(routing), Words(binding))
  OBVIOUS
<1> DEFINE r == Words(routing)
           b == Words(binding)
           m == Len(b)
           n == Len(r)
           Is(dp) == IsTable(dp, r, b, m, n)
           dp0 == CHOOSE dp : Is(dp)
<1>1. r \in Seq(X) /\ b \in Seq(X)
  <2>1. Keep(routing, ToSet(routing) \ {""}) \in Seq(X)
    BY KeepFacts
  <2>2. Keep(binding, ToSet(binding) \ {""}) \in Seq(X)
    BY KeepFacts
  <2>3. QED
    BY <2>1, <2>2 DEF Words
<1>2. m \in Nat /\ n \in Nat
  <2> HIDE DEF r, b
  <2>1. QED
    BY <1>1
<1>3. Is(dp0)
  <2> HIDE DEF m, n, r, b
  <2>1. \E dp : Is(dp)
    BY <1>2, TableExists
  <2> HIDE DEF Is
  <2>2. QED
    BY <2>1
<1>4. dp0[<<m, n>>] <=> Right(r, b, m, n)
  <2> HIDE DEF m, n, r, b, dp0
  <2>1. QED
    BY <1>2, <1>3, TableIsRight
<1>5. IsFit(routing, binding) = dp0[<<m, n>>]
  BY DEF IsFit, IsTable
<1>6. Right(r, b, m, n) <=> Fit(r, b, m, n) /\ ~LeadingHash(routing)
  <2>1. n > 0 <=> r # <<>>
    <3> HIDE DEF r
    <3>1. QED
      BY <1>1
  <2>2. LeadingHash(routing) <=> n > 0 /\ r[1] = "#"
    BY <2>1 DEF LeadingHash
  <2> HIDE DEF m, n, r, b
  <2>3. QED
    BY <2>2 DEF Right
<1>7. Matches(r, b) <=> Fit(r, b, m, n)
  <2> HIDE DEF r, b
  <2>1. QED
    BY <1>1, MatchesIsFit
<1>8. QED
  <2> HIDE DEF m, n, r, b, dp0
  <2>1. IsFit(routing, binding) <=> ~LeadingHash(routing) /\ Matches(r, b)
    BY <1>4, <1>5, <1>6, <1>7
  <2>2. QED
    BY <2>1 DEF r, b
=============================================================================
