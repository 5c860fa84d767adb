------------------------- MODULE ReportParserProofs -------------------------
(***************************************************************************)
(* What ReportParser keeps for every descriptor: any number of items, any  *)
(* data looked for, any reports.                                           *)
(*                                                                         *)
(* First what the conversions compute, for every sequence of bytes.  The   *)
(* induction is over the set of numbers that have a property: a set that   *)
(* has 0 and the successor of each of its members has every number.        *)
(*                                                                         *)
(* Then the parser.  Its invariant relates what it stores to the items it  *)
(* has read, which is what the properties are stated with: a global or a   *)
(* usage is that of the last item that sets it, and the bit the next field *)
(* begins at is the sum of those before it.                                *)
(***************************************************************************)
EXTENDS ReportParser, TLAPS, WellFoundedInduction

-----------------------------------------------------------------------------
(* Numbers.                                                                *)

Less == {p \in Nat \X Nat : p[1] < p[2]}

\* The order of the numbers, as the library's theorem has it.
LEMMA LessWellFounded == IsWellFoundedOn(Less, Nat)
BY NatLessThanWellFounded DEF Less, OpToRel

\* A set of numbers that is not empty has a least one.
LEMMA LeastNumber ==
    ASSUME NEW T, T \subseteq Nat, T # {}
    PROVE  \E x \in T : \A y \in T : x <= y
<1>1. PICK x \in T : \A y \in T : ~ (<<y, x>> \in Less)
  BY WFMin, LessWellFounded, Zenon
<1>2. ASSUME NEW y \in T PROVE x <= y
  <2>1. <<y, x>> \in Nat \X Nat
    OBVIOUS
  <2>2. ~ (y < x)
    BY <1>1, <2>1 DEF Less
  <2> QED BY <2>2
<1> QED BY <1>2

\* Induction, for the set of the numbers that have the property.
LEMMA Induction ==
    ASSUME NEW S, S \subseteq Nat, 0 \in S, \A n \in S : n + 1 \in S
    PROVE  S = Nat
<1> SUFFICES ASSUME S # Nat PROVE FALSE
  OBVIOUS
<1>1. PICK m \in Nat \ S : \A y \in Nat \ S : m <= y
  BY LeastNumber
<1>2. m # 0 /\ m - 1 \in Nat
  BY <1>1
<1>3. m - 1 \in S
  BY <1>1, <1>2
<1> QED BY <1>1, <1>2, <1>3

-----------------------------------------------------------------------------
(* Sums.                                                                   *)

\* f is what the loop of SumTo has added up after each round.
Adds(f, g, n) == f = [i \in 0..n |-> IF i = 0 THEN 0 ELSE f[i - 1] + g[i]]

\* The loop can be run, for any number of rounds.
LEMMA SumExists == ASSUME NEW n \in Nat, NEW g PROVE \E f : Adds(f, g, n)
<1> DEFINE S == {m \in Nat : \E f : Adds(f, g, m)}
<1>1. 0 \in S
  <2>1. Adds([i \in 0..0 |-> 0], g, 0)
    BY DEF Adds
  <2> QED BY <2>1
<1>2. ASSUME NEW m \in S PROVE m + 1 \in S
  <2>1. m \in Nat
    OBVIOUS
  <2>2. PICK f : Adds(f, g, m)
    OBVIOUS
  <2> DEFINE h == [i \in 0..(m + 1) |-> IF i <= m THEN f[i] ELSE f[m] + g[m + 1]]
  <2>3. ASSUME NEW i \in 0..(m + 1) PROVE h[i] = IF i = 0 THEN 0 ELSE h[i - 1] + g[i]
    <3>1. CASE i <= m
      BY <2>2, <3>1 DEF Adds
    <3>2. CASE i = m + 1
      BY <2>2, <3>2 DEF Adds
    <3> QED BY <3>1, <3>2
  <2>4. Adds(h, g, m + 1)
    BY <2>3 DEF Adds
  <2>5. \E k : Adds(k, g, m + 1)
    <3> HIDE DEF h
    <3> QED BY <2>4
  <2> QED BY <2>1, <2>5
<1>3. S = Nat
  <2>1. S \subseteq Nat
    OBVIOUS
  <2> HIDE DEF S
  <2> QED BY <1>1, <1>2, <2>1, Induction
<1> QED BY <1>3

\* Loops that add the same terms have the same sums, as far as both go.
LEMMA SumsAgree ==
    ASSUME NEW n \in Nat, NEW m \in Nat, n <= m, NEW g, NEW k, NEW f, NEW h,
           Adds(f, g, n), Adds(h, k, m),
           \A i \in 1..n : g[i] = k[i]
    PROVE  \A i \in 0..n : f[i] = h[i]
<1> DEFINE S == {i \in Nat : i <= n => f[i] = h[i]}
<1>1. 0 \in S
  BY DEF Adds
<1>2. ASSUME NEW i \in S PROVE i + 1 \in S
  <2> SUFFICES ASSUME i + 1 <= n PROVE f[i + 1] = h[i + 1]
    OBVIOUS
  <2>1. f[i + 1] = f[i] + g[i + 1]
    BY DEF Adds
  <2>2. h[i + 1] = h[i] + k[i + 1]
    BY DEF Adds
  <2> QED BY <2>1, <2>2
<1>3. S = Nat
  <2>1. S \subseteq Nat
    OBVIOUS
  <2> HIDE DEF S
  <2> QED BY <1>1, <1>2, <2>1, Induction
<1> QED BY <1>3

\* SumTo is what the loop has added up in the end.
LEMMA SumIs ==
    ASSUME NEW n \in Nat, NEW g
    PROVE  \E f : Adds(f, g, n) /\ SumTo(g, n) = f[n]
<1> DEFINE f == CHOOSE f : Adds(f, g, n)
<1>1. Adds(f, g, n)
  BY SumExists
<1>2. SumTo(g, n) = f[n]
  BY DEF SumTo, Adds
<1> QED BY <1>1, <1>2

\* A sum is determined by its terms.
LEMMA SumEqual ==
    ASSUME NEW n \in Nat, NEW g, NEW k, \A i \in 1..n : g[i] = k[i]
    PROVE  SumTo(g, n) = SumTo(k, n)
<1>1. PICK f : Adds(f, g, n) /\ SumTo(g, n) = f[n]
  BY SumIs
<1>2. PICK h : Adds(h, k, n) /\ SumTo(k, n) = h[n]
  BY SumIs
<1>3. f[n] = h[n]
  BY <1>1, <1>2, SumsAgree
<1> QED BY <1>1, <1>2, <1>3

\* A sum of no terms is 0, and one more term is added to the sum of the others.
LEMMA SumStep ==
    ASSUME NEW g
    PROVE  /\ SumTo(g, 0) = 0
           /\ \A n \in Nat : SumTo(g, n + 1) = SumTo(g, n) + g[n + 1]
<1>1. SumTo(g, 0) = 0
  <2>1. PICK f : Adds(f, g, 0) /\ SumTo(g, 0) = f[0]
    BY SumIs
  <2> QED BY <2>1 DEF Adds
<1>2. ASSUME NEW n \in Nat PROVE SumTo(g, n + 1) = SumTo(g, n) + g[n + 1]
  <2>1. PICK f : Adds(f, g, n) /\ SumTo(g, n) = f[n]
    BY SumIs
  <2>2. PICK h : Adds(h, g, n + 1) /\ SumTo(g, n + 1) = h[n + 1]
    BY SumIs
  <2>3. f[n] = h[n]
    BY <2>1, <2>2, SumsAgree
  <2>4. h[n + 1] = h[n] + g[n + 1]
    BY <2>2 DEF Adds
  <2> QED BY <2>1, <2>2, <2>3, <2>4
<1> QED BY <1>1, <1>2

\* A sum of numbers is a number.
LEMMA SumType ==
    ASSUME NEW n \in Nat, NEW g
    PROVE  /\ (\A i \in 1..n : g[i] \in Int) => SumTo(g, n) \in Int
           /\ (\A i \in 1..n : g[i] \in Nat) => SumTo(g, n) \in Nat
<1>1. ASSUME NEW R, R = Int \/ R = Nat, \A i \in 1..n : g[i] \in R PROVE SumTo(g, n) \in R
  <2> DEFINE S == {m \in Nat : m <= n => SumTo(g, m) \in R}
  <2>1. 0 \in S
    BY <1>1, SumStep
  <2>2. ASSUME NEW m \in S PROVE m + 1 \in S
    <3> SUFFICES ASSUME m + 1 <= n PROVE SumTo(g, m + 1) \in R
      OBVIOUS
    <3>1. SumTo(g, m) \in R /\ g[m + 1] \in R
      BY <1>1
    <3>2. SumTo(g, m + 1) = SumTo(g, m) + g[m + 1]
      BY SumStep
    <3> QED BY <1>1, <3>1, <3>2
  <2>3. S = Nat
    <3>1. S \subseteq Nat
      OBVIOUS
    <3> HIDE DEF S
    <3> QED BY <2>1, <2>2, <3>1, Induction
  <2> QED BY <2>3
<1> QED BY <1>1
\* A sum of zeros is 0.
LEMMA SumZero ==
    ASSUME NEW n \in Nat, NEW g, \A i \in 1..n : g[i] = 0
    PROVE  SumTo(g, n) = 0
<1> DEFINE S == {m \in Nat : m <= n => SumTo(g, m) = 0}
<1>1. 0 \in S
  BY SumStep
<1>2. ASSUME NEW m \in S PROVE m + 1 \in S
  <2>1. SumTo(g, m + 1) = SumTo(g, m) + g[m + 1]
    BY SumStep
  <2> QED BY <2>1
<1>3. S = Nat
  <2>1. S \subseteq Nat
    OBVIOUS
  <2> HIDE DEF S
  <2> QED BY <1>1, <1>2, <2>1, Induction
<1> QED BY <1>3

-----------------------------------------------------------------------------
(* Powers of two.                                                          *)

\* f is what each round of Pow2 makes.
Doubles(f, n) == f = [i \in 0..n |-> IF i = 0 THEN 1 ELSE 2 * f[i - 1]]

\* The powers exist, for any exponent.
LEMMA PowersExist == ASSUME NEW n \in Nat PROVE \E f : Doubles(f, n)
<1> DEFINE S == {m \in Nat : \E f : Doubles(f, m)}
<1>1. 0 \in S
  <2>1. Doubles([i \in 0..0 |-> 1], 0)
    BY DEF Doubles
  <2> QED BY <2>1
<1>2. ASSUME NEW m \in S PROVE m + 1 \in S
  <2>1. m \in Nat
    OBVIOUS
  <2>2. PICK f : Doubles(f, m)
    OBVIOUS
  <2> DEFINE h == [i \in 0..(m + 1) |-> IF i <= m THEN f[i] ELSE 2 * f[m]]
  <2>3. ASSUME NEW i \in 0..(m + 1) PROVE h[i] = IF i = 0 THEN 1 ELSE 2 * h[i - 1]
    <3>1. CASE i <= m
      BY <2>2, <3>1 DEF Doubles
    <3>2. CASE i = m + 1
      BY <2>2, <3>2 DEF Doubles
    <3> QED BY <3>1, <3>2
  <2>4. Doubles(h, m + 1)
    BY <2>3 DEF Doubles
  <2>5. \E k : Doubles(k, m + 1)
    <3> HIDE DEF h
    <3> QED BY <2>4
  <2> QED BY <2>1, <2>5
<1>3. S = Nat
  <2>1. S \subseteq Nat
    OBVIOUS
  <2> HIDE DEF S
  <2> QED BY <1>1, <1>2, <2>1, Induction
<1> QED BY <1>3

\* A longer loop makes the same powers.
LEMMA PowersAgree ==
    ASSUME NEW n \in Nat, NEW m \in Nat, n <= m, NEW f, NEW h,
           Doubles(f, n), Doubles(h, m)
    PROVE  \A i \in 0..n : f[i] = h[i]
<1> DEFINE S == {i \in Nat : i <= n => f[i] = h[i]}
<1>1. 0 \in S
  BY DEF Doubles
<1>2. ASSUME NEW i \in S PROVE i + 1 \in S
  <2> SUFFICES ASSUME i + 1 <= n PROVE f[i + 1] = h[i + 1]
    OBVIOUS
  <2>1. f[i + 1] = 2 * f[i]
    BY DEF Doubles
  <2>2. h[i + 1] = 2 * h[i]
    BY DEF Doubles
  <2> QED BY <2>1, <2>2
<1>3. S = Nat
  <2>1. S \subseteq Nat
    OBVIOUS
  <2> HIDE DEF S
  <2> QED BY <1>1, <1>2, <2>1, Induction
<1> QED BY <1>3

\* Pow2 is what the loop has made in the end.
LEMMA PowIs ==
    ASSUME NEW n \in Nat
    PROVE  \E f : Doubles(f, n) /\ Pow2(n) = f[n]
<1> DEFINE f == CHOOSE f : Doubles(f, n)
<1>1. Doubles(f, n)
  BY PowersExist
<1>2. Pow2(n) = f[n]
  BY DEF Pow2, Doubles
<1> QED BY <1>1, <1>2

\* The powers double.
LEMMA PowStep == Pow2(0) = 1 /\ \A n \in Nat : Pow2(n + 1) = 2 * Pow2(n)
<1>1. Pow2(0) = 1
  <2>1. PICK f : Doubles(f, 0) /\ Pow2(0) = f[0]
    BY PowIs
  <2> QED BY <2>1 DEF Doubles
<1>2. ASSUME NEW n \in Nat PROVE Pow2(n + 1) = 2 * Pow2(n)
  <2>1. PICK f : Doubles(f, n) /\ Pow2(n) = f[n]
    BY PowIs
  <2>2. PICK h : Doubles(h, n + 1) /\ Pow2(n + 1) = h[n + 1]
    BY PowIs
  <2>3. f[n] = h[n]
    BY <2>1, <2>2, PowersAgree
  <2>4. h[n + 1] = 2 * h[n]
    BY <2>2 DEF Doubles
  <2> QED BY <2>1, <2>2, <2>3, <2>4
<1> QED BY <1>1, <1>2

\* A power is a positive number.
LEMMA PowType == \A n \in Nat : Pow2(n) \in Nat \ {0}
<1> DEFINE S == {n \in Nat : Pow2(n) \in Nat \ {0}}
<1>1. 0 \in S
  BY PowStep
<1>2. ASSUME NEW n \in S PROVE n + 1 \in S
  BY PowStep
<1>3. S = Nat
  <2>1. S \subseteq Nat
    OBVIOUS
  <2> HIDE DEF S
  <2> QED BY <1>1, <1>2, <2>1, Induction
<1> QED BY <1>3

\* A shift by a + b is a shift by a and one by b.
LEMMA PowAdd == \A a, b \in Nat : Pow2(a + b) = Pow2(a) * Pow2(b)
<1> SUFFICES ASSUME NEW a \in Nat PROVE \A b \in Nat : Pow2(a + b) = Pow2(a) * Pow2(b)
  OBVIOUS
<1> DEFINE S == {b \in Nat : Pow2(a + b) = Pow2(a) * Pow2(b)}
<1>1. 0 \in S
  BY PowStep, PowType
<1>2. ASSUME NEW b \in S PROVE b + 1 \in S
  <2>1. Pow2(a) \in Nat /\ Pow2(b) \in Nat
    BY PowType
  <2>2. Pow2(a + (b + 1)) = 2 * Pow2(a + b)
    <3>1. a + b \in Nat /\ a + (b + 1) = (a + b) + 1
      OBVIOUS
    <3> QED BY <3>1, PowStep
  <2>3. Pow2(b + 1) = 2 * Pow2(b)
    BY PowStep
  <2>4. Pow2(a + b) = Pow2(a) * Pow2(b)
    OBVIOUS
  <2>5. 2 * (Pow2(a) * Pow2(b)) = Pow2(a) * (2 * Pow2(b))
    BY <2>1
  <2> QED BY <2>2, <2>3, <2>4, <2>5
<1>3. S = Nat
  <2>1. S \subseteq Nat
    OBVIOUS
  <2> HIDE DEF S
  <2> QED BY <1>1, <1>2, <2>1, Induction
<1> QED BY <1>3

\* The shifts within a byte, and those by whole bytes.
LEMMA SmallPowers ==
    /\ Pow2(0) = 1 /\ Pow2(1) = 2 /\ Pow2(2) = 4 /\ Pow2(3) = 8
    /\ Pow2(4) = 16 /\ Pow2(5) = 32 /\ Pow2(6) = 64 /\ Pow2(7) = 128
    /\ Pow2(8) = 256 /\ Pow2(16) = 65536 /\ Pow2(24) = 16777216
<1>1. Pow2(0) = 1
  BY PowStep
<1>2. Pow2(1) = 2 /\ Pow2(2) = 4
  <2>1. Pow2(0 + 1) = 2 * Pow2(0) /\ Pow2(1 + 1) = 2 * Pow2(1)
    BY PowStep
  <2> QED BY <1>1, <2>1
<1>3. Pow2(3) = 8 /\ Pow2(4) = 16
  <2>1. Pow2(2 + 1) = 2 * Pow2(2) /\ Pow2(3 + 1) = 2 * Pow2(3)
    BY PowStep
  <2> QED BY <1>2, <2>1
<1>4. Pow2(5) = 32 /\ Pow2(6) = 64 /\ Pow2(7) = 128 /\ Pow2(8) = 256
  <2>1. /\ Pow2(4 + 1) = Pow2(4) * Pow2(1) /\ Pow2(4 + 2) = Pow2(4) * Pow2(2)
        /\ Pow2(4 + 3) = Pow2(4) * Pow2(3) /\ Pow2(4 + 4) = Pow2(4) * Pow2(4)
    BY PowAdd
  <2> QED BY <1>2, <1>3, <2>1
<1>5. Pow2(16) = 65536 /\ Pow2(24) = 16777216
  <2>1. Pow2(8 + 8) = Pow2(8) * Pow2(8) /\ Pow2(16 + 8) = Pow2(16) * Pow2(8)
    BY PowAdd
  <2> QED BY <1>4, <2>1
<1> QED BY <1>1, <1>2, <1>3, <1>4, <1>5
-----------------------------------------------------------------------------
(* Quotients and remainders.                                               *)

\* What they are.
LEMMA DivMod ==
    ASSUME NEW x \in Int, NEW d \in Nat \ {0}
    PROVE  /\ x \div d \in Int /\ x % d \in Nat /\ x % d < d
           /\ x = d * (x \div d) + (x % d)
           /\ x \in Nat => x \div d \in Nat
<1>1. /\ x \div d \in Int /\ x % d \in Nat /\ x % d < d
      /\ x = d * (x \div d) + (x % d)
  <2>1. d \in Nat /\ d > 0
    OBVIOUS
  <2>2. x = d * (x \div d) + (x % d)
    BY <2>1, Z3
  <2>3. x \div d \in Int /\ x % d \in Nat /\ x % d < d
    OBVIOUS
  <2> QED BY <2>2, <2>3
<1>2. ASSUME x \in Nat PROVE x \div d \in Nat
  <2> DEFINE q == x \div d
  <2>1. q \in Int /\ x < d * (q + 1)
    BY <1>1
  <2> HIDE DEF q
  <2>2. ~(q + 1 <= 0)
    <3> SUFFICES ASSUME q + 1 <= 0 PROVE FALSE
      OBVIOUS
    <3>1. d * (q + 1) <= d * 0
      BY <2>1
    <3> QED BY <1>2, <2>1, <3>1
  <2> QED BY <2>1, <2>2 DEF q
<1> QED BY <1>1, <1>2

\* They are the only ones.
LEMMA DivModUnique ==
    ASSUME NEW x \in Int, NEW d \in Nat \ {0}, NEW q \in Int, NEW r \in Nat, r < d, x = d * q + r
    PROVE  x \div d = q /\ x % d = r
<1> DEFINE p == x \div d
           s == x % d
<1>1. p \in Int /\ s \in Nat /\ s < d /\ x = d * p + s
  BY DivMod
<1> HIDE DEF p, s
<1>2. ~(p < q)
  <2> SUFFICES ASSUME p + 1 <= q PROVE FALSE
    BY <1>1
  <2>1. d * (p + 1) <= d * q /\ d * (p + 1) = d * p + d
    BY <1>1
  <2> QED BY <1>1, <2>1
<1>3. ~(q < p)
  <2> SUFFICES ASSUME q + 1 <= p PROVE FALSE
    BY <1>1
  <2>1. d * (q + 1) <= d * p /\ d * (q + 1) = d * q + d
    BY <1>1
  <2> QED BY <1>1, <2>1
<1>4. p = q
  BY <1>1, <1>2, <1>3
<1>5. s = r
  BY <1>1, <1>4
<1> QED BY <1>4, <1>5 DEF p, s

\* Two shifts to the right are one.
LEMMA DivDiv ==
    ASSUME NEW x \in Nat, NEW a \in Nat \ {0}, NEW b \in Nat \ {0}
    PROVE  (x \div a) \div b = x \div (a * b)
<1> DEFINE q == x \div a
           r == x % a
           p == q \div b
           s == q % b
<1>1. q \in Nat /\ r \in Nat /\ r < a /\ x = a * q + r
  BY DivMod
<1>2. p \in Nat /\ s \in Nat /\ s < b /\ q = b * p + s
  BY <1>1, DivMod
<1> HIDE DEF q, r, p, s
<1>3. a * b \in Nat \ {0}
  OBVIOUS
<1>4. x = (a * b) * p + (a * s + r)
  <2>1. a * q = a * (b * p) + a * s
    BY <1>1, <1>2
  <2>2. a * (b * p) = (a * b) * p
    BY <1>2
  <2> QED BY <1>1, <1>2, <2>1, <2>2
<1>5. a * s + r \in Nat /\ a * s + r < a * b
  <2>1. a * (s + 1) <= a * b /\ a * (s + 1) = a * s + a
    BY <1>2
  <2>2. a * s \in Nat
    BY <1>2
  <2> QED BY <1>1, <2>1, <2>2
<1>6. x \div (a * b) = p
  BY <1>2, <1>3, <1>4, <1>5, DivModUnique
<1> QED BY <1>6 DEF p, q

\* One bit more of a number.
LEMMA ModDouble ==
    ASSUME NEW x \in Nat, NEW p \in Nat \ {0}
    PROVE  x % (2 * p) = (x % p) + ((x \div p) % 2) * p
<1> DEFINE q == x \div p
           r == x % p
           h == q \div 2
           b == q % 2
<1>1. q \in Nat /\ r \in Nat /\ r < p /\ x = p * q + r
  BY DivMod
<1>2. h \in Nat /\ b \in {0, 1} /\ q = 2 * h + b
  BY <1>1
<1> HIDE DEF q, r, h, b
<1>3. x = (2 * p) * h + (b * p + r)
  <2>1. p * q = (2 * p) * h + p * b
    BY <1>1, <1>2
  <2> QED BY <1>1, <1>2, <2>1
<1>4. b * p + r \in Nat /\ b * p + r < 2 * p
  BY <1>1, <1>2
<1>5. x % (2 * p) = b * p + r
  <2> DEFINE d == 2 * p
             e == b * p + r
  <2>1. d \in Nat \ {0} /\ h \in Int /\ e \in Nat /\ e < d /\ x = d * h + e
    BY <1>2, <1>3, <1>4
  <2> HIDE DEF d, e
  <2>2. x % d = e
    BY <2>1, DivModUnique
  <2> QED BY <2>2 DEF d, e
<1>6. b * p \in Nat
  BY <1>2
<1> QED BY <1>1, <1>5, <1>6 DEF b, q, r
-----------------------------------------------------------------------------
(* Unsigned and signed numbers.                                            *)

\* The elements of a sequence of bytes.
LEMMA ByteAt ==
    ASSUME NEW bytes \in Seq(Byte), NEW i \in 1..Len(bytes)
    PROVE  /\ bytes[i] \in Nat /\ bytes[i] <= 255
           /\ SignedByte(bytes[i]) \in Int
           /\ -128 <= SignedByte(bytes[i]) /\ SignedByte(bytes[i]) <= 127
           /\ bytes[i] < 128 => SignedByte(bytes[i]) = bytes[i]
           /\ ~(bytes[i] < 128) => SignedByte(bytes[i]) = bytes[i] - 256
<1> DEFINE Facts(b) == /\ b \in Nat /\ b <= 255
                       /\ SignedByte(b) \in Int
                       /\ -128 <= SignedByte(b) /\ SignedByte(b) <= 127
                       /\ b < 128 => SignedByte(b) = b
                       /\ ~(b < 128) => SignedByte(b) = b - 256
<1>1. \A b \in Byte : Facts(b)
  BY DEF Byte, SignedByte
<1>2. bytes[i] \in Byte
  OBVIOUS
<1>3. Facts(bytes[i])
  <2> HIDE DEF Facts
  <2> QED BY <1>1, <1>2, Zenon
<1> QED BY <1>3, Zenon

Terms(bytes) == [i \in 1..Len(bytes) |-> bytes[i] * Pow2(8 * (i - 1))]

\* The first n + 1 bytes are the first n and one shifted by 8 n.
LEMMA UnsignedStep ==
    ASSUME NEW bytes \in Seq(Byte), NEW n \in Nat, n < Len(bytes)
    PROVE  SumTo(Terms(bytes), n + 1) = SumTo(Terms(bytes), n) + bytes[n + 1] * Pow2(8 * n)
<1>1. SumTo(Terms(bytes), n + 1) = SumTo(Terms(bytes), n) + Terms(bytes)[n + 1]
  BY SumStep
<1>2. Terms(bytes)[n + 1] = bytes[n + 1] * Pow2(8 * n)
  <2>1. n + 1 \in 1..Len(bytes) /\ (n + 1) - 1 = n
    OBVIOUS
  <2> QED BY <2>1 DEF Terms
<1> QED BY <1>1, <1>2

\* The first n bytes are a number of 8 n bits.
LEMMA UnsignedBound ==
    ASSUME NEW bytes \in Seq(Byte)
    PROVE  \A n \in 0..Len(bytes) :
               SumTo(Terms(bytes), n) \in Nat /\ SumTo(Terms(bytes), n) < Pow2(8 * n)
<1> DEFINE S == {n \in Nat : n <= Len(bytes) =>
                     /\ SumTo(Terms(bytes), n) \in Nat
                     /\ SumTo(Terms(bytes), n) < Pow2(8 * n)}
<1>1. 0 \in S
  <2>1. SumTo(Terms(bytes), 0) = 0 /\ Pow2(8 * 0) = 1
    BY SumStep, PowStep
  <2> QED BY <2>1
<1>2. ASSUME NEW n \in S PROVE n + 1 \in S
  <2> SUFFICES ASSUME n + 1 <= Len(bytes)
               PROVE  /\ SumTo(Terms(bytes), n + 1) \in Nat
                      /\ SumTo(Terms(bytes), n + 1) < Pow2(8 * (n + 1))
    OBVIOUS
  <2> DEFINE p == Pow2(8 * n)
             s == SumTo(Terms(bytes), n)
             b == bytes[n + 1]
  <2>1. SumTo(Terms(bytes), n + 1) = s + b * p
    BY UnsignedStep
  <2>2. p \in Nat \ {0} /\ s \in Nat /\ s < p /\ b \in Nat /\ b <= 255
    <3>1. n + 1 \in 1..Len(bytes) /\ 8 * n \in Nat
      OBVIOUS
    <3>2. b \in Nat /\ b <= 255
      BY <3>1, ByteAt, Zenon
    <3>3. p \in Nat \ {0}
      BY <3>1, PowType
    <3> QED BY <3>2, <3>3
  <2>3. Pow2(8 * (n + 1)) = p * 256
    <3>1. 8 * (n + 1) = 8 * n + 8 /\ 8 * n \in Nat
      OBVIOUS
    <3> QED BY <3>1, PowAdd, SmallPowers
  <2> HIDE DEF p, s, b
  <2>4. b * p \in Nat /\ b * p <= 255 * p
    BY <2>2
  <2> QED BY <2>1, <2>2, <2>3, <2>4
<1>3. S = Nat
  <2>1. S \subseteq Nat
    OBVIOUS
  <2> HIDE DEF S
  <2> QED BY <1>1, <1>2, <2>1, Induction
<1> QED BY <1>3

\* toUnSignedInteger: a number of as many bits as the bytes have.
LEMMA UnsignedType ==
    ASSUME NEW bytes \in Seq(Byte)
    PROVE  ToUnsigned(bytes) \in Nat /\ ToUnsigned(bytes) < Pow2(8 * Len(bytes))
BY UnsignedBound DEF ToUnsigned, Terms

\* toUnSignedInteger of 1, 2 and 4 bytes.
LEMMA UnsignedValues ==
    ASSUME NEW bytes \in Seq(Byte)
    PROVE  /\ Len(bytes) = 1 => ToUnsigned(bytes) = bytes[1]
           /\ Len(bytes) = 2 => ToUnsigned(bytes) = bytes[1] + 256 * bytes[2]
           /\ Len(bytes) = 4 => ToUnsigned(bytes) = bytes[1] + 256 * bytes[2]
                                                    + 65536 * bytes[3] + 16777216 * bytes[4]
<1> DEFINE s(n) == SumTo(Terms(bytes), n)
<1>1. s(0) = 0
  BY SumStep
<1>2. \A n \in Nat : n < Len(bytes) => s(n + 1) = s(n) + bytes[n + 1] * Pow2(8 * n)
  BY UnsignedStep
<1>3. ToUnsigned(bytes) = s(Len(bytes))
  BY DEF ToUnsigned, Terms
<1>4. \A i \in 1..Len(bytes) : bytes[i] \in Nat
  BY ByteAt, Zenon
<1> HIDE DEF s
<1>5. Len(bytes) >= 1 => s(1) = bytes[1]
  <2>1. Len(bytes) >= 1 => s(0 + 1) = s(0) + bytes[0 + 1] * Pow2(8 * 0)
    BY <1>2
  <2>2. Len(bytes) >= 1 => bytes[1] \in Int
    BY <1>4
  <2> QED BY <2>1, <2>2, <1>1, SmallPowers
<1>6. Len(bytes) >= 2 => s(2) = bytes[1] + 256 * bytes[2]
  <2>1. Len(bytes) >= 2 => s(1 + 1) = s(1) + bytes[1 + 1] * Pow2(8 * 1)
    BY <1>2
  <2>2. Len(bytes) >= 2 => bytes[1] \in Int /\ bytes[2] \in Int
    BY <1>4
  <2> QED BY <2>1, <2>2, <1>5, SmallPowers
<1>7. Len(bytes) >= 4 => s(4) = bytes[1] + 256 * bytes[2] + 65536 * bytes[3] + 16777216 * bytes[4]
  <2>1. Len(bytes) >= 4 => s(2 + 1) = s(2) + bytes[2 + 1] * Pow2(8 * 2)
    BY <1>2
  <2>2. Len(bytes) >= 4 => s(3 + 1) = s(3) + bytes[3 + 1] * Pow2(8 * 3)
    BY <1>2
  <2>3. Len(bytes) >= 4 => /\ bytes[1] \in Int /\ bytes[2] \in Int
                           /\ bytes[3] \in Int /\ bytes[4] \in Int
    BY <1>4
  <2>4. Pow2(8 * 2) = 65536 /\ Pow2(8 * 3) = 16777216
    BY SmallPowers
  <2>5. Len(bytes) >= 4 => s(3) = s(2) + bytes[3] * 65536
    BY <2>1, <2>4, SMT
  <2>6. Len(bytes) >= 4 => s(4) = s(3) + bytes[4] * 16777216
    BY <2>2, <2>4, SMT
  <2> QED BY <2>3, <2>5, <2>6, <1>6, SMT
<1>8. CASE Len(bytes) = 1
  BY <1>3, <1>5, <1>8
<1>9. CASE Len(bytes) = 2
  BY <1>3, <1>6, <1>9
<1>10. CASE Len(bytes) = 4
  BY <1>3, <1>7, <1>10
<1> QED BY <1>8, <1>9, <1>10, SMT

TopTerms(bytes) ==
    [i \in 1..Len(bytes) |->
        (IF i = Len(bytes) THEN SignedByte(bytes[i]) ELSE bytes[i])
        * Pow2(8 * (4 - Len(bytes) + i - 1))]

\* The bytes at the top of an int32_t, for 1, 2 and 4 bytes.
LEMMA TopValues ==
    ASSUME NEW bytes \in Seq(Byte)
    PROVE  /\ Len(bytes) = 1 => TopAligned(bytes) = 16777216 * SignedByte(bytes[1])
           /\ Len(bytes) = 2 =>
                  TopAligned(bytes) = 65536 * bytes[1] + 16777216 * SignedByte(bytes[2])
           /\ Len(bytes) = 4 =>
                  TopAligned(bytes) = bytes[1] + 256 * bytes[2] + 65536 * bytes[3]
                                      + 16777216 * SignedByte(bytes[4])
<1> DEFINE s(n) == SumTo(TopTerms(bytes), n)
           t(i) == IF i = Len(bytes) THEN SignedByte(bytes[i]) ELSE bytes[i]
<1>1. s(0) = 0
  BY SumStep
<1>2. \A n \in Nat : n < Len(bytes) => s(n + 1) = s(n) + t(n + 1) * Pow2(8 * (4 - Len(bytes) + n))
  <2> SUFFICES ASSUME NEW n \in Nat, n < Len(bytes)
               PROVE  s(n + 1) = s(n) + t(n + 1) * Pow2(8 * (4 - Len(bytes) + n))
    OBVIOUS
  <2>1. n + 1 \in 1..Len(bytes) /\ 4 - Len(bytes) + (n + 1) - 1 = 4 - Len(bytes) + n
    OBVIOUS
  <2>2. TopTerms(bytes)[n + 1] = t(n + 1) * Pow2(8 * (4 - Len(bytes) + n))
    BY <2>1 DEF TopTerms
  <2> QED BY <2>2, SumStep
<1>3. TopAligned(bytes) = s(Len(bytes))
  BY DEF TopAligned, TopTerms
<1>4. \A i \in 1..Len(bytes) : bytes[i] \in Nat /\ SignedByte(bytes[i]) \in Int
  BY ByteAt, Zenon
<1> HIDE DEF s
<1>5. CASE Len(bytes) = 1
  <2>1. s(0 + 1) = s(0) + t(0 + 1) * Pow2(8 * (4 - 1 + 0))
    BY <1>2, <1>5
  <2> QED BY <1>1, <1>3, <1>4, <1>5, <2>1, SmallPowers
<1>6. CASE Len(bytes) = 2
  <2>1. s(0 + 1) = s(0) + t(0 + 1) * Pow2(8 * (4 - 2 + 0))
    BY <1>2, <1>6
  <2>2. s(1 + 1) = s(1) + t(1 + 1) * Pow2(8 * (4 - 2 + 1))
    BY <1>2, <1>6
  <2> QED BY <1>1, <1>3, <1>4, <1>6, <2>1, <2>2, SmallPowers
<1>7. CASE Len(bytes) = 4
  <2>1. s(0 + 1) = s(0) + t(0 + 1) * Pow2(8 * (4 - 4 + 0))
    BY <1>2, <1>7
  <2>2. s(1 + 1) = s(1) + t(1 + 1) * Pow2(8 * (4 - 4 + 1))
    BY <1>2, <1>7
  <2>3. s(2 + 1) = s(2) + t(2 + 1) * Pow2(8 * (4 - 4 + 2))
    BY <1>2, <1>7
  <2>4. s(3 + 1) = s(3) + t(3 + 1) * Pow2(8 * (4 - 4 + 3))
    BY <1>2, <1>7
  <2>5. /\ bytes[1] \in Int /\ bytes[2] \in Int /\ bytes[3] \in Int
        /\ SignedByte(bytes[4]) \in Int
    BY <1>4, <1>7
  <2>6. /\ s(1) = bytes[1] /\ s(2) = s(1) + bytes[2] * 256
        /\ s(3) = s(2) + bytes[3] * 65536
        /\ s(4) = s(3) + SignedByte(bytes[4]) * 16777216
    BY <1>1, <1>7, <2>1, <2>2, <2>3, <2>4, <2>5, SmallPowers
  <2>7. s(4) = bytes[1] + 256 * bytes[2] + 65536 * bytes[3] + 16777216 * SignedByte(bytes[4])
    BY <2>5, <2>6
  <2> QED BY <1>3, <1>7, <2>7
<1> QED BY <1>5, <1>6, <1>7
\* Of (d + 1) x, Quotient by d is x, as long as x is less than d either way: the
\* remainder is small enough for the division towards zero to lose it.
LEMMA QuotientExact ==
    ASSUME NEW d \in Nat \ {0}, NEW x \in Int, -d < x, x < d
    PROVE  Quotient((d + 1) * x, d) = x
<1> DEFINE a == (d + 1) * x
<1>1. a \in Int /\ a = d * x + x
  OBVIOUS
<1>2. CASE x >= 0
  <2>1. a \div d = x /\ ~(a < 0)
    <3> HIDE DEF a
    <3>1. a \div d = x
      BY <1>1, <1>2, DivModUnique
    <3>2. d * x >= 0
      BY <1>2
    <3> QED BY <1>1, <1>2, <3>1, <3>2
  <2> HIDE DEF a
  <2>2. Quotient(a, d) = x
    BY <2>1 DEF Quotient
  <2> QED BY <2>2 DEF a
<1>3. CASE x < 0
  <2>1. a \div d = x - 1 /\ a % d = d + x /\ a < 0
    <3> HIDE DEF a
    <3>1. a = d * (x - 1) + (d + x) /\ d + x \in Nat /\ d + x < d /\ x - 1 \in Int
      BY <1>1, <1>3
    <3>2. a \div d = x - 1 /\ a % d = d + x
      BY <1>1, <3>1, DivModUnique
    <3>3. d * x <= 0
      BY <1>3
    <3> QED BY <1>1, <1>3, <3>2, <3>3
  <2> HIDE DEF a
  <2>2. Quotient(a, d) = x
    BY <1>3, <2>1 DEF Quotient
  <2> QED BY <2>2 DEF a
<1> QED BY <1>2, <1>3

\* toSignedInteger reads 1, 2 or 4 bytes as a number in two's complement: the
\* division by one less than the power of two loses nothing, nor adds.
THEOREM SignedIsTwosComplement ==
    ASSUME NEW bytes \in Seq(Byte), Len(bytes) \in {1, 2, 4}
    PROVE  ToSigned(bytes) = TwosComplement(bytes)
<1>1. CASE Len(bytes) = 1
  <2> DEFINE b == bytes[1]
             c == SignedByte(b)
             d == 16777215
  <2>1. 1 \in 1..Len(bytes)
    BY <1>1
  <2>2. /\ b \in Nat /\ c \in Int /\ -128 <= c /\ c <= 127
        /\ c = IF b < 128 THEN b ELSE b - 256
    BY <2>1, ByteAt
  <2>3. TopAligned(bytes) = 16777216 * c /\ ToUnsigned(bytes) = b
    BY <1>1, TopValues, UnsignedValues, SMT
  <2>4. ToSigned(bytes) = Quotient(16777216 * c, 16777215)
    BY <1>1, <2>3, SmallPowers, SMT DEF ToSigned
  <2>5. TwosComplement(bytes) = IF b < 128 THEN b ELSE b - 256
    BY <1>1, <2>3, SmallPowers, SMT DEF TwosComplement, LittleEndian
  <2> HIDE DEF b, c
  <2>6. d \in Nat \ {0} /\ -d < c /\ c < d /\ 16777216 * c = (d + 1) * c
    BY <2>2, SMT
  <2>7. ToSigned(bytes) = Quotient((d + 1) * c, d)
    BY <2>4, <2>6, SMT
  <2> HIDE DEF d
  <2>8. Quotient((d + 1) * c, d) = c
    BY <2>2, <2>6, QuotientExact, SMT
  <2> QED BY <2>2, <2>5, <2>7, <2>8
<1>2. CASE Len(bytes) = 2
  <2> DEFINE a == bytes[1]
             b == bytes[2]
             c == SignedByte(b)
             d == 65535
             e == a + 256 * c
  <2>1. 1 \in 1..Len(bytes) /\ 2 \in 1..Len(bytes)
    BY <1>2
  <2>2. /\ b \in Nat /\ c \in Int /\ -128 <= c /\ c <= 127
        /\ c = IF b < 128 THEN b ELSE b - 256
    BY <2>1, ByteAt
  <2>3. a \in Nat /\ a <= 255
    BY <2>1, ByteAt, Zenon
  <2>4. TopAligned(bytes) = 65536 * a + 16777216 * c /\ ToUnsigned(bytes) = a + 256 * b
    BY <1>2, TopValues, UnsignedValues, SMT
  <2>5. ToSigned(bytes) = Quotient(65536 * a + 16777216 * c, 65535)
    BY <1>2, <2>4, SmallPowers, SMT DEF ToSigned
  <2>6. TwosComplement(bytes) = IF b < 128 THEN a + 256 * b ELSE (a + 256 * b) - 65536
    <3>1. Pow2(8 * Len(bytes)) = 65536
      BY <1>2, SmallPowers, SMT
    <3> QED BY <1>2, <2>4, <3>1, SMT DEF TwosComplement, LittleEndian
  <2> HIDE DEF a, b, c
  <2>7. /\ d \in Nat \ {0} /\ e \in Int /\ -d < e /\ e < d
        /\ 65536 * a + 16777216 * c = (d + 1) * e
    BY <2>2, <2>3, SMT
  <2>8. ToSigned(bytes) = Quotient((d + 1) * e, d)
    BY <2>5, <2>7, SMT
  <2>9. e = IF b < 128 THEN a + 256 * b ELSE (a + 256 * b) - 65536
    BY <2>2, <2>3, SMT
  <2> HIDE DEF d, e
  <2>10. Quotient((d + 1) * e, d) = e
    BY <2>7, QuotientExact, SMT
  <2> QED BY <2>6, <2>8, <2>9, <2>10, SMT
<1>3. CASE Len(bytes) = 4
  <2> DEFINE rest == bytes[1] + 256 * bytes[2] + 65536 * bytes[3]
             b == bytes[4]
             c == SignedByte(b)
  <2>1. 1 \in 1..Len(bytes) /\ 2 \in 1..Len(bytes) /\ 3 \in 1..Len(bytes) /\ 4 \in 1..Len(bytes)
    BY <1>3
  <2>2. b \in Nat /\ c \in Int /\ c = IF b < 128 THEN b ELSE b - 256
    BY <2>1, ByteAt
  <2>3. rest \in Int
    <3>1. bytes[1] \in Nat /\ bytes[2] \in Nat /\ bytes[3] \in Nat
      BY <2>1, ByteAt, Zenon
    <3> QED BY <3>1, SMT
  <2>4. TopAligned(bytes) = rest + 16777216 * c /\ ToUnsigned(bytes) = rest + 16777216 * b
    BY <1>3, TopValues, UnsignedValues, SMT
  <2>5. ToSigned(bytes) = rest + 16777216 * c
    BY <1>3, <2>4, SMT DEF ToSigned
  <2>6. Pow2(8 * Len(bytes)) = 4294967296
    <3>1. Pow2(16 + 16) = Pow2(16) * Pow2(16)
      BY PowAdd
    <3> QED BY <1>3, <3>1, SmallPowers, SMT
  <2>7. TwosComplement(bytes) = IF b < 128 THEN rest + 16777216 * b
                                ELSE (rest + 16777216 * b) - 4294967296
    BY <1>3, <2>4, <2>6, SMT DEF TwosComplement, LittleEndian
  <2> HIDE DEF rest, b, c
  <2> QED BY <2>2, <2>3, <2>5, <2>7, SMT
<1> QED BY <1>1, <1>2, <1>3

-----------------------------------------------------------------------------
(* The bits of a report.                                                   *)

\* The bytes after the first n are a number of their own, shifted by 8 n.
LEMMA BytesAfter ==
    ASSUME NEW bytes \in Seq(Byte), NEW n \in Nat
    PROVE  \A m \in Nat : m >= n /\ m <= Len(bytes) =>
               \E h \in Nat : SumTo(Terms(bytes), m) = SumTo(Terms(bytes), n) + h * Pow2(8 * n)
<1> DEFINE s(m) == SumTo(Terms(bytes), m)
           p == Pow2(8 * n)
           S == {m \in Nat : m >= n /\ m <= Len(bytes) => \E h \in Nat : s(m) = s(n) + h * p}
<1>1. p \in Nat \ {0}
  BY PowType
<1>2. ASSUME n <= Len(bytes) PROVE \E h \in Nat : s(n) = s(n) + h * p
  <2>1. s(n) \in Nat
    BY <1>2, UnsignedBound
  <2>2. s(n) = s(n) + 0 * p
    BY <1>1, <2>1
  <2> HIDE DEF s, p
  <2> QED BY <2>2
<1>3. 0 \in S
  <2> SUFFICES ASSUME 0 >= n, 0 <= Len(bytes) PROVE \E h \in Nat : s(0) = s(n) + h * p
    OBVIOUS
  <2>1. n = 0
    OBVIOUS
  <2> HIDE DEF s, p
  <2> QED BY <1>2, <2>1
<1>4. ASSUME NEW m \in S PROVE m + 1 \in S
  <2> SUFFICES ASSUME m + 1 >= n, m + 1 <= Len(bytes)
               PROVE  \E h \in Nat : s(m + 1) = s(n) + h * p
    OBVIOUS
  <2>1. CASE m + 1 = n
    <3> HIDE DEF s, p
    <3> QED BY <1>2, <2>1
  <2>2. CASE m >= n
    <3>1. PICK h \in Nat : s(m) = s(n) + h * p
      BY <2>2
    <3>2. s(m + 1) = s(m) + bytes[m + 1] * Pow2(8 * m)
      BY UnsignedStep
    <3>3. Pow2(8 * m) = p * Pow2(8 * (m - n))
      <4>1. 8 * m = 8 * n + 8 * (m - n) /\ 8 * n \in Nat /\ 8 * (m - n) \in Nat
        BY <2>2
      <4> QED BY <4>1, PowAdd
    <3> DEFINE b == bytes[m + 1]
               d == Pow2(8 * (m - n))
    <3>4. b \in Nat
      <4>1. m + 1 \in 1..Len(bytes)
        OBVIOUS
      <4> QED BY <4>1, ByteAt, Zenon
    <3>5. d \in Nat
      <4>1. 8 * (m - n) \in Nat
        BY <2>2
      <4> QED BY <4>1, PowType
    <3>6. s(n) \in Nat
      BY UnsignedBound
    <3>7. s(m + 1) = s(m) + b * (p * d)
      BY <3>2, <3>3
    <3> HIDE DEF s, p, b, d
    <3>8. b * (p * d) = (b * d) * p /\ b * d \in Nat
      BY <1>1, <3>4, <3>5
    <3>9. s(m + 1) = s(n) + (h + b * d) * p /\ h + b * d \in Nat
      <4> DEFINE c == b * d
      <4>1. c \in Nat /\ s(m + 1) = s(n) + h * p + c * p
        BY <3>1, <3>7, <3>8
      <4> HIDE DEF c
      <4>2. (h + c) * p = h * p + c * p /\ h + c \in Nat
        BY <1>1, <4>1
      <4>3. h * p \in Nat /\ c * p \in Nat
        BY <1>1, <4>1
      <4>4. s(m + 1) = s(n) + (h + c) * p
        BY <3>6, <4>1, <4>2, <4>3
      <4> QED BY <4>2, <4>4 DEF c
    <3> QED BY <3>9
  <2> QED BY <2>1, <2>2
<1>5. S = Nat
  <2>1. S \subseteq Nat
    OBVIOUS
  <2> HIDE DEF S
  <2> QED BY <1>3, <1>4, <2>1, Induction
<1> QED BY <1>5

\* Shifted right by 8 k, the number begins with byte k + 1.
LEMMA ShiftedByBytes ==
    ASSUME NEW bytes \in Seq(Byte), NEW k \in Nat, k < Len(bytes)
    PROVE  \E h \in Nat : ToUnsigned(bytes) \div Pow2(8 * k) = bytes[k + 1] + 256 * h
<1> DEFINE s(n) == SumTo(Terms(bytes), n)
           p == Pow2(8 * k)
           b == bytes[k + 1]
<1>1. PICK h \in Nat : s(Len(bytes)) = s(k + 1) + h * Pow2(8 * (k + 1))
  BY BytesAfter
<1>2. s(k + 1) = s(k) + b * p
  BY UnsignedStep
<1>3. Pow2(8 * (k + 1)) = p * 256
  <2>1. 8 * (k + 1) = 8 * k + 8 /\ 8 * k \in Nat
    OBVIOUS
  <2> QED BY <2>1, PowAdd, SmallPowers
<1>4. s(k) \in Nat /\ s(k) < p /\ p \in Nat \ {0}
  BY UnsignedBound, PowType
<1>5. b \in Nat
  <2>1. k + 1 \in 1..Len(bytes)
    OBVIOUS
  <2> QED BY <2>1, ByteAt, Zenon
<1>6. ToUnsigned(bytes) = s(Len(bytes)) /\ ToUnsigned(bytes) \in Nat
  BY UnsignedType DEF ToUnsigned, Terms
<1>7. s(Len(bytes)) = s(k) + b * p + h * (p * 256)
  BY <1>1, <1>2, <1>3
<1> HIDE DEF s, p, b
<1>8. s(Len(bytes)) = p * (b + 256 * h) + s(k)
  <2>1. h * (p * 256) = p * (256 * h)
    BY <1>4
  <2>2. p * (b + 256 * h) = p * b + p * (256 * h)
    BY <1>4, <1>5
  <2> QED BY <1>4, <1>5, <1>7, <2>1, <2>2
<1>9. ToUnsigned(bytes) \div p = b + 256 * h
  <2> DEFINE q == b + 256 * h
  <2>1. q \in Int /\ ToUnsigned(bytes) = p * q + s(k)
    BY <1>5, <1>6, <1>8
  <2> HIDE DEF q
  <2>2. ToUnsigned(bytes) \div p = q
    BY <1>4, <1>6, <2>1, DivModUnique
  <2> QED BY <2>2 DEF q
<1> QED BY <1>9 DEF p, b

\* Bit m of a byte is bit m of a number that begins with the byte.
LEMMA BitOfByte ==
    ASSUME NEW b \in Nat, NEW h \in Nat, NEW m \in 0..7
    PROVE  ((b + 256 * h) \div Pow2(m)) % 2 = (b \div Pow2(m)) % 2
<1>1. CASE m = 0
  BY <1>1, SmallPowers
<1>2. CASE m = 1
  BY <1>2, SmallPowers
<1>3. CASE m = 2
  BY <1>3, SmallPowers
<1>4. CASE m = 3
  BY <1>4, SmallPowers
<1>5. CASE m = 4
  BY <1>5, SmallPowers
<1>6. CASE m = 5
  BY <1>6, SmallPowers
<1>7. CASE m = 6
  BY <1>7, SmallPowers
<1>8. CASE m = 7
  BY <1>8, SmallPowers
<1> QED BY <1>1, <1>2, <1>3, <1>4, <1>5, <1>6, <1>7, <1>8

\* The bit setValue reads at a place is the bit of the report, as a number.
LEMMA BitIs ==
    ASSUME NEW bytes \in Seq(Byte), NEW at \in Nat, at < 8 * Len(bytes)
    PROVE  Bit(bytes, at) = (ToUnsigned(bytes) \div Pow2(at)) % 2
<1> DEFINE k == at \div 8
           m == at % 8
           x == ToUnsigned(bytes)
<1>1. k \in Nat /\ m \in 0..7 /\ at = 8 * k + m /\ k < Len(bytes)
  OBVIOUS
<1> HIDE DEF k, m
<1>2. PICK h \in Nat : x \div Pow2(8 * k) = bytes[k + 1] + 256 * h
  BY <1>1, ShiftedByBytes
<1>3. x \in Nat /\ Pow2(8 * k) \in Nat \ {0} /\ Pow2(m) \in Nat \ {0}
  <2>1. 8 * k \in Nat /\ m \in Nat
    BY <1>1
  <2> QED BY <2>1, UnsignedType, PowType, Zenon
<1>4. Pow2(at) = Pow2(8 * k) * Pow2(m)
  <2>1. 8 * k \in Nat /\ m \in Nat
    BY <1>1
  <2> QED BY <1>1, <2>1, PowAdd
<1>5. (x \div Pow2(8 * k)) \div Pow2(m) = x \div Pow2(at)
  BY <1>3, <1>4, DivDiv
<1>6. bytes[k + 1] \in Nat
  <2>1. k + 1 \in 1..Len(bytes)
    BY <1>1
  <2> QED BY <2>1, ByteAt, Zenon
<1>7. ((bytes[k + 1] + 256 * h) \div Pow2(m)) % 2 = (bytes[k + 1] \div Pow2(m)) % 2
  BY <1>1, <1>6, BitOfByte
<1>8. Bit(bytes, at) = (bytes[k + 1] \div Pow2(m)) % 2
  BY DEF Bit, k, m
<1> QED BY <1>2, <1>5, <1>7, <1>8

\* setValue's loop reads the bits a layout names as the number they are in the
\* report: the report shifted by their place, of which their count is kept.
THEOREM RawValueIsTheBits ==
    ASSUME NEW bytes \in Seq(Byte), NEW place \in Nat, NEW width \in Nat,
           place + width <= 8 * Len(bytes)
    PROVE  RawValue(bytes, place, width) = (LittleEndian(bytes) \div Pow2(place)) % Pow2(width)
<1> DEFINE terms == [i \in 1..width |-> Bit(bytes, place + i - 1) * Pow2(i - 1)]
           x == ToUnsigned(bytes) \div Pow2(place)
           S == {w \in Nat : w <= width => SumTo(terms, w) = x % Pow2(w)}
<1>1. x \in Nat
  <2>1. ToUnsigned(bytes) \in Nat /\ Pow2(place) \in Nat \ {0}
    BY UnsignedType, PowType
  <2> QED BY <2>1, DivMod
<1>2. 0 \in S
  <2>1. SumTo(terms, 0) = 0 /\ Pow2(0) = 1
    BY SumStep, PowStep
  <2> HIDE DEF terms, x
  <2>2. x % 1 = 0
    BY <1>1
  <2> QED BY <2>1, <2>2
<1>3. ASSUME NEW w \in S PROVE w + 1 \in S
  <2> SUFFICES ASSUME w + 1 <= width PROVE SumTo(terms, w + 1) = x % Pow2(w + 1)
    OBVIOUS
  <2> DEFINE p == Pow2(w)
             b == Bit(bytes, place + w)
  <2>1. SumTo(terms, w + 1) = SumTo(terms, w) + terms[w + 1]
    BY SumStep
  <2>2. terms[w + 1] = b * p
    <3>1. w + 1 \in 1..width /\ place + (w + 1) - 1 = place + w /\ (w + 1) - 1 = w
      OBVIOUS
    <3> QED BY <3>1
  <2>3. SumTo(terms, w) = x % p
    OBVIOUS
  <2>4. b = (ToUnsigned(bytes) \div Pow2(place + w)) % 2
    BY BitIs
  <2>5. x \div p = ToUnsigned(bytes) \div Pow2(place + w)
    <3>1. Pow2(place + w) = Pow2(place) * Pow2(w)
      BY PowAdd
    <3>2. ToUnsigned(bytes) \in Nat /\ Pow2(place) \in Nat \ {0} /\ Pow2(w) \in Nat \ {0}
      BY UnsignedType, PowType
    <3>3. x \div p = ToUnsigned(bytes) \div (Pow2(place) * Pow2(w))
      BY <3>2, DivDiv, Zenon
    <3> QED BY <3>1, <3>3, Zenon
  <2>6. Pow2(w + 1) = 2 * p /\ p \in Nat \ {0}
    BY PowStep, PowType
  <2> HIDE DEF terms, x, b, p
  <2>7. x % (2 * p) = (x % p) + ((x \div p) % 2) * p
    BY <1>1, <2>6, ModDouble
  <2> QED BY <2>1, <2>2, <2>3, <2>4, <2>5, <2>6, <2>7
<1>4. S = Nat
  <2>1. S \subseteq Nat
    OBVIOUS
  <2> HIDE DEF S
  <2> QED BY <1>2, <1>3, <2>1, Induction
<1>5. SumTo(terms, width) = x % Pow2(width)
  BY <1>4
<1> QED BY <1>5 DEF RawValue, LittleEndian

-----------------------------------------------------------------------------
(* The invariant.                                                          *)

\* The place of the next item.
Here == Len(read) + 1

\* Every field before i in its report is a single bit.
FlagsOnly(i) == \A j \in Preceding(i) : HasLayout(j) /\ SizeAt(j) = 1

\* What layout l has of the field at i.
LayoutOf(l, i) ==
    /\ Setting("ReportID", i) # {} => l.reportId = GlobalAt("ReportID", i)[1]
    /\ Setting("ReportSize", i) # {} =>
           l.width = LittleEndian(GlobalAt("ReportSize", i)) % 256
    /\ Setting("LogicalMin", i) # {} =>
           l.logicalMin.value = TwosComplement(GlobalAt("LogicalMin", i))
    /\ Setting("ReportID", i) # {} /\ FlagsOnly(i) => l.place = BitsBefore(i) % 256

\* The items of a descriptor are short ones.
ShortItems == \A i \in 1..Len(read) : Len(read[i].bytes) \in {1, 2, 4}

\* A global is set by the last item that does.
GlobalsInv ==
    \A t \in GlobalTag :
        /\ globals[t].set <=> Setting(t, Here) # {}
        /\ Setting(t, Here) # {} => globals[t].value = GlobalValue(read[LastOf(Setting(t, Here))])

\* The usage is set by the last Usage item since the last Main item.
UsageInv ==
    /\ usage.set <=> Reaching(Here) # {}
    /\ Reaching(Here) # {} => usage.value = ToUnsigned(UsageAt(Here))

\* After single bits, the next field begins at their sum.
BitInv == Setting("ReportID", Here) # {} /\ FlagsOnly(Here) => actualBit = BitsBefore(Here)

\* A datum has the layout of its first field.
FieldsInv ==
    NarrowUsages => \A d \in Data :
        /\ data[d].used <=> FieldsOf(d) # {}
        /\ data[d].used => \A i \in {FieldOf(d)}, l \in {data[d]} : LayoutOf(l, i)

ParserInv == TypeOK /\ ShortItems /\ GlobalsInv /\ UsageInv /\ BitInv /\ FieldsInv
-----------------------------------------------------------------------------
(* The first and the last of a set of places.                              *)

\* A set of places that is not empty has a first one.
LEMMA FirstFacts ==
    ASSUME NEW S, S \subseteq Nat, S # {}
    PROVE  FirstOf(S) \in S /\ \A j \in S : FirstOf(S) <= j
<1>1. \E i \in S : \A j \in S : i <= j
  BY LeastNumber
<1> QED BY <1>1 DEF FirstOf

\* A later place does not become the first.
LEMMA FirstKept ==
    ASSUME NEW n \in Nat, NEW S, S \subseteq 1..(n - 1)
    PROVE  /\ S # {} => FirstOf(S \cup {n}) = FirstOf(S)
           /\ FirstOf({n}) = n
<1>1. ASSUME S # {} PROVE FirstOf(S \cup {n}) = FirstOf(S)
  <2> DEFINE f == FirstOf(S)
             g == FirstOf(S \cup {n})
  <2>1. f \in S /\ \A j \in S : f <= j
    <3>1. S \subseteq Nat
      OBVIOUS
    <3> QED BY <1>1, <3>1, FirstFacts
  <2>2. g \in S \cup {n} /\ \A j \in S \cup {n} : g <= j
    <3>1. S \cup {n} \subseteq Nat /\ S \cup {n} # {}
      OBVIOUS
    <3> HIDE DEF g
    <3> QED BY <3>1, FirstFacts DEF g
  <2> HIDE DEF f, g
  <2>3. f \in 1..(n - 1) /\ g <= f
    BY <2>1, <2>2
  <2>4. g \in S /\ f <= g
    BY <2>1, <2>2, <2>3
  <2>5. f = g
    BY <2>3, <2>4
  <2> QED BY <2>5 DEF f, g
<1>2. FirstOf({n}) = n
  <2>1. FirstOf({n}) \in {n}
    BY FirstFacts
  <2> QED BY <2>1
<1> QED BY <1>1, <1>2

\* A set of places before n that is not empty has a last one.
LEMMA LastFacts ==
    ASSUME NEW n \in Nat, NEW S, S \subseteq 1..n, S # {}
    PROVE  LastOf(S) \in S /\ \A j \in S : j <= LastOf(S)
<1> DEFINE T == {n - j : j \in S}
<1>1. T \subseteq Nat /\ T # {}
  OBVIOUS
<1>2. PICK x \in T : \A y \in T : x <= y
  <2> HIDE DEF T
  <2> QED BY <1>1, LeastNumber
<1>3. PICK i \in S : x = n - i
  BY <1>2
<1>4. ASSUME NEW j \in S PROVE j <= i
  <2>1. n - j \in T
    OBVIOUS
  <2>2. n - i <= n - j
    BY <1>2, <1>3, <2>1
  <2>3. i \in Nat /\ j \in Nat
    OBVIOUS
  <2> QED BY <2>2, <2>3
<1>5. \E k \in S : \A j \in S : j <= k
  BY <1>4
<1> QED BY <1>5 DEF LastOf

\* A later place becomes the last.
LEMMA LastAdded ==
    ASSUME NEW n \in Nat, n > 0, NEW S, S \subseteq 1..(n - 1)
    PROVE  LastOf(S \cup {n}) = n
<1> DEFINE R == S \cup {n}
           g == LastOf(R)
<1>1. R \subseteq 1..n /\ R # {} /\ n \in R
  OBVIOUS
<1>2. g \in R /\ \A j \in R : j <= g
  <2> HIDE DEF R
  <2> QED BY <1>1, LastFacts
<1>3. g \in 1..n /\ n <= g
  <2> HIDE DEF g
  <2> QED BY <1>1, <1>2
<1> HIDE DEF g
<1>4. g = n
  BY <1>3
<1> QED BY <1>4 DEF g

-----------------------------------------------------------------------------
(* One more item.                                                          *)

\* What an item is, by its type.
LEMMA ItemFacts ==
    ASSUME NEW item \in Item
    PROVE  /\ item.bytes \in Seq(Byte)
           /\ item.type \in {"Main", "Global", "Local"}
           /\ item.type = "Global" => item.tag \in GlobalTag
           /\ item.type = "Local" => item.tag = "Usage"
           /\ item.type = "Main" => item.tag \in {"Input", "Feature"}
BY DEF Item

\* The items read so far stay where they are.
LEMMA ReadStep ==
    ASSUME read \in Seq(Item), NEW item \in Item, read' = Append(read, item)
    PROVE  /\ read' \in Seq(Item) /\ Len(read') = Here /\ Here' = Here + 1 /\ Here \in Nat \ {0}
           /\ \A i \in 1..Len(read) : read[i] \in Item /\ read'[i] = read[i]
           /\ read'[Here] = item
BY DEF Here

\* The settings and the usages of the fields read so far stay.
LEMMA PastKept ==
    ASSUME read \in Seq(Item), NEW item \in Item, read' = Append(read, item),
           NEW i \in 1..Here
    PROVE  /\ \A t : Setting(t, i)' = Setting(t, i)
           /\ Reaching(i)' = Reaching(i)
<1>1. /\ Here \in Nat \ {0}
      /\ \A j \in 1..(i - 1) : j \in 1..Len(read) /\ read'[j] = read[j]
  BY ReadStep DEF Here
<1>2. ASSUME NEW t PROVE Setting(t, i)' = Setting(t, i)
  BY <1>1 DEF Setting
<1>3. Reaching(i)' = Reaching(i)
  <2>1. ASSUME NEW j \in 1..(i - 1)
        PROVE  (\A k \in j..(i - 1) : read'[k].type # "Main")
               <=> (\A k \in j..(i - 1) : read[k].type # "Main")
    <3>1. \A k \in j..(i - 1) : k \in 1..(i - 1)
      OBVIOUS
    <3> QED BY <1>1, <3>1
  <2> QED BY <1>1, <2>1 DEF Reaching
<1> QED BY <1>2, <1>3
\* What the item sets is in force for the next field.
LEMMA PresentStep ==
    ASSUME read \in Seq(Item), NEW item \in Item, read' = Append(read, item)
    PROVE  /\ \A t : Setting(t, Here)' = IF item.type = "Global" /\ item.tag = t
                                         THEN Setting(t, Here) \cup {Here}
                                         ELSE Setting(t, Here)
           /\ Reaching(Here)' = IF item.type = "Main" THEN {}
                                ELSE IF item.type = "Local" THEN Reaching(Here) \cup {Here}
                                ELSE Reaching(Here)
<1> DEFINE n == Here
<1>1. /\ n \in Nat \ {0} /\ Here' = n + 1
      /\ \A j \in 1..(n - 1) : read'[j] = read[j]
      /\ read'[n] = item
  BY ReadStep DEF Here
<1>2. Here' - 1 = n
  BY <1>1
<1> HIDE DEF n
<1>3. ASSUME NEW t PROVE Setting(t, Here)' = IF item.type = "Global" /\ item.tag = t
                                             THEN Setting(t, n) \cup {n}
                                             ELSE Setting(t, n)
  <2>1. Setting(t, Here)' = {j \in 1..n : read'[j].type = "Global" /\ read'[j].tag = t}
    BY <1>2 DEF Setting
  <2>2. Setting(t, n) = {j \in 1..(n - 1) : read[j].type = "Global" /\ read[j].tag = t}
    BY DEF Setting
  <2>3. \A j : j \in 1..n <=> j \in 1..(n - 1) \/ j = n
    BY <1>1
  <2> DEFINE new == Setting(t, Here)'
             old == Setting(t, n)
  <2>4. \A j : j \in new <=> j \in old \/ (j = n /\ item.type = "Global" /\ item.tag = t)
    BY <1>1, <2>1, <2>2, <2>3
  <2> HIDE DEF new, old
  <2>5. new = IF item.type = "Global" /\ item.tag = t THEN old \cup {n} ELSE old
    <3>1. CASE item.type = "Global" /\ item.tag = t
      BY <2>4, <3>1, Zenon
    <3>2. CASE ~(item.type = "Global" /\ item.tag = t)
      BY <2>4, <3>2, Zenon
    <3> QED BY <3>1, <3>2, Zenon
  <2> QED BY <2>5, Zenon DEF new, old
<1>4. Reaching(Here)' = {j \in 1..n : /\ read'[j].type = "Local"
                                      /\ \A k \in j..n : read'[k].type # "Main"}
  BY <1>2 DEF Reaching
<1>5. Reaching(n) = {j \in 1..(n - 1) : /\ read[j].type = "Local"
                                        /\ \A k \in j..(n - 1) : read[k].type # "Main"}
  BY DEF Reaching
<1>6. Reaching(Here)' = IF item.type = "Main" THEN {}
                        ELSE IF item.type = "Local" THEN Reaching(n) \cup {n}
                        ELSE Reaching(n)
  <2> DEFINE new == Reaching(Here)'
             old == Reaching(n)
  <2>1. CASE item.type = "Main"
    <3>1. \A j \in 1..n : n \in j..n
      BY <1>1
    <3>2. ASSUME NEW j PROVE j \notin new
      <4>1. j \in 1..n => ~(\A k \in j..n : read'[k].type # "Main")
        BY <1>1, <2>1, <3>1
      <4> QED BY <1>4, <4>1
    <3> HIDE DEF new, old
    <3>3. new = {}
      BY <3>2, Zenon
    <3> QED BY <2>1, <3>3, Zenon DEF new, old
  <2>2. CASE item.type # "Main"
    <3>1. ASSUME NEW j \in 1..(n - 1)
          PROVE  (\A k \in j..n : read'[k].type # "Main")
                 <=> (\A k \in j..(n - 1) : read[k].type # "Main")
      <4>1. \A k : k \in j..n <=> k \in j..(n - 1) \/ k = n
        BY <1>1
      <4>2. \A k \in j..(n - 1) : k \in 1..(n - 1)
        BY <1>1
      <4> QED BY <1>1, <2>2, <4>1, <4>2
    <3>2. \A k \in n..n : k = n
      BY <1>1
    <3>3. \A j : j \in 1..n <=> j \in 1..(n - 1) \/ j = n
      BY <1>1
    <3>4. ASSUME NEW j PROVE j \in new <=> j \in old \/ (j = n /\ item.type = "Local")
      <4>1. CASE j \in 1..(n - 1)
        <5>1. j # n /\ j \in 1..n
          BY <1>1, <4>1
        <5> QED BY <1>1, <1>4, <1>5, <3>1, <4>1, <5>1
      <4>2. CASE j = n
        <5>1. j \notin 1..(n - 1) /\ j \in 1..n
          BY <1>1, <4>2
        <5> QED BY <1>1, <1>4, <1>5, <2>2, <3>2, <4>2, <5>1
      <4>3. CASE j \notin 1..n
        <5>1. j \notin 1..(n - 1) /\ j # n
          BY <1>1, <4>3
        <5> QED BY <1>4, <1>5, <4>3, <5>1
      <4> QED BY <3>3, <4>1, <4>2, <4>3
    <3> HIDE DEF new, old
    <3>5. new = IF item.type = "Local" THEN old \cup {n} ELSE old
      <4>1. CASE item.type = "Local"
        BY <3>4, <4>1, Zenon
      <4>2. CASE item.type # "Local"
        BY <3>4, <4>2, Zenon
      <4> QED BY <4>1, <4>2, Zenon
    <3> QED BY <2>2, <3>5, Zenon DEF new, old
  <2> QED BY <2>1, <2>2
<1> QED BY <1>3, <1>6 DEF n

\* Places are those of items read.
LEMMA PlacesFacts ==
    ASSUME read \in Seq(Item), NEW i \in 1..Here
    PROVE  /\ \A t : /\ Setting(t, i) \subseteq 1..(i - 1)
                     /\ Setting(t, i) # {} =>
                            /\ LastOf(Setting(t, i)) \in 1..Len(read)
                            /\ LastOf(Setting(t, i)) < i
                            /\ read[LastOf(Setting(t, i))].type = "Global"
                            /\ read[LastOf(Setting(t, i))].tag = t
           /\ Reaching(i) \subseteq 1..(i - 1)
           /\ Reaching(i) # {} =>
                  /\ LastOf(Reaching(i)) \in 1..Len(read)
                  /\ read[LastOf(Reaching(i))].type = "Local"
<1>1. i \in Nat \ {0} /\ i - 1 \in Nat /\ \A j \in 1..(i - 1) : j \in 1..Len(read) /\ j < i
  BY DEF Here
<1>2. ASSUME NEW t PROVE
                     /\ Setting(t, i) \subseteq 1..(i - 1)
                     /\ Setting(t, i) # {} =>
                            /\ LastOf(Setting(t, i)) \in 1..Len(read)
                            /\ LastOf(Setting(t, i)) < i
                            /\ read[LastOf(Setting(t, i))].type = "Global"
                            /\ read[LastOf(Setting(t, i))].tag = t
  <2>1. Setting(t, i) \subseteq 1..(i - 1)
    BY DEF Setting
  <2>2. Setting(t, i) # {} => LastOf(Setting(t, i)) \in Setting(t, i)
    BY <1>1, <2>1, LastFacts
  <2>3. \A j \in Setting(t, i) : read[j].type = "Global" /\ read[j].tag = t
    BY DEF Setting
  <2> QED BY <1>1, <2>1, <2>2, <2>3
<1>3. Reaching(i) \subseteq 1..(i - 1)
  BY DEF Reaching
<1>4. Reaching(i) # {} => LastOf(Reaching(i)) \in Reaching(i)
  BY <1>1, <1>3, LastFacts
<1>5. \A j \in Reaching(i) : read[j].type = "Local"
  BY DEF Reaching
<1> QED BY <1>1, <1>2, <1>3, <1>4, <1>5

\* And so do the values in force for the fields read so far.
LEMMA ValuesKept ==
    ASSUME read \in Seq(Item), NEW item \in Item, read' = Append(read, item),
           NEW i \in 1..Here
    PROVE  /\ \A t : Setting(t, i) # {} => GlobalAt(t, i)' = GlobalAt(t, i)
           /\ Reaching(i) # {} => UsageAt(i)' = UsageAt(i)
           /\ HasLayout(i)' <=> HasLayout(i)
           /\ HasLayout(i) => SizeAt(i)' = SizeAt(i)
<1>1. /\ \A t : Setting(t, i)' = Setting(t, i)
      /\ Reaching(i)' = Reaching(i)
  BY PastKept
<1>2. \A j \in 1..Len(read) : read'[j] = read[j]
  BY ReadStep
<1>3. ASSUME NEW t, Setting(t, i) # {} PROVE GlobalAt(t, i)' = GlobalAt(t, i)
  <2>1. LastOf(Setting(t, i)) \in 1..Len(read)
    BY <1>3, PlacesFacts
  <2>2. LastOf(Setting(t, i))' = LastOf(Setting(t, i))
    BY <1>1 DEF LastOf
  <2> QED BY <1>2, <2>1, <2>2 DEF GlobalAt
<1>4. ASSUME Reaching(i) # {} PROVE UsageAt(i)' = UsageAt(i)
  <2>1. LastOf(Reaching(i)) \in 1..Len(read)
    BY <1>4, PlacesFacts
  <2>2. LastOf(Reaching(i))' = LastOf(Reaching(i))
    BY <1>1 DEF LastOf
  <2> QED BY <1>2, <2>1, <2>2 DEF UsageAt
<1>5. HasLayout(i)' <=> HasLayout(i)
  BY <1>1 DEF HasLayout
<1>6. HasLayout(i) => SizeAt(i)' = SizeAt(i)
  BY <1>3 DEF HasLayout, SizeAt
<1> QED BY <1>3, <1>4, <1>5, <1>6
\* The fields before i in its report, once its report has an ID.
LEMMA PrecedingFacts ==
    ASSUME read \in Seq(Item), NEW i \in 1..Here, Setting("ReportID", i) # {}
    PROVE  /\ Preceding(i) = {j \in 1..(i - 1) : j >= LastOf(Setting("ReportID", i))
                                                /\ IsInput(read[j])}
           /\ Preceding(i) \subseteq 1..Len(read)
<1> DEFINE r == LastOf(Setting("ReportID", i))
<1>1. r \in 1..Len(read) /\ r < i
  BY PlacesFacts
<1>2. i \in Nat /\ i - 1 <= Len(read)
  BY DEF Here
<1>3. Preceding(i) = {j \in r..(i - 1) : IsInput(read[j])}
  BY DEF Preceding
<1> HIDE DEF r
<1>4. \A j : j \in r..(i - 1) <=> j \in 1..(i - 1) /\ j >= r
  BY <1>1, <1>2
<1>5. Preceding(i) = {j \in 1..(i - 1) : j >= r /\ IsInput(read[j])}
  BY <1>3, <1>4
<1>6. 1..(i - 1) \subseteq 1..Len(read)
  BY <1>2
<1> QED BY <1>5, <1>6 DEF r

\* The terms of BitsBefore.
SizeTerms(i) == [j \in 1..(i - 1) |-> IF j \in Preceding(i) THEN SizeAt(j) ELSE 0]

\* The flags before a field read so far, and their sum, stay.
LEMMA FlagsKept ==
    ASSUME read \in Seq(Item), NEW item \in Item, read' = Append(read, item),
           NEW i \in 1..Here, Setting("ReportID", i) # {}
    PROVE  /\ Preceding(i)' = Preceding(i)
           /\ FlagsOnly(i)' <=> FlagsOnly(i)
           /\ FlagsOnly(i) => BitsBefore(i)' = BitsBefore(i)
<1>1. Preceding(i)' = Preceding(i)
  <2>1. LastOf(Setting("ReportID", i))' = LastOf(Setting("ReportID", i))
    BY PastKept DEF LastOf
  <2>2. LastOf(Setting("ReportID", i)) \in 1..Len(read)
    BY PlacesFacts
  <2>3. \A j \in LastOf(Setting("ReportID", i))..(i - 1) : read'[j] = read[j]
    <3>1. \A j \in LastOf(Setting("ReportID", i))..(i - 1) : j \in 1..Len(read)
      BY <2>2 DEF Here
    <3> QED BY <3>1, ReadStep
  <2> QED BY <2>1, <2>3 DEF Preceding, IsInput
<1>2. \A j \in Preceding(i) : j \in 1..Here /\ j \in 1..Len(read)
  BY PrecedingFacts DEF Here
<1>3. \A j \in Preceding(i) : /\ HasLayout(j)' <=> HasLayout(j)
                              /\ HasLayout(j) => SizeAt(j)' = SizeAt(j)
  BY <1>2, ValuesKept
<1>4. FlagsOnly(i)' <=> FlagsOnly(i)
  BY <1>1, <1>3, Zenon DEF FlagsOnly
<1>5. ASSUME FlagsOnly(i) PROVE BitsBefore(i)' = BitsBefore(i)
  <2>1. SizeTerms(i)' = SizeTerms(i)
    <3>1. \A j \in Preceding(i) : SizeAt(j)' = SizeAt(j)
      BY <1>3, <1>5, Zenon DEF FlagsOnly
    <3> QED BY <1>1, <3>1 DEF SizeTerms
  <2>2. BitsBefore(i) = SumTo(SizeTerms(i), i - 1)
    BY DEF BitsBefore, SizeTerms
  <2>3. BitsBefore(i)' = SumTo(SizeTerms(i)', i - 1)
    BY DEF BitsBefore, SizeTerms
  <2> QED BY <2>1, <2>2, <2>3
<1> QED BY <1>1, <1>4, <1>5
-----------------------------------------------------------------------------
(* ParseItem keeps each part of the invariant.                             *)

\* ParseItem, for the item it takes.
Takes(item) ==
    /\ item \in Item /\ Len(item.bytes) \in {1, 2, 4}
    /\ Len(read) < Len(ItemsAt)
    /\ read' = Append(read, item)
    /\ globals' = IF item.type = "Global"
                  THEN [globals EXCEPT ![item.tag] = Set(GlobalValue(item))]
                  ELSE globals
    /\ usage' = Locals(item)
    /\ actualBit' = Advance(item)
    /\ data' = [d \in Data |-> IF IsInput(item) /\ Match(d) /\ ~data[d].used
                               THEN FieldLayout
                               ELSE data[d]]
    /\ UNCHANGED <<phase, report, value>>

\* An item that ParseItem takes is a short item.
LEMMA ParseTakes == ASSUME TypeOK, ParseItem PROVE \E item : Takes(item)
<1>1. Len(read) < Len(ItemsAt) /\ Len(read) \in Nat
  BY DEF ParseItem, TypeOK
<1>2. Len(read) + 1 \in DOMAIN ItemsAt /\ ItemsAt[Len(read) + 1] \subseteq Item
  BY <1>1, ItemsAssumption DEF ItemsAssumption
<1>3. \A item \in ItemsAt[Len(read) + 1] : item \in Item /\ Len(item.bytes) \in {1, 2, 4}
  BY <1>2, ItemsAssumption DEF ItemsAssumption
<1> QED BY <1>1, <1>3 DEF ParseItem, Takes

\* The value a global item sets is a number.
LEMMA GlobalType ==
    ASSUME NEW item \in Item, Len(item.bytes) \in {1, 2, 4}
    PROVE  /\ GlobalValue(item) \in Int
           /\ ToUnsigned(item.bytes) \in Nat
           /\ item.bytes[1] \in Nat /\ item.bytes[1] <= 255
           /\ Len(item.bytes) = 1 => ToUnsigned(item.bytes) = item.bytes[1]
<1> DEFINE bytes == item.bytes
<1>1. bytes \in Seq(Byte)
  BY ItemFacts
<1>2. ToUnsigned(bytes) \in Nat
  BY <1>1, UnsignedType
<1>3. 1 \in 1..Len(bytes)
  <2> DEFINE n == Len(bytes)
  <2>1. n = 1 \/ n = 2 \/ n = 4
    OBVIOUS
  <2> HIDE DEF n
  <2>2. 1 \in 1..n
    BY <2>1
  <2> QED BY <2>2 DEF n
<1>4. bytes[1] \in Nat /\ bytes[1] <= 255
  BY <1>1, <1>3, ByteAt, Zenon
<1>5. ToSigned(bytes) \in Int
  <2>1. ToSigned(bytes) = TwosComplement(bytes)
    BY <1>1, SignedIsTwosComplement
  <2>2. 8 * Len(bytes) \in Nat
    BY <1>1
  <2>3. Pow2(8 * Len(bytes)) \in Nat
    BY <2>2, PowType
  <2> QED BY <1>2, <2>1, <2>3 DEF TwosComplement, LittleEndian
<1>6. Len(bytes) = 1 => ToUnsigned(bytes) = bytes[1]
  BY <1>1, UnsignedValues
<1> QED BY <1>2, <1>4, <1>5, <1>6 DEF GlobalValue

\* Types.
LEMMA TypesStep ==
    ASSUME TypeOK, ShortItems, NEW item, Takes(item)
    PROVE  TypeOK' /\ ShortItems'
<1>1. /\ item \in Item /\ Len(item.bytes) \in {1, 2, 4}
      /\ read \in Seq(Item) /\ read' = Append(read, item)
  BY DEF Takes, TypeOK
<1>2. /\ GlobalValue(item) \in Int /\ ToUnsigned(item.bytes) \in Nat
      /\ item.type = "Global" => item.tag \in GlobalTag
  BY <1>1, GlobalType, ItemFacts
<1>3. read' \in Seq(Item) /\ Len(read') = Len(read) + 1 /\ Len(read') <= Len(ItemsAt)
  <2>1. Len(ItemsAt) \in Nat
    BY ItemsAssumption DEF ItemsAssumption
  <2> QED BY <1>1, <2>1 DEF Takes
<1>4. globals' \in [GlobalTag -> Optional]
  BY <1>2 DEF Takes, TypeOK, Optional, Set
<1>5. usage' \in Optional
  <2>1. Set(ToUnsigned(item.bytes)) \in Optional
    BY <1>2 DEF Set, Optional
  <2>2. usage \in Optional /\ [usage EXCEPT !.set = FALSE] \in Optional
    BY DEF TypeOK, Optional
  <2>3. usage' \in {Set(ToUnsigned(item.bytes)), usage, [usage EXCEPT !.set = FALSE]}
    BY DEF Takes, Locals
  <2> QED BY <2>1, <2>2, <2>3
<1>6. actualBit' \in 0..Len(read')
  BY <1>1, <1>3 DEF Takes, TypeOK, Advance, FieldBits
<1>7. data' \in [Data -> Layout]
  <2>1. \A t \in GlobalTag : globals[t].value \in Int /\ globals[t] \in Optional
    BY DEF TypeOK, Optional
  <2>2. \A x \in Int : x % 256 \in Byte
    BY DEF Byte
  <2>3. FieldLayout \in Layout
    <3>1. {"ReportID", "ReportSize", "LogicalMin", "LogicalMax", "PhysicalMin", "PhysicalMax"}
              \subseteq GlobalTag
      BY DEF GlobalTag
    <3>2. actualBit \in Int
      BY <1>1 DEF TypeOK
    <3> QED BY <2>1, <2>2, <3>1, <3>2 DEF FieldLayout, Layout
  <2>4. \A d \in Data : data[d] \in Layout
    BY DEF TypeOK
  <2> QED BY <2>3, <2>4 DEF Takes
<1>8. UNCHANGED <<phase, report, value>>
  BY DEF Takes
<1>9. TypeOK'
  BY <1>3, <1>4, <1>5, <1>6, <1>7, <1>8 DEF TypeOK
<1>10. ShortItems'
  <2>1. \A i \in 1..Len(read') : i \in 1..Len(read) \/ i = Here
    BY <1>1, <1>3 DEF Here
  <2> QED BY <1>1, <2>1, ReadStep DEF ShortItems
<1> QED BY <1>9, <1>10
\* Globals: the item is the last to set its own, and no other.
LEMMA GlobalsStep ==
    ASSUME TypeOK, GlobalsInv, NEW item, Takes(item)
    PROVE  GlobalsInv'
<1>1. /\ item \in Item /\ Len(item.bytes) \in {1, 2, 4}
      /\ read \in Seq(Item) /\ read' = Append(read, item)
  BY DEF Takes, TypeOK
<1>2. Here \in 1..Here /\ Here \in Nat \ {0} /\ read'[Here] = item
  BY <1>1, ReadStep
<1> SUFFICES ASSUME NEW t \in GlobalTag
             PROVE  /\ globals'[t].set <=> Setting(t, Here)' # {}
                    /\ Setting(t, Here)' # {} =>
                           globals'[t].value = GlobalValue(read'[LastOf(Setting(t, Here)')])
  BY DEF GlobalsInv, LastOf, GlobalValue
<1> DEFINE old == Setting(t, Here)
           new == Setting(t, Here)'
<1> SUFFICES /\ globals'[t].set <=> new # {}
             /\ new # {} => globals'[t].value = GlobalValue(read'[LastOf(new)])
  BY Zenon
<1>3. new = IF item.type = "Global" /\ item.tag = t THEN old \cup {Here} ELSE old
  BY <1>1, PresentStep
<1>4. old \subseteq 1..(Here - 1) /\ (old # {} => LastOf(old) \in 1..Len(read))
  BY <1>1, <1>2, PlacesFacts
<1>5. globals[t].set <=> old # {}
  BY DEF GlobalsInv
<1>6. old # {} => globals[t].value = GlobalValue(read[LastOf(old)])
  BY DEF GlobalsInv
<1>7. CASE item.type = "Global" /\ item.tag = t
  <2>1. globals'[t] = Set(GlobalValue(item))
    BY <1>7 DEF Takes, TypeOK
  <2>2. LastOf(new) = Here /\ new # {}
    <3>1. new = old \cup {Here}
      BY <1>3, <1>7
    <3> HIDE DEF old, new
    <3>2. LastOf(old \cup {Here}) = Here
      <4>1. Here \in Nat /\ Here > 0 /\ old \subseteq 1..(Here - 1)
        BY <1>2, <1>4
      <4> QED BY <4>1, LastAdded, Zenon
    <3> QED BY <3>1, <3>2
  <2> HIDE DEF old, new
  <2> QED BY <1>2, <2>1, <2>2 DEF Set
<1>8. CASE ~(item.type = "Global" /\ item.tag = t)
  <2>1. globals'[t] = globals[t]
    BY <1>8 DEF Takes, TypeOK
  <2>2. new = old
    BY <1>3, <1>8
  <2>3. old # {} => read'[LastOf(old)] = read[LastOf(old)]
    BY <1>1, <1>4, ReadStep
  <2> HIDE DEF old, new
  <2> QED BY <1>5, <1>6, <2>1, <2>2, <2>3
<1> QED BY <1>7, <1>8

\* Usages: the item is the last in reach, or ends the reach of all.
LEMMA UsageStep ==
    ASSUME TypeOK, UsageInv, NEW item, Takes(item)
    PROVE  UsageInv'
<1>1. /\ item \in Item /\ read \in Seq(Item) /\ read' = Append(read, item)
  BY DEF Takes, TypeOK
<1>2. Here \in 1..Here /\ Here \in Nat \ {0} /\ read'[Here] = item
  BY <1>1, ReadStep
<1> DEFINE old == Reaching(Here)
           new == Reaching(Here)'
<1> SUFFICES /\ usage'.set <=> new # {}
             /\ new # {} => usage'.value = ToUnsigned(read'[LastOf(new)].bytes)
  BY DEF UsageInv, UsageAt, LastOf, ToUnsigned
<1>3. new = IF item.type = "Main" THEN {}
            ELSE IF item.type = "Local" THEN old \cup {Here}
            ELSE old
  BY <1>1, PresentStep
<1>4. old \subseteq 1..(Here - 1) /\ (old # {} => LastOf(old) \in 1..Len(read))
  BY <1>1, <1>2, PlacesFacts
<1>5. usage.set <=> old # {}
  BY DEF UsageInv
<1>6. old # {} => usage.value = ToUnsigned(read[LastOf(old)].bytes)
  BY DEF UsageInv, UsageAt
<1>7. CASE item.type = "Local"
  <2>1. usage' = Set(ToUnsigned(item.bytes))
    BY <1>7 DEF Takes, Locals
  <2>2. new = old \cup {Here}
    BY <1>3, <1>7
  <2> HIDE DEF old, new
  <2>3. LastOf(old \cup {Here}) = Here
    <3>1. Here \in Nat /\ Here > 0 /\ old \subseteq 1..(Here - 1)
      BY <1>2, <1>4
    <3> QED BY <3>1, LastAdded, Zenon
  <2> QED BY <1>2, <2>1, <2>2, <2>3 DEF Set
<1>8. CASE item.type = "Main"
  <2>1. usage'.set = FALSE /\ new = {}
    BY <1>3, <1>8 DEF Takes, Locals, TypeOK, Optional
  <2> QED BY <2>1
<1>9. CASE item.type = "Global"
  <2>1. usage' = usage /\ new = old
    BY <1>3, <1>9 DEF Takes, Locals
  <2>2. old # {} => read'[LastOf(old)] = read[LastOf(old)]
    BY <1>1, <1>4, ReadStep
  <2> HIDE DEF old, new
  <2> QED BY <1>5, <1>6, <2>1, <2>2
<1>10. item.type \in {"Main", "Global", "Local"}
  BY <1>1, ItemFacts
<1> QED BY <1>7, <1>8, <1>9, <1>10
\* The bit the next field begins at: a field adds its single bit, a report
\* begins at 0, and nothing else counts.
LEMMA BitStep ==
    ASSUME TypeOK, GlobalsInv, BitInv, NEW item, Takes(item)
    PROVE  BitInv'
<1>1. /\ item \in Item /\ read \in Seq(Item) /\ read' = Append(read, item)
      /\ actualBit \in Nat /\ actualBit' = Advance(item)
  BY DEF Takes, TypeOK
<1>2. PICK n : n = Here
  OBVIOUS
<1>3. /\ n \in Nat \ {0} /\ n - 1 \in Nat /\ Here' = n + 1 /\ Here' - 1 = n /\ read'[n] = item
      /\ Len(read) = n - 1 /\ \A j \in 1..(n - 1) : read'[j] = read[j]
  BY <1>1, <1>2, ReadStep DEF Here
<1> SUFFICES ASSUME Setting("ReportID", Here)' # {}, FlagsOnly(Here)'
             PROVE  actualBit' = BitsBefore(Here)'
  BY DEF BitInv
<1> DEFINE old == Setting("ReportID", n)
           new == Setting("ReportID", Here)'
           after == Preceding(Here)'
           g == [j \in 1..n |-> IF j \in after THEN SizeAt(j)' ELSE 0]
<1>4. BitsBefore(Here)' = SumTo(g, n)
  BY <1>3 DEF BitsBefore
<1>5. after = {j \in LastOf(new)..n : IsInput(read'[j])}
  BY <1>3 DEF Preceding, IsInput, LastOf
<1>6. \A j \in after : HasLayout(j)' /\ SizeAt(j)' = 1
  BY Zenon DEF FlagsOnly
<1>7. new = IF IsReportID(item) THEN old \cup {n} ELSE old
  BY <1>1, <1>2, PresentStep DEF IsReportID
<1>8. n \in 1..Here /\ old \subseteq 1..(n - 1)
  <2>1. n \in 1..Here
    BY <1>2, <1>3
  <2> QED BY <1>1, <2>1, PlacesFacts
<1>9. CASE IsReportID(item)
  <2>1. LastOf(new) = n
    <3>1. n \in Nat /\ n > 0 /\ new = old \cup {n}
      BY <1>3, <1>7, <1>9
    <3> HIDE DEF old, new
    <3> QED BY <1>8, <3>1, LastAdded
  <2>2. after = {}
    <3>1. ~IsInput(read'[n])
      BY <1>3, <1>9 DEF IsInput, IsReportID
    <3>2. \A j \in n..n : j = n
      BY <1>3
    <3> HIDE DEF after
    <3> QED BY <1>5, <2>1, <3>1, <3>2
  <2>3. SumTo(g, n) = 0
    <3>1. \A j \in 1..n : g[j] = 0
      BY <2>2
    <3> HIDE DEF g
    <3> QED BY <1>3, <3>1, SumZero
  <2>4. actualBit' = 0
    BY <1>1, <1>9 DEF Advance
  <2> QED BY <1>4, <2>3, <2>4
<1>10. CASE ~IsReportID(item)
  <2> DEFINE before == Preceding(n)
             h == [j \in 1..(n - 1) |-> IF j \in before THEN SizeAt(j) ELSE 0]
  <2>1. new = old /\ old # {}
    BY <1>7, <1>10
  <2>2. LastOf(old) \in 1..(n - 1)
    <3>1. LastOf(old) \in 1..Len(read)
      BY <1>1, <1>8, <2>1, PlacesFacts
    <3> QED BY <1>3, <3>1
  <2>3. before = {j \in LastOf(old)..(n - 1) : IsInput(read[j])}
    BY DEF Preceding
  <2>4. ASSUME NEW j PROVE j \in after <=> j \in before \/ (j = n /\ IsInput(item))
    <3>1. j \in LastOf(old)..n <=> j \in LastOf(old)..(n - 1) \/ j = n
      BY <1>3, <2>2
    <3>2. j \in LastOf(old)..(n - 1) => j \in 1..(n - 1) /\ j # n
      BY <1>3, <2>2
    <3> HIDE DEF old, new, after, before
    <3> QED BY <1>3, <1>5, <2>1, <2>3, <3>1, <3>2 DEF IsInput
  <2>5. \A j \in before : j \in 1..(n - 1) /\ j \in 1..Here
    BY <1>2, <1>3, <2>2, <2>3
  <2>6. \A j \in before : HasLayout(j) /\ SizeAt(j) = 1 /\ SizeAt(j)' = SizeAt(j)
    <3> SUFFICES ASSUME NEW j \in before
                 PROVE  HasLayout(j) /\ SizeAt(j) = 1 /\ SizeAt(j)' = SizeAt(j)
      OBVIOUS
    <3>1. j \in after /\ j \in 1..Here
      BY <2>4, <2>5
    <3>2. HasLayout(j)' /\ SizeAt(j)' = 1
      BY <1>6, <3>1, Zenon
    <3>3. (HasLayout(j)' <=> HasLayout(j)) /\ (HasLayout(j) => SizeAt(j)' = SizeAt(j))
      BY <1>1, <3>1, ValuesKept, Zenon
    <3> QED BY <3>2, <3>3
  <2>7. actualBit = SumTo(h, n - 1)
    <3>1. FlagsOnly(Here)
      BY <1>2, <2>6 DEF FlagsOnly
    <3>2. Setting("ReportID", Here) # {}
      BY <1>2, <2>1
    <3>3. actualBit = BitsBefore(Here)
      BY <3>1, <3>2 DEF BitInv
    <3>4. BitsBefore(n) = SumTo(h, n - 1)
      BY DEF BitsBefore
    <3> QED BY <1>2, <3>3, <3>4
  <2>8. SumTo(g, n - 1) = SumTo(h, n - 1)
    <3>1. ASSUME NEW j \in 1..(n - 1) PROVE g[j] = h[j]
      <4>1. j \in 1..n /\ j # n
        BY <1>3
      <4>2. j \in after <=> j \in before
        BY <2>4, <4>1
      <4>3. j \in before => SizeAt(j)' = SizeAt(j)
        BY <2>6
      <4> HIDE DEF after, before
      <4> QED BY <4>1, <4>2, <4>3
    <3> HIDE DEF g, h
    <3> QED BY <1>3, <3>1, SumEqual
  <2>9. SumTo(g, n) = SumTo(g, n - 1) + g[n]
    <3>1. (n - 1) + 1 = n
      BY <1>3
    <3> HIDE DEF g
    <3>2. SumTo(g, (n - 1) + 1) = SumTo(g, n - 1) + g[(n - 1) + 1]
      BY <1>3, SumStep
    <3> QED BY <3>1, <3>2
  <2>10. n \in 1..n
    BY <1>3
  <2>11. CASE IsInput(item)
    <3>1. n \in after
      BY <2>4, <2>11
    <3>2. HasLayout(n)' /\ SizeAt(n)' = 1
      BY <1>6, <3>1, Zenon
    <3>3. g[n] = 1
      <4> HIDE DEF after
      <4> QED BY <2>10, <3>1, <3>2
    <3>4. HasLayout(n)
      <4>1. HasLayout(n)' <=> HasLayout(n)
        BY <1>1, <1>8, ValuesKept, Zenon
      <4> QED BY <3>2, <4>1
    <3>5. FieldBits = 1
      <4>1. Setting("ReportSize", Here) # {} /\ Setting("ReportCount", Here) # {}
        BY <1>2, <3>4 DEF HasLayout
      <4> QED BY <4>1 DEF GlobalsInv, FieldBits, GlobalTag
    <3>6. actualBit' = actualBit + 1
      BY <1>1, <1>10, <2>11, <3>5 DEF Advance
    <3> HIDE DEF g, h
    <3> QED BY <1>4, <2>7, <2>8, <2>9, <3>3, <3>6
  <2>12. CASE ~IsInput(item)
    <3>1. n \notin after
      <4>1. n \notin before
        BY <1>3, <2>5
      <4> QED BY <2>4, <2>12, <4>1
    <3>2. g[n] = 0
      <4> HIDE DEF after
      <4> QED BY <2>10, <3>1
    <3>3. actualBit' = actualBit
      BY <1>1, <1>10, <2>12 DEF Advance
    <3> HIDE DEF g, h
    <3> QED BY <1>1, <1>4, <2>7, <2>8, <2>9, <3>2, <3>3
  <2> QED BY <2>11, <2>12
<1> QED BY <1>9, <1>10
-----------------------------------------------------------------------------
(* The fields of a datum.                                                  *)

\* The usage in force for the item at i is that of datum d.
UsageIs(d, i) ==
    /\ Setting("UsagePage", i) # {} /\ Reaching(i) # {}
    /\ Usages[d] = <<LittleEndian(GlobalAt("UsagePage", i)), LittleEndian(UsageAt(i))>>

\* The layout of a field read so far, and its usage, stay.
LEMMA LayoutKept ==
    ASSUME read \in Seq(Item), NEW item \in Item, read' = Append(read, item),
           NEW i \in 1..Here
    PROVE  /\ \A l : LayoutOf(l, i)' <=> LayoutOf(l, i)
           /\ \A d : UsageIs(d, i)' <=> UsageIs(d, i)
<1>1. /\ \A t : Setting(t, i)' = Setting(t, i)
      /\ Reaching(i)' = Reaching(i)
  BY PastKept
<1>2. /\ \A t : Setting(t, i) # {} => GlobalAt(t, i)' = GlobalAt(t, i)
      /\ Reaching(i) # {} => UsageAt(i)' = UsageAt(i)
  BY ValuesKept
<1>3. Setting("ReportID", i) # {} =>
          /\ FlagsOnly(i)' <=> FlagsOnly(i)
          /\ FlagsOnly(i) => BitsBefore(i)' = BitsBefore(i)
  BY FlagsKept
<1>4. ASSUME NEW l PROVE LayoutOf(l, i)' <=> LayoutOf(l, i)
  <2>1. Setting("ReportID", i) # {} =>
            ((l.reportId = GlobalAt("ReportID", i)[1])' <=> (l.reportId = GlobalAt("ReportID", i)[1]))
    BY <1>2, Zenon
  <2>2. Setting("ReportSize", i) # {} =>
            ((l.width = LittleEndian(GlobalAt("ReportSize", i)) % 256)'
             <=> (l.width = LittleEndian(GlobalAt("ReportSize", i)) % 256))
    BY <1>2, Zenon
  <2>3. Setting("LogicalMin", i) # {} =>
            ((l.logicalMin.value = TwosComplement(GlobalAt("LogicalMin", i)))'
             <=> (l.logicalMin.value = TwosComplement(GlobalAt("LogicalMin", i))))
    BY <1>2, Zenon
  <2> QED BY <1>1, <1>3, <2>1, <2>2, <2>3 DEF LayoutOf
<1>5. ASSUME NEW d PROVE UsageIs(d, i)' <=> UsageIs(d, i)
  BY <1>1, <1>2, Zenon DEF UsageIs
<1> QED BY <1>4, <1>5

\* The items in force for the next field are short.
LEMMA InForceFacts ==
    ASSUME TypeOK, ShortItems
    PROVE  /\ \A t : Setting(t, Here) # {} =>
                         LET item == read[LastOf(Setting(t, Here))]
                         IN  /\ item \in Item /\ Len(item.bytes) \in {1, 2, 4}
                             /\ item.tag = t
                             /\ NarrowUsages /\ t = "UsagePage" => Len(item.bytes) = 1
           /\ Reaching(Here) # {} =>
                  LET item == read[LastOf(Reaching(Here))]
                  IN  /\ item \in Item /\ Len(item.bytes) \in {1, 2, 4}
                      /\ NarrowUsages => Len(item.bytes) = 1
<1>1. read \in Seq(Item) /\ Here \in 1..Here
  BY DEF TypeOK, Here
<1>2. \A i \in 1..Len(read) : read[i] \in Item /\ Len(read[i].bytes) \in {1, 2, 4}
  BY <1>1 DEF ShortItems
<1>3. ASSUME NarrowUsages
      PROVE  \A i \in 1..Len(read) : read[i].tag \in {"UsagePage", "Usage"} => Len(read[i].bytes) = 1
  BY <1>1, <1>3 DEF NarrowUsages
<1>4. \A i \in 1..Len(read) : read[i].type = "Local" => read[i].tag = "Usage"
  BY <1>2, ItemFacts
<1>5. ASSUME NEW t, Setting(t, Here) # {}
      PROVE  LastOf(Setting(t, Here)) \in 1..Len(read) /\ read[LastOf(Setting(t, Here))].tag = t
  BY <1>1, <1>5, PlacesFacts
<1>6. ASSUME Reaching(Here) # {}
      PROVE  LastOf(Reaching(Here)) \in 1..Len(read) /\ read[LastOf(Reaching(Here))].type = "Local"
  BY <1>1, <1>6, PlacesFacts
<1> QED BY <1>2, <1>3, <1>4, <1>5, <1>6

\* match is right about the usage in force, when one byte holds it.
LEMMA MatchIsUsage ==
    ASSUME TypeOK, ShortItems, GlobalsInv, UsageInv, NarrowUsages, NEW d
    PROVE  Match(d) <=> UsageIs(d, Here)
<1>1. globals["UsagePage"].set <=> Setting("UsagePage", Here) # {}
  BY DEF GlobalsInv, GlobalTag
<1>2. usage.set <=> Reaching(Here) # {}
  BY DEF UsageInv
<1>3. ASSUME Setting("UsagePage", Here) # {}
      PROVE  globals["UsagePage"].value % 256 = LittleEndian(GlobalAt("UsagePage", Here))
  <2> DEFINE item == read[LastOf(Setting("UsagePage", Here))]
  <2>1. item \in Item /\ Len(item.bytes) = 1 /\ item.tag = "UsagePage"
    BY <1>3, InForceFacts
  <2>2. globals["UsagePage"].value = GlobalValue(item)
    BY <1>3 DEF GlobalsInv, GlobalTag
  <2>3. GlobalValue(item) = ToUnsigned(item.bytes)
    BY <2>1 DEF GlobalValue, Signed
  <2>4. LittleEndian(GlobalAt("UsagePage", Here)) = ToUnsigned(item.bytes)
    BY DEF LittleEndian, GlobalAt
  <2> HIDE DEF item
  <2>5. ToUnsigned(item.bytes) \in Nat /\ ToUnsigned(item.bytes) <= 255
    BY <2>1, GlobalType
  <2>6. ToUnsigned(item.bytes) % 256 = ToUnsigned(item.bytes)
    BY <2>5
  <2> QED BY <2>2, <2>3, <2>4, <2>6
<1>4. ASSUME Reaching(Here) # {}
      PROVE  usage.value % 256 = LittleEndian(UsageAt(Here))
  <2> DEFINE item == read[LastOf(Reaching(Here))]
  <2>1. item \in Item /\ Len(item.bytes) = 1
    BY <1>4, InForceFacts
  <2>2. usage.value = ToUnsigned(item.bytes)
    BY <1>4 DEF UsageInv, UsageAt
  <2>3. LittleEndian(UsageAt(Here)) = ToUnsigned(item.bytes)
    BY DEF LittleEndian, UsageAt
  <2> HIDE DEF item
  <2>4. ToUnsigned(item.bytes) \in Nat /\ ToUnsigned(item.bytes) <= 255
    BY <2>1, GlobalType
  <2>5. ToUnsigned(item.bytes) % 256 = ToUnsigned(item.bytes)
    BY <2>4
  <2> QED BY <2>2, <2>3, <2>5
<1> QED BY <1>1, <1>2, <1>3, <1>4 DEF Match, UsageIs

\* What the field at hand gives is the layout of the next field.
LEMMA LayoutHere ==
    ASSUME TypeOK, ShortItems, GlobalsInv, BitInv
    PROVE  LayoutOf(FieldLayout, Here)
<1> DEFINE item(t) == read[LastOf(Setting(t, Here))]
<1>1. ASSUME NEW t \in GlobalTag, Setting(t, Here) # {}
      PROVE  /\ item(t) \in Item /\ Len(item(t).bytes) \in {1, 2, 4} /\ item(t).tag = t
             /\ globals[t].value = GlobalValue(item(t))
             /\ GlobalAt(t, Here) = item(t).bytes
  BY <1>1, InForceFacts DEF GlobalsInv, GlobalAt
<1> HIDE DEF item
<1>2. ASSUME Setting("ReportID", Here) # {}
      PROVE  FieldLayout.reportId = GlobalAt("ReportID", Here)[1]
  <2> DEFINE it == item("ReportID")
             b == it.bytes[1]
  <2>1. /\ it \in Item /\ Len(it.bytes) \in {1, 2, 4} /\ it.tag = "ReportID"
        /\ globals["ReportID"].value = GlobalValue(it)
        /\ GlobalAt("ReportID", Here) = it.bytes
    BY <1>1, <1>2 DEF GlobalTag
  <2>2. GlobalValue(it) = b
    BY <2>1 DEF GlobalValue, Signed
  <2>3. b \in Nat /\ b <= 255
    <3> HIDE DEF it
    <3> QED BY <2>1, GlobalType
  <2>4. b % 256 = b
    <3> HIDE DEF b
    <3> QED BY <2>3
  <2> QED BY <2>1, <2>2, <2>4 DEF FieldLayout
<1>3. ASSUME Setting("ReportSize", Here) # {}
      PROVE  FieldLayout.width = LittleEndian(GlobalAt("ReportSize", Here)) % 256
  BY <1>1, <1>3 DEF GlobalTag, GlobalValue, Signed, FieldLayout, LittleEndian
<1>4. ASSUME Setting("LogicalMin", Here) # {}
      PROVE  FieldLayout.logicalMin.value = TwosComplement(GlobalAt("LogicalMin", Here))
  <2> DEFINE it == item("LogicalMin")
  <2>1. /\ it \in Item /\ Len(it.bytes) \in {1, 2, 4} /\ it.tag = "LogicalMin"
        /\ globals["LogicalMin"].value = GlobalValue(it)
        /\ GlobalAt("LogicalMin", Here) = it.bytes
    BY <1>1, <1>4 DEF GlobalTag
  <2>2. GlobalValue(it) = ToSigned(it.bytes)
    BY <2>1 DEF GlobalValue, Signed
  <2>3. ToSigned(it.bytes) = TwosComplement(it.bytes)
    <3>1. it.bytes \in Seq(Byte)
      BY <2>1, ItemFacts
    <3> QED BY <2>1, <3>1, SignedIsTwosComplement
  <2> QED BY <2>1, <2>2, <2>3 DEF FieldLayout
<1>5. ASSUME Setting("ReportID", Here) # {}, FlagsOnly(Here)
      PROVE  FieldLayout.place = BitsBefore(Here) % 256
  BY <1>5 DEF BitInv, FieldLayout
<1> QED BY <1>2, <1>3, <1>4, <1>5 DEF LayoutOf
\* Fields: the item is one more field of the data its usage matches, and the
\* first of those that have none.
LEMMA FieldsStep ==
    ASSUME TypeOK, ShortItems, GlobalsInv, UsageInv, BitInv, FieldsInv, NEW item, Takes(item)
    PROVE  FieldsInv'
<1>1. /\ item \in Item /\ read \in Seq(Item) /\ read' = Append(read, item)
      /\ data' = [d \in Data |-> IF IsInput(item) /\ Match(d) /\ ~data[d].used
                                 THEN FieldLayout
                                 ELSE data[d]]
  BY DEF Takes, TypeOK
<1>2. PICK n : n = Here
  OBVIOUS
<1>3. /\ n \in Nat \ {0} /\ n \in 1..Here /\ read'[n] = item
      /\ DOMAIN read = 1..(n - 1) /\ DOMAIN read' = 1..n
      /\ \A j \in 1..(n - 1) : read'[j] = read[j] /\ j \in 1..Here
  <2>1. /\ n \in Nat \ {0} /\ Len(read) = n - 1 /\ Len(read') = n /\ read'[n] = item
        /\ \A j \in 1..(n - 1) : read'[j] = read[j]
    BY <1>1, <1>2, ReadStep DEF Here
  <2>2. DOMAIN read = 1..Len(read) /\ DOMAIN read' = 1..Len(read')
    BY <1>1
  <2>3. n \in 1..Here /\ \A j \in 1..(n - 1) : j \in 1..Here
    BY <1>2, <2>1
  <2> QED BY <2>1, <2>2, <2>3
<1>4. /\ \A j \in 1..n : \A l : LayoutOf(l, j)' <=> LayoutOf(l, j)
      /\ \A j \in 1..n : \A d : UsageIs(d, j)' <=> UsageIs(d, j)
  <2>1. \A j \in 1..n : j \in 1..Here
    BY <1>2, <1>3
  <2>2. ASSUME NEW j \in 1..n
        PROVE  (\A l : LayoutOf(l, j)' <=> LayoutOf(l, j))
               /\ (\A d : UsageIs(d, j)' <=> UsageIs(d, j))
    BY <1>1, <2>1, LayoutKept, Zenon
  <2> QED BY <2>2, Zenon
<1> SUFFICES ASSUME NarrowUsages', NEW d \in Data
             PROVE  /\ data'[d].used <=> FieldsOf(d)' # {}
                    /\ data'[d].used =>
                           \A i \in {FieldOf(d)'}, l \in {data'[d]} : LayoutOf(l, i)'
  BY Zenon DEF FieldsInv
<1>5. NarrowUsages
  <2>1. \A j \in 1..(n - 1) : j \in 1..n /\ read'[j] = read[j]
    BY <1>3
  <2> QED BY <1>3, <2>1 DEF NarrowUsages
<1> DEFINE old == FieldsOf(d)
           new == FieldsOf(d)'
<1>6. old = {j \in 1..(n - 1) : IsInput(read[j]) /\ UsageIs(d, j)}
  BY <1>3 DEF FieldsOf, UsageIs
<1>7. new = {j \in 1..n : IsInput(read'[j]) /\ UsageIs(d, j)'}
  BY <1>3 DEF FieldsOf, UsageIs, IsInput
<1>8. Match(d) <=> UsageIs(d, n)
  BY <1>2, <1>5, MatchIsUsage
<1>9. \A j : j \in new <=> j \in old \/ (j = n /\ IsInput(item) /\ Match(d))
  <2>1. \A j : j \in 1..n <=> j \in 1..(n - 1) \/ j = n
    BY <1>3
  <2>2. n \notin 1..(n - 1)
    BY <1>3
  <2> HIDE DEF old, new
  <2> QED BY <1>3, <1>4, <1>6, <1>7, <1>8, <2>1, <2>2
<1>10. old \subseteq 1..(n - 1)
  BY <1>6
<1>11. /\ data[d].used <=> old # {}
       /\ data[d].used => \A i \in {FieldOf(d)}, l \in {data[d]} : LayoutOf(l, i)
  BY <1>5, Zenon DEF FieldsInv
<1>12. FieldOf(d) = FirstOf(old) /\ FieldOf(d)' = FirstOf(new)
  BY DEF FieldOf
<1>13. ASSUME old # {}, FirstOf(new) = FirstOf(old), data'[d] = data[d]
       PROVE  \A i \in {FieldOf(d)'}, l \in {data'[d]} : LayoutOf(l, i)'
  <2> SUFFICES ASSUME NEW i, NEW l, i = FieldOf(d)', l = data'[d] PROVE LayoutOf(l, i)'
    OBVIOUS
  <2>1. i = FieldOf(d) /\ l = data[d]
    BY <1>12, <1>13
  <2>2. LayoutOf(l, i)
    BY <1>11, <1>13, <2>1, Zenon
  <2>3. i \in 1..n
    <3>1. old \subseteq Nat
      BY <1>10
    <3>2. FirstOf(old) \in old
      BY <1>13, <3>1, FirstFacts, Zenon
    <3>3. i \in 1..(n - 1)
      BY <1>10, <1>12, <2>1, <3>2, Zenon
    <3>4. n \in Nat
      BY <1>3
    <3> HIDE DEF old
    <3> QED BY <3>3, <3>4
  <2> QED BY <1>4, <2>2, <2>3, Zenon
<1>14. CASE ~(IsInput(item) /\ Match(d))
  <2>1. data'[d] = data[d]
    BY <1>1, <1>14
  <2>2. new = old
    <3> HIDE DEF old, new
    <3> QED BY <1>9, <1>14, Zenon
  <2> HIDE DEF old, new
  <2>3. old # {} => \A i \in {FieldOf(d)'}, l \in {data'[d]} : LayoutOf(l, i)'
    BY <1>13, <2>1, <2>2, Zenon
  <2> QED BY <1>11, <2>1, <2>2, <2>3, Zenon DEF new
<1>15. CASE IsInput(item) /\ Match(d) /\ old # {}
  <2>1. data'[d] = data[d]
    BY <1>1, <1>11, <1>15
  <2>2. new = old \cup {n}
    <3> HIDE DEF old, new
    <3>1. \A j : j \in new <=> j \in old \cup {n}
      BY <1>9, <1>15, Zenon
    <3> QED BY <3>1, Zenon
  <2>3. FirstOf(new) = FirstOf(old)
    <3> HIDE DEF old, new
    <3> QED BY <1>3, <1>10, <1>15, <2>2, FirstKept
  <2> HIDE DEF old
  <2>4. new # {}
    BY <2>2
  <2>5. \A i \in {FieldOf(d)'}, l \in {data'[d]} : LayoutOf(l, i)'
    BY <1>13, <1>15, <2>1, <2>3, Zenon
  <2> QED BY <1>11, <1>15, <2>1, <2>4, <2>5, Zenon
<1>16. CASE IsInput(item) /\ Match(d) /\ old = {}
  <2>1. data'[d] = FieldLayout
    BY <1>1, <1>11, <1>16
  <2>2. new = {n}
    <3> HIDE DEF old, new
    <3>1. \A j : j \in new <=> j \in {n}
      BY <1>9, <1>16, Zenon
    <3> QED BY <3>1, Zenon
  <2>3. FieldOf(d)' = n
    <3> HIDE DEF new
    <3> QED BY <1>3, <1>12, <2>2, FirstKept
  <2>4. \A i \in {FieldOf(d)'}, l \in {data'[d]} : LayoutOf(l, i)'
    <3> SUFFICES ASSUME NEW i, NEW l, i = FieldOf(d)', l = data'[d] PROVE LayoutOf(l, i)'
      OBVIOUS
    <3>1. i = n /\ l = FieldLayout
      BY <2>1, <2>3
    <3>2. LayoutOf(FieldLayout, Here)
      BY LayoutHere
    <3>3. LayoutOf(l, i)
      BY <1>2, <3>1, <3>2
    <3>4. i \in 1..n
      BY <1>3, <3>1
    <3> QED BY <1>4, <3>3, <3>4, Zenon
  <2>5. data'[d].used
    BY <2>1 DEF FieldLayout
  <2>6. new # {}
    BY <2>2
  <2> QED BY <2>4, <2>5, <2>6, Zenon
<1> QED BY <1>14, <1>15, <1>16
-----------------------------------------------------------------------------
(* The invariant is one.                                                   *)

\* Before the first item nothing is set.
LEMMA InitialInv == Init => ParserInv
<1> SUFFICES ASSUME Init PROVE ParserInv
  OBVIOUS
<1>1. read = <<>> /\ Len(read) = 0 /\ Here = 1 /\ DOMAIN read = {} /\ read \in Seq(Item)
  BY DEF Init, Here
<1>2. \A t : Setting(t, Here) = {}
  BY <1>1 DEF Setting
<1>3. Reaching(Here) = {}
  BY <1>1 DEF Reaching
<1>4. \A d : FieldsOf(d) = {}
  BY <1>1 DEF FieldsOf
<1>5. PICK g \in Int : /\ globals = [t \in GlobalTag |-> [set |-> FALSE, value |-> g]]
                       /\ usage = [set |-> FALSE, value |-> g]
  BY GarbageAssumption DEF Init, GarbageAssumption
<1>6. TypeOK
  <2>1. Len(ItemsAt) \in Nat
    BY ItemsAssumption DEF ItemsAssumption
  <2>2. globals \in [GlobalTag -> Optional] /\ usage \in Optional
    BY <1>5 DEF Optional
  <2>3. data \in [Data -> Layout]
    BY DEF Init, Layout, Optional, Byte
  <2>4. DOMAIN value = Data
    BY DEF Init
  <2> QED BY <1>1, <2>1, <2>2, <2>3, <2>4 DEF Init, TypeOK
<1>7. ShortItems
  BY <1>1 DEF ShortItems
<1>8. GlobalsInv
  BY <1>2, <1>5 DEF GlobalsInv
<1>9. UsageInv
  BY <1>3, <1>5 DEF UsageInv
<1>10. BitInv
  BY <1>2 DEF BitInv
<1>11. FieldsInv
  BY <1>4 DEF FieldsInv, Init
<1> QED BY <1>6, <1>7, <1>8, <1>9, <1>10, <1>11 DEF ParserInv

\* A step that parses nothing keeps what relates the parser to its items.
LEMMA QuietStep ==
    ASSUME ParserInv, TypeOK', UNCHANGED <<read, globals, usage, actualBit, data>>
    PROVE  ParserInv'
<1>1. ShortItems'
  BY DEF ParserInv, ShortItems
<1>2. Here' = Here /\ \A i : /\ \A t : Setting(t, i)' = Setting(t, i) /\ GlobalAt(t, i)' = GlobalAt(t, i)
                             /\ Reaching(i)' = Reaching(i) /\ UsageAt(i)' = UsageAt(i)
                             /\ Preceding(i)' = Preceding(i)
  BY DEF Here, Setting, GlobalAt, Reaching, UsageAt, Preceding, LastOf, IsInput
<1>3. \A i : (HasLayout(i)' <=> HasLayout(i)) /\ SizeAt(i)' = SizeAt(i)
  BY <1>2 DEF HasLayout, SizeAt
<1>4. \A i : BitsBefore(i)' = BitsBefore(i)
  BY <1>2, <1>3 DEF BitsBefore
<1>5. \A i : FlagsOnly(i)' <=> FlagsOnly(i)
  BY <1>2, <1>3 DEF FlagsOnly
<1>6. \A i, l : LayoutOf(l, i)' <=> LayoutOf(l, i)
  BY <1>2, <1>4, <1>5 DEF LayoutOf
<1>7. GlobalsInv'
  BY <1>2 DEF ParserInv, GlobalsInv, Here, Setting
<1>8. UsageInv'
  BY <1>2 DEF ParserInv, UsageInv, Here, Reaching, UsageAt
<1>9. BitInv'
  BY DEF ParserInv, BitInv, Here, Setting, FlagsOnly, Preceding, HasLayout, SizeAt, GlobalAt, BitsBefore, IsInput
<1>10. FieldsInv'
  <2>1. NarrowUsages' <=> NarrowUsages
    BY DEF NarrowUsages
  <2>2. \A d : FieldsOf(d)' = FieldsOf(d)
    BY <1>2 DEF FieldsOf, IsInput
  <2>3. \A d : FieldOf(d)' = FieldOf(d)
    BY <2>2 DEF FieldOf
  <2> QED BY <1>6, <2>1, <2>2, <2>3, Zenon DEF ParserInv, FieldsInv
<1> QED BY <1>1, <1>7, <1>8, <1>9, <1>10 DEF ParserInv

\* The parser keeps its types, and stores what its items say.
THEOREM Invariance == Spec => []ParserInv
<1>1. Init => ParserInv
  BY InitialInv
<1>2. ASSUME ParserInv, [Next]_vars PROVE ParserInv'
  <2>1. TypeOK
    BY <1>2 DEF ParserInv
  <2>2. CASE ParseItem
    <3>1. PICK item : Takes(item)
      BY <2>1, <2>2, ParseTakes
    <3> QED BY <1>2, <3>1, TypesStep, GlobalsStep, UsageStep, BitStep, FieldsStep DEF ParserInv
  <2>3. CASE EndOfDescriptor
    <3>1. UNCHANGED <<read, globals, usage, actualBit, data>> /\ TypeOK'
      BY <2>1, <2>3 DEF EndOfDescriptor, TypeOK
    <3> QED BY <1>2, <3>1, QuietStep
  <2>4. CASE HidReportData
    <3>1. UNCHANGED <<read, globals, usage, actualBit, data>> /\ TypeOK'
      BY <2>1, <2>4 DEF HidReportData, TypeOK
    <3> QED BY <1>2, <3>1, QuietStep
  <2>5. CASE UNCHANGED vars
    <3>1. UNCHANGED <<read, globals, usage, actualBit, data>> /\ TypeOK'
      BY <2>1, <2>5 DEF vars, TypeOK
    <3> QED BY <1>2, <3>1, QuietStep
  <2> QED BY <1>2, <2>2, <2>3, <2>4, <2>5 DEF Next
<1> QED BY <1>1, <1>2, PTL DEF Spec

\* Every variable of the parser keeps its type.
THEOREM TypeCorrect == Spec => []TypeOK
<1>1. ParserInv => TypeOK
  BY DEF ParserInv
<1> QED BY <1>1, Invariance, PTL

\* A datum takes its report, its width and its logical range from the items in
\* force at its first input field.
THEOREM FirstFieldCorrect == Spec => []FirstFieldTaken
<1>1. ASSUME ParserInv PROVE FirstFieldTaken
  <2> SUFFICES ASSUME NarrowUsages, NEW d \in Data
               PROVE  /\ data[d].used <=> FieldsOf(d) # {}
                      /\ data[d].used =>
                             LET i == FieldOf(d)
                             IN  /\ HasLayout(i) =>
                                        /\ data[d].reportId = GlobalAt("ReportID", i)[1]
                                        /\ LittleEndian(GlobalAt("ReportSize", i)) \in Byte =>
                                               data[d].width = LittleEndian(GlobalAt("ReportSize", i))
                                 /\ Setting("LogicalMin", i) # {} =>
                                        data[d].logicalMin.value = TwosComplement(GlobalAt("LogicalMin", i))
    BY DEF FirstFieldTaken
  <2>1. /\ data[d].used <=> FieldsOf(d) # {}
        /\ data[d].used => LayoutOf(data[d], FieldOf(d))
    BY <1>1 DEF ParserInv, FieldsInv
  <2>2. \A x \in Byte : x % 256 = x
    BY DEF Byte
  <2> QED BY <2>1, <2>2 DEF LayoutOf, HasLayout
<1> QED BY <1>1, Invariance, PTL

\* A field that follows single bits only, or comes first in its report, is
\* placed where it is.
THEOREM BitFieldsCorrect == Spec => []BitFieldsPlaced
<1>1. ASSUME ParserInv PROVE BitFieldsPlaced
  <2> SUFFICES ASSUME NarrowUsages, NEW d \in Data, data[d].used, HasLayout(FieldOf(d)),
                      \A j \in Preceding(FieldOf(d)) : HasLayout(j) /\ SizeAt(j) = 1,
                      BitsBefore(FieldOf(d)) \in Byte
               PROVE  data[d].place = BitsBefore(FieldOf(d))
    BY DEF BitFieldsPlaced
  <2>1. LayoutOf(data[d], FieldOf(d))
    BY <1>1 DEF ParserInv, FieldsInv
  <2>2. data[d].place = BitsBefore(FieldOf(d)) % 256
    BY <2>1 DEF LayoutOf, FlagsOnly, HasLayout
  <2>3. \A x \in Byte : x % 256 = x
    BY DEF Byte
  <2> QED BY <2>2, <2>3
<1> QED BY <1>1, Invariance, PTL
-----------------------------------------------------------------------------
(* The values.                                                             *)

\* The value of a datum with a physical range is 0: setValue never uses the range.
RangeIsLost == \A d \in Data : Valued(d) /\ PhysicalRange(data[d]) => value[d] = 0

\* No report is read before the descriptor is.
ValueInv == (phase = "parse" => report = NoReport) /\ ValueIsTheBits /\ RangeIsLost

\* What setValue makes of each report, with a physical range and without.
LEMMA ValueInvariant == Spec => []ValueInv
<1> USE DEF ValueIsTheBits, RangeIsLost, Valued, PhysicalRange
<1>1. Init => ValueInv
  BY DEF Init, ValueInv
<1>2. ASSUME TypeOK, ValueInv, [Next]_vars PROVE ValueInv'
  <2>1. CASE ParseItem
    BY <1>2, <2>1 DEF ParseItem, ValueInv
  <2>2. CASE EndOfDescriptor
    BY <1>2, <2>2 DEF EndOfDescriptor, ValueInv, Holds, Fits
  <2>3. CASE HidReportData
    <3>1. phase' = "reports" /\ data' = data /\ report' \in Reports
      BY <2>3 DEF HidReportData
    <3> SUFFICES ASSUME NEW d \in Data, NEW l, l = data[d],
                        l.used, l.reportId = report'.id,
                        l.logicalMin.value # l.logicalMax.value, Holds(report', l)
                 PROVE  /\ ~PhysicalRange(l) => value'[d] = (LittleEndian(report'.bytes) \div Pow2(l.place))
                                                        % Pow2(l.width)
                        /\ PhysicalRange(l) => value'[d] = 0
      BY <3>1 DEF ValueInv, Holds, Fits
    <3> DEFINE raw == RawValue(report'.bytes, l.place, l.width)
    <3>2. l \in Layout /\ l.place \in Nat /\ l.width \in Nat /\ l.logicalMin.value \in Int
      <4>1. \A k \in Layout : k.place \in Nat /\ k.width \in Nat /\ k.logicalMin.value \in Int
        BY DEF Layout, Optional, Byte
      <4>2. l \in Layout
        BY <1>2 DEF TypeOK
      <4> QED BY <4>1, <4>2
    <3>3. report'.bytes \in Seq(Byte)
      BY <3>1, ReportsAssumption DEF ReportsAssumption
    <3>4. raw = (LittleEndian(report'.bytes) \div Pow2(l.place)) % Pow2(l.width)
      BY <3>2, <3>3, RawValueIsTheBits DEF Holds
    <3>5. raw \in Int
      <4>1. /\ LittleEndian(report'.bytes) \in Nat
            /\ Pow2(l.place) \in Nat \ {0} /\ Pow2(l.width) \in Nat \ {0}
        BY <3>2, <3>3, UnsignedType, PowType DEF LittleEndian
      <4> DEFINE x == LittleEndian(report'.bytes)
                 p == Pow2(l.place)
                 w == Pow2(l.width)
      <4> HIDE DEF x, p, w
      <4>2. (x \div p) % w \in Int
        BY <4>1, DivMod DEF x, p, w
      <4> QED BY <3>4, <4>2 DEF x, p, w
    <3>6. value'[d] = Scaled(raw, l)
      BY <2>3 DEF HidReportData
    <3>7. /\ ~PhysicalRange(l) => Scaled(raw, l) = (raw - l.logicalMin.value) + l.logicalMin.value
          /\ PhysicalRange(l) => Scaled(raw, l) = 0
      BY DEF Scaled
    <3> HIDE DEF raw
    <3>8. (raw - l.logicalMin.value) + l.logicalMin.value = raw
      BY <3>2, <3>5
    <3> QED BY <3>4, <3>6, <3>7, <3>8
  <2>4. CASE UNCHANGED vars
    BY <1>2, <2>4 DEF vars, ValueInv, Holds, Fits
  <2> QED BY <1>2, <2>1, <2>2, <2>3, <2>4 DEF Next
<1> QED BY <1>1, <1>2, TypeCorrect, PTL DEF Spec

\* The value of a datum without a physical range is the bits its layout names in
\* the last report.
THEOREM ValueCorrect == Spec => []ValueIsTheBits
<1>1. ValueInv => ValueIsTheBits
  BY DEF ValueInv
<1> QED BY <1>1, ValueInvariant, PTL

\* The value of a datum with a physical range is 0, whatever the reports hold.
THEOREM RangeLost == Spec => []RangeIsLost
<1>1. ValueInv => RangeIsLost
  BY DEF ValueInv
<1> QED BY <1>1, ValueInvariant, PTL
=============================================================================
