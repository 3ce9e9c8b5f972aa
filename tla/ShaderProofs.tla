---------------------------- MODULE ShaderProofs ----------------------------
(***************************************************************************)
(* The shaders of the search, and what the results on them rest on.        *)
(*                                                                         *)
(* Bigint: every function is exact.  A loop over words is followed from    *)
(* the lowest word up: what its steps have written and the carry make the  *)
(* number they have read.  The reduction replaces R by what it is worth    *)
(* modulo P, and is followed through its passes.  The inverse is a power,  *)
(* by Fermat's theorem the one Euclid's algorithm finds.                   *)
(*                                                                         *)
(* Curve: the shader's formulas are the CPU's.  Scaled by the inverses of  *)
(* the z's, what the one computes is the same modulo P as what the other   *)
(* does; a loop of them is followed by the multiple of the generator that  *)
(* its point stands for.                                                   *)
(*                                                                         *)
(* SearchKernel: the threads of a dispatch find the keys of their places,  *)
(* and the CPU reads what they found.                                      *)
(*                                                                         *)
(* All this takes induction over the numbers, which Least and Induct get   *)
(* from their well-foundedness.                                            *)
(***************************************************************************)
EXTENDS SearchKernel, Bigint, WellFoundedInduction, TLAPS

-----------------------------------------------------------------------------
(* Induction, loops and powers                                             *)

\* A set of numbers that is not empty has a least one.
LEMMA Least == \A T \in SUBSET Nat : T # {} => \E x \in T : \A y \in T : x <= y
<1> SUFFICES ASSUME NEW T \in SUBSET Nat, T # {} PROVE \E x \in T : \A y \in T : x <= y
  OBVIOUS
<1>1. PICK x \in T : \A y \in T : ~ (<<y, x>> \in OpToRel(<, Nat))
  BY WFMin, NatLessThanWellFounded
<1>2. \A y \in T : ~(y < x)
  BY <1>1 DEF OpToRel
<1> QED BY <1>2

\* Induction over the numbers.
LEMMA Induct == 
  ASSUME NEW S, 0 \in S, \A n \in Nat : n \in S => n+1 \in S
  PROVE Nat \subseteq S
<1> DEFINE T == Nat \ S
<1>1. SUFFICES ASSUME T # {} PROVE FALSE
  OBVIOUS
<1>2. PICK x \in T : \A y \in T : x <= y
  BY <1>1, Least
<1>3. x # 0 /\ x - 1 \in Nat /\ x - 1 \notin T
  BY <1>2
<1> QED BY <1>3

\* The recursive function of a loop exists, and what it takes from pass to pass.
LEMMA LoopUnfolds ==
    ASSUME NEW first, NEW step
    PROVE  /\ Repeat(first, step, 0) = first
           /\ \A i \in Nat : Repeat(first, step, i + 1) = step[i + 1][Repeat(first, step, i)]
<1> DEFINE Segment(f, n) == f = [i \in 0..n |-> IF i = 0 THEN first ELSE step[i][f[i - 1]]]
           Run(f) == f = [i \in Nat |-> IF i = 0 THEN first ELSE step[i][f[i - 1]]]
           Known == {n \in Nat : \E f : Segment(f, n)}
<1>1. Nat \subseteq Known
  <2>1. 0 \in Known
    <3>1. Segment([i \in 0..0 |-> first], 0)
      OBVIOUS
    <3> QED BY <3>1
  <2>2. ASSUME NEW n \in Nat, n \in Known PROVE n + 1 \in Known
    <3>1. PICK f : Segment(f, n)
      BY <2>2
    <3> DEFINE g == [i \in 0..(n + 1) |-> IF i = n + 1 THEN step[i][f[n]] ELSE f[i]]
    <3>2. ASSUME NEW i \in 0..(n + 1) PROVE g[i] = IF i = 0 THEN first ELSE step[i][g[i - 1]]
      <4>1. CASE i = n + 1
        BY <4>1
      <4>2. CASE i # n + 1
        <5>1. i \in 0..n /\ g[i] = f[i] /\ (i # 0 => g[i - 1] = f[i - 1])
          BY <4>2
        <5> HIDE DEF g
        <5> QED BY <3>1, <5>1
      <4> QED BY <4>1, <4>2
    <3>3. Segment(g, n + 1)
      <4> DEFINE body == [i \in 0..(n + 1) |-> IF i = 0 THEN first ELSE step[i][g[i - 1]]]
      <4>1. g = [i \in 0..(n + 1) |-> g[i]]
        OBVIOUS
      <4>2. DOMAIN g = 0..(n + 1)
        OBVIOUS
      <4> HIDE DEF g
      <4> QED BY <3>2, <4>1
    <3> HIDE DEF g, Segment
    <3> QED BY <3>3
  <2> HIDE DEF Known
  <2> QED BY <2>1, <2>2, Induct
<1>2. ASSUME NEW f, NEW g, NEW m \in Nat, NEW n \in Nat, Segment(f, m), Segment(g, n)
      PROVE  \A i \in Nat : i <= m /\ i <= n => f[i] = g[i]
  <2> DEFINE Same == {i \in Nat : i <= m /\ i <= n => f[i] = g[i]}
  <2>1. 0 \in Same
    BY <1>2
  <2>2. ASSUME NEW i \in Nat, i \in Same PROVE i + 1 \in Same
    <3> SUFFICES ASSUME i + 1 <= m, i + 1 <= n PROVE f[i + 1] = g[i + 1]
      OBVIOUS
    <3>1. f[i + 1] = step[i + 1][f[i]] /\ g[i + 1] = step[i + 1][g[i]]
      BY <1>2
    <3> QED BY <2>2, <3>1
  <2> HIDE DEF Same
  <2>3. Nat \subseteq Same
    BY <2>1, <2>2, Induct
  <2> QED BY <2>3 DEF Same
<1>3. PICK s : s = [n \in Nat |-> CHOOSE f : Segment(f, n)]
  OBVIOUS
<1>4. \A n \in Nat : Segment(s[n], n)
  <2> SUFFICES ASSUME NEW n \in Nat PROVE Segment(s[n], n)
    OBVIOUS
  <2>1. \E f : Segment(f, n)
    BY <1>1
  <2> HIDE DEF Segment
  <2> QED BY <1>3, <2>1
<1>5. ASSUME NEW i \in Nat PROVE s[i][i] = IF i = 0 THEN first ELSE step[i][s[i - 1][i - 1]]
  <2>1. Segment(s[i], i)
    BY <1>4
  <2>2. CASE i = 0
    BY <2>1, <2>2
  <2>3. CASE i # 0
    <3>1. i - 1 \in Nat /\ i - 1 <= i
      BY <2>3
    <3>2. Segment(s[i - 1], i - 1)
      <4> HIDE DEF Segment
      <4> QED BY <1>4, <3>1
    <3>3. s[i][i - 1] = s[i - 1][i - 1]
      <4> HIDE DEF Segment
      <4> QED BY <1>2, <2>1, <3>1, <3>2
    <3>4. s[i][i] = step[i][s[i][i - 1]]
      BY <2>1, <2>3
    <3> QED BY <2>3, <3>3, <3>4
  <2> QED BY <2>2, <2>3
<1> DEFINE h == [n \in Nat |-> s[n][n]]
<1>6. Run(h)
  <2>1. \A i \in Nat : h[i] = IF i = 0 THEN first ELSE step[i][h[i - 1]]
    BY <1>5
  <2>2. h = [i \in Nat |-> h[i]]
    OBVIOUS
  <2> HIDE DEF h
  <2> QED BY <2>1, <2>2
<1> DEFINE after == CHOOSE f : Run(f)
<1>7. Run(after)
  <2> HIDE DEF h, Run
  <2> QED BY <1>6
<1>8. /\ after[0] = first
      /\ \A i \in Nat : after[i + 1] = step[i + 1][after[i]]
  <2> HIDE DEF after
  <2> QED BY <1>7
<1>9. \A n : Repeat(first, step, n) = after[n]
  BY DEF Repeat
<1> HIDE DEF after
<1> QED BY <1>8, <1>9

\* f gives for every state of S what a loop returns that is entered with it.
While(f, S, Stop, next, atStop) == f = [e \in S |-> IF e \in Stop THEN atStop[e] ELSE f[next[e]]]

\* There is such a function if the loop ends: some size falls with each pass.
LEMMA WhileExists ==
    ASSUME NEW S, NEW Stop, NEW next, NEW atStop, NEW size \in [S -> Nat],
           \A e \in S : e \notin Stop => next[e] \in S /\ size[next[e]] < size[e]
    PROVE  \E f : While(f, S, Stop, next, atStop)
<1> DEFINE Good(f, n) == \A e \in S : size[e] <= n =>
                            f[e] = IF e \in Stop THEN atStop[e] ELSE f[next[e]]
           Known == {n \in Nat : \E f : Good(f, n)}
<1>1. /\ \A e \in S : size[e] \in Nat
      /\ \A e \in S : size[e] = 0 => e \in Stop
  OBVIOUS
<1>2. Nat \subseteq Known
  <2>1. 0 \in Known
    <3> DEFINE f == [e \in S |-> atStop[e]]
    <3>1. Good(f, 0)
      BY <1>1
    <3> HIDE DEF f, Good
    <3> QED BY <3>1
  <2>2. ASSUME NEW n \in Nat, n \in Known PROVE n + 1 \in Known
    <3>1. PICK f : Good(f, n)
      BY <2>2
    <3> DEFINE h == [e \in S |-> IF size[e] <= n THEN f[e]
                              ELSE IF e \in Stop THEN atStop[e] ELSE f[next[e]]]
    <3>2. ASSUME NEW e \in S, size[e] <= n + 1
          PROVE  h[e] = IF e \in Stop THEN atStop[e] ELSE h[next[e]]
      <4>1. CASE e \in Stop
        BY <3>1, <4>1
      <4>2. CASE e \notin Stop
        <5>1. /\ next[e] \in S /\ size[next[e]] < size[e]
              /\ size[next[e]] \in Nat /\ size[e] \in Nat
          BY <1>1, <4>2
        <5>2. size[next[e]] <= n
          BY <3>2, <5>1
        <5>3. h[next[e]] = f[next[e]]
          BY <5>1, <5>2
        <5>4. h[e] = IF size[e] <= n THEN f[e] ELSE f[next[e]]
          BY <4>2
        <5> HIDE DEF h
        <5>5. size[e] <= n => f[e] = f[next[e]]
          BY <3>1, <4>2
        <5> QED BY <4>2, <5>3, <5>4, <5>5
      <4> QED BY <4>1, <4>2
    <3> HIDE DEF h
    <3>3. Good(h, n + 1)
      BY <3>2
    <3> HIDE DEF Good
    <3> QED BY <3>3
  <2> HIDE DEF Known
  <2> QED BY <2>1, <2>2, Induct
<1>3. ASSUME NEW f, NEW h, NEW m \in Nat, NEW n \in Nat, Good(f, m), Good(h, n)
      PROVE  \A e \in S : size[e] <= m /\ size[e] <= n => f[e] = h[e]
  <2> DEFINE Agree == {i \in Nat : \A e \in S : size[e] <= i /\ size[e] <= m /\ size[e] <= n => f[e] = h[e]}
  <2>1. 0 \in Agree
    <3> SUFFICES ASSUME NEW e \in S, size[e] <= 0, size[e] <= m, size[e] <= n PROVE f[e] = h[e]
      OBVIOUS
    <3>1. e \in Stop
      BY <1>1
    <3> QED BY <1>3, <3>1
  <2>2. ASSUME NEW i \in Nat, i \in Agree PROVE i + 1 \in Agree
    <3> SUFFICES ASSUME NEW e \in S, size[e] <= i + 1, size[e] <= m, size[e] <= n PROVE f[e] = h[e]
      OBVIOUS
    <3>1. CASE e \in Stop
      BY <1>3, <3>1
    <3>2. CASE e \notin Stop
      <4>1. /\ next[e] \in S /\ size[next[e]] < size[e]
            /\ size[next[e]] \in Nat /\ size[e] \in Nat
        BY <1>1, <3>2
      <4>2. size[next[e]] <= i /\ size[next[e]] <= m /\ size[next[e]] <= n
        BY <4>1
      <4>3. f[next[e]] = h[next[e]]
        BY <2>2, <4>1, <4>2
      <4>4. f[e] = f[next[e]] /\ h[e] = h[next[e]]
        BY <1>3, <3>2
      <4> QED BY <4>3, <4>4
    <3> QED BY <3>1, <3>2
  <2>3. Nat \subseteq Agree
    <3> HIDE DEF Agree
    <3> QED BY <2>1, <2>2, Induct
  <2> SUFFICES ASSUME NEW e \in S, size[e] <= m, size[e] <= n PROVE f[e] = h[e]
    OBVIOUS
  <2>4. size[e] \in Nat
    BY <1>1
  <2>5. size[e] \in Agree /\ size[e] <= size[e]
    BY <2>3, <2>4
  <2> QED BY <2>5
<1> DEFINE c(n) == CHOOSE f : Good(f, n)
           F == [e \in S |-> c(size[e])[e]]
<1>4. \A n \in Nat : Good(c(n), n)
  <2> HIDE DEF Good
  <2> QED BY <1>2
<1> HIDE DEF c
<1>5. ASSUME NEW e \in S
      PROVE  F[e] = IF e \in Stop THEN atStop[e] ELSE F[next[e]]
  <2>1. F[e] = c(size[e])[e]
    OBVIOUS
  <2>2. size[e] \in Nat /\ size[e] <= size[e]
    BY <1>1
  <2>3. c(size[e])[e] = IF e \in Stop THEN atStop[e] ELSE c(size[e])[next[e]]
    BY <1>4, <2>2
  <2>4. CASE e \notin Stop
    <3>1. /\ next[e] \in S /\ size[next[e]] < size[e]
          /\ size[next[e]] \in Nat
      BY <1>1, <2>4
    <3>2. F[next[e]] = c(size[next[e]])[next[e]]
      BY <3>1
    <3>3. Good(c(size[e]), size[e]) /\ Good(c(size[next[e]]), size[next[e]])
      BY <1>4, <2>2, <3>1
    <3>4. size[next[e]] <= size[e] /\ size[next[e]] <= size[next[e]]
      BY <2>2, <3>1
    <3> HIDE DEF Good
    <3>5. c(size[e])[next[e]] = c(size[next[e]])[next[e]]
      BY <1>3, <2>2, <3>1, <3>3, <3>4
    <3> QED BY <2>1, <2>3, <2>4, <3>2, <3>5
  <2> QED BY <2>1, <2>3, <2>4
<1>6. F = [e \in S |-> F[e]]
  OBVIOUS
<1> HIDE DEF F
<1>7. While(F, S, Stop, next, atStop)
  BY <1>5, <1>6 DEF While
<1> QED BY <1>7

\* A power, one factor at a time.
LEMMA PowerUnfolds ==
    ASSUME NEW b \in Int
    PROVE  /\ Power(b, 0) = 1
           /\ \A n \in Nat : Power(b, n) \in Int /\ Power(b, n + 1) = b * Power(b, n)
<1> DEFINE step == [i \in Nat |-> [x \in Int |-> b * x]]
           p(n) == Repeat(1, step, n)
<1>1. p(0) = 1 /\ \A n \in Nat : p(n + 1) = step[n + 1][p(n)]
  <2> HIDE DEF step
  <2> QED BY LoopUnfolds
<1> DEFINE Known == {n \in Nat : p(n) \in Int /\ p(n + 1) = b * p(n)}
<1>2. ASSUME NEW n \in Nat, p(n) \in Int PROVE p(n + 1) = b * p(n)
  <2>1. step[n + 1] = [x \in Int |-> b * x]
    OBVIOUS
  <2>2. p(n + 1) = step[n + 1][p(n)]
    BY <1>1
  <2> HIDE DEF step, p
  <2> QED BY <1>2, <2>1, <2>2
<1>3. Nat \subseteq Known
  <2> HIDE DEF p, step
  <2>1. 0 \in Known
    BY <1>1, <1>2
  <2>2. ASSUME NEW n \in Nat, n \in Known PROVE n + 1 \in Known
    <3>1. p(n + 1) \in Int
      BY <2>2
    <3> QED BY <1>2, <3>1
  <2> HIDE DEF Known
  <2> QED BY <2>1, <2>2, Induct
<1> QED BY <1>1, <1>3 DEF Power

\* A power is a number.
LEMMA PowerInt == ASSUME NEW b \in Int, NEW n \in Nat PROVE Power(b, n) \in Int
  BY PowerUnfolds

\* The powers of a sum, of a product and of a power.
LEMMA PowerAdds ==
    ASSUME NEW b \in Int, NEW m \in Nat
    PROVE  \A n \in Nat : Power(b, m + n) = Power(b, m) * Power(b, n)
<1> DEFINE Known == {n \in Nat : Power(b, m + n) = Power(b, m) * Power(b, n)}
<1>1. 0 \in Known
  BY PowerUnfolds
<1>2. ASSUME NEW n \in Nat, n \in Known PROVE n + 1 \in Known
  <2>1. /\ Power(b, (m + n) + 1) = b * Power(b, m + n)
        /\ Power(b, n + 1) = b * Power(b, n)
        /\ Power(b, m) \in Int /\ Power(b, n) \in Int
    BY PowerUnfolds, m + n \in Nat
  <2>2. (m + n) + 1 = m + (n + 1)
    OBVIOUS
  <2> QED BY <1>2, <2>1, <2>2
<1> HIDE DEF Known
<1>3. Nat \subseteq Known
  BY <1>1, <1>2, Induct
<1> QED BY <1>3 DEF Known

LEMMA PowerOfProduct ==
    ASSUME NEW a \in Int, NEW b \in Int
    PROVE  \A n \in Nat : Power(a * b, n) = Power(a, n) * Power(b, n)
<1> DEFINE Known == {n \in Nat : Power(a * b, n) = Power(a, n) * Power(b, n)}
<1>0. a * b \in Int
  OBVIOUS
<1>1. 0 \in Known
  BY <1>0, PowerUnfolds
<1>2. ASSUME NEW n \in Nat, n \in Known PROVE n + 1 \in Known
  <2>1. /\ Power(a * b, n + 1) = (a * b) * Power(a * b, n)
        /\ Power(a, n + 1) = a * Power(a, n) /\ Power(b, n + 1) = b * Power(b, n)
        /\ Power(a, n) \in Int /\ Power(b, n) \in Int
    BY <1>0, PowerUnfolds
  <2> QED BY <1>2, <2>1
<1> HIDE DEF Known
<1>3. Nat \subseteq Known
  BY <1>1, <1>2, Induct
<1> QED BY <1>3 DEF Known

LEMMA PowerOfPower ==
    ASSUME NEW b \in Int, NEW m \in Nat
    PROVE  \A n \in Nat : Power(Power(b, m), n) = Power(b, m * n)
<1> DEFINE Known == {n \in Nat : Power(Power(b, m), n) = Power(b, m * n)}
<1>1. Power(b, m) \in Int
  BY PowerInt
<1>2. 0 \in Known
  <2>1. m * 0 = 0 /\ Power(b, 0) = 1 /\ Power(Power(b, m), 0) = 1
    BY <1>1, PowerUnfolds
  <2> QED BY <2>1
<1>3. ASSUME NEW n \in Nat, n \in Known PROVE n + 1 \in Known
  <2>1. Power(Power(b, m), n + 1) = Power(b, m) * Power(Power(b, m), n)
    BY <1>1, PowerUnfolds
  <2>2. m * n \in Nat /\ m * (n + 1) = m + m * n
    OBVIOUS
  <2>3. Power(b, m + m * n) = Power(b, m) * Power(b, m * n)
    BY <2>2, PowerAdds
  <2> QED BY <1>3, <2>1, <2>2, <2>3
<1>4. Nat \subseteq Known
  <2> HIDE DEF Known
  <2> QED BY <1>2, <1>3, Induct
<1> QED BY <1>4

\* The powers of a number above 1 are greater than their exponents.
LEMMA PowerGrows ==
    ASSUME NEW b \in Nat, b >= 2
    PROVE  \A n \in Nat : Power(b, n) \in Nat \ {0} /\ Power(b, n) > n
<1> DEFINE Known == {n \in Nat : Power(b, n) \in Nat \ {0} /\ Power(b, n) > n}
<1>1. 0 \in Known
  <2>1. b \in Int
    OBVIOUS
  <2>2. Power(b, 0) = 1
    BY <2>1, PowerUnfolds
  <2> QED BY <2>2
<1>2. ASSUME NEW n \in Nat, n \in Known PROVE n + 1 \in Known
  <2>1. Power(b, n + 1) = b * Power(b, n)
    BY PowerUnfolds
  <2>2. b * Power(b, n) >= 2 * Power(b, n)
    BY <1>2
  <2> QED BY <1>2, <2>1, <2>2
<1> HIDE DEF Known
<1>3. Nat \subseteq Known
  BY <1>1, <1>2, Induct
<1> QED BY <1>3 DEF Known

\* A factor keeps an order.
LEMMA Times ==
    ASSUME NEW a \in Nat, NEW b \in Int, NEW c \in Int, b <= c
    PROVE  a * b <= a * c
  OBVIOUS

\* Division with a remainder.
LEMMA DivMod ==
    ASSUME NEW d \in Nat \ {0}, NEW n \in Int
    PROVE  /\ n \div d \in Int /\ (n % d) \in 0..(d - 1) /\ n = d * (n \div d) + (n % d)
           /\ n \in Nat => n \div d \in Nat
  OBVIOUS

\* What a counted loop keeps: I[i] holds its states after i passes.
LEMMA RepeatKeeps ==
    ASSUME NEW first, NEW step, NEW n \in Nat, NEW I, first \in I[0],
           \A i \in 0..(n - 1) : \A s \in I[i] : step[i + 1][s] \in I[i + 1]
    PROVE  \A i \in 0..n : Repeat(first, step, i) \in I[i]
<1> DEFINE Known == {i \in Nat : i <= n => Repeat(first, step, i) \in I[i]}
<1>1. 0 \in Known
  BY LoopUnfolds
<1>2. ASSUME NEW i \in Nat, i \in Known PROVE i + 1 \in Known
  <2> SUFFICES ASSUME i + 1 <= n PROVE Repeat(first, step, i + 1) \in I[i + 1]
    OBVIOUS
  <2>1. Repeat(first, step, i) \in I[i] /\ i \in 0..(n - 1)
    BY <1>2
  <2>2. Repeat(first, step, i + 1) = step[i + 1][Repeat(first, step, i)]
    BY LoopUnfolds
  <2> QED BY <2>1, <2>2
<1>3. Nat \subseteq Known
  <2> HIDE DEF Known
  <2> QED BY <1>1, <1>2, Induct
<1> QED BY <1>3

\* A number has one quotient and one remainder by d.
LEMMA RemainderIs ==
    ASSUME NEW d \in Nat \ {0}, NEW n \in Int, NEW q \in Int, NEW r \in 0..(d - 1), n = d * q + r
    PROVE  n % d = r /\ n \div d = q
<1>1. n \div d \in Int /\ (n % d) \in 0..(d - 1) /\ n = d * (n \div d) + (n % d)
  BY DivMod
<1>2. PICK u \in Int, t \in 0..(d - 1) : u = n \div d /\ t = n % d
  BY <1>1
<1>3. d * u + t = d * q + r
  BY <1>1, <1>2
<1>4. u = q
  <2>1. CASE u >= q + 1
    <3>1. d * (q + 1) <= d * u /\ d * (q + 1) = d * q + d
      BY <2>1, Times
    <3> QED BY <1>3, <3>1
  <2>2. CASE u + 1 <= q
    <3>1. d * (u + 1) <= d * q /\ d * (u + 1) = d * u + d
      BY <2>2, Times
    <3> QED BY <1>3, <3>1
  <2> QED BY <2>1, <2>2
<1> QED BY <1>2, <1>3, <1>4

\* A number below d is its remainder.
LEMMA SmallRemainder ==
    ASSUME NEW d \in Nat \ {0}, NEW r \in 0..(d - 1)
    PROVE  r % d = r /\ r \div d = 0
<1>1. r = d * 0 + r /\ r \in Int
  OBVIOUS
<1> QED BY <1>1, RemainderIs

\* The remainder of a sum.
LEMMA RemainderOfSum ==
    ASSUME NEW d \in Nat \ {0}, NEW m \in Int, NEW n \in Int
    PROVE  ((m % d) + (n % d)) % d = (m + n) % d
<1>1. PICK u \in Int, r \in 0..(d - 1) : r = m % d /\ m = d * u + r
  BY DivMod
<1>2. PICK v \in Int, s \in 0..(d - 1) : s = n % d /\ n = d * v + s
  BY DivMod
<1>3. PICK w \in Int, t \in 0..(d - 1) : t = (r + s) % d /\ r + s = d * w + t
  <2>1. r + s \in Int
    OBVIOUS
  <2> QED BY <2>1, DivMod
<1>4. m + n = d * (u + v + w) + t /\ m + n \in Int /\ u + v + w \in Int
  <2>1. d * (u + v + w) = d * u + d * v + d * w
    OBVIOUS
  <2>2. m = d * u + r /\ n = d * v + s /\ r + s = d * w + t
    BY <1>1, <1>2, <1>3
  <2>3. PICK du \in Int, dv \in Int, dw \in Int : du = d * u /\ dv = d * v /\ dw = d * w
    OBVIOUS
  <2>4. m + n = du + dv + dw + t
    BY <2>2, <2>3
  <2> QED BY <2>1, <2>3, <2>4
<1>5. (m + n) % d = t
  BY <1>4, RemainderIs
<1> QED BY <1>1, <1>2, <1>3, <1>5

\* A number's quotient and remainder by a divisor and by twice the divisor.
LEMMA HalfOfQuotient ==
    ASSUME NEW n \in Nat, NEW e \in Nat \ {0}
    PROVE  \E h \in Nat, b \in {0, 1}, r \in 0..(e - 1) :
              /\ (n \div e) % 2 = b /\ n \div (2 * e) = h /\ n \div e = h + h + b
              /\ n % e = r /\ n % (2 * e) = e * b + r
<1>1. PICK q \in Nat, r \in 0..(e - 1) : q = n \div e /\ r = n % e /\ n = e * q + r
  <2>1. n \div e \in Nat /\ n % e \in 0..(e - 1) /\ n = e * (n \div e) + (n % e)
    <3>1. n \in Int
      OBVIOUS
    <3> QED BY <3>1, DivMod
  <2> QED BY <2>1
<1>2. PICK h \in Nat, b \in {0, 1} : h = q \div 2 /\ b = q % 2 /\ q = h + h + b
  OBVIOUS
<1>3. PICK d \in Nat \ {0} : d = 2 * e
  OBVIOUS
<1>4. e * b + r \in 0..(d - 1)
  BY <1>3
<1>5. n = d * h + (e * b + r)
  <2>1. n = e * q + r /\ q = h + h + b
    BY <1>1, <1>2
  <2>2. e * (h + h + b) = (2 * e) * h + e * b
    OBVIOUS
  <2> QED BY <1>3, <2>1, <2>2
<1>6. n \div d = h /\ n % d = e * b + r
  BY <1>4, <1>5, RemainderIs
<1> QED BY <1>1, <1>2, <1>3, <1>6

\* Quotients grow with what is divided.
LEMMA QuotientGrows ==
    ASSUME NEW d \in Nat \ {0}, NEW m \in Int, NEW n \in Int, m <= n
    PROVE  m \div d \in Int /\ n \div d \in Int /\ m \div d <= n \div d
<1>1. PICK u \in Int, r \in 0..(d - 1) : u = m \div d /\ m = d * u + r
  BY DivMod
<1>2. PICK v \in Int, s \in 0..(d - 1) : v = n \div d /\ n = d * v + s
  BY DivMod
<1>3. u <= v
  <2> SUFFICES ASSUME v + 1 <= u PROVE FALSE
    OBVIOUS
  <2>1. d * (v + 1) <= d * u /\ d * (v + 1) = d * v + d
    BY Times
  <2>2. m = d * u + r /\ n = d * v + s
    BY <1>1, <1>2
  <2>3. PICK x \in Int, y \in Int : x = d * u /\ y = d * v
    OBVIOUS
  <2> QED BY <2>1, <2>2, <2>3
<1> QED BY <1>1, <1>2, <1>3

\* The powers of two.
LEMMA TwoPowers ==
    /\ Power(2, 0) = 1
    /\ \A j \in Nat : Power(2, j) \in Nat \ {0} /\ Power(2, j + 1) = 2 * Power(2, j)
<1>1. 2 \in Int /\ 2 \in Nat /\ 2 >= 2
  OBVIOUS
<1> QED BY <1>1, PowerUnfolds, PowerGrows

-----------------------------------------------------------------------------
(* Numbers modulo P                                                        *)

\* The modulus.
LEMMA PInt == P \in Nat \ {0} /\ P \in Int /\ P >= 3
  BY FieldAssumption

\* What mod returns.
LEMMA ModTyped ==
    ASSUME NEW n \in Int
    PROVE  mod(n) \in 0..(P - 1)
<1>1. P \in Nat \ {0}
  BY PInt
<1> QED BY <1>1 DEF mod

\* A number of the right range that differs from n by a multiple of P.
LEMMA ModIs ==
    ASSUME NEW n \in Int, NEW e \in Int, NEW v \in 0..(P - 1), v = n - P * e
    PROVE  mod(n) = v
<1>1. PICK p \in Nat \ {0} : p = P
  BY PInt
<1>2. PICK r \in 0..(p - 1) : r = v
  BY <1>1
<1>3. n = p * e + r
  BY <1>1, <1>2
<1>4. n % p = r
  BY <1>3
<1> QED BY <1>1, <1>2, <1>4 DEF mod

\* x and y are the same number modulo P.
Same(x, y) == /\ x \in Int /\ y \in Int
              /\ \E e \in Int : x = y + P * e

\* It is a congruence.
LEMMA SameRefl == ASSUME NEW x \in Int PROVE Same(x, x)
<1>1. x = x + P * 0
  BY PInt
<1> QED BY <1>1 DEF Same

LEMMA SameSym == ASSUME NEW x, NEW y, Same(x, y) PROVE Same(y, x)
<1>1. PICK e \in Int : x = y + P * e
  BY DEF Same
<1>2. x \in Int /\ y \in Int
  BY DEF Same
<1>3. y = x + P * (-e) /\ -e \in Int
  BY <1>1, <1>2, PInt
<1> QED BY <1>2, <1>3 DEF Same

LEMMA SameTrans == ASSUME NEW x, NEW y, NEW z, Same(x, y), Same(y, z) PROVE Same(x, z)
<1>1. x \in Int /\ y \in Int /\ z \in Int
  BY DEF Same
<1>2. PICK d \in Int : x = y + P * d
  BY DEF Same
<1>3. PICK e \in Int : y = z + P * e
  BY DEF Same
<1>4. x = z + P * (d + e) /\ d + e \in Int
  BY <1>1, <1>2, <1>3, PInt
<1> QED BY <1>1, <1>4 DEF Same

LEMMA SameTimes ==
    ASSUME NEW x, NEW y, NEW u, NEW v, Same(x, y), Same(u, v)
    PROVE  Same(x * u, y * v)
<1>1. x \in Int /\ y \in Int /\ u \in Int /\ v \in Int
  BY DEF Same
<1>2. PICK d \in Int : x = y + P * d
  BY DEF Same
<1>3. PICK e \in Int : u = v + P * e
  BY DEF Same
<1>4. PICK p \in Int, a \in Int, b \in Int : p = P /\ a = y /\ b = v
  BY <1>1, PInt
<1>5. (a + p * d) * (b + p * e) = a * b + p * (a * e + d * b + d * (p * e))
  OBVIOUS
<1>6. x * u = y * v + P * (a * e + d * b + d * (p * e))
  BY <1>2, <1>3, <1>4, <1>5
<1>7. a * e + d * b + d * (p * e) \in Int
  OBVIOUS
<1>8. x * u \in Int /\ y * v \in Int
  BY <1>1
<1> QED BY <1>6, <1>7, <1>8 DEF Same

LEMMA SameMinus ==
    ASSUME NEW x, NEW y, NEW u, NEW v, Same(x, y), Same(u, v)
    PROVE  Same(x - u, y - v)
<1>1. x \in Int /\ y \in Int /\ u \in Int /\ v \in Int
  BY DEF Same
<1>2. PICK d \in Int : x = y + P * d
  BY DEF Same
<1>3. PICK e \in Int : u = v + P * e
  BY DEF Same
<1>4. x - u = (y - v) + P * (d - e) /\ d - e \in Int /\ x - u \in Int /\ y - v \in Int
  BY <1>1, <1>2, <1>3, PInt
<1> QED BY <1>4 DEF Same

\* A number and its remainder.
LEMMA SameMod == ASSUME NEW x \in Int PROVE Same(mod(x), x)
<1>1. PICK p \in Nat \ {0} : p = P
  BY PInt
<1>2. x = p * (x \div p) + (x % p) /\ x \div p \in Int
  BY DivMod
<1>3. mod(x) = x + P * (-(x \div p)) /\ -(x \div p) \in Int /\ mod(x) \in Int
  BY <1>1, <1>2 DEF mod
<1> QED BY <1>3 DEF Same

\* There is one of them among the reduced numbers.
LEMMA SameReduced ==
    ASSUME NEW x, NEW v \in 0..(P - 1), Same(x, v)
    PROVE  mod(x) = v
<1>1. x \in Int /\ v \in Int
  BY DEF Same
<1>2. PICK e \in Int : x = v + P * e
  BY DEF Same
<1>3. v = x - P * e
  BY <1>1, <1>2, PInt
<1> QED BY <1>1, <1>3, ModIs

LEMMA SameEqual == ASSUME NEW x, NEW y, Same(x, y) PROVE mod(x) = mod(y)
<1>1. x \in Int /\ y \in Int
  BY DEF Same
<1>2. Same(mod(y), y) /\ mod(y) \in 0..(P - 1)
  BY <1>1, SameMod, ModTyped
<1>3. Same(x, mod(y))
  BY <1>2, SameSym, SameTrans
<1> QED BY <1>2, <1>3, SameReduced

\* Powers of the same number are the same.
LEMMA SamePower ==
    ASSUME NEW x, NEW y, Same(x, y)
    PROVE  \A n \in Nat : Same(Power(x, n), Power(y, n))
<1>1. x \in Int /\ y \in Int
  BY DEF Same
<1> DEFINE Known == {n \in Nat : Same(Power(x, n), Power(y, n))}
<1>2. 0 \in Known
  <2>1. Power(x, 0) = 1 /\ Power(y, 0) = 1 /\ Same(1, 1)
    BY <1>1, PowerUnfolds, SameRefl
  <2> QED BY <2>1
<1>3. ASSUME NEW n \in Nat, n \in Known PROVE n + 1 \in Known
  <2>1. Power(x, n + 1) = x * Power(x, n) /\ Power(y, n + 1) = y * Power(y, n)
    BY <1>1, PowerUnfolds
  <2>2. Same(x * Power(x, n), y * Power(y, n))
    BY <1>3, SameTimes
  <2> QED BY <2>1, <2>2
<1>4. Nat \subseteq Known
  <2> HIDE DEF Known
  <2> QED BY <1>2, <1>3, Induct
<1> QED BY <1>4

\* Reduced numbers that are the same modulo P are equal.
LEMMA ReducedDiffer ==
    ASSUME NEW x \in 0..(P - 1), NEW y \in 0..(P - 1), Same(x, y)
    PROVE  x = y
<1>1. x \in Int /\ y \in Int
  BY PInt
<1>2. mod(x) = y
  BY SameReduced
<1>3. Same(x, x)
  BY <1>1, SameRefl
<1>4. mod(x) = x
  BY <1>3, SameReduced
<1> QED BY <1>2, <1>4

-----------------------------------------------------------------------------
(* The inverse by Euclid's algorithm                                       *)

\* The states of the extended Euclidean algorithm, and its step.
Pair == [g : Nat, x : Int, g1 : Nat, x1 : Int]

Remainder(e) ==
    [g |-> e.g1, x |-> e.x1, g1 |-> e.g - (e.g \div e.g1) * e.g1, x1 |-> e.x - (e.g \div e.g1) * e.x1]

\* f is the recursive function of modInv.
Euclid(f) == f = [e \in Pair |-> IF e.g1 = 0 THEN mod(e.x) ELSE f[Remainder(e)]]

\* The second component falls.
LEMMA RemainderLess ==
    ASSUME NEW e \in Pair, e.g1 # 0
    PROVE  /\ Remainder(e) \in Pair /\ Remainder(e).g1 < e.g1
           /\ Remainder(e).g = e.g1 /\ Remainder(e).x = e.x1
           /\ e.g \div e.g1 \in Int
           /\ Remainder(e).g1 = e.g - (e.g \div e.g1) * e.g1
           /\ Remainder(e).x1 = e.x - (e.g \div e.g1) * e.x1
<1>1. e.g \in Nat /\ e.x \in Int /\ e.g1 \in Nat /\ e.x1 \in Int
  BY DEF Pair
<1>2. PICK g \in Nat, d \in Nat \ {0}, x \in Int, y \in Int : g = e.g /\ d = e.g1 /\ x = e.x /\ y = e.x1
  BY <1>1
<1>3. g \div d \in Int /\ g - (g \div d) * d \in 0..(d - 1)
  OBVIOUS
<1>4. x - (g \div d) * y \in Int
  BY <1>3
<1>5. /\ Remainder(e).g = d /\ Remainder(e).x = y
      /\ Remainder(e).g1 = g - (g \div d) * d /\ Remainder(e).x1 = x - (g \div d) * y
  BY <1>2 DEF Remainder
<1>6. Remainder(e) = [g |-> d, x |-> y, g1 |-> g - (g \div d) * d, x1 |-> x - (g \div d) * y]
  BY <1>2 DEF Remainder
<1>7. Remainder(e) \in Pair
  BY <1>3, <1>4, <1>6 DEF Pair
<1> QED BY <1>2, <1>3, <1>5, <1>7

\* The recursion of modInv ends, so that there is such a function.
LEMMA EuclidExists == \E f : Euclid(f)
<1> DEFINE Stop == {e \in Pair : e.g1 = 0}
           next == [e \in Pair |-> Remainder(e)]
           atStop == [e \in Pair |-> mod(e.x)]
           size == [e \in Pair |-> e.g1]
<1>1. size \in [Pair -> Nat]
  BY DEF Pair
<1>2. \A e \in Pair : e \notin Stop => next[e] \in Pair /\ size[next[e]] < size[e]
  BY RemainderLess
<1>3. \E f : While(f, Pair, Stop, next, atStop)
  <2> HIDE DEF Stop, next, atStop, size
  <2> QED BY <1>1, <1>2, WhileExists
<1>4. PICK f : While(f, Pair, Stop, next, atStop)
  BY <1>3
<1>5. f = [e \in Pair |-> IF e.g1 = 0 THEN mod(e.x) ELSE f[Remainder(e)]]
  BY <1>4 DEF While
<1> QED BY <1>5 DEF Euclid

\* The one modInv calls.
euclid == CHOOSE f : Euclid(f)

LEMMA EuclidUnfolds ==
    /\ \A e \in Pair : euclid[e] = IF e.g1 = 0 THEN mod(e.x) ELSE euclid[Remainder(e)]
    /\ \A a : modInv(a) = euclid[[g |-> P, x |-> 0, g1 |-> mod(a), x1 |-> 1]]
<1>1. Euclid(euclid)
  BY EuclidExists DEF euclid
<1>2. \A e \in Pair : euclid[e] = IF e.g1 = 0 THEN mod(e.x) ELSE euclid[Remainder(e)]
  BY <1>1 DEF Euclid
<1>3. ASSUME NEW a PROVE modInv(a) = euclid[[g |-> P, x |-> 0, g1 |-> mod(a), x1 |-> 1]]
  BY DEF modInv, euclid, Euclid, Pair, Remainder
<1> QED BY <1>2, <1>3

\* d divides n.
Divides(d, n) == \E q \in Int : n = d * q

\* A divisor of P is 1 or P itself.
LEMMA OnlyTrivialDivisors ==
    ASSUME NEW d \in Nat \ {0}, Divides(d, P)
    PROVE  d = 1 \/ d = P
<1>1. PICK q \in Int : P = d * q
  BY DEF Divides
<1>2. PICK p \in Nat \ {0} : p = P
  BY PInt
<1>3. p = d * q
  BY <1>1, <1>2
<1>4. d <= p
  <2> SUFFICES ASSUME d > p PROVE FALSE
    OBVIOUS
  <2>1. q >= 1 => d * 1 <= d * q
    BY Times
  <2>2. q <= 0 => d * q <= d * 0
    BY Times
  <2> QED BY <1>3, <2>1, <2>2
<1>5. p % d = 0
  BY <1>3
<1>6. d \in 2..(P - 1) => P % d # 0
  BY FieldAssumption
<1> QED BY <1>2, <1>4, <1>5, <1>6

\* Nor does P divide a smaller number.
LEMMA SmallNotDivisible ==
    ASSUME NEW a \in 1..(P - 1)
    PROVE  ~Divides(P, a)
<1> SUFFICES ASSUME NEW q \in Int, a = P * q PROVE FALSE
  BY DEF Divides
<1>1. PICK p \in Nat \ {0} : p = P
  BY PInt
<1>2. q >= 1 => p * 1 <= p * q
  BY Times
<1>3. q <= 0 => p * q <= p * 0
  BY Times
<1> QED BY <1>1, <1>2, <1>3

\* What holds of the states of the algorithm, started for a.
EuclidInv(e, a) ==
    /\ e \in Pair /\ e.g >= 1
    /\ Same(e.x * a, e.g) /\ Same(e.x1 * a, e.g1)
    /\ \A d \in Nat \ {0} : Divides(d, e.g) /\ Divides(d, e.g1) => Divides(d, P) /\ Divides(d, a)

\* A step keeps it.
LEMMA EuclidInvStep ==
    ASSUME NEW a \in 1..(P - 1), NEW e, EuclidInv(e, a), e.g1 # 0
    PROVE  EuclidInv(Remainder(e), a)
<1> DEFINE r == Remainder(e)
<1>1. e \in Pair
  BY DEF EuclidInv
<1>2. /\ r \in Pair /\ r.g = e.g1 /\ r.x = e.x1 /\ e.g \div e.g1 \in Int
      /\ r.g1 = e.g - (e.g \div e.g1) * e.g1
      /\ r.x1 = e.x - (e.g \div e.g1) * e.x1
  BY <1>1, RemainderLess
<1>3. PICK q \in Int : q = e.g \div e.g1
  BY <1>2
<1>4. e.g \in Nat /\ e.x \in Int /\ e.g1 \in Nat /\ e.x1 \in Int /\ a \in Int
  BY <1>1, PInt DEF Pair
<1>5. r.g1 = e.g - q * e.g1 /\ r.x1 = e.x - q * e.x1
  BY <1>2, <1>3
<1> HIDE DEF r
<1>6. Same(r.x1 * a, r.g1)
  <2>1. Same(e.x * a, e.g) /\ Same(e.x1 * a, e.g1) /\ Same(q, q)
    BY SameRefl DEF EuclidInv
  <2>2. Same(q * (e.x1 * a), q * e.g1)
    BY <2>1, SameTimes
  <2>3. Same(e.x * a - q * (e.x1 * a), e.g - q * e.g1)
    BY <2>1, <2>2, SameMinus
  <2>4. PICK x \in Int, y \in Int, z \in Int : x = e.x /\ y = e.x1 /\ z = a
    BY <1>4
  <2>5. (x - q * y) * z = x * z - q * (y * z)
    OBVIOUS
  <2>6. r.x1 * a = e.x * a - q * (e.x1 * a)
    BY <1>5, <2>4, <2>5
  <2> QED BY <1>5, <2>3, <2>6
<1>7. ASSUME NEW d \in Nat \ {0}, Divides(d, r.g), Divides(d, r.g1)
      PROVE  Divides(d, P) /\ Divides(d, a)
  <2>1. PICK u \in Int : e.g1 = d * u
    BY <1>2, <1>7 DEF Divides
  <2>2. PICK v \in Int : e.g - q * e.g1 = d * v
    BY <1>5, <1>7 DEF Divides
  <2>3. e.g = d * v + q * (d * u)
    BY <1>4, <2>1, <2>2
  <2>4. d * v + q * (d * u) = d * (v + q * u) /\ v + q * u \in Int
    OBVIOUS
  <2>5. Divides(d, e.g) /\ Divides(d, e.g1)
    BY <2>1, <2>3, <2>4 DEF Divides
  <2> QED BY <2>5 DEF EuclidInv
<1>8. r.g >= 1
  BY <1>2, <1>4
<1>9. Same(r.x * a, r.g)
  BY <1>2 DEF EuclidInv
<1> QED BY <1>2, <1>6, <1>7, <1>8, <1>9 DEF EuclidInv, r

\* The extended Euclidean algorithm of secp.js finds the inverse of every number
\* but zero modulo every odd prime.
THEOREM modInvExact ==
    ASSUME NEW a \in 1..(P - 1)
    PROVE  modInv(a) \in 0..(P - 1) /\ Same(modInv(a) * a, 1)
<1> DEFINE Known == {n \in Nat : \A e \in Pair : e.g1 <= n /\ EuclidInv(e, a) =>
                                     euclid[e] \in 0..(P - 1) /\ Same(euclid[e] * a, 1)}
<1>1. \A e \in Pair : e.g \in Nat /\ e.x \in Int /\ e.g1 \in Nat /\ e.x1 \in Int
  BY DEF Pair
<1>2. a \in Int /\ a \in Nat
  BY PInt
<1>3. ASSUME NEW e \in Pair, e.g1 = 0, EuclidInv(e, a)
      PROVE  euclid[e] \in 0..(P - 1) /\ Same(euclid[e] * a, 1)
  <2>1. e.g \in Nat \ {0} /\ e.x \in Int
    BY <1>1, <1>3 DEF EuclidInv
  <2>2. Divides(e.g, e.g) /\ Divides(e.g, 0)
    <3>1. e.g = e.g * 1 /\ 0 = e.g * 0
      BY <2>1
    <3> QED BY <3>1 DEF Divides
  <2>3. Divides(e.g, P) /\ Divides(e.g, a)
    BY <1>3, <2>1, <2>2 DEF EuclidInv
  <2>4. e.g = 1
    BY <2>1, <2>3, OnlyTrivialDivisors, SmallNotDivisible
  <2>5. euclid[e] = mod(e.x)
    BY <1>3, EuclidUnfolds
  <2>6. Same(mod(e.x), e.x) /\ Same(a, a)
    BY <1>2, <2>1, SameMod, SameRefl
  <2>7. Same(mod(e.x) * a, e.x * a)
    BY <2>6, SameTimes
  <2>8. Same(e.x * a, 1)
    BY <1>3, <2>4 DEF EuclidInv
  <2>9. Same(mod(e.x) * a, 1)
    BY <2>7, <2>8, SameTrans
  <2> QED BY <2>1, <2>5, <2>9, ModTyped
<1>4. 0 \in Known
  <2> SUFFICES ASSUME NEW e \in Pair, e.g1 <= 0, EuclidInv(e, a)
               PROVE  euclid[e] \in 0..(P - 1) /\ Same(euclid[e] * a, 1)
    OBVIOUS
  <2>1. e.g1 = 0
    BY <1>1
  <2> QED BY <1>3, <2>1
<1>5. ASSUME NEW n \in Nat, n \in Known PROVE n + 1 \in Known
  <2> SUFFICES ASSUME NEW e \in Pair, e.g1 <= n + 1, EuclidInv(e, a)
               PROVE  euclid[e] \in 0..(P - 1) /\ Same(euclid[e] * a, 1)
    OBVIOUS
  <2>1. CASE e.g1 = 0
    BY <1>3, <2>1
  <2>2. CASE e.g1 # 0
    <3>1. Remainder(e) \in Pair /\ Remainder(e).g1 < e.g1
      BY <2>2, RemainderLess
    <3>2. EuclidInv(Remainder(e), a)
      BY <2>2, EuclidInvStep
    <3>3. Remainder(e).g1 <= n
      BY <1>1, <3>1
    <3>4. euclid[e] = euclid[Remainder(e)]
      BY <2>2, EuclidUnfolds
    <3> QED BY <1>5, <3>1, <3>2, <3>3, <3>4
  <2> QED BY <2>1, <2>2
<1>6. Nat \subseteq Known
  <2> HIDE DEF Known
  <2> QED BY <1>4, <1>5, Induct
<1> DEFINE first == [g |-> P, x |-> 0, g1 |-> mod(a), x1 |-> 1]
<1>7. mod(a) = a
  <2>1. a = a - P * 0 /\ 0 \in Int
    BY <1>2, PInt
  <2> QED BY <1>2, <2>1, ModIs
<1>8. first \in Pair /\ first.g = P /\ first.x = 0 /\ first.g1 = a /\ first.x1 = 1
  BY <1>2, <1>7, PInt DEF Pair
<1> HIDE DEF first
<1>9. EuclidInv(first, a)
  <2>1. 0 * a = 0 /\ 1 * a = a
    BY <1>2
  <2>2. Same(0, P)
    <3>1. 0 = P + P * (-1) /\ -1 \in Int /\ 0 \in Int
      BY PInt
    <3> QED BY <3>1, PInt DEF Same
  <2>3. Same(a, a)
    BY <1>2, SameRefl
  <2>4. P >= 1
    BY PInt
  <2> QED BY <1>8, <2>1, <2>2, <2>3, <2>4 DEF EuclidInv
<1>10. modInv(a) = euclid[first]
  BY EuclidUnfolds DEF first
<1>11. a \in Known /\ a <= a
  BY <1>2, <1>6
<1> QED BY <1>8, <1>9, <1>10, <1>11

-----------------------------------------------------------------------------
(* The inverse by Fermat's theorem                                         *)

\* The product of the first n values of f.
Product(f, n) == Repeat(1, [i \in Nat |-> [x \in Int |-> f[i] * x]], n)

\* The product of 1 to n.
Factorial(n) == Product([i \in Nat |-> i], n)

\* One factor at a time.
LEMMA ProductUnfolds ==
    ASSUME NEW m \in Nat, NEW f, \A i \in 1..m : f[i] \in Int
    PROVE  /\ Product(f, 0) = 1
           /\ \A n \in Nat : n <= m => Product(f, n) \in Int
           /\ \A n \in Nat : n < m => Product(f, n + 1) = f[n + 1] * Product(f, n)
<1> DEFINE step == [i \in Nat |-> [x \in Int |-> f[i] * x]]
           p(n) == Repeat(1, step, n)
           Known == {n \in Nat : n <= m => p(n) \in Int}
<1>1. p(0) = 1 /\ \A n \in Nat : p(n + 1) = step[n + 1][p(n)]
  <2> HIDE DEF step
  <2> QED BY LoopUnfolds
<1>2. \A n : Product(f, n) = p(n)
  BY DEF Product
<1> HIDE DEF p
<1>3. ASSUME NEW n \in Nat, p(n) \in Int PROVE p(n + 1) = f[n + 1] * p(n)
  <2>1. n + 1 \in Nat
    OBVIOUS
  <2>2. step[n + 1] = [x \in Int |-> f[n + 1] * x]
    BY <2>1
  <2> HIDE DEF step
  <2>3. p(n + 1) = step[n + 1][p(n)]
    BY <1>1
  <2> QED BY <1>3, <2>2, <2>3
<1> HIDE DEF step
<1>4. Nat \subseteq Known
  <2>1. 0 \in Known
    BY <1>1
  <2>2. ASSUME NEW n \in Nat, n \in Known PROVE n + 1 \in Known
    <3> SUFFICES ASSUME n + 1 <= m PROVE p(n + 1) \in Int
      OBVIOUS
    <3>1. p(n) \in Int
      BY <2>2
    <3>2. f[n + 1] \in Int
      OBVIOUS
    <3> QED BY <1>3, <3>1, <3>2
  <2> HIDE DEF Known
  <2> QED BY <2>1, <2>2, Induct
<1>5. \A n \in Nat : n <= m => p(n) \in Int
  BY <1>4
<1>6. \A n \in Nat : n < m => p(n + 1) = f[n + 1] * p(n)
  BY <1>3, <1>5
<1> QED BY <1>1, <1>2, <1>5, <1>6

\* Only the factors count.
LEMMA ProductAgree ==
    ASSUME NEW m \in Nat, NEW f, NEW h, \A i \in 1..m : f[i] \in Int /\ h[i] = f[i]
    PROVE  Product(h, m) = Product(f, m)
<1> DEFINE Known == {n \in Nat : n <= m => Product(h, n) = Product(f, n)}
<1>1. (\A i \in 1..m : f[i] \in Int) /\ (\A i \in 1..m : h[i] \in Int)
  OBVIOUS
<1>2. 0 \in Known
  BY <1>1, ProductUnfolds
<1>3. ASSUME NEW n \in Nat, n \in Known PROVE n + 1 \in Known
  <2> SUFFICES ASSUME n + 1 <= m PROVE Product(h, n + 1) = Product(f, n + 1)
    OBVIOUS
  <2>1. n < m /\ n <= m /\ n + 1 \in 1..m
    OBVIOUS
  <2>2. Product(h, n + 1) = h[n + 1] * Product(h, n) /\ Product(f, n + 1) = f[n + 1] * Product(f, n)
    BY <1>1, <2>1, ProductUnfolds
  <2>3. h[n + 1] = f[n + 1] /\ Product(h, n) = Product(f, n)
    BY <1>3, <2>1
  <2> QED BY <2>2, <2>3
<1>4. Nat \subseteq Known
  <2> HIDE DEF Known
  <2> QED BY <1>2, <1>3, Induct
<1> QED BY <1>4

\* One factor is replaced.
LEMMA ProductExcept ==
    ASSUME NEW m \in Nat, NEW j \in 1..m, NEW f, NEW h, \A i \in 1..m : f[i] \in Int /\ h[i] \in Int,
           \A i \in 1..m : i # j => h[i] = f[i]
    PROVE  Product(f, m) * h[j] = Product(h, m) * f[j]
<1> DEFINE Known == {n \in Nat : n <= m => IF n < j THEN Product(h, n) = Product(f, n)
                                            ELSE Product(f, n) * h[j] = Product(h, n) * f[j]}
<1>1. (\A i \in 1..m : f[i] \in Int) /\ (\A i \in 1..m : h[i] \in Int)
  OBVIOUS
<1>2. 0 \in Known
  BY <1>1, ProductUnfolds
<1>3. ASSUME NEW n \in Nat, n \in Known PROVE n + 1 \in Known
  <2> SUFFICES ASSUME n + 1 <= m
               PROVE  IF n + 1 < j THEN Product(h, n + 1) = Product(f, n + 1)
                      ELSE Product(f, n + 1) * h[j] = Product(h, n + 1) * f[j]
    OBVIOUS
  <2>1. n < m /\ n <= m /\ n + 1 \in 1..m
    OBVIOUS
  <2>2. Product(h, n + 1) = h[n + 1] * Product(h, n) /\ Product(f, n + 1) = f[n + 1] * Product(f, n)
    BY <1>1, <2>1, ProductUnfolds
  <2>3. Product(h, n) \in Int /\ Product(f, n) \in Int
    BY <1>1, <2>1, ProductUnfolds
  <2>4. PICK a \in Int, b \in Int, c \in Int, d \in Int, x \in Int, y \in Int :
            /\ a = Product(h, n) /\ b = Product(f, n) /\ c = h[j] /\ d = f[j]
            /\ x = h[n + 1] /\ y = f[n + 1]
    <3>1. h[j] \in Int /\ f[j] \in Int /\ h[n + 1] \in Int /\ f[n + 1] \in Int
      BY <1>1, <2>1
    <3> QED BY <2>3, <3>1, Zenon
  <2>5. IF n < j THEN a = b ELSE b * c = a * d
    BY <1>3, <2>1, <2>4
  <2>6. CASE n + 1 < j
    <3>1. x = y /\ a = b
      BY <2>1, <2>4, <2>5, <2>6
    <3> QED BY <2>2, <2>4, <2>6, <3>1
  <2>7. CASE n + 1 = j
    <3>1. a = b /\ x = c /\ y = d
      BY <2>4, <2>5, <2>7
    <3>2. (y * b) * c = (x * a) * d
      BY <3>1
    <3> QED BY <2>2, <2>4, <2>7, <3>2
  <2>8. CASE n + 1 > j
    <3>1. x = y /\ b * c = a * d
      BY <2>1, <2>4, <2>5, <2>8
    <3>2. (y * b) * c = y * (b * c) /\ (y * a) * d = y * (a * d)
      OBVIOUS
    <3> QED BY <2>2, <2>4, <2>8, <3>1, <3>2
  <2> QED BY <2>6, <2>7, <2>8
<1>4. Nat \subseteq Known
  <2> HIDE DEF Known
  <2> QED BY <1>2, <1>3, Induct
<1>5. m \in Known /\ ~(m < j) /\ m <= m
  BY <1>4
<1> QED BY <1>5

\* f is a permutation of 1 to n.
Permutation(f, n) ==
    /\ f \in [1..n -> 1..n]
    /\ \A i, j \in 1..n : f[i] = f[j] => i = j
    /\ \A y \in 1..n : \E i \in 1..n : f[i] = y

\* The product of a permutation is the factorial.
LEMMA PermutationProduct ==
    \A n \in Nat : \A f : Permutation(f, n) => Product(f, n) = Factorial(n)
<1> DEFINE Known == {n \in Nat : \A f : Permutation(f, n) => Product(f, n) = Factorial(n)}
           id == [i \in Nat |-> i]
<1>1. 0 \in Known
  <2>1. ASSUME NEW f PROVE Product(f, 0) = 1
    <3>1. \A i \in 1..0 : f[i] \in Int
      OBVIOUS
    <3> QED BY <3>1, ProductUnfolds
  <2> QED BY <2>1 DEF Factorial
<1>2. ASSUME NEW n \in Nat, n \in Known PROVE n + 1 \in Known
  <2> SUFFICES ASSUME NEW f, Permutation(f, n + 1) PROVE Product(f, n + 1) = Factorial(n + 1)
    OBVIOUS
  <2>1. /\ f \in [1..(n + 1) -> 1..(n + 1)]
        /\ \A i, l \in 1..(n + 1) : f[i] = f[l] => i = l
        /\ \A y \in 1..(n + 1) : \E i \in 1..(n + 1) : f[i] = y
    BY DEF Permutation
  <2>2. PICK j \in 1..(n + 1) : f[j] = n + 1
    <3>1. n + 1 \in 1..(n + 1)
      OBVIOUS
    <3> QED BY <2>1, <3>1
  <2> DEFINE h == [i \in 1..n |-> IF i = j THEN f[n + 1] ELSE f[i]]
  <2>3. \A i \in 1..n : h[i] = IF i = j THEN f[n + 1] ELSE f[i]
    OBVIOUS
  <2>4. h = [i \in 1..n |-> h[i]]
    OBVIOUS
  <2> HIDE DEF h
  <2>5. \A i \in 1..n : h[i] \in 1..n
    <3> SUFFICES ASSUME NEW i \in 1..n PROVE h[i] \in 1..n
      OBVIOUS
    <3>1. i \in 1..(n + 1) /\ n + 1 \in 1..(n + 1) /\ i # n + 1
      OBVIOUS
    <3>2. f[i] \in 1..(n + 1) /\ f[n + 1] \in 1..(n + 1)
      BY <2>1, <3>1
    <3>3. i # j => f[i] # n + 1
      BY <2>1, <2>2, <3>1
    <3>4. i = j => f[n + 1] # n + 1
      BY <2>1, <2>2, <3>1
    <3> QED BY <2>3, <3>2, <3>3, <3>4
  <2>6. h \in [1..n -> 1..n]
    BY <2>4, <2>5
  <2>7. ASSUME NEW i \in 1..n, NEW l \in 1..n, h[i] = h[l] PROVE i = l
    <3>1. /\ i \in 1..(n + 1) /\ l \in 1..(n + 1) /\ n + 1 \in 1..(n + 1)
          /\ i # n + 1 /\ l # n + 1
      OBVIOUS
    <3> QED BY <2>1, <2>3, <2>7, <3>1
  <2>8. ASSUME NEW y \in 1..n PROVE \E i \in 1..n : h[i] = y
    <3>1. PICK i \in 1..(n + 1) : f[i] = y
      <4>1. y \in 1..(n + 1)
        OBVIOUS
      <4> QED BY <2>1, <4>1
    <3>2. i # j
      BY <2>2, <3>1
    <3>3. CASE i \in 1..n
      BY <2>3, <3>1, <3>2, <3>3
    <3>4. CASE i = n + 1
      <4>1. j \in 1..n
        BY <3>2, <3>4
      <4> QED BY <2>3, <3>1, <3>4, <4>1
    <3> QED BY <3>3, <3>4
  <2>9. Product(h, n) = Factorial(n)
    <3>1. Permutation(h, n)
      BY <2>6, <2>7, <2>8 DEF Permutation
    <3> QED BY <1>2, <3>1
  <2>10. Factorial(n + 1) = (n + 1) * Factorial(n)
    <3>1. n + 1 \in Nat /\ (\A i \in 1..(n + 1) : id[i] \in Int) /\ id[n + 1] = n + 1 /\ n < n + 1
      OBVIOUS
    <3> HIDE DEF id
    <3>2. Product(id, n + 1) = id[n + 1] * Product(id, n)
      BY <3>1, ProductUnfolds
    <3> QED BY <3>1, <3>2 DEF Factorial, id
  <2>11. /\ \A i \in 1..(n + 1) : f[i] \in Int
         /\ n + 1 \in Nat /\ n < n + 1 /\ n <= n + 1
    BY <2>1
  <2>12. Product(f, n + 1) = f[n + 1] * Product(f, n)
    BY <2>11, ProductUnfolds
  <2>13. \A i \in 1..n : f[i] \in Int /\ h[i] \in Int
    BY <2>5, <2>11
  <2>14. CASE j = n + 1
    <3>1. \A i \in 1..n : f[i] \in Int /\ h[i] = f[i]
      BY <2>3, <2>13, <2>14
    <3>2. Product(h, n) = Product(f, n)
      BY <3>1, ProductAgree
    <3> QED BY <2>2, <2>9, <2>10, <2>12, <2>14, <3>2
  <2>15. CASE j # n + 1
    <3>1. j \in 1..n /\ h[j] = f[n + 1]
      BY <2>3, <2>15
    <3>2. \A i \in 1..n : i # j => h[i] = f[i]
      BY <2>3
    <3>3. Product(f, n) * h[j] = Product(h, n) * f[j]
      BY <2>13, <3>1, <3>2, ProductExcept
    <3>4. Product(f, n) \in Int /\ Product(h, n) \in Int
      <4>1. (\A i \in 1..n : f[i] \in Int) /\ (\A i \in 1..n : h[i] \in Int) /\ n <= n
        BY <2>13
      <4> QED BY <4>1, ProductUnfolds
    <3>5. PICK a \in Int, b \in Int, c \in Int : a = Product(f, n) /\ b = Product(h, n) /\ c = f[n + 1]
      <4>1. f[n + 1] \in Int
        BY <2>11
      <4> QED BY <3>4, <4>1, Zenon
    <3>6. a * c = b * (n + 1)
      BY <2>2, <3>1, <3>3, <3>5
    <3>7. c * a = a * c /\ b * (n + 1) = (n + 1) * b
      OBVIOUS
    <3> QED BY <2>9, <2>10, <2>12, <3>5, <3>6, <3>7
  <2> QED BY <2>14, <2>15
<1>3. Nat \subseteq Known
  <2> HIDE DEF Known
  <2> QED BY <1>1, <1>2, Induct
<1> QED BY <1>3

\* A factor other than zero cancels, since it has an inverse.
LEMMA Cancel ==
    ASSUME NEW a \in 1..(P - 1), NEW x \in Int, NEW y \in Int, Same(a * x, a * y)
    PROVE  Same(x, y)
<1>1. PICK v \in Int : v = modInv(a) /\ Same(v * a, 1)
  BY modInvExact
<1>2. a \in Int
  BY PInt
<1>3. ASSUME NEW z \in Int PROVE Same(v * (a * z), z)
  <2>1. Same(z, z)
    BY SameRefl
  <2>2. Same((v * a) * z, 1 * z)
    BY <1>1, <2>1, SameTimes
  <2>3. (v * a) * z = v * (a * z) /\ 1 * z = z
    BY <1>2
  <2> QED BY <2>2, <2>3
<1>4. Same(v, v)
  BY SameRefl
<1>5. Same(v * (a * x), v * (a * y))
  BY <1>4, SameTimes
<1>6. Same(x, v * (a * x))
  BY <1>3, SameSym
<1>7. Same(x, v * (a * y))
  BY <1>5, <1>6, SameTrans
<1> QED BY <1>3, <1>7, SameTrans

\* Multiplying with a permutes the reduced numbers but zero.
LEMMA MultiplesPermute ==
    ASSUME NEW a \in 1..(P - 1)
    PROVE  Permutation([i \in 1..(P - 1) |-> mod(a * i)], P - 1)
<1> DEFINE f == [i \in 1..(P - 1) |-> mod(a * i)]
<1>1. a \in Int /\ P \in Nat /\ P >= 1
  BY PInt
<1>2. \A i \in 1..(P - 1) : f[i] = mod(a * i) /\ i \in Int /\ a * i \in Int /\ i \in 0..(P - 1)
  BY <1>1
<1>3. f = [i \in 1..(P - 1) |-> f[i]]
  OBVIOUS
<1> HIDE DEF f
<1>4. \A i \in 1..(P - 1) : Same(f[i], a * i)
  BY <1>2, SameMod
<1>5. ASSUME NEW i \in 1..(P - 1) PROVE f[i] \in 1..(P - 1)
  <2>1. f[i] \in 0..(P - 1)
    BY <1>2, ModTyped
  <2> SUFFICES ASSUME f[i] = 0 PROVE FALSE
    BY <2>1
  <2>2. Same(a * i, 0)
    BY <1>4, SameSym
  <2>3. a * 0 = 0
    BY <1>1
  <2>4. Same(a * i, a * 0)
    BY <2>2, <2>3
  <2>5. Same(i, 0)
    BY <1>2, <2>4, Cancel
  <2>6. 0 \in 0..(P - 1)
    BY <1>1
  <2>7. i = 0
    BY <1>2, <2>5, <2>6, ReducedDiffer
  <2> QED BY <2>7
<1>6. ASSUME NEW i \in 1..(P - 1), NEW j \in 1..(P - 1), f[i] = f[j] PROVE i = j
  <2>1. Same(a * i, f[i]) /\ Same(f[j], a * j)
    BY <1>4, SameSym
  <2>2. Same(a * i, a * j)
    BY <1>6, <2>1, SameTrans
  <2>3. Same(i, j)
    BY <1>2, <2>2, Cancel
  <2> QED BY <1>2, <2>3, ReducedDiffer
<1>7. ASSUME NEW y \in 1..(P - 1) PROVE \E i \in 1..(P - 1) : f[i] = y
  <2>1. PICK v \in Int : v = modInv(a) /\ Same(v * a, 1)
    BY modInvExact
  <2>2. y \in Int /\ y \in 0..(P - 1) /\ v * y \in Int
    BY <1>2
  <2> DEFINE i == mod(v * y)
  <2>3. i \in 0..(P - 1) /\ Same(i, v * y)
    BY <2>2, ModTyped, SameMod
  <2> HIDE DEF i
  <2>4. i \in Int
    BY <2>3
  <2>5. Same(a * i, y)
    <3>1. Same(a, a) /\ Same(y, y)
      BY <1>1, <2>2, SameRefl
    <3>2. Same(a * i, a * (v * y))
      BY <2>3, <3>1, SameTimes
    <3>3. Same((v * a) * y, 1 * y)
      BY <2>1, <3>1, SameTimes
    <3>4. (v * a) * y = a * (v * y) /\ 1 * y = y
      BY <1>1, <2>2
    <3>5. Same(a * (v * y), y)
      BY <3>3, <3>4
    <3> QED BY <3>2, <3>5, SameTrans
  <2>6. mod(a * i) = y
    BY <2>2, <2>5, SameReduced
  <2>7. i # 0
    <3> SUFFICES ASSUME i = 0 PROVE FALSE
      OBVIOUS
    <3>1. a * i = 0
      BY <1>1
    <3>2. Same(0, y) /\ 0 \in 0..(P - 1)
      BY <1>1, <2>5, <3>1
    <3>3. y = 0
      BY <2>2, <3>2, ReducedDiffer
    <3> QED BY <3>3
  <2>8. i \in 1..(P - 1)
    BY <2>3, <2>7
  <2> QED BY <1>2, <2>6, <2>8
<1>8. f \in [1..(P - 1) -> 1..(P - 1)]
  BY <1>3, <1>5
<1> QED BY <1>6, <1>7, <1>8 DEF Permutation, f

\* The factorial, one factor at a time.
LEMMA FactorialUnfolds ==
    /\ Factorial(0) = 1
    /\ \A n \in Nat : Factorial(n) \in Int /\ Factorial(n + 1) = (n + 1) * Factorial(n)
<1> DEFINE id == [i \in Nat |-> i]
<1>1. ASSUME NEW n \in Nat
      PROVE  Product(id, 0) = 1 /\ Product(id, n) \in Int /\ Product(id, n + 1) = (n + 1) * Product(id, n)
  <2>1. n + 1 \in Nat /\ (\A i \in 1..(n + 1) : id[i] \in Int) /\ id[n + 1] = n + 1 /\ n < n + 1 /\ n <= n + 1
    OBVIOUS
  <2> HIDE DEF id
  <2> QED BY <2>1, ProductUnfolds
<1>2. \A n \in Nat : Product(id, 0) = 1 /\ Product(id, n) \in Int /\ Product(id, n + 1) = (n + 1) * Product(id, n)
  BY <1>1
<1>3. 0 \in Nat
  OBVIOUS
<1> QED BY <1>2, <1>3 DEF Factorial

\* The factorial of P - 1 is not zero modulo P.
LEMMA FactorialUnit == mod(Factorial(P - 1)) \in 1..(P - 1)
<1> DEFINE Known == {n \in Nat : n <= P - 1 => ~Same(Factorial(n), 0)}
<1>1. P \in Nat /\ P >= 3 /\ P - 1 \in Nat /\ 0 \in 0..(P - 1) /\ 1 \in 0..(P - 1)
  BY PInt
<1>2. 0 \in Known
  <2>1. ~Same(1, 0)
    BY <1>1, ReducedDiffer
  <2> QED BY <2>1, FactorialUnfolds
<1>3. ASSUME NEW n \in Nat, n \in Known PROVE n + 1 \in Known
  <2> SUFFICES ASSUME n + 1 <= P - 1, Same(Factorial(n + 1), 0) PROVE FALSE
    OBVIOUS
  <2>0. (n + 1) * 0 = 0
    OBVIOUS
  <2>1. Factorial(n) \in Int /\ Factorial(n + 1) = (n + 1) * Factorial(n)
    BY FactorialUnfolds
  <2>2. n + 1 \in 1..(P - 1) /\ n <= P - 1 /\ 0 \in Int
    BY <1>1
  <2>3. Same((n + 1) * Factorial(n), (n + 1) * 0)
    BY <2>0, <2>1
  <2>4. Same(Factorial(n), 0)
    BY <2>1, <2>2, <2>3, Cancel
  <2> QED BY <1>3, <2>2, <2>4
<1>4. Nat \subseteq Known
  <2> HIDE DEF Known
  <2> QED BY <1>2, <1>3, Induct
<1>5. ~Same(Factorial(P - 1), 0) /\ Factorial(P - 1) \in Int
  <2>1. P - 1 \in Known /\ P - 1 <= P - 1
    BY <1>1, <1>4
  <2>2. Factorial(P - 1) \in Int
    BY <1>1, FactorialUnfolds
  <2> QED BY <2>1, <2>2
<1>6. mod(Factorial(P - 1)) \in 0..(P - 1) /\ Same(Factorial(P - 1), mod(Factorial(P - 1)))
  BY <1>5, ModTyped, SameMod, SameSym
<1>7. mod(Factorial(P - 1)) # 0
  <2> SUFFICES ASSUME mod(Factorial(P - 1)) = 0 PROVE FALSE
    OBVIOUS
  <2> QED BY <1>5, <1>6
<1> QED BY <1>6, <1>7

\* Fermat's little theorem, on which fp_inv rests: multiplying with a permutes
\* the numbers from 1 to P - 1, so that it does not change their product.
THEOREM Fermat ==
    ASSUME NEW a \in 1..(P - 1)
    PROVE  Same(Power(a, P - 1), 1)
<1> DEFINE f == [i \in 1..(P - 1) |-> mod(a * i)]
           Known == {n \in Nat : n <= P - 1 => Same(Product(f, n), Power(a, n) * Factorial(n))}
           w == Factorial(P - 1)
<1>1. a \in Int /\ P - 1 \in Nat /\ P \in Nat
  BY PInt
<1>2. \A i \in 1..(P - 1) : f[i] = mod(a * i) /\ a * i \in Int
  BY <1>1
<1>3. \A i \in 1..(P - 1) : f[i] \in Int /\ Same(f[i], a * i)
  <2> HIDE DEF f
  <2> SUFFICES ASSUME NEW i \in 1..(P - 1) PROVE f[i] \in Int /\ Same(f[i], a * i)
    OBVIOUS
  <2>1. Same(mod(a * i), a * i) /\ mod(a * i) \in 0..(P - 1)
    BY <1>2, SameMod, ModTyped
  <2> QED BY <1>2, <2>1
<1>4. Product(f, P - 1) = w
  BY <1>1, MultiplesPermute, PermutationProduct
<1> HIDE DEF f
<1>5. 0 \in Known
  <2>1. Product(f, 0) = 1 /\ Power(a, 0) = 1 /\ Factorial(0) = 1
    BY <1>1, <1>3, ProductUnfolds, PowerUnfolds, FactorialUnfolds
  <2>2. Same(1, 1) /\ 1 * 1 = 1
    BY SameRefl
  <2> QED BY <2>1, <2>2
<1>6. ASSUME NEW n \in Nat, n \in Known PROVE n + 1 \in Known
  <2> SUFFICES ASSUME n + 1 <= P - 1 PROVE Same(Product(f, n + 1), Power(a, n + 1) * Factorial(n + 1))
    OBVIOUS
  <2>1. n + 1 \in 1..(P - 1) /\ n < P - 1 /\ n <= P - 1
    BY <1>1
  <2>2. Product(f, n + 1) = f[n + 1] * Product(f, n)
    BY <1>1, <1>3, <2>1, ProductUnfolds
  <2>3. Same(Product(f, n), Power(a, n) * Factorial(n)) /\ Same(f[n + 1], a * (n + 1))
    BY <1>3, <1>6, <2>1
  <2>4. Same(f[n + 1] * Product(f, n), (a * (n + 1)) * (Power(a, n) * Factorial(n)))
    BY <2>3, SameTimes
  <2>5. PICK x \in Int, y \in Int : x = Power(a, n) /\ y = Factorial(n)
    BY <1>1, PowerInt, FactorialUnfolds
  <2>6. (a * (n + 1)) * (x * y) = (a * x) * ((n + 1) * y)
    BY <1>1
  <2>7. Power(a, n + 1) = a * x /\ Factorial(n + 1) = (n + 1) * y
    BY <1>1, <2>5, PowerUnfolds, FactorialUnfolds
  <2> QED BY <2>2, <2>4, <2>5, <2>6, <2>7
<1>7. Nat \subseteq Known
  <2> HIDE DEF Known
  <2> QED BY <1>5, <1>6, Induct
<1>8. Same(w, Power(a, P - 1) * w)
  BY <1>1, <1>4, <1>7
<1>9. w \in Int /\ Power(a, P - 1) \in Int
  BY <1>1, FactorialUnfolds, PowerInt
<1> HIDE DEF w
<1>10. PICK u \in 1..(P - 1) : u = mod(w)
  BY FactorialUnit DEF w
<1>11. PICK x \in Int, z \in Int : x = Power(a, P - 1) /\ z = w
  BY <1>9
<1>12. Same(u, z) /\ Same(z, u) /\ Same(x, x) /\ u \in Int
  <2>1. Same(u, w)
    BY <1>9, <1>10, SameMod
  <2> QED BY <1>1, <1>11, <2>1, SameSym, SameRefl
<1>13. Same(u * x, z * x)
  BY <1>12, SameTimes
<1>14. Same(x * z, u)
  <2>1. Same(x * z, z)
    BY <1>8, <1>11, SameSym
  <2> QED BY <1>12, <2>1, SameTrans
<1>15. z * x = x * z /\ u * 1 = u
  BY <1>12
<1>16. Same(u * x, u * 1)
  BY <1>13, <1>14, <1>15, SameTrans
<1>17. Same(x, 1)
  BY <1>16, Cancel
<1> QED BY <1>11, <1>17

\* The power of P - 2 is the inverse.
LEMMA PowerIsInverse ==
    ASSUME NEW a \in 0..(P - 1)
    PROVE  mod(Power(a, P - 2)) = Inverse(a)
<1>1. a \in Int /\ P \in Nat /\ P >= 3 /\ P - 2 \in Nat /\ P - 3 \in Nat
  BY PInt
<1>2. CASE a = 0
  <2>1. (P - 3) + 1 = P - 2
    BY <1>1
  <2>2. Power(a, (P - 3) + 1) = a * Power(a, P - 3) /\ Power(a, P - 3) \in Int
    BY <1>1, PowerUnfolds
  <2>3. Power(a, P - 2) = 0
    BY <1>2, <2>1, <2>2
  <2>4. 0 \in 0..(P - 1) /\ Same(0, 0)
    BY <1>1, SameRefl
  <2>5. mod(0) = 0
    BY <2>4, SameReduced
  <2> QED BY <1>2, <2>3, <2>5 DEF Inverse
<1>3. CASE a # 0
  <2>1. a \in 1..(P - 1)
    BY <1>3
  <2>2. PICK v \in 0..(P - 1) : v = modInv(a) /\ Same(v * a, 1)
    BY <2>1, modInvExact
  <2>3. PICK x \in Int : x = Power(a, P - 2)
    BY <1>1, PowerInt
  <2>4. Same(a * x, 1)
    <3>1. (P - 2) + 1 = P - 1
      BY <1>1
    <3>2. Power(a, (P - 2) + 1) = a * x
      BY <1>1, <2>3, PowerUnfolds
    <3> QED BY <2>1, <3>1, <3>2, Fermat
  <2>5. v \in Int /\ v * a = a * v
    BY <1>1
  <2>6. Same(1, a * v)
    BY <2>2, <2>5, SameSym
  <2>7. Same(a * x, a * v)
    BY <2>4, <2>6, SameTrans
  <2>8. Same(x, v)
    BY <2>1, <2>5, <2>7, Cancel
  <2>9. mod(x) = v
    BY <2>8, SameReduced
  <2> QED BY <1>3, <2>2, <2>3, <2>9 DEF Inverse
<1> QED BY <1>2, <1>3

-----------------------------------------------------------------------------
(* Words and their values                                                  *)

\* What the constants give.
LEMMA WordFacts ==
    /\ HALF \in Nat /\ HALF >= 2
    /\ WORD \in Nat /\ WORD = HALF * HALF /\ WORD >= 4
    /\ Word = 0..(WORD - 1) /\ 0 \in Word
    /\ R \in Nat /\ R = Power(WORD, LIMBS) /\ R >= WORD * WORD * WORD
    /\ LIMBS \in Nat /\ LIMBS >= 3
    /\ C977 \in Word /\ C977 >= 1 /\ P = R - (WORD + C977)
<1>1. /\ HALF_BITS \in Nat \ {0} /\ LIMBS \in Nat /\ LIMBS >= 3 /\ C977 \in 1..(WORD - 1)
      /\ P = R - (WORD + C977)
  BY BigintAssumption
<1>2. HALF \in Nat /\ HALF >= 2
  BY <1>1, PowerGrows DEF HALF
<1>3. WORD \in Nat /\ WORD = HALF * HALF /\ WORD >= 4
  BY <1>2 DEF WORD
<1>4. R \in Nat /\ R >= WORD * WORD * WORD
  <2>1. PICK n \in Nat : LIMBS = 3 + n
    <3>1. LIMBS - 3 \in Nat /\ LIMBS = 3 + (LIMBS - 3)
      BY <1>1
    <3> QED BY <3>1
  <2>2. R = Power(WORD, 3) * Power(WORD, n)
    BY <1>3, <2>1, PowerAdds DEF R
  <2>3. Power(WORD, n) \in Nat /\ Power(WORD, n) >= 1
    <3>1. WORD \in Nat /\ WORD >= 2
      BY <1>3
    <3>2. Power(WORD, n) \in Nat \ {0}
      BY <3>1, PowerGrows
    <3> QED BY <3>2
  <2>4. Power(WORD, 3) = WORD * WORD * WORD
    <3>1. /\ Power(WORD, 0) = 1 /\ Power(WORD, 0 + 1) = WORD * Power(WORD, 0)
          /\ Power(WORD, 1 + 1) = WORD * Power(WORD, 1)
          /\ Power(WORD, 2 + 1) = WORD * Power(WORD, 2)
      BY <1>3, PowerUnfolds
    <3> QED BY <1>3, <3>1
  <2>5. WORD * WORD * WORD \in Nat
    BY <1>3
  <2> QED BY <2>2, <2>3, <2>4, <2>5
<1> QED BY <1>1, <1>2, <1>3, <1>4 DEF Word, R

LEMMA WordNat == Word \subseteq Nat /\ 0 \in Word
  BY WordFacts

\* The powers of a word.
LEMMA WordPower ==
    /\ Power(WORD, 0) = 1 /\ Power(WORD, 1) = WORD /\ Power(WORD, 2) = WORD * WORD
    /\ \A n \in Nat : /\ Power(WORD, n) \in Nat /\ Power(WORD, n) >= 1
                      /\ Power(WORD, n + 1) = WORD * Power(WORD, n)
<1>1. WORD \in Nat /\ WORD \in Int /\ WORD >= 2
  BY WordFacts
<1>2. \A n \in Nat : Power(WORD, n) \in Nat \ {0}
  BY <1>1, PowerGrows
<1>3. Power(WORD, 0) = 1 /\ \A n \in Nat : Power(WORD, n + 1) = WORD * Power(WORD, n)
  BY <1>1, PowerUnfolds
<1>4. Power(WORD, 0 + 1) = WORD * Power(WORD, 0) /\ Power(WORD, 1 + 1) = WORD * Power(WORD, 1)
  BY <1>3
<1> QED BY <1>1, <1>2, <1>3, <1>4

\* A number below p and a word of weight p are below w times p.
LEMMA DigitBound ==
    ASSUME NEW p \in Nat, NEW w \in Nat, NEW v \in 0..(p - 1), NEW x \in 0..(w - 1)
    PROVE  v + p * x \in 0..(w * p - 1)
<1>1. p * x <= p * (w - 1) /\ p * x >= p * 0
  BY Times
<1>2. p * (w - 1) = w * p - p /\ p * 0 = 0
  OBVIOUS
<1> QED BY <1>1, <1>2

\* The value of the first n words of x.
Value(x, n) == limbsLEToBigInt(x, n)

\* The value from the one below it: the loop starts with the highest word.
LEMMA ValueGrows ==
    ASSUME NEW n \in Nat, NEW x, \A i \in 1..(n + 1) : x[i] \in Nat
    PROVE  Value(x, n) \in Nat /\ Value(x, n + 1) = Value(x, n) + Power(WORD, n) * x[n + 1]
<1> DEFINE short == [i \in 1..n |-> [v \in Nat |-> WORD * v + x[n + 1 - i]]]
           long == [i \in 1..(n + 1) |-> [v \in Nat |-> WORD * v + x[n + 1 + 1 - i]]]
           s(j) == Repeat(0, short, j)
           l(j) == Repeat(0, long, j)
           Known == {j \in Nat : j <= n => /\ s(j) \in Nat
                                           /\ l(j + 1) = s(j) + Power(WORD, j) * x[n + 1]}
<1>1. WORD \in Nat /\ x[n + 1] \in Nat
  BY WordFacts
<1>2. /\ s(0) = 0 /\ \A j \in Nat : s(j + 1) = short[j + 1][s(j)]
      /\ l(0) = 0 /\ \A j \in Nat : l(j + 1) = long[j + 1][l(j)]
  <2> HIDE DEF short, long
  <2> QED BY LoopUnfolds
<1>3. ASSUME NEW j \in Nat, j < n, s(j) \in Nat
      PROVE  s(j + 1) = WORD * s(j) + x[n - j] /\ s(j + 1) \in Nat
  <2>1. j + 1 \in 1..n /\ n + 1 - (j + 1) = n - j /\ x[n - j] \in Nat
    BY <1>3
  <2>2. short[j + 1] = [v \in Nat |-> WORD * v + x[n - j]]
    BY <2>1
  <2>3. s(j + 1) = short[j + 1][s(j)]
    BY <1>2
  <2>4. WORD * s(j) + x[n - j] \in Nat
    <3> HIDE DEF s
    <3> QED BY <1>1, <1>3, <2>1
  <2>5. short[j + 1][s(j)] = WORD * s(j) + x[n - j]
    <3> HIDE DEF short, s
    <3> QED BY <1>3, <2>2
  <2> HIDE DEF short, s
  <2> QED BY <2>3, <2>4, <2>5
<1>4. ASSUME NEW j \in Nat, j <= n, l(j) \in Nat
      PROVE  l(j + 1) = WORD * l(j) + x[n + 1 - j]
  <2>1. j + 1 \in 1..(n + 1) /\ n + 1 + 1 - (j + 1) = n + 1 - j
    BY <1>4
  <2>2. long[j + 1] = [v \in Nat |-> WORD * v + x[n + 1 - j]]
    BY <2>1
  <2> HIDE DEF long
  <2> QED BY <1>2, <1>4, <2>2
<1> HIDE DEF s, l
<1>5. 0 \in Known
  <2>1. l(0) \in Nat /\ 0 <= n
    BY <1>2
  <2>2. l(0 + 1) = WORD * 0 + x[n + 1]
    BY <1>2, <1>4, <2>1
  <2>3. Power(WORD, 0) = 1
    BY WordPower
  <2> QED BY <1>1, <1>2, <2>2, <2>3
<1>6. ASSUME NEW j \in Nat, j \in Known PROVE j + 1 \in Known
  <2> SUFFICES ASSUME j + 1 <= n
               PROVE  /\ s(j + 1) \in Nat
                      /\ l((j + 1) + 1) = s(j + 1) + Power(WORD, j + 1) * x[n + 1]
    OBVIOUS
  <2>1. /\ s(j) \in Nat /\ l(j + 1) = s(j) + Power(WORD, j) * x[n + 1]
    BY <1>6
  <2>2. s(j + 1) = WORD * s(j) + x[n - j] /\ s(j + 1) \in Nat /\ x[n - j] \in Nat
    BY <1>3, <2>1
  <2>3. Power(WORD, j) \in Nat /\ Power(WORD, j + 1) = WORD * Power(WORD, j)
    BY WordPower
  <2>4. l(j + 1) \in Nat
    BY <1>1, <2>1, <2>3
  <2>5. l((j + 1) + 1) = WORD * l(j + 1) + x[n - j]
    <3>1. n + 1 - (j + 1) = n - j /\ j + 1 \in Nat
      OBVIOUS
    <3> QED BY <1>4, <2>4, <3>1
  <2>6. WORD * l(j + 1) = WORD * s(j) + (WORD * Power(WORD, j)) * x[n + 1]
    BY <1>1, <2>1, <2>3
  <2> QED BY <1>1, <2>1, <2>2, <2>3, <2>5, <2>6
<1>7. Nat \subseteq Known
  <2> HIDE DEF Known
  <2> QED BY <1>5, <1>6, Induct
<1>8. s(n) \in Nat /\ l(n + 1) = s(n) + Power(WORD, n) * x[n + 1]
  BY <1>7
<1>9. Value(x, n) = s(n) /\ Value(x, n + 1) = l(n + 1)
  BY DEF Value, limbsLEToBigInt, s, l
<1> QED BY <1>8, <1>9

LEMMA ValueEmpty == ASSUME NEW x PROVE Value(x, 0) = 0
  BY LoopUnfolds DEF Value, limbsLEToBigInt

\* The value of words is a number.
LEMMA ValueNat ==
    ASSUME NEW n \in Nat, NEW x, \A i \in 1..n : x[i] \in Nat
    PROVE  Value(x, n) \in Nat
<1>1. CASE n = 0
  BY <1>1, ValueEmpty
<1>2. CASE n # 0
  <2>1. n - 1 \in Nat /\ (n - 1) + 1 = n
    BY <1>2
  <2>2. x[n] \in Nat /\ \A i \in 1..((n - 1) + 1) : x[i] \in Nat
    BY <1>2, <2>1
  <2>3. /\ Value(x, n - 1) \in Nat
        /\ Value(x, (n - 1) + 1) = Value(x, n - 1) + Power(WORD, n - 1) * x[(n - 1) + 1]
    BY <2>1, <2>2, ValueGrows
  <2>4. Power(WORD, n - 1) \in Nat
    BY <2>1, WordPower
  <2> QED BY <2>1, <2>2, <2>3, <2>4
<1> QED BY <1>1, <1>2

\* The value from the one below it.
LEMMA ValueStep ==
    ASSUME NEW m \in Nat, NEW x, \A i \in 1..m : x[i] \in Nat
    PROVE  \A n \in Nat : n < m => Value(x, n + 1) = Value(x, n) + Power(WORD, n) * x[n + 1]
<1> SUFFICES ASSUME NEW n \in Nat, n < m
             PROVE  Value(x, n + 1) = Value(x, n) + Power(WORD, n) * x[n + 1]
  OBVIOUS
<1>1. \A i \in 1..(n + 1) : x[i] \in Nat
  OBVIOUS
<1> QED BY <1>1, ValueGrows

\* Only the words count.
LEMMA ValueAgree ==
    ASSUME NEW n \in Nat, NEW x, NEW y, \A i \in 1..n : x[i] \in Nat /\ y[i] = x[i]
    PROVE  Value(y, n) = Value(x, n)
<1> DEFINE Known == {j \in Nat : j <= n => Value(y, j) = Value(x, j)}
<1>1. 0 \in Known
  BY ValueEmpty
<1>2. ASSUME NEW j \in Nat, j \in Known PROVE j + 1 \in Known
  <2> SUFFICES ASSUME j + 1 <= n PROVE Value(y, j + 1) = Value(x, j + 1)
    OBVIOUS
  <2>1. x[j + 1] = y[j + 1] /\ j < n /\ Value(y, j) = Value(x, j)
    BY <1>2
  <2>2. (\A i \in 1..n : x[i] \in Nat) /\ (\A i \in 1..n : y[i] \in Nat)
    OBVIOUS
  <2>3. /\ Value(x, j + 1) = Value(x, j) + Power(WORD, j) * x[j + 1]
        /\ Value(y, j + 1) = Value(y, j) + Power(WORD, j) * y[j + 1]
    BY <2>1, <2>2, ValueStep
  <2> QED BY <2>1, <2>3
<1> HIDE DEF Known
<1>3. Nat \subseteq Known
  BY <1>1, <1>2, Induct
<1> QED BY <1>3 DEF Known

\* A number of n words is less than the n-th power.
LEMMA ValueBound ==
    ASSUME NEW n \in Nat, NEW x, \A i \in 1..n : x[i] \in Word
    PROVE  Value(x, n) \in 0..(Power(WORD, n) - 1)
<1> DEFINE Known == {j \in Nat : j <= n => Value(x, j) \in 0..(Power(WORD, j) - 1)}
<1>0. WORD \in Nat /\ WORD >= 4 /\ Word = 0..(WORD - 1) /\ \A i \in 1..n : x[i] \in Nat
  BY WordFacts
<1>1. 0 \in Known
  BY ValueEmpty, WordPower
<1>2. ASSUME NEW j \in Nat, j \in Known PROVE j + 1 \in Known
  <2> SUFFICES ASSUME j + 1 <= n PROVE Value(x, j + 1) \in 0..(Power(WORD, j + 1) - 1)
    OBVIOUS
  <2>1. x[j + 1] \in 0..(WORD - 1) /\ j < n /\ Value(x, j) \in 0..(Power(WORD, j) - 1)
    BY <1>0, <1>2
  <2>2. Value(x, j + 1) = Value(x, j) + Power(WORD, j) * x[j + 1]
    BY <1>0, <2>1, ValueStep
  <2>3. Power(WORD, j) \in Nat /\ Power(WORD, j + 1) = WORD * Power(WORD, j)
    BY WordPower
  <2>4. Value(x, j) + Power(WORD, j) * x[j + 1] \in 0..(WORD * Power(WORD, j) - 1)
    BY <1>0, <2>1, <2>3, DigitBound
  <2> QED BY <2>2, <2>3, <2>4
<1> HIDE DEF Known
<1>3. Nat \subseteq Known
  BY <1>1, <1>2, Induct
<1> QED BY <1>3 DEF Known

\* Words that are zero add nothing.
LEMMA ValueZeros ==
    ASSUME NEW m \in Nat, NEW n \in Nat, NEW x, n <= m,
           \A i \in 1..m : x[i] \in Nat, \A i \in 1..m : i > n => x[i] = 0
    PROVE  Value(x, m) = Value(x, n)
<1> DEFINE Known == {j \in Nat : n <= j /\ j <= m => Value(x, j) = Value(x, n)}
<1>1. 0 \in Known
  OBVIOUS
<1>2. ASSUME NEW j \in Nat, j \in Known PROVE j + 1 \in Known
  <2> SUFFICES ASSUME n <= j + 1, j + 1 <= m PROVE Value(x, j + 1) = Value(x, n)
    OBVIOUS
  <2>1. CASE n = j + 1
    BY <2>1
  <2>2. CASE n # j + 1
    <3>1. n <= j /\ j < m /\ x[j + 1] = 0 /\ Value(x, j) = Value(x, n)
      BY <1>2, <2>2
    <3>2. Value(x, j + 1) = Value(x, j) + Power(WORD, j) * 0
      BY <3>1, ValueStep
    <3>3. Power(WORD, j) \in Nat /\ Value(x, j) \in Nat
      <4>1. \A i \in 1..j : x[i] \in Nat
        BY <3>1
      <4> QED BY <3>1, <4>1, ValueNat, WordPower
    <3> QED BY <3>1, <3>2, <3>3
  <2> QED BY <2>1, <2>2
<1> HIDE DEF Known
<1>3. Nat \subseteq Known
  BY <1>1, <1>2, Induct
<1> QED BY <1>3 DEF Known

\* A number is zero only if all its words are.
LEMMA ValueZero ==
    ASSUME NEW m \in Nat, NEW x, \A i \in 1..m : x[i] \in Nat
    PROVE  \A n \in Nat : n <= m /\ Value(x, n) = 0 => \A i \in 1..n : x[i] = 0
<1> DEFINE Known == {n \in Nat : n <= m /\ Value(x, n) = 0 => \A i \in 1..n : x[i] = 0}
<1>1. 0 \in Known
  OBVIOUS
<1>2. ASSUME NEW n \in Nat, n \in Known PROVE n + 1 \in Known
  <2> SUFFICES ASSUME n + 1 <= m, Value(x, n + 1) = 0 PROVE \A i \in 1..(n + 1) : x[i] = 0
    OBVIOUS
  <2>1. \A i \in 1..(n + 1) : x[i] \in Nat
    OBVIOUS
  <2>2. Value(x, n) \in Nat /\ Value(x, n + 1) = Value(x, n) + Power(WORD, n) * x[n + 1]
    BY <2>1, ValueGrows
  <2>3. PICK v \in Nat, p \in Nat, e \in Nat : v = Value(x, n) /\ p = Power(WORD, n) /\ e = x[n + 1] /\ p >= 1
    <3>1. Power(WORD, n) \in Nat /\ Power(WORD, n) >= 1
      BY WordPower
    <3>2. n + 1 \in 1..(n + 1)
      OBVIOUS
    <3> QED BY <2>1, <2>2, <3>1, <3>2, Zenon
  <2>4. v + p * e = 0
    BY <2>2, <2>3
  <2>5. v = 0 /\ e = 0
    <3>1. e >= 1 => p * 1 <= p * e
      BY Times
    <3>2. p * e >= p * 0
      BY Times
    <3> QED BY <2>3, <2>4, <3>1, <3>2
  <2>6. x[n + 1] = 0 /\ \A i \in 1..n : x[i] = 0
    <3>1. n <= m /\ Value(x, n) = 0 => \A i \in 1..n : x[i] = 0
      BY <1>2
    <3>2. n <= m
      OBVIOUS
    <3> QED BY <2>3, <2>5, <3>1, <3>2
  <2> QED BY <2>6
<1>3. Nat \subseteq Known
  <2> HIDE DEF Known
  <2> QED BY <1>1, <1>2, Induct
<1> QED BY <1>3

\* A factor of all the words.
LEMMA ValueTimes ==
    ASSUME NEW n \in Nat, NEW x \in Nat, NEW y, \A i \in 1..n : y[i] \in Nat,
           NEW t, \A i \in 1..n : t[i] = x * y[i]
    PROVE  Value(t, n) = x * Value(y, n)
<1> DEFINE Known == {j \in Nat : j <= n => Value(t, j) = x * Value(y, j)}
<1>1. \A i \in 1..n : t[i] \in Nat
  OBVIOUS
<1>2. 0 \in Known
  BY ValueEmpty
<1>3. ASSUME NEW j \in Nat, j \in Known PROVE j + 1 \in Known
  <2> SUFFICES ASSUME j + 1 <= n PROVE Value(t, j + 1) = x * Value(y, j + 1)
    OBVIOUS
  <2>1. \A i \in 1..(j + 1) : t[i] \in Nat
    BY <1>1
  <2>2. \A i \in 1..(j + 1) : y[i] \in Nat
    OBVIOUS
  <2>3. Value(t, j + 1) = Value(t, j) + Power(WORD, j) * t[j + 1]
    BY <2>1, ValueGrows
  <2>4. Value(y, j + 1) = Value(y, j) + Power(WORD, j) * y[j + 1] /\ Value(y, j) \in Nat
    BY <2>2, ValueGrows
  <2>5. j + 1 \in 1..n /\ Power(WORD, j) \in Nat /\ y[j + 1] \in Nat
    BY WordPower
  <2>6. PICK v \in Nat, p \in Nat, d \in Nat : v = Value(y, j) /\ p = Power(WORD, j) /\ d = y[j + 1]
    BY <2>4, <2>5
  <2>7. x * v + p * (x * d) = x * (v + p * d)
    OBVIOUS
  <2>8. Value(t, j) = x * v /\ t[j + 1] = x * d
    BY <1>3, <2>5, <2>6
  <2> QED BY <2>3, <2>4, <2>6, <2>7, <2>8
<1> HIDE DEF Known
<1>4. Nat \subseteq Known
  BY <1>2, <1>3, Induct
<1> QED BY <1>4 DEF Known

\* The value after a change of one word.
LEMMA ValueExcept ==
    ASSUME NEW m \in Nat, NEW e \in 1..m, NEW d \in Nat, NEW r, \A i \in 1..m : r[i] \in Nat,
           NEW w, \A i \in 1..m : w[i] = IF i = e THEN r[i] + d ELSE r[i]
    PROVE  Value(w, m) = Value(r, m) + Power(WORD, e - 1) * d
<1> DEFINE Known == {j \in Nat : j <= m => Value(w, j) = IF j < e THEN Value(r, j)
                                                        ELSE Value(r, j) + Power(WORD, e - 1) * d}
<1>1. \A i \in 1..m : w[i] \in Nat
  OBVIOUS
<1>2. 0 \in Known
  BY ValueEmpty
<1>3. ASSUME NEW j \in Nat, j \in Known PROVE j + 1 \in Known
  <2> SUFFICES ASSUME j + 1 <= m
               PROVE  Value(w, j + 1) = IF j + 1 < e THEN Value(r, j + 1)
                                        ELSE Value(r, j + 1) + Power(WORD, e - 1) * d
    OBVIOUS
  <2>1. \A i \in 1..(j + 1) : w[i] \in Nat
    BY <1>1
  <2>2. \A i \in 1..(j + 1) : r[i] \in Nat
    OBVIOUS
  <2>3. Value(w, j + 1) = Value(w, j) + Power(WORD, j) * w[j + 1]
    BY <2>1, ValueGrows
  <2>4. Value(r, j + 1) = Value(r, j) + Power(WORD, j) * r[j + 1] /\ Value(r, j) \in Nat
    BY <2>2, ValueGrows
  <2>5. j + 1 \in 1..m /\ j <= m
    OBVIOUS
  <2>6. Value(w, j) = IF j < e THEN Value(r, j) ELSE Value(r, j) + Power(WORD, e - 1) * d
    BY <1>3, <2>5
  <2>7. w[j + 1] = IF j + 1 = e THEN r[j + 1] + d ELSE r[j + 1]
    BY <2>5
  <2>8. PICK v \in Nat, p \in Nat, z \in Nat, q \in Nat :
            v = Value(r, j) /\ p = Power(WORD, j) /\ z = r[j + 1] /\ q = Power(WORD, e - 1)
    <3>1. e - 1 \in Nat
      OBVIOUS
    <3> QED BY <2>4, <2>5, <3>1, WordPower
  <2>9. CASE j + 1 = e
    <3>1. q = p /\ j < e /\ ~(j + 1 < e)
      BY <2>8, <2>9
    <3>2. v + p * (z + d) = (v + p * z) + p * d
      OBVIOUS
    <3> QED BY <2>3, <2>4, <2>6, <2>7, <2>8, <2>9, <3>1, <3>2
  <2>10. CASE j + 1 # e
    <3>1. CASE j < e
      BY <2>3, <2>4, <2>6, <2>7, <2>10, <3>1
    <3>2. CASE ~(j < e)
      <4>1. (v + q * d) + p * z = (v + p * z) + q * d
        OBVIOUS
      <4> QED BY <2>3, <2>4, <2>6, <2>7, <2>8, <2>10, <3>2, <4>1
    <3> QED BY <3>1, <3>2
  <2> QED BY <2>9, <2>10
<1> HIDE DEF Known
<1>4. Nat \subseteq Known
  BY <1>2, <1>3, Induct
<1>5. m \in Known /\ ~(m < e)
  BY <1>4
<1> QED BY <1>5 DEF Known

\* A number is its lower words and, shifted, its upper ones.
LEMMA ValueSplit ==
    ASSUME NEW m \in Nat, NEW n \in Nat, NEW x, \A i \in 1..(m + n) : x[i] \in Nat,
           NEW h, \A i \in 1..n : h[i] = x[m + i]
    PROVE  Value(x, m + n) = Value(x, m) + Power(WORD, m) * Value(h, n)
<1> DEFINE Known == {j \in Nat : j <= n =>
                        Value(x, m + j) = Value(x, m) + Power(WORD, m) * Value(h, j)}
<1>1. 0 \in Known
  <2>1. Value(h, 0) = 0 /\ m + 0 = m /\ Power(WORD, m) \in Nat
    BY ValueEmpty, WordPower
  <2>2. Value(x, m) \in Nat
    <3>1. \A i \in 1..m : x[i] \in Nat
      OBVIOUS
    <3> QED BY <3>1, ValueNat
  <2> QED BY <2>1, <2>2
<1>2. ASSUME NEW j \in Nat, j \in Known PROVE j + 1 \in Known
  <2> SUFFICES ASSUME j + 1 <= n
               PROVE  Value(x, m + (j + 1)) = Value(x, m) + Power(WORD, m) * Value(h, j + 1)
    OBVIOUS
  <2>1. \A i \in 1..((m + j) + 1) : x[i] \in Nat
    OBVIOUS
  <2>2. \A i \in 1..(j + 1) : h[i] \in Nat
    OBVIOUS
  <2>3. m + j \in Nat /\ m + (j + 1) = (m + j) + 1 /\ j <= n /\ j + 1 \in 1..n
    OBVIOUS
  <2>4. Value(x, (m + j) + 1) = Value(x, m + j) + Power(WORD, m + j) * x[(m + j) + 1]
    BY <2>1, <2>3, ValueGrows
  <2>5. Value(h, j + 1) = Value(h, j) + Power(WORD, j) * h[j + 1] /\ Value(h, j) \in Nat
    BY <2>2, ValueGrows
  <2>6. Power(WORD, m + j) = Power(WORD, m) * Power(WORD, j)
    BY PowerAdds, WordFacts
  <2>7. Value(x, m) \in Nat
    <3>1. \A i \in 1..m : x[i] \in Nat
      OBVIOUS
    <3> QED BY <3>1, ValueNat
  <2>8. h[j + 1] \in Nat /\ x[(m + j) + 1] = h[j + 1]
    BY <2>2, <2>3
  <2>9. PICK v \in Nat, u \in Nat, p \in Nat, q \in Nat, d \in Nat :
            /\ v = Value(x, m) /\ u = Value(h, j) /\ p = Power(WORD, m) /\ q = Power(WORD, j)
            /\ d = h[j + 1]
    BY <2>5, <2>7, <2>8, WordPower
  <2>10. (v + p * u) + (p * q) * d = v + p * (u + q * d)
    OBVIOUS
  <2>11. Value(x, m + j) = v + p * u
    BY <1>2, <2>3, <2>9
  <2> QED BY <2>3, <2>4, <2>5, <2>6, <2>8, <2>9, <2>10, <2>11
<1> HIDE DEF Known
<1>3. Nat \subseteq Known
  BY <1>1, <1>2, Induct
<1> QED BY <1>3 DEF Known

\* The words of a number have its value.
LEMMA LimbsValue ==
    ASSUME NEW len \in Nat, NEW n \in Nat, n < Power(WORD, len)
    PROVE  /\ bigIntToLimbsLE(n, len) \in [1..len -> Word]
           /\ Value(bigIntToLimbsLE(n, len), len) = n
<1> DEFINE step == [j \in 1..len |-> [m \in Nat |-> m \div WORD]]
           shifted(i) == Repeat(n, step, i)
           x == [i \in 1..len |-> shifted(i - 1) % WORD]
           Known == {i \in Nat : i <= len =>
                        shifted(i) \in Nat /\ Value(x, i) + Power(WORD, i) * shifted(i) = n}
<1>1. WORD \in Nat \ {0} /\ Word = 0..(WORD - 1)
  BY WordFacts
<1>2. shifted(0) = n /\ \A i \in Nat : shifted(i + 1) = step[i + 1][shifted(i)]
  <2> HIDE DEF step
  <2> QED BY LoopUnfolds
<1>3. ASSUME NEW i \in Nat, i < len, shifted(i) \in Nat
      PROVE  shifted(i + 1) = shifted(i) \div WORD /\ shifted(i + 1) \in Nat
  <2>1. step[i + 1] = [m \in Nat |-> m \div WORD]
    BY <1>3
  <2>2. shifted(i + 1) = step[i + 1][shifted(i)]
    BY <1>2
  <2>3. shifted(i + 1) = shifted(i) \div WORD
    <3> HIDE DEF step, shifted
    <3> QED BY <1>3, <2>1, <2>2
  <2>4. shifted(i) \div WORD \in Nat
    <3> HIDE DEF shifted
    <3> QED BY <1>1, <1>3
  <2> HIDE DEF shifted
  <2> QED BY <2>3, <2>4
<1> HIDE DEF shifted
<1>4. \A i \in Nat : i <= len => shifted(i) \in Nat
  <2> DEFINE Nats == {i \in Nat : i <= len => shifted(i) \in Nat}
  <2>1. 0 \in Nats
    BY <1>2
  <2>2. ASSUME NEW i \in Nat, i \in Nats PROVE i + 1 \in Nats
    BY <1>3, <2>2
  <2> HIDE DEF Nats
  <2>3. Nat \subseteq Nats
    BY <2>1, <2>2, Induct
  <2> QED BY <2>3 DEF Nats
<1>5. \A i \in 1..len : x[i] = shifted(i - 1) % WORD /\ x[i] \in Word /\ x[i] \in Nat
  <2> SUFFICES ASSUME NEW i \in 1..len
               PROVE  x[i] = shifted(i - 1) % WORD /\ x[i] \in Word /\ x[i] \in Nat
    OBVIOUS
  <2>1. shifted(i - 1) \in Nat
    BY <1>4
  <2>2. (shifted(i - 1) % WORD) \in 0..(WORD - 1)
    BY <1>1, <2>1
  <2> QED BY <1>1, <2>2
<1>6. x \in [1..len -> Word]
  BY <1>5
<1> HIDE DEF x
<1>7. 0 \in Known
  <2>1. Value(x, 0) = 0 /\ Power(WORD, 0) = 1 /\ shifted(0) = n
    BY <1>2, ValueEmpty, WordPower
  <2> QED BY <2>1
<1>8. ASSUME NEW i \in Nat, i \in Known PROVE i + 1 \in Known
  <2> SUFFICES ASSUME i + 1 <= len
               PROVE  /\ shifted(i + 1) \in Nat
                      /\ Value(x, i + 1) + Power(WORD, i + 1) * shifted(i + 1) = n
    OBVIOUS
  <2>1. shifted(i) \in Nat /\ Value(x, i) + Power(WORD, i) * shifted(i) = n
    BY <1>8
  <2>2. Value(x, i + 1) = Value(x, i) + Power(WORD, i) * x[i + 1]
    BY <1>5, ValueStep
  <2>3. x[i + 1] = shifted(i) % WORD
    <3>1. i + 1 \in 1..len /\ (i + 1) - 1 = i
      OBVIOUS
    <3> QED BY <1>5, <3>1
  <2>4. shifted(i + 1) = shifted(i) \div WORD /\ shifted(i + 1) \in Nat
    BY <1>3, <2>1
  <2>5. shifted(i) = WORD * shifted(i + 1) + x[i + 1]
    <3>1. PICK s \in Nat : s = shifted(i)
      BY <2>1
    <3>2. s = WORD * (s \div WORD) + (s % WORD)
      BY <1>1
    <3> QED BY <2>3, <2>4, <3>1, <3>2
  <2>6. Power(WORD, i) \in Nat /\ Power(WORD, i + 1) = WORD * Power(WORD, i)
    BY WordPower
  <2>7. Value(x, i) \in Nat /\ x[i + 1] \in Nat
    BY <1>5, ValueNat
  <2>8. Value(x, i + 1) + (WORD * Power(WORD, i)) * shifted(i + 1)
            = Value(x, i) + Power(WORD, i) * (WORD * shifted(i + 1) + x[i + 1])
    BY <1>1, <2>2, <2>4, <2>6, <2>7
  <2> QED BY <2>1, <2>4, <2>5, <2>6, <2>8
<1>9. Nat \subseteq Known
  <2> HIDE DEF Known
  <2> QED BY <1>7, <1>8, Induct
<1>10. shifted(len) \in Nat /\ Value(x, len) + Power(WORD, len) * shifted(len) = n
  BY <1>9
<1>11. Value(x, len) \in Nat /\ Power(WORD, len) \in Nat
  BY <1>5, ValueNat, WordPower
<1>12. shifted(len) = 0
  <2> SUFFICES ASSUME shifted(len) >= 1 PROVE FALSE
    BY <1>10
  <2>1. Power(WORD, len) * 1 <= Power(WORD, len) * shifted(len)
    BY <1>10, <1>11, Times
  <2> QED BY <1>10, <1>11, <2>1
<1>13. bigIntToLimbsLE(n, len) = x
  BY DEF bigIntToLimbsLE, x, shifted
<1> QED BY <1>6, <1>10, <1>11, <1>12, <1>13

\* A word operation with its carry, or its borrow, loses nothing.
LEMMA AddWordExact ==
    ASSUME NEW x \in Word, NEW y \in Word, NEW c \in Word
    PROVE  LET sum == AddWord(x, y, c)
           IN  /\ sum.word \in Word /\ sum.carry \in Word
               /\ sum.word + WORD * sum.carry = x + y + c
<1> DEFINE s1 == (x + y) % WORD
           s2 == (s1 + c) % WORD
<1>1. WORD \in Nat \ {0} /\ Word = 0..(WORD - 1) /\ WORD >= 4
  BY WordFacts
<1>2. s1 \in Word /\ s1 + WORD * Flag(s1 < x) = x + y
  <2>1. CASE x + y < WORD
    <3>1. x + y = WORD * 0 + (x + y)
      BY <1>1
    <3>2. s1 = x + y
      BY <1>1, <2>1, <3>1
    <3> HIDE DEF s1
    <3> QED BY <1>1, <2>1, <3>2 DEF Flag
  <2>2. CASE x + y >= WORD
    <3>1. x + y = WORD * 1 + (x + y - WORD)
      BY <1>1
    <3>2. s1 = x + y - WORD
      BY <1>1, <2>2, <3>1
    <3> HIDE DEF s1
    <3> QED BY <1>1, <2>2, <3>2 DEF Flag
  <2> QED BY <1>1, <2>1, <2>2
<1>3. s2 \in Word /\ s2 + WORD * Flag(s2 < s1) = s1 + c
  <2> HIDE DEF s1
  <2>1. CASE s1 + c < WORD
    <3>1. s1 + c = WORD * 0 + (s1 + c)
      BY <1>1, <1>2
    <3>2. s2 = s1 + c
      BY <1>1, <1>2, <2>1, <3>1
    <3> HIDE DEF s2
    <3> QED BY <1>1, <1>2, <2>1, <3>2 DEF Flag
  <2>2. CASE s1 + c >= WORD
    <3>1. s1 + c = WORD * 1 + (s1 + c - WORD)
      BY <1>1, <1>2
    <3>2. s2 = s1 + c - WORD
      BY <1>1, <1>2, <2>2, <3>1
    <3> HIDE DEF s2
    <3> QED BY <1>1, <1>2, <2>2, <3>2 DEF Flag
  <2> QED BY <1>1, <1>2, <2>1, <2>2
<1>4. Flag(s1 < x) \in 0..1 /\ Flag(s2 < s1) \in 0..1
  BY DEF Flag
<1>5. AddWord(x, y, c).word = s2 /\ AddWord(x, y, c).carry = Flag(s1 < x) + Flag(s2 < s1)
  BY DEF AddWord
<1> HIDE DEF s1, s2
<1>6. s2 + WORD * (Flag(s1 < x) + Flag(s2 < s1)) = x + y + c
  BY <1>1, <1>2, <1>3, <1>4
<1>7. Flag(s1 < x) + Flag(s2 < s1) \in Word
  BY <1>1, <1>4
<1> QED BY <1>3, <1>5, <1>6, <1>7

LEMMA SubWordExact ==
    ASSUME NEW x \in Word, NEW y \in Word, NEW c \in Word
    PROVE  LET diff == SubWord(x, y, c)
           IN  /\ diff.word \in Word /\ diff.carry \in Word
               /\ diff.word - WORD * diff.carry = x - y - c
<1> DEFINE s1 == (x - y) % WORD
           s2 == (s1 - c) % WORD
<1>1. WORD \in Nat \ {0} /\ Word = 0..(WORD - 1) /\ WORD >= 4
  BY WordFacts
<1>2. s1 \in Word /\ s1 - WORD * Flag(x < y) = x - y
  <2>1. CASE ~(x < y)
    <3>1. x - y = WORD * 0 + (x - y)
      BY <1>1
    <3>2. s1 = x - y
      BY <1>1, <2>1, <3>1
    <3> HIDE DEF s1
    <3> QED BY <1>1, <2>1, <3>2 DEF Flag
  <2>2. CASE x < y
    <3>1. x - y = WORD * (-1) + (x - y + WORD)
      BY <1>1
    <3>2. s1 = x - y + WORD
      BY <1>1, <2>2, <3>1
    <3> HIDE DEF s1
    <3> QED BY <1>1, <2>2, <3>2 DEF Flag
  <2> QED BY <1>1, <2>1, <2>2
<1>3. s2 \in Word /\ s2 - WORD * Flag(s1 < c) = s1 - c
  <2> HIDE DEF s1
  <2>1. CASE ~(s1 < c)
    <3>1. s1 - c = WORD * 0 + (s1 - c)
      BY <1>1, <1>2
    <3>2. s2 = s1 - c
      BY <1>1, <1>2, <2>1, <3>1
    <3> HIDE DEF s2
    <3> QED BY <1>1, <1>2, <2>1, <3>2 DEF Flag
  <2>2. CASE s1 < c
    <3>1. s1 - c = WORD * (-1) + (s1 - c + WORD)
      BY <1>1, <1>2
    <3>2. s2 = s1 - c + WORD
      BY <1>1, <1>2, <2>2, <3>1
    <3> HIDE DEF s2
    <3> QED BY <1>1, <1>2, <2>2, <3>2 DEF Flag
  <2> QED BY <1>1, <1>2, <2>1, <2>2
<1>4. Flag(x < y) \in 0..1 /\ Flag(s1 < c) \in 0..1
  BY DEF Flag
<1>5. SubWord(x, y, c).word = s2 /\ SubWord(x, y, c).carry = Flag(x < y) + Flag(s1 < c)
  BY DEF SubWord
<1> HIDE DEF s1, s2
<1> QED BY <1>1, <1>2, <1>3, <1>4, <1>5, SMTT(30)

\* A word and its two halves.
LEMMA Halves ==
    ASSUME NEW x \in Word
    PROVE  /\ x \div HALF \in 0..(HALF - 1) /\ (x % HALF) \in 0..(HALF - 1)
           /\ x = HALF * (x \div HALF) + (x % HALF)
<1>1. HALF \in Nat \ {0} /\ x \in Nat /\ x < HALF * HALF
  BY WordFacts
<1>2. x \div HALF \in Nat /\ (x % HALF) \in 0..(HALF - 1) /\ x = HALF * (x \div HALF) + (x % HALF)
  BY <1>1
<1>3. x \div HALF < HALF
  <2> SUFFICES ASSUME HALF <= x \div HALF PROVE FALSE
    BY <1>1, <1>2
  <2>1. HALF * HALF <= HALF * (x \div HALF)
    BY <1>1, <1>2, Times
  <2> QED BY <1>1, <1>2, <2>1
<1> QED BY <1>1, <1>2, <1>3

\* The product of two words from those of their halves.
LEMMA mul32Exact ==
    ASSUME NEW x \in Word, NEW y \in Word
    PROVE  /\ mul32(x, y).lo \in Word /\ mul32(x, y).hi \in Word
           /\ mul32(x, y).lo + WORD * mul32(x, y).hi = x * y
<1> DEFINE xh == x \div HALF  xl == x % HALF
           yh == y \div HALF  yl == y % HALF
           ll == xl * yl  lh == xl * yh  hl == xh * yl  hh == xh * yh
           mid == (ll \div HALF) + (lh % HALF) + (hl % HALF)
           lo == (ll % HALF) + (mid % HALF) * HALF
           hi == hh + (lh \div HALF) + (hl \div HALF) + (mid \div HALF)
<1>1. /\ HALF \in Nat \ {0} /\ WORD \in Nat \ {0} /\ WORD = HALF * HALF
      /\ Word = 0..(WORD - 1) /\ x \in Nat /\ y \in Nat
  BY WordFacts
<1>2. /\ xh \in 0..(HALF - 1) /\ xl \in 0..(HALF - 1) /\ x = HALF * xh + xl
      /\ yh \in 0..(HALF - 1) /\ yl \in 0..(HALF - 1) /\ y = HALF * yh + yl
  BY Halves
<1> HIDE DEF xh, xl, yh, yl
<1>3. ll \in Nat /\ lh \in Nat /\ hl \in Nat /\ hh \in Nat
  BY <1>1, <1>2
<1>4. x * y = ll + HALF * lh + HALF * hl + HALF * HALF * hh
  BY <1>1, <1>2
<1> HIDE DEF ll, lh, hl, hh
<1>5. /\ ll \div HALF \in Nat /\ (ll % HALF) \in 0..(HALF - 1)
      /\ ll = HALF * (ll \div HALF) + (ll % HALF)
  BY <1>1, <1>3
<1>6. /\ lh \div HALF \in Nat /\ (lh % HALF) \in 0..(HALF - 1)
      /\ lh = HALF * (lh \div HALF) + (lh % HALF)
  BY <1>1, <1>3
<1>7. /\ hl \div HALF \in Nat /\ (hl % HALF) \in 0..(HALF - 1)
      /\ hl = HALF * (hl \div HALF) + (hl % HALF)
  BY <1>1, <1>3
<1>8. /\ mid \in Nat /\ mid \div HALF \in Nat /\ (mid % HALF) \in 0..(HALF - 1)
      /\ mid = HALF * (mid \div HALF) + (mid % HALF)
  <2>1. mid \in Nat
    BY <1>5, <1>6, <1>7
  <2> HIDE DEF mid
  <2> QED BY <1>1, <2>1
<1>9. lo \in Word
  <2>1. (ll % HALF) + HALF * (mid % HALF) \in 0..(HALF * HALF - 1)
    <3> HIDE DEF mid
    <3> QED BY <1>1, <1>5, <1>8, DigitBound
  <2>2. lo = (ll % HALF) + HALF * (mid % HALF)
    <3> HIDE DEF mid
    <3> QED BY <1>1, <1>5, <1>8
  <2> HIDE DEF lo
  <2> QED BY <1>1, <2>1, <2>2
<1>10. hi \in Nat
  <2> HIDE DEF mid
  <2> QED BY <1>3, <1>6, <1>7, <1>8
<1>12. lo + WORD * hi = x * y
  <2> DEFINE a1 == ll \div HALF   a0 == ll % HALF
             b1 == lh \div HALF   b0 == lh % HALF
             c1 == hl \div HALF   c0 == hl % HALF
             m1 == mid \div HALF  m0 == mid % HALF
  <2>1. mid = a1 + b0 + c0 /\ lo = a0 + m0 * HALF /\ hi = hh + b1 + c1 + m1
    OBVIOUS
  <2>2. ll = HALF * a1 + a0 /\ lh = HALF * b1 + b0 /\ hl = HALF * c1 + c0 /\ mid = HALF * m1 + m0
    BY <1>5, <1>6, <1>7, <1>8
  <2>3. /\ a1 \in Int /\ a0 \in Int /\ b1 \in Int /\ b0 \in Int /\ c1 \in Int /\ c0 \in Int
        /\ m1 \in Int /\ m0 \in Int
    <3> HIDE DEF mid
    <3> QED BY <1>5, <1>6, <1>7, <1>8
  <2> HIDE DEF a1, a0, b1, b0, c1, c0, m1, m0, mid, lo, hi
  <2> QED BY <1>1, <1>3, <1>4, <2>1, <2>2, <2>3
<1>13. hi < WORD
  <2>1. x * y < WORD * WORD
    <3>1. x * y <= x * WORD /\ WORD * x <= WORD * (WORD - 1)
      BY <1>1, Times
    <3> QED BY <1>1, <3>1
  <2> SUFFICES ASSUME WORD <= hi PROVE FALSE
    BY <1>1, <1>10
  <2>2. WORD * WORD <= WORD * hi
    <3> HIDE DEF hi
    <3> QED BY <1>1, <1>10, Times
  <2> HIDE DEF hi, lo
  <2> QED BY <1>1, <1>9, <1>10, <1>12, <2>1, <2>2
<1>14. hi % WORD = hi
  <2> HIDE DEF hi
  <2>1. hi = WORD * 0 + hi
    BY <1>1, <1>10
  <2> QED BY <1>1, <1>10, <1>13, <2>1
<1>15. mul32(x, y) = [lo |-> lo, hi |-> hi % WORD]
  BY DEF mul32, xh, xl, yh, yl, ll, lh, hl, hh
<1> HIDE DEF hi, lo
<1> QED BY <1>1, <1>9, <1>10, <1>12, <1>13, <1>14, <1>15

\* A product of words that is added to a word, with a carry: the sum fits two words.
LEMMA MulWordExact ==
    ASSUME NEW r \in Word, NEW x \in Word, NEW y \in Word, NEW c \in Word
    PROVE  LET prod == MulWord(r, x, y, c)
           IN  /\ prod.word \in Word /\ prod.carry \in Word
               /\ prod.word + WORD * prod.carry = r + x * y + c
<1> DEFINE lo == mul32(x, y).lo
           hi == mul32(x, y).hi
           sum == AddWord(r, lo, c)
<1>1. WORD \in Nat \ {0} /\ Word = 0..(WORD - 1) /\ x \in Nat /\ y \in Nat
  BY WordFacts
<1>2. lo \in Word /\ hi \in Word /\ lo + WORD * hi = x * y
  BY mul32Exact
<1>3. sum.word \in Word /\ sum.carry \in Word /\ sum.word + WORD * sum.carry = r + lo + c
  <2> HIDE DEF lo
  <2> QED BY <1>2, AddWordExact
<1> HIDE DEF lo, hi, sum
<1>4. sum.word + WORD * (hi + sum.carry) = r + x * y + c
  <2>1. WORD * (hi + sum.carry) = WORD * hi + WORD * sum.carry
    BY <1>1, <1>2, <1>3
  <2>2. PICK h \in Int, q \in Int, e \in Int, z \in Int :
            h = WORD * hi /\ q = WORD * sum.carry /\ e = WORD * (hi + sum.carry) /\ z = x * y
    <3>1. {WORD * hi, WORD * sum.carry, WORD * (hi + sum.carry), x * y} \subseteq Int
      BY <1>1, <1>2, <1>3
    <3> QED BY <3>1, Zenon
  <2>3. sum.word \in Int /\ r \in Int /\ lo \in Int /\ c \in Int
    BY <1>1, <1>2, <1>3
  <2>4. e = h + q /\ lo + h = z /\ sum.word + q = r + lo + c
    BY <1>2, <1>3, <2>1, <2>2
  <2>5. sum.word + e = r + z + c
    BY <2>3, <2>4
  <2> QED BY <2>2, <2>5
<1>5. hi + sum.carry < WORD
  <2>1. x * y <= (WORD - 1) * (WORD - 1)
    <3>1. x * y <= x * (WORD - 1) /\ (WORD - 1) * x <= (WORD - 1) * (WORD - 1)
      BY <1>1, Times
    <3> QED BY <1>1, <3>1
  <2>2. (WORD - 1) * (WORD - 1) + (WORD - 1) + (WORD - 1) < WORD * WORD
    BY <1>1
  <2> SUFFICES ASSUME WORD <= hi + sum.carry PROVE FALSE
    BY <1>1, <1>2, <1>3
  <2>3. WORD * WORD <= WORD * (hi + sum.carry)
    <3>1. WORD \in Nat /\ WORD \in Int /\ hi + sum.carry \in Int
      BY <1>1, <1>2, <1>3
    <3> QED BY <3>1, Times
  <2>4. x * y \in Nat /\ WORD * (hi + sum.carry) \in Nat /\ WORD * WORD \in Nat
    BY <1>1, <1>2, <1>3
  <2> QED BY <1>1, <1>3, <1>4, <2>1, <2>2, <2>3, <2>4
<1>6. (hi + sum.carry) % WORD = hi + sum.carry
  <2>1. PICK h \in 0..(WORD - 1) : h = hi + sum.carry
    BY <1>1, <1>2, <1>3, <1>5
  <2>2. h = WORD * 0 + h
    BY <1>1
  <2>3. h % WORD = h
    BY <1>1, <2>2
  <2> QED BY <2>1, <2>3
<1>7. MulWord(r, x, y, c) = [word |-> sum.word, carry |-> hi + sum.carry]
  BY <1>6 DEF MulWord, lo, hi, sum
<1>8. hi + sum.carry \in Word
  BY <1>1, <1>2, <1>3, <1>5
<1> QED BY <1>3, <1>4, <1>7, <1>8

-----------------------------------------------------------------------------
(* Sums, differences and products                                          *)

\* The steps of a loop that adds the words of t to those of r after the first
\* skip, or subtracts them if s is -1.
Steps(step, r, t, s, skip, n, m) ==
    /\ m \in Nat /\ n \in Nat /\ skip \in Nat /\ skip + n <= m /\ s \in {-1, 1}
    /\ r \in [1..m -> Word]
    /\ \A i \in 1..n : t[i] \in Nat
    /\ DOMAIN step = 1..n /\ Len(step) = n
    /\ \A i \in 1..n : \A c \in Word :
           /\ step[i][c].word \in Word /\ step[i][c].carry \in Word
           /\ step[i][c].word + s * (WORD * step[i][c].carry) = r[skip + i] + s * (t[i] + c)

\* What the steps of a loop do to words they do to the numbers.
LEMMA RippleExact ==
    ASSUME NEW step, NEW r, NEW t, NEW s, NEW skip, NEW n, NEW m, Steps(step, r, t, s, skip, n, m)
    PROVE  /\ Ripple(step, r, skip).words \in [1..m -> Word]
           /\ Ripple(step, r, skip).carry \in Word
           /\ \A j \in 1..m : j - skip \notin 1..n => Ripple(step, r, skip).words[j] = r[j]
           /\ Value(Ripple(step, r, skip).words, m)
                + s * (Power(WORD, skip + n) * Ripple(step, r, skip).carry)
                  = Value(r, m) + s * (Power(WORD, skip) * Value(t, n))
<1> SUFFICES ASSUME m \in Nat, n \in Nat, skip \in Nat, skip + n <= m, s \in {-1, 1},
                    r \in [1..m -> Word],
                    \A i \in 1..n : t[i] \in Nat,
                    DOMAIN step = 1..n, Len(step) = n,
                    \A i \in 1..n : \A c \in Word :
                       /\ step[i][c].word \in Word /\ step[i][c].carry \in Word
                       /\ step[i][c].word + s * (WORD * step[i][c].carry) = r[skip + i] + s * (t[i] + c)
             PROVE  /\ Ripple(step, r, skip).words \in [1..m -> Word]
                    /\ Ripple(step, r, skip).carry \in Word
                    /\ \A j \in 1..m : j - skip \notin 1..n => Ripple(step, r, skip).words[j] = r[j]
                    /\ Value(Ripple(step, r, skip).words, m)
                         + s * (Power(WORD, skip + n) * Ripple(step, r, skip).carry)
                           = Value(r, m) + s * (Power(WORD, skip) * Value(t, n))
  BY DEF Steps
<1> DEFINE pass == [i \in 1..n |-> [c \in Word |-> step[i][c].carry]]
           carry(i) == Repeat(0, pass, i)
           w == [j \in 1..m |-> IF j - skip \in 1..n THEN step[j - skip][carry(j - skip - 1)].word
                                ELSE r[j]]
           Known == {i \in Nat : i <= n =>
                        Value(w, skip + i) + s * (Power(WORD, skip + i) * carry(i))
                            = Value(r, skip + i) + s * (Power(WORD, skip) * Value(t, i))}
           Rest == {j \in Nat : skip + n + j <= m =>
                        Value(w, skip + n + j) - Value(r, skip + n + j)
                            = Value(w, skip + n) - Value(r, skip + n)}
<1>1. WORD \in Nat /\ Word = 0..(WORD - 1) /\ 0 \in Word /\ Word \subseteq Nat
  BY WordFacts
<1>2. carry(0) = 0 /\ \A i \in Nat : carry(i + 1) = pass[i + 1][carry(i)]
  <2> HIDE DEF pass
  <2> QED BY LoopUnfolds
<1>3. ASSUME NEW i \in Nat, i < n, carry(i) \in Word
      PROVE  carry(i + 1) = step[i + 1][carry(i)].carry
  <2>1. pass[i + 1] = [c \in Word |-> step[i + 1][c].carry]
    BY <1>3
  <2>2. carry(i + 1) = pass[i + 1][carry(i)]
    BY <1>2
  <2> HIDE DEF pass, carry
  <2> QED BY <1>3, <2>1, <2>2
<1> HIDE DEF carry
<1>4. \A i \in Nat : i <= n => carry(i) \in Word
  <2> DEFINE Good == {i \in Nat : i <= n => carry(i) \in Word}
  <2>1. 0 \in Good
    BY <1>1, <1>2
  <2>2. ASSUME NEW i \in Nat, i \in Good PROVE i + 1 \in Good
    <3> SUFFICES ASSUME i + 1 <= n PROVE carry(i + 1) \in Word
      OBVIOUS
    <3>1. carry(i) \in Word /\ i < n /\ i + 1 \in 1..n
      BY <2>2
    <3> QED BY <1>3, <3>1
  <2> HIDE DEF Good
  <2>3. Nat \subseteq Good
    BY <2>1, <2>2, Induct
  <2> QED BY <2>3 DEF Good
<1>5. ASSUME NEW i \in Nat, i < n
      PROVE  /\ w[skip + (i + 1)] = step[i + 1][carry(i)].word
             /\ i + 1 \in 1..n /\ carry(i) \in Word /\ skip + (i + 1) \in 1..m
             /\ carry(i + 1) = step[i + 1][carry(i)].carry
  <2>1. /\ skip + (i + 1) \in 1..m /\ (skip + (i + 1)) - skip = i + 1 /\ i + 1 \in 1..n
        /\ (skip + (i + 1)) - skip - 1 = i
    BY <1>5
  <2>2. carry(i) \in Word
    BY <1>4, <1>5
  <2> QED BY <1>3, <1>5, <2>1, <2>2
<1>6. w \in [1..m -> Word]
  <2> SUFFICES ASSUME NEW j \in 1..m PROVE w[j] \in Word
    OBVIOUS
  <2>1. CASE j - skip \in 1..n
    <3>1. (j - skip) - 1 \in Nat /\ (j - skip) - 1 < n /\ ((j - skip) - 1) + 1 = j - skip
          /\ skip + (j - skip) = j
      BY <2>1
    <3>2. w[j] = step[j - skip][carry(j - skip - 1)].word /\ carry(j - skip - 1) \in Word
      BY <1>5, <3>1
    <3> HIDE DEF w
    <3> QED BY <2>1, <3>2
  <2>2. CASE j - skip \notin 1..n
    BY <2>2
  <2> QED BY <2>1, <2>2
<1>7. \A j \in 1..m : j - skip \notin 1..n => w[j] = r[j]
  OBVIOUS
<1> HIDE DEF w
<1>8. \A j \in 1..m : w[j] \in Nat
  BY <1>1, <1>6
<1>9. \A j \in 1..m : r[j] \in Nat
  BY <1>1
<1>10. \A j \in 1..n : t[j] \in Nat
  OBVIOUS
<1>11. 0 \in Known
  <2>1. \A j \in 1..skip : r[j] \in Nat /\ w[j] = r[j]
    BY <1>7, <1>9
  <2>2. Value(w, skip) = Value(r, skip)
    BY <2>1, ValueAgree
  <2>3. Value(t, 0) = 0 /\ skip + 0 = skip /\ carry(0) = 0 /\ Power(WORD, skip) \in Nat
    <3>1. Value(t, 0) = 0
      BY ValueEmpty
    <3>2. Power(WORD, skip) \in Nat
      BY WordPower
    <3> QED BY <1>2, <3>1, <3>2
  <2>4. /\ s * (Power(WORD, skip + 0) * carry(0)) = 0
        /\ s * (Power(WORD, skip) * Value(t, 0)) = 0
    BY <2>3
  <2> QED BY <2>2, <2>3, <2>4
<1>12. ASSUME NEW i \in Nat, i \in Known PROVE i + 1 \in Known
  <2> SUFFICES ASSUME i + 1 <= n
               PROVE  Value(w, skip + (i + 1)) + s * (Power(WORD, skip + (i + 1)) * carry(i + 1))
                          = Value(r, skip + (i + 1)) + s * (Power(WORD, skip) * Value(t, i + 1))
    OBVIOUS
  <2> DEFINE c == carry(i)
             d == carry(i + 1)
             z == w[skip + (i + 1)]
             x == r[skip + (i + 1)]
             y == t[i + 1]
             p == Power(WORD, i)
             q == Power(WORD, skip)
  <2>1. /\ z = step[i + 1][c].word /\ c \in Word /\ d = step[i + 1][c].carry
        /\ i + 1 \in 1..n /\ skip + (i + 1) \in 1..m /\ i < n
    BY <1>5
  <2>2. z \in Word /\ d \in Word /\ z + s * (WORD * d) = x + s * (y + c)
    BY <2>1
  <2>3. /\ p \in Nat /\ q \in Nat /\ Power(WORD, skip + i) = q * p
        /\ Power(WORD, skip + (i + 1)) = WORD * (q * p)
    <3>1. Power(WORD, skip + i) = q * p
      BY <1>1, PowerAdds
    <3>2. skip + (i + 1) = (skip + i) + 1 /\ skip + i \in Nat
      OBVIOUS
    <3> QED BY <3>1, <3>2, WordPower
  <2>4. /\ Value(w, skip + (i + 1)) = Value(w, skip + i) + (q * p) * z
        /\ Value(r, skip + (i + 1)) = Value(r, skip + i) + (q * p) * x
    <3>1. skip + (i + 1) = (skip + i) + 1 /\ skip + i \in Nat /\ skip + i < m
      BY <2>1
    <3>2. /\ Value(w, (skip + i) + 1) = Value(w, skip + i) + Power(WORD, skip + i) * w[(skip + i) + 1]
          /\ Value(r, (skip + i) + 1) = Value(r, skip + i) + Power(WORD, skip + i) * r[(skip + i) + 1]
      <4>1. \A j \in 1..((skip + i) + 1) : w[j] \in Nat
        BY <1>8, <3>1
      <4>2. \A j \in 1..((skip + i) + 1) : r[j] \in Nat
        BY <1>9, <3>1
      <4> QED BY <3>1, <4>1, <4>2, ValueGrows
    <3> QED BY <2>3, <3>1, <3>2
  <2>5. Value(t, i + 1) = Value(t, i) + p * y
    <3>1. \A j \in 1..(i + 1) : t[j] \in Nat
      BY <1>10, <2>1
    <3>2. Value(t, i + 1) = Value(t, i) + Power(WORD, i) * t[i + 1]
      BY <3>1, ValueGrows
    <3> QED BY <3>2
  <2>6. Value(w, skip + i) \in Int /\ Value(r, skip + i) \in Int /\ Value(t, i) \in Int
    <3>1. skip + i \in Nat /\ \A j \in 1..(skip + i) : w[j] \in Nat
      BY <1>8, <2>1
    <3>2. \A j \in 1..(skip + i) : r[j] \in Nat
      BY <1>9, <2>1
    <3>3. \A j \in 1..i : t[j] \in Nat
      BY <1>10, <2>1
    <3> QED BY <3>1, <3>2, <3>3, ValueNat, SMTT(30)
  <2>7. Value(w, skip + i) + s * ((q * p) * c) = Value(r, skip + i) + s * (q * Value(t, i))
    BY <1>12, <2>1, <2>3
  <2>8. x \in Int /\ y \in Int /\ z \in Int /\ c \in Int /\ d \in Int /\ WORD \in Int
    <3>1. x \in Int /\ y \in Int
      BY <1>9, <1>10, <2>1
    <3>2. z \in Word /\ c \in Word /\ d \in Word
      BY <2>1, <2>2
    <3>3. Word \subseteq Int /\ WORD \in Int
      BY <1>1
    <3> HIDE DEF c, d, z, x, y
    <3> QED BY <3>1, <3>2, <3>3
  <2>9. (Value(w, skip + i) + (q * p) * z) + s * ((WORD * (q * p)) * d)
            = (Value(r, skip + i) + (q * p) * x) + s * (q * (Value(t, i) + p * y))
    <3>1. PICK C \in Int, D \in Int, Z \in Int, X \in Int, Y \in Int, B \in Int :
              C = c /\ D = d /\ Z = z /\ X = x /\ Y = y /\ B = WORD
      BY <2>8
    <3>2. PICK A \in Int, Q \in Int, V \in Int, U \in Int, T \in Int :
              /\ A = p /\ Q = q
              /\ V = Value(w, skip + i) /\ U = Value(r, skip + i) /\ T = Value(t, i)
      BY <2>3, <2>6, SMTT(30)
    <3>5. PICK S \in {-1, 1} : S = s
      OBVIOUS
    <3> HIDE DEF c, d, z, x, y, p, q
    <3>3. Z + S * (B * D) = X + S * (Y + C) /\ V + S * ((Q * A) * C) = U + S * (Q * T)
      BY <2>2, <2>7, <3>1, <3>2, <3>5
    <3>4. (V + (Q * A) * Z) + S * ((B * (Q * A)) * D) = (U + (Q * A) * X) + S * (Q * (T + A * Y))
      <4>1. CASE S = 1
        <5>1. Z + B * D = X + (Y + C) /\ V + (Q * A) * C = U + Q * T
          BY <3>3, <4>1
        <5>2. (V + (Q * A) * Z) + (B * (Q * A)) * D = (U + (Q * A) * X) + Q * (T + A * Y)
          BY <5>1
        <5> QED BY <4>1, <5>2
      <4>2. CASE S = -1
        <5>1. Z - B * D = X - (Y + C) /\ V - (Q * A) * C = U - Q * T
          BY <3>3, <4>2
        <5>2. (V + (Q * A) * Z) - (B * (Q * A)) * D = (U + (Q * A) * X) - Q * (T + A * Y)
          BY <5>1
        <5> QED BY <4>2, <5>2
      <4> QED BY <4>1, <4>2
    <3> QED BY <3>1, <3>2, <3>4, <3>5
  <2> QED BY <2>3, <2>4, <2>5, <2>9
<1>13. Nat \subseteq Known
  <2> HIDE DEF Known
  <2> QED BY <1>11, <1>12, Induct
<1>14. 0 \in Rest
  OBVIOUS
<1>15. ASSUME NEW j \in Nat, j \in Rest PROVE j + 1 \in Rest
  <2> SUFFICES ASSUME skip + n + (j + 1) <= m
               PROVE  Value(w, skip + n + (j + 1)) - Value(r, skip + n + (j + 1))
                          = Value(w, skip + n) - Value(r, skip + n)
    OBVIOUS
  <2>1. PICK e \in Nat : e = skip + n + j
    OBVIOUS
  <2>2. e < m /\ skip + n + (j + 1) = e + 1 /\ e + 1 \in 1..m /\ (e + 1) - skip \notin 1..n
    BY <2>1
  <2>3. /\ Value(w, e + 1) = Value(w, e) + Power(WORD, e) * w[e + 1]
        /\ Value(r, e + 1) = Value(r, e) + Power(WORD, e) * r[e + 1]
    <3>1. \A l \in 1..(e + 1) : w[l] \in Nat
      BY <1>8, <2>2
    <3>2. \A l \in 1..(e + 1) : r[l] \in Nat
      BY <1>9, <2>2
    <3> QED BY <3>1, <3>2, ValueGrows
  <2>4. w[e + 1] = r[e + 1]
    BY <1>7, <2>2
  <2>5. Value(w, e) \in Int /\ Value(r, e) \in Int /\ Power(WORD, e) * r[e + 1] \in Int
    <3>1. \A l \in 1..e : w[l] \in Nat /\ r[l] \in Nat
      BY <1>8, <1>9, <2>1, <2>2
    <3>2. Value(w, e) \in Nat /\ Value(r, e) \in Nat
      BY <2>1, <3>1, ValueNat
    <3>3. Power(WORD, e) \in Nat /\ r[e + 1] \in Nat
      BY <1>9, <2>1, <2>2, WordPower
    <3> QED BY <3>2, <3>3
  <2>6. Value(w, e) - Value(r, e) = Value(w, skip + n) - Value(r, skip + n)
    BY <1>15, <2>1, <2>2
  <2> QED BY <2>2, <2>3, <2>4, <2>5, <2>6
<1>16. Nat \subseteq Rest
  <2> HIDE DEF Rest
  <2> QED BY <1>14, <1>15, Induct
<1>17. Value(w, m) - Value(r, m) = Value(w, skip + n) - Value(r, skip + n)
  <2>1. m - (skip + n) \in Nat /\ skip + n + (m - (skip + n)) = m
    OBVIOUS
  <2>2. m - (skip + n) \in Rest
    BY <1>16, <2>1
  <2> HIDE DEF w
  <2> QED BY <2>1, <2>2
<1>18. Value(w, skip + n) + s * (Power(WORD, skip + n) * carry(n))
           = Value(r, skip + n) + s * (Power(WORD, skip) * Value(t, n))
  BY <1>13
<1>19. /\ Value(w, m) \in Int /\ Value(r, m) \in Int
       /\ Value(w, skip + n) \in Int /\ Value(r, skip + n) \in Int
       /\ s * (Power(WORD, skip + n) * carry(n)) \in Int
       /\ s * (Power(WORD, skip) * Value(t, n)) \in Int
  <2>1. /\ \A j \in 1..(skip + n) : w[j] \in Nat /\ r[j] \in Nat
        /\ skip + n \in Nat /\ carry(n) \in Nat
    BY <1>1, <1>4, <1>8, <1>9
  <2>2. /\ Value(w, m) \in Nat /\ Value(r, m) \in Nat /\ Value(t, n) \in Nat
        /\ Value(w, skip + n) \in Nat /\ Value(r, skip + n) \in Nat
    BY <1>8, <1>9, <1>10, <2>1, ValueNat
  <2>3. Power(WORD, skip + n) \in Nat /\ Power(WORD, skip) \in Nat
    BY <2>1, WordPower
  <2> QED BY <2>1, <2>2, <2>3, SMTT(30)
<1>20. Ripple(step, r, skip) = [words |-> w, carry |-> carry(n)]
  BY DEF Ripple, w, carry
<1>21. Value(w, m) + s * (Power(WORD, skip + n) * carry(n))
           = Value(r, m) + s * (Power(WORD, skip) * Value(t, n))
  <2> DEFINE vw == Value(w, m)  vr == Value(r, m)  lw == Value(w, skip + n)  lr == Value(r, skip + n)
             x == s * (Power(WORD, skip + n) * carry(n))
             y == s * (Power(WORD, skip) * Value(t, n))
  <2>1. vw - vr = lw - lr /\ lw + x = lr + y
    BY <1>17, <1>18
  <2>2. vw \in Int /\ vr \in Int /\ lw \in Int /\ lr \in Int /\ x \in Int /\ y \in Int
    BY <1>19
  <2> HIDE DEF vw, vr, lw, lr, x, y
  <2>3. PICK a \in Int, b \in Int, c \in Int, d \in Int, e \in Int, f \in Int :
            a = vw /\ b = vr /\ c = lw /\ d = lr /\ e = x /\ f = y
    BY <2>2, Zenon
  <2>4. a - b = c - d /\ c + e = d + f
    BY <2>1, <2>3
  <2>5. a + e = b + f
    <3>1. a = b + (c - d)
      BY <2>4
    <3>2. e = f + (d - c)
      BY <2>4
    <3> QED BY <3>1, <3>2
  <2>6. vw + x = vr + y
    BY <2>3, <2>5
  <2> QED BY <2>6 DEF vw, vr, x, y
<1> QED BY <1>4, <1>6, <1>7, <1>20, <1>21

\* The two cases of it: an addition, and a subtraction of the whole.
LEMMA RippleAdds ==
    ASSUME NEW step, NEW r, NEW t, NEW skip, NEW n, NEW m, Steps(step, r, t, 1, skip, n, m)
    PROVE  /\ Ripple(step, r, skip).words \in [1..m -> Word]
           /\ Ripple(step, r, skip).carry \in Word
           /\ \A j \in 1..m : j - skip \notin 1..n => Ripple(step, r, skip).words[j] = r[j]
           /\ Value(Ripple(step, r, skip).words, m) + Power(WORD, skip + n) * Ripple(step, r, skip).carry
                  = Value(r, m) + Power(WORD, skip) * Value(t, n)
<1>1. /\ Ripple(step, r, skip).words \in [1..m -> Word]
      /\ Ripple(step, r, skip).carry \in Word
      /\ \A j \in 1..m : j - skip \notin 1..n => Ripple(step, r, skip).words[j] = r[j]
      /\ Value(Ripple(step, r, skip).words, m)
           + 1 * (Power(WORD, skip + n) * Ripple(step, r, skip).carry)
             = Value(r, m) + 1 * (Power(WORD, skip) * Value(t, n))
  BY RippleExact
<1>2. m \in Nat /\ n \in Nat /\ skip \in Nat /\ \A i \in 1..n : t[i] \in Nat
  BY DEF Steps
<1>3. Power(WORD, skip + n) * Ripple(step, r, skip).carry \in Int
  <2>1. skip + n \in Nat /\ Ripple(step, r, skip).carry \in Nat
    BY <1>1, <1>2, WordFacts
  <2> QED BY <2>1, WordPower
<1>4. Power(WORD, skip) * Value(t, n) \in Int
  <2>1. Value(t, n) \in Nat
    BY <1>2, ValueNat
  <2> QED BY <1>2, <2>1, WordPower
<1> QED BY <1>1, <1>3, <1>4

LEMMA RippleSubtracts ==
    ASSUME NEW step, NEW r, NEW t, NEW n, Steps(step, r, t, -1, 0, n, n)
    PROVE  /\ Ripple(step, r, 0).words \in [1..n -> Word]
           /\ Ripple(step, r, 0).carry \in Word
           /\ Value(Ripple(step, r, 0).words, n) - Power(WORD, n) * Ripple(step, r, 0).carry
                  = Value(r, n) - Value(t, n)
<1>1. /\ Ripple(step, r, 0).words \in [1..n -> Word]
      /\ Ripple(step, r, 0).carry \in Word
      /\ Value(Ripple(step, r, 0).words, n)
           + (-1) * (Power(WORD, 0 + n) * Ripple(step, r, 0).carry)
             = Value(r, n) + (-1) * (Power(WORD, 0) * Value(t, n))
  BY RippleExact
<1>2. n \in Nat /\ \A i \in 1..n : t[i] \in Nat
  BY DEF Steps
<1>3. 0 + n = n /\ Power(WORD, 0) = 1
  BY <1>2, WordPower
<1>4. Power(WORD, n) * Ripple(step, r, 0).carry \in Int
  <2>1. Ripple(step, r, 0).carry \in Nat
    BY <1>1, WordFacts
  <2> QED BY <1>2, <2>1, WordPower
<1>5. Value(t, n) \in Int /\ Value(r, n) \in Int /\ Value(Ripple(step, r, 0).words, n) \in Int
  <2>1. \A i \in 1..n : r[i] \in Nat
    BY WordFacts DEF Steps
  <2>2. \A i \in 1..n : Ripple(step, r, 0).words[i] \in Nat
    BY <1>1, WordNat
  <2> QED BY <1>2, <2>1, <2>2, ValueNat
<1>6. PICK q \in Int, v \in Int, a \in Int, b \in Int :
          /\ q = Power(WORD, n) * Ripple(step, r, 0).carry /\ v = Value(t, n) /\ a = Value(r, n)
          /\ b = Value(Ripple(step, r, 0).words, n)
  BY <1>4, <1>5
<1>7. b + (-1) * q = a + (-1) * (1 * v)
  BY <1>1, <1>3, <1>6
<1>8. b - q = a - v
  BY <1>7
<1> QED BY <1>1, <1>6, <1>8

\* A number is below R.
LEMMA NumberBound ==
    ASSUME NEW a \in U256
    PROVE  Number(a) \in 0..(R - 1)
<1>1. \A i \in 1..LIMBS : a[i] \in Word
  BY DEF U256
<1>2. Value(a, LIMBS) \in 0..(Power(WORD, LIMBS) - 1)
  BY <1>1, ValueBound, WordFacts
<1> QED BY <1>2 DEF Number, Value, R

\* The raw operations lose nothing.
LEMMA AddExact ==
    ASSUME NEW a \in U256, NEW b \in U256
    PROVE  /\ u256_add_raw(a, b).words \in U256 /\ u256_add_raw(a, b).carry \in Word
           /\ Number(u256_add_raw(a, b).words) + R * u256_add_raw(a, b).carry = Number(a) + Number(b)
<1> DEFINE step == [i \in 1..LIMBS |-> [carry \in Word |-> AddWord(a[i], b[i], carry)]]
           s == Ripple(step, a, 0)
<1>1. LIMBS \in Nat /\ WORD \in Nat /\ Word \subseteq Nat /\ a \in [1..LIMBS -> Word]
  BY WordFacts, WordNat DEF U256
<1>2. \A i \in 1..LIMBS : a[i] \in Word /\ b[i] \in Word
  BY DEF U256
<1>3. Steps(step, a, b, 1, 0, LIMBS, LIMBS)
  <2>1. DOMAIN step = 1..LIMBS /\ Len(step) = LIMBS
    BY <1>1
  <2>2. ASSUME NEW i \in 1..LIMBS, NEW c \in Word
        PROVE  /\ step[i][c].word \in Word /\ step[i][c].carry \in Word
               /\ step[i][c].word + 1 * (WORD * step[i][c].carry) = a[0 + i] + 1 * (b[i] + c)
    <3>1. step[i][c] = AddWord(a[i], b[i], c)
      OBVIOUS
    <3>2. /\ step[i][c].word \in Word /\ step[i][c].carry \in Word
          /\ step[i][c].word + WORD * step[i][c].carry = a[i] + b[i] + c
      BY <1>2, <3>1, AddWordExact
    <3> HIDE DEF step
    <3>3. a[i] \in Nat /\ b[i] \in Nat /\ c \in Nat
      BY <1>2, WordNat
    <3>4. WORD * step[i][c].carry \in Nat /\ 0 + i = i
      <4>1. step[i][c].carry \in Nat
        BY <3>2, WordNat
      <4> QED BY <1>1, <4>1
    <3> QED BY <3>2, <3>3, <3>4
  <2>3. \A i \in 1..LIMBS : b[i] \in Nat
    BY <1>1, <1>2
  <2> HIDE DEF step
  <2> QED BY <1>1, <2>1, <2>2, <2>3 DEF Steps
<1> HIDE DEF step
<1>4. /\ s.words \in [1..LIMBS -> Word] /\ s.carry \in Word
      /\ Value(s.words, LIMBS) + Power(WORD, 0 + LIMBS) * s.carry
             = Value(a, LIMBS) + Power(WORD, 0) * Value(b, LIMBS)
  BY <1>3, RippleAdds
<1>5. Value(b, LIMBS) \in Nat
  BY <1>1, <1>2, ValueNat
<1>6. Power(WORD, 0) = 1 /\ 0 + LIMBS = LIMBS
  BY <1>1, WordPower
<1>7. u256_add_raw(a, b) = s
  BY DEF u256_add_raw, step
<1> QED BY <1>4, <1>5, <1>6, <1>7 DEF U256, Number, Value, R

LEMMA SubExact ==
    ASSUME NEW a \in U256, NEW b \in U256
    PROVE  /\ u256_sub_raw(a, b).words \in U256 /\ u256_sub_raw(a, b).carry \in Word
           /\ Number(u256_sub_raw(a, b).words) - R * u256_sub_raw(a, b).carry = Number(a) - Number(b)
<1> DEFINE step == [i \in 1..LIMBS |-> [borrow \in Word |-> SubWord(a[i], b[i], borrow)]]
           s == Ripple(step, a, 0)
<1>1. LIMBS \in Nat /\ WORD \in Nat /\ Word \subseteq Nat /\ a \in [1..LIMBS -> Word]
  BY WordFacts, WordNat DEF U256
<1>2. \A i \in 1..LIMBS : a[i] \in Word /\ b[i] \in Word
  BY DEF U256
<1>3. Steps(step, a, b, -1, 0, LIMBS, LIMBS)
  <2>1. DOMAIN step = 1..LIMBS /\ Len(step) = LIMBS
    BY <1>1
  <2>2. ASSUME NEW i \in 1..LIMBS, NEW c \in Word
        PROVE  /\ step[i][c].word \in Word /\ step[i][c].carry \in Word
               /\ step[i][c].word + (-1) * (WORD * step[i][c].carry) = a[0 + i] + (-1) * (b[i] + c)
    <3>1. step[i][c] = SubWord(a[i], b[i], c)
      OBVIOUS
    <3>2. /\ step[i][c].word \in Word /\ step[i][c].carry \in Word
          /\ step[i][c].word - WORD * step[i][c].carry = a[i] - b[i] - c
      BY <1>2, <3>1, SubWordExact
    <3> HIDE DEF step
    <3>3. a[i] \in Nat /\ b[i] \in Nat /\ c \in Nat /\ step[i][c].word \in Nat
      BY <1>2, <3>2, WordNat
    <3>4. WORD * step[i][c].carry \in Nat /\ 0 + i = i
      <4>1. step[i][c].carry \in Nat
        BY <3>2, WordNat
      <4> QED BY <1>1, <4>1
    <3> QED BY <3>2, <3>3, <3>4
  <2>3. \A i \in 1..LIMBS : b[i] \in Nat
    BY <1>1, <1>2
  <2> HIDE DEF step
  <2> QED BY <1>1, <2>1, <2>2, <2>3 DEF Steps
<1> HIDE DEF step
<1>4. /\ s.words \in [1..LIMBS -> Word] /\ s.carry \in Word
      /\ Value(s.words, LIMBS) - Power(WORD, LIMBS) * s.carry = Value(a, LIMBS) - Value(b, LIMBS)
  BY <1>3, RippleSubtracts
<1>5. u256_sub_raw(a, b) = s
  BY DEF u256_sub_raw, step
<1> QED BY <1>4, <1>5 DEF U256, Number, Value, R

\* A borrow says which number is greater.
LEMMA Borrows ==
    ASSUME NEW a \in U256, NEW b \in U256
    PROVE  /\ u256_sub_raw(a, b).carry = IF Number(a) >= Number(b) THEN 0 ELSE 1
           /\ u256_geq(a, b) <=> Number(a) >= Number(b)
           /\ Number(u256_sub_raw(a, b).words)
                  = IF Number(a) >= Number(b) THEN Number(a) - Number(b) ELSE Number(a) - Number(b) + R
<1>1. /\ u256_sub_raw(a, b).words \in U256 /\ u256_sub_raw(a, b).carry \in Nat
      /\ Number(u256_sub_raw(a, b).words) - R * u256_sub_raw(a, b).carry = Number(a) - Number(b)
  BY SubExact, WordNat
<1>2. PICK q \in 0..(R - 1), v \in 0..(R - 1), w \in 0..(R - 1), c \in Nat :
          /\ q = Number(u256_sub_raw(a, b).words) /\ v = Number(a) /\ w = Number(b)
          /\ c = u256_sub_raw(a, b).carry
  BY <1>1, NumberBound
<1>3. q - R * c = v - w /\ R \in Nat
  BY <1>1, <1>2, WordFacts
<1>4. c < 2
  <2> SUFFICES ASSUME c >= 2 PROVE FALSE
    OBVIOUS
  <2>1. R * 2 <= R * c
    BY <1>3, Times
  <2> QED BY <1>3, <2>1
<1>5. IF v >= w THEN c = 0 /\ q = v - w ELSE c = 1 /\ q = v - w + R
  <2>1. c = 0 \/ c = 1
    BY <1>4
  <2>2. CASE c = 0
    BY <1>3, <2>2
  <2>3. CASE c = 1
    BY <1>3, <2>3
  <2> QED BY <2>1, <2>2, <2>3
<1> QED BY <1>2, <1>5 DEF u256_geq

\* A carry says that the sum does not fit.
LEMMA Carries ==
    ASSUME NEW a \in U256, NEW b \in U256
    PROVE  /\ u256_add_raw(a, b).carry = IF Number(a) + Number(b) >= R THEN 1 ELSE 0
           /\ Number(u256_add_raw(a, b).words)
                  = IF Number(a) + Number(b) >= R THEN Number(a) + Number(b) - R ELSE Number(a) + Number(b)
<1>1. /\ u256_add_raw(a, b).words \in U256 /\ u256_add_raw(a, b).carry \in Nat
      /\ Number(u256_add_raw(a, b).words) + R * u256_add_raw(a, b).carry = Number(a) + Number(b)
  BY AddExact, WordNat
<1>2. PICK q \in 0..(R - 1), v \in 0..(R - 1), w \in 0..(R - 1), c \in Nat :
          /\ q = Number(u256_add_raw(a, b).words) /\ v = Number(a) /\ w = Number(b)
          /\ c = u256_add_raw(a, b).carry
  BY <1>1, NumberBound
<1>3. q + R * c = v + w /\ R \in Nat
  BY <1>1, <1>2, WordFacts
<1>4. c < 2
  <2> SUFFICES ASSUME c >= 2 PROVE FALSE
    OBVIOUS
  <2>1. R * 2 <= R * c
    BY <1>3, Times
  <2> QED BY <1>3, <2>1
<1>5. IF v + w >= R THEN c = 1 /\ q = v + w - R ELSE c = 0 /\ q = v + w
  <2>1. c = 0 \/ c = 1
    BY <1>4
  <2>2. CASE c = 0
    BY <1>3, <2>2
  <2>3. CASE c = 1
    BY <1>3, <2>3
  <2> QED BY <2>1, <2>2, <2>3
<1> QED BY <1>2, <1>5

\* One row of the multiplication: the carry goes to a word that is zero.
LEMMA RowExact ==
    ASSUME NEW r \in U512, NEW i \in 1..LIMBS, NEW x \in Word, NEW b \in U256, r[i + LIMBS] = 0
    PROVE  /\ Row(r, i, x, b) \in U512
           /\ \A j \in 1..(2 * LIMBS) : j > i + LIMBS => Row(r, i, x, b)[j] = r[j]
           /\ Value(Row(r, i, x, b), 2 * LIMBS)
                  = Value(r, 2 * LIMBS) + Power(WORD, i - 1) * (x * Number(b))
<1> DEFINE step == [j \in 1..LIMBS |-> [carry \in Word |-> MulWord(r[i - 1 + j], x, b[j], carry)]]
           t == [j \in 1..LIMBS |-> x * b[j]]
           row == Ripple(step, r, i - 1)
           w == [row.words EXCEPT ![i + LIMBS] = (@ + row.carry) % WORD]
<1>1. /\ LIMBS \in Nat /\ WORD \in Nat \ {0} /\ i - 1 \in Nat /\ 2 * LIMBS \in Nat
      /\ (i - 1) + LIMBS <= 2 * LIMBS /\ x \in Nat /\ i + LIMBS \in 1..(2 * LIMBS)
  BY WordFacts, WordNat
<1>2. r \in [1..(2 * LIMBS) -> Word] /\ (\A j \in 1..(2 * LIMBS) : r[j] \in Word)
      /\ \A j \in 1..LIMBS : b[j] \in Word
  BY DEF U512, U256
<1>3. \A j \in 1..LIMBS : b[j] \in Nat /\ t[j] = x * b[j] /\ t[j] \in Nat
  <2> SUFFICES ASSUME NEW j \in 1..LIMBS PROVE b[j] \in Nat /\ t[j] = x * b[j] /\ t[j] \in Nat
    OBVIOUS
  <2>1. b[j] \in Nat /\ t[j] = x * b[j]
    BY <1>2, WordNat
  <2> HIDE DEF t
  <2> QED BY <1>1, <2>1
<1>4. Steps(step, r, t, 1, i - 1, LIMBS, 2 * LIMBS)
  <2>1. DOMAIN step = 1..LIMBS /\ Len(step) = LIMBS
    BY <1>1
  <2>2. ASSUME NEW j \in 1..LIMBS, NEW c \in Word
        PROVE  /\ step[j][c].word \in Word /\ step[j][c].carry \in Word
               /\ step[j][c].word + 1 * (WORD * step[j][c].carry) = r[(i - 1) + j] + 1 * (t[j] + c)
    <3>1. step[j][c] = MulWord(r[i - 1 + j], x, b[j], c)
      OBVIOUS
    <3>2. r[i - 1 + j] \in Word
      BY <1>1, <1>2
    <3>3. /\ step[j][c].word \in Word /\ step[j][c].carry \in Word
          /\ step[j][c].word + WORD * step[j][c].carry = r[i - 1 + j] + x * b[j] + c
      BY <1>2, <3>1, <3>2, MulWordExact
    <3>4. t[j] = x * b[j] /\ t[j] \in Nat
      BY <1>3
    <3> HIDE DEF step, t
    <3>5. r[i - 1 + j] \in Nat /\ c \in Nat /\ step[j][c].word \in Nat /\ step[j][c].carry \in Nat
      BY <3>2, <3>3, WordNat
    <3>6. WORD * step[j][c].carry \in Nat
      BY <1>1, <3>5
    <3> QED BY <3>3, <3>4, <3>5, <3>6
  <2>3. 1 \in {-1, 1}
    OBVIOUS
  <2> HIDE DEF step, t
  <2> QED BY <1>1, <1>2, <1>3, <2>1, <2>2, <2>3 DEF Steps
<1>5. Value(t, LIMBS) = x * Value(b, LIMBS)
  <2> HIDE DEF t
  <2> QED BY <1>1, <1>3, ValueTimes
<1> HIDE DEF step, t
<1>6. /\ row.words \in [1..(2 * LIMBS) -> Word] /\ row.carry \in Word
      /\ \A j \in 1..(2 * LIMBS) : j - (i - 1) \notin 1..LIMBS => row.words[j] = r[j]
      /\ Value(row.words, 2 * LIMBS) + Power(WORD, (i - 1) + LIMBS) * row.carry
             = Value(r, 2 * LIMBS) + Power(WORD, i - 1) * Value(t, LIMBS)
  BY <1>4, RippleAdds
<1>7. row.words[i + LIMBS] = 0 /\ row.carry \in Nat
  <2>1. (i + LIMBS) - (i - 1) \notin 1..LIMBS
    BY <1>1
  <2> QED BY <1>1, <1>6, <2>1, WordNat
<1> HIDE DEF row
<1>8. (row.words[i + LIMBS] + row.carry) % WORD = row.carry
  <2>1. PICK c \in 0..(WORD - 1) : c = row.carry
    BY <1>6, WordFacts
  <2>2. (0 + c) % WORD = c
    BY <1>1
  <2> QED BY <1>7, <2>1, <2>2
<1>9. w = [row.words EXCEPT ![i + LIMBS] = row.carry]
  BY <1>8
<1>10. w \in [1..(2 * LIMBS) -> Word]
  BY <1>6, <1>9
<1>11. \A j \in 1..(2 * LIMBS) : w[j] = IF j = i + LIMBS THEN row.words[j] + row.carry ELSE row.words[j]
  <2> SUFFICES ASSUME NEW j \in 1..(2 * LIMBS)
               PROVE  w[j] = IF j = i + LIMBS THEN row.words[j] + row.carry ELSE row.words[j]
    OBVIOUS
  <2>1. w[j] = IF j = i + LIMBS THEN row.carry ELSE row.words[j]
    BY <1>6, <1>9
  <2>2. row.words[i + LIMBS] + row.carry = row.carry
    BY <1>7
  <2> HIDE DEF w
  <2> QED BY <2>1, <2>2
<1>12. Value(w, 2 * LIMBS) = Value(row.words, 2 * LIMBS) + Power(WORD, (i + LIMBS) - 1) * row.carry
  <2>1. \A j \in 1..(2 * LIMBS) : row.words[j] \in Nat
    BY <1>6, WordNat
  <2>2. 2 * LIMBS \in Nat /\ i + LIMBS \in 1..(2 * LIMBS) /\ row.carry \in Nat
    BY <1>1, <1>7
  <2> DEFINE u == row.words
             c == row.carry
             e == i + LIMBS
             l == 2 * LIMBS
  <2>3. /\ l \in Nat /\ e \in 1..l /\ c \in Nat /\ \A j \in 1..l : u[j] \in Nat
        /\ \A j \in 1..l : w[j] = IF j = e THEN u[j] + c ELSE u[j]
    BY <1>11, <2>1, <2>2
  <2> HIDE DEF w, u, c, e, l
  <2>4. Value(w, l) = Value(u, l) + Power(WORD, e - 1) * c
    BY <2>3, ValueExcept
  <2> QED BY <2>4 DEF u, c, e, l
<1>13. (i + LIMBS) - 1 = (i - 1) + LIMBS
  BY <1>1
<1>14. \A j \in 1..(2 * LIMBS) : j > i + LIMBS => w[j] = r[j]
  <2> SUFFICES ASSUME NEW j \in 1..(2 * LIMBS), j > i + LIMBS PROVE w[j] = r[j]
    OBVIOUS
  <2>1. j # i + LIMBS /\ j - (i - 1) \notin 1..LIMBS
    BY <1>1
  <2>2. w[j] = row.words[j] /\ row.words[j] = r[j]
    BY <1>6, <1>11, <2>1
  <2> QED BY <2>2
<1>15. Row(r, i, x, b) = w
  BY DEF Row, row, step
<1> HIDE DEF w
<1> QED BY <1>5, <1>6, <1>10, <1>12, <1>13, <1>14, <1>15 DEF U512, Number, Value

\* A product always fits.
LEMMA MulExact ==
    ASSUME NEW a \in U256, NEW b \in U256
    PROVE  /\ u256_mul(a, b) \in U512
           /\ Value(u256_mul(a, b), 2 * LIMBS) = Number(a) * Number(b)
<1> DEFINE zero == [j \in 1..(2 * LIMBS) |-> 0]
           pass == [i \in 1..LIMBS |-> [r \in U512 |-> Row(r, i, a[i], b)]]
           rows(i) == Repeat(zero, pass, i)
           Known == {i \in Nat : i <= LIMBS =>
                        /\ rows(i) \in U512
                        /\ \A j \in 1..(2 * LIMBS) : j > i + LIMBS => rows(i)[j] = 0
                        /\ Value(rows(i), 2 * LIMBS) = Value(a, i) * Number(b)}
<1>1. LIMBS \in Nat /\ 2 * LIMBS \in Nat /\ WORD \in Nat
  BY WordFacts
<1>2. \A i \in 1..LIMBS : a[i] \in Word /\ a[i] \in Nat
  BY WordNat DEF U256
<1>3. Number(b) \in Nat
  BY NumberBound
<1>4. rows(0) = zero /\ \A i \in Nat : rows(i + 1) = pass[i + 1][rows(i)]
  <2> HIDE DEF zero, pass
  <2> QED BY LoopUnfolds
<1> HIDE DEF rows
<1>5. zero \in U512 /\ (\A j \in 1..(2 * LIMBS) : zero[j] = 0) /\ Value(zero, 2 * LIMBS) = 0
  <2>1. zero \in U512 /\ \A j \in 1..(2 * LIMBS) : zero[j] = 0
    BY WordNat DEF U512
  <2> HIDE DEF zero
  <2>2. /\ \A j \in 1..(2 * LIMBS) : zero[j] \in Nat
        /\ \A j \in 1..(2 * LIMBS) : j > 0 => zero[j] = 0
    BY <2>1
  <2>3. Value(zero, 2 * LIMBS) = Value(zero, 0)
    BY <1>1, <2>2, ValueZeros
  <2> QED BY <2>1, <2>3, ValueEmpty
<1>6. 0 \in Known
  <2>1. rows(0) = zero /\ Value(a, 0) = 0
    BY <1>4, ValueEmpty
  <2> HIDE DEF zero
  <2> QED BY <1>3, <1>5, <2>1
<1>7. ASSUME NEW i \in Nat, i \in Known PROVE i + 1 \in Known
  <2> SUFFICES ASSUME i + 1 <= LIMBS
               PROVE  /\ rows(i + 1) \in U512
                      /\ \A j \in 1..(2 * LIMBS) : j > (i + 1) + LIMBS => rows(i + 1)[j] = 0
                      /\ Value(rows(i + 1), 2 * LIMBS) = Value(a, i + 1) * Number(b)
    OBVIOUS
  <2>1. /\ rows(i) \in U512
        /\ \A j \in 1..(2 * LIMBS) : j > i + LIMBS => rows(i)[j] = 0
        /\ Value(rows(i), 2 * LIMBS) = Value(a, i) * Number(b)
    BY <1>1, <1>7
  <2>2. i + 1 \in 1..LIMBS /\ (i + 1) + LIMBS \in 1..(2 * LIMBS) /\ (i + 1) + LIMBS > i + LIMBS
        /\ (i + 1) - 1 = i
    BY <1>1
  <2>3. rows(i + 1) = Row(rows(i), i + 1, a[i + 1], b)
    <3>1. pass[i + 1] = [r \in U512 |-> Row(r, i + 1, a[i + 1], b)]
      BY <2>2
    <3>2. rows(i + 1) = pass[i + 1][rows(i)]
      BY <1>4
    <3> HIDE DEF pass
    <3> QED BY <2>1, <3>1, <3>2
  <2>4. rows(i)[(i + 1) + LIMBS] = 0 /\ a[i + 1] \in Word
    BY <1>2, <2>1, <2>2
  <2>5. /\ rows(i + 1) \in U512
        /\ \A j \in 1..(2 * LIMBS) : j > (i + 1) + LIMBS => rows(i + 1)[j] = rows(i)[j]
        /\ Value(rows(i + 1), 2 * LIMBS)
               = Value(rows(i), 2 * LIMBS) + Power(WORD, i) * (a[i + 1] * Number(b))
    BY <2>1, <2>2, <2>3, <2>4, RowExact
  <2>6. \A j \in 1..(2 * LIMBS) : j > (i + 1) + LIMBS => rows(i + 1)[j] = 0
    BY <1>1, <2>1, <2>5
  <2>7. Value(rows(i + 1), 2 * LIMBS) = Value(a, i + 1) * Number(b)
    <3>1. \A j \in 1..(i + 1) : a[j] \in Nat
      BY <1>1, <1>2
    <3>2. Value(a, i + 1) = Value(a, i) + Power(WORD, i) * a[i + 1] /\ Value(a, i) \in Nat
      BY <3>1, ValueGrows
    <3>3. PICK v \in Nat, p \in Nat, x \in Nat, n \in Nat :
              v = Value(a, i) /\ p = Power(WORD, i) /\ x = a[i + 1] /\ n = Number(b)
      BY <1>2, <1>3, <2>2, <3>2, WordPower
    <3>4. v * n + p * (x * n) = (v + p * x) * n
      OBVIOUS
    <3> QED BY <2>1, <2>5, <3>2, <3>3, <3>4
  <2> QED BY <2>5, <2>6, <2>7
<1>8. Nat \subseteq Known
  <2> HIDE DEF Known
  <2> QED BY <1>6, <1>7, Induct
<1>9. rows(LIMBS) \in U512 /\ Value(rows(LIMBS), 2 * LIMBS) = Value(a, LIMBS) * Number(b)
  <2> QED BY <1>1, <1>8
<1>10. u256_mul(a, b) = rows(LIMBS)
  BY DEF u256_mul, rows
<1> QED BY <1>9, <1>10 DEF Number, Value

-----------------------------------------------------------------------------
(* The reduction                                                           *)

\* What a number of R is worth modulo P.
Gap == WORD + C977

\* The buffer of mod_p.
Wide == [1..(LIMBS + 2) -> Word]

WideValue(r) == Value(r, LIMBS + 2)

\* Two gaps are far below R, and R is at most twice P.
LEMMA GapFacts ==
    /\ Gap \in Nat /\ Gap = WORD + C977 /\ R = P + Gap /\ P \in Nat /\ P >= 3
    /\ Gap * Gap + Gap <= R /\ R <= 2 * P
    /\ Gap * (WORD * WORD - 1) + R <= R * WORD * WORD
    /\ Power(WORD, LIMBS + 1) = R * WORD /\ Power(WORD, LIMBS + 2) = R * WORD * WORD
<1>1. /\ WORD \in Nat /\ WORD >= 4 /\ R \in Nat /\ R >= WORD * WORD * WORD
      /\ LIMBS \in Nat /\ C977 \in 0..(WORD - 1) /\ P = R - (WORD + C977) /\ R = Power(WORD, LIMBS)
  BY WordFacts
<1>2. PICK w \in Nat, g \in Nat, r \in Nat : w = WORD /\ g = Gap /\ r = R
  BY <1>1 DEF Gap
<1>3. w >= 4 /\ g <= 2 * w - 1 /\ r >= w * w * w
  BY <1>1, <1>2 DEF Gap
<1>4. w * w * w >= 4 * (w * w)
  BY <1>3
<1>5. g * g <= (2 * w - 1) * (2 * w - 1)
  <2>1. g * g <= g * (2 * w - 1) /\ (2 * w - 1) * g <= (2 * w - 1) * (2 * w - 1)
    BY <1>3, Times
  <2> QED BY <2>1
<1>6. (2 * w - 1) * (2 * w - 1) + (2 * w - 1) <= 4 * (w * w)
  BY <1>3
<1>7. g * g + g <= r
  BY <1>3, <1>4, <1>5, <1>6
<1>8. 2 * g <= r /\ r - g >= 3
  <2>1. w * w >= 4 * w
    BY <1>3
  <2> QED BY <1>3, <1>4, <2>1
<1>9. g * (w * w - 1) + r <= r * w * w
  <2>1. w * w - 1 \in Nat /\ g <= r
    BY <1>3, <1>8
  <2>2. (w * w - 1) * g <= (w * w - 1) * r
    BY <2>1, Times
  <2> QED BY <2>2
<1>10. Power(WORD, LIMBS + 1) = R * WORD /\ Power(WORD, LIMBS + 2) = R * WORD * WORD
  <2>1. /\ Power(WORD, LIMBS + 1) = WORD * Power(WORD, LIMBS)
        /\ Power(WORD, (LIMBS + 1) + 1) = WORD * Power(WORD, LIMBS + 1)
        /\ (LIMBS + 1) + 1 = LIMBS + 2
    BY <1>1, WordPower
  <2> QED BY <1>1, <2>1
<1> QED BY <1>1, <1>2, <1>7, <1>8, <1>9, <1>10 DEF Gap

\* A product is its lower and its upper half.
LEMMA HalvesOfProduct ==
    ASSUME NEW a \in U512
    PROVE  /\ Lower(a) \in U256 /\ Upper(a) \in U256
           /\ Value(a, 2 * LIMBS) = Number(Lower(a)) + R * Number(Upper(a))
<1>1. LIMBS \in Nat /\ 2 * LIMBS = LIMBS + LIMBS /\ R = Power(WORD, LIMBS)
  BY WordFacts
<1>2. \A i \in 1..(LIMBS + LIMBS) : a[i] \in Word /\ a[i] \in Nat
  BY <1>1, WordNat DEF U512
<1>3. \A i \in 1..LIMBS : /\ Lower(a)[i] = a[i] /\ Lower(a)[i] \in Word /\ a[i] \in Nat
                          /\ Upper(a)[i] = a[LIMBS + i] /\ Upper(a)[i] \in Word
  BY <1>1, <1>2 DEF Lower, Upper
<1>4. Lower(a) \in U256 /\ Upper(a) \in U256
  BY <1>3 DEF U256, Lower, Upper
<1>5. Value(a, LIMBS + LIMBS) = Value(a, LIMBS) + Power(WORD, LIMBS) * Value(Upper(a), LIMBS)
  BY <1>1, <1>2, <1>3, ValueSplit
<1>6. Value(Lower(a), LIMBS) = Value(a, LIMBS)
  BY <1>1, <1>3, ValueAgree
<1> QED BY <1>1, <1>4, <1>5, <1>6 DEF Number, Value

LEMMA BufferValue ==
    ASSUME NEW a \in U256, NEW x \in Word
    PROVE  Buffer(a, x) \in Wide /\ WideValue(Buffer(a, x)) = Number(a) + R * x
<1>1. LIMBS \in Nat /\ LIMBS + 2 \in Nat /\ LIMBS + 1 \in Nat
  BY WordFacts
<1>2. \A i \in 1..LIMBS : a[i] \in Word
  BY DEF U256
<1>3. \A i \in 1..(LIMBS + 2) :
          /\ Buffer(a, x)[i] = IF i <= LIMBS THEN a[i] ELSE IF i = LIMBS + 1 THEN x ELSE 0
          /\ Buffer(a, x)[i] \in Word
  BY <1>1, <1>2, WordNat DEF Buffer
<1>4. Buffer(a, x) \in Wide
  BY <1>3 DEF Wide, Buffer
<1>5. \A i \in 1..(LIMBS + 2) : Buffer(a, x)[i] \in Nat /\ (i > LIMBS + 1 => Buffer(a, x)[i] = 0)
  <2> SUFFICES ASSUME NEW i \in 1..(LIMBS + 2)
               PROVE  Buffer(a, x)[i] \in Nat /\ (i > LIMBS + 1 => Buffer(a, x)[i] = 0)
    OBVIOUS
  <2>1. Buffer(a, x)[i] \in Nat
    BY <1>3, WordNat
  <2> QED BY <1>1, <1>3, <2>1
<1>6. Value(Buffer(a, x), LIMBS + 2) = Value(Buffer(a, x), LIMBS + 1)
  BY <1>1, <1>5, ValueZeros
<1>7. Value(Buffer(a, x), LIMBS + 1) = Value(Buffer(a, x), LIMBS) + Power(WORD, LIMBS) * Buffer(a, x)[LIMBS + 1]
  <2>1. \A i \in 1..(LIMBS + 1) : Buffer(a, x)[i] \in Nat
    BY <1>1, <1>5
  <2> QED BY <1>1, <2>1, ValueGrows
<1>8. Value(Buffer(a, x), LIMBS) = Value(a, LIMBS)
  <2>1. \A i \in 1..LIMBS : a[i] \in Nat /\ Buffer(a, x)[i] = a[i]
    <3> SUFFICES ASSUME NEW i \in 1..LIMBS PROVE a[i] \in Nat /\ Buffer(a, x)[i] = a[i]
      OBVIOUS
    <3>1. i \in 1..(LIMBS + 2) /\ i <= LIMBS
      BY <1>1
    <3>2. a[i] \in Nat
      BY <1>2, WordNat
    <3> QED BY <1>3, <3>1, <3>2
  <2> QED BY <1>1, <2>1, ValueAgree
<1>9. Buffer(a, x)[LIMBS + 1] = x
  <2>1. LIMBS + 1 \in 1..(LIMBS + 2) /\ ~(LIMBS + 1 <= LIMBS)
    BY <1>1
  <2> QED BY <1>3, <2>1
<1> QED BY <1>4, <1>6, <1>7, <1>8, <1>9 DEF WideValue, Number, Value, R

\* The first fold, in its two parts and the buffer between them.
LEMMA FoldLowExact ==
    ASSUME NEW a \in U512
    PROVE  /\ FoldLow(a).words \in U256 /\ FoldLow(a).carry \in Word
           /\ Number(FoldLow(a).words) + R * FoldLow(a).carry
                  = Number(Lower(a)) + C977 * Number(Upper(a))
<1> DEFINE step == [i \in 1..LIMBS |-> [carry \in Word |-> MulWord(a[i], Upper(a)[i], C977, carry)]]
           t == [i \in 1..LIMBS |-> C977 * Upper(a)[i]]
<1>1. /\ LIMBS \in Nat /\ LIMBS <= 2 * LIMBS /\ WORD \in Nat /\ C977 \in Word /\ C977 \in Nat
      /\ R = Power(WORD, LIMBS) /\ 0 + LIMBS = LIMBS /\ LIMBS <= LIMBS
  BY WordFacts, WordNat
<1>2. Lower(a) \in [1..LIMBS -> Word] /\ Upper(a) \in [1..LIMBS -> Word]
  BY HalvesOfProduct DEF U256
<1>3. ASSUME NEW i \in 1..LIMBS
      PROVE  a[i] = Lower(a)[i] /\ a[i] \in Word /\ Upper(a)[i] \in Word
  BY <1>1, <1>2 DEF Lower
<1>4. \A i \in 1..LIMBS : t[i] = C977 * Upper(a)[i] /\ t[i] \in Nat /\ Upper(a)[i] \in Nat
  <2> SUFFICES ASSUME NEW i \in 1..LIMBS
               PROVE  t[i] = C977 * Upper(a)[i] /\ t[i] \in Nat /\ Upper(a)[i] \in Nat
    OBVIOUS
  <2>1. Upper(a)[i] \in Nat /\ t[i] = C977 * Upper(a)[i]
    BY <1>3, WordNat
  <2> HIDE DEF t
  <2> QED BY <1>1, <2>1
<1>5. Steps(step, Lower(a), t, 1, 0, LIMBS, LIMBS)
  <2>1. DOMAIN step = 1..LIMBS /\ Len(step) = LIMBS
    BY <1>1
  <2>2. ASSUME NEW i \in 1..LIMBS, NEW c \in Word
        PROVE  /\ step[i][c].word \in Word /\ step[i][c].carry \in Word
               /\ step[i][c].word + 1 * (WORD * step[i][c].carry) = Lower(a)[0 + i] + 1 * (t[i] + c)
    <3>1. step[i][c] = MulWord(a[i], Upper(a)[i], C977, c)
      OBVIOUS
    <3>2. /\ step[i][c].word \in Word /\ step[i][c].carry \in Word
          /\ step[i][c].word + WORD * step[i][c].carry = a[i] + Upper(a)[i] * C977 + c
      <4>1. a[i] \in Word /\ Upper(a)[i] \in Word /\ C977 \in Word
        BY <1>1, <1>3
      <4> QED BY <3>1, <4>1, MulWordExact
    <3>3. t[i] = C977 * Upper(a)[i] /\ t[i] \in Nat /\ Upper(a)[i] \in Nat
      BY <1>4
    <3> HIDE DEF step, t
    <3>4. a[i] \in Nat /\ c \in Nat /\ step[i][c].word \in Nat /\ step[i][c].carry \in Nat
      BY <1>3, <3>2, WordNat
    <3>5. WORD * step[i][c].carry \in Nat /\ 0 + i = i /\ Upper(a)[i] * C977 = t[i]
      BY <1>1, <3>3, <3>4
    <3> QED BY <1>3, <3>2, <3>3, <3>4, <3>5
  <2>3. 1 \in {-1, 1} /\ 0 \in Nat
    OBVIOUS
  <2> HIDE DEF step, t
  <2> QED BY <1>1, <1>2, <1>4, <2>1, <2>2, <2>3 DEF Steps
<1>6. Value(t, LIMBS) = C977 * Value(Upper(a), LIMBS) /\ Value(t, LIMBS) \in Nat
  <2> HIDE DEF t
  <2> QED BY <1>1, <1>4, ValueTimes, ValueNat
<1> DEFINE s == Ripple(step, Lower(a), 0)
<1>7. FoldLow(a) = s
  BY DEF FoldLow
<1> HIDE DEF step, t
<1>8. /\ s.words \in [1..LIMBS -> Word] /\ s.carry \in Word
      /\ Value(s.words, LIMBS) + Power(WORD, 0 + LIMBS) * s.carry
             = Value(Lower(a), LIMBS) + Power(WORD, 0) * Value(t, LIMBS)
  BY <1>5, RippleAdds
<1>9. Power(WORD, 0) * Value(t, LIMBS) = C977 * Value(Upper(a), LIMBS)
  BY <1>6, WordPower
<1> HIDE DEF s
<1> QED BY <1>1, <1>7, <1>8, <1>9 DEF U256, Number, Value

LEMMA FoldHighExact ==
    ASSUME NEW r \in Wide, NEW h \in U256
    PROVE  /\ FoldHigh(r, h).words \in Wide /\ FoldHigh(r, h).carry \in Word
           /\ FoldHigh(r, h).words[LIMBS + 2] = r[LIMBS + 2]
           /\ WideValue(FoldHigh(r, h).words) + Power(WORD, LIMBS + 1) * FoldHigh(r, h).carry
                  = WideValue(r) + WORD * Number(h)
<1> DEFINE step == [i \in 1..LIMBS |-> [carry \in Word |-> AddWord(r[1 + i], h[i], carry)]]
           s == Ripple(step, r, 1)
<1>1. /\ LIMBS \in Nat /\ LIMBS + 2 \in Nat /\ WORD \in Nat /\ 1 + LIMBS <= LIMBS + 2
      /\ 1 + LIMBS = LIMBS + 1 /\ LIMBS + 2 \in 1..(LIMBS + 2) /\ (LIMBS + 2) - 1 \notin 1..LIMBS
  BY WordFacts
<1>2. r \in [1..(LIMBS + 2) -> Word] /\ h \in [1..LIMBS -> Word]
  BY DEF Wide, U256
<1>3. ASSUME NEW i \in 1..LIMBS PROVE r[1 + i] \in Word /\ h[i] \in Word /\ h[i] \in Nat
  <2>1. 1 + i \in 1..(LIMBS + 2)
    BY <1>1
  <2> QED BY <1>2, <2>1, WordNat
<1>4. Steps(step, r, h, 1, 1, LIMBS, LIMBS + 2)
  <2>1. DOMAIN step = 1..LIMBS /\ Len(step) = LIMBS
    BY <1>1
  <2>2. ASSUME NEW i \in 1..LIMBS, NEW c \in Word
        PROVE  /\ step[i][c].word \in Word /\ step[i][c].carry \in Word
               /\ step[i][c].word + 1 * (WORD * step[i][c].carry) = r[1 + i] + 1 * (h[i] + c)
    <3>1. step[i][c] = AddWord(r[1 + i], h[i], c)
      OBVIOUS
    <3> HIDE DEF step
    <3>2. /\ step[i][c].word \in Word /\ step[i][c].carry \in Word
          /\ step[i][c].word + WORD * step[i][c].carry = r[1 + i] + h[i] + c
      BY <1>3, <3>1, AddWordExact
    <3>3. r[1 + i] \in Nat /\ h[i] \in Nat /\ c \in Nat /\ step[i][c].carry \in Nat
      BY <1>3, <3>2, WordNat
    <3>4. WORD * step[i][c].carry \in Nat
      BY <1>1, <3>3
    <3> QED BY <3>2, <3>3, <3>4
  <2>3. 1 \in {-1, 1} /\ 1 \in Nat
    OBVIOUS
  <2> HIDE DEF step
  <2> QED BY <1>1, <1>2, <1>3, <2>1, <2>2, <2>3 DEF Steps
<1>5. FoldHigh(r, h) = s
  BY DEF FoldHigh
<1> HIDE DEF step
<1>6. /\ s.words \in [1..(LIMBS + 2) -> Word] /\ s.carry \in Word
      /\ \A j \in 1..(LIMBS + 2) : j - 1 \notin 1..LIMBS => s.words[j] = r[j]
      /\ Value(s.words, LIMBS + 2) + Power(WORD, 1 + LIMBS) * s.carry
             = Value(r, LIMBS + 2) + Power(WORD, 1) * Value(h, LIMBS)
  BY <1>4, RippleAdds
<1>7. Power(WORD, 1) = WORD
  BY WordPower
<1> HIDE DEF s
<1> QED BY <1>1, <1>5, <1>6, <1>7 DEF Wide, WideValue, Number, Value

\* The first fold adds the upper half times what R is worth.
LEMMA FirstFoldExact ==
    ASSUME NEW a \in U512
    PROVE  /\ FirstFold(a) \in Wide
           /\ WideValue(FirstFold(a)) = Number(Lower(a)) + Gap * Number(Upper(a))
<1> DEFINE A == FoldLow(a)
           r == Buffer(A.words, A.carry)
           B == FoldHigh(r, Upper(a))
           w == [B.words EXCEPT ![LIMBS + 2] = (@ + B.carry) % WORD]
<1>1. /\ LIMBS \in Nat /\ LIMBS + 2 \in Nat /\ WORD \in Nat \ {0} /\ LIMBS + 2 \in 1..(LIMBS + 2)
      /\ (LIMBS + 2) - 1 = LIMBS + 1 /\ C977 \in Nat /\ R \in Nat
  BY WordFacts, WordNat
<1>2. /\ A.words \in U256 /\ A.carry \in Word /\ Upper(a) \in U256 /\ Lower(a) \in U256
      /\ Number(A.words) + R * A.carry = Number(Lower(a)) + C977 * Number(Upper(a))
  BY FoldLowExact, HalvesOfProduct
<1> HIDE DEF A
<1>3. r \in Wide /\ WideValue(r) = Number(A.words) + R * A.carry
  BY <1>2, BufferValue
<1>4. r[LIMBS + 2] = 0
  BY <1>1 DEF Buffer
<1> HIDE DEF r
<1>5. /\ B.words \in Wide /\ B.carry \in Word /\ B.words[LIMBS + 2] = 0
      /\ WideValue(B.words) + Power(WORD, LIMBS + 1) * B.carry = WideValue(r) + WORD * Number(Upper(a))
  BY <1>2, <1>3, <1>4, FoldHighExact
<1> HIDE DEF B
<1>6. (B.words[LIMBS + 2] + B.carry) % WORD = B.carry
  <2>1. PICK c \in 0..(WORD - 1) : c = B.carry
    BY <1>5, WordFacts
  <2>2. (0 + c) % WORD = c
    BY <1>1
  <2> QED BY <1>5, <2>1, <2>2
<1>7. w = [B.words EXCEPT ![LIMBS + 2] = B.carry]
  BY <1>6
<1>8. w \in Wide
  BY <1>5, <1>7 DEF Wide
<1>9. \A i \in 1..(LIMBS + 2) :
          B.words[i] \in Nat /\ w[i] = IF i = LIMBS + 2 THEN B.words[i] + B.carry ELSE B.words[i]
  <2> SUFFICES ASSUME NEW i \in 1..(LIMBS + 2)
               PROVE  /\ B.words[i] \in Nat
                      /\ w[i] = IF i = LIMBS + 2 THEN B.words[i] + B.carry ELSE B.words[i]
    OBVIOUS
  <2>1. B.words[i] \in Nat /\ B.carry \in Nat
    BY <1>5, WordNat DEF Wide
  <2>2. w[i] = IF i = LIMBS + 2 THEN B.carry ELSE B.words[i]
    BY <1>5, <1>7 DEF Wide
  <2>3. 0 + B.carry = B.carry
    BY <2>1
  <2> HIDE DEF w
  <2> QED BY <1>5, <2>1, <2>2, <2>3
<1>10. FirstFold(a) = w
  BY DEF FirstFold, A, B, r
<1> HIDE DEF w
<1>11. Value(w, LIMBS + 2) = Value(B.words, LIMBS + 2) + Power(WORD, (LIMBS + 2) - 1) * B.carry
  <2>1. B.carry \in Nat
    BY <1>5, WordNat
  <2>2. \A i \in 1..(LIMBS + 2) : B.words[i] \in Nat
    BY <1>9
  <2>3. \A i \in 1..(LIMBS + 2) : w[i] = IF i = LIMBS + 2 THEN B.words[i] + B.carry ELSE B.words[i]
    BY <1>9
  <2>4. LIMBS + 2 \in Nat /\ LIMBS + 2 \in 1..(LIMBS + 2)
    BY <1>1
  <2> QED BY <2>1, <2>2, <2>3, <2>4, ValueExcept
<1>12. WideValue(w) = WideValue(r) + WORD * Number(Upper(a))
  BY <1>1, <1>5, <1>11 DEF WideValue
<1>13. Number(Upper(a)) \in Nat /\ Number(Lower(a)) \in Nat
  BY <1>2, NumberBound
<1>14. (Number(Lower(a)) + C977 * Number(Upper(a))) + WORD * Number(Upper(a))
           = Number(Lower(a)) + Gap * Number(Upper(a))
  BY <1>1, <1>13 DEF Gap
<1> QED BY <1>2, <1>3, <1>8, <1>10, <1>12, <1>14

\* A word or two added to the buffer, if the sum fits it.
LEMMA AddedAtExact ==
    ASSUME NEW r \in Wide, NEW skip \in 0..2, NEW n \in 1..2, NEW w \in [1..n -> Word],
           WideValue(r) + Power(WORD, skip) * Value(w, n) < Power(WORD, LIMBS + 2)
    PROVE  /\ AddedAt(r, skip, w) \in Wide
           /\ WideValue(AddedAt(r, skip, w)) = WideValue(r) + Power(WORD, skip) * Value(w, n)
<1> DEFINE m == LIMBS + 2
           l == LIMBS + 2 - skip
           t == [i \in 1..l |-> IF i \in DOMAIN w THEN w[i] ELSE 0]
           step == [i \in 1..l |-> [carry \in Word |-> AddWord(r[skip + i], IF i \in DOMAIN w THEN w[i] ELSE 0, carry)]]
           s == Ripple(step, r, skip)
<1>1. /\ l \in Nat /\ m \in Nat /\ skip \in Nat /\ n \in Nat /\ n <= l /\ skip + l = m /\ WORD \in Nat
      /\ LIMBS + 2 \in Nat
  BY WordFacts
<1>2. AddedAt(r, skip, w) = s.words
  BY DEF AddedAt
<1>3. \A i \in 1..l : /\ t[i] \in Word
                      /\ i \in 1..n => t[i] = w[i]
                      /\ i > n => t[i] = 0
  BY <1>1, WordNat
<1>4. r \in [1..m -> Word]
  BY DEF Wide
<1> HIDE DEF m
<1>5. ASSUME NEW i \in 1..l, NEW c \in Word
      PROVE  /\ step[i][c].word \in Word /\ step[i][c].carry \in Word
             /\ step[i][c].word + 1 * (WORD * step[i][c].carry) = r[skip + i] + 1 * (t[i] + c)
  <2>1. step[i][c] = AddWord(r[skip + i], t[i], c)
    OBVIOUS
  <2>2. r[skip + i] \in Word /\ t[i] \in Word
    <3>1. skip + i \in 1..m
      BY <1>1
    <3> HIDE DEF t, l
    <3> QED BY <1>3, <1>4, <3>1
  <2> HIDE DEF step, t, l
  <2>3. /\ step[i][c].word \in Word /\ step[i][c].carry \in Word
        /\ step[i][c].word + WORD * step[i][c].carry = r[skip + i] + t[i] + c
    BY <2>1, <2>2, AddWordExact
  <2>4. r[skip + i] \in Nat /\ t[i] \in Nat /\ c \in Nat /\ step[i][c].carry \in Nat
    BY <2>2, <2>3, WordNat
  <2>5. PICK u \in Nat, x \in Nat, y \in Nat, z \in Nat, e \in Nat, q \in Nat :
            /\ u = step[i][c].word /\ x = WORD /\ y = step[i][c].carry
            /\ z = r[skip + i] /\ e = t[i] /\ q = c
    <3>1. step[i][c].word \in Nat
      BY <2>3, WordNat
    <3> QED BY <1>1, <2>4, <3>1, Zenon
  <2>6. u + x * y = z + e + q
    BY <2>3, <2>5
  <2>7. u + 1 * (x * y) = z + 1 * (e + q)
    BY <2>6
  <2> QED BY <2>3, <2>5, <2>7
<1>6. DOMAIN step = 1..l /\ Len(step) = l
  BY <1>1
<1> HIDE DEF step, t, l
<1>7. \A i \in 1..l : t[i] \in Nat
  BY <1>3, WordNat
<1>8. Steps(step, r, t, 1, skip, l, m)
  <2>1. 1 \in {-1, 1} /\ skip + l <= m
    BY <1>1
  <2> QED BY <1>1, <1>4, <1>5, <1>6, <1>7, <2>1 DEF Steps
<1>9. /\ s.words \in [1..m -> Word] /\ s.carry \in Word
      /\ Value(s.words, m) + Power(WORD, m) * s.carry = Value(r, m) + Power(WORD, skip) * Value(t, l)
  BY <1>1, <1>8, RippleAdds, SMTT(30)
<1>10. Value(t, l) = Value(w, n)
  <2>1. \A i \in 1..l : i > n => t[i] = 0
    BY <1>3
  <2>2. Value(t, l) = Value(t, n)
    BY <1>1, <1>7, <2>1, ValueZeros
  <2>3. \A i \in 1..n : w[i] \in Nat /\ t[i] = w[i]
    <3> SUFFICES ASSUME NEW i \in 1..n PROVE w[i] \in Nat /\ t[i] = w[i]
      OBVIOUS
    <3>1. i \in 1..l /\ w[i] \in Word
      BY <1>1
    <3> QED BY <1>3, <3>1, WordNat
  <2>4. Value(t, n) = Value(w, n)
    BY <1>1, <2>3, ValueAgree
  <2> QED BY <2>2, <2>4
<1> HIDE DEF s
<1>11. s.carry = 0
  <2>1. \A i \in 1..m : s.words[i] \in Nat
    BY <1>9, WordNat
  <2>2. Value(s.words, m) \in Nat
    BY <1>1, <2>1, ValueNat
  <2>3. PICK v \in Nat, p \in Nat, c \in Nat : v = Value(s.words, m) /\ p = Power(WORD, m) /\ c = s.carry
    BY <1>1, <1>9, <2>2, WordNat, WordPower
  <2>4. v + p * c < p
    BY <1>9, <1>10, <2>3 DEF WideValue, m
  <2> SUFFICES ASSUME c >= 1 PROVE FALSE
    BY <2>3
  <2>5. p * 1 <= p * c
    BY Times
  <2> QED BY <2>4, <2>5
<1>12. Value(s.words, m) = Value(r, m) + Power(WORD, skip) * Value(w, n)
  <2>1. \A i \in 1..m : s.words[i] \in Nat
    BY <1>9, WordNat
  <2>2. Value(s.words, m) \in Nat /\ Power(WORD, m) \in Nat
    BY <1>1, <2>1, ValueNat, WordPower
  <2> QED BY <1>9, <1>10, <1>11, <2>2
<1> QED BY <1>2, <1>9, <1>12 DEF Wide, WideValue, m

\* One word and two as numbers.
LEMMA Digits ==
    ASSUME NEW x \in Word, NEW y \in Word
    PROVE  /\ <<x>> \in [1..1 -> Word] /\ Value(<<x>>, 1) = x
           /\ <<x, y>> \in [1..2 -> Word] /\ Value(<<x, y>>, 2) = x + WORD * y
<1>1. x \in Nat /\ y \in Nat /\ WORD \in Nat /\ Power(WORD, 0) = 1 /\ Power(WORD, 1) = WORD
  BY WordNat, WordFacts, WordPower
<1>2. ASSUME NEW z, z[1] = x PROVE Value(z, 1) = x
  <2>1. \A i \in 1..(0 + 1) : z[i] \in Nat
    BY <1>1, <1>2
  <2>2. Value(z, 0 + 1) = Value(z, 0) + Power(WORD, 0) * z[0 + 1]
    BY <2>1, ValueGrows
  <2> QED BY <1>1, <1>2, <2>2, ValueEmpty
<1>3. <<x>>[1] = x /\ <<x, y>>[1] = x /\ <<x, y>>[2] = y
  OBVIOUS
<1>4. Value(<<x>>, 1) = x /\ Value(<<x, y>>, 1) = x
  BY <1>2, <1>3
<1>5. Value(<<x, y>>, 2) = x + WORD * y
  <2> DEFINE z == <<x, y>>
  <2>1. \A i \in 1..(1 + 1) : z[i] \in Nat
    BY <1>1
  <2>2. z[2] = y /\ Value(z, 1) = x
    BY <1>3, <1>4
  <2> HIDE DEF z
  <2>3. Value(z, 1 + 1) = Value(z, 1) + Power(WORD, 1) * z[1 + 1]
    BY <2>1, ValueGrows
  <2>4. Value(z, 2) = x + WORD * y
    BY <1>1, <2>2, <2>3
  <2> QED BY <2>4 DEF z
<1>6. <<x>> \in [1..1 -> Word] /\ <<x, y>> \in [1..2 -> Word]
  OBVIOUS
<1> QED BY <1>4, <1>5, <1>6

LEMMA AddedOne ==
    ASSUME NEW r \in Wide, NEW skip \in 0..2, NEW x \in Word,
           WideValue(r) + Power(WORD, skip) * x < Power(WORD, LIMBS + 2)
    PROVE  /\ AddedAt(r, skip, <<x>>) \in Wide
           /\ WideValue(AddedAt(r, skip, <<x>>)) = WideValue(r) + Power(WORD, skip) * x
<1>1. <<x>> \in [1..1 -> Word] /\ Value(<<x>>, 1) = x
  BY Digits
<1> DEFINE w == <<x>>
<1>2. w \in [1..1 -> Word] /\ Value(w, 1) = x /\ 1 \in 1..2
  BY <1>1
<1> HIDE DEF w
<1>3. /\ AddedAt(r, skip, w) \in Wide
      /\ WideValue(AddedAt(r, skip, w)) = WideValue(r) + Power(WORD, skip) * Value(w, 1)
  BY <1>2, AddedAtExact
<1> QED BY <1>2, <1>3 DEF w

LEMMA AddedTwo ==
    ASSUME NEW r \in Wide, NEW skip \in 0..2, NEW x \in Word, NEW y \in Word,
           WideValue(r) + Power(WORD, skip) * (x + WORD * y) < Power(WORD, LIMBS + 2)
    PROVE  /\ AddedAt(r, skip, <<x, y>>) \in Wide
           /\ WideValue(AddedAt(r, skip, <<x, y>>)) = WideValue(r) + Power(WORD, skip) * (x + WORD * y)
<1>1. <<x, y>> \in [1..2 -> Word] /\ Value(<<x, y>>, 2) = x + WORD * y
  BY Digits
<1> DEFINE w == <<x, y>>
<1>2. w \in [1..2 -> Word] /\ Value(w, 2) = x + WORD * y /\ 2 \in 1..2
  BY <1>1
<1> HIDE DEF w
<1>3. /\ AddedAt(r, skip, w) \in Wide
      /\ WideValue(AddedAt(r, skip, w)) = WideValue(r) + Power(WORD, skip) * Value(w, 2)
  BY <1>2, AddedAtExact
<1> QED BY <1>2, <1>3 DEF w

\* The types of the parts of a buffer.
LEMMA WideNat ==
    ASSUME NEW r \in Wide
    PROVE  WideValue(r) \in Nat /\ Lower(r) \in U256 /\ r[LIMBS + 1] \in Word /\ r[LIMBS + 2] \in Word
<1>1. LIMBS \in Nat
  BY WordFacts
<1>2. \A i \in 1..(LIMBS + 2) : r[i] \in Word /\ r[i] \in Nat
  BY WordNat DEF Wide
<1>3. Lower(r) \in U256
  <2>1. \A i \in 1..LIMBS : r[i] \in Word
    BY <1>1, <1>2
  <2> QED BY <2>1 DEF Lower, U256
<1>4. LIMBS + 1 \in 1..(LIMBS + 2) /\ LIMBS + 2 \in 1..(LIMBS + 2) /\ LIMBS + 2 \in Nat
  BY <1>1
<1>5. Value(r, LIMBS + 2) \in Nat
  BY <1>2, <1>4, ValueNat
<1> QED BY <1>2, <1>3, <1>4, <1>5 DEF WideValue

\* The two extra words are worth the gap each, the second shifted.
LEMMA FoldIntoExact ==
    ASSUME NEW r \in Wide, NEW x \in Word, NEW y \in Word, WideValue(r) < R
    PROVE  /\ FoldInto(r, x, y) \in Wide
           /\ WideValue(FoldInto(r, x, y)) = WideValue(r) + Gap * (x + WORD * y)
<1> DEFINE low == mul32(x, C977)
           high == mul32(y, C977)
           r1 == AddedAt(r, 0, <<low.lo, low.hi>>)
           r2 == AddedAt(r1, 1, <<x>>)
           r3 == AddedAt(r2, 1, <<high.lo, high.hi>>)
           r4 == AddedAt(r3, 2, <<y>>)
<1>1. /\ WORD \in Nat /\ WORD >= 4 /\ R \in Nat /\ C977 \in Word /\ C977 \in Nat
      /\ x \in 0..(WORD - 1) /\ y \in 0..(WORD - 1)
  BY WordFacts, WordNat
<1>2. /\ low.lo \in Word /\ low.hi \in Word /\ low.lo + WORD * low.hi = x * C977
      /\ high.lo \in Word /\ high.hi \in Word /\ high.lo + WORD * high.hi = y * C977
  BY <1>1, mul32Exact
<1> HIDE DEF low, high
<1>3. PICK w \in Nat, c \in Nat, g \in Nat, v \in Nat, X \in Nat, Y \in Nat, top \in Nat, b \in Nat :
          /\ w = WORD /\ c = C977 /\ g = Gap /\ v = WideValue(r) /\ X = x /\ Y = y
          /\ top = Power(WORD, LIMBS + 2) /\ b = R
  <2>1. WideValue(r) \in Nat /\ Power(WORD, LIMBS + 2) \in Nat /\ Gap \in Nat
    BY <1>1, WideNat, GapFacts
  <2> DEFINE V == WideValue(r)
             T == Power(WORD, LIMBS + 2)
  <2>2. WORD \in Nat /\ C977 \in Nat /\ Gap \in Nat /\ V \in Nat /\ x \in Nat /\ y \in Nat /\ T \in Nat /\ R \in Nat
    BY <1>1, <2>1
  <2> HIDE DEF V, T
  <2>3. \E w \in Nat, c \in Nat, g \in Nat, v \in Nat, X \in Nat, Y \in Nat, top \in Nat, b \in Nat :
          /\ w = WORD /\ c = C977 /\ g = Gap /\ v = V /\ X = x /\ Y = y
          /\ top = T /\ b = R
    BY <2>2, Zenon
  <2> QED BY <2>3 DEF V, T
<1>4. g = w + c /\ v < b /\ g * (w * w - 1) + b <= top /\ w >= 4 /\ X \in 0..(w - 1) /\ Y \in 0..(w - 1)
  BY <1>1, <1>3, GapFacts
<1>5. v + g * (X + w * Y) < top
  <2>1. X + w * Y \in 0..(w * w - 1)
    BY <1>4, DigitBound
  <2>2. g * (X + w * Y) <= g * (w * w - 1)
    BY <2>1, Times
  <2> QED BY <1>4, <2>1, <2>2
<1>6. g * (X + w * Y) = (X * c) + w * X + w * (Y * c) + (w * w) * Y
  BY <1>4
<1>7. X * c \in Nat /\ w * X \in Nat /\ w * (Y * c) \in Nat /\ (w * w) * Y \in Nat
  OBVIOUS
<1>8. Power(WORD, 0) = 1 /\ Power(WORD, 1) = w /\ Power(WORD, 2) = w * w
  BY <1>3, WordPower
<1>9. r1 \in Wide /\ WideValue(r1) = v + X * c
  <2>1. Power(WORD, 0) * (low.lo + WORD * low.hi) = X * c
    BY <1>2, <1>3, <1>7, <1>8
  <2>2. WideValue(r) + Power(WORD, 0) * (low.lo + WORD * low.hi) < Power(WORD, LIMBS + 2)
    BY <1>3, <1>5, <1>6, <1>7, <2>1
  <2>3. 0 \in 0..2
    OBVIOUS
  <2>4. /\ AddedAt(r, 0, <<low.lo, low.hi>>) \in Wide
        /\ WideValue(AddedAt(r, 0, <<low.lo, low.hi>>))
              = WideValue(r) + Power(WORD, 0) * (low.lo + WORD * low.hi)
    BY <1>2, <2>2, <2>3, AddedTwo
  <2> QED BY <1>3, <2>1, <2>4
<1> HIDE DEF r1
<1>10. r2 \in Wide /\ WideValue(r2) = v + X * c + w * X
  <2>1. Power(WORD, 1) * x = w * X
    BY <1>3, <1>8
  <2>2. WideValue(r1) + Power(WORD, 1) * x < Power(WORD, LIMBS + 2)
    BY <1>3, <1>5, <1>6, <1>7, <1>9, <2>1
  <2>3. 1 \in 0..2
    OBVIOUS
  <2> QED BY <1>9, <2>1, <2>2, <2>3, AddedOne
<1> HIDE DEF r2
<1>11. r3 \in Wide /\ WideValue(r3) = v + X * c + w * X + w * (Y * c)
  <2>1. Power(WORD, 1) * (high.lo + WORD * high.hi) = w * (Y * c)
    BY <1>2, <1>3, <1>8
  <2>2. WideValue(r2) + Power(WORD, 1) * (high.lo + WORD * high.hi) < Power(WORD, LIMBS + 2)
    BY <1>3, <1>5, <1>6, <1>7, <1>10, <2>1
  <2>3. 1 \in 0..2
    OBVIOUS
  <2> QED BY <1>2, <1>10, <2>1, <2>2, <2>3, AddedTwo
<1> HIDE DEF r3
<1>12. r4 \in Wide /\ WideValue(r4) = v + X * c + w * X + w * (Y * c) + (w * w) * Y
  <2>1. Power(WORD, 2) * y = (w * w) * Y
    BY <1>3, <1>8
  <2>2. WideValue(r3) + Power(WORD, 2) * y < Power(WORD, LIMBS + 2)
    BY <1>3, <1>5, <1>6, <1>7, <1>11, <2>1
  <2>3. 2 \in 0..2
    OBVIOUS
  <2> QED BY <1>11, <2>1, <2>2, <2>3, AddedOne
<1>13. FoldInto(r, x, y) = r4
  BY DEF FoldInto, low, high, r1, r2, r3
<1> HIDE DEF r4
<1>14. WideValue(r4) = v + g * (X + w * Y)
  BY <1>6, <1>7, <1>12
<1> QED BY <1>3, <1>12, <1>13, <1>14

\* What r has above its lower words.
Spill(r) == r[LIMBS + 1] + WORD * r[LIMBS + 2]

\* A buffer is its lower words and its spill.
LEMMA SpillValue ==
    ASSUME NEW r \in Wide
    PROVE  /\ Spill(r) \in Nat /\ WideValue(r) = Number(Lower(r)) + R * Spill(r)
           /\ Spills(r) <=> Spill(r) # 0
<1>1. LIMBS \in Nat /\ WORD \in Nat /\ WORD >= 4
  BY WordFacts
<1>2. \A i \in 1..(LIMBS + 2) : r[i] \in Nat
  BY WordNat DEF Wide
<1> DEFINE h == [i \in 1..2 |-> r[LIMBS + i]]
<1>3. \A i \in 1..2 : h[i] = r[LIMBS + i]
  OBVIOUS
<1>4. Value(h, 2) = r[LIMBS + 1] + WORD * r[LIMBS + 2] /\ r[LIMBS + 1] \in Word /\ r[LIMBS + 2] \in Word
  <2>1. h = <<r[LIMBS + 1], r[LIMBS + 2]>>
    OBVIOUS
  <2>2. r[LIMBS + 1] \in Word /\ r[LIMBS + 2] \in Word
    BY WideNat
  <2> HIDE DEF h
  <2> QED BY <2>1, <2>2, Digits
<1> HIDE DEF h
<1>5. Value(r, LIMBS + 2) = Value(r, LIMBS) + Power(WORD, LIMBS) * Value(h, 2)
  <2>1. PICK n \in Nat : n = 2
    OBVIOUS
  <2>2. (\A i \in 1..(LIMBS + n) : r[i] \in Nat) /\ (\A i \in 1..n : h[i] = r[LIMBS + i])
    BY <1>2, <1>3, <2>1
  <2>3. Value(r, LIMBS + n) = Value(r, LIMBS) + Power(WORD, LIMBS) * Value(h, n)
    BY <1>1, <2>2, ValueSplit
  <2> QED BY <2>1, <2>3
<1>6. Value(Lower(r), LIMBS) = Value(r, LIMBS)
  <2>1. \A i \in 1..LIMBS : r[i] \in Nat /\ Lower(r)[i] = r[i]
    BY <1>1, <1>2 DEF Lower
  <2> QED BY <1>1, <2>1, ValueAgree
<1>7. PICK x \in Nat, y \in Nat, w \in Nat : x = r[LIMBS + 1] /\ y = r[LIMBS + 2] /\ w = WORD
  BY <1>1, <1>4, WordNat
<1>8. x + w * y \in Nat /\ (x # 0 \/ y # 0 <=> x + w * y # 0)
  <2>1. w * y \in Nat /\ (y # 0 => w * y >= w * 1)
    BY Times
  <2>2. w >= 4
    BY <1>1, <1>7
  <2> QED BY <2>1, <2>2
<1> QED BY <1>4, <1>5, <1>6, <1>7, <1>8 DEF WideValue, Number, Value, Spill, Spills, R

\* One pass of the loop, whether it has something to fold or not.
LEMMA PassExact ==
    ASSUME NEW r \in Wide
    PROVE  LET s == IF Spills(r) THEN NextFold(r) ELSE r
           IN  s \in Wide /\ WideValue(s) = Number(Lower(r)) + Gap * Spill(r)
<1>1. /\ Spill(r) \in Nat /\ WideValue(r) = Number(Lower(r)) + R * Spill(r)
      /\ Spills(r) <=> Spill(r) # 0
  BY SpillValue
<1>2. /\ Lower(r) \in U256 /\ r[LIMBS + 1] \in Word /\ r[LIMBS + 2] \in Word
      /\ Number(Lower(r)) \in 0..(R - 1) /\ R \in Nat /\ Gap \in Nat
  BY WideNat, NumberBound, GapFacts, WordFacts
<1>3. CASE Spills(r)
  <2> DEFINE b == Buffer(Lower(r), 0)
  <2>1. b \in Wide /\ WideValue(b) = Number(Lower(r)) + R * 0
    BY <1>2, BufferValue, WordNat
  <2> HIDE DEF b
  <2>2. WideValue(b) = Number(Lower(r)) /\ WideValue(b) < R
    BY <1>2, <2>1
  <2>3. FoldInto(b, r[LIMBS + 1], r[LIMBS + 2]) \in Wide
        /\ WideValue(FoldInto(b, r[LIMBS + 1], r[LIMBS + 2])) = WideValue(b) + Gap * Spill(r)
    BY <1>2, <2>1, <2>2, FoldIntoExact DEF Spill
  <2> QED BY <1>3, <2>2, <2>3 DEF NextFold, b
<1>4. CASE ~Spills(r)
  <2>1. Spill(r) = 0 /\ R * 0 = 0 /\ Gap * 0 = 0
    BY <1>1, <1>2, <1>4
  <2> QED BY <1>1, <1>4, <2>1
<1> QED BY <1>3, <1>4

\* The loop of the passes.
LEMMA FoldedUnfolds ==
    ASSUME NEW a
    PROVE  /\ Folded(a, 0) = FirstFold(a)
           /\ \A n \in 0..3 : Folded(a, n) \in Wide =>
                Folded(a, n + 1) = IF Spills(Folded(a, n)) THEN NextFold(Folded(a, n)) ELSE Folded(a, n)
<1> DEFINE pass == [i \in 1..4 |-> [r \in [1..(LIMBS + 2) -> Word] |->
                                      IF Spills(r) THEN NextFold(r) ELSE r]]
           f(n) == Repeat(FirstFold(a), pass, n)
<1>1. f(0) = FirstFold(a) /\ \A n \in Nat : f(n + 1) = pass[n + 1][f(n)]
  <2> HIDE DEF pass
  <2> QED BY LoopUnfolds
<1>2. \A n : Folded(a, n) = f(n)
  BY DEF Folded
<1> HIDE DEF f
<1>3. ASSUME NEW n \in 0..3, f(n) \in Wide
      PROVE  f(n + 1) = IF Spills(f(n)) THEN NextFold(f(n)) ELSE f(n)
  <2>1. pass[n + 1] = [r \in Wide |-> IF Spills(r) THEN NextFold(r) ELSE r]
    BY DEF Wide
  <2>2. f(n + 1) = pass[n + 1][f(n)]
    <3>1. n \in Nat
      OBVIOUS
    <3> HIDE DEF pass
    <3> QED BY <1>1, <3>1
  <2> HIDE DEF pass
  <2> QED BY <1>3, <2>1, <2>2
<1> QED BY <1>1, <1>2, <1>3

LEMMA FoldedStep ==
    ASSUME NEW a, NEW n \in 0..3, Folded(a, n) \in Wide
    PROVE  /\ Folded(a, n + 1) \in Wide
           /\ WideValue(Folded(a, n + 1)) = Number(Lower(Folded(a, n))) + Gap * Spill(Folded(a, n))
  BY FoldedUnfolds, PassExact

\* The buffer after every pass.
LEMMA FoldedValue ==
    ASSUME NEW a \in U512
    PROVE  /\ \A n \in 0..4 : Folded(a, n) \in Wide
           /\ \A n \in 0..3 : WideValue(Folded(a, n + 1)) = Number(Lower(Folded(a, n))) + Gap * Spill(Folded(a, n))
           /\ WideValue(Folded(a, 0)) = Number(Lower(a)) + Gap * Number(Upper(a))
<1>1. Folded(a, 0) \in Wide /\ WideValue(Folded(a, 0)) = Number(Lower(a)) + Gap * Number(Upper(a))
  BY FoldedUnfolds, FirstFoldExact
<1>2. ASSUME NEW n \in 0..3, Folded(a, n) \in Wide
      PROVE  /\ Folded(a, n + 1) \in Wide
             /\ WideValue(Folded(a, n + 1)) = Number(Lower(Folded(a, n))) + Gap * Spill(Folded(a, n))
  BY <1>2, FoldedStep
<1>3. Folded(a, 1) \in Wide
  <2>1. 0 \in 0..3 /\ 0 + 1 = 1
    OBVIOUS
  <2> QED BY <1>1, <1>2, <2>1
<1>4. Folded(a, 2) \in Wide
  <2>1. 1 \in 0..3 /\ 1 + 1 = 2
    OBVIOUS
  <2> QED BY <1>3, <1>2, <2>1
<1>5. Folded(a, 3) \in Wide
  <2>1. 2 \in 0..3 /\ 2 + 1 = 3
    OBVIOUS
  <2> QED BY <1>4, <1>2, <2>1
<1>6. Folded(a, 4) \in Wide
  <2>1. 3 \in 0..3 /\ 3 + 1 = 4
    OBVIOUS
  <2> QED BY <1>5, <1>2, <2>1
<1>7. ASSUME NEW n \in 0..4 PROVE Folded(a, n) \in Wide
  <2>1. n = 0 \/ n = 1 \/ n = 2 \/ n = 3 \/ n = 4
    OBVIOUS
  <2> QED BY <2>1, <1>1, <1>3, <1>4, <1>5, <1>6
<1>8. ASSUME NEW n \in 0..3
      PROVE  WideValue(Folded(a, n + 1)) = Number(Lower(Folded(a, n))) + Gap * Spill(Folded(a, n))
  <2>1. n \in 0..4
    OBVIOUS
  <2> QED BY <1>2, <1>7, <2>1
<1> QED BY <1>1, <1>7, <1>8

\* Two passes leave nothing above the lower words, the others change nothing, and
\* what is there differs from the number by a multiple of P.
LEMMA FoldedExact ==
    ASSUME NEW a \in U512
    PROVE  /\ ~Spills(Folded(a, 2))
           /\ Lower(Folded(a, 4)) \in U256
           /\ \E q \in Int : Number(Lower(Folded(a, 4))) = Value(a, 2 * LIMBS) - P * q
<1> DEFINE lo(n) == Number(Lower(Folded(a, n)))
           sp(n) == Spill(Folded(a, n))
<1>1. /\ R \in Nat /\ Gap \in Nat /\ R = P + Gap /\ P \in Nat /\ Gap * Gap + Gap <= R /\ Gap >= 1
  BY GapFacts, WordFacts
<1>2. /\ Number(Lower(a)) \in 0..(R - 1) /\ Number(Upper(a)) \in 0..(R - 1)
      /\ Value(a, 2 * LIMBS) = Number(Lower(a)) + R * Number(Upper(a))
  BY HalvesOfProduct, NumberBound
<1>3. ASSUME NEW n \in 0..4
      PROVE  /\ lo(n) \in 0..(R - 1) /\ sp(n) \in Nat /\ (Spills(Folded(a, n)) <=> sp(n) # 0)
             /\ WideValue(Folded(a, n)) = lo(n) + R * sp(n)
             /\ Lower(Folded(a, n)) \in U256
  <2>1. Folded(a, n) \in Wide
    BY FoldedValue
  <2> QED BY <2>1, SpillValue, WideNat, NumberBound
<1>4. \A n \in 0..3 : WideValue(Folded(a, n + 1)) = lo(n) + Gap * sp(n)
  BY FoldedValue
<1>5. WideValue(Folded(a, 0)) = Number(Lower(a)) + Gap * Number(Upper(a))
  BY FoldedValue
<1> HIDE DEF lo, sp
<1>6. PICK r \in Nat, g \in Nat, y \in Nat, p \in Nat :
          r = R /\ g = Gap /\ y = Number(Upper(a)) /\ p = P
  <2>1. Number(Upper(a)) \in Nat
    BY <1>1, <1>2
  <2> QED BY <1>1, <2>1, Zenon
<1>7. PICK x \in 0..(r - 1) : x = Number(Lower(a))
  BY <1>2, <1>6
<1>8. /\ lo(0) \in 0..(r - 1) /\ lo(1) \in 0..(r - 1) /\ lo(2) \in 0..(r - 1)
      /\ lo(3) \in 0..(r - 1) /\ lo(4) \in 0..(r - 1)
      /\ sp(0) \in Nat /\ sp(1) \in Nat /\ sp(2) \in Nat /\ sp(3) \in Nat /\ sp(4) \in Nat
  <2>1. 0 \in 0..4 /\ 1 \in 0..4 /\ 2 \in 0..4 /\ 3 \in 0..4 /\ 4 \in 0..4
    OBVIOUS
  <2>2. \A n \in 0..4 : lo(n) \in 0..(r - 1) /\ sp(n) \in Nat
    BY <1>3, <1>6
  <2> QED BY <2>1, <2>2, Zenon
<1>9. /\ lo(0) + r * sp(0) = x + g * y
      /\ lo(1) + r * sp(1) = lo(0) + g * sp(0)
      /\ lo(2) + r * sp(2) = lo(1) + g * sp(1)
      /\ lo(3) + r * sp(3) = lo(2) + g * sp(2)
      /\ lo(4) + r * sp(4) = lo(3) + g * sp(3)
  <2>1. 0 + 1 = 1 /\ 1 + 1 = 2 /\ 2 + 1 = 3 /\ 3 + 1 = 4
    OBVIOUS
  <2>2. /\ WideValue(Folded(a, 1)) = lo(0) + Gap * sp(0)
        /\ WideValue(Folded(a, 2)) = lo(1) + Gap * sp(1)
        /\ WideValue(Folded(a, 3)) = lo(2) + Gap * sp(2)
        /\ WideValue(Folded(a, 4)) = lo(3) + Gap * sp(3)
    BY <1>4, <2>1
  <2>3. \A n \in 0..4 : WideValue(Folded(a, n)) = lo(n) + R * sp(n)
    BY <1>3
  <2> QED BY <1>5, <1>6, <1>7, <2>2, <2>3
<1>10. y \in 0..(r - 1) /\ g * g + g <= r /\ g >= 1 /\ r = p + g
  BY <1>1, <1>2, <1>6
<1>11. PICK l0 \in 0..(r - 1), l1 \in 0..(r - 1), l2 \in 0..(r - 1), l3 \in 0..(r - 1), l4 \in 0..(r - 1) :
          l0 = lo(0) /\ l1 = lo(1) /\ l2 = lo(2) /\ l3 = lo(3) /\ l4 = lo(4)
  BY <1>8, Zenon
<1>12. PICK s0 \in Nat, s1 \in Nat, s2 \in Nat, s3 \in Nat, s4 \in Nat :
          s0 = sp(0) /\ s1 = sp(1) /\ s2 = sp(2) /\ s3 = sp(3) /\ s4 = sp(4)
  BY <1>8, Zenon
<1>13. /\ l0 + r * s0 = x + g * y /\ l1 + r * s1 = l0 + g * s0 /\ l2 + r * s2 = l1 + g * s1
       /\ l3 + r * s3 = l2 + g * s2 /\ l4 + r * s4 = l3 + g * s3
  BY <1>9, <1>11, <1>12
<1>14. s2 = 0
  <2>1. s0 <= g
    <3>1. g * y <= g * (r - 1)
      BY <1>10, Times
    <3>2. g * (r - 1) = g * r - g /\ r * (g + 1) = g * r + r
      OBVIOUS
    <3>3. r * s0 < r * (g + 1)
      BY <1>10, <1>13, <3>1, <3>2
    <3> SUFFICES ASSUME s0 >= g + 1 PROVE FALSE
      OBVIOUS
    <3>4. r * (g + 1) <= r * s0
      BY Times
    <3> QED BY <3>3, <3>4
  <2>2. g * s0 <= g * g
    BY <2>1, Times
  <2>3. s1 <= 1
    <3> SUFFICES ASSUME s1 >= 2 PROVE FALSE
      OBVIOUS
    <3>1. r * 2 <= r * s1
      BY Times
    <3> QED BY <1>10, <1>13, <2>2, <3>1
  <2>4. l2 + r * s2 < r
    <3>1. CASE s1 = 0
      BY <1>13, <3>1
    <3>2. CASE s1 = 1
      <4>1. r * s1 = r /\ g * s1 = g
        BY <3>2
      <4> QED BY <1>10, <1>13, <2>2, <4>1
    <3> QED BY <2>3, <3>1, <3>2
  <2> SUFFICES ASSUME s2 >= 1 PROVE FALSE
    OBVIOUS
  <2>5. r * 1 <= r * s2
    BY Times
  <2> QED BY <2>4, <2>5
<1>15. ASSUME NEW l \in 0..(r - 1), NEW m \in 0..(r - 1), NEW s \in Nat, l + r * s = m
       PROVE  l = m /\ s = 0
  <2> SUFFICES ASSUME s >= 1 PROVE FALSE
    BY <1>15
  <2>1. r * 1 <= r * s
    BY Times
  <2> QED BY <1>15, <2>1
<1>16. l3 = l2 /\ s3 = 0
  <2>1. l3 + r * s3 = l2
    BY <1>13, <1>14
  <2> QED BY <1>15, <2>1
<1>17. l4 = l2
  <2>1. l4 + r * s4 = l3
    BY <1>13, <1>16
  <2> QED BY <1>15, <1>16, <2>1
<1>18. l4 = (x + r * y) - p * (y + s0 + s1)
  <2>1. l2 = l1 + g * s1
    BY <1>13, <1>14
  <2>2. /\ (p + g) * s0 = p * s0 + g * s0 /\ (p + g) * s1 = p * s1 + g * s1
        /\ (p + g) * y = p * y + g * y /\ p * (y + s0 + s1) = p * y + p * s0 + p * s1
    OBVIOUS
  <2>3. r * s0 = p * s0 + g * s0 /\ r * s1 = p * s1 + g * s1 /\ r * y = p * y + g * y
    BY <1>10, <2>2
  <2>4. /\ p * y \in Int /\ p * s0 \in Int /\ p * s1 \in Int /\ g * s0 \in Int /\ g * s1 \in Int /\ g * y \in Int
    OBVIOUS
  <2> QED BY <1>13, <1>17, <2>1, <2>2, <2>3, <2>4
<1>19. ~Spills(Folded(a, 2))
  <2>1. 2 \in 0..4
    OBVIOUS
  <2>2. Spills(Folded(a, 2)) <=> sp(2) # 0
    BY <1>3, <2>1
  <2> QED BY <1>12, <1>14, <2>2
<1>20. Number(Lower(Folded(a, 4))) = Value(a, 2 * LIMBS) - P * (y + s0 + s1)
  BY <1>2, <1>6, <1>7, <1>11, <1>18 DEF lo
<1>21. Lower(Folded(a, 4)) \in U256
  BY <1>3
<1>22. y + s0 + s1 \in Int
  OBVIOUS
<1> QED BY <1>19, <1>20, <1>21, <1>22

\* The words of the modulus.
LEMMA P_LIMBSValue == P_LIMBS \in U256 /\ Number(P_LIMBS) = P
<1>1. P \in Nat /\ P < Power(WORD, LIMBS) /\ LIMBS \in Nat
  BY GapFacts, WordFacts, SMTT(30)
<1> QED BY <1>1, LimbsValue DEF P_LIMBS, U256, Number, Value

\* The reduction is exact: after the passes one subtraction is enough.
LEMMA mod_pExact ==
    ASSUME NEW a \in U512
    PROVE  mod_p(a) \in U256 /\ Number(mod_p(a)) = mod(Value(a, 2 * LIMBS))
<1> DEFINE x == Lower(Folded(a, 4))
<1>1. PICK q \in Int : Number(x) = Value(a, 2 * LIMBS) - P * q
  BY FoldedExact
<1>2. x \in U256 /\ P_LIMBS \in U256 /\ Number(P_LIMBS) = P
  BY FoldedExact, P_LIMBSValue
<1>3. mod_p(a) = IF u256_geq(x, P_LIMBS) THEN u256_sub_raw(x, P_LIMBS).words ELSE x
  BY DEF mod_p
<1> HIDE DEF x
<1>4. mod_p(a) \in U256 /\ Number(mod_p(a)) = IF Number(x) >= P THEN Number(x) - P ELSE Number(x)
  BY <1>2, <1>3, Borrows, SubExact
<1>5. PICK p \in Nat \ {0}, v \in Nat, n \in Nat, r \in Nat :
         p = P /\ v = Number(x) /\ n = Value(a, 2 * LIMBS) /\ r = R
  <2>1. /\ P \in Nat \ {0} /\ Number(x) \in Nat /\ R \in Nat
    BY <1>2, GapFacts, WordFacts, NumberBound
  <2>2. Value(a, 2 * LIMBS) \in Nat
    <3>1. 2 * LIMBS \in Nat
      BY WordFacts
    <3>2. \A i \in 1..(2 * LIMBS) : a[i] \in Nat
      BY WordNat DEF U512
    <3> QED BY <3>1, <3>2, ValueNat
  <2> QED BY <2>1, <2>2
<1>6. v < r /\ r <= 2 * p /\ v = n - p * q
  BY <1>1, <1>2, <1>5, NumberBound, GapFacts
<1>7. CASE v >= p
  <2>1. v - p \in 0..(p - 1) /\ v - p = n - p * (q + 1) /\ q + 1 \in Int
    BY <1>6, <1>7
  <2>2. v - p = n % p
    <3>1. PICK d \in 0..(p - 1), e \in Int : d = v - p /\ e = q + 1
      BY <2>1
    <3>2. n = p * e + d
      BY <2>1, <3>1
    <3>3. d = n % p
      BY <3>2
    <3> QED BY <3>1, <3>3
  <2> QED BY <1>4, <1>5, <1>7, <2>2 DEF mod
<1>8. CASE v < p
  <2>1. v \in 0..(p - 1)
    BY <1>8
  <2>2. v = n % p
    <3>1. n = p * q + v
      BY <1>6
    <3> QED BY <2>1, <3>1
  <2> QED BY <1>4, <1>5, <1>8, <2>2 DEF mod
<1> QED BY <1>5, <1>7, <1>8, <1>4

-----------------------------------------------------------------------------
(* The field functions                                                     *)

\* What the field functions are called with.
Reduced == {a \in U256 : Number(a) < P}

LEMMA ReducedNumber ==
    ASSUME NEW a \in Reduced
    PROVE  a \in U256 /\ Number(a) \in 0..(P - 1)
<1>1. a \in U256 /\ Number(a) < P
  BY DEF Reduced
<1>2. Number(a) \in 0..(R - 1) /\ P \in Nat /\ R \in Nat
  BY <1>1, NumberBound, GapFacts, WordFacts
<1> QED BY <1>1, <1>2

\* The field functions return the one reduced number that is right.
LEMMA fp_addExact ==
    ASSUME NEW a \in Reduced, NEW b \in Reduced
    PROVE  fp_add(a, b) \in U256 /\ Number(fp_add(a, b)) = mod(Number(a) + Number(b))
<1> DEFINE s == u256_add_raw(a, b)
           x == Number(a)
           y == Number(b)
           less == IF s.carry = 1 \/ u256_geq(s.words, P_LIMBS)
                   THEN u256_sub_raw(s.words, P_LIMBS).words
                   ELSE s.words
<1>1. /\ a \in U256 /\ b \in U256 /\ x \in 0..(P - 1) /\ y \in 0..(P - 1)
      /\ P_LIMBS \in U256 /\ Number(P_LIMBS) = P
      /\ P \in Nat /\ R \in Nat /\ R <= 2 * P /\ R > P
  BY ReducedNumber, P_LIMBSValue, GapFacts, WordFacts, SMTT(30)
<1>2. /\ s.words \in U256 /\ s.carry = IF x + y >= R THEN 1 ELSE 0
      /\ Number(s.words) = IF x + y >= R THEN x + y - R ELSE x + y
  BY <1>1, Carries, AddExact
<1>3. fp_add(a, b) = less
  BY DEF fp_add
<1> HIDE DEF s, x, y
<1>4. /\ u256_sub_raw(s.words, P_LIMBS).words \in U256
      /\ u256_geq(s.words, P_LIMBS) <=> Number(s.words) >= P
      /\ Number(u256_sub_raw(s.words, P_LIMBS).words)
            = IF Number(s.words) >= P THEN Number(s.words) - P ELSE Number(s.words) - P + R
  BY <1>1, <1>2, SubExact, Borrows
<1>5. CASE x + y >= P
  <2>1. Number(less) = x + y - P
    BY <1>1, <1>2, <1>4, <1>5
  <2>2. less \in U256
    BY <1>1, <1>2, <1>4
  <2> HIDE DEF less
  <2>3. /\ x + y \in Int /\ x + y - P \in 0..(P - 1) /\ x + y - P = (x + y) - P * 1 /\ 1 \in Int
    BY <1>1, <1>5
  <2>4. mod(x + y) = x + y - P
    BY <2>3, ModIs
  <2> QED BY <1>3, <2>1, <2>2, <2>4 DEF x, y
<1>6. CASE x + y < P
  <2>1. Number(less) = x + y
    BY <1>1, <1>2, <1>4, <1>6
  <2>2. less \in U256
    BY <1>1, <1>2, <1>4
  <2> HIDE DEF less
  <2>3. /\ x + y \in Int /\ x + y \in 0..(P - 1) /\ x + y = (x + y) - P * 0 /\ 0 \in Int
    BY <1>1, <1>6
  <2>4. mod(x + y) = x + y
    BY <2>3, ModIs
  <2> QED BY <1>3, <2>1, <2>2, <2>4 DEF x, y
<1> QED BY <1>1, <1>5, <1>6

LEMMA fp_subExact ==
    ASSUME NEW a \in Reduced, NEW b \in Reduced
    PROVE  fp_sub(a, b) \in U256 /\ Number(fp_sub(a, b)) = mod(Number(a) - Number(b))
<1> DEFINE s == u256_sub_raw(a, b)
           x == Number(a)
           y == Number(b)
           more == IF s.carry = 1 THEN u256_add_raw(s.words, P_LIMBS).words ELSE s.words
<1>1. /\ a \in U256 /\ b \in U256 /\ x \in 0..(P - 1) /\ y \in 0..(P - 1)
      /\ P_LIMBS \in U256 /\ Number(P_LIMBS) = P
      /\ P \in Nat /\ R \in Nat /\ R <= 2 * P /\ R > P
  BY ReducedNumber, P_LIMBSValue, GapFacts, WordFacts, SMTT(30)
<1>2. /\ s.words \in U256 /\ s.carry = IF x >= y THEN 0 ELSE 1
      /\ Number(s.words) = IF x >= y THEN x - y ELSE x - y + R
  BY <1>1, Borrows, SubExact
<1>3. fp_sub(a, b) = more
  BY DEF fp_sub
<1> HIDE DEF s, x, y
<1>4. /\ u256_add_raw(s.words, P_LIMBS).words \in U256
      /\ Number(u256_add_raw(s.words, P_LIMBS).words)
            = IF Number(s.words) + P >= R THEN Number(s.words) + P - R ELSE Number(s.words) + P
  BY <1>1, <1>2, AddExact, Carries
<1>5. CASE x < y
  <2>1. Number(more) = x - y + P /\ more \in U256
    BY <1>1, <1>2, <1>4, <1>5
  <2> HIDE DEF more
  <2>2. /\ x - y \in Int /\ x - y + P \in 0..(P - 1) /\ x - y + P = (x - y) - P * (-1) /\ -1 \in Int
    BY <1>1, <1>5
  <2>3. mod(x - y) = x - y + P
    BY <2>2, ModIs
  <2> QED BY <1>3, <2>1, <2>3 DEF x, y
<1>6. CASE x >= y
  <2>1. Number(more) = x - y /\ more \in U256
    BY <1>1, <1>2, <1>4, <1>6
  <2> HIDE DEF more
  <2>2. /\ x - y \in Int /\ x - y \in 0..(P - 1) /\ x - y = (x - y) - P * 0 /\ 0 \in Int
    BY <1>1, <1>6
  <2>3. mod(x - y) = x - y
    BY <2>2, ModIs
  <2> QED BY <1>3, <2>1, <2>3 DEF x, y
<1> QED BY <1>1, <1>5, <1>6

LEMMA fp_mulExact ==
    ASSUME NEW a \in U256, NEW b \in U256
    PROVE  fp_mul(a, b) \in U256 /\ Number(fp_mul(a, b)) = mod(Number(a) * Number(b))
  BY MulExact, mod_pExact DEF fp_mul

LEMMA fp_negExact ==
    ASSUME NEW a \in Reduced
    PROVE  fp_neg(a) \in U256 /\ Number(fp_neg(a)) = mod(0 - Number(a))
<1> DEFINE x == Number(a)
<1>1. /\ a \in U256 /\ x \in 0..(P - 1) /\ P_LIMBS \in U256 /\ Number(P_LIMBS) = P /\ P \in Nat
      /\ LIMBS \in Nat
  BY ReducedNumber, P_LIMBSValue, GapFacts, WordFacts
<1>2. DOMAIN a = 1..LIMBS /\ \A i \in 1..LIMBS : a[i] \in Nat
  BY <1>1, WordNat DEF U256
<1>3. (\A i \in DOMAIN a : a[i] = 0) <=> x = 0
  <2>1. ASSUME \A i \in 1..LIMBS : a[i] = 0 PROVE x = 0
    <3>1. 0 \in Nat /\ 0 <= LIMBS /\ \A i \in 1..LIMBS : i > 0 => a[i] = 0
      BY <1>1, <2>1
    <3>2. Value(a, LIMBS) = Value(a, 0)
      BY <1>1, <1>2, <3>1, ValueZeros
    <3> QED BY <3>2, ValueEmpty DEF Number, Value
  <2>2. ASSUME x = 0 PROVE \A i \in 1..LIMBS : a[i] = 0
    <3>1. Value(a, LIMBS) = 0 /\ LIMBS <= LIMBS
      BY <1>1, <2>2 DEF Number, Value
    <3> QED BY <1>1, <1>2, <3>1, ValueZero
  <2> QED BY <1>2, <2>1, <2>2
<1>4. fp_neg(a) = IF x = 0 THEN a ELSE u256_sub_raw(P_LIMBS, a).words
  BY <1>3 DEF fp_neg
<1>5. u256_sub_raw(P_LIMBS, a).words \in U256 /\ Number(u256_sub_raw(P_LIMBS, a).words) = P - x
  BY <1>1, SubExact, Borrows
<1> HIDE DEF x
<1>6. CASE x = 0
  <2>1. 0 - x \in Int /\ x \in 0..(P - 1) /\ x = (0 - x) - P * 0 /\ 0 \in Int
    BY <1>1, <1>6
  <2>2. mod(0 - x) = x
    BY <2>1, ModIs
  <2> QED BY <1>1, <1>4, <1>6, <2>2 DEF x
<1>7. CASE x # 0
  <2>1. 0 - x \in Int /\ P - x \in 0..(P - 1) /\ P - x = (0 - x) - P * (-1) /\ -1 \in Int
    BY <1>1, <1>7
  <2>2. mod(0 - x) = P - x
    BY <2>1, ModIs
  <2> QED BY <1>4, <1>5, <1>7, <2>2 DEF x
<1> QED BY <1>6, <1>7

\* The loop of fp_inv has a pass for every bit.
LEMMA RIsPowerOfTwo ==
    2 * HALF_BITS * LIMBS \in Nat /\ R = Power(2, 2 * HALF_BITS * LIMBS)
<1>1. HALF_BITS \in Nat /\ LIMBS \in Nat /\ 2 \in Int
  BY BigintAssumption
<1>2. WORD = Power(2, HALF_BITS + HALF_BITS)
  BY <1>1, PowerAdds DEF WORD, HALF
<1>3. R = Power(2, (HALF_BITS + HALF_BITS) * LIMBS)
  <2>1. HALF_BITS + HALF_BITS \in Nat
    BY <1>1
  <2> QED BY <1>1, <1>2, <2>1, PowerOfPower DEF R
<1>4. PICK n \in Nat, m \in Nat : n = HALF_BITS /\ m = LIMBS
  BY <1>1
<1>5. (n + n) * m = 2 * n * m /\ 2 * n * m \in Nat
  OBVIOUS
<1> QED BY <1>3, <1>4, <1>5

\* One step of square and multiply keeps result * base^exp.
LEMMA SquareStep ==
    ASSUME NEW r \in Nat, NEW b \in Nat, NEW e \in Nat, NEW h \in Nat, NEW r1, NEW b1,
           b1 = mod(b * b),
           \/ e = h + h /\ r1 = r
           \/ e = (h + h) + 1 /\ r1 = mod(r * b)
    PROVE  Same(r1 * Power(b1, h), r * Power(b, e))
<1> DEFINE q == Power(b * b, h)
<1>1. b * b \in Int /\ r * b \in Int /\ b \in Int /\ h + h \in Nat /\ r \in Int
  OBVIOUS
<1>2. Same(Power(b1, h), q) /\ q \in Int
  BY <1>1, SameMod, SamePower, PowerInt
<1>3. Power(b, h + h) = q
  BY <1>1, PowerOfProduct, PowerAdds
<1> HIDE DEF q
<1>4. CASE e = h + h /\ r1 = r
  <2>1. Same(r1, r)
    BY <1>1, <1>4, SameRefl
  <2>2. Same(r1 * Power(b1, h), r * q)
    BY <1>2, <2>1, SameTimes
  <2> QED BY <1>3, <1>4, <2>2
<1>5. CASE e = (h + h) + 1 /\ r1 = mod(r * b)
  <2>1. Same(r1, r * b)
    BY <1>1, <1>5, SameMod
  <2>2. Same(r1 * Power(b1, h), (r * b) * q)
    BY <1>2, <2>1, SameTimes
  <2>3. Power(b, e) = b * q
    BY <1>1, <1>3, <1>5, PowerUnfolds
  <2>4. PICK z \in Int : z = q
    BY <1>2
  <2>5. (r * b) * z = r * (b * z)
    OBVIOUS
  <2> QED BY <2>2, <2>3, <2>4, <2>5
<1> QED BY <1>4, <1>5

\* Square and multiply computes the power of P - 2.
LEMMA fp_invPower ==
    ASSUME NEW a \in Reduced
    PROVE  fp_inv(a) \in U256 /\ Number(fp_inv(a)) = mod(Power(Number(a), P - 2))
<1> DEFINE bits == 2 * HALF_BITS * LIMBS
           State == [result : U256, base : U256, exp : Nat]
           first == [result |-> bigIntToLimbsLE(1, LIMBS), base |-> a, exp |-> P - 2]
           next(s) == [result |-> IF s.exp % 2 = 1 THEN fp_mul(s.result, s.base) ELSE s.result,
                       base |-> fp_mul(s.base, s.base),
                       exp |-> s.exp \div 2]
           square == [i \in 1..bits |-> [s \in State |-> next(s)]]
           f(n) == Repeat(first, square, n)
           goal == Power(Number(a), P - 2)
           Inv(s, n) == /\ s \in State
                        /\ Number(s.result) \in 0..(P - 1)
                        /\ Power(2, n) * s.exp <= P - 2
                        /\ Same(Number(s.result) * Power(Number(s.base), s.exp), goal)
<1>1. /\ fp_inv(a) = f(bits).result
  BY DEF fp_inv
<1>2. f(0) = first /\ \A n \in Nat : f(n + 1) = square[n + 1][f(n)]
  <2> HIDE DEF square, first
  <2> QED BY LoopUnfolds
<1>3. bits \in Nat /\ R = Power(2, bits)
  BY RIsPowerOfTwo
<1>4. P - 2 \in Nat /\ P \in Nat /\ P >= 3 /\ P < R
  <2>1. P \in Nat /\ P >= 3 /\ R = P + Gap /\ Gap = WORD + C977
    BY GapFacts
  <2>2. WORD \in Nat /\ WORD >= 4 /\ C977 \in Nat
    BY WordFacts, WordNat
  <2> QED BY <2>1, <2>2
<1>5. a \in U256 /\ Number(a) \in 0..(P - 1)
  BY ReducedNumber
<1>6. goal \in Int
  BY <1>4, <1>5, PowerInt
<1> HIDE DEF goal, bits
<1>7. Inv(first, 0)
  <2>1. bigIntToLimbsLE(1, LIMBS) \in U256 /\ Number(bigIntToLimbsLE(1, LIMBS)) = 1
    <3>1. 1 < Power(WORD, LIMBS) /\ LIMBS \in Nat /\ 1 \in Nat
      BY <1>4, WordFacts
    <3> QED BY <3>1, LimbsValue DEF U256, Number, Value
  <2>2. first \in State
    BY <1>4, <1>5, <2>1
  <2>3. Power(2, 0) * (P - 2) <= P - 2
    <3>1. Power(2, 0) = 1
      BY PowerUnfolds
    <3> QED BY <1>4, <3>1
  <2>4. Same(1 * Power(Number(a), P - 2), goal)
    <3>1. 1 * Power(Number(a), P - 2) = goal
      BY <1>6 DEF goal
    <3> QED BY <1>6, <3>1, SameRefl
  <2>5. first.result = bigIntToLimbsLE(1, LIMBS) /\ first.base = a /\ first.exp = P - 2
    OBVIOUS
  <2> HIDE DEF first, State
  <2> QED BY <1>4, <2>1, <2>2, <2>3, <2>4, <2>5
<1>8. ASSUME NEW s, NEW n \in Nat, Inv(s, n)
      PROVE  Inv(next(s), n + 1)
  <2>1. s.result \in U256 /\ s.base \in U256 /\ s.exp \in Nat
    BY <1>8
  <2> DEFINE t == next(s)
             h == s.exp \div 2
  <2>2. /\ h \in Nat
        /\ \/ s.exp = h + h /\ s.exp % 2 # 1
           \/ s.exp = (h + h) + 1 /\ s.exp % 2 = 1
    BY <2>1
  <2>3. /\ fp_mul(s.result, s.base) \in U256
        /\ Number(fp_mul(s.result, s.base)) = mod(Number(s.result) * Number(s.base))
        /\ fp_mul(s.base, s.base) \in U256
        /\ Number(fp_mul(s.base, s.base)) = mod(Number(s.base) * Number(s.base))
    BY <2>1, fp_mulExact
  <2>4. t.result = IF s.exp % 2 = 1 THEN fp_mul(s.result, s.base) ELSE s.result
    OBVIOUS
  <2>5. t.base = fp_mul(s.base, s.base) /\ t.exp = h
    OBVIOUS
  <2>6. t \in State
    BY <2>1, <2>2, <2>3
  <2> HIDE DEF t, h, State
  <2>7. Number(s.result) \in Nat /\ Number(s.base) \in Nat /\ P \in Nat
    BY <1>4, <2>1, NumberBound, WordFacts, SMTT(30)
  <2>8. Number(t.result) \in 0..(P - 1)
    <3>1. Number(s.result) * Number(s.base) \in Int
      BY <2>7
    <3>2. mod(Number(s.result) * Number(s.base)) \in 0..(P - 1)
      BY <3>1, ModTyped
    <3>3. Number(s.result) \in 0..(P - 1)
      BY <1>8
    <3> QED BY <2>3, <2>4, <3>2, <3>3
  <2>9. Same(Number(t.result) * Power(Number(t.base), h), Number(s.result) * Power(Number(s.base), s.exp))
    <3>1. Number(t.base) = mod(Number(s.base) * Number(s.base))
      BY <2>3, <2>5
    <3>2. \/ s.exp = h + h /\ Number(t.result) = Number(s.result)
          \/ s.exp = (h + h) + 1 /\ Number(t.result) = mod(Number(s.result) * Number(s.base))
      BY <2>2, <2>3, <2>4
    <3> QED BY <2>1, <2>2, <2>7, <3>1, <3>2, SquareStep
  <2>10. Same(Number(t.result) * Power(Number(t.base), t.exp), goal)
    <3>1. Same(Number(s.result) * Power(Number(s.base), s.exp), goal)
      BY <1>8
    <3> QED BY <2>5, <2>9, <3>1, SameTrans
  <2>11. Power(2, n + 1) * t.exp <= P - 2
    <3>1. 2 \in Int /\ 2 >= 2 /\ 2 \in Nat
      OBVIOUS
    <3>2. Power(2, n + 1) = 2 * Power(2, n) /\ Power(2, n) \in Nat
      BY <3>1, PowerUnfolds, PowerGrows
    <3>3. PICK w \in Nat, e \in Nat, d \in Nat, l \in Nat : w = Power(2, n) /\ e = s.exp /\ d = h /\ l = P - 2
      BY <1>4, <2>1, <2>2, <3>2
    <3>4. w * e <= l
      BY <1>8, <3>3
    <3>5. d + d <= e
      BY <2>2, <3>3
    <3>6. w * (d + d) <= w * e
      BY <3>5, Times
    <3>7. (2 * w) * d = w * (d + d)
      OBVIOUS
    <3>8. (2 * w) * d <= l
      BY <3>4, <3>6, <3>7
    <3> QED BY <2>5, <3>2, <3>3, <3>8
  <2> QED BY <2>6, <2>8, <2>10, <2>11 DEF t
<1>9. \A n \in Nat : n <= bits => Inv(f(n), n)
  <2> DEFINE Known == {n \in Nat : n <= bits => Inv(f(n), n)}
  <2>1. 0 \in Known
    BY <1>2, <1>7
  <2>2. ASSUME NEW n \in Nat, n \in Known PROVE n + 1 \in Known
    <3> SUFFICES ASSUME n + 1 <= bits PROVE Inv(f(n + 1), n + 1)
      OBVIOUS
    <3>1. Inv(f(n), n)
      BY <1>3, <2>2
    <3>2. f(n + 1) = square[n + 1][f(n)]
      BY <1>2
    <3>3. n + 1 \in 1..bits
      BY <1>3
    <3>4. f(n) \in State
      BY <3>1
    <3>5. \A s \in State : square[n + 1][s] = next(s)
      BY <3>3
    <3> HIDE DEF square, f, next, State, first, Inv
    <3>6. f(n + 1) = next(f(n))
      BY <3>2, <3>4, <3>5
    <3> QED BY <1>8, <3>1, <3>6
  <2>3. Nat \subseteq Known
    <3> HIDE DEF Known
    <3> QED BY <2>1, <2>2, Induct
  <2> QED BY <2>3
<1>10. Inv(f(bits), bits)
  BY <1>3, <1>9
<1> DEFINE s == f(bits)
<1>11. /\ s \in State /\ Number(s.result) \in 0..(P - 1) /\ Power(2, bits) * s.exp <= P - 2
       /\ Same(Number(s.result) * Power(Number(s.base), s.exp), goal)
  BY <1>10
<1> HIDE DEF f, first, square, Inv, next
<1>12. s.result \in U256 /\ s.base \in U256 /\ s.exp \in Nat
  BY <1>11
<1> HIDE DEF s, State
<1>13. s.exp = 0
  <2>1. PICK w \in Nat, e \in Nat, l \in Nat : w = R /\ e = s.exp /\ l = P - 2
    BY <1>4, <1>12, WordFacts
  <2>2. w * e <= l /\ l < w
    BY <1>3, <1>4, <1>11, <2>1
  <2> SUFFICES ASSUME e >= 1 PROVE FALSE
    BY <2>1
  <2>3. w * 1 <= w * e
    BY Times
  <2> QED BY <2>2, <2>3
<1>14. Number(s.base) \in Int
  BY <1>12, NumberBound, WordFacts
<1>15. Number(s.result) * Power(Number(s.base), s.exp) = Number(s.result)
  <2>1. Power(Number(s.base), s.exp) = 1
    BY <1>13, <1>14, PowerUnfolds
  <2> QED BY <1>4, <1>11, <2>1
<1>16. Number(s.result) = mod(goal)
  <2>1. Same(goal, Number(s.result))
    BY <1>11, <1>15, SameSym
  <2> QED BY <1>11, <2>1, SameReduced
<1> QED BY <1>1, <1>12, <1>16 DEF s, goal

\* The power the shader takes is the inverse the CPU finds in another way.
LEMMA fp_invExact ==
    ASSUME NEW a \in Reduced
    PROVE  fp_inv(a) \in U256 /\ Number(fp_inv(a)) = Inverse(Number(a))
  BY fp_invPower, ReducedNumber, PowerIsInverse

-----------------------------------------------------------------------------
(* A call                                                                  *)

\* The operands of a call.
LEMMA LimbsOf ==
    ASSUME NEW n \in 0..(R - 1)
    PROVE  bigIntToLimbsLE(n, LIMBS) \in U256 /\ Number(bigIntToLimbsLE(n, LIMBS)) = n
<1>1. n \in Nat /\ n < Power(WORD, LIMBS) /\ LIMBS \in Nat
  BY WordFacts
<1> QED BY <1>1, LimbsValue DEF U256, Number, Value

\* A number that is appended to, and two numbers one after the other.
LEMMA AppendValue ==
    ASSUME NEW x \in U256, NEW c \in Word
    PROVE  Number(Append(x, c)) = Number(x) /\ Append(x, c)[LIMBS + 1] = c
<1>1. LIMBS \in Nat /\ x \in [1..LIMBS -> Word]
  BY WordFacts DEF U256
<1>2. x \in Seq(Word) /\ Len(x) = LIMBS
  BY <1>1
<1> DEFINE z == Append(x, c)
<1>3. (\A i \in 1..LIMBS : z[i] = x[i]) /\ z[LIMBS + 1] = c
  BY <1>2
<1>4. \A i \in 1..LIMBS : x[i] \in Nat
  BY <1>1, WordNat
<1> HIDE DEF z
<1>5. Value(z, LIMBS) = Value(x, LIMBS)
  <2>1. \A i \in 1..LIMBS : x[i] \in Nat /\ z[i] = x[i]
    BY <1>3, <1>4
  <2> QED BY <1>1, <2>1, ValueAgree
<1> QED BY <1>3, <1>5 DEF z, Number, Value

LEMMA ConcatValue ==
    ASSUME NEW x \in U256, NEW y \in U256
    PROVE  x \o y \in U512 /\ Value(x \o y, 2 * LIMBS) = Number(x) + R * Number(y)
<1>1. LIMBS \in Nat /\ x \in [1..LIMBS -> Word] /\ y \in [1..LIMBS -> Word]
  BY WordFacts DEF U256
<1>2. x \in Seq(Word) /\ Len(x) = LIMBS /\ y \in Seq(Word) /\ Len(y) = LIMBS
  BY <1>1
<1> DEFINE z == x \o y
<1>3. z \in Seq(Word) /\ Len(z) = LIMBS + LIMBS
  BY <1>2
<1>4. (\A i \in 1..LIMBS : z[i] = x[i]) /\ (\A i \in 1..LIMBS : z[LIMBS + i] = y[i])
  BY <1>1, <1>2
<1> HIDE DEF z
<1>5. z \in [1..(LIMBS + LIMBS) -> Word]
  BY <1>1, <1>3
<1>6. \A i \in 1..(LIMBS + LIMBS) : z[i] \in Nat
  BY <1>5, WordNat
<1>7. Value(z, LIMBS + LIMBS) = Value(z, LIMBS) + Power(WORD, LIMBS) * Value(y, LIMBS)
  <2>1. \A i \in 1..LIMBS : y[i] = z[LIMBS + i]
    BY <1>4
  <2> QED BY <1>1, <1>6, <2>1, ValueSplit
<1>8. Value(z, LIMBS) = Value(x, LIMBS)
  <2>1. \A i \in 1..LIMBS : x[i] \in Nat /\ z[i] = x[i]
    BY <1>1, <1>4, WordNat
  <2> QED BY <1>1, <2>1, ValueAgree
<1>9. LIMBS + LIMBS = 2 * LIMBS
  BY <1>1
<1> QED BY <1>5, <1>7, <1>8, <1>9 DEF z, U512, Number, Value, R

\* What holds of a call: the operands are what its function may be called with,
\* and what it returns is the function of their words.
CallInv ==
    /\ op \in [name : Op, x : 0..(R - 1), y : 0..(R - 1)]
    /\ op.name \in FpOp => op.x < P /\ op.y < P
    /\ out # <<>> => out = Result(op.name, bigIntToLimbsLE(op.x, LIMBS), bigIntToLimbsLE(op.y, LIMBS))

\* It holds of every call.
LEMMA CallInvariant == CallSpec => []CallInv
<1>1. CallInit => CallInv
  <2> SUFFICES ASSUME CallInit PROVE CallInv
    OBVIOUS
  <2>1. PICK name \in Op, x \in Operand, y \in Operand :
            /\ name \in FpOp => x < P /\ y < P
            /\ op = [name |-> name, x |-> x, y |-> y]
    BY DEF CallInit
  <2>2. x \in 0..(R - 1) /\ y \in 0..(R - 1)
    BY BigintAssumption
  <2>3. op.name = name /\ op.x = x /\ op.y = y
    BY <2>1
  <2>4. op \in [name : Op, x : 0..(R - 1), y : 0..(R - 1)]
    BY <2>1, <2>2
  <2>5. out = <<>>
    BY DEF CallInit
  <2> QED BY <2>1, <2>3, <2>4, <2>5 DEF CallInv
<1>2. CallInv /\ [CallNext]_callVars => CallInv'
  <2> SUFFICES ASSUME CallInv, [CallNext]_callVars PROVE CallInv'
    OBVIOUS
  <2>1. CASE Call
    BY <2>1 DEF CallInv, Call
  <2>2. CASE UNCHANGED callVars
    BY <2>2 DEF CallInv, callVars
  <2> QED BY <2>1, <2>2 DEF CallNext
<1> QED BY <1>1, <1>2, PTL DEF CallSpec

\* What each function returns.
LEMMA ResultExact ==
    ASSUME NEW name \in Op, NEW x \in 0..(R - 1), NEW y \in 0..(R - 1), NEW z,
           name \in FpOp => x < P /\ y < P,
           z = Result(name, bigIntToLimbsLE(x, LIMBS), bigIntToLimbsLE(y, LIMBS))
    PROVE  /\ name = "u256_add_raw" => Number(z) + R * z[LIMBS + 1] = x + y
           /\ name = "u256_sub_raw" => Number(z) - R * z[LIMBS + 1] = x - y
           /\ name = "u256_mul" => limbsLEToBigInt(z, 2 * LIMBS) = x * y
           /\ name = "mod_p" => Number(z) = mod(x + R * y)
           /\ name = "fp_add" => Number(z) = mod(x + y)
           /\ name = "fp_sub" => Number(z) = mod(x - y)
           /\ name = "fp_mul" => Number(z) = mod(x * y)
           /\ name = "fp_neg" => Number(z) = mod(0 - x)
           /\ name = "fp_inv" => Number(z) = Inverse(x)
<1> DEFINE a == bigIntToLimbsLE(x, LIMBS)
           b == bigIntToLimbsLE(y, LIMBS)
<1>1. a \in U256 /\ Number(a) = x /\ b \in U256 /\ Number(b) = y
  BY LimbsOf
<1> HIDE DEF a, b
<1>2. z = Result(name, a, b)
  BY DEF a, b
<1>3. name \in FpOp => a \in Reduced /\ b \in Reduced
  BY <1>1 DEF Reduced
<1>4. ASSUME name = "u256_add_raw" PROVE Number(z) + R * z[LIMBS + 1] = x + y
  <2>1. z = Append(u256_add_raw(a, b).words, u256_add_raw(a, b).carry)
    BY <1>2, <1>4 DEF Result, WithCarry
  <2>2. /\ u256_add_raw(a, b).words \in U256 /\ u256_add_raw(a, b).carry \in Word
        /\ Number(u256_add_raw(a, b).words) + R * u256_add_raw(a, b).carry = x + y
    BY <1>1, AddExact
  <2> DEFINE s == u256_add_raw(a, b)
  <2>3. Number(Append(s.words, s.carry)) = Number(s.words) /\ Append(s.words, s.carry)[LIMBS + 1] = s.carry
    BY <2>2, AppendValue
  <2> HIDE DEF s
  <2>4. Number(z) = Number(s.words) /\ z[LIMBS + 1] = s.carry
    BY <2>1, <2>3 DEF s
  <2> QED BY <2>2, <2>4 DEF s
<1>5. ASSUME name = "u256_sub_raw" PROVE Number(z) - R * z[LIMBS + 1] = x - y
  <2>1. z = Append(u256_sub_raw(a, b).words, u256_sub_raw(a, b).carry)
    BY <1>2, <1>5 DEF Result, WithCarry
  <2>2. /\ u256_sub_raw(a, b).words \in U256 /\ u256_sub_raw(a, b).carry \in Word
        /\ Number(u256_sub_raw(a, b).words) - R * u256_sub_raw(a, b).carry = x - y
    BY <1>1, SubExact
  <2> DEFINE s == u256_sub_raw(a, b)
  <2>3. Number(Append(s.words, s.carry)) = Number(s.words) /\ Append(s.words, s.carry)[LIMBS + 1] = s.carry
    BY <2>2, AppendValue
  <2> HIDE DEF s
  <2>4. Number(z) = Number(s.words) /\ z[LIMBS + 1] = s.carry
    BY <2>1, <2>3 DEF s
  <2> QED BY <2>2, <2>4 DEF s
<1>6. ASSUME name = "u256_mul" PROVE limbsLEToBigInt(z, 2 * LIMBS) = x * y
  <2>1. z = u256_mul(a, b)
    BY <1>2, <1>6 DEF Result
  <2> QED BY <1>1, <2>1, MulExact DEF Value
<1>7. ASSUME name = "mod_p" PROVE Number(z) = mod(x + R * y)
  <2>1. z = mod_p(a \o b)
    BY <1>2, <1>7 DEF Result
  <2>2. a \o b \in U512 /\ Value(a \o b, 2 * LIMBS) = x + R * y
    BY <1>1, ConcatValue
  <2> QED BY <2>1, <2>2, mod_pExact
<1>8. ASSUME name = "fp_add" PROVE Number(z) = mod(x + y)
  <2>1. z = fp_add(a, b) /\ a \in Reduced /\ b \in Reduced
    BY <1>2, <1>3, <1>8 DEF Result, FpOp
  <2> QED BY <1>1, <2>1, fp_addExact
<1>9. ASSUME name = "fp_sub" PROVE Number(z) = mod(x - y)
  <2>1. z = fp_sub(a, b) /\ a \in Reduced /\ b \in Reduced
    BY <1>2, <1>3, <1>9 DEF Result, FpOp
  <2> QED BY <1>1, <2>1, fp_subExact
<1>10. ASSUME name = "fp_mul" PROVE Number(z) = mod(x * y)
  <2>1. z = fp_mul(a, b)
    BY <1>2, <1>10 DEF Result
  <2> QED BY <1>1, <2>1, fp_mulExact
<1>11. ASSUME name = "fp_neg" PROVE Number(z) = mod(0 - x)
  <2>1. z = fp_neg(a) /\ a \in Reduced
    BY <1>2, <1>3, <1>11 DEF Result, FpOp, Unary
  <2> QED BY <1>1, <2>1, fp_negExact
<1>12. ASSUME name = "fp_inv" PROVE Number(z) = Inverse(x)
  <2>1. z = fp_inv(a) /\ a \in Reduced
    BY <1>2, <1>3, <1>12 DEF Result, FpOp, Unary
  <2> QED BY <1>1, <2>1, fp_invExact
<1> QED BY <1>4, <1>5, <1>6, <1>7, <1>8, <1>9, <1>10, <1>11, <1>12

\* Every function of bigint.js is exact, whatever its operands: the raw ones lose
\* nothing, and the field functions return the one reduced number that is right.
\* It holds for every width of a word, number of words above two and prime
\* modulus of this form.
THEOREM ArithmeticExact == CallSpec => []Exact
<1>1. CallInv => Exact
  <2> SUFFICES ASSUME CallInv, out # <<>> PROVE Exact
    BY DEF Exact
  <2>1. /\ op.name \in Op /\ op.x \in 0..(R - 1) /\ op.y \in 0..(R - 1)
        /\ op.name \in FpOp => op.x < P /\ op.y < P
        /\ out = Result(op.name, bigIntToLimbsLE(op.x, LIMBS), bigIntToLimbsLE(op.y, LIMBS))
    BY DEF CallInv
  <2>2. op.name \in {"u256_add_raw", "u256_sub_raw", "u256_mul", "mod_p", "fp_add", "fp_sub", "fp_mul",
                     "fp_neg", "fp_inv"}
    BY <2>1 DEF Op, FpOp, Unary
  <2> DEFINE name == op.name
             x == op.x
             y == op.y
  <2>3. /\ name = "u256_add_raw" => Number(out) + R * out[LIMBS + 1] = x + y
        /\ name = "u256_sub_raw" => Number(out) - R * out[LIMBS + 1] = x - y
        /\ name = "u256_mul" => limbsLEToBigInt(out, 2 * LIMBS) = x * y
        /\ name = "mod_p" => Number(out) = mod(x + R * y)
        /\ name = "fp_add" => Number(out) = mod(x + y)
        /\ name = "fp_sub" => Number(out) = mod(x - y)
        /\ name = "fp_mul" => Number(out) = mod(x * y)
        /\ name = "fp_neg" => Number(out) = mod(0 - x)
        /\ name = "fp_inv" => Number(out) = Inverse(x)
    BY <2>1, ResultExact
  <2> QED BY <2>2, <2>3, ZenonT(60) DEF Exact
<1> QED BY <1>1, CallInvariant, PTL

\* bigint.js on mod_p, "converges in at most 2 passes": after the second one
\* nothing is above the lower words, for every number mod_p can be called with.
THEOREM TwoPassesLeaveNothing == CallSpec => []TwoPassesSuffice
<1>1. CallInv => TwoPassesSuffice
  <2> SUFFICES ASSUME CallInv PROVE ~Spills(Folded(bigIntToLimbsLE(op.x + R * op.y, 2 * LIMBS), 2))
    BY DEF TwoPassesSuffice
  <2>1. op.x \in 0..(R - 1) /\ op.y \in 0..(R - 1)
    BY DEF CallInv
  <2>2. LIMBS \in Nat /\ R \in Nat /\ R = Power(WORD, LIMBS) /\ WORD \in Int
    BY WordFacts
  <2>3. Power(WORD, 2 * LIMBS) = R * R
    <3>1. Power(WORD, LIMBS + LIMBS) = R * R
      BY <2>2, PowerAdds
    <3>2. LIMBS + LIMBS = 2 * LIMBS
      BY <2>2
    <3> QED BY <3>1, <3>2
  <2>4. PICK r \in Nat : r = R
    BY <2>2
  <2>5. PICK x \in 0..(r - 1), y \in 0..(r - 1) : x = op.x /\ y = op.y
    BY <2>1, <2>4
  <2>6. x + r * y \in 0..(r * r - 1)
    BY DigitBound
  <2>7. op.x + R * op.y \in Nat /\ op.x + R * op.y < Power(WORD, 2 * LIMBS)
    BY <2>3, <2>4, <2>5, <2>6
  <2>8. bigIntToLimbsLE(op.x + R * op.y, 2 * LIMBS) \in U512
    <3>1. 2 * LIMBS \in Nat
      BY <2>2
    <3> QED BY <2>7, <3>1, LimbsValue DEF U512
  <2> QED BY <2>8, FoldedExact
<1> QED BY <1>1, CallInvariant, PTL

-----------------------------------------------------------------------------
(* The shader's points and the CPU's.  A point in Jacobian coordinates is    *)
(* compared with the affine one by the inverse of its z: the slope of the    *)
(* shader, scaled by it, is the CPU's, and so is the third point.            *)

\* Both sides of a congruence may be multiplied.
LEMMA SameScale ==
    ASSUME NEW x, NEW y, Same(x, y), NEW c \in Int
    PROVE  Same(x * c, y * c)
<1>1. Same(c, c)
  BY SameRefl
<1> QED BY <1>1, SameTimes

\* A factor that is the inverse of another cancels it.
LEMMA SameCancels ==
    ASSUME NEW x \in Int, NEW w \in Int, NEW z \in Int, Same(w * z, 1)
    PROVE  /\ Same(x * (w * z), x)
           /\ Same(x * ((w * z) * (w * z)), x)
           /\ Same(x * ((w * z) * (w * z) * (w * z)), x)
<1>1. Same(x, x)
  BY SameRefl
<1>2. PICK u \in Int : u = w * z
  OBVIOUS
<1>3. Same(u, 1)
  BY <1>2
<1>4. Same(u * u, 1 * 1)
  BY <1>3, SameTimes
<1>5. Same((u * u) * u, (1 * 1) * 1)
  BY <1>3, <1>4, SameTimes
<1>6. Same(x * u, x * 1) /\ Same(x * (u * u), x * (1 * 1)) /\ Same(x * (u * u * u), x * (1 * 1 * 1))
  BY <1>1, <1>3, <1>4, <1>5, SameTimes
<1>7. x * 1 = x /\ x * (1 * 1) = x /\ x * (1 * 1 * 1) = x
  OBVIOUS
<1> QED BY <1>2, <1>6, <1>7

\* A number has one inverse.
LEMMA SameInverse ==
    ASSUME NEW a \in Int, NEW x \in Int, NEW y \in Int, Same(x * a, 1), Same(y * a, 1)
    PROVE  Same(x, y)
<1>1. Same(x * (y * a), x) /\ Same(y * (x * a), y)
  BY SameCancels
<1>2. x * (y * a) = y * (x * a)
  OBVIOUS
<1>3. Same(x, y * (x * a))
  BY <1>1, <1>2, SameSym
<1> QED BY <1>1, <1>3, SameTrans

\* The affine and the Jacobian slope of the line through two points.
OnChord(X, Y, Z, w, a1, a2, q1, q2, h, r, v, kk) ==
    /\ X \in Int /\ Y \in Int /\ Z \in Int /\ w \in Int /\ a1 \in Int /\ a2 \in Int
    /\ q1 \in Int /\ q2 \in Int /\ h \in Int /\ r \in Int /\ v \in Int /\ kk \in Int
    /\ Same(w * Z, 1) /\ Same(a1, X * w * w) /\ Same(a2, Y * w * w * w)
    /\ Same(h, q1 * Z * Z - X) /\ Same(r, q2 * Z * Z * Z - Y) /\ Same(v * (h * Z), 1)
    /\ Same(kk * (q1 - a1), 1)

\* The slope and the parts of the chord through two points, the one in Jacobian
\* coordinates X, Y, Z and the other in affine ones q1, q2; w, v and kk are the
\* inverses of the z's and of the difference on the CPU.
LEMMA Chord ==
    ASSUME NEW X, NEW Y, NEW Z, NEW w, NEW a1, NEW a2, NEW q1, NEW q2, NEW h, NEW r, NEW v,
           NEW kk, OnChord(X, Y, Z, w, a1, a2, q1, q2, h, r, v, kk)
    PROVE  /\ Same(r * v, (q2 - a2) * kk)
           /\ Same(X * h * h * (v * v), a1)
           /\ Same(h * h * h * (v * v), q1 - a1)
           /\ Same(Y * (h * h * h) * (v * v * v), a2)
<1> SUFFICES ASSUME X \in Int, Y \in Int, Z \in Int, w \in Int, a1 \in Int, a2 \in Int, q1 \in Int,
                    q2 \in Int, h \in Int, r \in Int, v \in Int, kk \in Int, Same(w * Z, 1),
                    Same(a1, X * w * w), Same(a2, Y * w * w * w), Same(h, q1 * Z * Z - X),
                    Same(r, q2 * Z * Z * Z - Y), Same(v * (h * Z), 1), Same(kk * (q1 - a1), 1)
             PROVE  /\ Same(r * v, (q2 - a2) * kk)
                    /\ Same(X * h * h * (v * v), a1)
                    /\ Same(h * h * h * (v * v), q1 - a1)
                    /\ Same(Y * (h * h * h) * (v * v * v), a2)
  BY DEF OnChord
<1> DEFINE a == q1 - a1
           b == q2 - a2
<1>0. a \in Int /\ b \in Int
  OBVIOUS
<1>1a. Same(a1 * (Z * Z), X * ((w * Z) * (w * Z)))
  <2>1. PICK c \in Int : c = Z * Z
    OBVIOUS
  <2>2. Same(a1 * c, (X * w * w) * c)
    BY SameScale
  <2>3. a1 * (Z * Z) = a1 * (Z * Z) /\ (X * w * w) * (Z * Z) = X * ((w * Z) * (w * Z))
    OBVIOUS
  <2> QED BY <2>1, <2>2, <2>3
<1>1. Same(a1 * (Z * Z), X)
  BY <1>1a, SameCancels, SameTrans
<1>2a. Same(a2 * (Z * Z * Z), Y * ((w * Z) * (w * Z) * (w * Z)))
  <2>1. PICK c \in Int : c = Z * Z * Z
    OBVIOUS
  <2>2. Same(a2 * c, (Y * w * w * w) * c)
    BY SameScale
  <2>3. /\ a2 * (Z * Z * Z) = a2 * (Z * Z * Z)
        /\ (Y * w * w * w) * (Z * Z * Z) = Y * ((w * Z) * (w * Z) * (w * Z))
    OBVIOUS
  <2> QED BY <2>1, <2>2, <2>3
<1>2. Same(a2 * (Z * Z * Z), Y)
  BY <1>2a, SameCancels, SameTrans
<1>3. Same(a * (Z * Z), h)
  <2>1. Same(q1 * Z * Z, q1 * Z * Z)
    BY SameRefl
  <2>2. Same(q1 * Z * Z - a1 * (Z * Z), q1 * Z * Z - X)
    BY <1>1, <2>1, SameMinus
  <2>3. q1 * Z * Z - a1 * (Z * Z) = a * (Z * Z)
    OBVIOUS
  <2>4. Same(q1 * Z * Z - X, h)
    BY SameSym
  <2> QED BY <2>2, <2>3, <2>4, SameTrans
<1>4. Same(b * (Z * Z * Z), r)
  <2>1. Same(q2 * Z * Z * Z, q2 * Z * Z * Z)
    BY SameRefl
  <2>2. Same(q2 * Z * Z * Z - a2 * (Z * Z * Z), q2 * Z * Z * Z - Y)
    BY <1>2, <2>1, SameMinus
  <2>3. q2 * Z * Z * Z - a2 * (Z * Z * Z) = b * (Z * Z * Z)
    OBVIOUS
  <2>4. Same(q2 * Z * Z * Z - Y, r)
    BY SameSym
  <2> QED BY <2>2, <2>3, <2>4, SameTrans

\* The inverses.
<1>5. Same(h * v, w)
  <2>1. Same((h * v) * (w * Z), h * v) /\ Same(w * (v * (h * Z)), w)
    <3>1. h * v \in Int /\ h * Z \in Int
      OBVIOUS
    <3> QED BY <3>1, SameCancels
  <2>2. (h * v) * (w * Z) = w * (v * (h * Z))
    OBVIOUS
  <2>3. Same(h * v, (h * v) * (w * Z))
    BY <2>1, SameSym
  <2> QED BY <2>1, <2>2, <2>3, SameTrans
<1>6. Same(Z * Z * Z * v, kk)
  <2>1. Same((Z * Z * Z * v) * a, v * (h * Z))
    <3>1. PICK c \in Int : c = Z * v
      OBVIOUS
    <3>2. Same((a * (Z * Z)) * c, h * c)
      BY <1>3, SameScale
    <3>3. (a * (Z * Z)) * (Z * v) = (Z * Z * Z * v) * a /\ h * (Z * v) = v * (h * Z)
      OBVIOUS
    <3> QED BY <3>1, <3>2, <3>3
  <2>2. Same((Z * Z * Z * v) * a, 1) /\ Same(kk * a, 1)
    BY <2>1, SameTrans
  <2>3. Z * Z * Z * v \in Int
    OBVIOUS
  <2> HIDE DEF a
  <2> QED BY <1>0, <2>2, <2>3, SameInverse
<1>7. Same(r * v, b * kk)
  <2>1. Same(b * (Z * Z * Z * v), r * v)
    <3>1. PICK c \in Int : c = v
      OBVIOUS
    <3>2. Same((b * (Z * Z * Z)) * c, r * c)
      BY <1>4, SameScale
    <3>3. (b * (Z * Z * Z)) * v = b * (Z * Z * Z * v) /\ r * v = r * v
      OBVIOUS
    <3> QED BY <3>1, <3>2, <3>3
  <2>2. Same(b * (Z * Z * Z * v), b * kk)
    <3>1. PICK c \in Int : c = b
      OBVIOUS
    <3>2. Same((Z * Z * Z * v) * c, kk * c)
      BY <1>6, SameScale
    <3>3. (Z * Z * Z * v) * b = b * (Z * Z * Z * v) /\ kk * b = b * kk
      OBVIOUS
    <3> QED BY <3>1, <3>2, <3>3
  <2> QED BY <2>1, <2>2, SameSym, SameTrans
<1>8. Same((h * v) * (h * v), w * w)
  BY <1>5, SameTimes
<1>9. Same((h * v) * (h * v) * (h * v), w * w * w)
  BY <1>5, <1>8, SameTimes
<1>10. Same(X * h * h * (v * v), a1)
  <2>1. Same(X * h * h * (v * v), X * w * w)
    <3>1. PICK c \in Int : c = X
      OBVIOUS
    <3>2. Same(((h * v) * (h * v)) * c, (w * w) * c)
      BY <1>8, SameScale
    <3>3. ((h * v) * (h * v)) * X = X * h * h * (v * v) /\ (w * w) * X = X * w * w
      OBVIOUS
    <3> QED BY <3>1, <3>2, <3>3
  <2> QED BY <2>1, SameSym, SameTrans
<1>11. Same(Y * (h * h * h) * (v * v * v), a2)
  <2>1. Same(Y * (h * h * h) * (v * v * v), Y * w * w * w)
    <3>1. PICK c \in Int : c = Y
      OBVIOUS
    <3>2. Same(((h * v) * (h * v) * (h * v)) * c, (w * w * w) * c)
      BY <1>9, SameScale
    <3>3. /\ ((h * v) * (h * v) * (h * v)) * Y = Y * (h * h * h) * (v * v * v)
          /\ (w * w * w) * Y = Y * w * w * w
      OBVIOUS
    <3> QED BY <3>1, <3>2, <3>3
  <2> QED BY <2>1, SameSym, SameTrans
<1>12. Same(h * h * h * (v * v), a)
  <2>1. Same(h * h * h * (v * v), h * (w * w))
    <3>1. PICK c \in Int : c = h
      OBVIOUS
    <3>2. Same(((h * v) * (h * v)) * c, (w * w) * c)
      BY <1>8, SameScale
    <3>3. ((h * v) * (h * v)) * h = h * h * h * (v * v) /\ (w * w) * h = h * (w * w)
      OBVIOUS
    <3> QED BY <3>1, <3>2, <3>3
  <2>2. Same(a * ((w * Z) * (w * Z)), h * (w * w))
    <3>1. PICK c \in Int : c = w * w
      OBVIOUS
    <3>2. Same((a * (Z * Z)) * c, h * c)
      BY <1>3, SameScale
    <3>3. (a * (Z * Z)) * (w * w) = a * ((w * Z) * (w * Z)) /\ h * (w * w) = h * (w * w)
      OBVIOUS
    <3> QED BY <3>1, <3>2, <3>3
  <2>3. Same(a * ((w * Z) * (w * Z)), a)
    <3> HIDE DEF a
    <3> QED BY <1>0, SameCancels
  <2> QED BY <2>1, <2>2, <2>3, SameSym, SameTrans
<1> QED BY <1>7, <1>10, <1>11, <1>12

\* The same of the line that touches the curve.
OnTangent(X, Y, Z, w, a1, a2, v, kk) ==
    /\ X \in Int /\ Y \in Int /\ Z \in Int /\ w \in Int /\ a1 \in Int /\ a2 \in Int
    /\ v \in Int /\ kk \in Int /\ Same(w * Z, 1) /\ Same(a1, X * w * w)
    /\ Same(a2, Y * w * w * w) /\ Same(v * (2 * Y * Z), 1) /\ Same(kk * (2 * a2), 1)

\* The same of the tangent.
LEMMA Tangent ==
    ASSUME NEW X, NEW Y, NEW Z, NEW w, NEW a1, NEW a2, NEW v, NEW kk,
           OnTangent(X, Y, Z, w, a1, a2, v, kk)
    PROVE  /\ Same((3 * (X * X)) * v, 3 * a1 * a1 * kk)
           /\ Same((4 * (X * Y * Y)) * (v * v), a1)
           /\ Same((8 * Y * Y * Y * Y) * (v * v * v), a2)
<1> SUFFICES ASSUME X \in Int, Y \in Int, Z \in Int, w \in Int, a1 \in Int, a2 \in Int, v \in Int,
                    kk \in Int, Same(w * Z, 1), Same(a1, X * w * w), Same(a2, Y * w * w * w),
                    Same(v * (2 * Y * Z), 1), Same(kk * (2 * a2), 1)
             PROVE  /\ Same((3 * (X * X)) * v, 3 * a1 * a1 * kk)
                    /\ Same((4 * (X * Y * Y)) * (v * v), a1)
                    /\ Same((8 * Y * Y * Y * Y) * (v * v * v), a2)
  BY DEF OnTangent
<1>1a. Same(a1 * (Z * Z), X * ((w * Z) * (w * Z)))
  <2>1. PICK c \in Int : c = Z * Z
    OBVIOUS
  <2>2. Same(a1 * c, (X * w * w) * c)
    BY SameScale
  <2>3. a1 * (Z * Z) = a1 * (Z * Z) /\ (X * w * w) * (Z * Z) = X * ((w * Z) * (w * Z))
    OBVIOUS
  <2> QED BY <2>1, <2>2, <2>3
<1>1. Same(a1 * (Z * Z), X)
  BY <1>1a, SameCancels, SameTrans
<1>2a. Same(a2 * (Z * Z * Z), Y * ((w * Z) * (w * Z) * (w * Z)))
  <2>1. PICK c \in Int : c = Z * Z * Z
    OBVIOUS
  <2>2. Same(a2 * c, (Y * w * w * w) * c)
    BY SameScale
  <2>3. /\ a2 * (Z * Z * Z) = a2 * (Z * Z * Z)
        /\ (Y * w * w * w) * (Z * Z * Z) = Y * ((w * Z) * (w * Z) * (w * Z))
    OBVIOUS
  <2> QED BY <2>1, <2>2, <2>3
<1>2. Same(a2 * (Z * Z * Z), Y)
  BY <1>2a, SameCancels, SameTrans
<1>3. Same(Z * Z * Z * Z * v, kk)
  <2>1. Same((Z * Z * Z * Z * v) * (2 * a2), v * (2 * Y * Z))
    <3>1. PICK c \in Int : c = 2 * Z * v
      OBVIOUS
    <3>2. Same((a2 * (Z * Z * Z)) * c, Y * c)
      BY <1>2, SameScale
    <3>3. /\ (a2 * (Z * Z * Z)) * (2 * Z * v) = (Z * Z * Z * Z * v) * (2 * a2)
          /\ Y * (2 * Z * v) = v * (2 * Y * Z)
      OBVIOUS
    <3> QED BY <3>1, <3>2, <3>3
  <2>2. Same((Z * Z * Z * Z * v) * (2 * a2), 1)
    BY <2>1, SameTrans
  <2>3. Z * Z * Z * Z * v \in Int /\ 2 * a2 \in Int
    OBVIOUS
  <2> QED BY <2>2, <2>3, SameInverse
<1>4. Same((3 * (X * X)) * v, 3 * a1 * a1 * kk)
  <2>1. Same((a1 * (Z * Z)) * (a1 * (Z * Z)), X * X)
    BY <1>1, SameTimes
  <2>2. Same((3 * a1 * a1) * (Z * Z * Z * Z * v), (3 * (X * X)) * v)
    <3>1. PICK c \in Int : c = 3 * v
      OBVIOUS
    <3>2. Same(((a1 * (Z * Z)) * (a1 * (Z * Z))) * c, (X * X) * c)
      BY <2>1, SameScale
    <3>3. /\ ((a1 * (Z * Z)) * (a1 * (Z * Z))) * (3 * v) = (3 * a1 * a1) * (Z * Z * Z * Z * v)
          /\ (X * X) * (3 * v) = (3 * (X * X)) * v
      OBVIOUS
    <3> QED BY <3>1, <3>2, <3>3
  <2>3. Same((3 * a1 * a1) * (Z * Z * Z * Z * v), 3 * a1 * a1 * kk)
    <3>1. PICK c \in Int : c = 3 * a1 * a1
      OBVIOUS
    <3>2. Same((Z * Z * Z * Z * v) * c, kk * c)
      BY <1>3, SameScale
    <3>3. /\ (Z * Z * Z * Z * v) * (3 * a1 * a1) = (3 * a1 * a1) * (Z * Z * Z * Z * v)
          /\ kk * (3 * a1 * a1) = 3 * a1 * a1 * kk
      OBVIOUS
    <3> QED BY <3>1, <3>2, <3>3
  <2> QED BY <2>2, <2>3, SameSym, SameTrans
<1>5. Same((4 * (X * Y * Y)) * (v * v), a1)
  <2>1. Same(a1 * ((v * (2 * Y * Z)) * (v * (2 * Y * Z))), (4 * (X * Y * Y)) * (v * v))
    <3>1. PICK c \in Int : c = 4 * Y * Y * (v * v)
      OBVIOUS
    <3>2. Same((a1 * (Z * Z)) * c, X * c)
      BY <1>1, SameScale
    <3>3. /\ (a1 * (Z * Z)) * (4 * Y * Y * (v * v)) = a1 * ((v * (2 * Y * Z)) * (v * (2 * Y * Z)))
          /\ X * (4 * Y * Y * (v * v)) = (4 * (X * Y * Y)) * (v * v)
      OBVIOUS
    <3> QED BY <3>1, <3>2, <3>3
  <2>2. Same(a1 * ((v * (2 * Y * Z)) * (v * (2 * Y * Z))), a1)
    <3>1. 2 * Y * Z \in Int
      OBVIOUS
    <3> QED BY <3>1, SameCancels
  <2> QED BY <2>1, <2>2, SameSym, SameTrans
<1>6. Same((8 * Y * Y * Y * Y) * (v * v * v), a2)
  <2>1. Same(a2 * ((v * (2 * Y * Z)) * (v * (2 * Y * Z)) * (v * (2 * Y * Z))), (8 * Y * Y * Y * Y) * (v * v * v))
    <3>1. PICK c \in Int : c = 8 * Y * Y * Y * (v * v * v)
      OBVIOUS
    <3>2. Same((a2 * (Z * Z * Z)) * c, Y * c)
      BY <1>2, SameScale
    <3>3. /\ (a2 * (Z * Z * Z)) * (8 * Y * Y * Y * (v * v * v)) = a2 * ((v * (2 * Y * Z)) * (v * (2 * Y * Z)) * (v * (2 * Y * Z)))
          /\ Y * (8 * Y * Y * Y * (v * v * v)) = (8 * Y * Y * Y * Y) * (v * v * v)
      OBVIOUS
    <3> QED BY <3>1, <3>2, <3>3
  <2>2. Same(a2 * ((v * (2 * Y * Z)) * (v * (2 * Y * Z)) * (v * (2 * Y * Z))), a2)
    <3>1. 2 * Y * Z \in Int
      OBVIOUS
    <3> QED BY <3>1, SameCancels
  <2> QED BY <2>1, <2>2, SameSym, SameTrans
<1> QED BY <1>4, <1>5, <1>6

\* The third point of a line of slope m, with coordinates x3 and y3 to the scale of v.
OnLine(x3, y3, r, e, s, f, v, m, g, a1, a2, c3) ==
    /\ r \in Int /\ e \in Int /\ s \in Int /\ f \in Int /\ v \in Int
    /\ Same(x3, r * r - e - 2 * s) /\ Same(y3, r * (s - x3) - f) /\ Same(r * v, m)
    /\ Same(e * (v * v), g) /\ Same(s * (v * v), a1) /\ Same(f * (v * v * v), a2)
    /\ Same(c3, m * m - g - 2 * a1)

\* The third point on a line of slope m, in either coordinates.
LEMMA ThirdPoint ==
    ASSUME NEW x3, NEW y3, NEW r, NEW e, NEW s, NEW f, NEW v, NEW m, NEW g, NEW a1, NEW a2,
           NEW c3, OnLine(x3, y3, r, e, s, f, v, m, g, a1, a2, c3)
    PROVE  /\ Same(x3 * v * v, c3)
           /\ Same(y3 * v * v * v, m * (a1 - c3) - a2)
<1> SUFFICES ASSUME r \in Int, e \in Int, s \in Int, f \in Int, v \in Int,
                    Same(x3, r * r - e - 2 * s), Same(y3, r * (s - x3) - f), Same(r * v, m),
                    Same(e * (v * v), g), Same(s * (v * v), a1), Same(f * (v * v * v), a2),
                    Same(c3, m * m - g - 2 * a1)
             PROVE  /\ Same(x3 * v * v, c3)
                    /\ Same(y3 * v * v * v, m * (a1 - c3) - a2)
  BY DEF OnLine
<1>1. /\ x3 \in Int /\ y3 \in Int /\ m \in Int /\ g \in Int /\ a1 \in Int /\ a2 \in Int /\ c3 \in Int
  BY DEF Same
<1>2. Same(x3 * v * v, c3)
  <2>1. Same((r * v) * (r * v), m * m)
    BY SameTimes
  <2>2. Same((r * v) * (r * v) - e * (v * v), m * m - g)
    BY <2>1, SameMinus
  <2>3. Same(2, 2)
    BY SameRefl
  <2>4. Same(2 * (s * (v * v)), 2 * a1)
    BY <2>3, SameTimes
  <2>5. Same(((r * v) * (r * v) - e * (v * v)) - 2 * (s * (v * v)), (m * m - g) - 2 * a1)
    BY <2>2, <2>4, SameMinus
  <2>6. Same((r * r - e - 2 * s) * (v * v), m * m - g - 2 * a1)
    <3>1. (r * r - e - 2 * s) * (v * v) = ((r * v) * (r * v) - e * (v * v)) - 2 * (s * (v * v))
      OBVIOUS
    <3> QED BY <2>5, <3>1
  <2>7. Same(x3 * v * v, (r * r - e - 2 * s) * (v * v))
    <3>1. PICK c \in Int : c = v * v
      BY <1>1
    <3>2. Same(x3 * c, (r * r - e - 2 * s) * c)
      BY SameScale
    <3>3. x3 * (v * v) = x3 * v * v /\ (r * r - e - 2 * s) * (v * v) = (r * r - e - 2 * s) * (v * v)
      BY <1>1
    <3> QED BY <3>1, <3>2, <3>3
  <2>8. Same(m * m - g - 2 * a1, c3)
    BY SameSym
  <2> QED BY <2>6, <2>7, <2>8, SameTrans
<1>3. Same(y3 * v * v * v, m * (a1 - c3) - a2)
  <2>1. Same(s * (v * v) - x3 * v * v, a1 - c3)
    BY <1>2, SameMinus
  <2>2. Same((r * v) * (s * (v * v) - x3 * v * v), m * (a1 - c3))
    BY <2>1, SameTimes
  <2>3. Same((r * v) * (s * (v * v) - x3 * v * v) - f * (v * v * v), m * (a1 - c3) - a2)
    BY <2>2, SameMinus
  <2>4. (r * (s - x3) - f) * (v * v * v) = (r * v) * (s * (v * v) - x3 * v * v) - f * (v * v * v)
    BY <1>1
  <2>5. Same(y3 * v * v * v, (r * (s - x3) - f) * (v * v * v))
    <3>1. PICK c \in Int : c = v * v * v
      BY <1>1
    <3>2. Same(y3 * c, (r * (s - x3) - f) * c)
      BY SameScale
    <3>3. /\ y3 * (v * v * v) = y3 * v * v * v
          /\ (r * (s - x3) - f) * (v * v * v) = (r * (s - x3) - f) * (v * v * v)
      BY <1>1
    <3> QED BY <3>1, <3>2, <3>3
  <2> QED BY <2>3, <2>4, <2>5, SameTrans
<1> QED BY <1>2, <1>3

\* The numbers below P are integers.
LEMMA ResidueInt == \A x \in Residue : x \in Int /\ x \in Nat /\ x \in 0..(P - 1) /\ mod(x) = x
<1> SUFFICES ASSUME NEW x \in Residue PROVE x \in Int /\ x \in Nat /\ x \in 0..(P - 1) /\ mod(x) = x
  OBVIOUS
<1>1. x \in 0..(P - 1) /\ x \in Int /\ x \in Nat
  BY PInt DEF Residue
<1>2. Same(x, x)
  BY <1>1, SameRefl
<1> QED BY <1>1, <1>2, SameReduced

\* What mod returns, as a residue.
LEMMA ModResidue == ASSUME NEW n \in Int PROVE mod(n) \in Residue /\ Same(mod(n), n) /\ Same(n, mod(n))
  BY ModTyped, SameMod, SameSym DEF Residue

\* Residues that are the same are equal.
LEMMA ResiduesDiffer == ASSUME NEW x \in Residue, NEW y \in Residue, Same(x, y) PROVE x = y
  BY ReducedDiffer DEF Residue

\* The residue of a number.
LEMMA ResidueOf == ASSUME NEW n, NEW x \in Residue, Same(n, x) PROVE mod(n) = x
  BY SameReduced DEF Residue

\* modInv of any integer.
LEMMA modInvAny ==
    ASSUME NEW a \in Int
    PROVE  /\ modInv(a) \in Residue /\ modInv(a) \in Int
           /\ mod(a) # 0 => Same(modInv(a) * a, 1)
<1>1. mod(a) \in Residue /\ Same(a, mod(a))
  BY ModResidue
<1>2. mod(mod(a)) = mod(a)
  BY <1>1, ResidueInt
<1>3. modInv(a) = modInv(mod(a))
  BY <1>2, EuclidUnfolds
<1>4. CASE mod(a) = 0
  <2> DEFINE e == [g |-> P, x |-> 0, g1 |-> 0, x1 |-> 1]
  <2>1. e \in Pair /\ e.g1 = 0 /\ e.x = 0
    BY PInt DEF Pair
  <2>2. modInv(a) = euclid[e]
    BY <1>4, EuclidUnfolds
  <2> HIDE DEF e
  <2>3. modInv(a) = mod(0)
    BY <2>1, <2>2, EuclidUnfolds
  <2>4. mod(0) \in Residue
    BY ModResidue
  <2> QED BY <1>4, <2>3, <2>4, ResidueInt
<1>5. CASE mod(a) # 0
  <2>1. mod(a) \in 1..(P - 1)
    BY <1>1, <1>5, ResidueInt
  <2>2. modInv(mod(a)) \in 0..(P - 1) /\ Same(modInv(mod(a)) * mod(a), 1)
    BY <2>1, modInvExact
  <2>3. PICK c \in Residue : c = modInv(a)
    BY <1>3, <2>2 DEF Residue
  <2>4. c \in Int
    BY ResidueInt
  <2>5. Same(a * c, mod(a) * c)
    BY <1>1, <2>4, SameScale
  <2>6. a * c = c * a /\ mod(a) * c = c * mod(a)
    BY <2>1, <2>4, ResidueInt, <1>1
  <2>7. Same(c * a, 1)
    BY <1>3, <2>2, <2>3, <2>5, <2>6, SameTrans
  <2> QED BY <2>3, <2>4, <2>7
<1> QED BY <1>4, <1>5

\* A number with an inverse is not zero.
LEMMA UnitNotZero ==
    ASSUME NEW x \in Int, NEW w \in Int, Same(w * x, 1)
    PROVE  mod(x) # 0
<1> SUFFICES ASSUME mod(x) = 0 PROVE FALSE
  OBVIOUS
<1>1. Same(x, 0)
  BY ModResidue
<1>2. Same(x * w, 0 * w)
  BY <1>1, SameScale
<1>3. x * w = w * x /\ 0 * w = 0
  OBVIOUS
<1>4. Same(0, 1)
  BY <1>2, <1>3, SameSym, SameTrans
<1>5. 0 \in Residue /\ 1 \in Residue
  BY PInt DEF Residue
<1> QED BY <1>4, <1>5, ResiduesDiffer

\* The product of numbers that are not zero is not.
LEMMA ProductNotZero ==
    ASSUME NEW x \in Int, NEW y \in Int, mod(x) # 0, mod(y) # 0
    PROVE  mod(x * y) # 0
<1>1. PICK u \in Int, v \in Int : u = modInv(x) /\ v = modInv(y)
  BY modInvAny
<1>2. Same(u * x, 1) /\ Same(v * y, 1)
  BY <1>1, modInvAny
<1>3. Same((u * x) * (v * y), 1 * 1)
  BY <1>2, SameTimes
<1>4. (u * x) * (v * y) = (u * v) * (x * y) /\ 1 * 1 = 1 /\ u * v \in Int /\ x * y \in Int
  OBVIOUS
<1>5. Same((u * v) * (x * y), 1)
  BY <1>3, <1>4
<1> QED BY <1>4, <1>5, UnitNotZero

\* The inverse of the shader.
LEMMA InverseIs ==
    ASSUME NEW z \in Residue
    PROVE  /\ Inverse(z) \in Residue /\ Inverse(z) \in Int
           /\ z # 0 => Same(Inverse(z) * z, 1)
<1>1. z \in Int /\ mod(z) = z
  BY ResidueInt
<1>2. CASE z = 0
  <2>1. 0 \in Residue /\ 0 \in Int
    BY PInt DEF Residue
  <2> QED BY <1>2, <2>1 DEF Inverse
<1>3. CASE z # 0
  BY <1>1, <1>3, modInvAny DEF Inverse
<1> QED BY <1>2, <1>3

\* A point of two coordinates is not the point at infinity.
LEMMA PairIs ==
    ASSUME NEW a \in Affines
    PROVE  /\ a # Null /\ a[1] \in Residue /\ a[2] \in Residue /\ a = <<a[1], a[2]>>
           /\ a[1] \in Int /\ a[2] \in Int
<1>1. a[1] \in Residue /\ a[2] \in Residue /\ a = <<a[1], a[2]>>
  BY DEF Affines
<1>2. a # Null
  BY <1>1 DEF Null
<1> QED BY <1>1, <1>2, ResidueInt

\* The sums of the CPU, by the cases of their terms.
LEMMA pointAddCases ==
    ASSUME NEW p \in Affines, NEW q \in Affines
    PROVE  /\ pointAdd(Null, Null) = Null /\ pointAdd(Null, q) = q /\ pointAdd(p, Null) = p
           /\ p[1] = q[1] /\ p[2] # q[2] => pointAdd(p, q) = Null
           /\ p = q =>
                LET m == mod(3 * p[1] * p[1] * modInv(2 * p[2]))
                    x3 == mod(m * m - p[1] - q[1])
                IN  pointAdd(p, q) = <<x3, mod(m * (p[1] - x3) - p[2])>>
           /\ p[1] # q[1] =>
                LET m == mod((q[2] - p[2]) * modInv(q[1] - p[1]))
                    x3 == mod(m * m - p[1] - q[1])
                IN  pointAdd(p, q) = <<x3, mod(m * (p[1] - x3) - p[2])>>
<1>1. p # Null /\ q # Null /\ (p[1] = q[1] /\ p[2] = q[2] => p = q)
  BY PairIs
<1>2. pointAdd(Null, Null) = Null /\ pointAdd(Null, q) = q /\ pointAdd(p, Null) = p
  BY <1>1 DEF pointAdd
<1>3. ASSUME p[1] = q[1], p[2] # q[2] PROVE pointAdd(p, q) = Null
  BY <1>1, <1>3 DEF pointAdd
<1>4. ASSUME p = q
      PROVE  LET m == mod(3 * p[1] * p[1] * modInv(2 * p[2]))
                 x3 == mod(m * m - p[1] - q[1])
             IN  pointAdd(p, q) = <<x3, mod(m * (p[1] - x3) - p[2])>>
  BY <1>1, <1>4 DEF pointAdd
<1>5. ASSUME p[1] # q[1]
      PROVE  LET m == mod((q[2] - p[2]) * modInv(q[1] - p[1]))
                 x3 == mod(m * m - p[1] - q[1])
             IN  pointAdd(p, q) = <<x3, mod(m * (p[1] - x3) - p[2])>>
  BY <1>1, <1>5 DEF pointAdd
<1> QED BY <1>2, <1>3, <1>4, <1>5

\* A sum is a point.
LEMMA pointAddTyped ==
    ASSUME NEW p \in Affines \cup {Null}, NEW q \in Affines \cup {Null}
    PROVE  pointAdd(p, q) \in Affines \cup {Null}
<1>1. CASE p = Null \/ q = Null
  BY <1>1 DEF pointAdd
<1>2. CASE p # Null /\ q # Null
  <2>1. p \in Affines /\ q \in Affines
    BY <1>2
  <2>2. /\ p[1] \in Int /\ p[2] \in Int /\ q[1] \in Int /\ q[2] \in Int
        /\ (p[1] = q[1] /\ p[2] = q[2] => p = q)
    BY <2>1, PairIs
  <2>3. ASSUME NEW m \in Int
        PROVE  <<mod(m * m - p[1] - q[1]), mod(m * (p[1] - mod(m * m - p[1] - q[1])) - p[2])>> \in Affines
    <3>1. PICK x3 \in Residue : x3 = mod(m * m - p[1] - q[1])
      BY <2>2, ModResidue
    <3>2. x3 \in Int
      BY ResidueInt
    <3>3. mod(m * (p[1] - x3) - p[2]) \in Residue
      BY <2>2, <3>2, ModResidue
    <3> QED BY <3>1, <3>3 DEF Affines
  <2>4. CASE p[1] = q[1] /\ p[2] # q[2]
    BY <2>1, <2>4, pointAddCases
  <2>5. CASE p = q
    <3>1. PICK w \in Int : w = modInv(2 * p[2])
      BY <2>2, modInvAny
    <3>2. PICK m \in Int : m = mod(3 * p[1] * p[1] * w)
      <4>1. mod(3 * p[1] * p[1] * w) \in Int
        BY <2>2, ModResidue, ResidueInt
      <4> QED BY <4>1
    <3>3. pointAdd(p, q) = <<mod(m * m - p[1] - q[1]), mod(m * (p[1] - mod(m * m - p[1] - q[1])) - p[2])>>
      BY <2>1, <2>5, <3>1, <3>2, pointAddCases
    <3> QED BY <2>3, <3>3
  <2>6. CASE p[1] # q[1]
    <3>1. PICK w \in Int : w = modInv(q[1] - p[1])
      BY <2>2, modInvAny
    <3>2. PICK m \in Int : m = mod((q[2] - p[2]) * w)
      <4>1. mod((q[2] - p[2]) * w) \in Int
        BY <2>2, ModResidue, ResidueInt
      <4> QED BY <4>1
    <3>3. pointAdd(p, q) = <<mod(m * m - p[1] - q[1]), mod(m * (p[1] - mod(m * m - p[1] - q[1])) - p[2])>>
      BY <2>1, <2>6, <3>1, <3>2, pointAddCases
    <3> QED BY <2>3, <3>3
  <2> QED BY <2>2, <2>4, <2>5, <2>6
<1> QED BY <1>1, <1>2

\* A point of the shader and its affine coordinates.
LEMMA JacobianIs ==
    ASSUME NEW p \in Jacobian
    PROVE  /\ p.x \in Residue /\ p.y \in Residue /\ p.z \in Residue
           /\ p.x \in Int /\ p.y \in Int /\ p.z \in Int
           /\ p.z = 0 => jacobian_to_affine(p) = Null
           /\ p.z # 0 =>
                /\ jacobian_to_affine(p) = Affine(p, Inverse(p.z))
                /\ jacobian_to_affine(p) \in Affines
                /\ Inverse(p.z) \in Int /\ Same(Inverse(p.z) * p.z, 1)
                /\ Same(jacobian_to_affine(p)[1], p.x * Inverse(p.z) * Inverse(p.z))
                /\ Same(jacobian_to_affine(p)[2], p.y * Inverse(p.z) * Inverse(p.z) * Inverse(p.z))
<1>1. /\ p.x \in Residue /\ p.y \in Residue /\ p.z \in Residue
      /\ p.x \in Int /\ p.y \in Int /\ p.z \in Int
  BY ResidueInt DEF Jacobian
<1>2. ASSUME p.z = 0 PROVE jacobian_to_affine(p) = Null
  BY <1>2 DEF jacobian_to_affine, is_infinity
<1>3. ASSUME p.z # 0
      PROVE /\ jacobian_to_affine(p) = Affine(p, Inverse(p.z))
            /\ jacobian_to_affine(p) \in Affines
            /\ Inverse(p.z) \in Int /\ Same(Inverse(p.z) * p.z, 1)
            /\ Same(jacobian_to_affine(p)[1], p.x * Inverse(p.z) * Inverse(p.z))
            /\ Same(jacobian_to_affine(p)[2], p.y * Inverse(p.z) * Inverse(p.z) * Inverse(p.z))
  <2>1. jacobian_to_affine(p) = Affine(p, Inverse(p.z))
    BY <1>3 DEF jacobian_to_affine, is_infinity
  <2>2. PICK w \in Int : w = Inverse(p.z)
    BY <1>1, InverseIs
  <2>3. Same(w * p.z, 1)
    BY <1>1, <1>3, <2>2, InverseIs
  <2>4. Affine(p, w) = <<mod(p.x * w * w), mod(p.y * w * w * w)>>
    BY DEF Affine
  <2>5. p.x * w * w \in Int /\ p.y * w * w * w \in Int
    BY <1>1
  <2>6. /\ mod(p.x * w * w) \in Residue /\ Same(mod(p.x * w * w), p.x * w * w)
        /\ mod(p.y * w * w * w) \in Residue /\ Same(mod(p.y * w * w * w), p.y * w * w * w)
    BY <2>5, ModResidue
  <2>7. Affine(p, w) \in Affines
    BY <2>4, <2>6 DEF Affines
  <2>8. Affine(p, w)[1] = mod(p.x * w * w) /\ Affine(p, w)[2] = mod(p.y * w * w * w)
    BY <2>4
  <2> QED BY <2>1, <2>2, <2>3, <2>6, <2>7, <2>8
<1> QED BY <1>1, <1>2, <1>3

\* A point the shader makes.
LEMMA PointIs ==
    ASSUME NEW x \in Residue, NEW y \in Int, NEW z \in Int
    PROVE  /\ Point(x, y, z) \in Jacobian
           /\ Point(x, y, z).x = x /\ Point(x, y, z).y = mod(y) /\ Point(x, y, z).z = mod(z)
<1>1. mod(x) = x /\ mod(y) \in Residue /\ mod(z) \in Residue
  BY ResidueInt, ModResidue
<1> QED BY <1>1 DEF Point, Jacobian

\* The affine coordinates of the third point of a line, from its Jacobian ones.
LEMMA ThirdPointAffine ==
    ASSUME NEW x3 \in Residue, NEW y \in Int, NEW z \in Int, NEW v \in Int, Same(v * z, 1),
           NEW c3 \in Residue, Same(x3 * v * v, c3),
           NEW c \in Int, Same(mod(y) * v * v * v, c)
    PROVE  Point(x3, y, z) \in Jacobian /\ jacobian_to_affine(Point(x3, y, z)) = <<c3, mod(c)>>
<1> DEFINE o == Point(x3, y, z)
<1>1. o \in Jacobian /\ o.x = x3 /\ o.y = mod(y) /\ o.z = mod(z)
  BY PointIs
<1>2. mod(z) # 0 /\ mod(y) \in Int /\ x3 \in Int
  BY UnitNotZero, ModResidue, ResidueInt
<1>3. PICK w \in Int : w = Inverse(mod(z))
  BY ModResidue, InverseIs
<1>4. Same(w * mod(z), 1)
  BY <1>2, <1>3, ModResidue, InverseIs
<1>5. Same(w * z, 1)
  <2>1. Same(z * w, mod(z) * w)
    BY ModResidue, SameScale
  <2>2. z * w = w * z /\ mod(z) * w = w * mod(z)
    BY ModResidue, ResidueInt
  <2> QED BY <1>4, <2>1, <2>2, SameTrans
<1>6. Same(w, v)
  BY <1>5, SameInverse
<1>7. Same(w * w, v * v) /\ Same((w * w) * w, (v * v) * v)
  BY <1>6, SameTimes
<1>8. Same(x3 * (w * w), x3 * (v * v)) /\ Same(mod(y) * ((w * w) * w), mod(y) * ((v * v) * v))
  BY <1>2, <1>7, SameRefl, SameTimes
<1>9. PICK ym \in Int : ym = mod(y)
  BY <1>2
<1>10. /\ x3 * (w * w) = x3 * w * w /\ x3 * (v * v) = x3 * v * v
       /\ ym * ((w * w) * w) = ym * w * w * w /\ ym * ((v * v) * v) = ym * v * v * v
  BY <1>2
<1>11. Same(x3 * w * w, c3) /\ Same(ym * w * w * w, c)
  BY <1>8, <1>9, <1>10, SameTrans
<1>12. mod(x3 * w * w) = c3 /\ mod(ym * w * w * w) = mod(c)
  BY <1>11, ResidueOf, SameEqual
<1>13. jacobian_to_affine(o) = Affine(o, w)
  BY <1>1, <1>2, <1>3, JacobianIs
<1> HIDE DEF o
<1> QED BY <1>1, <1>9, <1>12, <1>13 DEF Affine, o

\* Numbers below P that are not zero.
LEMMA SmallUnits == 1 \in Residue /\ mod(1) = 1 /\ mod(2) # 0 /\ 0 \in Residue /\ mod(0) = 0
<1>1. 1 \in Residue /\ 2 \in Residue /\ 0 \in Residue
  BY PInt DEF Residue
<1> QED BY <1>1, ResidueInt

\* The shader's doubling is the CPU's.
THEOREM DoubleAgrees ==
    ASSUME NEW p \in Jacobian, NEW a, a = jacobian_to_affine(p), a # Null => a[2] # 0
    PROVE  point_double(p) \in Jacobian /\ jacobian_to_affine(point_double(p)) = pointAdd(a, a)
<1>1. CASE p.z = 0
  <2>1. point_double(p) = p /\ a = Null
    BY <1>1, JacobianIs DEF point_double, is_infinity
  <2>2. pointAdd(Null, Null) = Null
    BY DEF pointAdd
  <2> QED BY <2>1, <2>2
<1>2. CASE p.z # 0
  <2>1. PICK X \in Int, Y \in Int, Z \in Int, w \in Int :
            /\ X = p.x /\ Y = p.y /\ Z = p.z /\ w = Inverse(p.z)
    BY <1>2, JacobianIs
  <2>2. a \in Affines /\ Same(w * Z, 1) /\ Same(a[1], X * w * w) /\ Same(a[2], Y * w * w * w)
    BY <1>2, <2>1, JacobianIs
  <2>3. PICK a1 \in Residue, a2 \in Residue : a1 = a[1] /\ a2 = a[2]
    BY <2>2, PairIs
  <2>4. a1 \in Int /\ a2 \in Int /\ a2 # 0 /\ mod(a2) = a2
    BY <2>2, <2>3, PairIs, ResidueInt
  <2>5. mod(2 * a2) # 0
    BY <2>4, SmallUnits, ProductNotZero
  <2>6. PICK kk \in Int : kk = modInv(2 * a2)
    BY <2>4, modInvAny
  <2>7. Same(kk * (2 * a2), 1)
    BY <2>4, <2>5, <2>6, modInvAny
  <2>8. mod(Y) # 0
    <3> SUFFICES ASSUME mod(Y) = 0 PROVE FALSE
      OBVIOUS
    <3>1. Same(Y, 0)
      BY ModResidue
    <3>2. PICK c \in Int : c = w * w * w
      OBVIOUS
    <3>3. Same(Y * c, 0 * c)
      BY <3>1, SameScale
    <3>4. Y * c = Y * w * w * w /\ 0 * c = 0
      BY <3>2
    <3>5. Same(a2, 0)
      BY <2>2, <2>3, <3>3, <3>4, SameTrans
    <3> QED BY <2>4, <3>5, ResiduesDiffer, SmallUnits
  <2>9. mod(Z) # 0
    BY <1>2, <2>1, JacobianIs, ResidueInt
  <2>10. mod(2 * Y * Z) # 0
    BY <2>8, <2>9, SmallUnits, ProductNotZero
  <2>11. PICK v \in Int : v = modInv(2 * Y * Z)
    BY modInvAny
  <2>12. Same(v * (2 * Y * Z), 1)
    BY <2>10, <2>11, modInvAny
  <2>13. /\ Same((3 * (X * X)) * v, 3 * a1 * a1 * kk)
         /\ Same((4 * (X * Y * Y)) * (v * v), a1)
         /\ Same((8 * Y * Y * Y * Y) * (v * v * v), a2)
    <3>1. Same(a1, X * w * w) /\ Same(a2, Y * w * w * w)
      BY <2>2, <2>3
    <3>2. OnTangent(X, Y, Z, w, a1, a2, v, kk)
      BY <2>2, <2>4, <2>7, <2>12, <3>1 DEF OnTangent
    <3> QED BY <3>2, Tangent
  <2>14. PICK xx \in Int, xyy \in Int : xx = mod(X * X) /\ xyy = mod(X * Y * Y)
    <3>1. mod(X * X) \in Int /\ mod(X * Y * Y) \in Int
      BY ModResidue, ResidueInt
    <3> QED BY <3>1
  <2>15. Same(xx, X * X) /\ Same(xyy, X * Y * Y)
    BY <2>14, ModResidue
  <2>16. PICK r \in Int, s \in Int, f \in Int : r = 3 * xx /\ s = 4 * xyy /\ f = 8 * Y * Y * Y * Y
    OBVIOUS
  <2>17. Same(r, 3 * (X * X)) /\ Same(s, 4 * (X * Y * Y))
    <3>1. Same(3, 3) /\ Same(4, 4)
      BY SameRefl
    <3>2. Same(3 * xx, 3 * (X * X)) /\ Same(4 * xyy, 4 * (X * Y * Y))
      BY <2>15, <3>1, SameTimes
    <3> QED BY <2>16, <3>2
  <2>18. PICK mm \in Residue : mm = mod(3 * a1 * a1 * kk)
    <3>1. 3 * a1 * a1 * kk \in Int
      BY <2>4
    <3> QED BY <3>1, ModResidue
  <2>19. mm \in Int /\ Same(3 * a1 * a1 * kk, mm)
    <3>1. 3 * a1 * a1 * kk \in Int
      BY <2>4
    <3> QED BY <2>18, <3>1, ModResidue, ResidueInt
  <2>20. Same(r * v, (3 * (X * X)) * v)
    BY <2>17, SameScale
  <2>21. Same(r * v, mm)
    BY <2>13, <2>19, <2>20, SameTrans
  <2>22. PICK vv \in Int : vv = v * v
    OBVIOUS
  <2>23. Same(s * vv, (4 * (X * Y * Y)) * vv)
    BY <2>17, SameScale
  <2>24. Same(s * (v * v), a1)
    BY <2>13, <2>22, <2>23, SameTrans
  <2>25. PICK x3 \in Residue : x3 = mod(r * r - 2 * s)
    BY ModResidue
  <2>26. x3 \in Int /\ Same(x3, r * r - 2 * s) /\ r * r - 2 * s = r * r - 0 - 2 * s
    BY <2>25, ModResidue, ResidueInt
  <2>27. PICK y \in Int : y = r * (s - x3) - f
    BY <2>26
  <2>28. Same(mod(y), r * (s - x3) - f)
    BY <2>27, ModResidue
  <2>29. PICK c3 \in Residue : c3 = mod(mm * mm - a1 - a1)
    <3>1. mm * mm - a1 - a1 \in Int
      BY <2>4, <2>19
    <3> QED BY <3>1, ModResidue
  <2>30. c3 \in Int /\ Same(c3, mm * mm - a1 - a1) /\ mm * mm - a1 - a1 = mm * mm - 0 - 2 * a1
    BY <2>4, <2>19, <2>29, ModResidue, ResidueInt
  <2>31. Same(0 * (v * v), 0)
    BY SameRefl
  <2>32. Same(f * (v * v * v), a2)
    BY <2>13, <2>16
  <2>33. /\ Same(x3 * v * v, c3)
         /\ Same(mod(y) * v * v * v, mm * (a1 - c3) - a2)
    <3>1. PICK e \in Int : e = 0
      OBVIOUS
    <3>2. Same(x3, r * r - e - 2 * s) /\ Same(c3, mm * mm - e - 2 * a1) /\ Same(e * (v * v), e)
      BY <2>26, <2>30, <2>31, <3>1
    <3>3. OnLine(x3, mod(y), r, e, s, f, v, mm, e, a1, a2, c3)
      BY <2>21, <2>24, <2>28, <2>32, <3>2 DEF OnLine
    <3> QED BY <3>3, ThirdPoint
  <2>34. PICK c \in Int : c = mm * (a1 - c3) - a2
    BY <2>4, <2>19, <2>30
  <2>35. PICK z \in Int : z = 2 * Y * Z
    OBVIOUS
  <2>36. Point(x3, y, z) \in Jacobian /\ jacobian_to_affine(Point(x3, y, z)) = <<c3, mod(c)>>
    BY <2>12, <2>33, <2>34, <2>35, ThirdPointAffine
  <2>37. point_double(p) = Point(x3, y, z)
    <3>1. s = 4 * mod(p.x * p.y * p.y) /\ r = 3 * mod(p.x * p.x)
      BY <2>1, <2>14, <2>16
    <3>2. y = r * (s - x3) - 8 * p.y * p.y * p.y * p.y /\ z = 2 * p.y * p.z
      BY <2>1, <2>16, <2>27, <2>35
    <3> QED BY <1>2, <2>25, <3>1, <3>2 DEF point_double, is_infinity
  <2>38. pointAdd(a, a) = <<c3, mod(c)>>
    BY <2>2, <2>3, <2>6, <2>18, <2>29, <2>34, pointAddCases
  <2> QED BY <2>36, <2>37, <2>38
<1> QED BY <1>1, <1>2

\* Coordinates are equal when their Jacobian ones, scaled by z, are.
LEMMA ScaledEqual ==
    ASSUME NEW b \in Residue, NEW q \in Residue, NEW h \in Residue,
           NEW F \in Int, NEW Fi \in Int, NEW T \in Int,
           Same(Fi * F, 1), Same(b * F, T), Same(h, q * F - T)
    PROVE  h = 0 <=> q = b
<1>1. b \in Int /\ q \in Int /\ h \in Int /\ 0 \in Residue
  BY ResidueInt, SmallUnits
<1>2. q * F \in Int /\ b * F \in Int
  BY <1>1
<1>3. ASSUME q = b PROVE h = 0
  <2>1. Same(T, T)
    BY SameRefl
  <2>2. Same(q * F - T, T - T)
    BY <1>3, <2>1, SameMinus
  <2>3. Same(h, T - T) /\ T - T = 0
    BY <2>2, SameTrans
  <2>4. Same(h, 0)
    BY <2>3
  <2> QED BY <1>1, <2>4, ResiduesDiffer
<1>4. ASSUME h = 0 PROVE q = b
  <2>1. PICK u \in Int : u = q * F - T
    BY <1>2
  <2>2. Same(u, 0)
    BY <1>4, <2>1, SameSym
  <2>3. Same(T, T)
    BY SameRefl
  <2>4. PICK d \in Int : d = 0 - T
    OBVIOUS
  <2>5. Same(d, d)
    BY SameRefl
  <2>6. Same(u - d, 0 - d)
    BY <2>2, <2>5, SameMinus
  <2>7. u - d = q * F /\ 0 - d = T
    BY <1>2, <2>1, <2>4
  <2>8. Same(q * F, b * F)
    BY <2>6, <2>7, SameSym, SameTrans
  <2>9. PICK x \in Int, y \in Int : x = q * F /\ y = b * F
    BY <1>2
  <2>10. Same(x * Fi, y * Fi)
    BY <2>8, <2>9, SameScale
  <2>11. x * Fi = q * (Fi * F) /\ y * Fi = b * (Fi * F)
    BY <1>1, <2>9
  <2>12. Same(q * (Fi * F), q) /\ Same(b * (Fi * F), b)
    BY <1>1, SameCancels
  <2>13. Same(q, b)
    BY <2>10, <2>11, <2>12, SameSym, SameTrans
  <2> QED BY <2>13, ResiduesDiffer
<1> QED BY <1>3, <1>4

\* The point at infinity of the shader is the CPU's.
LEMMA InfinityAgrees == point_infinity \in Jacobian /\ jacobian_to_affine(point_infinity) = Null
<1>1. 0 \in Residue /\ 0 \in Int /\ mod(0) = 0
  BY SmallUnits
<1>2. point_infinity \in Jacobian /\ point_infinity.z = 0
  BY <1>1, PointIs DEF point_infinity
<1> QED BY <1>2, JacobianIs

\* A point with z = 1.
LEMMA AffineAgrees ==
    ASSUME NEW q \in Affines
    PROVE  Point(q[1], q[2], 1) \in Jacobian /\ jacobian_to_affine(Point(q[1], q[2], 1)) = q
<1>1. PICK q1 \in Residue, q2 \in Residue : q1 = q[1] /\ q2 = q[2] /\ q = <<q1, q2>>
  BY PairIs
<1>2. q1 \in Int /\ q2 \in Int /\ mod(q2) = q2
  BY ResidueInt
<1>3. PICK v \in Int, z \in Int : v = 1 /\ z = 1
  OBVIOUS
<1>4. v * z = 1 /\ q1 * v * v = q1 /\ q2 * v * v * v = q2
  BY <1>2, <1>3
<1>5. Same(v * z, 1) /\ Same(q1 * v * v, q1) /\ Same(mod(q2) * v * v * v, q2)
  <2>1. Same(1, 1) /\ Same(q1, q1) /\ Same(q2, q2)
    BY <1>2, SameRefl
  <2> QED BY <1>2, <1>4, <2>1
<1>6. Point(q1, q2, z) \in Jacobian /\ jacobian_to_affine(Point(q1, q2, z)) = <<q1, mod(q2)>>
  <2>1. q2 \in Int
    BY <1>2
  <2> QED BY <1>5, <2>1, ThirdPointAffine
<1> QED BY <1>1, <1>2, <1>3, <1>6

\* The shader's addition, with a z that is not zero and two points of different x.
LEMMA ChordAgrees ==
    ASSUME NEW p \in Jacobian, p.z # 0, NEW q \in Affines, NEW a, a = jacobian_to_affine(p),
           a[1] # q[1], NEW h \in Residue, NEW r \in Residue, h # 0,
           h = mod(q[1] * p.z * p.z - p.x), r = mod(q[2] * p.z * p.z * p.z - p.y)
    PROVE  Sum(p, h, r) \in Jacobian /\ jacobian_to_affine(Sum(p, h, r)) = pointAdd(a, q)
<1>1. PICK X \in Int, Y \in Int, Z \in Int, w \in Int :
          /\ X = p.x /\ Y = p.y /\ Z = p.z /\ w = Inverse(p.z)
  BY JacobianIs
<1>2. a \in Affines /\ Same(w * Z, 1) /\ Same(a[1], X * w * w) /\ Same(a[2], Y * w * w * w)
  BY <1>1, JacobianIs
<1>3. PICK a1 \in Residue, a2 \in Residue, q1 \in Residue, q2 \in Residue :
          a1 = a[1] /\ a2 = a[2] /\ q1 = q[1] /\ q2 = q[2]
  BY <1>2, PairIs
<1>4. a1 \in Int /\ a2 \in Int /\ q1 \in Int /\ q2 \in Int /\ h \in Int /\ r \in Int
  BY ResidueInt
<1>5. q1 - a1 \in Int /\ mod(q1 - a1) # 0
  <2> SUFFICES ASSUME mod(q1 - a1) = 0 PROVE FALSE
    BY <1>4
  <2>1. PICK u \in Int : u = q1 - a1
    BY <1>4
  <2>2. Same(u, 0)
    BY <2>1, ModResidue
  <2>3. PICK d \in Int : d = 0 - a1
    BY <1>4
  <2>4. Same(d, d)
    BY SameRefl
  <2>5. Same(u - d, 0 - d)
    BY <2>2, <2>4, SameMinus
  <2>6. u - d = q1 /\ 0 - d = a1
    BY <1>4, <2>1, <2>3
  <2>7. Same(q1, a1)
    BY <2>5, <2>6
  <2> QED BY <1>3, <2>7, ResiduesDiffer
<1>6. PICK kk \in Int : kk = modInv(q1 - a1)
  BY <1>5, modInvAny
<1>7. Same(kk * (q1 - a1), 1)
  BY <1>5, <1>6, modInvAny
<1>8. mod(h) # 0 /\ mod(Z) # 0
  BY <1>1, JacobianIs, ResidueInt
<1>9. PICK z \in Int : z = h * Z
  BY <1>4
<1>10. mod(z) # 0
  BY <1>4, <1>8, <1>9, ProductNotZero
<1>11. PICK v \in Int : v = modInv(z)
  BY modInvAny
<1>12. Same(v * z, 1)
  BY <1>10, <1>11, modInvAny
<1>13. Same(h, q1 * Z * Z - X) /\ Same(r, q2 * Z * Z * Z - Y)
  <2>1. q1 * Z * Z - X \in Int /\ q2 * Z * Z * Z - Y \in Int
    BY <1>4
  <2> QED BY <1>1, <1>3, <2>1, ModResidue
<1>14. OnChord(X, Y, Z, w, a1, a2, q1, q2, h, r, v, kk)
  BY <1>2, <1>3, <1>4, <1>7, <1>9, <1>12, <1>13 DEF OnChord
<1>15. /\ Same(r * v, (q2 - a2) * kk)
       /\ Same(X * h * h * (v * v), a1)
       /\ Same(h * h * h * (v * v), q1 - a1)
       /\ Same(Y * (h * h * h) * (v * v * v), a2)
  BY <1>14, Chord
<1>16. PICK mm \in Residue : mm = mod((q2 - a2) * kk)
  <2>1. (q2 - a2) * kk \in Int
    BY <1>4
  <2> QED BY <2>1, ModResidue
<1>17. mm \in Int /\ Same(r * v, mm)
  <2>1. (q2 - a2) * kk \in Int
    BY <1>4
  <2>2. Same((q2 - a2) * kk, mm)
    BY <1>16, <2>1, ModResidue
  <2> QED BY <1>15, <2>2, SameTrans, ResidueInt
<1>18. PICK s \in Residue, e \in Residue : s = mod(p.x * h * h) /\ e = mod(h * h * h)
  <2>1. X * h * h \in Int /\ h * h * h \in Int
    BY <1>4
  <2> QED BY <1>1, <2>1, ModResidue
<1>19. s \in Int /\ e \in Int /\ Same(s, X * h * h) /\ Same(e, h * h * h)
  <2>1. X * h * h \in Int /\ h * h * h \in Int
    BY <1>4
  <2> QED BY <1>1, <1>18, <2>1, ModResidue, ResidueInt
<1>20. Same(s * (v * v), a1) /\ Same(e * (v * v), q1 - a1)
  <2>1. PICK vv \in Int : vv = v * v
    OBVIOUS
  <2>2. Same(s * vv, X * h * h * vv) /\ Same(e * vv, h * h * h * vv)
    BY <1>19, SameScale
  <2> QED BY <1>15, <2>1, <2>2, SameTrans
<1>21. PICK f \in Int : f = p.y * e
  BY <1>1, <1>19
<1>22. Same(f * (v * v * v), a2)
  <2>1. PICK c \in Int : c = Y * (v * v * v)
    OBVIOUS
  <2>2. Same(e * c, (h * h * h) * c)
    BY <1>19, SameScale
  <2>3. e * c = f * (v * v * v) /\ (h * h * h) * c = Y * (h * h * h) * (v * v * v)
    <3>1. f = Y * e
      BY <1>1, <1>21
    <3>2. e * c = f * (v * v * v)
      BY <1>19, <2>1, <3>1
    <3>3. (h * h * h) * c = Y * (h * h * h) * (v * v * v)
      BY <1>4, <2>1
    <3> QED BY <3>2, <3>3
  <2> QED BY <1>15, <2>2, <2>3, SameTrans
<1>23. PICK x3 \in Residue : x3 = mod(r * r - e - 2 * s)
  <2>1. r * r - e - 2 * s \in Int
    BY <1>4, <1>19
  <2> QED BY <2>1, ModResidue
<1>24. x3 \in Int /\ Same(x3, r * r - e - 2 * s)
  <2>1. r * r - e - 2 * s \in Int
    BY <1>4, <1>19
  <2> QED BY <1>23, <2>1, ModResidue, ResidueInt
<1>25. PICK y \in Int : y = r * (s - x3) - f
  BY <1>4, <1>19, <1>24
<1>26. Same(mod(y), r * (s - x3) - f)
  BY <1>25, ModResidue
<1>27. PICK c3 \in Residue : c3 = mod(mm * mm - a1 - q1)
  <2>1. mm * mm - a1 - q1 \in Int
    BY <1>4, <1>17
  <2> QED BY <2>1, ModResidue
<1>28. PICK g \in Int : g = q1 - a1
  BY <1>4
<1>29. c3 \in Int /\ Same(c3, mm * mm - g - 2 * a1)
  <2>1. mm * mm - a1 - q1 \in Int /\ mm * mm - a1 - q1 = mm * mm - g - 2 * a1
    BY <1>4, <1>17, <1>28
  <2>2. Same(c3, mm * mm - a1 - q1)
    BY <1>27, <2>1, ModResidue
  <2> QED BY <2>1, <2>2, ResidueInt
<1>30. OnLine(x3, mod(y), r, e, s, f, v, mm, g, a1, a2, c3)
  BY <1>4, <1>17, <1>19, <1>20, <1>22, <1>24, <1>26, <1>28, <1>29 DEF OnLine
<1>31. Same(x3 * v * v, c3) /\ Same(mod(y) * v * v * v, mm * (a1 - c3) - a2)
  BY <1>30, ThirdPoint
<1>32. PICK c \in Int : c = mm * (a1 - c3) - a2
  BY <1>4, <1>17, <1>29
<1>33. Point(x3, y, z) \in Jacobian /\ jacobian_to_affine(Point(x3, y, z)) = <<c3, mod(c)>>
  BY <1>12, <1>31, <1>32, ThirdPointAffine
<1>34. Sum(p, h, r) = Point(x3, y, z)
  <2>1. z = h * p.z
    BY <1>1, <1>9
  <2> QED BY <1>18, <1>21, <1>23, <1>25, <2>1 DEF Sum
<1>35. pointAdd(a, q) = <<c3, mod(c)>>
  BY <1>2, <1>3, <1>6, <1>16, <1>27, <1>32, pointAddCases
<1> QED BY <1>33, <1>34, <1>35

\* The shader's addition is the CPU's, whatever its case.
THEOREM AddAgrees ==
    ASSUME NEW p \in Jacobian, NEW q \in Affines, NEW a, a = jacobian_to_affine(p), q[2] # 0
    PROVE  /\ point_add_mixed(p, q) \in Jacobian
           /\ jacobian_to_affine(point_add_mixed(p, q)) = pointAdd(a, q)
<1>1. CASE p.z = 0
  <2>1. point_add_mixed(p, q) = Point(q[1], q[2], 1)
    BY <1>1 DEF point_add_mixed, is_infinity
  <2>2. a = Null /\ pointAdd(Null, q) = q
    BY <1>1, JacobianIs, pointAddCases
  <2> QED BY <2>1, <2>2, AffineAgrees
<1>2. CASE p.z # 0
  <2>1. PICK X \in Int, Y \in Int, Z \in Int, w \in Int :
            /\ X = p.x /\ Y = p.y /\ Z = p.z /\ w = Inverse(p.z)
    BY <1>2, JacobianIs
  <2>2. a \in Affines /\ Same(w * Z, 1) /\ Same(a[1], X * w * w) /\ Same(a[2], Y * w * w * w)
    BY <1>2, <2>1, JacobianIs
  <2>3. PICK a1 \in Residue, a2 \in Residue, q1 \in Residue, q2 \in Residue :
            a1 = a[1] /\ a2 = a[2] /\ q1 = q[1] /\ q2 = q[2] /\ a = <<a1, a2>> /\ q = <<q1, q2>>
    BY <2>2, PairIs
  <2>4. a1 \in Int /\ a2 \in Int /\ q1 \in Int /\ q2 \in Int
    BY ResidueInt
  <2>5. PICK h \in Residue, r \in Residue :
            h = mod(q[1] * p.z * p.z - p.x) /\ r = mod(q[2] * p.z * p.z * p.z - p.y)
    <3>1. q1 * Z * Z - X \in Int /\ q2 * Z * Z * Z - Y \in Int
      BY <2>4
    <3> QED BY <2>1, <2>3, <3>1, ModResidue
  <2>6. PICK F \in Int, Fi \in Int : F = Z * Z /\ Fi = w * w
    OBVIOUS
  <2>7. PICK E \in Int, Ei \in Int : E = Z * Z * Z /\ Ei = w * w * w
    OBVIOUS
  <2>8. Same(Fi * F, 1) /\ Same(Ei * E, 1)
    <3>1. PICK u \in Int : u = w * Z
      OBVIOUS
    <3>2. Same(u * u, 1 * 1)
      BY <2>2, <3>1, SameTimes
    <3>3. Same((u * u) * u, (1 * 1) * 1)
      BY <2>2, <3>1, <3>2, SameTimes
    <3>4. u * u = Fi * F /\ (u * u) * u = Ei * E /\ 1 * 1 = 1 /\ (1 * 1) * 1 = 1
      BY <2>6, <2>7, <3>1
    <3> QED BY <3>2, <3>3, <3>4
  <2>9. Same(a1 * F, X) /\ Same(a2 * E, Y)
    <3>1. Same(a1, X * w * w) /\ Same(a2, Y * w * w * w)
      BY <2>2, <2>3
    <3>2. Same(a1 * F, (X * w * w) * F) /\ Same(a2 * E, (Y * w * w * w) * E)
      BY <3>1, SameScale
    <3>3. (X * w * w) * F = X * (Fi * F) /\ (Y * w * w * w) * E = Y * (Ei * E)
      BY <2>6, <2>7
    <3>4. Same(X * (Fi * F), X) /\ Same(Y * (Ei * E), Y)
      BY <2>8, SameCancels
    <3> QED BY <3>2, <3>3, <3>4, SameTrans
  <2>10. Same(h, q1 * F - X) /\ Same(r, q2 * E - Y)
    <3>1. /\ q1 * Z * Z - X \in Int /\ q2 * Z * Z * Z - Y \in Int
          /\ q1 * Z * Z - X = q1 * F - X /\ q2 * Z * Z * Z - Y = q2 * E - Y
      BY <2>4, <2>6, <2>7
    <3>2. h = mod(q1 * Z * Z - X) /\ r = mod(q2 * Z * Z * Z - Y)
      BY <2>1, <2>3, <2>5
    <3>3. Same(h, q1 * Z * Z - X) /\ Same(r, q2 * Z * Z * Z - Y)
      BY <3>1, <3>2, ModResidue
    <3> QED BY <3>1, <3>3
  <2>11. h = 0 <=> q1 = a1
    BY <2>8, <2>9, <2>10, ScaledEqual
  <2>12. r = 0 <=> q2 = a2
    BY <2>8, <2>9, <2>10, ScaledEqual
  <2>13. CASE h = 0 /\ r = 0
    <3>1. point_add_mixed(p, q) = point_double(p)
      BY <1>2, <2>5, <2>13 DEF point_add_mixed, is_infinity
    <3>2. a = q
      BY <2>3, <2>11, <2>12, <2>13
    <3>3. point_double(p) \in Jacobian /\ jacobian_to_affine(point_double(p)) = pointAdd(a, a)
      BY <3>2, DoubleAgrees
    <3> QED BY <3>1, <3>2, <3>3
  <2>14. CASE h = 0 /\ r # 0
    <3>1. point_add_mixed(p, q) = point_infinity
      BY <1>2, <2>5, <2>14 DEF point_add_mixed, is_infinity
    <3>2. pointAdd(a, q) = Null
      BY <2>2, <2>3, <2>11, <2>12, <2>14, pointAddCases
    <3> QED BY <3>1, <3>2, InfinityAgrees
  <2>15. CASE h # 0
    <3>1. point_add_mixed(p, q) = Sum(p, h, r)
      BY <1>2, <2>5, <2>15 DEF point_add_mixed, is_infinity
    <3>2. a[1] # q[1]
      BY <2>3, <2>11, <2>15
    <3>3. Sum(p, h, r) \in Jacobian /\ jacobian_to_affine(Sum(p, h, r)) = pointAdd(a, q)
      BY <1>2, <2>5, <2>15, <3>2, ChordAgrees
    <3> QED BY <3>1, <3>3
  <2> QED BY <2>13, <2>14, <2>15
<1> QED BY <1>1, <1>2

-----------------------------------------------------------------------------
(* Multiples of the generator.  Stands(n) are the points by which the shader *)
(* may have the n-th one; doubling and adding take them where they should,   *)
(* so that a loop of them is followed by the numbers it stands for.          *)

\* Remainders by N.
LEMMA NInt == N \in Nat \ {0} /\ N \in Int /\ N >= 2 /\ G \in Affines
  BY CurveAssumption

\* The multiple of the generator by any number.
Mult(n) == Multiple(n % N)

LEMMA MultipleTyped ==
    /\ Multiple(0) = Null
    /\ Multiple(1) = G
    /\ \A i \in 0..N : Multiple(i) \in Affines \cup {Null}
<1> DEFINE step == [i \in 1..N |-> [p \in Affines \cup {Null} |-> pointAdd(p, G)]]
           I == [i \in 0..N |-> Affines \cup {Null}]
<1>1. \A n : Multiple(n) = Repeat(Null, step, n)
  BY DEF Multiple
<1>2. N \in Nat /\ N >= 2 /\ G \in Affines
  BY NInt
<1>3. Null \in I[0]
  BY <1>2
<1>4. \A i \in 0..(N - 1) : \A s \in I[i] : step[i + 1][s] \in I[i + 1]
  <2> SUFFICES ASSUME NEW i \in 0..(N - 1), NEW s \in I[i]
               PROVE  step[i + 1][s] \in I[i + 1]
    OBVIOUS
  <2>1. i + 1 \in 1..N /\ i + 1 \in 0..N /\ i \in 0..N
    BY <1>2
  <2>2. s \in Affines \cup {Null} /\ I[i + 1] = Affines \cup {Null}
    BY <2>1
  <2>3. step[i + 1][s] = pointAdd(s, G)
    BY <2>1, <2>2
  <2>4. pointAdd(s, G) \in Affines \cup {Null}
    BY <1>2, <2>2, pointAddTyped
  <2> QED BY <2>2, <2>3, <2>4
<1>5. \A i \in 0..N : I[i] = Affines \cup {Null}
  OBVIOUS
<1>6. 1 \in 1..N /\ step[1][Null] = pointAdd(Null, G)
  BY <1>2
<1> HIDE DEF step, I
<1>7. \A i \in 0..N : Repeat(Null, step, i) \in I[i]
  BY <1>2, <1>3, <1>4, RepeatKeeps
<1>8. Repeat(Null, step, 0) = Null /\ Repeat(Null, step, 0 + 1) = step[0 + 1][Repeat(Null, step, 0)]
  BY LoopUnfolds
<1>9. Repeat(Null, step, 1) = pointAdd(Null, G)
  BY <1>6, <1>8
<1>10. pointAdd(Null, G) = G
  BY <1>2, pointAddCases
<1> QED BY <1>1, <1>5, <1>7, <1>8, <1>9, <1>10

\* The multiples are added as their numbers are, by the assumption on the curve.
LEMMA MultAdds ==
    /\ Mult(0) = Null /\ Mult(1) = G
    /\ \A n \in Nat : /\ Mult(n) \in Affines \cup {Null}
                      /\ n % N # 0 => Mult(n) \in Affines /\ Mult(n)[2] # 0
    /\ \A m, n \in Nat : pointAdd(Mult(m), Mult(n)) = Mult(m + n)
<1>1. N \in Nat \ {0} /\ N >= 2 /\ \A n \in Nat : n % N \in 0..(N - 1) /\ n % N \in 0..N
  <2>1. N \in Nat \ {0} /\ N >= 2
    BY NInt
  <2>2. ASSUME NEW n \in Nat PROVE n % N \in 0..(N - 1)
    BY <2>1, DivMod
  <2> QED BY <2>1, <2>2
<1>2. Mult(0) = Null /\ Mult(1) = G
  <2>1. 0 % N = 0 /\ 1 % N = 1
    BY <1>1, SmallRemainder
  <2> QED BY <2>1, MultipleTyped DEF Mult
<1>3. ASSUME NEW n \in Nat
      PROVE  /\ Mult(n) \in Affines \cup {Null}
             /\ n % N # 0 => Mult(n) \in Affines /\ Mult(n)[2] # 0
  <2>1. Mult(n) \in Affines \cup {Null}
    BY <1>1, MultipleTyped DEF Mult
  <2>2. ASSUME n % N # 0 PROVE Mult(n) # Null /\ Mult(n)[2] # 0
    <3>1. n % N \in 1..(N - 1)
      BY <1>1, <2>2
    <3> QED BY <3>1, CurveAssumption DEF Mult
  <2> QED BY <2>1, <2>2
<1>4. ASSUME NEW m \in Nat, NEW n \in Nat
      PROVE  pointAdd(Mult(m), Mult(n)) = Mult(m + n)
  <2>1. pointAdd(Multiple(m % N), Multiple(n % N)) = Multiple(((m % N) + (n % N)) % N)
    BY <1>1, CurveAssumption
  <2>2. ((m % N) + (n % N)) % N = (m + n) % N
    <3>1. N \in Nat \ {0} /\ m \in Int /\ n \in Int
      BY <1>1
    <3> QED BY <3>1, RemainderOfSum
  <2> QED BY <2>1, <2>2 DEF Mult
<1> QED BY <1>2, <1>3, <1>4

\* The points the shader has for a multiple of the generator.
Stands(n) == {p \in Jacobian : jacobian_to_affine(p) = Mult(n)}

LEMMA InfinityStands == point_infinity \in Stands(0)
  BY InfinityAgrees, MultAdds DEF Stands

LEMMA DoubleStands == ASSUME NEW n \in Nat, NEW p \in Stands(n) PROVE point_double(p) \in Stands(n + n)
<1>1. p \in Jacobian /\ jacobian_to_affine(p) = Mult(n)
  BY DEF Stands
<1>2. Mult(n) # Null => Mult(n)[2] # 0
  <2> SUFFICES ASSUME Mult(n) # Null PROVE n % N # 0
    BY MultAdds
  <2> SUFFICES ASSUME n % N = 0 PROVE Mult(n) = Null
    OBVIOUS
  <2> QED BY MultipleTyped DEF Mult
<1>3. point_double(p) \in Jacobian /\ jacobian_to_affine(point_double(p)) = pointAdd(Mult(n), Mult(n))
  BY <1>1, <1>2, DoubleAgrees
<1>4. pointAdd(Mult(n), Mult(n)) = Mult(n + n)
  BY MultAdds
<1> QED BY <1>3, <1>4 DEF Stands

LEMMA AddStands ==
    ASSUME NEW n \in Nat, NEW p \in Stands(n), NEW m \in Nat, m % N # 0
    PROVE  point_add_mixed(p, Mult(m)) \in Stands(n + m)
<1>1. p \in Jacobian /\ jacobian_to_affine(p) = Mult(n)
  BY DEF Stands
<1>2. Mult(m) \in Affines /\ Mult(m)[2] # 0
  BY MultAdds
<1>3. /\ point_add_mixed(p, Mult(m)) \in Jacobian
      /\ jacobian_to_affine(point_add_mixed(p, Mult(m))) = pointAdd(Mult(n), Mult(m))
  BY <1>1, <1>2, AddAgrees
<1>4. pointAdd(Mult(n), Mult(m)) = Mult(n + m)
  BY MultAdds
<1> QED BY <1>3, <1>4 DEF Stands

LEMMA AddGStands ==
    ASSUME NEW n \in Nat, NEW p \in Stands(n)
    PROVE  point_add_mixed(p, G) \in Stands(n + 1)
<1>1. 1 % N # 0
  BY NInt, SmallRemainder
<1> QED BY <1>1, AddStands, MultAdds

\* The states of the CPU's multiplication, and its step.
Scalar == [k : Nat, r : Affines \cup {Null}, q : Affines \cup {Null}]

Halved(s) ==
    [k |-> s.k \div 2,
     r |-> IF s.k % 2 = 1 THEN pointAdd(s.r, s.q) ELSE s.r,
     q |-> pointAdd(s.q, s.q)]

LEMMA HalvedLess ==
    ASSUME NEW s \in Scalar, s.k # 0
    PROVE  /\ Halved(s) \in Scalar /\ Halved(s).k < s.k
           /\ Halved(s).k = s.k \div 2
           /\ Halved(s).r = IF s.k % 2 = 1 THEN pointAdd(s.r, s.q) ELSE s.r
           /\ Halved(s).q = pointAdd(s.q, s.q)
<1>1. s.k \in Nat /\ s.r \in Affines \cup {Null} /\ s.q \in Affines \cup {Null}
  BY DEF Scalar
<1>2. s.k \div 2 \in Nat /\ s.k \div 2 < s.k
  BY <1>1
<1>3. pointAdd(s.r, s.q) \in Affines \cup {Null} /\ pointAdd(s.q, s.q) \in Affines \cup {Null}
  BY <1>1, pointAddTyped
<1>4. Halved(s) \in Scalar
  BY <1>1, <1>2, <1>3 DEF Halved, Scalar
<1> QED BY <1>2, <1>4 DEF Halved

\* f is the recursive function of scalarMul.
Multiplier(f) == f = [s \in Scalar |-> IF s.k = 0 THEN s.r ELSE f[Halved(s)]]

LEMMA MultiplierExists == \E f : Multiplier(f)
<1> DEFINE Stop == {s \in Scalar : s.k = 0}
           next == [s \in Scalar |-> Halved(s)]
           atStop == [s \in Scalar |-> s.r]
           size == [s \in Scalar |-> s.k]
<1>1. size \in [Scalar -> Nat]
  BY DEF Scalar
<1>2. \A s \in Scalar : s \notin Stop => next[s] \in Scalar /\ size[next[s]] < size[s]
  BY HalvedLess
<1>3. \E f : While(f, Scalar, Stop, next, atStop)
  <2> HIDE DEF Stop, next, atStop, size
  <2> QED BY <1>1, <1>2, WhileExists
<1>4. PICK f : While(f, Scalar, Stop, next, atStop)
  BY <1>3
<1>5. f = [s \in Scalar |-> IF s.k = 0 THEN s.r ELSE f[Halved(s)]]
  BY <1>4 DEF While
<1> QED BY <1>5 DEF Multiplier

multiplier == CHOOSE f : Multiplier(f)

LEMMA MultiplierUnfolds ==
    /\ \A s \in Scalar : multiplier[s] = IF s.k = 0 THEN s.r ELSE multiplier[Halved(s)]
    /\ \A n : scalarMul(n) = multiplier[[k |-> n % N, r |-> Null, q |-> G]]
<1>1. Multiplier(multiplier)
  BY MultiplierExists DEF multiplier
<1>2. \A s \in Scalar : multiplier[s] = IF s.k = 0 THEN s.r ELSE multiplier[Halved(s)]
  BY <1>1 DEF Multiplier
<1>3. ASSUME NEW n PROVE scalarMul(n) = multiplier[[k |-> n % N, r |-> Null, q |-> G]]
  BY DEF scalarMul, multiplier, Multiplier, Scalar, Halved
<1> QED BY <1>2, <1>3

\* The CPU's multiplication is the multiple of the generator.
LEMMA scalarMulIs == \A n \in Nat : scalarMul(n) = Mult(n)
<1> DEFINE Good(s) == \A a, b \in Nat : s.r = Mult(a) /\ s.q = Mult(b) =>
                            multiplier[s] = Mult(a + b * s.k)
           Known == {n \in Nat : \A s \in Scalar : s.k <= n => Good(s)}
<1>1. \A s \in Scalar : s.k \in Nat
  BY DEF Scalar
<1>2. \A s \in Scalar : s.k = 0 => Good(s)
  <2> SUFFICES ASSUME NEW s \in Scalar, s.k = 0, NEW a \in Nat, NEW b \in Nat, s.r = Mult(a)
               PROVE  multiplier[s] = Mult(a + b * s.k)
    OBVIOUS
  <2>1. multiplier[s] = s.r
    BY MultiplierUnfolds
  <2>2. a + b * s.k = a
    OBVIOUS
  <2> QED BY <2>1, <2>2
<1>3. ASSUME NEW s \in Scalar, s.k # 0, Good(Halved(s)) PROVE Good(s)
  <2> SUFFICES ASSUME NEW a \in Nat, NEW b \in Nat, s.r = Mult(a), s.q = Mult(b)
               PROVE  multiplier[s] = Mult(a + b * s.k)
    OBVIOUS
  <2>1. PICK h \in Nat, e \in {0, 1} : h = s.k \div 2 /\ e = s.k % 2 /\ s.k = 2 * h + e
    BY <1>1
  <2>1a. /\ s.k # 0 /\ Halved(s) \in Scalar
         /\ Halved(s).k = s.k \div 2
         /\ Halved(s).r = IF s.k % 2 = 1 THEN pointAdd(s.r, s.q) ELSE s.r
         /\ Halved(s).q = pointAdd(s.q, s.q)
    BY <1>3, HalvedLess
  <2>2. Halved(s).k = h /\ Halved(s).q = Mult(b + b) /\ Halved(s).r = Mult(a + b * e)
    <3>1. Halved(s).q = Mult(b + b)
      <4>1. pointAdd(Mult(b), Mult(b)) = Mult(b + b)
        BY MultAdds
      <4> QED BY <2>1a, <4>1
    <3>2. CASE e = 1
      <4>1. pointAdd(Mult(a), Mult(b)) = Mult(a + b) /\ a + b * e = a + b
        <5>1. pointAdd(Mult(a), Mult(b)) = Mult(a + b)
          BY MultAdds
        <5> QED BY <3>2, <5>1
      <4>2. s.k % 2 = 1
        BY <2>1, <3>2
      <4> QED BY <2>1a, <2>1, <3>1, <4>1, <4>2
    <3>3. CASE e = 0
      <4>1. s.k % 2 # 1 /\ a + b * e = a
        BY <2>1, <3>3
      <4> QED BY <2>1a, <2>1, <3>1, <4>1
    <3> QED BY <3>2, <3>3
  <2>3. a + b * e \in Nat /\ b + b \in Nat
    BY <2>1
  <2>4. multiplier[Halved(s)] = Mult((a + b * e) + (b + b) * h)
    BY <1>3, <2>2, <2>3
  <2>5. (a + b * e) + (b + b) * h = a + b * s.k
    BY <2>1
  <2>6. multiplier[s] = multiplier[Halved(s)]
    BY <1>3, MultiplierUnfolds
  <2> QED BY <2>4, <2>5, <2>6
<1>4. \A s \in Scalar : Good(s)
  <2> HIDE DEF Good
  <2>1. 0 \in Known
    BY <1>1, <1>2
  <2>2. ASSUME NEW n \in Nat, n \in Known PROVE n + 1 \in Known
    <3> SUFFICES ASSUME NEW s \in Scalar, s.k <= n + 1 PROVE Good(s)
      OBVIOUS
    <3>1. CASE s.k = 0
      BY <1>2, <3>1
    <3>2. CASE s.k # 0
      <4>1. Halved(s) \in Scalar /\ Halved(s).k < s.k /\ s.k \in Nat /\ Halved(s).k \in Nat
        BY <1>1, <3>2, HalvedLess
      <4>2. Good(Halved(s))
        BY <2>2, <4>1
      <4> QED BY <1>3, <3>2, <4>2
    <3> QED BY <3>1, <3>2
  <2>3. Nat \subseteq Known
    <3> HIDE DEF Known
    <3> QED BY <2>1, <2>2, Induct
  <2> QED BY <1>1, <2>3
<1> SUFFICES ASSUME NEW n \in Nat PROVE scalarMul(n) = Mult(n)
  OBVIOUS
<1>5. n % N \in 0..(N - 1) /\ n % N \in Nat /\ N \in Nat \ {0}
  <2>1. N \in Nat \ {0}
    BY NInt
  <2> QED BY <2>1, DivMod
<1> DEFINE s == [k |-> n % N, r |-> Null, q |-> G]
<1>6. s \in Scalar /\ s.k = n % N /\ s.r = Mult(0) /\ s.q = Mult(1)
  BY <1>5, NInt, MultAdds DEF Scalar
<1>7. scalarMul(n) = multiplier[s]
  BY MultiplierUnfolds
<1> HIDE DEF s
<1>8. Good(s)
  BY <1>4, <1>6
<1>9. multiplier[s] = Mult(0 + 1 * s.k)
  BY <1>6, <1>8
<1>10. PICK r \in 0..(N - 1) : r = n % N
  BY <1>5
<1>11. r % N = r
  BY <1>5, SmallRemainder
<1>12. 0 + 1 * s.k = r
  BY <1>5, <1>6, <1>10
<1> QED BY <1>7, <1>9, <1>10, <1>11, <1>12 DEF Mult

\* The shader's multiplication of a scalar of no more bits than it looks at.
LEMMA scalar_mul_gStands ==
    ASSUME NEW n \in Nat, n < Power(2, KEY_BITS)
    PROVE  scalar_mul_g(n) \in Stands(n)
<1>1. KEY_BITS \in Nat /\ \A j \in Nat : Power(2, j) \in Nat \ {0} /\ Power(2, j + 1) = 2 * Power(2, j)
  <2>1. 2 \in Int /\ 2 \in Nat /\ 2 >= 2
    OBVIOUS
  <2> QED BY <2>1, CurveAssumption, PowerUnfolds, PowerGrows
<1> DEFINE step == [i \in 1..KEY_BITS |-> DoubleAndAdd(n, KEY_BITS - i)]
           HighBits(i) == n \div Power(2, KEY_BITS - i)
           I == [i \in 0..KEY_BITS |-> Stands(HighBits(i))]
<1>2. scalar_mul_g(n) = Repeat(point_infinity, step, KEY_BITS)
  BY DEF scalar_mul_g
<1>3. HighBits(0) = 0
  <2>1. KEY_BITS - 0 = KEY_BITS /\ Power(2, KEY_BITS) \in Nat \ {0}
    BY <1>1
  <2>2. n \in 0..(Power(2, KEY_BITS) - 1) /\ n = Power(2, KEY_BITS) * 0 + n
    BY <2>1
  <2>3. n \div Power(2, KEY_BITS) = 0
    BY <2>1, <2>2, RemainderIs
  <2> QED BY <2>1, <2>3
<1>4. HighBits(KEY_BITS) = n
  <2>1. KEY_BITS - KEY_BITS = 0 /\ Power(2, 0) = 1
    BY <1>1, PowerUnfolds
  <2>2. n \div 1 = n
    OBVIOUS
  <2> QED BY <2>1, <2>2
<1>5. ASSUME NEW i \in 0..(KEY_BITS - 1), NEW p \in Stands(HighBits(i))
      PROVE  step[i + 1][p] \in Stands(HighBits(i + 1))
  <2>1. PICK j \in Nat : j = KEY_BITS - (i + 1) /\ KEY_BITS - i = j + 1 /\ i + 1 \in 1..KEY_BITS
    BY <1>1
  <2>2. PICK e \in Nat \ {0} : e = Power(2, j) /\ Power(2, j + 1) = 2 * e
    BY <1>1
  <2>3. PICK h \in Nat, b \in {0, 1}, r \in 0..(e - 1) :
            /\ (n \div e) % 2 = b /\ n \div (2 * e) = h /\ n \div e = h + h + b
            /\ n % e = r /\ n % (2 * e) = e * b + r
    BY HalfOfQuotient, ZenonT(60)
  <2>4. HighBits(i) = h /\ HighBits(i + 1) = h + h + b /\ Bit(n, j) = b
    BY <2>1, <2>2, <2>3 DEF Bit
  <2>5. p \in Stands(h) /\ p \in Jacobian
    BY <2>4 DEF Stands
  <2>6. step[i + 1][p] = IF b = 1 THEN point_add_mixed(point_double(p), G) ELSE point_double(p)
    BY <2>1, <2>4, <2>5 DEF DoubleAndAdd
  <2>7. point_double(p) \in Stands(h + h)
    BY <2>5, DoubleStands
  <2>8. point_add_mixed(point_double(p), G) \in Stands(h + h + 1)
    BY <2>7, AddGStands
  <2>9. CASE b = 1
    BY <2>4, <2>6, <2>8, <2>9
  <2>10. CASE b = 0
    <3>1. h + h + b = h + h
      BY <2>10
    <3> QED BY <2>4, <2>6, <2>7, <2>10, <3>1
  <2> QED BY <2>9, <2>10
<1>6. \A i \in 0..KEY_BITS : I[i] = Stands(HighBits(i))
  OBVIOUS
<1>7. point_infinity \in I[0]
  BY <1>1, <1>3, <1>6, InfinityStands
<1>8. \A i \in 0..(KEY_BITS - 1) : \A s \in I[i] : step[i + 1][s] \in I[i + 1]
  <2>1. \A i \in 0..(KEY_BITS - 1) : i \in 0..KEY_BITS /\ i + 1 \in 0..KEY_BITS
    BY <1>1
  <2> HIDE DEF step, I, HighBits
  <2> QED BY <1>5, <1>6, <2>1
<1>9. Repeat(point_infinity, step, KEY_BITS) \in I[KEY_BITS]
  <2>1. KEY_BITS \in 0..KEY_BITS
    BY <1>1
  <2> HIDE DEF step, I, HighBits
  <2> QED BY <1>1, <1>7, <1>8, <2>1, RepeatKeeps
<1> HIDE DEF step, HighBits
<1> QED BY <1>1, <1>2, <1>4, <1>6, <1>9

-----------------------------------------------------------------------------
(* A thread: its first point, its walk and its shared inversion              *)

\* The first point of a thread: the table holds the multiples that the bits of
\* its number stand for.
LEMMA FirstPointStands ==
    ASSUME NEW t \in Thread, NEW m \in Nat \ {0}, NEW b \in Nat \ {0},
           m = params.keys, b = params.base, b + m * t < N
    PROVE  FirstPoint(t) \in Stands(b + m * t)
<1>1. /\ OFFSET_TABLE_BITS \in Nat /\ t \in Nat /\ t < TableThreads /\ TableThreads \in Nat
      /\ N \in Nat \ {0}
  BY TableAssumption, NInt DEF Thread
<1> DEFINE addEntry == [i \in 1..OFFSET_TABLE_BITS |-> [p \in Jacobian |->
                          IF Bit(t, i - 1) = 1 THEN point_add_mixed(p, offset_table(i - 1)) ELSE p]]
           LowBits(i) == m * (t % Power(2, i))
           I == [i \in 0..OFFSET_TABLE_BITS |-> Stands(LowBits(i))]
           last == Repeat(point_infinity, addEntry, OFFSET_TABLE_BITS)
<1>2. FirstPoint(t) = point_add_mixed(last, scalarMul(b))
  BY DEF FirstPoint
<1>3. LowBits(0) = 0
  <2>1. t % 1 = 0
    BY <1>1
  <2> QED BY <2>1, TwoPowers
<1>4. LowBits(OFFSET_TABLE_BITS) = m * t
  <2>1. TableThreads \in Nat \ {0} /\ t \in 0..(TableThreads - 1)
    BY <1>1
  <2>2. t % TableThreads = t
    BY <2>1, SmallRemainder
  <2> QED BY <2>2 DEF TableThreads
<1>5. ASSUME NEW i \in 0..(OFFSET_TABLE_BITS - 1), NEW p \in Stands(LowBits(i))
      PROVE  addEntry[i + 1][p] \in Stands(LowBits(i + 1))
  <2>1. i \in Nat /\ i + 1 \in 1..OFFSET_TABLE_BITS /\ (i + 1) - 1 = i
    BY <1>1
  <2>2. PICK e \in Nat \ {0} : e = Power(2, i) /\ Power(2, i + 1) = 2 * e
    BY <2>1, TwoPowers
  <2>3. PICK h \in Nat, c \in {0, 1}, r \in 0..(e - 1) :
            /\ (t \div e) % 2 = c /\ t \div (2 * e) = h /\ t \div e = h + h + c
            /\ t % e = r /\ t % (2 * e) = e * c + r
    BY <1>1, HalfOfQuotient, ZenonT(60)
  <2>4. LowBits(i) = m * r /\ LowBits(i + 1) = m * (e * c + r) /\ Bit(t, i) = c
    BY <2>2, <2>3 DEF Bit
  <2>5. p \in Stands(m * r) /\ p \in Jacobian
    BY <2>4 DEF Stands
  <2>6. addEntry[i + 1][p] = IF c = 1 THEN point_add_mixed(p, offset_table(i)) ELSE p
    <3>1. addEntry[i + 1] = [s \in Jacobian |-> IF Bit(t, i) = 1 THEN point_add_mixed(s, offset_table(i)) ELSE s]
      BY <2>1
    <3> QED BY <2>4, <2>5, <3>1
  <2>7. CASE c = 1
    <3>1. e * m \in Nat \ {0} /\ e * m <= m * t
      <4>1. e <= t
        <5> SUFFICES ASSUME t < e PROVE FALSE
          BY <1>1
        <5>1. t \in 0..(e - 1)
          BY <1>1
        <5>2. t \div e = 0
          BY <5>1, SmallRemainder
        <5> QED BY <2>3, <2>7, <5>2
      <4>2. m * e <= m * t /\ m * 1 <= m * e
        BY <1>1, <4>1, Times
      <4> QED BY <1>1, <4>2
    <3>2. PICK d \in Nat \ {0} : d = e * m
      BY <3>1
    <3>3. d \in 0..(N - 1) /\ d % N # 0
      <4>1. d \in 0..(N - 1)
        <5>1. PICK g \in Nat : g = m * t
          BY <1>1
        <5> QED BY <1>1, <3>1, <3>2, <5>1
      <4> QED BY <1>1, <3>2, <4>1, SmallRemainder
    <3>4. offset_table(i) = Mult(d)
      <4>1. d \in Nat
        BY <3>2
      <4> QED BY <2>2, <3>2, <4>1, scalarMulIs DEF offset_table
    <3>5. PICK f \in Nat : f = m * r
      OBVIOUS
    <3>6. point_add_mixed(p, Mult(d)) \in Stands(f + d)
      BY <2>5, <3>2, <3>3, <3>5, AddStands
    <3>7. f + d = m * (e * c + r)
      BY <2>7, <3>2, <3>5
    <3> QED BY <2>4, <2>6, <2>7, <3>4, <3>6, <3>7
  <2>8. CASE c = 0
    <3>1. e * c + r = r
      BY <2>8
    <3> QED BY <2>4, <2>5, <2>6, <2>8, <3>1
  <2> QED BY <2>7, <2>8
<1>6. \A i \in 0..OFFSET_TABLE_BITS : I[i] = Stands(LowBits(i))
  OBVIOUS
<1>7. point_infinity \in I[0]
  BY <1>1, <1>3, <1>6, InfinityStands
<1>8. \A i \in 0..(OFFSET_TABLE_BITS - 1) : \A s \in I[i] : addEntry[i + 1][s] \in I[i + 1]
  <2>1. \A i \in 0..(OFFSET_TABLE_BITS - 1) : i \in 0..OFFSET_TABLE_BITS /\ i + 1 \in 0..OFFSET_TABLE_BITS
    BY <1>1
  <2> HIDE DEF addEntry, I, LowBits
  <2> QED BY <1>5, <1>6, <2>1
<1>9. last \in Stands(m * t)
  <2>1. OFFSET_TABLE_BITS \in 0..OFFSET_TABLE_BITS
    BY <1>1
  <2> HIDE DEF addEntry, I, LowBits
  <2>2. last \in I[OFFSET_TABLE_BITS]
    BY <1>1, <1>7, <1>8, <2>1, RepeatKeeps
  <2> QED BY <1>4, <1>6, <2>1, <2>2
<1>10. b \in Nat /\ b % N # 0 /\ m * t \in Nat
  <2>1. PICK g \in Nat : g = m * t
    BY <1>1
  <2>2. b \in 0..(N - 1)
    BY <1>1, <2>1
  <2> QED BY <1>1, <2>1, <2>2, SmallRemainder
<1> HIDE DEF last
<1>11. point_add_mixed(last, Mult(b)) \in Stands(m * t + b)
  BY <1>9, <1>10, AddStands
<1>12. m * t + b = b + m * t /\ scalarMul(b) = Mult(b)
  BY <1>10, scalarMulIs
<1> QED BY <1>2, <1>11, <1>12

\* The points of a thread.
LEMMA WalkStands ==
    ASSUME NEW m \in Nat, NEW first \in Stands(m), NEW S \in Nat
    PROVE  \A n \in 1..S : Walk(first, S)[n] \in Stands(m + (n - 1))
<1> DEFINE addG == [i \in 1..S |-> [p \in Jacobian |-> point_add_mixed(p, G)]]
           I == [i \in 0..S |-> Stands(m + i)]
<1>1. Walk(first, S) = [n \in 1..S |-> Repeat(first, addG, n - 1)]
  BY DEF Walk
<1>2. \A i \in 0..S : I[i] = Stands(m + i)
  OBVIOUS
<1>3. first \in I[0]
  BY <1>2
<1>4. \A i \in 0..(S - 1) : \A s \in I[i] : addG[i + 1][s] \in I[i + 1]
  <2> SUFFICES ASSUME NEW i \in 0..(S - 1), NEW s \in I[i] PROVE addG[i + 1][s] \in I[i + 1]
    OBVIOUS
  <2>1. i \in 0..S /\ i + 1 \in 1..S /\ i + 1 \in 0..S /\ m + i \in Nat
    OBVIOUS
  <2>2. s \in Stands(m + i) /\ s \in Jacobian
    BY <1>2, <2>1 DEF Stands
  <2>3. addG[i + 1][s] = point_add_mixed(s, G)
    BY <2>1, <2>2
  <2>4. point_add_mixed(s, G) \in Stands((m + i) + 1)
    BY <2>1, <2>2, AddGStands
  <2>5. (m + i) + 1 = m + (i + 1)
    BY <2>1
  <2> QED BY <1>2, <2>1, <2>3, <2>4, <2>5
<1> HIDE DEF addG, I
<1>5. \A i \in 0..S : Repeat(first, addG, i) \in I[i]
  BY <1>3, <1>4, RepeatKeeps
<1>6. ASSUME NEW n \in 1..S PROVE Walk(first, S)[n] \in Stands(m + (n - 1))
  <2>1. n - 1 \in 0..S
    OBVIOUS
  <2> QED BY <1>1, <1>2, <1>5, <2>1
<1> QED BY <1>6

\* The inverses a thread shares one inversion for.
THEOREM InversesExact ==
    ASSUME NEW S \in Nat \ {0}, NEW z \in [1..S -> Residue], \A n \in 1..S : z[n] # 0
    PROVE  \A n \in 1..S : Inverses(z)[n] = Inverse(z[n])
<1> DEFINE mul == [i \in 1..S |-> [p \in Residue |-> mod(p * z[i + 1])]]
           product(n) == Repeat(z[1], mul, n - 1)
           back == [i \in 1..S |-> [v \in Residue |-> mod(v * z[S + 1 - i])]]
           u(n) == Repeat(Inverse(product(S)), back, S - n)
           I == [i \in 0..(S - 1) |-> {p \in Residue : p # 0}]
           J == [i \in 0..(S - 1) |-> {v \in Residue : Same(v * product(S - i), 1)}]
<1>1. Len(z) = S
  <2>1. z \in Seq(Residue) /\ Len(z) = S
    OBVIOUS
  <2> QED BY <2>1
<1>2. Inverses(z) = [n \in 1..S |-> IF n = 1 THEN u(1) ELSE mod(u(n) * product(n - 1))]
  BY <1>1 DEF Inverses
<1>3. \A n \in 1..S : z[n] \in Residue /\ z[n] \in Int /\ mod(z[n]) # 0
  BY ResidueInt
<1>4. \A i \in 0..(S - 1) : I[i] = {p \in Residue : p # 0}
  OBVIOUS
<1>5. \A i \in 0..(S - 1) : J[i] = {v \in Residue : Same(v * product(S - i), 1)}
  <2> HIDE DEF product
  <2> QED OBVIOUS
<1>6. ASSUME NEW i \in 1..(S - 1), NEW p \in Residue
      PROVE  mul[i][p] = mod(p * z[i + 1]) /\ back[i][p] = mod(p * z[S + 1 - i])
  OBVIOUS
<1>7. \A n \in 1..S : product(n) \in Residue /\ product(n) \in Int /\ mod(product(n)) # 0
  <2>1. z[1] \in I[0]
    BY <1>3, <1>4
  <2>2. S - 1 \in Nat
    OBVIOUS
  <2>3. \A i \in 0..((S - 1) - 1) : \A p \in I[i] : mul[i + 1][p] \in I[i + 1]
    <3> SUFFICES ASSUME NEW i \in 0..((S - 1) - 1), NEW p \in I[i] PROVE mul[i + 1][p] \in I[i + 1]
      OBVIOUS
    <3>1. i \in 0..(S - 1) /\ i + 1 \in 0..(S - 1) /\ i + 1 \in 1..(S - 1) /\ (i + 1) + 1 \in 1..S
      OBVIOUS
    <3>2. p \in Residue /\ p # 0 /\ p \in Int /\ mod(p) # 0
      BY <1>4, <3>1, ResidueInt
    <3> HIDE DEF mul, I
    <3>3. PICK y \in Int : y = z[(i + 1) + 1]
      BY <1>3, <3>1
    <3>4. mod(p * y) \in Residue /\ mod(p * y) # 0
      <4>1. mod(y) # 0 /\ p * y \in Int
        BY <1>3, <3>1, <3>2, <3>3
      <4> QED BY <3>2, <4>1, ModResidue, ProductNotZero
    <3>5. mul[i + 1][p] = mod(p * y)
      BY <1>6, <3>1, <3>2, <3>3
    <3> QED BY <1>4, <3>1, <3>4, <3>5
  <2> HIDE DEF mul, I
  <2>4. \A i \in 0..(S - 1) : Repeat(z[1], mul, i) \in I[i]
    BY <2>1, <2>2, <2>3, RepeatKeeps
  <2> SUFFICES ASSUME NEW n \in 1..S
               PROVE  product(n) \in Residue /\ product(n) \in Int /\ mod(product(n)) # 0
    OBVIOUS
  <2>5. n - 1 \in 0..(S - 1)
    OBVIOUS
  <2>6. product(n) \in Residue /\ product(n) # 0
    BY <1>4, <2>4, <2>5
  <2> HIDE DEF product
  <2> QED BY <2>6, ResidueInt
<1>8. product(1) = z[1]
  <2>1. Repeat(z[1], mul, 0) = z[1] /\ 1 - 1 = 0
    <3> HIDE DEF mul
    <3> QED BY LoopUnfolds
  <2> HIDE DEF mul
  <2> QED BY <2>1
<1>9. ASSUME NEW n \in 2..S PROVE product(n) = mod(product(n - 1) * z[n])
  <2>1. /\ n - 2 \in Nat /\ (n - 2) + 1 = n - 1 /\ n - 1 \in 1..S /\ n - 1 \in 1..(S - 1)
        /\ (n - 1) - 1 = n - 2
        /\ (n - 1) + 1 = n
    OBVIOUS
  <2>2. Repeat(z[1], mul, (n - 2) + 1) = mul[(n - 2) + 1][Repeat(z[1], mul, n - 2)]
    <3>1. n - 2 \in Nat
      OBVIOUS
    <3> HIDE DEF mul
    <3> QED BY <3>1, LoopUnfolds, ZenonT(60)
  <2>3. product(n) = mul[n - 1][product(n - 1)]
    <3> HIDE DEF mul
    <3> QED BY <2>1, <2>2
  <2>4. product(n - 1) \in Residue
    BY <1>7, <2>1
  <2> HIDE DEF mul, product
  <2> QED BY <1>6, <2>1, <2>3, <2>4
<1>10. ASSUME NEW n \in 2..S
       PROVE  Same(product(n - 1) * z[n], product(n)) /\ product(n - 1) \in Int /\ product(n) \in Int
  <2>1. n - 1 \in 1..S /\ n \in 1..S
    OBVIOUS
  <2> HIDE DEF mul, product
  <2>2. product(n - 1) \in Int /\ product(n) \in Int
    BY <1>7, <2>1
  <2>3. PICK d \in Int : d = product(n - 1) * z[n]
    BY <1>3, <2>1, <2>2
  <2> QED BY <1>9, <2>2, <2>3, ModResidue
<1> HIDE DEF product
<1>11. \A n \in 1..S : u(n) \in Residue /\ u(n) \in Int /\ Same(u(n) * product(n), 1)
  <2> DEFINE first == Inverse(product(S))
  <2>1. S \in 1..S /\ S - 0 = S /\ 0 \in 0..(S - 1) /\ S - 1 \in Nat
    OBVIOUS
  <2>2. first \in J[0]
    <3>1. product(S) \in Residue /\ product(S) # 0
      <4>1. product(S) \in Residue /\ mod(product(S)) # 0
        BY <1>7, <2>1
      <4> QED BY <4>1, ResidueInt
    <3> HIDE DEF J
    <3> QED BY <1>5, <2>1, <3>1, InverseIs
  <2>3. \A i \in 0..((S - 1) - 1) : \A v \in J[i] : back[i + 1][v] \in J[i + 1]
    <3> SUFFICES ASSUME NEW i \in 0..((S - 1) - 1), NEW v \in J[i] PROVE back[i + 1][v] \in J[i + 1]
      OBVIOUS
    <3> HIDE DEF J, back, mul, first
    <3>1. i \in 0..(S - 1) /\ i + 1 \in 0..(S - 1) /\ i + 1 \in 1..(S - 1)
      OBVIOUS
    <3>2. PICK n \in 2..S : n = S - i /\ S + 1 - (i + 1) = n /\ n - 1 = S - (i + 1)
      <4>1. S - i \in 2..S /\ S + 1 - (i + 1) = S - i /\ (S - i) - 1 = S - (i + 1)
        OBVIOUS
      <4> QED BY <4>1
    <3>3. v \in Residue /\ v \in Int /\ Same(v * product(n), 1)
      BY <1>5, <3>1, <3>2, ResidueInt
    <3>4. PICK y \in Int, a \in Int, b \in Int : y = z[n] /\ a = product(n - 1) /\ b = product(n)
      <4>1. n \in 1..S
        OBVIOUS
      <4> QED BY <1>3, <1>10, <4>1
    <3>5. back[i + 1][v] = mod(v * y)
      BY <1>6, <3>1, <3>2, <3>3, <3>4
    <3>6. Same(a * y, b)
      BY <1>10, <3>4
    <3>7. Same(mod(v * y) * a, 1) /\ mod(v * y) \in Residue
      <4>1. PICK w \in Int : w = v * y
        BY <3>3
      <4>2. Same(mod(w), w) /\ mod(w) \in Residue
        BY ModResidue
      <4>3. Same(mod(w) * a, w * a)
        BY <4>2, SameScale
      <4>4. Same((a * y) * v, b * v)
        BY <3>3, <3>6, SameScale
      <4>5. w * a = (a * y) * v /\ b * v = v * b
        BY <3>3, <4>1
      <4>6. Same(v * b, 1)
        BY <3>3, <3>4
      <4> QED BY <4>1, <4>2, <4>3, <4>4, <4>5, <4>6, SameTrans
    <3> QED BY <1>5, <3>1, <3>2, <3>4, <3>5, <3>7
  <2> HIDE DEF J, back
  <2>4. \A i \in 0..(S - 1) : Repeat(first, back, i) \in J[i]
    <3> HIDE DEF first
    <3> QED BY <2>1, <2>2, <2>3, RepeatKeeps
  <2> SUFFICES ASSUME NEW n \in 1..S
               PROVE  u(n) \in Residue /\ u(n) \in Int /\ Same(u(n) * product(n), 1)
    OBVIOUS
  <2>5. S - n \in 0..(S - 1) /\ S - (S - n) = n
    OBVIOUS
  <2>6. u(n) \in J[S - n]
    BY <2>4, <2>5
  <2> HIDE DEF u
  <2> QED BY <1>5, <2>5, <2>6, ResidueInt
<1> HIDE DEF u, J, I, mul, back
<1> SUFFICES ASSUME NEW n \in 1..S PROVE Inverses(z)[n] = Inverse(z[n])
  OBVIOUS
<1>12. PICK v \in Residue, y \in Residue : v = Inverses(z)[n] /\ y = z[n] /\ Same(v * y, 1)
  <2>1. CASE n = 1
    BY <1>2, <1>3, <1>8, <1>11, <2>1
  <2>2. CASE n # 1
    <3>1. n \in 2..S /\ n - 1 \in 1..S
      BY <2>2
    <3>2. PICK y \in Int, a \in Int, b \in Int, c \in Int :
              y = z[n] /\ a = product(n - 1) /\ b = product(n) /\ c = u(n)
      BY <1>3, <1>10, <1>11, <3>1
    <3>3. Inverses(z)[n] = mod(c * a)
      BY <1>2, <2>2, <3>2
    <3>4. Same(a * y, b) /\ Same(c * b, 1)
      BY <1>10, <1>11, <3>1, <3>2
    <3>5. PICK w \in Int : w = c * a
      OBVIOUS
    <3>6. mod(w) \in Residue /\ Same(mod(w), w)
      BY ModResidue
    <3>7. Same(mod(w) * y, w * y)
      BY <3>6, SameScale
    <3>8. Same((a * y) * c, b * c)
      BY <3>4, SameScale
    <3>9. w * y = (a * y) * c /\ b * c = c * b
      BY <3>5
    <3>10. Same(mod(w) * y, 1)
      BY <3>4, <3>7, <3>8, <3>9, SameTrans
    <3> QED BY <1>3, <3>2, <3>3, <3>5, <3>6, <3>10
  <2> QED BY <2>1, <2>2
<1>13. y # 0 /\ y \in Int /\ v \in Int
  BY <1>12, ResidueInt
<1>14. Inverse(y) \in Residue /\ Inverse(y) \in Int /\ Same(Inverse(y) * y, 1)
  BY <1>13, InverseIs
<1>15. Same(v, Inverse(y))
  BY <1>12, <1>13, <1>14, SameInverse
<1> QED BY <1>12, <1>14, <1>15, ResiduesDiffer

\* A thread hashes the keys of its place, as the CPU does.
LEMMA HashesExact ==
    ASSUME NEW t \in Thread, NEW m \in Nat \ {0}, NEW b \in Nat \ {0}, NEW S \in Nat \ {0},
           m = params.keys, b = params.base, S = AtMost(KEYS_PER_THREAD, m), b + m * t + (S - 1) < N
    PROVE  Hashes(t) = [n \in 1..S |-> privToPkh(b + m * t + (n - 1))]
<1>1. N \in Nat /\ t \in Nat /\ b + m * t \in Nat \ {0} /\ b + m * t < N
  <2>1. t \in Nat /\ N \in Nat
    BY TableAssumption, NInt DEF Thread
  <2>2. PICK g \in Nat : g = m * t
    BY <2>1
  <2>3. b + g + (S - 1) < N /\ b + m * t = b + g
    BY <2>2
  <2>4. b + g \in Nat \ {0} /\ b + g < N
    BY <2>1, <2>3
  <2> QED BY <2>1, <2>3, <2>4
<1> DEFINE points == Walk(FirstPoint(t), S)
           z == [n \in 1..S |-> points[n].z]
           inverses == Inverses(z)
<1>2. Hashes(t) = [n \in 1..S |-> HashOf(Affine(points[n], inverses[n]))]
  BY DEF Hashes
<1>3. PICK a \in Nat \ {0} : a = b + m * t
  BY <1>1
<1>4. FirstPoint(t) \in Stands(a)
  BY <1>1, <1>3, FirstPointStands
<1>5. \A n \in 1..S : points[n] \in Stands(a + (n - 1))
  BY <1>4, WalkStands
<1> HIDE DEF points
<1>6. \A n \in 1..S : /\ points[n] \in Jacobian /\ points[n].z \in Residue /\ points[n].z # 0
                      /\ jacobian_to_affine(points[n]) = Mult(a + (n - 1))
  <2> SUFFICES ASSUME NEW n \in 1..S
               PROVE  /\ points[n] \in Jacobian /\ points[n].z \in Residue /\ points[n].z # 0
                      /\ jacobian_to_affine(points[n]) = Mult(a + (n - 1))
    OBVIOUS
  <2>1. points[n] \in Jacobian /\ jacobian_to_affine(points[n]) = Mult(a + (n - 1))
    BY <1>5 DEF Stands
  <2>2. PICK c \in Nat : c = a + (n - 1)
    OBVIOUS
  <2>3. c \in 0..(N - 1) /\ c # 0 /\ N \in Nat \ {0}
    BY <1>1, <1>3, <2>2, NInt
  <2>4. c % N # 0
    BY <2>3, SmallRemainder
  <2>5. Mult(c) \in Affines
    BY <2>4, MultAdds
  <2>6. Mult(c) # Null
    BY <2>5, PairIs
  <2> QED BY <2>1, <2>2, <2>6, JacobianIs
<1>7. z \in [1..S -> Residue] /\ \A n \in 1..S : z[n] # 0 /\ z[n] = points[n].z
  BY <1>6
<1> HIDE DEF z
<1>8. \A n \in 1..S : inverses[n] = Inverse(points[n].z)
  BY <1>7, InversesExact
<1> HIDE DEF inverses
<1>9. ASSUME NEW n \in 1..S
      PROVE  HashOf(Affine(points[n], inverses[n])) = privToPkh(b + m * t + (n - 1))
  <2>1. Affine(points[n], inverses[n]) = Mult(a + (n - 1))
    BY <1>6, <1>8, JacobianIs
  <2>2. a + (n - 1) \in Nat
    OBVIOUS
  <2>3. scalarMul(a + (n - 1)) = Mult(a + (n - 1))
    BY <2>2, scalarMulIs
  <2> QED BY <1>3, <2>1, <2>3 DEF privToPkh
<1> QED BY <1>2, <1>9

-----------------------------------------------------------------------------
(* A dispatch, for any number of threads, keys of a thread, slots and hits. *)
(* A slot below the counter either belongs to one thread that is storing,  *)
(* or holds a hit; and a hit that was compared holds a slot that nobody    *)
(* stores to, unless the counter has passed the slots.                     *)

Slot == 0..(MAX_HITS - 1)
Cell == Nat \cup {Unwritten}
Storing(t) == pc[t] \in {"thread", "offset"}

TypeInv ==
    /\ Thread \subseteq Nat
    /\ found_count \in Nat
    /\ results \in [Slot -> [thread_id : Cell, key_offset : Cell]]
    /\ pc \in [Thread -> {"start", "compare", "thread", "offset", "done"}]
    /\ k \in [Thread -> Nat \ {0}]
    /\ idx \in [Thread -> Nat]
    /\ DOMAIN pkhs = Thread
    /\ params.keys \in Nat

\* What a thread has compared.
ThreadInv ==
    \A t \in Thread :
        /\ \E n \in Nat : DOMAIN pkhs[t] = 1..n
        /\ pc[t] = "start" => DOMAIN pkhs[t] = {} /\ k[t] = 1
        /\ pc[t] = "done" => k[t] \notin DOMAIN pkhs[t]

\* What a thread that is storing has.
OwnerInv ==
    \A t \in Thread : Storing(t) =>
        /\ idx[t] < found_count /\ idx[t] \in Slot
        /\ k[t] \in HitsOf(t)
        /\ pc[t] = "offset" => results[idx[t]].thread_id = t
        /\ \A u \in Thread : u # t /\ Storing(u) => idx[u] # idx[t]

Owned(i) == \E t \in Thread : Storing(t) /\ idx[t] = i
Holds(i, t, j) == results[i] = [thread_id |-> t, key_offset |-> j - 1]

SlotInv ==
    \A i \in Slot : i < found_count =>
        Owned(i) \/ \E t \in Thread : \E j \in HitsOf(t) : Holds(i, t, j)

KeptInv ==
    found_count <= MAX_HITS =>
        \A t \in Thread : \A j \in HitsOf(t) : j < k[t] =>
            \E i \in Slot : i < found_count /\ ~Owned(i) /\ Holds(i, t, j)

IInv == TypeInv /\ ThreadInv /\ OwnerInv /\ SlotInv /\ KeptInv

-----------------------------------------------------------------------------

LEMMA KeysNat ==
    ASSUME NEW d \in 1..MAX_KEYS_PER_DISPATCH
    PROVE  KeysPerThread(d) \in Nat
<1>1. WORKGROUP_SIZE \in Nat \ {0} /\ KEYS_PER_THREAD \in Nat \ {0} /\ d \in Nat
  BY SizeAssumption
<1>2. CeilDiv(d, WORKGROUP_SIZE) \in Int
  BY <1>1 DEF CeilDiv
<1>3. AtMost(KEYS_PER_THREAD, CeilDiv(d, WORKGROUP_SIZE)) \in Int
  BY <1>1, <1>2 DEF AtMost
<1>4. AtLeast(1, AtMost(KEYS_PER_THREAD, CeilDiv(d, WORKGROUP_SIZE))) \in Nat
  BY <1>3 DEF AtLeast
<1> QED BY <1>1, <1>4 DEF KeysPerThread

LEMMA InitInv == Init => IInv
<1> SUFFICES ASSUME Init PROVE IInv
  OBVIOUS
<1>1. TypeInv
  <2>1. Thread \subseteq Nat
    BY TableAssumption DEF Thread
  <2>2. params.keys \in Nat
    BY KeysNat DEF Init
  <2>3. results \in [Slot -> [thread_id : Cell, key_offset : Cell]]
    BY DEF Init, Slot, Cell
  <2> QED BY <2>1, <2>2, <2>3 DEF Init, TypeInv
<1>2. \A t \in Thread : pkhs[t] = <<>> /\ DOMAIN pkhs[t] = {} /\ DOMAIN pkhs[t] = 1..0
  BY DEF Init
<1>3. ThreadInv
  BY <1>2 DEF Init, ThreadInv
<1>4. OwnerInv /\ SlotInv
  BY DEF Init, OwnerInv, SlotInv, Storing, Slot
<1>5. KeptInv
  BY <1>2 DEF KeptInv, HitsOf
<1> QED BY <1>1, <1>3, <1>4, <1>5 DEF IInv

\* The hits of a thread are hits for good.
LEMMA HitsStay ==
    ASSUME UNCHANGED <<params, pkhs>>
    PROVE  \A t \in Thread : HitsOf(t)' = HitsOf(t)
  BY DEF HitsOf

LEMMA HitsAreNat ==
    ASSUME ThreadInv, NEW t \in Thread, NEW j \in HitsOf(t)
    PROVE  j \in Nat \ {0}
  BY DEF ThreadInv, HitsOf

LEMMA ComputeInv == ASSUME IInv, NEW t \in Thread, Compute(t) PROVE IInv'
<1> USE DEF IInv
<1>1. TypeInv'
  BY DEF Compute, TypeInv
<1>2. \A u \in Thread : u # t => /\ pkhs'[u] = pkhs[u] /\ HitsOf(u)' = HitsOf(u)
                                /\ pc'[u] = pc[u]
  BY DEF Compute, TypeInv, HitsOf
<1>3. pkhs'[t] = Hashes(t) /\ pc'[t] = "compare" /\ k[t] = 1 /\ HitsOf(t) = {}
  BY DEF Compute, TypeInv, ThreadInv, HitsOf
<1>4. \E n \in Nat : DOMAIN Hashes(t) = 1..n
  <2>1. AtMost(KEYS_PER_THREAD, params.keys) \in Nat
    BY SizeAssumption DEF AtMost, TypeInv
  <2> QED BY <2>1 DEF Hashes
<1>5. ThreadInv'
  BY <1>2, <1>3, <1>4 DEF Compute, ThreadInv
<1>6. \A u \in Thread : Storing(u)' <=> Storing(u)
  BY <1>2, <1>3 DEF Compute, Storing
<1>7. ~Storing(t)
  BY DEF Compute, Storing
<1>8. OwnerInv'
  BY <1>2, <1>6, <1>7 DEF Compute, OwnerInv
<1>9. \A i : Owned(i)' <=> Owned(i)
  BY <1>6 DEF Compute, Owned
<1>10. SlotInv'
  BY <1>2, <1>3, <1>9 DEF Compute, SlotInv, Holds
<1>11. KeptInv'
  <2> SUFFICES ASSUME found_count <= MAX_HITS,
                      NEW u \in Thread, NEW j \in HitsOf(u)', j < k[u]
               PROVE  \E i \in Slot : i < found_count /\ ~Owned(i)' /\ Holds(i, u, j)'
    BY DEF Compute, KeptInv
  <2>1. u # t
    <3>1. ThreadInv' /\ t \in Thread
      BY <1>5
    <3>2. \A l \in HitsOf(t)' : ~(l < 1)
      BY <3>1, HitsAreNat DEF ThreadInv, HitsOf
    <3> QED BY <1>3, <3>2
  <2> QED BY <1>2, <1>9, <2>1 DEF Compute, KeptInv, Holds
<1> QED BY <1>1, <1>5, <1>8, <1>10, <1>11

LEMMA HitInv == ASSUME IInv, NEW t \in Thread, Hit(t) PROVE IInv'
<1> USE DEF IInv
<1>0. /\ MAX_HITS \in Nat /\ ~Storing(t) /\ k[t] \in HitsOf(t) /\ pc[t] = "compare"
      /\ \A u \in Thread : HitsOf(u)' = HitsOf(u)
  BY KernelAssumption, HitsStay DEF Hit, Storing, HitsOf
<1>1. TypeInv'
  BY DEF Hit, TypeInv, Compared
<1>2. ThreadInv'
  BY DEF Hit, ThreadInv, Compared, TypeInv
<1>3. CASE found_count < MAX_HITS
  <2>1. /\ pc' = [pc EXCEPT ![t] = "thread"] /\ idx' = [idx EXCEPT ![t] = found_count]
        /\ found_count' = found_count + 1
        /\ UNCHANGED <<params, results, pkhs, k>>
    BY <1>3 DEF Hit
  <2>2. \A u \in Thread : u # t => /\ Storing(u)' <=> Storing(u)
                                  /\ idx'[u] = idx[u] /\ pc'[u] = pc[u]
    BY <2>1 DEF Storing, TypeInv
  <2>3. Storing(t)' /\ idx'[t] = found_count /\ pc'[t] = "thread" /\ found_count \in Slot
    BY <1>0, <1>3, <2>1 DEF Storing, TypeInv, Slot
  <2>4. OwnerInv'
    <3> SUFFICES ASSUME NEW u \in Thread, Storing(u)'
                 PROVE  /\ idx'[u] < found_count' /\ idx'[u] \in Slot
                        /\ k[u] \in HitsOf(u)
                        /\ pc'[u] = "offset" => results[idx'[u]].thread_id = u
                        /\ \A v \in Thread : v # u /\ Storing(v)' => idx'[v] # idx'[u]
      BY <1>0, <2>1 DEF OwnerInv
    <3>1. \A v \in Thread : v # t /\ Storing(v)' => idx'[v] < found_count /\ idx'[v] \in Nat
      BY <2>2 DEF OwnerInv, TypeInv
    <3>2. CASE u = t
      BY <1>0, <2>1, <2>3, <3>1, <3>2 DEF TypeInv
    <3>3. CASE u # t
      BY <2>1, <2>2, <2>3, <3>1, <3>3 DEF OwnerInv, TypeInv
    <3> QED BY <3>2, <3>3
  <2>5. \A i \in Slot : i < found_count => (Owned(i)' <=> Owned(i))
    BY <1>0, <2>2, <2>3 DEF Owned, Slot, TypeInv
  <2>6. \A i : i = found_count => Owned(i)'
    BY <2>3 DEF Owned
  <2>7. SlotInv'
    <3> SUFFICES ASSUME NEW i \in Slot, i < found_count'
                 PROVE  (Owned(i) \/ \E u \in Thread : \E j \in HitsOf(u) : Holds(i, u, j))'
      BY DEF SlotInv
    <3>1. i < found_count \/ i = found_count
      BY <2>1 DEF Slot, TypeInv
    <3>2. CASE i < found_count
      BY <1>0, <2>1, <2>5, <3>2 DEF SlotInv, Holds
    <3> QED BY <2>6, <3>1, <3>2
  <2>8. KeptInv'
    <3> SUFFICES ASSUME NEW u \in Thread, NEW j \in HitsOf(u), j < k[u]
                 PROVE  \E i \in Slot : i < found_count' /\ ~Owned(i)' /\ Holds(i, u, j)
      BY <1>0, <2>1 DEF KeptInv, Holds
    <3>1. PICK i \in Slot : i < found_count /\ ~Owned(i) /\ Holds(i, u, j)
      BY <1>3, <1>0 DEF KeptInv, TypeInv
    <3>2. i < found_count'
      BY <1>0, <2>1, <3>1 DEF Slot, TypeInv
    <3> QED BY <2>5, <3>1, <3>2
  <2> QED BY <1>1, <1>2, <2>4, <2>7, <2>8
<1>4. CASE ~(found_count < MAX_HITS)
  <2>1. /\ k' = [k EXCEPT ![t] = @ + 1] /\ idx' = [idx EXCEPT ![t] = found_count]
        /\ found_count' = found_count + 1
        /\ UNCHANGED <<params, results, pkhs, pc>>
    BY <1>4 DEF Hit, Compared
  <2>2. \A u \in Thread : /\ Storing(u)' <=> Storing(u)
                          /\ Storing(u) => u # t /\ idx'[u] = idx[u] /\ k'[u] = k[u]
    BY <1>0, <2>1 DEF Storing, TypeInv
  <2>3. OwnerInv'
    BY <1>0, <2>1, <2>2 DEF OwnerInv, TypeInv, Slot
  <2>4. \A i : Owned(i)' <=> Owned(i)
    BY <2>2 DEF Owned
  <2>5. \A i \in Slot : i < found_count
    BY <1>0, <1>4 DEF Slot, TypeInv
  <2>6. SlotInv'
    BY <1>0, <2>1, <2>4, <2>5 DEF SlotInv, Holds
  <2>7. KeptInv'
    BY <1>0, <1>4, <2>1 DEF KeptInv, TypeInv
  <2> QED BY <1>1, <1>2, <2>3, <2>6, <2>7
<1> QED BY <1>3, <1>4

\* Steps that leave the counter, the slots and their owners alone.
LEMMA MissInv == ASSUME IInv, NEW t \in Thread, Miss(t) PROVE IInv'
<1> USE DEF IInv
<1>1. /\ ~Storing(t) /\ k[t] \notin HitsOf(t)
      /\ k' = [k EXCEPT ![t] = @ + 1]
      /\ UNCHANGED <<params, found_count, results, pc, pkhs, idx>>
      /\ \A u \in Thread : HitsOf(u)' = HitsOf(u)
  BY HitsStay DEF Miss, Compared, Storing, HitsOf
<1>2. TypeInv'
  BY <1>1 DEF TypeInv
<1>3. ThreadInv'
  BY <1>1, ZenonT(60) DEF Miss, ThreadInv, TypeInv
<1>4. \A u \in Thread : /\ Storing(u)' <=> Storing(u)
                        /\ Storing(u) => k'[u] = k[u]
  BY <1>1 DEF Storing, TypeInv
<1>5. OwnerInv'
  BY <1>1, <1>4 DEF OwnerInv
<1>6. \A i : Owned(i)' <=> Owned(i)
  BY <1>1, <1>4 DEF Owned
<1>7. SlotInv'
  BY <1>1, <1>6 DEF SlotInv, Holds
<1>8. \A u \in Thread : \A j \in HitsOf(u) : j < k'[u] => j < k[u]
  BY <1>1, HitsAreNat DEF TypeInv
<1>9. KeptInv'
  BY <1>1, <1>6, <1>8 DEF KeptInv, Holds
<1> QED BY <1>2, <1>3, <1>5, <1>7, <1>9

LEMMA StoreThreadInv == ASSUME IInv, NEW t \in Thread, StoreThread(t) PROVE IInv'
<1> USE DEF IInv
<1>1. /\ Storing(t) /\ idx[t] \in Slot
      /\ results' = [results EXCEPT ![idx[t]].thread_id = t]
      /\ pc' = [pc EXCEPT ![t] = "offset"]
      /\ UNCHANGED <<params, found_count, pkhs, k, idx>>
      /\ \A u \in Thread : HitsOf(u)' = HitsOf(u)
  BY HitsStay DEF StoreThread, Storing, OwnerInv
<1>2. TypeInv'
  <2>1. t \in Cell
    BY DEF TypeInv, Cell
  <2>2. results' \in [Slot -> [thread_id : Cell, key_offset : Cell]]
    BY <1>1, <2>1 DEF TypeInv
  <2> QED BY <1>1, <2>2 DEF TypeInv
<1>3. ThreadInv'
  BY <1>1 DEF StoreThread, ThreadInv, TypeInv
<1>4. \A u \in Thread : Storing(u)' <=> Storing(u)
  BY <1>1 DEF Storing, TypeInv
<1>5. \A i : Owned(i)' <=> Owned(i)
  BY <1>1, <1>4 DEF Owned
<1>6. results'[idx[t]].thread_id = t /\ \A i \in Slot : i # idx[t] => results'[i] = results[i]
  BY <1>1 DEF TypeInv
<1>7. OwnerInv'
  <2> SUFFICES ASSUME NEW u \in Thread, Storing(u), pc'[u] = "offset"
               PROVE  results'[idx[u]].thread_id = u
    BY <1>1, <1>4 DEF OwnerInv
  <2>1. CASE u = t
    BY <1>6, <2>1
  <2>2. CASE u # t
    BY <1>1, <1>6, <2>2 DEF OwnerInv, TypeInv
  <2> QED BY <2>1, <2>2
<1>8. Owned(idx[t])
  BY <1>1 DEF Owned
<1>9. SlotInv'
  BY <1>1, <1>5, <1>6, <1>8 DEF SlotInv, Holds
<1>10. KeptInv'
  BY <1>1, <1>5, <1>6, <1>8 DEF KeptInv, Holds
<1> QED BY <1>2, <1>3, <1>7, <1>9, <1>10

LEMMA StoreOffsetInv == ASSUME IInv, NEW t \in Thread, StoreOffset(t) PROVE IInv'
<1> USE DEF IInv
<1>1. /\ Storing(t) /\ idx[t] \in Slot /\ idx[t] < found_count /\ pc[t] = "offset"
      /\ results[idx[t]].thread_id = t /\ k[t] \in HitsOf(t)
      /\ results' = [results EXCEPT ![idx[t]].key_offset = k[t] - 1]
      /\ pc' = [pc EXCEPT ![t] = "compare"]
      /\ k' = [k EXCEPT ![t] = @ + 1]
      /\ UNCHANGED <<params, found_count, pkhs, idx>>
      /\ \A u \in Thread : HitsOf(u)' = HitsOf(u)
  BY HitsStay DEF StoreOffset, Storing, OwnerInv, Compared
<1>2. k[t] \in Nat \ {0} /\ k[t] - 1 \in Cell
  BY DEF TypeInv, Cell
<1>3. TypeInv'
  <2>1. results' \in [Slot -> [thread_id : Cell, key_offset : Cell]]
    BY <1>1, <1>2 DEF TypeInv
  <2> QED BY <1>1, <2>1 DEF TypeInv
<1>4. ThreadInv'
  BY <1>1 DEF ThreadInv, TypeInv
<1>5. \A u \in Thread : /\ Storing(u)' <=> Storing(u) /\ u # t
                        /\ u # t => pc'[u] = pc[u] /\ k'[u] = k[u]
  BY <1>1 DEF Storing, TypeInv
<1>6. /\ results'[idx[t]] = [thread_id |-> t, key_offset |-> k[t] - 1]
      /\ \A i \in Slot : i # idx[t] => results'[i] = results[i]
  BY <1>1, <1>2 DEF TypeInv
<1>7. OwnerInv'
  BY <1>1, <1>5, <1>6 DEF OwnerInv
<1>8. ~Owned(idx[t])' /\ \A i : i # idx[t] => (Owned(i)' <=> Owned(i))
  BY <1>1, <1>5 DEF Owned, OwnerInv
<1>9. k'[t] = k[t] + 1
  BY <1>1 DEF TypeInv
<1>10. SlotInv'
  <2> SUFFICES ASSUME NEW i \in Slot, i < found_count
               PROVE  Owned(i)' \/ \E u \in Thread : \E j \in HitsOf(u) :
                          results'[i] = [thread_id |-> u, key_offset |-> j - 1]
    BY <1>1 DEF SlotInv, Holds
  <2>1. CASE i = idx[t]
    BY <1>1, <1>6, <2>1
  <2>2. CASE i # idx[t]
    BY <1>6, <1>8, <2>2 DEF SlotInv, Holds
  <2> QED BY <2>1, <2>2
<1>11. KeptInv'
  <2> SUFFICES ASSUME found_count <= MAX_HITS,
                      NEW u \in Thread, NEW j \in HitsOf(u), j < k'[u]
               PROVE  \E i \in Slot : /\ i < found_count /\ ~Owned(i)'
                                      /\ results'[i] = [thread_id |-> u, key_offset |-> j - 1]
    BY <1>1 DEF KeptInv, Holds
  <2>1. CASE u = t /\ j = k[t]
    BY <1>1, <1>6, <1>8, <2>1
  <2>2. CASE ~(u = t /\ j = k[t])
    <3>1. j < k[u]
      BY <1>2, <1>5, <1>9, <2>2, HitsAreNat DEF TypeInv
    <3>2. PICK i \in Slot : i < found_count /\ ~Owned(i) /\ Holds(i, u, j)
      BY <3>1 DEF KeptInv
    <3>3. i # idx[t]
      BY <1>1, <3>2 DEF Owned
    <3> QED BY <1>6, <1>8, <3>2, <3>3 DEF Holds
  <2> QED BY <2>1, <2>2
<1> QED BY <1>3, <1>4, <1>7, <1>10, <1>11

LEMMA ReturnInv == ASSUME IInv, NEW t \in Thread, Return(t) PROVE IInv'
<1> USE DEF IInv
<1>1. /\ ~Storing(t) /\ k[t] \notin DOMAIN pkhs[t]
      /\ pc' = [pc EXCEPT ![t] = "done"]
      /\ UNCHANGED <<params, found_count, results, pkhs, k, idx>>
      /\ \A u \in Thread : HitsOf(u)' = HitsOf(u)
  BY HitsStay DEF Return, Storing
<1>2. \A u \in Thread : /\ Storing(u)' <=> Storing(u)
                        /\ Storing(u) => pc'[u] = pc[u]
  BY <1>1 DEF Storing, TypeInv
<1>3. TypeInv' /\ ThreadInv'
  BY <1>1 DEF TypeInv, ThreadInv
<1>4. \A i : Owned(i)' <=> Owned(i)
  BY <1>1, <1>2 DEF Owned
<1>5. OwnerInv'
  BY <1>1, <1>2 DEF OwnerInv
<1>6. SlotInv' /\ KeptInv'
  BY <1>1, <1>4 DEF SlotInv, KeptInv, Holds
<1> QED BY <1>3, <1>5, <1>6

\* When the threads are done nobody stores, and every hit has been compared.
LEMMA KeptAtEnd == IInv => HitsKept
<1> SUFFICES ASSUME IInv, Done PROVE Read \subseteq Hits /\ (found_count <= MAX_HITS => Read = Hits)
  BY DEF HitsKept
<1> USE DEF IInv
<1>1. MAX_HITS \in Nat /\ found_count \in Nat
  BY KernelAssumption DEF TypeInv
<1>2. \A i : ~Owned(i)
  BY DEF Done, Owned, Storing
<1>3. \A t \in Thread : \A j \in HitsOf(t) : j < k[t]
  <2> SUFFICES ASSUME NEW t \in Thread, NEW j \in HitsOf(t) PROVE j < k[t]
    OBVIOUS
  <2>1. PICK n \in Nat : DOMAIN pkhs[t] = 1..n
    BY DEF ThreadInv
  <2>2. k[t] \in Nat \ {0} /\ k[t] \notin 1..n /\ j \in 1..n
    BY <2>1 DEF TypeInv, ThreadInv, Done, HitsOf
  <2> QED BY <2>2
<1>4. Read = {<<results[i].thread_id, results[i].key_offset>> : i \in {s \in Slot : s < found_count}}
  <2>1. 0..(AtMost(MAX_HITS, found_count) - 1) = {s \in Slot : s < found_count}
    BY <1>1 DEF AtMost, Slot
  <2> QED BY <2>1 DEF Read
<1>5. Read \subseteq Hits
  <2> SUFFICES ASSUME NEW i \in Slot, i < found_count
               PROVE  <<results[i].thread_id, results[i].key_offset>> \in Hits
    BY <1>4
  <2>1. PICK t \in Thread : \E j \in HitsOf(t) : Holds(i, t, j)
    BY <1>2 DEF SlotInv
  <2>2. PICK j \in HitsOf(t) : results[i] = [thread_id |-> t, key_offset |-> j - 1]
    BY <2>1 DEF Holds
  <2> QED BY <2>2 DEF Hits
<1>6. ASSUME found_count <= MAX_HITS PROVE Hits \subseteq Read
  <2> SUFFICES ASSUME NEW t \in Thread, NEW j \in HitsOf(t) PROVE <<t, j - 1>> \in Read
    BY DEF Hits
  <2>1. PICK i \in Slot : i < found_count /\ results[i] = [thread_id |-> t, key_offset |-> j - 1]
    BY <1>3, <1>6 DEF KeptInv, Holds
  <2> QED BY <1>4, <2>1
<1> QED BY <1>5, <1>6

\* The invariant of the dispatch, for every number of threads, keys and slots.
THEOREM KernelInvariant == Spec => []IInv
<1>1. IInv /\ [Next]_vars => IInv'
  <2> SUFFICES ASSUME IInv, [Next]_vars PROVE IInv'
    OBVIOUS
  <2>1. CASE UNCHANGED vars
    BY <2>1 DEF vars, IInv, TypeInv, ThreadInv, OwnerInv, SlotInv, KeptInv, Storing, Owned,
                Holds, HitsOf
  <2>2. ASSUME NEW t \in Thread,
               Compute(t) \/ Hit(t) \/ Miss(t) \/ StoreThread(t) \/ StoreOffset(t) \/ Return(t)
        PROVE  IInv'
    BY <2>2, ComputeInv, HitInv, MissInv, StoreThreadInv, StoreOffsetInv, ReturnInv
  <2> QED BY <2>1, <2>2 DEF Next
<1> QED BY InitInv, <1>1, PTL DEF Spec

\* search.js and runDispatch: the CPU reads what the threads found, all of it
\* unless there are more hits than slots.
THEOREM EveryHitIsRead == Spec => []HitsKept
  BY KernelInvariant, KeptAtEnd, PTL

-----------------------------------------------------------------------------
(* What the threads find.  The parameters never change, so that what a       *)
(* thread has hashed stays what the keys of its place hash to.               *)

\* A dispatch of any size has no more workgroups and scans no more keys than one
\* of the largest.
LEMMA LargestDispatch ==
    ASSUME NEW d \in 1..MAX_KEYS_PER_DISPATCH
    PROVE  \E w \in Nat \ {0}, m \in 1..KEYS_PER_THREAD :
              /\ w = Workgroups(d) /\ m = KeysPerThread(d)
              /\ w * WORKGROUP_SIZE <= TableThreads
              /\ w * WORKGROUP_SIZE * m <= TotalKeys(MAX_KEYS_PER_DISPATCH)
<1>1. PICK g \in Nat \ {0}, kp \in Nat \ {0}, top \in Nat :
          g = WORKGROUP_SIZE /\ kp = KEYS_PER_THREAD /\ top = MAX_KEYS_PER_DISPATCH
  BY SizeAssumption
<1>2. PICK f \in Nat \ {0} : f = g * kp
  OBVIOUS
<1>3. f <= top /\ d \in Nat /\ 1 <= d /\ d <= top /\ top \in 1..MAX_KEYS_PER_DISPATCH
  BY <1>1, <1>2, SizeAssumption
<1>4. PICK c \in Int, l \in Int, o \in Int :
          /\ c = CeilDiv(d, f) /\ l = CeilDiv(top, f) /\ o = CeilDiv(f, f) /\ c <= l /\ o <= l
  <2>1. d + f - 1 \in Int /\ top + f - 1 \in Int /\ f + f - 1 \in Int
    BY <1>3
  <2>2. d + f - 1 <= top + f - 1 /\ f + f - 1 <= top + f - 1
    BY <1>3
  <2>3. /\ (d + f - 1) \div f \in Int /\ (top + f - 1) \div f \in Int /\ (f + f - 1) \div f \in Int
        /\ (d + f - 1) \div f <= (top + f - 1) \div f /\ (f + f - 1) \div f <= (top + f - 1) \div f
    BY <2>1, <2>2, QuotientGrows
  <2> QED BY <2>3 DEF CeilDiv
<1>5. o = 1
  <2>1. f - 1 \in 0..(f - 1) /\ f + f - 1 = f * 1 + (f - 1) /\ f + f - 1 \in Int
    OBVIOUS
  <2>2. (f + f - 1) \div f = 1
    BY <2>1, RemainderIs
  <2> QED BY <1>4, <2>2 DEF CeilDiv
<1>6. PICK w \in Nat \ {0} : w = Workgroups(d) /\ w <= l
  BY <1>1, <1>2, <1>4, <1>5 DEF Workgroups, AtLeast
<1>7. Workgroups(top) = l
  BY <1>1, <1>2, <1>4, <1>5 DEF Workgroups, AtLeast
<1>8. PICK m \in 1..kp : m = KeysPerThread(d)
  <2>1. CeilDiv(d, g) \in Int
    BY <1>3 DEF CeilDiv
  <2> QED BY <1>1, <2>1 DEF KeysPerThread, AtLeast, AtMost
<1>9. KeysPerThread(top) = kp
  <2>1. CeilDiv(top, g) \in Int /\ CeilDiv(top, g) >= kp
    <3>1. f \div g = kp
      <4>1. f = g * kp + 0 /\ 0 \in 0..(g - 1) /\ f \in Int /\ kp \in Int
        BY <1>2
      <4> QED BY <4>1, RemainderIs
    <3>2. f <= top + g - 1 /\ top + g - 1 \in Int /\ f \in Int
      BY <1>3
    <3>3. f \div g <= (top + g - 1) \div g /\ (top + g - 1) \div g \in Int
      BY <3>2, QuotientGrows
    <3> QED BY <3>1, <3>3 DEF CeilDiv
  <2> QED BY <1>1, <2>1 DEF KeysPerThread, AtLeast, AtMost
<1>10. w * g <= TableThreads
  <2>1. l * g <= TableThreads /\ TableThreads \in Nat
    BY <1>1, <1>2, <1>4, TableAssumption
  <2>2. g * w <= g * l
    BY <1>6, Times
  <2>3. PICK x \in Int, y \in Int : x = w * g /\ y = l * g
    OBVIOUS
  <2>4. x <= y
    BY <2>2, <2>3
  <2> QED BY <2>1, <2>3, <2>4
<1>11. w * g * m <= TotalKeys(top)
  <2>1. TotalKeys(top) = l * g * kp
    BY <1>1, <1>7, <1>9 DEF TotalKeys
  <2>2. (g * w) * m <= (g * w) * kp
    BY Times
  <2>3. (g * kp) * w <= (g * kp) * l
    BY <1>6, Times
  <2>4. (g * w) * m = w * g * m /\ (g * w) * kp = (g * kp) * w /\ (g * kp) * l = l * g * kp
    OBVIOUS
  <2>5. PICK x1 \in Int, x2 \in Int, x3 \in Int : x1 = w * g * m /\ x2 = (g * kp) * w /\ x3 = l * g * kp
    OBVIOUS
  <2>6. x1 <= x2 /\ x2 <= x3
    BY <2>2, <2>3, <2>4, <2>5
  <2> QED BY <2>1, <2>5, <2>6
<1> QED BY <1>1, <1>6, <1>8, <1>10, <1>11

\* The dispatches there are.
ParamsInv ==
    /\ params.base \in Nat \ {0} /\ params.groups \in Nat \ {0}
    /\ params.keys \in 1..KEYS_PER_THREAD
    /\ params.groups * WORKGROUP_SIZE <= TableThreads
    /\ params.base + params.groups * WORKGROUP_SIZE * params.keys < N

\* What the threads of the dispatch have hashed, once they have; the others never do.
WorkInv ==
    \A t \in Thread :
        /\ t \in Dispatched /\ pc[t] # "start" => pkhs[t] = Hashes(t)
        /\ t \notin Dispatched => pc[t] = "done" /\ pkhs[t] = <<>>

ScanInv == ParamsInv /\ WorkInv

LEMMA ScanInit == Init => ScanInv
<1> SUFFICES ASSUME Init PROVE ScanInv
  OBVIOUS
<1>1. PICK base \in Key, d \in 1..MAX_KEYS_PER_DISPATCH, target \in 0..(HASHES - 1) :
          params = [base |-> base, keys |-> KeysPerThread(d), groups |-> Workgroups(d), target |-> target]
  BY DEF Init
<1>2. base \in Nat \ {0} /\ base + TotalKeys(MAX_KEYS_PER_DISPATCH) < N
  BY KernelAssumption
<1>3. PICK w \in Nat \ {0}, m \in 1..KEYS_PER_THREAD :
          /\ w = Workgroups(d) /\ m = KeysPerThread(d)
          /\ w * WORKGROUP_SIZE <= TableThreads
          /\ w * WORKGROUP_SIZE * m <= TotalKeys(MAX_KEYS_PER_DISPATCH)
  BY LargestDispatch
<1>4. params.base = base /\ params.keys = m /\ params.groups = w
  BY <1>1, <1>3
<1>5. ParamsInv
  <2>1. base + w * WORKGROUP_SIZE * m < N
    <3>1. PICK x \in Int : x = w * WORKGROUP_SIZE * m
      BY SizeAssumption
    <3>2. PICK y \in Int : y = TotalKeys(MAX_KEYS_PER_DISPATCH) 
      <4>1. MAX_KEYS_PER_DISPATCH \in 1..MAX_KEYS_PER_DISPATCH
        BY SizeAssumption
      <4>2. PICK v \in Nat \ {0}, n \in 1..KEYS_PER_THREAD :
                v = Workgroups(MAX_KEYS_PER_DISPATCH) /\ n = KeysPerThread(MAX_KEYS_PER_DISPATCH)
        BY <4>1, LargestDispatch
      <4>3. v * WORKGROUP_SIZE * n \in Int
        BY SizeAssumption
      <4> QED BY <4>2, <4>3 DEF TotalKeys
    <3> QED BY <1>2, <1>3, <3>1, <3>2, NInt
  <2> QED BY <1>2, <1>3, <1>4, <2>1 DEF ParamsInv
<1>6. WorkInv
  BY DEF Init, WorkInv
<1> QED BY <1>5, <1>6 DEF ScanInv

\* The hashes of a thread are those of the dispatch.
LEMMA HashesStay == ASSUME UNCHANGED params PROVE \A t \in Thread : Hashes(t)' = Hashes(t)
  BY DEF Hashes, FirstPoint, offset_table

LEMMA ScanNext == IInv /\ ScanInv /\ [Next]_vars => ScanInv'
<1> SUFFICES ASSUME IInv, ScanInv, [Next]_vars PROVE ScanInv'
  OBVIOUS
<1>1. params' = params /\ Dispatched' = Dispatched
  BY DEF Next, vars, Compute, Hit, Miss, StoreThread, StoreOffset, Return, Dispatched
<1>2. ParamsInv'
  BY <1>1 DEF ScanInv, ParamsInv
<1>3. \A t \in Thread : Hashes(t)' = Hashes(t)
  BY <1>1, HashesStay
<1>4. /\ DOMAIN pc = Thread /\ DOMAIN pkhs = Thread
      /\ pc \in [Thread -> {"start", "compare", "thread", "offset", "done"}]
  BY DEF IInv, TypeInv
<1>5. CASE UNCHANGED vars
  BY <1>1, <1>2, <1>3, <1>5 DEF vars, ScanInv, WorkInv
<1>6. ASSUME NEW t \in Thread, Compute(t) PROVE WorkInv'
  BY <1>1, <1>3, <1>4, <1>6 DEF Compute, ScanInv, WorkInv
<1>7. ASSUME NEW t \in Thread, Hit(t) \/ Miss(t) \/ StoreThread(t) \/ StoreOffset(t) \/ Return(t)
      PROVE WorkInv'
  <2>1. /\ pkhs' = pkhs /\ pc[t] # "start" /\ pc[t] # "done"
        /\ \A u \in Thread : pc'[u] = pc[u] \/ (u = t /\ pc'[u] # "start")
    BY <1>4, <1>7 DEF Hit, Miss, StoreThread, StoreOffset, Return
  <2> QED BY <1>1, <1>3, <2>1 DEF ScanInv, WorkInv
<1>8. WorkInv'
  BY <1>5, <1>6, <1>7 DEF Next, ScanInv, WorkInv
<1> QED BY <1>2, <1>8 DEF ScanInv

\* Every dispatch fits below the order of the group, and its threads hash their keys.
THEOREM ScanInvariant == Spec => []ScanInv
<1>1. Init => ScanInv
  BY ScanInit
<1>2. IInv /\ ScanInv /\ [Next]_vars => ScanInv'
  BY ScanNext
<1> QED BY <1>1, <1>2, KernelInvariant, PTL DEF Spec

\* A thread of the dispatch has hashed the keys of its place.
LEMMA PlaceHashed ==
    ASSUME IInv, ScanInv, NEW t \in Thread, t \in Dispatched, pc[t] # "start",
           NEW S, S = AtMost(KEYS_PER_THREAD, params.keys)
    PROVE  /\ S = params.keys /\ S \in Nat \ {0} /\ t % TableThreads = t
           /\ DOMAIN pkhs[t] = 1..S
           /\ \A n \in 1..S :
                /\ params.base + params.keys * t + (n - 1) \in 1..(N - 1)
                /\ pkhs[t][n] = privToPkh(params.base + params.keys * t + (n - 1))
<1>1. /\ params.base \in Nat \ {0} /\ params.groups \in Nat \ {0} /\ params.keys \in 1..KEYS_PER_THREAD
      /\ params.base + params.groups * WORKGROUP_SIZE * params.keys < N
  BY DEF ScanInv, ParamsInv
<1>2. PICK b \in Nat \ {0}, m \in Nat \ {0}, w \in Nat \ {0}, g \in Nat \ {0}, kp \in Nat :
          b = params.base /\ m = params.keys /\ w = params.groups /\ g = WORKGROUP_SIZE /\ kp = KEYS_PER_THREAD
  BY <1>1, SizeAssumption
<1>3. S = m
  BY <1>1, <1>2 DEF AtMost
<1>4. t \in Nat /\ t + 1 <= w * g /\ N \in Nat /\ t % TableThreads = t
  <2>1. t \in 0..(TableThreads - 1) /\ TableThreads \in Nat
    BY TableAssumption DEF Thread
  <2>2. TableThreads \in Nat \ {0} /\ t \in Nat
    BY <2>1
  <2>3. t \in 0..(w * g - 1)
    BY <1>2 DEF Dispatched
  <2> QED BY <2>1, <2>2, <2>3, NInt, SmallRemainder
<1>5. PICK place \in Nat : place = m * t /\ b + place + m < N
  <2>1. m * (t + 1) <= m * (w * g)
    BY <1>4, Times
  <2>2. m * (t + 1) = m * t + m /\ m * (w * g) = w * g * m
    BY <1>4
  <2>3. PICK x \in Nat, y \in Nat : x = m * t /\ y = w * g * m
    BY <1>4
  <2>4. b + y < N
    BY <1>1, <1>2, <2>3
  <2>5. x + m <= y
    BY <2>1, <2>2, <2>3
  <2> QED BY <1>4, <2>3, <2>4, <2>5
<1>6. Hashes(t) = [n \in 1..S |-> privToPkh(b + m * t + (n - 1))]
  <2>1. b + m * t + (S - 1) < N
    BY <1>3, <1>4, <1>5
  <2>2. S \in Nat \ {0} /\ S = AtMost(KEYS_PER_THREAD, m) /\ m = params.keys /\ b = params.base
    BY <1>2, <1>3
  <2> QED BY <1>2, <2>1, <2>2, HashesExact
<1>7. pkhs[t] = Hashes(t)
  BY DEF ScanInv, WorkInv
<1>8. ASSUME NEW n \in 1..S
      PROVE  /\ b + m * t + (n - 1) \in 1..(N - 1)
             /\ pkhs[t][n] = privToPkh(b + m * t + (n - 1))
  <2>1. b + place + (n - 1) \in 1..(N - 1)
    BY <1>3, <1>4, <1>5
  <2> QED BY <1>5, <1>6, <1>7, <2>1
<1> QED BY <1>2, <1>3, <1>4, <1>6, <1>7, <1>8

\* The shader reports what SearchCoordinator takes it to.
THEOREM ScanIsTheShader == Spec => []ThreadsScan
<1>1. IInv /\ ScanInv => ThreadsScan
  <2> SUFFICES ASSUME IInv, ScanInv, \A t \in Dispatched : pc[t] = "compare" /\ k[t] = 1
               PROVE  Hits = UNION {Scan(key, params.base, params.keys, params.keys, params.groups) :
                                       key \in {q \in 1..(N - 1) : privToPkh(q) = params.target}}
    BY DEF ThreadsScan
  <2> DEFINE S == AtMost(KEYS_PER_THREAD, params.keys)
             Keys == {q \in 1..(N - 1) : privToPkh(q) = params.target}
             place(t) == params.base + params.keys * t
             Found(t, j) == /\ t \in Dispatched /\ j \in 0..(S - 1)
                            /\ place(t) + j \in Keys
  <2>1. Dispatched \subseteq Thread
    <3>1. /\ params.groups * WORKGROUP_SIZE <= TableThreads /\ TableThreads \in Nat
          /\ params.groups * WORKGROUP_SIZE \in Nat
      BY TableAssumption, SizeAssumption DEF ScanInv, ParamsInv
    <3> QED BY <3>1 DEF Dispatched, Thread
  <2>2. ASSUME NEW t \in Dispatched
        PROVE  /\ S \in Nat \ {0} /\ t % TableThreads = t
               /\ DOMAIN pkhs[t] = 1..S
               /\ \A n \in 1..S : place(t) + (n - 1) \in 1..(N - 1) /\ pkhs[t][n] = privToPkh(place(t) + (n - 1))
    <3>1. t \in Thread /\ pc[t] # "start"
      BY <2>1
    <3> QED BY <3>1, PlaceHashed
  <2>3. ASSUME NEW t \in Thread, t \notin Dispatched PROVE HitsOf(t) = {}
    <3>1. pkhs[t] = <<>>
      BY <2>3 DEF ScanInv, WorkInv
    <3>2. DOMAIN pkhs[t] = {}
      BY <3>1
    <3> QED BY <3>2 DEF HitsOf
  <2> HIDE DEF place, S
  <2>4. ASSUME NEW t \in Dispatched
        PROVE  HitsOf(t) = {n \in 1..S : place(t) + (n - 1) \in Keys}
    BY <2>2 DEF HitsOf
  <2>5. ASSUME NEW h \in Hits PROVE h \in UNION {Scan(key, params.base, params.keys, params.keys, params.groups) : key \in Keys}
    <3>0. PICK t \in Thread : \E n \in HitsOf(t) : h = <<t, n - 1>>
      BY DEF Hits
    <3>1. PICK n \in HitsOf(t) : h = <<t, n - 1>>
      BY <3>0
    <3>2. t \in Dispatched
      BY <2>3
    <3>3. n \in 1..S /\ place(t) + (n - 1) \in Keys /\ S \in Nat /\ t % TableThreads = t
      BY <2>2, <2>4, <3>2
    <3>4. n - 1 \in 0..(S - 1)
      BY <3>3
    <3>5. PICK key \in Keys : key = place(t) + (n - 1)
      BY <3>3
    <3>6. h \in Scan(key, params.base, params.keys, params.keys, params.groups)
      BY <3>1, <3>2, <3>3, <3>4, <3>5 DEF Scan, place, S, Dispatched
    <3> QED BY <3>6
  <2>6. ASSUME NEW h, h \in UNION {Scan(key, params.base, params.keys, params.keys, params.groups) : key \in Keys}
        PROVE  h \in Hits
    <3>1. PICK key \in Keys : h \in Scan(key, params.base, params.keys, params.keys, params.groups)
      BY <2>6
    <3>2. PICK t \in Dispatched, j \in 0..(S - 1) :
              h = <<t, j>> /\ params.base + params.keys * (t % TableThreads) + j = key
      BY <3>1 DEF Scan, S, Dispatched
    <3>3. place(t) + j = key /\ S \in Nat
      BY <2>2, <3>2 DEF place
    <3>4. PICK n \in 1..S : n = j + 1 /\ n - 1 = j
      BY <3>3
    <3>5. n \in HitsOf(t)
      BY <2>4, <3>3, <3>4
    <3>6. t \in Thread
      BY <2>1
    <3> QED BY <3>2, <3>4, <3>5, <3>6 DEF Hits
  <2> HIDE DEF Keys
  <2>7. Hits = UNION {Scan(key, params.base, params.keys, params.keys, params.groups) : key \in Keys}
    BY <2>5, <2>6
  <2> QED BY <2>7 DEF Keys
<1> QED BY <1>1, KernelInvariant, ScanInvariant, PTL

\* Double and add is the multiplication of the CPU for every scalar a dispatch starts at.
THEOREM MultiplicationExact == Spec => []ShaderMultiplies
<1>1. ScanInv => ShaderMultiplies
  <2> SUFFICES ASSUME ScanInv
               PROVE  LET p == scalar_mul_g(params.base)
                      IN  /\ jacobian_to_affine(p) = scalarMul(params.base)
                          /\ jacobian_to_affine(point_add_mixed(p, G)) = scalarMul(params.base + 1)
                          /\ jacobian_to_affine(point_double(p)) = scalarMul(2 * params.base)
    BY DEF ShaderMultiplies
  <2>1. PICK b \in Nat, x \in Int :
            /\ b = params.base /\ x = params.groups * WORKGROUP_SIZE * params.keys /\ x >= 0
            /\ b + x < N
    <3>1. PICK b \in Nat, w \in Nat, g \in Nat, m \in Nat :
              /\ b = params.base /\ w = params.groups /\ g = WORKGROUP_SIZE /\ m = params.keys
      <4>1. /\ params.base \in Nat /\ params.groups \in Nat /\ WORKGROUP_SIZE \in Nat
            /\ params.keys \in 1..KEYS_PER_THREAD /\ KEYS_PER_THREAD \in Nat
        BY SizeAssumption DEF ScanInv, ParamsInv
      <4>2. params.keys \in Nat
        BY <4>1
      <4> QED BY <4>1, <4>2
    <3>2. w * g * m \in Nat /\ b + w * g * m < N
      BY <3>1 DEF ScanInv, ParamsInv
    <3> QED BY <3>1, <3>2
  <2>2. b < Power(2, KEY_BITS)
    <3>1. N < Power(2, KEY_BITS) /\ N \in Nat /\ Power(2, KEY_BITS) \in Nat
      BY CurveAssumption, TwoPowers
    <3> QED BY <2>1, <3>1
  <2> DEFINE p == scalar_mul_g(b)
  <2>3. p \in Stands(b)
    BY <2>2, scalar_mul_gStands
  <2> HIDE DEF p
  <2>4. point_add_mixed(p, G) \in Stands(b + 1) /\ point_double(p) \in Stands(b + b)
    BY <2>3, AddGStands, DoubleStands
  <2>5. /\ scalarMul(b) = Mult(b) /\ scalarMul(b + 1) = Mult(b + 1)
        /\ scalarMul(b + b) = Mult(b + b) /\ 2 * b = b + b
    BY scalarMulIs
  <2> QED BY <2>1, <2>3, <2>4, <2>5 DEF Stands, p
<1> QED BY <1>1, ScanInvariant, PTL
=============================================================================
