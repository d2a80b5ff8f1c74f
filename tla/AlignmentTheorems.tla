-------------------------- MODULE AlignmentTheorems --------------------------
(***************************************************************************)
(* Arithmetic of multiples of a positive alignment m: the facts about      *)
(* rounding that the allocators' proofs use.                               *)
(***************************************************************************)
EXTENDS Integers, TLAPS

\* A natural number is a multiple of m plus its remainder, as both align_up
\* and align_down assume.
LEMMA DivMod ==
  ASSUME NEW a \in Nat, NEW m \in Nat \ {0}
  PROVE  /\ a % m \in 0 .. m - 1
         /\ \E q \in Nat : a = m * q + (a % m)
<1>1. a % m \in 0 .. m - 1
  BY SMTT(30)
<1>2. m \in Int /\ m > 0
  OBVIOUS
<1>3. a \div m \in Int /\ a = m * (a \div m) + (a % m)
  BY <1>2, SMTT(30)
<1>4. a \div m >= 0
  <2>1. SUFFICES ASSUME a \div m <= -1 PROVE FALSE
    BY <1>3
  <2>2. m * (a \div m) <= -m
    BY <1>2, <1>3, <2>1, SMTT(30)
  <2> QED
    BY <1>1, <1>3, <2>2
<1>5. a \div m \in Nat
  BY <1>3, <1>4
<1> QED
  BY <1>1, <1>3, <1>5, Zenon

\* A multiple of m leaves no remainder.
LEMMA MultipleMod ==
  ASSUME NEW q \in Nat, NEW m \in Nat \ {0}
  PROVE  (m * q) % m = 0
  OBVIOUS

\* A multiple of m has a quotient.
LEMMA MultipleQuotient ==
  ASSUME NEW a \in Nat, NEW m \in Nat \ {0}, a % m = 0
  PROVE  \E q \in Nat : a = m * q
<1>1. PICK q \in Nat : a = m * q + (a % m)
  BY DivMod, Zenon
<1>2. a = m * q
  BY <1>1
<1> QED
  BY <1>2

\* Two different multiples of m are at least m apart: frames never straddle.
LEMMA MultiplesApart ==
  ASSUME NEW a \in Nat, NEW b \in Nat, NEW m \in Nat \ {0},
         a % m = 0, b % m = 0, a < b
  PROVE  a + m <= b
<1>1. PICK p \in Nat : a = m * p
  BY MultipleQuotient
<1>2. PICK q \in Nat : b = m * q
  BY MultipleQuotient
<1>3. m * p + m <= m * q
  BY <1>1, <1>2, SMTT(30)
<1> QED
  BY <1>1, <1>2, <1>3

\* The next multiple of m is m further on: the end of a frame is aligned.
LEMMA NextMultiple ==
  ASSUME NEW a \in Nat, NEW m \in Nat \ {0}, a % m = 0
  PROVE  (a + m) % m = 0
<1>1. PICK p \in Nat : a = m * p
  BY MultipleQuotient
<1>2. a + m = m * (p + 1)
  BY <1>1, SMTT(30)
<1>3. (m * (p + 1)) % m = 0
  BY MultipleMod
<1> QED
  BY <1>2, <1>3, Zenon

\* Rounding down, as align_down does, yields the largest multiple of m that is
\* not above x.
LEMMA RoundDown ==
  ASSUME NEW x \in Nat, NEW m \in Nat \ {0}
  PROVE  /\ x - (x % m) \in Nat
         /\ x - (x % m) <= x
         /\ x < x - (x % m) + m
         /\ (x - (x % m)) % m = 0
<1>1. PICK q \in Nat : x = m * q + (x % m)
  BY DivMod
<1>2. x % m \in 0 .. m - 1
  BY DivMod
<1>3. m * q \in Nat
  BY SMTT(30)
<1>4. x - (x % m) = m * q
  BY <1>1, <1>2, <1>3
<1>5. (x - (x % m)) % m = 0
  BY <1>4, MultipleMod
<1> QED
  BY <1>2, <1>3, <1>4, <1>5

\* Rounding up, as align_up does, yields a multiple of m that is not below x
\* and that no multiple of m above x undercuts.
LEMMA RoundUp ==
  ASSUME NEW x \in Nat, NEW m \in Nat \ {0}, x % m # 0
  PROVE  /\ x + (m - (x % m)) \in Nat
         /\ x < x + (m - (x % m))
         /\ (x + (m - (x % m))) % m = 0
         /\ \A a \in Nat : a % m = 0 /\ x <= a => x + (m - (x % m)) <= a
<1> DEFINE d == x - (x % m)
<1>1. d \in Nat /\ d <= x /\ x < d + m /\ d % m = 0
  BY RoundDown
<1>2. x % m \in 0 .. m - 1
  BY DivMod
<1>3. x + (m - (x % m)) = d + m
  BY <1>2
<1>4. (d + m) % m = 0
  BY <1>1, NextMultiple
<1>5. ASSUME NEW a \in Nat, a % m = 0, x <= a
      PROVE  d + m <= a
  <2>1. d < a
    BY <1>1, <1>2, <1>5
  <2> QED
    BY <1>1, <1>5, <2>1, MultiplesApart
<1>6. d + m \in Nat /\ x < d + m
  BY <1>1
<1> HIDE DEF d
<1> QED
  BY <1>3, <1>4, <1>5, <1>6, Zenon

\* The multiple below a positive one.
LEMMA PreviousMultiple ==
  ASSUME NEW a \in Nat, NEW m \in Nat \ {0}, a % m = 0, a > 0
  PROVE  a - m \in Nat /\ (a - m) % m = 0
<1>1. PICK q \in Nat : a = m * q
  BY MultipleQuotient
<1>2. q # 0
  BY <1>1
<1>3. q - 1 \in Nat /\ a - m = m * (q - 1)
  BY <1>1, <1>2
<1>4. (m * (q - 1)) % m = 0
  BY <1>3, MultipleMod
<1>5. m * (q - 1) \in Nat
  BY <1>3
<1> QED
  BY <1>3, <1>4, <1>5

\* Rounding down finds the greatest multiple.
LEMMA RoundDownGreatest ==
  ASSUME NEW x \in Nat, NEW m \in Nat \ {0}, NEW b \in Nat, b % m = 0, b <= x
  PROVE  b <= x - (x % m)
<1> DEFINE d == x - (x % m)
<1>1. d \in Nat /\ x < d + m /\ d % m = 0
  BY RoundDown
<1> HIDE DEF d
<1>2. d < b => d + m <= b
  BY <1>1, MultiplesApart
<1> QED
  BY <1>1, <1>2 DEF d

=============================================================================
