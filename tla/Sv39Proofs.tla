----------------------------- MODULE Sv39Proofs -----------------------------
(***************************************************************************)
(* Entries and indices for every page size, fan-out and word width: an     *)
(* entry gives back the page and the flags it was made of, and no two      *)
(* pages of the canonical address space share a leaf slot.                 *)
(***************************************************************************)
EXTENDS Sv39, AlignmentTheorems

\* Quotient and remainder are unique.
LEMMA QuotientRemainder ==
  ASSUME NEW m \in Nat \ {0}, NEW q \in Nat, NEW r \in 0 .. m - 1
  PROVE  (m * q + r) \div m = q /\ (m * q + r) % m = r
<1> DEFINE a == m * q + r
           p == a \div m
           s == a % m
<1>1. m * q \in Nat
  BY SMTT(30)
<1>2. a \in Nat
  BY <1>1
<1>3. s \in 0 .. m - 1
  BY <1>2, DivMod, Zenon
<1>4. p \in Int /\ a = m * p + s
  BY <1>2, SMTT(30)
<1>5. m * q + r = m * p + s
  BY <1>4
<1> HIDE DEF a, p, s
<1>6. m * p \in Int
  BY <1>4, SMTT(30)
<1>7. ~(p < q)
  <2> SUFFICES ASSUME p < q PROVE FALSE
    OBVIOUS
  <2>1. p + 1 <= q
    BY <1>4
  <2>2. m * (p + 1) <= m * q
    BY <1>4, <2>1, SMTT(30)
  <2>3. m * (p + 1) = m * p + m
    BY <1>4, SMTT(30)
  <2> QED
    BY <1>1, <1>3, <1>5, <1>6, <2>2, <2>3
<1>8. ~(q < p)
  <2> SUFFICES ASSUME q < p PROVE FALSE
    OBVIOUS
  <2>1. q + 1 <= p
    BY <1>4
  <2>2. m * (q + 1) <= m * p
    BY <1>4, <2>1, SMTT(30)
  <2>3. m * (q + 1) = m * q + m
    BY SMTT(30)
  <2> QED
    BY <1>1, <1>3, <1>5, <1>6, <2>2, <2>3
<1>9. p = q
  BY <1>4, <1>7, <1>8
<1>10. s = r
  BY <1>1, <1>3, <1>5, <1>9
<1> QED
  BY <1>9, <1>10 DEF p, s, a

\* A quotient by m of a number below m * n is below n.
LEMMA QuotientBelow ==
  ASSUME NEW m \in Nat \ {0}, NEW n \in Nat, NEW q \in Nat, m * q < m * n
  PROVE  q < n
<1> SUFFICES ASSUME n <= q PROVE FALSE
  OBVIOUS
<1>1. m * n <= m * q
  BY SMTT(30)
<1>2. m * n \in Nat /\ m * q \in Nat
  BY SMTT(30)
<1> QED
  BY <1>1, <1>2

\* page_table_entry loses nothing: the entry of a representable page gives back
\* the page, to intermediate_frame and to the hardware, and the flags.
THEOREM EntryNamesItsPage ==
  ASSUME NEW physical \in 0 .. MaxPhysicalAddress, physical % PageSize = 0,
         NEW flags \in 0 .. FlagSpace - 1
  PROVE  /\ EntryAddress(page_table_entry(physical, flags)) = physical
         /\ page_table_entry(physical, flags) % FlagSpace = flags
<1>1. PageSize \in Nat \ {0} /\ FlagSpace \in Nat \ {0} /\ PageNumbers \in Nat \ {0}
  BY Sv39Assumption
<1>2. physical \in Nat /\ physical < PageSize * PageNumbers
  <2>1. PageSize * PageNumbers \in Nat
    BY <1>1, SMTT(30)
  <2> QED
    BY <2>1 DEF MaxPhysicalAddress
<1>3. PICK q \in Nat : physical = PageSize * q
  BY <1>1, <1>2, MultipleQuotient
<1>4. q < PageNumbers
  BY <1>1, <1>2, <1>3, QuotientBelow
<1>5. physical \div PageSize = q
  <2>1. 0 \in 0 .. PageSize - 1
    BY <1>1
  <2>2. (PageSize * q + 0) \div PageSize = q
    BY <1>1, <2>1, QuotientRemainder
  <2>3. PageSize * q \in Nat
    BY <1>2, <1>3
  <2> QED
    BY <1>3, <2>2, <2>3
<1>6. page_table_entry(physical, flags) = FlagSpace * q + flags
  <2>1. q * FlagSpace = FlagSpace * q
    BY <1>1, SMTT(30)
  <2> QED
    BY <1>5, <2>1 DEF page_table_entry
<1>7. (FlagSpace * q + flags) \div FlagSpace = q /\ (FlagSpace * q + flags) % FlagSpace = flags
  BY <1>1, QuotientRemainder
<1>8. q % PageNumbers = q
  <2>1. q \in 0 .. PageNumbers - 1
    BY <1>1, <1>4
  <2>2. (PageNumbers * 0 + q) % PageNumbers = q
    BY <1>1, <2>1, QuotientRemainder
  <2>3. PageNumbers * 0 + q = q
    BY <1>1
  <2> QED
    BY <2>2, <2>3
<1>9. q * PageSize = physical
  BY <1>1, <1>3, SMTT(30)
<1> QED
  BY <1>6, <1>7, <1>8, <1>9 DEF EntryAddress

-----------------------------------------------------------------------------
(* Indices.                                                                *)

\* Address a is number q of the units of m bytes, plus c. The next larger units,
\* f of these, have g bytes, and d is the part of a below them.
AtLevel(m, f, q, c, a, g, d) ==
  /\ m \in Nat \ {0} /\ f \in Nat \ {0} /\ q \in Nat /\ c \in 0 .. m - 1
  /\ a = m * q + c
  /\ g = m * f
  /\ d = m * (q % f) + c

\* Division finds q, and a is a number of the larger units, plus d.
NextLevel(m, q, a, g, d) ==
  /\ a \div m = q
  /\ g \in Nat \ {0}
  /\ d \in 0 .. g - 1
  /\ \E p \in Nat : a = g * p + d

\* One level of tables: division finds the unit, and so does the next level.
LEMMA IndexIsDigit ==
  ASSUME NEW m, NEW f, NEW q, NEW c, NEW a, NEW g, NEW d, AtLevel(m, f, q, c, a, g, d)
  PROVE  NextLevel(m, q, a, g, d)
<1>0. /\ m \in Nat \ {0} /\ f \in Nat \ {0} /\ q \in Nat /\ c \in 0 .. m - 1
      /\ a = m * q + c /\ g = m * f /\ d = m * (q % f) + c
  BY DEF AtLevel
<1>1. (m * q + c) \div m = q
  BY <1>0, QuotientRemainder
<1>2. q % f \in 0 .. f - 1
  BY <1>0, DivMod, Zenon
<1>3. PICK p \in Nat : q = f * p + (q % f)
  BY <1>0, DivMod, Zenon
<1> DEFINE r == q % f
<1>4. r \in Nat /\ r + 1 <= f /\ q = f * p + r
  BY <1>0, <1>2, <1>3
<1> HIDE DEF r
<1>5. m * f \in Nat \ {0}
  BY <1>0, SMTT(30)
<1>6. m * r \in Nat /\ m * r + m <= m * f
  <2>1. m * (r + 1) <= m * f
    BY <1>0, <1>4, SMTT(30)
  <2>2. m * (r + 1) = m * r + m /\ m * r \in Nat
    BY <1>0, <1>4, SMTT(30)
  <2> QED
    BY <1>0, <2>1, <2>2
<1>7. m * r + c \in 0 .. m * f - 1
  BY <1>0, <1>5, <1>6
<1>8. m * q = (m * f) * p + m * r
  <2>1. m * q = m * (f * p) + m * r
    <3>1. f * p \in Nat
      BY <1>0, SMTT(30)
    <3>2. \A x, y \in Nat : m * (x + y) = m * x + m * y
      BY <1>0, SMTT(30)
    <3> QED
      BY <1>0, <1>4, <3>1, <3>2
  <2>2. m * (f * p) = (m * f) * p
    BY <1>0, SMTT(30)
  <2> QED
    BY <1>0, <2>1, <2>2
<1>9. (m * f) * p \in Nat
  BY <1>0, <1>5, SMTT(30)
<1>10. m * q + c = (m * f) * p + (m * r + c)
  BY <1>0, <1>6, <1>8, <1>9
<1> QED
  BY <1>0, <1>1, <1>5, <1>7, <1>10 DEF r, NextLevel

\* The part of a page's address that the three indices give.
Indexed(address) ==
  (PageSize * Fanout * Fanout) * Vpn2(address)
    + ((PageSize * Fanout) * Vpn1(address) + (PageSize * Vpn0(address) + 0))

\* A page's address is what its indices give, plus a multiple of the space that
\* three levels translate.
LEMMA IndicesOfPage ==
  ASSUME NEW address \in Nat, address % PageSize = 0
  PROVE  /\ Indexed(address) \in 0 .. TranslatedSpace - 1
         /\ \E p \in Nat : address = TranslatedSpace * p + Indexed(address)
<1> DEFINE m1 == PageSize * Fanout
           m2 == m1 * Fanout
           m3 == m2 * Fanout
<1>0. m1 = PageSize * Fanout /\ m2 = m1 * Fanout /\ m3 = m2 * Fanout
  OBVIOUS
<1> HIDE DEF m1, m2, m3
<1>1. PageSize \in Nat \ {0} /\ Fanout \in Nat \ {0}
  BY Sv39Assumption
<1>2. PICK q0 \in Nat : address = PageSize * q0
  BY <1>1, MultipleQuotient
<1>3. address = PageSize * q0 + 0 /\ 0 \in 0 .. PageSize - 1
  BY <1>1, <1>2
<1> DEFINE c0 == PageSize * (q0 % Fanout) + 0
<1>4. c0 = PageSize * (q0 % Fanout) + 0
  OBVIOUS
<1> HIDE DEF c0
<1>5. /\ address \div PageSize = q0
      /\ m1 \in Nat \ {0}
      /\ c0 \in 0 .. m1 - 1
      /\ \E p \in Nat : address = m1 * p + c0
  <2>1. AtLevel(PageSize, Fanout, q0, 0, address, m1, c0)
    BY <1>0, <1>1, <1>3, <1>4, Zenon DEF AtLevel
  <2>2. NextLevel(PageSize, q0, address, m1, c0)
    BY <2>1, IndexIsDigit
  <2> QED
    BY <2>2, Zenon DEF NextLevel
<1>6. PICK q1 \in Nat : address = m1 * q1 + c0
  BY <1>5
<1> DEFINE c1 == m1 * (q1 % Fanout) + c0
<1>7. c1 = m1 * (q1 % Fanout) + c0
  OBVIOUS
<1> HIDE DEF c1
<1>8. /\ address \div m1 = q1
      /\ m2 \in Nat \ {0}
      /\ c1 \in 0 .. m2 - 1
      /\ \E p \in Nat : address = m2 * p + c1
  <2>1. AtLevel(m1, Fanout, q1, c0, address, m2, c1)
    BY <1>0, <1>1, <1>5, <1>6, <1>7, Zenon DEF AtLevel
  <2>2. NextLevel(m1, q1, address, m2, c1)
    BY <2>1, IndexIsDigit
  <2> QED
    BY <2>2, Zenon DEF NextLevel
<1>9. PICK q2 \in Nat : address = m2 * q2 + c1
  BY <1>8
<1> DEFINE c2 == m2 * (q2 % Fanout) + c1
<1>10. c2 = m2 * (q2 % Fanout) + c1
  OBVIOUS
<1> HIDE DEF c2
<1>11. /\ address \div m2 = q2
       /\ c2 \in 0 .. m3 - 1
       /\ \E p \in Nat : address = m3 * p + c2
  <2>1. AtLevel(m2, Fanout, q2, c1, address, m3, c2)
    BY <1>0, <1>1, <1>8, <1>9, <1>10, Zenon DEF AtLevel
  <2>2. NextLevel(m2, q2, address, m3, c2)
    BY <2>1, IndexIsDigit
  <2> QED
    BY <2>2, Zenon DEF NextLevel
<1>12. /\ Vpn0(address) = q0 % Fanout
       /\ Vpn1(address) = q1 % Fanout
       /\ Vpn2(address) = q2 % Fanout
  BY <1>0, <1>5, <1>8, <1>11, Zenon DEF Vpn0, Vpn1, Vpn2
<1>13. Indexed(address) = c2
  BY <1>0, <1>4, <1>7, <1>10, <1>12, Zenon DEF Indexed
<1>14. TranslatedSpace = m3
  BY <1>0, Zenon DEF TranslatedSpace
<1> QED
  BY <1>11, <1>13, <1>14, Zenon

\* A canonical address is in the lowest or in the highest translated space, and
\* its low bits tell which.
LEMMA CanonicalHalf ==
  ASSUME NEW t \in Nat \ {0}, NEW h \in Nat, t = h + h, NEW k \in Nat, NEW p \in Nat,
         NEW c \in 0 .. t - 1,
         t * p + c < t * k, ~(h <= t * p + c /\ t * p + c < t * k - h)
  PROVE  p = IF c < h THEN 0 ELSE k - 1
<1>1. t * p \in Nat /\ t * k \in Nat
  BY SMTT(30)
<1>2. CASE t * p + c < h
  <2>1. p = 0
    <3> SUFFICES ASSUME p >= 1 PROVE FALSE
      OBVIOUS
    <3>1. t * p >= t
      BY SMTT(30)
    <3> QED
      BY <1>1, <1>2, <3>1
  <2>2. c < h
    BY <1>1, <1>2
  <2> QED
    BY <2>1, <2>2
<1>3. CASE t * p + c >= t * k - h
  <2>1. p < k
    <3>1. t * p < t * k
      BY <1>1
    <3> QED
      BY <3>1, SMTT(30)
  <2>2. p + 1 >= k
    <3> SUFFICES ASSUME p + 2 <= k PROVE FALSE
      OBVIOUS
    <3>1. t * (p + 2) <= t * k
      BY SMTT(30)
    <3>2. t * (p + 2) = t * p + t + t
      BY SMTT(30)
    <3> QED
      BY <1>1, <1>3, <3>1, <3>2
  <2>3. p = k - 1
    BY <2>1, <2>2
  <2>4. t * k = t * p + t
    <3>1. t * (p + 1) = t * p + t
      BY SMTT(30)
    <3> QED
      BY <2>3, <3>1
  <2>5. c >= h
    BY <1>1, <1>3, <2>4
  <2> QED
    BY <2>3, <2>5
<1> QED
  BY <1>1, <1>2, <1>3

\* Two pages with the same three indices are the same page: map_page never
\* finds the leaf slot of a canonical page taken by another one.
THEOREM IndicesIdentifyPage ==
  ASSUME NEW a \in Words, NEW b \in Words, a % PageSize = 0, b % PageSize = 0,
         ~NotCanonical(a), ~NotCanonical(b),
         Vpn0(a) = Vpn0(b), Vpn1(a) = Vpn1(b), Vpn2(a) = Vpn2(b)
  PROVE  a = b
<1> DEFINE t == TranslatedSpace
           h == LowHalfEnd
           c == Indexed(a)
<1>1. /\ PageSize \in Nat \ {0} /\ Fanout \in Nat \ {0} /\ Fanout % 2 = 0
      /\ AddressSpace \in Nat \ {0} /\ AddressSpace % t = 0
  BY Sv39Assumption
<1>2. a \in Nat /\ b \in Nat /\ a < AddressSpace /\ b < AddressSpace
  BY <1>1 DEF Words
<1>3. Indexed(b) = c
  BY DEF Indexed
<1>4. t \in Nat \ {0} /\ h \in Nat /\ t = h + h
  <2> DEFINE s == PageSize * Fanout * Fanout
             f == Fanout \div 2
  <2>1. PageSize * Fanout \in Nat \ {0}
    BY <1>1, SMTT(30)
  <2>2. s \in Nat \ {0}
    BY <1>1, <2>1, SMTT(30)
  <2>3. f \in Nat /\ Fanout = f + f
    BY <1>1
  <2>4. t = s * Fanout /\ h = s * f
    BY DEF TranslatedSpace, LowHalfEnd
  <2> HIDE DEF s, f, t, h
  <2>5. s * (f + f) = s * f + s * f /\ s * f \in Nat
    BY <2>2, <2>3, SMTT(30)
  <2>6. s * Fanout \in Nat \ {0}
    BY <1>1, <2>2, SMTT(30)
  <2> QED
    BY <2>3, <2>4, <2>5, <2>6
<1>5. PICK k \in Nat : AddressSpace = t * k
  BY <1>1, <1>4, MultipleQuotient
<1>6. c \in 0 .. t - 1
  BY <1>2, IndicesOfPage
<1>7. PICK p \in Nat : a = t * p + c
  BY <1>2, IndicesOfPage
<1>8. PICK q \in Nat : b = t * q + c
  BY <1>2, <1>3, IndicesOfPage
<1>9. ~(h <= a /\ a < t * k - h) /\ ~(h <= b /\ b < t * k - h)
  BY <1>5 DEF NotCanonical, HighHalfBase
<1> HIDE DEF t, h, c
<1>10. p = IF c < h THEN 0 ELSE k - 1
  BY <1>2, <1>4, <1>5, <1>6, <1>7, <1>9, CanonicalHalf
<1>11. q = IF c < h THEN 0 ELSE k - 1
  BY <1>2, <1>4, <1>5, <1>6, <1>8, <1>9, CanonicalHalf
<1> QED
  BY <1>7, <1>8, <1>10, <1>11, Zenon

=============================================================================
