------------------------- MODULE TimerPeriodProofs -------------------------
(***************************************************************************)
(* The timer keeps its period for every frequency, period and width of the *)
(* counter.                                                                *)
(***************************************************************************)
EXTENDS TimerPeriod, AlignmentTheorems

\* The interval is what interval_ticks computes, the deadline in force is an
\* interval after it was set, and an error has the cause its name says.
TimerInv ==
  /\ TypeOK
  /\ INTERVAL # 0 => INTERVAL = interval_ticks /\ ValidInterval
  /\ deadline # None => INTERVAL # 0 /\ served \in Counts /\ deadline = served + INTERVAL
  /\ result = "InvalidInterval" => ~ValidInterval
  /\ result = "DeadlineOverflow" => ValidInterval /\ counter + interval_ticks \notin Counts

\* div_ceil: the quotient rounded up is the least number of ms that reach x.
LEMMA LeastMultiple ==
  ASSUME NEW x \in Nat, NEW m \in Nat \ {0}
  PROVE  /\ (x + m - 1) \div m \in Nat
         /\ \A n \in Nat : n * m >= x <=> n >= (x + m - 1) \div m
<1> DEFINE a == x + m - 1
           q == a \div m
           r == a % m
<1>1. a \in Nat
  OBVIOUS
<1>2. r \in 0 .. m - 1
  BY <1>1, DivMod, Zenon
<1>3. q \in Int /\ a = m * q + r
  BY <1>1, SMTT(30)
<1>4. q \in Nat
  <2>1. SUFFICES ASSUME q <= -1 PROVE FALSE
    BY <1>3
  <2> HIDE DEF q, r, a
  <2>2. m * q <= -m
    BY <1>3, <2>1, SMTT(30)
  <2> QED
    BY <1>1, <1>2, <1>3, <2>2
<1>5. x + m - 1 = m * q + r
  BY <1>3
<1> HIDE DEF a, q, r
<1>6. ASSUME NEW n \in Nat, n >= q
      PROVE  n * m >= x
  <2>1. n * m >= m * q
    BY <1>4, <1>6, SMTT(30)
  <2>2. n * m \in Nat /\ m * q \in Nat
    BY <1>4, SMTT(30)
  <2> QED
    BY <1>2, <1>5, <2>1, <2>2
<1>7. ASSUME NEW n \in Nat, n < q
      PROVE  n * m < x
  <2>1. n + 1 <= q
    BY <1>4, <1>7
  <2>2. (n + 1) * m <= m * q
    BY <1>4, <2>1, SMTT(30)
  <2>3. (n + 1) * m = n * m + m
    BY SMTT(30)
  <2>4. n * m \in Nat /\ m * q \in Nat
    BY <1>4, SMTT(30)
  <2> QED
    BY <1>2, <1>5, <2>2, <2>3, <2>4
<1>8. \A n \in Nat : n * m >= x <=> n >= q
  <2> TAKE n \in Nat
  <2>1. n * m \in Nat
    BY SMTT(30)
  <2>2. CASE n >= q
    BY <1>6, <2>1, <2>2
  <2>3. CASE n < q
    BY <1>4, <1>7, <2>1, <2>3
  <2> QED
    BY <1>4, <2>2, <2>3
<1> QED
  BY <1>4, <1>8 DEF q, a

\* interval_ticks is the least number of ticks that last a period.
LEMMA IntervalLeast ==
  ASSUME TypeOK
  PROVE  /\ interval_ticks \in Nat
         /\ \A n \in Nat : Lasts(n) <=> n >= interval_ticks
<1>1. timebase_hz \in Nat \ {0} /\ period \in Nat
  BY TimerAssumption DEF TypeOK
<1>2. timebase_hz * period \in Nat
  BY <1>1, SMTT(30)
<1>3. NanosPerSecond \in Nat \ {0}
  BY TimerAssumption
<1> QED
  BY <1>2, <1>3, LeastMultiple, Zenon DEF interval_ticks, Lasts

\* init and handle_interrupt set a deadline of a valid interval, or stop.
LEMMA SetDeadlineKeeps ==
  ASSUME TimerInv, ValidInterval, SetDeadline(interval_ticks),
         UNCHANGED <<timebase_hz, period, readable, counter>>
  PROVE  TimerInv'
<1>1. interval_ticks' = interval_ticks /\ (ValidInterval' <=> ValidInterval)
  BY DEF interval_ticks, ValidInterval
<1>2. interval_ticks \in Counts \ {0}
  BY DEF ValidInterval
<1>3. None \notin Counts
  BY TimerAssumption DEF Counts
<1>4. TypeOK'
  BY <1>2 DEF TimerInv, TypeOK, SetDeadline, Stop
<1>5. CASE ~readable /\ Stop("CounterUnavailable")
  BY <1>1, <1>4, <1>5 DEF TimerInv, Stop
<1>6. CASE counter + interval_ticks \notin Counts /\ Stop("DeadlineOverflow")
  BY <1>1, <1>4, <1>6 DEF TimerInv, Stop
<1>7. CASE Stop("Firmware")
  BY <1>1, <1>4, <1>7 DEF TimerInv, Stop
<1>8. CASE /\ deadline' = counter + interval_ticks
           /\ served' = counter
           /\ INTERVAL' = interval_ticks
           /\ UNCHANGED result
  BY <1>1, <1>2, <1>3, <1>4, <1>8 DEF TimerInv, TypeOK
<1> QED
  BY <1>5, <1>6, <1>7, <1>8 DEF SetDeadline

\* Every step of the timer keeps the invariant.
LEMMA TimerStep ==
  ASSUME TimerInv, [Next]_vars
  PROVE  TimerInv'
<1>1. CASE Advance
  <2>1. interval_ticks' = interval_ticks /\ (ValidInterval' <=> ValidInterval)
    BY <1>1 DEF Advance, interval_ticks, ValidInterval
  <2>2. TypeOK'
    BY <1>1 DEF TimerInv, TypeOK, Advance
  <2>3. interval_ticks \in Nat
    BY IntervalLeast DEF TimerInv
  <2>4. counter + interval_ticks \notin Counts => counter' + interval_ticks \notin Counts
    BY <1>1, <2>3, TimerAssumption DEF TimerInv, TypeOK, Advance, Counts
  <2> QED
    BY <1>1, <2>1, <2>2, <2>4 DEF TimerInv, Advance
<1>2. CASE InitTimer
  <2>1. CASE ~ValidInterval /\ Stop("InvalidInterval")
    <3>1. ValidInterval' <=> ValidInterval
      BY <1>2 DEF InitTimer, interval_ticks, ValidInterval
    <3> QED
      BY <1>2, <2>1, <3>1 DEF TimerInv, TypeOK, InitTimer, Stop
  <2>2. CASE ValidInterval /\ SetDeadline(interval_ticks)
    BY <1>2, <2>2, SetDeadlineKeeps DEF InitTimer
  <2> QED
    BY <1>2, <2>1, <2>2 DEF InitTimer
<1>3. CASE HandleInterrupt
  <2>1. INTERVAL = interval_ticks /\ ValidInterval
    BY <1>3 DEF TimerInv, HandleInterrupt
  <2>2. SetDeadline(interval_ticks)
    BY <1>3, <2>1 DEF HandleInterrupt
  <2> QED
    BY <1>3, <2>1, <2>2, SetDeadlineKeeps DEF HandleInterrupt
<1>4. CASE UNCHANGED vars
  BY <1>4 DEF vars, TimerInv, TypeOK, ValidInterval, interval_ticks
<1> QED
  BY <1>1, <1>2, <1>3, <1>4 DEF Next

\* The invariant says that the period is kept.
LEMMA InvKeepsPeriod ==
  ASSUME TimerInv
  PROVE  PeriodKept
<1>1. interval_ticks \in Nat /\ \A n \in Nat : Lasts(n) <=> n >= interval_ticks
  BY IntervalLeast DEF TimerInv
<1>2. CounterSpace \in Nat \ {0} /\ Counts = 0 .. CounterSpace - 1
  BY TimerAssumption DEF Counts
<1>3. deadline # None =>
        /\ served < deadline
        /\ Lasts(deadline - served)
        /\ ~Lasts(deadline - served - 1)
  <2> SUFFICES ASSUME deadline # None
               PROVE  served < deadline /\ Lasts(deadline - served) /\ ~Lasts(deadline - served - 1)
    OBVIOUS
  <2>1. served \in Nat /\ deadline = served + interval_ticks /\ interval_ticks > 0
    BY <1>2 DEF TimerInv, ValidInterval
  <2>2. deadline - served = interval_ticks /\ interval_ticks - 1 \in Nat
    BY <1>1, <2>1
  <2>3. Lasts(interval_ticks) /\ ~Lasts(interval_ticks - 1)
    BY <1>1, <2>2
  <2> QED
    BY <1>1, <2>1, <2>2, <2>3
<1>4. result = "InvalidInterval" => period = 0 \/ \A n \in Counts : ~Lasts(n)
  <2> SUFFICES ASSUME result = "InvalidInterval", period # 0, NEW n \in Counts, Lasts(n)
               PROVE  FALSE
    OBVIOUS
  <2>1. interval_ticks \notin Counts \ {0}
    BY DEF TimerInv, ValidInterval
  <2>2. interval_ticks # 0
    <3>1. timebase_hz \in Nat \ {0} /\ period \in Nat \ {0}
      BY TimerAssumption DEF TimerInv, TypeOK
    <3>2. timebase_hz * period > 0
      BY <3>1, SMTT(30)
    <3>3. ~Lasts(0)
      BY <3>1, <3>2, TimerAssumption DEF Lasts
    <3> QED
      BY <1>1, <3>3
  <2> QED
    BY <1>1, <1>2, <2>1, <2>2
<1>5. result = "DeadlineOverflow" => \A n \in Counts : Lasts(n) /\ n > 0 => counter + n \notin Counts
  <2> SUFFICES ASSUME result = "DeadlineOverflow", NEW n \in Counts, Lasts(n)
               PROVE  counter + n \notin Counts
    OBVIOUS
  <2>1. n >= interval_ticks /\ counter + interval_ticks \notin Counts /\ counter \in Counts
    BY <1>1, <1>2 DEF TimerInv, TypeOK
  <2> QED
    BY <1>1, <1>2, <2>1
<1> QED
  BY <1>3, <1>4, <1>5 DEF PeriodKept

\* For every frequency, period and counter width: a deadline lies a whole
\* period after it was set and not a tick more, and interval_ticks and
\* next_deadline refuse only what no counter value could represent.
THEOREM TimerKeepsPeriod == Spec => []PeriodKept
<1>1. Init => TimerInv
  <2>1. 0 \in Counts
    BY TimerAssumption DEF Counts
  <2> QED
    BY <2>1 DEF Init, TimerInv, TypeOK
<1>2. TimerInv /\ [Next]_vars => TimerInv'
  BY TimerStep
<1>3. TimerInv => PeriodKept
  BY InvKeepsPeriod
<1> QED
  BY <1>1, <1>2, <1>3, PTL DEF Spec

=============================================================================
