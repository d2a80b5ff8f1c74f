---------------------------- MODULE TimerPeriod ----------------------------
(***************************************************************************)
(* The arithmetic of the periodic timer, arch/riscv64/timer.rs: the number *)
(* of counter ticks in a period, and the deadlines computed from it while  *)
(* the counter runs on and interrupts are served late.                     *)
(*                                                                         *)
(* How the interrupt gets to its handler is the subject of Traps, where a  *)
(* deadline is only there or not.                                          *)
(***************************************************************************)
EXTENDS Integers

CONSTANTS
  NanosPerSecond,   \* 1_000_000_000
  CounterSpace,     \* 2^64
  Frequencies,      \* timebase_hz, not zero
  Periods,          \* the requested period, in nanoseconds
  None

ASSUME TimerAssumption ==
  /\ NanosPerSecond \in Nat \ {0}
  /\ CounterSpace \in Nat \ {0}
  /\ Frequencies \subseteq Nat \ {0}
  /\ Periods \subseteq Nat
  /\ None \notin Nat

Counts == 0 .. CounterSpace - 1

VARIABLES
  timebase_hz, period,
  readable,         \* time::STATE is AVAILABLE
  counter,          \* what rdtime returns
  INTERVAL,         \* 0 until init succeeds
  deadline,         \* what firmware was last told, None before
  served,           \* history: when the deadline in force was set
  result            \* "Ok" or the error that stopped the timer

vars == <<timebase_hz, period, readable, counter, INTERVAL, deadline, served, result>>

Init ==
  /\ timebase_hz \in Frequencies
  /\ period \in Periods
  /\ readable \in BOOLEAN
  /\ counter = 0
  /\ INTERVAL = 0
  /\ deadline = None
  /\ served = None
  /\ result = "Ok"

\* Time passes; the model ends with the counter's range.
Advance ==
  /\ counter + 1 \in Counts
  /\ counter' = counter + 1
  /\ UNCHANGED <<timebase_hz, period, readable, INTERVAL, deadline, served, result>>

\* Variant: the division rounds down.
IntervalDown == (timebase_hz * period) \div NanosPerSecond

\* interval_ticks: div_ceil in 128 bits, where the product always fits.
interval_ticks == (timebase_hz * period + NanosPerSecond - 1) \div NanosPerSecond

ValidInterval == interval_ticks \in Counts \ {0}

Stop(error) ==
  /\ result' = error
  /\ UNCHANGED <<INTERVAL, deadline, served>>

\* next_deadline and sbi::set_timer, which firmware may reject.
SetDeadline(interval) ==
  \/ ~readable /\ Stop("CounterUnavailable")
  \/ readable /\ counter + interval \notin Counts /\ Stop("DeadlineOverflow")
  \/ readable /\ counter + interval \in Counts /\ Stop("Firmware")
  \/ /\ readable
     /\ counter + interval \in Counts
     /\ deadline' = counter + interval
     /\ served' = counter
     /\ INTERVAL' = interval
     /\ UNCHANGED result

\* init: the interval is stored once the first deadline is set. A call on an
\* initialized timer is refused and changes nothing.
InitTimer ==
  /\ INTERVAL = 0
  /\ result = "Ok"
  /\ \/ ~ValidInterval /\ Stop("InvalidInterval")
     \/ ValidInterval /\ SetDeadline(interval_ticks)
  /\ UNCHANGED <<timebase_hz, period, readable, counter>>

\* handle_interrupt, at any time after the deadline has passed. An error halts
\* the kernel.
HandleInterrupt ==
  /\ INTERVAL # 0
  /\ result = "Ok"
  /\ counter >= deadline
  /\ SetDeadline(INTERVAL)
  /\ UNCHANGED <<timebase_hz, period, readable, counter>>

Next == Advance \/ InitTimer \/ HandleInterrupt

Spec == Init /\ [][Next]_vars

-----------------------------------------------------------------------------
(* Properties.                                                             *)

\* n ticks of the counter last at least the period.
Lasts(n) == n * NanosPerSecond >= timebase_hz * period

\* The types of the timer's words.
TypeOK ==
  /\ timebase_hz \in Frequencies
  /\ period \in Periods
  /\ readable \in BOOLEAN
  /\ counter \in Counts
  /\ INTERVAL \in Counts
  /\ deadline \in Counts \cup {None}
  /\ served \in Counts \cup {None}
  /\ result \in {"Ok", "InvalidInterval", "CounterUnavailable", "DeadlineOverflow", "Firmware"}

\* The timer never runs fast, and not a counter tick slower than it must: the
\* deadline in force lies a whole period after it was set, however late the
\* interrupt before it was served, one tick less would be too short, and an
\* interval or a deadline is refused only when none can be represented.
PeriodKept ==
  /\ deadline # None =>
       /\ served < deadline
       /\ Lasts(deadline - served)
       /\ ~Lasts(deadline - served - 1)
  /\ result = "InvalidInterval" => period = 0 \/ \A n \in Counts : ~Lasts(n)
  /\ result = "DeadlineOverflow" => \A n \in Counts : Lasts(n) /\ n > 0 => counter + n \notin Counts

=============================================================================
