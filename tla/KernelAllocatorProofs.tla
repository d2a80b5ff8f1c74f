----------------------- MODULE KernelAllocatorProofs -----------------------
(***************************************************************************)
(* The allocator's gate for any nesting of calls, callbacks and interrupt  *)
(* handlers, and any amount of memory.                                     *)
(***************************************************************************)
EXTENDS KernelAllocator, SequenceTheorems, TLAPS

Points ==
  {"handler", "entry", "acquire", "begin", "heap", "callback", "release", "drop"}

Outcomes == {None, "Ok", "Busy", "AlreadyInitialized", "NotInitialized", "Failed"}

Activations ==
  [op : Ops \cup {"handler"}, at : Points, was_enabled : BOOLEAN, local : Nat \cup {None},
   result : Outcomes, before : BOOLEAN]

\* The types of the gate and of the stack of activations.
GateTypes ==
  /\ SIE \in BOOLEAN
  /\ busy \in BOOLEAN
  /\ state \in Nat \cup {None}
  /\ stack \in Seq(Activations)
  /\ granted \in Seq(Nat)

\* The interrupt enable an activation runs with: masked from disable_interrupts
\* on, and in a handler.
Enabled(a) == a.at = "entry" /\ a.before

\* An activation at this point holds the gate.
Holds(a) == a.at \in {"begin", "heap", "callback", "release"}

\* Interrupts are as the running activation has them, each activation was
\* entered with what the one below runs with, and a guard saved just that. Only
\* handlers, callbacks and calls that have not masked interrupts yet have
\* anything above them, and nothing above the gate's holder had interrupts on.
StackInv ==
  /\ Len(stack) > 0 => SIE = Enabled(stack[Len(stack)])
  /\ \A i \in 1 .. Len(stack) - 1 :
       /\ stack[i].at \in {"entry", "handler", "callback"}
       /\ stack[i + 1].before = Enabled(stack[i])
  /\ \A i \in 1 .. Len(stack) :
       stack[i].at \notin {"entry", "handler"} => stack[i].was_enabled = stack[i].before
  /\ \A i, j \in 1 .. Len(stack) : Holds(stack[i]) /\ j > i => ~stack[j].before

\* The flag is set while an activation holds the gate, and one does at most.
FlagInv ==
  /\ busy <=> \E i \in 1 .. Len(stack) : Holds(stack[i])
  /\ \A i, j \in 1 .. Len(stack) : Holds(stack[i]) /\ Holds(stack[j]) => i = j

\* What an operation read is still the state.
LocalsInv ==
  \A i \in 1 .. Len(stack) :
    stack[i].at \in {"heap", "callback"} => state \in Nat /\ stack[i].local = state

\* Grants are distinct and lie below the state.
GrantsInv ==
  /\ \A i \in 1 .. Len(granted) : state \in Nat /\ granted[i] < state
  /\ \A i, j \in 1 .. Len(granted) : i # j => granted[i] # granted[j]

GateInv == GateTypes /\ StackInv /\ FlagInv /\ LocalsInv /\ GrantsInv

-----------------------------------------------------------------------------
(* The three ways a step changes the stack.                                *)

\* A new activation a is entered.
Pushes(a) ==
  /\ Len(stack') = Len(stack) + 1
  /\ \A i \in 1 .. Len(stack) : stack'[i] = stack[i]
  /\ stack'[Len(stack) + 1] = a

\* The running activation is left.
Pops ==
  /\ Len(stack) > 0
  /\ Len(stack') = Len(stack) - 1
  /\ \A i \in 1 .. Len(stack) - 1 : stack'[i] = stack[i]

\* The running activation becomes a.
Moves(a) ==
  /\ Len(stack) > 0
  /\ Len(stack') = Len(stack)
  /\ \A i \in 1 .. Len(stack) - 1 : stack'[i] = stack[i]
  /\ stack'[Len(stack)] = a

\* Call and Interrupt enter an activation.
LEMMA AppendPushes ==
  ASSUME stack \in Seq(Activations), NEW a \in Activations, stack' = Append(stack, a)
  PROVE  Pushes(a) /\ stack' \in Seq(Activations)
  BY DEF Pushes

\* HandlerReturns and Return leave one.
LEMMA PoppedPops ==
  ASSUME stack \in Seq(Activations), stack # << >>, stack' = Popped
  PROVE  Pops /\ stack' \in Seq(Activations)
<1>1. PICK m \in Nat : Len(stack) = m + 1
  <2>1. Len(stack) \in Nat /\ Len(stack) > 0
    OBVIOUS
  <2>2. Len(stack) - 1 \in Nat /\ Len(stack) = (Len(stack) - 1) + 1
    BY <2>1
  <2> QED
    BY <2>2
<1>2. \A i \in 1 .. m : stack[i] \in Activations
  BY <1>1
<1>3. /\ SubSeq(stack, 1, m) \in Seq(Activations)
      /\ Len(SubSeq(stack, 1, m)) = m
      /\ \A i \in 1 .. m : SubSeq(stack, 1, m)[i] = stack[i]
  BY <1>2, SubSeqProperties
<1>4. stack' = SubSeq(stack, 1, m)
  BY <1>1 DEF Popped
<1> QED
  BY <1>1, <1>3, <1>4 DEF Pops

\* Every other step of a call changes its own activation only.
LEMMA ExceptMoves ==
  ASSUME stack \in Seq(Activations), stack # << >>, NEW a \in Activations,
         stack' = [stack EXCEPT ![Len(stack)] = a]
  PROVE  Moves(a) /\ stack' \in Seq(Activations)
  BY DEF Moves

-----------------------------------------------------------------------------
\* Entering an activation with the interrupt enable its caller has keeps the
\* invariant: interrupts are on only where nobody holds the gate.
LEMMA PushKeeps ==
  ASSUME GateInv, NEW a \in Activations, Pushes(a), stack' \in Seq(Activations),
         ~Holds(a), a.at \in {"entry", "handler"}, a.before = SIE, SIE' \in BOOLEAN,
         SIE' = Enabled(a),
         Len(stack) > 0 => stack[Len(stack)].at \in {"entry", "handler", "callback"},
         UNCHANGED <<busy, state, granted>>
  PROVE  GateInv'
<1> DEFINE n == Len(stack)
<1>1. n \in Nat /\ Len(stack') = n + 1
  BY DEF GateInv, GateTypes, Pushes
<1>2. \A i \in 1 .. n : stack'[i] = stack[i]
  BY DEF Pushes
<1>3. stack'[n + 1] = a
  BY DEF Pushes
<1>4. GateTypes'
  BY DEF GateInv, GateTypes
<1>5. \A i \in 1 .. n : Holds(stack[i]) => ~SIE
  <2> SUFFICES ASSUME NEW i \in 1 .. n, Holds(stack[i]), SIE PROVE FALSE
    OBVIOUS
  <2>1. Enabled(stack[n])
    <3>1. n > 0
      BY <1>1
    <3>2. SIE = Enabled(stack[n])
      BY <3>1, Zenon DEF GateInv, StackInv
    <3> QED
      BY <3>2, Zenon
  <2>2. i # n
    BY <2>1 DEF Holds, Enabled
  <2> QED
    BY <1>1, <2>1, <2>2 DEF GateInv, StackInv, Enabled
<1>6. StackInv'
  <2>1. Len(stack') > 0 => SIE' = Enabled(stack'[Len(stack')])
    BY <1>1, <1>3
  <2>2. \A i \in 1 .. n :
          /\ stack'[i].at \in {"entry", "handler", "callback"}
          /\ stack'[i + 1].before = Enabled(stack'[i])
    <3> TAKE i \in 1 .. n
    <3>1. CASE i = n
      BY <1>1, <1>2, <1>3, <3>1 DEF GateInv, StackInv
    <3>2. CASE i < n
      BY <1>1, <1>2, <3>2 DEF GateInv, StackInv
    <3> QED
      BY <1>1, <3>1, <3>2
  <2>3. \A i \in 1 .. n + 1 :
          stack'[i].at \notin {"entry", "handler"} => stack'[i].was_enabled = stack'[i].before
    <3> TAKE i \in 1 .. n + 1
    <3>1. CASE i = n + 1
      BY <1>3, <3>1
    <3>2. CASE i \in 1 .. n
      BY <1>2, <3>2 DEF GateInv, StackInv
    <3> QED
      BY <1>1, <3>1, <3>2
  <2>4. \A i, j \in 1 .. n + 1 : Holds(stack'[i]) /\ j > i => ~stack'[j].before
    <3> SUFFICES ASSUME NEW i \in 1 .. n + 1, NEW j \in 1 .. n + 1, Holds(stack'[i]), j > i
                 PROVE  ~stack'[j].before
      OBVIOUS
    <3>1. i \in 1 .. n
      BY <1>1
    <3>2. Holds(stack[i])
      BY <1>2, <3>1
    <3>3. CASE j = n + 1
      BY <1>3, <1>5, <3>1, <3>2, <3>3
    <3>4. CASE j \in 1 .. n
      BY <1>2, <3>1, <3>2, <3>4 DEF GateInv, StackInv
    <3> QED
      BY <1>1, <3>3, <3>4
  <2> QED
    BY <1>1, <2>1, <2>2, <2>3, <2>4 DEF StackInv
<1>7. FlagInv'
  <2>1. \A i \in 1 .. n + 1 : Holds(stack'[i]) <=> i \in 1 .. n /\ Holds(stack[i])
    BY <1>1, <1>2, <1>3
  <2> QED
    BY <1>1, <2>1 DEF GateInv, FlagInv
<1>8. LocalsInv'
  <2>1. \A i \in 1 .. n + 1 :
          stack'[i].at \in {"heap", "callback"} => state' \in Nat /\ stack'[i].local = state'
    BY <1>1, <1>2, <1>3 DEF GateInv, LocalsInv
  <2> QED
    BY <1>1, <2>1 DEF LocalsInv
<1>9. GrantsInv'
  BY DEF GateInv, GrantsInv
<1> QED
  BY <1>4, <1>6, <1>7, <1>8, <1>9 DEF GateInv

\* Leaving an activation that does not hold the gate keeps the invariant: SIE
\* becomes what the activation below runs with.
LEMMA PopKeeps ==
  ASSUME GateInv, Pops, stack' \in Seq(Activations),
         stack[Len(stack)].at \in {"handler", "drop"},
         SIE' \in BOOLEAN, SIE' = stack[Len(stack)].before,
         UNCHANGED <<busy, state, granted>>
  PROVE  GateInv'
<1> DEFINE n == Len(stack)
<1>1. n \in Nat \ {0} /\ Len(stack') = n - 1
  BY DEF GateInv, GateTypes, Pops
<1>2. \A i \in 1 .. n - 1 : stack'[i] = stack[i]
  BY DEF Pops
<1>3. GateTypes'
  BY DEF GateInv, GateTypes
<1>4. StackInv'
  <2>1. n - 1 > 0 => SIE' = Enabled(stack'[n - 1])
    <3> SUFFICES ASSUME n - 1 > 0 PROVE SIE' = Enabled(stack'[n - 1])
      OBVIOUS
    <3>1. stack[(n - 1) + 1].before = Enabled(stack[n - 1])
      BY <1>1 DEF GateInv, StackInv
    <3> QED
      BY <1>1, <1>2, <3>1
  <2> QED
    BY <1>1, <1>2, <2>1 DEF GateInv, StackInv
<1>5. FlagInv'
  <2>1. ~Holds(stack[n])
    BY DEF Holds
  <2>2. \A i \in 1 .. n - 1 : Holds(stack'[i]) <=> Holds(stack[i])
    BY <1>2
  <2> QED
    BY <1>1, <2>1, <2>2 DEF GateInv, FlagInv
<1>6. LocalsInv'
  BY <1>1, <1>2 DEF GateInv, LocalsInv
<1>7. GrantsInv'
  BY DEF GateInv, GrantsInv
<1> QED
  BY <1>3, <1>4, <1>5, <1>6, <1>7 DEF GateInv

\* Once it has masked interrupts, a call can go on as it likes: the stack stays
\* in order.
LEMMA MoveKeepsStack ==
  ASSUME GateInv, NEW a \in Activations, Moves(a),
         a.before = stack[Len(stack)].before, a.was_enabled = a.before,
         a.at \notin {"entry", "handler"}, SIE' = FALSE
  PROVE  StackInv'
<1> DEFINE n == Len(stack)
<1>1. n \in Nat \ {0} /\ Len(stack') = n
  BY DEF GateInv, GateTypes, Moves
<1>2. \A i \in 1 .. n - 1 : stack'[i] = stack[i]
  BY DEF Moves
<1>3. stack'[n] = a
  BY DEF Moves
<1>4. SIE' = Enabled(stack'[n])
  BY <1>3 DEF Enabled
<1>5. \A i \in 1 .. n - 1 :
        /\ stack'[i].at \in {"entry", "handler", "callback"}
        /\ stack'[i + 1].before = Enabled(stack'[i])
  <2> TAKE i \in 1 .. n - 1
  <2>1. stack'[i + 1].before = stack[i + 1].before
    BY <1>1, <1>2, <1>3
  <2> QED
    BY <1>1, <1>2, <2>1 DEF GateInv, StackInv
<1>6. \A i \in 1 .. n :
        stack'[i].at \notin {"entry", "handler"} => stack'[i].was_enabled = stack'[i].before
  BY <1>1, <1>2, <1>3 DEF GateInv, StackInv
<1>7. \A i, j \in 1 .. n : Holds(stack'[i]) /\ j > i => ~stack'[j].before
  <2> SUFFICES ASSUME NEW i \in 1 .. n, NEW j \in 1 .. n, Holds(stack'[i]), j > i
               PROVE  ~stack'[j].before
    OBVIOUS
  <2>1. Holds(stack[i])
    BY <1>1, <1>2
  <2>2. stack'[j].before = stack[j].before
    BY <1>1, <1>2, <1>3
  <2> QED
    BY <2>1, <2>2 DEF GateInv, StackInv
<1> QED
  BY <1>1, <1>4, <1>5, <1>6, <1>7 DEF StackInv

\* The flag follows the gate when the call takes it, keeps it, is without it
\* or gives it back.
LEMMA MoveKeepsFlag ==
  ASSUME GateInv, NEW a \in Activations, Moves(a),
         \/ ~busy /\ Holds(a) /\ busy' = TRUE
         \/ Holds(stack[Len(stack)]) /\ ~Holds(a) /\ busy' = FALSE
         \/ (Holds(a) <=> Holds(stack[Len(stack)])) /\ busy' = busy
  PROVE  FlagInv'
<1> DEFINE n == Len(stack)
<1>1. n \in Nat \ {0} /\ Len(stack') = n
  BY DEF GateInv, GateTypes, Moves
<1>2. \A i \in 1 .. n - 1 : Holds(stack'[i]) <=> Holds(stack[i])
  BY DEF Moves
<1>3. Holds(stack'[n]) <=> Holds(a)
  BY DEF Moves
<1>4. /\ busy <=> \E i \in 1 .. n : Holds(stack[i])
      /\ \A i, j \in 1 .. n : Holds(stack[i]) /\ Holds(stack[j]) => i = j
  BY DEF GateInv, FlagInv
<1> DEFINE old(i) == Holds(stack[i])
           new(i) == Holds(stack'[i])
<1>5. \A i \in 1 .. n - 1 : new(i) <=> old(i)
  BY <1>2
<1>6. /\ busy <=> \E i \in 1 .. n : old(i)
      /\ \A i, j \in 1 .. n : old(i) /\ old(j) => i = j
  BY <1>4
<1>7. CASE ~busy /\ Holds(a) /\ busy' = TRUE
  <2>1. new(n) /\ \A i \in 1 .. n - 1 : ~new(i)
    BY <1>1, <1>3, <1>5, <1>6, <1>7
  <2> QED
    BY <1>1, <1>7, <2>1 DEF FlagInv
<1>8. CASE old(n) /\ ~Holds(a) /\ busy' = FALSE
  <2>1. \A i \in 1 .. n : ~new(i)
    BY <1>1, <1>3, <1>5, <1>6, <1>8
  <2> QED
    BY <1>1, <1>8, <2>1 DEF FlagInv
<1>9. CASE (Holds(a) <=> old(n)) /\ busy' = busy
  <2>1. \A i \in 1 .. n : new(i) <=> old(i)
    BY <1>1, <1>3, <1>5, <1>9
  <2> QED
    BY <1>1, <1>6, <1>9, <2>1 DEF FlagInv
<1> QED
  BY <1>7, <1>8, <1>9

\* What the operations in progress read stays the state: a call either leaves
\* the state alone or changes it at the end, as the only holder of the gate.
LEMMA MoveKeepsLocals ==
  ASSUME GateInv, NEW a \in Activations, Moves(a),
         \/ /\ state' = state
            /\ a.at \in {"heap", "callback"} => state \in Nat /\ a.local = state
         \/ Holds(stack[Len(stack)]) /\ a.at \notin {"heap", "callback"}
  PROVE  LocalsInv'
<1> DEFINE n == Len(stack)
<1>1. n \in Nat \ {0} /\ Len(stack') = n
  BY DEF GateInv, GateTypes, Moves
<1> SUFFICES ASSUME NEW i \in 1 .. n, stack'[i].at \in {"heap", "callback"}
             PROVE  state' \in Nat /\ stack'[i].local = state'
  BY <1>1 DEF LocalsInv
<1>2. CASE i = n
  BY <1>2 DEF Moves
<1>3. CASE i < n
  <2>1. stack'[i] = stack[i] /\ Holds(stack[i])
    BY <1>1, <1>3 DEF Moves, Holds
  <2>2. ~Holds(stack[n])
    BY <1>1, <1>3, <2>1 DEF GateInv, FlagInv
  <2> QED
    BY <1>1, <2>1, <2>2 DEF GateInv, LocalsInv
<1> QED
  BY <1>1, <1>2, <1>3

-----------------------------------------------------------------------------
(* The steps of a call.                                                    *)

\* GoTo and Result replace the running activation.
LEMMA StepMoves ==
  ASSUME GateInv, stack # << >>
  PROVE  /\ \A at \in Points : GoTo(at) =>
              /\ [Top EXCEPT !.at = at] \in Activations
              /\ Moves([Top EXCEPT !.at = at])
              /\ stack' \in Seq(Activations)
         /\ \A at \in Points, r \in Outcomes : Result(at, r) =>
              /\ [Top EXCEPT !.at = at, !.result = r] \in Activations
              /\ Moves([Top EXCEPT !.at = at, !.result = r])
              /\ stack' \in Seq(Activations)
<1> DEFINE n == Len(stack)
<1>1. stack \in Seq(Activations) /\ n \in Nat \ {0} /\ stack[n] \in Activations
  BY DEF GateInv, GateTypes
<1>2. ASSUME NEW at \in Points, GoTo(at)
      PROVE  /\ [Top EXCEPT !.at = at] \in Activations
             /\ Moves([Top EXCEPT !.at = at])
             /\ stack' \in Seq(Activations)
  <2>1. [stack[n] EXCEPT !.at = at] \in Activations
    BY <1>1 DEF Activations
  <2>2. stack' = [stack EXCEPT ![n] = [stack[n] EXCEPT !.at = at]]
    BY <1>2 DEF GoTo
  <2> QED
    BY <1>1, <2>1, <2>2, ExceptMoves DEF Top
<1>3. ASSUME NEW at \in Points, NEW r \in Outcomes, Result(at, r)
      PROVE  /\ [Top EXCEPT !.at = at, !.result = r] \in Activations
             /\ Moves([Top EXCEPT !.at = at, !.result = r])
             /\ stack' \in Seq(Activations)
  <2>1. [stack[n] EXCEPT !.at = at, !.result = r] \in Activations
    BY <1>1 DEF Activations
  <2>2. stack' = [stack EXCEPT ![n] = [stack[n] EXCEPT !.at = at, !.result = r]]
    BY <1>1, <1>3 DEF Result
  <2> QED
    BY <1>1, <2>1, <2>2, ExceptMoves DEF Top
<1> QED
  BY <1>2, <1>3

\* A step of a call that masks interrupts keeps the invariant if flag, locals
\* and grants agree with where it goes.
LEMMA MoveKeeps ==
  ASSUME GateInv, NEW a \in Activations, Moves(a), stack' \in Seq(Activations),
         a.before = stack[Len(stack)].before, a.was_enabled = a.before,
         a.at \notin {"entry", "handler"}, SIE' = FALSE, busy' \in BOOLEAN,
         \/ ~busy /\ Holds(a) /\ busy' = TRUE
         \/ Holds(stack[Len(stack)]) /\ ~Holds(a) /\ busy' = FALSE
         \/ (Holds(a) <=> Holds(stack[Len(stack)])) /\ busy' = busy,
         \/ /\ state' = state
            /\ a.at \in {"heap", "callback"} => state \in Nat /\ a.local = state
         \/ Holds(stack[Len(stack)]) /\ a.at \notin {"heap", "callback"},
         state' \in Nat \cup {None}, granted' \in Seq(Nat), GrantsInv'
  PROVE  GateInv'
<1>1. GateTypes'
  BY DEF GateTypes
<1>2. StackInv'
  BY MoveKeepsStack
<1>3. FlagInv'
  BY MoveKeepsFlag
<1>4. LocalsInv'
  BY MoveKeepsLocals
<1> QED
  BY <1>1, <1>2, <1>3, <1>4 DEF GateInv

\* A call past disable_interrupts runs masked, and its guard saved what its
\* caller had.
LEMMA Masked ==
  ASSUME GateInv, stack # << >>, Top.at \notin {"entry", "handler"}
  PROVE  SIE = FALSE /\ Top.was_enabled = Top.before
<1>1. stack \in Seq(Activations) /\ Len(stack) \in Nat \ {0}
  BY DEF GateInv, GateTypes
<1>2. SIE = Enabled(Top)
  BY <1>1 DEF GateInv, StackInv, Top
<1>3. ~Enabled(Top)
  BY DEF Enabled
<1>4. SIE = FALSE
  BY <1>2, <1>3, Zenon DEF GateInv, GateTypes
<1>5. Top.was_enabled = Top.before
  BY <1>1 DEF GateInv, StackInv, Top
<1> QED
  BY <1>4, <1>5

\* disable_interrupts.
LEMMA DisableStep == ASSUME GateInv, Disable PROVE GateInv'
<1> DEFINE n == Len(stack)
           a == [Top EXCEPT !.at = "acquire", !.was_enabled = SIE]
<1>1. stack # << >> /\ Top.at = "entry" /\ Top = stack[n]
  BY DEF Disable, Running, Top
<1>2. stack \in Seq(Activations) /\ n \in Nat \ {0} /\ Top \in Activations
  BY <1>1 DEF GateInv, GateTypes
<1>3. a \in Activations
  BY <1>2 DEF Activations, Points, GateInv, GateTypes
<1>4. stack' = [stack EXCEPT ![n] = a]
  BY <1>1, <1>2 DEF Disable
<1>5. Moves(a) /\ stack' \in Seq(Activations)
  BY <1>1, <1>2, <1>3, <1>4, ExceptMoves
<1>6. SIE = Top.before
  <2>1. SIE = Enabled(Top)
    BY <1>1, <1>2 DEF GateInv, StackInv
  <2>2. Top.before \in BOOLEAN /\ SIE \in BOOLEAN
    BY <1>2 DEF Activations, GateInv, GateTypes
  <2> QED
    BY <1>1, <2>1, <2>2, Zenon DEF Enabled
<1>7. a.at = "acquire" /\ a.before = Top.before /\ a.was_enabled = SIE
  BY <1>2 DEF Activations
<1>8. ~Holds(a) /\ ~Holds(Top)
  BY <1>1, <1>7 DEF Holds
<1>9. SIE' = FALSE /\ busy' = busy /\ state' = state /\ granted' = granted
  BY DEF Disable
<1>10. busy' \in BOOLEAN /\ state' \in Nat \cup {None} /\ granted' \in Seq(Nat) /\ GrantsInv'
  BY <1>9 DEF GateInv, GateTypes, GrantsInv
<1> HIDE DEF a
<1> QED
  BY <1>1, <1>3, <1>5, <1>6, <1>7, <1>8, <1>9, <1>10, MoveKeeps

\* The compare-exchange on the flag.
LEMMA AcquireStep == ASSUME GateInv, Acquire PROVE GateInv'
<1>1. stack # << >> /\ Top.at = "acquire" /\ Top = stack[Len(stack)] /\ Top \in Activations
  BY DEF Acquire, Running, Top, GateInv, GateTypes
<1>2. SIE = FALSE /\ Top.was_enabled = Top.before
  BY <1>1, Masked
<1>3. SIE' = FALSE /\ state' = state /\ granted' = granted
  BY <1>2 DEF Acquire
<1>4. state' \in Nat \cup {None} /\ granted' \in Seq(Nat) /\ GrantsInv'
  BY <1>3 DEF GateInv, GateTypes, GrantsInv
<1>5. CASE ~busy /\ busy' = TRUE /\ GoTo("begin")
  <2> DEFINE a == [Top EXCEPT !.at = "begin"]
  <2>1. a \in Activations /\ Moves(a) /\ stack' \in Seq(Activations)
    BY <1>1, <1>5, StepMoves DEF Points
  <2>2. a.at = "begin" /\ a.before = Top.before /\ a.was_enabled = Top.was_enabled
    BY <1>1 DEF Activations
  <2>3. Holds(a)
    BY <2>2 DEF Holds
  <2> HIDE DEF a
  <2> QED
    BY <1>1, <1>2, <1>3, <1>4, <1>5, <2>1, <2>2, <2>3, MoveKeeps
<1>6. CASE busy /\ Result("drop", "Busy") /\ UNCHANGED busy
  <2> DEFINE a == [Top EXCEPT !.at = "drop", !.result = "Busy"]
  <2>1. a \in Activations /\ Moves(a) /\ stack' \in Seq(Activations)
    BY <1>1, <1>6, StepMoves DEF Points, Outcomes
  <2>2. a.at = "drop" /\ a.before = Top.before /\ a.was_enabled = Top.was_enabled
    BY <1>1 DEF Activations
  <2>3. ~Holds(a) /\ ~Holds(Top)
    BY <1>1, <2>2 DEF Holds
  <2>4. busy' \in BOOLEAN
    BY <1>6 DEF GateInv, GateTypes
  <2> HIDE DEF a
  <2> QED
    BY <1>1, <1>2, <1>3, <1>4, <1>6, <2>1, <2>2, <2>3, <2>4, MoveKeeps
<1> QED
  BY <1>5, <1>6 DEF Acquire

\* An operation under the gate ends, with whatever it did to the state.
LEMMA OperationEnds ==
  ASSUME GateInv, stack # << >>, Holds(Top), NEW r \in Outcomes, Result("release", r),
         UNCHANGED <<SIE, busy>>,
         state' \in Nat \cup {None}, granted' \in Seq(Nat), GrantsInv'
  PROVE  GateInv'
<1> DEFINE a == [Top EXCEPT !.at = "release", !.result = r]
<1>1. Top = stack[Len(stack)] /\ Top \in Activations /\ Top.at \notin {"entry", "handler"}
  BY DEF Top, GateInv, GateTypes, Holds
<1>2. SIE' = FALSE /\ Top.was_enabled = Top.before
  BY <1>1, Masked
<1>3. a \in Activations /\ Moves(a) /\ stack' \in Seq(Activations)
  BY StepMoves DEF Points
<1>4. a.at = "release" /\ a.before = Top.before /\ a.was_enabled = Top.was_enabled
  BY <1>1 DEF Activations
<1>5. Holds(a)
  BY <1>4 DEF Holds
<1>6. busy' = busy /\ busy' \in BOOLEAN
  BY DEF GateInv, GateTypes
<1> HIDE DEF a
<1> QED
  BY <1>1, <1>2, <1>3, <1>4, <1>5, <1>6, MoveKeeps

\* initialize.
LEMMA InitializeStep == ASSUME GateInv, Initialize PROVE GateInv'
<1>1. stack # << >> /\ Holds(Top) /\ UNCHANGED <<SIE, busy>> /\ granted' = granted
  BY DEF Initialize, Running, Holds
<1>2. granted' \in Seq(Nat)
  BY <1>1 DEF GateInv, GateTypes
<1>3. CASE state = None /\ Result("release", "Ok") /\ state' = 0
  <2>1. GrantsInv'
    BY <1>1, <1>3, NoneIsNoCounter DEF GateInv, GrantsInv
  <2> QED
    BY <1>1, <1>2, <1>3, <2>1, OperationEnds DEF Outcomes
<1>4. CASE Result("release", "AlreadyInitialized") /\ UNCHANGED state
  <2>1. GrantsInv' /\ state' \in Nat \cup {None}
    BY <1>1, <1>4 DEF GateInv, GateTypes, GrantsInv
  <2> QED
    BY <1>1, <1>2, <1>4, <2>1, OperationEnds DEF Outcomes
<1> QED
  BY <1>3, <1>4 DEF Initialize

\* alloc and with_paging before initialize.
LEMMA NotInitializedStep == ASSUME GateInv, NotInitialized PROVE GateInv'
<1>1. stack # << >> /\ Holds(Top) /\ UNCHANGED <<SIE, busy>> /\ granted' = granted /\ state' = state
  BY DEF NotInitialized, Running, Holds
<1>2. granted' \in Seq(Nat) /\ state' \in Nat \cup {None} /\ GrantsInv'
  BY <1>1 DEF GateInv, GateTypes, GrantsInv
<1> QED
  BY <1>1, <1>2, OperationEnds DEF Outcomes, NotInitialized

\* alloc and with_paging borrow the state.
LEMMA BeginStep == ASSUME GateInv, Begin PROVE GateInv'
<1> DEFINE n == Len(stack)
           at == IF Top.op = "alloc" THEN "heap" ELSE "callback"
           a == [Top EXCEPT !.local = state, !.at = at]
<1>1. stack # << >> /\ Top.at = "begin" /\ Top = stack[n]
  BY DEF Begin, Running, Top
<1>2. stack \in Seq(Activations) /\ n \in Nat \ {0} /\ Top \in Activations
  BY <1>1 DEF GateInv, GateTypes
<1>3. state \in Nat
  BY DEF GateInv, GateTypes, Begin
<1>4. a \in Activations
  BY <1>2, <1>3 DEF Activations, Points
<1>5. stack' = [stack EXCEPT ![n] = a]
  BY <1>1, <1>2 DEF Begin
<1>6. Moves(a) /\ stack' \in Seq(Activations)
  BY <1>1, <1>2, <1>4, <1>5, ExceptMoves
<1>7. /\ a.at \in {"heap", "callback"} /\ a.local = state
      /\ a.before = Top.before /\ a.was_enabled = Top.was_enabled
  BY <1>2 DEF Activations
<1>8. Holds(a) /\ Holds(Top)
  BY <1>1, <1>7 DEF Holds
<1>9. SIE = FALSE /\ Top.was_enabled = Top.before
  BY <1>1, Masked
<1>10. SIE' = SIE /\ busy' = busy /\ state' = state /\ granted' = granted
  BY DEF Begin
<1>11. busy' \in BOOLEAN /\ state' \in Nat \cup {None} /\ granted' \in Seq(Nat) /\ GrantsInv'
  BY <1>10 DEF GateInv, GateTypes, GrantsInv
<1> HIDE DEF a
<1> QED
  BY <1>1, <1>3, <1>4, <1>6, <1>7, <1>8, <1>9, <1>10, <1>11, MoveKeeps

\* The operation hands out memory or fails.
LEMMA FinishStep == ASSUME GateInv, Finish PROVE GateInv'
<1>1. stack # << >> /\ Top.at \in {"heap", "callback"} /\ UNCHANGED <<SIE, busy>>
  BY DEF Finish, Running
<1>2. Holds(Top)
  BY <1>1 DEF Holds
<1>3. state \in Nat /\ Top.local = state
  <2>1. Len(stack) \in Nat \ {0}
    BY <1>1 DEF GateInv, GateTypes
  <2> QED
    BY <1>1, <2>1 DEF GateInv, LocalsInv, Top
<1>4. CASE state' = Top.local + 1 /\ granted' = Append(granted, Top.local) /\ Result("release", "Ok")
  <2> DEFINE m == Len(granted)
  <2>1. granted \in Seq(Nat) /\ m \in Nat
    BY DEF GateInv, GateTypes
  <2>2. /\ granted' \in Seq(Nat) /\ Len(granted') = m + 1
        /\ granted'[m + 1] = state /\ \A i \in 1 .. m : granted'[i] = granted[i]
    BY <1>3, <1>4, <2>1
  <2>3. state' = state + 1 /\ state' \in Nat
    BY <1>3, <1>4
  <2>4. \A i \in 1 .. m : granted[i] \in Nat /\ granted[i] < state
    BY <2>1 DEF GateInv, GrantsInv
  <2>5. \A i \in 1 .. m + 1 : granted'[i] < state'
    <3> TAKE i \in 1 .. m + 1
    <3>1. CASE i = m + 1
      BY <1>3, <2>2, <2>3, <3>1
    <3>2. CASE i \in 1 .. m
      <4>1. granted'[i] = granted[i] /\ granted[i] \in Nat /\ granted[i] < state
        BY <2>2, <2>4, <3>2
      <4> QED
        BY <1>3, <2>3, <4>1
    <3> QED
      BY <2>1, <3>1, <3>2
  <2>6. \A i, j \in 1 .. m + 1 : i # j => granted'[i] # granted'[j]
    <3> HIDE DEF m
    <3>1. ASSUME NEW i \in 1 .. m PROVE granted'[i] # granted'[m + 1]
      <4>1. granted[i] \in Nat /\ granted[i] < state
        BY <2>4
      <4> QED
        BY <1>3, <2>2, <4>1
    <3>2. ASSUME NEW i \in 1 .. m, NEW j \in 1 .. m, i # j PROVE granted'[i] # granted'[j]
      BY <2>2, <3>2 DEF GateInv, GrantsInv, m
    <3>3. \A i \in 1 .. m + 1 : i \in 1 .. m \/ i = m + 1
      BY <2>1
    <3> QED
      BY <3>1, <3>2, <3>3
  <2>7. GrantsInv'
    BY <2>2, <2>3, <2>5, <2>6 DEF GrantsInv
  <2> QED
    BY <1>1, <1>2, <1>4, <2>2, <2>3, <2>7, OperationEnds DEF Outcomes
<1>5. CASE Result("release", "Failed") /\ state' \in {Top.local, Top.local + 1} /\ UNCHANGED granted
  <2>1. state' \in Nat /\ state' >= state
    BY <1>3, <1>5
  <2>2. granted' \in Seq(Nat) /\ GrantsInv'
    BY <1>3, <1>5, <2>1 DEF GateInv, GateTypes, GrantsInv
  <2> QED
    BY <1>1, <1>2, <1>5, <2>1, <2>2, OperationEnds DEF Outcomes
<1> QED
  BY <1>4, <1>5 DEF Finish

\* StateGuard::drop.
LEMMA ReleaseStep == ASSUME GateInv, Release PROVE GateInv'
<1> DEFINE a == [Top EXCEPT !.at = "drop"]
<1>1. stack # << >> /\ Top.at = "release" /\ Top = stack[Len(stack)] /\ Top \in Activations
  BY DEF Release, Running, Top, GateInv, GateTypes
<1>2. a \in Activations /\ Moves(a) /\ stack' \in Seq(Activations)
  BY <1>1, StepMoves DEF Points, Release
<1>3. a.at = "drop" /\ a.before = Top.before /\ a.was_enabled = Top.was_enabled
  BY <1>1 DEF Activations
<1>4. Holds(Top) /\ ~Holds(a)
  BY <1>1, <1>3 DEF Holds
<1>5. SIE = FALSE /\ Top.was_enabled = Top.before
  BY <1>1, Masked
<1>6. SIE' = SIE /\ busy' = FALSE /\ state' = state /\ granted' = granted
  BY DEF Release
<1>7. state' \in Nat \cup {None} /\ granted' \in Seq(Nat) /\ GrantsInv'
  BY <1>6 DEF GateInv, GateTypes, GrantsInv
<1> HIDE DEF a
<1> QED
  BY <1>1, <1>2, <1>3, <1>4, <1>5, <1>6, <1>7, MoveKeeps

\* InterruptGuard::drop and the return, and the sret of a handler, give SIE the
\* value the caller had.
LEMMA LeavesRestored ==
  ASSUME GateInv, Return \/ HandlerReturns
  PROVE  SIE' = Top.before /\ GateInv'
<1>1. /\ stack # << >> /\ Top.at \in {"handler", "drop"} /\ stack' = Popped
      /\ Top = stack[Len(stack)] /\ UNCHANGED <<busy, state, granted>>
  BY DEF Return, HandlerReturns, Running, Top
<1>2. stack \in Seq(Activations) /\ Top \in Activations
  BY <1>1 DEF GateInv, GateTypes
<1>3. SIE' = Top.before
  <2>1. CASE Return
    BY <1>1, <2>1, Masked DEF Return, Running, GuardRestores
  <2>2. CASE HandlerReturns
    BY <2>2 DEF HandlerReturns
  <2> QED
    BY <2>1, <2>2
<1>4. SIE' \in BOOLEAN
  BY <1>2, <1>3 DEF Activations
<1>5. Pops /\ stack' \in Seq(Activations)
  BY <1>1, <1>2, PoppedPops
<1>6. GateInv'
  BY <1>1, <1>3, <1>4, <1>5, PopKeeps
<1> QED
  BY <1>3, <1>6

\* A call, or an interrupt.
LEMMA EnterStep ==
  ASSUME GateInv, Interrupt \/ \E op \in Ops : Call(op)
  PROVE  GateInv'
<1>1. stack \in Seq(Activations) /\ SIE \in BOOLEAN /\ Len(stack) \in Nat
  BY DEF GateInv, GateTypes
<1>2. UNCHANGED <<busy, state, granted>>
  BY DEF Interrupt, Call
<1>3. CASE Interrupt
  <2> DEFINE a == Activation("handler", "handler")
  <2>1. a \in Activations
    BY <1>1 DEF Activation, Activations, Points, Outcomes
  <2>2. a.at = "handler" /\ a.before = SIE
    BY DEF Activation
  <2>3. Pushes(a) /\ stack' \in Seq(Activations)
    BY <1>1, <1>3, <2>1, AppendPushes DEF Interrupt
  <2>4. Len(stack) > 0 => stack[Len(stack)].at = "entry"
    <3>1. SIE
      BY <1>3 DEF Interrupt
    <3>2. Len(stack) > 0 => SIE = Enabled(stack[Len(stack)])
      BY DEF GateInv, StackInv
    <3> QED
      BY <3>1, <3>2, Zenon DEF Enabled
  <2>5. SIE' = FALSE
    BY <1>3 DEF Interrupt
  <2>6. ~Holds(a) /\ SIE' = Enabled(a)
    BY <2>2, <2>5 DEF Holds, Enabled
  <2> HIDE DEF a
  <2> QED
    BY <1>2, <2>1, <2>2, <2>3, <2>4, <2>5, <2>6, PushKeeps
<1>4. ASSUME NEW op \in Ops, Call(op) PROVE GateInv'
  <2> DEFINE a == Activation(op, "entry")
  <2>1. a \in Activations
    BY <1>1 DEF Activation, Activations, Points, Outcomes
  <2>2. a.at = "entry" /\ a.before = SIE
    BY DEF Activation
  <2>3. Pushes(a) /\ stack' \in Seq(Activations)
    BY <1>1, <1>4, <2>1, AppendPushes DEF Call
  <2>4. Len(stack) > 0 => stack[Len(stack)].at \in {"handler", "callback"}
    BY <1>4 DEF Call, Running, Top
  <2>5. SIE' = SIE
    BY <1>4 DEF Call
  <2>6. ~Holds(a)
    BY <2>2 DEF Holds
  <2>7. SIE' = Enabled(a)
    BY <1>1, <2>2, <2>5, Zenon DEF Enabled
  <2> HIDE DEF a
  <2> QED
    BY <1>1, <1>2, <2>1, <2>2, <2>3, <2>4, <2>5, <2>6, <2>7, PushKeeps
<1> QED
  BY <1>3, <1>4

\* Every step keeps the invariant.
LEMMA GateStep ==
  ASSUME GateInv, [Next]_vars
  PROVE  GateInv'
<1>1. CASE Enable
  <2>1. stack = << >> /\ SIE' = TRUE /\ UNCHANGED <<busy, state, stack, granted>>
    BY <1>1 DEF Enable
  <2> QED
    BY <2>1 DEF GateInv, GateTypes, StackInv, FlagInv, LocalsInv, GrantsInv
<1>2. CASE UNCHANGED vars
  BY <1>2 DEF vars, GateInv, GateTypes, StackInv, FlagInv, LocalsInv, GrantsInv
<1>3. CASE Interrupt \/ \E op \in Ops : Call(op)
  BY <1>3, EnterStep
<1>4. CASE Return \/ HandlerReturns
  BY <1>4, LeavesRestored
<1> QED
  BY <1>1, <1>2, <1>3, <1>4, DisableStep, AcquireStep, InitializeStep, NotInitializedStep,
     BeginStep, FinishStep, ReleaseStep
     DEF Next, CallStep, CallbackEnds

\* The invariant holds throughout.
THEOREM GateInvHolds == Spec => []GateInv
<1>1. Init => GateInv
  <2> SUFFICES ASSUME Init PROVE GateInv
    OBVIOUS
  <2>1. SIE = FALSE /\ busy = FALSE /\ state = None /\ stack = << >> /\ granted = << >>
    BY DEF Init
  <2>2. Len(stack) = 0 /\ Len(granted) = 0
    BY <2>1
  <2>3. GateTypes
    BY <2>1, EmptySeq DEF GateTypes
  <2>4. StackInv /\ LocalsInv /\ GrantsInv
    BY <2>2 DEF StackInv, LocalsInv, GrantsInv
  <2>5. FlagInv
    BY <2>1, <2>2 DEF FlagInv
  <2> QED
    BY <2>3, <2>4, <2>5 DEF GateInv
<1>2. GateInv /\ [Next]_vars => GateInv'
  BY GateStep
<1> QED
  BY <1>1, <1>2, PTL DEF Spec

\* The invariant gives the gate's promises.
LEMMA InvGivesPromises ==
  ASSUME GateInv
  PROVE  GateExclusive /\ GrantsDistinct
<1>1. stack \in Seq(Activations) /\ DOMAIN stack = 1 .. Len(stack) /\ Len(stack) \in Nat
  BY DEF GateInv, GateTypes
<1>2. Holders = {i \in 1 .. Len(stack) : Holds(stack[i])}
  BY <1>1 DEF Holders, Holds
<1>3. busy <=> Holders # {}
  BY <1>2 DEF GateInv, FlagInv
<1>4. busy = (Holders # {})
  BY <1>3, Zenon DEF GateInv, GateTypes
<1>5. \A i, j \in Holders : i = j
  BY <1>2 DEF GateInv, FlagInv
<1>6. ASSUME busy, SIE PROVE FALSE
  <2>1. PICK i \in 1 .. Len(stack) : Holds(stack[i])
    BY <1>6, Zenon DEF GateInv, FlagInv
  <2>2. Len(stack) > 0 /\ Len(stack) \in 1 .. Len(stack)
    BY <1>1, <2>1
  <2>3. SIE = Enabled(stack[Len(stack)])
    BY <2>2, Zenon DEF GateInv, StackInv
  <2>4. Enabled(stack[Len(stack)])
    BY <1>6, <2>3, Zenon
  <2>5. i # Len(stack)
    BY <2>1, <2>4 DEF Holds, Enabled
  <2>6. Len(stack) > i
    <3>1. \A n \in Nat : \A k \in 1 .. n : k # n => n > k
      OBVIOUS
    <3> QED
      BY <1>1, <2>1, <2>5, <3>1, Zenon
  <2> QED
    BY <2>1, <2>2, <2>4, <2>6, Zenon DEF GateInv, StackInv, Enabled
<1>7. GateExclusive
  BY <1>4, <1>5, <1>6, Zenon DEF GateExclusive
<1>8. GrantsDistinct
  <2>1. DOMAIN granted = 1 .. Len(granted)
    BY DEF GateInv, GateTypes
  <2> QED
    BY <2>1, Zenon DEF GateInv, GrantsInv, GrantsDistinct
<1> QED
  BY <1>7, <1>8

\* For any nesting of calls, callbacks and handlers the gate has one holder at
\* most, the flag says whether it has, and interrupts are masked while it has.
THEOREM GateIsExclusive == Spec => []GateExclusive
<1>1. GateInv => GateExclusive
  BY InvGivesPromises
<1> QED
  BY <1>1, GateInvHolds, PTL

\* No memory is handed out twice, however calls, callbacks and handlers are
\* interleaved and however much memory there is.
THEOREM GrantsAreDistinct == Spec => []GrantsDistinct
<1>1. GateInv => GrantsDistinct
  BY InvGivesPromises
<1> QED
  BY <1>1, GateInvHolds, PTL

\* Every call and every handler leaves the interrupt enable as it found it.
THEOREM InterruptsAreRestored == Spec => InterruptsRestored
<1>1. GateInv /\ [Next]_vars => [Len(stack') < Len(stack) => SIE' = Top.before]_vars
  <2> SUFFICES ASSUME GateInv, Next, Len(stack') < Len(stack)
               PROVE  SIE' = Top.before
    OBVIOUS
  <2>1. CASE Return \/ HandlerReturns
    BY <2>1, LeavesRestored
  <2>2. CASE Enable
    BY <2>2 DEF Enable, GateInv, GateTypes
  <2>3. CASE Interrupt \/ \E op \in Ops : Call(op)
    BY <2>3 DEF Interrupt, Call, GateInv, GateTypes
  <2>4. CASE Disable \/ Acquire \/ Initialize \/ NotInitialized \/ Begin \/ Finish \/ Release
    <3>1. stack # << >>
      BY <2>4 DEF Disable, Acquire, Initialize, NotInitialized, Begin, Finish, Release, Running
    <3>2. Len(stack') = Len(stack)
      BY <2>4 DEF Disable, Acquire, Initialize, NotInitialized, Begin, Finish, Release,
                  GoTo, Result, GateInv, GateTypes
    <3> QED
      BY <3>2 DEF GateInv, GateTypes
  <2> QED
    BY <2>1, <2>2, <2>3, <2>4 DEF Next, CallStep, CallbackEnds
<1> QED
  BY <1>1, GateInvHolds, PTL DEF Spec, InterruptsRestored

=============================================================================
