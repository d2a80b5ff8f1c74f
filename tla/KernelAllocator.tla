-------------------------- MODULE KernelAllocator --------------------------
(***************************************************************************)
(* The gate around the kernel's memory state,                              *)
(* kernel/src/memory/allocator.rs, with the interrupt guard it uses,       *)
(* arch/riscv64/interrupt.rs.                                              *)
(*                                                                         *)
(* One hart runs a stack of activations: calls of alloc(), with_paging()   *)
(* and initialize(), made by the kernel, by a callback of with_paging() or *)
(* by an interrupt handler, and the handlers themselves. Whenever SIE is   *)
(* set an interrupt may come between two steps. Handlers are arbitrary:    *)
(* the gate has to withstand any of them (today's timer handler does not   *)
(* allocate). dealloc() does nothing.                                      *)
(*                                                                         *)
(* Heap, paging and frame allocator are one counter that an operation      *)
(* reads when it starts and writes when it ends, so that two operations    *)
(* that overlap hand out the same memory.                                  *)
(***************************************************************************)
EXTENDS Integers, Sequences

CONSTANTS
  MaxDepth,       \* bound: nested activations (no more than four ever nest)
  MaxGrants,      \* the memory there is: grants before everything is used up
  None

ASSUME MaxDepthAssumption == MaxDepth \in Nat

ASSUME MaxGrantsAssumption == MaxGrants \in Nat

ASSUME NoneIsNoCounter == None \notin Nat

VARIABLES
  SIE,        \* sstatus.SIE
  busy,       \* KernelAllocator::busy
  state,      \* KernelAllocator::state: None, or the next memory to hand out
  stack,      \* the activations, the running one last
  granted     \* history: the memory handed out, in order

vars == <<SIE, busy, state, stack, granted>>

Ops == {"alloc", "with_paging", "initialize"}

Top == stack[Len(stack)]

Popped == SubSeq(stack, 1, Len(stack) - 1)

Running(at) == stack # << >> /\ Top.at = at

\* The running activation goes on to another point.
GoTo(at) == stack' = [stack EXCEPT ![Len(stack)].at = at]

\* The running activation has its result.
Result(at, result) == stack' = [stack EXCEPT ![Len(stack)].at = at, ![Len(stack)].result = result]

\* before is history: the value of SIE the caller ran with.
Activation(op, at) ==
  [op |-> op, at |-> at, was_enabled |-> FALSE, local |-> None, result |-> None, before |-> SIE]

-----------------------------------------------------------------------------
Init ==
  /\ SIE = FALSE
  /\ busy = FALSE
  /\ state = None
  /\ stack = << >>
  /\ granted = << >>

\* run_kernel enables interrupts for good.
Enable ==
  /\ stack = << >>
  /\ SIE' = TRUE
  /\ UNCHANGED <<busy, state, stack, granted>>

\* An interrupt is taken; the handler runs with interrupts masked.
Interrupt ==
  /\ SIE
  /\ Len(stack) < MaxDepth
  /\ stack' = Append(stack, Activation("handler", "handler"))
  /\ SIE' = FALSE
  /\ UNCHANGED <<busy, state, granted>>

\* sret: SIE is what it was.
HandlerReturns ==
  /\ Running("handler")
  /\ stack' = Popped
  /\ SIE' = Top.before
  /\ UNCHANGED <<busy, state, granted>>

\* Code that may call the allocator: the kernel, a handler, a callback.
Call(op) ==
  /\ stack = << >> \/ Running("handler") \/ Running("callback")
  /\ Len(stack) < MaxDepth
  /\ stack' = Append(stack, Activation(op, "entry"))
  /\ UNCHANGED <<SIE, busy, state, granted>>

\* Variant: the guard is taken but interrupts are not masked.
DisableNothing ==
  /\ Running("entry")
  /\ stack' = [stack EXCEPT ![Len(stack)].at = "acquire", ![Len(stack)].was_enabled = SIE]
  /\ UNCHANGED <<SIE, busy, state, granted>>

\* with_state: disable_interrupts.
Disable ==
  /\ Running("entry")
  /\ stack' = [stack EXCEPT ![Len(stack)].at = "acquire", ![Len(stack)].was_enabled = SIE]
  /\ SIE' = FALSE
  /\ UNCHANGED <<busy, state, granted>>

\* Variant: the gate is taken whoever holds it.
AcquireAlways ==
  /\ Running("acquire")
  /\ busy' = TRUE
  /\ GoTo("begin")
  /\ UNCHANGED <<SIE, state, granted>>

\* Variant: the call waits for the gate.
AcquireWaits ==
  /\ Running("acquire")
  /\ \/ /\ ~busy
        /\ busy' = TRUE
        /\ GoTo("begin")
     \/ /\ busy
        /\ UNCHANGED <<busy, stack>>
  /\ UNCHANGED <<SIE, state, granted>>

\* with_state: the compare-exchange takes the gate, or the call gives up and
\* only drops its interrupt guard.
Acquire ==
  /\ Running("acquire")
  /\ \/ /\ ~busy
        /\ busy' = TRUE
        /\ GoTo("begin")
     \/ /\ busy
        /\ Result("drop", "Busy")
        /\ UNCHANGED busy
  /\ UNCHANGED <<SIE, state, granted>>

\* initialize: install the state unless there is one.
Initialize ==
  /\ Running("begin")
  /\ Top.op = "initialize"
  /\ \/ state = None /\ Result("release", "Ok") /\ state' = 0
     \/ state # None /\ Result("release", "AlreadyInitialized") /\ UNCHANGED state
  /\ UNCHANGED <<SIE, busy, granted>>

\* alloc and with_paging without a state: null or an error.
NotInitialized ==
  /\ Running("begin")
  /\ Top.op \in {"alloc", "with_paging"}
  /\ state = None
  /\ Result("release", "NotInitialized")
  /\ UNCHANGED <<SIE, busy, state, granted>>

\* alloc and with_paging borrow the state for their operation. The one of alloc
\* calls nothing that allocates; the callback of with_paging is arbitrary.
Begin ==
  /\ Running("begin")
  /\ Top.op \in {"alloc", "with_paging"}
  /\ state # None
  /\ stack' = [stack EXCEPT ![Len(stack)].local = state,
                            ![Len(stack)].at = IF Top.op = "alloc" THEN "heap" ELSE "callback"]
  /\ UNCHANGED <<SIE, busy, state, granted>>

\* The frame allocator and the heap's range still hold something.
HasMemory(next) == next < MaxGrants

\* The operation hands out memory, or fails, with or without having used some:
\* what a half-done mapping consumed is not given back.
Finish ==
  /\ Running("heap") \/ Running("callback")
  /\ \/ /\ HasMemory(Top.local)
        /\ state' = Top.local + 1
        /\ granted' = Append(granted, Top.local)
        /\ Result("release", "Ok")
     \/ /\ Result("release", "Failed")
        /\ state' = Top.local \/ (HasMemory(Top.local) /\ state' = Top.local + 1)
        /\ UNCHANGED granted
  /\ UNCHANGED <<SIE, busy>>

\* Variant: the gate stays taken when the operation has failed.
ReleaseOnSuccess ==
  /\ Running("release")
  /\ busy' = (Top.result = "Failed")
  /\ GoTo("drop")
  /\ UNCHANGED <<SIE, state, granted>>

\* StateGuard::drop.
Release ==
  /\ Running("release")
  /\ busy' = FALSE
  /\ GoTo("drop")
  /\ UNCHANGED <<SIE, state, granted>>

\* Variant: the guard always enables interrupts.
GuardEnables == TRUE

\* InterruptGuard::drop restores the state the guard saved.
GuardRestores == Top.was_enabled

\* with_state returns.
Return ==
  /\ Running("drop")
  /\ SIE' = GuardRestores
  /\ stack' = Popped
  /\ UNCHANGED <<busy, state, granted>>

\* The steps of a call that is not waiting for a callback.
CallStep ==
  \/ Disable \/ Acquire \/ Initialize \/ NotInitialized \/ Begin
  \/ (Running("heap") /\ Finish) \/ Release \/ Return

CallbackEnds == Running("callback") /\ Finish

Next == Enable \/ Interrupt \/ HandlerReturns \/ (\E op \in Ops : Call(op)) \/ CallStep \/ CallbackEnds

Spec == Init /\ [][Next]_vars

\* Each activation makes progress whenever it runs again, however often it is
\* interrupted or calls on: interrupts are 10 ms apart, and handlers and
\* callbacks are finite code.
Progress(d) == Len(stack) = d /\ (CallStep \/ CallbackEnds \/ HandlerReturns)

FairSpec == Spec /\ \A d \in 1 .. MaxDepth : SF_vars(Progress(d))

-----------------------------------------------------------------------------
\* The activations between acquiring and releasing the gate.
Holders == {i \in DOMAIN stack : stack[i].at \in {"begin", "heap", "callback", "release"}}

\* The gate is held by one activation at most, and the flag says whether it is;
\* while it is held, interrupts are masked, so that only a callback's own calls
\* ever find it taken.
GateExclusive ==
  /\ busy = (Holders # {})
  /\ \A i, j \in Holders : i = j
  /\ busy => ~SIE

\* A request is refused as busy only to a call that a callback made itself: no
\* interrupt handler ever loses an allocation to the code it interrupted.
RefusalIsRecursive ==
  \A i \in DOMAIN stack :
    stack[i].result = "Busy" =>
      \E j \in 1 .. i - 1 :
        /\ stack[j].at = "callback"
        /\ \A k \in j + 1 .. i : stack[k].op # "handler"

\* No memory is handed out twice, whatever allocations, callbacks, handlers and
\* repeated initializations are interleaved.
GrantsDistinct == \A i, j \in DOMAIN granted : i # j => granted[i] # granted[j]

\* Every call leaves the interrupt enable as its caller had it, on success, on
\* failure, on refusal and when it was interrupted on the way.
InterruptsRestored ==
  [][Len(stack') < Len(stack) => SIE' = Top.before]_vars

\* Every call returns, a recursive one included: the gate never waits.
CallsReturn ==
  \A d \in 1 .. MaxDepth : Len(stack) >= d ~> Len(stack) < d

=============================================================================
