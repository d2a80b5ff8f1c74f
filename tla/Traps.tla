------------------------------- MODULE Traps -------------------------------
(***************************************************************************)
(* Trap entry, dispatch and return, the periodic timer and the way into    *)
(* user mode: arch/riscv64/{trap,timer,time,interrupt}.rs, arch/riscv64.rs,*)
(* process.rs (run, exit, fault, idle), process/syscall.rs and the         *)
(* skeleton of main() and run_kernel() around them.                        *)
(*                                                                         *)
(* One hart. Whenever sstatus.SIE is set or the hart is in user mode, the  *)
(* timer may interrupt between two steps. An address on a stack is the     *)
(* stack and the number of trap frames below its top; sscratch holds one   *)
(* or None for zero. The user program is arbitrary.                        *)
(***************************************************************************)
EXTENDS Integers, Sequences

CONSTANTS
  MaxTicks,     \* bound: timer events the firmware raises
  None

ASSUME MaxTicksAssumption == MaxTicks \in Nat

\* No stack is at address zero.
ASSUME NoneIsNoStack == None \notin [stack : {"boot", "kernel", "user"}, depth : Nat]

VARIABLES
  mode,           \* privilege mode: "S" or "U"
  SIE,            \* sstatus.SIE
  STIE,           \* sie.STIE, the timer's own enable bit
  sscratch,       \* where trap entry finds a supervisor stack
  sp,             \* stack pointer
  pc,             \* what the hart executes next
  regs,           \* the other integer registers: a0, a7 and one more
  frames,         \* the trap frames in stack memory
  pending,        \* sip.STIP
  armed,          \* firmware holds a deadline that has not passed
  time_state,     \* time::STATE
  interval,       \* timer::INTERVAL is not zero
  ticks,          \* timer::TICKS
  user_ticks,     \* USER_TICKS
  boot_guard,     \* boot_interrupts.was_enabled
  initial_ticks,  \* the local of run_kernel
  owed            \* history: the contexts that were interrupted, and where

hart == <<mode, SIE, sscratch, sp, pc, regs, frames, owed>>

timer == <<STIE, pending, armed, interval, ticks>>

boot == <<boot_guard, initial_ticks>>

vars == <<mode, SIE, STIE, sscratch, sp, pc, regs, frames, pending, armed, time_state,
          interval, ticks, user_ticks, boot_guard, initial_ticks, owed>>

At(stack, depth) == [stack |-> stack, depth |-> depth]

\* Room for trap frames on each stack, one more than are ever live.
MaxDepth == 3

\* Scalar results and arguments of the syscall ABI, user/abi.
ERROR_IO == -5

ERROR_INVALID_ARGUMENT == -22

ERROR_NOT_SUPPORTED == -38

Byte == 65

NotAByte == 256

Calls == {"CONSOLE_WRITE_BYTE", "EXIT", "TIMER_TICKS", "unknown"}

ZeroRegisters == [a0 |-> 0, a7 |-> "unknown", x |-> 0]

\* What an interrupted program notices of the hart.
Context == [mode |-> mode, SIE |-> SIE, sp |-> sp, pc |-> pc, regs |-> regs]

-----------------------------------------------------------------------------
(* Hardware.                                                               *)

\* The deadline passes.
Expire ==
  /\ armed
  /\ ~pending
  /\ ticks < MaxTicks
  /\ pending' = TRUE
  /\ armed' = FALSE
  /\ UNCHANGED <<hart, boot, STIE, time_state, interval, ticks, user_ticks>>

\* Variant: the interrupted stack pointer, swapped in by csrrw, stays there.
ScratchLeft == IF sscratch = None THEN None ELSE sp

\* csrw sscratch, zero: from here on a trap stays on the current stack.
ScratchInHandler == None

\* Hardware trap entry and __trap_entry: a nonzero sscratch is the supervisor
\* stack to use, otherwise the trap stays on the stack it interrupted.
TrapEntry(cause) ==
  LET base == IF sscratch = None THEN sp ELSE sscratch
      new == At(base.stack, base.depth + 1)
  IN  /\ frames' = [frames EXCEPT ![new.stack][new.depth] =
            [sp |-> sp, epc |-> pc, regs |-> regs, spp |-> mode, spie |-> SIE, cause |-> cause]]
      /\ owed' = Append(owed, [at |-> new, context |-> Context])
      /\ sp' = new
      /\ sscratch' = ScratchInHandler
      /\ mode' = "S"
      /\ SIE' = FALSE
      /\ pc' = "handler"
      /\ regs' = ZeroRegisters

\* A pending, enabled timer interrupt is taken.
Interrupt ==
  /\ pending
  /\ STIE
  /\ mode = "U" \/ SIE
  /\ TrapEntry("timer")
  /\ UNCHANGED <<timer, boot, time_state, user_ticks>>

-----------------------------------------------------------------------------
(* The trap handler.                                                       *)

Frame == frames[sp.stack][sp.depth]

FromUser == Frame.spp = "U"

\* fatal() and halt(): counter reads off, interrupts off, parked.
Halt ==
  /\ pc' = "halted"
  /\ SIE' = FALSE
  /\ UNCHANGED <<mode, sscratch, sp, regs, frames, owed>>

\* trap_handler: the probe's instruction faulted; resume at its other exit.
\* The context that is owed changes with it.
RecoverProbe ==
  /\ pc = "handler"
  /\ Frame.cause = "illegal"
  /\ ~FromUser
  /\ Frame.epc = "probe_read"
  /\ frames' = [frames EXCEPT ![sp.stack][sp.depth].epc = "probe_unavailable"]
  /\ owed' = [owed EXCEPT ![Len(owed)].context.pc = "probe_unavailable"]
  /\ pc' = "restore"
  /\ UNCHANGED <<timer, boot, mode, SIE, sscratch, sp, regs, time_state, user_ticks>>

\* Variant: no new deadline is programmed.
NotRearmed == FALSE

\* set_timer(next_deadline(interval)): a later deadline is in force.
Rearmed == TRUE

UserTicksAfter == IF FromUser THEN user_ticks + 1 ELSE user_ticks

\* trap_handler and timer::handle_interrupt: a later deadline is programmed,
\* which clears the pending bit, and the tick is counted.
Tick ==
  /\ pc = "handler"
  /\ Frame.cause = "timer"
  /\ interval /\ time_state = "AVAILABLE"
  /\ pending' = FALSE
  /\ armed' = Rearmed
  /\ ticks' = ticks + 1
  /\ user_ticks' = UserTicksAfter
  /\ pc' = "restore"
  /\ UNCHANGED <<boot, mode, SIE, STIE, sscratch, sp, regs, frames, owed, time_state, interval>>

\* handle_interrupt fails: the deadline overflows or firmware rejects it, or
\* the timer or the counter were never set up.
TickFails ==
  /\ pc = "handler"
  /\ Frame.cause = "timer"
  /\ Halt
  /\ time_state' = "UNAVAILABLE"
  /\ UNCHANGED <<timer, boot, user_ticks>>

\* syscall::handle for the calls that return; the console may fail.
Results(call, argument) ==
  CASE call = "CONSOLE_WRITE_BYTE" ->
         IF argument \in 0 .. 255 THEN {0, ERROR_IO} ELSE {ERROR_INVALID_ARGUMENT}
    [] call = "TIMER_TICKS" -> {user_ticks}
    [] OTHER -> {ERROR_NOT_SUPPORTED}

\* epc + 4, which cannot overflow: user text lies below the user stack.
BehindEcall(epc) == "user"

\* trap_handler on a system call that returns: continue behind the ecall with
\* the result in a0.
Syscall ==
  /\ pc = "handler"
  /\ Frame.cause = "ecall"
  /\ FromUser
  /\ Frame.regs.a7 # "EXIT"
  /\ \E result \in Results(Frame.regs.a7, Frame.regs.a0) :
       /\ frames' = [frames EXCEPT ![sp.stack][sp.depth].regs.a0 = result,
                                   ![sp.stack][sp.depth].epc = BehindEcall(Frame.epc)]
       /\ owed' = [owed EXCEPT ![Len(owed)].context.regs.a0 = result,
                               ![Len(owed)].context.pc = "user"]
  /\ pc' = "restore"
  /\ UNCHANGED <<timer, boot, mode, SIE, sscratch, sp, regs, time_state, user_ticks>>

\* process::exit, with the program counter already moved: the process is over,
\* and the kernel goes on to idle on the stack it is on.
Exit ==
  /\ pc = "handler"
  /\ Frame.cause = "ecall"
  /\ FromUser
  /\ Frame.regs.a7 = "EXIT"
  /\ frames' = [frames EXCEPT ![sp.stack][sp.depth].epc = BehindEcall(Frame.epc)]
  /\ owed' = [owed EXCEPT ![Len(owed)].context.pc = "user"]
  /\ pc' = "idle_enable"
  /\ UNCHANGED <<timer, boot, mode, SIE, sscratch, sp, regs, time_state, user_ticks>>

\* process::fault: any other user exception ends the process the same way. An
\* exception of supervisor code other than the probe's is fatal; it would be a
\* defect of code that is outside this module, and none is generated here.
EndByFault ==
  /\ pc = "handler"
  /\ Frame.cause = "illegal"
  /\ FromUser
  /\ pc' = "idle_enable"
  /\ UNCHANGED <<timer, boot, mode, SIE, sscratch, sp, regs, frames, owed, time_state, user_ticks>>

\* A return to user mode leaves the top of this stack in sscratch, a return to
\* supervisor mode leaves zero.
ScratchAfterReturn == IF FromUser THEN At(sp.stack, sp.depth - 1) ELSE None

\* Variant: interrupts stay masked after the return.
MaskedAfterReturn == FALSE

\* sret: SIE becomes SPIE.
SIEAfterReturn == Frame.spie

\* __trap_restore and sret.
Restore ==
  /\ pc = "restore"
  /\ mode' = Frame.spp
  /\ SIE' = SIEAfterReturn
  /\ sscratch' = ScratchAfterReturn
  /\ sp' = Frame.sp
  /\ pc' = Frame.epc
  /\ regs' = Frame.regs
  /\ owed' = SubSeq(owed, 1, Len(owed) - 1)
  /\ UNCHANGED <<timer, boot, frames, time_state, user_ticks>>

Handler == RecoverProbe \/ Tick \/ TickFails \/ Syscall \/ Exit \/ EndByFault \/ Restore

-----------------------------------------------------------------------------
(* The kernel's way into user mode.                                        *)

\* A step of main() or run_kernel() that leaves stacks and frames alone.
Proceed(from, to) ==
  /\ pc = from
  /\ pc' = to
  /\ UNCHANGED <<mode, sp, regs, frames, owed>>

\* main: disable_interrupts.
DisableInterrupts ==
  /\ Proceed("main", "init_trap")
  /\ boot_guard' = SIE
  /\ SIE' = FALSE
  /\ UNCHANGED <<timer, sscratch, time_state, user_ticks, initial_ticks>>

\* trap::init: mask every source, then install the vector.
InitTrap ==
  /\ Proceed("init_trap", "init_time")
  /\ STIE' = FALSE
  /\ sscratch' = None
  /\ UNCHANGED <<boot, SIE, pending, armed, time_state, interval, ticks, user_ticks>>

\* time::init, before the probing read.
InitTime ==
  /\ Proceed("init_time", "probe_read")
  /\ time_state' = "UNAVAILABLE"
  /\ UNCHANGED <<timer, boot, SIE, sscratch, user_ticks>>

\* The probing rdtime succeeds.
ProbeSucceeds ==
  /\ Proceed("probe_read", "setup")
  /\ time_state' = "AVAILABLE"
  /\ UNCHANGED <<timer, boot, SIE, sscratch, user_ticks>>

\* The probing rdtime raises an illegal-instruction exception.
ProbeFaults ==
  /\ pc = "probe_read"
  /\ TrapEntry("illegal")
  /\ UNCHANGED <<timer, boot, time_state, user_ticks>>

\* The recovery point: the probe returns zero.
ProbeUnavailable ==
  /\ Proceed("probe_unavailable", "setup")
  /\ UNCHANGED <<timer, boot, SIE, sscratch, time_state, user_ticks>>

\* Memory set-up and process loading, with interrupts masked throughout.
Setup ==
  /\ Proceed("setup", "init_timer")
  /\ UNCHANGED <<timer, boot, SIE, sscratch, time_state, user_ticks>>

\* A failure of any of them halts.
SetupFails ==
  /\ pc = "setup"
  /\ Halt
  /\ UNCHANGED <<timer, boot, time_state, user_ticks>>

\* timer::init programs the first deadline, which withdraws a pending interrupt
\* of an earlier stage. Its own interrupt guard finds interrupts masked.
ArmTimer ==
  /\ Proceed("init_timer", "store_interval")
  /\ ~interval
  /\ time_state = "AVAILABLE"
  /\ armed' = TRUE
  /\ pending' = FALSE
  /\ UNCHANGED <<boot, SIE, STIE, sscratch, time_state, interval, ticks, user_ticks>>

\* INTERVAL.store
StoreInterval ==
  /\ Proceed("store_interval", "unmask_timer")
  /\ interval' = TRUE
  /\ UNCHANGED <<boot, SIE, STIE, sscratch, pending, armed, time_state, ticks, user_ticks>>

\* csrs sie; the guard restores the masked state it found.
UnmaskTimer ==
  /\ Proceed("unmask_timer", "read_ticks")
  /\ STIE' = TRUE
  /\ UNCHANGED <<boot, SIE, sscratch, pending, armed, time_state, interval, ticks, user_ticks>>

\* timer::init fails: no counter, deadline overflow or a firmware error.
InitTimerFails ==
  /\ pc = "init_timer"
  /\ Halt
  /\ UNCHANGED <<timer, boot, time_state, user_ticks>>

\* run_kernel: read the tick count, then drop the boot guard.
DropGuard ==
  /\ Proceed("read_ticks", "enable")
  /\ initial_ticks' = ticks
  /\ SIE' = boot_guard
  /\ UNCHANGED <<timer, sscratch, time_state, user_ticks, boot_guard>>

Enable ==
  /\ Proceed("enable", "spin")
  /\ SIE' = TRUE
  /\ UNCHANGED <<timer, boot, sscratch, time_state, user_ticks>>

Confirmed == ticks - initial_ticks >= 2

\* run_kernel leaves its loop after two ticks.
Confirm ==
  /\ Proceed("spin", "run")
  /\ Confirmed
  /\ UNCHANGED <<timer, boot, SIE, sscratch, time_state, user_ticks>>

Spin ==
  /\ Proceed("spin", "spin")
  /\ ~Confirmed
  /\ UNCHANGED <<timer, boot, SIE, sscratch, time_state, user_ticks>>

UserContext ==
  [mode |-> "U", SIE |-> TRUE, sp |-> At("user", 0), pc |-> "user", regs |-> ZeroRegisters]

\* enter_user: the first frame is written at the top of the process's kernel
\* stack, interrupts still enabled.
WriteFrame ==
  /\ pc = "run"
  /\ frames' = [frames EXCEPT !["kernel"][1] =
       [sp |-> UserContext.sp, epc |-> UserContext.pc, regs |-> UserContext.regs,
        spp |-> "U", spie |-> TRUE, cause |-> None]]
  /\ pc' = "enter"
  /\ UNCHANGED <<timer, boot, mode, SIE, sscratch, sp, regs, owed, time_state, user_ticks>>

\* enter_user: mask interrupts, switch to the frame and restore it.
EnterUser ==
  /\ pc = "enter"
  /\ SIE' = FALSE
  /\ sp' = At("kernel", 1)
  /\ owed' = Append(owed, [at |-> At("kernel", 1), context |-> UserContext])
  /\ pc' = "restore"
  /\ UNCHANGED <<timer, boot, mode, sscratch, regs, frames, time_state, user_ticks>>

\* arch::idle after the process ended.
IdleEnable ==
  /\ Proceed("idle_enable", "idle")
  /\ SIE' = TRUE
  /\ UNCHANGED <<timer, boot, sscratch, time_state, user_ticks>>

\* The wfi loops of idle() and halt().
Wait ==
  /\ pc \in {"idle", "halted"}
  /\ UNCHANGED vars

Startup ==
  \/ DisableInterrupts \/ InitTrap \/ InitTime \/ ProbeSucceeds \/ ProbeFaults
  \/ ProbeUnavailable \/ Setup \/ SetupFails \/ ArmTimer \/ InitTimerFails
  \/ StoreInterval \/ UnmaskTimer
  \/ DropGuard \/ Enable \/ Confirm \/ Spin \/ WriteFrame \/ EnterUser \/ IdleEnable
  \/ Wait

-----------------------------------------------------------------------------
(* The user program: any instructions, in any order.                       *)

InUser == mode = "U" /\ UNCHANGED <<timer, boot, time_state, user_ticks>>

Compute ==
  /\ InUser
  /\ pc = "user"
  /\ regs' = [regs EXCEPT !.x = 1 - regs.x]
  /\ UNCHANGED <<mode, SIE, sscratch, sp, pc, frames, owed>>

\* The registers of a system call are loaded.
PrepareCall ==
  /\ InUser
  /\ pc = "user"
  /\ \E call \in Calls, argument \in {Byte, NotAByte} :
       regs' = [regs EXCEPT !.a7 = call, !.a0 = argument]
  /\ pc' = "ecall"
  /\ UNCHANGED <<mode, SIE, sscratch, sp, frames, owed>>

Ecall == InUser /\ pc = "ecall" /\ TrapEntry("ecall")

\* Any other exception: "illegal" stands for all of them.
Fault == InUser /\ pc = "user" /\ TrapEntry("illegal")

User == Compute \/ PrepareCall \/ Ecall \/ Fault

-----------------------------------------------------------------------------
NoFrame ==
  [sp |-> At("boot", 0), epc |-> "main", regs |-> ZeroRegisters, spp |-> "S",
   spie |-> FALSE, cause |-> None]

\* Firmware enters with the timer source masked; SIE, sscratch, a pending bit
\* and an older deadline are whatever it left.
Init ==
  /\ mode = "S"
  /\ SIE \in BOOLEAN
  /\ STIE = FALSE
  /\ sscratch \in {None, At("boot", 0)}
  /\ sp = At("boot", 0)
  /\ pc = "main"
  /\ regs = ZeroRegisters
  /\ frames = [stack \in {"boot", "kernel", "user"} |-> [depth \in 1 .. MaxDepth |-> NoFrame]]
  /\ pending \in BOOLEAN
  /\ armed \in BOOLEAN
  /\ time_state = "UNINITIALIZED"
  /\ interval = FALSE
  /\ ticks = 0
  /\ user_ticks = 0
  /\ boot_guard = FALSE
  /\ initial_ticks = 0
  /\ owed = <<>>

Next == Expire \/ Interrupt \/ Handler \/ Startup \/ User

Spec == Init /\ [][Next]_vars

\* The hart executes, deadlines pass, and a pending interrupt is examined in
\* bounded time and after every sret, so one that stays pending is taken even
\* if the program masks interrupts again and again. Nothing is assumed of the
\* user program.
FairSpec ==
  /\ Spec
  /\ WF_vars(Startup)
  /\ WF_vars(Handler)
  /\ WF_vars(Expire)
  /\ SF_vars(Interrupt)

-----------------------------------------------------------------------------
(* Properties.                                                             *)

\* Trap entry always picks the right stack: once trap::init has run, sscratch
\* holds the empty kernel stack of the process in user mode and zero in
\* supervisor mode, also when a tick interrupts the idle loop after an exit.
\* Supervisor code never runs on the user stack, and a stack never holds more
\* than the frame of a user trap and that of one interrupt on top of it.
StackDiscipline ==
  /\ pc \in {"main", "init_trap"} \/ sscratch = IF mode = "U" THEN At("kernel", 0) ELSE None
  /\ mode = "S" => sp \in {At("boot", 0), At("boot", 1), At("kernel", 1), At("kernel", 2)}

\* A return from a trap puts the hart back into the very context the trap took
\* it from: registers, stack, mode and interrupt enable, save for the program
\* counter and a0 of a system call and the recovery point of the time probe.
ResumesInterrupted ==
  [][pc = "restore" /\ pc' # "restore" => Context' = owed[Len(owed)].context]_vars

\* Preemption is never lost: from the moment startup has masked interrupts,
\* whenever they are enabled again, in user mode, in the start-up loop or in the
\* idle loop, the next tick is on its way. Its source is unmasked, a deadline is
\* programmed or its interrupt pending, and the handler has the interval and the
\* counter it needs to program the one after it. About timer::init and
\* handle_interrupt, and the guards and returns that enable interrupts.
NextTickComes ==
  pc # "main" /\ (mode = "U" \/ SIE) =>
    STIE /\ (armed \/ pending) /\ interval /\ time_state = "AVAILABLE"

\* Startup ends: the process starts or the hart is parked.
StartupEnds == <>(mode = "U" \/ pc = "halted")

\* An interrupt of the unmasked timer is always served, whatever the user
\* program does and however often it masks interrupts by calling the kernel.
TimerServed == pending /\ STIE ~> ~pending \/ pc = "halted"

=============================================================================
