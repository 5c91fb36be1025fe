----------------------------- MODULE Interrupts -----------------------------
(***************************************************************************)
(* The interrupt and exception core of the kernel: _inthandler in          *)
(* entrypoint.S and interrupt.c.  One CPU runs a stack of contexts: the    *)
(* boot code or the user program at the bottom, the exception (syscall)    *)
(* handler above it, the interrupt handler above either.  _inthandler      *)
(* saves a context in a frame and restores it from that frame.  A step is  *)
(* what runs between two points where an interrupt can be taken, so        *)
(* interrupt_disable is four steps and exception_handler's reads of CAUSE  *)
(* and of k0 are steps of their own.                                       *)
(***************************************************************************)
EXTENDS Integers, Sequences, FiniteSets

CONSTANTS
  Syscodes,    \* the codes exception_handler dispatches (syscall_t)
  OtherWords,  \* other values that v0 may hold
  Causes,      \* exception codes that the user program can raise
  MaxNest      \* deepest nesting of interrupt_disable in one context

Interrupt == 0   \* CAUSE.ExcCode of an interrupt
Syscall   == 8   \* CAUSE.ExcCode of the syscall instruction

ASSUME SyscodesAssumption == Syscodes \cap OtherWords = {}
ASSUME CausesAssumption   == Causes \subseteq 1..31 /\ Syscall \in Causes
ASSUME MaxNestAssumption  == MaxNest \in Nat \ {0}

VARIABLES
  sr,        \* COP0 STATUS, as the set of its bits that are 1
  cause,     \* COP0 CAUSE: the code of the last exception taken
  k0,        \* register k0, where _inthandler copies v0
  fpu,       \* whose values the FPU registers hold
  irqs,      \* devices whose MI interrupt bit is set
  mask,      \* devices whose MI mask bit is set
  depth,     \* __interrupt_depth
  saved_sr,  \* __interrupt_sr
  frames,    \* exception frames on the stack, the innermost last
  pc,        \* where the running context is
  held,      \* interrupt_disable calls the running context has not undone
  tmp,       \* interrupt_disable's local variable sr
  todo,      \* interrupt_handler's local status: devices left to service
  syscode    \* exception_handler's local syscode

hardware == <<sr, cause, k0, fpu, irqs, mask>>
software == <<depth, saved_sr>>
context  == <<frames, pc, held, tmp, todo, syscode>>
vars == <<hardware, software, context>>

Devices == {"AI", "SI", "VI"}
Bits    == {"IE", "EXL", "CU1", "KSU"}
Words   == Syscodes \cup OtherWords
Owners  == {"user", "kernel", "stale"}
Labels  == {"boot", "user", "body", "exc_cause", "exc_k0", "dis_read",
            "dis_write", "dis_save", "dis_count", "en_restore", "abort",
            "unbalanced"}

Frame == [sr : SUBSET Bits, cause : {Interrupt} \cup Causes, v0 : Words,
          fpu : Owners, pc : Labels, held : 0..MaxNest, tmp : SUBSET Bits]

Top   == frames[Len(frames)]
InIrq == frames # <<>> /\ Top.cause = Interrupt
InExc == frames # <<>> /\ Top.cause # Interrupt

(***************************************************************************)
(* The system boots in kernel mode, with the FPU on and interrupts off.    *)
(***************************************************************************)
Init ==
  /\ sr = {"CU1"} /\ cause \in Causes /\ k0 \in Words /\ fpu = "kernel"
  /\ irqs \in SUBSET Devices /\ mask \in SUBSET Devices
  /\ depth = -1 /\ saved_sr = {}
  /\ frames = <<>> /\ pc = "boot" /\ held = 0 /\ tmp = {}
  /\ todo = {} /\ syscode \in Words

------------------------------------------------------------------------------
(* Devices, and the code that unmasks them.                                 *)

Raise(d) ==
  /\ d \notin irqs
  /\ irqs' = irqs \cup {d}
  /\ UNCHANGED <<sr, cause, k0, fpu, mask, software, context>>

interrupt_init ==
  /\ pc = "boot" /\ depth < 0
  /\ mask' = {}
  /\ depth' = 0
  /\ sr' = sr \cup {"IE"}
  /\ pc' = "body"
  /\ UNCHANGED <<cause, k0, fpu, irqs, saved_sr, frames, held, tmp, todo, syscode>>

\* audio_init and joybus_init run at boot, display_init in a syscall.
interrupt_set(d) ==
  /\ pc = "body"
  /\ IF frames = <<>> THEN d \in {"AI", "SI"} ELSE InExc /\ d = "VI"
  /\ mask' = mask \cup {d}
  /\ UNCHANGED <<sr, cause, k0, fpu, irqs, software, context>>

\* The end of _start: the call of main in user mode.
EnterUser ==
  /\ pc = "body" /\ frames = <<>> /\ held = 0
  /\ sr' = sr \cup {"KSU"}
  /\ fpu' = "user"
  /\ pc' = "user"
  /\ UNCHANGED <<cause, k0, irqs, mask, software, frames, held, tmp, todo, syscode>>

------------------------------------------------------------------------------
(* _inthandler: entry and exit.                                             *)

SavedContext(code, v0, owner) ==
  [sr |-> sr \cup {"EXL"}, cause |-> code, v0 |-> v0, fpu |-> owner,
   pc |-> pc, held |-> held, tmp |-> tmp]

\* Two bugs for the runs to catch: interrupts stay on, the FPU stays on.
interrupt_reset_mode_KeepsIE  == sr \ {"CU1", "KSU", "EXL"}
interrupt_reset_mode_KeepsFpu == sr \ {"KSU", "EXL", "IE"}

interrupt_reset_mode == sr \ {"CU1", "KSU", "EXL", "IE"}

exception_reset_mode == interrupt_reset_mode \cup {"CU1", "IE"}

Interruptible == irqs \cap mask # {} /\ "IE" \in sr /\ "EXL" \notin sr

\* An interrupt is taken while v0 holds an arbitrary word; the FPU part of
\* the frame is not written, so it keeps what the stack held before.
TakeInterrupt(v0) ==
  /\ Interruptible
  /\ k0' = v0
  /\ cause' = Interrupt
  /\ frames' = Append(frames, SavedContext(Interrupt, v0, "stale"))
  /\ sr' = interrupt_reset_mode
  /\ todo' = irqs \cap mask
  /\ pc' = "body" /\ held' = 0
  /\ UNCHANGED <<fpu, irqs, mask, software, tmp, syscode>>

RaiseException(code, v0) ==
  /\ pc = "user"
  /\ code = Syscall => v0 \in Syscodes
  /\ k0' = v0
  /\ cause' = code
  /\ frames' = Append(frames, SavedContext(code, v0, fpu))
  /\ sr' = exception_reset_mode
  /\ pc' = "exc_cause" /\ held' = 0
  /\ UNCHANGED <<fpu, irqs, mask, software, tmp, todo, syscode>>

\* A bug for the runs to catch: the exception level is not left.
ReturnFromFrame_KeepsEXL ==
  /\ frames' = SubSeq(frames, 1, Len(frames) - 1)
  /\ sr' = Top.sr
  /\ fpu' = IF "CU1" \in sr THEN Top.fpu ELSE fpu
  /\ pc' = Top.pc /\ held' = Top.held /\ tmp' = Top.tmp
  /\ UNCHANGED <<cause, k0, irqs, mask, software, todo, syscode>>

\* interrupt_end: the FPU is restored if the handler runs with it enabled;
\* k0 is never restored.
ReturnFromFrame ==
  /\ frames' = SubSeq(frames, 1, Len(frames) - 1)
  /\ sr' = Top.sr \ {"EXL"}
  /\ fpu' = IF "CU1" \in sr THEN Top.fpu ELSE fpu
  /\ pc' = Top.pc /\ held' = Top.held /\ tmp' = Top.tmp
  /\ UNCHANGED <<cause, k0, irqs, mask, software, todo, syscode>>

LeaveInterrupt == InIrq /\ pc = "body" /\ held = 0 /\ todo = {} /\ ReturnFromFrame

LeaveException == InExc /\ pc = "body" /\ held = 0 /\ ReturnFromFrame

------------------------------------------------------------------------------
(* interrupt_handler, exception_handler.                                    *)

ServiceOrder(d) == CASE d = "AI" -> 1 [] d = "SI" -> 2 [] d = "VI" -> 3

\* One `if` of interrupt_handler: acknowledge the device, run its callback.
Service(d) ==
  /\ InIrq /\ pc = "body" /\ held = 0
  /\ d \in todo /\ \A e \in todo : ServiceOrder(d) <= ServiceOrder(e)
  /\ irqs' = irqs \ {d}
  /\ todo' = todo \ {d}
  /\ UNCHANGED <<sr, cause, k0, fpu, mask, software, frames, pc, held, tmp, syscode>>

\* cause & C0_CAUSE_EXC_SYSCALL: the test of one bit of the code.
LooksLikeSyscall(code) == (code \div Syscall) % 2 = 1

ReadCause ==
  /\ pc = "exc_cause"
  /\ pc' = IF LooksLikeSyscall(cause) THEN "exc_k0" ELSE "abort"
  /\ UNCHANGED <<hardware, software, frames, held, tmp, todo, syscode>>

ReadK0 ==
  /\ pc = "exc_k0"
  /\ syscode' = k0
  /\ pc' = IF k0 \in Syscodes THEN "body" ELSE "abort"
  /\ UNCHANGED <<hardware, software, frames, held, tmp, todo>>

\* A syscall computes with floats (audio_play_square_wave).
UseFpu ==
  /\ InExc /\ pc = "body" /\ "CU1" \in sr
  /\ fpu' = "kernel"
  /\ UNCHANGED <<sr, cause, k0, irqs, mask, software, context>>

------------------------------------------------------------------------------
(* interrupt_disable and interrupt_enable, called from any kernel context.  *)

CallDisable ==
  /\ pc = "body" /\ depth >= 0 /\ held < MaxNest
  /\ pc' = IF depth = 0 THEN "dis_read" ELSE "dis_count"
  /\ UNCHANGED <<hardware, software, frames, held, tmp, todo, syscode>>

ReadStatus ==
  /\ pc = "dis_read"
  /\ tmp' = sr
  /\ pc' = "dis_write"
  /\ UNCHANGED <<hardware, software, frames, held, todo, syscode>>

\* A bug for the runs to catch: STATUS is written back as it was read.
WriteStatus_KeepsIE ==
  /\ pc = "dis_write"
  /\ sr' = tmp
  /\ pc' = "dis_save"
  /\ UNCHANGED <<cause, k0, fpu, irqs, mask, software, frames, held, tmp, todo, syscode>>

WriteStatus ==
  /\ pc = "dis_write"
  /\ sr' = tmp \ {"IE"}
  /\ pc' = "dis_save"
  /\ UNCHANGED <<cause, k0, fpu, irqs, mask, software, frames, held, tmp, todo, syscode>>

\* A bug for the runs to catch: STATUS is saved as it is after the write.
SaveStatus_TooLate ==
  /\ pc = "dis_save"
  /\ saved_sr' = sr
  /\ pc' = "dis_count"
  /\ UNCHANGED <<hardware, depth, frames, held, tmp, todo, syscode>>

SaveStatus ==
  /\ pc = "dis_save"
  /\ saved_sr' = tmp
  /\ pc' = "dis_count"
  /\ UNCHANGED <<hardware, depth, frames, held, tmp, todo, syscode>>

\* A bug for the runs to catch: a nested call is not counted.
CountDisable_NotNested ==
  /\ pc = "dis_count"
  /\ depth' = 1
  /\ held' = held + 1
  /\ pc' = "body"
  /\ UNCHANGED <<hardware, saved_sr, frames, tmp, todo, syscode>>

CountDisable ==
  /\ pc = "dis_count"
  /\ depth' = depth + 1
  /\ held' = held + 1
  /\ pc' = "body"
  /\ UNCHANGED <<hardware, saved_sr, frames, tmp, todo, syscode>>

\* A bug for the runs to catch: an inner call does not count down.
CallEnable_OuterOnly ==
  /\ pc = "body" /\ held > 0
  /\ IF depth > 0
       THEN /\ depth' = IF depth = 1 THEN 0 ELSE depth
            /\ held' = held - 1
            /\ pc' = IF depth = 1 THEN "en_restore" ELSE "body"
       ELSE /\ pc' = "unbalanced"
            /\ UNCHANGED <<depth, held>>
  /\ UNCHANGED <<hardware, saved_sr, frames, tmp, todo, syscode>>

CallEnable ==
  /\ pc = "body" /\ held > 0
  /\ IF depth > 0
       THEN /\ depth' = depth - 1
            /\ held' = held - 1
            /\ pc' = IF depth = 1 THEN "en_restore" ELSE "body"
       ELSE /\ pc' = "unbalanced"
            /\ UNCHANGED <<depth, held>>
  /\ UNCHANGED <<hardware, saved_sr, frames, tmp, todo, syscode>>

RestoreStatus ==
  /\ pc = "en_restore"
  /\ sr' = sr \cup (saved_sr \cap {"IE"})
  /\ pc' = "body"
  /\ UNCHANGED <<cause, k0, fpu, irqs, mask, software, frames, held, tmp, todo, syscode>>

------------------------------------------------------------------------------
Next ==
  \/ \E d \in Devices : Raise(d) \/ interrupt_set(d) \/ Service(d)
  \/ interrupt_init \/ EnterUser
  \/ \E v0 \in Words : TakeInterrupt(v0)
  \/ \E code \in Causes, v0 \in Words : RaiseException(code, v0)
  \/ LeaveInterrupt \/ LeaveException
  \/ ReadCause \/ ReadK0 \/ UseFpu
  \/ CallDisable \/ ReadStatus \/ WriteStatus \/ SaveStatus \/ CountDisable
  \/ CallEnable \/ RestoreStatus

Spec == Init /\ [][Next]_vars

(***************************************************************************)
(* Fairness.  The CPU runs, so straight-line code goes on (weak fairness). *)
(* It samples the interrupt lines before every instruction, so an          *)
(* interrupt that is enabled again and again is taken; a critical section  *)
(* and a device callback end, although they may disable and enable any     *)
(* number of times before that (strong fairness).                          *)
(***************************************************************************)
Straight == \/ ReadStatus \/ WriteStatus \/ SaveStatus \/ CountDisable
            \/ RestoreStatus \/ ReadCause \/ ReadK0

Fairness ==
  /\ WF_vars(Straight)
  /\ SF_vars(\E v0 \in Words : TakeInterrupt(v0))
  /\ SF_vars(held = 1 /\ CallEnable)
  /\ WF_vars(held > 1 /\ CallEnable)
  /\ \A d \in Devices : SF_vars(Service(d))
  /\ SF_vars(LeaveInterrupt)

FairSpec == Spec /\ Fairness

------------------------------------------------------------------------------
(* Properties.                                                              *)

TypeOK ==
  /\ sr \in SUBSET Bits /\ cause \in {Interrupt} \cup Causes
  /\ k0 \in Words /\ syscode \in Words /\ fpu \in Owners
  /\ irqs \in SUBSET Devices /\ mask \in SUBSET Devices
  /\ depth \in -1..MaxNest /\ saved_sr \in SUBSET Bits
  /\ frames \in Seq(Frame) /\ pc \in Labels /\ held \in 0..MaxNest
  /\ tmp \in SUBSET Bits /\ todo \in SUBSET Devices

\* _inthandler is reentered at most once, by an interrupt above a syscall:
\* an interrupt handler is never interrupted and never raises an exception.
\* The exception stack has a bound because of this.
NoNestedHandlers ==
  /\ Len(frames) <= 2
  /\ \A i \in 1..Len(frames) : frames[i].cause = Interrupt => i = Len(frames)

\* The count of nested disable calls never gets out of step with the calls,
\* whatever interrupts come in between, so interrupt_enable never meets its
\* "Unbalanced call." assertion.
DepthBalanced ==
  /\ pc # "unbalanced"
  /\ pc = "body" => depth = held

\* A thread that has undone its disable calls runs with interrupts on again,
\* and one that has not runs with interrupts off; the interrupt handler
\* itself has them off throughout, even after a nested enable call.
InterruptsComeBack ==
  pc = "body" =>
    ("IE" \in sr) = (~InIrq /\ held = 0)

\* The user program finds the processor mode and its FPU registers as it left
\* them, whatever handlers ran in between.
UserResumes ==
  pc = "user" => sr = {"IE", "CU1", "KSU"} /\ fpu = "user" /\ depth = 0

\* Critical sections, as their callers need them: the calls balance, and
\* interrupts are off exactly while one of them is open.
CriticalSections == DepthBalanced /\ InterruptsComeBack

\* Handlers, as the program below them needs them: the exception stack is
\* bounded, and what they have saved is given back.
HandlersReturn == NoNestedHandlers /\ UserResumes

\* The lock that interrupt_disable and interrupt_enable implement.
ThreadHolds == IF InIrq THEN Top.held > 0 ELSE held > 0

Lock == INSTANCE IrqLock WITH locked <- ThreadHolds, handling <- InIrq

\* interrupt.c implements IrqLock: no interrupt handler starts between the
\* return of interrupt_disable and the matching interrupt_enable.
LockSpec == Lock!Spec

\* After interrupt_init an unmasked interrupt is serviced eventually: no path
\* through disable, enable, syscall, abort or handler leaves interrupts off for
\* good, and no device is starved by those that interrupt_handler tests first.
Serviced ==
  \A d \in Devices : (depth >= 0 /\ d \in irqs \cap mask) ~> (d \notin irqs)

(***************************************************************************)
(* What a comment of the code claims, and the code does not deliver: the   *)
(* handler enables interrupts before it has read CAUSE and k0, and         *)
(* _inthandler overwrites both on every interrupt.                         *)
(***************************************************************************)
SyscallBody == InExc /\ pc = "body"

\* interrupt.c:166: k0 holds the code of the syscall that is handled.
SyscodeFromUser == SyscallBody => syscode = frames[1].v0
=============================================================================
