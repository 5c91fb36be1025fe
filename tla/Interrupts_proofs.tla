-------------------------- MODULE Interrupts_proofs --------------------------
(***************************************************************************)
(* Proofs about Interrupts, for every set of syscodes, causes and words    *)
(* and every nesting depth: the invariants of the runs, and that           *)
(* interrupt_disable and interrupt_enable implement IrqLock.  About Joybus, *)
(* whose thread and handler keep to that lock: the assertion of            *)
(* __joypad_callback and the readings, for any set of buttons.  About      *)
(* Console, whose io_write is a critical section: every message arrives,   *)
(* for buffers and viewers of any size and numbers in every base.          *)
(***************************************************************************)
EXTENDS Interrupts, Joybus, Console, WellFoundedInduction, TLAPS

Disabling == {"dis_read", "dis_write", "dis_save", "dis_count"}

(***************************************************************************)
(* The thread side: boot code or user program when nothing is below it,    *)
(* syscall handler at level 1.  The same holds of the thread that runs and *)
(* of the thread that an interrupt has suspended.                          *)
(***************************************************************************)
InterruptsOff(p, h) ==
  h > 0 \/ p \in {"boot", "dis_save", "dis_count", "en_restore"}

ThreadInv(level, s, p, h, t) ==
  /\ ("IE" \in s) = ~InterruptsOff(p, h)
  /\ p = "user" => level = 0 /\ s \ {"IE"} = {"CU1", "KSU"}
  /\ p # "user" => s \ {"IE"} = {"CU1"}
  /\ p = "boot" => level = 0
  /\ p \in {"exc_cause", "exc_k0", "abort"} => level = 1
  /\ p \in Labels \ ({"body", "dis_count"}) => h = 0
  /\ p \in Disabling => h < MaxNest
  /\ p = "dis_write" => t = s
  /\ p = "dis_save" => t = s \cup {"IE"}
  /\ p # "unbalanced"

SavesStatus == held > 0 \/ pc \in {"dis_count", "en_restore"}

RunInv ==
  /\ ThreadInv(Len(frames), sr, pc, held, tmp)
  /\ depth = IF pc = "boot" THEN -1 ELSE held
  /\ SavesStatus => "IE" \in saved_sr
  /\ pc = "user" => fpu = "user"

IrqInv ==
  /\ sr = {}
  /\ pc \in {"body", "en_restore"} \cup Disabling
  /\ pc \notin {"body", "dis_count"} => held = 0
  /\ pc \in Disabling => held < MaxNest
  /\ pc \in {"dis_write", "dis_save"} => tmp = {}
  /\ depth = held
  /\ SavesStatus => "IE" \notin saved_sr
  /\ ThreadInv(Len(frames) - 1, Top.sr \ {"EXL"}, Top.pc, Top.held, Top.tmp)
  /\ "IE" \in Top.sr /\ Top.pc # "boot"
  /\ Top.pc = "user" => fpu = "user"

FramesInv ==
  /\ Len(frames) <= 2
  /\ Len(frames) = 2 => frames[1].cause # Interrupt /\ frames[2].cause = Interrupt
  /\ \A k \in 1..Len(frames) : frames[k].cause # Interrupt =>
       /\ frames[k].sr = Bits /\ frames[k].pc = "user"
       /\ frames[k].held = 0 /\ frames[k].fpu = "user"

IInv == TypeOK /\ FramesInv /\ (IF InIrq THEN IrqInv ELSE RunInv)

------------------------------------------------------------------------------
(* Pushing and popping a frame.                                             *)

LEMMA PushFrame ==
  ASSUME NEW S, NEW fs \in Seq(S), NEW f \in S
  PROVE  /\ Append(fs, f) \in Seq(S)
         /\ Len(Append(fs, f)) = Len(fs) + 1
         /\ Append(fs, f)[Len(fs) + 1] = f
         /\ \A k \in 1..Len(fs) : Append(fs, f)[k] = fs[k]
  OBVIOUS

LEMMA PopFrame ==
  ASSUME NEW S, NEW n \in Nat, NEW fs \in Seq(S), Len(fs) = n + 1
  PROVE  /\ SubSeq(fs, 1, n) \in Seq(S)
         /\ Len(SubSeq(fs, 1, n)) = n
         /\ \A k \in 1..n : SubSeq(fs, 1, n)[k] = fs[k]
  OBVIOUS

\* How many frames there are tells which handlers run.
LEMMA Levels ==
  ASSUME TypeOK, FramesInv
  PROVE  /\ Len(frames) \in 0..2
         /\ frames = <<>> <=> Len(frames) = 0
         /\ Len(frames) = 2 => InIrq
         /\ InIrq => Len(frames) \in 1..2
         /\ InExc => Len(frames) = 1
<1>. DEFINE n == Len(frames)
<1>1. n \in Nat
  BY DEF TypeOK
<1>2. n = 0 <=> frames = <<>>
  BY DEF TypeOK
<1>3. n <= 2 /\ (n = 2 => frames[2].cause = Interrupt)
  BY Zenon DEF FramesInv
<1>4. InIrq <=> frames # <<>> /\ frames[n].cause = Interrupt
  BY Zenon DEF InIrq, Top
<1>5. InExc <=> frames # <<>> /\ frames[n].cause # Interrupt
  BY Zenon DEF InExc, Top
<1>. HIDE DEF n
<1>6. n \in 0..2
  BY <1>1, <1>3
<1>. QED  BY <1>2, <1>3, <1>4, <1>5, <1>6 DEF n

LEMMA InitIInv == Init => IInv
  BY CausesAssumption, MaxNestAssumption
  DEF Init, IInv, TypeOK, FramesInv, InIrq, RunInv, ThreadInv, InterruptsOff,
      SavesStatus, Bits, Owners, Labels, Devices, Disabling, Words, Frame,
      Interrupt, Syscall

(***************************************************************************)
(* Every step keeps IInv: one step of the proof per action.                *)
(***************************************************************************)
LEMMA StepIInv == IInv /\ [Next]_vars => IInv'
<1>. SUFFICES ASSUME IInv, [Next]_vars PROVE IInv'
  OBVIOUS
<1>. USE CausesAssumption, MaxNestAssumption
     DEF IInv, TypeOK, FramesInv, InIrq, Top, hardware, software, context
<1>1. ASSUME NEW d \in Devices, Raise(d) PROVE IInv'
  BY <1>1 DEF Raise, RunInv, IrqInv, SavesStatus
<1>2. ASSUME NEW d \in Devices, interrupt_set(d) PROVE IInv'
  BY <1>2 DEF interrupt_set, RunInv, IrqInv, SavesStatus
<1>3. ASSUME NEW d \in Devices, Service(d) PROVE IInv'
  BY <1>3 DEF Service, RunInv, IrqInv, SavesStatus
<1>4. CASE interrupt_init
  BY <1>4 DEF interrupt_init, RunInv, IrqInv, SavesStatus, ThreadInv, InterruptsOff,
              Bits, Labels, Devices, Disabling
<1>5. CASE EnterUser
  BY <1>5 DEF EnterUser, RunInv, IrqInv, SavesStatus, ThreadInv, InterruptsOff,
              Bits, Labels, Owners, Disabling
<1>6. ASSUME NEW v0 \in Words, TakeInterrupt(v0) PROVE IInv'
  <2>. DEFINE f == SavedContext(Interrupt, v0, "stale")
  <2>1. f \in Frame /\ frames' = Append(frames, f)
    BY <1>6 DEF TakeInterrupt, SavedContext, Frame, Words, Bits, Owners, Labels
  <2>2. /\ frames' \in Seq(Frame) /\ Len(frames') = Len(frames) + 1
        /\ frames'[Len(frames')] = f
        /\ \A k \in 1..Len(frames) : frames'[k] = frames[k]
    BY <2>1, PushFrame
  \* An interrupt is taken only in a thread, and only with interrupts on.
  <2>3. ~InIrq /\ RunInv /\ "IE" \in sr /\ pc # "boot"
    BY <1>6 DEF TakeInterrupt, Interruptible, IrqInv, RunInv, ThreadInv, InterruptsOff
  <2>4. /\ f.cause = Interrupt /\ f.sr = sr \cup {"EXL"} /\ f.pc = pc
        /\ f.held = held /\ f.tmp = tmp
    BY DEF SavedContext
  <2>5. InIrq' /\ Top' = f
    BY <2>2, <2>4
  <2>6. held = 0 /\ "EXL" \notin sr /\ (sr \cup {"EXL"}) \ {"EXL"} = sr
    BY <1>6, <2>3 DEF TakeInterrupt, Interruptible, RunInv, ThreadInv, InterruptsOff
  <2>7. TypeOK'
    BY <1>6, <2>2 DEF TakeInterrupt, interrupt_reset_mode, Interruptible, Labels, Bits
  <2>8. FramesInv'
    <3>1. Len(frames) \in 0..1
      BY <2>3, Levels
    <3>2. Len(frames) = 1 => frames[1].cause # Interrupt
      BY <2>3, Levels
    <3>. QED  BY <2>2, <2>4, <3>1, <3>2
  <2>9. IrqInv'
    BY <1>6, <2>2, <2>3, <2>4, <2>5, <2>6
    DEF TakeInterrupt, interrupt_reset_mode, IrqInv, RunInv, ThreadInv,
        SavesStatus, InterruptsOff, Bits, Disabling
  <2>. QED  BY <2>5, <2>7, <2>8, <2>9
<1>7. ASSUME NEW code \in Causes, NEW v0 \in Words, RaiseException(code, v0) PROVE IInv'
  <2>. DEFINE f == SavedContext(code, v0, fpu)
  <2>1. f \in Frame /\ frames' = Append(frames, f)
    BY <1>7 DEF RaiseException, SavedContext, Frame, Words, Bits, Owners, Labels
  <2>2. /\ frames' \in Seq(Frame) /\ Len(frames') = Len(frames) + 1
        /\ frames'[Len(frames')] = f
        /\ \A k \in 1..Len(frames) : frames'[k] = frames[k]
    BY <2>1, PushFrame
  <2>3. code # Interrupt /\ f.cause = code
    BY DEF Interrupt, SavedContext
  <2>4. ~InIrq /\ RunInv /\ frames = <<>> /\ Len(frames) = 0
    BY <1>7 DEF RaiseException, IrqInv, RunInv, ThreadInv, Disabling
  <2>5. Len(frames') = 1 /\ frames'[1] = f /\ ~InIrq'
    BY <2>2, <2>3, <2>4
  <2>6. /\ f.sr = Bits /\ f.pc = "user" /\ f.held = 0 /\ f.fpu = "user"
    BY <1>7, <2>4
    DEF RaiseException, SavedContext, RunInv, ThreadInv, InterruptsOff, Bits
  <2>7. TypeOK'
    BY <1>7, <2>2
    DEF RaiseException, exception_reset_mode, interrupt_reset_mode, Labels, Bits, Words
  <2>8. FramesInv'
    BY <2>5, <2>6
  <2>9. RunInv'
    BY <1>7, <2>4, <2>5
    DEF RaiseException, exception_reset_mode, interrupt_reset_mode, RunInv,
        ThreadInv, SavesStatus, InterruptsOff, Bits, Labels, Disabling
  <2>. QED  BY <2>5, <2>7, <2>8, <2>9
<1>8. CASE LeaveInterrupt
  <2>. DEFINE n == Len(frames) - 1
  <2>1. IrqInv /\ InIrq /\ ReturnFromFrame
    BY <1>8 DEF LeaveInterrupt
  <2>2. n \in Nat /\ Len(frames) = n + 1 /\ Top \in Frame /\ n \in 0..1
    BY <2>1, Levels
  <2>3. /\ frames' \in Seq(Frame) /\ Len(frames') = n
        /\ \A k \in 1..n : frames'[k] = frames[k]
    <3>. HIDE DEF n
    <3>1. frames' = SubSeq(frames, 1, n)
      BY <2>1 DEF ReturnFromFrame, n
    <3>. QED  BY <2>2, <3>1, PopFrame
  <2>4. ~InIrq'
    BY <2>2, <2>3
  <2>5. TypeOK'
    BY <2>1, <2>2, <2>3 DEF ReturnFromFrame, Frame, IrqInv
  <2>6. FramesInv'
    BY <2>2, <2>3
  <2>7. RunInv'
    <3>1. /\ sr' = Top.sr \ {"EXL"} /\ pc' = Top.pc /\ held' = Top.held /\ tmp' = Top.tmp
          /\ fpu' = fpu /\ depth' = depth /\ saved_sr' = saved_sr
      BY <1>8, <2>1 DEF ReturnFromFrame, IrqInv
    <3>2. ThreadInv(n, Top.sr \ {"EXL"}, Top.pc, Top.held, Top.tmp)
      BY <2>1 DEF IrqInv
    <3>3. ThreadInv(Len(frames), sr, pc, held, tmp)'
      BY <2>3, <3>1, <3>2 DEF ThreadInv, InterruptsOff
    <3>4. /\ "IE" \in Top.sr \ {"EXL"} /\ Top.pc # "boot" /\ depth = 0
          /\ (Top.pc = "user" => fpu = "user")
      BY <1>8, <2>1 DEF IrqInv, LeaveInterrupt
    <3>5. Top.held = 0 /\ Top.pc \notin {"dis_count", "en_restore"}
      BY <2>2, <3>2, <3>4 DEF ThreadInv, InterruptsOff, Frame
    <3>. QED  BY <3>1, <3>3, <3>4, <3>5 DEF RunInv, SavesStatus
  <2>. QED  BY <2>4, <2>5, <2>6, <2>7
<1>9. CASE LeaveException
  <2>. DEFINE n == Len(frames) - 1
  <2>1. RunInv /\ InExc /\ ~InIrq /\ ReturnFromFrame /\ pc = "body" /\ held = 0
    BY <1>9 DEF LeaveException, InExc
  <2>2. Len(frames) = 1 /\ n = 0
    BY <2>1, Levels
  <2>3. /\ Top.sr = Bits /\ Top.pc = "user" /\ Top.held = 0 /\ Top.fpu = "user"
        /\ Top \in Frame
    BY <2>1, <2>2 DEF InExc
  <2>4. frames' \in Seq(Frame) /\ Len(frames') = 0 /\ ~InIrq'
    <3>1. frames' = SubSeq(frames, 1, 0)
      BY <2>1, <2>2 DEF ReturnFromFrame
    <3>. QED  BY <2>2, <3>1, PopFrame
  <2>5. sr = {"IE", "CU1"}
    BY <2>1 DEF RunInv, ThreadInv, InterruptsOff, Bits
  <2>6. TypeOK'
    BY <2>1, <2>3, <2>4 DEF ReturnFromFrame, Frame, Bits, Labels, Owners
  <2>7. FramesInv'
    BY <2>4
  <2>8. RunInv'
    BY <2>1, <2>3, <2>4, <2>5
    DEF ReturnFromFrame, RunInv, ThreadInv, InterruptsOff, SavesStatus, Bits,
        Labels, Disabling
  <2>. QED  BY <2>4, <2>6, <2>7, <2>8
<1>10. CASE ReadCause
  BY <1>10 DEF ReadCause, RunInv, IrqInv, SavesStatus, ThreadInv, InterruptsOff,
              Labels, Disabling
<1>11. CASE ReadK0
  BY <1>11 DEF ReadK0, RunInv, IrqInv, SavesStatus, ThreadInv, InterruptsOff,
              Labels, Disabling
<1>12. CASE UseFpu
  BY <1>12 DEF UseFpu, RunInv, IrqInv, SavesStatus, Owners
<1>13. CASE CallDisable
  BY <1>13 DEF CallDisable, RunInv, IrqInv, SavesStatus, ThreadInv, InterruptsOff,
              Labels, Disabling
<1>14. CASE ReadStatus
  BY <1>14 DEF ReadStatus, RunInv, IrqInv, SavesStatus, ThreadInv, InterruptsOff,
              Labels, Disabling
<1>15. CASE WriteStatus
  BY <1>15 DEF WriteStatus, RunInv, IrqInv, SavesStatus, ThreadInv, InterruptsOff,
              Labels, Disabling, Bits
<1>16. CASE SaveStatus
  BY <1>16 DEF SaveStatus, RunInv, IrqInv, SavesStatus, ThreadInv, InterruptsOff,
              Labels, Disabling
<1>17. CASE CountDisable
  BY <1>17 DEF CountDisable, RunInv, IrqInv, SavesStatus, ThreadInv, InterruptsOff,
              Labels, Disabling
<1>18. CASE CallEnable
  BY <1>18 DEF CallEnable, RunInv, IrqInv, SavesStatus, ThreadInv, InterruptsOff,
              Labels, Disabling
<1>19. CASE RestoreStatus
  BY <1>19 DEF RestoreStatus, RunInv, IrqInv, SavesStatus, ThreadInv, InterruptsOff,
              Labels, Disabling, Bits
<1>20. CASE UNCHANGED vars
  BY <1>20 DEF vars, RunInv, IrqInv, SavesStatus
<1>. QED
  BY <1>1, <1>2, <1>3, <1>4, <1>5, <1>6, <1>7, <1>8, <1>9, <1>10, <1>11, <1>12,
     <1>13, <1>14, <1>15, <1>16, <1>17, <1>18, <1>19, <1>20 DEF Next

------------------------------------------------------------------------------
\* IInv is an invariant, and the type invariant with it.
THEOREM Inductive == Spec => []IInv
  BY InitIInv, StepIInv, PTL DEF Spec

\* Every variable keeps its type.
THEOREM TypeCorrect == Spec => []TypeOK
  BY Inductive, PTL DEF IInv

\* _inthandler is reentered at most once, by an interrupt above an exception.
THEOREM HandlersNestOnce == Spec => []NoNestedHandlers
<1>1. IInv => NoNestedHandlers
  BY Levels DEF IInv, FramesInv, NoNestedHandlers
<1>. QED  BY <1>1, Inductive, PTL

\* The nesting count follows the calls and interrupt_enable's assertion holds.
THEOREM DepthIsBalanced == Spec => []DepthBalanced
<1>1. IInv => DepthBalanced
  BY DEF IInv, IrqInv, RunInv, ThreadInv, DepthBalanced, Disabling
<1>. QED  BY <1>1, Inductive, PTL

\* Interrupts are on in a thread exactly when no disable call is open, and
\* off in the interrupt handler.
THEOREM EnableRestores == Spec => []InterruptsComeBack
<1>1. IInv => InterruptsComeBack
  BY DEF IInv, IrqInv, RunInv, ThreadInv, InterruptsOff, InterruptsComeBack, TypeOK
<1>. QED  BY <1>1, Inductive, PTL

\* The user program finds its mode and FPU registers as it left them.
THEOREM UserStatePreserved == Spec => []UserResumes
<1>1. IInv => UserResumes
  BY DEF IInv, IrqInv, RunInv, ThreadInv, InterruptsOff, UserResumes, Disabling, TypeOK
<1>. QED  BY <1>1, Inductive, PTL

\* Disable and enable calls balance, and interrupts are off exactly while one
\* is open, whatever interrupts them.
THEOREM SectionsAreCritical == Spec => []CriticalSections
  BY DepthIsBalanced, EnableRestores, PTL DEF CriticalSections

\* Handlers nest once and give back what they have saved.
THEOREM HandlersUnwind == Spec => []HandlersReturn
  BY HandlersNestOnce, UserStatePreserved, PTL DEF HandlersReturn

------------------------------------------------------------------------------
(***************************************************************************)
(* The refinement.  The return of the outermost interrupt_disable is Lock, *)
(* the outermost interrupt_enable is Unlock, taking an interrupt is        *)
(* HandlerStart and returning from it HandlerEnd; every other step leaves  *)
(* both abstract variables alone.                                          *)
(***************************************************************************)
LEMMA InIrqBoolean == InIrq \in BOOLEAN /\ InIrq' \in BOOLEAN
  BY Zenon DEF InIrq

LEMMA LockInit == Init => Lock!Init
  BY DEF Init, Lock!Init, ThreadHolds, InIrq

LEMMA LockStep == IInv /\ IInv' /\ [Next]_vars => [Lock!Next]_(Lock!vars)
<1>. SUFFICES ASSUME IInv, IInv', [Next]_vars PROVE [Lock!Next]_(Lock!vars)
  OBVIOUS
<1>0. ASSUME UNCHANGED <<frames, held>> PROVE UNCHANGED Lock!vars
  BY <1>0 DEF Lock!vars, ThreadHolds, InIrq, Top
<1>. USE DEF software, hardware, context
<1>1. ASSUME NEW d \in Devices, Raise(d) \/ interrupt_set(d) \/ Service(d)
      PROVE  UNCHANGED Lock!vars
  BY <1>0, <1>1 DEF Raise, interrupt_set, Service
<1>2. CASE interrupt_init \/ EnterUser
  BY <1>0, <1>2 DEF interrupt_init, EnterUser
<1>3. ASSUME NEW v0 \in Words, TakeInterrupt(v0) PROVE Lock!HandlerStart
  <2>. DEFINE f == SavedContext(Interrupt, v0, "stale")
  <2>1. ~InIrq /\ held = 0
    BY <1>3 DEF TakeInterrupt, Interruptible, IInv, TypeOK, IrqInv, RunInv,
                ThreadInv, InterruptsOff
  <2>2. frames' = Append(frames, f) /\ frames \in Seq(Frame) /\ f \in Frame
    BY <1>3 DEF TakeInterrupt, SavedContext, Frame, Words, Bits, Owners, Labels,
                IInv, TypeOK
  <2>3. Len(frames') = Len(frames) + 1 /\ frames'[Len(frames')] = f
    BY <2>2, PushFrame
  <2>4. InIrq' /\ Top' = f
    <3>1. Len(frames') > 0
      BY <2>2, <2>3
    <3>. QED  BY <2>2, <2>3, <3>1 DEF InIrq, Top, SavedContext
  <2>5. ~ThreadHolds /\ ThreadHolds' = ThreadHolds
    BY <2>1, <2>4 DEF ThreadHolds, SavedContext
  <2>6. InIrq' = TRUE
    BY <2>4, InIrqBoolean
  <2>. QED  BY <2>1, <2>5, <2>6 DEF Lock!HandlerStart
<1>4. ASSUME NEW code \in Causes, NEW v0 \in Words, RaiseException(code, v0)
      PROVE  UNCHANGED Lock!vars
  <2>. DEFINE f == SavedContext(code, v0, fpu)
  <2>1. ~InIrq /\ held = 0
    BY <1>4 DEF RaiseException, IInv, TypeOK, IrqInv, RunInv, ThreadInv,
                InterruptsOff, Disabling, Labels
  <2>2. frames' = Append(frames, f) /\ frames \in Seq(Frame) /\ f \in Frame
    BY <1>4 DEF RaiseException, SavedContext, Frame, Words, Bits, Owners, Labels,
                IInv, TypeOK
  <2>3. Len(frames') = Len(frames) + 1 /\ frames'[Len(frames')] = f
    BY <2>2, PushFrame
  <2>4. f.cause # Interrupt
    BY CausesAssumption DEF SavedContext, Interrupt
  <2>5. ~InIrq' /\ held' = 0
    <3>1. frames'[Len(frames')].cause # Interrupt
      BY <2>3, <2>4
    <3>. QED  BY <1>4, <3>1 DEF InIrq, Top, RaiseException
  <2>6. InIrq' = InIrq
    BY <2>1, <2>5, InIrqBoolean
  <2>. QED  BY <2>1, <2>5, <2>6 DEF Lock!vars, ThreadHolds
<1>5. CASE LeaveInterrupt
  <2>. DEFINE n == Len(frames) - 1
  <2>1. InIrq /\ frames' = SubSeq(frames, 1, n) /\ held' = Top.held
    BY <1>5 DEF LeaveInterrupt, ReturnFromFrame
  <2>2. n \in 0..1 /\ Len(frames) = n + 1 /\ frames \in Seq(Frame)
    BY <2>1, Levels DEF IInv, TypeOK
  <2>3. /\ frames' \in Seq(Frame) /\ Len(frames') = n
        /\ \A k \in 1..n : frames'[k] = frames[k]
    <3>. HIDE DEF n
    <3>1. n \in Nat
      BY <2>2
    <3>2. /\ SubSeq(frames, 1, n) \in Seq(Frame) /\ Len(SubSeq(frames, 1, n)) = n
          /\ \A k \in 1..n : SubSeq(frames, 1, n)[k] = frames[k]
      BY <2>2, <3>1, PopFrame
    <3>. QED  BY <2>1, <3>2
  <2>4. n = 1 => frames[1].cause # Interrupt
    BY <2>2 DEF IInv, FramesInv
  <2>5. ~InIrq'
    BY <2>2, <2>3, <2>4 DEF InIrq, Top
  <2>6. ThreadHolds' = ThreadHolds
    BY <2>1, <2>5 DEF ThreadHolds
  <2>. QED  BY <2>1, <2>5, <2>6 DEF Lock!Next, Lock!HandlerEnd
<1>6. CASE LeaveException
  <2>1. ~InIrq /\ held = 0 /\ InExc
    BY <1>6 DEF LeaveException, InIrq, InExc
  <2>2. Len(frames) = 1 /\ frames \in Seq(Frame)
    BY <2>1, Levels DEF IInv, TypeOK
  <2>3. frames' = SubSeq(frames, 1, 0) /\ held' = Top.held
    BY <1>6, <2>2 DEF LeaveException, ReturnFromFrame
  <2>4. frames' = <<>>
    BY <2>2, <2>3, PopFrame
  <2>5. Top.held = 0
    BY <2>1, <2>2 DEF IInv, FramesInv, InExc, Top
  <2>. QED  BY <2>1, <2>3, <2>4, <2>5 DEF Lock!vars, ThreadHolds, InIrq
<1>7. CASE \/ ReadCause \/ ReadK0 \/ UseFpu \/ CallDisable
           \/ ReadStatus \/ WriteStatus \/ SaveStatus \/ RestoreStatus
  BY <1>0, <1>7 DEF ReadCause, ReadK0, UseFpu, CallDisable, ReadStatus,
                    WriteStatus, SaveStatus, RestoreStatus
<1>8. CASE CountDisable
  <2>1. /\ held \in Nat /\ held' = held + 1 /\ frames' = frames
        /\ InIrq' = InIrq /\ Top' = Top
    BY <1>8 DEF CountDisable, IInv, TypeOK, InIrq, Top
  <2>2. CASE InIrq \/ held > 0
    BY <2>1, <2>2 DEF Lock!vars, ThreadHolds
  <2>3. CASE ~InIrq /\ held = 0
    BY <2>1, <2>3 DEF Lock!Next, Lock!Lock, ThreadHolds
  <2>. QED  BY <2>1, <2>2, <2>3
<1>9. CASE CallEnable
  <2>1. /\ held \in Nat /\ held > 0 /\ frames' = frames
        /\ InIrq' = InIrq /\ Top' = Top
        /\ held' = held \/ held' = held - 1
    BY <1>9 DEF CallEnable, IInv, TypeOK, InIrq, Top
  <2>2. CASE InIrq \/ held' > 0
    BY <2>1, <2>2 DEF Lock!vars, ThreadHolds
  <2>3. CASE ~InIrq /\ held' = 0
    BY <2>1, <2>3 DEF Lock!Next, Lock!Unlock, ThreadHolds
  <2>. QED  BY <2>1, <2>2, <2>3
<1>10. CASE UNCHANGED vars
  BY <1>0, <1>10 DEF vars
<1>. QED
  BY <1>1, <1>2, <1>3, <1>4, <1>5, <1>6, <1>7, <1>8, <1>9, <1>10
  DEF Next, Lock!Next

\* No interrupt handler starts between interrupt_disable and the matching
\* interrupt_enable, and none is reentered.
THEOREM ImplementsLock == Spec => LockSpec
  BY LockInit, LockStep, Inductive, PTL DEF Spec, LockSpec, Lock!Spec

------------------------------------------------------------------------------
(***************************************************************************)
(* Joybus.  The argument is about who may act: while a read is in flight   *)
(* no interrupt is raised that concerns it, none is left in a snapshot     *)
(* that the handler still works on, and the reply's line is not cached.    *)
(***************************************************************************)

\* The VI is unmasked after the SI, and neither at boot.
Masks ==
  /\ "VI" \in unmasked => thread \notin {"boot", "booted"}
  /\ thread # "boot" => "SI" \in unmasked
  /\ thread = "boot" => "SI" \notin raised /\ unmasked = {}
  /\ handler # "off" => thread # "boot"

\* What the handler's snapshot says of the interrupts that it has yet to serve.
Snapshot ==
  /\ handler = "SI" => status \subseteq raised
  /\ handler = "SI" /\ "VI" \in status /\ "SI" \in raised => "SI" \in status
  /\ handler = "VI" /\ "VI" \in status => "VI" \in raised
  /\ handler \in {"VI", "joypad"} /\ "VI" \in status => "SI" \notin raised
  /\ handler = "joypad" => "VI" \in status /\ "VI" \notin raised /\ si = "idle"

\* A read in flight is alone.
InFlight ==
  si # "idle" =>
    /\ raised = {} /\ handler # "joypad" /\ line = NotCached
    /\ "VI" \in unmasked

\* What is in memory, in the cache and in next.
Copies ==
  /\ line \in {NotCached, rdram}
  /\ si \in {"idle", "exchange", "copy"} => rdram.buttons = rdram.stick
  /\ si = "half" => rdram.buttons = pif
  /\ si = "idle" /\ "SI" \notin raised => next = rdram

PadInv ==
  /\ PadTypeOK /\ ReadAssertHolds /\ WholeReading
  /\ Masks /\ Snapshot /\ InFlight /\ Copies

LEMMA InitPadInv == PadInit => PadInv
BY NotCachedAssumption
   DEF PadInit, PadInv, PadTypeOK, ReadAssertHolds, WholeReading, Masks, Snapshot,
       InFlight, Copies, Inputs, Data, Whole

\* The order in which the branches run.
LEMMA PadOrder == /\ BranchOrder[1] = "SI"
                  /\ After("SI") = "VI" /\ After("VI") = "off"
BY DEF BranchOrder, After

LEMMA StepPadInv == PadInv /\ [PadNext]_pad_vars => PadInv'
<1> SUFFICES ASSUME PadInv, [PadNext]_pad_vars PROVE PadInv'
  OBVIOUS
<1> USE PadOrder, NotCachedAssumption DEF PadInv, si_state, polls
<1>1. CASE \E buttons \in Inputs : Press(buttons)
  BY <1>1 DEF Press, PadTypeOK, ReadAssertHolds, WholeReading, Masks, Snapshot, InFlight, Copies
<1>2. CASE SiExchange
  BY <1>2 DEF SiExchange, PadTypeOK, ReadAssertHolds, WholeReading, Masks, Snapshot, InFlight, Copies
<1>3. CASE SiCopy
  <2>1. /\ rdram'.buttons = pif' /\ rdram'.stick = rdram.stick /\ rdram' \in Data
        /\ line' = NotCached
    BY <1>3 DEF SiCopy, PadTypeOK, Data, Inputs, InFlight
  <2> QED
    BY <1>3, <2>1 DEF SiCopy, PadTypeOK, ReadAssertHolds, WholeReading, Masks, Snapshot, InFlight, Copies
<1>4. CASE SiDone
  <2>1. rdram'.buttons = rdram'.stick /\ rdram' \in Data /\ line' = NotCached
    BY <1>4 DEF SiDone, PadTypeOK, Data, Inputs, InFlight, Copies
  <2> QED
    BY <1>4, <2>1 DEF SiDone, PadTypeOK, ReadAssertHolds, WholeReading, Masks, Snapshot, InFlight, Copies
<1>5. CASE VBlank
  BY <1>5 DEF VBlank, PadTypeOK, ReadAssertHolds, WholeReading, Masks, Snapshot, InFlight, Copies
<1>6. CASE Evict
  BY <1>6 DEF Evict, PadTypeOK, ReadAssertHolds, WholeReading, Masks, Snapshot, InFlight, Copies
<1>7. CASE HandlerStart
  BY <1>7 DEF HandlerStart, PadTypeOK, ReadAssertHolds, WholeReading, Masks, Snapshot, InFlight, Copies
<1>8. CASE HandleSI
  <2>1. CASE "SI" \in status
    <3>1. si = "idle" /\ Reply = rdram /\ rdram \in Data
      BY <1>8, <2>1 DEF HandleSI, Snapshot, InFlight, Copies, Reply, PadTypeOK
    <3> QED
      BY <1>8, <2>1, <3>1 DEF HandleSI, PadTypeOK, ReadAssertHolds, WholeReading, Masks, Snapshot, InFlight, Copies
  <2>2. CASE "SI" \notin status
    BY <1>8, <2>2 DEF HandleSI, PadTypeOK, ReadAssertHolds, WholeReading, Masks, Snapshot, InFlight, Copies
  <2> QED BY <2>1, <2>2
<1>9. CASE HandleVI
  BY <1>9 DEF HandleVI, PadTypeOK, ReadAssertHolds, WholeReading, Masks, Snapshot, InFlight, Copies
<1>10. CASE __joypad_callback
  BY <1>10 DEF __joypad_callback, PadTypeOK, ReadAssertHolds, WholeReading, Masks, Snapshot, InFlight, Copies
<1>11. CASE joybus_init
  BY <1>11 DEF joybus_init, PadTypeOK, ReadAssertHolds, WholeReading, Masks, Snapshot, InFlight, Copies
<1>12. CASE UnmaskVI
  BY <1>12 DEF UnmaskVI, PadTypeOK, ReadAssertHolds, WholeReading, Masks, Snapshot, InFlight, Copies
<1>13. CASE EnterCritical
  BY <1>13 DEF EnterCritical, PadTypeOK, ReadAssertHolds, WholeReading, Masks, Snapshot, InFlight, Copies
<1>14. CASE LeaveCritical
  BY <1>14 DEF LeaveCritical, PadTypeOK, ReadAssertHolds, WholeReading, Masks, Snapshot, InFlight, Copies
<1>15. CASE PollPrevious
  BY <1>15 DEF PollPrevious, PadTypeOK, ReadAssertHolds, WholeReading, Masks, Snapshot, InFlight, Copies
<1>16. CASE PollCurrent
  <2>1. buttons_held' \in Inputs
    BY <1>16 DEF PollCurrent, PadTypeOK, Data, Inputs
  <2> QED
    BY <1>16, <2>1 DEF PollCurrent, PadTypeOK, ReadAssertHolds, WholeReading, Masks, Snapshot, InFlight, Copies
<1>17. CASE UNCHANGED pad_vars
  BY <1>17 DEF pad_vars, PadTypeOK, ReadAssertHolds, WholeReading, Masks, Snapshot, InFlight, Copies, Reply
<1> QED
  BY <1>1, <1>2, <1>3, <1>4, <1>5, <1>6, <1>7, <1>8, <1>9, <1>10, <1>11, <1>12,
     <1>13, <1>14, <1>15, <1>16, <1>17 DEF PadNext, Si, Branches, Main

\* IInv holds in every reachable state.
THEOREM PadInductive == PadSpec => []PadInv
BY InitPadInv, StepPadInv, PTL DEF PadSpec

\* Every variable keeps its type.
THEOREM PadTypeCorrect == PadSpec => []PadTypeOK
<1>1. PadInv => PadTypeOK
  BY DEF PadInv
<1> QED BY <1>1, PadInductive, PTL

\* __joypad_callback's assertion never fires, given the timing assumption at
\* VBlank: a read is over before the next field.
THEOREM ReadNeverAborts == PadSpec => []ReadAssertHolds
<1>1. PadInv => ReadAssertHolds
  BY DEF PadInv
<1> QED BY <1>1, PadInductive, PTL

\* No reading mixes two replies.
THEOREM ReadingsAreWhole == PadSpec => []WholeReading
<1>1. PadInv => WholeReading
  BY DEF PadInv
<1> QED BY <1>1, PadInductive, PTL

\* The cache never hides the reply that the SI wrote last.
THEOREM ReadingsAreFresh == PadSpec => []ReadingIsFresh
<1>1. PadInv => ReadingIsFresh
  BY DEF PadInv, Copies, ReadingIsFresh
<1> QED BY <1>1, PadInductive, PTL

\* A reading is one whole reply and the latest.
THEOREM ReadingsAreTrue == PadSpec => []ReadingIsTrue
  BY ReadingsAreWhole, ReadingsAreFresh, PTL DEF ReadingIsTrue

(***************************************************************************)
(* Console.  Numbers first: that itoa's digits say the number is shown by  *)
(* induction, as a smallest number of which it fails would have a smaller  *)
(* one.                                                                    *)
(***************************************************************************)
\* A set of naturals has a least element: what the inductions below use.
LEMMA SmallestElement ==
  ASSUME NEW T, T \subseteq Nat, T # {}
  PROVE  \E x \in T : \A y \in T : x <= y
<1>1. \E x \in T : \A y \in T : ~ (<<y, x>> \in OpToRel(<, Nat))
  BY WFMin, NatLessThanWellFounded, Zenon
<1>2. PICK x \in T : \A y \in T : ~ (<<y, x>> \in OpToRel(<, Nat))
  BY <1>1, Zenon
<1>3. \A y \in T : ~(y < x)
  BY <1>2, Zenon DEF OpToRel
<1> QED BY <1>3

\* One unfolding of the recursive function in LastFirst.
DigitsFrom(f, n, base) ==
  [v \in 0..n |-> IF v < base THEN <<Digit(v)>> ELSE <<Digit(v % base)>> \o f[v \div base]]

\* Dividing by the base makes a number of several digits smaller.
LEMMA DivSmaller ==
  ASSUME NEW v \in Nat, NEW base \in Nat, 1 < base, base <= v
  PROVE  /\ v \div base \in 1..(v - 1) /\ v % base \in 0..(base - 1)
         /\ v = (base * (v \div base)) + (v % base)
<1>1. v % base \in 0..(base - 1) /\ v \div base \in Nat
  OBVIOUS
<1>2. v = (base * (v \div base)) + (v % base)
  OBVIOUS
<1> DEFINE q == v \div base
<1>3. q >= 1
  <2> SUFFICES ASSUME q = 0 PROVE FALSE
    BY <1>1
  <2> QED BY <1>1, <1>2
<1>4. base * q >= 2 * q
  <2>1. q \in Nat
    BY <1>1
  <2> HIDE DEF q
  <2> QED BY <2>1
<1>5. q \in Nat /\ base * q \in Nat
  BY <1>1
<1>6. v = base * q + (v % base)
  BY <1>2
<1>7. q < v
  <2> HIDE DEF q
  <2> QED BY <1>1, <1>3, <1>4, <1>5, <1>6
<1> QED BY <1>1, <1>2, <1>3, <1>7

\* The recursion of LastFirst is well-founded: a function satisfies it.
LEMMA DigitsDefined ==
  ASSUME NEW base \in 2..36, NEW value \in Nat
  PROVE  \E f : f = DigitsFrom(f, value, base)
<1> DEFINE T == {n \in Nat : ~ \E f : f = DigitsFrom(f, n, base)}
<1>1. SUFFICES ASSUME T # {} PROVE FALSE
  OBVIOUS
<1>2. PICK n \in T : \A m \in T : n <= m
  BY <1>1, SmallestElement
<1>3. CASE n = 0
  <2>1. [v \in 0..0 |-> <<Digit(v)>>] = DigitsFrom([v \in 0..0 |-> <<Digit(v)>>], 0, base)
    BY DEF DigitsFrom
  <2> QED BY <1>3, <2>1
<1>4. CASE n > 0
  <2>1. PICK f : f = DigitsFrom(f, n - 1, base)
    BY <1>2, <1>4
  <2> DEFINE g == DigitsFrom(f, n, base)
  <2>2. ASSUME NEW v \in 0..n, ~(v < base) PROVE g[v \div base] = f[v \div base]
    <3> DEFINE w == v \div base
    <3>1. w \in 0..(n - 1)
      <4>1. v \in Nat /\ base \in Nat /\ 1 < base /\ base <= v
        BY <2>2
      <4>2. w \in 1..(v - 1)
        BY <4>1, DivSmaller
      <4> HIDE DEF w
      <4> QED BY <4>2, <2>2, <1>2
    <3>2. f[w] = IF w < base THEN <<Digit(w)>> ELSE <<Digit(w % base)>> \o f[w \div base]
      <4> HIDE DEF w
      <4> QED BY <3>1, <2>1, Zenon DEF DigitsFrom
    <3>3. g[w] = IF w < base THEN <<Digit(w)>> ELSE <<Digit(w % base)>> \o f[w \div base]
      <4>1. w \in 0..n
        BY <3>1
      <4> HIDE DEF w
      <4> QED BY <4>1, Zenon DEF DigitsFrom
    <3> HIDE DEF w, g
    <3>4. g[w] = f[w]
      BY <3>2, <3>3
    <3> QED BY <3>4 DEF w
  <2>3. g = DigitsFrom(g, n, base)
    BY <2>2 DEF DigitsFrom
  <2> QED BY <2>3, <1>2
<1> QED BY <1>2, <1>3, <1>4

\* So LastFirst is a value of that function.
LEMMA LastFirstIs ==
  ASSUME NEW base \in 2..36, NEW value \in Nat
  PROVE  \E f : f = DigitsFrom(f, value, base) /\ LastFirst(value, base) = f[value]
<1> DEFINE f == CHOOSE digits : digits =
                  [v \in 0..value |-> IF v < base THEN <<Digit(v)>>
                                      ELSE <<Digit(v % base)>> \o digits[v \div base]]
<1>1. f = DigitsFrom(f, value, base)
  BY DigitsDefined, Zenon DEF DigitsFrom
<1>2. LastFirst(value, base) = f[value]
  BY Zenon DEF LastFirst
<1> QED BY <1>1, <1>2, Zenon

\* One unfolding of the recursive function in ValueOf.
ValuesFrom(f, numeral, n, base) ==
  [m \in 0..n |-> IF m = 0 THEN 0 ELSE f[m - 1] * base + DigitValue(numeral[m])]

\* The recursion of ValueOf is well-founded as well.
LEMMA ValuesDefined ==
  ASSUME NEW base, NEW numeral, NEW length \in Nat
  PROVE  \E f : f = ValuesFrom(f, numeral, length, base)
<1> DEFINE T == {n \in Nat : ~ \E f : f = ValuesFrom(f, numeral, n, base)}
<1>1. SUFFICES ASSUME T # {} PROVE FALSE
  OBVIOUS
<1>2. PICK n \in T : \A m \in T : n <= m
  BY <1>1, SmallestElement
<1>3. CASE n = 0
  <2>1. [m \in 0..0 |-> 0] = ValuesFrom([m \in 0..0 |-> 0], numeral, 0, base)
    BY DEF ValuesFrom
  <2> QED BY <1>3, <2>1
<1>4. CASE n > 0
  <2>1. PICK f : f = ValuesFrom(f, numeral, n - 1, base)
    BY <1>2, <1>4
  <2> DEFINE g == ValuesFrom(f, numeral, n, base)
  <2>2. ASSUME NEW m \in 0..n, m # 0 PROVE g[m - 1] = f[m - 1]
    <3> DEFINE w == m - 1
    <3>1. w \in 0..(n - 1) /\ w \in 0..n
      BY <2>2
    <3>2. f[w] = IF w = 0 THEN 0 ELSE f[w - 1] * base + DigitValue(numeral[w])
      <4> HIDE DEF w
      <4> QED BY <3>1, <2>1, Zenon DEF ValuesFrom
    <3>3. g[w] = IF w = 0 THEN 0 ELSE f[w - 1] * base + DigitValue(numeral[w])
      <4> HIDE DEF w
      <4> QED BY <3>1, Zenon DEF ValuesFrom
    <3> HIDE DEF w, g
    <3>4. g[w] = f[w]
      BY <3>2, <3>3
    <3> QED BY <3>4 DEF w
  <2>3. g = ValuesFrom(g, numeral, n, base)
    BY <2>2 DEF ValuesFrom
  <2> QED BY <2>3, <1>2
<1> QED BY <1>2, <1>3, <1>4

\* So ValueOf is a value of that function.
LEMMA ValueOfIs ==
  ASSUME NEW base, NEW numeral, Len(numeral) \in Nat
  PROVE  \E f : /\ f = ValuesFrom(f, numeral, Len(numeral), base)
                /\ ValueOf(numeral, base) = f[Len(numeral)]
<1> DEFINE f == CHOOSE upto : upto =
                  [n \in 0..Len(numeral) |->
                     IF n = 0 THEN 0 ELSE upto[n - 1] * base + DigitValue(numeral[n])]
<1>1. f = ValuesFrom(f, numeral, Len(numeral), base)
  <2>1. \E upto : upto = ValuesFrom(upto, numeral, Len(numeral), base)
    BY ValuesDefined
  <2> QED BY <2>1, Zenon DEF ValuesFrom
<1>2. ValueOf(numeral, base) = f[Len(numeral)]
  BY Zenon DEF ValueOf
<1> QED BY <1>1, <1>2, Zenon

\* A digit more: the value so far times the base, and the digit.
LEMMA ValueAppended ==
  ASSUME NEW base, NEW chars, NEW s \in Seq(chars), NEW c \in chars
  PROVE  ValueOf(Append(s, c), base) = ValueOf(s, base) * base + DigitValue(c)
<1> DEFINE a == Append(s, c)
<1>1. a \in Seq(chars) /\ Len(a) = Len(s) + 1 /\ Len(s) \in Nat /\ a[Len(a)] = c
      /\ \A m \in 1..Len(s) : a[m] = s[m]
  OBVIOUS
<1>2. PICK f : f = ValuesFrom(f, s, Len(s), base) /\ ValueOf(s, base) = f[Len(s)]
  BY <1>1, ValueOfIs
<1>3. PICK g : g = ValuesFrom(g, a, Len(a), base) /\ ValueOf(a, base) = g[Len(a)]
  <2> HIDE DEF a
  <2> QED BY <1>1, ValueOfIs
<1> HIDE DEF a
<1>4. \A n \in 0..Len(s) : f[n] = g[n]
  <2> DEFINE T == {n \in 0..Len(s) : f[n] # g[n]}
  <2>1. SUFFICES ASSUME T # {} PROVE FALSE
    OBVIOUS
  <2>2. T \subseteq Nat
    BY <1>1
  <2>3. PICK n \in T : \A m \in T : n <= m
    <3> HIDE DEF T
    <3> QED BY <2>1, <2>2, SmallestElement
  <2>4. f[n] = IF n = 0 THEN 0 ELSE f[n - 1] * base + DigitValue(s[n])
    BY <1>2, <2>3, Zenon DEF ValuesFrom
  <2>5. n \in 0..Len(a)
    BY <2>3, <1>1
  <2>6. g[n] = IF n = 0 THEN 0 ELSE g[n - 1] * base + DigitValue(a[n])
    BY <1>3, <2>5, Zenon DEF ValuesFrom
  <2>7. CASE n = 0
    BY <2>7, <2>3, <2>4, <2>6
  <2>8. CASE n # 0
    <3>1. n \in 1..Len(s) /\ n - 1 \in 0..Len(s) /\ n - 1 < n
      BY <2>8, <2>3, <1>1
    <3>2. f[n - 1] = g[n - 1]
      BY <3>1, <2>3
    <3>3. a[n] = s[n]
      BY <3>1, <1>1
    <3> QED BY <3>2, <3>3, <2>8, <2>4, <2>6, <2>3, Zenon
  <2> QED BY <2>7, <2>8
<1>5. Len(a) \in 0..Len(a) /\ Len(a) # 0 /\ Len(a) - 1 = Len(s) /\ Len(s) \in 0..Len(s)
  BY <1>1
<1>6. g[Len(a)] = g[Len(a) - 1] * base + DigitValue(a[Len(a)])
  BY <1>3, <1>5, Zenon DEF ValuesFrom
<1>7. g[Len(a)] = f[Len(s)] * base + DigitValue(c)
  BY <1>1, <1>4, <1>5, <1>6, Zenon
<1> QED BY <1>2, <1>3, <1>7, Zenon DEF a

\* No digits, no value.
LEMMA ValueOfEmpty ==
  ASSUME NEW base
  PROVE  ValueOf(<<>>, base) = 0
<1>1. PICK f : f = ValuesFrom(f, <<>>, Len(<<>>), base) /\ ValueOf(<<>>, base) = f[Len(<<>>)]
  BY ValueOfIs
<1> QED BY <1>1 DEF ValuesFrom

\* A digit is a character that tells its value.
LEMMA DigitsAreDistinct ==
  ASSUME NEW d \in 0..35
  PROVE  Digit(d) \in 1..127 /\ DigitValue(Digit(d)) = d /\ (Digit(d) = Digit(0) => d = 0)
<1>1. Digit(d) \in 1..127 /\ \A e \in 0..35 : Digit(e) = Digit(d) => e = d
  BY DEF Digit
<1> QED BY <1>1 DEF DigitValue

\* The digits of a base.
DigitsOf(base) == {Digit(d) : d \in 0..(base - 1)}

\* What utoa's loop has written of a number, last digit first.
IsNumeral(s, value, base) ==
  /\ s \in Seq(DigitsOf(base)) /\ s # <<>>
  /\ ValueOf(Reverse(s), base) = value
  /\ value # 0 => s[Len(s)] # Digit(0)
  /\ value = 0 => Len(s) = 1

\* The first of a sequence is the last of its reverse.
LEMMA ReverseLonger ==
  ASSUME NEW chars, NEW c \in chars, NEW s \in Seq(chars)
  PROVE  /\ Reverse(s) \in Seq(chars)
         /\ Reverse(<<c>> \o s) = Append(Reverse(s), c)
<1>1. Reverse(s) \in Seq(chars) /\ Len(Reverse(s)) = Len(s)
  BY DEF Reverse
<1> DEFINE t == <<c>> \o s
           r == Reverse(s)
<1>2. t \in Seq(chars) /\ Len(t) = Len(s) + 1 /\ t[1] = c /\ \A m \in 1..Len(s) : t[m + 1] = s[m]
  OBVIOUS
<1>3. Reverse(t) = [m \in 1..Len(t) |-> t[(Len(t) - m) + 1]]
  BY DEF Reverse
<1>4. \A m \in 1..Len(s) : r[m] = s[(Len(s) - m) + 1]
  BY DEF Reverse
<1>5. \A m \in 1..Len(t) : Reverse(t)[m] = Append(r, c)[m]
  <2> TAKE m \in 1..Len(t)
  <2>1. Reverse(t)[m] = t[(Len(t) - m) + 1]
    <3> HIDE DEF t
    <3> QED BY <1>3
  <2>2. CASE m = Len(t)
    <3> HIDE DEF t, r
    <3> QED BY <2>1, <2>2, <1>1, <1>2 DEF r
  <2>3. CASE m # Len(t)
    <3>1. m \in 1..Len(s) /\ (Len(s) - m) + 1 \in 1..Len(s) /\ ((Len(s) - m) + 1) + 1 = (Len(t) - m) + 1
      <4> HIDE DEF t, r
      <4> QED BY <1>2, <2>3
    <3>2. t[(Len(t) - m) + 1] = s[(Len(s) - m) + 1]
      <4> HIDE DEF t, r
      <4> QED BY <3>1, <1>2
    <3>3. Append(r, c)[m] = r[m]
      <4> HIDE DEF t
      <4> QED BY <3>1, <1>1
    <3> QED BY <2>1, <3>1, <3>2, <3>3, <1>4, Zenon
  <2> QED BY <2>2, <2>3
<1>6. Reverse(t) \in Seq(chars) /\ Len(Reverse(t)) = Len(t)
  <2> HIDE DEF t
  <2> QED BY <1>2 DEF Reverse
<1>7. Append(r, c) \in Seq(chars) /\ Len(Append(r, c)) = Len(t)
  <2> HIDE DEF t, r
  <2> QED BY <1>1, <1>2 DEF r
<1>8. Reverse(t) = Append(r, c)
  <2> HIDE DEF t, r
  <2> QED BY <1>5, <1>6, <1>7
<1> QED BY <1>1, <1>8

\* A sequence of one is its own reverse.
LEMMA ReverseSingle ==
  ASSUME NEW chars, NEW c \in chars
  PROVE  Reverse(<<c>>) = Append(<<>>, c)
<1>1. Reverse(<<>>) = <<>>
  BY DEF Reverse
<1>2. Reverse(<<c>> \o <<>>) = Append(Reverse(<<>>), c)
  <2>1. <<>> \in Seq(chars)
    OBVIOUS
  <2> QED BY <2>1, ReverseLonger, Zenon
<1>3. <<c>> \o <<>> = <<c>>
  OBVIOUS
<1> QED BY <1>1, <1>2, <1>3

\* utoa's loop writes every number, by induction on the number.
LEMMA DigitsSay ==
  ASSUME NEW base \in 2..36, NEW value \in Nat, NEW f, f = DigitsFrom(f, value, base)
  PROVE  \A v \in 0..value : IsNumeral(f[v], v, base)
<1> DEFINE T == {v \in 0..value : ~IsNumeral(f[v], v, base)}
<1>1. SUFFICES ASSUME T # {} PROVE FALSE
  OBVIOUS
<1>2. PICK v \in T : \A w \in T : v <= w
  <2>1. T \subseteq Nat
    OBVIOUS
  <2> HIDE DEF T
  <2> QED BY <1>1, <2>1, SmallestElement
<1>3. v \in 0..value /\ v \in Nat /\ base \in Nat /\ 1 < base
  BY <1>2
<1>4. f[v] = IF v < base THEN <<Digit(v)>> ELSE <<Digit(v % base)>> \o f[v \div base]
  BY <1>3, Zenon DEF DigitsFrom
<1>5. CASE v < base
  <2>1. v \in 0..35 /\ Digit(v) \in DigitsOf(base)
    BY <1>3, <1>5 DEF DigitsOf
  <2>2. f[v] = <<Digit(v)>>
    BY <1>4, <1>5
  <2>3. ValueOf(Reverse(f[v]), base) = v
    <3>1. Reverse(f[v]) = Append(<<>>, Digit(v))
      BY <2>1, <2>2, ReverseSingle
    <3>2. ValueOf(Append(<<>>, Digit(v)), base) = ValueOf(<<>>, base) * base + DigitValue(Digit(v))
      <4>1. <<>> \in Seq(DigitsOf(base))
        OBVIOUS
      <4> QED BY <4>1, <2>1, ValueAppended
    <3>3. ValueOf(<<>>, base) * base = 0
      BY <1>3, ValueOfEmpty
    <3>4. DigitValue(Digit(v)) = v
      BY <2>1, DigitsAreDistinct
    <3>5. 0 + v = v
      BY <1>3
    <3> QED BY <3>1, <3>2, <3>3, <3>4, <3>5, <2>2, Zenon
  <2>4. IsNumeral(f[v], v, base)
    <3>1. f[v] \in Seq(DigitsOf(base)) /\ f[v] # <<>> /\ Len(f[v]) = 1 /\ f[v][1] = Digit(v)
      BY <2>1, <2>2
    <3> QED BY <3>1, <2>3, <2>1, DigitsAreDistinct DEF IsNumeral
  <2> QED BY <2>4, <1>2
<1>6. CASE ~(v < base)
  <2> DEFINE q == v \div base
             d == v % base
             s == f[q]
  <2>1. q \in 1..(v - 1) /\ d \in 0..(base - 1) /\ v = (base * q) + d
    <3>1. base <= v
      BY <1>6, <1>3
    <3> QED BY <3>1, <1>3, DivSmaller
  <2>2. IsNumeral(s, q, base)
    <3> HIDE DEF q
    <3>1. q \in 0..value /\ q < v
      BY <2>1, <1>3
    <3> QED BY <3>1, <1>2, <1>3
  <2>3. f[v] = <<Digit(d)>> \o s
    BY <1>4, <1>6
  <2> HIDE DEF q, d, s
  <2>4. d \in 0..35 /\ Digit(d) \in DigitsOf(base) /\ s \in Seq(DigitsOf(base)) /\ s # <<>> /\ q # 0
    <3>1. d \in 0..35 /\ q # 0
      BY <2>1
    <3>2. Digit(d) \in DigitsOf(base)
      BY <2>1, Zenon DEF DigitsOf
    <3> QED BY <3>1, <3>2, <2>2 DEF IsNumeral
  <2>5. ValueOf(Reverse(f[v]), base) = v
    <3>1. Reverse(f[v]) = Append(Reverse(s), Digit(d)) /\ Reverse(s) \in Seq(DigitsOf(base))
      BY <2>3, <2>4, ReverseLonger
    <3>2. ValueOf(Append(Reverse(s), Digit(d)), base) = ValueOf(Reverse(s), base) * base + DigitValue(Digit(d))
      BY <3>1, <2>4, ValueAppended
    <3>3. ValueOf(Reverse(s), base) = q
      BY <2>2 DEF IsNumeral
    <3>4. q * base = base * q
      BY <2>1, <1>3
    <3> QED BY <3>1, <3>2, <3>3, <3>4, <2>1, <2>4, DigitsAreDistinct, Zenon
  <2>6. f[v] \in Seq(DigitsOf(base)) /\ f[v] # <<>> /\ f[v][Len(f[v])] = s[Len(s)]
    BY <2>3, <2>4
  <2>7. s[Len(s)] # Digit(0)
    BY <2>2, <2>4 DEF IsNumeral
  <2>8. v # 0
    BY <2>1
  <2> QED BY <2>5, <2>6, <2>7, <2>8, <1>2 DEF IsNumeral
<1> QED BY <1>5, <1>6

\* itoa writes the number it is given in every base, in decimal if it is below
\* 2^31; of the others it writes something.
THEOREM ItoaSays ==
  ASSUME NEW base \in 2..36, NEW value \in 0..(2 * Half - 1)
  PROVE  /\ base # 10 \/ value < Half => SaysNumber(itoa(value, base), value, base)
         /\ itoa(value, base) \in Seq(1..127) \ {<<>>}
<1>1. ASSUME NEW number \in Nat
      PROVE  LET u == utoa(number, base) IN
             /\ u # <<>> /\ u \in Seq(1..127) /\ ToSet(u) \subseteq DigitsOf(base)
             /\ ValueOf(u, base) = number /\ (Len(u) > 1 => u[1] # Digit(0))
  <2>1. PICK f : f = DigitsFrom(f, number, base) /\ LastFirst(number, base) = f[number]
    BY LastFirstIs
  <2> DEFINE s == LastFirst(number, base)
             u == utoa(number, base)
  <2>2. IsNumeral(s, number, base)
    BY <2>1, DigitsSay
  <2>3. u = Reverse(s)
    BY DEF utoa
  <2> HIDE DEF s, u
  <2>4. s \in Seq(DigitsOf(base)) /\ s # <<>>
    BY <2>2 DEF IsNumeral
  <2>5. u \in Seq(DigitsOf(base)) /\ Len(u) = Len(s) /\ Len(s) \in Nat /\ u[1] = s[Len(s)]
    BY <2>3, <2>4 DEF Reverse
  <2>6. DigitsOf(base) \subseteq 1..127
    BY DigitsAreDistinct DEF DigitsOf
  <2>7. u \in Seq(1..127) /\ u # <<>> /\ ToSet(u) \subseteq DigitsOf(base)
    BY <2>4, <2>5, <2>6 DEF ToSet
  <2>8. ValueOf(u, base) = number
    BY <2>2, <2>3 DEF IsNumeral
  <2>9. Len(u) > 1 => u[1] # Digit(0)
    BY <2>2, <2>5 DEF IsNumeral
  <2> QED BY <2>7, <2>8, <2>9 DEF u
<1>2. Half \in Nat /\ Minus \in 1..127 /\ value \in Nat
  BY LengthAssumption DEF Minus
<1>3. CASE base = 10 /\ value >= Half
  <2> DEFINE u == utoa(2 * Half - value, base)
  <2>1. 2 * Half - value \in Nat
    BY <1>2
  <2>2. u # <<>> /\ u \in Seq(1..127)
    BY <2>1, <1>1
  <2>3. itoa(value, base) = <<Minus>> \o u
    BY <1>3 DEF itoa
  <2> HIDE DEF u
  <2>4. itoa(value, base) \in Seq(1..127) /\ itoa(value, base) # <<>>
    BY <2>2, <2>3, <1>2
  <2> QED BY <2>4, <1>2, <1>3
<1>4. CASE ~(base = 10 /\ value >= Half)
  <2> DEFINE u == utoa(value, base)
  <2>2. /\ u # <<>> /\ u \in Seq(1..127) /\ ToSet(u) \subseteq DigitsOf(base)
        /\ ValueOf(u, base) = value /\ (Len(u) > 1 => u[1] # Digit(0))
    BY <1>2, <1>1
  <2>3. itoa(value, base) = u
    BY <1>4 DEF itoa
  <2> HIDE DEF u
  <2> QED BY <2>2, <2>3, <1>4 DEF SaysNumber, DigitsOf
<1> QED BY <1>3, <1>4

(***************************************************************************)
(* The strings: a buffer holds a string when the string and a terminator   *)
(* are at its start, whatever follows.                                     *)
(***************************************************************************)
Holds(mem, s) ==
  /\ mem \in [BufferIndexes -> 0..127] /\ s \in Seq(1..127) /\ Len(s) < BufferLen
  /\ \A k \in 1..Len(s) : mem[k - 1] = s[k]
  /\ mem[Len(s)] = 0

\* An element of a sequence is one of its set.
LEMMA ElementOf ==
  ASSUME NEW chars, NEW s \in Seq(chars), NEW k \in 1..Len(s)
  PROVE  s[k] \in chars
OBVIOUS

\* strlen finds the end of the string that a buffer holds.
LEMMA StrLenIs ==
  ASSUME NEW mem, NEW s, Holds(mem, s)
  PROVE  StrLen(mem) = Len(s)
<1> DEFINE Ends(n) == (\A k \in 0..(n - 1) : mem[k] # 0) /\ (n = BufferLen \/ mem[n] = 0)
<1>1. /\ BufferLen \in Nat /\ Len(s) \in 0..(BufferLen - 1) /\ mem[Len(s)] = 0
      /\ s \in Seq(1..127) /\ \A k \in 1..Len(s) : mem[k - 1] = s[k]
  BY LengthAssumption DEF Holds
<1>2. \A k \in 0..(Len(s) - 1) : mem[k] # 0
  <2> TAKE k \in 0..(Len(s) - 1)
  <2>1. k + 1 \in 1..Len(s) /\ (k + 1) - 1 = k
    BY <1>1
  <2>2. s[k + 1] \in 1..127
    BY <2>1, <1>1, ElementOf, Zenon
  <2>3. mem[(k + 1) - 1] = s[k + 1]
    BY <2>1, <1>1
  <2>4. mem[k] = s[k + 1]
    BY <2>1, <2>3, Zenon
  <2>5. \A c \in 1..127 : c # 0
    OBVIOUS
  <2> QED BY <2>2, <2>4, <2>5, Zenon
<1>3. Len(s) \in 0..BufferLen /\ Ends(Len(s))
  BY <1>1, <1>2
<1>4. ASSUME NEW n \in 0..BufferLen, Ends(n) PROVE n = Len(s)
  BY <1>1, <1>2, <1>4
<1>5. StrLen(mem) = CHOOSE n \in 0..BufferLen : Ends(n)
  BY DEF StrLen
<1> HIDE DEF Ends
<1> QED BY <1>3, <1>4, <1>5

\* strncpy: the buffer holds the text, whatever it held before.
LEMMA CopyHolds ==
  ASSUME NEW mem \in [BufferIndexes -> 0..127], NEW text \in Seq(1..127), NEW n \in Nat,
         Len(text) < n, n <= BufferLen
  PROVE  Holds(strncpy(mem, text, n), text)
<1> DEFINE b == strncpy(mem, text, n)
<1>1. BufferLen \in Nat /\ Len(text) \in Nat /\ Len(text) < BufferLen
  BY LengthAssumption
<1>2. b = [k \in BufferIndexes |-> IF k >= n THEN mem[k] ELSE IF k < Len(text) THEN text[k + 1] ELSE 0]
  BY DEF strncpy
<1> HIDE DEF b
<1>3. b \in [BufferIndexes -> 0..127]
  <2>1. ASSUME NEW k \in BufferIndexes
        PROVE  (IF k >= n THEN mem[k] ELSE IF k < Len(text) THEN text[k + 1] ELSE 0) \in 0..127
    <3>1. k < Len(text) => text[k + 1] \in 1..127
      <4>1. k < Len(text) => k + 1 \in 1..Len(text)
        BY <1>1 DEF BufferIndexes
      <4> QED BY <4>1, ElementOf, Zenon
    <3> QED BY <3>1
  <2> QED BY <1>2, <2>1
<1>4. \A k \in 1..Len(text) : b[k - 1] = text[k]
  <2> TAKE k \in 1..Len(text)
  <2>1. k - 1 \in BufferIndexes /\ ~(k - 1 >= n) /\ k - 1 < Len(text) /\ (k - 1) + 1 = k
    BY <1>1 DEF BufferIndexes
  <2> QED BY <1>2, <2>1
<1>5. b[Len(text)] = 0
  BY <1>1, <1>2 DEF BufferIndexes
<1> QED BY <1>1, <1>3, <1>4, <1>5 DEF Holds, b

\* strncat: the buffer holds both strings, one behind the other.
LEMMA CatHolds ==
  ASSUME NEW mem, NEW s, Holds(mem, s), NEW text \in Seq(1..127), NEW n \in Nat,
         Len(text) < n, Len(s) + Len(text) < BufferLen
  PROVE  Holds(strncat(mem, text, n), s \o text)
<1> DEFINE b == strncat(mem, text, n)
           end == Len(s)
           copied == Len(text)
           joined == s \o text
<1>1. /\ BufferLen \in Nat /\ end \in Nat /\ copied \in Nat /\ end + copied < BufferLen
      /\ s \in Seq(1..127) /\ mem \in [BufferIndexes -> 0..127]
  BY LengthAssumption DEF Holds
<1>2. b = [k \in BufferIndexes |-> IF k \in end..(end + copied - 1) THEN text[k - end + 1]
                             ELSE IF k = end + copied THEN 0 ELSE mem[k]]
  <2>1. StrLen(mem) = end
    BY StrLenIs
  <2> QED BY <2>1, <1>1 DEF strncat
<1>3. /\ joined \in Seq(1..127) /\ Len(joined) = end + copied
      /\ \A k \in 1..end : joined[k] = s[k]
      /\ \A k \in 1..copied : joined[end + k] = text[k]
  BY <1>1
<1> HIDE DEF b, joined
<1>4. b \in [BufferIndexes -> 0..127]
  <2>1. ASSUME NEW k \in BufferIndexes
        PROVE  (IF k \in end..(end + copied - 1) THEN text[k - end + 1]
                ELSE IF k = end + copied THEN 0 ELSE mem[k]) \in 0..127
    <3>1. k \in end..(end + copied - 1) => text[k - end + 1] \in 1..127
      <4>1. k \in end..(end + copied - 1) => k - end + 1 \in 1..copied
        BY <1>1
      <4> QED BY <4>1, ElementOf, Zenon
    <3> QED BY <3>1, <1>1
  <2> QED BY <1>2, <2>1
<1>5. \A k \in 1..Len(joined) : b[k - 1] = joined[k]
  <2> TAKE k \in 1..Len(joined)
  <2>1. CASE k <= end
    <3>1. k - 1 \in BufferIndexes /\ ~(k - 1 \in end..(end + copied - 1)) /\ k - 1 # end + copied
      BY <2>1, <1>1, <1>3 DEF BufferIndexes
    <3>2. b[k - 1] = mem[k - 1]
      BY <3>1, <1>2
    <3>3. mem[k - 1] = s[k]
      BY <2>1, <1>1, <1>3 DEF Holds
    <3>4. joined[k] = s[k]
      BY <2>1, <1>1, <1>3
    <3> QED BY <3>2, <3>3, <3>4
  <2>2. CASE ~(k <= end)
    <3> DEFINE m == k - end
    <3>1. k - 1 \in BufferIndexes /\ k - 1 \in end..(end + copied - 1) /\ m \in 1..copied
          /\ end + m = k /\ (k - 1) - end + 1 = m
      BY <2>2, <1>1, <1>3 DEF BufferIndexes
    <3> HIDE DEF m
    <3>2. b[k - 1] = text[m]
      BY <3>1, <1>2
    <3> QED BY <3>1, <3>2, <1>3
  <2> QED BY <2>1, <2>2
<1>6. b[end + copied] = 0
  BY <1>1, <1>2 DEF BufferIndexes
<1> QED BY <1>1, <1>3, <1>4, <1>5, <1>6 DEF Holds, b, joined

(***************************************************************************)
(* The first n characters of print_buffer.                                 *)
(***************************************************************************)
Said(mem, n) == [k \in 1..n |-> mem[k - 1]]

\* The front of a buffer is the string it holds.
LEMMA SaidIs ==
  ASSUME NEW mem, NEW s, Holds(mem, s)
  PROVE  Said(mem, Len(s)) = s
BY DEF Holds, Said

\* A newline in the place of the terminator ends the line.
LEMMA SaidLine ==
  ASSUME NEW mem, NEW s, Holds(mem, s)
  PROVE  /\ [mem EXCEPT ![Len(s)] = NL] \in [BufferIndexes -> 0..127]
         /\ Said([mem EXCEPT ![Len(s)] = NL], Len(s) + 1) = s \o <<NL>>
<1> DEFINE b == [mem EXCEPT ![Len(s)] = NL]
<1>1. /\ mem \in [BufferIndexes -> 0..127] /\ s \in Seq(1..127) /\ Len(s) \in BufferIndexes /\ NL \in 0..127
      /\ Len(s) \in Nat
  BY LengthAssumption DEF Holds, BufferIndexes, NL
<1>2. b \in [BufferIndexes -> 0..127] /\ b[Len(s)] = NL /\ \A k \in BufferIndexes : k # Len(s) => b[k] = mem[k]
  BY <1>1
<1> HIDE DEF b
<1>3. \A k \in 1..(Len(s) + 1) : Said(b, Len(s) + 1)[k] = (s \o <<NL>>)[k]
  <2> TAKE k \in 1..(Len(s) + 1)
  <2>1. Said(b, Len(s) + 1)[k] = b[k - 1]
    BY DEF Said
  <2>2. CASE k = Len(s) + 1
    <3>1. k - 1 = Len(s)
      BY <2>2, <1>1
    <3>2. (s \o <<NL>>)[k] = NL
      BY <2>2, <1>1
    <3> QED BY <2>1, <3>1, <3>2, <1>2
  <2>3. CASE k # Len(s) + 1
    <3>1. k \in 1..Len(s) /\ k - 1 \in 0..Len(s) /\ k - 1 # Len(s)
      BY <2>3, <1>1
    <3>4. k - 1 \in BufferIndexes
      BY <3>1, <1>1, LengthAssumption DEF BufferIndexes
    <3>2. b[k - 1] = s[k]
      BY <3>1, <3>4, <1>2 DEF Holds
    <3>3. (s \o <<NL>>)[k] = s[k]
      BY <3>1, <1>1
    <3> QED BY <2>1, <3>2, <3>3
  <2> QED BY <2>2, <2>3
<1>4. s \o <<NL>> \in Seq(0..127) /\ Len(s \o <<NL>>) = Len(s) + 1
  <2> DEFINE chars == 0..127
  <2>1. \A k \in 1..Len(s) : s[k] \in chars
    <3>1. \A k \in 1..Len(s) : s[k] \in 1..127
      BY <1>1, ElementOf, Zenon
    <3> QED BY <3>1
  <2>2. NL \in chars
    BY <1>1
  <2> HIDE DEF chars
  <2>3. s \in Seq(chars)
    BY <1>1, <2>1
  <2> QED BY <2>2, <2>3 DEF chars
<1>5. s \o <<NL>> = [k \in 1..(Len(s) + 1) |-> (s \o <<NL>>)[k]]
  BY <1>4
<1>6. Said(b, Len(s) + 1) = s \o <<NL>>
  BY <1>3, <1>5 DEF Said
<1> QED BY <1>2, <1>6 DEF b

(***************************************************************************)
(* The inductive invariant of the debug output: the front of print_buffer  *)
(* says the message; what has been shown is the beginning of it, and what  *)
(* isviewer_write has left to send the rest, at data.  Before is_enabled   *)
(* is set there is nothing to say.                                         *)
(***************************************************************************)
Extent == Len(shown) + len

\* What is shown and what is left to send are the message.
SendingInv ==
  /\ writer \in {"init", "idle"} => len = 0
  /\ writer \in {"chunk", "word"} => len > 0
  /\ Extent <= BufferLen
  /\ shown = Said(print_buffer, Len(shown))
  /\ \A k \in 1..Extent : Said(print_buffer, Extent)[k] \in 1..127
  /\ Says(Said(print_buffer, Extent), message)

\* The words written so far are in the viewer's buffer.
WordInv ==
  /\ l = (IF len < ViewerLen THEN len ELSE ViewerLen)
  /\ i % 4 = 0 /\ data = Len(shown) + i
  /\ \A k \in 0..(l - 1) : k < i => viewer[k] = print_buffer[Len(shown) + k]

\* Only with a viewer is there anything to send.
ConsoleInv ==
  /\ ConsoleTypeOK
  /\ enabled => kind = "memory"
  /\ writer = "init" => ~enabled /\ shown = <<>>
  /\ writer \in {"chunk", "word"} => enabled
  /\ enabled \/ writer = "init" => SendingInv
  /\ writer = "chunk" => data = Len(shown)
  /\ writer = "word" => WordInv

\* The assumptions on the constants, in the form the proofs use.
LEMMA ConsoleConstants ==
  /\ BufferLen \in Nat /\ PrefixLen \in Nat /\ NumberLen \in Nat /\ ViewerLen \in Nat
  /\ 0 < BufferLen /\ 0 < ViewerLen /\ ViewerLen % 4 = 0
  /\ PrefixLen + NumberLen <= BufferLen
  /\ \A text \in Texts : text \in Seq(1..127) /\ Len(text) < BufferLen
  /\ \A value \in Values, base \in Bases : value \in 0..(2 * Half - 1) /\ base \in 2..36
BY LengthAssumption, ValuesAssumption

\* A message said in full: its text, its number and its end.
LEMMA SaysWhole ==
  ASSUME NEW text \in Seq(1..127), NEW number \in Seq(1..127), NEW end \in {<<>>, <<NL>>},
         NEW asked, asked.text = text, asked.end = end,
         ShowsNumber(number, asked.number)
  PROVE  Says((text \o number) \o end, asked)
<1> DEFINE said == (text \o number) \o end
           chars == 1..127
<1>1. NL \in chars
  BY DEF NL
<1>2. text \in Seq(chars) /\ number \in Seq(chars)
  OBVIOUS
<1> HIDE DEF chars
<1>3. end \in Seq(chars)
  <2>1. <<>> \in Seq(chars) /\ <<NL>> \in Seq(chars)
    BY <1>1
  <2> QED BY <2>1
<1>4. /\ Len(text) \in Nat /\ Len(number) \in Nat /\ Len(end) \in Nat
      /\ said \in Seq(chars) /\ Len(said) = (Len(text) + Len(number)) + Len(end)
      /\ \A k \in 1..Len(text) : said[k] = text[k]
      /\ \A k \in 1..Len(number) : said[Len(text) + k] = number[k]
      /\ \A k \in 1..Len(end) : said[(Len(text) + Len(number)) + k] = end[k]
  BY <1>2, <1>3
<1> HIDE DEF said
<1>5. IsPrefix(text, said)
  BY <1>2, <1>4 DEF IsPrefix
<1>6. IsSuffix(end, said)
  <2> DEFINE e == Reverse(end)
             r == Reverse(said)
  <2>1. /\ e \in Seq(chars) /\ Len(e) = Len(end) /\ r \in Seq(chars) /\ Len(r) = Len(said)
        /\ \A k \in 1..Len(end) : e[k] = end[(Len(end) - k) + 1]
        /\ \A k \in 1..Len(said) : r[k] = said[(Len(said) - k) + 1]
    BY <1>3, <1>4 DEF Reverse
  <2> HIDE DEF e, r
  <2>2. Len(e) <= Len(r)
    BY <2>1, <1>4
  <2>3. \A k \in 1..Len(e) : r[k] = e[k]
    <3> TAKE k \in 1..Len(e)
    <3> DEFINE m == (Len(end) - k) + 1
    <3>1. m \in 1..Len(end) /\ (Len(said) - k) + 1 = (Len(text) + Len(number)) + m
          /\ k \in 1..Len(said) /\ k \in 1..Len(end)
      BY <2>1, <1>4
    <3>2. r[k] = said[(Len(said) - k) + 1] /\ e[k] = end[m]
      BY <3>1, <2>1
    <3> HIDE DEF m
    <3>3. said[(Len(text) + Len(number)) + m] = end[m]
      BY <3>1, <1>4
    <3> QED BY <3>1, <3>2, <3>3, Zenon
  <2>4. SubSeq(e, 1, Len(e)) = SubSeq(r, 1, Len(e))
    BY <2>1, <2>2, <2>3
  <2> QED BY <2>2, <2>4 DEF IsSuffix, IsPrefix, e, r
<1>7. SubSeq(said, Len(text) + 1, Len(said) - Len(end)) = number
  <2>1. Len(said) - Len(end) = Len(text) + Len(number)
    BY <1>4
  <2> DEFINE s == SubSeq(said, Len(text) + 1, Len(text) + Len(number))
  <2>2. /\ s \in Seq(chars) /\ Len(s) = Len(number)
        /\ \A k \in 1..Len(number) : s[k] = said[Len(text) + k]
    <3>1. s = [k \in 1..Len(number) |-> said[Len(text) + k]]
      BY <1>4
    <3>2. \A k \in 1..Len(number) : said[Len(text) + k] \in chars
      BY <1>4
    <3> QED BY <3>1, <3>2, <1>4
  <2> HIDE DEF s
  <2>3. s = number
    BY <1>2, <1>4, <2>2
  <2> QED BY <2>1, <2>3 DEF s
<1> QED BY <1>5, <1>6, <1>7, Zenon DEF Says, said

\* Nothing is said yet.
LEMMA InitConsoleInv ==
  ASSUME ConsoleInit
  PROVE  ConsoleInv
<1>1. ConsoleTypeOK
  BY ConsoleConstants DEF ConsoleInit, ConsoleTypeOK, BufferIndexes
<1>2. Len(shown) = 0 /\ Extent = 0 /\ Said(print_buffer, 0) = <<>> /\ shown = <<>>
  BY DEF ConsoleInit, Extent, Said
<1>3. Says(<<>>, message)
  <2> DEFINE none == <<>>
  <2>1. none \in Seq(1..127) /\ (none \o none) \o none = <<>>
    OBVIOUS
  <2>2. message.text = none /\ message.end = none /\ message.number = none
    BY DEF ConsoleInit, Message
  <2>3. Says((none \o none) \o none, message)
    <3> HIDE DEF none
    <3>1. none \in {<<>>, <<NL>>} /\ none = <<>>
      BY DEF none
    <3> QED BY <2>1, <2>2, <3>1, SaysWhole DEF ShowsNumber
  <2> QED BY <2>1, <2>3
<1>4. SendingInv
  BY <1>2, <1>3, ConsoleConstants DEF SendingInv, ConsoleInit
<1> QED BY <1>1, <1>2, <1>4 DEF ConsoleInv, ConsoleInit

\* The calls: the message is written to the front of print_buffer.
LEMMA SendKeepsInv ==
  ASSUME ConsoleInv,
         NEW buf \in [BufferIndexes -> 0..127], NEW length \in 0..BufferLen, NEW asked,
         Send(buf, length, asked),
         Says(Said(buf, length), asked),
         \A k \in 1..length : Said(buf, length)[k] \in 1..127
  PROVE  ConsoleInv'
<1>1. ConsoleTypeOK'
  BY ConsoleConstants DEF ConsoleInv, ConsoleTypeOK, Send, BufferIndexes
<1>2. /\ print_buffer' = buf /\ len' = length /\ data' = 0 /\ shown' = <<>> /\ message' = asked
      /\ enabled' = enabled /\ kind' = kind /\ writer = "idle" /\ Len(shown') = 0
      /\ writer' = (IF enabled /\ length > 0 THEN "chunk" ELSE "idle")
  BY DEF Send
<1>3. Extent' = length
  BY <1>2 DEF Extent
<1>4. Said(buf, 0) = <<>>
  BY DEF Said
<1>5. (enabled \/ writer = "init" => SendingInv)'
  <2> SUFFICES ASSUME enabled PROVE SendingInv'
    BY <1>2
  <2>1. (writer \in {"init", "idle"} => len = 0)' /\ (writer \in {"chunk", "word"} => len > 0)'
    BY <1>2
  <2>2. (shown = Said(print_buffer, Len(shown)))'
    BY <1>2, <1>4
  <2> QED BY <2>1, <2>2, <1>2, <1>3 DEF SendingInv
<1> QED BY <1>1, <1>2, <1>5 DEF ConsoleInv

\* What a buffer holds are characters, and they fit it.
LEMMA HoldsChars ==
  ASSUME NEW mem, NEW s, Holds(mem, s)
  PROVE  /\ mem \in [BufferIndexes -> 0..127] /\ Len(s) \in 0..BufferLen
         /\ \A k \in 1..Len(s) : Said(mem, Len(s))[k] \in 1..127
<1>1. s \in Seq(1..127) /\ Said(mem, Len(s)) = s
  BY SaidIs DEF Holds
<1>2. \A k \in 1..Len(s) : s[k] \in 1..127
  BY <1>1, ElementOf, Zenon
<1> QED BY <1>1, <1>2, ConsoleConstants DEF Holds

\* print: the text alone.
LEMMA PrintKeepsInv ==
  ASSUME ConsoleInv, NEW text \in Texts, print(text)
  PROVE  ConsoleInv'
<1> DEFINE b == strncpy(print_buffer, text, BufferLen)
           asked == Message(text, <<>>, <<>>)
<1>1. text \in Seq(1..127) /\ Len(text) < BufferLen /\ BufferLen \in Nat
  BY ConsoleConstants
<1>2. Holds(b, text)
  <2>1. print_buffer \in [BufferIndexes -> 0..127]
    BY DEF ConsoleInv, ConsoleTypeOK
  <2>2. BufferLen <= BufferLen
    BY <1>1
  <2> QED BY <2>1, <2>2, <1>1, CopyHolds, Zenon
<1>3. Send(b, Len(text), asked)
  <2>1. StrLen(b) = Len(text)
    BY <1>2, StrLenIs
  <2> QED BY <2>1 DEF print
<1> HIDE DEF b
<1>4. Says(Said(b, Len(text)), asked)
  <2> DEFINE none == <<>>
  <2>1. /\ none \in Seq(1..127) /\ none \in {<<>>, <<NL>>} /\ none = <<>>
        /\ (text \o none) \o none = text
    BY <1>1
  <2>2. asked.text = text /\ asked.end = none /\ asked.number = none
    BY DEF Message
  <2> HIDE DEF none, asked
  <2>3. Says((text \o none) \o none, asked)
    BY <1>1, <2>1, <2>2, SaysWhole DEF ShowsNumber
  <2> QED BY <2>1, <2>3, <1>2, SaidIs
<1> QED BY <1>2, <1>3, <1>4, HoldsChars, SendKeepsInv

\* println and println_u put a newline where the terminator is.
LEMMA LineKeepsInv ==
  ASSUME ConsoleInv, NEW b, NEW text \in Seq(1..127), NEW number \in Seq(1..127), NEW asked,
         Holds(b, text \o number),
         Send([b EXCEPT ![Len(text \o number)] = NL], Len(text \o number) + 1, asked),
         asked.text = text, asked.end = <<NL>>,
         ShowsNumber(number, asked.number)
  PROVE  ConsoleInv'
<1> DEFINE s == text \o number
           ended == [b EXCEPT ![Len(s)] = NL]
<1>1. Said(ended, Len(s) + 1) = s \o <<NL>> /\ ended \in [BufferIndexes -> 0..127]
  BY SaidLine
<1>2. Says(s \o <<NL>>, asked)
  <2> DEFINE end == <<NL>>
  <2>1. end \in {<<>>, <<NL>>}
    OBVIOUS
  <2> HIDE DEF end
  <2>2. Says((text \o number) \o end, asked)
    BY <2>1, SaysWhole DEF end
  <2> QED BY <2>2 DEF end
<1>3. Len(s) + 1 \in 0..BufferLen
  <2>1. Len(s) < BufferLen /\ s \in Seq(1..127)
    BY DEF Holds
  <2> HIDE DEF s
  <2> QED BY <2>1, ConsoleConstants
<1>4. \A k \in 1..(Len(s) + 1) : Said(ended, Len(s) + 1)[k] \in 1..127
  <2> DEFINE chars == 1..127
             end == <<NL>>
  <2>1. s \in Seq(chars)
    BY DEF Holds
  <2>2. NL \in chars
    BY DEF NL
  <2> HIDE DEF chars, s
  <2>3. s \o <<NL>> \in Seq(chars) /\ Len(s \o <<NL>>) = Len(s) + 1
    BY <2>1, <2>2
  <2>4. \A k \in 1..(Len(s) + 1) : (s \o <<NL>>)[k] \in chars
    BY <2>3, ElementOf
  <2> QED BY <2>4, <1>1 DEF chars
<1>5. Send(ended, Len(s) + 1, asked)
  OBVIOUS
<1> HIDE DEF ended, s
<1>6. Says(Said(ended, Len(s) + 1), asked)
  BY <1>1, <1>2
<1> QED BY <1>1, <1>3, <1>4, <1>5, <1>6, SendKeepsInv

\* println: the text and a newline.
LEMMA PrintlnKeepsInv ==
  ASSUME ConsoleInv, NEW text \in Texts, println(text)
  PROVE  ConsoleInv'
<1> DEFINE b == strncpy(print_buffer, text, BufferLen)
           asked == Message(text, <<>>, <<NL>>)
           none == <<>>
<1>1. text \in Seq(1..127) /\ Len(text) < BufferLen /\ BufferLen \in Nat
  BY ConsoleConstants
<1>2. Holds(b, text)
  <2>1. print_buffer \in [BufferIndexes -> 0..127]
    BY DEF ConsoleInv, ConsoleTypeOK
  <2>2. BufferLen <= BufferLen
    BY <1>1
  <2> QED BY <2>1, <2>2, <1>1, CopyHolds, Zenon
<1>3. Send([b EXCEPT ![Len(text)] = NL], Len(text) + 1, asked)
  <2>1. StrLen(b) = Len(text)
    BY <1>2, StrLenIs
  <2> QED BY <2>1 DEF println
<1>4. none \in Seq(1..127) /\ none = <<>> /\ text \o none = text
  BY <1>1
<1>5. asked.text = text /\ asked.end = <<NL>> /\ asked.number = none
  BY DEF Message
<1>6. ShowsNumber(none, asked.number)
  BY <1>4, <1>5 DEF ShowsNumber
<1> HIDE DEF b, asked, none
<1> QED BY <1>1, <1>2, <1>3, <1>4, <1>5, <1>6, LineKeepsInv

\* println_u: the text, the number as itoa writes it, and a newline.
LEMMA PrintlnNumberKeepsInv ==
  ASSUME ConsoleInv, NEW text \in Texts, NEW value \in Values, NEW base \in Bases,
         println_u(text, value, base)
  PROVE  ConsoleInv'
<1> DEFINE number == itoa(value, base)
           c == strncpy(print_buffer, text, PrefixLen)
           b == strncat(c, number, NumberLen)
           asked == Message(text, <<value, base>>, <<NL>>)
<1>1. /\ text \in Seq(1..127) /\ Len(text) < PrefixLen /\ PrefixLen \in Nat /\ NumberLen \in Nat
      /\ BufferLen \in Nat /\ PrefixLen <= BufferLen /\ PrefixLen + NumberLen <= BufferLen
  BY ConsoleConstants DEF println_u
<1>2. /\ number \in Seq(1..127) /\ number # <<>>
      /\ base # 10 \/ value < Half => SaysNumber(number, value, base)
  <2>1. value \in 0..(2 * Half - 1) /\ base \in 2..36
    BY ConsoleConstants
  <2> QED BY <2>1, ItoaSays
<1>3. Len(number) < NumberLen
  BY NumbersFit
<1>4. Holds(c, text)
  <2>1. print_buffer \in [BufferIndexes -> 0..127]
    BY DEF ConsoleInv, ConsoleTypeOK
  <2> QED BY <2>1, <1>1, CopyHolds
<1> HIDE DEF c, number
<1>5. Holds(b, text \o number)
  <2>1. Len(text) \in Nat /\ Len(number) \in Nat
    BY <1>1, <1>2
  <2>2. Len(text) + Len(number) < BufferLen
    BY <2>1, <1>1, <1>3
  <2> QED BY <2>2, <1>1, <1>2, <1>3, <1>4, CatHolds
<1>6. Send([b EXCEPT ![Len(text \o number)] = NL], Len(text \o number) + 1, asked)
  <2>1. StrLen(b) = Len(text \o number)
    BY <1>5, StrLenIs
  <2> QED BY <2>1 DEF println_u, c, number
<1>7. /\ asked.text = text /\ asked.end = <<NL>> /\ asked.number = <<value, base>>
      /\ asked.number # <<>> /\ asked.number[1] = value /\ asked.number[2] = base
  BY DEF Message
<1> HIDE DEF b, asked
<1>8. ShowsNumber(number, asked.number)
  BY <1>2, <1>7 DEF ShowsNumber
<1> QED BY <1>1, <1>2, <1>5, <1>6, <1>7, <1>8, LineKeepsInv

\* A chunk begins with none of its words in the viewer's buffer.
LEMMA ChunkKeepsInv ==
  ASSUME ConsoleInv, Chunk
  PROVE  ConsoleInv'
<1>1. /\ writer = "chunk" /\ l' = (IF len < ViewerLen THEN len ELSE ViewerLen) /\ i' = 0
      /\ writer' = "word"
      /\ UNCHANGED <<enabled, print_buffer, len, data, viewer, kind, shown, message>>
  BY DEF Chunk
<1>2. ConsoleTypeOK /\ enabled /\ SendingInv /\ data = Len(shown) /\ len > 0
  BY <1>1 DEF ConsoleInv, SendingInv
<1>3. Len(shown) \in Nat /\ len \in Nat /\ BufferLen \in Nat /\ ViewerLen \in Nat /\ Len(shown) + len <= BufferLen
  BY <1>2, ConsoleConstants DEF ConsoleTypeOK, SendingInv, Extent
<1>4. ConsoleTypeOK'
  <2>1. data \in BufferIndexes /\ l' \in 0..ViewerLen /\ i' \in 0..ViewerLen
    BY <1>1, <1>2, <1>3 DEF BufferIndexes
  <2> QED BY <1>1, <1>2, <2>1 DEF ConsoleTypeOK
<1>5. SendingInv'
  BY <1>1, <1>2 DEF SendingInv, Extent
<1>6. WordInv'
  BY <1>1, <1>2, <1>3 DEF WordInv
<1> QED BY <1>1, <1>2, <1>4, <1>5, <1>6 DEF ConsoleInv

\* The words of a buffer of whole words fit it.
LEMMA NextWord ==
  ASSUME NEW a \in Nat, NEW b \in Nat, a % 4 = 0, b % 4 = 0, a < b
  PROVE  a + 4 <= b /\ (a + 4) % 4 = 0
OBVIOUS

\* A word more of the chunk is in the viewer's buffer.
LEMMA WriteWordKeepsInv ==
  ASSUME ConsoleInv, WriteWord
  PROVE  ConsoleInv'
<1>1. /\ writer = "word" /\ i < l /\ i' = i + 4 /\ data' = data + 4
      /\ UNCHANGED <<writer, enabled, print_buffer, len, l, kind, shown, message>>
  BY DEF WriteWord
<1>2. viewer' = [k \in DOMAIN viewer |->
        IF k \in i..(i + 3) /\ data + k - i < BufferLen THEN print_buffer[data + k - i] ELSE viewer[k]]
  BY DEF WriteWord
<1>3. ConsoleTypeOK /\ enabled /\ SendingInv /\ WordInv
  BY <1>1 DEF ConsoleInv
<1>4. /\ Len(shown) \in Nat /\ len \in Nat /\ BufferLen \in Nat /\ Len(shown) + len <= BufferLen
      /\ i \in 0..ViewerLen /\ l \in 0..ViewerLen /\ ViewerLen \in Nat /\ ViewerLen % 4 = 0
      /\ data = Len(shown) + i /\ i % 4 = 0 /\ l <= len /\ l <= ViewerLen
      /\ viewer \in [0..(ViewerLen - 1) -> 0..127] /\ print_buffer \in [BufferIndexes -> 0..127]
      /\ \A k \in 0..(l - 1) : k < i => viewer[k] = print_buffer[Len(shown) + k]
  BY <1>3, ConsoleConstants DEF ConsoleTypeOK, SendingInv, WordInv, Extent
<1>5. i + 4 <= ViewerLen /\ i' \in 0..ViewerLen /\ i' % 4 = 0
  <2>1. i \in Nat /\ ViewerLen \in Nat /\ i < ViewerLen /\ i % 4 = 0 /\ ViewerLen % 4 = 0
    BY <1>1, <1>4
  <2>2. i + 4 <= ViewerLen /\ (i + 4) % 4 = 0
    BY <2>1, NextWord
  <2> QED BY <2>1, <2>2, <1>1
<1>6. viewer' \in [0..(ViewerLen - 1) -> 0..127]
  <2>1. ASSUME NEW k \in 0..(ViewerLen - 1)
        PROVE  (IF k \in i..(i + 3) /\ data + k - i < BufferLen THEN print_buffer[data + k - i] ELSE viewer[k]) \in 0..127
    <3>1. i \in Nat /\ data \in Nat /\ BufferLen \in Nat /\ k \in Nat
      BY <1>4
    <3>2. k \in i..(i + 3) /\ data + k - i < BufferLen => data + k - i \in BufferIndexes
      BY <3>1 DEF BufferIndexes
    <3> QED BY <3>2, <1>4
  <2>2. DOMAIN viewer = 0..(ViewerLen - 1)
    BY <1>4
  <2> QED BY <1>2, <2>1, <2>2
<1>7. \A k \in 0..(l - 1) : k < i' => viewer'[k] = print_buffer[Len(shown) + k]
  <2> SUFFICES ASSUME NEW k \in 0..(l - 1), k < i' PROVE viewer'[k] = print_buffer[Len(shown) + k]
    OBVIOUS
  <2>1. k \in DOMAIN viewer /\ k \in Nat
    BY <1>4
  <2>2. CASE k < i
    <3>1. ~(k \in i..(i + 3))
      BY <2>2, <1>4
    <3>2. viewer'[k] = viewer[k]
      BY <3>1, <2>1, <1>2
    <3> QED BY <3>2, <2>2, <1>4
  <2>3. CASE ~(k < i)
    <3>1. k \in i..(i + 3) /\ data + k - i = Len(shown) + k /\ Len(shown) + k < BufferLen
      BY <2>1, <2>3, <1>1, <1>4
    <3> QED BY <3>1, <2>1, <1>2, Zenon
  <2> QED BY <2>2, <2>3
<1>8. ConsoleTypeOK'
  <2>1. data' \in 0..(BufferLen + 3)
    BY <1>1, <1>4
  <2>2. i' < l' => data' \in BufferIndexes
    BY <1>1, <1>4, <1>5 DEF BufferIndexes
  <2> QED BY <1>1, <1>3, <1>5, <1>6, <2>1, <2>2 DEF ConsoleTypeOK
<1>9. SendingInv'
  BY <1>1, <1>3 DEF SendingInv, Extent
<1>10. WordInv'
  BY <1>1, <1>3, <1>4, <1>5, <1>7 DEF WordInv
<1> QED BY <1>1, <1>3, <1>8, <1>9, <1>10 DEF ConsoleInv

\* The elements of two sequences, one behind the other.
LEMMA Joined ==
  ASSUME NEW chars, NEW s \in Seq(chars), NEW t \in Seq(chars)
  PROVE  /\ s \o t \in Seq(chars) /\ Len(s \o t) = Len(s) + Len(t)
         /\ \A k \in 1..Len(s) : (s \o t)[k] = s[k]
         /\ \A k \in 1..Len(t) : (s \o t)[Len(s) + k] = t[k]
OBVIOUS

\* The chunk is shown, and the rest of the message follows behind it.
LEMMA FlushKeepsInv ==
  ASSUME ConsoleInv, Flush
  PROVE  ConsoleInv'
<1>1. /\ writer = "word" /\ i >= l /\ shown' = shown \o [k \in 1..l |-> viewer[k - 1]]
      /\ len' = len - l /\ writer' = (IF len' > 0 THEN "chunk" ELSE "idle")
      /\ UNCHANGED <<enabled, print_buffer, data, l, i, viewer, kind, message>>
  BY DEF Flush
<1>2. ConsoleTypeOK /\ enabled /\ SendingInv /\ WordInv
  BY <1>1 DEF ConsoleInv
<1>3. /\ shown \in Seq(1..127) /\ Len(shown) \in Nat /\ len \in Nat /\ BufferLen \in Nat
      /\ Len(shown) + len <= BufferLen /\ len > 0
      /\ i \in 0..ViewerLen /\ l \in 0..ViewerLen /\ ViewerLen \in Nat /\ ViewerLen > 0
      /\ data = Len(shown) + i /\ l = (IF len < ViewerLen THEN len ELSE ViewerLen)
      /\ \A k \in 0..(l - 1) : k < i => viewer[k] = print_buffer[Len(shown) + k]
      /\ \A k \in 1..Extent : Said(print_buffer, Extent)[k] \in 1..127
      /\ shown = Said(print_buffer, Len(shown)) /\ Extent = Len(shown) + len
  BY <1>1, <1>2, ConsoleConstants DEF ConsoleTypeOK, SendingInv, WordInv, Extent
<1>14. l \in Nat /\ l <= len /\ l <= i /\ i \in Nat /\ l > 0
  BY <1>1, <1>3
<1> DEFINE sent == [k \in 1..l |-> viewer[k - 1]]
           chars == 1..127
<1>4. \A k \in 1..Extent : print_buffer[k - 1] \in chars
  BY <1>3 DEF Said
<1>5. \A k \in 1..l : viewer[k - 1] = print_buffer[(Len(shown) + k) - 1] /\ viewer[k - 1] \in chars
  <2> TAKE k \in 1..l
  <2> DEFINE m == k - 1
             n == Len(shown) + k
  <2>1. m \in 0..(l - 1) /\ m < i /\ Len(shown) + m = n - 1 /\ n \in 1..Extent
    <3>1. Len(shown) \in Nat /\ len \in Nat /\ Extent = Len(shown) + len
      BY <1>3
    <3> QED BY <3>1, <1>14
  <2> HIDE DEF m, n, chars
  <2>2. viewer[m] = print_buffer[Len(shown) + m]
    BY <2>1, <1>3
  <2>3. print_buffer[n - 1] \in chars
    BY <2>1, <1>4
  <2> QED BY <2>1, <2>2, <2>3, Zenon DEF m, n
<1>6. sent \in Seq(chars) /\ Len(sent) = l
  <2>1. \A k \in 1..l : viewer[k - 1] \in chars
    BY <1>5
  <2> HIDE DEF chars
  <2> QED BY <2>1, <1>14
<1>7. shown \in Seq(chars)
  BY <1>3
<1> HIDE DEF sent
<1>8. /\ shown' \in Seq(chars) /\ Len(shown') = Len(shown) + l
      /\ \A k \in 1..Len(shown) : shown'[k] = shown[k]
      /\ \A k \in 1..l : shown'[Len(shown) + k] = sent[k]
  <2>1. shown' = shown \o sent
    BY <1>1 DEF sent
  <2> HIDE DEF chars
  <2>2. /\ shown \o sent \in Seq(chars) /\ Len(shown \o sent) = Len(shown) + Len(sent)
        /\ \A k \in 1..Len(shown) : (shown \o sent)[k] = shown[k]
        /\ \A k \in 1..Len(sent) : (shown \o sent)[Len(shown) + k] = sent[k]
    <3>1. sent \in Seq(chars) /\ shown \in Seq(chars)
      BY <1>6, <1>7
    <3> HIDE DEF sent
    <3> QED BY <3>1, Joined
  <2> QED BY <2>1, <2>2, <1>6, Zenon
<1>9. shown' = Said(print_buffer, Len(shown'))
  <2>1. ASSUME NEW k \in 1..Len(shown') PROVE shown'[k] = print_buffer[k - 1]
    <3>1. CASE k <= Len(shown)
      <4>1. k \in 1..Len(shown)
        BY <3>1, <1>3, <1>8
      <4>2. Said(print_buffer, Len(shown))[k] = print_buffer[k - 1]
        BY <4>1 DEF Said
      <4>3. shown[k] = print_buffer[k - 1]
        BY <4>2, <1>3, Zenon
      <4> QED BY <4>1, <4>3, <1>8, Zenon
    <3>2. CASE ~(k <= Len(shown))
      <4> DEFINE m == k - Len(shown)
      <4>1. m \in 1..l /\ Len(shown) + m = k
        BY <3>2, <1>3, <1>8
      <4> HIDE DEF m
      <4>2. sent[m] = viewer[m - 1]
        BY <4>1 DEF sent
      <4>3. viewer[m - 1] = print_buffer[k - 1]
        BY <4>1, <1>5, Zenon
      <4> QED BY <4>1, <4>2, <4>3, <1>8, Zenon
    <3> QED BY <3>1, <3>2
  <2>2. shown' = [k \in 1..Len(shown') |-> shown'[k]]
    <3> HIDE DEF chars
    <3> QED BY <1>8
  <2> QED BY <2>1, <2>2 DEF Said
<1>10. Extent' = Extent /\ len' \in 0..len /\ Len(shown') \in Nat
  <2>1. Len(shown) \in Nat /\ len \in Nat /\ Extent = Len(shown) + len
    BY <1>3
  <2>2. len' = len - l /\ Len(shown') = Len(shown) + l
    BY <1>1, <1>8
  <2>3. Extent' = Len(shown') + len'
    BY DEF Extent
  <2> QED BY <2>1, <2>2, <2>3, <1>14
<1>11. SendingInv'
  <2>1. (writer \in {"init", "idle"} => len = 0)' /\ (writer \in {"chunk", "word"} => len > 0)'
    <3>1. len' \in Nat /\ writer' = (IF len' > 0 THEN "chunk" ELSE "idle")
      BY <1>1, <1>3, <1>10
    <3> QED BY <3>1
  <2>2. (Extent <= BufferLen)'
    BY <1>3, <1>10
  <2>3. Said(print_buffer, Extent)' = Said(print_buffer, Extent) /\ message' = message
    BY <1>1, <1>10 DEF Said
  <2>4. (\A k \in 1..Extent : Said(print_buffer, Extent)[k] \in 1..127)'
    BY <2>3, <1>3, <1>10, Zenon
  <2>5. Says(Said(print_buffer, Extent), message)'
    <3>1. Says(Said(print_buffer, Extent), message)
      BY <1>2 DEF SendingInv
    <3> QED BY <2>3, <3>1
  <2>6. (shown = Said(print_buffer, Len(shown)))'
    BY <1>1, <1>9
  <2> QED BY <2>1, <2>2, <2>4, <2>5, <2>6 DEF SendingInv
<1>12. writer' = "chunk" => data' = Len(shown')
  <2>1. Len(shown) \in Nat /\ len \in Nat /\ ViewerLen \in Nat /\ i <= ViewerLen
        /\ data = Len(shown) + i /\ l = (IF len < ViewerLen THEN len ELSE ViewerLen)
    BY <1>3
  <2>2. len' = len - l /\ Len(shown') = Len(shown) + l /\ data' = data
        /\ (writer' = "chunk" => len' > 0)
    BY <1>1, <1>8
  <2> QED BY <2>1, <2>2, <1>14
<1>13. ConsoleTypeOK'
  <2>1. len' \in 0..BufferLen /\ writer' \in {"chunk", "idle"} /\ shown' \in Seq(1..127)
    BY <1>1, <1>3, <1>8, <1>10
  <2> QED BY <1>1, <1>2, <2>1 DEF ConsoleTypeOK
<1> QED BY <1>1, <1>2, <1>11, <1>12, <1>13 DEF ConsoleInv

\* Every step keeps the invariant.
LEMMA ConsoleInductive ==
  ASSUME ConsoleInv, [ConsoleNext]_console_vars
  PROVE  ConsoleInv'
<1>1. CASE isviewer_init
  <2>1. /\ writer = "init" /\ writer' = "idle" /\ enabled' = isviewer_init_impl
        /\ UNCHANGED <<print_buffer, len, data, l, i, viewer, kind, shown, message>>
    BY <1>1 DEF isviewer_init
  <2>2. ConsoleTypeOK /\ SendingInv
    BY <2>1 DEF ConsoleInv
  <2>3. ConsoleTypeOK'
    BY <2>1, <2>2 DEF ConsoleTypeOK, isviewer_init_impl
  <2>4. SendingInv'
    BY <2>1, <2>2 DEF SendingInv, Extent
  <2>5. enabled' => kind' = "memory"
    BY <2>1 DEF isviewer_init_impl
  <2> QED BY <2>1, <2>3, <2>4, <2>5 DEF ConsoleInv
<1>2. CASE Chunk
  BY <1>2, ChunkKeepsInv
<1>3. CASE WriteWord
  BY <1>3, WriteWordKeepsInv
<1>4. CASE Flush
  BY <1>4, FlushKeepsInv
<1>5. ASSUME NEW text \in Texts, print(text) PROVE ConsoleInv'
  BY <1>5, PrintKeepsInv
<1>6. ASSUME NEW text \in Texts, println(text) PROVE ConsoleInv'
  BY <1>6, PrintlnKeepsInv
<1>7. ASSUME NEW text \in Texts, NEW value \in Values, NEW base \in Bases, println_u(text, value, base)
      PROVE  ConsoleInv'
  BY <1>7, PrintlnNumberKeepsInv
<1>8. CASE UNCHANGED console_vars
  BY <1>8 DEF console_vars, ConsoleInv, ConsoleTypeOK, SendingInv, Extent, WordInv
<1> QED BY <1>1, <1>2, <1>3, <1>4, <1>5, <1>6, <1>7, <1>8 DEF ConsoleNext

\* Every length, index and character of isviewer_write has its type: the
\* words read begin in print_buffer and those written are in the viewer's.
THEOREM ConsoleTypeCorrect == ConsoleSpec => []ConsoleTypeOK
<1>1. ConsoleInv => ConsoleTypeOK
  BY DEF ConsoleInv
<1> QED BY <1>1, InitConsoleInv, ConsoleInductive, PTL DEF ConsoleSpec

\* isviewer_write shows every message as it was asked for, its number in the
\* base it was asked for (of decimal numbers from 2^31 on only that something
\* is shown), and writes only where a viewer's memory answers.
THEOREM EveryMessageArrives == ConsoleSpec => []MessagesArrive
<1>1. ConsoleInv => MessagesArrive
  <2> SUFFICES ASSUME ConsoleInv PROVE MessagesArrive
    OBVIOUS
  <2>1. ShowsMessage
    <3> SUFFICES ASSUME writer = "idle", enabled PROVE Says(shown, message)
      BY DEF ShowsMessage
    <3>1. SendingInv /\ len = 0 /\ shown \in Seq(1..127)
      BY DEF ConsoleInv, SendingInv, ConsoleTypeOK
    <3>2. Extent = Len(shown)
      BY <3>1 DEF Extent
    <3> QED BY <3>1, <3>2 DEF SendingInv
  <2>2. WritesToMemory
    BY DEF ConsoleInv, WritesToMemory
  <2> QED BY <2>1, <2>2 DEF MessagesArrive
<1> QED BY <1>1, InitConsoleInv, ConsoleInductive, PTL DEF ConsoleSpec

\* Each round of isviewer_write's loop leaves less to send, and not less than
\* nothing: what PrintReturns needs besides a thread that runs on.
THEOREM SendingDescends == ConsoleSpec => [][Flush => len' \in 0..(len - 1)]_console_vars
<1>1. ASSUME ConsoleInv, Flush PROVE len' \in 0..(len - 1)
  <2>1. ConsoleTypeOK /\ SendingInv /\ WordInv /\ len > 0 /\ len' = len - l
    BY <1>1 DEF ConsoleInv, Flush, SendingInv
  <2>2. len \in Nat /\ ViewerLen \in Nat /\ ViewerLen > 0 /\ BufferLen \in Nat
    BY <2>1, ConsoleConstants DEF ConsoleTypeOK
  <2> QED BY <2>1, <2>2 DEF WordInv
<1>2. ConsoleInv /\ [ConsoleNext]_console_vars => [Flush => len' \in 0..(len - 1)]_console_vars
  BY <1>1
<1> QED BY <1>2, InitConsoleInv, ConsoleInductive, PTL DEF ConsoleSpec
=============================================================================
