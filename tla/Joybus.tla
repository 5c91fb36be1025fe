-------------------------------- MODULE Joybus --------------------------------
(***************************************************************************)
(* joybus.c: the controller is read once per field.  The VI interrupt      *)
(* starts an SI read of the PIF's reply into joybus_buffer, the SI         *)
(* interrupt copies the reply to next, and the game's poll takes it from   *)
(* there.  The reply goes to memory behind the back of the data cache,     *)
(* and the CPU reads it through the cache.  The thread's critical sections *)
(* delay both interrupts (ImplementsLock in Interrupts_proofs).            *)
(***************************************************************************)
EXTENDS Integers

CONSTANTS
  Buttons,   \* the buttons of the controller
  NotCached  \* the state of a cache line that is not there

VARIABLES
  input,    \* the buttons that are down
  pif,      \* the reply in PIF RAM
  si,       \* what the SI does with it, "idle" when it is not busy
  rdram,    \* the reply word in joybus_buffer, in memory
  line,     \* the cache line that holds this word, or NotCached
  raised,   \* interrupts raised in MI_regs->interrupt, of VI and SI
  unmasked, \* MI_regs->mask
  handler,  \* where interrupt_handler is, "off" when it does not run
  status,   \* interrupt_handler's local status
  next,     \* the last reading
  current,  \* the reading of the last poll
  previous, \* the reading of the poll before that
  buttons_held, \* the buttons that the last poll returned
  thread    \* where the thread is

si_state == <<pif, si, rdram>>
polls    == <<current, previous, buttons_held>>
pad_vars == <<input, si_state, line, raised, unmasked, handler, status, next, polls, thread>>

Inputs == SUBSET Buttons

\* controller_data_t: its two halves tell whether a reading is of one piece.
Data == [buttons : Inputs, stick : Inputs]
Whole(i) == [buttons |-> i, stick |-> i]

ASSUME NotCachedAssumption == NotCached \notin Data

PadInit ==
  /\ input \in Inputs /\ pif = {} /\ si = "idle" /\ rdram = Whole({})
  /\ line \in {NotCached, Whole({})}
  /\ raised = {} /\ unmasked = {} /\ handler = "off" /\ status = {}
  /\ next = Whole({}) /\ current = Whole({}) /\ previous = Whole({})
  /\ buttons_held = {} /\ thread = "boot"

------------------------------------------------------------------------------
(* The player, the SI, the VI and the cache.                                *)

Press(i) ==
  /\ i # input
  /\ input' = i
  /\ UNCHANGED <<si_state, line, raised, unmasked, handler, status, next, polls, thread>>

\* The PIF asks the controller.
SiExchange ==
  /\ si = "exchange"
  /\ pif' = input
  /\ si' = "copy"
  /\ UNCHANGED <<input, rdram, line, raised, unmasked, handler, status, next, polls, thread>>

\* The SI writes the first half of the reply ...
SiCopy ==
  /\ si = "copy"
  /\ rdram' = [rdram EXCEPT !.buttons = pif]
  /\ si' = "half"
  /\ UNCHANGED <<input, pif, line, raised, unmasked, handler, status, next, polls, thread>>

\* ... and the second, and interrupts.
SiDone ==
  /\ si = "half"
  /\ rdram' = [rdram EXCEPT !.stick = pif]
  /\ si' = "idle"
  /\ raised' = raised \cup {"SI"}
  /\ UNCHANGED <<input, pif, line, unmasked, handler, status, next, polls, thread>>

\* Time: an interrupt that is not held up by a critical section is handled,
\* and the SI read it starts is over (less than 2 ms), before the next field
\* ends (16 ms).  Fields that end while one is pending change nothing; the
\* only critical section that spans fields, display_init's, ends at a
\* vertical blank, so the read that follows has a whole field too.
VBlank ==
  /\ "VI" \notin raised
  /\ si = "idle" /\ (handler = "off" \/ "VI" \notin status)
  /\ raised' = raised \cup {"VI"}
  /\ UNCHANGED <<input, si_state, line, unmasked, handler, status, next, polls, thread>>

\* The line makes room for another one; it is clean.
Evict ==
  /\ line # NotCached
  /\ line' = NotCached
  /\ UNCHANGED <<input, si_state, raised, unmasked, handler, status, next, polls, thread>>

------------------------------------------------------------------------------
(* interrupt_handler, its AI branch left out.                               *)

\* A bug for the runs to catch: the other order.
BranchOrder_VIFirst == <<"VI", "SI">>

BranchOrder == <<"SI", "VI">>

After(branch) == IF branch = BranchOrder[1] THEN BranchOrder[2] ELSE "off"

\* A bug for the runs to catch: masked interrupts are served too.
HandlerStart_Unmasked ==
  /\ raised \cap unmasked # {}
  /\ handler = "off" /\ thread # "critical"
  /\ status' = raised
  /\ handler' = BranchOrder[1]
  /\ UNCHANGED <<input, si_state, line, raised, unmasked, next, polls, thread>>

HandlerStart ==
  /\ raised \cap unmasked # {}
  /\ handler = "off" /\ thread # "critical"
  /\ status' = raised \cap unmasked
  /\ handler' = BranchOrder[1]
  /\ UNCHANGED <<input, si_state, line, raised, unmasked, next, polls, thread>>

\* What the CPU reads at joybus_buffer + 1.
Reply == IF line = NotCached THEN rdram ELSE line

\* The SI branch: acknowledge and __controller_callback.
HandleSI ==
  /\ handler = "SI"
  /\ IF "SI" \in status
       THEN raised' = raised \ {"SI"} /\ line' = Reply /\ next' = Reply
       ELSE UNCHANGED <<raised, line, next>>
  /\ handler' = After("SI")
  /\ UNCHANGED <<input, si_state, unmasked, status, polls, thread>>

\* A bug for the runs to catch: the interrupt is not acknowledged.
HandleVI_NoAck ==
  /\ handler = "VI"
  /\ handler' = IF "VI" \in status THEN "joypad" ELSE After("VI")
  /\ UNCHANGED <<input, si_state, line, raised, unmasked, status, next, polls, thread>>

\* The VI branch: acknowledge and __display_callback (see DisplayQueue).
HandleVI ==
  /\ handler = "VI"
  /\ IF "VI" \in status
       THEN raised' = raised \ {"VI"} /\ handler' = "joypad"
       ELSE handler' = After("VI") /\ UNCHANGED raised
  /\ UNCHANGED <<input, si_state, line, unmasked, status, next, polls, thread>>

\* A bug for the runs to catch: the cache is not told.
__joypad_callback_NoInvalidate ==
  /\ handler = "joypad"
  /\ IF si = "idle"
       THEN handler' = After("VI") /\ si' = "exchange"
       ELSE handler' = "abort" /\ UNCHANGED si
  /\ UNCHANGED <<input, pif, rdram, line, raised, unmasked, status, next, polls, thread>>

\* Assert that the SI is idle, invalidate the buffer's lines, start the read.
__joypad_callback ==
  /\ handler = "joypad"
  /\ IF si = "idle"
       THEN handler' = After("VI") /\ line' = NotCached /\ si' = "exchange"
       ELSE handler' = "abort" /\ UNCHANGED <<line, si>>
  /\ UNCHANGED <<input, pif, rdram, raised, unmasked, status, next, polls, thread>>

------------------------------------------------------------------------------
(* The thread; it runs when the handler does not.                           *)

\* The last write to PIF RAM may leave an SI interrupt behind.
joybus_init ==
  /\ thread = "boot" /\ si = "idle"
  /\ \E left \in SUBSET {"SI"} : raised' = (raised \ {"SI"}) \cup left
  /\ unmasked' = unmasked \cup {"SI"}
  /\ thread' = "booted"
  /\ UNCHANGED <<input, si_state, line, handler, status, next, polls>>

\* display_init, which main calls before it polls.
UnmaskVI ==
  /\ thread = "booted" /\ handler = "off"
  /\ unmasked' = unmasked \cup {"VI"}
  /\ thread' = "idle"
  /\ UNCHANGED <<input, si_state, line, raised, handler, status, next, polls>>

\* interrupt_disable and interrupt_enable, in any driver.
EnterCritical ==
  /\ thread = "idle" /\ handler = "off"
  /\ thread' = "critical"
  /\ UNCHANGED <<input, si_state, line, raised, unmasked, handler, status, next, polls>>

LeaveCritical ==
  /\ thread = "critical"
  /\ thread' = "idle"
  /\ UNCHANGED <<input, si_state, line, raised, unmasked, handler, status, next, polls>>

\* controller_poll: interrupts are on between its two assignments.
PollPrevious ==
  /\ thread = "idle" /\ handler = "off"
  /\ previous' = current
  /\ thread' = "polling"
  /\ UNCHANGED <<input, si_state, line, raised, unmasked, handler, status, next, current, buttons_held>>

\* The second assignment, and controller_get_buttons_held.
PollCurrent ==
  /\ thread = "polling" /\ handler = "off"
  /\ current' = next
  /\ buttons_held' = next.buttons \cap previous.buttons
  /\ thread' = "idle"
  /\ UNCHANGED <<input, si_state, line, raised, unmasked, handler, status, next, previous>>

Si       == SiExchange \/ SiCopy \/ SiDone
Branches == HandleSI \/ HandleVI \/ __joypad_callback
Main     == joybus_init \/ UnmaskVI \/ PollPrevious \/ PollCurrent

PadNext ==
  \/ \E i \in Inputs : Press(i)
  \/ Si \/ VBlank \/ Evict
  \/ HandlerStart \/ Branches
  \/ Main \/ EnterCritical \/ LeaveCritical

PadSpec == PadInit /\ [][PadNext]_pad_vars

(***************************************************************************)
(* Fairness.  The SI and the VI are clocked hardware.  The handler is      *)
(* taken although critical sections come and go (Serviced in Interrupts),  *)
(* critical sections end, and the game polls once in every turn of its     *)
(* loop.  The player and the cache promise nothing.                        *)
(***************************************************************************)
PadFairSpec ==
  /\ PadSpec
  /\ WF_pad_vars(Si) /\ SF_pad_vars(VBlank)
  /\ SF_pad_vars(HandlerStart) /\ WF_pad_vars(Branches)
  /\ SF_pad_vars(Main) /\ WF_pad_vars(LeaveCritical)

------------------------------------------------------------------------------
(* Properties.                                                              *)

PadTypeOK ==
  /\ input \in Inputs /\ pif \in Inputs /\ rdram \in Data
  /\ si \in {"idle", "exchange", "copy", "half"}
  /\ line \in Data \cup {NotCached}
  /\ raised \in SUBSET {"SI", "VI"} /\ unmasked \in SUBSET {"SI", "VI"}
  /\ status \in SUBSET unmasked
  /\ handler \in {"off", "SI", "VI", "joypad", "abort"}
  /\ next \in Data /\ current \in Data /\ previous \in Data /\ buttons_held \in Inputs
  /\ thread \in {"boot", "booted", "idle", "critical", "polling"}

\* __joypad_callback never meets its assertion "Called when SI is busy.", if,
\* as VBlank assumes, a read is over before the next field ends.
ReadAssertHolds == handler # "abort"

\* A reading is one reply of the controller, never half of one and half of
\* the next: __controller_callback does not copy while the SI writes.
WholeReading ==
  \A data \in {next, current, previous} : data.buttons = data.stick

\* Once both interrupts are served, next is the reply the SI wrote last: the
\* copy does not come from a line that was cached before that.
ReadingIsFresh ==
  (si = "idle" /\ "SI" \notin raised /\ handler = "off") => next = rdram

\* The game reads what the controller has said, all of it and the latest.
ReadingIsTrue == WholeReading /\ ReadingIsFresh

\* Buttons that stay as they are come to be reported as held, those that are
\* down and no other.
InputReachesGame == <>[][FALSE]_input => <>[](buttons_held = input)
=============================================================================
