---------------------------- MODULE MCInterrupts ----------------------------
(* Instances of Interrupts for TLC.                                         *)
EXTENDS Interrupts

CONSTANTS s1, s2, w   \* two syscall codes and a word that is none

MCSyscodes   == {s1, s2}
MCOtherWords == {w}
MCCauses     == {2, Syscall, 15}   \* TLB miss, syscall, floating point

\* Smaller sets for liveness.
MCOneSyscode    == {s1}
MCNoWords       == {}
MCSyscallOrMiss == {2, Syscall}
=============================================================================
