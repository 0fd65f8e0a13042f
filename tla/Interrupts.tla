----------------------------- MODULE Interrupts -----------------------------
(***************************************************************************)
(* The interrupts that share a line, system_rtl.c: Peripheral_Handler and  *)
(* GPIOA_Handler, GPIOB_Handler, each of which calls the handlers of the   *)
(* sources whose bits it found set when it began.  Bits that are raised    *)
(* meanwhile differ: a pin's stays set until its own handler clears it,    *)
(* while Peripheral_Handler clears in the end whatever it found, masked    *)
(* sources included.                                                       *)
(*                                                                         *)
(* The sources and their handlers are external.                            *)
(***************************************************************************)
EXTENDS Integers

CONSTANTS
  Peripherals,   \* the bits of REG_LOW_PRI_INT_STATUS
  Pins           \* the bits of a line of GPIO_INT_STS, apart from those

ASSUME InterruptsAssumption ==
  /\ Peripherals \subseteq Nat /\ Pins \subseteq Nat
  /\ Peripherals \cap Pins = {}

Lines == {"Peripheral", "GPIO"}
Bits(line) == IF line = "Peripheral" THEN Peripherals ELSE Pins
Sources == Peripherals \cup Pins

VARIABLES
  status,     \* the bits that are set
  enabled,    \* REG_LOW_PRI_INT_EN; pins that do not interrupt set no bit
  running,    \* the lines whose handler runs
  work,       \* real_interrupt_status of each
  found,      \* peripheral_interrupt_status
  waiting,    \* sources raised since their handler ran last
  forgone     \* those of them whose bit will be cleared unseen

irqVars == <<status, enabled, running, work, found, waiting, forgone>>

IrqInit ==
  /\ status = {} /\ enabled = {} /\ found = {}
  /\ running = {}
  /\ work = [line \in Lines |-> {}]
  /\ waiting = {} /\ forgone = {}

\* Peripheral_Handler will not call these any more, and yet clears their bits.
Passed == found \ work["Peripheral"]

Raise(s) ==
  /\ status' = status \cup {s}
  /\ waiting' = waiting \cup {s}
  /\ forgone' = IF s \in Passed THEN forgone \cup {s} ELSE forgone \ {s}
  /\ UNCHANGED <<enabled, running, work, found>>

SetEnabled(s) ==
  /\ s \in Peripherals
  /\ enabled' = IF s \in enabled THEN enabled \ {s} ELSE enabled \cup {s}
  /\ UNCHANGED <<status, running, work, found, waiting, forgone>>

\* The bits of a line whose handlers are to be called
Real(line) == Bits(line) \cap status \cap (enabled \cup Pins)

\* The line interrupts; its handler reads status and mask.
Enter(line) ==
  /\ line \notin running /\ Real(line) # {}
  /\ running' = running \cup {line}
  /\ work' = [work EXCEPT ![line] = Real(line)]
  /\ found' = IF line = "Peripheral" THEN status \cap Peripherals ELSE found
  /\ forgone' = IF line = "Peripheral"
                THEN forgone \cup (waiting \cap (found' \ Real(line))) ELSE forgone
  /\ UNCHANGED <<status, enabled, waiting>>

\* Bug to catch: the status is read again for each handler.
ReadAgain(line, idx) == Real(line) \ {idx}

Rest(line, idx) == work[line] \ {idx}

\* The handler of the highest bit runs; that of a pin clears it.
Dispatch(line) ==
  \E idx \in work[line] :
    /\ \A other \in work[line] : other <= idx
    /\ work' = [work EXCEPT ![line] = Rest(line, idx)]
    /\ status' = IF line = "GPIO" THEN status \ {idx} ELSE status
    /\ waiting' = waiting \ {idx}
    /\ forgone' = forgone \ {idx}
    /\ UNCHANGED <<enabled, running, found>>

\* "Clear sub-rout IRQ"
Return(line) ==
  /\ line \in running /\ work[line] = {}
  /\ running' = running \ {line}
  /\ IF line = "Peripheral"
     THEN status' = status \ found /\ found' = {}
     ELSE UNCHANGED <<status, found>>
  /\ UNCHANGED <<enabled, work, waiting, forgone>>

Handler(line) == Enter(line) \/ Dispatch(line) \/ Return(line)

IrqNext ==
  \/ \E s \in Sources : Raise(s) \/ SetEnabled(s)
  \/ \E line \in Lines : Handler(line)

-----------------------------------------------------------------------------
(* Properties.                                                             *)

\* Every interrupt gets its handler run, however often those of the higher bits are
\* raised again, if it stays enabled and does not fall to the last step of
\* Peripheral_Handler: that clears the bits of the sources that were disabled when it
\* began, and of those that are raised again after their handler ran.
InterruptsServed ==
  \A s \in Sources :
    s \in waiting \ forgone /\ s \in enabled \cup Pins
      ~> s \notin waiting \/ s \in forgone \/ s \notin enabled \cup Pins
=============================================================================
