------------------------------ MODULE MCSystem ------------------------------
(***************************************************************************)
(* The parts of the system code that share no variable with each other:    *)
(* firmware update, start, shared interrupts, memcpy and memset.  part     *)
(* says which of them runs in a behaviour; the others stay as they began.  *)
(***************************************************************************)
EXTENDS Xmodem, Boot, Interrupts, MemOps

VARIABLE part

systemVars == <<part, vars, bootVars, irqVars, call>>

FirstCall == [dst |-> 0, src |-> 0, n |-> 0, char |-> 0, signed |-> FALSE]

\* A part that does not run begins in one state only.
SystemInit ==
  /\ part \in {"update", "start", "interrupts", "memory"}
  /\ Init /\ BootInit /\ IrqInit
  /\ IF part = "memory" THEN MemInit ELSE call = FirstCall

SystemNext ==
  \/ /\ part = "update" /\ Next
     /\ UNCHANGED <<part, bootVars, irqVars, call>>
  \/ /\ part = "start" /\ BootNext
     /\ UNCHANGED <<part, vars, irqVars, call>>
  \/ /\ part = "interrupts" /\ IrqNext
     /\ UNCHANGED <<part, vars, bootVars, call>>

\* The device runs its own code, sender and line promise nothing; the handler of a line
\* that interrupts runs.
SystemFairness ==
  /\ WF_systemVars(part = "update" /\ main /\ UNCHANGED <<part, bootVars, irqVars, call>>)
  /\ WF_systemVars(part = "update" /\ xmodemReceive /\ UNCHANGED <<part, bootVars, irqVars, call>>)
  /\ \A of \in Lines :
       WF_systemVars(part = "interrupts" /\ Handler(of) /\ UNCHANGED <<part, vars, bootVars, call>>)

SystemSpec == SystemInit /\ [][SystemNext]_systemVars /\ SystemFairness
=============================================================================
