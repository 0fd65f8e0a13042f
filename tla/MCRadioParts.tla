---------------------------- MODULE MCRadioParts ----------------------------
(***************************************************************************)
(* The parts of radio.c that share no variable with each other: the layout *)
(* of acks, the keys, the source match table, the clock and sStayAwake.    *)
(* part says which of them runs in a behaviour; the others stay as they    *)
(* began.                                                                  *)
(***************************************************************************)
EXTENDS AckFrame, MacKeys, SrcMatch, BtClock, StayAwake

VARIABLE part

partsVars == <<part, ackVars, keysVars, matchVars, clockVars, awakeVars>>

\* A part that does not run begins in one state only.
PartsInit ==
  /\ part \in {"layout", "keys", "match", "clock", "awake"}
  /\ AckInit /\ KeysInit /\ MatchInit /\ ClockInit /\ AwakeInit
  /\ part # "keys" => sCurrKey = CHOOSE seq \in Sequences : TRUE
  /\ part # "awake" => hasAckTimer
  /\ part # "match" => sPanid = CHOOSE panid \in PanIds : TRUE

PartsNext ==
  \/ /\ part = "layout" /\ AckNext
     /\ UNCHANGED <<part, keysVars, matchVars, clockVars, awakeVars>>
  \/ /\ part = "keys" /\ KeysNext
     /\ UNCHANGED <<part, ackVars, matchVars, clockVars, awakeVars>>
  \/ /\ part = "match" /\ MatchNext
     /\ UNCHANGED <<part, ackVars, keysVars, clockVars, awakeVars>>
  \/ /\ part = "clock" /\ ClockNext
     /\ UNCHANGED <<part, ackVars, keysVars, matchVars, awakeVars>>
  \/ /\ part = "awake" /\ AwakeNext
     /\ UNCHANGED <<part, ackVars, keysVars, matchVars, clockVars>>

PartsSpec == PartsInit /\ [][PartsNext]_partsVars
=============================================================================
