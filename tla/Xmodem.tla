------------------------------- MODULE Xmodem -------------------------------
(***************************************************************************)
(* The firmware update over XMODEM: xmodemReceive in xmodem.c, the boot    *)
(* flag that ProcessFirmwareUpdate sets and main_ns.c reads, and a sender  *)
(* on a serial line that damages and loses.                                *)
(*                                                                         *)
(* A block is its number in the image, and len counts blocks.  A packet is *)
(* read in one step: the receiver does nothing else meanwhile.  Bytes that *)
(* do not begin with the start byte of their packet are read one by one.   *)
(***************************************************************************)
EXTENDS Integers

CONSTANTS
  Blocks,         \* the image the sender has
  DestBlocks,     \* destsz
  Skipped,        \* the blocks of the first 0x2000 bytes, which are not written
  PacketNumbers,  \* 256, the values of an unsigned char
  Retries,        \* 16, the tries for a start byte
  MAXRETRANS,
  MaxPowerLosses  \* bound

ASSUME XmodemAssumption ==
  /\ Blocks \in Nat /\ DestBlocks \in Nat /\ Skipped \in Nat
  /\ Skipped < Blocks /\ Blocks <= DestBlocks
  /\ PacketNumbers \in Nat /\ PacketNumbers > 2
  /\ Retries \in Nat \ {0} /\ MAXRETRANS \in Nat \ {0}
  /\ MaxPowerLosses \in Nat

Image == 1 .. Blocks
Old == -1
Erased == 0
Garbage == -2   \* what a damaged packet holds

VARIABLES
  boot_flag,   \* "unset", "0" or "0xdeadbeef", in FTL
  flash,       \* block at each place of the app's bank, Old or Erased
  pc,          \* "off", "app", or the receiver: "sync", "EOT", "flushinput"
  trychar,     \* "C", "NAK" or "none"
  crc, packetno, len, retry, retrans,  \* xmodemReceive's own
  packet,      \* on the line to the receiver, at most one, or the rest of one
  answer,      \* on the line to the sender: "ACK", "NAK", "C" or "none"
  sending,     \* the block the sender waits to have acknowledged; 0 before the
               \* first, Blocks + 1 for EOT, Blocks + 2 when it is done
  asked,       \* "C" or "NAK": the packets the sender has been asked for
  powerLosses,
  misled       \* history: since the flash was last erased, was a byte of the rest of a
               \* packet taken for EOT, or the flag of the update lost by FTL?

receiver == <<trychar, crc, packetno, len, retry, retrans>>
sender == <<sending, asked>>
line == <<packet, answer>>
vars == <<boot_flag, flash, pc, receiver, line, sender, powerLosses, misled>>

Block(b, withCrc) ==
  [kind |-> "block", number |-> b % PacketNumbers, block |-> b, crc |-> withCrc]

Nothing == [kind |-> "nothing"]

\* Bytes of a packet whose start byte was lost or damaged, or noise; any byte may be
\* among them.
RestOfPacket == [kind |-> "rest"]

Init ==
  /\ boot_flag = "unset"
  /\ flash = [b \in Image |-> Old]
  /\ pc = "off"
  /\ trychar = "none" /\ crc = FALSE /\ packetno = 0 /\ len = 0 /\ retry = 0 /\ retrans = 0
  /\ packet = Nothing /\ answer = "none"
  /\ sending = 0 /\ asked = "none"
  /\ powerLosses = 0
  /\ misled = FALSE

-----------------------------------------------------------------------------
(* The device starts and stops.                                            *)

\* Bug to catch: the update is taken for done when it begins.
BootForgetting(flag) == flag = boot_flag /\ boot_flag' = "0"

\* flag is what main goes by: the flag in FTL, or 0 when FTL does not load it, which
\* main then saves.
BootFlag(flag) ==
  \/ flag = boot_flag /\ flag # "unset" /\ UNCHANGED boot_flag
  \/ flag = "0" /\ boot_flag' = "0"

\* main, up to the first character xmodemReceive sends.
main ==
  /\ pc = "off"
  /\ \E flag \in {"unset", "0", "0xdeadbeef"} :
       /\ BootFlag(flag)
       /\ \/ /\ flag # "0xdeadbeef"
             /\ pc' = "app"
             /\ misled' = (misled \/ boot_flag = "0xdeadbeef")
             /\ UNCHANGED <<flash, receiver, answer>>
          \/ /\ flag = "0xdeadbeef"
             /\ pc' = "sync"
             /\ misled' = FALSE
             /\ flash' = [b \in Image |-> IF b <= Skipped THEN flash[b] ELSE Erased]
             /\ trychar' = "C" /\ answer' = "C"
             /\ crc' = FALSE /\ packetno' = 1 /\ len' = 0 /\ retry' = 0 /\ retrans' = MAXRETRANS
  /\ UNCHANGED <<packet, sender, powerLosses>>

\* A reset empties the UART, and the operator starts the sender again.
Reset ==
  /\ pc' = "off"
  /\ packet' = Nothing /\ answer' = "none" /\ sending' = 0 /\ asked' = "none"

\* The command fwupdate.
ProcessFirmwareUpdate ==
  /\ pc = "app"
  /\ boot_flag' = "0xdeadbeef"
  /\ Reset
  /\ UNCHANGED <<flash, receiver, powerLosses, misled>>

PowerLoss ==
  /\ pc # "off"
  /\ powerLosses < MaxPowerLosses
  /\ powerLosses' = powerLosses + 1
  /\ Reset
  /\ UNCHANGED <<boot_flag, flash, receiver, misled>>

-----------------------------------------------------------------------------
(* xmodemReceive.                                                          *)

\* Bug to catch: a repeated block is a new chance for retransmissions.
RetransRefilled(isNew) == MAXRETRANS

Retrans(isNew) == IF isNew THEN MAXRETRANS ELSE retrans - 1

\* Bug to catch: the repeat of a block is written behind it.
NewIfInTurn(n) == n \in {packetno, packetno - 1}

IsNew(n) == n = packetno

\* packetno - 1 is computed as an int: -1 when packetno is 0.
Accepts(p, withCrc) ==
  /\ p.kind = "block" /\ p.block # Garbage /\ p.crc = withCrc
  /\ p.number = packetno \/ p.number = packetno - 1

\* flushinput has no end: _inbyte returns 0, and never less, when it times out.
FlushInput == pc' = "flushinput"

\* The next round of the loop; _inbyte's 0 and any other byte count as a try.
NextTry ==
  \/ /\ retry + 1 < Retries
     /\ retry' = retry + 1
     /\ answer' = IF trychar = "none" THEN answer ELSE trychar
     /\ UNCHANGED <<trychar, pc>>
  \/ /\ retry + 1 = Retries /\ trychar = "C"
     /\ trychar' = "NAK" /\ retry' = 0 /\ answer' = "NAK"
     /\ UNCHANGED pc
  \/ /\ retry + 1 = Retries /\ trychar # "C"
     /\ FlushInput
     /\ UNCHANGED <<trychar, retry, answer>>

\* Nothing, or one byte that is no start byte, or a CAN that no other follows.
NoStart ==
  /\ pc = "sync"
  /\ packet.kind \in {"nothing", "rest"}
  /\ packet' \in {packet, Nothing}
  /\ NextTry
  /\ UNCHANGED <<boot_flag, flash, crc, packetno, len, retrans, sender, powerLosses, misled>>

Cancelled ==
  /\ pc = "sync"
  /\ packet.kind \in {"CAN", "rest"}
  /\ packet' = Nothing
  /\ FlushInput
  /\ UNCHANGED <<boot_flag, flash, receiver, answer, sender, powerLosses, misled>>

WriteBlock(b) ==
  IF len < DestBlocks
  THEN /\ flash' = IF len >= Skipped THEN [flash EXCEPT ![len + 1] = b] ELSE flash
       /\ len' = len + 1
  ELSE UNCHANGED <<flash, len>>

\* From SOH or STX on, which may be a byte of the rest of a packet.
start_recv ==
  /\ pc = "sync"
  /\ packet.kind \in {"block", "rest"}
  /\ crc' = (crc \/ trychar = "C")
  /\ trychar' = "none"
  /\ packet' = Nothing
  /\ \/ /\ Accepts(packet, crc')
        /\ \/ /\ IsNew(packet.number)
              /\ WriteBlock(packet.block)
              /\ packetno' = (packetno + 1) % PacketNumbers
           \/ /\ ~IsNew(packet.number)
              /\ UNCHANGED <<flash, len, packetno>>
        /\ retrans' = Retrans(IsNew(packet.number))
        /\ \/ retrans' <= 0 /\ FlushInput /\ UNCHANGED <<answer, retry>>
           \/ retrans' > 0 /\ answer' = "ACK" /\ retry' = 0 /\ UNCHANGED pc
     \/ /\ ~Accepts(packet, crc')
        /\ FlushInput
        /\ UNCHANGED <<flash, packetno, len, retry, retrans, answer>>
  /\ UNCHANGED <<boot_flag, sender, powerLosses, misled>>

\* Any byte with the value of EOT is one, like the number of block 4 when its start byte
\* was lost.
ReceiveEOT ==
  /\ pc = "sync"
  /\ packet.kind \in {"EOT", "rest"}
  /\ misled' = (misled \/ packet.kind = "rest")
  /\ packet' = Nothing /\ answer' = "ACK"
  /\ pc' = "EOT"
  /\ UNCHANGED <<boot_flag, flash, receiver, sender, powerLosses>>

\* The flag is saved after the acknowledgement, and the device resets.
SaveAndReset ==
  /\ pc = "EOT"
  /\ boot_flag' = "0"
  /\ pc' = "off"
  /\ UNCHANGED <<flash, receiver, line, sender, powerLosses, misled>>

\* flushinput reads on.
Flushed ==
  /\ pc = "flushinput"
  /\ packet # Nothing
  /\ packet' = Nothing
  /\ UNCHANGED <<boot_flag, flash, pc, receiver, answer, sender, powerLosses, misled>>

-----------------------------------------------------------------------------
(* The sender and the line.                                                *)

ToSend(b) == IF b \in Image THEN Block(b, asked = "C") ELSE [kind |-> "EOT"]

SenderAsked ==
  /\ sending = 0
  /\ answer \in {"C", "NAK"}
  /\ asked' = answer
  /\ answer' = "none"
  /\ UNCHANGED <<sending, packet>>

\* By now the receiver may have gone from "C" to "NAK".
SenderStarts ==
  /\ sending = 0 /\ asked # "none"
  /\ sending' = 1
  /\ packet' = ToSend(1)
  /\ UNCHANGED <<answer, asked>>

SenderAcked ==
  /\ sending \in 1 .. Blocks + 1
  /\ answer = "ACK"
  /\ sending' = sending + 1
  /\ answer' = "none"
  /\ packet' = IF sending' <= Blocks + 1 THEN ToSend(sending') ELSE packet
  /\ UNCHANGED asked

\* The receiver answers long before the sender's timeout: an answer that is not
\* there was lost, or the receiver is gone.
SenderRepeats ==
  /\ sending \in 1 .. Blocks + 1
  /\ packet = Nothing /\ answer # "ACK"
  /\ pc # "EOT"
  /\ packet' = ToSend(sending)
  /\ answer' = "none"
  /\ UNCHANGED <<sending, asked>>

SenderCancels ==
  /\ sending \in Image
  /\ packet = Nothing
  /\ sending' = Blocks + 2
  /\ packet' = [kind |-> "CAN"]
  /\ UNCHANGED <<answer, asked>>

\* What is on the line is damaged or lost, or there is noise on it.
LineDamages ==
  /\ \/ packet.kind = "block" /\ packet' = [packet EXCEPT !.block = Garbage]
     \/ packet' \in {Nothing, RestOfPacket}
  /\ UNCHANGED <<answer, sender>>

LineLosesAnswer ==
  /\ answer # "none"
  /\ answer' = "none"
  /\ UNCHANGED <<packet, sender>>

Outside ==
  /\ \/ SenderAsked \/ SenderStarts \/ SenderAcked \/ SenderRepeats \/ SenderCancels
     \/ LineDamages \/ LineLosesAnswer
  /\ pc # "off"
  /\ UNCHANGED <<boot_flag, flash, pc, receiver, powerLosses, misled>>

xmodemReceive == NoStart \/ Cancelled \/ start_recv \/ ReceiveEOT \/ SaveAndReset \/ Flushed

Next == main \/ ProcessFirmwareUpdate \/ PowerLoss \/ xmodemReceive \/ Outside

Spec == Init /\ [][Next]_vars

-----------------------------------------------------------------------------
(* Properties.                                                             *)

TypeOK ==
  /\ boot_flag \in {"unset", "0", "0xdeadbeef"}
  /\ flash \in [Image -> Image \cup {Old, Erased}]
  /\ pc \in {"off", "app", "sync", "EOT", "flushinput"}
  /\ trychar \in {"C", "NAK", "none"} /\ crc \in BOOLEAN
  /\ packetno \in 0 .. PacketNumbers - 1
  /\ len \in 0 .. DestBlocks
  /\ retry \in 0 .. Retries - 1 /\ retrans \in 0 .. MAXRETRANS
  /\ answer \in {"ACK", "NAK", "C", "none"}
  /\ packet.kind \in {"nothing", "rest", "block", "EOT", "CAN"}
  /\ sending \in 0 .. Blocks + 2 /\ asked \in {"C", "NAK", "none"}
  /\ powerLosses \in 0 .. MaxPowerLosses /\ misled \in BOOLEAN

Receiving == pc \in {"sync", "EOT", "flushinput"}

\* However often blocks are damaged, repeated and lost, what is in the flash is
\* the beginning of the image, each block once and in its place.
FlashInOrder ==
  Receiving => \A b \in Image : b > Skipped => flash[b] = IF b <= len THEN b ELSE Erased

\* The app is started only from a whole image, the old one or the new one, also when
\* the power fails at any time.  Two cases are excepted, which the code has: a byte of
\* a packet without its start byte was read as EOT, and main could not load the flag
\* and took it for 0.
AppIsWhole ==
  pc = "app" /\ ~misled =>
    \/ \A b \in Image : b > Skipped => flash[b] = Old
    \/ \A b \in Image : b > Skipped => flash[b] = b

\* Whatever sender and line do, the receiver ends: in a reset, or in flushinput.
ReceiveEnds == pc = "sync" ~> pc # "sync"
=============================================================================
