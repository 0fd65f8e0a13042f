------------------------------ MODULE AckFrame ------------------------------
(***************************************************************************)
(* The bytes of an enhanced acknowledgement (radio.c): rxely_handler lays  *)
(* out its header, BEE_tx_ack_started fills in its information elements,   *)
(* at once or, while a neighbour probes, when the frame is complete.  In   *)
(* between the task may turn CSL and probing on and off.                   *)
(*                                                                         *)
(* A byte is the name of the field it belongs to.  When acks are triggered *)
(* and which frame they answer is in RadioRx.                              *)
(***************************************************************************)
EXTENDS FrameParser, Sequences

VARIABLES
  csl,             \* is sCslPeriod > 0?
  probing,         \* is enhAckProbingDataLen > 0?
  fc_ack,          \* header of the ack
  psdu,            \* sEnhAckPsdu from the ack's first byte on, enhack_frm_len bytes
  sCslIeIndex, sVendorIeIndex,
  ack,             \* "none", "pending" in the MAC, or "sent"
  cslCameLate      \* was CSL turned on while the ack was pending?

settings == <<csl, probing>>
buffer == <<fc_ack, psdu, sCslIeIndex, sVendorIeIndex>>
ackVars == <<settings, buffer, ack, cslCameLate>>

\* What an ack takes from the header of its frame.  The parser's ack is one of
\* version 2015 without a source.
AckHeader(h, ie) ==
  [ver |-> 2, compress |-> h.compress, dst |-> h.src, src |-> "none",
   sec |-> h.sec, keyMode |-> h.keyMode, counterSuppressed |-> FALSE,
   dsnSuppressed |-> FALSE, ie |-> ie]

\* The MAC takes no frame with a reserved address mode.
AckHeaders(ie) == { AckHeader(h, ie) : h \in {g \in Headers : g.src # "reserved"} }

AckInit ==
  /\ csl = FALSE /\ probing = FALSE
  /\ fc_ack \in {h \in AckHeaders(FALSE) : h.dst = "none" /\ ~h.sec /\ ~h.compress}
  /\ psdu = <<>>
  /\ sCslIeIndex = 0 /\ sVendorIeIndex = 0
  /\ ack = "none"
  /\ cslCameLate = FALSE

-----------------------------------------------------------------------------
(* generate_ieee_enhack_frame.                                             *)

IePresent == csl \/ probing

Field(present, field, n) == IF present THEN [i \in 1 .. n |-> field] ELSE <<>>

\* The auxiliary security header has a key index, whatever the key id mode.
MacHeader(fc) ==
  Field(TRUE, "fc", 2) \o Field(TRUE, "seq", 1)
    \o Field(~fc.compress, "panid", 2)
    \o Field(fc.dst # "none", "dst", IF fc.dst = "short" THEN 2 ELSE 8)
    \o Field(fc.sec, "aux", 6)

\* The content of an element is left as it was in the buffer.
Ies == Field(csl, "csl", 2) \o Field(csl, "old", 4)
         \o Field(probing, "vendor", 2) \o Field(probing, "old", 6)

CslIndex(at) == IF csl THEN at ELSE 0

VendorIndex(at) == IF ~probing THEN 0 ELSE IF csl THEN at + 6 ELSE at

-----------------------------------------------------------------------------
(* BEE_tx_ack_started.                                                     *)

\* p with n bytes filled in behind the first two of the element at index
Filled(p, index, field, n) ==
  [i \in DOMAIN p |-> IF i \in index + 3 .. index + 2 + n THEN field ELSE p[i]]

\* Bug to catch: phase and period are written without a look at sCslPeriod.
CslAlwaysFilled(p, index) == Filled(p, index, "phase", 4)

CslFilled(p, index) == IF csl THEN Filled(p, index, "phase", 4) ELSE p

\* OpenThread has data for a neighbour that probes, and for no other.
BEE_tx_ack_started(p, cslIndex, vendorIndex) ==
  \/ psdu' = CslFilled(p, cslIndex)
  \/ probing /\ psdu' = Filled(CslFilled(p, cslIndex), vendorIndex, "metrics", 6)

-----------------------------------------------------------------------------
(* Interrupts.                                                             *)

\* The header of a frame that asks for an enhanced ack has arrived; it may be
\* that the frame before, which had its ack pending, was damaged.
rxely_handler(fc) ==
  /\ ack # "sent"
  /\ fc_ack' = fc
  /\ sCslIeIndex' = CslIndex(Len(MacHeader(fc)))
  /\ sVendorIeIndex' = VendorIndex(Len(MacHeader(fc)))
  /\ \/ probing /\ ack' = "pending" /\ psdu' = MacHeader(fc) \o Ies
     \/ /\ ~probing /\ ack' = "sent"
        /\ BEE_tx_ack_started(MacHeader(fc) \o Ies, sCslIeIndex', sVendorIeIndex')
  /\ cslCameLate' = FALSE
  /\ UNCHANGED settings

rxdone_handler ==
  /\ ack = "pending"
  /\ ack' = "sent"
  /\ BEE_tx_ack_started(psdu, sCslIeIndex, sVendorIeIndex)
  /\ UNCHANGED <<settings, fc_ack, sCslIeIndex, sVendorIeIndex, cslCameLate>>

mac_report_enhack_transmit_done ==
  /\ ack = "sent"
  /\ ack' = "none"
  /\ psdu' = <<>>
  /\ UNCHANGED <<settings, fc_ack, sCslIeIndex, sVendorIeIndex, cslCameLate>>

-----------------------------------------------------------------------------
(* The task.                                                               *)

otPlatRadioEnableCsl ==
  /\ csl' \in BOOLEAN
  /\ cslCameLate' = (cslCameLate \/ (ack = "pending" /\ csl' /\ sCslIeIndex = 0))
  /\ UNCHANGED <<probing, buffer, ack>>

otPlatRadioConfigureEnhAckProbing ==
  /\ probing' \in BOOLEAN
  /\ UNCHANGED <<csl, buffer, ack, cslCameLate>>

AckNext ==
  \/ \E fc \in AckHeaders(IePresent) : rxely_handler(fc)
  \/ rxdone_handler
  \/ mac_report_enhack_transmit_done
  \/ otPlatRadioEnableCsl
  \/ otPlatRadioConfigureEnhAckProbing

AckSpec == AckInit /\ [][AckNext]_ackVars

-----------------------------------------------------------------------------
(* Properties.                                                             *)

\* The two parsers of mac_802154_frame_parser.c agree where every field is and
\* whether the header can be parsed at all: for the ack and for every header that
\* differs from it in version, source or sequence number or has a reserved
\* destination, which over all acks are all headers.
ParsersAgree ==
  ack # "none" =>
    \A v \in 0 .. 3, src \in AddrModes, noDsn \in BOOLEAN, dst \in {fc_ack.dst, "reserved"} :
      LET h == [fc_ack EXCEPT !.ver = v, !.src = src, !.dsnSuppressed = noDsn, !.dst = dst]
          m == mhr_parse(h)
      IN IF ~m.ok THEN security_offset(h) = INVALID
         ELSE /\ dst_panid_offset(h) = m.dstPanid /\ dst_addr_offset(h) = m.dstAddr
              /\ src_panid_offset(h) = m.srcPanid /\ src_addr_offset(h) = m.srcAddr
              /\ security_offset(h) = m.end /\ sec_ctrl_offset(h) = m.secCtrl
              /\ HasSrc(h) \/ src_panid_is_present(h) \/ dst_addr_end_offset(h) = m.end

\* The bytes of an element at an offset of the parser
At(offset, field, n) == \A i \in offset .. offset + n - 1 : i \in DOMAIN psdu /\ psdu[i] = field

FieldsFound ==
  /\ At(1, "fc", 2) /\ At(3, "seq", 1)
  /\ dst_panid_is_present(fc_ack) => At(dst_panid_offset(fc_ack), "panid", 2)
  /\ At(dst_addr_offset(fc_ack), "dst", AddrSize(fc_ack.dst))
  /\ fc_ack.sec => At(sec_ctrl_offset(fc_ack), "aux", 6)

IesFound ==
  IF fc_ack.ie
  THEN At(ie_header_offset(fc_ack), "csl", 2) \/ At(ie_header_offset(fc_ack), "vendor", 2)
  ELSE Len(psdu) = ie_offset(fc_ack) - 1

FilledInPlace ==
  \A i \in DOMAIN psdu :
    /\ psdu[i] = "phase" => \E j \in i - 5 .. i - 2 : At(j, "csl", 2)
    /\ psdu[i] = "metrics" => \E j \in i - 7 .. i - 2 : At(j, "vendor", 2)

\* The ack on the air is one that the parser understands, unless CSL was turned on
\* while it was pending: what was filled in is in the element it belongs to, and of an
\* ack to a frame with a source PAN id, address and security header are where the
\* parser finds them, and so is the first information element, if and only if the
\* frame control field says there is one; in a secured ack only with a key index.
AckParses ==
  ~cslCameLate =>
    /\ FilledInPlace
    /\ ack = "sent" /\ fc_ack.dst # "none" =>
         /\ FieldsFound
         /\ (fc_ack.sec => fc_ack.keyMode = 1) => IesFound
=============================================================================
