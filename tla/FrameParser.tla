----------------------------- MODULE FrameParser -----------------------------
(***************************************************************************)
(* mac_802154_frame_parser.c: where the fields of an IEEE 802.15.4 header  *)
(* are.  A header is a record of the bits the parser looks at.  An offset  *)
(* counts from the length byte before the frame; 0 says that the field is  *)
(* not there, which is NULL for the functions that return pointers.        *)
(***************************************************************************)
EXTENDS Integers

AddrModes == {"none", "reserved", "short", "extended"}

\* Frame counter and key are looked at only in a secured frame.
Headers ==
  { h \in [ver : 0 .. 3, compress : BOOLEAN, dst : AddrModes, src : AddrModes,
           sec : BOOLEAN, keyMode : 0 .. 3, counterSuppressed : BOOLEAN,
           dsnSuppressed : BOOLEAN, ie : BOOLEAN] :
      ~h.sec => h.keyMode = 0 /\ ~h.counterSuppressed }

INVALID == 255

PanIdSize == 2

AddrSize(mode) ==
  CASE mode = "none"     -> 0
    [] mode = "short"    -> 2
    [] mode = "extended" -> 8
    [] mode = "reserved" -> INVALID

addressing_offset(h) == IF h.ver >= 2 /\ h.dsnSuppressed THEN 3 ELSE 4

HasDst(h) == h.dst # "none"
HasSrc(h) == h.src # "none"
BothExtended(h) == h.dst = "extended" /\ h.src = "extended"

dst_panid_is_present(h) ==
  IF h.ver < 2 THEN HasDst(h)
  ELSE \/ BothExtended(h) /\ ~h.compress
       \/ ~BothExtended(h) /\ HasSrc(h) /\ HasDst(h)
       \/ ~HasSrc(h) /\ HasDst(h) /\ ~h.compress
       \/ ~HasSrc(h) /\ ~HasDst(h) /\ h.compress

src_panid_is_present(h) ==
  HasSrc(h) /\ ~h.compress /\ ~(h.ver >= 2 /\ BothExtended(h))

-----------------------------------------------------------------------------
(* The offset functions, each of which finds its field from those before.  *)

\* size bytes after offset
After(offset, size) ==
  IF INVALID \in {offset, size} THEN INVALID ELSE offset + size

dst_panid_offset(h) == IF dst_panid_is_present(h) THEN addressing_offset(h) ELSE 0

dst_addr_offset(h) ==
  IF ~HasDst(h) THEN 0
  ELSE IF dst_panid_offset(h) = 0 THEN addressing_offset(h)
  ELSE dst_panid_offset(h) + PanIdSize

\* Bug to catch: a PAN id without an address is passed over.
AfterDstAddr(h) ==
  IF dst_addr_offset(h) # 0 THEN After(dst_addr_offset(h), AddrSize(h.dst))
  ELSE addressing_offset(h)

\* Where the source fields begin
AfterDst(h) ==
  IF dst_addr_offset(h) # 0 THEN After(dst_addr_offset(h), AddrSize(h.dst))
  ELSE IF dst_panid_offset(h) # 0 THEN dst_panid_offset(h) + PanIdSize
  ELSE addressing_offset(h)

dst_addr_end_offset(h) ==
  After(addressing_offset(h) + (IF dst_panid_is_present(h) THEN PanIdSize ELSE 0),
        AddrSize(h.dst))

\* A source PAN id that is compressed is the destination's.
src_panid_offset(h) ==
  IF src_panid_is_present(h) THEN AfterDst(h) ELSE dst_panid_offset(h)

src_addr_offset(h) ==
  IF ~HasSrc(h) THEN 0
  ELSE IF src_panid_is_present(h) THEN After(src_panid_offset(h), PanIdSize)
  ELSE AfterDst(h)

security_offset(h) ==
  IF HasSrc(h) THEN After(src_addr_offset(h), AddrSize(h.src)) ELSE AfterDst(h)

sec_ctrl_offset(h) == IF h.sec THEN security_offset(h) ELSE 0

key_id_offset(h) ==
  IF ~h.sec THEN 0
  ELSE After(sec_ctrl_offset(h), IF h.counterSuppressed THEN 1 ELSE 5)

key_id_size(h) == CASE h.keyMode = 0 -> 0 [] h.keyMode = 1 -> 1
                    [] h.keyMode = 2 -> 5 [] h.keyMode = 3 -> 9

ie_offset(h) ==
  IF h.sec THEN After(key_id_offset(h), key_id_size(h)) ELSE security_offset(h)

ie_header_offset(h) == IF h.ie THEN ie_offset(h) ELSE 0

-----------------------------------------------------------------------------
(* The same in one pass over the frame.                                    *)

Unless0(present, offset) == IF present THEN offset ELSE 0

mhr_parse(h) ==
  LET dstPanid == addressing_offset(h)
      dstAddr  == dstPanid + Unless0(dst_panid_is_present(h), PanIdSize)
      srcPanid == dstAddr + AddrSize(h.dst)
      srcAddr  == srcPanid + Unless0(src_panid_is_present(h), PanIdSize)
      end      == srcAddr + AddrSize(h.src)
  IN [ok       |-> "reserved" \notin {h.dst, h.src},
      dstPanid |-> Unless0(dst_panid_is_present(h), dstPanid),
      dstAddr  |-> Unless0(HasDst(h), dstAddr),
      srcPanid |-> IF src_panid_is_present(h) THEN srcPanid
                   ELSE Unless0(dst_panid_is_present(h), dstPanid),
      srcAddr  |-> Unless0(HasSrc(h), srcAddr),
      end      |-> end,
      secCtrl  |-> Unless0(h.sec, end)]
=============================================================================
