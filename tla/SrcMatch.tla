------------------------------ MODULE SrcMatch ------------------------------
(***************************************************************************)
(* The source match table of the MAC (radio.c): the children for which a   *)
(* data poll is acknowledged with "frame pending".  OpenThread knows the   *)
(* table from the answers it gets.  A short address is entered and deleted *)
(* together with the PAN id of the moment, an extended one without.        *)
(***************************************************************************)
EXTENDS FiniteSets, Naturals

CONSTANTS
  ShortAddresses, ExtAddresses,
  PanIds,
  TableSize      \* entries the MAC has room for

ASSUME SrcMatchAssumption ==
  /\ ShortAddresses \cap ExtAddresses = {}
  /\ TableSize \in Nat

VARIABLES
  sPanid,
  table,         \* the MAC's entries
  matchMode,     \* AUTO_ACK_PENDING_MODE
  told,          \* the entries as OpenThread was told
  panChanged     \* did sPanid change since the table was empty?

matchVars == <<sPanid, table, matchMode, told, panChanged>>

Addresses == ShortAddresses \cup ExtAddresses

\* 0 stands for the PAN id that an entry of an extended address has not.
Entry(address, panid) ==
  [address |-> address, panid |-> IF address \in ShortAddresses THEN panid ELSE 0]

Entries == { Entry(address, panid) : address \in Addresses, panid \in PanIds }

\* What OpenThread was told of an address
Told(address) == {entry \in told : entry.address = address}

MatchInit ==
  /\ sPanid \in PanIds
  /\ table = {}
  /\ matchMode = "zigbee"
  /\ told = {}
  /\ panChanged = FALSE

otPlatRadioSetPanId(panid) ==
  /\ sPanid' = panid
  /\ panChanged' = (panChanged \/ (panid # sPanid /\ table # {}))
  /\ UNCHANGED <<table, matchMode, told>>

otPlatRadioEnableSrcMatch(mode) ==
  /\ matchMode' = mode
  /\ UNCHANGED <<sPanid, table, told, panChanged>>

HasRoom(entry) == entry \in table \/ Cardinality(table) < TableSize

\* Bug to catch: a table that is full is not reported.
AddSrcMatchUnheard(address) ==
  LET entry == Entry(address, sPanid) IN
    /\ entry \notin told
    /\ table' = IF HasRoom(entry) THEN table \cup {entry} ELSE table
    /\ told' = told \cup {entry}
    /\ UNCHANGED <<sPanid, matchMode, panChanged>>

\* MAC_STS_HW_LIMIT is OT_ERROR_NO_BUFS, anything else a success.
otPlatRadioAddSrcMatchEntry(address) ==
  LET entry == Entry(address, sPanid) IN
    /\ entry \notin told
    /\ IF HasRoom(entry)
       THEN table' = table \cup {entry} /\ told' = told \cup {entry}
       ELSE UNCHANGED <<table, told>>
    /\ UNCHANGED <<sPanid, matchMode, panChanged>>

\* An entry made under another PAN id is not found: the answer is
\* OT_ERROR_NO_ADDRESS, and the entry stays.
otPlatRadioClearSrcMatchEntry(address) ==
  /\ Told(address) # {}
  /\ table' = table \ {Entry(address, sPanid)}
  /\ told' = told \ Told(address)
  /\ UNCHANGED <<sPanid, matchMode, panChanged>>

\* otPlatRadioClearSrcMatchShortEntries and ..ExtEntries, each of which deletes the
\* entries of both kinds; OpenThread calls one after the other.
otPlatRadioClearSrcMatchEntries ==
  /\ table' = {}
  /\ told' = {}
  /\ panChanged' = FALSE
  /\ UNCHANGED <<sPanid, matchMode>>

MatchNext ==
  \/ \E panid \in PanIds : otPlatRadioSetPanId(panid)
  \/ \E mode \in {"thread", "zigbee"} : otPlatRadioEnableSrcMatch(mode)
  \/ \E address \in Addresses :
       otPlatRadioAddSrcMatchEntry(address) \/ otPlatRadioClearSrcMatchEntry(address)
  \/ otPlatRadioClearSrcMatchEntries

MatchSpec == MatchInit /\ [][MatchNext]_matchVars

-----------------------------------------------------------------------------
(* Properties.                                                             *)

\* A child that OpenThread was told is in the table is matched, unless the PAN id is
\* another one than it was entered with; and while the PAN id stays the same the table
\* holds nothing but these children, so that no entry is lost to the others.
TableAsTold ==
  /\ \A entry \in told : entry = Entry(entry.address, sPanid) => entry \in table
  /\ panChanged \/ table = told
=============================================================================
