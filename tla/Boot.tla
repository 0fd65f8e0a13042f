-------------------------------- MODULE Boot --------------------------------
(***************************************************************************)
(* The start of the device, system_rtl.c: system_init and pre_main, which  *)
(* the ROM calls, and common_main.  A register that keeps its value        *)
(* through resets tells why the device started, and the vector table in    *)
(* RAM still holds the handlers of the run before.                         *)
(*                                                                         *)
(* The ROM, the reset hardware and the drivers that register handlers are  *)
(* external.  What rtk_main does with the boot flag is in Xmodem.          *)
(***************************************************************************)
EXTENDS FiniteSets

CONSTANTS
  Reasons,       \* T_SW_RESET_REASON without RESET_REASON_HW, .._DLPS and .._WDT_TIMEOUT
  Vectors,
  AppVectors,    \* those for which the app brings a handler
  UnusedVectors, \* those which are 0 in the app's table
  RomVectors,    \* those for which the ROM brings a handler
  BTMAC_VECTORn

WatchdogTimeouts == {"CORE_LV0", "CORE_LV1", "AON_LV0", "AON_LV1"}

ASSUME BootAssumption ==
  /\ Reasons \cap ({"HW", "DLPS", "WDT_TIMEOUT", "power"} \cup WatchdogTimeouts) = {}
  /\ AppVectors \subseteq Vectors /\ UnusedVectors \subseteq Vectors
  /\ RomVectors \subseteq Vectors /\ BTMAC_VECTORn \in Vectors
  /\ AppVectors \cap UnusedVectors = {}
  /\ UnusedVectors \subseteq RomVectors

VARIABLES
  stage,            \* what has the CPU: "rom", ..., "app"
  reset_reason,     \* in AON_NS_REG0X_APP
  timeout_flag,     \* of the two watchdogs: "none", "CORE_LV0", "CORE_LV1", "AON_LV0", "AON_LV1"
  sw_reset_reason, wdt_reset_type,
  RamVector,        \* the vector table in RAM
  VTOR,             \* "rom" or "ram"
  cause,            \* why the device was reset last
  unread            \* did a watchdog bite before the reason of the reset before was read?

report == <<sw_reset_reason, wdt_reset_type>>
vectors == <<RamVector, VTOR>>
bootVars == <<stage, reset_reason, timeout_flag, report, vectors, cause, unread>>

\* Has the reason of the last reset been read?
Started == stage \in {"lowerstack", "common_main", "dfu", "app"}

\* What a vector may hold: "rom", "rom default", "app", "app default", "lowerstack",
\* "driver", or "stale", which a driver registered before the reset.
RomTable == [v \in Vectors |-> IF v \in RomVectors THEN "rom" ELSE "rom default"]

BootInit ==
  /\ stage = "rom"
  /\ reset_reason = "HW" /\ timeout_flag = "none"
  /\ sw_reset_reason = "HW" /\ wdt_reset_type = "HW_RESET"
  /\ RamVector = RomTable /\ VTOR = "rom"
  /\ cause = "power" /\ unread = FALSE

-----------------------------------------------------------------------------
(* Resets.                                                                 *)

\* The CPU starts anew; the RAM keeps what it holds.
ResetBy(why) ==
  /\ stage' = "rom"
  /\ VTOR' = "rom"
  /\ RamVector' = [v \in Vectors |-> IF RamVector[v] = "driver" THEN "stale" ELSE RamVector[v]]
  /\ cause' = why
  /\ UNCHANGED report

PowerOn ==
  /\ ResetBy("power")
  /\ reset_reason' = "HW" /\ timeout_flag' = "none"
  /\ unread' = FALSE

\* WDG_SystemReset, as otPlatReset calls it: the core's watchdog resets, after
\* wdg_system_reset_app_cb.
SystemReset(reason) ==
  /\ stage = "app"
  /\ ResetBy(reason)
  /\ reset_reason' = reason /\ timeout_flag' = "CORE_LV0"
  /\ unread' = FALSE

\* A watchdog bites, in the app or before.
WatchdogReset(timeout) ==
  /\ ResetBy(timeout)
  /\ timeout_flag' = timeout
  /\ unread' = (~Started /\ reset_reason # "HW")
  /\ UNCHANGED reset_reason

\* In DLPS the power manager keeps its own reason in the register.
ResetInDlps ==
  /\ stage = "app"
  /\ ResetBy("DLPS")
  /\ reset_reason' = "DLPS" /\ timeout_flag' = "none"
  /\ unread' = FALSE

-----------------------------------------------------------------------------
(* system_init and pre_main.                                               *)

\* What ram_init does to the report: the sections of initialised data are copied from
\* flash, the others, with these two in them, cleared.
ram_init == sw_reset_reason' = "zero" /\ wdt_reset_type' = "zero"

\* "In HCI Mode, will not run APP Task"; otherwise app_pre_main and app_main are
\* registered.
system_init ==
  /\ stage = "rom"
  /\ \/ stage' = "hci" /\ UNCHANGED report
     \/ stage' = "pre_main" /\ ram_init
  /\ UNCHANGED <<reset_reason, timeout_flag, vectors, cause, unread>>

\* Bug to catch: the reason stays in the register.
ReasonStays == UNCHANGED reset_reason

\* Whoever reads the reason makes room for the next one.
ReasonRead == reset_reason' = "HW"

\* With a flag of a watchdog and no other reason, the watchdog is the reason.
reset_reason_print ==
  LET bitten == timeout_flag # "none"
  IN /\ ReasonRead
     /\ sw_reset_reason' = IF bitten /\ reset_reason = "HW" THEN "WDT_TIMEOUT" ELSE reset_reason
     /\ wdt_reset_type' =
          CASE bitten -> IF reset_reason = "HW" THEN timeout_flag ELSE "SYSTEM_RESET_REASON"
            [] ~bitten /\ reset_reason = "HW" -> "HW_RESET"
            [] ~bitten /\ reset_reason = "DLPS" -> "AON_WDT_RESET_DLPS"
            [] OTHER -> wdt_reset_type

\* Bug to catch: the handlers in RAM are taken for the ROM's.
TableAsFound == RamVector

\* RamVectorTableInit, unless the ROM has moved the table already
TableBefore == IF VTOR = "rom" THEN RomTable ELSE RamVector

\* A handler of the app replaces any other, its default handler only the ROM's.
AppUpdateVectorTable ==
  /\ VTOR' = "ram"
  /\ RamVector' = [v \in Vectors |->
       IF v \in AppVectors THEN "app"
       ELSE IF v \notin UnusedVectors /\ TableBefore[v] = "rom default" THEN "app default"
       ELSE TableBefore[v]]

pre_main ==
  /\ stage = "pre_main"
  /\ reset_reason_print
  /\ AppUpdateVectorTable
  /\ stage' = "lowerstack"
  /\ UNCHANGED <<timeout_flag, cause, unread>>

-----------------------------------------------------------------------------
(* The ROM's lower stack, common_main and the drivers.                     *)

LowerstackInit ==
  /\ stage = "lowerstack"
  /\ RamVector' = [RamVector EXCEPT ![BTMAC_VECTORn] = "lowerstack"]
  /\ stage' = "common_main"
  /\ UNCHANGED <<reset_reason, timeout_flag, report, VTOR, cause, unread>>

\* The lower stack's handler is registered again, behind a wrapper; then the firmware
\* update over the air or rtk_main.
common_main ==
  /\ stage = "common_main"
  /\ stage' \in {"dfu", "app"}
  /\ UNCHANGED <<reset_reason, timeout_flag, report, vectors, cause, unread>>

\* RamVectorTableUpdate_ext: zb_mac_interrupt_enable, uart_init_internal
RegisterHandler(v) ==
  /\ stage = "app"
  /\ RamVector' = [RamVector EXCEPT ![v] = "driver"]
  /\ UNCHANGED <<stage, reset_reason, timeout_flag, report, VTOR, cause, unread>>

BootNext ==
  \/ PowerOn
  \/ \E reason \in Reasons : SystemReset(reason)
  \/ \E timeout \in WatchdogTimeouts : WatchdogReset(timeout)
  \/ ResetInDlps
  \/ system_init
  \/ pre_main
  \/ LowerstackInit
  \/ common_main
  \/ \E v \in Vectors : RegisterHandler(v)

BootSpec == BootInit /\ [][BootNext]_bootVars

-----------------------------------------------------------------------------
(* Properties.                                                             *)

TypeFor ==
  CASE cause = "power" -> "HW_RESET"
    [] cause = "DLPS" -> "AON_WDT_RESET_DLPS"
    [] cause \in WatchdogTimeouts -> cause
    [] OTHER -> "SYSTEM_RESET_REASON"

\* Once pre_main has run, the device knows why it was started, however resets follow
\* each other; only a watchdog that bites before the reason of the reset before was
\* read is taken for that one.
ReasonReported ==
  Started /\ ~unread =>
    /\ wdt_reset_type = TypeFor
    /\ sw_reset_reason = CASE cause = "power" -> "HW"
                           [] cause \in WatchdogTimeouts -> "WDT_TIMEOUT"
                           [] OTHER -> cause

\* No interrupt of the app ends in a handler that a driver registered before the last
\* reset, nor in one of the ROM where the app has its own, nor in the ROM's default
\* where the app has one.  A handler that the ROM brings stays under the app's default.
HandlersOfThisBoot ==
  Started => \A v \in Vectors :
    /\ RamVector[v] # "stale"
    /\ v \in AppVectors => RamVector[v] \in {"app", "lowerstack", "driver"}
    /\ v \notin UnusedVectors => RamVector[v] # "rom default"
=============================================================================
