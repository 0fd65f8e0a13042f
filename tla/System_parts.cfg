CONSTANTS
  Blocks = 5
  DestBlocks = 6
  Skipped = 1
  PacketNumbers = 4
  Retries = 2
  MAXRETRANS = 2
  MaxPowerLosses = 2
  Reasons = {"SW_RESET_APP_END", "SWITCH"}
  Vectors = {"HardFault", "SVC", "SysTick", "BTMAC", "UART"}
  AppVectors = {"HardFault"}
  UnusedVectors = {"SVC"}
  RomVectors = {"HardFault", "SVC", "SysTick"}
  BTMAC_VECTORn = "BTMAC"
  Peripherals = {0, 1, 2}
  Pins = {10, 11}
  Lengths = {0, 1, 2, 3, 4, 5, 6, 7, 8, 9, 10, 11, 12, 13, 14, 15, 16, 17, 18, 19, 20, 21, 22, 23}
  Chars = {0, 1, 128, 255}
  SizeWidth = 16
SPECIFICATION SystemSpec
INVARIANTS FlashInOrder AppIsWhole ReasonReported HandlersOfThisBoot MemoryAsC
PROPERTIES ReceiveEnds InterruptsServed
CHECK_DEADLOCK FALSE
