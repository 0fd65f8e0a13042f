CONSTANTS
  EV_BUF_SIZE = 3
  Events = {TX_START, UART_RX}
  NONE = NONE
  Task = Task
  Interrupts = {isr, usb}
  MaxLevel = 2
SPECIFICATION FairSpec
INVARIANT NoLostWakeup
PROPERTIES ImplementsFifo HeadServed BackoffServed
