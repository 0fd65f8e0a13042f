-------------------------------- MODULE Uart --------------------------------
(***************************************************************************)
(* The serial transport, uart.c, in its three builds: the receive ring     *)
(* between interrupt and Thread task, and the blocking send, which in the  *)
(* USB build shares the pipe with the firmware-update task.                *)
(*                                                                         *)
(* Received bytes are numbered, modulo ByteNumbers, so that the order in   *)
(* which OpenThread gets them can be told.                                 *)
(***************************************************************************)
EXTENDS Integers

CONSTANTS
  kReceiveBufferSize,
  ByteNumbers,
  MaxBurst,      \* bound on the bytes one interrupt finds
  MaxPackets,    \* bound on the USB packets of one otPlatUartSend
  MaxEvents      \* bound on the events of one kind in the driver queue

ASSUME UartAssumption ==
  /\ kReceiveBufferSize \in Nat /\ kReceiveBufferSize > 1
  /\ ByteNumbers \in Nat /\ ByteNumbers >= 2 * kReceiveBufferSize
  /\ MaxBurst \in Nat \ {0} /\ MaxPackets \in Nat \ {0} /\ MaxEvents \in Nat \ {0}

Slots == 0 .. kReceiveBufferSize - 1

VARIABLES
  build,         \* "serial", "dlps" or "usb"
  rx_buffer, rx_tail, curr_rx_tail, rx_head,
  tail,          \* BEE_UartRx's copy of the tail
  rxEvents,      \* UART_RX events in the driver queue
  received,      \* the last byte received
  given,         \* the last byte OpenThread got
  overrun,       \* was the ring ever full?
  jumbled,       \* did OpenThread ever get a byte out of turn?
  task,          \* what the Thread task does
  packets,       \* what uart_send has left to send
  client,        \* does OpenThread wait for otPlatUartSendDone?
  sTransmitDone,
  txEvents,      \* UART_TX events in the driver queue
  usb_uart_ready,
  mutex,         \* who has uart_tx_mutex: "none", "task" or "dfu"
  sem,           \* uart_tx_sem
  inFlight,      \* whose transfer the hardware works on, or "refused": it did not
                 \* take the one that is waited for
  dfu,           \* the update task: "idle", "locked" or "waiting"
  leaked         \* did app_usb_send_dfu_data return with the mutex?

ring == <<rx_buffer, rx_tail, curr_rx_tail, received, overrun>>
rx == <<rx_head, tail, given, jumbled>>
tx == <<packets, client, sTransmitDone, txEvents>>
pipe == <<usb_uart_ready, mutex, sem, inFlight, dfu, leaked>>
vars == <<build, ring, rx, rxEvents, task, tx, pipe>>

Init ==
  /\ build \in {"serial", "dlps", "usb"}
  /\ rx_buffer = [i \in Slots |-> 0]
  /\ rx_tail = 0 /\ curr_rx_tail = 0 /\ rx_head = 0 /\ tail = 0
  /\ rxEvents = 0 /\ received = 0 /\ given = 0
  /\ overrun = FALSE /\ jumbled = FALSE
  /\ task = "idle"
  /\ packets = 0 /\ client = FALSE /\ sTransmitDone = FALSE /\ txEvents = 0
  /\ usb_uart_ready = FALSE
  /\ mutex = "none" /\ sem = 0 /\ inFlight = "none" /\ dfu = "idle" /\ leaked = FALSE

-----------------------------------------------------------------------------
(* Receiving: the interrupt.                                               *)

Distance(from, to) == (to - from) % kReceiveBufferSize

Advanced(n) == (rx_tail + n) % kReceiveBufferSize

\* n bytes go into the ring, whether there is room or not.
Store(n) ==
  /\ rx_buffer' = [i \in Slots |->
       IF \E j \in 0 .. n - 1 : i = (rx_tail + j) % kReceiveBufferSize
       THEN (received + 1 + Distance(rx_tail, i)) % ByteNumbers
       ELSE rx_buffer[i]]
  /\ rx_tail' = Advanced(n)
  /\ received' = (received + n) % ByteNumbers
  /\ overrun' = (overrun \/ Distance(rx_head, rx_tail) + n >= kReceiveBufferSize)

More(n) == IF n = MaxEvents THEN n ELSE n + 1

\* Bug to catch: the event is posted only for the first byte in an empty ring.
PublishIfEmpty ==
  /\ curr_rx_tail' = rx_tail'
  /\ rxEvents' = IF rx_head = curr_rx_tail THEN More(rxEvents) ELSE rxEvents

Publish ==
  /\ curr_rx_tail' = rx_tail'
  /\ rxEvents' = More(rxEvents)

\* OT_UARTIntHandler or CdcRecvDataCb, with data for the task.
ReceiveAndPublish(n) ==
  /\ n > 0 \/ (build = "serial" /\ curr_rx_tail # rx_tail)
  /\ Store(n)
  /\ Publish
  /\ UNCHANGED <<build, rx, task, tx, pipe>>

\* The FIFO's level is reached before the line is idle.
ReceiveOnly(n) ==
  /\ build = "serial"
  /\ n > 0
  /\ Store(n)
  /\ UNCHANGED <<build, curr_rx_tail, rx, rxEvents, task, tx, pipe>>

-----------------------------------------------------------------------------
(* Receiving: BEE_UartRx.                                                  *)

\* The event is consumed when its handler has run; one fewer, or still many.
Fewer(n) == IF n = MaxEvents THEN {n - 1, n} ELSE {n - 1}

BEE_UartRx ==
  /\ task = "idle"
  /\ rxEvents > 0
  /\ rxEvents' \in Fewer(rxEvents)
  /\ tail' = curr_rx_tail
  /\ task' = "rx"
  /\ UNCHANGED <<build, ring, rx_head, given, jumbled, tx, pipe>>

\* Where the chunk that starts at rx_head ends.
ChunkEnd == IF rx_head > tail THEN kReceiveBufferSize ELSE tail

InTurn == \A i \in rx_head .. ChunkEnd - 1 :
            rx_buffer[i] = (given + 1 + i - rx_head) % ByteNumbers

otPlatUartReceived ==
  /\ task = "rx"
  /\ rx_head # tail
  /\ given' = rx_buffer[ChunkEnd - 1]
  /\ jumbled' = (jumbled \/ ~InTurn)
  /\ task' = "received"
  /\ UNCHANGED <<build, ring, rx_head, tail, rxEvents, tx, pipe>>

\* Bug to catch: the head follows the tail of now.
HeadToTail == curr_rx_tail

NewHead == IF rx_head > tail THEN 0 ELSE tail

MoveHead ==
  /\ task = "received"
  /\ rx_head' = NewHead
  /\ task' = "rx"
  /\ UNCHANGED <<build, ring, tail, rxEvents, given, jumbled, tx, pipe>>

RxDone ==
  /\ task = "rx"
  /\ rx_head = tail
  /\ task' = "idle"
  /\ UNCHANGED <<build, ring, rx, rxEvents, tx, pipe>>

-----------------------------------------------------------------------------
(* Sending.                                                                *)

\* Bug to catch: nobody is told that the transmission is done.
TransmitDoneSilently ==
  /\ sTransmitDone' = TRUE
  /\ UNCHANGED txEvents
  /\ task' = "idle"

\* The end of otPlatUartSend in the USB build.
TransmitDone ==
  /\ sTransmitDone' = TRUE
  /\ txEvents' = More(txEvents)
  /\ task' = "idle"

\* usb_cdc_driver_data_pipe_send may refuse a buffer: the pipe is not open, or the
\* driver is out of buffers.  Nobody looks at its result.
StartTransfer(who) ==
  \/ inFlight' = who
  \/ build = "usb" /\ inFlight' = "refused"

\* In the DLPS build the task sends byte by byte and answers at once.
otPlatUartSend ==
  /\ task = "idle" /\ ~client
  /\ \/ /\ build = "serial"
        /\ client' = TRUE
        /\ inFlight' = "task"
        /\ task' = "sending"
        /\ UNCHANGED <<packets, sTransmitDone, txEvents>>
     \/ /\ build = "usb"
        /\ client' = TRUE
        /\ \/ ~usb_uart_ready /\ TransmitDone /\ UNCHANGED packets
           \/ /\ usb_uart_ready
              /\ packets' \in 1 .. MaxPackets
              /\ task' = "locking"
              /\ UNCHANGED <<sTransmitDone, txEvents>>
        /\ UNCHANGED inFlight
  /\ UNCHANGED <<build, ring, rx, rxEvents, usb_uart_ready, mutex, sem, dfu, leaked>>

TakeMutex ==
  /\ task = "locking"
  /\ mutex = "none"
  /\ mutex' = "task"
  /\ StartTransfer("task")
  /\ task' = "sending"
  /\ UNCHANGED <<build, ring, rx, rxEvents, tx, usb_uart_ready, sem, dfu, leaked>>

\* UART_TX_GDMA_Handler or CdcSendDataCb
TransferEnds ==
  /\ inFlight \in {"task", "dfu"}
  /\ inFlight' = "none"
  /\ sem' = 1
  /\ UNCHANGED <<build, ring, rx, rxEvents, task, tx, usb_uart_ready, mutex, dfu, leaked>>

\* Bug to catch: the mutex is given back with the first packet.
GivenEarly == "none"

MutexAfter == IF packets > 1 THEN "task" ELSE "none"

SemTaken ==
  /\ task = "sending"
  /\ sem = 1
  /\ sem' = 0
  /\ \/ /\ build = "serial"
        /\ client' = FALSE
        /\ task' = "idle"
        /\ UNCHANGED <<mutex, inFlight, packets, sTransmitDone, txEvents>>
     \/ /\ build = "usb"
        /\ packets' = packets - 1
        /\ mutex' = MutexAfter
        /\ \/ packets' > 0 /\ StartTransfer("task") /\ UNCHANGED <<task, sTransmitDone, txEvents>>
           \/ packets' = 0 /\ TransmitDone /\ UNCHANGED inFlight
        /\ UNCHANGED client
  /\ UNCHANGED <<build, ring, rx, rxEvents, usb_uart_ready, dfu, leaked>>

DoneFlagAfter == FALSE

BEE_UartTx ==
  /\ task = "idle"
  /\ txEvents > 0
  /\ txEvents' \in Fewer(txEvents)
  /\ sTransmitDone' = DoneFlagAfter
  /\ client' = (client /\ ~sTransmitDone)
  /\ UNCHANGED <<build, ring, rx, rxEvents, task, packets, pipe>>

SetControlLineStateCb ==
  /\ build = "usb"
  /\ usb_uart_ready' = ~usb_uart_ready
  /\ UNCHANGED <<build, ring, rx, rxEvents, task, tx, mutex, sem, inFlight, dfu, leaked>>

-----------------------------------------------------------------------------
(* app_usb_send_dfu_data, in the update task.                              *)

DfuTakeMutex ==
  /\ build = "usb"
  /\ dfu = "idle" /\ mutex = "none"
  /\ mutex' = "dfu"
  /\ dfu' = "locked"
  /\ UNCHANGED <<build, ring, rx, rxEvents, task, tx, usb_uart_ready, sem, inFlight, leaked>>

\* malloc succeeds, or the function returns as it is.
DfuSend ==
  /\ dfu = "locked"
  /\ \/ dfu' = "waiting" /\ StartTransfer("dfu") /\ UNCHANGED leaked
     \/ dfu' = "idle" /\ leaked' = TRUE /\ UNCHANGED inFlight
  /\ UNCHANGED <<build, ring, rx, rxEvents, task, tx, usb_uart_ready, mutex, sem>>

DfuSemTaken ==
  /\ dfu = "waiting"
  /\ sem = 1
  /\ sem' = 0
  /\ mutex' = "none"
  /\ dfu' = "idle"
  /\ UNCHANGED <<build, ring, rx, rxEvents, task, tx, usb_uart_ready, inFlight, leaked>>

UartRxStep == BEE_UartRx \/ otPlatUartReceived \/ MoveHead \/ RxDone
UartTxStep == TakeMutex \/ SemTaken \/ BEE_UartTx
DfuStep == DfuSend \/ DfuSemTaken

Next ==
  \/ \E n \in 0 .. MaxBurst : ReceiveAndPublish(n) \/ ReceiveOnly(n)
  \/ UartRxStep
  \/ otPlatUartSend
  \/ UartTxStep
  \/ TransferEnds
  \/ SetControlLineStateCb
  \/ DfuTakeMutex
  \/ DfuStep

Spec == Init /\ [][Next]_vars

\* The Thread task serves the events of its queue in turn, the mutex is given to
\* who waits for it, and a line is idle now and then.  A transfer that was taken
\* ends by itself on a serial line, and on USB if the host is there to read it.
Fairness ==
  /\ WF_vars(UartRxStep)
  /\ SF_vars(BEE_UartRx) /\ SF_vars(BEE_UartTx)
  /\ SF_vars(TakeMutex) /\ WF_vars(SemTaken)
  /\ WF_vars((build = "usb" => usb_uart_ready) /\ TransferEnds)
  /\ WF_vars(DfuStep)
  /\ WF_vars(build = "serial" /\ ReceiveAndPublish(0))

FairSpec == Spec /\ Fairness

-----------------------------------------------------------------------------
(* Properties.                                                             *)

\* Until the ring is first full, OpenThread gets every byte once and in order,
\* and what it has not got is in the ring, whenever interrupts come.
BytesInOrder ==
  ~overrun =>
    /\ ~jumbled
    /\ task # "received" =>
         (received - given) % ByteNumbers = Distance(rx_head, rx_tail)

\* The semaphore is given for the transfer of the one who waits for it, and two
\* transfers are never under way at once.
SemaphoreOfSender ==
  /\ (sem = 1 \/ inFlight # "none") <=> (task = "sending" \/ dfu = "waiting")
  /\ ~(sem = 1 /\ inFlight # "none")
  /\ ~(task = "sending" /\ dfu = "waiting")
  /\ inFlight = "dfu" => dfu = "waiting"
  /\ inFlight = "task" => task = "sending"

\* A sender waits without a limit: for a transfer that was never taken, for a host
\* that left after uart_send had looked at usb_uart_ready, or for a mutex that will
\* not be given back.
SenderStuck ==
  \/ leaked
  \/ inFlight = "refused"
  \/ build = "usb" /\ inFlight # "none" /\ ~usb_uart_ready

\* Every byte reaches OpenThread, unless the ring overruns, or the Thread task waits
\* to send (SenderStuck).
BytesDelivered ==
  \A b \in 0 .. ByteNumbers - 1 :
    given = b /\ received # b ~> given # b \/ overrun \/ SenderStuck

\* Every send is answered, at once while the host is away, and otherwise when the
\* transfers have ended; unless one of them, of this task or of the update task,
\* finds what SenderStuck says.  A host that left and comes back to stay, which ends
\* its part in SenderStuck, gets the rest, and the send its answer.
SendAnswered == client ~> (~client \/ SenderStuck)
=============================================================================
