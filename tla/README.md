# A TLA+ model of the OpenThread platform for RTL87x2G

This directory holds TLA+ modules that model the platform layer in `src/src`
(the driver loop, the radio, the alarms, the clock, sleep, the UART, the firmware
update and the start of the device), TLC configurations that check them on small
instances, and proofs for TLAPS of their safety properties, for all sizes.
`PROJECT.json` lists components, runs, mutants, findings, hazards and theorems,
and maps every definition to the lines it models.

The configuration modelled is the RTL87x2G one: `MAX_PAN_NUM` 1,
`TX_BACKOFF_USE_US_ALARM`, `TRANSMIT_RETRIES_EN`, CSL receiver and link metrics
subject enabled, sleep as in the DLPS builds. Line numbers below are those of
`src/src/radio.c`, unless another file is named.

## 1. The system

OpenThread runs in one RTOS task, the Thread task. Below it, interrupt handlers
of the 802.15.4 MAC, of the BT clock's compare units and of UART or USB, timer
callbacks, the power manager's callbacks and, in the USB dongle, other tasks
work on the same variables. There are few locks: most variables are shared by a
task that may be interrupted anywhere and handlers that are not interrupted by it.

| Component | State | Operations | Correct if |
|---|---|---|---|
| Event ring and main loop (`system.c`, `thread_task.c`, `misc.c`) | `ev_item` (ring, head, tail), `tx_backoff_tmo`, the task's notification, `gPlatformPseudoResetLevel` | `BEE_EventSend`, `otSysEventSignalPending`, `otSysProcessDrivers`, pseudo reset | no wake-up is lost; events are handled once and in order |
| Transmit (`radio.c`) | `sState`, `sTransmitFrame`, two retry counters, `tx_backoff_pending`, `tx_result`, `radio_done`, `ack_receive_done` | `otPlatRadioTransmit`, `BEE_RadioTxStart`, `BEE_RadioTx`, energy scan, `otPlatRadioGetRssi`, interrupts | every frame is answered, once; a semaphore or an ack is taken for the operation it belongs to |
| Alarms and backoff (`alarm.c`, `radio.c`) | `micro_alarm_us`, `milli_alarm_us`, `tx_backoff_pending`, compare values of `MAC_BT_TIMER0/1` | start, stop, event, interrupt | what is armed has an interrupt or an event in time |
| Receive and acks (`radio.c`) | `rx_queue`, `sEnhAckPsdu`, `sMacFrameCounter`, the ack protection timer | `rxely_handler`, `rxdone_handler`, `mac_report_enhack_transmit_done`, `BEE_RadioRx`, `readFrame`, `setChannel` | frames are delivered once and in order; an ack answers its frame and its counter is its nonce's |
| Ack layout (`radio.c`, `mac_802154_frame_parser.c`) | bytes of `sEnhAckPsdu`, `sCslIeIndex`, `sVendorIeIndex` | `generate_ieee_enhack_frame`, `BEE_tx_ack_started`, the parser | the parser finds what the generator wrote; content goes where its element is |
| Keys (`radio.c`) | `sKeyId` and three keys, `sMacFrameCounter`, the MAC's nonce and key registers | `otPlatRadioSetMacKey`, `otPlatRadioSetMacFrameCounter`, `txProcessSecurity` in the task, `txAckProcessSecurity` in the interrupt | what is secured can be decrypted by what its header says; a counter is used for one nonce |
| Source match (`radio.c`) | `sPanid`, the MAC's table | enter, delete, clear, PAN id | the table is what OpenThread was told |
| Clock and CSL (`radio.c`, `alarm.c`) | `bt_clk_offset`, the counter, `sCslSampleTime` | `otPlatTimeGet`, the exit callbacks of sleep, `readFrame`, `getCslPhase` | times are exact through wraps and sleeps |
| Sleep (`radio.c`, `alarm.c`, `main_ns.c`) | `sStayAwake`, the power manager's adapter, `app_wakeup_reason` | `BEE_SleepProcess`, `mac_report_pm_check_result`, `mac_report_pm_wakeup`, `BEE_WakeupProcess` | no alarm is slept through; the device is not left awake for nothing, nor put to sleep in a transmission |
| Transport (`uart.c`) | `rx_buffer` and its indices, `uart_tx_sem`, `uart_tx_mutex`, `sTransmitDone` | interrupt or USB callback, `BEE_UartRx`, `otPlatUartSend`, `BEE_UartTx`, `app_usb_send_dfu_data` | bytes in order, once; every send is answered |
| Firmware update (`xmodem.c`, `system.c`, `main_ns.c`) | the boot flag in FTL, the flash bank, packet number, retry counters | `ProcessFirmwareUpdate`, `xmodemReceive` | the app is started only from a whole image |
| Start (`system_rtl.c`) | the reset reason's register, watchdog flags, `sw_reset_reason`, `wdt_reset_type`, the vector table in RAM | `system_init`, `pre_main`, `common_main`, resets | the reason of the last reset is known; no handler of an earlier run is called |
| Shared interrupt lines (`system_rtl.c`) | status and mask registers | `Peripheral_Handler`, `GPIOA_Handler`, `GPIOB_Handler` | every interrupt gets its handler run |
| `memcpy`, `memset` (`zb_main.c`) | none | the two | what the C standard says, for every alignment |

They interact through the event ring (alarms, backoff, receive ring, UART and
energy scan post to it and are called by the loop), through `MAC_BT_TIMER1`
(microsecond alarm and backoff), through `radio_done` (transmission and energy
detection), through `sEnhAckPsdu` (all received frames), through
`sMacFrameCounter` and the MAC's one nonce register (frames and acks), through
`bt_clk_offset` (every time) and through `sStayAwake` (everything that must keep
the radio awake).

What makes them hard: interrupts between any two accesses of the task; single
shared objects (a timer, a semaphore, an ack buffer, a byte of bits) that serve
several users; rings without a full test; counters compared with `==`; alarms
that are cleared, moved or slept through while their event is in the queue;
power failures in the update. `PROJECT.json` "hazards" has each at its line.

Not modelled:

- `flash.c` (address arithmetic and driver calls); the swap itself is OpenThread's.
- The second PAN (`zb*` twins), which other chips have.
- Entropy, diagnostics, logging, crypto glue (no state), `dbg_printf.c` (a copy
  of a public printf implementation), the NCP vendor hook (property getters and
  setters), the getters of `mac_frame_add.cpp`.
- Settings that one call writes and the MAC takes over: channel, power, promiscuous.
- The DLPS flag of the UART (`zb_main.c:150-203`): a wake-up by the pin forbids
  sleep until a byte is delivered or sent. `app_dlps_check_cb` overwrites the
  result of `matter_gpio_dlps_check` with that of the UART. What a device owes
  after a wake-up without a byte is not said anywhere.
- Register set-up in the start-up code; the USB device's enumeration.
- `otPlatGetResetReason` (`misc.c:63`): it returns one constant ("TODO: Write me!")
  and does not look at `sw_reset_reason`.

## 2. Modules

Each component has a module with its actions, an `MC` module for TLC, where
proofs exist a `_proof` module (`Parts_proof` for the smaller components), and where
the promise can be said simply an abstract module that the component implements.

| Module | Models | Relation to the code |
|---|---|---|
| `EventQueue` | ring, polled work, notification, pseudo reset | Posting and waking are two steps of a poster. The loop goes through `otSysProcessDrivers` part by part; a handler runs while its event is still in the slot at `ev_head`. |
| `EventFifo` | what the ring promises | A FIFO that loses everything it holds when one event too many is posted. |
| `RadioTx` | transmit, backoff as a flag, energy detection | A frame on its way is a token in one of four places: `tx_backoff_tmo`, `tx_backoff_pending`, a `TX_START` event, the radio. The client waits for the answer or gives up. ACK frames arrive at any time. |
| `TxService` | what the transmit path promises | One answer to each transmission, which is the truth about the ack of the frame's last attempt, up to acks that come at the wrong time, each of which may pass for one frame's. Retries, backoff, tokens and semaphore are not in it. |
| `AlarmBackoff` | microsecond alarm and backoff on one timer | Times are ticks left; -1 has passed; `Off` is the code's 0. |
| `RadioRx` | receive ring, enhanced acks, frame counter, protection timer | One step per interrupt handler; `readFrame` and delivery are steps of the task; the task's `sMacFrameCounter++` is a load and a store. |
| `FrameFifo` | what the receive ring promises | A FIFO whose oldest frame is lent while OpenThread looks at it. |
| `RingLemmas` | modulo arithmetic of rings | Used by both refinement proofs and by `Uart_proof`. |
| `FrameParser` | `mac_802154_frame_parser.c` | One operator per offset function, over a record of the header's bits. The file's functions are part of the platform's interface and are not called elsewhere in this repository. |
| `AckFrame` | the bytes of an enhanced ack | A byte is the name of its field. The task may switch CSL and probing between the header and the end of a frame. |
| `MacKeys` | keys, frame counter, securing of frames and acks | A key is named by its key sequence. Securing a frame takes the task four steps, with acks between any two; a retry starts at the third. An ack takes one interrupt, or two if it is held back for probing. |
| `SrcMatch` | the source match table | The MAC's table is external: a set with a size. `told` is what OpenThread was answered. |
| `BtClock` | time, timestamps, CSL phase | Sleep is an interval with no interrupt of the counter's wrap, after which the exit callback compares two counter values. |
| `Sleep` | both alarms, `BEE_SleepProcess` and all its callers, wake-up | The power manager is external: it may sleep the MAC when the code allows and wakes it at `wakeup_time_us`, or for a button at any time. |
| `StayAwake` | every write of the `sStayAwake` byte | A task's write is a load and a store; an interrupt's is one step. Acks of both kinds start in time or late, end, and are reported, if they are, before or after their timer; the timer may be missing. |
| `Xmodem` | update receiver, boot flag, power losses | Sender and line are external: the line damages, loses and makes up; the sender repeats and cancels. A packet without its start byte is read byte by byte, and each byte may be any command. |
| `Boot` | start and resets | A stage for each piece of code that has the CPU. A vector holds the name of who brought its handler; what a driver registered is "stale" after a reset. |
| `Interrupts` | handlers of shared lines | Reading, each call and clearing are steps, between which sources are raised and masked. |
| `MemOps` | `memcpy`, `memset` | The result of a call is a set of stores of one byte or four. No steps: every call is an initial state. |
| `Uart` | receive ring and blocking send in three builds | Received bytes are numbered modulo `ByteNumbers`. The build is chosen in `Init`. |

Small components that share no variable are checked in one run each for the radio
and for the system code: `MCRadioParts` has `AckFrame`, `MacKeys`, `SrcMatch`,
`BtClock` and `StayAwake`, `MCSystem` has `Xmodem`, `Boot`, `Interrupts` and `MemOps`. A variable
`part`, chosen at the start, says which of them moves; the others stay as they
began, so the states are the sum of the parts' and not their product.

The definitions marked "Bug to catch" change one definition the way a plausible
bug would; each property of a passing run has one that it finds. No behaviour of
the modules uses them.

## 3. Runs

| Run | Asks | Bounds | Distinct states |
|---|---|---|---|
| `EventQueue_serve` | Is a wake-up ever lost, does the ring implement its FIFO, is what is posted served? | 3 slots, 2 event codes, 2 posters beside the task, reset level 2 | 84,554 |
| `RadioTx_client` | One token per frame, the semaphore for the right operation, does the path implement its service, an answer | both limits 2, the client gives up once | 666,002 |
| `AlarmBackoff_timer` | Do alarm and backoff come, one at a time? | delays to 5, schedule advance 2, 2 queued alarms | 1,404 |
| `AlarmBackoff_lost` | ... and together? (violated) | delays to 3 | - |
| `RadioRx_ring` | Does the ring implement its FIFO, do delivery and `setChannel` come through? | 3 slots, 2 kinds of frame | 34,248 |
| `RadioRx_acks` | Is each ack the one for its frame, with its counter? | 2 slots, 3 kinds of frame, counter of 2 values, probing | 2,191,184 |
| `RadioRx_info` | Is each frame described with its own ack? (violated) | as above, 3 slots, no probing | - |
| `Radio_parts` | Do parsers and generator agree, can what is secured be decrypted, is the table as told, are times exact, is the radio kept awake only while the ack's timer runs? | all headers; key ids modulo 4, 3 key sequences, counter to 2; 2 short and 2 extended addresses, 2 PAN ids, table of 3; clock counter 6, 32 bits stood for by modulo 8, CSL periods 3 and 4, time to 16 | 2,552,054 |
| `Sleep_alarms` | Is an alarm slept through, or the device left awake? | delays to 3, advance 1, minimum sleep 2, slack 1, longest wake-up time 2 | 102,574 |
| `StayAwake_torn` | Can the radio be put to sleep with an ack on its way? (violated) | none | - |
| `System_parts` | Is a broken image ever started, is the reset's reason known, are interrupts served and bytes stored? | image of 5 blocks and a skipped one, packet numbers modulo 4, 2 tries, 2 retransmissions, 2 power losses; 2 software reset reasons, 5 vectors; 3 peripherals, 2 pins; lengths 0 to 23 with every alignment, 4 chars | 51,447 |
| `Uart_transport` | Bytes in order, semaphore for the right sender, answers | ring of 4, bursts of 2, 2 USB packets, byte numbers modulo 8 | 77,015 |

Why the bounds are enough. Rings of three slots have an empty, a wrapped and an
overflowing state with a slot in use; the proofs cover every size. Retry limits
of 2 let a counter be below, at and past its limit, and both counters mix. The
delays of `AlarmBackoff` reach past twice the schedule advance, so alarm and
backoff come in either order, too close, and already past. In `Sleep` the
longest wake-up time is below the longest delay and an alarm may be nearer than
the minimum sleep, so each of cap, minimum and slack decides in some state. The image of
`Xmodem` is longer than a packet number, so numbers repeat. `ByteNumbers` is
twice the ring, so a byte a whole ring off is told from the right one. The frame
kinds of `RadioRx` are those that take different branches: no ack, enhanced ack
with and without security and source match, immediate ack. The key sequences of
`MacKeys` go past the number of ids, so ids wrap; the table of `SrcMatch` is
smaller than the number of addresses; the time of `BtClock` lasts for several
wraps of the counter and of the 32 bits, which one period divides and another
does not. `MemOps` tries lengths past the limit of `memset` with every alignment.

Deadlock is checked in every run but `System_parts`, where the device really
stops, and a call of `memcpy` has no steps. `_inbyte` (`xmodem.c:128`) returns 0 when it
times out and never a negative value, so `flushinput` (`xmodem.c:154`) reads for ever once a transfer
has been given up. The code behind it (sending CAN or NAK, the error returns) is
never reached. `ReceiveEnds` says that the tries end, in a reset or there.

### What the properties say

*Event ring.* `NoLostWakeup`: the task is not blocked on posted work without a
notification there or its poster about to give it. `ImplementsFifo`: the ring
refines `EventFifo`. `HeadServed`, `BackoffServed`: what is posted is served;
`tx_backoff_tmo` only if the inner loop ends now and then, as it is looked at
once per driver call, before a loop that runs as long as events come.

*Transmit.* `OneStartToken` (until the client first gives up, its frame is in
exactly one of the four places; each time it gives up leaves at most one token
more), `NeverForgotten` (also after that it is in at least one),
`SemaphoreOfOperation`, `ImplementsService`, and `TransmitAnswered`: unless attempts
fail for ever in the ways `BEE_RadioTx` does not count (`TX_TERMED`, `TX_PTA_FAIL`, `TX_NO_ACK` of a frame without ack
request). After giving up, by `otPlatRadioDisable` or a pseudo reset, the old
token is still there and starts the next frame early: that is why the first
property only bounds the tokens from the first abort on.

`ImplementsService`: the transmit path refines `TxService`. The refinement maps
the frame on the air to acknowledged while the radio has received its ack and the
task is still blocked (`Acked`). A frame that asks for an ack is answered as sent,
with the ack, if its last attempt was acknowledged; one that asks for none is never
answered with an ack; no acknowledged attempt is tried again; `NO_ACK` is said of a
frame that asks for an ack or missed its time. Until the client gives up an answer
comes only while it waits, so it is the only one to its transmission.

`rxdone_handler` sets `ack_receive_done` for every ACK frame, whatever the task does
(2808): the ack of an attempt that the radio then reports as failed, one that comes
too late, one that answers nothing. The flag stays until a frame that asks for an ack
is through (1870), and this frame is answered as sent although nobody may have
received it. That is what the code does, so the service allows it, and says how far it
goes: a stray ack (`strayAck`) serves one frame and no more, several attempts and
several frames later, and an ack that was used is never used again. The mutant that
keeps the flag after its use breaks exactly this.

*Alarm and backoff.* `SerialScheduled` holds until both are first in use at the
same time; `BackoffEnds` if that never happens, or if somebody sets the timer now
and then. `ScheduledOrFired` without these conditions is the finding below.

*Receive.* `ImplementsFifo`, `HeadDelivered` (also while the task waits in
`setChannel` for the end of an ack), `AckForThisFrame`, `AckCounterIsNonce` (of
acks sent at once: an ack held back for probing takes its nonce later than its
header and may differ, as the code does it: see *Keys*).

*Byte of bits.* `AwakeHasTimer`: `waitAckTxDone` is set only while the protection
timer runs, which clears it, so a lost report does not keep the radio awake. The bit
is in a byte that the task writes as a load and a store. Excepted are a bit that such
a store put back after the end of the ack (`restored`), and a device on which
`mac_SoftwareTimer_Alloc` found no timer (422, 472): there only the next ack or
report clears it.

*Ack layout.* `ParsersAgree`: the offset functions and `mhr_parse` find the same
fields. `AckParses`: PAN id, address, security header
and information elements of an ack are where the parser looks, and phase, period
and link metrics go into their elements. Excepted are: acks without a
destination address, where the generator writes a PAN id exactly when the parser
expects none (2446); key id modes other than 1, as the security header is always
six bytes (2723); and CSL switched on while an ack is pending for probing, when
`sCslIeIndex` is 0 and phase and period go over sequence number, PAN id and
address (2078, `cslCameLate`). The last is a real sequence of the code. The vendor
element is laid out while any neighbour probes and filled only for those that
do; others get what an earlier ack left there (`old` in the model).
`mac_802154_frame_parser.h:307` says that the source PAN id is zero "or is
compressed"; the function returns the destination's (`.c:403`).

*Sleep.* `AlarmServed`: while the MAC is up, an armed alarm has its event or an
interrupt in time. `WakesInTime`: asleep, the wake-up is no later than the alarm,
for the millisecond alarm plus the slack the code allows. `AwakeForAlarm`:
`ZBMAC_ACTIVE` only for an alarm armed or on its way. `AlarmFires`.

*Keys.* `FrameUnderstood`: a frame is encrypted with the key and the counter its
header names. Two exceptions, which the code has: a retry after
`otPlatRadioSetMacKey` takes the new key under the old id (2233 against 1117), and
an ack that the interrupt secures between `mac_LoadNonce` and `mac_TrigUpperEnc`
leaves its nonce in the MAC's register (2247). `AckUnderstood`: an ack to a
neighbour at most one key away has this neighbour's key and the nonce of its
header. Two exceptions: where key ids wrap, 128 to 1, the code finds no key and
sends the ack with what was in the MAC (550); and an ack that is held back for
probing has its counter written into the header in one interrupt (2712) and taken
for the nonce in a later one (2841, 570), so if the task increments or sets the
counter in between, nobody can decrypt it (`moved`). `CounterUsedOnce`: no counter
is used for two frames since it was last set, but in four cases that the code has:
an ack secured between load and store of the task's `sMacFrameCounter++` (1120); a
frame that an ack overtook (2247), which is encrypted with the ack's nonce; an ack
for which there is no key (550), which goes out with whatever nonce was left; and a
retry of a frame whose counter was taken before `otPlatRadioSetMacFrameCounter`.
The history `excused` holds the counters used so: any other frame that met a used
counter would set `repeated`.

*Source match.* `TableAsTold`: a child OpenThread was told is in the table is
matched, unless the PAN id changed; and without such a change the table holds
nothing else. After one, entries stay that nobody can delete but all at once.

*Clock.* `TimeExact`: `otPlatTimeGet` is the time since power-on, but between a
wrap and its interrupt. `TimestampExact`: unless the counter wrapped before the
frame was read (2146). `CslPhaseExact`: unless the 32-bit time wrapped before the
sample time and the period does not divide 2^32 (2049). A transmission time whose
lower 32 bits are 0 is taken for "now".

*Start.* `ReasonReported`: unless a watchdog bites before `pre_main` has read the
reason of the reset before. `HandlersOfThisBoot`.

*Interrupts.* `InterruptsServed`: the handler of every source that stays enabled
runs, however often higher bits come again. Excepted are those that
`Peripheral_Handler` clears unseen in its last line (`system_rtl.c:1004`): masked
sources, and sources raised again after their handler ran. Handlers that clear
their own source first and are level-triggered raise the bit again, so whether an
interrupt is lost there depends on the peripheral.

*Memory.* `MemoryAsC`: each byte once, in aligned words. Excepted is `memset` with a
`char` below zero, whose words get 0xff in their upper bytes (`zb_main.c:401`).

*Transport.* `BytesInOrder` (until the ring is first full), `SemaphoreOfSender`,
`BytesDelivered`, `SendAnswered`. Excepted are an overrun, which the code does not
notice (`uart.c:951`), and a sender that waits without a limit (`SenderStuck`):
for a transfer that the USB driver refused, as nobody looks at the result of
`usb_cdc_driver_data_pipe_send` (`uart.c:555`, 563, 599); for a host that left after
`uart_send` had looked at `usb_uart_ready` (545), until it comes back to stay; and
for the mutex after `app_usb_send_dfu_data` returned with it because `malloc` failed
(594). In each the Thread task is blocked, and with it everything else it does.

*Update.* `FlashInOrder`, `ReceiveEnds`, and `AppIsWhole`: power losses, damage,
repeats and noise never start an app that is partly erased. Two exceptions (`misled`):
the bytes of a packet whose start byte was lost are read as commands
(`xmodem.c:198`), so the undamaged number of block 4 is EOT, upon which the receiver
acknowledges, saves the flag 0 and resets into what is in the flash; and `main` takes
a flag that FTL fails to load for 0 and saves that (`main_ns.c:306`), also in the
middle of an update.

Type invariants are not checked by TLC but proved, where there is a proof.

### Findings

- `AlarmBackoff_lost`, `ScheduledOrFired`: with alarm and backoff in use at once,
  each may leave the timer to the other and neither programs it (`alarm.c:154`
  against the comment at `alarm.c:120-121`). Both then wait until something else
  sets the timer.
- `RadioRx_info`, `AckInfoOfThisFrame`: `readFrame` describes a frame from
  `sEnhAckPsdu`, which may hold the ack of a later frame (2157 against the comment
  at 2148). For frames of older versions the pending bit is read and cleared
  from the MAC's status of the moment (2163) in the same way.
- `StayAwake_torn`, `NoSleepInAck`: the task's write of one bit of `sStayAwake`
  (1775, and six more places) undoes the bit an interrupt set since its load (185).

## 4. Fairness

- *Event ring:* strong fairness of the task's steps, since its own posts come
  between them; weak of a poster's signal. The scheduler runs the task and its
  handlers return.
- *Transmit:* strong for serving the flag and the queue (that is `BackoffServed`
  and `HeadServed` of the ring), weak for the task after `radio_done` and for the
  interrupt that ends what the radio was given. None for ACK frames.
- *Alarm and backoff, Sleep:* time passes, a compare value that is reached
  interrupts, a queued event is handled, the power manager wakes the MAC at the
  time it was given. No fairness for OpenThread's calls or for going to sleep.
- *Receive:* strong for looking at the ring and for the end of delivery; strong
  for `setChannel`'s poll, which loops far faster than frames arrive and so sees
  the moments between acks; weak for timer and `readFrame`. None for the air.
- *Transport:* strong for `UART_RX` and `UART_TX` (the ring) and for the mutex
  (the RTOS serves waiters in turn); weak for the end of a transfer that was taken,
  on USB while the host is there, and for
  the idle line, which makes the UART publish what it has received.
- *Interrupts:* weak for the handler of a line that interrupts. None for sources.
- *Update:* weak for the device only. Sender and line owe nothing: `_inbyte`
  times out.

## 5. Proofs

Constants are arbitrary up to the `ASSUME` of each module: sizes not zero,
`NONE` not an event, bounds natural numbers. All theorems are `Spec => []P` or
`Spec => Abstract`, from `Init` and the step lemma of an inductive invariant,
with one proof step per action; two, *InfoInTime* and *AwakeForWholeAck*, are about
the specification without the steps that a finding rests on.

- `EventQueue_proof`. *TypeCorrect.* *NeverSleepsOnWork* needs `WakeInv`: from
  the moment the loop has passed the place where some work is looked for, that
  work has a wake-up coming, which must survive until the next `take`.
  *OnlyPostedEvents*, *Refines*: `EventInv` says that the slots in use and the
  one being handled hold posted events; then every post is `EventFifo`'s push or
  its loss, by the lemmas of `RingLemmas` on indices modulo the size.
- `RadioTx_proof`. *SemaphoreMatches* and *AckMatches* (`AckOfThisAttempt`: a flagged
  ack is that of the attempt on the air or a stray one that was not used yet):
  `RadioInv` adds that an ack flagged when the radio is done goes with `TX_WAIT_ACK`
  or is stray. *NeverLost* and *LimitsHold* need each other: a retry
  keeps the token only because the counter is below the limit (`WaitInv`).
  *OneToken* and *LeavesTransmit*: `StrictInv`, kept until the first abort; *OneToken*
  also `TokensLeft`, an inequality between tokens and aborts that each step keeps:
  an abort adds one to both sides, an attempt takes its own token and puts back at
  most one (`OthersLeft`). *RefinesService* needs besides these `AnswerInv`: an
  ack that came for the attempt on the air is flagged, `TX_OK` is a result
  only of frames that ask for no ack, and a frame that asks for none has counted
  no retry, which is why its transmission ends with `NO_ACK` only for want of time.
  `AnswerOrRetry` then goes through the cases of `BEE_RadioTx`: each is an answer of
  the service or a stutter; `TokenDue` says that whoever is answered waits.
- `AlarmBackoff_proof`. *AlarmScheduled*, *BackoffHasTimer*: `Scheduled` holds
  until `overlapped`; it adds that a pending backoff has the timer to itself
  (`Alone`) and that at most one start is under way (`OneBackoff`).
- `RadioRx_proof`. *CounterMatches*, inductive by itself as an
  interrupt handler is one step; *AckMatches* with `AckInv`: an ack held back for
  probing belongs to the frame on the air; *Refines* with `FrameInv`: waiting slots
  and the lent one hold received frames. *InfoInTime* bounds the finding
  `RadioRx_info`: it is about behaviours in which no header arrives while an
  earlier frame waits to be read (`ReadInTime`), and says that there a frame with
  an enhanced ack is described with its own. `InfoInv` follows the waiting frames
  as the FIFO sees them: at most one is not read yet, and `sEnhAckPsdu` answers it.
  Frames of older versions are not in the theorem: they read the MAC's status, and
  leave in their slot whether an earlier ack was secured.
- `Sleep_proof`. `SleepInv` is `TypeOK`, the three properties and `WakeSet`: while
  the MAC is up, the wake-up time given to the power manager suits every alarm
  but those whose time has come, and these have an interrupt that keeps it up. *NoAlarmLost*, *NeverOversleeps*, *AwakeForReason* follow.
- `Uart_proof`. *UartTypeCorrect*. *SemaphoreRight* needs `MutexInv`: who has the
  mutex in each state of the two senders, and that a sender has a packet left.
  *InOrder* needs `BytesInv`: while OpenThread looks at a chunk the head counts as
  where it will be (`Front`), every slot from there to `rx_tail` holds the byte
  of its distance, and the snapshot is no further than what is published. A burst
  (`StoreHolds`) and a chunk (`ChunkInTurn`) have lemmas of their own, on distances
  round the ring and numbers modulo `ByteNumbers`.
- `Parts_proof`, the smaller components.
  *Keys:* `KeysInv` says that key id and keys are those of one sequence, that the
  task's frame has the current id unless keys were switched, that its counter
  stays in the registers unless an ack came, that an ack that is held back has the
  counter of now unless the task wrote it (`HeldInv`), and that every nonce used
  without an exception is below the counter, or below what the task will store, while
  the frame's own was used for this frame only (`CounterInv`). *KeysInvHolds*;
  *HeadersTell*, *AcksDecrypted* and *NoncesDiffer* follow; the arithmetic of ids is in lemmas of its own.
  *Source match:* *TableTold*, inductive with the form of entries; a finite table
  is not needed. *Clock:* *TimeIsExact* needs that a sleep is at most half the
  counter's range, so that one comparison tells whether it wrapped;
  *TimestampsExact* that a frame's counter value belongs to the present range
  unless it wrapped; *CslPhaseRight* is arithmetic modulo period and width.
  *Update:* *UpdateTypeCorrect*, and *BlocksInPlace* from an invariant that ties
  packet number, length and sender together: an accepted block is the next one or
  the last, as packet numbers repeat only after more than two. *AppWhole* adds
  what the flash is while the flag is set, or the device was misled.
  *Byte of bits:* *AwakeForTx*: an interrupt works on the byte in memory, which has
  `waitTxDone` from the task's store until the task goes on (`TxBit`), so a
  transmission is safe where an ack is not (finding above). *AwakeForWholeAck* bounds
  that finding: of behaviours in which no ack starts between a load and a store
  (`AckNotTorn`) it proves `NoSleepInAck`, since a task that loads the byte later
  loads and stores the ack's bit with it (`AckBit`). *TimerEndsAwake*: `AwakeHasTimer`
  is inductive by itself. *Start:* *ReasonsReported* and
  *HandlersFresh* relate register, flags and table to the cause of the last reset
  in each stage. *Memory:* *MemoryRight* holds of every initial state.
  *Ack layout:* *ParsersAlike* is an instance of `ParsersAgreeOn`: for every header
  of the standard, offset functions and `mhr_parse` find the same fields, by cases
  over reserved and absent addresses. *AckUnderstandable*: every ack is a header
  with, behind it, the elements that were on when its frame came (`Laid`), and the
  two indices point at them (`AckInv`); content replaces content
  (`PhaseFilled`, `MetricsFilled`) unless CSL came late, which `AckInv` leaves out.
  `LaidBytes` names the byte at each place of such an ack and `AckOffsets` the place
  at which the parser looks for each field: they agree.

Every safety property of the passing runs is a theorem. Only model-checked: all
liveness properties (fairness and ENABLED are beyond the prover), among them the
one of `Interrupts`, `InterruptsServed`, whose module has no other.

## 6. Assumptions, and what is left out

- *OpenThread* waits for `otPlatRadioTxDone` before it transmits again, asks
  `otPlatRadioGetState`, and answers an alarm that fired with a new start or a stop.
- *Event ring.* That an overflow loses everything is in `EventFifo`; the other
  modules assume that their own events are not lost by it.
- *Transmit.* A stray ack also overwrites `ack_item`, which OpenThread gets with the
  answer: its content is not modelled. Retries, CSMA parameters and channel are data.
- *Receive.* `readFrame` is one step. The two halves of the task's increment may
  undo an ack's increment (see `MacKeys`). `otPlatRadioSetMacFrameCounterIfLarget` is misspelt in the code, so
  OpenThread does not call it, and it is left out. The MAC's source match status
  stays set until it is cleared, and a damaged frame drops its pending ack: both
  are inferred from how `radio.c` uses the MAC.
- *Sleep.* A backoff runs only while `rxOnWhenIdle` keeps the radio awake (973),
  and is left out. That compare values do not survive sleep is inferred from
  `zbpm_exit_pan0` and `mac_report_pm_wakeup`, which set and report everything
  again. `EXTRA_PROTECTION_EN` is tested with `#ifdef`, so the value 0 enables it.
  After a timed wake-up `app_wakeup_reason` is set (1507) and is cleared only by
  the `WAKEUP` event, which a button posts: until then `BEE_SleepDirect` is not
  called from there again. This is in the model; nothing says when it should end.
- *StayAwake.* An ack is over when its timer says so: the timer is set to the
  computed end. `sWaitRxPendingDataTimer` is assumed allocated.
- *Update.* The image fits `destsz`; a longer one is acknowledged, cut and started
  (`xmodem.c:252`). Damage of a block is noticed by its check, and only packets pass
  it; FTL saves what it is given; a reset ends the sender's transfer; the sender is
  not slower than its own timeout; the erase is one step; the clock of `_inbyte` does not wrap
  (`xmodem.c:131`).
- *Transport.* Enumeration, the PW_RPC
  build and the debug prints of certification builds, which call `uart_send` from
  any context, are not modelled. The USB build publishes `rx_tail` at once; the
  DLPS build sends byte by byte.
- *Keys.* OpenThread's key id is the key sequence modulo 128, plus 1, and it calls
  the radio between frames and attempts, not inside `BEE_RadioTxStart`. The nonce is
  one register of the MAC: inferred from `mac_LoadNonce`, which task and interrupt
  call alike, with separate calls for their keys.
- *Source match.* `MAC_STS_HW_LIMIT` means that the table is full and the entry new.
  OpenThread enters and deletes an address once.
- *Clock.* The driver's interrupt of `MAC_BT_TIMER3` advances the offset once per
  wrap while awake; it is served before the next wrap. The device does not sleep
  with it pending, nor with frames in the ring. `otPlatTimeGetWithBTUS` and the
  times in `alarm.c` are computed like `otPlatTimeGet`.
- *Start.* `WDG_SystemReset` writes its reason and lets the core's watchdog bite; a
  bite of a watchdog leaves the reason as it is; power-on clears both. These are
  external and inferred from the cases `reset_reason_print` tells apart. The
  watchdog flags speak of the last reset only.
- *Interrupts.* A pin's status bit is cleared by its handler. A status bit of a
  peripheral stays until it is written.

## 7. Plan

Done so far: event ring, transmit, alarms, receive, sleep, transport, update, ack
layout, keys, source match, clock, start, shared interrupts, memory. What could
follow:

1. Composition: `Sleep` and `AlarmBackoff` over the event ring with its overflow,
   to see which alarms an overflow can lose.
2. The UART's DLPS flag, once it is said what a wake-up without a byte should do.
