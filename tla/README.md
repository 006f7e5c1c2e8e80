# Verification of the greenhouse controller

TLA+ models of the firmware in `src/src`, the TLC configurations that check
them, and proofs: every safety property that a run checks, invariant, action
property or refinement, is also proved for all values of the constants.  Every
task has a model, and so has every driver between the tasks and the devices; how the
models are put together is said under "Modules".

## The system

The firmware runs on a Raspberry Pi Pico W under FreeRTOS. `main.cpp` creates
five queues and six tasks, then starts the scheduler. The queues of length one
are used as shared variables: writers overwrite, readers peek.

| Part | State | Operations | Talks to |
|---|---|---|---|
| CO2 controller `task/co2` (HIGH) | valve state, `m_Co2Target`, `m_SensorData`, two timers, the valve pin | boot: read the stored target, seed the target queue; loop every 250 ms: peek data and target, clamp and store the target, open or close the valve | data queue (peek), target queue (peek, overwrite), EEPROM, GPIO |
| Fan controller `task/fan` (HIGH) | `m_Speed`, `adjustInterval` | boot: speed 0; loop every 250 ticks: adjust when CO2 is critical, stop when it is not | data queue (peek), fan queue (overwrite), Modbus |
| Sensor reader `task/sensor`, `sensor` | last readings | every 250 ms: read CO2, humidity and temperature by Modbus, pressure by I2C, overwrite the data queue | Modbus, I2C bus 1, data queue |
| Network manager `task/network` (MED) | network settings, `m_Connected`, the client, the report timer | boot: read settings, connect, test; loop: new settings, Talkback command, report | settings queue (receive), data, target and fan queues (peek), EEPROM, client |
| Network client `network` | `m_Pcb`, `m_ResponseStatus`, request | `send` waits for the status that lwIP's callbacks set; `open`, `connect`, `close`, five callbacks | lwIP, target queue (overwrite) |
| Local UI `task/localUI`, `view` (MED) | menu state, edited target, edited settings | menu, sensor view with target editing, Wi-Fi and ThingSpeak dialogues | input queue (receive), data queue (peek), target queue (overwrite, peek), settings queue (send), display |
| GPIO input `task/gpio` (LOW) | time of the last input | interrupt: debounce, queue the pin | input queue (length 2) |
| EEPROM `storage` | CRC table; the device's contents | `write`: data with end mark, then CRC, two transactions; `read`: CRC, data, cut at the end mark, compare | I2C bus 0, mutex |
| Modbus `modbus` | destination address | registers: take the mutex, set the address, one request; errors are ignored | UART |
| I2C driver `i2c` | buffers and counters shared with the interrupt handler | `transaction`: start, wait for the notification for at most 1000 ms; handler | device registers, task notification |
| UART driver `uart` | transmit and receive byte queues | `read`, `write`, `flush`, two handlers | device registers |
| Timers `timer` | time stamp | `reset`, test | tick counter |
| Start-up, task and semaphore wrappers, display, configuration | none of their own that decides anything | | |

What is hard about it:

- **Time.** The valve is shut by a loop that blocks in the EEPROM while the
  valve is open; the tick counter wraps after 49.7 days.
- **Shared variables without a protocol.** Every decision is made with values
  peeked before a blocking call; three tasks write the target.
- **Failure.** Most results are ignored: of EEPROM writes, of Modbus requests,
  of queue sends. What repairs a failure is usually that the loop does the same
  thing again.
- **Power cycles.** The EEPROM and the fan's device survive them, timers,
  queues and the valve pin do not.
- **Callbacks and interrupts** in the client, the two drivers and the input.

What makes each part correct:

- CO2 controller: doses are short, pauses are long, enough CO2 shuts the valve,
  low CO2 is dosed, the target in use is a legal one and survives power cycles.
- Fan controller: the fan turns in bounded time when CO2 is critical, stops
  when it is not, and the speed that is shown is the device's.
- EEPROM: a record reads back as what was last written in full, or not at all,
  whichever tasks write and whenever the power is cut.
- Client: every `send` ends with the status of its own request.
- Manager: settings that work are stored, settings that do not work are not.
- UI: a confirmed target or dialogue reaches its queue, legal and unaltered.
- Drivers: a transaction that reports success moved its own bytes; no byte
  queued for transmission is left behind.

## Modules

| Module | Models |
|---|---|
| `CounterTimeout` | `timer/CounterTimeout.cpp`: time stamps of a tick counter that wraps |
| `ValveDosing` | abstract: what the CO2 controller promises about the valve |
| `Co2Controller` | `task/co2/Co2Controller.cpp` with the EEPROM record of the target |
| `Co2ControllerMC` | values of constants for TLC |
| `Co2Controller_proofs` | theorems about `Co2Controller` and their proofs |
| `SettingsStore` | abstract: what the EEPROM storage promises its callers |
| `Eeprom` | `storage/Eeprom.cpp` used by several tasks, its mutex, the device |
| `EepromMC` | values of constants for TLC |
| `Eeprom_proofs` | theorems about `Eeprom` and their proofs |
| `FanController` | `task/fan/FanController.cpp` with its Modbus register |
| `FanController_proofs` | theorems about `FanController` and their proofs |
| `TlsClient` | `network/TlsClient.cpp`: the task in `send` and the callbacks of lwIP |
| `TlsClient_proofs` | theorems about `TlsClient` and their proofs |
| `NetManager` | `task/network/Manager.cpp`: connections, tests of the keys, what is stored |
| `NetManagerMC` | values of constants for TLC |
| `NetManager_proofs` | theorems about `NetManager` and their proofs |
| `I2cTransaction` | `i2c/PicoI2C.cpp`: tasks, the interrupt handler and the I2C controller |
| `I2cTransactionMC` | values of constants for TLC |
| `I2cTransaction_proofs` | theorems about `I2cTransaction` and their proofs |
| `ModbusBus` | `task/sensor/Reader.cpp`, `sensor`, `modbus`, `uart/PicoOsUart.cpp`: two tasks and three devices on one line |
| `ModbusBus_proofs` | theorems about `ModbusBus` and their proofs |
| `LocalUI` | `task/localUI/LocalUI.cpp`, `view`, `task/gpio/Input.cpp`: buttons, menu, views and dialogues |
| `LocalUI_proofs` | theorems about `LocalUI` and their proofs |

The models meet at the interfaces of the code. What a component relies on is in
its model as what may happen, and in the other one as what is shown:

- `Co2Controller` and `NetManager` use the EEPROM by whole writes and reads that
  may fail or be cut short. `Eeprom` shows that this is all that can happen to a
  record (`ImplementsStore`).
- `Eeprom` uses transactions that succeed, fail, or fail while their bytes count
  as written. `I2cTransaction` shows what a count means (`CountIsTrue`).
- `FanController` uses a register whose writes may be lost and whose reads, when
  they fail, give 0 or what a garbled reply holds. `ModbusBus` shows the value a
  read gives (`ReadingsAreOwn`); that it may be another register's after a late
  response is not in `FanController`, whose device has one register that is read.
- `NetManager` uses a `send` that returns the status of its own request until
  the client has once returned -1, then any, or that never returns. `TlsClient`
  shows the first part (`StatusIsOwn`), and `tls_waits` the last.
- `LocalUI` and `NetManager` share the settings queue, `LocalUI`,
  `Co2Controller` and `TlsClient` the target queue; each has the other side as an
  action that may come at any time.

### How time is modelled

Statements take no time. A call that blocks (a delay, an EEPROM transaction, a
Modbus request) sets `rem`, the time until the task goes on; `Tick` lets one
unit pass and is only possible while `rem > 0` or the task waits for the first
reading. A transaction blocks for any time up to `MaxIo`. This is the code's
timing provided the task's own computation is short against a tick and the
scheduler lets a ready task of priority HIGH run, which `BaseTask` and
`configUSE_PREEMPTION` give it; time spent waiting for the EEPROM mutex or for
another task of the same priority counts as part of `MaxIo`.

`tick` is `xTaskGetTickCount()` and wraps at `TickMod`, 2^32 on the target. The
timers are time stamps of it and are tested with `Expired`, the unsigned
subtraction of `CounterTimeout::operator()`. A run may use a coarser tick, since
only the ratios of the periods matter.

### Co2Controller

| Code | Model |
|---|---|
| constructor, start of `run` | `Init`, `Restart` |
| `run` lines 66-70 | `ReadTarget` |
| `run` lines 74-79 and `setTarget` up to the EEPROM | `PeekQueues` |
| `Eeprom::write`, data | `WriteData` |
| `Eeprom::writeCrc` | `WriteCrc` |
| `switch (state)` and `vTaskDelay` | `OpenValve`, `CloseValve`, `LeaveValve` |
| `Sensor::Reader`, UI and network client | `Publish`, `Command` |

`pc` is the point of the loop, `rom` the record at `CO2_TARGET_ADDR`: its two
bytes as one number, whether an end mark follows, and its CRC cell. A CRC is
represented by the record it was computed of: different records are assumed to
have different CRCs, with the one collision that the code really meets, that of
no bytes at all with an erased cell (both 0xFFFF). A CRC cell half written is
`Garbled` and matches nothing. A failed transaction leaves the old contents or
only the first byte changed; the code ignores its result, as the model does.

`Restart` may come anywhere, and needs no fault to tear the record (`Torn`). The
task writes the record in every turn. While the data are sent or the device
writes them, up to the CRC's transaction, which waits for the device, a power cut
leaves any of: the old data, the new ones, a mixture, bytes half written
(`TornWords`, any 16-bit words), with or without the end mark. While the CRC is
sent or written, which goes on for `WriteCycle` after `Eeprom::write` has returned,
it leaves a garbled CRC.

`openFor`, `closedFor`, `enoughFor`, `acked` and `asked` are history variables: how
long the valve has been open, has been closed, CO2 has been enough, the target
whose two transactions succeeded without a later failed attempt, and the targets
last stored or begun to be stored since. They exist for the properties only.

### Eeprom

| Code | Model |
|---|---|
| `write`, `read` are called | `Write`, `Read` |
| the `lock_guard` of each | `Lock`; given back by `WriteCrc` and `ReadData` |
| `eepromWait` | the guard `Answers` |
| `write` lines 23-33 | `WriteData` |
| `writeCrc`, return of `write` | `WriteCrc` |
| `readCrc` | `ReadCrc`, which has no guard `Answers` |
| `read` lines 58-63 | `ReadAddress` |
| `read` lines 64-73 | `ReadData` |
| the EEPROM chip | `DeviceReady`, and `cell`, `pointer`, `cycle` |

One action is one I2C transaction. Between any two of them the other tasks move,
the device finishes its write cycle or the power fails. A transaction that fails
is a step of its own kind: a failed data write leaves the old data or a torn
record, a failed CRC write the old CRC or a garbled one, a failed CRC read gives
0, and a failed address write leaves the device's address pointer elsewhere
while `PicoI2C` may count its two bytes all the same. The results that no caller
looks at are left out.

Data are values, not bytes. What the code's byte handling tells apart is kept:
`Whole` values come back as they are, `Blank` ones begin with a zero byte and
come back as no bytes, and the rest come back cut (`Fragment`), which never
matches a CRC. As in `Co2Controller`, different data have different CRCs, except
that no bytes have the CRC of an erased cell, and no CRC is 0. So a mixture of
two records is always detected here, where a 16-bit CRC lets one in 65536 pass.
That the records, 64 bytes apart, do not overlap is taken from the lengths the
views permit (63 bytes and the end mark). `Owner` says which task uses which
record; no record of the program is used by two tasks.

`stored`, `asked` and `done` are history variables: the value of the last write
when both of its transactions succeeded and nothing has been tried since, the
values that a record may hold, and whether the transactions of a call have
succeeded so far.

`SettingsStore` knows only contents, the contents asked for and answers. `Eeprom`
implements it with the content of a record being what `read` would return of it
undisturbed (`RecordContent`): the refinement says that whatever fails, a record
reads as a value asked for since its last finished write, or not at all, and that
a read never returns the data of another record. It does not say whose step
changes a record: a write that failed or was cut short may leave a content that
comes and goes, within what was asked for.

### FanController

| Code | Model |
|---|---|
| constructor, `run` lines 44-51 | `Init`, `Start`, `Restart` |
| `run` lines 57-64 | `Adjust` |
| `run` lines 65-68 | `SwitchOff` |
| neither branch | `LeaveFan` |
| `setSpeed`: clamp | `SetSpeed` |
| `setSpeed`: `m_SpeedRegister.write` | `WriteSpeed` |
| `setSpeed`: `m_SpeedRegister.read`, publication; `adjustInterval.reset()` | `ReadBack` |

`device` is the speed register of the frequency converter, which keeps its value
while the controller restarts. A lost request changes nothing. `Register::read`
ignores the error of a read: without a reply it returns 0, and with a garbled
one whatever the reply holds, since nanomodbus stores the register before it
looks at the CRC; `Misreads` are such values, any 16-bit words. `criticalFor`
and `doubtful` are history variables: how long CO2 has been critical, whether
the last read back failed. The speed is computed with whole numbers
(`CriticalSpeed`); the readings of the runs are levels at which the float
computation gives the same value, and none is so large that the conversion to
`uint16_t` would overflow.

### TlsClient

| Code | Model |
|---|---|
| `send` line 31 | `Send`, `Assign` |
| `send` line 32 | `ResetStatus` |
| `open` line 75 | `NewPcb` |
| `open` lines 83-92 | `SetUp` |
| `open` under the lock, with `connect` and `close` | `Resolve` |
| `send` lines 35-37 | `Return` |
| `tlsDnsFound`, `tlsConnected`, `tlsPoll`, `tlsError` | `DnsFound`, `Connected`, `Poll`, `Error` |
| `tlsReceive` with data, without | `Receive`, `Closed` |
| `close` in a callback | `CallClose`, then `CloseEnd` |

Requests and connections have the number of the `send` they belong to, and a
status is represented by the request it answers, so that a property can say
whose it is. `m_Request`, `m_ResponseStatus` and `m_Pcb` are the shared
variables. `m_Request` is a string: while it is being assigned it is `Torn`, and
a callback that reads it then reads no request. `phase` is what lwIP knows of a
connection; `"half"` is one whose peer has closed.

The callbacks run one at a time under lwIP's lock, which the task takes only for
the second half of `open`; they work on `m_Pcb`, not on the connection they come
from. The first half of `open` works on the new connection without the lock, and
a callback may have closed it and set `m_Pcb` to NULL by then. `SetUp` takes
what the calls then do as undefined: they have no effect, or the controller
crashes (`"halted"`). When they had none, `open` goes on, and so does the model.
Nothing is assumed about the priority of lwIP's thread, so the task may run
while a callback is in `close`. `close` is therefore two steps: the calls of
lwIP, and the assignment of NULL to `m_Pcb` after them, with the task's steps in
between. `close` reads `m_Pcb` again for each of its calls; that `open` could
give it another value between two of them is left out. `SetUp` is one step, so a
callback comes before all its calls or after them. A connection that `open`
overwrites in `m_Pcb` is closed by nobody: it stays, with its callbacks, until
its server or the network ends it. A call that lwIP refuses, a connection that
fails and a server that closes without an answer are counted in `faults`.
`tlsConnected` with an error is `Error`, since lwIP reports a connection that
fails to `tlsError`. A poll may come at any time: between the request and an
answer that takes long there is no order. Which status codes there are is not
told apart, only the -1 of data without a status line. `m_Error` and
`m_Complete`, which nothing reads, and the destruction of the client by the
manager are left out.

### NetManager

| Code | Model |
|---|---|
| constructor, power-up | `Init`, `PowerCycle` |
| `getEeprom` | `GetEeprom` |
| `connect` | `Join`, `StoreSsid`, `StorePassword`; `FailToJoin` |
| `run` lines 47-52 | `FailToJoin`, which goes on with `attempt = "env"` |
| `reconnect` | `TakeWifi` |
| `run` lines 74-76 | `TakeKeys` |
| `testTls` | `TestReport`, `StoreApiKey`, `TestTalkback`, `StoreTbId`, `StoreTbKey` |
| `getTalkback`, `sendReport` in the loop | `Talkback`, `Report`; `Pause`, `Offline` |
| a dialogue's `xQueueSend` | `Enter` |

One action is a blocking call, so that the power may fail between any two. `ram`
are the five strings of the manager, `rom` their records. Which networks and
keys work is given by constants; a text that nobody entered or built in cannot
be in a record. `age` counts pauses of 5 s since the timer of the reports was
reset; a call that takes long may add to it. A write of the EEPROM that fails or
is cut short leaves the old record or one that cannot be read, which is what
`Eeprom` shows of it. `cycle` is the record whose CRC the device may still be
writing, which lasts some milliseconds longer than the call: until the next
call that takes long, to join a network or to send. A power cycle can cut that
too.

A `send` of this client returns the status of its own request until one has
returned -1 (`disturbed`); from then on any status, until `connect` makes a new
client. Or it never returns, which may happen without any failure: the task
`waits`. Without a client `send` is a call through a null pointer: the task is
`lost`. Settings that a dialogue sends to a full queue are dropped, which is no
step of the model.

`spoiled` is a history variable: the pairs of records (network, report key,
Talkback) whose last writing failed, was cut short, or went by the word of a
client that was `disturbed`. The next writing of the pair that goes well takes it
out.

`update` and the numbers in a report are left out. A report right after a start
has the values of the constructor's `update`, before the scheduler runs: no
property is about them.

### I2cTransaction

| Code | Model |
|---|---|
| `transaction` lines 157-172 | `Begin`, `Reset` |
| `tx_fill_fifo`, `rx_fill_fifo`, one turn of the loop | `FillWrite`, `FillRead` |
| the first fill | `Fill`; its end and line 180: `Wait` |
| `ulTaskNotifyTake` | `Take`, `TimeOut` |
| lines 188-191 | `End` |
| `isr` lines 212-219 | `Drain`, `Drained` |
| `isr` lines 224-236 | `IsrFill`, `IsrFilled` |
| `isr` lines 239-245 | `Leave` |
| the I2C controller | `Execute`, `Nack`, `StopBit` |

The interrupt handler runs between any two steps of a task while the interrupt
is enabled, a task never between two steps of the handler: there is one core.
The controller works on at the same time, so the FIFO empties while it is being
filled. A byte to write is its number and so is a byte read, in the order of the
wire. What is not the program's is taken from the use the code makes of it: a
refused byte empties the FIFO and ends in a STOP, the FIFO takes nothing until
the next `Reset`; disabling the controller empties both FIFOs; a STOP on its way
may be seen after it. `MaxLag` is the number of bytes the controller moves before
an enabled interrupt has been served; without such a bound a long read would
overrun the receive FIFO, on the target too. On the target it is 1 with room to
spare: a byte takes 90 us at 100 kHz, the handler some microseconds. `log` is a
history variable.

### ModbusBus

| Code | Model |
|---|---|
| `Reader::run`, `GMP252::update`, `HMP60::update` | `ReaderRequest`, `Finish`, `Publish` |
| `Controller::setSpeed` of the fan | `FanRequest`, `Finish` |
| `Register::read`, `write`: the `lock_guard` | `Request`; given back by `Finish` |
| `PicoOsUart::write` lines 86-90 | `QueueByte` |
| line 93 and the test of line 95 | `Queued` |
| lines 99-102, 104-111 | `FillByte`, `FillEnd` |
| `uart_irq_tx`, `uart_irq_rx` | `IrqTx` in `TxInterrupt`; `Arrive` |
| nanomodbus: header | `HeaderOk`, `HeaderWrong`, `Silence` |
| nanomodbus: length, registers, CRC | `Length`, `Data`, `Crc`; `Short` |
| UART, line and devices | `Transmit`, `Respond` |

A byte of a response is the register it is about and its place in the response;
data and CRC have one place each. What matters of the bytes is kept: which
headers pass the comparison of unit and function (`Answers`), that registers are
stored before the CRC is looked at, that nobody looks at the error, and how many
bytes each way of failing takes out of the receive queue. A response arrives as
a whole, or with one byte garbled or lost, or not at all; the receive interrupt
moves it into the queue, as far as there is room. `Silence` may come while a
response is still under way: that response is late, and stays in the queue for
the next request. There is no time: a response that is not late has arrived when
the client's timeout ends. Reads of a response after its header only time out
when bytes are missing. A garbled length other than 0 is taken as one that is
never reached, since the queue then has to hold more than comes.

In the transmit FIFO the interrupt is raised when a byte leaves it at its level,
and goes away when it is filled above it, as the manual of the UART says of
`TXRIS`. While `PicoOsUart::write` works on the interrupt, `at = "fill"`, no
handler runs.

### LocalUI

| Code | Model |
|---|---|
| `Input::callback` | `Callback`; 250 ms later `Settle` |
| `UI::handleInput` | `MenuTurn`, `MenuSelect`, `MenuIgnore` |
| `SensorView::display` | `PeekData`, `NoPress` or a press, `Frame` |
| `SensorView::handleInput` | `TurnUp`, `TurnDown`, `Confirm`, `Edit`, `Leave`, `Ignore` |
| `WifiSetup`, `TsSetup`: `display` begins | `MenuSelect`, `Cleared` |
| their `handleInput` | `Choose`, `Type`, `Delete`, `Abandon`, `Proceed` |
| the other tasks | `Publish`, `SetTarget`, `TakeSettings` |

The two dialogues differ in their fields and in what a field needs before SW2
leads on (`Complete`, `OnTo`). A text is its length, since no decision of the
views is about a character. The target is a number modulo `Word`: the
comparison `m_Co2Target - 10 >= 0` is one of unsigned numbers, so a target turned
below 0 wraps around. One turn up from there wraps it back; turned down twice
below 0, the next turn up makes it `Limit`. At the start the debounce time has not
passed (`s_LastInput` is 0), so a first press needs a `Settle`. `shown` is the target
on the display, `typed` counts the presses of the knob since the dialogue began,
`high` says that a target above the limit has a cause outside the view or was
turned below 0.

## Runs

| Run | Shows |
|---|---|
| `co2` | Doses are bounded, enough CO2 shuts the valve, doses and pauses are those of `ValveDosing`; a stored target comes back, the target in use is in range; the valve closes, low CO2 is dosed again and again, a target that stays is stored |
| `co2_persists` | violated: settings are stored for persistence |
| `eeprom` | Records and answers are those of `SettingsStore`; a failed read of an intact record has a failed transaction of its own; every call returns |
| `eeprom_readable` | violated: the EEPROM is waited for until it is readable |
| `fan` | The speed shown is true unless its read failed; critical CO2 turns the fan in bounded time and in the end; safe CO2 stops it and 0 is shown, unless the last read back failed with 0 |
| `tls_client` | Statuses and requests stay with their own connection until a `send` returns -1; nothing under lwIP's lock uses a freed connection; a `send` that waits on a silent server gives its connection up |
| `tls_unlocked` | violated: calls into lwIP are locked, so that a new connection is set up undisturbed |
| `tls_waits` | violated: `send` returns |
| `net_manager` | The EEPROM holds only pairs that are accepted, but for spoiled ones; the client that does not exist is used only when keys are entered offline; settings are taken and, online, reports go on, unless the task is lost or a `send` never returns |
| `i2c` | The wire sees the bytes of the transaction in order, with one restart and one STOP; a full count means that all bytes came; a call returns without its timeout |
| `modbus` | Whose value a reading is, without and with late responses; no byte stays in the transmit queue; every turn of the reader ends |
| `local_ui` | Settings that are sent are complete and of one dialogue; a confirmed target is the one shown; SW0 leads to the menu |

Bounds, and why they are enough:

- `co2`: `TickMod = 6`, the least that the assumption allows, makes the counter
  wrap in the middle of doses and of pauses; transactions block for 0 or 1
  units; a reading (870) that is low for the target 1500, inside the hysteresis
  of the default 900 and enough for 200; commands below the range (0, clamped to
  200) and above it; a new EEPROM, which is
  a used one after the power cycle; one failed transaction and one power cycle at
  any point. `WriteCycle = 1`, a whole turn, is more than the device takes, and the
  bytes half written may look like another target (1000, which nobody asks for).
  The proofs cover any number of each, any words and any record at the start.
- `eeprom`: two tasks with one record each, which is what it takes for one task's
  transactions to come between another's; a record of each kind of value (whole,
  beginning with a zero byte, no bytes), used and new; one failed transaction
  and one power cycle in any order. The proofs cover any number of each.
- `fan`: readings just below the critical level and above that of full speed;
  two failed requests, one power cycle; the counter wraps between adjustments. A
  garbled reply puts 40000 into `m_Speed`, which no fan can turn at.
- `tls_client`: three requests, so that callbacks of the first connection can
  meet the second and third; two failures; responses in one piece or two; a poll
  at any time.
- `net_manager`: settings are entered twice, so that good ones can follow
  mistyped ones or the reverse; two networks and two sets of keys that work,
  mixtures of them that do not; a network without a name, which the dialogue
  permits and nothing joins; one failed call or transaction and one power cycle,
  which may cut the write or the write cycle of any record; a `send` that never
  returns at any of the four places.
  `ReportTicks = 2` pauses instead of 5: the timer runs out within the loop or
  during a long call, and not before.
- `i2c`: FIFOs of 2 bytes instead of 16, transactions of 1, 4 and 5 bytes, and
  one that writes and reads; so the first fill, the handler's fill and the
  switch from writing to reading meet a full and an empty FIFO. Two calls that
  time out: a notification that comes late and one more after it.
- `modbus`: requests of 2 bytes and a transmit FIFO of 1, so that a request is
  always sent partly by the task and partly by the handler; the receive queue
  (7) holds one response and a part of a second, so that it overflows. One
  response is late, lost or garbled; the value of a late one then reaches
  whichever register is next. `MaxFrames = 1`: a request is 8.3 ms on the line
  at 9600 baud, the client reads after the pause of `s_RequestDelay` and for up to
  a second, and the next request goes out when the last was answered or lost. So
  the transmit interrupt is never on when `Queued` tests it in this run; the
  branch is there for larger `MaxFrames`.
- `local_ui`: eight presses reach the end of both dialogues; a list of two
  characters, texts of one or two; targets modulo 8 in steps of 2 with the limit
  4, and targets of other tasks off the grid, inside the limit and above it.
- The runs that end in a violation have the smallest constants that show it.

Fairness, in `co2` and `fan`: `WF` of the task's own steps and of `Tick`, nothing
else. The task has the highest priority and every call of it is bounded
(`MaxIo`), and the tick interrupt always comes. Nothing is assumed of readings,
commands, faults or the power.

In `eeprom`: `WF` of a task that is in a call, `WF` of the end of a write cycle,
and `SF` of `Lock`: a task that waits for the mutex has it for the taking
whenever the other has returned, and the CO2 controller, the only one that calls
in a loop, then sleeps for 250 ms. That a device which is gone blocks its callers
for ever (`eepromWait` has no way out) is outside this assumption.

In `tls_client`: `WF` of the task's steps, of the end of `close`, of the answer
to a DNS query (lwIP gives up with one) and of the poll of each connection
(lwIP's timer); nothing of the server. `tls_waits` adds `WF` of the server's
part, so that its counterexample is not a server that is silent. A `send` whose
connection is gone waits for ever, and a crash ends the behaviour, so these runs
do not check for deadlock.

In `net_manager`: `WF` of the task. It does not include that a `send` returns: each
may leave the task in `waits` for ever instead, and the two liveness properties
say what they say of it. All other calls of the task are bounded (joining has a
timeout of 30 s, the EEPROM as above). Nothing of the user, the network or the
power. The task may be lost, so deadlock is not checked.

In `i2c`: `WF` of the tasks, of the handler and of the controller; nothing of the
timeout, so that `CallReturns` is not the timeout's doing. Nothing says that the
mutex is fair: no property is about waiting for it.

In `modbus`: `WF` of the client's steps, the transmit interrupt and the line;
`SF` of `ReaderRequest`: the mutex is a FreeRTOS mutex, which goes to the task that
waits for it, and the fan controller sleeps between its adjustments. The fan
controller finishes what it has begun (`WF` of its second request) and need not
begin.

In `local_ui`: `WF` of the task, and of the reader's publications, which
`EveryTurnPublishes` shows.

What the four violated properties show:

- `TargetPersists`: a target with a zero byte is cut at `Eeprom.cpp:68`.
  `RestoredAfterRestart` is what holds: a stored target without a zero byte comes
  back, unless the power fails while a later turn writes it once more; then the
  boot has a target that was being asked for, or the default, but no mixture.
- `StoredCanBeRead`: `readCrc` does not wait for the device (`Eeprom.cpp:160`), so
  a read that gets the mutex right after another task's write fails without any
  fault. `FailedReadHasCause` is what holds: a read whose own transactions all
  succeeded is never turned down.
- `SetUpIsSafe`: `open` sets the new connection up before it takes the lock. A
  callback of the previous one, its server's close, can run between
  `altcp_tls_new` and the calls that follow: it closes the new connection and
  makes `m_Pcb` NULL under the hands of the task (`TlsClient.cpp:83`). `PcbIsAlive` is
  what holds: whatever runs under the lock finds `m_Pcb` NULL or alive.
- `SendReturns`: every callback closes `m_Pcb` (`TlsClient.cpp:189`). The server
  closes each connection after its response; if that close is handled to its end
  only after the next `send` has made its connection, it takes the new one away,
  nothing sets a status, and `send` loops for ever without any failure. The same
  happens after every failure that brings no response (`Poll`, `Error`), since
  only `tlsReceive` sets the status. `SilentServerGivenUp` is what holds: while a
  `send` waits, the connection in `m_Pcb` is closed in the end if the server is
  silent. `StatusIsOwn` and `SentOnce` hold until a `send` returns
  -1: that is a response in two pieces, of which one has no status line; the
  other piece may then be taken for the response to the next request.

Some things the properties say that a reader may not expect:

- `DoseLength` bounds a dose by the timeout, one turn of the loop and two EEPROM
  transactions. With the 1000 ms after which a transaction gives up that is more
  than the 2 seconds of the README: `setTarget` writes the EEPROM in every turn,
  also with the valve open and the target unchanged.
- `SafeStopsTheFan` has an exception, `BelievedOff`: after a read back that failed
  with 0, one lost reply, `m_Speed` is 0 while the fan turns, and the branch that
  stops it (`FanController.cpp:65`) is not taken although CO2 stays safe. The
  exception is needed: without it TLC finds the fan turning for ever. Any other
  wrong speed is repaired by the next turn.
- `ReadingsAreOwn` has an exception: `HMP60::update` reads both values into one
  buffer, and when the response with the temperature is lost, the humidity is
  published as the temperature (`HMP60.cpp:28`).
- After a late response `ReadingsAreOwn` only says that a value is one of the same
  device: the bytes stay in the receive queue and answer the next request to
  that device. On the target the line comes back into step only when a request
  meets a response that it refuses.
- `ConfirmedIsShown` does not say that a confirmed target is at most the limit: it
  may have been turned below 0 (`SensorView.cpp:98`). The CO2 controller clamps it.
- `LostOnlyOffline` names the one way in which the network task can be lost:
  ThingSpeak keys entered while there is no network (`Manager.cpp:77`).
- `CountIsTrue` says nothing of a transaction that only writes and was refused:
  its bytes count as written when they are in the FIFO (`PicoI2C.cpp:187`).

## Proofs

A theorem holds for all values of the constants that satisfy the assumptions of
its module: any number of tasks, failures, power cycles, requests and presses,
any lengths of queues and texts, any periods. The assumptions are named in the
modules, the code's constants satisfy them, and each run evaluates them for its
own. Each proof has an inductive invariant, the types and the property together
with what the property needs; TLC has checked each on the runs' instances.

### Co2Controller

`Co2Controller_proofs` proves, for all values of the constants that satisfy
`TickModAssumption`, `PeriodsAssumption`, `LevelsAssumption` and
`RecordsAssumption`:

- `TypeCorrect`: `Spec => []TypeOK`
- `Inductive`: `Spec => []IInv`
- `DosesAreBounded`, `ValveClosesPromptly`, `TargetInRange`: the invariants
  `DoseLength`, `PromptClose` and `ControlTargetInRange`
- `Implementation`: `Spec => Dosing!Spec`, the refinement of `ValveDosing`
- `RestoresTheTarget`: `Spec => RestoredAfterRestart`

The assumptions say that the periods are natural numbers, that the tick counter
does not come round within one dose or one pause with their blocking calls (on
the target 2^32 ms against less than a minute), that the history ages saturate
above all periods, and that the limits of the target are ordered and fit into
16 bits. The code's constants satisfy them.

None of the three invariants is inductive. A dose that has lasted almost its
maximum when the task starts a transaction would exceed it; that it cannot
happen is because the task looked at the time before. `IInv` therefore bounds an
age *plus the time the task is still blocked* by what is left at that point of
the loop:

- `BlockedTimes`: how long each step may block;
- `Peeked`: past the peeks there are data, and a target in range;
- `DoseBudget`: while the valve is open its time stamp tells how long it has
  been open, and the bound at each point leaves room for the transactions to
  come;
- `PauseAge`: while it is closed, the other time stamp is never older than the
  pause, which is why a wrap or a power cycle cannot shorten a pause;
- `EnoughBudget`: the same budget for the time CO2 has been enough, for a task
  that has seen it and for one that has not.

`IInv` is checked conjunct by conjunct for every action. The refinement needs
`DoseBudget` (time passes in an open dose only below the maximum) and `PauseAge`
(an expired `retryTimeout` means a pause longer than `MinGap`).

`RestoredAfterRestart` needs `Kept`: the target in `acked` is stored with its
CRC, also between the two transactions of a turn that writes it once more,
because `target` is then the same; and a power cycle that tears the record takes
`acked` away. And `CrcAsked`: whatever the failures and cuts, the CRC cell has the
CRC of a target in `asked`, or of no record. A boot takes only data that match the
CRC, so bytes half written are never taken for a target.

### Eeprom

`Eeprom_proofs` proves, for any tasks, records and values that satisfy
`ValuesAssumption` and `TasksAssumption` (the special values are different from
each other and from all data, each record has an owner):

- `TypeCorrect`: `Spec => []TypeOK`
- `Inductive`: `Spec => []IInv`
- `FailedReadsHaveCauses`: `Spec => []FailedReadHasCause`
- `Implementation`: `Spec => Store!Spec`, the refinement of `SettingsStore`

The parts of `IInv`: `Exclusive` (the task in its transactions holds the mutex),
`Orderly` (a task keeps to its records and has no answer while it is in a call),
`BeingWritten` (what is being written is asked for, and once the data are there
they are the data), `BeingRead` (the CRC a reader holds and the pointer it set
are still those of its record), `Sound` (data are readable only as something
asked for), `Intact` (a finished write is in its cell). The central lemma is
`OwnWork`: a step of one task leaves the calls and records of the others alone.
`BeingRead` is where the mutex is needed: it fails at once when a reader does not
take it. The refinement follows from `Sound` for writes and power cycles and from
`BeingRead` for answers.

### FanController

`FanController_proofs` proves, for any periods, levels and readings that satisfy
`TickModAssumption`, `FanPeriodsAssumption` and `FanLevelsAssumption`:

- `TypeCorrect`, `ReportsAreTrue`, `CriticalIsAnswered`: the invariants `TypeOK`,
  `ReportedSpeedIsTrue`, `CriticalTurnsTheFan`

`CriticalTurnsTheFan` is proved by a budget like that of the valve, in two parts
(`StoppedFor`). The CO2 may have become critical while the fan was being
stopped: then two requests and a turn of the loop pass (`FirstTurn`). After that
the time it has been critical and the age of the last adjustment grow together
(`AgeCounts`), so the turn that finds the timer expired comes in time. A counter
that wraps between the two does no harm as long as it does not come round within
that time, which is the assumption about `TickMod`.

### TlsClient

`TlsClient_proofs` proves, for any number of requests and failures that satisfy
`BoundsAssumption` (the special values differ from the requests):

- `TypeCorrect`: `Spec => []TypeOK`
- `PcbStaysAlive`: `Spec => []PcbIsAlive`
- `StatusOfItsOwn`: `Spec => []StatusIsOwn`
- `RequestSentOnce`: `Spec => []SentOnce`

`IInv` adds `Counted` to the two: a call of `send` has its number, and makes one
DNS query at most, which bounds `dns`. `PcbIsAlive` holds because whatever
frees a connection, a callback or the task in `open`, goes through `close` and
leaves `m_Pcb` NULL before it gives the lock back. It is about what runs under the
lock; of the calls that `open` makes without it, `SetUpIsSafe` shows the opposite.

The other two need `OwnInv`, which says of every behaviour in which no `send` has
returned -1 (`Undisturbed`): only the `send` that is under way makes a connection,
while `m_Pcb` and `m_Request` are its own (`Alone`, `UnderWay`); a connection
still owes what answers its own request, at most one piece of it with a status
line, and none once that `send` has been answered (`Owed`, `Answered`). So a
callback of an earlier connection can bring nothing but a rest without a status,
which is the -1.

### NetManager

`NetManager_proofs` proves, for any networks, keys and entries that satisfy
`NetworkAssumption`:

- `TypeCorrect`, `StoredHasWorked`, `ClientWhileOnline`: the invariants `TypeOK`,
  `StoredWorked`, `LostOnlyOffline`

The invariant says what each step still to come relies on: the strings that are
about to be stored are accepted, unless the client is disturbed, and the first of
a pair is already in the EEPROM when the second is written, unless the pair is
spoiled (`Storing`); until the new network is stored the task
is offline, and while keys are tested there is a client, or they were entered
without one (`Linked`); what the task works on was entered (`Entered`).

### I2cTransaction

`I2cTransaction_proofs` proves, for any tasks, transactions and depth of the
FIFOs that satisfy `BusAssumption`:

- `TypeCorrect`: `Spec => []TypeOK`
- `WireSeesTheRequest`: `Spec => []WireIsRequested`
- `FullCountIsWhole`: the first part of `CountIsTrue`
- `CountTellsTheWire`: `Spec => []CountIsTrue`, if `MaxLag <= 1`

`InTurn` is why the wire is right: wire and FIFO together are the first commands of
the transaction, as many as the driver's counters say, whether the task or the
handler made them. `Counters` ties the restart to the moment when all writes
and no read have been made.

For the count, `ReadInv` says that the bytes received and those in the receive
FIFO are increasing numbers, of which some may be missing, and that none can
be when as many were received as were asked for (`Ordered`, `WholeRead`). The
rest of `CountIsTrue` is about the end of a transaction while no call has timed
out. `EndInv` says that a STOP on its way means that everything was sent
(`Stops`), that a notified task has a finished transaction (`Quiet`, `Finished`),
and that no byte is missing but for an overrun (`Lossless`). `Emptied` is the
delicate part: the handler empties the receive FIFO *before* it looks for the
STOP, so the last byte and the STOP must not both come in between. That is the
hypothesis `MaxLag <= 1`, and it is needed: with `MaxLag = 2` TLC finds a
transaction that ends with its last byte still in the FIFO.

### LocalUI

`LocalUI_proofs` proves, for any lengths of the texts, any step, limit and width
of the target that satisfy `UiAssumption`:

- `TypeCorrect`, `SettingsAreWhole`: the invariants `TypeOK`,
  `SettingsAreOfOneDialogue`
- `ConfirmedWasShown`: `Spec => ConfirmedIsShown`

The invariant adds that the fields before the one being typed are complete
(`Behind`), that the number being edited is the one on the display but for the
press in hand (`Edited`), and that a number above the limit has a cause
(`Caused`).

### ModbusBus

`ModbusBus_proofs` proves, for any length of a request, any FIFO that is deeper
than the level of its interrupt (`BusAssumption`) and any number of requests
under way:

- `TypeCorrect`: `Spec => []TypeOK`
- `ReadingsAreTheirOwn`: `Spec => []ReadingsAreOwn`
- `NothingLeftBehind`: `Spec => []NoByteLeftBehind`

`BusInv` counts the bytes of the requests: those queued, in the FIFO, sent, and
still to be queued are those of the requests under way (`Complete`), which
bounds the transmit queue and says when a device has its request. While
responses come in time there is at most one request or response, the one that is
waited for, and what the client has read of it tells what is left (`InTime`).
After a late response, and until bytes are garbled or dropped, the receive queue
still holds whole responses, each byte followed by the next one, but for the
part of the first that has been read, and that one passed the comparison with the
request (`Whole`): its device is the one that was asked.

`TxInv` adds to the invariant the types of the transmit side and `FillsAlone`:
while the writing task fills the FIFO, the transmit interrupt is off. The first
fill ends with an empty queue or with a full FIFO, which is above the level, so
that the interrupt is still to be raised; `IrqTxLeavesNothing` says that the
interrupt handler stops being called only when it has emptied the queue, be it
called for a byte sent or for a byte received.

### What is only model-checked

Liveness: the prover has no rules for fairness. That is `ValveCloses`,
`LowCo2IsDosed`, `CommandPersisted`, `EveryCallReturns`, `CriticalIsVentilated`,
`SafeStopsTheFan`, `SilentServerGivenUp`, `SettingsAreTaken`, `ReportsGoOn`, `CallReturns`,
`EveryTurnPublishes` and `BackLeadsToMenu`. `CountIsTrue` is proved for
`MaxLag <= 1` only, which is also what the run has, and is false for more.

## Not modelled, and what is left

- The display, its fonts and the frame buffer: drawing decides nothing, and the
  results of its I2C writes are not looked at.
- Start-up (`main.cpp`, the task wrapper): straight-line code before the scheduler
  runs; its result is the initial state of the models.
- `DelayTimeout`, the reader's period and the pressure sensor: one call of
  FreeRTOS, and a value that nothing decides on.
- `Manager::update` and the numbers in a report.
- The wrappers of semaphores beyond the mutex of `Eeprom`, `I2cTransaction` and
  `ModbusBus`; the kernel and, beyond a client's way of reading a response,
  nanomodbus; compile-time configuration.
- Operations without a caller: coils and several registers at once, `send` and
  `flush` of the UART, `Binary`.
