# ESP32-UPS-SNMP: a TLA+ model of the gateway

The firmware reads a UPS over USB HID and serves what it reads over SNMP and
HTTP.  These modules model its own logic (`src/src`, `src/include`,
`src/lib`); the paths below are relative to the repository.

## The system

| component | state | operations | talks to |
|---|---|---|---|
| **USB HID bridge**, `lib/HIDBridge` | `class_driver_t`: address, handle, endpoint, action bits; a static packet size | class driver task: event callbacks, then one pass over the stages open, info, 3 descriptors, claim, control transfer, interrupt transfer, close; daemon task | the USB host library; callbacks into UPSHIDDevice |
| **UPS data store**, `UPSHIDDevice.cpp` | seven `HIDData` (used, report, layout, value), `connected_`, names | `buildFromHIDReport`, `hidReportData`, `deviceRemoved`, `setDeviceInfo`; `isUsed`, `getValue`, `statusToJSON` | written by the class driver task, read by SNMP, web server, display |
| **Descriptor parser**, same file | global and local items, bit counter | one item at a time; byte conversions, `setValue` | fills HIDData |
| **SNMP agent**, `UPSSNMP.cpp` | `started_`, `wasConnected_`, `callbacks_` | `start`, `stop`, `loop` with `initializeOID`, `destroyOID`, trap | event task starts and stops it, loop task polls |
| **Configuration**, `Configuration.cpp` | settings, `lastChange_`, listeners, button, a file in flash | setters and their notification, `loop` (delayed write, reset by the button), `load`, `write`, `fromJSON` | web server, loop task, `configChanged` |
| **main** | none | `setup`, `WiFiEvent`, `configChanged`, `loop` | everything |
| **Web server**, `Webserver.cpp` | `server_` | `/config`, `/status`, `start`, `stop` | started and stopped by the event task; Configuration, UPSHIDDevice |
| **Firmware upload**, same file | bytes remaining, the library's update, the partitions | POST `/ota` | the OTA library; restarts the board |
| **Temperature probe**, `Temperature.cpp` | `temperature_`, `failureCount_` | its task's reading | read by SNMP, web server, display |
| **OLED display**, `OLED.cpp` | logo step; page, next page, page time, button | its task | reads UPSHIDDevice and the probe |
| **User LED**, `lib/UserLed` | queue of ten states, `state_`, `led_` | `loop`, `customHSV`; `error`, `warning`, `clearError` (never called) | the main loop |

Tasks that run at the same time: the class driver, the USB daemon, the Arduino
loop (SNMP polling, configuration, button, LED), the network event task, the
HTTP server, and one each for the probe and the display.  What is hard: the
UPS may be unplugged between any two steps of the class driver; callbacks of
one task are read half done by three others; the agent is stopped from a task
other than the one that polls it, which first waits for the HTTP server; two
tasks change and notify settings, of which one also writes them with a delay;
an upload breaks off anywhere; power fails.

What makes each component correct:

- bridge: a stage finds what it asserts; handle, endpoint and transfers agree
  with the library; no `ESP_ERROR_CHECK` fails over an attached UPS; the
  application hears of devices in order; an enumerated device is opened, a
  reported one polled on, one that has left closed.
- data store: a report is decoded with the layout of the device it comes from,
  whatever its first byte; a connected UPS has readable data.
- SNMP: no OID twice, OIDs withdrawn with the UPS, a trap per loss at most.
- parser: layouts are those of the descriptor, values the bits they name.
- configuration: no change is forgotten or overtaken, unless it is one the file
  has no room for or its write fails; a reset holds.
- bridge and store together: a UPS shown as connected is one the library
  holds, and one that has gone stops being shown.
- services: agent and web server follow the link; the event task always comes
  back from stopping them.
- upload: whatever is sent and wherever it breaks off, the board only ever
  starts a whole image, and the library is left with no open update.
- front: a pressed page stays for its time, a removal comes to be shown, a probe
  that answers again is shown at once, the LED's queue never fills.

## Modules

| module | models |
|---|---|
| `USBHost` | the ESP-IDF host library as the bridge uses it (external): one port, one device object, two transfers, the client's bounded event queue, the cable |
| `HIDCallbacks` | abstract: the order in which an application is told of devices |
| `HIDBridge` | the class driver and the daemon over `USBHost`; implements `HIDCallbacks` |
| `UPSHIDDevice` | the data store; each callback a sequence of steps, one per section under a datum's mutex |
| `UPSSNMP` | the SNMP agent and GET /status over `UPSHIDDevice`, which it extends; the board restarts |
| `Gateway` | `HIDBridge` and `UPSHIDDevice` composed: the class driver task runs the store's callbacks |
| `Configuration` | settings, listeners, flash file, button, setup, POST /config, power failures |
| `ReportParser` | the parser and the value decoding with their real numbers |
| `FirmwareUpdate` | abstract: what an update may do to the partitions |
| `Webserver` | the event task, the HTTP server's task, POST /ota and the partitions, power failures; implements `FirmwareUpdate` |
| `Panel` | the display's task and the button, the probe's task, the LED |
| `HIDBridgeProofs`, `UPSHIDDeviceProofs`, `UPSSNMPProofs`, `GatewayProofs`, `ConfigurationProofs`, `WebserverProofs`, `PanelProofs`, `ReportParserProofs` | theorems |
| `MC*` | instances for TLC |

State and actions keep the source's names.

- **HIDBridge.** `actions` is the set of action bits under the stages' names;
  `pc` is where the task is: in `usb_host_client_handle_events` ("events"),
  before a stage, or "aborted" by `ESP_ERROR_CHECK`, after which the board
  restarts.  A device object is its number `devId`, so a handle is compared by
  identity; `ep_in` is the number of the device whose descriptor it points
  into.  `CtrlCallback` and `IntrCallback` are the transfers' callbacks with
  the application's callback they call.
- **UPSHIDDevice.** Numbers read from a device (layout, value, names) are the
  device's number, which is what the properties tell apart; `ReportParser` has
  the numbers. `Fields[k]` is the list of input fields of model k that match an
  entry of `datas_`, each with its report's identifier, or `Unnumbered` if no
  Report ID item precedes it: the identifier is then an `OptionalData` never
  set, any byte (`IdsOf`). `hidReportData` takes any first byte (`ReportId`)
  and compares it with every datum, used or not. A reset datum has identifier 0
  and width 0, so that a report that begins with 0 calls `setValue` on it,
  which takes no bit of the report: its number is 0, or NaN if both logical
  limits are equal (`NoBits`), and is not read while the datum is unused. The
  callbacks (`SetDeviceInfo`, `BuildFromHIDReport`, `HidReportData`,
  `DeviceRemoved`) take whatever comes; `OnInfo` to `OnRemoved` add the order
  in which the store relies on being called, and `DeviceSpec` is the protocol
  they make.
- **Gateway.** `HIDBridge`'s actions, each with what it calls: `Introduce`,
  `Describes`, `Reports`, and `RemoveEndpoint` once per endpoint before
  `Close`.  While a callback runs (`job`), the class driver does nothing else;
  the cable, the bus and the daemon go on.  `StoreProtocol` is `DeviceSpec`.
- **UPSSNMP.** `handlers` counts what the SNMP library holds, `callbacks` what
  `callbacks_` lists.  `initializeOID` is a step per datum.
- **Configuration.** A setter is a change under `mutexData_`, then a
  notification under `mutexListeners_` in which `configChanged` reads and
  applies: three steps of either task.  The address, the subnet and the gateway
  are the three parts of one setting, which one setter sets and one section of
  `fromJSON` reads (`Merged`).  `Image` is what `toJSON` writes: all but the trap
  address, and the gateway as DHCP when the *subnet* is DHCP, which is what line
  311 tests (`Written`).  `WriteFails` is a write of which `open`,
  `serializeJson` or `close` failed, unseen: the file is as it was, or cut short.
  An absent file, and one that cannot be read, are one with the defaults.
  `missed`, `posted` and `lost` are history.
- **Webserver.** `events` is the event task's queue, `evt` where `WiFiEvent`
  is, `req` where the one handler that runs is.  The handlers other than
  POST /ota are `Ask` and `Answer`: what they do to other components is in
  those components' modules.  A body is counted in chunks; `recv` is what
  `httpd_req_recv` returned.  As its result is kept in a `size_t`, only 0 is
  seen as an end (`Break`), and a time-out goes where data go, to
  `esp_ota_write`.
- **Panel.** `since` is the time since the page last changed, as far as it is
  compared; `buffer` is what is drawn, `screen` what `display()` last sent.
  `LedLoop(due)` is the loop's turn, with or without its 100 ms over.
- **ReportParser.** An item is its type, tag and bytes; a descriptor grows an
  item at a time.  A value never set is any of `Garbage`.  The loops over bytes
  and bits are `SumTo` of their terms, a shift is `Pow2`, the bit setValue
  looks at is `Bit`.  `LastOf`, `Setting`, `FieldOf` and what follows them say
  what a descriptor means from its items alone, without the parser's state.

## Runs

| run | bounds | shows |
|---|---|---|
| `gateway` | 3 models (two UPSs with different packet sizes, one of two endpoints; one device that is not HID), 3 enumerations, 2 addresses, a queue of 2, 2 data | handle discipline, agreement with the library, one request at a time, the endpoint, DEV_GONE, no abort while attached, what an attached UPS is closed for; `HIDCallbacks` and the store's protocol; a UPS shown as connected is held; an enumerated device is opened, polling goes on, a device that has left is closed or being retried, and is no longer shown |
| `bridge_gone` | the bridge alone: 2 UPSs, 2 enumerations, the code's queue of 5 | violated: DEV_GONE closes the device |
| `ups` | 3 data, 2 of them published, 2 models that differ in fields and reports, one without report IDs, first bytes 0 to 2, 2 connections | layouts, OIDs, traps and status are of one device; OIDs are withdrawn |
| `ups_oids`, `ups_values` | the same | violated: all published data have OIDs; reset resets values |
| `config` | 3 values, DHCP among them, 1 POST of 2, 1 power failure, 4 ticks with a delay of 2 | nothing forgotten, the interface current, a reset holds; what is due is written; each but for what `toJSON` leaves out and for a failed write |
| `config_restart` | 1 POST of subnet, gateway and trap, no power failure | violated: what is saved is what is set |
| `parser` | 2 data, descriptors of up to 11 items, 2 reports | layouts and values, the values of data without a physical range |
| `parser_place` | the same | violated: a field's place is its first bit |
| `web` | 2 partitions, bodies of up to 2 chunks, 2 events waiting | services follow the link, no update left open, `FirmwareUpdate`, the event task returns |
| `web_timeout` | the same | violated: a time-out is retried |
| `panel` | 1 temperature, page times 1 and 2, 2 failures, 2 frames, 2 colours | the probe recovers, a press holds, a removal is shown, the LED's queue |

The bounds. Three enumerations let a device be replaced while an earlier one's
message is in the queue and another is opened after that; a queue of two
overflows, which is why the liveness properties speak of a message that is in
the queue. Two models and two connections are what a stale layout, OID or value
needs, and three first bytes are a reset datum's identifier and two others;
three data let a callback be read before, at and after a datum. A delay of two
ticks lets a change fall before, in and after it, and one POST overlaps with a
reset by the button, which is the other writer; it may set the subnet to DHCP
and the gateway to an address. Eleven items fit a page, a report, a size, a
count, both ranges and two fields of a later usage, which is what a leak or a
misplacement needs; the physical range is none, 0 to 0, half given or 0 to 100.
Two chunks make a first, after which the partition holds a part, and a last;
two waiting events let the link come and go while the event task waits for a
handler, and restarts are not bounded at all. Page times of one and two ticks
keep the order of 3 s and 10 s; two failures are one below the maximum and the
maximum; two colours tell the one sent from the one shown.

**Fairness.** Bridge and gateway: both tasks are scheduled, a control transfer
ends (it has a time-out), a panic restarts the board; nobody need plug a UPS
in, and an interrupt transfer need not end.  UPS: a callback that has begun
ends, the loop task keeps polling; no device need come or go.  Configuration:
each task runs; the loop's attempt to take the data mutex without waiting
succeeds again and again, because what runs under it is a few assignments
(strong fairness of `LoopCheck`); nobody need press, post or fail.  Web
server: its task runs and `httpd_req_recv` returns, if only by its time-out;
the event task is strongly fair because the HTTP server takes the order to
stop between two rounds of its few connections, whoever else asks.  Panel: the
display's task runs and time passes; nobody need press.

**Assumed of the environment.** The bridge's client is registered before the
first enumeration is announced, which the code leaves to a delay. The clock
starts after 0 and does not wrap. Descriptor items have 1, 2 or 4 bytes.
`ValueIsTheBits` speaks of data without a physical range and with distinct
logical limits (with equal ones `setValue` makes a NaN), of reports that are as
long as the layout says (`Holds`; beyond, `setValue` reads what follows the
report) and of fields of at most 30 bits with a logical minimum of at least
-2^30 (`Fits`; beyond, its 32 bits overflow); the input fields of interest in
the captures under `docs/` have at most 16 bits and a minimum of 0. Applying
the device name on ETH_START is one step: it is over before the web server
starts. Devices are enumerated one at a time through one port, whose cable any
model may be on. `httpd_stop` waits for the handler that runs; `esp_ota_end`
and `esp_ota_set_boot_partition` refuse an image that is not whole;
`esp_ota_write` writes to no partition but the one it was begun for, and given
a length that no partition has it fails or faults. `OLED.cpp` and GET /status
call `tempProbe.getTemperature()`, which `Temperature.hpp` does not declare; it
is taken for `getTemperatureProbe()`.

## What the code does not keep

Each is a run that TLC finds violated.

1. `GoneIsClosed`: a descriptor request that is refused, because the UPS was
   unplugged after its interface was claimed, keeps its action bit; the loop
   handles events only when no bit is set, so DEV_GONE is never handled and
   the task spins (`usb_host_hid_bridge.cpp:253`).
2. `OidsMatchUps`: `connected_` is set after the first field parsed; an agent
   that polls then publishes only what is known, and never the rest
   (`UPSHIDDevice.cpp:210`).
3. `ValueIsOfDevice`: `reset` leaves `value_` (`UPSHIDDevice.cpp:130`).
4. `RestartKeepsSettings`, twice in the same trace: the trap address is read
   from the file and never written to it (`Configuration.cpp:304`); the gateway
   is written as DHCP whenever the subnet is DHCP (`Configuration.cpp:311`).
   `NothingForgotten` and `DueIsSaved` therefore leave both out
   (`HoldsMemory`).
5. `PlaceIsBit0`: `reportCount * reportSize` multiplies two truth values
   (`UPSHIDDevice.cpp:213`); single-bit fields hide it, which
   `BitFieldsPlaced` states.
6. `TimeoutIsRetried`: the result of `httpd_req_recv` is kept in a `size_t`;
   a time-out is no value "<= 0", and the upload fails instead of going on
   (`Webserver.cpp:105`).

Others are visible in the modules without a run: the board aborts when a UPS is
unplugged between its NEW_DEV and the open stage (`OpenAborts`) or before its
interface is claimed (`CloseAborts`); the configuration's loop reads the clock
before it takes the mutex, so that a change made in between seems very old and
is written at once (`Elapsed`); `resetToDefault` leaves the trap and MAC
addresses; page 0xFF85 is taken for 0x85 (`Match`). A datum with a physical
range, other than 0 to 0, has the value 0 whatever is reported: `setValue`
fills `physicalMin` and `physicalMax` from the logical range only
(`UPSHIDDevice.cpp:71`), so that the factor is 0. `ValueIsTheBits` leaves such
data out; `RangeLost` of `ReportParserProofs` states it. A write to flash that
fails is not tried again, because `lastChange_` is cleared first
(`Configuration.cpp:265`, `lost`). A POST that names no part of the address
still sets the address it read, and may undo a reset (`Configuration.cpp:79`).
The probe's failure counter withholds nothing: up to its maximum the failed
reading is published, under the comment "Read ok" (`Temperature.cpp:97`), and
at the maximum the value published is the same. `ProbeRecovers` says what holds
whether or not failed readings should be withheld: good readings are published,
and the maximum of failures is shown as a disconnection. A press shows page 1
for its ten seconds even if the UPS goes meanwhile (`Turn`): the code's page
time of 0, which is to leave that page at once, is overridden; `RemovalIsShown`
says only that the display comes to it.

## Proofs

`HIDBridgeProofs` holds for any set of models and addresses, any queue length
and any number of connections.  It assumes of the constants what `USBHost`
declares.  No safety property is inductive alone.  `IInv` adds to the types:
`HandleInv`, the handle and the library's state; `RequestInv`, a single token
goes round: one stage under way or one transfer out, from which it follows
that a transfer is never submitted twice; `PipeInv`, a transfer uses a claimed
interface with the noted endpoint, and an attached device that is to be closed
can be; `MessageInv`, a queued DEV_GONE is of a device seen to leave, and there
is none of an earlier device once the next is to be opened, because a pass
starts only with an empty queue; `AppInv`, what the application knows at each
point.  From it follow the run's invariants, `NoAbortWhileAttached` as an
action property, and `CallbacksImplemented`: initial states map to initial
states and each step to a step of `HIDCallbacks` or a stutter.  `AttachedKept`
needs one more invariant, `KeptInv`: an attached device that waits to be closed
has a halted pipe or a packet size that does not fit.

`UPSHIDDeviceProofs` holds for any number of data, any descriptors and any
number of connections, and of the store alone: `DeviceSpec` is any caller that
keeps the order `OnInfo` to `OnRemoved` state.  `StoreInv` is the types and
`DeviceInv`, which ties a datum in use to the latest device and to its
descriptor, with the two windows in which it is not so: between a match and
its setters, and ahead of a reset's index.  Outside them a datum that is not in
use has no layout, which is why a first byte of 0 is harmless although it
selects reset data: identifiers play no part in the proof.  The three invariants
of the store follow (`StoreOwnLayout`, `StoreLayout`, `StoreConnected`).

`GatewayProofs` holds for any models, data, descriptors and queue, with as many
devices considered by the store as by the host.  `BridgeKept` maps every step
of the composition to one of the bridge or a stutter, so that `IInv` holds of
it, and with it everything said of the bridge (`BridgeInvariants`,
`BridgeActions`).  `LinkInv` then ties the two: while a callback runs, the class
driver is at the point that called it, and store, application state and library
speak of the same device; `connected` needs a described one.  `ConnectedHeld`
follows, and `StoreDriven`: the composition implements `DeviceSpec`, which
discharges what `UPSHIDDevice` assumes of its caller.  The store's theorems so
become theorems of the program (`StoreInvariants`).  What they assume is the USB
host library, as `USBHost` has it, and that the first byte of a report is a byte
(`ReportIdAssumption`); nothing is assumed of the identifiers a descriptor gives.
The two halves meet in `ReportsAreOfHeld`: while a report is stored, its device
is the one whose handle the bridge holds, a datum in use has that device's layout
and any other has none.

`UPSSNMPProofs` holds for any number of data, any descriptors, any published
list and any number of connections.  `StoreKept` says that agent and status
only read the store: the program with them implements `DeviceSpec`, from which
the store's invariants follow.
`HandlerInv` says that a poll which finds no UPS to forget starts from no
handlers; `TrapInv` that a UPS the agent has yet to miss is connected or
counted as lost; `StatusInv` that a status begun with this device was begun
after its descriptor.

`ConfigurationProofs` holds for any values, any documents that name settings
`fromJSON` knows, any delays and any number of requests and restarts.
`TaskInv` keeps the tasks apart: who applies a setting holds
`mutexListeners_`, and the loop task has setters to run in a reset only.
`NothingForgotten` speaks of all that `toJSON` writes (`HoldsMemory`) and excepts
a write that failed; `FileInv` adds to it that an image about to be written with
no later change is that of memory.  `NotifyInv` says why two racing setters leave
the latest value: what is about to be applied is what is in memory, or another
task has changed that setting since and has yet to notify.  `ResetInv` says
that each setting of a reset under way has been set or is still ahead, so that
none is passed over when the two tasks interleave.

`WebserverProofs` holds for any partitions, any body and any queue of events.
`ServicesFollowLink` is inductive with `EventsEndWithLink`: the last event
waiting is the link's state, and the one being handled is if none waits.  The
types need `ChunkIsDue`.  `FirmwareCorrect`, the refinement, rests on
`BootIsWhole` (another partition is chosen only while a restart is due, and
both are whole, so that no upload can begin to write it) and `UploadIsWhole`
(an upload that is over and valid has left a whole image).

`PanelProofs` holds for any temperatures, times, frames and colours.
`ProbeRecovers` needs that a counted failure is a failed reading;
`PressHolds` follows from the steps alone; `LedInv` bounds the queue by the
one colour sent last, because each turn takes before it sends.  The types are a
conjunction by task (`PanelType`), which each step keeps part by part.

`ReportParserProofs` holds for any table of usages, any descriptor of short
items, of any length, and any reports.  `SumTo` and `Pow2` are recursive
functions, and the library's induction theorems take a predicate the provers
cannot supply; the induction here is over a *set* of numbers instead, by the
least number of its complement, which exists because the order of the naturals
is well founded.  `SignedIsTwosComplement` shows that shifting to the top of 32
bits and dividing towards zero by 2^k - 1 is sign extension, of 1, 2 and 4
bytes; `RawValueIsTheBits` that the loop over bits takes the number's bits,
across bytes too.  `ParserInv` says that the parser's state is what the items
read so far mean: `GlobalsInv` and `UsageInv` for the item tables,
`BitInv` for the bit counter, `FieldsInv` for each datum's layout.  The layout
is fixed at the first field of a datum, so `FieldsInv` needs that the meaning of
a place in the descriptor does not change as items follow it.  `FirstFieldTaken`
and `BitFieldsPlaced` follow; `ValueIsTheBits` needs also that layouts stay as
they are once reports arrive (`ValueInv`), and `RangeLost` says what becomes of
the data it leaves out.

Only model-checked: liveness (`OidsWithdrawn`, `DueIsSaved`,
`EventTaskReturns`, `RemovalIsShown`, and the gateway's `EnumeratedIsOpened`,
`PollingContinues`, `GoneIsClosedOrRetried`, `GoneIsDisconnected`), which is out
of the prover's reach.  Every other property of a passing run is a theorem.

## Not modelled

The HTTP server's authentication (`authDigest_` is never set, so that every
request passes); the LED's error, warning and clear states, which nothing
requests; what page 1 of the display prints, and a display that does not
answer; the SNMP agent's fixed OIDs; the encryption of the password and the
formatting of JSON and SNMP (libraries, no control); `NO_TEMP_PROBE` and the
like (build variants); boards, hardware and captures.  Data races on strings
(`model_`, `serial_`) have no bounded set of outcomes.

## Plan

1. Done: bridge, data store and agent, configuration, parser; their proofs.
2. Done: services, upload, probe, display and LED, with their proofs.
3. Done: the gateway, and that the bridge drives the store as it assumes.
4. Done: the parser, the types of the panel, the store on its own and what it
   gives the composition.
5. Left: the agent of `UPSSNMP` over `Gateway`: that a trap or an OID is of the
   device the bridge holds or held last.
