# Modulus pendant: formal models of the control core

Modulus is a hand-held pendant (M5Stack Tab5, ESP32-P4) for CNC machines. It
shows what a motion controller does and sends it commands; with grblHAL it can
also stream a G-code program from a USB stick. Two more boards belong to it: an
ESP32-S3 bridge, which puts the controller's UART on the air, and a NanoH2 hub,
through which the Tab5 switches the dust collection over Zigbee. The code that
decides what the machine and the shop are told is small, spread over tasks, CPU
cores, boards and lossy links, and largely free of locks. That is the part
modelled here: `src/src/modulus/cnc/`, `firmware/` and `core/` (Zig), and of the
C firmware `src/firmware/s3-bridge/`, `nanoh2/` and the files of
`tab5/components/modulus_zig/` that automate the shop.

Paths below are relative to `src/src/modulus/` unless they start with `src/`;
`ZA` is `src/firmware/tab5/components/modulus_zig/zb_automation.c`.

## 1. The system

### Tasks and data flow

| task | core | what it runs |
|---|---|---|
| transport callbacks, `serial_rx` | any | `feedSerial`: push received bytes into the RX ring |
| `sys_task` (`firmware/system_task.zig`) | 1 | `systemTick`: capture `tick_ms`, drain the ring into the driver, poll the driver, pump the job |
| UI (`firmware/device_ui_*.zig`) | 0 | buttons: `jobLoadUsb`, `jobStart`, `jobHold`, `jobResume`, `jobAbort`, `cmd*` |
| transport reinit, deferred connect | any | reopen the transport, call `onConnect` later |
| `zb_auto` | 0 | once a second, `modulus_zb_auto_poll`; scenes come from the UI |
| `zb_uart_cmd` | 1 | the worker that sends Zigbee commands to the hub, one at a time |
| on the bridge: radio callbacks, `inbound_worker`, `outbound_worker`, `uart_rx_task` | any | packets from the air to the UART and back |

The UI copies the driver's snapshot under a lock. The streamer, the runner, the
engine and the send path are called from both cores without one.

### Components

| component | state | operations | talks to | hard behaviour | what makes it correct |
|---|---|---|---|---|---|
| G-code job streamer: `cnc/job_stream.zig`, `firmware/job_runner.zig` | state, fault, ring of unacked line lengths, byte count, next line, claim and grant flags, ack baselines | load, start, hold, resume, abort, onOk, onError, onMpgGranted, onMpgLost, next, release | engine (send, counters), USB volume, snapshot | two cores without a lock, claim and grant handshake by a toggle byte, dead-man, lost and repeated frames | the window is exact and never over-fills the controller; lines go out only under a grant; the port is returned; a job ends, and "complete" means executed |
| Receive ring: `core/fixed_ring.zig`, `cnc/rx_ring.zig` | two wrapping counters, storage | push, readableSlice, consume, drainInto | serial_rx, sys_task | lock-free, wrap of counters and of storage, overflow | a bounded FIFO; nothing unread is overwritten; what is pushed is drained |
| grblHAL session: `cnc/grblhal/engine*.zig`, `session.zig` | session state, handshake flags, timestamps | connect, poll, processLine, disconnect, send* | transport, driver | timeouts, retries, stale answers, alarms during the handshake, a PC sender that owns the machine | handshake ends; alarms lock; silence is noticed; passive while another sender runs |
| grblHAL parser: `parser*.zig`, `capabilities.zig` | status, controller info | parseLine | engine | split and over-long lines | text, not protocol |
| CNC driver: `driver.zig`, `driver_commands.zig`, `driver_gating.zig` | snapshot, user MPG wish | cmd*, poll, onConnect | engine, UI | commands gated on a stale snapshot | no command reaches a machine that another sender runs |
| Driver session: `driver_session.zig` | defaults flag, sync queue | applySessionDefaults, sync | engine | any ok advances the queue | a line waits for the ok of the one before it |
| Probe engine: `probe_engine.zig` | cycle step, wait, deadline | start, onEvent, poll, cancel | driver, UI | one sampled event for each chunk of bytes, timeout against late answer | a touch is measured by its own position; a cycle ends |
| LinuxCNC, Mach3, Masso engines: `stream_poll.zig`, `*/engine.zig` | session state, handshake flags, timestamps | connect, poll, processLine, disconnect, send* | TCP transport, driver | one poll loop for dialects that answer differently, lines that come in after a disconnect, limits that apply state by state | handshake ends; ready means enabled; an emergency stop is seen; silence is noticed, and only silence |
| Deferred connect, transport reinit: `deferred_connect.zig`, `transport_reinit_task.zig` | task handle, pending flag | schedule, cancel, request | driver, transports | a task deleted while it runs | one connect per open |
| ESP32-S3 bridge: `src/firmware/s3-bridge/` | two queues, the Tab5's address, one send in progress | radio and UART callbacks, two workers | Tab5, controller | full queues, late completions, notes taken by one task and applied by another | bytes in order, replies to the Tab5 |
| Zigbee command link: `zb_uart_host.c`, `src/firmware/nanoh2/main/` | queue, sequence number, noted acknowledgement | enqueue, worker, note_ack; the hub's handler | Tab5 tasks, Zigbee devices | retries, late answers, a hub that restarts | what is reported done was done, in order |
| Shop automation: `ZA`, `wireless_shim_802154.c` | two timers, what the last poll saw, run-on, job progress | poll, four scenes | driver status, Zigbee link | a poll against a user's scene, stale device states, a hub out of reach | no vacuum against a closed gate; all off after an alarm |
| others: ESP32-C6 radio, event bus, settings, maintenance, boot, OTA, terminal, UI | | | | | I/O, start-up or presentation |

### Interaction of the modelled parts

```
 USB file -> Streamer.next -> applyAction -> engine.send -> radio/UART -> controller
                ^   ^                                                        |
   UI buttons --+   +- ok_count, err_count, mpg_remote <- processLine <- RX ring
```

A line costs its bytes in the controller's RX buffer; an `ok` frees the oldest
one. Realtime bytes (`0x8B` MPG toggle, feed hold, cycle start, `0x18` soft
reset) bypass the buffer.

```
 machine status -> zb_auto poll --+
                                  +-> command queue -> worker -> UART -> hub -> gates, vacuums
 scene tapped in the UI ----------+        ^                      |
                                           +---- acknowledgement -+

 Tab5 -- ESP-NOW --> on_recv -> inbound queue -> UART --> controller
      <-- one send at a time -- outbound queue <- UART --
```

## 2. Modules

| module | models | role |
|---|---|---|
| `JobStream` | streamer, runner, job entry points; any controller | core |
| `MCJobStream` | instances for TLC | model checking |
| `JobLink` (extends `JobStream`) | the same with the link and grblHAL's MPG port closed around it | composition |
| `MCJobLink` | instances for TLC | model checking |
| `JobStreamProofs` (extends `JobLink`, `TLAPS`) | theorems about `JobStream` and `JobLink` | proofs |
| `RxRing` | the lock-free ring, byte by byte | detailed |
| `ByteQueue` | what the ring promises; `RxRing` is shown to implement it | abstract |
| `RxRingProofs` (extends `RxRing`, `TLAPS`) | theorems about `RxRing` | proofs |
| `MCRxRing` | instances for TLC | model checking |
| `GrblSession` | the grblHAL session with a controller at the other end | component; checked as it is |
| `GrblSessionProofs` (extends `GrblSession`, `TLAPS`) | theorems about `GrblSession` | proofs |
| `StreamSession` | the LinuxCNC and Mach3 sessions over TCP, with a controller at the other end | component; checked as it is |
| `StreamSessionProofs` (extends `StreamSession`, `TLAPS`) | theorems about `StreamSession` | proofs |
| `DriverEvents` | probing cycles and the settings queue, driven by the sampled event | component; checked as it is |
| `DriverEventsProofs` (extends `DriverEvents`, `TLAPS`) | theorems about `DriverEvents` | proofs |
| `BridgeRelay` | tasks and callbacks of the ESP32-S3 bridge | detailed; checked as it is |
| `BridgeRelayProofs` (extends `BridgeRelay`, `TLAPS`) | theorems about `BridgeRelay` | proofs |
| `LossyFifo` | what one direction of the bridge promises; `BridgeRelay` implements it twice | abstract |
| `ZbCalls` | the Zigbee command link, host, UART and hub | detailed; checked as it is |
| `ZbService` | what the link promises its callers; `ZbCalls` is shown to implement it | abstract |
| `ZbCallsProofs` (extends `ZbCalls`, `TLAPS`) | theorems about `ZbCalls` | proofs |
| `ShopAuto` | poll and scenes of the shop automation | component; checked as it is |
| `ShopAutoProofs` (extends `ShopAuto`, `TLAPS`) | theorems about `ShopAuto` | proofs |

`MutX` operators stand before the definition they vary; each is the form a
plausible bug would give it. No specification uses them.

### JobStream

`pc1` is where `sys_task` stands in a tick, `pc0` where the UI stands in a
button handler. One call of a streamer method is one step; between two calls
the other core may run. `next()` is split in two at its only slow call, the read
of the USB volume (`PumpRead`, then `PumpLine`, `PumpFull`, `PumpOversize` or
`PumpNullRead`). `jobStart` and `jobAbort` are split between the change of the
streamer and what follows it (`UiStart`/`UiBaseline`, `UiAbort`/`UiAbortReset`);
hold and resume, where nothing else depends on the order, are one step each.

| pc1 | in the code |
|---|---|
| `rest` | between two ticks |
| `drain` | `rx_ring.drainInto`, `Driver.poll`; the `Rx*` actions |
| `acks` | the `onOk` loop of `pump`, then grant or loss |
| `next`, `read`, `send` | the send loop: `next()`, its read, `applyAction` |
| `finish`, `idle` | `finish`: the release, then the move to idle |

Abstractions. A file is the prefix sums of its line lengths (`Offset`). Time is
in steps of the millisecond clock as coarse as the timeout; `age` and `lag` are
differences, as the code only ever subtracts. `Expired` keeps the unsigned
subtraction: a stamp from the UI that is younger than the tick's clock wraps to
a huge interval. The ack counters wrap at `CounterMod`. `tx` holds what is handed
to the transport; a sender blocks when it is full (`MaxWire`), as the serial
write does. `UsbLineSource` never sets `io_failed`, so a null read is modelled as
what `next()` makes of it: the end of the file. A file of no lines, which `load`
refuses, is left out; `JobRunner.clear` has no caller.

The controller is open: acks, errors and reports arrive in any order and number,
so a property of `JobStream` holds for every controller. `conn` is whether the
engine's session is open (`isConnected`). The engine's poll closes it when nothing
was heard for 3 s (30 s while the machine is busy; the dead-man of a job takes 4 s):
`SnapshotRefresh` may do so, with `Silences`, in any tick that has brought no report
(`silent`; an `ok` restarts the response limit, but not that of a query). While the session is closed `Driver.poll` returns early and the
snapshot keeps the grant it saw last, while the parser goes on taking reports and
the pump goes on pumping. A connect (`SessionOpens`), a report with the grant, a
locking alarm or a reset opens it again. `fresh` is a history variable: this
tick's poll found the session open. A change of the protocol or the transport in
the middle of a job is left out.

### JobLink

Closes the loop with a controller as the comments of `job_stream.zig` and
`engine_send.zig` describe grblHAL: a line enters the RX buffer only while the
port owns the stream, each executed line is answered by one `ok`, the toggle
flips the mode only in Idle and is always answered by a report, `0x18` empties
buffer and planner. All of it is external to the repository and marked so in the
map. Frames may be lost either way (`Lossy`), a line frame delivered twice
(`Dups`), a claim refused (`Refuses`), lines acknowledged before they have been
executed (`Plans`). Three history variables serve the properties only: `ran`, the
lines executed since the job was started; `smooth`, that so far nothing was lost,
repeated, refused or reset, nor the session closed; `clean`, that when the last job
was started nothing of an earlier one was left: no line of it on the wire or in the
buffer, no `ok` under way. `clean` is the premise of the six properties about a job's lines,
since a dead-man leaves such lines and the code does not clear them (section 5).
`Bytes`, the bytes of the lines in a sequence, is the `SumOf` of `JobStream`.

### RxRing and ByteQueue

`push` is three steps (read both counters, copy byte by byte, publish `head`),
`drainInto` likewise (take a slice, feed it byte by byte, publish `tail`). The
acquire and release orders of the code allow the interleaving semantics of TLA+.
`IsQueue` is the refinement: `Queue == INSTANCE ByteQueue WITH q <- Queued`,
where `Queued` are the published bytes that the sink has not seen.

### GrblSession

`poll` (one action for each state of its switch), `processLine` (one action for
each kind of line), the transport's connect and disconnect, the commands reset,
stop and unlock, and a controller that answers, reboots, alarms, runs jobs of a
PC sender, loses frames and may fall silent. UI commands and `processLine` are
each one step: their writes to the flags are single stores. Answers bring about
sends at once (`Transmit`); polls and commands wait for room (`TransmitIfRoom`,
bound `MaxQueue`), which stands for the much slower pace of the clock. A
reported alarm carries its code, as in all of the repository's tests. Left out:
the classic Grbl branch, the `$G` poll, the settings dump, overrides and jog
builders.

### StreamSession

One module for the two dialects, as the code has one poll loop for both
(`stream_poll.zig`); `dialect` is chosen in `Init`, as one engine is active. The
actions are the poll (`PollGiveUp`, `PollQuery`, `PollStatus`), one for each kind
of line in either `processLine`, the commands reset and unlock, and a line of
G-code as an example of what Mach3 answers by `OK`. A status poll of three or
eight requests is one item, and its answer the line about the emergency stop
followed by one for all the others. Lines are processed whatever the session's
state, as in the code: those that were received before the link broke may open a
session again, until it is given up. The controllers are external: linuxcncrsh
with verbose off answers a `set` by nothing, MMBP each command by `OK`, as the
tests of the engines play them. Left out: Masso, whose datagrams go through an
engine of their own; jog, home, override and coolant builders; the INI pull; the
WebSocket framing.

### DriverEvents

`Driver.feedAt` parses a chunk of bytes and then hands the *last* event of it to
whoever waits for an answer: the probing cycle (`onEvent`) and the settings
queue (`onRxProcessed`). `Feed(n)` is a chunk that ends n lines; `pc["sys"]`
then goes through `event`, `send` and `arm` (a line, and the wait it arms),
`sync`, `poll`. The UI starts and cancels cycles and queues settings between any
two of these. `Shape` is the sequence of waits of each cycle. A touch carries
its number, and the position in a `[PRB:]` report is the number of the touch it
measured, so a position taken for the wrong touch is visible. A behaviour picks
its `trouble` at the start: none, chunks that end no line, lost frames, lines of
the operator, cancels and restarts. Left out: the arithmetic of positions, the
passive gate (as good as a loss) and the disconnect (as good as a cancel).

### BridgeRelay and LossyFifo

`on_recv` only takes notes: the station to learn, the one to acknowledge, the
packet to pass on. Each of the three tasks goes round its loop: take the noted
station (`LearnTake`), register it (`LearnApply`), send a noted acknowledgement,
then its own work. All three send through `espnow_send_chunk`: lock, drain an old
completion, hand the frame to the radio, wait. The lock may not be had in time,
the wait may time out, and the frame still goes out later. `InboundFifo` and
`OutboundFifo` are the same abstract specification, once for what is written to
the UART and once for what a station hears. Left out: the HALT line, which the
callback sets by itself, counters, configuration, and what the breaking off of a
write leaves in the UART: such a packet counts as lost.

### ZbCalls and ZbService

`enqueue_cmd`, the worker's `send_cmd_blocking` (a try, its timeout, the next
try), `note_ack` in the receive task, and the hub's `zigbee_hub_process_cmd`. The
UART loses frames, since both ends drop those with a bad checksum, but keeps
their order. The hub may restart at any time and may not have formed its network
yet; the initialization that fails while a command waits for the stack's lock is
answered under the command's number (`HubInitFails`). Sequence numbers come round
after any number of tries. `reused`, a history variable, says that the number of
the try in progress was still under way with an earlier try when it was given
out; it is the `doubt` of `ZbService`, under which alone a command may be reported
done by the reply to another one (section 5).

### ShopAuto

One tick is the 500 ms that a gate leads and follows its vacuum; timers are the
ticks that remain. The poll is cut where it gives a command, so that a scene of
the UI task may come between its parts (`trouble` "mid"). A pass over the devices
(`auto_apply_which`, `force_all_off`, the Idle scene) queues a command for each of
them, and the worker of the Zigbee link carries them out one after the other:
`cmds` keeps, instead of the commands, the states of all devices that the queued
passes lead to, and `Carry` moves one device towards the first of them. A command
that changes nothing is a stutter, and since the order within a pass is that of
the registry, in which the devices were paired, the model takes any. `known` is
the state in the registry, by which `drive_device` decides whether to send; it
follows by `Report`. In an ordinary behaviour all is carried out and reported
before the next scene or poll begins, but it need not be between the parts of one;
with "late" only the queue is empty at each tick of 500 ms. `missed` is a history
variable: a pass has left out a command that was needed, because the report was
old or the hub out of reach. The queue of 16 is never full, and what is
queued is lost only with the hub (`ZbCalls` has the losses of the link). One poll
at a time is assumed, see section 5. Left out: the user's own switches, levels and
colours, power sampling, the shifting of modes when a device is removed, the
door interlock.

## 3. What is checked

Every state invariant, action property and liveness property below is broken by
a mutant of a mapped definition, listed in `PROJECT.json`. The type invariants of
the modules with a proof are proved (section 4) and not run again, but for the
two whose bounds on queues a mutant breaks.

| run | instance | properties |
|---|---|---|
| `JobWindow` | 3 lines of 1, 2, 2 bytes, window 3; pause, resume, MPG and stop keys, operator's lines, a USB volume that fails | `TypeOK`, `WindowInv`, `CompleteMeansDrained`, `TogglesPaired` |
| `JobButtons` | lines of 1, 1, 3 bytes, window 2, of which the last fits none; load under a running job, abort, restart, `error:N` | `BytesConserved`, `NoReadAfterReset` |
| `LinkLossy` | 3 lines, two jobs, loss both ways, refusals, planner, a session that is given up; counters modulo 4 | `FlightFits`, `AckedMeansRun`, `RunsOnce`, `RunsInOrder`, `CompleteMeansRun`, `LineNeedsGrant` |
| `LinkEnds` | 2 lines, loss, duplicates, refusals, silence; fair | `JobEnds`, `RunsNeverBack`, `PortReturned` |
| `RingQueue` | 4 slots, counters modulo 8, deliveries of 1 to 5 bytes; fair | `NoOverwrite`, `IsQueue`, `Drained` |
| `GrblSession` | alarms, reset, stop, unlock, 2 commands or connects; a controller that may fall silent, or PC jobs, or loss; fair | `BlockedIsMpg`, `Connects`, `AlarmSeen`, `LossNoticed` |
| `StreamSession` | both dialects; breaks, silence, 3 commands or connects, with or without rough surroundings; fair | `ReadyIsEnabled`, `Settles`, `EstopSeen`, `LossNoticed`, `KeptWhileAnswered` |
| `DriverEvents` | the Z cycle, two settings, all troubles; fair | `ReadbackIsOwn`, `SentInTurn`, `CycleEnds` |
| `BridgeRelay` | two stations, 3 packets in over a queue of 2, or 2 out over a queue of 1, or one each way, 2 frames in flight; fair | `TypeOK`, `InboundFifo`, `OutboundFifo`, `PeerSettles` |
| `ZbCalls` | 3 commands, queue of 1, 2 tries, 1 restart; fair | `RunsPerTry`, `KeepsPromise` |
| `ShopAuto` | a gate, a vacuum, a resting switch, a lamp; 2 scenes, all troubles; fair | `VacuumHasGate`, `HaltMeansOff`, `RunBringsAir`, `StopEndsOff` |
| `JobRelease` | smallest instance of `JobStream` | `ClaimIsReleased`, violated: section 5 |

What they show, in words:

- **Window.** `inflight` is exactly the bytes of the tracked lines, and these are
  exactly the last ones read, whatever acks (surplus ones included), pauses, lost
  grants and buttons interleave. The one exception is a load while another job is
  being read: the read that was under way enters the new job's window. Then the
  lines are no longer consecutive, but their bytes are still counted exactly
  (`BytesConserved` in `JobButtons`).
- **Grant.** In a tick whose poll found the session open a line is handed over only
  while the last report grants the port. With the session closed it need not be:
  section 5, no. 10.
- **Order.** Without loss the machine executes exactly the first lines of the
  file; with loss no line runs twice, the buffer still never overflows, and a job
  that ends as complete has been executed to its last line; with duplicated frames
  it still never goes back. All of this holds of a second job as of the first,
  provided that it was started with nothing left of the first.
- **Ends.** A started job ends whatever controller and link do. `JobEnds` is
  checked without the hold button: an operator may leave a job paused for ever.
- **Ring.** A bounded FIFO that loses only the tail of a delivery.
- **Session.** The handshake ends, alarms lock in every state, and a dead
  controller is noticed in all states but the two that have no time limit.
- **LinuxCNC and Mach3.** No state of the session hangs: a handshake, an unlock or
  a query ends in a session that can be used or is given up, silence is noticed
  in every state, an emergency stop is seen although an `OK` has just called the
  session ready. LinuxCNC is never ready on a connection that has not been
  enabled. With a controller that answers in time none is given up.
- **Sampled event.** As long as every chunk ends a line, nothing is lost and
  nobody else is answered, each touch takes its own position and each line of a
  cycle or of the settings waits for the ok of the one before it. A cycle ends
  under every trouble, unless its deadline is 0 or lies right before the wrap of
  the clock.
- **Bridge.** Neither direction reorders or repeats, whatever times out, fills up
  or completes late, and replies settle on the Tab5 when it alone keeps talking.
- **Zigbee.** Commands are carried out in the order they were accepted in, at
  most once for each try; "done" means done, and not undone by an older command,
  unless the number of the try was still in use; every command is answered.
- **Shop.** As long as no command was missed, no vacuum runs against a closed gate,
  but for the moment between the two commands of a hard-off that closes the gate
  before it turns the vacuum off; none goes on running after ALARM, DOOR or a lost
  connection; a run ends up with air, a stop without, in whatever order the scenes
  and stops before it came. After a halt none is left armed in any case.

### Bounds, and why they are enough

- *Lines 2 to 3, window 2 or 3.* Both limits bind somewhere: the third line does
  not fit while two are in flight, in `JobButtons` `max_inflight` binds with the
  bytes and the last line fits no window. The proofs hold for every file.
- *AckTimeout 1.* Silence of more than one step times out; the ack that comes in
  time, late, and never are all present.
- *MaxLag.* With 1 a tick may see one clock step, so the UI can stamp a younger
  time than the tick's: `LinkEnds` and `JobRelease`. The larger safety runs use 0,
  where all threads see one clock; what `JobStreamProofs` proves, it proves for
  every lag.
- *CounterMod 2, 3, 4 or 8.* All but the last make the counters wrap within a run.
  In `JobStream` the delta of a tick is a number below the modulus whatever has
  been missed. Over the link an ack must stand for a line, so there the modulus is
  more than the lines of the file, as 2^32 is: 4 for the three lines of
  `LinkLossy`, where the second job wraps it.
- *MaxWire 1 or 2, MaxUp 1 or 2.* Full and non-full paths both occur.
- *MaxJobs 1 or 2.* The second job meets whatever the first one left, ended by its
  dead-man, refused or complete. `LinkEnds`, with duplicates and silence as well,
  has one.
- *Silences.* The session is given up and opened again in `LinkLossy` and `LinkEnds`;
  in `JobWindow` and `JobButtons` it stays open, what they check is proved for both.
- *Buttons of `LinkLossy`: load, start, resume.* Hold, stop, abort and the
  operator's lines are in the runs of `JobStream`; over the link they are covered by
  the theorems of section 4, which name the buttons they exclude.
- *Duplicates* are bounded to one more line than the file has.
- *Ring.* Size 4 and modulus 8 are a power of two and its double, as 4096 and
  2^32 are (the assumption asks for a multiple): all alignments of both wraps
  and deliveries longer than the ring are met.
- *GrblSession.* One retry, one time unit for each interval, two queued items. A
  behaviour meets one trouble (`Troubles`): silence with two commands or connects,
  the others with one. `Connects` is stated for the first and `AlarmSeen` for the
  first two: a refused `$I` and a lost report are no fault of the session. The two
  response windows are equal: which of them applies is decided by what was last
  heard, and both pass.
- *StreamSession.* Time counts in units of a query retry (500 ms) or status poll
  (250 ms); the handshake limit and the response limit are two of them, so that an
  answer in time just comes in time: in the code they are 3 s and 5 s. One retry;
  two answers under way, the length of the longest one. `Troubles` "none" is a
  prompt controller and a LinuxCNC that is not unlocked, "rough" all the rest.
- *DriverEvents.* A clock of 5 values, which moves on by one or two between two
  polls, wraps several times in a cycle, meets every deadline and steps over some;
  patience 2 is less than the modulus, as 60 s of 2^32 ms.
  Two starts: a cycle and another, or the settings, or a line. The other cycles
  have the same steps more often (`center` has four touches); the deviation
  that needs two touches is in the configuration `ProbeSplit`.
- *BridgeRelay.* Outward the queue of 1 is full with one packet; with two frames in
  flight a completion can be that of another frame. Inward two packets wait while
  the worker holds one, or the third is dropped, so there too something could be
  reordered. The directions share the tasks and the send, not the queues: with both
  at once there is one packet each way (`MaxMixed`), besides the MOD_ACKs. What is
  proved of both directions (section 4) holds for every number.
- *ZbCalls.* 3 commands of 2 tries and three sequence numbers: these come round
  within a run, while an earlier try with the same number is still at the hub or
  its reply under way, and also when nothing of it is left.
- *ShopAuto.* One device of each kind: they are driven one by one, each by its own
  mode. Two scenes, any number of runs and stops.

`CHECK_DEADLOCK FALSE` is set where, with every bound exhausted and nothing to
answer, the instances really stop (operator's presses, wire, jobs, packets and
commands are bounded), and idle is a legal end. `ShopAuto` and the ring never do.

### Fairness

- `JobStream`, `JobLink`: weak fairness of the clock (a hardware timer), the start
  of a tick and the pump (`sys_task` is a periodic task that never waits for the
  UI), the second half of a handler that was entered, and the transport getting
  rid of what it was handed, delivered or not. Nothing is assumed of the
  operator, and nothing of the controller.
- `RxRing`: a call of `push` that was entered ends, and each tick drains.
- `GrblSession`: the clock, `poll` and `processLine` run in every tick; a live
  controller answers what it is sent. `Connects` and `AlarmSeen` are about a
  controller that stays alive, `LossNoticed` about one that does not.
- `StreamSession`: the clock, `poll` and `processLine` run in every tick, a live
  controller answers what reaches it, and what is sent to one that is silent does
  not stand in the way for ever. Without `Rough` the clock also waits for what a
  live controller has under way. Nothing is assumed of the operator or the link.
- `DriverEvents`: `sys_task` runs, and a handler that was entered ends. Nothing is
  asked of the controller: the deadline alone ends a cycle.
- `BridgeRelay`: the inbound worker is scheduled; nothing is asked of the radio, of
  the other tasks or of the UART.
- `ZbCalls`: the worker is scheduled; nothing is asked of the UART or the hub.
- `ShopAuto`: the `zb_auto` task polls, the worker sends what is queued, switches
  report and time passes. Machine and hub do as they like; the liveness properties say what follows if they keep still.

## 4. What is proved

All proofs are checked by TLAPS (SMT, Zenon and LS4). `JobStreamProofs` holds for
every value of the constants that `FileAssumption` and `LimitAssumption` allow: any
file with lines of at least one byte, any window, `max_inflight`, timeout, counter
width. The first theorems are about the streamer with any controller:

| theorem | says | assumes | inductive invariant |
|---|---|---|---|
| `TypeCorrect` | `Spec => []TypeOK` | - | `TypeInv` |
| `BytesAreExact` | `Spec => [](BytesConserved /\ WindowBound)` | - | `BytesInv` |
| `WindowIsExact` | `Spec => []WindowInv` | `"reload" \notin Ops` | `JobInv` |
| `CompleteIsDrained` | `Spec => []CompleteMeansDrained` | `"reload" \notin Ops` | `JobInv` |
| `LinesAreGranted` | `Spec => []LineNeedsGrant` | `"reload" \notin Ops` | `GrantInv` |
| `AbortStopsReading` | `Spec => NoReadAfterReset` | `"stop" \notin Ops` | `HaltInv` |
| `ToggleIsPaired` | `Spec => []TogglesPaired` | no `"reload"`, no `"abort"` in `Ops`, `~Rejects` | `ReleaseInv` |

- `TypeInv` adds to `TypeOK` that a line being read is a line of the file and that
  what is about to be sent is an item: without them `Cost(act.num)` has no type.
- `BytesInv`: the bytes counted are the sum of the tracked costs and neither limit
  is passed, also when a load falls into a read. What a recursive function computes
  for every sequence would be an induction over data, out of the provers' reach.
  To TLAPS such a function is one *chosen* among those that satisfy its equations.
  That there is one (`SumsExist`) and only one (`SumIs`) is shown by the least
  counterexample (`LeastNat`), without an induction theorem; `SumAppend`, `SumTail` and
  `SumNat` are then all that is used of `SumOf`.
- `JobInv` adds that the line being read is `next_line` and lies before the end.
  It is what a step of the UI in the middle of the read must not disturb; abort
  does not, a load does. `WindowPop` and `WindowPush` are the two lemmas on the
  sequence of tracked lines, with `OffsetFacts` for its sum.
- `GrantInv` says that from the moment the snapshot is taken until the tick ends
  it agrees with the parser if the session was open then, that a started job has
  seen its grant, and that nobody arms a job under a pump.
- `HaltInv`: after the abort has entered the streamer, and as long as its reset
  stands, the job is not claiming, streaming or paused. A pump that holds a read
  can then only finish it.
- `ReleaseInv`: exactly one toggle of a job has been sent while its claim stands
  and has not been returned. The order is not fixed: the pump may release before
  the UI, which has already turned the streamer to claiming, has sent the claim.

These assumptions are real: a load under a running job breaks `WindowInv` and
`LineNeedsGrant`, and the dashboard's stop breaks `NoReadAfterReset` (configuration
`JobStop`); an abort keeps the port (section 5, no. 1), and so does the error that
was counted before the start. `"load"` and `"reload"` together are the code's one
load function, split by whether a job or a pump is running.

The others are about the loop with the controller. `LinkRefinesStream`,
`LinkSpec => Spec`, says that `JobLink` only restricts the answers that `JobStream`
allows; each of its steps is one of `JobStream` or a stutter. So the theorems above
hold of `JobLink` too, and their invariants serve the ones below. All of them
assume `"reload" \notin Ops`; what else they assume is in the table.

| theorem | says | also assumes | inductive invariant |
|---|---|---|---|
| `PortIsReturned` | `LinkSpec => []PortReturned` | no `"mpg"` | `AgreeInv`, `ButtonInv` |
| `NeverGoesBack` | `LinkSpec => []RunsNeverBack` | - | `FlowInv` |
| `RunsEachOnce` | `LinkSpec => []RunsOnce` | no repeats | `FlowInv` |
| `RunsAllInOrder` | `LinkSpec => []RunsInOrder` | no repeats, no `"mpg"` | `FlowInv`, `AgreeInv`, `FreshInv`, `LaneInv` |
| `StaleGrantRunsNothing` | `LinkSpec => []NothingUnclaimed` | as `RunsAllInOrder` | `LaneInv` |
| `AckedIsRun` | `LinkSpec => []AckedMeansRun` | no repeats, no `"mdi"`, `NumLines < CounterMod` | `FlowInv`, `AckInv` |
| `FlightIsTracked` | `LinkSpec => []FlightTracked` | as `AckedIsRun` | `FlowInv`, `AckInv` |
| `FlightAlwaysFits` | `LinkSpec => []FlightFits` | as `AckedIsRun` | `AckInv`, `FitInv` |
| `CompleteIsRun` | `LinkSpec => []CompleteMeansRun` | as `AckedIsRun`, and `~UsbFails` | `AckInv`, `WholeFile` |

- `OpenInv`: as long as a run is smooth the session is open and every poll takes the
  snapshot. A line that is dropped for want of the grant can only be one of a tick
  that found it closed (`Drops` in the proof of `FlowInv`).
- `AgreeInv` is what makes a toggle safe. It compares every copy of the mode, the
  snapshot, the parser, the reports under way and the controller, with what the job
  owes. None of them is up to date while a newer one is not (`Views`), and the job
  toggles only when its snapshot is (`Holds`, `PortSteps`); so at most one toggle is
  ever under way, and the mode behind it is what the job owes (`Path`). It holds
  until a reset is due (`Doom`); a reset ends what is `smooth`.
- `FlowInv` orders a line along its whole path, executed, in the buffer, on the
  wire, in the pump's hand, and keeps all of them before `next_line`. `RunsOnce`
  alone says nothing of what is still to come. It speaks of a job with the premise
  `clean`: a start makes the order anew from nothing (`FlowBegins`), and `clean` does
  not change in between (`CleanKept`).
- `AckInv` says what an `ok` stands for. With lines lost on the way, fewer have
  been executed than read, and with `ok`s lost fewer are counted than executed. The
  proof gives each position of `up` the number of lines that the `ok`s before it
  answer (`Covered`). The counters wrap: `Multiple`, `Remainder` and `Difference` are
  what the proof needs to know of their remainders, so that nothing is asked of
  the modulus but that it exceeds the lines of a file.
- `FlightTracked` follows: the k-th line executed has at least k - 1 before it, so
  the lines in flight are among the last `Len(lens)` read.
- `FitInv` bounds their bytes. All lines in flight lie in one stretch of the
  file that is no longer than the window, which `WindowIsExact` and `Tracked` provide; a line in the middle parts those in the buffer from those on
  the wire. Lines in ascending order within a stretch take at most its length
  (`LinesFit`), for the buffer and for the wire, and the two halves add up.
- `WholeFile`: what the streamer takes for the end of the file is its end. A USB
  read that fails cuts it short (section 5, no. 3).
- `LaneInv` says of each job whether the port takes its lines. For a job that has
  claimed it, each line on the wire has behind it exactly the toggles that make
  the port owned when the line arrives (`Lane`), so none falls out and no line is
  missing among those that were read (`Gapless`). A job that was started on the
  grant of the job before it claims nothing, and each of its lines arrives at a port
  that has been given back: `StaleGrantRunsNothing` (section 5). `FreshInv`: a
  loaded job starts at its first line.

Why these assumptions: the `ok` of an operator's line (`"mdi"`) counts for a line
of the job. The operator's MPG key toggles the port under the job. A repeated
frame runs twice, for nothing below discards it. The counters of the code are 32
bits wide, more than any file has lines. Nothing is assumed of the number of jobs.

`BridgeRelayProofs` does the same for the bridge, for every number of stations,
packets, frames in flight and every depth of the queues that `BridgeAssumption`
allows:

| theorem | says | inductive invariant |
|---|---|---|
| `TypeCorrect` | `Spec => []TypeOK` | `TypeInv` |
| `InboundKeepsOrder` | `Spec => InboundFifo` | `InOrder` |
| `OutboundKeepsOrder` | `Spec => OutboundFifo` | `OutOrder` |

- `TypeInv` adds to `TypeOK` what each task holds where it stands: a task before
  the send holds a MOD_ACK or, the outbound worker, a chunk.
- `InOrder` orders the whole path: written before the packet the worker holds,
  that before the queue, all of it before what was received.
- `OutOrder` does so outward: heard before the frames at the radio, those in the
  order they were handed on, those before the chunk the worker is about to send,
  that before the queue, and the chunk that waits for room after everything. It
  is needed because a frame that was given up stays at the radio while the next
  is handed on; `OutSent` and `OutHeard` are the two lemmas about it.
- Each step then is a `Put`, a `Take` or a stutter of `LossyFifo`: nothing is
  assumed of fairness, the lock's timeout or the completions, so the order holds
  even where a completion belongs to another frame (configuration `BridgeStale`).

The other six proof modules follow the same pattern: the type invariant first,
cut into the parts of the module (`Session`, `Counts`, `Link`, ...), one lemma for
each action or group of actions, then the invariants. All their theorems hold
for every value of the constants that the module's assumption allows, and assume
nothing of fairness; only `AnsweredIsKept` has hypotheses of its own.

| module | theorem | says | inductive invariant |
|---|---|---|---|
| all six | `TypeCorrect` | `Spec => []TypeOK` | `TypeInv` |
| `RxRingProofs` | `NothingOverwritten` | `Spec => []NoOverwrite` | `RingInv` |
| | `RingIsQueue` | `Spec => IsQueue` | `RingInv` |
| `GrblSessionProofs` | `BlockedByMpgOnly` | `Spec => []BlockedIsMpg` | itself |
| `StreamSessionProofs` | `ReadyOnlyEnabled` | `Spec => []ReadyIsEnabled` | `EnableInv` |
| | `AnsweredIsKept` | `Spec => KeptWhileAnswered` | `KeepInv` |
| `DriverEventsProofs` | `OneLineAtATime` | `Spec => SentInTurn` | `TurnInv` |
| | `ReadsItsOwnTouch` | `Spec => ReadbackIsOwn` | `TurnInv`, `TouchInv` |
| `ShopAutoProofs` | `GatesBeforeVacuums` | `Spec => []VacuumHasGate` | `GateInv` |
| | `HaltTurnsOff` | `Spec => []HaltMeansOff` | `Rested`, `Quiet` |
| `ZbCallsProofs` | `KeepsOrder` | `Spec => Service!Safety`, with `doubt <- reused` | `CallInv` |
| | `RunsOncePerTry` | `Spec => []RunsPerTry` | `CallInv`, `CountInv` |

- *Ring.* The work is in the remainders: since the counters' modulus is a multiple
  of the size, a step of the counter is a step of the slot also where it wraps.
  `RingInv` adds to `NoOverwrite` that the bytes copied so far are in the slots
  behind `head`. Then `PushEnd` is `Put`, `DrainByte` is `Get`, and every other step
  a stutter: the slots that the queue is made of are not written.
- *Session.* `BlockedIsMpg` is inductive as it stands.
- *LinuxCNC.* `ReadyIsEnabled` alone says nothing of the answers that are under way.
  `EnableInv` does: over one connection hello and its answer go at most once, and
  a sign of the enabling, in the session or still under way, means that the
  controller has enabled this connection.
- *Answered in time.* `KeepInv` says what each time limit waits for: during the
  handshake the answer that ends it is on its way and no time has passed
  (`Opening`), so too during a query (`Asking`), and when the response limit has
  begun to run, a word or the next status poll is on its way (`Fresh`). The theorem
  assumes `Timeout > 1`, room for one status poll (250 ms; the code gives it 5 s),
  and that LinuxCNC is not unlocked, after which nothing asks for the enable again
  (section 5, no. 8).
- *Sampled event.* The probing cycle and the settings queue both read the same
  `ok`. `TurnInv` says that there is one permit to send: the line under way, its
  `ok`, or the task that has heard it; and that a cycle and the queue do not run
  together. The theorem is about `trouble = "none"`, as `SentInTurn` is. That no
  cycle runs past its last line needs `LastStep`. `TouchInv`: the reports under way
  are those of the last touch sent, each before the `ok` of its line, so whoever
  has heard the `ok` has been told the position.
- *Shop.* Both are about `Final`, the devices when all that is queued has been
  carried out: what the worker does leaves it alone, and without a missed command
  a pass changes it to what it is for. `AimInv`: while there a vacuum is on, or one
  is armed or about to start, the gates are open and no close is armed. `PassInv`
  says why this is enough for the states the worker runs through, in any order of
  the registry: each queued pass that has a vacuum on finds the gates open and
  leaves them so. `Quiet`: between runs nothing is armed or about to start.
- *Zigbee.* `CallInv` orders jobs along the whole path: done, at the hub, in its
  buffer, with the worker, in the queue, not yet issued. That alone gives the
  order in which commands run, whatever their numbers. Replies are matched by
  number only: as long as the number of the try in progress was free when it was
  given out (`~reused`), a confirmation that carries it is one of this job, and no
  other has run since (`Own`). Nothing is assumed of the number of commands, tries
  or sequence numbers. `CountInv` adds the frames under way to the runs: each try
  puts in at most one.

Only model-checked:

- All liveness properties, which rest on fairness and ENABLED: `JobEnds`, `Drained`,
  `Connects`, `AlarmSeen`, `LossNoticed` of both sessions, `Settles`, `EstopSeen`,
  `CycleEnds`, `PeerSettles`, `RunBringsAir`, `StopEndsOff`; of `KeepsPromise` the
  conjunct that every command is answered.

Every other property of a passing run is the statement of a theorem, which holds
wherever the run's constants meet its assumptions; they all do.

## 5. Where code and documentation disagree

The first is a run of the project. For each of the others a
configuration stands beside the runs (`tlc -config X.cfg` on the module named)
that ends in the violation.

1. **An aborted job keeps the port** (`JobRelease`, run `job_release`). `pump`
   returns at once when the streamer is not active, so an abort from the UI is
   released only if it falls into a running pump. `device_runtime.zig:164`: "Abort:
   soft reset stops motion, then the pump releases MPG."
2. **The stop key does not stop the job** (`JobStop`, `MCJobStream`). `cmdStop` resets
   the controller and leaves the streamer streaming. `driver_commands.zig:110`:
   "aborts streamed jobs."
3. **A failed USB read ends the job as complete** (`JobUsb`, `MCJobStream`).
   `io_failed` is never set. The test at `job_stream.zig:559` expects an abort.
4. **A touch takes the position of the one before it** (`ProbeSplit`,
   `DriverEvents`). The last event is handed over with every chunk, also with one
   that ends no line (`driver.zig:253`), and `onEvent` clears `probe_fresh` only in a
   copy of the status (`driver.zig:255`). After the first touch of a cycle an `ok`
   that is delivered twice ends the wait of the second with the first's
   position. `engine.zig:107`: "`last_event` is a sample and is useless for flow
   control".
5. **The gate closes under a running vacuum** (`ShopGate`, `ShopAuto`). The Cleanup
   scene turns everything on and leaves the gate close of an Idle scene armed
   (`ZA:182`). The hard-off after an alarm or by the Emergency scene commands the
   devices in the order of the registry (`ZA:152`): a gate paired before the vacuum
   closes first (`ShopHalt`). And if a poll both starts a due vacuum and ends the
   run, its switch still reports off and is not turned off (`ZA:116`): the vacuum
   stays on and its gate closes (`ShopBrief`; a job that one poll sees at 99 % or
   more and the next one over). `ZA:3`: "Stop: vacuum off-delay -> 500 ms ->
   gate close".
6. **A stopped job is announced as complete** (`ShopJob`, `ShopAuto`). An alarm
   disarms the job but keeps its peak progress (`ZA:321`), and a job that begins
   before the next poll inherits it too, so that the next job counts as finished
   wherever it is stopped.
7. **A wait ends with the completion of another frame** (`BridgeStale`,
   `BridgeRelay`). A frame given up by its timeout may complete after the next
   send has drained. `src/firmware/s3-bridge/main/espnow_link.cpp:163`: "Drain stale
   Give so a prior timeout cannot complete this wait early."
8. **Unlocking LinuxCNC ends its session** (`StreamUnlock`, `StreamSession`).
   `sendUnlock` goes back to `configuring` and forgets the enable
   (`linuxcnc/engine.zig:246`), but asks for nothing, and `configuring` polls
   nothing. After 3 s the session is given up while the TCP connection stays up,
   so nothing connects again. `driver_commands.zig:89`: "Immediate attempt (works
   when locked/ready/alarm)."
9. **The deadline of a cycle does not survive the wrap of the clock** (`ProbeWrap`,
   `DriverEvents`). `poll` compares the clock with the deadline instead of taking
   the interval (`probe_engine.zig:96`). A deadline of 0 counts as none, one in the
   last milliseconds before the wrap may be stepped over, since `sys_task` looks
   every 10 ms or later, and a cycle begun shortly before the wrap fails at
   once. `firmware/system_task.zig:78`: "Tick consumers use `-%` intervals."
10. **A closed session keeps its last grant** (`JobSession`, `MCJobStream`).
   `Driver.poll` returns before it copies `mpg_remote` while the session is closed
   (`driver.zig:179`), and `pump` decides on the snapshot (`job_runner.zig:180`). When
   a controller was silent for 3 s, and then reports that the port is not granted
   and goes on answering, the job goes on sending and does not learn that the grant
   is lost until something opens the session again. `engine_send.zig:123`: "The job
   streamer is unaffected - it holds MPG, so canSendLine is true."

The following were met while modelling; no configuration is kept for them but where
one is named.

- The line that `next()` has returned when the operator aborts is sent after the
  soft reset; likewise a line of a job that a load has just replaced goes out
  while the new one is only loaded (`job_runner.zig:201`).
- `jobStart` makes the streamer active before the ack counters are baselined
  (`job_runner.zig:150`): an error counted before the start can end the job.
- The UI stamps `last_ack_ms` with a clock younger than the tick's
  (`job_stream.zig:238`, unsigned subtraction): the job can time out at once.
- `last_terminal` is not written by an abort from the UI nor cleared by a load:
  after one complete job a later abort is shown as "Job complete".
- An ok that is not the job's (the answer to a line of the operator) restarts the
  claim timeout: a refused claim need never end while they keep coming.
- After a refused claim the release toggle claims the port
  (`job_stream.zig:309`; the comment at `job_runner.zig:216` warns of it).
- With `Plans`, a job is complete when its last line is acknowledged; the release
  toggle may reach a machine that still moves, and be ignored.
- `applyAction` drops the line's `seq`, so nothing below can discard a frame that
  the radio delivers twice (`job_stream.zig:24` requires it): the line runs
  twice. `RunsNeverBack` is what remains.
- Lines of the operator enter the same RX buffer and are not counted in the
  window (`driver_commands.zig:125`): together they can over-fill it.
- A session that is `configuring` leaves it only by an `ok`: it never ends if `$I`
  is refused with `error:8` or its answer is lost, and silence is not noticed
  there, nor in `querying` while the last state was busy (`engine.zig:181`,
  `engine_poll.zig:45`, `:59`).
- `$X` is sent without asking `canSendLine` (`engine_send.zig:110`).
- An unlock armed during the handshake survives a stop: the banner of the reboot
  is answered by `$X` (`driver_commands.zig:113` says that a stop must not).
- After a dead-man the old job's lines may still be in the held controller, and
  run before the lines of the next one if it is resumed; and an `ok` for one of them
  takes a line of the new job out of the window, so that it may over-fill the
  buffer, or be complete before it has been executed. Without the premise `clean`
  each of the six properties about a job's lines is violated by a second job.
- A job started before the release of the one before it has been reported reads the
  old report as its grant: its lines reach a port that is being given back and
  are dropped, until `mpg_lost` aborts it (`job_stream.zig:182`). That not one of them
  is executed is proved (`StaleGrantRunsNothing`).
- An `ok` and a report that end the same chunk: the `ok` is missed, and the cycle
  stands until its 60 s are over. The settings queue has no deadline: after a
  missed or lost `ok` it stays pending, across a disconnect, until some later
  `ok` sends the next setting (`driver_session.zig:30`).
- A cycle that fails or is cancelled leaves the machine in G91. The last line of a
  cycle is not waited for, so that one started at once is an `ok` ahead. A cancel
  in the middle of `onEvent` still sends the next line (`probe_engine.zig:133`).
- Settings queued while `feedAt` is at work may go out second line first
  (`driver_commands.zig:327`).
- A Mach3 session is unlocked by any `OK`, also by that of the reset that locked it
  (`mach3/engine.zig:112`): until the next status poll it is ready while the
  machine is stopped. `EstopSeen` is what remains.
- `feed` does not look at the session's state: lines that were received before a
  disconnect, or answers that come after a give-up, open the session again.
- `PROGRAM_STATUS IDLE` follows `ESTOP ON` in each LinuxCNC poll and overwrites the
  alarm that it has set for the display (`linuxcnc/parser.zig:51`, `:80`).
- A Masso configuration of another serial number that comes before the version
  does not keep the session from becoming ready by the version
  (`masso/engine.zig:22`).
- A switch whose report is late is taken to be as it was, and not commanded
  (`ZA:116`). A hub out of reach when everything has to go off is not asked again
  (`ZA:149`). After a Cut scene without a run an alarm turns nothing off (`ZA:318`),
  and a vacuum that is due starts before the poll looks at the alarm (`ZA:304`).
- `modulus_zb_auto_poll` keeps its state in static variables and is called from two
  tasks (`ZA:418`, `wireless_shim_802154.c:312`).
- Sequence numbers of the Zigbee link are 8 bits wide, and one that is still under
  way may be given out again: 255 tries of 250 ms without an answer take 64 s,
  less than the 70 s of the link's supervision. An old answer that comes in then
  completes a command that never ran (`zb_uart_host.c:103`). The configuration
  `ZbRound` (`ZbCalls`) ends in that violation of `DoneWasDone`.

## 6. Plan

Modelled first: the job streamer, because a mistake there moves a machine; then
the link it depends on, the ring below it and the session around it; then what
the sampled event drives; then the two other boards. Next, in this order:

1. Proofs: what remains of `WindowInv` with a load under a running job, where the
   bytes are still exact (`BytesAreExact`) but the lines are not consecutive.
2. `DriverCommands`: feed hold, cycle start, home and jog against snapshot and
   session; the session defaults, which count as applied although the gate left
   their lines out.
3. The Masso engine: datagrams through a byte ring, answers matched by kind.
4. The hub's interview of a device and the link's supervision.

### Not modelled, and why

Text (parsing of reports, formatting of commands), floating-point limits, the
classic Grbl dialect, drivers of the transports and of the vendor's radio stack,
drawing, settings storage, start-up and OTA: I/O or presentation without a
protocol of their own, or data a model checker says little about. The deferred
connect may delete the task that is running the connect handler
(`cnc/deferred_connect.zig`): what it leaves behind is undefined, and a model
would only repeat that. See `components` in `PROJECT.json` for each.

By lines, nearly all of the repository's C is not its own: the ESP-Hosted stack
with its generated messages, protobuf-c, the Zigbee SDK and a device table make
up most of it, and drawing most of the rest. The pendant's own logic is Zig.
