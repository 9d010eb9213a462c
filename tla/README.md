# TLA+ models of the hacks repository

The repository collects independent programs. This project models those whose
own logic is concurrent, interruptible or persistent, where a test reaches only
a few of the orders in which things can happen. Every definition is translated
from the source; `PROJECT.json` maps each one to its lines.

## Inventory

| Component | State | Operations | Hard behaviour |
|---|---|---|---|
| udptoy pump (`go/udptoy/main.go`, `dgramsToSocket`) | datagrams held back, ticker, byte counters | receive, drop, hold, send, flush, close | timers, reordering, failing writes |
| udptoy mux and workers (same file) | map of workers, per worker two channels, wait group, counters | `Run`, `GetWorker`, `DispatchIncoming`, `gcOnce`, `Shutdown` | three goroutines per worker, collector and signal handler stopping them at once, accesses without locks |
| ornament firmware (`pcbs/ornament2020/fw`) | current pattern, its position, PWM frame, LEDs, timer | main loop, timer and touch interrupts | interrupts between any two accesses, sleep and wake-up |
| podscribe pipeline (`AI/podscribe`, `orchestrator.py`, `state.py`, `preprocessor.py`) | `state.json`, preprocessed audio, raw and final transcripts | preprocess, transcribe, post-process, resume | two thread pools over one state file, crashes between writes, audio replaced, files deleted |
| powerlog program (`pcbs/powerlog/firmware`, `main.c`, `ina3221.c`) | the sample under way, the line's memory, `run_sample` | boot, sample, write a line, timer callback | callback and USB interrupts between any two steps, a silent or refusing sensor, a line handed over by reference |
| powerlog I2C master (`hpl_sercom.c`, `hal_i2c_m_sync.c`) | the message, the bus | transfer of a command's two messages | timeouts, refusals, lost bus |
| powerlog software timer (`hal_timer.c`, `utils_list.c`, `hpl_tc.c`) | task list, time, two flags | add, remove, start, stop, serve a tick | a tick between any two steps of a call, time wrapping |
| powerlog USB device stack (`cdcdf_acm.c`, `usbdc.c`, `hal_usb_device.c`, `hpl_usb.c`) | state of endpoints in each of four layers, control transfer, configuration | reset, requests, halts, write | resets and requests between the steps of a write, transitions that fail half-way |
| powerlog client (`pcbs/powerlog/client`) | none but a channel | read and parse lines | sequential |
| podscribe feed sync (`rss_fetcher.py`) | downloaded episodes | download, rename | crash in a download |
| podscribe transcribers | none | calls of services | external |
| shelper daemon (`AI/shelper/daemon`) | connections, counters, socket | accept, handle, stop | stop while requests run |
| sshscan (`go/sshscan`) | remaining algorithms, results | scan, store | goroutines sharing a scanner and a database |
| onwatch (`go/onwatch`) | watched directories | add, run loop, stop | stop handshake |
| cyberwaiter (`go/cyberwaiter`) | archive and its tag | serve, update | crash between rename and tag |
| acmedns (`cloud/gcp/functions/acmedns`) | record sets in Cloud DNS | add, remove | concurrent read-modify-write |
| trashdig (`AI/trashdig`) | findings, rate limiter | agents | mostly the answers of a language model |
| ghtokenbroker, dockerproxy, telegroups, thundercrack, tracer, small tools | none that outlives a request | | sequential |

The 3D designs, the PCB layouts and the configuration directories have no logic
to model.

**How the modelled parts interact.** In udptoy the reader gets a worker from the
map (or creates one, which starts two goroutines, the second of which starts a
third), then sends the datagram on the worker's channel. The pump takes it from
there to the socket; responses come back through the response reader, an
unbuffered channel and a second pump. The collector and the signal handler shut
workers down: they clear and close the channel, meet the response reader on
another channel, wait for the wait group and add the worker's counters to the
mux. In the ornament, main and two interrupt handlers share `current_pattern`,
the pattern's position, `update_frame`, `frame_id`, the LEDs and the timer's
power bit. In podscribe each file passes from the main thread to a transcription
thread and then to a post-processing thread; all of them update `state.json`
through one `StateManager`, and the next run starts from what it finds on disk.
In powerlog a software timer calls `TIMER0_callback` from its interrupt, which asks
main for a sample; main reads the sensor over the I2C master, waiting for each
flag, and hands one line to the serial function of the USB stack, which sends it
when the host polls.

**What makes each part correct.** Pump: a datagram has one fate, none is left
behind, reordering is bounded, everything is settled once traffic stops. Mux: a worker
is shut down once, dispatch reaches a living worker, nothing is counted twice, nothing
counted is missing from the totals but what overlapping additions overwrite or a late
pump counts, a signal ends the program. Ornament: the position stays inside the pattern, off is dark and
asleep, on is animated and goes off in the end. Podscribe: `state.json` never
claims more than the files hold, completed stays completed, work is not repeated
without a cause, every file is completed in the end. Powerlog: every tick is a
sample or a reported overrun, a line of values was measured, the host sees the lines in
order, no transfer hangs the loop, no timer task is lost, no endpoint is leaked
or stuck.

## Modules

| Module | Models | Checked by |
|---|---|---|
| `DatagramLink` | what one direction of a connection promises: each datagram is delivered or lost once, reordered only if allowed | as `LinkSpec` of `UdpPump` |
| `UdpPump` | `dgramsToSocket` with `flush`, `sendDgram`, `RandPercentCheck` and the ticker | `pump_*` runs |
| `UdpMux`, `MCUdpMux` | reader, collector, signal handler, workers and their goroutines | `mux_*` runs |
| `OrnamentFw`, `MCOrnamentFw` | main, interrupts, patterns | `ornament_*` runs |
| `Podscribe` | files through `Orchestrator.run`, run after run | `podscribe_*` runs |
| `TimerTasks`, `MCTimerTasks` | the software timer's calls against its interrupt | `timer_calls` |
| `UsbPipe` | what the USB stack promises the program | as `PipeSpec` of `UsbDevice`, and used by `PowerLog` |
| `UsbDevice` | the four layers of the USB stack against every order of the host's doings | `usb_host` |
| `I2cMaster` | one synchronous transfer | as part of `PowerLog` |
| `PowerLog` | main and the callback, over `I2cMaster` and `UsbPipe` | `powerlog_sampling` |
| `UdpPump_proofs`, `UdpMux_proofs`, `OrnamentFw_proofs`, `Podscribe_proofs`, `TimerTasks_proofs`, `UsbDevice_proofs`, `PowerLog_proofs` | theorems about the module each is named after | TLAPS |

The `MC` modules hold what a `.cfg` cannot say: a symmetry set, the intervals of
three tasks, the small patterns and the gamma table that stand for those of
`pattern.c` and `gamma.c`. A definition called `Name_Something` is a faulty variant of
`Name`: `PROJECT.json` lists which property refutes each.

### UdpPump

The goroutine is `pc`: `select`, `send` (a datagram decided to go straight
through, before the write), `flush`, `closing` (the deferred flush) and `done`.
Datagrams are numbered as they are put in the channel, so the channel is two
counters. `shuffler` is a set, since `flush` sends it in a random order; each
write is a step of its own and may be complete, short or fail. The ticker is a
count-down that a stored datagram restarts. Time passes only while the goroutine
waits with nothing to do, which is to say that it is faster than the clock's unit;
a model in which time also passed during writes would refute every bound on a
delay for reasons that are the scheduler's. `delivered`, `lost`, `held` and
`quiet` are history. A stored datagram restarts the ticker, so a steady stream of them
starves the flush. Four datagrams cannot show that, and `Settled` does not claim the
opposite: it speaks of what was offered once traffic has stopped (`TrafficStops`).

With `MayLose` and `MayReorder` defined from the configured percentages and the
socket's outcomes, every behaviour is one of `DatagramLink`, liveness included.

### UdpMux

One step per access of shared data that another goroutine can race with. The two
reads of `w.incoming` in `DispatchIncoming` are two steps; so are the load and
the store of the collector's unlocked additions, and the joining of the wait group
after a goroutine has started. `mapLock` is held over several steps only by
`Shutdown`. A datagram is only counted here, since `UdpPump` has the rest. The
model stops when the process panics or main returns. Two history variables name the
exceptions of `TotalsComplete`: `overlapped` (a stopper stored totals while the other had
loaded them) and `late` (workers whose pump had not joined when `Wait` returned).

### OrnamentFw

Main moves from one access of a shared variable to the next, and interrupts come
between any two; the section bracketed by `cli` and `sei` is one step.
`sleep_mode` is two steps, since an interrupt just before the sleep instruction
does not end the sleep. `next_pattern`, which main runs once with interrupts on,
is split at its accesses of `pattern_id`. An index beyond the NULL at the end of
`patterns[]` yields whatever is there. A NULL pattern that is used ends the
model: what the program does from there on depends on the first bytes of memory.
A read beyond the gamma table, which every fully lit LED makes, yields any
value, so the LED may be lit in that PWM frame or not. Time passes with the
ticks the processor serves: the blink of an LED inside an interrupt, during
which the hardware timer's ticks are lost, is left out.

### Podscribe

A file on disk is the version of the audio it was made from, whether it was
written to its end, and whether everything it was made from was. Every write
(`state.json`, the chunks, the raw and the final transcript) opens the file in one
step and closes it in a later one; `Crash` may come in between. `update_entry`
holds the lock from `Update` to `EndUpdate`. `pc` says where each file is; the
thread pools are the limits `TWorkers` and `PWorkers` on the files in a phase.
The order in which a pool takes its files is left open. A torn `state.json` is
read as an empty one, as `load` does. The model takes preprocessing and chunking
as enabled. A transcript's write may also fail in a run that goes on (`WriteFails`). The
history `cut` has the files whose raw transcript, or the repair of whose chunks, was
stopped half-way, since a later run takes what is left for the whole; a part left of
anything else is made again. That saving `state.json` itself fails in a run that goes on
is left out.

### TimerTasks

`timer_add_task` and `timer_remove_task` take several steps: the test-and-set of
`TAKEN`, the search, the store of the label, the link or unlink, the clearing of
the flag (a read and a write), and the test whether a tick was postponed
meanwhile. The overflow interrupt comes between any two and runs to its end,
which takes a step per task served, because each callback's effect on the list is
what the next one sees. `prev` is the element the program found, which the interrupt
may have unlinked by the time it is used; `InsertAfter` and `Unlink` do what
the list functions do then. `TimeLeft` is the code's 32-bit arithmetic with
`Wrap` for 2^32, off by one when time has wrapped and huge for an overdue task.
A failed `ASSERT` halts a debug build; the release build returns an error.

### UsbDevice and UsbPipe

An endpoint has the state of each layer: what the function noted (`acm`), the
slot of the transfer layer (`hal`), and the driver's flags with the controller's
stall registers (`hw`). A control request goes through its setup, data and
status stages; its effect on the endpoints is computed by the chain of calls the
code makes (`Install`, `Enable`, `Disable`, in the order of the descriptor), early returns
included, so that a request refused half-way leaves what the code leaves. Each
interrupt is handled to its end; `cdcdf_acm_write` takes four steps with
interrupts between them. The search for a free slot and its claim are one step,
since only the program claims the endpoint. The controller clears its own registers
on a bus reset, which the code relies on and which is modelled as external.
Halts of endpoint 0, the sizes of packets (a line is one packet), the contents
of descriptors and the reading side are left out. Halting an endpoint that is not open touches nothing
that is read later.

`UsbPipe` is what a program may rely on: at most one line on its way, delivered at
most once, lost only when the host reconfigures the device. `PowerLog` is
written over `UsbPipe`, and `usb_host` shows that `UsbDevice` implements it.

### I2cMaster and PowerLog

A transfer waits behind the address, then in the loop, for the controller's
flags; the bus may acknowledge, refuse, show a byte, lose arbitration, report an
error, or stay silent until the wait gives up. `acks` counts what the bus
really moved, and `LinesTrue` compares it with what the driver reports. The branch for
a received byte with a refusal at once and a bus error without the other flag are left
out: the controller does not show the first while reading, and the code does not look at the second.

`PowerLog` composes them with main: `copied` says whether the build copies the line
into the driver's buffer. The driver copies a buffer that is not word-aligned,
and `report_buf` is a local array whose alignment the compiler chooses; otherwise
the stack sends from memory that is free once `sample_report_once` has returned, and
that the next sample or an interrupt's frame overwrites (`Smash`). What `cdcdf_acm_write`
returns is ignored, as main does. `sample_id` is unbounded here and 32 bits in the code.

## Runs

Bounds are in the `.cfg` files.

| Run | Shows |
|---|---|
| `pump_faults` | 4 datagrams, a channel of 2, drops, swaps and every socket outcome: one fate for each datagram, nothing left behind, a held datagram overtaken at most once, byte counters that never run ahead, a flush at most `MaxDelay` after the last one stored; every datagram is settled once traffic stops, closing ends the goroutine, and the pump implements `DatagramLink` with its fairness |
| `pump_exact` | with `-swappy 0`, `-drop 0` and a socket that refuses nothing, the pump implements a link that neither reorders nor loses |
| `mux_two_peers` | two peers, two workers, collector and signal handler together: no double shutdown, workers in the map are open, totals never overcount and miss only what overlapping additions overwrite or a late pump counts, at most one worker is left over |
| `mux_one_worker` | the wait group counts exactly the goroutines that joined, `Wait` returns when they are done and drained, and a signal ends the program but for the two causes named in `ShutdownEnds` |
| `ornament_loop` | three patterns, two LEDs: position and index in bounds, off leads to sleep, on goes off |
| `podscribe_pipeline` | two files in both pools, any mix of stages, any two of: a killed run, a failure, a lost file, a changed one. `state.json` is never ahead of the files, completed files stay completed and were made from whole ones unless the file's own raw transcript or repair was cut short, the transcriber's calls have causes, every file is completed in the end |
| `timer_calls` | three tasks added and removed at any time, two of them repeated, both builds: the list holds exactly the registered tasks, a postponement mark outlives a call only if the call was refused, and unless a tick was postponed every task runs on time |
| `usb_host` | every reset, request, halt and poll in any order between the steps of a write: no endpoint is leaked or closed under the function, none is busy with nothing to free it, and the stack implements `UsbPipe` |
| `powerlog_sampling` | three channels, two ticks, builds with and without a copy: ticks are accounted for, a line of values was moved over the bus to its last byte, the host sees lines in order and none more than twice, a sample that is due ends |
| `mux_dispatch`, `ornament_null`, `podscribe_repeat` | the disagreements listed below |

**Why the bounds are enough.** Four datagrams give a held one, one that
overtakes it, one more that must not, and one in the channel; a channel of two
can fill. Two workers and two peers let the collector and the handler each have
one in hand while the reader holds either. The mux's channel holds one datagram,
so that a dispatch can wait for room. The ornament's patterns include a frame
longer than the ramp, a frame of one tick, a pattern of one frame and every LED
state, four PWM steps and an auto-off that comes while a pattern plays. Podscribe's
two troubles let one interrupt the recovery from another, in every pair of kinds,
and its two files meet in each pool and in `state.json`. Three timer tasks give
the one a call works on, the one found to link behind, and one served in
between; time wraps after six ticks, more than the longest interval and one more,
so that labels are found on both sides of the wrap. `UsbDevice` has no constants
and the run is exhaustive. Two ticks and the sample due at the start give a
request during a sample, one between samples and an overrun; the third line overwrites
the second while the first is out. Every counter that would grow without bound is
capped by a constant, named where it is declared.

Deadlock checking is off for udptoy, the ornament and the timer, which may stop:
the goroutines return, a blocked reader is one of the findings, a NULL pattern ends
the model, a failed `ASSERT` halts the debug build. It is on for podscribe, the USB
stack and the powerlog program.

**Fairness.** udptoy: the Go scheduler runs a goroutine that can run (weak
fairness of each), and the clock goes on; neither the signal, nor the collector,
nor an idle hour is assumed. Ornament: the processor runs and a timer that is on
ticks; touches are never assumed. Podscribe: a run that has started goes on, and
the user runs all stages again and again (strong fairness, as crashes may get in
the way, a bounded number of times). Powerlog: main goes on between interrupts
(weak fairness of `Main`); the sensor, the host and the timer owe nothing. That
excludes the interrupt that is never served, described below, which would stop main for good.

## Disagreements found

| Run | Code | What is said |
|---|---|---|
| `mux_dispatch` | the channel is tested and read again, main.go:296-297 | "this should work", main.go:295 |
| `ornament_null` | NULL tested and used, main.c:172-177 | the test itself |
| `podscribe_repeat` | transcript written before its entry, orchestrator.py:220-230, 350 | "without repeating expensive transcription calls", README.md:12 |

More departures were met while modelling. They are in the models (but where it
says otherwise), without a run of their own.

udptoy:
- Each stored datagram restarts the ticker (main.go:342), so a datagram is held longer than the flag's "Maximum delay for held packets." (main.go:33) as long as stored ones keep coming faster than the delay, without end if they never stop. `QuietFlush` bounds the wait after the last one stored, and `Settled` needs the traffic to stop.
- The collector's `+=` on the totals holds no lock (main.go:209-210), so an addition that overlaps the handler's can be lost, or the handler's can. `TotalsComplete` excepts these (`overlapped`).
- A pump that joins the wait group late (main.go:308) may do so while `Wait` (main.go:410) is returning; Go calls that a misuse of the wait group and may panic. The model has the late pump but not that panic.
- The socket dialled for a worker (main.go:266) is never closed; the model has no sockets.

ornament:
- `sleep_until_touch` stops the timer after a touch (main.c:97) that has just restarted it ("Restart timer if stopped", main.c:78). `OffSleeps` and `OnGoesOff` hold in spite of it.
- A fully lit LED reads one entry beyond the gamma table (main.c:258).
- A bounce of the touch pin while the ornament is off can light the LEDs of the pattern switched off, if `update_frame` was left set (main.c:162).

podscribe:
- The raw transcript of a replaced audio file is taken over (orchestrator.py:307) although the state was "reset to start fresh" (orchestrator.py:281), so a completed file may be about the old audio.
- A raw transcript that a killed run left half written is taken over by `--stage postprocess` (orchestrator.py:238), and so is one that a failed write has left (orchestrator.py:220, 372); a repair of missing chunks that is stopped half-way leaves some that count as all (orchestrator.py:336). `CompletedIsWhole` excepts these files (`cut`) and no others.
- A run killed while it rewrites `state.json` (state.py:36) makes the next one start every file afresh.
- Two audio files with the same stem share their transcripts (orchestrator.py:306); the model gives each file its own.

powerlog timer:
- A call refused in a release build returns (hal_timer.c:126, :153) without clearing the mark of a tick that came meanwhile, and until a call succeeds no task runs; the documentation says that "the interrupt processing is postponed until the task adding or removing is complete" (hal/documentation/timer.rst:37-39).
- The re-pended interrupt finds no overflow flag and serves nothing: an expiry postponed by a call waits for the next tick. `OnTime` excepts these by `missed`.
- The time left is one too large once time has wrapped since the label, and huge for an overdue task, which puts a new task ahead of it.
- A callback that adds its own one-shot task again would do so while the list is being served; the program has no such callback and neither has the model.

powerlog I2C:
- The result of the wait behind the address is not looked at (hpl_sercom.c:1451); the loop waits a second time. `WaitTimeout` and `SampleEnds` show that it ends.
- A register message that fails sends no STOP, and the bus stays taken until the next transfer (`owner`).
- `bswap16` is unsigned (ina3221.c:11-12, 63), so a negative shunt voltage becomes a large positive current, and the configuration word is not swapped at all. Values are not modelled.

powerlog USB:
- SET_INTERFACE of the data interface closes the function and then cannot open it again (usbdc.c:499-501, 566; cdcdf_acm.c:84-88); a later SET_CONFIGURATION of 1 is acknowledged with the function still disabled. A SET_CONFIGURATION cut short leaves the function enabled and `cfg_value` behind (usbdc.c:708).
- A reset between a write's claim and its start marks a closed endpoint busy. A write whose start a halted endpoint refuses leaves it claimed until the host clears the halt; a halt cleared under a transfer leaves the next write refused. `NeverStuck` says that something can always free the endpoint.
- An IN endpoint halted before its first transfer is taken for OUT (hpl_usb.c:1407-1411) and its stall interrupt is never acknowledged: the interrupt comes back at once and the program stands still. The model has this as `Storm`. Other endpoints' interrupts are served first, so the host can end it.
- A line not copied may be seen twice or half overwritten (main.c:110). `HostInOrder` bounds it.

## Proofs

Seven modules hold theorems. Between them they state every invariant and every
action property that a passing run checks, and the two refinements as far as they are
safety. Each assumes only the `ASSUME` of the module it is
about (`PumpAssumption`, `MuxAssumption`, `OrnamentAssumption`, `PodscribeAssumption`,
`TimerAssumption`, `PowerLogAssumption`: the ranges of the constants; `UsbDevice` has
no constants), and each follows one scheme: an invariant that is a conjunction of named
parts (`IInv`, in two modules `PumpInv` and `TypesInv`) holds at the start, is preserved
by every action (one lemma per group of actions), and implies the properties.

`UdpPump_proofs` (`TypeOK`, `ExactlyOneFate`, `NothingLeftBehind`, `QuietFlush`,
`BytesBalance`, `OvertakenOnce`, and the safety half of `LinkSpec`).
That the datagram in hand exists exactly while `pc` is `send` (`SendingCur`) is
what makes `SendCurrent` settle something, and `ClosingEmpty` (after the channel
is seen closed nothing more comes, at the end nothing is held) gives
`NothingLeftBehind`. `SendSettles` says once what a write does, for `SendCurrent`
and `FlushOne`. Three properties have invariants of their own. `TickerInTime`, for
`QuietFlush`: in `select` with something held and no tick waiting, the age of the last
stored datagram and the time to the next tick add up to at most `MaxDelay`. `BytesInv`:
what was counted out and what is still pending, at the full size of a datagram each, is
within what was counted in. `HeldInv`: until the goroutine flushes, nothing sent straight
through has passed a datagram still held, and the flush takes all of them. `ImplementsLink` maps each
action to one of `DatagramLink` or to a stutter; `NoSwap` (without `-swappy` nothing is
held) is what it needs where the link must not reorder.

`UdpMux_proofs` (`TypeOK`, `ShutDownOnce`, `MapIsLive`,
`WaitGroupExact`, `WaitDrains`, `AtMostOneOrphan`, `NoOvercount`, `TotalsComplete`), for
any number of peers and workers. `GoInv` ties each worker's wait group to where its three goroutines
are. `StopInv` is the heart: `LockInv` (who may hold the lock), `TargetInv`
(how far the worker in a stopper's hands has been taken apart) and `PlaceInv`
(a worker is in one place: in the map, in the collector's list, in the hands of
one stopper, or past). With two stoppers and one place each, no worker is reached
twice. `ReaderInv` says what the reader can hold, `OrphanInv` that after
the handler has emptied the map only the worker being created can be put in it.
`NoOvercount` is not inductive: it needs the datagram in the reader's hands, the response
not handed over yet, and above all the same bound for what each stopper has loaded
(`CountInv`), because the store may put that back whatever was added in between. A sum
over workers is the size of a pile of numbered datagrams (`Pile`), whose lemmas
(`PileParts`, `PileChange`) rest on the cardinality of unions and products and so need
no induction. `TotalsComplete` rests on two invariants: `SettledInv` (the counters of a worker
that `Wait` has let pass no longer change, but for a late pump's) and `CompleteInv` (while
no additions have overlapped, what a stopper has loaded is what the totals still are). `PartnersStayAlive` is a theorem without a run of its own, which `ShutdownEnds`
rests on: whoever waits on an unbuffered channel (a stopper on `shutdownChan`, the response
reader on `w.responses`) waits for a goroutine that is still there, because a response
reader that leaves has met the stopper that has its worker in hand (`PartnerInv`).

`OrnamentFw_proofs` (`TypeOK`, `FrameInBounds`, `PatternIdInBounds`). The loop's
position cannot be shown in bounds without the boot: `LoopInv` says that only
between main's store of an index one too far and its reset can a touch go further
in the array, and only until main assigns its own pattern can that matter.
`SleepReturns` says where a sleeping main goes on; with it `TypesInv` is inductive.

`Podscribe_proofs` (`TypeOK`, `StateBehindFiles`, `CompletedIsWhole`,
`CompletedStays`, `CallsHaveACause`), for any number of files, threads and troubles.
`FileInv` says what is on disk at each step of a file, `OpenInv` that a file being written
belongs to a thread that will close it or to a run that was killed, `ClaimInv` that what
`state.json` claims is true in memory and on disk, `SaveInv` that what is being
written is what is in memory, `WholeInv` that
a part of a file can be taken for all of it only where the file is in `cut`.
`CallInv` is the bound on the transcriber's calls with a call in hand: a file from whose
place, status and raw transcript a call can still follow (`Owed`) has had at most as many
calls as there were troubles. Each trouble that makes a file owed again pays for itself;
`PlaceInv` excludes the ways in which a file could become owed without one.

`TimerTasks_proofs` (`TypeOK`, `NoneLost`, `StuckOnlyAfterRefusal`, `OnTime`). `LockInv`:
a call looks at the list only while `TAKEN` is set, and the interrupt serves it only while
no flag is; `CallInv`: the element found to link behind is still in the
list where it is used; `FlagInv` carries the postponement mark to the end of the call.
`OnTime` needs the order of the list, `OrderInv`: while no tick was missed, the list, with
the task a call is about to link where it found its place (`Line`), is sorted by what its
tasks have left (`Left`), and nothing is overdue. `Left` is one larger for a label from before the
wrap, so a tick takes one from every task's value and the tick in which time wraps takes
nothing from any: the order stays. That no interval reaches `Wrap - 1` (part of `TimerAssumption`)
keeps the 32-bit difference of the code equal to `Left` while nothing is overdue
(`TimeLeftOK`). The list lemmas (what `InsertAfter`, `Tail` and unlinking do to
the set of elements, to their being distinct and to their order) are stated once.

`UsbDevice_proofs` (`TypeOK`, `NoEndpointLeak`, `NeverStuck`, `PipeSpec`). The function's
record is one of four (`Zeroed`, `Shut`, `Halfway`, `Whole`), and the two layers below
hold exactly the endpoints it names (`Holds`, `FunctionInv`): resets and requests that open or close
it, refused or not, lead to one of the last three (`Reopened`), everything else leaves the record and what is
held alone (`Kept`). `WriteInv` says what frees a claimed endpoint. The refinement
of `UsbPipe` follows step by step; the line on its way is the one the controller is busy with.

`PowerLog_proofs` (`TypeOK`, `TicksAccounted`, `LinesTrue`, `HostInOrder`), for any
number of channels and ticks. `BusInv` and `TransferInv` relate what the bus acknowledged
to what the driver counts, whatever the flags and timeouts; `SampleInv` says that every
earlier reading is in `read` unless the sample has failed; `HostInv` that the
host's last line is older than the one in flight, or the same when not copied. Its
theorems are about `UsbPipe`; `ImplementsPipe` says that the stack is one.

Only checked by TLC: liveness under fairness, which the prover does not reach
(`Settled`, `CloseEnds`, `ShutdownEnds`, `OffSleeps`, `OnGoesOff`, `AllCompleted`,
`SampleEnds`, and the fairness of `DatagramLink` in `LinkSpec`), and the absence of
deadlock, which is about `ENABLED`.

## Not modelled

The components with status `not_modelled` in `PROJECT.json`, each with its
reason. What is hard about those that have state, for whoever goes on from here:
- feed sync: a killed download must leave no episode that later runs take for complete; only the rename makes it one (rss_fetcher.py:149).
- shelper: `Stop` waits for every connection's goroutine, each of which waits for its client's next line (listener.go:101); a second daemon removes the socket of a running one (listener.go:102).
- sshscan: workers test for a host's result and insert it after the scan, so a host listed twice may be scanned twice (worker.go:27).
- cyberwaiter: a crash after the rename and before the tag is written (updater.go:59).
- acmedns: two requests for one name read the record set, decide to create or patch it, and write it (gcp.go:82).
- trashdig: several agents share one rate limiter.

In the modelled ones: the split points of the chunks, the summary report, flags
and logging, `setup` of the ornament's registers and its `DEBUG` build, the USB
parts named above, and of `hpl_sercom.c` and `hpl_tc.c` whatever powerlog does not
call.

Of the repository's 166,000 lines of C, 163,000 are powerlog's: register headers,
configuration macros and drivers generated for its microcontroller, most of which the
program does not use. They are accessors that write one register each and have no
behaviour to model. The models therefore cover a small share of the lines.

## Plan

1. Done: `DatagramLink`, `UdpPump`, `UdpMux`, `OrnamentFw`, `Podscribe`; then the powerlog firmware from the program to the controller: `TimerTasks`, `I2cMaster`, `UsbPipe`, `UsbDevice`, `PowerLog`. Proved: every safety property of a passing run, and the refinements of `DatagramLink` (its safety) and `UsbPipe`.
2. Prove next: more of the safety facts that the liveness properties rest on, as `PartnersStayAlive` is one for `ShutdownEnds`: that a sleeping ornament with its timer off has a touch to wake it, that a transfer's waits are bounded.
3. Model next: `FeedSync` composed with podscribe's input directory, `ShelperDaemon`, `SshScan`, `CyberUpdate`, `AcmeDns`; files sharing a stem in `Podscribe`; an abstract worker life cycle that `UdpMux` implements.
