# A TLA+ model of EerieLeapRT

EerieLeapRT is the firmware of a sensor monitor built on Zephyr: it reads sensors, sends their
values over CAN, logs them to an SD card, shows its state on a small display and is configured
over HTTP. The repository holds the application. The sensor processing, the configuration
managers, the log writer, the CAN driver and the work queue come from two git submodules (`rt_core`
and the Lua port) that are not part of it; they appear here as libraries, modelled from the way the
application calls them.

This directory holds one TLA+ module per component of the application that has behaviour worth
checking, small instances of them for TLC, abstract specifications of the two components that
others rely on, and proofs of nearly all the safety properties that TLC checks. `PROJECT.json` lists the runs, maps
every definition to the lines it models, and lists the hazards of the code with the properties that
cover them.

Contents: 1 the system, 2 the modules and the code, 3 the runs, 4 bounds and fairness, 5 the
proofs, 6 a divergence between a comment and the code, 7 what is not modelled, 8 the plan.

## 1. The system

Paths are below `app/src/` unless they start with `scripts/`.

| Component | State | Operations | Hard part |
|---|---|---|---|
| `CanbusSchedulerService` (`domain/canbus_domain/services`) | the vector of tasks, one work item each; a Lua state per message; the shared readings | `Start`, `Pause`, `Resume`, `Restart` on a control thread; `ProcessCanbusWorkTask` on the work queue's thread | a task that reschedules itself while `Pause` cancels it; `Restart` destroys tasks and clears readings |
| `CanFrameDbcBuilder` | none | `Build` | looks the DBC up again at every run |
| `ScriptProcessor` | the stack of each Lua state | `Process` | every early return and throw must pop what was pushed |
| `DisplayController` (`controllers`) | the animation object, its index, a flag, the statuses | `Initialize`, `StartAnimation`, `StopAnimation`, `PrintStringLine`, three status operations | the frame buffer's thread runs `Animate` of an object the controller replaces and destroys |
| `LoggingController` (`controllers`) | a logger made at boot | the LOGGING command handler, `LogWriterStart`, `LogWriterStop` | partial failure between the writer and the status shown; a configuration that changes under the logger |
| `SensorsApiController`, `HttpServer` (`domain/http_domain`) | a static buffer and cursor, static pointers set during the boot | GET, chunked POST with abort, `UpdateSensorsConfig` | one buffer for all requests; the server runs before its objects exist |
| configuration page (`static_resources/configuration/scripts/editor.js`) | editor text, dialog, message box, timers | load, edit, upload, save | functions interleave at every `await`; answers that are lost |
| `main` | the objects above | the order of construction; `SetupTestSensors` stores its own configuration at every boot | threads run and requests arrive before the boot is over, and again after every loss of power |
| four animations (`views/animations`): dot path, wave lines, tapered wave, particles | a path and its time; a frame counter each | `Initialize`, `Animate` | index and range arithmetic in floating point and unsigned pixels; a `float` that counts frames |
| `WifiApService`, device tree (`subsys/device_tree`) | interface, mount points | `Initialize` | steps that fail halfway |
| logs parser (`scripts/logs_parser`) | a stream position | read a log or its metadata, write JSON or CSV | a log ends where the device lost power |

How they interact:

- `main` makes the display, the CAN communication service, the logging controller, the sensor
  processing and the CAN scheduler, in this order, and has started the HTTP server before most of it.
- The CAN communication thread calls `LoggingController`, which calls the log writer and then the
  display. The display shares its animation object with the frame buffer's thread.
- The work queue's thread reads the sensor readings that the processing writes, and calls into the
  Lua states that the control thread made.
- The HTTP thread stops and starts the sensor processing around an update, and browsers run the page.
- The log that the writer leaves on the card is read by the parser, on another computer.

What makes each correct:

- **CAN scheduler**: after `Pause` nothing runs or is scheduled; no task is used after `Restart`
  destroyed it; nothing computed from cleared readings is sent; a message has one task; a task keeps
  running whatever fails in one run; every call returns; a Lua state is used by one thread at a time.
- **Script processor**: the Lua stack is balanced on every path.
- **Display and logging**: `Animate` is never run on a destroyed object; the flag, the object and
  the thread agree; the "log" status is shown exactly while the log is written; a command is answered
  truthfully, and always answered.
- **Sensors API**: exactly the bytes of a request are parsed for it; a POST answered with success
  replaced the configuration and one answered with an error did not; the processing runs with the
  configuration that is stored, unless a call of it throws; every request ends; all this across losses
  of power.
- **Configuration page**: "Saved!" is true, as long as the device does not start again; every save is
  reported; a message disappears; when all saves succeeded the device holds one of them.
- **Dot path**: no access beyond the path; a path that leaves the screen comes back; no jumps in
  the picture.
- **Other animations**: the wave lines do not cross; the tapered wave is drawn on the screen and
  moves with every frame; no particle disappears.
- **Log parser**: exactly the intact records of a torn log are written, each reading in the column
  of its sensor.
- **Boot**: nothing is used before it is made, on any board and whichever step fails; a success of
  `WifiApService` means that stations are served; the boot ends.

## 2. The modules and the code

| Module | Models | Notes |
|---|---|---|
| `PausableSender` | what callers of the CAN scheduler rely on | abstract |
| `CanbusScheduler` | `canbus_scheduler_service.cpp`, with `Build` and the outcomes of `Process` | implements `PausableSender` |
| `CanbusSchedulerProofs` | | proofs |
| `ScriptProcessor`, `ScriptProcessorProofs` | `script_processor.cpp` | stack depth per Lua state |
| `DisplayController` | `display_controller.cpp` and the frame buffer's thread | |
| `LoggingController` | `logging_controller.cpp` and the part of `main` that matters to it | EXTENDS `DisplayController`: the composed system |
| `LoggingControllerProofs` | | proofs about both |
| `ConfigStore` | what HTTP clients rely on | abstract |
| `SensorsApi` | `sensors_api_controller.cpp`, `http_server.cpp`, the boot around them | implements `ConfigStore` |
| `SensorsApiProofs` | | proofs |
| `ConfigEditor` | `editor.js` in several browsers | EXTENDS `ConfigStore`: the pages against the abstract device |
| `ConfigEditorProofs` | | proofs |
| `DotPath` | `dot_path_animation.cpp` | integer arithmetic, see below |
| `Pixels` | the conversion to `uint16_t` and the bounds check the drawing code repeats | used by the next three |
| `WaveLines`, `TaperedWave`, `Particles` | `wave_lines_animation.cpp`, `tapered_wave_animation.cpp`, `particles_animation.cpp` | arithmetic in hundredths |
| `Animations` | the choice of `DisplayController::StartAnimation` | EXTENDS the four animations: one of them is made and then drawn |
| `AnimationProofs` | | proofs about all five |
| `LogParser` | `log_data_header.py`, `log_data_record.py` and the loop over them | |
| `LogFile` | `log_file.py`, `log_metadata_*.py`, `cbor_parser.py` | EXTENDS `LogParser`: a log and its metadata become CSV |
| `LogFileProofs` | | proofs about both |
| `WifiAp` | `wifi_ap_service.cpp` | |
| `Boot` | `main.cpp`, `dt_fs.cpp`, `http_server.cpp` | EXTENDS `WifiAp`; the threads' own work is in the modules above |
| `BootProofs` | | proofs about `Boot` and `WifiAp` |

Each `MC…` module gives the constants of one of them values for TLC and adds nothing else.
Definitions named `…` after a comment "Mutant:" are plausible wrong versions of the definition that
follows them. They are in no next-state relation; `PROJECT.json` says which property notices each.

**CanbusScheduler.** A public call is a sequence of steps of the control thread (`pc`, `call`, and
the loop variables `i` and `todo`), because the handler runs between any two of them. `CallX` enters
a call. `StartGet`, `CreateTask` and `AllCreated` are `Start` up to `StartTasks`; `ScheduleTask` is
one pass of the loop over `Schedule`, shared by `StartTasks` and `Resume`; `CancelBusy` and
`CancelIdle` are one pass of `while(Cancel()) k_sleep(…)`; `ClearTasks` and `ClearReadings` are the
middle of `Restart`. The handler goes through `CheckBus`, `Build`, one of `KeepFrame`,
`ScriptReturns` and `ScriptFails`, `SendFrame`, `Reschedule` and `HandlerDone`; `CheckBus` may also
end it for good, as the code does when the bus is invalid. A value is abstracted to the number of
times the readings had been cleared when it was written (`epoch`): that is all that the properties
about stale values tell apart. The work queue is external: `Cancel` removes a pending task and
reports whether its handler runs; a handler that was cancelled during its run may or may not be
queued again, since nothing in the application decides it. `registered` holds the tasks whose functions
are in their Lua state, so that a task of a new generation starts without. A script may return nothing
after it has updated readings. `phase` is a history variable: "off" from
the end of a cancel loop until a loop over `Schedule` begins.

**ScriptProcessor.** `depth` counts the values on each state's stack and every Lua call in `Process`
is a step that pushes and pops what the Lua manual says of it. The outcomes of a call are the ones
`CanbusScheduler` uses.

**DisplayController and LoggingController.** An operation of the display is entered by an `Op…`
action and goes on in steps (`dpc`), between which the frame buffer's thread (`BeginAnimate`,
`EndAnimate`) runs. `inside` records whether that thread is inside `Animate` and whether the object
still lives. `Cfb::StopAnimation` is external: it returns when the thread is out of the handler.
`LoggingController` adds the communication thread (`lpc`), the log writer, whose operations may
fail, the updates of the sensors configuration, and main's order: display, communication service,
controller (only if there is an SD card). Fairness is stated for the composed system only: the display
has no thread of its own.

**SensorsApi.** `main` after `http_server.Start()` is `BootFs`, `BootSetup` (`SetupTestSensors`, whose
update may be refused and whose result nobody looks at), `BootController` (one static after the
other) and `BootProcessing`. `PowerLoss` may come at any time, also during the boot and after a
fault: everything in RAM has its initial value again, the open connections break, and the
configuration, which is in the file system, stays. The server is external: one client slot, bodies in chunks of any
sizes, an abort at any time. `Post` is one call of the handler; the steps `Deserialize`, `Update`,
`StopProcessing`, `StartProcessing` and `Respond` are the rest of a call that has the last chunk. A
byte is the pair of a body and a position, so that `OwnBodyParsed` can tell whose bytes are in the
buffer. A null pointer stops the device (`fault`) until its power is switched.
`Stop` and `Start` of the processing are calls of a library inside the handler's `try`. The ones in
`Throwing` may throw, with their effect or without it: the handler then goes to `threw` and answers with
an error, and an exception of main's own `Start` (`main.cpp:320`), which nothing catches, ends the device
(`terminated`). Two history variables say what is known of the processing: `early`, that it was last
stopped before main had started it, and `broken`, that a call has thrown since.

**ConfigEditor.** A function runs from one `await` to the next in one action; `waiting` holds the
saves whose fetch has not been dealt with. The device is `ConfigStore`'s `Apply` and `Reply`, which
`SensorsApi` implements, so the two modules together cover the path from the button to the sensors.
`ConfigStore` has the boot too: between `PowerLoss` and `Setup` nothing is answered with a success, and
`Setup` may replace the configuration by `BuiltIn`. The pages live through it. With `LateErrors` a POST
may be answered with an error after it was applied: that is what the endpoint does when `Stop` or `Start`
throws, and the pages are checked against a device that may do so.

**DotPath.** Coordinates are integers in a unit the instance chooses; `time_` counts in steps of
1/`Unit`. Floating point appears as a rounding of one unit in either direction and as the case that
a dot's number plus the time is rounded up to the next number (`Sums`). The easing, the directions'
probabilities and the drawing are left out.

**The other animations.** Sines, cosines and amplitudes are taken in hundredths, and each may be any
value of a set within the range of its formula, independently of the others: more than the code's
frame counter can bring about, so what holds here holds for it. What a property depends on is kept:
in `WaveLines` that all lines have the same phase at a column (`Swing`); in `TaperedWave` the thickness
along the wave, the check before the line is made thick, and a time that is a `float` of `Precision`
bits, rounded to even; in `Particles` the order of conversion and addition. A negative value that is
converted to `uint16_t` is undefined in C++, and `Uint16` gives the outcomes of the two instructions a
compiler may use: zero, or the low 16 bits. `DrawColumn` and `DrawWave` are one pass of the loop over
the columns; the end of the loop, with the clearing of the screen, is an action of its own.

**LogParser.** The file is 32 header bytes and 21 bytes per record, cut off anywhere. A field is one
read; `HeaderFields` and `RecordFields` say for each what happens to a read that returns nothing or
too little, since the code tests some fields and unpacks others.

**LogFile.** A metadata file is what the device listed in it, what a reader gets from it, and how it
was damaged (`kind`). `Refused` is `LogMetadata.create` with the three functions it calls;
`LoadMetadata` is the caller. `WriteColumns` is `to_csv` up to the header line, and `WriteRows` is a
step of `LogParser` together with the line it writes. The time column and the names and units are
left out: a column is its sensor.

**WifiAp and Boot.** `boot` and `part` say where `main` is. `alive` holds the objects made and not
destroyed, `threads` the threads that run. Up to the file system every step is an action of its own,
because it may fail or depends on the board; from the time service on the code is a straight line,
and `Construction` lists its parts with what each uses, makes and starts. `WifiAp` is the sequence
of requests `WifiApService::Initialize` makes. Either it or `main` moves: it runs on main's thread.

## 3. The runs

| Run | Instance | What it shows |
|---|---|---|
| `scheduler` | 3 messages (one scripted, one receive-only), 2 channels, 2 configurations, 2 sets of DBC definitions, one restart | `PauseQuiesces`, `NoDestroyedTask`, `NoClearedReadings`, `OneTaskPerMessage`, `LuaStateExclusive` in every interleaving of the two threads with updates of readings, configurations and buses; `ImplementsSender`: refinement of `PausableSender` |
| `scheduler_live` | 2 messages, 1 channel, a fixed configuration | `TaskKeepsRunning`: a pending task runs and a run that got past the bus check is followed by another; `CallsReturn`: `Pause` and `Restart` end although handlers reschedule themselves |
| `script_stack` | 2 loaded scripts, one that failed to load, a message without script | `StackBalanced` on every path of `Process` |
| `display_api` | 2 statuses, with and without a frame buffer | `AnimationConsistent` for any sequence of the display's operations |
| `logging_display` | 1 status, 1 update of the configuration, with and without SD card and display | `AnimationAlive`, `StatusMatchesWriter`, `StatusVisible`, `AnswersTrue`, `CommandsAnswered` in the composed system |
| `logger_stale` | the same | violated: see section 6 |
| `sensors_api` | 2 clients, 3 requests, bodies of 1 to 4 bytes of which one is malformed and one too long for the buffer of 3; the power may be lost at any time, and `Stop` and `Start` may throw | `OwnBodyParsed`, `FaultsOnlyDuringBoot`, `RequestsEnd`; `ProcessingFollowsConfig`, by the next update at the latest if a call of the processing threw; `ImplementsStore`: refinement of `ConfigStore` with late errors |
| `config_editor` | 2 pages that save once each, of two configurations one the built-in, a text that is not JSON, a device that loses power and may report errors late | `SavesHold`: two successful saves leave one of them on the device, whatever their order |
| `config_editor_one` | 1 page, 2 saves that may overlap, two configurations, a body that is none and a text that is not JSON, the same device | `SavedMeansApplied`, `MessageExpires`, `SaveReported` |
| `animations` | one animation of the four; the dot path on a 128 x 64 screen in tenths of a pixel with jumps of 10 and 40 pixels, 3 jumps, 5 dots; 4 wave lines on 6 x 32; a tapered wave on 16 x 32 with floats of 4 bits; 3 particles on 16 x 32 | `ExcursionBounded`, `ExcursionEnds`, `SegmentExists`, `PictureContinuous` of the dot path; `LinesApart`; `StrokesOnScreen`, `TimeMoves`; `ParticlesShown` |
| `log_file` | all logs of at most 2 records, damaged in any part and cut off at every byte; metadata that is missing, damaged in each way, empty, too long, or lists 2 sensors | `IntactRecordsWritten`; `CutOutcome`: the table of what the caller sees for each place of the cut; `ReadingsInTheirColumns`: the rows have the header line's columns, and each reading stands in its sensor's |
| `boot` | every combination of display, SD card, internal file system, network and WiFi, each step failing or not | `NothingUsedBeforeMade`, `AccessPointServed`, `BootEnds` |

The runs `scheduler` and `sensors_api` also check their type invariants; those of the
other modules are proved, with the invariants they support, and so are the strengthenings the proofs
need, which TLC checked on the same instances first. TLC's deadlock check
is on in all runs. (`SensorsApi` stutters when all its requests are used up or the device has
stopped, `LogFile` when the output is written or refused, and `Boot` in the endless loop.)

Some results a reader of the code may not expect:

- `AnimationAlive` holds in the composed system but not for `DisplayController` alone: `UpdateStatuses`
  makes a new animation without stopping the running one, and is safe only because `LoggingController`
  removes a status only after it added it.
- `FaultsOnlyDuringBoot` says that null pointers *are* met while `main` has not come to
  `HttpServer::Initialize`, and never after. The comment at `main.cpp:170` says that the objects come
  later. If the file system fails `main` returns and the window never closes.
- An update that comes between `HttpServer::Initialize` and `sensors_processing_service->Start()` starts
  the processing, and main then starts it again. `ProcessingFollowsConfig` says that this is the only
  way to two starts, that both are with the stored configuration, and that the next update leaves one.
  What a second `Start` does is the library's.
- `Stop` and `Start` are called inside the handler's `try`, after the configuration was replaced. If one of
  them throws the client gets a 500, "Failed to parse JSON", for a configuration that is stored
  (`LateErrors`), and whether the processing runs is not known until the next update. A success is never wrong.
- A configuration saved from the page may not survive a loss of power: `SetupTestSensors` stores the
  built-in one at every boot, unless that update is refused. `main.cpp:246` calls it a matter "for test
  purposes only". `SavesHold` therefore allows it beside what was saved, but no third one and no mixture.
- `CutOutcome` lists where the parser raises instead of returning, among them a cut right before the
  checksum.
- A path of the dot animation may leave the screen, by at most the bound of `ExcursionBounded`;
  negative coordinates are then converted to `uint16_t`.
- Two neighbouring wave lines may each be moved by 0.6 of their distance. `LinesApart` holds because
  the lines share their phase at every column, not because of the limit on the amplitude alone.
- The time of the tapered wave grows by 10 a frame in a `float`. From 2^24 on the steps are rounded, and
  at 2^28, after some 27 million frames (ten days at 30 a second), the wave stands still (`TimeMoves`).
- With a conversion that saturates, a particle on the upper half of its wave stays in the middle of
  the screen; with one that wraps, it is where it should be. Neither loses it (`ParticlesShown`).
- `LoadConfig` may overwrite a file that was uploaded while the page was loading, and the timer of
  an old message may hide a new one early. Nothing promises otherwise, and both are in the model.
- The checksum is what keeps a damaged list of sensors out of the columns, and refusing an empty list
  is what keeps the header line and the rows together: the two lines of `to_csv` that choose between
  one column and several test different things.
- When the internal file system fails `main` returns, and destroys the display controller and its
  animation under the thread that draws it. `NothingUsedBeforeMade` says that this is the only way in
  which a running thread loses its objects. On a board without an internal file system `value()`
  throws before that.
- `main` does not look at the result of `WifiApService::Initialize`, and a success does not mean that
  the interface is up: the wait for it gives up after ten tries. If the access point cannot be
  enabled the DHCP server stays.

## 4. Bounds and fairness

| Bound | Where | Why it is enough |
|---|---|---|
| `StartLimit = 1` | scheduler | `main` makes the only call of `Start` and nothing else in the repository calls it |
| `MaxGen = 2` | scheduler | one `Restart`: two generations of tasks coexist at most, as `Restart` begins by quiescing; the proofs hold for any number |
| 3 messages, 2 channels | scheduler | one message at rest, one running, and one that never gets a task |
| `StackSlots = 20` | script | LUA_MINSTACK; one value left per call would reach it |
| `MaxVersion = 1` | logging | one change between the boot and a start of the log |
| `BufferSize = 3`, bodies of 1 to 4 bytes | sensors API | the boundary is reached exactly, by one and by chunks of which each fits |
| `MaxRequests = 3` | sensors API | an aborted or refused upload or one whose `Stop` or `Start` threw, one after it, and a read |
| `MaxSaves` 1 or 2 | editor | two saves of one page overlap, or two pages' saves do |
| 2 or 3 bodies | editor | the built-in configuration, another, and with one page a body that is none; without it the two pages' saves are applied more often |
| `LateErrors = TRUE` | editor | the weaker device; the properties hold for the other one too |
| `N = 3`, `DotCount = 5` | animations, dot path | a path out of the margins, back and out at the other side; the proofs hold for any numbers |
| `Unit = 20`, `Step = 4` | animations, dot path | a wrap of the time every five frames; the code's ratio is 50, and the proof of `SegmentExists` is for any |
| 6 columns; 4 lines, the code's number; height 32, that of the repository's display | animations, wave lines | the six columns have every sign of the cosine; a line meets only its neighbours. `LinesAssumption` asks for three rows per line; the code has six |
| amplitudes -5, 20, 105 | animations, wave lines | the least and the greatest the formula can give, and one that the easing makes small |
| 16 x 32, four sines | animations, tapered wave | thin and thick columns, the greatest displacement either way |
| `Precision = 4` for 24 | animations, tapered wave | the time passes every spacing of its floats up to its standstill within 23 frames |
| height 32, 3 dots of 12, 12 frames for 120 | animations, particles | `ParticlesAssumption` asks for 29 rows, so that a dot moved by 14 stays on the screen |
| `MaxRecords = 2` | log file | a damaged or torn record after a good one, of another sensor |
| `MaxQty = 2` for 20 | log file | the limit is reached exactly and passed by one |
| `RetryCount = 10` | boot | the code's value |

Counters that are not listed (`epoch`, `runs`, `timers`) are bounded by these. Losses of power are not
bounded: each resets the state of the device. `sent.n` alternates
between 0 and 1 so that two equal frames are two steps.

Fairness:

- *Scheduler*: the control thread (`ControlStep`) and the handler (`HandlerStep`) keep running: WF.
  A pending task is dispatched: SF per task, since the thread may be busy whenever it looks; its
  delay is finite and the queue first in first out. `CancelIdle`: SF, since a poll every millisecond
  meets a task at rest between two runs, which are a send interval apart. An interval shorter than a
  handler's run would break that assumption. Public calls, readings, configurations and buses are
  under no fairness.
- *Logging*: an operation that has begun goes on and `Animate` returns: WF, of the composed system.
  Commands, updates and the boot are under none.
- *Sensors API*: the HTTP thread goes on: WF. A client's transaction goes on: WF on the disjunction of
  its next chunk and the abort, because the server closes an idle connection. A loss of power ends it
  too, and is under no fairness; nor is the boot.
- *Editor*: a browser runs its timers and the continuations of its fetches, and the device answers or
  the connection is lost (`RequestsEnd`): WF. Users are under none.
- *Boot*: the main thread goes on: WF. The interface may go up and down or never come up.
- *Animations, log file, script, display alone*: only safety is claimed.

Taken of the libraries, for the sensors API: `Update` replaces the configuration in the file system whole
or not at all, also when the power is lost during it or it throws. The manager's `Get` returns a
configuration and the parser serializes it: `sensors_config_get_handler` dereferences the one and calls the
other without a `try` (`sensors_api_controller.cpp:44-47`), so that a failure there would be fatal. What
`Start` and `Stop` throw derives from `std::exception`, which is what the handler catches; whether and when
they throw is left open, in the run and in the proofs.

## 5. The proofs

The eight `…Proofs` modules are checked by TLAPS. They assume the named `ASSUME`s of the modules they
are about (`ConstantsAssumption`, `NoTaskAssumption`, `ScriptAssumption`, `DisplayAssumption`,
`LoggingAssumption`, `ApiAssumption`, `EditorAssumption`, `DotPathAssumption`, `LinesAssumption`,
`WaveAssumption`, `ParticlesAssumption`, `LogParserAssumption`, `LogFileAssumption`, `WifiAssumption`),
which TLC evaluates on every run, and in three theorems a hypothesis that is named where it is used:

| Hypothesis | Theorems | Why the code justifies it |
|---|---|---|
| `SingleStart` | `OneTaskPerMessageAlways`, `LuaStateExclusiveAlways` | `main` calls `Start` once and nothing else calls it; a second call would append every task again and register functions under a running script |
| `DistinctMessages` | `OneTaskPerMessageAlways` | main's configurations number their messages one by one. `Start` makes a task of whatever is listed, so a configuration that lists a frame id twice gives it two tasks; whether the configuration manager, a library, refuses one is not in the repository |
| `LargeEnough` | `StrokesAlwaysOnScreen` | 14 x 13 pixels at least and sizes of 16 bits; the repository's only display has 128 x 32. On fewer pixels the proof's bounds do not hold, and a thick stroke may pass the edge |

An invariant that a run checks is seldom inductive. Each proof below strengthens it by what the
code's authors must have had in mind at the steps between; one lemma per conjunct and step.

**CAN scheduler**, for any messages, channels, configurations and numbers of calls. `TypeCorrect` is
proved first, one lemma per thread. `PauseQuiesces` is not inductive: it is established by the last
step of the cancel loop, and says nothing of the steps before it. `PauseProgress` says what the loop
has achieved after `i - 1` tasks, but needs to know that whatever is pending or running is one of the
tasks the loop visits: `NoDestroyedTask`. That in turn needs, when `ClearTasks` empties the vector,
that nothing is pending or running, which is `PauseQuiesces`. `NoClearedReadings` needs the same when
the epoch changes. The invariant is the conjunction

    IInv == TypeOK /\ PauseProgress /\ PauseQuiesces /\ NoDestroyedTask /\ NoClearedReadings

with one step lemma for each conjunct (`Inductive`). From it follow `PauseQuiescesAlways`,
`NoDestroyedTaskAlways`, `NoClearedReadingsAlways`, and `SchedulerImplementsSender`: every step maps
to a step of `PausableSender` or to a stutter (`SenderStep`), where a frame is sent in phase "on"
because of `PauseQuiesces` and from the current epoch because of `NoClearedReadings`. The two
properties about the creation of tasks rest on `StartsOnce` (nothing is pending, running or in the
vector when a loop over `CreateTask` begins, which for `Restart` is `PauseQuiesces` again),
`TodoDistinct` (what is still to be created is not there yet) and `ScriptsRegistered`.

**Script processor.** `StackAlwaysBalanced`: the depth of every stack is a function of where `Process`
is, for any number of messages and calls.

**Display and logging**, for any statuses, kinds of animation and changes of the configuration.
`DisplayInv` says for each place in an operation what the flag, the object and the thread are there;
it is inductive for the display alone, and `AnimationAlwaysConsistent` follows. A step of the composed
system is a step of the display or leaves it alone (`LogUsesDisplay`), so it holds there too.
`AnimationAlive` is false for the display alone (section 3): what the composed system adds is in
`OneCaller` (an operation of the display runs only for a command that waits for it), `WriterKnown` and
`StatusFollows` (a status is added only when it is not set, removed only when it is) and
`AnimationWaits` (so that an animation is made only when none runs). `LogInv` is their conjunction, and
`StatusMatchesWriter`, `StatusVisible` and `AnswersTrue` follow.

**Sensors API**, for any clients, bodies, sizes of the buffer and numbers of requests, and across any
losses of power. `OneClient`: the server has one slot, and the handler answers the client in it.
`BufferHoldsRequest`: the cursor is what the open request has sent, and the buffer up to it is the
beginning of its body; every end of a request, by answer, refusal, abort or loss of power, must set the
cursor back for this to be inductive. `PointersFollowBoot`: which static pointers are set at which
step of main, and which of them a handler that has come so far has found set. `ProcessingKnown`: how
often the processing was started at each step of an update, by `early`, unless a call has thrown. `ApiInv` is their conjunction with
`ApiTypeOK`. `FaultsAlwaysDuringBoot` is an action property from it. `EndpointImplementsStore` takes
the steps one by one (`StoreSteps`): `Update` is the store's `Apply`, an answer is its `Reply`, the
rest stutters; an answer after an exception of `Stop` or `Start` is a late error. All of it holds for any
`Throwing`. With the empty set it says what the run does not: if neither call throws, an answer with an
error means that nothing has changed.

The proof showed an assumption the model did not state: a text without bytes is no configuration. Its
POST would be deserialized without a byte having been received, and the cursor would not tell it from
one that has yet to begin. `ApiAssumption` now says so: `Deserialize` throws for a text that is not JSON, and the empty one is not.

**Configuration page**, for any pages, connections and saves, against the abstract device.
`AnswersKnown`: a success is given for a text that is a configuration. `SavesKnown`: a connection that
posts is a save its page waits for. `SavesApplied`: if every save that was posted is applied or was
answered with success, the device holds the text of one of them or the built-in one. It is inductive
because a request that is posted anew is not applied, which makes the hypothesis false until it is.
`SavesAlwaysHold` follows, and with `SoleSaverShown`, that what the page shows is the answer,
`SoleSaverAlwaysHolds`: if nobody else saves, a page that says "Saved!" shows the truth. Both are for a device that may report errors late, and so with the refinement
proved above hold of the page against the endpoint, whatever the processing service throws.

**Parser**, for logs of any number of records, damaged anywhere and cut off at any byte. `AtField`: the
stream stands where the fields read so far end, or at the end of the file if the last one was short and
the code lets it pass. `BeforeIsIntact`: whatever was written is whole and good. `FieldsPassed`: what
the fields read of this part tell of it. `EndsForCause` and `EndsByTear`: why the parse ended, and how,
by the place of the tear in its part. The two tables of `CutOutcome`, with a remainder by 21, follow
by arithmetic (`CutDecides`). `CsvReadsLog` carries all this to `LogFile`, where `CsvInv` adds that
the metadata is what was listed and that there is a row for each record written.

**Boot**, on every board and for any number of retries. `BootInv` says what has been made after `part`
parts of the construction (`ObjectsMade`) and which threads run (`ThreadsStarted`); `PartFinds` and
`ThreadFinds` go through the parts and the threads. `WifiInv` gives `AccessPointAlwaysServed`.

**Animations**, for every size of the screen the assumptions allow.
*Dot path*, for any jump lengths and numbers of jumps and dots: `ExcursionAlwaysBounded` by an
invariant on all positions with the lemma `ClampRange` on `ClampToBounds`; `ExcursionAlwaysEnds` from
the same lemma, for each axis that no jump crosses (on the repository's 128 x 32 display only the
horizontal one: a jump of 40 rows may lead from beyond one margin to beyond the other); `SegmentAlwaysExists` from `SegmentRange`, which is the reason for the factor 0.9999 in
the code: rounded up, the last dot's place is the end of the path exactly; `PictureAlwaysContinuous`
from the type of the time and that the first size is 0.
*Wave lines*, for any number of lines and any phase: with three rows per line, two neighbours' rows
differ by a row or more after rounding (`RowsApart`), and `LinesInv` says that what is drawn for the
line above is at its row.
*Tapered wave*: the thickness is bounded by the place along the wave (`ThicknessRange`), so a stroke
that passed the check stays on the screen when it is made thick (`StrokeOnScreen`).
*Particles*: both outcomes of the undefined conversion stay on the screen (`DotYRange`).
`EachAnimationBehaves` carries these to the module that TLC runs: whichever animation is made, the
whole behaves as each specification says, the others standing still.

Model-checked only: liveness, which is out of the prover's reach (`TaskKeepsRunning`, `CallsReturn`,
`CommandsAnswered`, `RequestsEnd`, `MessageExpires`,
`SaveReported`, `BootEnds`); and `TimeMoves`, which is about powers of two that no backend
interprets, and whose spacing of the floats is an induction.


## 6. A divergence between a comment and the code

`controllers/logging_controller.h:27` says of `logger_`: "NOTE: Recreate on sensor configuration
change". It is made once, in the constructor (`logging_controller.cpp:21`), and nothing recreates it. In `logger_stale` TLC shows the shortest consequence: the boot makes
the logger, an HTTP request updates the sensors, and a start command then begins a log written with
the sensors of the old configuration.

## 7. What is not modelled

- **Libraries** (`rt_core`, Zephyr, Lua, the DBC parser, zcbor): their code is not in the repository.
  The scheduler's model of the work queue, the display's of `Cfb`, the API's of the HTTP server and
  of the processing service, and the logging controller's of the log writer are marked external in
  `PROJECT.json`, and contain no more than what the application's use of them needs.
- **The tables of the device tree**, fixed when the firmware is built, and the detection of an SD
  card, which only the SD monitor would poll: `main` does not start it.
- **The contents of main's test configurations, and JSON output of the parser**: data. That one of the
  configurations is stored at each boot is modelled (`BootSetup`). The JSON writer goes through the
  same records.
- **`SensorsEditorController`, `scripts/*.py` of the HTTP domain**: a static page and the build step
  that makes it; no state.
- **Presentation in the page**: highlighting, scrolling, the tab key, the menu's visibility, the
  download.
- **Tests, boards, overlays, hardware files, containers.**

Every hazard in `PROJECT.json` has a property. Some behaviour is in the models although nothing promises
otherwise, and no property is about it: a bus that becomes invalid ends its tasks until the next
`Restart`, which is what the handler does on purpose; a download of the page overwrites an upload; the
dot path's negative coordinates are converted to `uint16_t`; and a mount point may come without a disk
name, which the SD card service has to deal with.

## 8. The plan

The order was: the CAN scheduler with its abstract specification and proofs, since the rest of the
system depends on its `Restart`; the script processor; display and logging, the second place where
threads share an object; the HTTP path from the page to the sensors; the parser and its metadata; the
dot path; the boot; losses of power in the HTTP path; the other animations; then the proofs of their
safety properties. All this exists. What is left:

1. questions that a proof has made room for: a page that is told which of two concurrent saves has won
   (`SavesHold` says that one of them has);
   a restart of the scheduler that the HTTP update of the sensors would need; readings of several logs
   against one metadata file;
2. a theorem that composes the page with the endpoint itself, in place of citing the refinement.
