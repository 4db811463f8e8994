# A verification project for the zapper

The repository is the software of a small DVB set-top box ("zapper"): one
process whose threads read a remote control, change programs, parse the tables
of the transport stream and draw on the screen, above a library (`tdp_api`) that
drives the front end and the player engine; below it are the drivers of a Sony
demodulator, of a satellite front end and of an interface to conditional access
modules.  This directory holds TLA+ models of these parts, TLC configurations
that check them on small instances and TLAPS proofs of what matters most for
every instance.

## 1. Inventory

| Component | Source | State | Operations | Talks to |
|---|---|---|---|---|
| Zapper main | `src/main.c` | `volume_lvl`, `volume_mute`, the exit condition | `callback` (one branch per key), start-up and shutdown in `main` | calls all the others; its `callback` runs on the remote controller's thread |
| Remote controller | `src/remote_controller.c` | `rc_thread_running`, `callback`, the event buffer | `remote_init`, `remote_loop`, `remote_callback_register/unregister`, `remote_deinit` | calls the registered callback |
| Stream controller | `src/stream_controller.c` | `pr_counter`, `str_prm` (five flags), `status`, `PAT`, `SDT`, `error`, the timer and its setting | the handlers `change_program`, `next_program`, `previous_program`, `get_prog_info`, `get_prog_list`, `set_volume`; `stream_loop`; `filter_callback`; `pr_change_timer`; `stream_init`, `stream_deinit` | TDP API calls; four callbacks into the graphics controller |
| Graphics controller | `src/graphics_controller.c` | `render_fnp` (flags and parameters), three timers and their settings | `print_*`, `remove_prog_list`, three timer routines, `render_loop`, `graphics_init/deinit` | DirectFB (external) |
| Table parser | `src/table_parser.c` | none (writes the caller's tables) | `parse_PAT`, `parse_PMT`, `parse_SDT` | called by `filter_callback` |
| Config parser | `src/config_parser.c` | none | `parse_config_file` | called by `main` |
| TDP API: player and demultiplexer | `src/tdp_api/tdp_api.c` | handles `hPE`, `hSource`, `hStreamA/V`, `hFilter`, `hBuffer`; the section callback | `Player_*`, `Demux_*`, `m_sectionReceivedCallback` | player engine (external) |
| TDP API: tuner | `src/tdp_api/tdp_api.c` | `InitDone`, `i32OldEdge`, the status callback | `Tuner_*`, the status threads | integration driver, or the satellite driver |
| Sony integration driver | `sony_dvb_cxd2820.c` | `sony_dvb_cxd2820_t` (cancel flag, automatic spectrum) | initialise, tune, blind tune, wait for the TS lock, scan, sleep, cancel | demodulator driver, tuner |
| Sony demodulator driver | `sony_dvb_demod.c`, `..._monitor*.c` | `sony_dvb_demod_t`; the registers of the chip | initialise, finalise, sleep, tune, soft reset, configure; lock checks; long echo sequences; monitors | I2C |
| NuTune tuner driver | `NuTuner/*.c` | the last frequency | initialise, tune | I2C |
| Register access | `sony_dvb_i2c.c` | none | read, write, read-modify-write | I2C device |
| Satellite front end | `M88TS2022_adapt/mt_fe_dmd_ds3000.c`, `mt_fe_tn_montage_ts2022.c` | a dozen globals of the driver; the registers of demodulator and tuner | connect, lock state, blind scan, cancel | I2C; the caller's table |
| CIMaX+ driver | `cimaxspi/cimax.c`, `hal_os.c`, `cimax_spi_pio.c` | the driver's context, `responseBuff`, `hIntMutex`, CAM flags | `CIMAX_Init`, `CIMAX_Term`, the event thread, registers, slot functions | SPI device, the clients' callback |

Threads: the main thread; the remote controller's thread (key handlers run on it);
the stream thread; the render thread; the player engine's section thread
(`filter_callback` runs on it); one thread for each tuner lock that waits for the
transport stream; one thread for each expiry of a SIGEV_THREAD timer (the
program-change timer and three timers of the graphics controller); the event thread
of the CIMaX+ driver.  Locks: `stream_params_mutex`, `status_mutex` with
`status_condition`, `render_fnp_mutex`, `section_mutex`, `hIntMutex`.  The front end
drivers have no lock.

What is hard here: a condition wait without a predicate; tables written by one thread
and read by another without a lock; timers that outlive the zap that set them and
share their setting with other threads; one `error` variable for two threads; early
returns with a mutex held; start-up and shutdown in an order that leaves callbacks
registered; scripts of dozens of bus writes each of which may fail, followed by what
the software remembers of them; nested waits with time-outs, retries and
cancellation; status threads that nobody joins; registers that mean something only
in their bank and hold still only while frozen; answers that arrive after their
time-out; a blind scan that edits its table while it walks over it; parsers that count
lengths down to exactly zero.  The list with lines is `hazards` in `PROJECT.json`.

What makes each component correct:

- *Stream controller*: the streams that play are those of the current program; no handle
  to a live stream is lost and none of an earlier program survives; every request is
  served; a screen blackened for a zap becomes visible again; the information banner never
  outlives its program.
- *Graphics controller*: each frame on the screen is one complete state of the flags; what
  is asked for is drawn; an indicator disappears after the last key press; nothing is
  drawn on a released surface.
- *Zapper main and remote controller*: start-up ends; the tuner is locked before the player
  starts; threads find the memory they use on every path; EXIT ends the program.
- *Table parser and config parser*: a section or a file is turned into exactly the tables or
  parameters it describes, and a file that is not complete is refused (as far as the fields that hold
  its numbers are wide enough).
- *TDP API, player*: what the caller has opened exists and is what its handle says; what
  it has closed is gone; no call reaches an object that does not exist.
- *TDP API, tuner*: a lock that returned 0 is the front end's state; every call and every
  status thread ends.
- *Demodulator and integration driver*: what the driver remembers is what the chip does,
  whatever write failed; a wait ends, and a search puts back what it tried; every
  acquisition starts from the default settings.
- *Monitors*: a register is accessed in its bank, nothing stays frozen, a value belongs
  to the lock that was tested.
- *Satellite front end*: LOCKED is told only of the tuning that was asked for and with a
  transport stream that is fast enough; a steady signal is found; a blind scan lists every
  transponder once.
- *CIMaX+ driver*: only the holder of the mutex talks to the chip; success means that
  the chip has done it; the driver knows where the CAMs are.

## 2. Modules

| Module | What it is |
|---|---|
| `StreamController` | the four kinds of threads of `stream_controller.c` once `stream_init` has succeeded |
| `GraphicsController`, `Screen` | the render thread, the callers and the timers of `graphics_controller.c`; its abstract specification |
| `Zapper` | start-up and shutdown: `main.c`, `remote_controller.c`, `stream_init`, `stream_deinit` |
| `ConfigParser` | `parse_config_file`, one word at a time |
| `TableParser` | `filter_callback` and the three table parsers on the bytes of sections, one turn of a loop at a time |
| `TdpPlayer` | the player and demultiplexer half of `tdp_api.c` over the objects of the player engine |
| `CxdDemod` | the Sony demodulator driver and what its writes make of the chip |
| `Cxd2820` | extends `CxdDemod`: the integration driver, one call of the demodulator or one poll a step |
| `Tuner` | extends `Cxd2820`: the tuner half of `tdp_api.c` and its status threads |
| `LongEcho` | the long echo sequences of DVB-T2, one turn of the crank a step |
| `Monitor` | the monitor functions and lock checks as scripts of register accesses of two threads |
| `Ds3000`, `BlindScan` | the satellite front end under `tdp_api.c`; its blind scan |
| `Cimax` | the CIMaX+ driver, its clients, its event thread and the chip |
| `MC...` | the instances TLC checks |
| `...Proofs` | the theorems and their proofs |

In the modules a definition marked "Mutant of" is a plausible mistake (section 3); all others
are the code's, the environment's or properties.

### 2.1 StreamController

`stream_pc` is the line of `stream_loop` the stream thread is at; it is
`"unlocked"` exactly when `stream_params_mutex` is free, which is the guard
`MutexFree` of the key handlers.  A zap is one sequence of actions for the three
copies of the code (change, next, previous): `BlackScreen`, `RemoveStream` for
audio and video, `FreeFilter`, `SetFilter`, `WaitForSection`, `TestStream` and
`CreateStream` for video and audio, `Present`, `StoreTimerSpec`, `SetTimer`,
`Finish`.  Every checked call takes two steps, the call and `AssertResult`, the
test of the macro `ASSERT_TDP_THREAD_RESULT`, because `error` is a file-scope variable
that `set_volume` writes without a lock; the early return of the macro, which keeps the
mutex, is `stream_pc = "dead"`.  The calls are modelled by what `tdp_api.c` does
with `hStreamA`, `hStreamV` and `hFilter`: `streams` is what the handles refer to,
`orphans` are live streams whose handle was overwritten.  `filter_callback` resets
and fills a PMT entry field by field, as `parse_PMT` does, and other threads may
run in between (`SlowSections`).  `pthread_cond_wait` has no predicate: any signal
that comes while the thread waits ends the wait, a signal that comes earlier is lost.
`pr_change_timer` runs on a thread per expiry, without a lock, and shares
`pr_change_timer_spec` with the stream thread, so its statements are separate steps.
`screen` is the part of `render_fnp` that the callbacks write.

### 2.2 GraphicsController and Screen

`flags` and `keypress` are the fields of `render_fnp`; a `print_*` call is one step
under `render_fnp_mutex`, and `Locked` says when the render thread holds it.  A frame is
`NewFrame`, `LookForRadio` (its own critical section at line 123), `DrawRadio`
outside the mutex, the elements of `AfterDraw` in their order, and `Flip`.  For an
indicator whose key was pressed the thread restarts the timer in three steps
(`RestartTimer`), of which the routine on another thread (`TimerRoutine`) may come in
between: they share the setting.  Line 208, which resets the info banner's setting in
the branch of the program number, is modelled as it is written.  The routine takes the mutex only
for the flag.  `graphics_deinit` is `StopRendering` and, after the join,
`ReleaseSurfaces`.

`Screen` is what the callers may rely on: `asked`, `frame` and `displayed`, and the
step that composes a frame from what is asked for at one moment.  Only the radio
picture is looked at earlier (`radio_seen`), because of the separate critical section.
`GraphicsController!Promise` is the refinement mapping (`asked <- flags`, `frame <-`
the working buffer just before the flip).

### 2.3 Zapper

`main_pc` is where the main thread is, from `remote_init` to its return.
`AfterStep` lists the calls and waits of `stream_init`; a call (`TdpCall`) and
the test of its result (`AssertResult`) are two steps for the same reason as above.
`WaitForStatus` and `SignalStatus` are the four waits on one condition variable;
`LockTimeout` is the return that leaves `status_mutex` locked (`leaked`).
`deadline_ok` stands for the uninitialised `tv_nsec` of the deadline and is chosen
freely: when it is out of range, `pthread_cond_timedwait` fails at once and the
code takes that for the notification.  The remote controller's thread reads a key, tests `callback`,
reads it a second time, and runs the handler; `change_program`, `set_volume` and `ExitKey` are
the handlers that matter here.  `section`, `pat`, `sdt` and `parsed` are the tables and what
`filter_callback` is doing to them.  A NULL dereference is the state `"crashed"`.

### 2.4 ConfigParser and TableParser

A word of the configuration file is a record of its parameter, its value and the number
`atoi` makes of it.  The order of the code's tests is kept where it shows: a parameter is
stored, narrowed to its type, before it is tested (`Stored`, `Valid`), an unknown parameter or
an unknown value of `modulation`, `audio_type` or `video_type` leaves the word without effect
(`SkipWord`), and whether all eight were there is counted when the file has been closed.

`TableParser` works on bytes, because its hazards are in the bytes: `section` is a sequence of
them, made by the encoders `PatSection`, `PmtSection` and `SdtSection`, which are the broadcaster and
know nothing of the parsers.  `at` is the state of the loop: counters, position and the unsigned
count-down `sl`.  Leaving the section or an array is the state `"strayed"`.  `Handled` says which multiplexes
the parsers are made for; the table in section 4 shows what happens to others.

### 2.5 TdpPlayer

`hdl` are the six globals, `objects` what exists in the engine, `held` and `opened` what the caller
was given and has not closed.  A call that makes several engine calls stops at the first that
fails, with what it has done so far.  `Careful` is a caller that opens and closes in order and
passes the handles it was given; without it any handle is passed at any time.  `misuse` records engine
calls on objects that do not exist, by the caller or by the section thread
(`m_sectionReceivedCallback`, whose four steps interleave with everything).

### 2.6 CxdDemod, Cxd2820, Tuner

`chip` has ten registers that say what the chip is doing; the scripts `SL2NOT`, `NOT2SL` and their
like are the orders in which they are written (`EnterOrder`, `LeaveOrder`), and a failing call leaves any
first part of the order written.  `demod` is what the driver remembers.  `Cxd2820` adds the waits:
an operation is a record with its program counter, polls, trial and result; cancellation is an
action that is always possible.  `Tuner` composes it with `Tuner_*` and one checking thread per
lock; `latch` is the clock edge of the two slaves, `oldEdge` what `DMDi_Change_Config` remembers.

### 2.7 LongEcho and Monitor

`LongEcho` is the state machine of `dvb_demod_le_Seq...` with its time in ms, the settings it tries
in `reg`, and the waits for the transport stream with their own sequence.  What the chip finds
is free at every turn.  `Monitor` writes each function as a script of accesses (`Scripts`);
`undo` says what is still done when one of them fails, as the error paths do.  Bank and freeze
registers are state of each slave, values only matter as "read while locked".

### 2.8 Ds3000, BlindScan, Cimax

`Ds3000` keeps the driver's integer arithmetic (clock dividers, tuner frequency, offsets) because its
hazards are there; the dish is the environment (`air`).  A poll of the status thread is a step,
with everything it reprograms.  `BlindScan` walks windows, candidates and trials; the table is the
caller's array with the shifts of `insert` and the exchanges of `remove_unlocked`, and `seen` only records for the properties
what was shown and told.  `Cimax` has every exchange of a command and its answer as steps under
`mutex`; late answers stay in the chip (`chip.slip`) and are taken for the next ones.  The chip answers at once or late; that
`getResponse` takes the low pin of an event for the answer's (`cimax.c:2463-2483`) is not told apart from a read
that comes too early (`NoResponse`).

### 2.9 How the modules fit together

The zapper's modules cut the program along its calls: `Zapper` has the life of the stream thread as one
variable, and `StreamController` starts in the states `stream_init` leaves; `StreamController` has the effect
of the print calls on three flags, `GraphicsController` has every interleaving of those calls with the
drawing, and `Screen` what the callers may rely on.  Both have the tables as parsed or not parsed;
`TableParser` has how one section is parsed.  `StreamController` and `Zapper` use the player's calls as a
careful caller does, which is the regime of `TdpPlayer`'s theorems.  `Tuner` is composed of all of
`Cxd2820` and `CxdDemod`; `BlindScan` of all of `Ds3000`.  `LongEcho` and `Monitor` are the detail of calls
that `Cxd2820` takes in one step (a turn of the long echo loop, a lock check).

## 3. What is checked

Twelve runs; `tlc -config <name>.cfg <module>` repeats one.

| Run | Module | Question | Instance |
|---|---|---|---|
| `zap_safety` | `MCStreamController` | do the flags match the streams, are no foreign streams, black screen or banner left behind? | a television and a radio program, both digit keys, `next`, `info`, one timer routine, failing calls and slow sections |
| `zap_liveness` | `MCStreamController` | are requests served, keys handled, the screen lifted, and is it the right program? | 3 programs, key 0, `next`, `previous`, `volume`, `list`, one routine; no failures, sections parsed at once |
| `gfx` | `MCGraphicsController` | do frames implement `Screen`, is everything drawn and every indicator taken away? | any two of seven calls, one routine for each timer, shutdown at any moment |
| `life` | `MCZapper` | do the threads find their tables, does the player wait for the lock, does start-up end and EXIT work? | 2 programs, all keys, failing calls, slow sections, any deadline |
| `player` | `MCTdpPlayer` | does what was opened exist, and is what was closed gone? | 2 handles (one may be given out again), 1 callback, 1 failure; a careful caller |
| `driver` | `MCCxd2820` | is the driver right about its chip, is the sense restored, does every operation end? | direct calls on a CXD2817 or a CXD2820, two bandwidths; or the integration driver on a CXD2820: 3 polls, 2 frequencies, one thread and a cancellation |
| `tuner` | `MCTuner` | is a lock that returned 0 true? | the application and one checking thread, 2 polls |
| `long_echo` | `MCLongEcho` | do the trials start from the defaults and end before the sanity limit? | polls of 150 ms in place of 10 |
| `monitor` | `MCMonitor` | right bank, nothing frozen, values of the lock that was tested? | 3 systems, every function, 3 values of a MER average (10), 4 polls (100); the quality call beside the status thread; any access fails |
| `satellite` | `MCDs3000` | is LOCKED true and the stream fast enough, is a steady signal found; does a scan list every transponder once? | 4 signals, 5 calls or changes of the signal, 3 polls (60); or a scan of 2120 to 2150 MHz with 2 skies, algorithms A and B, 2 passes, a table of 5, an abort and failing trials |
| `cimax` | `MCCimax` | mutex, initialisation, CAM state, truth of a success? | 2 clients, 12 kinds of calls, 3 tries (5), 4 calls or plugs and 1 fault in all |
| `parsers` | `MCParsers` | is every complete file accepted and no other whose numbers fit their fields, and do the tables say what was broadcast? | the repository's file with each word left out, and each of 15 odd words in each place; 9 PATs of 2 programs with PMTs of up to 4 streams from 5, own or shared PIDs |

**Bounds.**  Two programs are needed for a zap, three so that `next` and `previous` differ and
both kinds of program follow each other; a program enters the code only as an index and its two PIDs.
One timer routine is enough for it to be overtaken by the next zap; the theorems have any number.
The remote controller's thread handles one key at a time, so the number of keys is not bounded.
Two calls of the graphics controller (`MaxCalls`) are enough for every pair, and for a call that asks again for
what is just disappearing.  Two handles let the engine give out a handle again while an old one is still
held; one failure (`MaxFailures`) already leaves a call half done, and every later call works on what it left.
A poll that finds nothing leads to the next, so that two or three polls show the first, the last and one
in between; `P1Poll` and `T2P1Poll` are the polls at which the code looks for something else.  With an interval of
150 ms the sequences pass every limit of the code (300, 600, 3000, 3500, 5000 ms) at its exact
multiple, as with 10 ms; the theorems have any interval that divides them.  Two passes of a scan let the
second meet the table of the first, and a table of five is larger than what the sky shows and smaller
than what aborted trials leave.  The bounds that end a behaviour rather than describe the code are
`MaxCalls` in `MCGraphicsController`, `MCDs3000` and `MCCimax`, `MaxScans`, `MaxFaults` and
`MaxFailures`.  What the regime constants rule out is said in the row: `CallsMayFail`,
`SlowSections`, `Careful`, `TornWrites` (calls of the demodulator driver fail after any of their
writes; `driver` and `tuner` have failures at the first, the direct calls have all), `Quick`, `Overlap`,
`VoidFails`, `ScanMode`, `TunerFails`.  Section 4 shows what they hide.
`CHECK_DEADLOCK FALSE` is used where the system really stops: a dead stream thread that holds the
mutex, the end of the process or of a file, and behaviours that have used up a bound.

**Fairness.**  Weak fairness for each thread of the zapper: the scheduler runs a thread that can run.
Weak fairness for sections: a broadcaster repeats PAT, SDT and PMT for ever.  Weak fairness for
timers: they expire.  Strong fairness for the key handlers (`SF_vars(Handler)`) and the timer routines of
the graphics controller: the stream thread and the render thread release and take their mutex in a
loop, so it is free again and again but not continuously, and `pthread_mutex_lock` is assumed not to
starve one waiter for ever.  `Cxd2820`, `Tuner`, `LongEcho` and `Monitor` have weak fairness of the thread that
is inside a call, and of nothing else; `LongEcho` has strong fairness of the turns of the wait for the transport
stream, which shares the chip with the acquisition.  `TdpPlayer`, `Ds3000`, `BlindScan`, `Cimax` and the parsers
are checked for safety only.  Nobody is assumed to press a key or to call anything.

**Mutants.**  `PROJECT.json` names for each property a definition of the code and a plausible
mistake in it (next to it in the module, marked "Mutant of") that TLC finds with that property.

**Properties in no run.**  The modules define some more, which TLC has been found to satisfy with the
configurations above: `TypeOK` of every module (`DriverTypeOK`, `TunerTypeOK`, `ConfigTypeOK`, `TableTypeOK`, `MonitorTypeOK`),
`SurfacesOutliveRendering`, `EventBufOutlivesReader`, `LeakedMutexMeansExit`, `CallsOnLiveObjects`,
`SleepWithSystemRuns`, `AcquiredRuns`, `CallbackInMode` (also with `TornWrites`), `TunerCallsEnd`, `PlainModeHasDefaults`,
`LocksRestoreSettings`, `SearchRestoresSense`, `SequencesEnd`, `LeavesCrlClosed` (with `Quick = FALSE`),
`MerAveragingRestored`, `CallsReturn` and `L1ChangesReported` (the last two under `FairMonitorSpec`) and
`ParsersStayInside`.

## 4. What the runs show

What holds is in the table.  What does not hold, or only in a regime, is below; each line has been reproduced with
TLC.  Where a comment or a header of the repository says otherwise it is quoted.

*The zapper*

| Configuration | Refutes | What happens |
|---|---|---|
| `stale_section.cfg` | `PlaysCurrentProgram` | a section of the previous program whose parsing began before the filter was changed ends the wait at `stream_controller.c:136`; the new program's unparsed entry decides which streams are created |
| `radio_picture.cfg` | `RadioShownForRadio` | the timer of a television program fires after the user has gone to a radio program and takes the radio picture away for good |
| `no_such_program.cfg` | `CurrentProgramExists` | a digit past the last program indexes outside `PAT.pmts` |
| `dead_thread.cfg` | `PreviousFlagSet` | after one failed call the stream thread is gone with the mutex held and the key handlers block |
| `life.cfg` | `PlayerWaitsForLock` | with an invalid deadline (`deadline_ok`: the uninitialised `tv_nsec`) start-up does not wait for the lock |
| `zap_safety.cfg`, `volume` for `info` | `HandlesMatchStreams` | the volume key overwrites `error` between a failed call and its test; the flags say a stream exists that does not |
| `zap_liveness.cfg` | `BlackWhileZapping` | a late timer routine of the previous zap makes the picture visible during the next |
| `gfx.cfg` | `PressedIndicatorStays` | the routine of an old timer takes an indicator away that was just asked for again |
| `life.cfg` | `TimeoutMeansNoLock` | the tuner locks before main waits; the signal is lost and start-up gives up although the tuner is locked |
| `life.cfg` | `StartsConfiguredProgram` | a digit key during start-up replaces the configured program |
| `life.cfg` | `CallsRegisteredCallback` | the callback is unregistered between the test and the call |
| `life.cfg` | `ListIsParsed` | a PAT section that is still being parsed ends the wait for SDT |
| `life.cfg` | `ResetFlagStopsThread` | the join waits until one more event arrives, because the thread sits in `read` |
| `life.cfg` | `StartUpEnds` without `deadline_ok` | with an invalid deadline the table_id of an entry that is just being reset goes into the filter, and no section ever matches it |

*The parsers* (`parsers.cfg` with another value for `Multiplexes`)

| `Multiplexes` | Refutes | What happens |
|---|---|---|
| `MCNoNetwork` | `ParsersStayInside` | `parse_PAT` takes it for granted that one entry is the network's: without one, `pmts` is an entry too short (`table_parser.c:11-14`) |
| `MCSmallNumber` | `TablesMatchBroadcast` | a program below 256 is taken for the network and skipped (line 17) |
| `MCDescribed` | `ParsersStayInside` | the descriptors of a program are taken for its streams (line 41 starts behind the length and does not look at it), and the count-down misses zero |
| `MCMultiplexes` | `NumbersAreDigits` | with an SDT in another order than the PAT a number in the list is the digit of another program (`graphics_controller.c:174`, `stream_controller.c:534`) |
| `MCUnlisted` | `ParsersStayInside` | a PMT of a program that is not in the PAT is searched for without a bound (`stream_controller.c:89`) |

*The configuration parser*

| Configuration | Refutes | What happens |
|---|---|---|
| `config_range.cfg` | `ProgramNumberInRange` | "Program number must be in range 1-7!" (`config_parser.c:152`) is tested after the number was stored in a byte (145-150, `config_params.h:14`): a file that asks for program 259 is accepted, and the zapper starts with program 3 |

What the parser does promise is `AcceptsTheComplete`, which compares with the numbers as the file has them and with
the ranges its messages ask for, not with its own narrowed values: no complete file is refused, and an
accepted one gives each parameter once, in range, and as the file has it wherever the field can hold it.  What "given"
means: `modulation=DVB_T2` beside `modulation=DVB_T` is no second declaration, and a negative number is a
number.  After an error the file stays open.

*Player and demultiplexer*

| Configuration | Refutes | What happens |
|---|---|---|
| `failed_call.cfg` | `FailedCallUndone` | the error paths say "Deinit and exit" (`tdp_api.c:935`, 1071, 1215) and return: what the call has created stays in the engine and the caller has no handle to it |
| `section_race.cfg` | `SectionUsesLiveObjects` | `Demux_Free_Filter` releases the buffer and `Demux_Unregister_...` clears the callback while the section thread is between its steps (`tdp_api.c:1579-1585` against 494-592); `section_mutex` is only taken by the section thread |
| `player.cfg`, `Careful = FALSE`, no symmetry | `NothingLeaks`, `OpenedExists` | a second `Player_Source_Open` or `Demux_Set_Filter` overwrites the global of the first |

*Demodulator, integration driver, tuner*

| Configuration | Refutes | What happens |
|---|---|---|
| `driver.cfg` | `ScanModeEnds` | `dvb_cxd2820_Scan` "Configure driver device for normal operation." (line 647) is not reached when a step of the scan fails (621-640): the scan mode stays on |
| `driver.cfg` | `StartsUncancelled` | `dvb_cxd2820_Cancel` ("Cancel any pending operations on the demod.") when nothing is running cancels the operation that starts next |
| `driver.cfg` | `SleepMeansAsleep` | SLEEP ("Chip is in Sleep state") is also the state of a chip that runs for DVB-T2 and waits for the soft reset of the long echo sequence |
| `tuner.cfg` | `LatchesAtItsEdge` | slave T has taken the new edge, slave T2 failed: the edge is not remembered, and the next lock with the old one configures nothing (`tdp_api.c:1632-1640`, `sony_dvb_demod.c:866-878`, 1119-1122) |
| `tuner.cfg` | `StatusOfItsLock` | the status thread of an earlier lock reports for the frequency of the next |
| `tuner.cfg` | `CallsRegisteredCallback` | the status callback is unregistered between the test and the call |
| `tuner.cfg`, `Reinit = TRUE` | `LockTellsTruth` | a second `Tuner_Init` takes a running chip for asleep, with the old `i32OldEdge` |
| `old_wait.cfg` | `FirstAttemptPlain` | the wait for the transport stream of one lock goes on while the next acquires, and writes its settings |
| `long_echo.cfg`, `Quick = TRUE` | `LeavesCrlClosed` | a lock before the P1 wait is over leaves the carrier recovery loop open |
| `scan_freeze.cfg` | `NothingStaysFrozen` | in scan mode the lock check returns between freezing and unfreezing (`sony_dvb_demod.c:519-547`) |
| `lost_unfreeze.cfg` | `NothingStaysFrozen` | the result of the write that unfreezes is thrown away (`sony_dvb_demod.c:110`, `..._monitorT.c:20`, `..._monitorC.c:21`) |
| `monitor.cfg`, `Beside <- OptimisingBeside` | `RightBank` | a status thread that also optimises the output of DVB-T2 changes the bank under the quality call: there is no lock on the bus |

*Satellite front end*

| Configuration | Refutes | What happens |
|---|---|---|
| `second_lock.cfg` | `LockedReportIsTrue` | the status thread of the first lock reads the chip while the second lock sets it up |
| `satellite.cfg`, `TunerFails = TRUE` | `LockedReportIsTrue` | the tuner that did not tell its version is not set and is taken to be where it was asked to go (`mt_fe_tn_montage_ts2022.c:98`, 215) |
| `satellite.cfg`, a signal at 11710 MHz with tone | `SteadySignalIsFound` | the oscillator is chosen from the frequency (`tdp_api.c:460`), the tone comes from the caller: between 11700 and 11725 MHz they disagree |
| `satellite.cfg`, `MaxScans = 2`, `Faults = {}` | `EverySignalIsFound` | the second scan starts with the table of the first, whose entries hide the candidates |
| `satellite.cfg`, `MaxScans = 2`, `MaxCalls = 0` | `TableHoldsTheLocked` | the sweep goes one place beyond the entries (`mt_fe_dmd_ds3000.c:4632-4639`) and brings a locked entry of the scan before to place `tp_num`; whoever reads only up to there does not see it |

Seen on the way, not stated as properties: a failure of the timing recovery followed by a lock gives the lock up
(`mt_fe_dmd_ds3000.c:5989-6023`); when the trial as DVB-S times out DVB-S2 is not tried (6015); an abort before the
scan has begun is lost (2238); an aborted scan leaves entries marked unknown; an insertion into a full table writes
behind it (4562); `remove_unlocked` counts in a byte (4616), which is why `MaxNum` is at most 255.

*CIMaX+ driver*

| Configuration | Refutes | What happens |
|---|---|---|
| `cimax.cfg`, `Overlap = TRUE`, `Faults = {}` | `LockHeldInCalls` | `CIMAX_Term` destroys the mutex while a client is in a call |
| `cimax.cfg`, `Quick = FALSE` | `LockHeldInCalls` | `CIMAX_Term` waits 100 ms, the thread may sit in an exchange for seconds (`cimax.c:773`, `hal_os.c:403`) |
| `cimax.cfg`, `Calls <- MCWholePieces` | `LpduArrivesWhole` | an LPDU of a whole number of pieces lacks its last four bytes (`cimax.c:2183-2201`) |
| `cimax.cfg`, `Callback = "NULL"` | `NothingCrashes` | the event thread starts before the callbacks are set, and `tdp_api.c:792` passes NULL (`cimax.c:745-753`, 1724, 1740) |

Not stated as properties: a failing `CIMAX_SPI_Init` returns `NULL`, which is `CIMAX_NO_ERROR`
(`cimax_spi_pio.c:82`); a success on the last of five tries counts as a failure (`cimax.c:719`, 737); one late answer
makes every later try of `downloadCfg` fail (725-741); the wait for a bit to be set has no bound (1994).

## 5. What is proved

All proofs are checked by TLAPS (SMT, Zenon, LS4) for every value of the constants that meets the named
assumptions of the modules.

*StreamController* (`StreamControllerProofs`)
- `TypeCorrect`.
- `BlackScreenIsLifted`: `BlackScreenWillLift` for any number of timer routines.  It is not inductive: the
  stream thread's `timer_settime` starts the timer only if no routine has cleared the setting since, and a routine's own
  call may start it.  `BlackScreenInv` adds that a setting that was cleared after `store_spec` was cleared by a
  routine that has yet to lift the screen.
- `HandlesMatch`: `HandlesMatchStreams` unless the volume key may be pressed while calls fail (`Quiet`).  `HandlesInv`
  adds that `error` is what the thread's own last call `returned`, which is what a failing `set_volume` destroys.
- `NoForeignStream`: `OwnStreamsOnly` when moreover every digit key is a program.  `OwnInv` adds
  that a PMT entry only ever holds garbage, 65000 or its own program's PIDs.
- `CurrentProgramPlays`: `PlaysCurrentProgram` when moreover a section is parsed before the thread goes on
  (`~SlowSections`; `stale_section` shows why).  `PlaysInv` follows the zap statement by statement: the filter is that
  of the current program from a successful `set_filter` on, its PMT entry is the broadcast one when the streams are
  created, each kind of stream plays once it is past, and a key between two zaps sets `change`.
- `BannerCurrent`: `BannerOfCurrentProgram`, which is inductive: a key changes the program only while the mutex is free
  and records the change in the same critical section.

*GraphicsController* (`GraphicsAndParserProofs`)
- `TypeCorrect`, `SurfacesLive`.
- `IndicatorsLift`: `IndicatorWillLift`, with `LiftInv` and `RestartInv`: between storing the setting and starting the
  timer, a setting that was lost was lost to a routine still under way.
- `FrameContents`, `ImplementsScreen`: `GraphicsController` implements `Screen`.  `ScreenInv` relates the working buffer to the
  flags element by element as far as the frame is drawn; because the mutex is held from the list to the black screen, the
  whole buffer is what is asked for at the flip.

*Zapper* (`ZapperProofs`)
- `TypeCorrect`; `EventBuffer` (`EventBufOutlivesReader` is inductive).
- `MutexLeak`: `LeakedMutexMeansExit`.  `MutexInv` adds that up to the wait for the lock there is no player, filter
  callback or stream thread, and that none appears after the mutex has leaked.
- `LockBeforePlayer`: `PlayerNeedsLock`.  What holds with any deadline is `AnyDeadline`: main is past the wait only when
  the tuner was told to lock (`Asked`), and it frees the tables only after the stream thread has ended (`Joined`).  With a
  valid deadline `LockInv` adds that main is past the wait only with a locked tuner; no section can send the signal
  because no filter callback is registered yet.
- `StreamThreadTables`: `TablesServeStreamThread`, by `Joined` with any deadline.  With a valid one `TablesInv` follows what the filter lets through in
  each phase of start-up; a PAT section in flight when the filter is changed can end the wait for SDT but has been parsed
  completely by then.

*TdpPlayer* (`TdpPlayerProofs`)
- `PlayerTypeCorrect`, for any caller.
- `OpenedAlwaysExists`, `CallsAlwaysOnLiveObjects`, for a careful caller (`Careful = TRUE`), any set of handles and any
  number of failures.  The invariant adds that what is opened is what the caller holds, that a stream, source or filter
  belongs to the engine of `hdl["hPE"]` and that no two globals name one object.
- `NothingEverLeaks`, for a careful caller: `NothingLeaks`.  The invariant says at every statement, not only between
  calls, which of the objects in use the running call has already released: the engine has exactly the others.

*CxdDemod, Cxd2820, Tuner* (`CxdDemodProofs`), for every chip, every set of bandwidths, any polling limits and every
failing write
- `DemodTypeCorrect`, `ActiveAlwaysRuns`, `SleepingAlwaysSleeps`, `SleepWithSystemAlwaysRuns`.  `ActiveRunsItsSystem` is not
  inductive alone: a tune starts from SLEEP and switches only what the script writes, so that the invariant also says
  what a chip in SLEEP is (asleep, adopted or running for DVB-T2).
- `AcquiredAlwaysRuns`, `SenseAlwaysRestored` (`SenseRestored`), when one thread calls the driver and any others cancel
  (`OneCaller`).  `DriverInv` says of that thread's call which waits belong to which operation, that a wait for the
  demodulator has the demodulator in the system it waits for, and that the second try of a DVB-T2 wait is only made
  with the automatic search on.  With two callers it is false: a second `Tune` changes the system under the first.
- `LockAlwaysTellsTruth`: `LockTellsTruth` with any number of threads that check a lock, when `Tuner_Init` is not
  repeated.  `TunerInv` is `DriverInv` of the one thread that moves the demodulator, with what the remembered edge says
  of the latches; the checking threads only wait for the transport stream and leave the driver's state alone.  A repeated
  `Tuner_Init` takes a running chip for asleep, with the old edge (section 4).

*LongEcho* (`SonyProofs`), for every polling interval that divides the limits
- `SequencesTypeCorrect`.
- `SanityIsNeverNeeded`: the time an acquisition has used is bounded by what its trials say (`Spent`); all trials together
  take less than the sanity limit.
- `LocksAlwaysRestoreSettings`, `SearchAlwaysRestoresSense`: action properties from the same invariant.
- `FirstAttemptAlwaysPlain`, `PlainModeAlwaysHasDefaults`, without overlapping waits (`Overlap = FALSE`).

*Monitor* (`SonyProofs`), for any number of threads, any length of a filtered MER (the code has 10 values), any number of
polls (100) and with any access failing
- `MonitorTypeAlways`, `AlwaysRightBank` (`RightBank`), `NothingEverStaysFrozen` (`NothingStaysFrozen`) and
  `ValuesAlwaysOfTheLock` (`ValuesOfTheLock`), when the threads are those of the TDP API (`AsTdpApi`: one asks for the
  quality, what others call beside it only checks locks), the write that unfreezes works (`~VoidFails`) and
  the lock check is not that of a scan (`~ScanMode`).  In each of the three other cases TLC shows that a property
  fails (section 4: `OptimisingBeside`, `lost_unfreeze.cfg`, `scan_freeze.cfg`).

  The argument has two halves.  The first is about the scripts alone: each one is `Sound`, which means of every
  access in it, from any state of the slaves, that its bank was selected before, that a value of the lock comes after
  the test of a lock read under the same freeze, and that a freeze is followed by an unfreeze on every way out, the
  `undo` of every access between included; what is done to undo is sound itself (`Undone`, `Simple`).
  `ScriptsSound` proves it of all scripts of the three systems, by lemmas on how soundness goes through `\o`,
  `Guarded`, `Frozen` and `Repeated`.  The second is the inductive invariant `MonitorInv`: the rest of each call
  (`CallOk`) is still sound from the bank, the freeze and the lock the chip has now; whoever froze the registers is on
  the way to unfreeze them (`FrozenByCalls`).  A step of one thread leaves the rests of the others alone because a
  lock check and the quality call stay in one bank of one slave (`Home`), and lock checks neither freeze nor read
  values (`Quiet`).

*Cimax* (`CimaxProofs`), for any number of clients, calls, tries and faults
- `CimaxLockHeldInCalls`, when the event thread ends in time and no call overlaps `CIMAX_Term`
  (`Orderly`; section 4 has the runs without it).  The invariant `IInv` adds who may be at work in which stage of
  `CIMAX_Init` and `CIMAX_Term`.
- `CimaxOkMeansDone`, `CimaxCamStateKnown`, `CimaxInitTellsTruth`, when moreover no client writes a `CFG_1` without the
  slots' power (`PowerKept`): a slot without power tells nothing of its module.  The invariant `CInv` is `IInv` and
  - `OneAnswer`, `AnswersMean`: the chip has an answer only while a thread waits for it, and what it says of the chip
    is still true when the thread reads it.  Without the mutex another command could come between, so `IInv` is needed;
  - `ScriptFacts`, `ChipFacts`: how much of `Cfg` the registers have when n commands are left, through the failed
    tries and the read and write of `O`.  The chip may switch the power on between any two commands, so the
    facts about `CFG_1` hold up to that bit;
  - `EventsTracked`: of each slot the last event left in the chip tells the truth, or else the one the event thread has
    in hand, or else the flag; a call told "no module" may clear the flag only because such an event is on its way.

  `Fresh` bounds these facts: no answer is ever late, or none has been since the chip was reset.  `OkMeansDone` and
  `CamStateKnown` say so themselves.  `InitTellsTruth` does not, and `CimaxInitTellsTruth` proves its part about a
  success only for `Fresh`; with late answers TLC checks it (`cimax.cfg`, and up to 30 late answers in 12 tries hold too),
  and a proof would have to count the stale answers before each try.  That a failure leaves nothing is proved without it.

*Ds3000* (`Ds3000Proofs`), for any chips, signals, tunings and number of polls
- `Ds3000TypeOK`, without any hypothesis: also with overlapping calls and a tuner that fails.
- `Ds3000LockedReportIsTrue`, when no call is made while a thread polls (`Alone`), the tuner tells its version
  (`Readable`) and a tuning asks for the tone exactly in the upper half of the Ku band (`Consistent`: the API
  computes the intermediate frequency from the frequency, the LNB from the tone).
- `Ds3000TsKeepsUp`, when moreover no signal brings more bits than the fastest clock of its type has ticks
  (`Carried`: 96 MHz for DVB-S, 144 MHz for DVB-S2): a faster one does not fit into the serial output, whatever the driver
  sets.
- `Ds3000SteadySignalIsFound`, with three polls or more (`Patient`; the code has 60).

  The invariant `DInv` follows one tuning from the call to the report.  `AskFacts` and `ConnFacts` say what the connection
  has set so far: the offset the chip is told makes up for the tuner's rounding and for the filter's shift, so the chip
  looks for exactly the frequency that was asked for (`LooksFor`).  `PollFact` says what a thread's findings are still
  worth: between its tests the signal may go only by changing, and `~g.check` means that the divider is that of this lock
  or there is none.  `FairPoll` counts the polls that may end without a lock: one for the
  other type and one for a strong echo (`g.eq`).

*BlindScan* (`Ds3000Proofs`, second part), for any band, size of the table (255 at most) and number of passes, either
algorithm, any aborts, and whatever goes wrong in the trials
- `BlindScanTable`: `TableHoldsTheLocked`, for the first scan (`FirstScanSpec`), which starts with an empty table: a later
  one starts with what the last one left there, and its sweep takes the entry at place `cnt` along (section 4).
- `SkiesAssumption` is what the module takes for granted of the air: finitely many transponders, each in the tuner's reach
  (a bin below `FREQ_MAX`) and with a symbol rate above 1 kS/s.
- `ScanInv` says of a scan nobody aborted that the places below `cnt` are in use and no others (`Laid`), that the
  locked entries and the transponders that were told are in bijection (`Holding`), wherever an insertion has moved them,
  and that whatever waits for a trial will get one (`WillBeTried`): algorithm A connects only when there is more
  than at the last connection, B at the end of each pass, so nothing still waits when the sweep begins.
- The sweep of `remove_unlocked` is a loop of exchanges.  `Staged` says what it has reached at place `i`; each stage
  follows from the one before (`StagedNext`), and were there a stage that is not reached, there would be a first one.  In
  the end every entry that was not tried in vain stands at the place of its rank among them (`SweptHolds`), so the locked
  ones come first, as there are no others.

*ConfigParser* (`ZapperProofs`), for files of any length and any words
- `ConfigTypeCorrect`; `AcceptsExactlyTheComplete`: `AcceptsTheComplete`.  The invariant (`Progress`) says of the words that
  were read that `loaded` are the parameters with exactly one accepted line among them, and `params` the numbers that
  were stored from these lines; at the end of the file these are all lines.  `InRangeIsValid` and `ValidIsInRange`
  relate the parser's test of the stored number to the range of the number in the file: they agree unless the number
  is wider than its field.

*TableParser* (`GraphicsAndParserProofs`), for every multiplex the parsers handle (`AllHandled`), however many programs,
streams and descriptors it has, and for PMTs that arrive in any order and any number of times
- `TablesAreTheBroadcast`: `TablesMatchBroadcast`; `TheListIsOfThePrograms`: `ListNamesPrograms`;
  `TheParsersStayInside`: `TableTypeOK`, and no parser leaves its section or its array.
- `Handled` is what the code takes for granted: the PAT lists the network once, at any place, and up to 255 different programs
  from 256 on; each PMT is of a listed program and has no descriptors of the program; a service describes itself first, and
  a section is shorter than 4096 bytes.  `ListNamesPrograms` holds in whatever order the services come.  `MCParsers` has TLC
  evaluate that the multiplexes of the run are handled and that each of the four others in section 4 is not.
- The encoders join entries of different lengths (`FlattenSeq`).  `Starts` gives the place where each entry begins,
  and a first group of lemmas shows that entry `k` lies in the section from there on, byte for byte.  That a recursion
  of the library computes this for any number of entries is shown without an induction theorem: if it failed, there
  would be a least number of entries for which it fails.
- `TableInv` says at every turn of a loop that the entries before the one that is next are in the table (`Listed`, `Named`,
  `Shows`), that `pos` is where the next entry begins and that the count-down `sl` is the number of bytes from
  there to the end (`AtEntry`): only so does it come to exactly zero.  `ProgramsShown` leaves out the program whose
  PMT is being parsed again: its streams are gone until the loop has met them once more.

*Only model-checked*: liveness (TLAPS cannot reason about ENABLED here); of `satellite`, `EverySignalIsFound`; of `cimax`,
that a success of `CIMAX_Init` is true after late answers.

## 6. What is not modelled

- Spurious wake-ups of `pthread_cond_wait` (they would add to `stale_section`), the `sleep(1)` at line 145 (a delay),
  the layout of everything drawn.
- The arithmetic of `volume_lvl` and `volume_mute` (`main.c:57-73`): a sequential computation on two bytes.
- Reads of freed memory are not followed: a section or a key handled after `free` leaves the tables `"freed"`.
- `stream_init` has no `return` on success; at the makefile's `-O0` its caller finds the result of `ch_prog_callback`,
  `NO_ERROR`, and the model takes that.  A word of the configuration file that does not fit into its 50 bytes is not
  modelled.
- The player engine, DirectFB and the kernel are external, and so are `i2c.c` and `gpio_common.c`, system calls on
  device files without state of their own.
- Of the Sony drivers: the conversions of register values to dB, Hz and error rates, the window functions of
  `..._monitorT2.c`, and the values of the start-up tables.  The NuTune tuner is one step that succeeds or fails.
- Of the satellite front end: the branches of DS300X, inverted spectra and unicable, the error rates and the signal
  strength, the blind scan algorithms other than A and B.  The FFT is assumed to list the candidates of a window in
  rising frequency, as the insertion by comparison needs.  The error return of the tuner setting in a scan
  (`mt_fe_dmd_ds3000.c:5671-5675`) is never taken: the build has the TS2022 only (`mt_fe_def.h:31-37`), whose
  `mt_fe_tn_set_freq_ts2022` always returns `MtFeErr_Ok`.
- Of the CIMaX+ driver: contents of registers and LPDUs beyond what the script of the configuration distinguishes,
  and the interrupt handling that is compiled out.
- `spi_writer.c`, `mt_fe_main.c`, `mt_fe_DiSEqC_example.c` and `MxL201RF.c` are tools, examples and a tuner the makefiles
  do not choose; none is part of the zapper.

## 7. What could follow

1. An abstract channel change (the current program, what plays, what is shown), implemented by
   `StreamController` in the regime where `PlaysCurrentProgram` holds, and its proof.
2. A proof of `EverySignalIsFound`: which candidates hide which.
3. `parse_PAT` for any PAT: when an entry has a zero high byte, no entry is written past `pmts`.
4. `VolumeControl`: `main.c:57-73`.
5. The window functions of `..._monitorT2.c` as pure functions over bounded inputs.
