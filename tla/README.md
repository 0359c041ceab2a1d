# evcollect in TLA+

This directory is a verification development of evcollect: TLA+ modules translated from the C++
sources, TLC runs on small instances, and theorems that TLAPS checks for every value of the
constants. Paths are relative to the repository (`service.cc` is `src/evcollect/service.cc`,
`eventql_plugin.cc` is `plugins/eventql/eventql_plugin.cc`). `PROJECT.json` maps each definition to
the lines it was translated from.

Contents: [the system](#the-system) · [modules](#modules) · [runs](#runs) ·
[bounds](#bounds-and-why-they-are-enough) · [fairness](#fairness) · [proofs](#proofs) ·
[what the runs found](#where-the-code-differs-from-what-it-says) · [not modelled](#not-modelled) ·
[plan](#plan)

## The system

`evcollectd` is one process with one service thread, plus one upload thread per EventQL target. It
reads a configuration, attaches event sources and targets through plugins, and then goes round a
scheduling loop: when an event is due, ask its sources, merge the answers, and hand the result to
every target.

| component | state | operations | hard parts |
|---|---|---|---|
| command line (`flagparser.cc`, `evcollectd.cc:45-217`) | flag values, left-over arguments | `parseArgv`, `isSet`, `getString(s)`; the decisions of `main` until the service is created | values that look like flags, a flag at the end, early exits |
| configuration (`config.cc`) | text position, current token, declarations so far | `ConfigLexer::nextToken`, `ConfigParser::parse` | end of text inside a token, partial declarations, termination |
| process (`evcollectd.cc`) | pidfile descriptor, `service`, kernel file locks | `daemonize`, pidfile open / lock / truncate / write / unlink, `shutdown` | several processes on one pidfile, crashes, signals at any moment |
| threads of the process (`evcollectd.cc`, `util/logging.cc`) | the static `service`, the service object, the logger's mutex | signal handler, logging to stderr, the fork | a handler on any thread at any moment, a fork while a mutex is held |
| plugin host (`plugin.cc`, `plugin.h`) | open libraries, `PluginMap` with its `initialized` flags | find, `dlopen`, register, look up with lazy init, the `Dynamic*Plugin` wrappers, free | libraries closed while something in them is registered, the order of calls over all plugins |
| service set-up and delivery (`service.cc`) | event bindings, targets | `loadPlugin`, `addEvent`, `addTarget`, `processEvent`, `emitEvent`, `deliverEvent`, destructor | failure of any plugin call at any step |
| scheduling loop (`service.cc:292-358, 406`) | `queue_` ordered by `next_tick`, wakeup pipe | `run`, `kill` | unsigned time, signals against `select`, overruns |
| log file source (`logfile.cc`) | inode, read and consumed offsets, line buffer, checkpoint (memory and disk) | `pluginGetNextEvent`, `pluginHasPendingEvent`, `readLines`, `writeCheckpoint`, attach, detach | rotation between `stat` and `open`, half-written lines, crash and restart |
| EventQL target (`eventql_plugin.cc`) | queue, mutex, condition variable, two flags | attach, `emitEvent`, `enqueueEvent`, `awaitEvent`, `uploadEvent`, stop | two threads, one condition variable, back-pressure, fork |
| property lists (`config.cc:120-178`, attach of both plugins) | a list of keys with values | `get`, `getv`; `pluginAttach` of the EventQL target and the log file source | repeated keys, missing values, numbers that are none or too wide |
| hostname source | none | one function that answers or fails | |
| logging levels and syslog, utilities, unit tests | none to speak of | | |

How they interact. `main` calls the service (set-up, `run`, destruction); `run` calls
`processEvent`, which calls the sources' `pluginGetNextEvent` and `pluginHasPendingEvent` and the
targets' `pluginEmitEvent`; the EventQL target shares its queue with its own upload thread; a
signal handler calls `Service::kill`, which writes a byte to a pipe the scheduling loop selects on;
the log file source shares the checkpoint with its successor after a restart, and with any other
source on the same file; main and the upload threads share the logger; processes share the pidfile.

What makes each part correct:

- *Command line*: nothing starts unless the command line says so, and with the values it says.
- *Configuration*: no character is lost or read twice; only complete declarations count; parsing
  ends.
- *Process*: one daemon per pidfile, the pidfile names it, a signal ends it.
- *Threads*: a handler finds the service whole or not at all, and nobody holds the logger for ever.
- *Plugin host*: only code that is loaded is called, and in the order `plugin.h` promises.
- *Property lists*: a plugin is attached with what its list says, or not at all.
- *Service*: `run` has the whole configuration or is not entered; what is attached is detached before
  its plugin is freed (the code makes one exception, which the property describes); every target
  gets every event.
- *Loop*: never early, never starved, never deaf to a signal, with full queues too.
- *Log file source*: whole lines only, each once, none lost but by a crash.
- *EventQL target*: bounded FIFO, no lost wakeup, no deadlock, no use after delete.

`PROJECT.json` lists, line by line, the hazards behind these (interleavings, crashes, partial
failures, boundary values), and which property would notice each going wrong.

## Modules

| module | models | state ↔ code | actions ↔ code |
|---|---|---|---|
| `EventQLTarget` | one EventQL target and its two threads | `mutex`, `waiting` = mutex and condition variable; `queue`, `running`, `shutdown` = members; `mpc`, `upc` = where each thread is | one action per critical section or blocking call: `EnqueueLock/Wait/Push`, `AwaitLock/Wait/Take/Nothing`, `UploadEvent`, `StopFlag/Notify/Join`, the fork in `StartService`, spurious wakeups |
| `BoundedFifo` | what the target's queue promises (abstract) | `accepted`, `taken` | `Accept`, `Take` |
| `Scheduler` | `run` and `kill` | `due[e]` = `next_tick - now`, `queue` = the multiset in iterator order, `sleep` = the timeout, `pipe` = the wakeup pipe | `ComputeSleep`, `SelectWakeup/Timeout`, `CheckDue`, `Reschedule`, `Kill`, `Tick` |
| `Backpressure` | the loop with the queues it delivers to (extends `Scheduler`) | `deliveries` = what `processEvent` has still to enqueue, `outstanding` = events per target | `BeginProcess`, `EnqueueEvent` (waits where a queue is full), `EndProcess`, `AwaitEvent` |
| `Service` | set-up, processing, destruction | `building` = the `ev_binding` in `addEvent`, `bindings`, `targets`, `registered`/`initialized` = the plugin map, `merged`, `cont`, `failed` = locals of `processEvent` | one action per plugin call, with its failure |
| `PluginHost` | libraries, registration, `PluginMap`, the wrappers | `handles` = `dlopen` counts, `table` = the map with its flags, `attachments`, `call` = the C call that has not returned | `OpenLibrary`, registration, one action per call and one per return, with every failure |
| `PluginLifecycle` | the order of calls `plugin.h` promises the author of a plugin (abstract) | `stage`, `phase`, `users`, `call` | init, attach, use, detach, free |
| `LogfileSource` | the log file source with its driver, the writer of the log and the disk | `inode`, `offset`, `consumed`, `lineBuf`, `memory` = members; `disk` = checkpoint file; `files`, `path` = the log | one action per system call, plus `Write`, `Create`, `Remove`, `Truncate`, `OtherCheckpoint`, `Crash`, `Restart` |
| `LineStream` | what a log source promises (abstract) | `written`, `position` | `Write`, `HandleLine` |
| `Daemon` | `main` of several processes on one pidfile | `pc`, `fd`, `path`, `content`, `lock`; `stuck` = main waits for an upload thread for ever | one action per system call of the pidfile, `Run`, `Reset`, `GetStuck`, `Signal`, `Crash` |
| `Threads` | the threads of one process, the signal handler, the logger | `main`, `thread`, `handler` = where each is; `service`, `object`, `wakeup`; the logger's mutex | steps of `main` between its calls, `Upload`, `LockLog`, `TakeSignal`, `HandlerStep`, the fork |
| `Config` | lexer and parser | `token` = `currentToken_` with its place in the text, `plugins`, `events`, `targets` = the `ProcessConfig` | one action per `consume…` of each production |
| `CommandLine` | `FlagParser::parseArgv` and `main` up to the service | `i`, `values`, `rest`; `stage`, `conf`, `log` | one action per argument, then one per decision of `main` |
| `PropertyLists` | lookups and the attach of both plugins | `list`, `at`, `outcome`, `options`, `route`, `routes` | one action per option, `ReadArgument` and `ReadRoute` for the two loops over the routes |

`MC…` modules hold the values of constants for TLC (`MCStartup` and `MCDaemon` also put modules
that do not touch each other into one run); `…Proofs` modules hold the proofs about the module they
are named after (`SchedulerProofs` about `Backpressure` too, `DaemonProofs` about `Threads`,
`StartupProofs` about `CommandLine` and `PropertyLists`).

How the modules fit together: `CommandLine` ends where `Daemon`'s `SetUp` starts; `Daemon`'s `SetUp`
and `Reset` are `Service`'s set-up and shutdown, and its `Run` is `Scheduler`; `Threads` is one
process of `Daemon` looked at from inside; `Scheduler`'s `Reschedule` contains one `processEvent` of
`Service`; each plugin call of `Service` is a call and a return of `PluginHost`; an attach of
`Service` is a run through `PropertyLists`; the answers `Service` leaves open are those of
`LogfileSource`, and its `Deliver` is one `PluginEmitEvent … EmitReturn` of `EventQLTarget`.

One composition is a module of its own, because neither part shows it: `Backpressure` is the loop
with bounded target queues. A full queue makes `processEvent` wait for another thread, which makes
events late, which is where the unsigned timeout bites. It implements `Scheduler`, fairness
included: what `Scheduler` assumes (`processEvent` returns) is there derived from upload threads
that go on. The other modules are checked separately: each leaves open what its neighbours do, so
it allows at least their behaviours.

Operators named after a mistake (`EnqueuePushSilent`, `OpenTruncate`, …) are not part of any
specification. They are altered forms of the definition that follows them; substituting one must
break the property `PROJECT.json` names for it, which shows that the property depends on the code.

Choices that a reader should know of:

- **EventQLTarget.** The mutex is explicit because the process may fork while it is held.
  `thread_shutdown_` is written without the mutex; a store that becomes visible late is the same as
  a `StopFlag` taken late. An event is the emission it belongs to and the route it was enqueued
  for. The upload is one step: stored or not, error or not.
- **Scheduler.** Time is relative, `Modulus` stands for 2^64 µs. A timeout longer than `SelectMax`
  is rejected with EINVAL by Darwin before it looks at any descriptor and taken for good by Linux.
- **Backpressure.** A target is a number of outstanding events; their order and the condition
  variable are `EventQLTarget`'s. How many `enqueueEvent` calls one event makes is the constant
  `Deliveries`, since several routes of a target may match.
- **LogfileSource.** A line is a range of a file. The order within a round is the code's: take a
  line, perhaps write a checkpoint, look for a next line (which reads), only then emit. Another
  source on the same checkpoint is whatever position it may write there: it runs in the same
  process.
- **Service.** The i-th source's answer is the number i, so that a merged event shows whose it is.
- **PluginHost.** A call into a library has a beginning and an end, so that the order of calls can
  be stated. A function a plugin does not have counts as called and successful, as in the wrappers.
  `PluginHost` implements `PluginLifecycle` through a refinement mapping that turns the flags of the
  map and the attachments into the phase of each plugin.
- **Threads.** `if (service) service->kill()` reads the pointer once or twice, depending on the
  compiler; both builds are modelled. A handler suspends the thread it runs on.
- **Daemon.** A process opens the pidfile at most once, so a file is named after its creator. `Run`
  and `Reset` may never return (`GetStuck`): where a process has EventQL targets, the first because
  it was forked without their upload threads and waits for room in a queue, the second because the
  stop of such a thread is lost or the thread is not there. Both are 1. and 2.
  [below](#where-the-code-differs-from-what-it-says).
- **Service.** `DetachedUnlessGivenUp` says what is still attached when the plugins are freed:
  nothing, or, if `addEvent` failed, exactly the sources it had attached for that one event.
- **Config.** A text is a sequence of pieces: single characters, or runs the lexer takes whole. The
  single quote is not told apart from the double one: a text with both kinds is not covered. Where
  the lexer loops until a character comes (the end of a line, of a comment, of a string), the model
  names the place it stops at, the first of a set of positions (`FirstAfter`); its two loops around
  those are functions on positions (`Repeat`). `ReadToken` is no code of the program: it is a caller
  of the lexer that, unlike the parser, reads every text to its end, as the tests of the lexer do.
  `KeptAsDeclared` is about what the parser does with the sources of an event, which is to keep
  exactly those on the one line behind the event's. It does not say that every source of an event
  is kept: the grammar has them on lines of their own, and of those the code keeps only the first.
- **PropertyLists.** What a lookup returns is stated by the property it finds: the first (`First`) or
  the n-th (`Nth`) with the key. `StoulOf` and `Regex` are what the libraries make of a value.
- **CommandLine.** An argument is the flag it resembles and how. `isSet` compares `const char*`
  pointers; equal literals of one translation unit are one object with the compilers the build
  supports, and the model takes them as equal.

## Runs

| run | expects | shows |
|---|---|---|
| `eventql` | pass | Producer and upload thread over five routes, one of them invalid: no thread sleeps with work to do, each event is enqueued once per matching route before the invalid one, stored in order and once, implements `BoundedFifo`, nobody uses the deleted target, `emitEvent` returns, what is accepted is uploaded unless the target is detached |
| `eventql_detach` | violation | `pluginDetach` may never return |
| `eventql_daemon` | violation | under `--daemonize` nothing is ever uploaded |
| `scheduler` | pass | The loop with two targets whose queues fill up: the queue is the schedule; never early; each other event is processed at most once while one waits; a signal is never lost and ends the loop (Linux); events recur (Darwin); with its targets the loop implements the loop alone (`SchedulerSpec`) |
| `scheduler_overrun` | violation | after an overrun Linux sleeps for ever |
| `logfile` | pass | Offsets and buffer agree through rotation, truncation, restart and another source's checkpoint; only whole lines; one line lost per crash at most; implements `LineStream` and misses no line when nothing is disturbed |
| `logfile_fragment` | violation | rotation between `stat` and `open` yields half a line |
| `service` | pass | All of the configuration or no `run`; detached before freed; but for the sources of the event that was given up; only the last source counts; every target is offered every event; `processEvent` returns |
| `plugins` | pass | No function is called whose library is not open; every plugin is called in the order `plugin.h` promises (`LifecycleSpec`), whatever fails |
| `daemon` | pass | Several processes: own pid kept, one daemon until the first unlink, no pid of a stopped daemon; a signal stops the process, unless main waits for an upload thread for ever. The threads of one process: the handler never calls `kill` on a service that is being destroyed, the logger's mutex is never held for ever. A behaviour is one or the other |
| `daemon_pidfile` | violation | a running daemon whose pid is not at the path |
| `startup` | pass | Command lines: the daemon starts only as told. Texts: tokens are the text without blanks and comments, to its end; the parser keeps the plugins that are declared, and an event with the sources on the line behind it. Property lists: a plugin is attached with what its list says. Reading any of them ends |

A *violation* run checks a single property, taken from a comment, a doc or a message of the
program, and TLC finds it violated by what the code does.

## Bounds, and why they are enough

- `eventql`: `QueueMax` 2 (empty, partly full and full differ), 3 emissions over 5 routes, up to
  six accepted events, three times the queue. More repeats the same phases. The theorems hold for
  any bound.
- `scheduler`: 3 events with intervals 1, 2, 2 (equal and different ticks), `MaxLate` 3 (every
  event can miss a whole interval), `SelectMax` 8 and `Modulus` 64, so that an underflow is far
  above what a timeout may be; both platforms. When one event is `MaxLate` late the clock waits
  until it has been processed. Two targets have queues of 1, and an event brings nothing or
  three events, two of them for one target: more than its queue holds. The overrun run has two events.
- `logfile`: up to 2 files of up to 4 bytes over {x, newline}, a buffer of 2 lines (`line_buf_`
  fills up: three lines fit in a file), and five budgets (`MCLogfileSource`): crashes and a failed
  checkpoint; another source on the checkpoint, with a crash; rotation; truncation; two graceful
  stops. Rotation together with crashes is not run: what is lost then is known (below), and
  `LossPerCrash` and `WholeLines` make no claim about it. The theorems hold for any budget, mixed
  ones included.
- `service`: 5 configurations with 0 to 3 sources per event, a source used twice, an event without
  sources, a plugin that is missing, 0 to 2 targets.
- `plugins`: four libraries (the two of the repository, one that has every function and takes names
  that are taken, a file that is none), eight lists of what to load, two configurations with events
  of no, one and three sources.
- `daemon`: 3 processes: two can compete for a lock while the third goes away, and after the race of
  `PidfileWritten` there can be two daemons that run. The theorems hold for any number.
  One is a background daemon with EventQL targets, one runs in the foreground without; the third is
  in the background without targets, in the foreground with targets and without a pidfile, or has no
  events. Within one process, main and the threads of two targets, a handler on each.
- `startup`: every text of up to three of eleven pieces, of up to five of those that comments are
  made of, and of up to five of those that strings are made of; up to three tokens behind prefixes
  that get the parser into each production; every command line of up to three arguments out of eighteen,
  and up to three more around the shortest one that starts the daemon; every property list of up to
  three properties with two options at a time, repeated, empty, and with values that are numbers or
  not, and up to four with routes of no to three arguments.

`CHECK_DEADLOCK FALSE` is set everywhere: the daemon may stop, the bounds may be used up, the
parsers return.

## Fairness

- `EventQLTarget`: a thread that can go on goes on (WF). Taking the mutex has SF, since the other
  thread may take it again and again, if only for spurious wakeups; this is what an operating
  system's mutex gives in practice. A request ends only if curl was given a timeout
  (`HttpTimeoutMillis > 0`, line 313). Nobody has to emit, stop or wake spuriously.
- `Scheduler`: the service thread runs, `processEvent` returns, time passes. Nobody has to send a
  signal. That `processEvent` returns is what `ProcessReturns` and `EmitReturns` are about.
- `Backpressure`: the same without that assumption; instead the upload thread of each target takes
  what is in its queue, because a request ends (`AcceptedIsTaken` of `EventQLTarget`).
- `LogfileSource`: the service polls, a daemon that went down is started again.
- `Service`: one thread that goes on as long as the plugins return; which event is next, and when
  `run` returns, is open.
- `Daemon`: a process that was started goes on, unless it is stuck; nothing has to get stuck.
  Signals and crashes are up to others. That `run` returns after a signal is `KillStopsRun` of
  `Scheduler`: it holds on Linux, and where a target is attached and its thread is there, with an
  `http_timeout` of at least 1000 µs.
- `PluginHost`, `Threads`: none, their properties are about safety.
- `Config`, `CommandLine`, `PropertyLists`: loops of one thread.

## Proofs

TLAPS proves, with no bound on constants beyond their named assumptions:

- **`EventQLTargetProofs`** (routes, queue length, emissions arbitrary): `TypeCorrect`,
  `QueueNeverOverfull`, `NoThreadStranded`, `DeleteIsSafe`, `TargetImplementsFifo`, `StoresInOrder`,
  `RoutesAreComplete`. The invariant `IndInv` is `TypeOK`, `ThreadStarted`, `CallInRange`, `LockHeld`,
  `QueueBounded`, `NoLostWakeup`, `NoUseAfterDelete`, `QueueIsSuffix`. `NoLostWakeup` is not inductive
  alone: that a push or a pop cannot happen while the other thread is between its look at the queue
  and its sleep needs `LockHeld`. `NoUseAfterDelete` needs both it and `ThreadStarted`. `QueueIsSuffix`
  (`accepted = taken \o queue`) is what makes each pop the next event of `BoundedFifo`; the
  refinement maps `EnqueuePush` to `Accept`, `AwaitTake` to `Take`, everything else to a stutter.
  Order (`OrderInv`): what is stored, being uploaded and queued is in the order of emission and route,
  one before the other. Routing (`RouteInv`): the accepted events are those the routes passed so far
  want. Delete is safe although stop may hang: the run `eventql_detach` concerns liveness.
- **`SchedulerProofs`** (any events and intervals): `TypeCorrect`, `QueueIsTheSchedule`,
  `NothingEarly`, `RunStopsPromptly`, `NobodyStarves`. `IndInv` has the queue sorted and without
  repetitions, the job at its head, and what is left to do after a signal. `Insert` puts an event at
  its place because the number of events that are not later is that place. About `Backpressure` (any
  targets, queues and deliveries): `LoopImplementsScheduler` (each step of the loop with its
  targets is a step of `Scheduler` or none), and from it `StopsPromptlyWhenFull` and
  `NobodyStarvesWhenFull`. That the fairness is implemented too stays with TLC.
- **`LogfileSourceProofs`** (any log, any bounds): `TypeCorrect`, `PositionsEnclose`, `LinesAreWhole`,
  `CrashCostsOneLine`, `SourceImplementsStream`. That `offset` minus the buffer is `consumed` is not
  enough: the buffered lines must lie one after the other between the two (`Adjacent`), which also
  keeps the offsets from running below 0. On a log that is only appended to, every position is between
  two lines (`AtLines`); checkpoints are never ahead of what is consumed, so that a crash leaves at
  most the line in hand behind (`Short`); without crashes the positions follow what was handed on
  (`Following`), which makes the source a `LineStream`.
- **`ServiceProofs`** (any configurations and plugins): `TypeCorrect`, `RunsAsConfigured`,
  `OnlyTheGivenUpStaysAttached`, `LastSourceDecides`, `EveryTargetGetsIt`, `RoundsEnd`. The set-up copies the
  configuration piece by piece (`Configured`); what is attached is in the bindings, the targets or the
  binding `addEvent` works on (`Accounted`), and no two attachments are alike (`Numbered`). What is
  left when the plugins are freed is what the binding of a failed `addEvent` had got so far: a
  beginning of that event's sources, in their order. While an event
  is processed, the answers and targets so far are those in front of the index (`Progress`).
  `RoundsEnd`: each step of `processEvent` lowers the steps its round has left (`RoundLeft`), and it
  only goes round again if a source said in this round that it has more (`Pending`).
- **`PluginHostProofs`** (any libraries, whatever they register): `TypeCorrect`, `CalledCodeIsLoaded`,
  `HostKeepsLifecycle`. A library is closed only while main loads plugins, and then main gives up:
  nothing is initialized yet (`Unused`), and afterwards only initialized plugins are called
  (`Reachable`), whose libraries are open (`Open`). `Calling` ties a call that has not returned to the
  place main made it from, which the mapping to `PluginLifecycle` needs.
- **`DaemonProofs`** (any number of processes with any options): `TypeCorrect`, `OwnPidIsKept`,
  `AtMostOneDaemon`, `NoPidIsStale`. The invariant follows a pidfile through its life: which
  processes have it open (`FdStage`), that the one past its `flock` holds the lock (`HoldsLock`) and
  has its pid inside (`PidInFile`), that there is one file before the first unlink (`OneFile`), that
  a file is not used before it exists (`Unborn`), and where a pid may still be found (`Trace`).
  `OneDaemon` alone is not inductive: two processes may both have the file open, and only the lock
  tells which of them can get further. About `Threads` (any number of targets, either build):
  `ThreadsTypeCorrect`, `HandlerIsSafe`, `LoggerIsFreed`. When main closes the pipe no target is
  attached (`Stages`), so that no other thread runs (`Running`), and so does no handler (`Handling`).
- **`ConfigProofs`** (any text): `TypeCorrect`, `TokensRead`, `DeclarationsKept`, `ParserGetsOn`.
  First, about the lexer's loops: each stops at the first position of its kind, or at the end of the
  text, and what it passes is only what it may pass. `Lexing`: each token so far is one that the
  text spells at its place, and between one and the next there is nothing but blanks and comments,
  so that no character is lost or read twice. `Keeping` is the parser's types. `KeptAsDeclared`
  speaks of the tokens by their position in the whole sequence, while the parser knows only the
  current one and the declaration in hand; `Kept` ties the two together: for each place in the
  parser, which of the last tokens the path, the event and the source in hand came from, and that
  all the earlier declarations are already in the result. `LinesHere` adds where the lines are:
  the event's line has ended at `start`, each token behind it that was consumed as part of a source
  is one a source is made of (`Behind`), and the one the parser stopped at is not (`Between`), so
  that the sources consumed are the ones declared there, no more and no less. `ParserGetsOn`: each step lowers `Left`,
  three times the positions left plus the few steps that read no token or meet the end (`EventDone`
  may skip it), since no token the parser consumes is empty.
- **`StartupProofs`**: `FlagsTypeCorrect`, `StartsAsTold` (any command line); `AttachTypeCorrect`,
  `AttachesAsListed`, `AttachGetsOn` (any property list and any results of the libraries).
  `FlagsInv`: between two steps the index is never on the value of a flag, although whether an
  argument is a value depends on all the arguments in front of it, which may look like flags
  themselves (`IsValueIs`); the values of a flag are those at the positions taken so far, in their
  order (`Parsed`, by `EnumeratesOneMore`), so that the last one decides (`LastDecides`); and a
  decision of `main` that was passed is known at the later ones (`Stages`). `AttachInv`: the options
  looked at so far are what the list says and the others are still the defaults (`OptionsRead`); the
  routes so far are the first ones of the list, in its order, and the route in hand is the beginning
  of the next one (`RoutesRead`); pluginAttach returns for a reason (`Returned`). That the loop over
  `getv` reaches every route, and none twice, is `NthIs`: the n-th property with a key is the one
  with n of them in front. `AttachGetsOn`: each step returns, or looks at one more of the options,
  routes and arguments there are.

The assumptions are the `ASSUME`s of the component modules; TLC evaluates them on each run.
In each module the invariance is shown once (`Init => IndInv`, `IndInv /\ [Next]_vars => IndInv'`, one
lemma or case per action) and the theorems follow from it. Where a proof needs the least element
of a set of numbers, as for the first line that was not handed on, it comes from the library's theorem
on strict subsets (`LeastNumber`).

Every safety property of a run that passes is stated by a theorem. Model-checked only are the
liveness properties (`EmitReturns`, `AcceptedIsTaken`, `KillStopsRun`, `ProcessedAgain`,
`EveryLineHandled`, `ProcessReturns`, `SignalStops`, `ReadReturns`) and the fairness in
`SchedulerSpec`, because the prover handles neither fairness nor ENABLED. What they rest on besides
fairness is proved where it is a safety property: no lost wakeup, a prompt stop, and that the
parser, pluginAttach and processEvent get on with each step. Induction over data is out
of its reach too. The models are written so that the proofs do without: a loop of the code is a
sequence of steps where it does something the properties see (`ReadArgument`), and otherwise
its result is named by what distinguishes it (the first, the n-th, the last before). `Repeat`, the
one recursive definition left, is reasoned about by the least position at which a claim
could fail. `RECURSIVE` operators are not used.

## Where the code differs from what it says

Shown by a run:

1. *Detach can hang* (`eventql_detach`, `eventql_plugin.cc:258`): `thread_shutdown_ = true` and the
   notify happen without the mutex, between the upload thread's look at the flag and its wait.
2. *`--daemonize` stops uploads* (`eventql_daemon`, `evcollectd.cc:249`): targets are attached, and
   their threads started, before the fork. After `queue_maxlen` events the daemon blocks.
3. *An overrun stops the loop* (`scheduler_overrun`, `service.cc:300`): `next_tick - now` is unsigned.
4. *Half a line* (`logfile_fragment`, `logfile.cc:271`): `stat` and `open` may see different files.
5. *The pidfile race* (`daemon_pidfile`, `evcollectd.cc:308`): unlink before unlock, and no check
   after `flock` that the locked file is still the one at the path.

Seen while translating; the models follow the code, and no run is spent on them:

- EventQL: `route *` is compared literally and matches nothing (`eventql_plugin.cc:158`, `README:42`);
  events still queued at a stop are dropped (223); `http_timeout` below 1 ms means none (313);
  `queue_maxlen 0` blocks the first event for ever (187); the upload body lacks a comma (285-288).
- Service: a failed `addEvent` leaves its first sources attached (144-169; `DetachedUnlessGivenUp`
  says which); `mergeEvents` returns the overlay, so an earlier source's answer is lost (42, 388;
  `OnlyLastSource`); so is what earlier sources consumed when a later one fails (380); a source that
  always has more pending keeps `processEvent` for ever (369-402; the premise of `ProcessReturns`);
  on Darwin EINVAL comes before the pipe is looked at, so a permanently overloaded loop does not see
  SIGTERM (313; why `KillStopsRun` speaks of Linux).
- Loop and targets: `processEvent` delivers in order, so that a slow target delays every other one and
  the clock of every event (`service.cc:283`, `eventql_plugin.cc:187`).
- Plugins: output plugins are never freed, although they may register a function for it
  (`plugin.cc:255`, `plugin.h:127`); `plugin_ctx_` is destroyed before the map whose destructor hands
  it to the functions that free (`service.cc:94-95`); the userdata of a plugin without an attach
  function is indeterminate; the event name a source sets is ignored; `ctx->error` is shared by all
  plugins and may be that of an earlier call; the first path that exists decides, even if it is no
  library; `loadPlugin(init_fn)` has no caller and a local context it does not use (`service.cc:251`).
- Log file: a checkpoint is written before the line is emitted (184; `LossPerCrash`); lines of the
  old file not read before a rotation are lost (260); a file truncated and grown again past the
  offset, or a reused inode, goes unnoticed (260); the in-memory checkpoint is updated before the
  file, so a failed write is not repeated (354); `O_TRUNC` leaves a window without a checkpoint
  (361-373); a short write counts as success (373); two sources on one file share a checkpoint
  (101), so that either resumes where the other was, which is between two lines all the same; a
  failed write of a checkpoint leaves its descriptor open (373); an empty filename is accepted
  (`&&`, 393); a regular expression with more than 35 groups yields `{}` (209), and group names are
  padded with NULs.
- Process: a signal before the service exists has no effect (319-323); at -O0 a handler
  reads the pointer twice and may call `kill` on a null one; a signal that the kernel gave to an upload
  thread is lost with it in the fork; the parent of the fork ends with `_exit`, without destructors.
  With `--daemonize` main leaves the stderr logger out (`evcollectd.cc:140`), whose mutex is the
  only one in the code, which is why no mutex is held at the fork (`LoggerNeverStuck`); syslog is used only if it is
  asked for; `logToSyslog` ignores its minimal level.
- Configuration: `loadConfig` ignores the file (`config.cc:52-118`). `ConfigParser::parse` never
  succeeds: the cases of `goal` fall through, so that the loop does not go round after an event or
  an output, and the end of the text is an unexpected token (485-514); `consumeToken` does nothing,
  so the keyword `plugin` of an output is read as a name (480, 652); `propertyList` takes the
  property's name for its value (674-689). The loop over the sources of an event (607-626) does not
  consume the end of a source's line, so it stops behind the first one: by `config-syntax.md:9-10`,
  and the comment at 585-586, each source is on a line of its own, and of several the event keeps
  one. `KeptAsDeclared` states this, and one of its texts has two sources on two lines.
  `config-syntax.md` has neither numbers as values nor a backslash before a delimiter.
- Command line: `--flag=value` is not recognised and left over without a message; `-cfoo` is `-c`
  and takes the next argument, so `-pidfile x` loads `x` as a plugin (`flagparser.cc:155-173`);
  the usage text has `-v` for the version, the code `-V`; an unknown log level fails an assertion.

## Not modelled

Formatting and content of events (JSON, what a regular expression matches, SHA1, base64, the upload
body and authentication headers), what is logged, the overload of `get` that returns all values and
`getInt` of the flag parser (no callers), the C accessors of events (they copy strings), the listening
socket of `run` (never opened: `listen_fd_` stays -1), string utilities, the tests and their runner,
Windows. The kernel (`flock`, `select`, `fork`, file system, dynamic linker), libcurl, PCRE and pthreads
appear as the code uses them.

## Plan

Done, all with proofs: EventQL target, scheduling loop, the loop with bounded queues, log file
source, service, plugin host, process and pidfile, threads and logger, configuration, command line,
property lists.

Next:

1. The composition of `Service` with `LogfileSource` and a checkpoint on disk, for what a failing
   later source costs the earlier ones (now read off `OnlyLastSource` and `LossPerCrash`).
2. The measure `EveryLineHandled` rests on: what a poll of an undisturbed log gains.
3. Once `loadConfig` calls the parser: `CommandLine`, `Config` and `Service` in one module.
