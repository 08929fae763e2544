# MIN test framework: specifications and proofs

MIN runs test cases written in C (or in its script language) on Linux. This
directory holds TLA+ modules of its concurrent core, of its script interpreter and
of its remote control, the TLC configurations that check them, and TLAPS proofs of
what they say about safety, for any number of processes, cases, slaves and so on.
Paths below are relative to the repository's `min/src`; `tec.c` etc. are `engine/tec/tec.c` etc.

Contents: 1 the system and its parts, 2 the modules, 3 the runs, 4 bounds and
fairness, 5 the proofs, 6 disagreements found, 7 what is left out, 8 the plan.

## 1. The system

    user interface plug-ins (CLI, console, TCP/IP, text interface)
            | calls (min_engine_api.c)        ^ callbacks (case_result, ...)
            v                                 |
    engine: tec.c, event lists tec_events.c, remote control tec_rcp_handling.c
            |   MSG_GTC, MSG_EXE, MSG_PAUSE, MSG_RESUME, MSG_STOP, MSG_END, MSG_EVENT_IND
            v   ^  MSG_OK, MSG_TCD, MSG_RUN_ID, MSG_RET, MSG_EVENT, ...
    one test module controller (TMC) per test module: tmc/
            |   fork, SIGSTOP, SIGCONT, SIGUSR2, SIGKILL
            v   ^  MSG_RET, SIGCHLD
    one test process (TP) per running test case, with the services it links

All messages go through one System V message queue; the receiver's pid is the
message type. The engine has a listener thread (handles one message at a time), a
socket thread (remote control), and the threads of the user interface. The TMC
has one thread that its SIGCHLD handler interrupts.

| Part | State it keeps | Operations | What is hard | What makes it correct |
|---|---|---|---|---|
| Event system: `tec_events.c`, client side `min_test_event_if.c` | lists of indication and state events, with a registration per process; in a TP the blocked call | request, wait, release, set, unset; the same from a remote master, except wait and unset | requests of several processes interleave; an unset is held back until the last release; answers go to others than the caller | no wake-up is lost, one answer per request, a state event stays set under those who hold it |
| Test engine: `tec.c`, `min_engine_api.c`, `data_structures_api` | lists of modules, cases and selected cases, their status, process ids, groups | add module, list cases, start (alone, parallel, sequential group), pause, resume, abort, collect result, temporary modules, shut down | the listener and UI threads share the lists; the mutex covers single searches only; a group goes on only with the result of the case before | every selected case is executed and gets its own result; one case per TMC; a group is sequential |
| TMC: `tmc/` | pid and status of its TP, the result to report, its configuration | list cases, execute, pause, resume, stop, end, report; reap | the handler shares everything with the main loop; signals and messages race; processes die on their own | one true report per run, in order; no process left behind |
| Message queue: `utils/ipc` | kernel queue; a buffer per process | send, blocking send, read, peek, resend, flush at exit | the queue is full; exits with a full buffer | nothing duplicated or lost but by an exit; order |
| Remote control, master: `tec_rcp_handling.c`, `tec_tcp_handling.c` | pool of slaves, reservations, count of runs, a write queue per connection | allocate, free, remote run, remote events, send and receive | two engines; entries found by name, by descriptor or by process id; lost connections | a slave is leased to one test at a time; every request of a test is answered |
| Remote control, slave: the same files and `mintfwif.c` | `run_queue`, the modules and runs its callbacks have told it of | take a run, load its module, execute it, report | three threads; ids that are not there yet; failures nobody looks at | each run is told "started" and "ready", in order |
| CLI plug-in: `in_plugins/cli/cli.c` | lists of modules and cases, counts | start cases when their module is ready, print results, end | runs inside the listener thread; ends by counting | does not end before everything ran |
| Console UI, TCP/IP plug-in | menus; lists of runs | calls of the engine API | another thread than the listener | left to the engine |
| Scripter: interpreter | the script as linked pieces, loop counters | next piece, loop, breakloop, if, clean-up | links that change while they are followed | loops and ifs do what the manual says; each piece is freed once |
| Scripter: engine of a scripted case | a record and a process per test case, class or remote case; waiting flags | run, complete, pause, resume, cancel, timeout, class calls, slave and event commands | results, exits, the alarm handler and the engine's answers in any order | a true verdict, no test left behind, an end |
| Lua scripter | as the scripter | as the scripter | as the scripter | not modelled |
| Test interference | a load process and its controller thread | start, stop, pause, resume, duty cycle | the status is shared without a lock | no load left after stop; pause and resume take effect |
| Linked list, parser, settings, text, logger, loader | plain data | sequential | none beyond single calls | functional correctness |

`PROJECT.json` lists these parts with their files and status, and under `hazards`
each thing in this code that a test would hardly reach, at its line.

## 2. The modules

| Module | Models | Role |
|---|---|---|
| `StateGate` | what a state event promises | abstract specification |
| `EventSystem` | `tec_events.c`, `ec_msg_event_handler`, `Event()` | implements `StateGate` |
| `EventUse` | `EventSystem` with processes that follow the manual and do not crash | liveness |
| `RunService` | what the engine relies on in a TMC | abstract specification |
| `Tmc` | `tmc/` with its TPs, and the engine as a sender of commands | implements `RunService` |
| `MsgQueue` | `min_ipc_mechanism.c`, message queue part | |
| `TestEngine` | `tec.c`, calls of `min_engine_api.c`, the CLI's callbacks and its end, TMCs seen through `RunService` | |
| `ScriptMeaning` | what the manual says of loops and ifs | abstract specification |
| `LegoSnake` | `min_lego_interface.c`, the flow of control of `scripter_plugin.c` | implements `ScriptMeaning` |
| `Scripter` | `min_scripter_if.c`, `combined_test_process.c`, `scripted_test_process.c` | |
| `SlaveLease` | what tests rely on when they share slaves | abstract specification |
| `SlavePool` | `tec_tcp_handling.c`, `tec_rcp_handling.c`, the requests of scripted tests | implements `SlaveLease` |
| `SlaveSession` | what `SlavePool` takes a slave for | abstract specification |
| `SlaveEngine` | the same two files in the slave, `mintfwif.c` | implements `SlaveSession` |
| `MC*` | values of constants for TLC | |
| `EventSystemProofs`, `MsgQueueProofs`, `TmcProofs`, `TestEngineProofs`, `ScripterProofs`, `SlavePoolProofs`, `SlaveEngineProofs`, `LegoSnakeProofs` | - | theorems about the module of that name |

**EventSystem.** `ind`, `st` are the registration lists of the two kinds of
events, as functions from registrar to registration state; `state` and
`controller` are the fields of a state event; `told` is what the master was last
sent. Each handler (`IndSet` ... `StateRelease`) is one action, since the listener
handles one message at a time. A client's request travels `Call` (TP to TMC),
`Forward` (TMC to engine), `EventHandler`, `Return`; what it waits for is an entry
in `inbox`. A client that crashes is one that stops taking steps, so every safety
property covers crashes. The commands of a remote master are the actions
`Remote...`; a registration of the master is a registrar of its own (pid -1 in the
code). They run on the socket thread, which the code does not lock against the
listener: the module takes them to be atomic with it.
Indications that nobody has requested are dropped in the code and here.

**Tmc.** A step of `Main` is one access to a field that the SIGCHLD handler also
uses, or one system call; the handler is one step. So all races between the two are
there, for instance between testing `tp_pid_` and reading it again. `tp` follows
each TP from `fork` to the reaping. `SleepsSuffice` says that the fixed sleeps of
the code (50 ms in a new TP, 100 ms in the loop, 1 s in a crashing TP) are longer
than what they wait for. `outbox` holds the messages to the engine until it reads
them, `reports` every result that was ever put there. The engine in this module is
only a source of commands.
Timeouts are not modelled: `gu_handle_exe` sets every timeout to 0.

**MsgQueue.** Every `msgsnd` and `msgrcv` is a step, so other processes run between
the attempts of one call. `Waiters` block in `mq_read_message`; the others call it
after a peek only, which matters because only sends and reads retry the buffer.

**TestEngine.** An item of `instantiated_modules` is known by its address: `mod` is
its status, `pid` its TMC. `sel` is `selected_cases`. A thread's place `at` says
which step of an engine call it is in and what it has read so far; the steps are cut
at the mutex (a search under `tec_mutex_`, then the use of what was found after the
unlock) and, in `ec_exec_case` and `ec_pause_test_case`, between reading a status and
writing it. The CLI's calls run in the listener thread, the console's in a thread of
their own. Two constants choose how the threads and `malloc` behave: `Overlap` lets
a thread run while the other is inside a call, `Reuse` lets a temporary module get
the address of a removed one. Loading a module can fail (`Boot` sends MSG_KO). The
TMC part answers as `RunService` promises. Aborting a case only sends MSG_STOP
(`ec_abort_test_case` changes nothing in the engine): what comes of it is in `Tmc`.
`cli` is what the CLI has counted: modules it has heard of, modules that are ready,
cases, results. Its thread does nothing but wait for `AllDone`, which is read in one
step; it then closes the engine, and the session is over (`ec_reinit` is left out).

The modules of the configuration stand for the pids of their TMCs and temporary TMCs are
numbered from 1, so `TestEngineAssumption` keeps the two apart, as the kernel does. The
console and the CLI start a case only if all they mean to start fits into `MaxRuns`.

`pid` is set by `ec_start_tmc` before the fork returns to its caller, which is why
`StartTemp` stores it, and `SetTemp` sets the status after it.

**LegoSnake.** `AddLine` is `mli_create` for one line, with the two stacks it keeps
(`nesting`) and `loop_tmout`; only lines that `validate_line` accepts can be added, so
the run covers every script up to a length. `pieces` is the linked list, a piece being
known by its place; `Interpret` is `interpreter_next` for each type of piece, with the
links it rewrites (`loopback`, `beyond`, `counter`). Conditions and clocks turn out
either way. `Freed` walks the links as `mli_destroy` does, from wherever the script has
left them. `Regular` names what a script has to avoid for the manual to be right
(section 6); `AnyScript = TRUE` lifts it. `ScriptMeaning` knows only lines, a position
and the passes left in each loop.

**Scripter.** `pc` is the place of `tm_run_test_case`'s loop; what it tests is `flags`
(those of `scripter_mod`), `complete`, `remotes` and the head of `queue`. A record of
`recs` is a `ScriptedTestProcessDetails` and `procs` has its process, from fork to
reaping, with a pending SIGUSR2 and a pending or effective stop. A process is "forked" until
it has installed its handlers (`TestBegins`): a SIGUSR2 that comes before is lost. One whose
library cannot be opened is "stray" (`LibraryFails`): the child of a test case goes on as a
second scripter, that of a class knows no class. And a process may die without a word at any
time (`TestDies`). The loop's searches for
records (`ENDED` on a result, `canceliferror`, the final verdict) are walks with a
position, since the SIGALRM handler may come between two steps and walks the same list
itself; while the handler runs the main loop does not. The script is any sequence of
commands: loops and ifs are `LegoSnake`'s matter. The engine answers a command or does
not, with success or without; a blocking command gives up in time unless the script has
switched the time-out off ("notimeout", `blocktimeout 0`). A slave numbers its cases by the size of its
`selected_cases`, which `cases` counts; two slaves of one script may give the same
number, which the module does not have.

**SlavePool.** `pool` is `ms_assoc`, one entry per slave; `Listener` is
`ec_msg_ms_handler` for one request of a test, `SocketReads` the socket thread for one
answer (`tcp_msg_handle_response`), each one step. A test is blocked between a request
and its answer (`Answered`). `Target` is the search by name, `QueueOf` the search by
descriptor, and answers go to the `pid` of the entry: the three ways in which the code
connects tests and slaves. `session` is the engine of a slave as far as its master can
tell. The tests of a behaviour are `tidy` or not: tidy ones complete their remote runs
before they free a slave, the others free it when they like. `Impatient` are the tests whose
blocking commands time out. `SlaveSession` says what it is assumed to do (`Safety`, and with fairness `Spec`), and
`SlaveEngine` shows that the code does it, and when not.

**SlaveEngine.** The socket thread (`sock`), the run thread (`thread`, with
`thread_running` as it says of itself) and the listener's callbacks share `run_queue`,
`selected_cases`, `modules` and `test_runs`. Steps are cut where the code unlocks
`run_queue_mutex`, polls, or reads what another thread writes. `Here`, `Refused` and
`Silent` are cases that are found, are not, or whose module never gets ready.

Where a definition is preceded by a twin under the comment "Deviation", the twin is
a plausible mistake in that code; replacing the definition by it makes a run fail
(`mutants` in `PROJECT.json`), which shows that the property depends on it.

## 3. The runs

| Run | Configuration | Shows |
|---|---|---|
| `events` | 2 clients, the master, 1 name, every request | `TypeOK`; `NoLostWakeup`: a blocked process has a recorded reason; `OneAnswer`; `HeldStateIsSet`; `EventIsNeeded`: no leaked event, a pending unset has its process; `MasterKnows`: the master was told; `GrantIsKept`; `ImplementsGates`: refinement of `StateGate` |
| `event_use` | clients with the manual's scripts, some twice | `UnsetReturns`: an unset comes back once all have released; `SetReleasesWaiters`: even if the unset follows at once |
| `tmc` | 2 runs, all commands, fork may fail | `TypeOK`; `TrueReport`: the report of a run is what happened to it; `NoOrphan`: no TP survives the end of the TMC; `ImplementsRunService`; `ForkedReported`: a test that is never paused is reported however it ends |
| `tmc_pause_loses_report` | 2 runs, pause and resume | counterexample to `EveryRunReported` |
| `queue` | TP 3, TMC 2 messages of size 1 or 2, room for 2, exits any time | `TypeOK`: a process that is gone has emptied its buffer; `ExactlyOnce`; `OnlyBufferedOvertaken`; `WaitersDeliver` |
| `engine` | CLI on 3 modules (2, 1, 0 cases) and console with 3 cases, `Overlap` and `Reuse` off | `TypeOK`; `ResultIsOwn`; `OneAtATime`: the assumption of `RunService`; `EveryCaseReported`: and then the CLI ends |
| `script_flow` | every regular script of up to 7 lines | `TypeOK`; `FreedOnce`: the clean-up frees each piece, once; `ImplementsMeaning`: refinement of `ScriptMeaning`; `ScriptEnds` |
| `script` | all commands, 4 lines, 2 records, 2 testids | `TypeOK`; `NoTestLeft`; `TrueVerdict`: no result that is neither passed nor the expected one is hidden; `CompleteWaits`: for all test cases of a testid; `ScriptEnds`: whatever the engine leaves unanswered, unless `Hopeless` |
| `script_pause` | run, pause, resume | counterexample to `ScripterGoesOn` |
| `slaves` | 3 tests, tidy or not, 2 slaves, time-outs of 2 tests, refused connections | `TypeOK`; `OwnCommands`: a slave gets commands of its test only; `NoRunOverlooked`: no ongoing run is missing from the count that decides when a connection is closed; `ImplementsLease`: tidy tests hold leases (`SlaveLease`); `EveryRequestAnswered`; `EveryRunReported`: unless an early release has cut the run off |
| `slave_engine` | 4 runs of cases of all kinds | `TypeOK`; `ImplementsSession`: refinement of `SlaveSession`, fairness included: a slave that is not deaf starts and reports each run |
| `slave_short_case` | cases may be short | counterexample to `ResultHasRun` |

Deadlock checking is off where every process may rightly be idle for ever: processes
need not ask for anything, the user need not start anything, and bounds stop the
senders.

## 4. Bounds and fairness

*Bounds.* `events`: the handlers treat names independently, so one name suffices for
safety; two clients and the master give every pair of roles (holder and unsetter,
waiter and setter, two waiters), and all of `Request` is used. `MaxRuns = 2` in
`Tmc`: a second run is needed to meet what the first left behind, and the state after
a report is that of a fresh TMC but for what the invariants speak of. `QueueBound = 2`
lets a command be queued behind another. In `MsgQueue` a capacity of 2 with sizes 1
and 2 lets a small message fit where a large one did not; three messages of one
sender suffice for two in the buffer and one that passes. In `TestEngine` three
selected cases are a running one, one in a temporary module and one waiting in the
group; two temporary modules may exist at once. `LegoSnake`: seven lines hold a loop
with an if and else around a breakloop, two nested loops with a line in each, and two
loops in a row; two and three passes tell the first pass, a middle one and the last
apart. `Scripter`: two records of any kinds, with one testid or two, and four commands,
of which each may be any: a start, two interventions and a wait. `SlavePool`: three
tests for two slaves, three allocations (a slave is used again after another test has
had it), two remote runs (two that overlap in one slave, or one before and one after the
slave has changed hands), four of both together (`MaxAsks`); two of the tests may give up, so
that a slave may stay reserved for ever and the third test finds none. `SlaveEngine`: four runs come to a run thread that is new,
waiting, leaving or gone, with a module that is loaded or not.

*Fairness.* `EventUse`: processes, TMCs and the listener are scheduled and their
queues are first in, first out: weak fairness of each step. `Tmc`: main loop,
handler, TPs (which end) and engine take turns; pausing is the user's and is not
assumed to be followed by a resume. `MsgQueue`: processes are scheduled and read what
is there; nobody has to send or to exit. `TestEngine`: weak fairness of TMCs and of
the UI thread inside a call; strong fairness of the listener, because with
`Overlap = FALSE` a user who keeps pausing and resuming disables it again and again,
which the scheduler of two real threads does not do for ever; weak fairness of the
CLI's thread, which polls. A paused case is
reported as well, since a TMC may answer before the pause reaches it; that a process
stopped for good has no result is `Tmc`'s subject. `LegoSnake`: the interpreter is called again and
again. `Scripter`:
weak fairness of the main loop, the handler once entered, test functions (they end) and
slaves; strong fairness of the time-out of a blocking command, which is enabled only
between other messages, and not at all after `blocktimeout 0`; none of the engine's answers,
of a library that fails or of a process that dies. `SlavePool`: the two threads of
the engine, the slaves and a blocked test; no test has to start, run or free anything, or to
give up.
`SlaveEngine`: its three threads, with modules that answer and cases that end.

## 5. The proofs

All theorems are about every value of the constants that the named `...Assumption` of
the module allows (they are the types of the constants). Some need more; it is then part
of the statement, and this section says what goes wrong without it.

| Module | More than the types | Proved |
|---|---|---|
| `EventSystem` | - | every property of run `events` |
| `MsgQueue` | - | every safety property of run `queue` |
| `Tmc` | - | `TypeOK`, `ImplementsRunService` |
| `Tmc` | `SleepsSuffice` | `TrueReport`, `NoOrphan` |
| `TestEngine` | - | `CliSequential` |
| `TestEngine` | `Apart`: `Overlap` is off, or the CLI is used | `TypeOK`, `ResultIsOwn`, `OneAtATime` |
| `Scripter` | - | every safety property of run `script` |
| `SlavePool` | not `OneName`: scripts name their slaves apart | every safety property of run `slaves` |
| `SlaveEngine` | - | `TypeOK` |
| `SlaveEngine` | `Patient`: neither `ShortCases` nor `Hasty` | the safety part of `ImplementsSession` |
| `LegoSnake` | - | `TypeOK` |
| `LegoSnake` | `AnyScript` is off: scripts keep to `Regular` | `FreedOnce`, `ImplementsMeaning` |

`ImplementsLease` says nothing of tests
that are not `tidy`. `CliSequential`, that the CLI runs the cases of a group one by one, is
proved and no run checks it. The assumptions are the ones under which the runs of section 3 pass, or weaker ones. Every
safety property of a run that passes is proved.

### Events

`EventSystemProofs` proves for any set of clients and names and any subset `Calls`
of the requests (assumptions: `RemoteAssumption`, the registrar -1 is no test
process, and `CallsAssumption`):

| Theorem | Says |
|---|---|
| `Invariance` | `Spec => []IInv` |
| `TypeCorrect` | `[]TypeOK` |
| `AnswersOnce` | `[]OneAnswer` |
| `WakeupsArrive` | `[]NoLostWakeup` |
| `HeldStatesStay` | `[]HeldStateIsSet` |
| `EventsAreNeeded` | `[]EventIsNeeded` |
| `GrantsAreKept` | the action property `GrantIsKept` |
| `EventSystemImplementsGates` | `Spec => Gates!Spec`, by `ImplementsGates` |
| `MasterIsTold` | `[]MasterKnows` |

None of these is inductive. `NoLostWakeup` alone says nothing of a registration
that waits without a blocked process behind it, which a set would answer into the
queue of somebody who asked for something else. The invariant is
`IInv == ClientType /\ EngineInv` with the conjuncts

- types, and a queue that is empty or one answer, and empty until the request is
  handled;
- `WaitersStalled`: a registration "waiting" of a client has that client blocked in
  just that wait, and the state event is then unset;
- `UnsetterStalled`: a pending unset has its controller blocked in it;
- `ListedIfWanted`: an absent event has no registration, an unset or pending one has;
- `HeldStateIsSet`;
- `BlockedForReason`: the converse of the first two.

The two halves feed each other: a handler runs for a client that is not blocked, so
by the first two conjuncts neither a waiter nor a controller is the caller, and the
answers of one handler go to different queues, each empty before. There is one step
per handler and one per conjunct it can disturb. The remote commands are the
handlers with the registrar `Remote`, which has no queue. The refinement needs the
invariant, too: a set lets in exactly the waiters because nobody is inside a gate
that is not open, and an unset that succeeds at once closes an empty one.
`MasterIsTold` adds `MasterInv` on top of `IInv`: the master's request for a state
event is never idle ("unset"), so a set finds it waiting and answers it.

### Message queue

| Theorem | Says |
|---|---|
| `TypeCorrect` | `[]TypeOK` |
| `EachMessageOnce` | `[]ExactlyOnce` |
| `OvertakingIsLimited` | `[]OnlyBufferedOvertaken` |

Processes, links, sizes and the capacity are arbitrary. `ExactlyOnce` is not inductive,
as it counts only messages that were sent and leaves open that there is a copy of one
that was not. `IInv == OrderInv /\ CountInv`:

- `HandInv`: a message in the hand of its sender, between the attempts of `msgsnd`, is
  the last one it was asked to send and has not been buffered;
- `BufferInv`: a buffer holds messages of its process, in their order;
- `PostedInv`: what is in the kernel queue or read was sent before the one in hand and,
  if it has been buffered, before all that still are;
- `GotInv`, `OnlyBufferedOvertaken`;
- of `TypeOK`, that a process is gone only with an empty buffer: what it still had has been
  sent or counted as lost;
- `Conserved`: of each number there is one copy, in the hand, a buffer, the queue, with a
  reader or lost, if it was sent, and none otherwise; `Unlost`: lost with its sender only.

### TMC

| Theorem | Under | Says |
|---|---|---|
| `TypeCorrect` | | `[]TypeOK` |
| `Implementation` | | `Spec => ImplementsRunService`: each run is reported at most once, for itself, and no second test process is started before |
| `ReportsAreTrue` | `SleepsSuffice` | `[]TrueReport` |
| `NothingLeftBehind` | `SleepsSuffice` | `[]NoOrphan` |

The refinement needs no luck with the sleeps, and its invariant knows nothing of pids:

- `RunInv`: there is one run at a time; the processes of earlier runs are reaped, and
  `send_ret_` is set only when the last one is reaped and not reported;
- `PhaseInv`: the engine waits just as long as a report is due or on its way;
- `ExeInv`: a MSG_EXE is for the last run, and what the TMC notes of a result is.

That a report says what happened takes more: which process `tp_pid_` means, what the
messages of the test process can still be, and how far the main loop is. This is `IInv`,
with `QueueInv`, `MainInv`, `StatusInv`, `TellInv` and `TrueReport` itself. Without
`SleepsSuffice` TLC violates both properties: a test process may report before its pid is
noted, or be reaped before its report is read.

### Test engine

| Theorem | Says |
|---|---|
| `TypeCorrect` | `[](Apart => TypeOK)` |
| `ResultsAreOwn` | `[](Apart => ResultIsOwn)` |
| `OneCaseAtATime` | `[](Apart => OneAtATime)` |
| `CliInSequence` | `[]CliSequential` |

Modules, cases, temporary modules and bounds are arbitrary, and so is `Reuse`. `Apart`
is `~Overlap \/ plugin = "cli"`: with the CLI all calls come from the listener thread and
nothing is assumed. With the console, whose calls may overlap those of the listener,
`ResultIsOwn` and `OneAtATime` fail (section 6). The invariant `IInv`:

- `PidInv`: a module of the configuration has its own TMC, a temporary module a process
  that no other ever had;
- `TempInv`: a temporary module is there for one selected case;
- `RunInv`: a case that is being executed has a busy module to itself and is in one
  place: asked for, with the TMC, its MSG_RET in the queue, or in the listener's hands;
- `WorkInv`: conversely, TMCs do nothing the engine has not noted;
- `ThreadInv`: what a thread has read before it gave the mutex back is still so;
- `GroupInv`: the CLI puts all its cases in one group, and if that is sequential, nothing
  is being executed when a case is started;
- `CountInv`: what the CLI counts is bounded by what there is.

What makes `Reuse` harmless for safety is `Past`: when the address of a temporary module
has been given to another one, the case that had it first has its result already, so the
search that finds this case in `ec_handle_temp_results` (`tec.c:682`) ends it a second
time and leaves the right one ongoing. That is a matter of liveness (section 6).

### Scripter

| Theorem | Says |
|---|---|
| `TypeCorrect` | `[]TypeOK` |
| `NoTestIsLeft` | `[]NoTestLeft` |
| `VerdictIsTrue` | `[]TrueVerdict` |
| `CompleteIsOver` | the action property `CompleteWaits` |

`VerdictIsTrue` is about results that are neither passed nor the expected one, since that is
what the code compares (712-716): where a script expects a test case to fail and it passes,
the script may pass all the same (section 6), and no theorem says otherwise.

Scripts, commands, testids and the number of records are arbitrary. The message in hand
and the queue are one sequence of messages not dealt with (`Slots`, `Letter`); of these
the invariant says who sent them and that there is one of each. `IInv`:

- `TypeInv`, `KindInv`: what a record of a test case, a class or a remote case can be;
- `LoopInv`, `TestInv`: a test case that is not running or paused has ended or is being
  waited for, by the main loop or by the alarm handler;
- `RetInv`: a test process sends one MSG_RET, and once it is handled its record has the
  result;
- `CaseInv`: `remotes` counts the remote cases with a record whose end is not handled,
  and every case a slave runs has a record or a message that will make one;
- `CancelInv`: a test case is cancelled only after one has failed;
- `VerdictInv`: the verdict and what it was computed from;
- `NoError`: unless the script is in error, one blocking command is asked at a time
  (`AskInv`), a class executes one method (`ClassInv`), and a script finishes with
  nothing asked, or cancelled (`EndInv`). In error all three fail: the scripter goes on
  reading without waiting for what it asked.

### Pool of slaves

| Theorem | Says, if scripts name their slaves apart |
|---|---|
| `TypeCorrect` | `[]TypeOK` |
| `CommandsReachTheirSlave` | `[]OwnCommands` |
| `NoRunIsOverlooked` | `[]NoRunOverlooked` |
| `Implementation` | `Spec => ImplementsLease` |

Slaves, tests and bounds are arbitrary. None of the properties is inductive, because a
count and an owner can be right while a request in the queue is about to make them wrong.
There are two invariants. The first three theorems hold whenever a test frees its slave,
and rest on `EInv`:

- `Placed`: a reserved entry has its socket and the name of its test, and is the first with
  this name; an entry that is not reserved has nothing in its write queue and owes nobody an
  answer, though a run may be ongoing behind it and its name may be an old one;
- `Requested`, `Sending`, `Answering`, `Hearing`: what a blocked test waits for is in one
  place (with the engine, in a write queue, with the slave, in the inbox) and fits the step
  the test is in;
- `Covered`: the count of an entry is at least the number of its ongoing runs, which are in
  its write queue, in the slave, or in an answer on its way (`NoRunOverlooked`); `BoundInv`
  ties the counts to the bound. The count may be too high (section 6), so it is an inequality
  that can be kept: every step that takes one off also takes an answer away, and an entry is
  given a new connection only when the old one and its runs are gone with it.

The lease needs `tidy` tests, for which `IInv` holds:

- `EntryInv`: an entry is reserved by a test, under its name, while its socket is open;
  one that is not is empty, and so is its slave;
- `QueueInv`, `OutInv`, `AnswerInv`, `InboxInv`: as above, and while a slave is being freed
  nothing else of its test is on its way;
- `CaseInv`: the end of a remote run that is still to be told is known to its test, or
  the test is about to be told of the start; each end is told once;
- `RunsCounted`: the count is exact.

For the refinement `QueueInv` gives that a slave is free when its test has freed it, and
`CaseInv` that it does nothing then. `TidyStays`: tests do not change their ways.
`OneName = TRUE` breaks `OwnCommands` (section 6).

### Slave

| Theorem | Under | Says |
|---|---|---|
| `TypeCorrect` | | `[]TypeOK` |
| `Implementation` | `Patient` | `Spec => Session!Safety` |

The cases and their number are arbitrary. That types are kept (no case gets a number
beyond the commands there can be) needs an invariant of its own, `TInv`: entries of
`run_queue` are different commands (`QueueInv`), the one the run thread is at is still
there and has not been started (`PlaceInv`), so the cases selected and the entries not
started are together no more than the commands taken (`OnceInv`). The refinement rests on
`IInv`: `CountInv` relates the commands taken, the cases selected, the starts told and the
ends told; `HeadInv` says that only the head of `run_queue` is under way, and how far;
`ThreadInv` that a run which is being started is alone in the queue; `RunInv` and
`SaidInv` that only the last case runs. All of it depends on `Patient`:
`slave_short_case` shows what a case does that is over before it has been seen, section 6
what two runs at once do.

### Interpreter

| Theorem | Under | Says |
|---|---|---|
| `TypeCorrect` | | `[]TypeOK` |
| `WellFormed` | | `[]SnakeInv` |
| `FreesEachPieceOnce` | not `AnyScript` | `[]FreedOnce` |
| `MeansWhatTheManualSays` | not `AnyScript` | `Spec => ImplementsMeaning` |

Scripts may have any length and any number of passes. That the interpreter stays on the
snake, whatever the script, rests on `SnakeInv`:

- `ShapeInv`: the pieces are those of the lines, after a start and before an end;
- `PairInv`, `ElseInv`, `NestInv`: each endloop has its own loop, each endif its if, an
  else lies between the two, and blocks are nested in each other and in what is open;
- `LinkInv`: the link of a piece is the one `mli_create` gave it (`Link`: to the next piece
  or, before an else, to the endif), or it is that of an endloop and leads to the loop;
- `PlaceInv`: of the endloops only those around the interpreter lead back;
- `BreakInv`: each breakloop is in a loop, so its fast forward finds an endloop.

For regular scripts `RegularInv` adds `TimesInv` (the times a loop has are those of its
line, and more than one), `OutmostInv` (around a breakloop there is one loop, and none
follows before the end of that one) and `CountInv` (an endloop that leads back has counted
between 1 and the passes less one; one that does not has counted none, unless it is an
outermost one that is over). Two arguments go beyond a step:

- *Clean-up.* When no endloop leads back, the links are those of `mli_create`; the walk of
  `mli_destroy` comes to an endif first by the branch of the if, goes from there to its else
  and comes back, so it frees the pieces in their order. `Walking` is the invariant of this
  walk, carried along by an induction over its steps; `FreesAll` is what the walk has freed
  in the end, in any script. In a regular one no endloop leads back outside the loops.
- *Meaning.* The manual pairs lines by counting openings and closings, `mli_create` by a
  stack. `Balanced` shows that, counted from an opening line, the two numbers are equal for
  the first time at the line the stack has paired with it; from it `ManualLoops`, `ManualIfs`, `ManualElse` and `ManualInnermost` say that the manual
  and the links mean the same lines. `Left` maps the counter of an endloop to the passes that
  are still due (`LeftsAre`). Then there is one lemma per step: `WriteMeans`, `FinishMeans`,
  `PlainMeans`, `IfMeans`, `EndloopMeans`, `BreakloopMeans`, `EndMeans`, `CancelMeans`.

What irregular scripts do is in section 6.

The library has well-founded induction only with an operator as a parameter, so the proofs
that need an induction start from the set of naturals at which the claim fails:
`LeastElement` gives it a least one.

### Only model-checked

- Liveness: `UnsetReturns`, `SetReleasesWaiters`, `ForkedReported`, `WaitersDeliver`,
  `EveryCaseReported`, `ScriptEnds` of both scripts, `EveryRequestAnswered`,
  `EveryRunReported` of the pool, and the
  fairness part of `ImplementsSession`. The prover has no rule for fairness (ENABLED).
- The runs that end in a counterexample.

## 6. Disagreements found

The runs that end in a counterexample each refute a sentence of the documentation, a
comment or a warning in the code; `findings` in `PROJECT.json` quotes it.

- `tmc_pause_loses_report`: while the TMC has its TP down as paused, which is so before
  SIGSTOP and after SIGCONT, too, its SIGCHLD handler returns at once: the end of the TP
  is never reported.
- `script_pause`: a test case whose result is in the queue is stopped by pause before it
  has exited; the scripter then waits for its end and never comes to the resume.
- `slave_short_case`: a slave writes the runtime id of a case into `run_queue` only after
  it has seen it running; the result of a shorter case finds no entry ("INTERNAL
  ERROR"), and INITPTR is freed.

Observed with the modules, without a run of their own:

*Events.* A set made while an unset is pending is answered with success and lost at the
last release (`tec_events.c:734`).

*TMC.* `tp_abort` reads the pid twice; if the handler clears it in between,
`killpg (0)` hits the TMC's own group, to which the engine belongs (`hit` in `Tmc`; the
liveness properties except a run that meets it).

*Message queue.* A message that did not fit stays in the buffer of a process that then
only peeks, as the TMC and the engine do; that is why `WaitersDeliver` is about those
that block.

*Engine.* A case that waits for its temporary module is still IDLE, so the next case of
its group is started beside it (`min_engine_api.c:222`, console only). With `Overlap` on,
`ResultIsOwn`, `OneAtATime` and `EveryCaseReported` fail: two cases are ongoing in one
module, results go to the wrong case, and a result between the group check and the
selection leaves the new case without a starter. With `Reuse` on, `EveryCaseReported`
fails: `ec_handle_temp_results` finds the terminated case that had a temporary module at
the same address. `ec_exec_test_case`, `ec_run_cases_seq` and `ec_run_cases_par` have no
callers and are not modelled. The CLI ends when all modules it has heard of are done, so
it may leave out the cases of a module whose TMC is slow to start; and it never ends if
no module at all can be loaded, as its list of them stays INITPTR, of size -1
(`cli.c:506`).

*Interpreter* (with `AnyScript = TRUE`): a loop of 0 or 1 passes is executed twice
(`scripter_plugin.c:1853-1865`); `loop_tmout` stays set after a loop with a time, so a
later loop with passes is taken to have one; a breakloop leaves the counter as it is and
its fast forward stops at the first endloop, so loops inside loops go wrong (1884-1893);
a script that is cut short inside a loop that has looped back has a circle in its links,
and `mli_destroy` frees a piece twice.

*Scripter.* `complete` of a test case that was cancelled never returns; `canceliferror`
waits for a test case that takes its time; SIGUSR2 does not end a test function that is
running, and a TIMEOUT status is overwritten by a later result (comment
`min_scripter_if.c:1070`); a signal to a child that has just been forked is lost; a
record of a remote case has the pid 0, so cancelling it signals the whole group; a child
whose library cannot be opened goes on as a second scripter (1646-1651); a timed pause
leaves the status PAUSED; after an error a script that has finished is executed again,
as the error is tested before the end (318, 341); the final verdict counts cancelled
test cases twice. A result is replaced by passed when it is the expected one and kept
otherwise (712-716, of a method 767-775), so a test case that passes although
`expect` names another result counts as passed, and so may the script:
`doc/texinfo/chapters/run_keyword.texi:13-14` calls expect "The expected result", and
`allownextresult_keyword.texi:1` says that passed ("0") "is removed from the expected values"
when others are set. `TrueVerdict` says what the code does. What keeps a script from its end
is listed in `Hopeless`: besides test cases left paused, one that died without a word, a
SIGUSR2 that came before the child could take it (1680), a library that was not found
(1646-1651), complete of a cancelled test case, a method of a class whose process is gone,
and an engine that does not answer after `blocktimeout 0` (329-330).

*Pool of slaves.* The manual's own example (`Master_slave_example.texi:8-10`) frees its slave
right after `remote slave1 run`, which is what tests do that are not `tidy`. The release then
finds a count of 1 and only clears the reserved bit (`tec_tcp_handling.c:656-659`). If nobody
allocates the entry before the run ends, its result arrives and the connection is closed
(702-705). If somebody does, `allocate_ip_slave` overwrites the socket and the test (543-546),
the result is never read, and the test that waits for it never ends; with two runs ongoing
the end of the first closes the connection of the second. These are the cases `CutOff` excepts
in `EveryRunReported`; without the exception TLC finds it violated, and `ImplementsLease`
without `tidy`. The entry closed by the end of a run keeps its count of 1, as the end is taken
off only while the entry is reserved (698-701), so it is not the "number of ongoing remote
runs" of `tec_rcp_handling.h:75` any more: the next test that frees this slave finds a run
ongoing, and its connection stays open until somebody allocates it again.
With `OneName = TRUE`, two scripts that call their slaves by
one name send their commands to the first. When no slave is free or the connection is
refused, the test is not told and waits until it times out, and a test that times out
leaves its slave reserved for ever. When a connection is lost, the entry forgets its name
but keeps its count and its write queue, and a command to a name that is not there goes to
the last entry of the pool (`tec_rcp_handling.c:977` guards an empty pool only).

*Slave* (`SlaveEngine`). It goes deaf, with its socket mutex held, when a case or its
module is not there: `tcp_remote_run` has returned by then, so the "remote run error" of
`handle_remote_run` is never sent, and the entry stays at the head of `run_queue`. It also
goes deaf when a run comes just as the run thread leaves (375). With `Hasty = TRUE`, two
runs overlap, and `send_to_master` gives "ready" of the first the number of the second, as
it takes the number of the last selected case whatever it is told
(`tec_rcp_handling.c:945`). With `ShortCases = TRUE`, "ready" may also come before
"started". `SlavePool` assumes that none of this happens.

## 7. Not modelled, and why

- Socket thread against listener thread in the event lists and in the write queues, the
  two threads of the engine in the message buffer: data races without any lock. The
  results would be arbitrary; the modules take each handler to be atomic, and `hazards`
  names them.
- Processes that die while registered for an event: they keep blocking its unset.
  `EventSystem` has their dead registrations; no liveness is claimed with them.
- In `TestEngine`: MSG_PRINT, descriptions, user messages, debugging, `ec_reinit`,
  failure of `fork`; a MSG_TCD other than the last one. The fields of a new entry of
  `selected_cases` are set in one step.
- In `Tmc`: MSG_GTC and the descriptions, MSG_USR, MSG_EXTIF, MSG_SNDRCV, start-up.
- In `SlavePool`: remote variables (expect, sendreceive), remote cancel and pause, the
  loss of a connection (with it `OwnCommands` does not hold, see above).
- In `Scripter`: what a stray child does further as a second scripter on the same script (its
  messages have its own pid, and the records are its own copies); variables and their shared memory, sleep, interference, pause from the
  UI, allocation failures. In `LegoSnake`: what `validate_line` checks beyond nesting.
- The TCP/IP plug-in: the engine API over a socket, framing and dispatch only. The parts
  of `mintfwif.c` for programs that embed the engine: calls passed on to the engine API.
- Test interference (not yet modelled): a controller thread per load that stops and
  continues a child by a status that the callers of pause and resume write without a lock,
  and that frees the structure which `ti_stop_interference` still reads. Scripts only start
  and stop loads.
- Menus, logging, parsing of configuration files and scripts, text and settings:
  sequential data handling; linked list and parser searches could be stated as functions.
- Lua and its binding, the library loader: external code and thin wrappers. The binding
  repeats the operations of the scripter on the same records.

## 8. Plan

Done: event system with its abstract gates and its uses; TMC; message queue; test engine
with the end of the CLI; interpreter; scripter; the pool of slaves and the slave's engine;
the proofs of section 5. Left, in this order:

1. `CaseRun`: `TestEngine` with `Tmc` in place of its abstract TMC, so that what a pause
   does in the TMC meets what the engine believes.
2. `SlavePool` with connections that are lost, and with `SlaveEngine` in place of its
   session.
3. `EventSystem` with processes that die, composed with `Tmc`.
4. Test interference: the controller thread of each kind of load against its callers.
5. The remaining messages of the TMC; linked list against sequences, parser searches.
