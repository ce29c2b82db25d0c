# TLA+ models of ACTS (Android Comms Test Suite)

ACTS (`src/acts/framework/acts`) runs tests of Android connectivity: it reads a
configuration, creates controllers for phones and laboratory instruments, runs
test classes, and talks to the phones through adb and through SL4A, a JSON RPC
server on the device. These modules model the parts of it in which threads,
processes, failures or exceptions meet.

## Inventory

| Component | State it keeps | Operations | What is hard | What makes it correct |
|---|---|---|---|---|
| RPC client pool (`sl4a_lib/rpc_client.py`, `rpc_connection.py`) | lists of free and working connections, a lock, `is_alive` | `rpc`, `terminate` | many threads, unlocked reads and list operations, socket timeouts, a peer that goes away, adb failures | one user per connection, the limit, answers go to their callers, every call ends |
| SL4A session and manager (`sl4a_session.py`, `sl4a_manager.py`, `sl4a_ports.py`) | sessions, the ports taken on the device, `_started` | `create_session`, more connections, `stop_service`, `terminate_all_sessions` | ports read before the lock, servers that come and go late, sessions created while others end | a server found by one thread only, one server for all sessions, no session escapes |
| Event dispatcher (`event_dispatcher.py`) | one queue per event name, the polling thread, handlers | `start`, `close`, `pop_event`, `wait_for_event`, `pop_events`, `pop_all`, `clear_events` | polling against consumers against `close`; a dictionary that is read twice | nothing lost, oldest first, `close` ends and leaves nothing |
| Error reporter (`error_reporter.py`) | tickets, a counter | `create_error_report`, `finalize_reports` | a counter changed by several threads without a lock | no more reports than allowed, none in progress when `finalize_reports` returns, and it does |
| Process wrapper (`libs/proc/process.py`), used by logcat and tcpdump | `_started`, `_stopped`, the Popen, two threads | `start`, `wait`, `stop`, restart callback | `stop` against a restart, no lock anywhere | one run, `stop` returns and leaves nothing, output before the restart |
| Test execution (`base_test.py`, `test_runner.py`, `bin/act.py`, `records.py`) | results, `consecutive_failures`, exceptions in flight | `run`, `exec_one_testcase`, `run_test_class`, `_run_tests` | a dozen user-written functions, each of which may raise any signal | one record per test, teardown, `abort_all`, the verdict |
| Sampling engine (`monsoon_lib/sampling`) and Monsoon controller (`monsoon_lib/api`) | streams, calibration windows, sums | `measure_power`, the nodes of the line | three assembly lines of threads and processes, one in the other; what raises in them | the result is complete and rightly calibrated, the run ends |
| Event bus and subscription bundles (`event/`) | lists of subscriptions by type, ids; a bundle's subscriptions and its flag | register, unregister, post, add, remove | `post` walks through lists that other threads sort and shorten; tests before the lock | bus and bundle agree, subscribers are called in order and found unless their list changed |
| SSH connection (`utils_lib/ssh/connection.py`) | the master process and its directory, tunnels | `run`, `create_ssh_tunnel`, `close_ssh_tunnel`, `close` | a retry of what may have been done, a cleanup that no lock protects | a command runs no oftener than it is tried, no master, directory or tunnel process leaks, calls end |
| Contexts (`context.py`) | a stack of contexts | push and pop, by events around classes and tests | events that are not posted, or whose delivery another subscriber ends | the framework knows which test it is in |
| Log streams (`libs/logging/log_stream.py`, `logger.py`) | file handlers of each logger | create, move with the context, clean up | four context events, any of which may be missed; names used again | files are in the directory of the context they are meant for, and no stale one is written |
| Device services, adb, fastboot, configuration, instruments, traffic generators, metrics | little | command lines | little: one thread, pure functions, I/O | unit tests |

How they interact: `TestRunner` creates the controllers and the test classes. A
phone's controller owns an SL4A manager, whose sessions own an RPC client and an
event dispatcher; the dispatcher's polling thread calls `eventWait` over a client
of its own, tests call `rpc` from any thread, and handlers run in the
dispatcher's executor. `rpc` asks the session for connections, which runs adb.
logcat and tcpdump run under a `Process`, whose restart callback adds the time
stamp to resume from. A Monsoon gives its USB device to a child process for the
time of a measurement. `base_test.py` posts events on the event bus around a class
and a test; the stack of contexts is kept by two of their subscribers, which post
another event that moves the log files. Failed calls of `rpc` make the manager's
error reporter write a report. Access points, packet senders and traffic generators
send their commands over an SSH connection. Signals (`mobly.signals`) travel from any user function up
through the test, the class, the runner and `act.py`.

## Modules

| Module | What it is |
|---|---|
| `ExclusivePool` | abstract specification: users take items, one user per item, at most `Limit` of them |
| `RpcClient` | the pool of `RpcClient`, implements `ExclusivePool` |
| `MCRpcClient` | the symmetry that TLC uses for it |
| `RpcClientProofs` | theorems and proofs about `RpcClient` |
| `Process` | a `Process` object, its clients, listening threads and reader threads |
| `ProcessProofs` | theorems and proofs about `Process` |
| `TestRun` | a run of test beds, classes and tests |
| `TestRunProofs` | theorems and proofs about `TestRun`, `TestContext` and `LogStream` |
| `TestContext` | the stack of contexts, on top of `TestRun` |
| `LogStream` | loggers whose files follow the context, on top of `TestContext` |
| `MCLogStream` | three streams of different styles for TLC |
| `EventDispatcher` | the dispatcher, its polling thread, consumers and owner |
| `EventDispatcherProofs` | theorems and proofs about `EventDispatcher` |
| `ErrorReporter` | tickets and the counter of reports in progress |
| `Sl4aManager` | the manager, creation of sessions and connections, the servers on the device, on top of `ErrorReporter` |
| `Sl4aManagerProofs` | theorems and proofs about the manager and the reporter |
| `SshConnection` | an SSH connection, its master, commands and tunnels |
| `SshConnectionProofs` | theorems and proofs about `SshConnection` |
| `EventBus` | register, unregister and post, one list access at a time |
| `SubscriptionBundle` | a bundle on top of `EventBus` |
| `MCSubscriptionBundle` | an event type, its base type and four subscriptions for TLC |
| `SubscriptionBundleProofs` | theorems and proofs about `EventBus` and `SubscriptionBundle` |
| `Sampling` | `measure_power` on an HVPM: lines, nodes, streams, calibration |
| `SamplingProofs` | theorems and proofs about who has the Monsoon open and what becomes of the samples |

**RpcClient.** `free` and `working` are the two lists, as sets: they never hold a
connection twice and nothing depends on which one `pop` takes. `pc[t]` names the
line of `_get_free_connection`, `rpc` or `_release_working_connection` that
thread `t` is at; an action is a stretch of code in which no other thread can
see or change the pool, so there is a step between the unlocked length checks and
the lock, between `pop` and `append`, between the exchange with the device and
the release. `conn[t]` is the local variable `connection`. Replies are modelled by
the tickets a connection owes (`owed[c]`): the device answers in order, may stop
answering (`SocketTimeout`) or close the socket (`NoReply`, `SocketError`).
`PeerCloses` is external. Creating a connection is `Sl4aSession`'s
(`Create`, `CreateFails`), removing a port is adb's (`CloseRaises`).

**Process.** An action is one access to the fields that the threads share without
a lock. `cpc`, `lpc` and `reader` are the program counters of clients (in `start`,
`wait`, `stop`), of listening threads (`_exec_loop`) and of redirection threads
(`_redirect_output`); a run of the command has a number, and `Writes` and `Exits`
are what the command does by itself. `crossed` is history: it remembers that two clients
were past the tests of `start` and `wait` together (`Inside`).

**TestRun.** `phase` names the user-written function that runs next; its action
takes the outcome (return, return False, or a signal) as parameter, and models
the framework code from there to the next user function. `exc` is the exception
in flight, `classRecs` and `runRecs` are `BaseTestClass.results` and
`TestRunner.results` (of the latter, which results occur), `ok` is the verdict of `_run_tests`, whose `and` chain over
True, False and None is `PyAnd`. `AllPass`, `Spoilt` and `Raised` stand for mobly,
which is not in the repository. `skipRaised` is set in `Block` only: it tells whether what an
`on_skip` raised there made the blocking begin anew or left `run`; an abort_class is
caught there, if the tests are blocked because `setup_class` returned False.
`classError` is the class error that mobly makes of an exception in `teardown_class`, `ends` how
each bed ended.

**TestContext, LogStream.** They extend `TestRun`: each of its actions that posts an
event is conjoined with what the subscribers do (`PickC`, `EndTest`,
`TeardownClassC`), and there are actions for an event whose delivery another
subscriber ends (`BeginTestRaises` and the like, at most `MaxLost` times).
`contexts` is the stack, a context is a path; `missed` and `left` count contexts that
were never pushed and never popped. `LogStream` adds the file handlers of each
stream with the directory that their file is in; `TestLog` is the stream
`logger.py` makes for every test bed.

**EventDispatcher.** `dict` maps names to queues, a queue is a number, so a thread
may keep waiting on one that `close` took out of the dictionary. `cpc` steps
through `get_event_q` with its two reads, the wait on the queue, and
`wait_for_event`'s loop with the events it ignores; `poller` is the polling
thread. `Workers` are the threads of the executor, which call for `handle_event`, may pop without a
timeout, and are joined by `close`; `strays` are those still busy when the next `start` makes
another executor. A predicate that raises in `wait_for_event` ends the call and loses what it had
ignored (`Raises`). `taken`, `gone` and `putBack` are history.

**ErrorReporter, Sl4aManager.** `epc[t]` is where thread `t` is in
`create_error_report`; `+=` is a read and a write, and `torn` remembers that one
wrote over another. `pc[t]` and `frame[t]` are the place and the locals of a thread
in a call of the manager; `frame[t].for` says whether a port is looked for to create a
session, to connect, or to see the servers close. `sl4aPorts`, `started`,
`sessions` are the fields; `listening`, `dying`, `launching` the device.

**SshConnection.** A step is what a thread does between two uses of the fields
`_master_ssh_proc`, `_master_ssh_tempdir` and `_tunnels` (`proc`, `tempdir`, `tunnels`), so that the
cleanup of another thread comes between any two of the reads of `setup_master_ssh`, and a `close()` between
the start of a tunnel's process and its place on the list. `frame[t].after` is
where the cleanup, or the close of a tunnel, returns to; `frame[t].got` is the directory or
the process that the thread has in hand. `outcome` is how a call ended, `executed` how often
the host ran its command. `SocketAppears` and `MasterDies` are ssh's.

**EventBus, SubscriptionBundle.** `bpc[t]` is where a thread is in the bus, `upc[t]` in the
bundle; a call of the bundle enters the bus with `CallRegister` or `CallUnregister` and
goes on when the thread is idle there again. The lookup of an id is two steps, as the code tests and then reads
the map without the lock; no other thread of the run removes an id in between, so the KeyError between
them is in the model (`Lookup`) and not met by a bundle. `sorted` is the type whose list is
being sorted: CPython empties a list for the time. `StableSort` places each item by its
rank, the number of items that do not come after it. `touched` is history.

**Sampling.** Seven nodes, each a thread or process with a state in `node`; four
streams; the chunker's windows and stored samples; the aggregator's readings. A
sample is its number, and its type is what the device chose. Calibration values
are represented by the samples they are computed from, so a reading says by which
samples it was calibrated. `Filled` is the buffer that the collector sends, with a hole for each
read that raised; `Chunked` and `Summed` are what the loops of the chunker and the aggregator have
after each item of a buffer.

## Runs

| Run | Bounds | What it shows |
|---|---|---|
| `rpc_faults` | 3 callers, 4 connections, limit 2, one try, adb and arguments fail, `terminate` | exclusive use, the limit, own answers; implements `ExclusivePool` |
| `rpc_running` | 3 callers, limit 1, two tries, no adb failure, no `terminate` | every call ends |
| `proc_shared` | 2 clients, one of them starts, 3 starts, 1 stop each, 1 restart, Popen may fail | unless the clients were past a test together: one run at a time, output before the callback, `stop` leaves nothing behind; and it returns unless there was a restart after it had looked |
| `proc_restart_race` | 1 client, 1 restart | violation: `stop` waits for the restarted run |
| `testrun_faults` | 2 beds x 2 classes x 3 tests, limit 2, retries, every function may raise | one record per test, the counter, teardown, verdict, abort |
| `log_faults` | 2 beds x 2 classes x 1 test, every function may raise, 1 other subscriber raises, 2 loggers made by tests, streams of 1 and 3 files | the context is the test that runs; the stack is where the run is as long as no context was lost; files follow; no stale files |
| `disp_polling` | 2 consumers, all six operations, 3 events, 2 names, the poller may fail | nothing lost, oldest first |
| `disp_close` | a client and a thread of the executor, 2 calls, 1 event, 2 starts, one handled name, the poller may fail and close the dispatcher itself | a restart is fresh, `close` returns unless a thread that it joins waits for an event for ever |
| `sampling_faults` | 3 buffers of 2 samples, window 1, one sample to settle, reads and devices may fail | one holder of the device, right calibration, complete result, the line ends or a node has raised |
| `bundle` | 2 threads with 3 calls and 1 post each, one of them registers, 2 subscriptions of the bundle and 2 others, 2 types, 2 orders | bus and bundle are consistent, nobody undisturbed is missed, calls end |
| `sl4a` | 3 threads, of which 2 create or connect, 2 fail and 1 terminates; 3 calls, 2 sessions, 2 ports, 1 foreign server, 2 tries, 1 report allowed, 2 asked for | a port is handed out once, one server, no session escapes; reports are finished; termination returns |
| `ssh` | 2 threads, 3 calls of any kind, 2 attempts, 2 masters, 2 tunnels, 2 local ports, 1 remote | a command runs at most `attempts` times; the master and its directory are known; no tunnel process is lost, and `close` leaves none on the list; calls end |

Why the bounds are enough. Three callers and a limit of two (or one) are the
least in which a caller has to wait, and a third can act between two steps of two
others; four connections leave room for the ones a terminated client loses. Two
clients of a `Process` give every pair of a client, a listening thread and a reader; with
three starts the second stop can forget the thread of a later start, so the code does
have two runs in states the properties except (with two starts it never does). Two beds and classes
have a before and an after; three tests and a limit of two let a failure, a skip
or a pass and another failure precede a blocked test. Two consumers of which one looks at an event of another name while the
poller stores a third is the least in which order can go wrong. Two samples a
buffer and three buffers let chunks begin and end inside a buffer and cross two
of them; a window of one makes a second calibration sample drop the first.
One test a class is enough for contexts, which no test inherits from another but by
the stack; two beds show what one leaves to the next. Three calls of a bundle by
one thread include adding, registering and unregistering or removing, against as many of the
other's. Two ports and two launches let two threads see the same port; with one
report allowed and two asked for, one request gets no ticket. Two attempts are the
code's default; the third call finds what the first two left of a master.
All counters (`MaxPosts`, `MaxRequests`, `MaxSessions`, `MaxLaunches`, `MaxMasters`,
`MaxTunnels`, `MaxCreates`, `MaxLost`, `MaxCalls`, `MaxStarts`, `MaxRestarts`, `MaxStops`, `MaxEvents`,
`MaxBuffers`) are bounds of the environment, not of the code. `RpcClient`'s ticket
counters are bounded by `MaxCalls` and `Retries`. Deadlock is not checked where the
environment is allowed to do nothing more: all models end when their bounds are
used up.

Fairness. *RpcClient*: every step of a thread inside `rpc` is weakly fair, as its
waits have a socket timeout and the lock is held for a few statements; callers
need not call, the device need not answer. *Process*: threads that can run do
run; the command may run for ever. *EventDispatcher*: `eventWait` has a timeout
and a holder of the lock goes on; storing an event and clearing the queues are
strongly fair, because consumers release the lock and sleep a second between two
rounds of `pop_events`. A thread of the executor runs what it was given: its steps are weakly fair, and
`MakeQueue`, which needs the lock, strongly; a pop without a timeout still waits for an event
that need not come. Nothing is assumed of a client outside the lock.
*SubscriptionBundle*: a thread inside a call is weakly fair, and waits for a lock only
a few times before the calls of the others are used up, so no stronger fairness
is needed. *SshConnection*: threads run, a command and the wait for the socket
have timeouts; that the master connects, or dies, is not promised. *Sl4aManager*: threads
run, nothing is promised of the device.
*Sampling*: every node is weakly fair; the collector ends after its duration.

## What is proved

What `RpcClientProofs` proves holds for any callers, connections, limit, retries and flags,
with or without `terminate`; it assumes only the named `ASSUME`s of `RpcClient`
(`None` is neither a caller nor a connection, the limit and the tries are
positive, the flags Boolean).

1. `Owners`: types, the lock is held by exactly the thread whose program counter
   is in the locked region (`LockInv`), and a thread has a connection exactly at
   the program counters that say so (`ConnInv`). `TypeCorrect` follows.
2. `Places`: a connection is in one place — the free list or the hands of one
   caller (`OnePlace`) — and those that are on the working list while carried
   are known (`CarriedIsWorking`). `ExclusiveUse` alone is not inductive: a pop
   must know that the list it pops from contains no connection in use.
   `ExclusiveUseHolds`.
3. `Room`: between the locked count and the adoption of a new connection there is
   room for it, because only the lock's holder adds, and the others only move or
   remove. The count the code takes, of two lists, is exact at that moment
   (`CountIsExact`). `CapacityHolds`.
4. `Answers`: what a connection owes is empty, unless its user waits for exactly
   that ticket, or it has timed out and is being discarded. `OwnAnswerHolds`.
5. `ImplementsPool`: with `idle <- free`, `uses <- conn`, every step maps to
   `TakeIdle`, `TakeNew`, `GiveBack`, `Discard`, `Shut` or a stutter, given 1-3.

`TestRunProofs` holds for any numbers of beds, classes, tests and attempts and
any failure limit, and whatever the user-written functions do; it assumes only
`SizeAssumption` and `AttemptsAssumption` (those numbers are positive).

1. `Typed`: the types, and how far the counters can be in each phase (`Counters`).
   `consecutive` keeps its type only because a test counts as a failure at most
   once and before its record is added. `RunTypeCorrect`.
2. `Leaving`: while the class is being left by `abort_all`, that signal is in
   flight in the procedures and the teardown, and nothing catches it there.
   `AbortIsFinalHolds`.
3. `Covered`: a class not yet torn down is before its end, unless an `on_skip` raised in the
   except clause of `run` (`skipRaised = "leftRun"`), the one way round the teardown; any other
   procedure may raise. `ClassesAreTornDownHolds`.
4. `Seen`: before its set-up is done, a test has not run; this makes `RanIsRecorded`
   inductive. `RanIsRecordedHolds`.
5. `InOrder` and `Accounted`: the records of a class are those of the tests before
   the current one, in order, and a class that ends before its last test ends by
   an abort. Neither is inductive without the other. `OneRecordPerTestHolds`, of classes in which no
   `on_skip` raised while tests were blocked.
6. `Verdict`: what `ok` is, of the ends of all beds so far; an abort counts as `True`, and after a crash it
   stays None. `FailedBedFailsRunHolds`, without any hypothesis: the status is 1 if and
   only if a bed failed and none before it crashed.
7. `Counted`: while a test runs the counter is the streak of the records before it, and once its procedures
   are over the streak there will be with its record (`StreakAppend`). `CounterTracksRecordsHolds`.

`SamplingProofs` holds for any sizes of buffers and windows, any time to settle and any number
of buffers, for samples of any types in any order, and whatever raises; it assumes `SizesAssumption`.

1. `Handover` says at which program counters `main`, the `hvpm` thread and the collector have the
   device open, and that while the collector is between its start and the close `hvpm`
   waits for it. From that `ExclusiveDeviceHolds`; `ExclusiveDevice` alone does not
   exclude that one of them opens the device while another has it.
2. `Flow` says how far each node has seen the samples: the aggregator those up to `g`; the readings
   that wait for it are those up to `r`, the chunks of the applier those up to `h`; what the
   chunker has stored are the measurements after `h` up to `c`, and the packets in its stream are
   the samples up to `p`. Between two marks a stream is a `Row`: its items cover the samples one after the
   other, each as its kind promises (`IsBuffer`, `IsChunk`, `IsReadings`). `IsChunk` carries what matters:
   the windows in a snapshot are the last samples of their origin for *each* sample of the
   chunk (`WindowAt`). That holds because a chunk is cut before the calibration sample that follows it is added,
   which is in `Chunking`: no calibration sample has come since the oldest stored measurement.
   Every step moves the marks (`MovingNext`): one lemma for each action that sends or takes. A chunker's step
   over a whole buffer is an induction over its samples, in the form of a set that contains 0 and is
   closed under the next (`UpTo`). `RightCalibrationHolds`.
3. `EndsInOrder`: a stream is closed only by a node that is over, and a node ends without raising only
   when the stream before it is over and empty, and the chunker with nothing stored. When all
   have ended the marks therefore coincide (`NothingLeft`). `ResultIsCompleteHolds`.

`SubscriptionBundleProofs` holds for any threads, subscriptions, types, orders and bounds; it
assumes the named `ASSUME`s of `EventBus` and `SubscriptionBundle`.

1. `StableSort` returns the items it was given, once each, and in order: their ranks are different
   and fill the places (the section *Sorting*).
2. `Typed`: the types, and that the bus's lock is held exactly by the thread that is between appending
   to a list and having sorted it. `BundleTypeCorrect`.
3. `Looking`: a thread that posts has found what is before its place in each list it is done with, in
   the list's order, unless the list has been touched since it looked there first. It needs no lock and
   nothing about the bundle. `UndisturbedAreFoundHolds`.
4. `Bundled` and `Listed`: what the bundle's flag, its ids and the locals of the thread that registers,
   unregisters, adds or removes say of each other at every step; and that a subscription with an id is in
   the list of its type once, and the list is sorted while nobody holds the lock.
   `BusIsConsistentHolds` and `BundleMatchesBusHolds`, under the hypothesis `OneRegistrar`: at most one
   thread may call `register()`. The code needs it: two threads that pass the test of the
   flag together register everything twice (see below). The run `bundle` makes the same choice by
   `Registrars`.

`ProcessProofs` holds for any clients (a finite set), starts, restarts and stops; it assumes
the named `ASSUME`s of `Process`. `Alone` says that nobody else is past a test; it is what
`~crossed` gives, and under it four facts that need each other are inductive. `LoopInv`: only
the latest listening thread is alive, it is the one that `_listening_thread` names, and it
spawns or calls back only when every run is delivered. `ClientInv`: what a client in
`_join_threads` has found out is still so. `RestInv`: an object that is not `_started` is at
rest. `RunInv`: a run that is not delivered is the latest one, and `_redirection_thread` is its
reader or the listening thread is just about to make it. `BoundInv` counts the clients that
are about to start a thread, for the types. `OneRunHolds`, `OutputBeforeCallbackHolds`,
`StopEndsTheRunHolds`.

`Sl4aManagerProofs` holds for any threads (a finite set), ports, sessions and servers; it
assumes `ReporterAssumption` and `ManagerAssumption`.

1. `PortsInv`: the lock is held by the thread that its program counter says, a port chosen
   under it is not taken, and a port is taken once. `HandedOutOnceHolds`: that the device's
   ports were read before the lock does not matter, because the ports taken are read under it.
2. `LiveInv` relates the loop of `terminate_all_sessions` to the sessions that are left.
   `LiveSessionsHold`.
3. `CountInv` and `LimitInv`: the counter is the number of threads that count themselves in
   progress, and reports and writers together are at most the tickets drawn.
   `FinalizedMeansDoneHolds`, `ReportsAreLimitedHolds`.
4. `Purpose` and `Servers`: why a thread looks for a port, and that while no two sessions are
   created at a time every server that is launched is found by the session, or connection, it was
   launched for. `OneServerHolds`.

`SshConnectionProofs` holds for any threads, attempts, masters, ports and tunnels; it assumes
`SshAssumption`.

1. `Sound`, of every thread: the attempts that are left tell how often the command may have been
   executed, at each place of `run` and at each place a cleanup returns to.
   `RunsAtMostAttemptsHolds`.
2. `LockInv`: whoever sets the master up holds the lock, also in the cleanup it calls.
3. `TunnelInv`: a tunnel process is listed once, or in the hands of one thread that has just started it or taken
   it off the list (`Keeps`), never both. What a thread in `close` knows of the list
   is old, but it comes back only from a look at an empty one. `TunnelsAreKeptHolds`, `CloseClosesTunnelsHolds`.
4. `Unmet`, while no cleanup has met another thread: how many masters and directories there are at each
   place of the one thread that works on them (`MasterAt`), and that the others are not
   there; so nobody can have failed for want of one. `OnlyKnownMasterHolds`.

`EventDispatcherProofs` holds for any names, consumers, operations, events, calls
and starts; it assumes the named `ASSUME`s of `EventDispatcher`. A step is first reduced to one
effect on the queues (`StepsHaveEffects`: a queue is made, an event received, stored, taken,
cleared, peeked at, put back) and one on the dictionary (`DictSteps`), and the invariants about
events are shown to be kept by each effect.

1. `Control`: types, `LockInv` (the lock is held exactly in the locked regions), `CallInv` (a consumer
   in the middle of a call has a queue that exists, and the name it is about), `ThreadInv` (what the
   polling thread and the owner know of each other).
2. `HomeInv`: each queue was made for one name, and until the first `close()` it is the one that the
   dictionary has under it. Without it a queue that was replaced could still receive events.
3. `Known` and `Kept`: an event that was received is in a queue, with who took or ignored it, being
   handled, or was asked away. `NothingLostHolds` follows with `HomeInv`.
4. `Apart` and `InOrder`, until the first `close()`: an event is in one place and once, and the queues
   and what was taken are in order, each and after one another. Order alone is not inductive: two places
   of one event could be taken twice. `OldestFirstHolds`.
5. `FreshInv`: between `close()` and `start()` the polling thread is gone and all queues in the
   dictionary are empty. `FreshStartHolds`, stated for `Ops` without `peek`, as in the run
   `DispatcherClose`: a `wait_for_event` that puts back what it ignored can do so after the `close()`.

The second half of `TestRunProofs`, about `LogStream`, holds for any sizes of a run, any subscribers that raise, streams, files and creations; it
assumes the named `ASSUME`s of `TestRun`, `TestContext` and `LogStream`. Each step is reduced to
a move in the run and on the stack (`EveryStepMoves`) and to an effect on the handlers (`StepsHaveEffects`).

1. `StackInv`: the stack is written out for each place of the run. What makes it inductive
   is that a lost context is never found again (`IntactBefore`). `StackIsWhereWeAreHolds`.
2. `FollowInv`, on top of it: the levels that a NewContextEvent names are exactly those whose
   context has changed (`UpdateIsEnough`), also for those of a class when there is no test.
   `HandlersFollowTheRunHolds`.
3. `TidyInv`: the log of a bed has no handler when the next bed makes it, so nothing is left
   for the `cleanup()` that skips handlers to leave open. `NoStaleFilesHolds`.

Model-checked only: liveness (`EveryCallEnds`, `StopReturns`, `StopReturnsUnlessRestarted`, `CloseReturns`,
`TerminateAllReturns`, `RunReturnsUnlessRaised`), which is out of the prover's reach. Every
safety property that a run checks is a theorem. `FreshStartHolds` has the hypothesis that nobody
peeks, and `BusIsConsistentHolds` and `BundleMatchesBusHolds` have `OneRegistrar`.

The inductive invariants were checked by TLC on small instances before they were proved.

## Findings and observations

One run is expected to fail, against a line of the repository (see `findings` in
`PROJECT.json`): `proc_restart_race`. The run `proc_shared` shows that a restart
is the only reason: `StopReturnsUnlessRestarted`.

Other behaviour that the models have and that the passing runs leave out by a
constant, a guard or an exception in the property, because the code does not keep
what it, or a comment, says:

- `rpc_client.py:173` says of `terminate`: "Terminates all connections to the SL4A
  server." It adds the two lists up without the lock (line 179); a connection that
  has been popped at line 201 and not yet appended at 202, or is being created, is in
  neither and is never closed: its port stays forwarded.
- `base_test.py:162-164` says of the failure limit: "Number of consecutive test
  failures to allow before blocking remaining tests in the same test class."
  `_setup_test` compares with `==` (line 361), and the test it blocks is itself
  counted by `_on_fail` (line 393): the tests after the blocked one run.
- `monsoon_lib/api/monsoon.py:221-222` says that `measure_power` returns "A MonsoonData
  object with the measured power data." If the last sample collected is one of
  calibration, `SampleChunker` flushes an empty chunk (`hvpm/transformers.py:268`),
  `CalibrationApplier` raises on it (line 454), the aggregator gets no END, and
  nothing returns. `RunReturnsUnlessRaised` excepts it.
- `rpc_client.py:288-295`: a timed-out connection is closed before it is removed
  from the working list; if `close()` raises, its slot is lost (`CloseRaises`).
  The same when `json.dumps` raises at line 255, after the connection was taken
  at 249 and before the `try`. `EveryCallEnds` then fails, as it does with
  `terminate`.
- `process.py:207-208` says that the terminate callback is not called by
  `stop()`; `stop()` can set `_stopped` after line 261 has tested it. And
  `_stopped` of an earlier `stop()` is reset (line 133) only after the new
  listening thread runs, so a command that ends at once counts as stopped.
- `process.py:118, 178`: the flags are tested and then set, without a lock. When two threads
  pass a test together, two in `start()`, or one in `stop()` while another is at the end of
  another `stop()` or the beginning of `start()`, the later of them joins and forgets the listening thread of
  a newer run, the next `stop()` returns with that run alive, and the next `start()` adds a
  second one. The thread of a `start()` may find that another has set `_process` to None, and dies at line
  259 (`LoopFindsNone`). `crossed` excepts what follows. A `stop()` after a `start()` that gave up while Popen
  was slow may wait for ever.
- `base_test.py:831-836`: `abort_all` out of `teardown_class` loses the results of the
  class, or has those mobly's `_teardown_class` gave it, and `test_runner.py:228` then raises AttributeError.
  Anything else that `teardown_class` raises becomes an error of the class and fails the bed.
  An `abort_all` in `setup_class` only blocks the class.
- `act.py:56`: a bed that ended by `abort_all` counts as one that passed, whatever its
  records say; line 48 promises "True if all tests passed without any error, False otherwise."
  A bed that crashed returns None, and the `and` of line 109
  with the test for `False` at line 228 masks the failed beds after it.
  `FailedBedFailsRun` states both as they are.
- `base_test.py:747`: an `on_skip` that raises while tests are blocked restarts the blocking, so
  tests are recorded twice, or leaves `run` without `teardown_class`; hence `skipRaised` in
  `OneRecordPerTest` and `ClassesAreTornDown`. `CounterTracksRecords` excepts every procedure
  that raises (`~hooked`): what `on_pass` raises spoils a result that has reset the counter.
- `event_dispatcher.py:109`: the log call takes `__name__` of the tuple stored at
  line 145, so the first event with a handler ends the polling thread before the
  handler is called (lines 77-78 promise the call). `_started` stays True after
  that and after any other error (79 against 85).
- `event_dispatcher.py:355` reads the dictionary after the lock is released:
  KeyError if `close()` has cleared it.
- `event_dispatcher.py:270, 277` put the events that were looked at back at the tail; a predicate
  that raises (line 268) loses them.
- `event_dispatcher.py:175` waits for threads of `handle_event`, which may pop
  without a timeout: `CloseReturns` shows that it hangs only for one of those, of the executor that the last `start`
  made. Called from the polling thread (line 91) `close()` dies of joining itself, leaving the
  queues as they were.
- `context.py:103-107`: a class context stays on the stack when `teardown_class` or
  `on_skip` raises `abort_all` past it, and log files of the next bed are then put
  in the directories of the level above. Subscribers of `TestClassBeginEvent` come before the
  context's own, which subscribes to the base type: when one raises, the context is never
  pushed and the class end pops the root; when the stack is empty the next runner
  cannot be made and act.py exits with 1 (`NoNextBed`). With one that raises on
  `TestClassEndEvent` the context is never popped.
- `log_stream.py:434` says of `cleanup`: "Removes all LogHandlers from the logger." It
  iterates over the list it removes from, so with the null handler first every
  other file handler stays and goes on writing; `log_stream_test.py:367-379` has two
  handlers only. `NoStaleFiles` is about one file, or the log of a bed.
- `event_bus.py:116`: a post that meets a registration of the same type may skip
  subscribers or, for a removal, call one twice or miss its neighbour; one that was unregistered
  is still called from the collected list. `UndisturbedAreFound` is about lists
  that nobody touched. Two threads in `register()` of one bundle both register everything.
- `subscription_bundle.py:66` tests before the lock: `remove_subscription` raises
  KeyError instead of returning False (`RemoveFails`). `event_bus.py:144-145` would do the same when
  two threads unregister one id.
- `connection.py:276`: what the retry returns is dropped, and the call raises although
  the command has run and answered; lines 174-177 promise "Number of attempts before giving up" and
  "Returns: a job.Result object". That an answer means one execution holds for that reason only, and
  is no property here.
- `connection.py:311`: a cleanup after a failed command, or `close`, takes no lock. Against
  another thread it ends in AttributeError (also at line 114) or FileNotFoundError, waits for a master that
  is alive, leaks a master or a directory, or leaves a process without a directory,
  after which every `run` raises until `close`. `overlapped` excepts it.
- `connection.py:345-348`: a tunnel asked for at a given local port is answered by
  another's local port if it leads to the same remote port. Between lines 384 and 389 the
  index may become that of another tunnel, which is then closed, or of none (IndexError, as at
  line 309).
- `connection.py:366-369, 389-391`: a tunnel's process that is not yet, or no longer, on the list is seen by no
  `close()`: one that was started before it can be alive, and is then listed, after it.
- `sl4a_manager.py:216`: `_started` is set before the check that SL4A is installed, so
  the second call goes on without it. A second thread sees it set and has its server killed
  by the first's `kill -9` (line 227). Two first sessions at a time get a server each;
  a connection of a session that is no longer managed launches another.
- `sl4a_manager.py:295-297`: a session that is registered while all are terminated ends
  the loop with RuntimeError, or is forgotten alive.
- `sl4a_manager.py:306`: the loop that waits for the servers to close takes their ports, so it ends
  after as many rounds as there are ports, closed or not; after line 314 a port that is
  about to close may be handed out again.
- `error_reporter.py:70, 86`: a lost update leaves the counter above zero, and
  `finalize_reports` waits for ever, or below, and it returns early. `torn` excepts
  both. `_accept_requests` is never set again: no reports after the first
  `terminate_all_sessions`.
- A USB read that times out (`hvpm/transformers.py:142`) leaves a None in the
  buffer; `Packet(None)` raises in the reader and the measurement hangs, like
  after any exception in a node. `sampling_faults` checks that nothing else can
  make it hang.

## Not modelled

Ports on the host, and the event dispatcher of a session (the dispatcher is a model of
its own). In `TestRun`: test selection, generated tests, controllers, campaign
iterations, SIGTERM. In `EventDispatcher`: `register_handler` (only before `start`) and patterns
other than one that matches all names. In `SubscriptionBundle`: subscribers that call the bus,
`listen_for`, `unregister_all`, decorators. In `SshConnection`: `send_file`, `pull_file`,
`find_free_port`, which are commands. In `LogStream`: levels, rotation, the validation of
styles. In `Sampling`: the numbers, the dropped count, `DownSampler`, `Tee`, LVPM. Most of the
repository's lines are device services, instruments, test scripts and their
utilities (`src/acts_tests`, `anritsu_lib`, `ap_lib`): pure functions or
sequences of commands to equipment with neither concurrency nor lasting state of their own,
whose correctness is that of the equipment's answers.

## Plan

1. *Done*: the modules above, and the proofs listed under "What is proved".
2. *Next, modules*: `DownSampler` (against a reference mean), the `usb` channel of the Monsoon
   with its reconnection, the session that owns an RPC client and a dispatcher.
3. *Next, proofs*: `FreshStart` for a `wait_for_event` that puts nothing back after a `close()`; what
   holds of a bundle with two registrars.
4. *Abstract specifications worth stating*: a FIFO per name that `EventDispatcher`
   implements without peeks; a sequence of samples that `Sampling` filters.
