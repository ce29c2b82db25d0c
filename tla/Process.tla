------------------------------- MODULE Process -------------------------------
(***************************************************************************)
(* acts/libs/proc/process.py: an object that runs a command, hands its     *)
(* output to a callback, and asks another callback, when the command ends  *)
(* by itself, for a command to run next.  logcat and tcpdump run under it. *)
(*                                                                         *)
(* Three kinds of threads share the object without a lock: the clients     *)
(* that call start(), stop() and wait(); the listening thread of each      *)
(* start(), which runs _exec_loop; and one thread per run of the command,  *)
(* which runs _redirect_output.  An action is one access to the shared     *)
(* fields, together with the thread-local work around it.                  *)
(*                                                                         *)
(* A run of the command is a number, its Popen object and its redirection  *)
(* thread have the same one; so have a call of start() and its listening   *)
(* thread.  0 is Python's None.                                            *)
(***************************************************************************)
EXTENDS Naturals, FiniteSets

CONSTANTS
    Clients,      \* threads that stop the Process object or wait for it
    Starters,     \* those of them that also start it
    MaxStarts,    \* bound: successful entries into start()
    MaxRestarts,  \* bound: times the callback asks for another run
    MaxStops,     \* bound: calls of stop() or wait() per client
    SpawnMayFail  \* environment: Popen may raise, or take more than a second

ASSUME StartersAssumption == Starters \subseteq Clients /\ IsFiniteSet(Clients)
ASSUME StartsAssumption == MaxStarts \in Nat \ {0}
ASSUME RestartsAssumption == MaxRestarts \in Nat
ASSUME StopsAssumption == MaxStops \in Nat
ASSUME SpawnAssumption == SpawnMayFail \in BOOLEAN

VARIABLES
    started, stopped,          \* _started, _stopped
    process,                   \* _process: the latest run
    listening, redirection,    \* _listening_thread, _redirection_thread
    cpc, target, stops,        \* clients: program counter, local, calls made
    lpc, waited,               \* listening threads: program counter, local
    starts, restarts,          \* counters for the bounds
    run, unread, reader,       \* the runs: their state, output and reader
    crossed                    \* history: two clients were Inside at once

objVars    == <<started, stopped, process, listening, redirection>>
clientVars == <<cpc, target, stops>>
loopVars   == <<lpc, waited, starts, restarts>>
runVars    == <<run, unread, reader>>
vars       == <<objVars, clientVars, loopVars, runVars, crossed>>

Loops == 1..MaxStarts
Runs  == 1..(MaxStarts + MaxRestarts)

\* Where a client is inside wait() having set _stopped.
Stopping == {"load", "wait", "kill", "findLoop", "joinLoop", "findReader",
             "joinReader", "finish"}
ClientPCs == {"idle", "begin", "spin", "clear", "mark"} \cup Stopping
LoopPCs   == {"unborn", "spawn", "redirect", "wait", "check", "drain",
              "callback", "ended"}
RunStates == {"unborn", "running", "dead", "reaped"}
Exited(r) == run[r] \in {"dead", "reaped"}
Readers   == {"unborn", "reading", "ended"}

Init ==
    /\ started = FALSE /\ stopped = FALSE
    /\ process = 0 /\ listening = 0 /\ redirection = 0
    /\ cpc = [c \in Clients |-> "idle"]
    /\ target = [c \in Clients |-> 0]
    /\ stops = [c \in Clients |-> 0]
    /\ lpc = [l \in Loops |-> "unborn"]
    /\ waited = [l \in Loops |-> 0]
    /\ starts = 0 /\ restarts = 0
    /\ run = [r \in Runs |-> "unborn"]
    /\ unread = [r \in Runs |-> FALSE]
    /\ reader = [r \in Runs |-> "unborn"]
    /\ crossed = FALSE

\* A client that has passed the test of a flag and has still to do what the
\* test guards: start() until it has set its fields, wait() to its end.  The
\* flags are not set by the test, so two clients may be Inside at once.
Inside(c) == cpc[c] \in {"begin", "mark"} \cup Stopping
Crossing == \E c, d \in Clients : c # d /\ Inside(c) /\ Inside(d)
Noted == crossed' = (crossed \/ Crossing')

\* The runs of the command so far.
Spawned == Cardinality({r \in Runs : run[r] # "unborn"})

CGoto(c, label) == cpc' = [cpc EXCEPT ![c] = label]
LGoto(l, label) == lpc' = [lpc EXCEPT ![l] = label]

------------------------------------------------------------------------------
(* start() *)

\* Mutant: start() does not look at _started.
StartCheckAlways(c) ==
    /\ cpc[c] = "idle"
    /\ c \in Starters
    /\ starts < MaxStarts
    /\ CGoto(c, "begin")
    /\ UNCHANGED <<objVars, target, stops, loopVars, runVars>>

\* `if self._started: raise`; the flag is set by the next step.
StartCheck(c) ==
    /\ cpc[c] = "idle"
    /\ c \in Starters
    /\ ~started
    /\ starts + Cardinality({d \in Clients : cpc[d] = "begin"}) < MaxStarts
    /\ CGoto(c, "begin")
    /\ UNCHANGED <<objVars, target, stops, loopVars, runVars>>

StartThread(c) ==
    /\ cpc[c] = "begin"
    /\ starts' = starts + 1
    /\ started' = TRUE
    /\ process' = 0
    /\ listening' = starts'
    /\ LGoto(starts', "spawn")
    /\ CGoto(c, "spin")
    /\ UNCHANGED <<stopped, redirection, target, stops, waited, restarts, runVars>>

StartSeesProcess(c) ==
    /\ cpc[c] = "spin"
    /\ process # 0
    /\ CGoto(c, "clear")
    /\ UNCHANGED <<objVars, target, stops, loopVars, runVars>>

\* A second has passed without a process: OSError, and _started stays set.
StartGivesUp(c) ==
    /\ cpc[c] = "spin"
    /\ process = 0
    /\ SpawnMayFail
    /\ CGoto(c, "idle")
    /\ UNCHANGED <<objVars, target, stops, loopVars, runVars>>

\* The last statement: whatever _stopped was, it is cleared now.
StartClears(c) ==
    /\ cpc[c] = "clear"
    /\ stopped' = FALSE
    /\ CGoto(c, "idle")
    /\ UNCHANGED <<started, process, listening, redirection, target, stops,
                   loopVars, runVars>>

------------------------------------------------------------------------------
(* wait(kill_timeout), and stop(), which is wait(0) *)

\* `if self._stopped: raise`; the flag is set by the next step.  Clients stop
\* a process that somebody has started.
StopCheck(c) ==
    /\ cpc[c] = "idle"
    /\ starts > 0
    /\ stops[c] < MaxStops
    /\ ~stopped
    /\ stops' = [stops EXCEPT ![c] = @ + 1]
    /\ CGoto(c, "mark")
    /\ UNCHANGED <<objVars, target, loopVars, runVars>>

StopMarks(c) ==
    /\ cpc[c] = "mark"
    /\ stopped' = TRUE
    /\ CGoto(c, "load")
    /\ UNCHANGED <<started, process, listening, redirection, target, stops,
                   loopVars, runVars>>

\* `self._process.wait`: AttributeError, and on to the finally, if None.
StopLoads(c) ==
    /\ cpc[c] = "load"
    /\ target' = [target EXCEPT ![c] = process]
    /\ CGoto(c, IF process = 0 THEN "findLoop" ELSE "wait")
    /\ UNCHANGED <<objVars, stops, loopVars, runVars>>

\* The run whose Popen was loaded has ended; the wait reaps it.
StopSeesExit(c) ==
    /\ cpc[c] = "wait"
    /\ Exited(target[c])
    /\ run' = [run EXCEPT ![target[c]] = "reaped"]
    /\ CGoto(c, "findLoop")
    /\ UNCHANGED <<objVars, target, stops, loopVars, unread, reader>>

\* Mutant: the command that does not end in time is not killed.
StopTimesOutIdly(c) ==
    /\ cpc[c] = "wait"
    /\ run[target[c]] = "running"
    /\ CGoto(c, "findLoop")
    /\ UNCHANGED <<objVars, target, stops, loopVars, runVars>>

StopTimesOut(c) ==
    /\ cpc[c] = "wait"
    /\ run[target[c]] = "running"
    /\ CGoto(c, "kill")
    /\ UNCHANGED <<objVars, target, stops, loopVars, runVars>>

\* getpgid and killpg on what _process is by now; ProcessLookupError, or
\* AttributeError on None, is raised after the finally.
StopKills(c) ==
    /\ cpc[c] = "kill"
    /\ run' = [r \in Runs |-> IF r = process /\ run[r] = "running"
                                THEN "dead" ELSE run[r]]
    /\ CGoto(c, "findLoop")
    /\ UNCHANGED <<objVars, target, stops, loopVars, unread, reader>>

\* Mutant: the listening thread is not joined.
StopSkipsLoop(c) ==
    /\ cpc[c] = "findLoop"
    /\ CGoto(c, "findReader")
    /\ UNCHANGED <<objVars, target, stops, loopVars, runVars>>

\* _join_threads: a thread is looked up, joined, and forgotten.
StopFindsLoop(c) ==
    /\ cpc[c] = "findLoop"
    /\ target' = [target EXCEPT ![c] = listening]
    /\ CGoto(c, IF listening = 0 THEN "findReader" ELSE "joinLoop")
    /\ UNCHANGED <<objVars, stops, loopVars, runVars>>

StopJoinsLoop(c) ==
    /\ cpc[c] = "joinLoop"
    /\ lpc[target[c]] = "ended"
    /\ listening' = 0
    /\ CGoto(c, "findReader")
    /\ UNCHANGED <<started, stopped, process, redirection, target, stops,
                   loopVars, runVars>>

StopFindsReader(c) ==
    /\ cpc[c] = "findReader"
    /\ target' = [target EXCEPT ![c] = redirection]
    /\ CGoto(c, IF redirection = 0 THEN "finish" ELSE "joinReader")
    /\ UNCHANGED <<objVars, stops, loopVars, runVars>>

StopJoinsReader(c) ==
    /\ cpc[c] = "joinReader"
    /\ reader[target[c]] = "ended"
    /\ redirection' = 0
    /\ CGoto(c, "finish")
    /\ UNCHANGED <<started, stopped, process, listening, target, stops,
                   loopVars, runVars>>

StopFinishes(c) ==
    /\ cpc[c] = "finish"
    /\ started' = FALSE
    /\ target' = [target EXCEPT ![c] = 0]
    /\ CGoto(c, "idle")
    /\ UNCHANGED <<stopped, process, listening, redirection, stops,
                   loopVars, runVars>>

------------------------------------------------------------------------------
(* _exec_loop *)

\* Runs are numbered in the order they are made.
FreshRun(r) == run[r] = "unborn" /\ \A q \in Runs : q < r => run[q] # "unborn"

LoopSpawns(l) ==
    /\ lpc[l] = "spawn"
    /\ \E r \in Runs :
         /\ FreshRun(r)
         /\ run' = [run EXCEPT ![r] = "running"]
         /\ process' = r
    /\ LGoto(l, "redirect")
    /\ UNCHANGED <<started, stopped, listening, redirection, clientVars,
                   waited, starts, restarts, unread, reader>>

\* Popen raises: the listening thread dies of it.
LoopCannotSpawn(l) ==
    /\ lpc[l] = "spawn"
    /\ SpawnMayFail
    /\ LGoto(l, "ended")
    /\ UNCHANGED <<objVars, clientVars, waited, starts, restarts, runVars>>

\* The redirection thread starts; the Popen to wait for is looked up.
LoopRedirects(l) ==
    /\ lpc[l] = "redirect"
    /\ process # 0
    /\ redirection' = process
    /\ reader' = [reader EXCEPT ![process] = "reading"]
    /\ waited' = [waited EXCEPT ![l] = process]
    /\ LGoto(l, "wait")
    /\ UNCHANGED <<started, stopped, process, listening, clientVars, starts,
                   restarts, run, unread>>

\* Another start() has just forgotten the Popen: the redirection thread is
\* made and started, the lookup of None.wait kills the listening thread.
LoopFindsNone(l) ==
    /\ lpc[l] = "redirect"
    /\ process = 0
    /\ \E r \in Runs :
         /\ run[r] # "unborn" /\ reader[r] = "unborn"
         /\ redirection' = r
         /\ reader' = [reader EXCEPT ![r] = "reading"]
    /\ LGoto(l, "ended")
    /\ UNCHANGED <<started, stopped, process, listening, clientVars, waited,
                   starts, restarts, run, unread>>

LoopSeesExit(l) ==
    /\ lpc[l] = "wait"
    /\ Exited(waited[l])
    /\ run' = [run EXCEPT ![waited[l]] = "reaped"]
    /\ waited' = [waited EXCEPT ![l] = 0]
    /\ LGoto(l, "check")
    /\ UNCHANGED <<objVars, clientVars, starts, restarts, unread, reader>>

LoopChecks(l) ==
    /\ lpc[l] = "check"
    /\ LGoto(l, IF stopped THEN "ended" ELSE "drain")
    /\ UNCHANGED <<objVars, clientVars, waited, starts, restarts, runVars>>

\* Mutant: the redirection thread is not joined.
LoopDrainsNot(l) ==
    /\ lpc[l] = "drain"
    /\ LGoto(l, "callback")
    /\ UNCHANGED <<objVars, clientVars, waited, starts, restarts, runVars>>

\* All output is delivered, then _on_terminate_callback is called.
LoopDrains(l) ==
    /\ lpc[l] = "drain"
    /\ IF redirection = 0 THEN LGoto(l, "ended")
         ELSE reader[redirection] = "ended" /\ LGoto(l, "callback")
    /\ UNCHANGED <<objVars, clientVars, waited, starts, restarts, runVars>>

LoopRestarts(l) ==
    /\ lpc[l] = "callback"
    /\ restarts < MaxRestarts
    /\ restarts' = restarts + 1
    /\ LGoto(l, "spawn")
    /\ UNCHANGED <<objVars, clientVars, waited, starts, runVars>>

LoopGivesUp(l) ==
    /\ lpc[l] = "callback"
    /\ LGoto(l, "ended")
    /\ UNCHANGED <<objVars, clientVars, waited, starts, restarts, runVars>>

------------------------------------------------------------------------------
(* _redirect_output reads from self._process, whatever that is by then *)

ReadLine(r) ==
    /\ reader[r] = "reading"
    /\ process # 0
    /\ unread[process]
    /\ unread' = [unread EXCEPT ![process] = FALSE]
    /\ UNCHANGED <<objVars, clientVars, loopVars, run, reader>>

ReadEnds(r) ==
    /\ reader[r] = "reading"
    /\ process # 0 => Exited(process) /\ ~unread[process]
    /\ reader' = [reader EXCEPT ![r] = "ended"]
    /\ UNCHANGED <<objVars, clientVars, loopVars, run, unread>>

(* The command: it may write and it may end, but it does not have to. *)

Writes(r) ==
    /\ run[r] = "running"
    /\ ~unread[r]
    /\ unread' = [unread EXCEPT ![r] = TRUE]
    /\ UNCHANGED <<objVars, clientVars, loopVars, run, reader>>

Exits(r) ==
    /\ run[r] = "running"
    /\ run' = [run EXCEPT ![r] = "dead"]
    /\ UNCHANGED <<objVars, clientVars, loopVars, unread, reader>>

------------------------------------------------------------------------------
Starting(c) == StartThread(c) \/ StartSeesProcess(c) \/ StartGivesUp(c) \/ StartClears(c)

StopStep(c) ==
    \/ StopMarks(c) \/ StopLoads(c) \/ StopSeesExit(c) \/ StopTimesOut(c)
    \/ StopKills(c) \/ StopFindsLoop(c) \/ StopJoinsLoop(c)
    \/ StopFindsReader(c) \/ StopJoinsReader(c) \/ StopFinishes(c)

LoopStep(l) ==
    \/ LoopSpawns(l) \/ LoopCannotSpawn(l) \/ LoopRedirects(l) \/ LoopFindsNone(l)
    \/ LoopSeesExit(l) \/ LoopChecks(l) \/ LoopDrains(l)
    \/ LoopRestarts(l) \/ LoopGivesUp(l)

ReaderStep(r) == ReadLine(r) \/ ReadEnds(r)

Next ==
    /\ \/ \E c \in Clients : StartCheck(c) \/ Starting(c) \/ StopCheck(c) \/ StopStep(c)
       \/ \E l \in Loops : LoopStep(l)
       \/ \E r \in Runs : ReaderStep(r) \/ Writes(r) \/ Exits(r)
    /\ Noted

Spec == Init /\ [][Next]_vars

(* Threads that can run do run.  The command may run for ever, a client    *)
(* need not call anything.                                                 *)
Fairness ==
    /\ \A c \in Clients : WF_vars(Starting(c) /\ Noted) /\ WF_vars(StopStep(c) /\ Noted)
    /\ \A l \in Loops : WF_vars(LoopStep(l) /\ Noted)
    /\ \A r \in Runs : WF_vars(ReaderStep(r) /\ Noted)

FairSpec == Spec /\ Fairness

------------------------------------------------------------------------------
(* Properties *)

TypeOK ==
    /\ started \in BOOLEAN /\ stopped \in BOOLEAN
    /\ process \in {0} \cup Runs
    /\ listening \in {0} \cup Loops /\ redirection \in {0} \cup Runs
    /\ cpc \in [Clients -> ClientPCs]
    /\ target \in [Clients -> {0} \cup Loops \cup Runs]
    /\ stops \in [Clients -> 0..MaxStops]
    /\ lpc \in [Loops -> LoopPCs]
    /\ waited \in [Loops -> {0} \cup Runs]
    /\ starts \in 0..MaxStarts /\ restarts \in 0..MaxRestarts
    /\ run \in [Runs -> RunStates]
    /\ unread \in [Runs -> BOOLEAN]
    /\ reader \in [Runs -> Readers]
    /\ crossed \in BOOLEAN
    /\ \A c \in Clients :
         /\ cpc[c] \in {"wait", "joinReader"} => target[c] \in Runs
         /\ cpc[c] = "joinLoop" => target[c] \in Loops
    /\ \A l \in Loops : lpc[l] = "wait" => waited[l] \in Runs

\* One Process object never has two copies of its command running, however
\* often it is started, stopped and restarted by its callback, as long as no
\* two clients are past the tests of start() and wait() together: _started and
\* _stopped exclude nobody between a test and the assignment that follows it.
OneRun ==
    ~crossed =>
      \A q, r \in Runs : run[q] = "running" /\ run[r] = "running" => q = r

\* A run has ended and every line of it has reached the output callback.
Delivered(r) == Exited(r) /\ ~unread[r] /\ reader[r] = "ended"
Born(r) == run[r] # "unborn"

\* The callback that may restart the command is only asked once every line of
\* the run that ended has reached the output callback (logcat resumes from
\* the last time stamp that was read), under the same condition.
OutputBeforeCallback ==
    \A l \in Loops : ~crossed /\ lpc[l] = "callback" =>
      \A r \in Runs : Born(r) => Delivered(r)

\* When stop() or wait() comes back nothing of the object runs any more: no
\* listening thread that could restart the command, no command, no reader and
\* no output still to come, under the same condition.
StopEndsTheRun ==
    [][\A c \in Clients : ~crossed /\ cpc[c] = "finish" /\ cpc'[c] = "idle" =>
         /\ \A l \in Loops : lpc[l] \in {"unborn", "ended"}
         /\ \A r \in Runs : Born(r) => Delivered(r)]_vars

\* stop() and wait() come back, also when the command would run for ever ...
StopReturns ==
    \A c \in Clients : cpc[c] \in Stopping ~> cpc[c] = "idle"

\* ... which holds of the code as long as no further run of the command is
\* started after they have looked for the one to stop.
StopReturnsUnlessRestarted ==
    \A c \in Clients : \A n \in 0..Cardinality(Runs) :
      cpc[c] = "load" /\ Spawned = n ~> cpc[c] = "idle" \/ Spawned > n
==============================================================================
