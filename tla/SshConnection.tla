---------------------------- MODULE SshConnection ----------------------------
(***************************************************************************)
(* controllers/utils_lib/ssh/connection.py: threads that run commands, make*)
(* and close tunnels on one SshConnection, and close it.  run() goes       *)
(* through a master connection, which it starts when it is missing or      *)
(* down, under a lock.  The cleanup of the master, which a failed command  *)
(* and close() call without the lock, kills it and removes its directory.  *)
(*                                                                         *)
(* A step is what a thread does between two uses of _master_ssh_proc,      *)
(* _master_ssh_tempdir or _tunnels.  Masters and their directories are     *)
(* numbered in the order in which they are made; None is Python's.         *)
(***************************************************************************)
EXTENDS Integers, SequencesExt, FiniteSetsExt

CONSTANTS
    Threads,
    Attempts,     \* the argument `attempts` of run
    Ops,          \* what threads call: "run", "tunnel", "tunnelAt",
                  \* "closeTunnel", "close"
    Ports,        \* local ports
    Remotes,      \* remote ports of tunnels
    MaxMasters,   \* bound: directories made for a master
    MaxTunnels,   \* bound: tunnel processes started
    MaxCalls      \* bound: calls of all threads

None == 0

ASSUME SshAssumption ==
    /\ None \notin Threads /\ Attempts \in Nat \ {0}
    /\ MaxMasters \in Nat /\ MaxTunnels \in Nat /\ MaxCalls \in Nat

VARIABLES
    lock,           \* the thread that holds _lock
    proc, tempdir,  \* _master_ssh_proc, _master_ssh_tempdir
    made,           \* directories made so far
    alive,          \* masters whose process exists
    dirs, sockets,  \* directories that exist, those with the master's socket
    tunnels,        \* _tunnels
    tunnelProcs,    \* tunnel processes that exist
    started,        \* tunnel processes started so far
    pc,             \* threads: where
    frame,          \* threads: the locals of the call
    outcome,        \* threads: how the last call ended
    executed,       \* history: how often the remote host ran the command
    calls,          \* counter for the bound
    overlapped      \* history: a cleanup met another thread at the master

master  == <<proc, tempdir, made, alive, dirs, sockets>>
tunnel  == <<tunnels, tunnelProcs, started>>
thread  == <<pc, frame, outcome, executed, calls>>
vars    == <<lock, master, tunnel, thread, overlapped>>

\* Where a cleanup or the close of a tunnel returns to, the rest of the attempts,
\* dns_retry_count, the ports of a tunnel, the index at which it is looked for;
\* and what was got: the directory of a socket_path, or a tunnel process.
Frame(after, attempts, dns, local, remote) ==
    [after |-> after, attempts |-> attempts, dns |-> dns, local |-> local,
     remote |-> remote, index |-> 0, got |-> 0]
Empty == Frame("idle", 0, 0, None, None)
Tunnel(local, remote) == Frame("idle", 0, 0, local, remote)

Init ==
    /\ lock = None /\ proc = None /\ tempdir = None /\ made = 0
    /\ alive = {} /\ dirs = {} /\ sockets = {}
    /\ tunnels = <<>> /\ tunnelProcs = {} /\ started = 0
    /\ pc = [t \in Threads |-> "idle"]
    /\ frame = [t \in Threads |-> Empty]
    /\ outcome = [t \in Threads |-> "none"]
    /\ executed = [t \in Threads |-> 0] /\ calls = 0
    /\ overlapped = FALSE

Begin(t, op) ==
    /\ op \in Ops /\ pc[t] = "idle"
    /\ calls < MaxCalls
    /\ calls' = calls + 1
    /\ outcome' = [outcome EXCEPT ![t] = "none"]
    /\ executed' = [executed EXCEPT ![t] = 0]
    /\ UNCHANGED <<lock, master, tunnel>>

\* The call goes on at a label; and then it returns there from the cleanup.
Goto(t, label) ==
    /\ pc' = [pc EXCEPT ![t] = label]
    /\ UNCHANGED <<lock, frame, outcome>>
CleanUp(t, label) ==
    /\ pc' = [pc EXCEPT ![t] = "clean"]
    /\ frame' = [frame EXCEPT ![t].after = label]
    /\ UNCHANGED <<lock, outcome>>

\* The call ends, and the lock is left if it is held.
End(t, how) ==
    /\ pc' = [pc EXCEPT ![t] = "idle"]
    /\ frame' = [frame EXCEPT ![t] = Empty]
    /\ outcome' = [outcome EXCEPT ![t] = how]
    /\ lock' = IF lock = t THEN None ELSE lock

\* setup_master_ssh is over: run() goes on.
Unlock(t) ==
    /\ pc' = [pc EXCEPT ![t] = "read"]
    /\ lock' = None
    /\ UNCHANGED <<frame, outcome>>

------------------------------------------------------------------------------
(* setup_master_ssh *)

CallRun(t) ==
    /\ Begin(t, "run")
    /\ frame' = [frame EXCEPT ![t].attempts = Attempts]
    /\ pc' = [pc EXCEPT ![t] = "setup"]

LockSetup(t) ==
    /\ pc[t] = "setup"
    /\ lock = None
    /\ lock' = t
    /\ pc' = [pc EXCEPT ![t] = "check"]
    /\ UNCHANGED <<master, tunnel, frame, outcome, executed, calls>>

\* `if self._master_ssh_proc is not None`; if it is, it stays so under the lock.
Check(t) ==
    /\ pc[t] = "check"
    /\ Goto(t, IF proc = None THEN "make" ELSE "socket")
    /\ UNCHANGED <<master, tunnel, executed, calls>>

\* socket_path cannot be made of None.
GetSocket(t) ==
    /\ pc[t] = "socket"
    /\ \/ tempdir = None /\ End(t, "NoneError")
       \/ /\ tempdir # None
          /\ frame' = [frame EXCEPT ![t].got = tempdir]
          /\ pc' = [pc EXCEPT ![t] = "exists"]
          /\ UNCHANGED <<lock, outcome>>
    /\ UNCHANGED <<master, tunnel, executed, calls>>

\* Mutant: a master without a socket is forgotten and not cleaned up.
FindSocketForgets(t) ==
    /\ pc[t] = "exists"
    /\ \/ frame[t].got \in sockets /\ Goto(t, "poll")
       \/ frame[t].got \notin sockets /\ Goto(t, "make")
    /\ UNCHANGED <<master, tunnel, executed, calls>>

FindSocket(t) ==
    /\ pc[t] = "exists"
    /\ \/ frame[t].got \in sockets /\ Goto(t, "poll")
       \/ frame[t].got \notin sockets /\ CleanUp(t, "again")
    /\ UNCHANGED <<master, tunnel, executed, calls>>

\* None has no poll().
Poll(t) ==
    /\ pc[t] = "poll"
    /\ \/ proc = None /\ End(t, "NoneError")
       \/ proc # None /\ proc \in alive /\ Goto(t, "again")
       \/ proc # None /\ proc \notin alive /\ CleanUp(t, "again")
    /\ UNCHANGED <<master, tunnel, executed, calls>>

\* `if self._master_ssh_proc is None`
CheckAgain(t) ==
    /\ pc[t] = "again"
    /\ \/ proc = None /\ Goto(t, "make")
       \/ proc # None /\ Unlock(t)
    /\ UNCHANGED <<master, tunnel, executed, calls>>

MakeDir(t) ==
    /\ pc[t] = "make"
    /\ made < MaxMasters
    /\ made' = made + 1
    /\ tempdir' = made' /\ dirs' = dirs \cup {made'}
    /\ Goto(t, "spawn")
    /\ UNCHANGED <<proc, alive, sockets, tunnel, executed, calls>>

Spawn(t) ==
    /\ pc[t] = "spawn"
    /\ \/ tempdir = None /\ End(t, "NoneError") /\ UNCHANGED <<proc, alive>>
       \/ /\ tempdir # None
          /\ proc' = made /\ alive' = alive \cup {made}
          /\ Goto(t, "wait")
    /\ UNCHANGED <<tempdir, made, dirs, sockets, tunnel, executed, calls>>

\* The loop that waits for the socket; at its end the master is cleaned up, and
\* run() goes on without one.
WaitForSocket(t) ==
    /\ pc[t] = "wait"
    /\ \/ tempdir = None /\ End(t, "NoneError")
       \/ tempdir # None /\ tempdir \in sockets /\ Unlock(t)
       \/ tempdir # None /\ tempdir \notin sockets /\ CleanUp(t, "timedOut")
    /\ UNCHANGED <<master, tunnel, executed, calls>>

SetupFails(t) ==
    /\ pc[t] = "timedOut"
    /\ Unlock(t)
    /\ UNCHANGED <<master, tunnel, executed, calls>>

------------------------------------------------------------------------------
(* _cleanup_master_ssh *)

Clean(t) ==
    /\ pc[t] = "clean"
    /\ Goto(t, IF proc # None THEN "kill" ELSE "tree")
    /\ UNCHANGED <<master, tunnel, executed, calls>>

\* Mutant: the process is waited for, and was not killed.
KillNot(t) ==
    /\ pc[t] = "kill"
    /\ Goto(t, "reap")
    /\ UNCHANGED <<master, tunnel, executed, calls>>

Kill(t) ==
    /\ pc[t] = "kill"
    /\ \/ proc = None /\ End(t, "NoneError") /\ UNCHANGED alive
       \/ proc # None /\ Goto(t, "reap") /\ alive' = alive \ {proc}
    /\ UNCHANGED <<proc, tempdir, made, dirs, sockets, tunnel, executed, calls>>

\* Waiting for whatever process is the master by now.
Reap(t) ==
    /\ pc[t] = "reap"
    /\ \/ proc = None /\ End(t, "NoneError")
       \/ proc # None /\ proc \notin alive /\ Goto(t, "forget")
    /\ UNCHANGED <<master, tunnel, executed, calls>>

Forget(t) ==
    /\ pc[t] = "forget"
    /\ proc' = None
    /\ Goto(t, "tree")
    /\ UNCHANGED <<tempdir, made, alive, dirs, sockets, tunnel, executed, calls>>

\* The directory is removed, which fails if it is gone.
RemoveTree(t) ==
    /\ pc[t] = "tree"
    /\ \/ tempdir = None /\ Goto(t, frame[t].after) /\ UNCHANGED <<dirs, sockets>>
       \/ /\ tempdir # None /\ tempdir \notin dirs
          /\ End(t, "NotFound") /\ UNCHANGED <<dirs, sockets>>
       \/ /\ tempdir \in dirs
          /\ dirs' = dirs \ {tempdir} /\ sockets' = sockets \ {tempdir}
          /\ Goto(t, "forgetTree")
    /\ UNCHANGED <<proc, tempdir, made, alive, tunnel, executed, calls>>

ForgetTree(t) ==
    /\ pc[t] = "forgetTree"
    /\ tempdir' = None
    /\ Goto(t, frame[t].after)
    /\ UNCHANGED <<proc, made, alive, dirs, sockets, tunnel, executed, calls>>

------------------------------------------------------------------------------
(* run *)

\* `if self._master_ssh_proc`, and then the path of its socket, for a command
\* (after setup) and for a tunnel.
ReadMaster(t) ==
    /\ pc[t] \in {"read", "readForTunnel"}
    /\ LET job == IF pc[t] = "read" THEN "job" ELSE "startTunnel"
       IN  /\ frame' = [frame EXCEPT ![t] =
                          Frame(job, @.attempts, 2, @.local, @.remote)]
           /\ pc' = [pc EXCEPT ![t] = IF proc # None THEN "path" ELSE job]
    /\ UNCHANGED <<lock, master, tunnel, outcome, executed, calls>>

ReadPath(t) ==
    /\ pc[t] = "path"
    /\ IF tempdir = None THEN End(t, "NoneError") ELSE Goto(t, frame[t].after)
    /\ UNCHANGED <<master, tunnel, executed, calls>>

\* The host ran the command; or nobody knows whether it did.
Executed(t)    == executed' = [executed EXCEPT ![t] = @ + 1]
MayHaveRun(t)  == Executed(t) \/ UNCHANGED executed

\* The answer of the command, with its exit status.  What a retry returns is
\* dropped: the call that it was made from goes on to raise.
JobAnswers(t) ==
    /\ pc[t] = "job"
    /\ Executed(t)
    /\ \/ End(t, IF frame[t].attempts < Attempts THEN "Error" ELSE "answered")
       \/ End(t, "JobError")
    /\ UNCHANGED <<master, tunnel, calls>>

JobTimesOut(t) ==
    /\ pc[t] = "job"
    /\ MayHaveRun(t)
    /\ End(t, "TimeoutError")
    /\ UNCHANGED <<master, tunnel, calls>>

\* The name of the host cannot be resolved: the same command once more.
DnsFails(t) ==
    /\ pc[t] = "job"
    /\ IF frame[t].dns = 1
         THEN End(t, "Error")
         ELSE /\ frame' = [frame EXCEPT ![t].dns = @ - 1]
              /\ UNCHANGED <<lock, pc, outcome>>
    /\ UNCHANGED <<master, tunnel, executed, calls>>

\* The connection is refused, times out, or is not permitted.
JobRefused(t) ==
    /\ pc[t] = "job"
    /\ End(t, "Error")
    /\ UNCHANGED <<master, tunnel, executed, calls>>

\* Mutant: the loop that is there for the name server sends the command again.
JobLostLoops(t) ==
    /\ pc[t] = "job"
    /\ MayHaveRun(t)
    /\ UNCHANGED <<lock, pc, frame, outcome>>
    /\ UNCHANGED <<master, tunnel, calls>>

\* Anything else: the command may have run, and is sent again.
JobLost(t) ==
    /\ pc[t] = "job"
    /\ MayHaveRun(t)
    /\ IF frame[t].attempts > 1 THEN CleanUp(t, "retry") ELSE End(t, "Error")
    /\ UNCHANGED <<master, tunnel, calls>>

Retry(t) ==
    /\ pc[t] = "retry"
    /\ frame' = [frame EXCEPT ![t].attempts = @ - 1]
    /\ pc' = [pc EXCEPT ![t] = "setup"]
    /\ UNCHANGED <<lock, master, tunnel, outcome, executed, calls>>

------------------------------------------------------------------------------
(* create_ssh_tunnel and close_ssh_tunnel *)

\* A port is picked that no other process has.
CallTunnel(t) ==
    /\ Begin(t, "tunnel")
    /\ \E local \in Ports, remote \in Remotes :
         /\ \A i \in DOMAIN tunnels : tunnels[i].local # local
         /\ frame' = [frame EXCEPT ![t] = Tunnel(local, remote)]
    /\ pc' = [pc EXCEPT ![t] = "readForTunnel"]

\* A port is passed: the tunnel that leads to the remote port is used, whatever
\* its local port is, or else one is made at that port.
CallTunnelAt(t) ==
    /\ Begin(t, "tunnelAt")
    /\ \E local \in Ports, remote \in Remotes :
         IF \E i \in DOMAIN tunnels : tunnels[i].remote = remote
           THEN UNCHANGED <<pc, frame>>
           ELSE /\ frame' = [frame EXCEPT ![t] = Tunnel(local, remote)]
                /\ pc' = [pc EXCEPT ![t] = "readForTunnel"]

StartTunnel(t) ==
    /\ pc[t] = "startTunnel"
    /\ started < MaxTunnels
    /\ started' = started + 1
    /\ tunnelProcs' = tunnelProcs \cup {started'}
    /\ frame' = [frame EXCEPT ![t].got = started']
    /\ pc' = [pc EXCEPT ![t] = "list"]
    /\ UNCHANGED <<lock, master, tunnels, outcome, executed, calls>>

ListTunnel(t) ==
    /\ pc[t] = "list"
    /\ tunnels' = Append(tunnels, [local |-> frame[t].local, remote |-> frame[t].remote,
                                   proc |-> frame[t].got])
    /\ End(t, "returned")
    /\ UNCHANGED <<master, tunnelProcs, started, executed, calls>>

\* close_ssh_tunnel(local): the list is searched from its first tunnel on.
Search(t, local) ==
    /\ frame' = [frame EXCEPT ![t].local = local, ![t].index = 1]
    /\ pc' = [pc EXCEPT ![t] = "find"]

CallCloseTunnel(t) ==
    /\ Begin(t, "closeTunnel")
    /\ \E local \in Ports : Search(t, local)

\* close_ssh_tunnel is over, called from close() or not.
Closed(t) == IF frame[t].after = "closing" THEN Goto(t, "closing") ELSE End(t, "returned")

\* One turn of the search, which others may change the list under.
Find(t) ==
    /\ pc[t] = "find"
    /\ LET i == frame[t].index IN
         \/ i \notin DOMAIN tunnels /\ Closed(t)
         \/ /\ i \in DOMAIN tunnels
            /\ IF tunnels[i].local = frame[t].local THEN Goto(t, "pop")
               ELSE /\ frame' = [frame EXCEPT ![t].index = @ + 1]
                    /\ UNCHANGED <<lock, pc, outcome>>
    /\ UNCHANGED <<master, tunnel, executed, calls>>

\* What is at the index by now is taken off the list ...
Pop(t) ==
    /\ pc[t] = "pop"
    /\ LET i == frame[t].index IN
         \/ /\ i \in DOMAIN tunnels
            /\ frame' = [frame EXCEPT ![t].got = tunnels[i].proc]
            /\ tunnels' = RemoveAt(tunnels, i)
            /\ pc' = [pc EXCEPT ![t] = "killTunnel"]
            /\ UNCHANGED <<lock, outcome>>
         \/ i \notin DOMAIN tunnels /\ End(t, "IndexError") /\ UNCHANGED tunnels
    /\ UNCHANGED <<master, tunnelProcs, started, executed, calls>>

\* Mutant: the process is waited for in the background and was not killed.
KillTunnelNot(t) ==
    /\ pc[t] = "killTunnel"
    /\ Closed(t)
    /\ UNCHANGED <<master, tunnel, executed, calls>>

\* ... and its process, which nobody else knows, is killed and waited for.
KillTunnel(t) ==
    /\ pc[t] = "killTunnel"
    /\ tunnelProcs' = tunnelProcs \ {frame[t].got}
    /\ Closed(t)
    /\ UNCHANGED <<master, tunnels, started, executed, calls>>

------------------------------------------------------------------------------
(* close *)

CallClose(t) ==
    /\ Begin(t, "close")
    /\ frame' = [frame EXCEPT ![t].after = "closing"]
    /\ pc' = [pc EXCEPT ![t] = "clean"]

\* Mutant: only the first tunnel is closed.
CloseOneTunnel(t) ==
    /\ pc[t] = "closing"
    /\ \/ (tunnels = <<>> \/ frame[t].index # 0) /\ End(t, "returned")
       \/ tunnels # <<>> /\ frame[t].index = 0 /\ Goto(t, "first")
    /\ UNCHANGED <<master, tunnel, executed, calls>>

\* `while self._tunnels` ...
CloseTunnels(t) ==
    /\ pc[t] = "closing"
    /\ \/ tunnels = <<>> /\ End(t, "returned")
       \/ tunnels # <<>> /\ Goto(t, "first")
    /\ UNCHANGED <<master, tunnel, executed, calls>>

\* ... and the port of the first: IndexError if others have closed them all.
FirstTunnel(t) ==
    /\ pc[t] = "first"
    /\ \/ tunnels = <<>> /\ End(t, "IndexError")
       \/ /\ tunnels # <<>>
          /\ Search(t, tunnels[1].local)
          /\ UNCHANGED <<lock, outcome>>
    /\ UNCHANGED <<master, tunnel, executed, calls>>

------------------------------------------------------------------------------
(* The master process, which ssh runs *)

\* A master that has connected makes its socket.
SocketAppears(p) ==
    /\ p \in alive \cap dirs
    /\ p \notin sockets
    /\ sockets' = sockets \cup {p}
    /\ UNCHANGED <<lock, proc, tempdir, made, alive, dirs, tunnel, thread>>

\* It ends when the connection is lost, with its socket or without.
MasterDies(p) ==
    /\ p \in alive
    /\ alive' = alive \ {p}
    /\ sockets' = sockets \ {p} \/ UNCHANGED sockets
    /\ UNCHANGED <<lock, proc, tempdir, made, dirs, tunnel, thread>>

------------------------------------------------------------------------------
\* A cleanup, and a use of the master, that have looked and not finished.
Cleaning == {"kill", "reap", "forget", "tree", "forgetTree"}
Using    == {"socket", "exists", "poll", "make", "spawn", "wait", "path"}

Overlap == \E t, u \in Threads :
             t # u /\ pc[t] \in Cleaning /\ pc[u] \in Cleaning \cup Using

Call(t) == CallRun(t) \/ CallTunnel(t) \/ CallTunnelAt(t)
           \/ CallCloseTunnel(t) \/ CallClose(t)

Step(t) ==
    \/ LockSetup(t) \/ Check(t) \/ GetSocket(t) \/ FindSocket(t) \/ Poll(t)
    \/ CheckAgain(t) \/ MakeDir(t) \/ Spawn(t) \/ WaitForSocket(t) \/ SetupFails(t)
    \/ Clean(t) \/ Kill(t) \/ Reap(t) \/ Forget(t)
    \/ RemoveTree(t) \/ ForgetTree(t) \/ ReadMaster(t) \/ ReadPath(t)
    \/ JobAnswers(t) \/ JobTimesOut(t) \/ DnsFails(t) \/ JobRefused(t)
    \/ JobLost(t) \/ Retry(t) \/ StartTunnel(t) \/ ListTunnel(t)
    \/ CloseTunnels(t) \/ FirstTunnel(t) \/ Find(t) \/ Pop(t) \/ KillTunnel(t)

Noted == overlapped' = (overlapped \/ Overlap')

Next ==
    /\ \/ \E t \in Threads : Call(t) \/ Step(t)
       \/ \E p \in 1..MaxMasters : SocketAppears(p) \/ MasterDies(p)
    /\ Noted

Spec == Init /\ [][Next]_vars

\* Threads run, a command ends by its timeout, and so does the wait for the
\* socket; that the master connects or dies is not promised.
FairSpec == Spec /\ \A t \in Threads : WF_vars(Step(t) /\ Noted)

------------------------------------------------------------------------------
(* Properties *)

PCs == Cleaning \cup Using \cup
       {"idle", "setup", "check", "again", "timedOut", "clean", "read", "readForTunnel",
        "job", "retry", "startTunnel", "list", "closing", "first", "find", "pop",
        "killTunnel"}

Frames == [after : PCs, attempts : 0..Attempts, dns : 0..2, local : Ports \cup {None},
           remote : Remotes \cup {None}, index : Nat, got : Nat]

Outcomes == {"none", "answered", "returned", "JobError", "TimeoutError", "Error",
             "NoneError", "NotFound", "IndexError"}

MasterTypeOK ==
    /\ made \in 0..MaxMasters /\ proc \in 0..made /\ tempdir \in 0..made
    /\ alive \subseteq 1..made /\ dirs \subseteq 1..made /\ sockets \subseteq 1..made
TunnelTypeOK ==
    /\ started \in 0..MaxTunnels /\ tunnelProcs \subseteq 1..started
    /\ tunnels \in Seq([local : Ports, remote : Remotes, proc : 1..started])
ThreadTypeOK ==
    /\ pc \in [Threads -> PCs] /\ frame \in [Threads -> Frames]
    /\ outcome \in [Threads -> Outcomes] /\ executed \in [Threads -> Nat]
    /\ calls \in 0..MaxCalls

\* The thread is setting the master up, or cleans it up and then goes on to.
SettingUp(t) ==
    \/ pc[t] \in {"check", "socket", "exists", "poll", "again", "make", "spawn", "wait",
                 "timedOut"}
    \/ pc[t] \in Cleaning \cup {"clean"} /\ frame[t].after \in {"again", "timedOut"}

\* Types, and: the lock is held by the thread that sets the master up.
TypeOK ==
    /\ lock \in Threads \cup {None} /\ overlapped \in BOOLEAN
    /\ MasterTypeOK /\ TunnelTypeOK /\ ThreadTypeOK
    /\ \A t \in Threads : SettingUp(t) => lock = t

\* Unless a cleanup has met another thread: no call fails over a master or a
\* directory that vanished while it looked; and whenever nobody is in the middle of
\* setting the master up or of cleaning it up, the connection knows the one master
\* and the one directory there are, or there is none of either.
OnlyKnownMaster ==
    ~overlapped =>
      /\ \A t \in Threads : outcome[t] \notin {"NoneError", "NotFound"}
      /\ (\A t \in Threads : pc[t] \notin Cleaning \cup Using) =>
           /\ alive \subseteq {proc} /\ dirs = {tempdir} \ {None}
           /\ (proc = None) = (tempdir = None)

\* A command is sent again when its answer was lost, but however often the
\* connection is lost, the name is not resolved and the master is set up again, one
\* call makes the host run it at most `attempts` times.
RunsAtMostAttempts == \A t \in Threads : executed[t] <= Attempts

\* The thread has started the process and not listed it, or taken it off the list
\* and not killed it.
Keeps(t, p) == pc[t] \in {"list", "killTunnel"} /\ frame[t].got = p
Listed(p)   == \E i \in DOMAIN tunnels : tunnels[i].proc = p

\* No tunnel process is lost, also where a tunnel is closed in the place of another:
\* one that exists is on the list, once, or one thread has it and no other has.
TunnelsAreKept ==
    /\ \A p \in tunnelProcs : Listed(p) \/ \E t \in Threads : Keeps(t, p)
    /\ \A i, j \in DOMAIN tunnels : tunnels[i].proc = tunnels[j].proc => i = j
    /\ \A t, u \in Threads : \A p \in tunnelProcs :
         Keeps(t, p) => ~Listed(p) /\ (Keeps(u, p) => t = u)

\* When close() comes back, every tunnel process that still exists is in the hands
\* of another thread, which has just started it or is about to kill it.
CloseClosesTunnels ==
    [][\A t \in Threads : pc[t] = "closing" /\ pc'[t] = "idle" =>
         \A p \in tunnelProcs : \E u \in Threads \ {t} : Keeps(u, p)]_vars

\* Every call ends, within the bounds and unless a cleanup meets another thread,
\* which may then wait for a master that nobody kills.
EveryCallEnds ==
    \A t \in Threads :
      pc[t] # "idle" ~> \/ pc[t] = "idle" \/ overlapped
                        \/ made = MaxMasters \/ started = MaxTunnels
==============================================================================
