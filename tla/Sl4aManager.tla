----------------------------- MODULE Sl4aManager -----------------------------
(***************************************************************************)
(* controllers/sl4a_lib/sl4a_manager.py, with what sl4a_session.py does to *)
(* it, and its ErrorReporter: threads that create sessions with one device,*)
(* open more connections of a session and report failures, and one thread, *)
(* Main, that terminates all sessions.                                     *)
(*                                                                         *)
(* On the device a server that was launched listens after a while, on a    *)
(* port of its choice, and one that was told to close goes on listening    *)
(* for a while.  The uids of the sessions are numbered as they are made.   *)
(***************************************************************************)
EXTENDS ErrorReporter, FiniteSetsExt

CONSTANTS
    Main,         \* the thread that terminates
    Callers,      \* the threads that create sessions and connections
    Reporters,    \* the threads whose calls fail
    Ports,        \* ports on the device; 0 stands for "any port"
    Foreign,      \* ports of servers that were there before
    Tries,        \* attempts at finding a port (MAX_WAIT / ATTEMPT_INTERVAL)
    MaxSessions,  \* bound: sessions created
    MaxLaunches,  \* bound: servers launched
    MaxCalls      \* bound: calls of the manager

None == 0

ASSUME ManagerAssumption ==
    /\ Main \in Threads /\ Callers \cup Reporters \subseteq Threads
    /\ None \notin Threads
    /\ Ports \subseteq Nat \ {0} /\ Foreign \subseteq Ports /\ Tries \in Nat \ {0}
    /\ MaxSessions \in Nat /\ MaxLaunches \in Nat /\ MaxCalls \in Nat

VARIABLES
    sl4aPorts,    \* _sl4a_ports
    portLock,     \* the thread that holds _listen_for_port_lock
    started,      \* _started
    sessions,     \* the keys of `sessions`
    created,      \* sessions created so far
    portOf,       \* server_port of each session
    live,         \* sessions that are not terminated
    listening, dying, launching, launched,
                  \* the device: ports, those about to close, servers to come,
                  \* servers launched so far
    pc,           \* threads: where
    frame,        \* threads: the locals of the call
    keys, todo,   \* Main: the sessions when its loop began, and those still to visit
    takes,        \* history: how often each port was taken since the last reset
    crossed,      \* history: two threads created the first session at a time
    raced,        \* history: a session was added while Main terminates
    calls         \* counter for the bound

device  == <<listening, dying, launching, launched>>
manager == <<sl4aPorts, portLock, started, sessions, created, portOf, live, keys, todo>>
history == <<takes, crossed, raced, calls>>
vars    == <<reporterVars, manager, device, pc, frame, history>>

\* What the call is for ("create", "connect" or "close"), its session, the port
\* wished for or found, the ports seen, and the attempts left.
Frame(for, s, p) == [for |-> for, session |-> s, port |-> p, seen |-> {}, tries |-> 0]
Empty == Frame("none", 0, 0)

Init ==
    /\ ReporterInit
    /\ sl4aPorts = {} /\ portLock = None /\ started = FALSE
    /\ sessions = {} /\ created = 0 /\ live = {} /\ keys = {} /\ todo = {}
    /\ portOf = [s \in 1..MaxSessions |-> 0]
    /\ listening = Foreign
    /\ dying = {} /\ launching = 0 /\ launched = 0
    /\ pc = [t \in Threads |-> "idle"] /\ frame = [t \in Threads |-> Empty]
    /\ takes = [p \in Ports |-> 0] /\ crossed = FALSE /\ raced = FALSE
    /\ calls = 0

Goto(t, label) == pc' = [pc EXCEPT ![t] = label] /\ UNCHANGED frame
End(t) == pc' = [pc EXCEPT ![t] = "idle"] /\ frame' = [frame EXCEPT ![t] = Empty]

Begin(t, label) ==
    /\ pc[t] = "idle" /\ epc[t] = "idle"
    /\ calls < MaxCalls /\ calls' = calls + 1
    /\ pc' = [pc EXCEPT ![t] = label]
    /\ UNCHANGED <<reporterVars, device>>

------------------------------------------------------------------------------
(* create_session, and start_sl4a_service *)

Creating == {t \in Threads : frame[t].for = "create" /\ pc[t] # "idle"}

\* Mutant: every session asks for a server of its own.
CallCreateAlone(t) ==
    /\ Begin(t, "service")
    /\ frame' = [frame EXCEPT ![t] = Frame("create", 0, 0)]
    /\ crossed' = (crossed \/ Creating # {})
    /\ UNCHANGED <<manager, takes, raced>>

\* The server of the first session is wished for, if there is one.
CallCreate(t) ==
    /\ Begin(t, "service")
    /\ LET port == IF sessions = {} THEN 0 ELSE portOf[Min(sessions)]
       IN  frame' = [frame EXCEPT ![t] = Frame("create", 0, port)]
    /\ crossed' = (crossed \/ Creating # {})
    /\ UNCHANGED <<manager, takes, raced>>

CheckStarted(t) ==
    /\ pc[t] = "service"
    /\ Goto(t, IF started THEN "obtain" ELSE "mark")
    /\ UNCHANGED <<reporterVars, manager, device, history>>

MarkStarted(t) ==
    /\ pc[t] = "mark"
    /\ started' = TRUE
    /\ Goto(t, "install")
    /\ UNCHANGED <<reporterVars, sl4aPorts, portLock, sessions, created, portOf, live,
                   keys, todo, device, history>>

\* SL4A is not installed, and stays marked as started; or the servers that are
\* there are killed, whoever launched them, and the service is started.
Install(t) ==
    /\ pc[t] = "install"
    /\ \/ End(t) /\ UNCHANGED device
       \/ /\ listening' = {} /\ dying' = {} /\ launching' = 0
          /\ Goto(t, "obtain")
          /\ UNCHANGED launched
    /\ UNCHANGED <<reporterVars, manager, history>>

\* stop_service
StopService ==
    /\ Begin(Main, "idle")
    /\ started' = FALSE
    /\ UNCHANGED <<sl4aPorts, portLock, sessions, created, portOf, live, keys, todo, frame,
                   takes, crossed, raced>>

------------------------------------------------------------------------------
(* obtain_sl4a_server and start_sl4a_server *)

\* The thread of a session, which somebody has been given, opens another
\* connection, at the session's port.
CallConnect(t) ==
    /\ Begin(t, "obtain")
    /\ \E s \in live \ {frame[u].session : u \in Creating} :
         frame' = [frame EXCEPT ![t] = Frame("connect", s, portOf[s])]
    /\ UNCHANGED <<manager, takes, crossed, raced>>

\* The port of a managed session is good enough, else a server is launched.
Obtain(t) ==
    /\ pc[t] = "obtain"
    /\ IF frame[t].port \in {portOf[s] : s \in sessions}
         THEN Goto(t, "connect") /\ UNCHANGED device
         ELSE /\ launched < MaxLaunches
              /\ launched' = launched + 1 /\ launching' = launching + 1
              /\ pc' = [pc EXCEPT ![t] = "readPorts"]
              /\ frame' = [frame EXCEPT ![t].tries = Tries]
              /\ UNCHANGED <<listening, dying>>
    /\ UNCHANGED <<reporterVars, manager, history>>

\* _get_open_listening_port: the ports are read before the lock is taken.
ReadPorts(t) ==
    /\ pc[t] = "readPorts"
    /\ pc' = [pc EXCEPT ![t] = "lockPorts"]
    /\ frame' = [frame EXCEPT ![t].seen = listening]
    /\ UNCHANGED <<reporterVars, manager, device, history>>

\* Mutant: the lock is not taken.
LockPortsNot(t) ==
    /\ pc[t] = "lockPorts"
    /\ Goto(t, "choose")
    /\ UNCHANGED <<reporterVars, manager, device, history>>

LockPorts(t) ==
    /\ pc[t] = "lockPorts"
    /\ portLock = None
    /\ portLock' = t
    /\ Goto(t, "choose")
    /\ UNCHANGED <<reporterVars, sl4aPorts, started, sessions, created, portOf, live, keys, todo,
                   device, history>>

\* Nothing is left of what was seen: another attempt for who wants a port, if
\* there is one left, and the end of the wait for who closes them.
NothingFound(t) ==
    CASE frame[t].for = "close" -> Goto(t, "reset")
      [] frame[t].for # "close" /\ frame[t].tries = 1 -> End(t)
      [] OTHER -> /\ pc' = [pc EXCEPT ![t] = "readPorts"]
                  /\ frame' = [frame EXCEPT ![t].tries = @ - 1]

ChoosePort(t) ==
    /\ pc[t] = "choose"
    /\ \/ /\ frame[t].seen \subseteq sl4aPorts
          /\ NothingFound(t)
          /\ portLock' = None
       \/ /\ \E p \in frame[t].seen \ sl4aPorts : frame' = [frame EXCEPT ![t].port = p]
          /\ pc' = [pc EXCEPT ![t] = "add"]
          /\ UNCHANGED portLock
    /\ UNCHANGED <<reporterVars, sl4aPorts, started, sessions, created, portOf, live, keys, todo,
                   device, history>>

\* The port is taken, also by who waits for it to close; who has waited for long
\* enough takes one more, for the warning.
AddPort(t) ==
    /\ pc[t] = "add"
    /\ sl4aPorts' = sl4aPorts \cup {frame[t].port}
    /\ takes' = [takes EXCEPT ![frame[t].port] = @ + 1]
    /\ portLock' = None
    /\ CASE frame[t].for # "close" ->
              /\ pc' = [pc EXCEPT ![t] = "connect"]
              /\ frame' = [frame EXCEPT ![t] = Frame(@.for, @.session, @.port)]
         [] frame[t].for = "close" /\ frame[t].tries = 0 -> Goto(t, "reset")
         [] OTHER -> /\ pc' = [pc EXCEPT ![t] = "readPorts"]
                     /\ frame' = [frame EXCEPT ![t].tries = @ - 1]
    /\ UNCHANGED <<reporterVars, started, sessions, created, portOf, live, keys, todo, device,
                   crossed, raced, calls>>

\* _create_rpc_connection: the session notes the port, and connects if a server
\* listens there; it may fail otherwise, too.
Connect(t) ==
    LET new == frame[t].for = "create"
        s   == IF new THEN created + 1 ELSE frame[t].session IN
    /\ pc[t] = "connect"
    /\ \/ /\ ~new
          /\ portOf' = [portOf EXCEPT ![s] = frame[t].port]
          /\ End(t)
          /\ UNCHANGED <<created, live>>
       \/ /\ new /\ created < MaxSessions
          /\ frame[t].port \in listening
          /\ created' = s /\ live' = live \cup {s}
          /\ portOf' = [portOf EXCEPT ![s] = frame[t].port]
          /\ pc' = [pc EXCEPT ![t] = "register"]
          /\ frame' = [frame EXCEPT ![t].session = s]
       \/ new /\ End(t) /\ UNCHANGED <<created, live, portOf>>
    /\ UNCHANGED <<reporterVars, sl4aPorts, portLock, started, sessions, keys, todo, device,
                   history>>

Terminating == {"refuse", "finalize", "terminate", "forget"}

Register(t) ==
    /\ pc[t] = "register"
    /\ sessions' = sessions \cup {frame[t].session}
    /\ raced' = (raced \/ pc[Main] \in Terminating)
    /\ End(t)
    /\ UNCHANGED <<reporterVars, sl4aPorts, portLock, started, created, portOf, live, keys, todo,
                   device, takes, crossed, calls>>

------------------------------------------------------------------------------
(* terminate_all_sessions and _close_all_ports *)

CallTerminateAll ==
    /\ Begin(Main, "refuse")
    /\ UNCHANGED <<manager, frame, takes, crossed, raced>>

RefuseReports ==
    /\ pc[Main] = "refuse"
    /\ Refuse
    /\ Goto(Main, "finalize")
    /\ UNCHANGED <<manager, device, history>>

\* Mutant: the reports in progress are not waited for.
FinalizeAtOnce ==
    /\ pc[Main] = "finalize"
    /\ keys' = sessions /\ todo' = sessions
    /\ Goto(Main, "terminate")
    /\ UNCHANGED <<reporterVars, sl4aPorts, portLock, started, sessions, created, portOf,
                   live, device, history>>

FinalizeReports ==
    /\ pc[Main] = "finalize"
    /\ NoneInProgress
    /\ keys' = sessions /\ todo' = sessions
    /\ Goto(Main, "terminate")
    /\ UNCHANGED <<reporterVars, sl4aPorts, portLock, started, sessions, created, portOf,
                   live, device, history>>

\* Mutant: one session of several is terminated.
TerminateFirst ==
    /\ pc[Main] = "terminate"
    /\ \/ todo = {} /\ Goto(Main, "forget") /\ UNCHANGED <<live, todo>>
       \/ \E s \in todo : live' = live \ {s} /\ todo' = {} /\ Goto(Main, "forget")
    /\ UNCHANGED <<reporterVars, sl4aPorts, portLock, started, sessions, created, portOf,
                   keys, device, history>>

\* The next session; a dictionary that has grown meanwhile ends the loop with an
\* exception.  What fails while a session terminates is caught there.
TerminateSession ==
    /\ pc[Main] = "terminate"
    /\ \/ sessions # keys /\ End(Main) /\ UNCHANGED <<live, todo>>
       \/ /\ sessions = keys /\ todo = {}
          /\ Goto(Main, "forget") /\ UNCHANGED <<live, todo>>
       \/ /\ sessions = keys
          /\ \E s \in todo : live' = live \ {s} /\ todo' = todo \ {s}
          /\ UNCHANGED <<pc, frame>>
    /\ UNCHANGED <<reporterVars, sl4aPorts, portLock, started, sessions, created, portOf,
                   keys, device, history>>

ForgetSessions ==
    /\ pc[Main] = "forget"
    /\ sessions' = {} /\ keys' = {}
    /\ Goto(Main, "closePorts")
    /\ UNCHANGED <<reporterVars, sl4aPorts, portLock, started, created, portOf, live, todo,
                   device, history>>

\* All servers are told to close.
ClosePorts ==
    /\ pc[Main] = "closePorts"
    /\ dying' = listening
    /\ frame' = [frame EXCEPT ![Main] = [Frame("close", 0, 0) EXCEPT !.tries = Tries]]
    /\ pc' = [pc EXCEPT ![Main] = "readPorts"]
    /\ UNCHANGED <<reporterVars, manager, listening, launching, launched, history>>

\* All ports are forgotten, without the lock.
ResetPorts ==
    /\ pc[Main] = "reset"
    /\ sl4aPorts' = {}
    /\ takes' = [p \in Ports |-> 0]
    /\ End(Main)
    /\ UNCHANGED <<reporterVars, portLock, started, sessions, created, portOf, live, keys, todo,
                   device, crossed, raced, calls>>

------------------------------------------------------------------------------
(* The device, and the threads whose call fails *)

ServerListens ==
    /\ launching > 0
    /\ \E p \in Ports \ listening : listening' = listening \cup {p}
    /\ launching' = launching - 1
    /\ UNCHANGED <<reporterVars, manager, dying, launched, pc, frame, history>>

ServerCloses ==
    /\ \E p \in dying : listening' = listening \ {p} /\ dying' = dying \ {p}
    /\ UNCHANGED <<reporterVars, manager, launching, launched, pc, frame, history>>

Diagnose(t) ==
    /\ pc[t] = "idle" /\ live # {}
    /\ CreateErrorReport(t)
    /\ UNCHANGED <<manager, device, pc, frame, history>>

------------------------------------------------------------------------------
Step(t) ==
    \/ CheckStarted(t) \/ MarkStarted(t) \/ Install(t)
    \/ Obtain(t) \/ ReadPorts(t) \/ LockPorts(t) \/ ChoosePort(t) \/ AddPort(t)
    \/ Connect(t) \/ Register(t)
    \/ ReporterStep(t) /\ UNCHANGED <<manager, device, pc, frame, history>>

MainStep ==
    \/ RefuseReports \/ FinalizeReports \/ TerminateSession \/ ForgetSessions
    \/ ClosePorts \/ ResetPorts

Next ==
    \/ \E t \in Threads : Step(t)
    \/ \E t \in Reporters : Diagnose(t)
    \/ \E t \in Callers : CallCreate(t) \/ CallConnect(t)
    \/ StopService \/ CallTerminateAll \/ MainStep
    \/ ServerListens \/ ServerCloses

Spec == Init /\ [][Next]_vars

\* The threads run; nothing is promised of the device.
FairSpec ==
    /\ Spec
    /\ \A t \in Threads : WF_vars(Step(t))
    /\ WF_vars(MainStep)

------------------------------------------------------------------------------
(* Properties *)

PCs == Terminating \cup
       {"idle", "service", "mark", "install", "obtain", "readPorts", "lockPorts",
        "choose", "add", "connect", "register", "closePorts", "reset"}

Frames == [for : {"none", "create", "connect", "close"}, session : 0..MaxSessions,
           port : Ports \cup {0}, seen : SUBSET Ports, tries : 0..Tries]

DeviceTypeOK ==
    /\ listening \subseteq Ports /\ dying \subseteq listening
    /\ launched \in 0..MaxLaunches /\ launching \in 0..launched

ManagerTypeOK ==
    /\ sl4aPorts \subseteq Ports /\ portLock \in Threads \cup {None}
    /\ started \in BOOLEAN /\ created \in 0..MaxSessions
    /\ sessions \subseteq 1..created /\ live \subseteq 1..created
    /\ keys \subseteq 1..created /\ todo \subseteq 1..created
    /\ portOf \in [1..MaxSessions -> Ports \cup {0}]
    /\ takes \in [Ports -> Nat] /\ crossed \in BOOLEAN /\ raced \in BOOLEAN
    /\ calls \in 0..MaxCalls

\* A session has its number before it is registered, who looks for a port has an
\* attempt left, and who takes one has found it.
ThreadTypeOK ==
    /\ pc \in [Threads -> PCs] /\ frame \in [Threads -> Frames]
    /\ \A t \in Threads :
         /\ pc[t] = "register" => frame[t].session \in 1..created
         /\ pc[t] \in {"readPorts", "lockPorts", "choose"} =>
              frame[t].for = "close" \/ frame[t].tries > 0
         /\ pc[t] = "add" => frame[t].port \in Ports

TypeOK == ReporterTypeOK /\ DeviceTypeOK /\ ManagerTypeOK /\ ThreadTypeOK

\* No two threads that wait for a server find the same one, although each reads
\* the ports of the device before it takes the lock: until all are closed.
HandedOutOnce == \A p \in Ports : takes[p] <= 1

\* All managed sessions use one server, however many connections are opened and
\* however the service stops and starts, unless two sessions were created at a time.
OneServer == crossed \/ \A s, r \in sessions : portOf[s] = portOf[r]

\* No session that is alive escapes from the manager: it is managed, or still in
\* the hands of its creator, unless it came while Main terminates the others.
LiveSessionsAreManaged ==
    \/ raced
    \/ \A s \in live : s \in sessions \/ \E t \in Threads : pc[t] = "register" /\ frame[t].session = s

\* There are no more reports than are allowed, whoever asks for one.
ReportsAreLimited == reports <= MaxReports

\* When finalize_reports returns, no report that was counted is in progress, as
\* long as no update of the counter was lost.
FinalizedMeansDone ==
    [][pc[Main] = "finalize" /\ pc'[Main] = "terminate" => Counted = {} \/ torn]_vars

\* terminate_all_sessions returns, as long as no update of the counter was lost.
TerminateAllReturns == pc[Main] \in Terminating ~> pc[Main] = "idle" \/ torn
==============================================================================
