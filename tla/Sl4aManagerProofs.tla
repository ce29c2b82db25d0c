-------------------------- MODULE Sl4aManagerProofs --------------------------
(***************************************************************************)
(* The SL4A manager with any threads, ports, sessions and reports: no port *)
(* is handed out twice, no session that is alive escapes, and the reports  *)
(* are limited and finished.                                               *)
(***************************************************************************)
EXTENDS Sl4aManager, FiniteSetTheorems, TLAPS

------------------------------------------------------------------------------
(* Types *)

LEMMA ReporterTypes ==
    ASSUME ReporterTypeOK, NEW t \in Threads,
           ReporterStep(t) \/ CreateErrorReport(t) \/ Refuse \/ UNCHANGED reporterVars
    PROVE  ReporterTypeOK'
<1>1. CASE ReadCount(t)
  BY <1>1 DEF ReadCount, Report, ReporterTypeOK
<1>2. CASE WriteCount(t)
  BY <1>2 DEF WriteCount, Report, ReporterTypeOK
<1>3. CASE TakeTicket(t)
  BY <1>3 DEF TakeTicket, Report, ReporterTypeOK
<1>4. CASE WriteReport(t)
  BY <1>4 DEF WriteReport, Report, ReporterTypeOK
<1>5. CASE CreateErrorReport(t)
  BY <1>5, ReporterAssumption DEF CreateErrorReport, Report, ReporterTypeOK
<1>6. CASE Refuse \/ UNCHANGED reporterVars
  BY <1>6 DEF Refuse, reporterVars, ReporterTypeOK
<1> QED
  BY <1>1, <1>2, <1>3, <1>4, <1>5, <1>6 DEF ReporterStep

LEMMA MinIsMember ==
    ASSUME NEW S \in SUBSET Nat, S # {}
    PROVE  Min(S) \in S
<1>1. PICK x \in S : \A y \in S : <<y, x>> \notin OpToRel(<, Nat)
  BY NatLessThanWellFounded, WFMin
<1>2. ASSUME NEW y \in S PROVE x <= y
  <2>1. ASSUME y < x PROVE FALSE
    <3>1. <<y, x>> \in OpToRel(<, Nat)
      BY <2>1, Zenon DEF OpToRel
    <3> QED
      BY <1>1, <3>1
  <2> QED
    BY <2>1
<1> QED
  BY <1>2 DEF Min

LEMMA EmptyIsAFrame == Empty \in Frames
BY ManagerAssumption DEF Empty, Frame, Frames

LEMMA FrameParts ==
    ASSUME NEW f \in Frames
    PROVE  /\ f.for \in {"none", "create", "connect", "close"} /\ f.session \in 0..MaxSessions
           /\ f.port \in Ports \cup {0} /\ f.seen \subseteq Ports /\ f.tries \in 0..Tries
BY DEF Frames

\* The ways in which the steps change the locals of a call.
LEMMA FrameEdits ==
    ASSUME NEW f \in Frames
    PROVE  /\ \A n \in 0..Tries : [f EXCEPT !.tries = n] \in Frames
           /\ \A n \in 0..MaxSessions : [f EXCEPT !.session = n] \in Frames
           /\ \A p \in Ports \cup {0} : [f EXCEPT !.port = p] \in Frames
           /\ \A P \in SUBSET Ports : [f EXCEPT !.seen = P] \in Frames
<1>1. ASSUME NEW n \in 0..Tries PROVE [f EXCEPT !.tries = n] \in Frames
  BY DEF Frames
<1>2. ASSUME NEW n \in 0..MaxSessions PROVE [f EXCEPT !.session = n] \in Frames
  BY DEF Frames
<1>3. ASSUME NEW p \in Ports \cup {0} PROVE [f EXCEPT !.port = p] \in Frames
  BY DEF Frames
<1>4. ASSUME NEW P \in SUBSET Ports PROVE [f EXCEPT !.seen = P] \in Frames
  BY DEF Frames
<1> QED
  BY <1>1, <1>2, <1>3, <1>4

LEMMA NewFrames ==
    ASSUME NEW for \in {"none", "create", "connect", "close"}, NEW s \in 0..MaxSessions,
           NEW p \in Ports \cup {0}
    PROVE  Frame(for, s, p) \in Frames
BY ManagerAssumption DEF Frames, Frame

LEMMA TypesInit == Init => TypeOK
<1> SUFFICES ASSUME Init PROVE TypeOK
  OBVIOUS
<1>1. ReporterTypeOK
  <2>1. accepting \in BOOLEAN /\ torn \in BOOLEAN
    BY Zenon DEF Init, ReporterInit
  <2> QED
    BY <2>1, ReporterAssumption DEF Init, ReporterInit, ReporterTypeOK
<1>2. DeviceTypeOK /\ ManagerTypeOK
  <2>1. started \in BOOLEAN /\ crossed \in BOOLEAN /\ raced \in BOOLEAN
    BY Zenon DEF Init
  <2> QED
    BY <2>1, ManagerAssumption DEF Init, DeviceTypeOK, ManagerTypeOK
<1>3. ThreadTypeOK
  BY EmptyIsAFrame DEF Init, ThreadTypeOK, PCs
<1> QED
  BY <1>1, <1>2, <1>3 DEF TypeOK

\* What the steps of the reporter leave alone.
LEMMA ReporterMoves ==
    ASSUME [Next]_vars
    PROVE  \/ UNCHANGED reporterVars
           \/ Refuse
           \/ \E t \in Threads : ReporterStep(t) \/ CreateErrorReport(t)
BY ManagerAssumption DEF Next, Step, MainStep, Diagnose,
   CallCreate, CheckStarted, MarkStarted, Install, StopService, CallConnect, Obtain, ReadPorts,
   LockPorts, ChoosePort, AddPort, Connect, Register, CallTerminateAll, RefuseReports,
   FinalizeReports, TerminateSession, ForgetSessions, ClosePorts, ResetPorts, ServerListens,
   ServerCloses, Begin, vars, reporterVars, None

LEMMA ThreadMoves ==
    ASSUME ThreadTypeOK, created \in Nat, created' \in Nat, created <= created',
           NEW t \in Threads, NEW label \in PCs, NEW f \in Frames,
           pc' = [pc EXCEPT ![t] = label], frame' = [frame EXCEPT ![t] = f],
           label = "register" => f.session \in 1..created',
           label \in {"readPorts", "lockPorts", "choose"} => f.for = "close" \/ f.tries > 0,
           label = "add" => f.port \in Ports
    PROVE  ThreadTypeOK'
<1>1. pc' \in [Threads -> PCs] /\ frame' \in [Threads -> Frames]
  BY DEF ThreadTypeOK
<1>2. ASSUME NEW u \in Threads
      PROVE  /\ pc'[u] = "register" => frame'[u].session \in 1..created'
             /\ pc'[u] \in {"readPorts", "lockPorts", "choose"} =>
                  frame'[u].for = "close" \/ frame'[u].tries > 0
             /\ pc'[u] = "add" => frame'[u].port \in Ports
  <2>1. CASE u = t
    BY <2>1 DEF ThreadTypeOK
  <2>2. CASE u # t
    BY <2>2 DEF ThreadTypeOK
  <2> QED
    BY <2>1, <2>2
<1> QED
  BY <1>1, <1>2 DEF ThreadTypeOK

\* A step that leaves the locals alone.
LEMMA ThreadGoes ==
    ASSUME ThreadTypeOK, created \in Nat, UNCHANGED created, NEW t \in Threads, NEW label \in PCs,
           Goto(t, label),
           label \in {"readPorts", "lockPorts", "choose"} =>
             pc[t] \in {"readPorts", "lockPorts", "choose"},
           label \notin {"register", "add"}
    PROVE  ThreadTypeOK'
<1>1. frame' = [frame EXCEPT ![t] = frame[t]] /\ frame[t] \in Frames
  BY DEF Goto, ThreadTypeOK
<1> QED
  BY <1>1, ThreadMoves DEF Goto, ThreadTypeOK

LEMMA ThreadEnds ==
    ASSUME ThreadTypeOK, created \in Nat, UNCHANGED created, NEW t \in Threads, End(t)
    PROVE  ThreadTypeOK'
<1>1. "idle" \in PCs /\ created <= created' /\ created' \in Nat
  BY DEF PCs
<1> QED
  BY <1>1, EmptyIsAFrame, ThreadMoves DEF End

LEMMA TypesNext == TypeOK /\ [Next]_vars => TypeOK'
<1> SUFFICES ASSUME TypeOK, [Next]_vars PROVE TypeOK'
  OBVIOUS
<1>0. ReporterTypeOK'
  BY ReporterMoves, ReporterTypes, ManagerAssumption DEF TypeOK
<1> DEFINE Rest == DeviceTypeOK /\ ManagerTypeOK /\ ThreadTypeOK
<1>a. Main \in Threads /\ created \in Nat
      /\ pc \in [Threads -> PCs] /\ frame \in [Threads -> Frames]
  BY ManagerAssumption DEF TypeOK, ManagerTypeOK, ThreadTypeOK
<1>b. {"idle", "service", "mark", "install", "obtain", "readPorts", "lockPorts", "choose", "add",
       "connect", "register", "closePorts", "reset", "refuse", "finalize", "terminate",
       "forget"} = PCs
  BY DEF PCs, Terminating
<1> USE DEF TypeOK
<1>1. ASSUME NEW t \in Threads, CallCreate(t) PROVE Rest'
  <2>1. crossed' \in BOOLEAN
    BY <1>1, Zenon DEF CallCreate
  <2>2. DeviceTypeOK' /\ ManagerTypeOK'
    BY <1>1, <2>1, ManagerAssumption
       DEF CallCreate, Begin, manager, device, DeviceTypeOK, ManagerTypeOK
  <2>3. PICK p : /\ p = IF sessions = {} THEN 0 ELSE portOf[Min(sessions)]
                 /\ frame' = [frame EXCEPT ![t] = Frame("create", 0, p)]
    BY <1>1 DEF CallCreate
  <2>4. p \in Ports \cup {0}
    <3>1. CASE sessions = {}
      BY <2>3, <3>1
    <3>2. CASE sessions # {}
      <4>1. sessions \in SUBSET Nat
        BY DEF ManagerTypeOK
      <4>2. Min(sessions) \in sessions
        BY <3>2, <4>1, MinIsMember
      <4>3. Min(sessions) \in 1..MaxSessions
        <5>1. \A s \in sessions : s \in 1..MaxSessions
          BY ManagerAssumption DEF ManagerTypeOK
        <5> QED
          BY <4>2, <5>1
      <4> QED
        BY <2>3, <3>2, <4>3 DEF ManagerTypeOK
    <3> QED
      BY <3>1, <3>2
  <2>5. ThreadTypeOK'
    <3>1. Frame("create", 0, p) \in Frames
      BY <2>4, NewFrames, ManagerAssumption
    <3>2. pc' = [pc EXCEPT ![t] = "service"] /\ created <= created' /\ created' \in Nat
      BY <1>1, <1>a DEF CallCreate, Begin, manager
    <3> QED
      BY <1>a, <1>b, <2>3, <3>1, <3>2, ThreadMoves
  <2> QED
    BY <2>2, <2>5
<1>2. ASSUME NEW t \in Threads, CheckStarted(t) PROVE Rest'
  <2>1. ThreadTypeOK'
    BY <1>2, <1>a, <1>b, ThreadGoes DEF CheckStarted, manager
  <2> QED
    BY <1>2, <2>1 DEF CheckStarted, manager, device, history, DeviceTypeOK, ManagerTypeOK
<1>3. ASSUME NEW t \in Threads, MarkStarted(t) PROVE Rest'
  <2>1. ThreadTypeOK'
    BY <1>3, <1>a, <1>b, ThreadGoes DEF MarkStarted
  <2>2. started' \in BOOLEAN
    BY <1>3, Zenon DEF MarkStarted
  <2> QED
    BY <1>3, <2>1, <2>2 DEF MarkStarted, device, history, DeviceTypeOK, ManagerTypeOK
<1>4. ASSUME NEW t \in Threads, Install(t) PROVE Rest'
  <2>1. ThreadTypeOK'
    BY <1>4, <1>a, <1>b, ThreadGoes, ThreadEnds DEF Install, manager
  <2>2. DeviceTypeOK'
    BY <1>4 DEF Install, device, DeviceTypeOK
  <2> QED
    BY <1>4, <2>1, <2>2 DEF Install, manager, history, ManagerTypeOK
<1>5. ASSUME NEW t \in Threads, CallConnect(t) PROVE Rest'
  <2>1. PICK s \in live : frame' = [frame EXCEPT ![t] = Frame("connect", s, portOf[s])]
    BY <1>5 DEF CallConnect
  <2>2. s \in 0..MaxSessions /\ portOf[s] \in Ports \cup {0}
    BY <2>1, ManagerAssumption DEF ManagerTypeOK
  <2>3. ThreadTypeOK'
    <3>1. Frame("connect", s, portOf[s]) \in Frames
      BY <2>2, NewFrames
    <3>2. pc' = [pc EXCEPT ![t] = "obtain"] /\ created <= created' /\ created' \in Nat
      BY <1>5, <1>a DEF CallConnect, Begin, manager
    <3> QED
      BY <1>a, <1>b, <2>1, <3>1, <3>2, ThreadMoves
  <2> QED
    BY <1>5, <2>3, ManagerAssumption
       DEF CallConnect, Begin, manager, device, DeviceTypeOK, ManagerTypeOK
<1>6. ASSUME NEW t \in Threads, Obtain(t) PROVE Rest'
  <2>1. DeviceTypeOK' /\ ManagerTypeOK'
    BY <1>6, ManagerAssumption DEF Obtain, manager, device, history, DeviceTypeOK, ManagerTypeOK
  <2>2. CASE Goto(t, "connect")
    BY <1>6, <1>a, <1>b, <2>1, <2>2, ThreadGoes DEF Obtain, manager
  <2>3. CASE /\ pc' = [pc EXCEPT ![t] = "readPorts"]
             /\ frame' = [frame EXCEPT ![t] = [frame[t] EXCEPT !.tries = Tries]]
    <3>1. frame[t] \in Frames /\ [frame[t] EXCEPT !.tries = Tries] \in Frames
      BY <1>a, FrameEdits, ManagerAssumption
    <3>2. [frame[t] EXCEPT !.tries = Tries].tries > 0
      BY <3>1, ManagerAssumption DEF Frames
    <3>3. created <= created' /\ created' \in Nat
      BY <1>6, <1>a DEF Obtain, manager
    <3>4. ThreadTypeOK'
      BY <1>a, <1>b, <2>3, <3>1, <3>2, <3>3, ThreadMoves
    <3> QED
      BY <2>1, <3>4
  <2> QED
    BY <1>6, <2>2, <2>3 DEF Obtain
<1>7. ASSUME NEW t \in Threads, ReadPorts(t) PROVE Rest'
  <2>1. [frame[t] EXCEPT !.seen = listening] \in Frames
    BY <1>a, FrameEdits DEF DeviceTypeOK
  <2>2. /\ [frame[t] EXCEPT !.seen = listening].for = frame[t].for
        /\ [frame[t] EXCEPT !.seen = listening].tries = frame[t].tries
    BY <1>a DEF Frames
  <2>3. /\ pc' = [pc EXCEPT ![t] = "lockPorts"]
        /\ frame' = [frame EXCEPT ![t] = [frame[t] EXCEPT !.seen = listening]]
        /\ created <= created' /\ created' \in Nat
        /\ pc[t] = "readPorts"
    BY <1>7, <1>a DEF ReadPorts, manager
  <2>4. ThreadTypeOK'
    BY <1>a, <1>b, <2>1, <2>2, <2>3, ThreadMoves DEF ThreadTypeOK
  <2> QED
    BY <1>7, <2>4 DEF ReadPorts, manager, device, history, DeviceTypeOK, ManagerTypeOK
<1>8. ASSUME NEW t \in Threads, LockPorts(t) PROVE Rest'
  <2>1. ThreadTypeOK'
    BY <1>8, <1>a, <1>b, ThreadGoes DEF LockPorts
  <2> QED
    BY <1>8, <2>1 DEF LockPorts, device, history, DeviceTypeOK, ManagerTypeOK
<1>9. ASSUME NEW t \in Threads, ChoosePort(t) PROVE Rest'
  <2>1. DeviceTypeOK' /\ ManagerTypeOK'
    BY <1>9 DEF ChoosePort, device, history, DeviceTypeOK, ManagerTypeOK
  <2>2. created <= created' /\ created' \in Nat /\ created' = created /\ pc[t] = "choose"
    BY <1>9, <1>a DEF ChoosePort
  <2>3. CASE Goto(t, "reset")
    BY <1>a, <1>b, <2>1, <2>2, <2>3, ThreadGoes
  <2>4. CASE End(t)
    BY <1>a, <1>b, <2>1, <2>2, <2>4, ThreadEnds
  <2>5. CASE /\ frame[t].for # "close" /\ frame[t].tries # 1
             /\ pc' = [pc EXCEPT ![t] = "readPorts"]
             /\ frame' = [frame EXCEPT ![t] = [frame[t] EXCEPT !.tries = frame[t].tries - 1]]
    <3>1. frame[t].tries \in 2..Tries
      BY <1>a, <2>2, <2>5, FrameParts, ManagerAssumption DEF ThreadTypeOK
    <3>2. [frame[t] EXCEPT !.tries = frame[t].tries - 1] \in Frames
      BY <1>a, <3>1, FrameEdits, ManagerAssumption
    <3>3. [frame[t] EXCEPT !.tries = frame[t].tries - 1].tries > 0
      BY <1>a, <3>1, ManagerAssumption DEF Frames
    <3> QED
      BY <1>a, <1>b, <2>1, <2>2, <2>5, <3>2, <3>3, ThreadMoves
  <2>6. CASE \E p \in frame[t].seen \ sl4aPorts :
               /\ frame' = [frame EXCEPT ![t] = [frame[t] EXCEPT !.port = p]]
               /\ pc' = [pc EXCEPT ![t] = "add"]
    <3>1. PICK p \in frame[t].seen : /\ frame' = [frame EXCEPT ![t] = [frame[t] EXCEPT !.port = p]]
                                     /\ pc' = [pc EXCEPT ![t] = "add"]
      BY <2>6
    <3>2. [frame[t] EXCEPT !.port = p] \in Frames
      BY <1>a, <3>1, FrameParts, FrameEdits
    <3>3. [frame[t] EXCEPT !.port = p].port \in Ports
      BY <1>a, <3>1, FrameParts DEF Frames
    <3> QED
      BY <1>a, <1>b, <2>1, <2>2, <3>1, <3>2, <3>3, ThreadMoves
  <2> QED
    BY <1>9, <2>3, <2>4, <2>5, <2>6 DEF ChoosePort, NothingFound
<1>10. ASSUME NEW t \in Threads, AddPort(t) PROVE Rest'
  <2>1. DeviceTypeOK' /\ ManagerTypeOK'
    <3>1. frame[t].port \in Ports
      BY <1>10 DEF AddPort, ThreadTypeOK
    <3> QED
      BY <1>10, <3>1 DEF AddPort, device, DeviceTypeOK, ManagerTypeOK
  <2>2. created <= created' /\ created' \in Nat /\ created' = created /\ pc[t] = "add"
    BY <1>10, <1>a DEF AddPort
  <2>3. CASE /\ pc' = [pc EXCEPT ![t] = "connect"]
             /\ frame' = [frame EXCEPT ![t] =
                            Frame(frame[t].for, frame[t].session, frame[t].port)]
    <3>1. Frame(frame[t].for, frame[t].session, frame[t].port) \in Frames
      BY <1>a, FrameParts, NewFrames
    <3> QED
      BY <1>a, <1>b, <2>1, <2>2, <2>3, <3>1, ThreadMoves
  <2>4. CASE Goto(t, "reset")
    BY <1>a, <1>b, <2>1, <2>2, <2>4, ThreadGoes
  <2>5. CASE /\ frame[t].for = "close" /\ frame[t].tries # 0
             /\ pc' = [pc EXCEPT ![t] = "readPorts"]
             /\ frame' = [frame EXCEPT ![t] = [frame[t] EXCEPT !.tries = frame[t].tries - 1]]
    <3>1. frame[t].tries - 1 \in 0..Tries
      BY <1>a, <2>5, FrameParts, ManagerAssumption
    <3>2. [frame[t] EXCEPT !.tries = frame[t].tries - 1] \in Frames
      BY <1>a, <3>1, FrameEdits
    <3>3. [frame[t] EXCEPT !.tries = frame[t].tries - 1].for = "close"
      BY <1>a, <2>5 DEF Frames
    <3> QED
      BY <1>a, <1>b, <2>1, <2>2, <2>5, <3>2, <3>3, ThreadMoves
  <2> QED
    BY <1>10, <2>3, <2>4, <2>5 DEF AddPort
<1>11. ASSUME NEW t \in Threads, Connect(t) PROVE Rest'
  <2>0. /\ DeviceTypeOK' /\ frame[t].port \in Ports \cup {0}
        /\ UNCHANGED <<sl4aPorts, portLock, started, sessions, keys, todo, takes, crossed, raced,
                       calls>>
    BY <1>11, <1>a, FrameParts DEF Connect, device, history, DeviceTypeOK
  <2>1. CASE frame[t].for # "create" /\ End(t) /\ UNCHANGED <<created, live>>
             /\ portOf' = [portOf EXCEPT ![frame[t].session] = frame[t].port]
    BY <1>a, <2>0, <2>1, ThreadEnds DEF ManagerTypeOK
  <2>2. CASE /\ created < MaxSessions
             /\ created' = created + 1 /\ live' = live \cup {created + 1}
             /\ portOf' = [portOf EXCEPT ![created + 1] = frame[t].port]
             /\ pc' = [pc EXCEPT ![t] = "register"]
             /\ frame' = [frame EXCEPT ![t] = [frame[t] EXCEPT !.session = created + 1]]
    <3>1. created + 1 \in 1..MaxSessions /\ created <= created' /\ created' \in Nat
      BY <1>a, <2>2, ManagerAssumption
    <3>2. /\ [frame[t] EXCEPT !.session = created + 1] \in Frames
          /\ [frame[t] EXCEPT !.session = created + 1].session = created + 1
      BY <1>a, <3>1, FrameEdits DEF Frames
    <3>3. ThreadTypeOK'
      <4> DEFINE f == [frame[t] EXCEPT !.session = created + 1]
      <4>1. f \in Frames /\ f.session \in 1..created'
        BY <1>a, <2>2, <3>2
      <4>2. pc' = [pc EXCEPT ![t] = "register"] /\ frame' = [frame EXCEPT ![t] = f]
        BY <2>2
      <4> HIDE DEF f
      <4> QED
        BY <1>a, <1>b, <3>1, <4>1, <4>2, ThreadMoves
    <3>4. 1..created \subseteq 1..created' /\ created + 1 \in 1..created'
      BY <1>a, <2>2
    <3>5. ManagerTypeOK'
      <4>1. /\ sessions' \subseteq 1..created' /\ live' \subseteq 1..created'
            /\ keys' \subseteq 1..created' /\ todo' \subseteq 1..created'
        BY <2>0, <2>2, <3>4 DEF ManagerTypeOK
      <4>2. portOf' \in [1..MaxSessions -> Ports \cup {0}] /\ created' \in 0..MaxSessions
        BY <2>0, <2>2, <3>1 DEF ManagerTypeOK
      <4> QED
        BY <2>0, <4>1, <4>2 DEF ManagerTypeOK
    <3> QED
      BY <2>0, <3>3, <3>5
  <2>3. CASE End(t) /\ UNCHANGED <<created, live, portOf>>
    BY <1>a, <2>0, <2>3, ThreadEnds DEF ManagerTypeOK
  <2> QED
    <3>1. ASSUME frame[t].for = "create", ~(End(t) /\ UNCHANGED <<created, live, portOf>>)
          PROVE  /\ created < MaxSessions
                 /\ created' = created + 1 /\ live' = live \cup {created + 1}
                 /\ portOf' = [portOf EXCEPT ![created + 1] = frame[t].port]
                 /\ pc' = [pc EXCEPT ![t] = "register"]
                 /\ frame' = [frame EXCEPT ![t] = [frame[t] EXCEPT !.session = created + 1]]
      BY <1>11, <3>1 DEF Connect
    <3>2. ASSUME frame[t].for # "create"
          PROVE  /\ End(t) /\ UNCHANGED <<created, live>>
                 /\ portOf' = [portOf EXCEPT ![frame[t].session] = frame[t].port]
      BY <1>11, <3>2 DEF Connect
    <3> QED
      BY <2>1, <2>2, <2>3, <3>1, <3>2
<1>12. ASSUME NEW t \in Threads, Register(t) PROVE Rest'
  <2>1. raced' \in BOOLEAN
    BY <1>12, Zenon DEF Register
  <2>2. ThreadTypeOK'
    BY <1>12, <1>a, ThreadEnds DEF Register
  <2>3. frame[t].session \in 1..created
    BY <1>12 DEF Register, ThreadTypeOK
  <2> QED
    BY <1>12, <2>1, <2>2, <2>3 DEF Register, device, DeviceTypeOK, ManagerTypeOK
<1>13. ASSUME StopService PROVE Rest'
  <2>1. started' \in BOOLEAN
    BY <1>13, Zenon DEF StopService
  <2>2. ThreadTypeOK'
    BY <1>13, <1>a, <1>b, ThreadGoes DEF StopService, Begin, Goto
  <2> QED
    BY <1>13, <2>1, <2>2, ManagerAssumption
       DEF StopService, Begin, device, DeviceTypeOK, ManagerTypeOK
<1>14. ASSUME CallTerminateAll PROVE Rest'
  <2>1. ThreadTypeOK'
    BY <1>14, <1>a, <1>b, ThreadGoes DEF CallTerminateAll, Begin, Goto, manager
  <2> QED
    BY <1>14, <2>1, ManagerAssumption
       DEF CallTerminateAll, Begin, manager, device, DeviceTypeOK, ManagerTypeOK
<1>15. ASSUME RefuseReports PROVE Rest'
  <2>1. ThreadTypeOK'
    BY <1>15, <1>a, <1>b, ThreadGoes DEF RefuseReports, manager
  <2> QED
    BY <1>15, <2>1 DEF RefuseReports, manager, device, history, DeviceTypeOK, ManagerTypeOK
<1>16. ASSUME FinalizeReports PROVE Rest'
  <2>1. ThreadTypeOK'
    BY <1>16, <1>a, <1>b, ThreadGoes DEF FinalizeReports
  <2> QED
    BY <1>16, <2>1 DEF FinalizeReports, device, history, DeviceTypeOK, ManagerTypeOK
<1>17. ASSUME TerminateSession PROVE Rest'
  <2>1. ThreadTypeOK'
    <3>1. CASE End(Main)
      BY <1>17, <1>a, <3>1, ThreadEnds DEF TerminateSession
    <3>2. CASE Goto(Main, "forget")
      BY <1>17, <1>a, <1>b, <3>2, ThreadGoes DEF TerminateSession
    <3>3. CASE UNCHANGED <<pc, frame>>
      BY <1>17, <3>3 DEF TerminateSession, ThreadTypeOK
    <3> QED
      BY <1>17, <3>1, <3>2, <3>3 DEF TerminateSession
  <2> QED
    BY <1>17, <2>1 DEF TerminateSession, device, history, DeviceTypeOK, ManagerTypeOK
<1>18. ASSUME ForgetSessions PROVE Rest'
  <2>1. ThreadTypeOK'
    BY <1>18, <1>a, <1>b, ThreadGoes DEF ForgetSessions
  <2> QED
    BY <1>18, <2>1 DEF ForgetSessions, device, history, DeviceTypeOK, ManagerTypeOK
<1>19. ASSUME ClosePorts PROVE Rest'
  <2> DEFINE f == [Frame("close", 0, 0) EXCEPT !.tries = Tries]
  <2>1. f \in Frames
    BY NewFrames, FrameEdits, ManagerAssumption
  <2>2. f.for = "close"
    BY DEF Frame
  <2>3. /\ pc' = [pc EXCEPT ![Main] = "readPorts"] /\ frame' = [frame EXCEPT ![Main] = f]
        /\ created <= created' /\ created' \in Nat
    BY <1>19, <1>a DEF ClosePorts, manager
  <2> HIDE DEF f
  <2>4. ThreadTypeOK'
    BY <1>a, <1>b, <2>1, <2>2, <2>3, ThreadMoves
  <2> QED
    BY <1>19, <2>4 DEF ClosePorts, manager, history, DeviceTypeOK, ManagerTypeOK
<1>20. ASSUME ResetPorts PROVE Rest'
  <2>1. ThreadTypeOK'
    BY <1>20, <1>a, ThreadEnds DEF ResetPorts
  <2> QED
    BY <1>20, <2>1 DEF ResetPorts, device, DeviceTypeOK, ManagerTypeOK
<1>21. ASSUME ServerListens \/ ServerCloses PROVE Rest'
  <2>1. DeviceTypeOK'
    BY <1>21 DEF ServerListens, ServerCloses, DeviceTypeOK
  <2> QED
    BY <1>21, <2>1 DEF ServerListens, ServerCloses, manager, history, ManagerTypeOK, ThreadTypeOK
<1>22. ASSUME UNCHANGED <<manager, device, pc, frame, history>> PROVE Rest'
  <2>1. ThreadTypeOK'
    BY <1>22 DEF manager, ThreadTypeOK
  <2>2. DeviceTypeOK'
    BY <1>22 DEF device, DeviceTypeOK
  <2>3. ManagerTypeOK'
    BY <1>22 DEF manager, history, ManagerTypeOK
  <2> QED
    BY <2>1, <2>2, <2>3
<1>23. ASSUME UNCHANGED vars PROVE UNCHANGED <<manager, device, pc, frame, history>>
  BY <1>23 DEF vars
<1>24. Rest'
  BY <1>1, <1>2, <1>3, <1>4, <1>5, <1>6, <1>7, <1>8, <1>9, <1>10, <1>11, <1>12, <1>13, <1>14,
     <1>15, <1>16, <1>17, <1>18, <1>19, <1>20, <1>21, <1>22, <1>23, ManagerAssumption
     DEF Next, Step, MainStep, Diagnose
<1> QED
  BY <1>0, <1>24

THEOREM TypesHold == Spec => []TypeOK
BY TypesInit, TypesNext, PTL DEF Spec

------------------------------------------------------------------------------
(* The ports *)

\* The lock is held from the choice of a port until it is taken, so that the one
\* that was chosen is still free; and a port is taken when it is handed out.
LockInv == \A t \in Threads : pc[t] \in {"choose", "add"} => portLock = t
ChosenIsFree == \A t \in Threads : pc[t] = "add" => frame[t].port \notin sl4aPorts
TakenOnce == \A p \in Ports : takes[p] = IF p \in sl4aPorts THEN 1 ELSE 0
PortsInv == LockInv /\ ChosenIsFree /\ TakenOnce

LEMMA PortsElsewhere ==
    ASSUME PortsInv, UNCHANGED <<sl4aPorts, portLock, takes>>,
           \A t \in Threads : pc'[t] \in {"choose", "add"} => pc'[t] = pc[t] /\ frame'[t] = frame[t]
    PROVE  PortsInv'
BY DEF PortsInv, LockInv, ChosenIsFree, TakenOnce

LEMMA PortsNext == TypeOK /\ PortsInv /\ [Next]_vars => PortsInv'
<1> SUFFICES ASSUME TypeOK, PortsInv, [Next]_vars PROVE PortsInv'
  OBVIOUS
<1>a. Main \in Threads /\ None \notin Threads
      /\ pc \in [Threads -> PCs] /\ frame \in [Threads -> Frames]
  BY ManagerAssumption DEF TypeOK, ThreadTypeOK
<1>1. ASSUME NEW t \in Threads, LockPorts(t) PROVE PortsInv'
  BY <1>1, <1>a DEF LockPorts, Goto, history, PortsInv, LockInv, ChosenIsFree, TakenOnce
<1>2. ASSUME NEW t \in Threads, ChoosePort(t) PROVE PortsInv'
  <2>1. \A u \in Threads \ {t} : pc[u] \notin {"choose", "add"}
    BY <1>2 DEF ChoosePort, PortsInv, LockInv
  <2>2. CASE /\ portLock' = None /\ NothingFound(t)
    BY <1>2, <1>a, <2>1, <2>2
       DEF ChoosePort, NothingFound, Goto, End, history, PortsInv, LockInv, ChosenIsFree, TakenOnce
  <2>3. CASE /\ \E p \in frame[t].seen \ sl4aPorts : frame' = [frame EXCEPT ![t].port = p]
             /\ pc' = [pc EXCEPT ![t] = "add"]
             /\ UNCHANGED portLock
    <3>1. frame'[t].port \notin sl4aPorts
      BY <1>a, <2>3 DEF Frames
    <3> QED
      BY <1>2, <1>a, <2>1, <2>3, <3>1
         DEF ChoosePort, history, PortsInv, LockInv, ChosenIsFree, TakenOnce
  <2> QED
    BY <1>2, <2>2, <2>3 DEF ChoosePort
<1>3. ASSUME NEW t \in Threads, AddPort(t) PROVE PortsInv'
  <2>1. \A u \in Threads \ {t} : pc[u] \notin {"choose", "add"}
    BY <1>3 DEF AddPort, PortsInv, LockInv
  <2>2. \A u \in Threads : pc'[u] \notin {"choose", "add"}
    BY <1>3, <1>a, <2>1 DEF AddPort, Goto
  <2>3. frame[t].port \in Ports \ sl4aPorts
    BY <1>3 DEF AddPort, TypeOK, ThreadTypeOK, PortsInv, ChosenIsFree
  <2>4. TakenOnce'
    BY <1>3, <2>3 DEF AddPort, PortsInv, TakenOnce, TypeOK, ManagerTypeOK
  <2> QED
    BY <2>2, <2>4 DEF PortsInv, LockInv, ChosenIsFree
<1>4. ASSUME ResetPorts PROVE PortsInv'
  BY <1>4, <1>a DEF ResetPorts, End, PortsInv, LockInv, ChosenIsFree, TakenOnce
<1>5. ASSUME NEW t \in Threads,
             CallCreate(t) \/ CheckStarted(t) \/ MarkStarted(t) \/ Install(t) \/ CallConnect(t)
               \/ Obtain(t) \/ ReadPorts(t) \/ Connect(t) \/ Register(t)
      PROVE  PortsInv'
  <2>1. \A u \in Threads : pc'[u] \in {"choose", "add"} => pc'[u] = pc[u] /\ frame'[u] = frame[u]
    BY <1>5, <1>a DEF CallCreate, CheckStarted, MarkStarted, Install, CallConnect, Obtain, ReadPorts,
                      Connect, Register, Begin, Goto, End
  <2> QED
    BY <1>5, <2>1, PortsElsewhere
       DEF CallCreate, CheckStarted, MarkStarted, Install, CallConnect, Obtain, ReadPorts,
           Connect, Register, manager, history
<1>6. ASSUME \/ StopService \/ CallTerminateAll \/ RefuseReports \/ FinalizeReports
             \/ TerminateSession \/ ForgetSessions \/ ClosePorts
      PROVE  PortsInv'
  <2>1. \A u \in Threads : pc'[u] \in {"choose", "add"} => pc'[u] = pc[u] /\ frame'[u] = frame[u]
    BY <1>6, <1>a DEF StopService, CallTerminateAll, RefuseReports, FinalizeReports,
                      TerminateSession, ForgetSessions, ClosePorts, Begin, Goto, End
  <2> QED
    BY <1>6, <2>1, PortsElsewhere
       DEF StopService, CallTerminateAll, RefuseReports, FinalizeReports, TerminateSession,
           ForgetSessions, ClosePorts, manager, history
<1>7. ASSUME UNCHANGED <<manager, pc, frame, history>> PROVE PortsInv'
  BY <1>7, PortsElsewhere DEF manager, history
<1> QED
  BY <1>1, <1>2, <1>3, <1>4, <1>5, <1>6, <1>7, ManagerAssumption
     DEF Next, Step, MainStep, Diagnose, ServerListens, ServerCloses, vars

\* Two threads that want a server never find the same port, whatever each of them
\* has seen before it got the lock of _get_open_listening_port.
THEOREM HandedOutOnceHolds == Spec => []HandedOutOnce
<1>1. Init => PortsInv
  BY DEF Init, PortsInv, LockInv, ChosenIsFree, TakenOnce
<1>2. PortsInv => HandedOutOnce
  BY DEF PortsInv, TakenOnce, HandedOutOnce
<1> QED
  BY <1>1, <1>2, PortsNext, TypesInit, TypesNext, PTL DEF Spec

------------------------------------------------------------------------------
(* The sessions *)

InHand(s) == \E t \in Threads : pc[t] = "register" /\ frame[t].session = s

\* Main visits the sessions that are managed, which are the same until it has
\* forgotten them, unless one is added.
LiveInv ==
    raced \/ /\ \A s \in live : s \in sessions \/ InHand(s)
             /\ pc[Main] \in {"terminate", "forget"} => live \cap sessions \subseteq todo
             /\ pc[Main] = "terminate" => sessions = keys
             /\ pc[Main] = "forget" => todo = {}

LEMMA LiveElsewhere ==
    ASSUME LiveInv, UNCHANGED <<live, sessions, keys, todo, raced>>,
           \A t \in Threads : pc[t] = "register" => pc'[t] = pc[t] /\ frame'[t] = frame[t],
           pc'[Main] \in {"terminate", "forget"} => pc'[Main] = pc[Main]
    PROVE  LiveInv'
BY DEF LiveInv, InHand

LEMMA LiveNext == TypeOK /\ LiveInv /\ [Next]_vars => LiveInv'
<1> SUFFICES ASSUME TypeOK, LiveInv, [Next]_vars PROVE LiveInv'
  OBVIOUS
<1>a. Main \in Threads /\ pc \in [Threads -> PCs] /\ frame \in [Threads -> Frames]
  BY ManagerAssumption DEF TypeOK, ThreadTypeOK
<1>1. ASSUME NEW t \in Threads, Connect(t) PROVE LiveInv'
  <2>1. CASE UNCHANGED live /\ End(t)
    BY <1>1, <1>a, <2>1, LiveElsewhere DEF Connect, End, history
  <2>2. CASE /\ live' = live \cup {created + 1}
             /\ pc' = [pc EXCEPT ![t] = "register"]
             /\ frame' = [frame EXCEPT ![t].session = created + 1]
    <3>1. created + 1 \notin sessions
      BY DEF TypeOK, ManagerTypeOK
    <3>2. \A u \in Threads \ {t} : pc'[u] = pc[u] /\ frame'[u] = frame[u]
      BY <1>a, <2>2
    <3>3. pc[t] = "connect" /\ pc'[t] = "register" /\ frame'[t].session = created + 1
      BY <1>1, <1>a, <2>2 DEF Connect, Frames
    <3>4. UNCHANGED <<sessions, keys, todo, raced>>
      BY <1>1 DEF Connect, history
    <3>5. ASSUME ~raced, NEW s \in live' PROVE s \in sessions' \/ InHand(s)'
      BY <2>2, <3>2, <3>3, <3>4, <3>5 DEF LiveInv, InHand
    <3>6. pc'[Main] \in {"terminate", "forget"} => pc'[Main] = pc[Main]
      BY <1>a, <3>2, <3>3
    <3> QED
      BY <2>2, <3>1, <3>4, <3>5, <3>6 DEF LiveInv
  <2> QED
    BY <1>1, <2>1, <2>2 DEF Connect
<1>2. ASSUME NEW t \in Threads, Register(t) PROVE LiveInv'
  <2>1. CASE raced'
    BY <2>1 DEF LiveInv
  <2>2. CASE ~raced'
    <3>1. ~raced /\ pc[Main] \notin Terminating
      BY <1>2, <2>2 DEF Register
    <3>2. pc'[Main] \notin {"terminate", "forget"}
      BY <1>2, <1>a, <3>1 DEF Register, End, Terminating
    <3>3. \A u \in Threads \ {t} : pc'[u] = pc[u] /\ frame'[u] = frame[u]
      BY <1>2, <1>a DEF Register, End
    <3>4. ASSUME NEW s \in live' PROVE s \in sessions' \/ InHand(s)'
      BY <1>2, <3>1, <3>3 DEF Register, LiveInv, InHand
    <3> QED
      BY <3>2, <3>4 DEF LiveInv
  <2> QED
    BY <2>1, <2>2
<1>3. ASSUME FinalizeReports \/ TerminateSession \/ ForgetSessions PROVE LiveInv'
  <2>1. \A t \in Threads : pc[t] = "register" => pc'[t] = pc[t] /\ frame'[t] = frame[t]
    BY <1>3, <1>a DEF FinalizeReports, TerminateSession, ForgetSessions, Goto, End
  <2>2. \A s : InHand(s) => InHand(s)'
    BY <2>1 DEF InHand
  <2>3. CASE FinalizeReports
    BY <1>a, <2>2, <2>3 DEF FinalizeReports, Goto, history, LiveInv
  <2>4. CASE TerminateSession
    BY <1>a, <2>2, <2>4 DEF TerminateSession, Goto, End, history, LiveInv
  <2>5. CASE ForgetSessions
    BY <1>a, <2>2, <2>5 DEF ForgetSessions, Goto, history, LiveInv
  <2> QED
    BY <1>3, <2>3, <2>4, <2>5
<1>4. ASSUME NEW t \in Threads,
             CallCreate(t) \/ CheckStarted(t) \/ MarkStarted(t) \/ Install(t) \/ CallConnect(t)
               \/ Obtain(t) \/ ReadPorts(t) \/ LockPorts(t) \/ ChoosePort(t) \/ AddPort(t)
      PROVE  LiveInv'
  <2>1. /\ \A u \in Threads : pc[u] = "register" => pc'[u] = pc[u] /\ frame'[u] = frame[u]
        /\ pc'[Main] \in {"terminate", "forget"} => pc'[Main] = pc[Main]
    BY <1>4, <1>a DEF CallCreate, CheckStarted, MarkStarted, Install, CallConnect, Obtain, ReadPorts,
                      LockPorts, ChoosePort, NothingFound, AddPort, Begin, Goto, End
  <2> QED
    BY <1>4, <2>1, LiveElsewhere
       DEF CallCreate, CheckStarted, MarkStarted, Install, CallConnect, Obtain, ReadPorts,
           LockPorts, ChoosePort, AddPort, manager, history
<1>5. ASSUME StopService \/ CallTerminateAll \/ RefuseReports \/ ClosePorts \/ ResetPorts
      PROVE  LiveInv'
  <2>1. /\ \A u \in Threads : pc[u] = "register" => pc'[u] = pc[u] /\ frame'[u] = frame[u]
        /\ pc'[Main] \in {"terminate", "forget"} => pc'[Main] = pc[Main]
    BY <1>5, <1>a DEF StopService, CallTerminateAll, RefuseReports, ClosePorts, ResetPorts,
                      Begin, Goto, End
  <2> QED
    BY <1>5, <2>1, LiveElsewhere
       DEF StopService, CallTerminateAll, RefuseReports, ClosePorts, ResetPorts, manager, history
<1>6. ASSUME UNCHANGED <<manager, pc, frame, history>> PROVE LiveInv'
  BY <1>6, LiveElsewhere DEF manager, history
<1> QED
  BY <1>1, <1>2, <1>3, <1>4, <1>5, <1>6, ManagerAssumption
     DEF Next, Step, MainStep, Diagnose, ServerListens, ServerCloses, vars

\* terminate_all_sessions leaves no session alive that the manager does not know,
\* unless one was added while it looped.
THEOREM LiveSessionsHold == Spec => []LiveSessionsAreManaged
<1>1. Init => LiveInv
  BY ManagerAssumption DEF Init, LiveInv
<1>2. LiveInv => LiveSessionsAreManaged
  BY DEF LiveInv, InHand, LiveSessionsAreManaged
<1> QED
  BY <1>1, <1>2, LiveNext, TypesInit, TypesNext, PTL DEF Spec

------------------------------------------------------------------------------
(* The reports *)

\* A lost update apart, the counter counts; and a ticket is a report that is
\* written or being written.
Writing == {t \in Threads : epc[t] = "report"}
CountInv == torn \/ requestCount = Cardinality(Counted)
LimitInv ==
    /\ reports + Cardinality(Writing) <= ticketNumber
    /\ reports + Cardinality(Writing) <= MaxReports

LEMMA ThreadSets ==
    /\ IsFiniteSet(Counted) /\ Cardinality(Counted) \in Nat
    /\ IsFiniteSet(Writing) /\ Cardinality(Writing) \in Nat
<1>1. Counted \in SUBSET Threads /\ Writing \in SUBSET Threads
  BY DEF Counted, Writing
<1> QED
  BY <1>1, ReporterAssumption, FS_Subset, FS_CardinalityType

LEMMA CountNext == TypeOK /\ CountInv /\ [Next]_vars => CountInv'
<1> SUFFICES ASSUME TypeOK, CountInv, [Next]_vars, ~torn' PROVE requestCount' = Cardinality(Counted')
  BY Zenon DEF CountInv
<1>a. /\ epc \in [Threads -> {"idle", "accepted", "adding", "counted", "report", "written",
                              "subtracting"}]
      /\ requestCount \in Int
  BY DEF TypeOK, ReporterTypeOK
<1>b. ASSUME UNCHANGED <<torn, requestCount>>, Counted' = Counted
      PROVE  requestCount' = Cardinality(Counted')
  BY <1>b DEF CountInv
<1>1. ASSUME NEW t \in Threads, WriteCount(t) PROVE requestCount' = Cardinality(Counted')
  <2>1. ~torn /\ read[t] = requestCount
    BY <1>1 DEF WriteCount
  <2>2. requestCount = Cardinality(Counted)
    BY <2>1 DEF CountInv
  <2>3. CASE Report(t, "adding", "counted") /\ requestCount' = read[t] + 1
    <3>1. Counted' = Counted \cup {t} /\ t \notin Counted
      BY <1>a, <2>3 DEF Report, Counted
    <3> QED
      BY <2>1, <2>2, <2>3, <3>1, ThreadSets, FS_AddElement
  <2>4. CASE Report(t, "subtracting", "idle") /\ requestCount' = read[t] - 1
    <3>1. Counted' = Counted \ {t} /\ t \in Counted
      BY <1>a, <2>4 DEF Report, Counted
    <3>2. Cardinality(Counted') = Cardinality(Counted) - 1
      BY <3>1, ThreadSets, FS_RemoveElement
    <3> QED
      BY <2>1, <2>2, <2>4, <3>2
  <2> QED
    BY <1>1, <2>3, <2>4 DEF WriteCount
<1>2. ASSUME NEW t \in Threads,
             ReadCount(t) \/ TakeTicket(t) \/ WriteReport(t) \/ CreateErrorReport(t)
      PROVE  requestCount' = Cardinality(Counted')
  <2>1. Counted' = Counted
    BY <1>2, <1>a DEF ReadCount, TakeTicket, WriteReport, CreateErrorReport, Report, Counted
  <2> QED
    BY <1>2, <1>b, <2>1 DEF ReadCount, TakeTicket, WriteReport, CreateErrorReport
<1>3. ASSUME Refuse \/ UNCHANGED reporterVars PROVE requestCount' = Cardinality(Counted')
  BY <1>3, <1>b DEF Refuse, reporterVars, Counted
<1> QED
  BY <1>1, <1>2, <1>3, ReporterMoves DEF ReporterStep

LEMMA LimitNext == TypeOK /\ LimitInv /\ [Next]_vars => LimitInv'
<1> SUFFICES ASSUME TypeOK, LimitInv, [Next]_vars PROVE LimitInv'
  OBVIOUS
<1>a. /\ epc \in [Threads -> {"idle", "accepted", "adding", "counted", "report", "written",
                              "subtracting"}]
      /\ ticketNumber \in Nat /\ reports \in Nat
  BY DEF TypeOK, ReporterTypeOK
<1>b. ASSUME UNCHANGED <<reports, ticketNumber>>, Writing' = Writing PROVE LimitInv'
  BY <1>b DEF LimitInv
<1>1. ASSUME NEW t \in Threads, TakeTicket(t) PROVE LimitInv'
  <2>1. ticketNumber' = ticketNumber + 1 /\ UNCHANGED reports
    BY <1>1 DEF TakeTicket
  <2>2. CASE ticketNumber' <= MaxReports
    <3>1. Writing' = Writing \cup {t} /\ t \notin Writing
      BY <1>1, <1>a, <2>2 DEF TakeTicket, Report, Writing
    <3>2. Cardinality(Writing') = Cardinality(Writing) + 1
      BY <3>1, ThreadSets, FS_AddElement
    <3> QED
      BY <1>a, <2>1, <2>2, <3>2, ThreadSets, ReporterAssumption DEF LimitInv
  <2>3. CASE ~(ticketNumber' <= MaxReports)
    <3>1. Writing' = Writing
      BY <1>1, <1>a, <2>3 DEF TakeTicket, Report, Writing
    <3> QED
      BY <1>a, <2>1, <3>1, ThreadSets DEF LimitInv
  <2> QED
    BY <2>2, <2>3
<1>2. ASSUME NEW t \in Threads, WriteReport(t) PROVE LimitInv'
  <2>1. Writing' = Writing \ {t} /\ t \in Writing
    BY <1>2, <1>a DEF WriteReport, Report, Writing
  <2>2. Cardinality(Writing') = Cardinality(Writing) - 1
    BY <2>1, ThreadSets, FS_RemoveElement
  <2> QED
    BY <1>2, <1>a, <2>2, ThreadSets DEF WriteReport, LimitInv
<1>3. ASSUME NEW t \in Threads, ReadCount(t) \/ WriteCount(t) \/ CreateErrorReport(t)
      PROVE  LimitInv'
  <2>1. Writing' = Writing
    BY <1>3, <1>a DEF ReadCount, WriteCount, CreateErrorReport, Report, Writing
  <2> QED
    BY <1>3, <1>b, <2>1 DEF ReadCount, WriteCount, CreateErrorReport
<1>4. ASSUME Refuse \/ UNCHANGED reporterVars PROVE LimitInv'
  BY <1>4, <1>b DEF Refuse, reporterVars, Writing
<1> QED
  BY <1>1, <1>2, <1>3, <1>4, ReporterMoves DEF ReporterStep

LEMMA ReportsInit == Init => CountInv /\ LimitInv
<1> SUFFICES ASSUME Init PROVE CountInv /\ LimitInv
  OBVIOUS
<1>1. Counted = {} /\ Writing = {}
  BY DEF Init, ReporterInit, Counted, Writing
<1> QED
  BY <1>1, FS_EmptySet, ReporterAssumption DEF Init, ReporterInit, CountInv, LimitInv

\* Only the end of finalize_reports leads to the termination of the sessions.
LEMMA FinalizeLeads ==
    ASSUME TypeOK, Next, pc[Main] = "finalize", pc'[Main] = "terminate"
    PROVE  NoneInProgress
<1>a. Main \in Threads /\ pc \in [Threads -> PCs]
  BY ManagerAssumption DEF TypeOK, ThreadTypeOK
<1> QED
  BY <1>a DEF Next, Step, MainStep, Diagnose,
     CallCreate, CheckStarted, MarkStarted, Install, StopService, CallConnect, Obtain, ReadPorts,
     LockPorts, ChoosePort, NothingFound, AddPort, Connect, Register, CallTerminateAll,
     RefuseReports, FinalizeReports, TerminateSession, ForgetSessions, ClosePorts, ResetPorts,
     ServerListens, ServerCloses, Begin, Goto, End

\* finalize_reports returns only when no report it should wait for is in progress,
\* unless an update of the unlocked counter was lost.
THEOREM FinalizedMeansDoneHolds == Spec => FinalizedMeansDone
<1>1. TypeOK /\ CountInv /\ [Next]_vars
        => [pc[Main] = "finalize" /\ pc'[Main] = "terminate" => Counted = {} \/ torn]_vars
  <2> SUFFICES ASSUME TypeOK, CountInv, Next, pc[Main] = "finalize", pc'[Main] = "terminate", ~torn
               PROVE  Counted = {}
    OBVIOUS
  <2>1. requestCount <= 0
    BY FinalizeLeads DEF NoneInProgress
  <2>2. Cardinality(Counted) = 0
    BY <2>1, ThreadSets DEF CountInv
  <2> QED
    BY <2>2, ThreadSets, FS_EmptySet
<1> QED
  BY <1>1, ReportsInit, CountNext, TypesInit, TypesNext, PTL DEF Spec, FinalizedMeansDone

\* There are never more reports than the reporter was made for.
THEOREM ReportsAreLimitedHolds == Spec => []ReportsAreLimited
<1>1. TypeOK /\ LimitInv => ReportsAreLimited
  BY ThreadSets, ReporterAssumption DEF LimitInv, ReportsAreLimited, TypeOK, ReporterTypeOK
<1> QED
  BY <1>1, ReportsInit, LimitNext, TypesInit, TypesNext, PTL DEF Spec

------------------------------------------------------------------------------
(* The servers *)

\* What a call is for shows where it can be.
Purpose ==
    \A t \in Threads :
      /\ frame[t].for = "none" <=> pc[t] \in Terminating \cup {"idle", "closePorts"}
      /\ pc[t] \in {"service", "mark", "install", "register"} => frame[t].for = "create"
      /\ pc[t] \in {"obtain", "connect"} => frame[t].for \in {"create", "connect"}
      /\ pc[t] = "reset" => frame[t].for = "close"

LEMMA PurposeNext == TypeOK /\ Purpose /\ [Next]_vars => Purpose'
<1> SUFFICES ASSUME TypeOK, Purpose, [Next]_vars PROVE Purpose'
  OBVIOUS
<1>a. Main \in Threads /\ pc \in [Threads -> PCs] /\ frame \in [Threads -> Frames]
  BY ManagerAssumption DEF TypeOK, ThreadTypeOK
<1>b. ASSUME NEW t \in Threads,
             \A u \in Threads \ {t} : pc'[u] = pc[u] /\ frame'[u] = frame[u],
             frame'[t].for = "none" <=> pc'[t] \in Terminating \cup {"idle", "closePorts"},
             pc'[t] \in {"service", "mark", "install", "register"} => frame'[t].for = "create",
             pc'[t] \in {"obtain", "connect"} => frame'[t].for \in {"create", "connect"},
             pc'[t] = "reset" => frame'[t].for = "close"
      PROVE  Purpose'
  BY <1>b DEF Purpose
<1>c. \A t \in Threads : End(t) => Purpose'
  <2> SUFFICES ASSUME NEW t \in Threads, End(t) PROVE Purpose'
    OBVIOUS
  <2>1. pc'[t] = "idle" /\ frame'[t].for = "none"
    BY <1>a DEF End, Empty, Frame
  <2> QED
    BY <1>a, <1>b, <2>1 DEF End
<1>1. ASSUME NEW t \in Threads, CallCreate(t) \/ CallConnect(t) PROVE Purpose'
  <2>1. \/ pc' = [pc EXCEPT ![t] = "service"] /\ frame'[t].for = "create"
        \/ pc' = [pc EXCEPT ![t] = "obtain"] /\ frame'[t].for = "connect"
    <3>1. CASE CallCreate(t)
      <4>1. PICK q : frame' = [frame EXCEPT ![t] = Frame("create", 0, q)]
        BY <3>1 DEF CallCreate
      <4>2. Frame("create", 0, q).for = "create"
        BY DEF Frame
      <4>3. frame'[t].for = "create"
        BY <1>a, <4>1, <4>2
      <4>4. pc' = [pc EXCEPT ![t] = "service"]
        BY <3>1 DEF CallCreate, Begin
      <4> QED
        BY <4>3, <4>4
    <3>2. CASE CallConnect(t)
      BY <1>a, <3>2 DEF CallConnect, Begin, Frame
    <3> QED
      BY <1>1, <3>1, <3>2
  <2>2. \A u \in Threads \ {t} : pc'[u] = pc[u] /\ frame'[u] = frame[u]
    BY <1>1, <1>a DEF CallCreate, CallConnect, Begin
  <2> QED
    BY <1>a, <1>b, <2>1, <2>2 DEF Terminating
<1>2. ASSUME NEW t \in Threads, CheckStarted(t) \/ MarkStarted(t) \/ LockPorts(t) PROVE Purpose'
  BY <1>2, <1>a DEF CheckStarted, MarkStarted, LockPorts, Goto, Purpose, Terminating
<1>3. ASSUME NEW t \in Threads, Install(t) \/ Register(t) PROVE Purpose'
  BY <1>3, <1>a, <1>c DEF Install, Register, Goto, Purpose, Terminating
<1>4. ASSUME NEW t \in Threads, Obtain(t) \/ ReadPorts(t) PROVE Purpose'
  <2>1. frame'[t].for = frame[t].for
    BY <1>4, <1>a DEF Obtain, ReadPorts, Goto, Frames
  <2> QED
    BY <1>4, <1>a, <2>1 DEF Obtain, ReadPorts, Goto, Purpose, Terminating
<1>5. ASSUME NEW t \in Threads, ChoosePort(t) PROVE Purpose'
  <2>1. CASE End(t)
    BY <1>c, <2>1
  <2>2. CASE ~End(t)
    <3>1. frame'[t].for = frame[t].for
      BY <1>5, <1>a, <2>2 DEF ChoosePort, NothingFound, Goto, Frames
    <3> QED
      BY <1>5, <1>a, <2>2, <3>1 DEF ChoosePort, NothingFound, Goto, Purpose, Terminating
  <2> QED
    BY <2>1, <2>2
<1>6. ASSUME NEW t \in Threads, AddPort(t) PROVE Purpose'
  <2>1. frame'[t].for = frame[t].for
    BY <1>6, <1>a DEF AddPort, Goto, Frame, Frames
  <2>2. frame[t].for \in {"create", "connect", "close"}
    BY <1>6, <1>a, FrameParts DEF AddPort, Purpose, Terminating
  <2> QED
    BY <1>6, <1>a, <2>1, <2>2 DEF AddPort, Goto, Purpose, Terminating
<1>7. ASSUME NEW t \in Threads, Connect(t) PROVE Purpose'
  <2>1. CASE End(t)
    BY <1>c, <2>1
  <2>2. CASE ~End(t)
    <3>1. frame[t].for = "create" /\ frame'[t].for = "create"
      BY <1>7, <1>a, <2>2 DEF Connect, Frames
    <3> QED
      BY <1>7, <1>a, <2>2, <3>1 DEF Connect, Purpose, Terminating
  <2> QED
    BY <2>1, <2>2
<1>8. ASSUME StopService \/ CallTerminateAll \/ RefuseReports \/ FinalizeReports \/ ForgetSessions
      PROVE  Purpose'
  BY <1>8, <1>a DEF StopService, CallTerminateAll, RefuseReports, FinalizeReports, ForgetSessions,
                    Begin, Goto, Purpose, Terminating
<1>9. ASSUME TerminateSession \/ ResetPorts PROVE Purpose'
  BY <1>9, <1>a, <1>c DEF TerminateSession, ResetPorts, Goto, Purpose, Terminating
<1>10. ASSUME ClosePorts PROVE Purpose'
  <2>1. frame'[Main].for = "close" /\ pc'[Main] = "readPorts"
    BY <1>10, <1>a DEF ClosePorts, Frame
  <2> QED
    BY <1>10, <1>a, <1>b, <2>1 DEF ClosePorts, Terminating
<1>11. ASSUME UNCHANGED <<pc, frame>> PROVE Purpose'
  BY <1>11 DEF Purpose
<1> QED
  BY <1>1, <1>2, <1>3, <1>4, <1>5, <1>6, <1>7, <1>8, <1>9, <1>10, <1>11, ManagerAssumption
     DEF Next, Step, MainStep, Diagnose, ServerListens, ServerCloses, vars

\* The session in the making has the port of those that are managed, if there are
\* any when it asks for a server; once it looks for another, there are none, and
\* nobody else can add one.  A managed session keeps its port.
CreatesWell(t) ==
    /\ pc[t] \in {"service", "mark", "install", "obtain", "connect", "register"} =>
         \A s \in sessions : portOf[s] = frame[t].port
    /\ pc[t] \in {"readPorts", "lockPorts", "choose", "add"} => sessions = {}
    /\ pc[t] = "register" =>
         frame[t].session \notin sessions /\ portOf[frame[t].session] = frame[t].port
ConnectsWell(t) ==
    /\ frame[t].session \in 1..created
    /\ \/ frame[t].session \notin sessions
       \/ pc[t] \in {"obtain", "connect"} /\ frame[t].port = portOf[frame[t].session]
    /\ \A u \in Threads : pc[u] = "register" => frame[u].session # frame[t].session
Servers ==
    crossed \/ /\ \A t, u \in Threads :
                    frame[t].for = "create" /\ frame[u].for = "create" => t = u
               /\ \A s, r \in sessions : portOf[s] = portOf[r]
               /\ \A t \in Threads : frame[t].for = "create" => CreatesWell(t)
               /\ \A t \in Threads : frame[t].for = "connect" => ConnectsWell(t)

\* A step of one thread, which no other can see.
LEMMA ServersMove ==
    ASSUME Servers, UNCHANGED <<crossed, sessions, portOf, created>>, NEW t \in Threads,
           \A u \in Threads \ {t} : pc'[u] = pc[u] /\ frame'[u] = frame[u],
           frame'[t].for \in {"create", "connect"} => frame'[t].for = frame[t].for,
           pc'[t] # "register",
           ~crossed /\ frame'[t].for = "create" /\ CreatesWell(t) => CreatesWell(t)',
           ~crossed /\ frame'[t].for = "connect" /\ ConnectsWell(t) =>
             /\ frame'[t].session = frame[t].session
             /\ \/ frame[t].session \notin sessions
                \/ pc'[t] \in {"obtain", "connect"} /\ frame'[t].port = frame[t].port
    PROVE  Servers'
<1> SUFFICES ASSUME ~crossed PROVE Servers'
  BY DEF Servers
<1>1. ASSUME NEW u \in Threads, frame'[u].for = "create" PROVE CreatesWell(u)'
  BY <1>1 DEF Servers, CreatesWell
<1>2. ASSUME NEW u \in Threads, pc'[u] = "register"
      PROVE  pc[u] = "register" /\ frame'[u].session = frame[u].session
  BY <1>2
<1>3. ASSUME NEW u \in Threads, frame'[u].for = "connect" PROVE ConnectsWell(u)'
  BY <1>2, <1>3 DEF Servers, ConnectsWell
<1>4. ASSUME NEW u \in Threads, frame'[u].for = "create" PROVE frame[u].for = "create"
  BY <1>4
<1> QED
  BY <1>1, <1>3, <1>4 DEF Servers

LEMMA ServersNext == TypeOK /\ Purpose /\ Servers /\ [Next]_vars => Servers'
<1> SUFFICES ASSUME TypeOK, Purpose, Servers, [Next]_vars PROVE Servers'
  OBVIOUS
<1>a. Main \in Threads /\ pc \in [Threads -> PCs] /\ frame \in [Threads -> Frames]
      /\ created \in Nat
  BY ManagerAssumption DEF TypeOK, ThreadTypeOK, ManagerTypeOK
<1>b. sessions \subseteq 1..created /\ live \subseteq 1..created
      /\ portOf \in [1..MaxSessions -> Ports \cup {0}] /\ created \in 0..MaxSessions
  BY DEF TypeOK, ManagerTypeOK
<1>c. ASSUME NEW t \in Threads, End(t), UNCHANGED <<crossed, sessions, portOf, created>>
      PROVE  Servers'
  <2>1. pc'[t] = "idle" /\ frame'[t].for = "none"
    BY <1>a, <1>c DEF End, Empty, Frame
  <2>2. \A u \in Threads \ {t} : pc'[u] = pc[u] /\ frame'[u] = frame[u]
    BY <1>a, <1>c DEF End
  <2> QED
    BY <1>c, <2>1, <2>2, ServersMove
<1>1. ASSUME NEW t \in Threads, CallCreate(t) PROVE Servers'
  <2>1. CASE crossed'
    BY <2>1 DEF Servers
  <2>2. CASE ~crossed'
    <3>1. ~crossed /\ \A u \in Threads : frame[u].for # "create"
      BY <1>1, <2>2 DEF CallCreate, Creating, Purpose
    <3>2. /\ pc' = [pc EXCEPT ![t] = "service"] /\ UNCHANGED <<sessions, portOf, created>>
          /\ frame' = [frame EXCEPT ![t] =
               Frame("create", 0, IF sessions = {} THEN 0 ELSE portOf[Min(sessions)])]
      BY <1>1 DEF CallCreate, Begin, manager
    <3>3. sessions # {} => Min(sessions) \in sessions
      BY <1>b, MinIsMember
    <3>4. CreatesWell(t)'
      BY <1>a, <3>1, <3>2, <3>3 DEF CreatesWell, Servers, Frame
    <3>5. \A u \in Threads \ {t} : pc'[u] = pc[u] /\ frame'[u] = frame[u]
      BY <1>a, <3>2
    <3>6. frame'[t].for = "create" /\ pc'[t] = "service"
      BY <1>a, <3>2 DEF Frame
    <3>7. ASSUME NEW u \in Threads, frame'[u].for = "connect" PROVE ConnectsWell(u)'
      BY <3>1, <3>2, <3>5, <3>6, <3>7 DEF Servers, ConnectsWell
    <3> QED
      BY <3>1, <3>2, <3>4, <3>5, <3>6, <3>7 DEF Servers
  <2> QED
    BY <2>1, <2>2
<1>2. ASSUME NEW t \in Threads, CallConnect(t) PROVE Servers'
  <2> SUFFICES ASSUME ~crossed PROVE Servers'
    BY <1>2 DEF CallConnect, Servers
  <2>1. PICK s \in live : /\ s \notin {frame[u].session : u \in Creating}
                          /\ frame' = [frame EXCEPT ![t] = Frame("connect", s, portOf[s])]
    BY <1>2 DEF CallConnect
  <2>2. /\ pc' = [pc EXCEPT ![t] = "obtain"]
        /\ UNCHANGED <<crossed, sessions, portOf, created>>
    BY <1>2 DEF CallConnect, Begin, manager
  <2>3. \A u \in Threads \ {t} : pc'[u] = pc[u] /\ frame'[u] = frame[u]
    BY <1>a, <2>1, <2>2
  <2>4. /\ pc'[t] = "obtain" /\ frame'[t].for = "connect" /\ frame'[t].session = s
        /\ frame'[t].port = portOf[s]
    BY <1>a, <2>1, <2>2 DEF Frame
  <2>5. \A u \in Threads : pc'[u] = "register" => frame'[u].session # s
    BY <2>1, <2>3, <2>4 DEF Creating, Purpose
  <2>6. ConnectsWell(t)'
    BY <1>b, <2>1, <2>2, <2>4, <2>5 DEF ConnectsWell
  <2>7. ASSUME NEW u \in Threads, frame'[u].for = "connect" PROVE ConnectsWell(u)'
    BY <2>2, <2>3, <2>4, <2>6, <2>7 DEF Servers, ConnectsWell
  <2>8. ASSUME NEW u \in Threads, frame'[u].for = "create" PROVE CreatesWell(u)'
    BY <2>2, <2>3, <2>4, <2>8 DEF Servers, CreatesWell
  <2> QED
    BY <2>2, <2>3, <2>4, <2>7, <2>8 DEF Servers
<1>3. ASSUME NEW t \in Threads, CheckStarted(t) \/ MarkStarted(t) PROVE Servers'
  <2>1. /\ \A u \in Threads \ {t} : pc'[u] = pc[u]
        /\ frame' = frame /\ UNCHANGED <<crossed, sessions, portOf, created>>
        /\ pc'[t] \in {"mark", "install", "obtain"} /\ pc[t] \in {"service", "mark"}
    BY <1>3, <1>a DEF CheckStarted, MarkStarted, Goto, manager, history
  <2>2. frame[t].for = "create"
    BY <2>1 DEF Purpose
  <2> QED
    BY <2>1, <2>2, ServersMove DEF CreatesWell
<1>4. ASSUME NEW t \in Threads, Install(t) PROVE Servers'
  <2>1. CASE End(t)
    BY <1>4, <1>c, <2>1 DEF Install, manager, history
  <2>2. CASE Goto(t, "obtain")
    <3>1. /\ \A u \in Threads \ {t} : pc'[u] = pc[u]
          /\ frame' = frame /\ UNCHANGED <<crossed, sessions, portOf, created>>
          /\ pc'[t] = "obtain" /\ pc[t] = "install"
      BY <1>4, <1>a, <2>2 DEF Install, Goto, manager, history
    <3>2. frame[t].for = "create"
      BY <3>1 DEF Purpose
    <3> QED
      BY <3>1, <3>2, ServersMove DEF CreatesWell
  <2> QED
    BY <1>4, <2>1, <2>2 DEF Install
<1>5. ASSUME NEW t \in Threads, Obtain(t) PROVE Servers'
  <2>1. /\ \A u \in Threads \ {t} : pc'[u] = pc[u] /\ frame'[u] = frame[u]
        /\ UNCHANGED <<crossed, sessions, portOf, created>> /\ pc[t] = "obtain"
        /\ frame'[t].for = frame[t].for /\ frame'[t].session = frame[t].session
        /\ frame'[t].port = frame[t].port
    BY <1>5, <1>a DEF Obtain, Goto, Frames, manager, history
  <2>2. CASE pc'[t] = "connect"
    BY <2>1, <2>2, ServersMove DEF CreatesWell
  <2>3. CASE /\ frame[t].port \notin {portOf[s] : s \in sessions} /\ pc'[t] = "readPorts"
    BY <2>1, <2>3, ServersMove DEF CreatesWell, ConnectsWell
  <2> QED
    BY <1>5, <1>a, <2>2, <2>3 DEF Obtain, Goto
<1>6. ASSUME NEW t \in Threads, ReadPorts(t) \/ LockPorts(t) \/ (ChoosePort(t) /\ ~End(t))
      PROVE  Servers'
  <2>1. /\ \A u \in Threads \ {t} : pc'[u] = pc[u] /\ frame'[u] = frame[u]
        /\ UNCHANGED <<crossed, sessions, portOf, created>>
        /\ pc[t] \in {"readPorts", "lockPorts", "choose"}
        /\ pc'[t] \in {"readPorts", "lockPorts", "choose", "add", "reset"}
    BY <1>6, <1>a DEF ReadPorts, LockPorts, ChoosePort, NothingFound, Goto, manager, history
  <2>2. frame'[t].for = frame[t].for /\ frame'[t].session = frame[t].session
    BY <1>6, <1>a DEF ReadPorts, LockPorts, ChoosePort, NothingFound, Goto, Frames
  <2> QED
    BY <2>1, <2>2, ServersMove DEF CreatesWell, ConnectsWell
<1>7. ASSUME NEW t \in Threads, ChoosePort(t), End(t) PROVE Servers'
  BY <1>7, <1>c DEF ChoosePort, history
<1>8. ASSUME NEW t \in Threads, AddPort(t) PROVE Servers'
  <2>1. /\ \A u \in Threads \ {t} : pc'[u] = pc[u] /\ frame'[u] = frame[u]
        /\ UNCHANGED <<crossed, sessions, portOf, created>> /\ pc[t] = "add"
        /\ pc'[t] \in {"readPorts", "reset", "connect"}
    BY <1>8, <1>a DEF AddPort, Goto
  <2>2. frame'[t].for = frame[t].for /\ frame'[t].session = frame[t].session
    BY <1>8, <1>a DEF AddPort, Goto, Frame, Frames
  <2> QED
    BY <2>1, <2>2, ServersMove DEF CreatesWell, ConnectsWell
<1>9. ASSUME NEW t \in Threads, Connect(t) PROVE Servers'
  <2> SUFFICES ASSUME ~crossed PROVE Servers'
    BY <1>9 DEF Connect, history, Servers
  <2>0. /\ UNCHANGED <<crossed, sessions>> /\ pc[t] = "connect"
        /\ frame[t].for \in {"create", "connect"}
    BY <1>9 DEF Connect, history, Purpose
  <2>1. CASE End(t) /\ UNCHANGED <<created, live, portOf>>
    BY <1>9, <1>c, <2>0, <2>1
  <2>2. CASE /\ frame[t].for = "connect" /\ End(t) /\ UNCHANGED created
             /\ portOf' = [portOf EXCEPT ![frame[t].session] = frame[t].port]
    <3>1. pc'[t] = "idle" /\ frame'[t].for = "none"
      BY <1>a, <2>2 DEF End, Empty, Frame
    <3>2. \A u \in Threads \ {t} : pc'[u] = pc[u] /\ frame'[u] = frame[u]
      BY <1>a, <2>2 DEF End
    <3>3. ConnectsWell(t)
      BY <2>2 DEF Servers
    <3>4. \A s \in sessions : portOf'[s] = portOf[s]
      BY <1>b, <2>2, <3>3 DEF ConnectsWell
    <3>5. \A u \in Threads : pc[u] = "register" =>
            portOf'[frame[u].session] = portOf[frame[u].session]
      BY <1>b, <2>2, <3>3 DEF ConnectsWell, TypeOK, ThreadTypeOK
    <3>6. ASSUME NEW u \in Threads, frame'[u].for = "create" PROVE CreatesWell(u)'
      BY <2>0, <3>1, <3>2, <3>4, <3>5, <3>6 DEF Servers, CreatesWell
    <3>7. ASSUME NEW u \in Threads, frame'[u].for = "connect" PROVE ConnectsWell(u)'
      BY <2>0, <2>2, <3>1, <3>2, <3>4, <3>7 DEF Servers, ConnectsWell
    <3> QED
      BY <2>0, <3>1, <3>2, <3>4, <3>6, <3>7 DEF Servers
  <2>3. CASE /\ frame[t].for = "create" /\ created < MaxSessions
             /\ created' = created + 1
             /\ portOf' = [portOf EXCEPT ![created + 1] = frame[t].port]
             /\ pc' = [pc EXCEPT ![t] = "register"]
             /\ frame' = [frame EXCEPT ![t].session = created + 1]
    <3>1. /\ pc'[t] = "register" /\ frame'[t].for = "create" /\ frame'[t].session = created + 1
          /\ frame'[t].port = frame[t].port
      BY <1>a, <2>3 DEF Frames
    <3>2. \A u \in Threads \ {t} : pc'[u] = pc[u] /\ frame'[u] = frame[u]
      BY <1>a, <2>3
    <3>3. created + 1 \in 1..MaxSessions /\ created + 1 \notin 1..created
          /\ 1..created \subseteq 1..created'
      BY <1>a, <2>3, ManagerAssumption
    <3>4. /\ \A s \in 1..created : portOf'[s] = portOf[s]
          /\ portOf'[created + 1] = frame[t].port
      BY <1>b, <2>3, <3>3
    <3>5. CreatesWell(t)'
      BY <1>b, <2>0, <2>3, <3>1, <3>3, <3>4 DEF Servers, CreatesWell
    <3>6. \A u \in Threads : frame'[u].for = "create" => u = t
      BY <2>3, <3>2 DEF Servers
    <3>7. ASSUME NEW u \in Threads, frame'[u].for = "connect" PROVE ConnectsWell(u)'
      <4>1. u # t /\ ConnectsWell(u) /\ pc'[u] = pc[u] /\ frame'[u] = frame[u]
        BY <3>1, <3>2, <3>7 DEF Servers
      <4>2. frame[u].session \in 1..created /\ frame[u].session # created + 1
        BY <3>3, <4>1 DEF ConnectsWell
      <4> QED
        BY <2>0, <3>1, <3>2, <3>3, <3>4, <4>1, <4>2 DEF ConnectsWell
    <3>8. \A s, r \in sessions : portOf'[s] = portOf'[r]
      BY <1>b, <3>4 DEF Servers
    <3> QED
      BY <2>0, <3>5, <3>6, <3>7, <3>8 DEF Servers
  <2> QED
    BY <1>9, <2>0, <2>1, <2>2, <2>3 DEF Connect
<1>10. ASSUME NEW t \in Threads, Register(t) PROVE Servers'
  <2> SUFFICES ASSUME ~crossed PROVE Servers'
    BY <1>10 DEF Register, Servers
  <2>1. /\ pc[t] = "register" /\ frame[t].for = "create" /\ CreatesWell(t)
        /\ sessions' = sessions \cup {frame[t].session}
        /\ UNCHANGED <<crossed, portOf, created>>
    BY <1>10 DEF Register, Purpose, Servers
  <2>2. pc'[t] = "idle" /\ frame'[t].for = "none"
    BY <1>10, <1>a DEF Register, End, Empty, Frame
  <2>3. \A u \in Threads \ {t} : pc'[u] = pc[u] /\ frame'[u] = frame[u]
    BY <1>10, <1>a DEF Register, End
  <2>4. \A u \in Threads : frame'[u].for # "create"
    BY <2>1, <2>2, <2>3 DEF Servers
  <2>5. \A s, r \in sessions' : portOf[s] = portOf[r]
    BY <2>1 DEF Servers, CreatesWell
  <2>6. ASSUME NEW u \in Threads, frame'[u].for = "connect" PROVE ConnectsWell(u)'
    BY <2>1, <2>2, <2>3, <2>6 DEF Servers, ConnectsWell
  <2> QED
    BY <2>1, <2>4, <2>5, <2>6 DEF Servers
<1>11. ASSUME ForgetSessions PROVE Servers'
  <2>1. /\ \A u \in Threads \ {Main} : pc'[u] = pc[u]
        /\ frame' = frame /\ UNCHANGED <<crossed, portOf, created>> /\ sessions' = {}
        /\ pc[Main] = "forget" /\ pc'[Main] = "closePorts"
    BY <1>11, <1>a DEF ForgetSessions, Goto, history
  <2>2. frame[Main].for = "none"
    BY <1>a, <2>1 DEF Purpose, Terminating
  <2> QED
    BY <1>a, <2>1, <2>2 DEF Servers, CreatesWell, ConnectsWell
<1>12. ASSUME \/ StopService \/ CallTerminateAll \/ RefuseReports \/ FinalizeReports
              \/ TerminateSession /\ ~End(Main)
       PROVE  Servers'
  <2>1. /\ \A u \in Threads \ {Main} : pc'[u] = pc[u]
        /\ frame' = frame /\ UNCHANGED <<crossed, sessions, portOf, created>>
        /\ pc[Main] \in Terminating \cup {"idle"} /\ pc'[Main] # "register"
    BY <1>12, <1>a DEF StopService, CallTerminateAll, RefuseReports, FinalizeReports,
       TerminateSession, Begin, Goto, Terminating, manager, history
  <2>2. frame[Main].for = "none"
    BY <1>a, <2>1 DEF Purpose
  <2> QED
    BY <1>a, <2>1, <2>2, ServersMove
<1>13. ASSUME (TerminateSession /\ End(Main)) \/ ResetPorts PROVE Servers'
  BY <1>13, <1>a, <1>c DEF TerminateSession, ResetPorts, history
<1>14. ASSUME ClosePorts PROVE Servers'
  <2>1. /\ frame'[Main].for = "close" /\ pc'[Main] = "readPorts"
        /\ \A u \in Threads \ {Main} : pc'[u] = pc[u] /\ frame'[u] = frame[u]
    BY <1>14, <1>a DEF ClosePorts, Frame
  <2> QED
    BY <1>14, <1>a, <2>1, ServersMove DEF ClosePorts, manager, history
<1>15. ASSUME UNCHANGED <<manager, pc, frame, history>> PROVE Servers'
  BY <1>15 DEF manager, history, Servers, CreatesWell, ConnectsWell
<1>16. ASSUME NEW t \in Threads, Step(t) PROVE Servers'
  <2>1. CASE ReporterStep(t) /\ UNCHANGED <<manager, device, pc, frame, history>>
    BY <1>15, <2>1
  <2>2. CASE ChoosePort(t)
    BY <1>6, <1>7, <2>2
  <2> QED
    BY <1>3, <1>4, <1>5, <1>6, <1>8, <1>9, <1>10, <1>16, <2>1, <2>2 DEF Step
<1>17. ASSUME MainStep PROVE Servers'
  BY <1>11, <1>12, <1>13, <1>14, <1>17 DEF MainStep
<1> QED
  BY <1>1, <1>2, <1>12, <1>15, <1>16, <1>17, ManagerAssumption
     DEF Next, Diagnose, ServerListens, ServerCloses, vars

\* All managed sessions use the server of the first, as long as no two sessions
\* are created at the same time.
THEOREM OneServerHolds == Spec => []OneServer
<1>1. Init => Purpose /\ Servers
  BY DEF Init, Purpose, Servers, Empty, Frame
<1>2. Servers => OneServer
  BY DEF Servers, OneServer
<1> QED
  BY <1>1, <1>2, PurposeNext, ServersNext, TypesInit, TypesNext, PTL DEF Spec
==============================================================================
