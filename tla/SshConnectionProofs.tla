------------------------- MODULE SshConnectionProofs -------------------------
(***************************************************************************)
(* An SSH connection with any threads, attempts, masters and tunnels: no   *)
(* command runs more often than it was asked to be tried, no tunnel        *)
(* process is lost, close() closes what is on the list, and, unless a      *)
(* cleanup meets another thread, the connection knows its master and its   *)
(* directory and no call fails over one that vanished.                     *)
(***************************************************************************)
EXTENDS SshConnection, SequenceTheorems, TLAPS

------------------------------------------------------------------------------
(* The threads *)

Cleanup == Cleaning \cup {"clean"}

\* In a run, which has attempts left; and about to use another one of them.
RunningAt(label, after) ==
    \/ label \in {"setup", "check", "socket", "exists", "poll", "again", "make", "spawn",
                  "wait", "timedOut", "read", "job", "retry"}
    \/ label = "path" /\ after = "job"
    \/ label \in Cleanup /\ after # "closing"
RetryingAt(label, after) ==
    label = "retry" \/ (label \in Cleanup /\ after = "retry")

\* In the creation of a tunnel, whose ports are known.
TunnelAt(label, after) ==
    \/ label \in {"readForTunnel", "startTunnel", "list"}
    \/ label = "path" /\ after = "startTunnel"

\* How often the command may have been executed: once for every attempt that
\* is used up, and once for the one that is about to be.
Sent(label, f) == Attempts - f.attempts + (IF RetryingAt(label, f.after) THEN 1 ELSE 0)

\* A thread at a label with these locals, whose last call ended so and whose
\* command was executed n times.
Sound(label, f, how, n) ==
    /\ label \in PCs /\ f \in Frames /\ how \in Outcomes /\ n \in Nat
    /\ label \in Cleanup => f.after \in {"again", "timedOut", "retry", "closing"}
    /\ label = "path" => f.after \in {"job", "startTunnel"}
    /\ label \in {"path", "job"} => f.dns > 0
    /\ RunningAt(label, f.after) => f.attempts > 0
    /\ RetryingAt(label, f.after) => f.attempts > 1
    /\ TunnelAt(label, f.after) => f.local \in Ports /\ f.remote \in Remotes
    /\ label # "idle" => how = "none" /\ n <= Sent(label, f)
    /\ label # "idle" /\ f.attempts = 0 => n = 0
    /\ n <= Attempts

AllSound ==
    /\ pc \in [Threads -> PCs] /\ frame \in [Threads -> Frames]
    /\ outcome \in [Threads -> Outcomes] /\ executed \in [Threads -> Nat]
    /\ \A t \in Threads : Sound(pc[t], frame[t], outcome[t], executed[t])

Moves(t, label, f, how, n) ==
    /\ pc' = [pc EXCEPT ![t] = label] /\ frame' = [frame EXCEPT ![t] = f]
    /\ outcome' = [outcome EXCEPT ![t] = how] /\ executed' = [executed EXCEPT ![t] = n]

LEMMA ThreadMoves ==
    ASSUME AllSound, NEW t \in Threads, NEW label, NEW f, NEW how, NEW n,
           Moves(t, label, f, how, n), Sound(label, f, how, n)
    PROVE  AllSound'
<1>1. label \in PCs /\ f \in Frames /\ how \in Outcomes /\ n \in Nat
  BY DEF Sound
<1>2. /\ pc' \in [Threads -> PCs] /\ frame' \in [Threads -> Frames]
      /\ outcome' \in [Threads -> Outcomes] /\ executed' \in [Threads -> Nat]
  BY <1>1 DEF AllSound, Moves
<1>3. ASSUME NEW u \in Threads PROVE Sound(pc'[u], frame'[u], outcome'[u], executed'[u])
  <2>1. CASE u = t
    BY <2>1 DEF AllSound, Moves
  <2>2. CASE u # t
    <3>1. pc'[u] = pc[u] /\ frame'[u] = frame[u] /\ outcome'[u] = outcome[u]
          /\ executed'[u] = executed[u]
      BY <2>2 DEF AllSound, Moves
    <3> QED
      BY <3>1 DEF AllSound
  <2> QED
    BY <2>1, <2>2
<1> QED
  BY <1>2, <1>3 DEF AllSound

LEMMA FrameParts ==
    ASSUME NEW f \in Frames
    PROVE  /\ f.after \in PCs /\ f.attempts \in 0..Attempts /\ f.dns \in 0..2
           /\ f.local \in Ports \cup {None} /\ f.remote \in Remotes \cup {None}
           /\ f.index \in Nat /\ f.got \in Nat
BY DEF Frames

LEMMA NewFrames ==
    ASSUME NEW after \in PCs, NEW attempts \in 0..Attempts, NEW dns \in 0..2,
           NEW local \in Ports \cup {None}, NEW remote \in Remotes \cup {None}
    PROVE  LET f == Frame(after, attempts, dns, local, remote)
           IN  /\ f \in Frames /\ f.after = after /\ f.attempts = attempts /\ f.dns = dns
               /\ f.local = local /\ f.remote = remote
BY DEF Frames, Frame

Same(f, g, fields) ==
    /\ "after" \in fields => f.after = g.after
    /\ "attempts" \in fields => f.attempts = g.attempts
    /\ "dns" \in fields => f.dns = g.dns
    /\ f.local = g.local /\ f.remote = g.remote

\* The ways in which the steps change the locals of a call.
LEMMA FrameEdits ==
    ASSUME NEW f \in Frames
    PROVE  /\ \A x \in PCs : LET g == [f EXCEPT !.after = x] IN
                g \in Frames /\ g.after = x /\ Same(f, g, {"attempts", "dns"})
           /\ \A n \in 0..Attempts : LET g == [f EXCEPT !.attempts = n] IN
                g \in Frames /\ g.attempts = n /\ Same(f, g, {"after", "dns"})
           /\ \A n \in 0..2 : LET g == [f EXCEPT !.dns = n] IN
                g \in Frames /\ g.dns = n /\ Same(f, g, {"after", "attempts"})
           /\ \A n \in Nat : LET g == [f EXCEPT !.index = n] IN
                g \in Frames /\ Same(f, g, {"after", "attempts", "dns"})
           /\ \A n \in Nat : LET g == [f EXCEPT !.got = n] IN
                g \in Frames /\ g.got = n /\ Same(f, g, {"after", "attempts", "dns"})
<1>1. ASSUME NEW x \in PCs
      PROVE  LET g == [f EXCEPT !.after = x] IN
               g \in Frames /\ g.after = x /\ Same(f, g, {"attempts", "dns"})
  BY DEF Frames, Same
<1>2. ASSUME NEW n \in 0..Attempts
      PROVE  LET g == [f EXCEPT !.attempts = n] IN
               g \in Frames /\ g.attempts = n /\ Same(f, g, {"after", "dns"})
  BY DEF Frames, Same
<1>3. ASSUME NEW n \in 0..2
      PROVE  LET g == [f EXCEPT !.dns = n] IN
               g \in Frames /\ g.dns = n /\ Same(f, g, {"after", "attempts"})
  BY DEF Frames, Same
<1>4. ASSUME NEW n \in Nat
      PROVE  LET g == [f EXCEPT !.index = n] IN
               g \in Frames /\ Same(f, g, {"after", "attempts", "dns"})
  BY DEF Frames, Same
<1>5. ASSUME NEW n \in Nat
      PROVE  LET g == [f EXCEPT !.got = n] IN
               g \in Frames /\ g.got = n /\ Same(f, g, {"after", "attempts", "dns"})
  BY DEF Frames, Same
<1> QED
  BY <1>1, <1>2, <1>3, <1>4, <1>5

LEMMA FrameForSearch ==
    ASSUME NEW f \in Frames, NEW local \in Ports
    PROVE  LET g == [f EXCEPT !.local = local, !.index = 1] IN
             g \in Frames /\ g.after = f.after /\ g.attempts = f.attempts
BY DEF Frames

LEMMA FrameForMaster ==
    ASSUME NEW g \in Frames, NEW job \in PCs
    PROVE  LET f == Frame(job, g.attempts, 2, g.local, g.remote)
           IN  /\ f \in Frames /\ f.after = job /\ f.attempts = g.attempts /\ f.dns = 2
               /\ f.local = g.local /\ f.remote = g.remote
BY DEF Frames, Frame

LEMMA EmptyIsAFrame ==
    /\ Empty \in Frames /\ Empty.attempts = 0
BY SshAssumption DEF Empty, Frame, Frames, PCs, None

\* A call that ends.
LEMMA Ends ==
    ASSUME AllSound, NEW t \in Threads, NEW how \in Outcomes, NEW n \in Nat,
           End(t, how), executed' = [executed EXCEPT ![t] = n],
           n <= Attempts
    PROVE  AllSound'
<1>1. Moves(t, "idle", Empty, how, n)
  BY DEF Moves, End
<1>2. Sound("idle", Empty, how, n)
  BY EmptyIsAFrame DEF Sound, PCs, RunningAt, RetryingAt, TunnelAt, Cleanup, Cleaning
<1> QED
  BY <1>1, <1>2, ThreadMoves

\* The command was not executed in a step.
LEMMA Unexecuted ==
    ASSUME AllSound, NEW t \in Threads
    PROVE  /\ executed[t] \in Nat /\ executed[t] <= Attempts
           /\ pc[t] # "idle" => outcome[t] = "none"
           /\ UNCHANGED executed => executed' = [executed EXCEPT ![t] = executed[t]]
           /\ UNCHANGED outcome => outcome' = [outcome EXCEPT ![t] = outcome[t]]
           /\ UNCHANGED frame => frame' = [frame EXCEPT ![t] = frame[t]]
BY DEF AllSound, Sound

\* A call that goes on with the same locals, for which the label has no stricter
\* needs.
LEMMA Goes ==
    ASSUME AllSound, NEW t \in Threads, NEW label \in PCs, pc[t] # "idle", label # "idle",
           pc' = [pc EXCEPT ![t] = label], UNCHANGED <<frame, outcome, executed>>,
           RetryingAt(label, frame[t].after) <=> RetryingAt(pc[t], frame[t].after),
           RunningAt(label, frame[t].after) => RunningAt(pc[t], frame[t].after),
           TunnelAt(label, frame[t].after) => TunnelAt(pc[t], frame[t].after),
           label \in Cleanup => pc[t] \in Cleanup,
           label # "path", label = "job" => pc[t] = "path"
    PROVE  AllSound'
<1>1. Moves(t, label, frame[t], outcome[t], executed[t])
  BY Unexecuted DEF Moves
<1>2. Sound(label, frame[t], outcome[t], executed[t])
  BY DEF Sound, Sent, AllSound
<1> QED
  BY <1>1, <1>2, ThreadMoves

\* A call that goes on with other locals or another count.
LEMMA Continues ==
    ASSUME AllSound, NEW t \in Threads, NEW label \in PCs, NEW f \in Frames, NEW n \in Nat,
           pc' = [pc EXCEPT ![t] = label], frame' = [frame EXCEPT ![t] = f],
           outcome' = [outcome EXCEPT ![t] = "none"], executed' = [executed EXCEPT ![t] = n],
           Sound(label, f, "none", n)
    PROVE  AllSound'
BY ThreadMoves DEF Moves

\* A call that goes on with other locals of the same attempt.
LEMMA GoesWith ==
    ASSUME AllSound, NEW t \in Threads, NEW label \in PCs, NEW f \in Frames,
           pc[t] # "idle", label \notin {"idle", "path", "job"},
           pc' = [pc EXCEPT ![t] = label], frame' = [frame EXCEPT ![t] = f],
           UNCHANGED <<outcome, executed>>,
           f.after = frame[t].after, f.attempts = frame[t].attempts,
           ~RetryingAt(label, f.after), ~RetryingAt(pc[t], f.after),
           RunningAt(label, f.after) => RunningAt(pc[t], f.after),
           TunnelAt(label, f.after) =>
             TunnelAt(pc[t], f.after) /\ f.local = frame[t].local /\ f.remote = frame[t].remote,
           label \notin Cleanup
    PROVE  AllSound'
<1>1. Moves(t, label, f, outcome[t], executed[t])
  BY Unexecuted DEF Moves
<1>2. Sound(label, f, outcome[t], executed[t])
  BY DEF Sound, Sent, AllSound
<1> QED
  BY <1>1, <1>2, ThreadMoves

LEMMA CleansUp ==
    ASSUME AllSound, NEW t \in Threads, NEW label \in {"again", "timedOut", "retry"},
           CleanUp(t, label), NEW n \in Nat, executed' = [executed EXCEPT ![t] = n],
           pc[t] # "idle", RunningAt(pc[t], frame[t].after),
           label = "retry" => frame[t].attempts > 1,
           n <= Attempts - frame[t].attempts + (IF label = "retry" THEN 1 ELSE 0)
    PROVE  AllSound'
<1> DEFINE f == [frame[t] EXCEPT !.after = label]
<1>1. label \in PCs /\ "clean" \in PCs /\ frame[t] \in Frames
  BY DEF PCs, Using, AllSound
<1>2. f \in Frames /\ f.after = label /\ f.attempts = frame[t].attempts
  BY <1>1, FrameEdits DEF Same
<1>3. frame' = [frame EXCEPT ![t] = f] /\ pc' = [pc EXCEPT ![t] = "clean"]
      /\ outcome' = [outcome EXCEPT ![t] = "none"]
  BY Unexecuted DEF CleanUp
<1> HIDE DEF f
<1>4. f.attempts > 0 /\ f.attempts \in 0..Attempts
  BY <1>1, <1>2, FrameParts DEF AllSound, Sound
<1>5. Sound("clean", f, "none", n)
  BY <1>1, <1>2, <1>4, SshAssumption
     DEF Sound, Sent, RunningAt, RetryingAt, TunnelAt, Cleanup, Cleaning, Outcomes
<1> QED
  BY <1>1, <1>2, <1>3, <1>5, Continues

\* The call is at a label of its own, and its locals have their types.
LEMMA Here ==
    ASSUME AllSound, NEW t \in Threads
    PROVE  /\ Sound(pc[t], frame[t], outcome[t], executed[t])
           /\ frame[t] \in Frames /\ frame[t].attempts \in 0..Attempts
           /\ frame[t].dns \in 0..2 /\ frame[t].after \in PCs
BY FrameParts DEF AllSound

LEMMA SoundInit == Init => AllSound
<1> SUFFICES ASSUME Init PROVE AllSound
  OBVIOUS
<1>1. "idle" \in PCs /\ "none" \in Outcomes
  BY DEF PCs, Outcomes
<1>2. Sound("idle", Empty, "none", 0)
  BY <1>1, EmptyIsAFrame, SshAssumption
     DEF Sound, RunningAt, RetryingAt, TunnelAt, Cleanup, Cleaning
<1> QED
  BY <1>1, <1>2, EmptyIsAFrame DEF Init, AllSound

LEMMA SoundCalls ==
    ASSUME AllSound, NEW t \in Threads, Call(t)
    PROVE  AllSound'
<1> USE SshAssumption
<1>a. "none" \in Outcomes /\ {"idle", "setup", "readForTunnel", "clean", "find", "closing"} \subseteq PCs
  BY DEF Outcomes, PCs
<1>b. /\ frame[t] \in Frames
      /\ outcome' = [outcome EXCEPT ![t] = "none"] /\ executed' = [executed EXCEPT ![t] = 0]
  BY Here DEF Call, CallRun, CallTunnel, CallTunnelAt, CallCloseTunnel, CallClose, Begin
<1>1. CASE CallRun(t)
  <2> DEFINE f == [frame[t] EXCEPT !.attempts = Attempts]
  <2>1. f \in Frames /\ f.attempts = Attempts
    <3>1. Attempts \in 0..Attempts
      OBVIOUS
    <3> QED
      BY <1>b, <3>1, FrameEdits
  <2>2. pc' = [pc EXCEPT ![t] = "setup"] /\ frame' = [frame EXCEPT ![t] = f]
    BY <1>1 DEF CallRun
  <2> HIDE DEF f
  <2>3. Sound("setup", f, "none", 0)
    BY <1>a, <2>1 DEF Sound, Sent, RunningAt, RetryingAt, TunnelAt, Cleanup, Cleaning
  <2> QED
    BY <1>a, <1>b, <2>1, <2>2, <2>3, Continues
<1>2. ASSUME NEW local \in Ports, NEW remote \in Remotes,
             pc' = [pc EXCEPT ![t] = "readForTunnel"],
             frame' = [frame EXCEPT ![t] = Tunnel(local, remote)]
      PROVE  AllSound'
  <2> DEFINE f == Tunnel(local, remote)
  <2>1. f \in Frames /\ f.attempts = 0 /\ f.local = local /\ f.remote = remote
    BY <1>a, NewFrames DEF Tunnel
  <2>3. pc' = [pc EXCEPT ![t] = "readForTunnel"] /\ frame' = [frame EXCEPT ![t] = f]
    BY <1>2
  <2> HIDE DEF f
  <2>2. Sound("readForTunnel", f, "none", 0)
    BY <1>a, <2>1 DEF Sound, Sent, RunningAt, RetryingAt, TunnelAt, Cleanup, Cleaning
  <2> QED
    <3>1. f \in Frames /\ "readForTunnel" \in PCs /\ 0 \in Nat
      BY <1>a, <2>1
    <3> QED
      BY <1>b, <2>2, <2>3, <3>1, Continues
<1>3. CASE CallTunnel(t)
  BY <1>2, <1>3 DEF CallTunnel
<1>4. CASE CallTunnelAt(t)
  <2>1. CASE UNCHANGED <<pc, frame>>
    <3>1. pc[t] = "idle"
      BY <1>4 DEF CallTunnelAt, Begin
    <3>2. Moves(t, "idle", frame[t], "none", 0)
      BY <1>b, <2>1, <3>1 DEF Moves, AllSound
    <3>3. Sound("idle", frame[t], "none", 0)
      BY <1>a, <1>b DEF Sound, RunningAt, RetryingAt, TunnelAt, Cleanup, Cleaning
    <3> QED
      BY <3>2, <3>3, ThreadMoves
  <2> QED
    BY <1>2, <1>4, <2>1 DEF CallTunnelAt
<1>5. CASE CallCloseTunnel(t)
  <2>1. PICK local \in Ports : Search(t, local)
    BY <1>5 DEF CallCloseTunnel
  <2> DEFINE f == [frame[t] EXCEPT !.local = local, !.index = 1]
  <2>2. f \in Frames /\ f.attempts \in 0..Attempts
    BY <1>b, FrameForSearch, FrameParts
  <2>3. pc' = [pc EXCEPT ![t] = "find"] /\ frame' = [frame EXCEPT ![t] = f]
    BY <2>1 DEF Search
  <2> HIDE DEF f
  <2>4. Sound("find", f, "none", 0)
    BY <1>a, <2>2 DEF Sound, Sent, RunningAt, RetryingAt, TunnelAt, Cleanup, Cleaning
  <2> QED
    BY <1>a, <1>b, <2>2, <2>3, <2>4, Continues
<1>6. CASE CallClose(t)
  <2> DEFINE f == [frame[t] EXCEPT !.after = "closing"]
  <2>1. f \in Frames /\ f.after = "closing" /\ f.attempts \in 0..Attempts
    BY <1>a, <1>b, FrameEdits, FrameParts
  <2>2. pc' = [pc EXCEPT ![t] = "clean"] /\ frame' = [frame EXCEPT ![t] = f]
    BY <1>6 DEF CallClose
  <2> HIDE DEF f
  <2>3. Sound("clean", f, "none", 0)
    BY <1>a, <2>1 DEF Sound, Sent, RunningAt, RetryingAt, TunnelAt, Cleanup, Cleaning
  <2> QED
    BY <1>a, <1>b, <2>1, <2>2, <2>3, Continues
<1> QED
  BY <1>1, <1>3, <1>4, <1>5, <1>6 DEF Call

\* Steps that go on with the same locals, or end the call.
LEMMA SoundPlainSteps ==
    ASSUME AllSound, NEW t \in Threads,
           \/ LockSetup(t) \/ Check(t) \/ FindSocket(t) \/ Poll(t) \/ CheckAgain(t)
           \/ MakeDir(t) \/ Spawn(t) \/ WaitForSocket(t) \/ SetupFails(t)
           \/ Clean(t) \/ Kill(t) \/ Reap(t) \/ Forget(t)
           \/ RemoveTree(t) \/ ForgetTree(t) \/ ReadPath(t) \/ JobRefused(t) \/ JobTimesOut(t)
           \/ JobAnswers(t) \/ ListTunnel(t) \/ CloseTunnels(t) \/ KillTunnel(t)
    PROVE  AllSound'
<1> USE SshAssumption
<1>a. Sound(pc[t], frame[t], outcome[t], executed[t])
  BY DEF AllSound
<1>b. /\ frame[t] \in Frames /\ frame[t].attempts \in 0..Attempts /\ executed[t] \in Nat
      /\ UNCHANGED executed => executed' = [executed EXCEPT ![t] = executed[t]]
  BY Here, Unexecuted
<1>c. {"none", "answered", "returned", "JobError", "TimeoutError", "Error", "NoneError",
       "NotFound", "IndexError"} = Outcomes
  BY DEF Outcomes
<1>d. PCs = {"kill", "reap", "forget", "tree", "forgetTree", "socket", "exists", "poll",
             "make", "spawn", "wait", "path", "idle", "setup", "check", "again", "timedOut",
             "clean", "read", "readForTunnel", "job", "retry", "startTunnel", "list",
             "closing", "first", "find", "pop", "killTunnel"}
  BY DEF PCs, Cleaning, Using
\* Ends before the command was sent.
<1>1. ASSUME NEW how \in Outcomes, End(t, how), UNCHANGED executed
      PROVE  AllSound'
  <2>1. executed[t] <= Attempts
    BY Unexecuted
  <2> QED
    BY <1>1, <1>b, <2>1, Ends
<1>2. ASSUME pc[t] = "job" PROVE executed[t] + 1 \in Nat /\ executed[t] + 1 <= Attempts - frame[t].attempts + 1
                                 /\ executed[t] + 1 <= Attempts
  <2>1. executed[t] <= Attempts - frame[t].attempts /\ frame[t].attempts > 0
    BY <1>2, <1>a, <1>b DEF Sound, Sent, RunningAt, RetryingAt, Cleanup, Cleaning
  <2> QED
    BY <2>1, <1>b
<1>3. ASSUME NEW how \in Outcomes, End(t, how), MayHaveRun(t), pc[t] = "job"
      PROVE  AllSound'
  <2>1. CASE UNCHANGED executed
    BY <1>1, <1>3, <2>1
  <2>2. CASE Executed(t)
    BY <1>2, <1>3, <2>2, Ends DEF Executed
  <2> QED
    BY <1>3, <2>1, <2>2 DEF MayHaveRun
<1> DEFINE Fits(label) ==
      /\ RetryingAt(label, frame[t].after) <=> RetryingAt(pc[t], frame[t].after)
      /\ RunningAt(label, frame[t].after) => RunningAt(pc[t], frame[t].after)
      /\ TunnelAt(label, frame[t].after) => TunnelAt(pc[t], frame[t].after)
      /\ label \in Cleanup => pc[t] \in Cleanup
<1>4. ASSUME NEW label \in PCs, pc' = [pc EXCEPT ![t] = label],
             UNCHANGED <<frame, outcome, executed>>, pc[t] # "idle", label # "idle",
             Fits(label), label # "path", label = "job" => pc[t] = "path"
      PROVE  AllSound'
  BY <1>4, Goes
<1> HIDE DEF Fits
<1>5. CASE LockSetup(t)
  <2>1. Fits("check")
    BY <1>5 DEF Fits, LockSetup, RunningAt, RetryingAt, TunnelAt, Cleanup, Cleaning
  <2> QED
    BY <1>5, <1>1, <1>4, <1>c, <1>d, <2>1 DEF LockSetup, Goto
<1>6. CASE Check(t)
  <2>1. Fits("make") /\ Fits("socket")
    BY <1>6 DEF Fits, Check, RunningAt, RetryingAt, TunnelAt, Cleanup, Cleaning
  <2> QED
    BY <1>6, <1>4, <1>d, <2>1 DEF Check, Goto
<1>6a. CASE FindSocket(t)
  <2>1. Fits("poll")
    BY <1>6a DEF Fits, FindSocket, RunningAt, RetryingAt, TunnelAt, Cleanup, Cleaning
  <2>2. CASE CleanUp(t, "again")
    <3>1. RunningAt(pc[t], frame[t].after) /\ executed[t] <= Attempts - frame[t].attempts
      BY <1>6a, <1>a, <1>b DEF FindSocket, Sound, Sent, RunningAt, RetryingAt, Cleanup, Cleaning
    <3> QED
      BY <1>6a, <1>b, <2>2, <3>1, CleansUp DEF FindSocket
  <2> QED
    BY <1>6a, <1>4, <1>d, <2>1, <2>2 DEF FindSocket, Goto
<1>6b. CASE Poll(t)
  <2>1. Fits("again")
    BY <1>6b DEF Fits, Poll, RunningAt, RetryingAt, TunnelAt, Cleanup, Cleaning
  <2>2. CASE CleanUp(t, "again")
    <3>1. RunningAt(pc[t], frame[t].after) /\ executed[t] <= Attempts - frame[t].attempts
      BY <1>6b, <1>a, <1>b DEF Poll, Sound, Sent, RunningAt, RetryingAt, Cleanup, Cleaning
    <3> QED
      BY <1>6b, <1>b, <2>2, <3>1, CleansUp DEF Poll
  <2> QED
    BY <1>6b, <1>1, <1>4, <1>c, <1>d, <2>1, <2>2 DEF Poll, Goto
<1>6c. CASE CheckAgain(t)
  <2>1. Fits("make") /\ Fits("read")
    BY <1>6c DEF Fits, CheckAgain, RunningAt, RetryingAt, TunnelAt, Cleanup, Cleaning
  <2> QED
    BY <1>6c, <1>4, <1>d, <2>1 DEF CheckAgain, Goto, Unlock
<1>7. CASE MakeDir(t)
  <2>1. Fits("spawn")
    BY <1>7 DEF Fits, MakeDir, RunningAt, RetryingAt, TunnelAt, Cleanup, Cleaning
  <2> QED
    BY <1>7, <1>1, <1>4, <1>c, <1>d, <2>1 DEF MakeDir, Goto
<1>8. CASE Spawn(t)
  <2>1. Fits("wait")
    BY <1>8 DEF Fits, Spawn, RunningAt, RetryingAt, TunnelAt, Cleanup, Cleaning
  <2> QED
    BY <1>8, <1>1, <1>4, <1>c, <1>d, <2>1 DEF Spawn, Goto
<1>9. CASE WaitForSocket(t)
  <2>1. Fits("read")
    BY <1>9 DEF Fits, WaitForSocket, RunningAt, RetryingAt, TunnelAt, Cleanup, Cleaning
  <2>2. CASE CleanUp(t, "timedOut")
    <3>1. RunningAt(pc[t], frame[t].after) /\ executed[t] <= Attempts - frame[t].attempts
      BY <1>9, <1>a, <1>b DEF WaitForSocket, Sound, Sent, RunningAt, RetryingAt, Cleanup, Cleaning
    <3> QED
      BY <1>9, <1>b, <2>2, <3>1, CleansUp DEF WaitForSocket
  <2> QED
    BY <1>9, <1>1, <1>4, <1>c, <1>d, <2>1, <2>2 DEF WaitForSocket, Unlock
<1>10. CASE SetupFails(t)
  <2>1. Fits("read")
    BY <1>10 DEF Fits, SetupFails, RunningAt, RetryingAt, TunnelAt, Cleanup, Cleaning
  <2> QED
    BY <1>10, <1>1, <1>4, <1>c, <1>d, <2>1 DEF SetupFails, Goto, Unlock
<1>11. CASE Clean(t)
  <2>1. Fits("kill") /\ Fits("tree")
    BY <1>11 DEF Fits, Clean, RunningAt, RetryingAt, TunnelAt, Cleanup, Cleaning
  <2> QED
    BY <1>11, <1>1, <1>4, <1>c, <1>d, <2>1 DEF Clean, Goto
<1>12. CASE Kill(t)
  <2>1. Fits("reap")
    BY <1>12 DEF Fits, Kill, RunningAt, RetryingAt, TunnelAt, Cleanup, Cleaning
  <2> QED
    BY <1>12, <1>1, <1>4, <1>c, <1>d, <2>1 DEF Kill, Goto
<1>13. CASE Reap(t)
  <2>1. Fits("forget")
    BY <1>13 DEF Fits, Reap, RunningAt, RetryingAt, TunnelAt, Cleanup, Cleaning
  <2> QED
    BY <1>13, <1>1, <1>4, <1>c, <1>d, <2>1 DEF Reap, Goto
<1>14. CASE Forget(t)
  <2>1. Fits("tree")
    BY <1>14 DEF Fits, Forget, RunningAt, RetryingAt, TunnelAt, Cleanup, Cleaning
  <2> QED
    BY <1>14, <1>1, <1>4, <1>c, <1>d, <2>1 DEF Forget, Goto
<1>15. CASE RemoveTree(t)
  <2>1. frame[t].after \in {"again", "timedOut", "retry", "closing"}
    BY <1>15, <1>a DEF RemoveTree, Sound, Cleanup, Cleaning
  <2>2. Fits(frame[t].after) /\ Fits("forgetTree")
    BY <1>15, <2>1 DEF Fits, RemoveTree, RunningAt, RetryingAt, TunnelAt, Cleanup, Cleaning
  <2> QED
    BY <1>15, <1>1, <1>4, <1>c, <1>d, <2>1, <2>2 DEF RemoveTree, Goto
<1>16. CASE ForgetTree(t)
  <2>1. frame[t].after \in {"again", "timedOut", "retry", "closing"}
    BY <1>16, <1>a DEF ForgetTree, Sound, Cleanup, Cleaning
  <2>2. Fits(frame[t].after)
    BY <1>16, <2>1 DEF Fits, ForgetTree, RunningAt, RetryingAt, TunnelAt, Cleanup, Cleaning
  <2> QED
    BY <1>16, <1>1, <1>4, <1>c, <1>d, <2>1, <2>2 DEF ForgetTree, Goto
<1>17. CASE ReadPath(t)
  <2>1. frame[t].after \in {"job", "startTunnel"}
    BY <1>17, <1>a DEF ReadPath, Sound
  <2>2. Fits(frame[t].after)
    BY <1>17, <2>1 DEF Fits, ReadPath, RunningAt, RetryingAt, TunnelAt, Cleanup, Cleaning
  <2> QED
    BY <1>17, <1>1, <1>4, <1>c, <1>d, <2>1, <2>2 DEF ReadPath, Goto
<1>18. CASE JobRefused(t)
  BY <1>18, <1>1, <1>c DEF JobRefused
<1>19. CASE JobTimesOut(t)
  BY <1>19, <1>3, <1>c DEF JobTimesOut
<1>20. CASE JobAnswers(t)
  <2>1. pc[t] = "job" /\ executed' = [executed EXCEPT ![t] = executed[t] + 1]
    BY <1>20 DEF JobAnswers, Executed
  <2>2. PICK how \in Outcomes : End(t, how)
    BY <1>20, <1>c DEF JobAnswers
  <2> QED
    BY <1>2, <2>1, <2>2, Ends
<1>21. CASE ListTunnel(t)
  BY <1>21, <1>1, <1>c DEF ListTunnel
<1>22. CASE CloseTunnels(t)
  <2>1. Fits("first")
    BY <1>22 DEF Fits, CloseTunnels, RunningAt, RetryingAt, TunnelAt, Cleanup, Cleaning
  <2> QED
    BY <1>22, <1>1, <1>4, <1>c, <1>d, <2>1 DEF CloseTunnels, Goto
<1>23. CASE KillTunnel(t)
  <2>1. Fits("closing")
    BY <1>23 DEF Fits, KillTunnel, RunningAt, RetryingAt, TunnelAt, Cleanup, Cleaning
  <2> QED
    BY <1>23, <1>1, <1>4, <1>c, <1>d, <2>1 DEF KillTunnel, Goto, Closed
<1> QED
  BY <1>5, <1>6, <1>6a, <1>6b, <1>6c, <1>7, <1>8, <1>9, <1>10, <1>11, <1>12, <1>13, <1>14,
     <1>15, <1>16, <1>17, <1>18, <1>19, <1>20, <1>21, <1>22, <1>23

\* The other steps of a run and of a tunnel.
LEMMA SoundOtherSteps ==
    ASSUME AllSound, NEW t \in Threads,
           ReadMaster(t) \/ DnsFails(t) \/ JobLost(t) \/ Retry(t)
    PROVE  AllSound'
<1> USE SshAssumption
<1>a. Sound(pc[t], frame[t], outcome[t], executed[t])
  BY DEF AllSound
<1>b. /\ frame[t] \in Frames /\ frame[t].attempts \in 0..Attempts /\ executed[t] \in Nat
      /\ frame[t].dns \in 0..2 /\ frame[t].after \in PCs
      /\ UNCHANGED executed => executed' = [executed EXCEPT ![t] = executed[t]]
      /\ UNCHANGED outcome => outcome' = [outcome EXCEPT ![t] = outcome[t]]
  BY Here, Unexecuted
<1>c. "none" \in Outcomes /\ "Error" \in Outcomes /\ "returned" \in Outcomes
      /\ {"job", "startTunnel", "path", "retry", "setup"} \subseteq PCs
  BY DEF Outcomes, PCs, Using
<1>d. pc[t] # "idle" => outcome[t] = "none" /\ executed[t] <= Attempts
  BY <1>a DEF Sound
<1>1. CASE ReadMaster(t)
  <2> DEFINE job == IF pc[t] = "read" THEN "job" ELSE "startTunnel"
             f == Frame(job, frame[t].attempts, 2, frame[t].local, frame[t].remote)
             label == IF proc # None THEN "path" ELSE job
  <2>1. /\ f \in Frames /\ f.after = job /\ f.attempts = frame[t].attempts /\ f.dns = 2
        /\ f.local = frame[t].local /\ f.remote = frame[t].remote
    BY <1>b, <1>c, FrameForMaster
  <2>2. /\ pc' = [pc EXCEPT ![t] = label] /\ frame' = [frame EXCEPT ![t] = f]
        /\ outcome' = [outcome EXCEPT ![t] = "none"] /\ pc[t] \in {"read", "readForTunnel"}
        /\ executed' = [executed EXCEPT ![t] = executed[t]]
    BY <1>1, <1>b, <1>d DEF ReadMaster
  <2> HIDE DEF f
  <2>3. Sound(label, f, "none", executed[t]) /\ label \in PCs
    <3>1. CASE pc[t] = "read"
      <4>1. frame[t].attempts > 0 /\ executed[t] <= Attempts - frame[t].attempts
            /\ job = "job" /\ label \in {"path", "job"}
        BY <1>a, <1>b, <3>1 DEF Sound, Sent, RunningAt, RetryingAt, Cleanup, Cleaning
      <4> QED
        BY <1>b, <1>c, <1>d, <2>1, <3>1, <4>1
           DEF Sound, Sent, RunningAt, RetryingAt, TunnelAt, Cleanup, Cleaning
    <3>2. CASE pc[t] = "readForTunnel"
      <4>1. frame[t].local \in Ports /\ frame[t].remote \in Remotes
            /\ executed[t] <= Attempts - frame[t].attempts
            /\ (frame[t].attempts = 0 => executed[t] = 0)
            /\ job = "startTunnel" /\ label \in {"path", "startTunnel"}
        BY <1>a, <1>b, <3>2 DEF Sound, Sent, TunnelAt, RetryingAt, Cleanup, Cleaning
      <4> QED
        BY <1>b, <1>c, <1>d, <2>1, <3>2, <4>1
           DEF Sound, Sent, RunningAt, RetryingAt, TunnelAt, Cleanup, Cleaning
    <3> QED
      BY <2>2, <3>1, <3>2
  <2> QED
    BY <1>b, <2>1, <2>2, <2>3, Continues
<1>2. CASE DnsFails(t)
  <2>1. CASE End(t, "Error")
    BY <1>2, <1>b, <1>c, <1>d, <2>1, Ends DEF DnsFails
  <2>2. CASE frame[t].dns # 1 /\ frame' = [frame EXCEPT ![t] = [frame[t] EXCEPT !.dns = frame[t].dns - 1]]
             /\ UNCHANGED <<pc, outcome>>
    <3> DEFINE f == [frame[t] EXCEPT !.dns = frame[t].dns - 1]
    <3>1. frame[t].dns - 1 \in 0..2 /\ frame[t].dns - 1 > 0 /\ pc[t] = "job"
      BY <1>2, <1>a, <1>b, <2>2 DEF DnsFails, Sound
    <3>2. f \in Frames /\ f.dns > 0 /\ Same(frame[t], f, {"after", "attempts"})
      BY <1>b, <3>1, FrameEdits
    <3>3. frame' = [frame EXCEPT ![t] = f] /\ pc' = [pc EXCEPT ![t] = "job"]
          /\ outcome' = [outcome EXCEPT ![t] = "none"]
          /\ executed' = [executed EXCEPT ![t] = executed[t]]
      BY <1>2, <1>b, <1>d, <2>2, <3>1 DEF DnsFails, AllSound
    <3> HIDE DEF f
    <3>4. Sound("job", f, "none", executed[t])
      BY <1>a, <1>b, <1>c, <1>d, <3>1, <3>2
         DEF Sound, Sent, RunningAt, RetryingAt, TunnelAt, Cleanup, Cleaning, Same
    <3> QED
      BY <1>b, <1>c, <3>2, <3>3, <3>4, Continues
  <2> QED
    BY <1>2, <2>1, <2>2 DEF DnsFails
<1>3. CASE JobLost(t)
  <2>0. pc[t] = "job"
    BY <1>3 DEF JobLost
  <2>1. executed[t] <= Attempts - frame[t].attempts /\ frame[t].attempts > 0
        /\ RunningAt(pc[t], frame[t].after)
    BY <1>a, <1>b, <2>0 DEF Sound, Sent, RunningAt, RetryingAt, Cleanup, Cleaning
  <2>2. PICK n \in Nat : executed' = [executed EXCEPT ![t] = n]
                         /\ n <= Attempts - frame[t].attempts + 1 /\ n <= Attempts
    <3>1. CASE UNCHANGED executed
      BY <1>b, <1>d, <2>0, <2>1, <3>1
    <3>2. CASE Executed(t)
      <4>1. /\ executed[t] + 1 \in Nat /\ executed[t] + 1 <= Attempts
            /\ executed[t] + 1 <= Attempts - frame[t].attempts + 1
        BY <1>b, <2>1
      <4> QED
        BY <3>2, <4>1 DEF Executed
    <3> QED
      BY <1>3, <3>1, <3>2 DEF JobLost, MayHaveRun
  <2>3. CASE CleanUp(t, "retry") /\ frame[t].attempts > 1
    BY <2>0, <2>1, <2>2, <2>3, CleansUp
  <2>4. CASE End(t, "Error")
    BY <1>c, <2>2, <2>4, Ends
  <2> QED
    BY <1>3, <2>3, <2>4 DEF JobLost
<1>4. CASE Retry(t)
  <2> DEFINE f == [frame[t] EXCEPT !.attempts = frame[t].attempts - 1]
  <2>1. frame[t].attempts > 1 /\ executed[t] <= Attempts - (frame[t].attempts - 1)
        /\ frame[t].attempts - 1 \in 0..Attempts /\ pc[t] = "retry"
    BY <1>4, <1>a, <1>b DEF Retry, Sound, Sent, RetryingAt
  <2>2. f \in Frames /\ f.attempts = frame[t].attempts - 1
    BY <1>b, <2>1, FrameEdits
  <2>3. frame' = [frame EXCEPT ![t] = f] /\ pc' = [pc EXCEPT ![t] = "setup"]
        /\ outcome' = [outcome EXCEPT ![t] = "none"]
        /\ executed' = [executed EXCEPT ![t] = executed[t]]
    BY <1>4, <1>b, <1>d DEF Retry
  <2> HIDE DEF f
  <2>4. Sound("setup", f, "none", executed[t])
    BY <1>b, <1>c, <1>d, <2>1, <2>2
       DEF Sound, Sent, RunningAt, RetryingAt, TunnelAt, Cleanup, Cleaning
  <2> QED
    BY <1>b, <1>c, <2>2, <2>3, <2>4, Continues
<1> QED
  BY <1>1, <1>2, <1>3, <1>4

LEMMA ListedTunnels ==
    ASSUME TunnelTypeOK, NEW i \in DOMAIN tunnels
    PROVE  /\ tunnels[i].local \in Ports /\ tunnels[i].remote \in Remotes
           /\ tunnels[i].proc \in 1..started /\ tunnels[i].proc \in Nat
<1> DEFINE T == [local : Ports, remote : Remotes, proc : 1..started]
<1>1. tunnels \in Seq(T) /\ started \in Nat
  BY SshAssumption DEF TunnelTypeOK
<1> HIDE DEF T
<1>2. tunnels[i] \in T
  BY <1>1, ElementOfSeq
<1> QED
  BY <1>1, <1>2 DEF T

\* Steps that remember what they got, or look for a tunnel.
LEMMA SoundSearches ==
    ASSUME AllSound, MasterTypeOK, TunnelTypeOK, NEW t \in Threads,
           GetSocket(t) \/ StartTunnel(t) \/ FirstTunnel(t) \/ Find(t) \/ Pop(t)
    PROVE  AllSound'
<1> USE SshAssumption
<1>a. /\ frame[t] \in Frames /\ executed[t] \in Nat /\ executed[t] <= Attempts
      /\ frame[t].index \in Nat
      /\ UNCHANGED executed => executed' = [executed EXCEPT ![t] = executed[t]]
  BY Here, Unexecuted, FrameParts
<1>b. {"returned", "NoneError", "IndexError"} \subseteq Outcomes
  BY DEF Outcomes
<1>c. {"exists", "list", "closing", "find", "pop", "killTunnel"} \subseteq PCs
  BY DEF PCs, Using
<1>1. ASSUME NEW how \in Outcomes, End(t, how), UNCHANGED executed PROVE AllSound'
  BY <1>1, <1>a, Ends
\* What is got is a number.
<1>2. ASSUME NEW label \in {"exists", "list", "killTunnel"}, NEW n \in Nat,
             frame' = [frame EXCEPT ![t] = [frame[t] EXCEPT !.got = n]],
             pc' = [pc EXCEPT ![t] = label], UNCHANGED <<outcome, executed>>,
             label = "exists" => pc[t] = "socket", label = "list" => pc[t] = "startTunnel",
             label = "killTunnel" => pc[t] = "pop"
      PROVE  AllSound'
  <2> DEFINE f == [frame[t] EXCEPT !.got = n]
  <2>1. f \in Frames /\ Same(frame[t], f, {"after", "attempts", "dns"})
    BY <1>a, FrameEdits
  <2>2. frame' = [frame EXCEPT ![t] = f]
    BY <1>2
  <2> HIDE DEF f
  <2> QED
    BY <1>2, <1>c, <2>1, <2>2, GoesWith
       DEF Same, RunningAt, RetryingAt, TunnelAt, Cleanup, Cleaning
<1>3. CASE GetSocket(t)
  <2>1. tempdir \in Nat
    BY DEF MasterTypeOK
  <2> QED
    BY <1>1, <1>2, <1>3, <1>b, <2>1 DEF GetSocket
<1>4. CASE StartTunnel(t)
  <2>1. started' \in Nat
    BY <1>4 DEF StartTunnel, TunnelTypeOK
  <2> QED
    BY <1>2, <1>4, <2>1 DEF StartTunnel
<1>5. CASE Pop(t)
  <2>1. ASSUME frame[t].index \in DOMAIN tunnels PROVE tunnels[frame[t].index].proc \in Nat
    BY <2>1, ListedTunnels
  <2> QED
    BY <1>1, <1>2, <1>5, <1>b, <2>1 DEF Pop
<1>6. CASE FirstTunnel(t)
  <2>1. CASE End(t, "IndexError")
    BY <1>1, <1>6, <1>b, <2>1 DEF FirstTunnel
  <2>2. CASE tunnels # <<>> /\ Search(t, tunnels[1].local) /\ UNCHANGED outcome
    <3>0. 1 \in DOMAIN tunnels
      BY <2>2 DEF TunnelTypeOK
    <3>1. PICK local \in Ports : local = tunnels[1].local
      BY <3>0, ListedTunnels
    <3> DEFINE f == [frame[t] EXCEPT !.local = local, !.index = 1]
    <3>2. f \in Frames /\ f.after = frame[t].after /\ f.attempts = frame[t].attempts
      BY <1>a, FrameForSearch
    <3>3. frame' = [frame EXCEPT ![t] = f] /\ pc' = [pc EXCEPT ![t] = "find"]
          /\ UNCHANGED <<outcome, executed>> /\ pc[t] = "first"
      BY <1>6, <2>2, <3>1 DEF FirstTunnel, Search
    <3> HIDE DEF f
    <3> QED
      BY <1>c, <3>2, <3>3, GoesWith DEF RunningAt, RetryingAt, TunnelAt, Cleanup, Cleaning
  <2> QED
    BY <1>6, <2>1, <2>2 DEF FirstTunnel
<1>7. CASE Find(t)
  <2>0. pc[t] = "find" /\ UNCHANGED executed
    BY <1>7 DEF Find
  <2>1. ASSUME NEW label \in {"closing", "pop"}, Goto(t, label) PROVE AllSound'
    BY <1>c, <2>0, <2>1, Goes
       DEF Goto, RunningAt, RetryingAt, TunnelAt, Cleanup, Cleaning
  <2>2. ASSUME frame' = [frame EXCEPT ![t] = [frame[t] EXCEPT !.index = frame[t].index + 1]],
               UNCHANGED <<pc, outcome>>
        PROVE  AllSound'
    <3> DEFINE f == [frame[t] EXCEPT !.index = frame[t].index + 1]
    <3>1. frame[t].index + 1 \in Nat
      BY <1>a
    <3>2. f \in Frames /\ Same(frame[t], f, {"after", "attempts", "dns"})
      BY <1>a, <3>1, FrameEdits
    <3>3. frame' = [frame EXCEPT ![t] = f] /\ pc' = [pc EXCEPT ![t] = "find"]
      BY <2>0, <2>2 DEF AllSound
    <3> HIDE DEF f
    <3> QED
      BY <1>c, <2>0, <2>2, <3>2, <3>3, GoesWith
         DEF Same, RunningAt, RetryingAt, TunnelAt, Cleanup, Cleaning
  <2> QED
    BY <1>1, <1>7, <1>b, <2>0, <2>1, <2>2 DEF Find, Closed
<1> QED
  BY <1>3, <1>4, <1>5, <1>6, <1>7

------------------------------------------------------------------------------
(* The master's types, and the lock *)

SettingAt(label, after) ==
    \/ label \in {"check", "socket", "exists", "poll", "again", "make", "spawn", "wait",
                 "timedOut"}
    \/ label \in Cleanup /\ after \in {"again", "timedOut"}

LockInv ==
    /\ lock \in Threads \cup {None}
    /\ \A t \in Threads : SettingAt(pc[t], frame[t].after) => lock = t

LEMMA LockMoves ==
    ASSUME LockInv, AllSound, NEW t \in Threads, NEW label, NEW f,
           pc' = [pc EXCEPT ![t] = label], frame' = [frame EXCEPT ![t] = f],
           SettingAt(label, f.after) => lock' = t,
           lock' \in Threads \cup {None}, \A u \in Threads \ {t} : lock = u => lock' = u
    PROVE  LockInv'
<1>1. ASSUME NEW u \in Threads, SettingAt(pc'[u], frame'[u].after) PROVE lock' = u
  <2>1. CASE u = t
    <3>1. pc'[u] = label /\ frame'[u] = f
      BY <2>1 DEF AllSound
    <3> QED
      BY <1>1, <2>1, <3>1
  <2>2. CASE u # t
    <3>1. pc'[u] = pc[u] /\ frame'[u] = frame[u]
      BY <2>2 DEF AllSound
    <3> QED
      BY <1>1, <2>2, <3>1 DEF LockInv
  <2> QED
    BY <2>1, <2>2
<1> QED
  BY <1>1 DEF LockInv

LEMMA LockEnds ==
    ASSUME LockInv, AllSound, NEW t \in Threads, NEW how, End(t, how)
    PROVE  LockInv'
<1>1. ~SettingAt("idle", Empty.after)
  BY DEF SettingAt, Cleanup, Cleaning
<1>2. lock' \in Threads \cup {None} /\ \A u \in Threads \ {t} : lock = u => lock' = u
  BY DEF End, LockInv
<1> QED
  BY <1>1, <1>2, LockMoves DEF End

\* The lock is left alone, and the thread has it if it has to.
LEMMA LockStays ==
    ASSUME LockInv, AllSound, NEW t \in Threads, NEW label, NEW f,
           pc' = [pc EXCEPT ![t] = label], frame' = [frame EXCEPT ![t] = f], UNCHANGED lock,
           SettingAt(label, f.after) => SettingAt(pc[t], frame[t].after)
    PROVE  LockInv'
<1>1. SettingAt(label, f.after) => lock' = t
  BY DEF LockInv
<1> QED
  BY <1>1, LockMoves DEF LockInv

LEMMA LockGoes ==
    ASSUME LockInv, AllSound, NEW t \in Threads, NEW label, Goto(t, label),
           SettingAt(label, frame[t].after) => SettingAt(pc[t], frame[t].after)
    PROVE  LockInv'
<1>1. frame' = [frame EXCEPT ![t] = frame[t]]
  BY DEF Goto, AllSound
<1> QED
  BY <1>1, LockStays DEF Goto

LEMMA LockLeft ==
    ASSUME LockInv, AllSound, NEW t \in Threads, Unlock(t), SettingAt(pc[t], frame[t].after)
    PROVE  LockInv'
<1>1. lock = t /\ frame' = [frame EXCEPT ![t] = frame[t]] /\ lock' = None
  BY DEF LockInv, Unlock, AllSound
<1>2. ~SettingAt("read", frame[t].after)
  BY DEF SettingAt, Cleanup, Cleaning
<1> QED
  BY <1>1, <1>2, LockMoves, SshAssumption DEF Unlock

LEMMA LockForCleanup ==
    ASSUME LockInv, AllSound, NEW t \in Threads, NEW label \in {"again", "timedOut", "retry"},
           CleanUp(t, label), label # "retry" => SettingAt(pc[t], frame[t].after)
    PROVE  LockInv'
<1>1. frame[t] \in Frames /\ label \in PCs
  BY DEF AllSound, PCs, Using
<1> DEFINE f == [frame[t] EXCEPT !.after = label]
<1>2. f.after = label
  BY <1>1, FrameEdits
<1>3. frame' = [frame EXCEPT ![t] = f] /\ pc' = [pc EXCEPT ![t] = "clean"] /\ UNCHANGED lock
  BY DEF CleanUp
<1> HIDE DEF f
<1>4. SettingAt("clean", f.after) => SettingAt(pc[t], frame[t].after)
  BY <1>2 DEF SettingAt, Cleanup, Cleaning
<1> QED
  BY <1>3, <1>4, LockStays

LEMMA LockCalls ==
    ASSUME LockInv, AllSound, NEW t \in Threads, Call(t)
    PROVE  LockInv'
<1> DEFINE Quiet(label) == \A after : ~SettingAt(label, after)
<1>1. Quiet("idle") /\ Quiet("setup") /\ Quiet("readForTunnel") /\ Quiet("find")
  BY DEF SettingAt, Cleanup, Cleaning
<1>2. UNCHANGED lock /\ frame[t] \in Frames /\ "closing" \in PCs
  BY DEF Call, CallRun, CallTunnel, CallTunnelAt, CallCloseTunnel, CallClose, Begin, AllSound, PCs
<1> HIDE DEF Quiet
<1>3. ASSUME NEW label, NEW f, pc' = [pc EXCEPT ![t] = label], frame' = [frame EXCEPT ![t] = f],
             Quiet(label) \/ ~SettingAt(label, f.after)
      PROVE  LockInv'
  BY <1>2, <1>3, LockStays DEF Quiet
<1>4. CASE CallRun(t) \/ CallTunnel(t) \/ CallCloseTunnel(t)
  BY <1>1, <1>3, <1>4 DEF CallRun, CallTunnel, CallCloseTunnel, Search
<1>5. CASE CallTunnelAt(t)
  <2>1. CASE UNCHANGED <<pc, frame>>
    BY <1>2, <2>1 DEF LockInv
  <2> QED
    BY <1>1, <1>3, <1>5, <2>1 DEF CallTunnelAt
<1>6. CASE CallClose(t)
  <2> DEFINE f == [frame[t] EXCEPT !.after = "closing"]
  <2>1. f.after = "closing"
    BY <1>2, FrameEdits
  <2>2. pc' = [pc EXCEPT ![t] = "clean"] /\ frame' = [frame EXCEPT ![t] = f]
    BY <1>6 DEF CallClose
  <2> HIDE DEF f
  <2>3. ~SettingAt("clean", f.after)
    BY <2>1 DEF SettingAt
  <2> QED
    BY <1>3, <2>2, <2>3
<1> QED
  BY <1>4, <1>5, <1>6 DEF Call

LEMMA LockSteps ==
    ASSUME LockInv, AllSound, NEW t \in Threads, Step(t)
    PROVE  LockInv'
<1>a. Sound(pc[t], frame[t], outcome[t], executed[t])
  BY DEF AllSound
<1> DEFINE Kept(label) == SettingAt(label, frame[t].after) => SettingAt(pc[t], frame[t].after)
<1>b. ASSUME NEW label, Goto(t, label), Kept(label) PROVE LockInv'
  BY <1>b, LockGoes
<1> HIDE DEF Kept
<1>c. ASSUME NEW how, End(t, how) PROVE LockInv'
  BY <1>c, LockEnds
<1>1. CASE LockSetup(t)
  <2>1. frame' = [frame EXCEPT ![t] = frame[t]] /\ lock = None /\ lock' = t
        /\ pc' = [pc EXCEPT ![t] = "check"]
    BY <1>1 DEF LockSetup, AllSound
  <2> QED
    BY <2>1, LockMoves, SshAssumption
<1>2. CASE Check(t)
  <2>1. Kept("make") /\ Kept("socket")
    BY <1>2 DEF Kept, Check, SettingAt
  <2> QED
    BY <1>2, <1>b, <2>1 DEF Check
<1>2a. CASE FindSocket(t) \/ Poll(t)
  <2>1. Kept("poll") /\ Kept("again") /\ SettingAt(pc[t], frame[t].after)
    BY <1>2a DEF Kept, FindSocket, Poll, SettingAt
  <2> QED
    BY <1>2a, <1>b, <1>c, <2>1, LockForCleanup DEF FindSocket, Poll
<1>2b. CASE CheckAgain(t)
  <2>1. Kept("make") /\ SettingAt(pc[t], frame[t].after)
    BY <1>2b DEF Kept, CheckAgain, SettingAt
  <2> QED
    BY <1>2b, <1>b, <2>1, LockLeft DEF CheckAgain
<1>2c. CASE GetSocket(t)
  <2>1. CASE \E how : End(t, how)
    BY <1>c, <2>1
  <2>2. CASE /\ pc' = [pc EXCEPT ![t] = "exists"] /\ UNCHANGED lock
             /\ \E f : frame' = [frame EXCEPT ![t] = f]
    <3>1. SettingAt(pc[t], frame[t].after)
      BY <1>2c DEF GetSocket, SettingAt
    <3> QED
      BY <2>2, <3>1, LockStays
  <2> QED
    BY <1>2c, <2>1, <2>2 DEF GetSocket
<1>3. CASE MakeDir(t) \/ Spawn(t)
  <2>1. Kept("spawn") /\ Kept("wait")
    BY <1>3 DEF Kept, MakeDir, Spawn, SettingAt
  <2> QED
    BY <1>3, <1>b, <1>c, <2>1 DEF MakeDir, Spawn
<1>4. CASE WaitForSocket(t) \/ SetupFails(t)
  <2>1. SettingAt(pc[t], frame[t].after)
    BY <1>4 DEF WaitForSocket, SetupFails, SettingAt
  <2> QED
    BY <1>4, <1>c, <2>1, LockLeft, LockForCleanup DEF WaitForSocket, SetupFails
<1>5. CASE Clean(t) \/ Kill(t) \/ Reap(t) \/ Forget(t)
  <2>1. Kept("kill") /\ Kept("tree") /\ Kept("reap") /\ Kept("forget")
    BY <1>5 DEF Kept, Clean, Kill, Reap, Forget, SettingAt, Cleanup, Cleaning
  <2> QED
    BY <1>5, <1>b, <1>c, <2>1 DEF Clean, Kill, Reap, Forget
<1>6. CASE RemoveTree(t) \/ ForgetTree(t)
  <2>1. Kept("forgetTree") /\ Kept(frame[t].after)
    BY <1>6, <1>a DEF Kept, RemoveTree, ForgetTree, SettingAt, Cleanup, Cleaning, Sound
  <2> QED
    BY <1>6, <1>b, <1>c, <2>1 DEF RemoveTree, ForgetTree
<1>7. CASE ReadPath(t)
  <2>1. Kept(frame[t].after)
    BY <1>7, <1>a DEF Kept, ReadPath, SettingAt, Cleanup, Cleaning, Sound
  <2> QED
    BY <1>7, <1>b, <1>c, <2>1 DEF ReadPath
<1>8. CASE ReadMaster(t)
  <2>1. PICK label \in {"path", "job", "startTunnel"} :
          /\ pc' = [pc EXCEPT ![t] = label] /\ UNCHANGED lock
          /\ \E f : frame' = [frame EXCEPT ![t] = f]
    BY <1>8 DEF ReadMaster
  <2>a. PICK f : frame' = [frame EXCEPT ![t] = f]
    BY <2>1
  <2>2. ~SettingAt(label, f.after)
    BY DEF SettingAt, Cleanup, Cleaning
  <2> QED
    BY <2>1, <2>a, <2>2, LockStays
<1>9. CASE DnsFails(t)
  <2>1. CASE UNCHANGED <<lock, pc>> /\ \E f : frame' = [frame EXCEPT ![t] = f]
    <3>1. PICK f : frame' = [frame EXCEPT ![t] = f]
      BY <2>1
    <3>2. pc[t] = "job" /\ pc' = [pc EXCEPT ![t] = "job"] /\ ~SettingAt("job", f.after)
      BY <1>9, <2>1 DEF DnsFails, SettingAt, Cleanup, Cleaning, AllSound
    <3> QED
      BY <2>1, <3>1, <3>2, LockStays
  <2> QED
    BY <1>9, <1>c, <2>1 DEF DnsFails
\* The others go to labels at which nothing is set up.
<1>10. ASSUME NEW label \in {"setup", "list", "closing", "first", "find", "pop", "killTunnel"},
              NEW f, pc' = [pc EXCEPT ![t] = label], frame' = [frame EXCEPT ![t] = f],
              UNCHANGED lock
       PROVE  LockInv'
  <2>1. ~SettingAt(label, f.after)
    BY DEF SettingAt, Cleanup, Cleaning
  <2> QED
    BY <1>10, <2>1, LockStays
<1>11. ASSUME NEW label \in {"closing", "first", "pop"}, Goto(t, label)
       PROVE  LockInv'
  <2>1. Kept(label)
    BY DEF Kept, SettingAt, Cleanup, Cleaning
  <2> QED
    BY <1>11, <1>b, <2>1
<1>12. CASE Retry(t) \/ StartTunnel(t)
  BY <1>12, <1>10 DEF Retry, StartTunnel
<1>13. CASE JobAnswers(t) \/ JobTimesOut(t) \/ JobRefused(t) \/ JobLost(t)
  <2>1. CASE CleanUp(t, "retry")
    BY <2>1, LockForCleanup
  <2> QED
    BY <1>13, <1>c, <2>1 DEF JobAnswers, JobTimesOut, JobRefused, JobLost
<1>14. CASE ListTunnel(t) \/ CloseTunnels(t) \/ FirstTunnel(t)
  BY <1>14, <1>c, <1>10, <1>11 DEF ListTunnel, CloseTunnels, FirstTunnel, Search
<1>15. CASE Find(t)
  <2>1. CASE UNCHANGED <<lock, pc>> /\ \E f : frame' = [frame EXCEPT ![t] = f]
    <3>1. pc' = [pc EXCEPT ![t] = "find"]
      BY <1>15, <2>1 DEF Find, AllSound
    <3> QED
      BY <2>1, <3>1, <1>10
  <2> QED
    BY <1>15, <1>c, <1>11, <2>1 DEF Find, Closed
<1>16. CASE Pop(t) \/ KillTunnel(t)
  BY <1>16, <1>c, <1>10, <1>11 DEF Pop, KillTunnel, Closed
<1> QED
  BY <1>1, <1>2, <1>2a, <1>2b, <1>2c, <1>3, <1>4, <1>5, <1>6, <1>7, <1>8, <1>9, <1>12, <1>13,
     <1>14, <1>15, <1>16 DEF Step

------------------------------------------------------------------------------
(* What is known of the master while no cleanup meets another thread *)

LEMMA MasterTypes ==
    ASSUME MasterTypeOK, [Next]_vars
    PROVE  MasterTypeOK'
<1> USE SshAssumption DEF MasterTypeOK
<1>1. CASE UNCHANGED master
  BY <1>1 DEF master
<1>2. ASSUME NEW t \in Threads, MakeDir(t) PROVE MasterTypeOK'
  <2>1. made' = made + 1 /\ made' \in 0..MaxMasters
    BY <1>2 DEF MakeDir
  <2>2. tempdir' = made' /\ dirs' = dirs \cup {made'} /\ UNCHANGED <<proc, alive, sockets>>
    BY <1>2 DEF MakeDir
  <2> QED
    BY <2>1, <2>2
<1>3. ASSUME NEW t \in Threads, Spawn(t) PROVE MasterTypeOK'
  <2>1. CASE UNCHANGED <<proc, alive>>
    BY <1>3, <2>1 DEF Spawn
  <2>2. CASE tempdir # None /\ proc' = made /\ alive' = alive \cup {made}
    <3>1. made \in 1..made
      BY <2>2 DEF None
    <3> QED
      BY <1>3, <2>2, <3>1 DEF Spawn
  <2> QED
    BY <1>3, <2>1, <2>2 DEF Spawn
<1>4. ASSUME NEW t \in Threads, Kill(t) \/ Forget(t) \/ RemoveTree(t) \/ ForgetTree(t)
      PROVE  MasterTypeOK'
  <2>1. CASE Kill(t)
    BY <2>1 DEF Kill
  <2>2. CASE Forget(t)
    BY <2>2 DEF Forget, None
  <2>4. CASE ForgetTree(t)
    BY <2>4 DEF ForgetTree, None
  <2>3. CASE RemoveTree(t)
    BY <2>3 DEF RemoveTree
  <2> QED
    BY <1>4, <2>1, <2>2, <2>3, <2>4
<1>5. ASSUME NEW p \in 1..MaxMasters, SocketAppears(p) \/ MasterDies(p) PROVE MasterTypeOK'
  BY <1>5 DEF SocketAppears, MasterDies
<1>6. ASSUME NEW t \in Threads, Call(t) PROVE UNCHANGED master
  BY <1>6 DEF Call, CallRun, CallTunnel, CallTunnelAt, CallCloseTunnel, CallClose, Begin
<1>7. ASSUME NEW t \in Threads, Step(t),
             ~(MakeDir(t) \/ Spawn(t) \/ Kill(t) \/ Forget(t) \/ RemoveTree(t) \/ ForgetTree(t))
      PROVE  UNCHANGED master
  BY <1>7 DEF Step, LockSetup, Check, GetSocket, FindSocket, Poll, CheckAgain, WaitForSocket,
     SetupFails, Clean, Reap, ReadMaster, ReadPath, JobAnswers, JobTimesOut, DnsFails, JobRefused,
     JobLost, Retry, StartTunnel, ListTunnel, CloseTunnels, FirstTunnel, Find, Pop, KillTunnel
<1> QED
  BY <1>1, <1>2, <1>3, <1>4, <1>5, <1>6, <1>7 DEF Next, vars

\* The connection knows the one master and the one directory there are.
Rest ==
    /\ alive \subseteq {proc} /\ dirs = {tempdir} \ {None}
    /\ (proc = None) = (tempdir = None)

\* What a thread at a label may rely on.
MasterAt(label) ==
    /\ label = "make" => Rest /\ proc = None
    /\ label = "spawn" => proc = None /\ alive = {} /\ tempdir # None /\ dirs = {tempdir}
    /\ label \in {"socket", "exists", "poll", "wait", "path", "kill", "reap",
                 "forget"} => Rest /\ proc # None
    /\ label = "forget" => alive = {}
    /\ label = "tree" => proc = None /\ alive = {} /\ dirs = {tempdir} \ {None}
    /\ label = "forgetTree" => proc = None /\ alive = {} /\ dirs = {}

\* The labels at which there is a directory without a master.
Between == {"spawn", "tree", "forgetTree"}

Known ==
    /\ \A t \in Threads : MasterAt(pc[t])
    /\ (\A t \in Threads : pc[t] \notin Between) => Rest

Faults == {"NoneError", "NotFound"}
NoFaults == \A t \in Threads : outcome[t] \notin Faults

Unmet == Known /\ NoFaults /\ ~Overlap

\* A thread goes on and leaves the master alone.
LEMMA KnownMoves ==
    ASSUME Known, AllSound, NEW t \in Threads, NEW label, UNCHANGED master,
           pc' = [pc EXCEPT ![t] = label], MasterAt(label), pc[t] \in Between => Rest
    PROVE  Known'
<1>1. UNCHANGED <<proc, tempdir, alive, dirs>>
  BY DEF master
<1>2. Rest' = Rest
  BY <1>1 DEF Rest
<1>3. ASSUME NEW u \in Threads PROVE MasterAt(pc[u])'
  <2>1. pc'[u] = pc[u] \/ pc'[u] = label
    BY DEF AllSound
  <2>2. MasterAt(pc'[u])
    BY <2>1 DEF Known
  <2> QED
    BY <1>1, <1>2, <2>2 DEF MasterAt
<1>4. ASSUME \A u \in Threads : pc'[u] \notin Between PROVE Rest'
  <2>1. CASE pc[t] \in Between
    BY <1>2, <2>1
  <2>2. CASE pc[t] \notin Between
    <3>1. \A u \in Threads : u # t => pc[u] = pc'[u]
      BY DEF AllSound
    <3> QED
      BY <1>2, <1>4, <2>2, <3>1 DEF Known
  <2> QED
    BY <2>1, <2>2
<1> QED
  BY <1>3, <1>4 DEF Known

\* A thread that no other one meets changes the master.
LEMMA KnownChanges ==
    ASSUME AllSound, NEW t \in Threads, NEW label, pc' = [pc EXCEPT ![t] = label],
           \A u \in Threads \ {t} : pc[u] \notin Cleaning \cup Using,
           MasterAt(label)', label \notin Between => Rest'
    PROVE  Known'
<1>1. ASSUME NEW u \in Threads PROVE MasterAt(pc[u])'
  <2>1. CASE u = t
    BY <2>1 DEF AllSound
  <2>2. CASE u # t
    BY <2>2 DEF AllSound, MasterAt, Cleaning, Using
  <2> QED
    BY <2>1, <2>2
<1>2. ASSUME \A u \in Threads : pc'[u] \notin Between PROVE Rest'
  BY <1>2 DEF AllSound
<1> QED
  BY <1>1, <1>2 DEF Known

\* Whom a thread may meet.
LEMMA Alone ==
    ASSUME ~Overlap, NEW t \in Threads, pc[t] \in Cleaning
    PROVE  \A u \in Threads \ {t} : pc[u] \notin Cleaning \cup Using
BY DEF Overlap

LEMMA NoCleaner ==
    ASSUME ~Overlap, NEW t \in Threads, pc[t] \in Using
    PROVE  \A u \in Threads \ {t} : pc[u] \notin Cleaning
BY DEF Overlap

LEMMA OneSetter ==
    ASSUME LockInv, NEW t \in Threads, pc[t] \in {"check", "again", "make", "spawn", "wait"}
    PROVE  \A u \in Threads \ {t} :
             pc[u] \notin {"socket", "exists", "poll", "make", "spawn", "wait"}
BY DEF LockInv, SettingAt

LEMMA NoFaultsMove ==
    ASSUME NoFaults, AllSound, NEW t \in Threads, NEW how, how \notin Faults,
           UNCHANGED outcome \/ outcome' = [outcome EXCEPT ![t] = how]
    PROVE  NoFaults'
BY DEF NoFaults, AllSound

LEMMA UnmetSteps ==
    ASSUME Unmet, AllSound, LockInv, MasterTypeOK, NEW t \in Threads, Step(t), ~Overlap'
    PROVE  Known' /\ NoFaults'
<1>a. /\ Known /\ NoFaults /\ ~Overlap /\ MasterAt(pc[t])
      /\ Sound(pc[t], frame[t], outcome[t], executed[t]) /\ pc \in [Threads -> PCs]
  BY DEF Unmet, Known, AllSound
<1>b. /\ alive \subseteq 1..made /\ made \in Nat /\ None \notin alive
      /\ proc \in Nat /\ tempdir \in Nat
  BY SshAssumption DEF MasterTypeOK, None
<1> DEFINE Free(label) == label \notin Cleaning \cup Using
<1>c. \A label : Free(label) => MasterAt(label)
  BY DEF MasterAt, Cleaning, Using
<1>d. \A label \in {"idle", "setup", "check", "again", "timedOut", "clean", "read", "job",
                    "startTunnel", "list", "closing", "first", "find", "pop", "killTunnel"} :
        Free(label)
  BY DEF Cleaning, Using
<1> HIDE DEF Free
<1>e. ASSUME NEW label, pc' = [pc EXCEPT ![t] = label], UNCHANGED <<master, outcome>>,
             MasterAt(label), pc[t] \in Between => Rest
      PROVE  Known' /\ NoFaults'
  BY <1>a, <1>e, KnownMoves DEF NoFaults
<1>f. ASSUME NEW how, how \notin Faults, End(t, how), UNCHANGED master, pc[t] \notin Between
      PROVE  Known' /\ NoFaults'
  BY <1>a, <1>c, <1>d, <1>f, KnownMoves, NoFaultsMove DEF End
\* Another thread would be met by a cleanup in the next state.
<1>g. ASSUME NEW label \in Using, pc' = [pc EXCEPT ![t] = label]
      PROVE  \A u \in Threads \ {t} : pc[u] \notin Cleaning
  BY <1>a, <1>g DEF Overlap
<1>h. ASSUME NEW label \in Cleaning, pc' = [pc EXCEPT ![t] = label]
      PROVE  \A u \in Threads \ {t} : pc[u] \notin Cleaning \cup Using
  BY <1>a, <1>h DEF Overlap
\* The thread is about to look at the master, or to make one.
<1>i. ASSUME NEW label \in Using, pc' = [pc EXCEPT ![t] = label], pc[t] \in {"check", "again"}
      PROVE  Rest
  <2>1. \A u \in Threads \ {t} : pc[u] \notin Cleaning
    BY <1>g, <1>i
  <2>2. \A u \in Threads \ {t} : pc[u] \notin {"make", "spawn", "wait"}
    BY <1>i, OneSetter
  <2>3. \A u \in Threads : pc[u] \notin Between
    BY <1>i, <2>1, <2>2 DEF Between, Cleaning
  <2> QED
    BY <1>a, <2>3 DEF Known
<1>1. CASE Check(t)
  <2>0. pc[t] = "check" /\ pc[t] \notin Between /\ UNCHANGED <<master, outcome>>
    BY <1>1 DEF Check, Between, Goto
  <2> DEFINE label == IF proc = None THEN "make" ELSE "socket"
  <2>1. label \in Using /\ pc' = [pc EXCEPT ![t] = label]
    BY <1>1 DEF Check, Goto, Using
  <2>2. MasterAt(label)
    BY <1>i, <2>0, <2>1 DEF MasterAt
  <2> QED
    BY <1>e, <2>0, <2>1, <2>2
<1>1a. CASE GetSocket(t) \/ FindSocket(t) \/ Poll(t)
  <2>0. pc[t] \in {"socket", "exists", "poll"} /\ pc[t] \notin Between /\ UNCHANGED master
    BY <1>1a DEF GetSocket, FindSocket, Poll, Between
  <2>1. Rest /\ proc # None /\ tempdir # None
    BY <1>a, <2>0 DEF MasterAt, Rest
  <2>2. MasterAt("exists") /\ MasterAt("poll")
    BY <2>1 DEF MasterAt
  <2>3. UNCHANGED outcome /\ \E label \in {"exists", "poll", "again", "clean"} :
                                pc' = [pc EXCEPT ![t] = label]
    BY <1>1a, <2>1 DEF GetSocket, FindSocket, Poll, Goto, CleanUp
  <2> QED
    BY <1>c, <1>d, <1>e, <2>0, <2>2, <2>3
<1>1b. CASE CheckAgain(t)
  <2>0. pc[t] = "again" /\ pc[t] \notin Between /\ UNCHANGED master
    BY <1>1b DEF CheckAgain, Between
  <2>1. CASE Goto(t, "make") /\ proc = None
    <3>1. pc' = [pc EXCEPT ![t] = "make"] /\ "make" \in Using /\ UNCHANGED outcome
      BY <2>1 DEF Goto, Using
    <3>2. MasterAt("make")
      BY <1>i, <2>0, <2>1, <3>1 DEF MasterAt
    <3> QED
      BY <1>e, <2>0, <3>1, <3>2
  <2>2. CASE Unlock(t)
    BY <1>c, <1>d, <1>e, <2>0, <2>2 DEF Unlock
  <2> QED
    BY <1>1b, <2>1, <2>2 DEF CheckAgain
<1>2. CASE MakeDir(t)
  <2>1. Rest /\ proc = None /\ pc[t] = "make"
    BY <1>2, <1>a DEF MakeDir, MasterAt
  <2>2. \A u \in Threads \ {t} : pc[u] \notin Cleaning \cup Using
    <3>1. \A u \in Threads \ {t} :
            pc[u] \notin {"socket", "exists", "poll", "make", "spawn", "wait"}
      BY <2>1, OneSetter
    <3>2. \A u \in Threads \ {t} : pc[u] \notin Cleaning
      BY <1>a, <2>1, NoCleaner DEF Using
    <3>3. \A u \in Threads : pc[u] # "path"
      BY <1>a, <2>1 DEF Known, MasterAt
    <3> QED
      BY <3>1, <3>2, <3>3 DEF Using
  <2>3. /\ made' = made + 1 /\ tempdir' = made' /\ dirs' = dirs \cup {made'} /\ UNCHANGED <<proc, alive>>
        /\ pc' = [pc EXCEPT ![t] = "spawn"] /\ UNCHANGED outcome
    BY <1>2 DEF MakeDir, Goto
  <2>4. alive = {} /\ dirs = {} /\ made' # None /\ tempdir' # None
    BY <1>b, <2>1, <2>3 DEF Rest, None
  <2>5. MasterAt("spawn")'
    BY <2>1, <2>3, <2>4 DEF MasterAt
  <2>6. Known'
    BY <1>a, <2>2, <2>3, <2>5, KnownChanges DEF Between
  <2> QED
    BY <1>a, <2>3, <2>6 DEF NoFaults
<1>3. CASE Spawn(t)
  <2>1. /\ proc = None /\ alive = {} /\ tempdir # None /\ dirs = {tempdir} /\ pc[t] = "spawn"
    BY <1>3, <1>a DEF Spawn, MasterAt
  <2>2. \A u \in Threads \ {t} : pc[u] \notin Cleaning \cup Using
    <3>1. \A u \in Threads \ {t} :
            pc[u] \notin {"socket", "exists", "poll", "make", "spawn", "wait"}
      BY <2>1, OneSetter
    <3>2. \A u \in Threads \ {t} : pc[u] \notin Cleaning
      BY <1>a, <2>1, NoCleaner DEF Using
    <3>3. \A u \in Threads : pc[u] # "path"
      BY <1>a, <2>1 DEF Known, MasterAt
    <3> QED
      BY <3>1, <3>2, <3>3 DEF Using
  <2>3. /\ proc' = made /\ alive' = alive \cup {made} /\ UNCHANGED <<tempdir, dirs>>
        /\ pc' = [pc EXCEPT ![t] = "wait"] /\ UNCHANGED outcome
    BY <1>3, <2>1 DEF Spawn, Goto
  <2>4. made # None
    BY <2>1 DEF MasterTypeOK, None
  <2>5. Rest' /\ MasterAt("wait")'
    BY <2>1, <2>3, <2>4 DEF MasterAt, Rest
  <2>6. Known'
    BY <1>a, <2>2, <2>3, <2>5, KnownChanges
  <2> QED
    BY <1>a, <2>3, <2>6 DEF NoFaults
<1>4. CASE WaitForSocket(t)
  <2>0. pc[t] = "wait" /\ pc[t] \notin Between /\ UNCHANGED master
    BY <1>4 DEF WaitForSocket, Between
  <2>1. tempdir # None
    BY <1>a, <2>0 DEF MasterAt, Rest
  <2> QED
    BY <1>4, <1>c, <1>d, <1>e, <2>0, <2>1 DEF WaitForSocket, Unlock, CleanUp
<1>5. CASE Clean(t)
  <2>0. pc[t] = "clean" /\ pc[t] \notin Between /\ UNCHANGED master
    BY <1>5 DEF Clean, Between
  <2> DEFINE label == IF proc # None THEN "kill" ELSE "tree"
  <2>1. label \in Cleaning /\ pc' = [pc EXCEPT ![t] = label] /\ UNCHANGED outcome
    BY <1>5 DEF Clean, Goto, Cleaning
  <2>2. Rest
    <3>1. \A u \in Threads \ {t} : pc[u] \notin Cleaning \cup Using
      BY <1>h, <2>1
    <3>2. \A u \in Threads : pc[u] \notin Between
      BY <2>0, <3>1 DEF Between, Cleaning, Using
    <3> QED
      BY <1>a, <3>2 DEF Known
  <2>3. MasterAt(label)
    BY <1>b, <2>2 DEF MasterAt, Rest
  <2> QED
    BY <1>e, <2>0, <2>1, <2>3
<1>6. CASE Kill(t)
  <2>1. Rest /\ proc # None /\ pc[t] = "kill"
    BY <1>6, <1>a DEF Kill, MasterAt
  <2>2. /\ alive' = alive \ {proc} /\ UNCHANGED <<proc, tempdir, dirs>>
        /\ pc' = [pc EXCEPT ![t] = "reap"] /\ UNCHANGED outcome
    BY <1>6, <2>1 DEF Kill, Goto
  <2>3. Rest' /\ MasterAt("reap")'
    BY <2>1, <2>2 DEF Rest, MasterAt
  <2>4. \A u \in Threads \ {t} : pc[u] \notin Cleaning \cup Using
    BY <1>a, <2>1, Alone DEF Cleaning
  <2>5. Known'
    BY <1>a, <2>2, <2>3, <2>4, KnownChanges
  <2> QED
    BY <1>a, <2>2, <2>5 DEF NoFaults
<1>7. CASE Reap(t)
  <2>1. Rest /\ proc # None /\ pc[t] \notin Between /\ UNCHANGED master
    BY <1>7, <1>a DEF Reap, MasterAt, Between
  <2>2. proc \notin alive /\ pc' = [pc EXCEPT ![t] = "forget"] /\ UNCHANGED outcome
    BY <1>7, <2>1 DEF Reap, Goto
  <2>3. MasterAt("forget")
    BY <2>1, <2>2 DEF MasterAt, Rest
  <2> QED
    BY <1>e, <2>1, <2>2, <2>3
<1>8. CASE Forget(t)
  <2>1. Rest /\ alive = {} /\ pc[t] = "forget"
    BY <1>8, <1>a DEF Forget, MasterAt
  <2>2. /\ proc' = None /\ UNCHANGED <<tempdir, alive, dirs>>
        /\ pc' = [pc EXCEPT ![t] = "tree"] /\ UNCHANGED outcome
    BY <1>8 DEF Forget, Goto
  <2>3. MasterAt("tree")'
    BY <2>1, <2>2 DEF Rest, MasterAt
  <2>4. \A u \in Threads \ {t} : pc[u] \notin Cleaning \cup Using
    BY <1>a, <2>1, Alone DEF Cleaning
  <2>5. Known'
    BY <1>a, <2>2, <2>3, <2>4, KnownChanges DEF Between
  <2> QED
    BY <1>a, <2>2, <2>5 DEF NoFaults
<1>9. ASSUME pc[t] \in {"tree", "forgetTree"}
      PROVE  frame[t].after \in {"again", "timedOut", "retry", "closing"}
  BY <1>9, <1>a DEF Sound, Cleanup, Cleaning
<1>10. CASE RemoveTree(t)
  <2>1. proc = None /\ alive = {} /\ dirs = {tempdir} \ {None} /\ pc[t] = "tree"
    BY <1>10, <1>a DEF RemoveTree, MasterAt
  <2>2. CASE tempdir = None
    <3>1. UNCHANGED <<master, outcome>> /\ pc' = [pc EXCEPT ![t] = frame[t].after]
      BY <1>10, <2>1, <2>2 DEF RemoveTree, Goto, master
    <3>2. Rest
      BY <2>1, <2>2 DEF Rest
    <3>3. MasterAt(frame[t].after)
      BY <1>9, <2>1, <3>2 DEF MasterAt
    <3> QED
      BY <1>e, <3>1, <3>2, <3>3
  <2>3. CASE tempdir # None
    <3>1. /\ dirs' = dirs \ {tempdir} /\ UNCHANGED <<proc, tempdir, alive>>
          /\ pc' = [pc EXCEPT ![t] = "forgetTree"] /\ UNCHANGED outcome
      BY <1>10, <2>1, <2>3 DEF RemoveTree, Goto
    <3>2. MasterAt("forgetTree")'
      BY <2>1, <3>1 DEF MasterAt
    <3>3. \A u \in Threads \ {t} : pc[u] \notin Cleaning \cup Using
      BY <1>a, <2>1, Alone DEF Cleaning
    <3>4. Known'
      BY <1>a, <3>1, <3>2, <3>3, KnownChanges DEF Between
    <3> QED
      BY <1>a, <3>1, <3>4 DEF NoFaults
  <2> QED
    BY <2>2, <2>3
<1>11. CASE ForgetTree(t)
  <2>1. proc = None /\ alive = {} /\ dirs = {} /\ pc[t] = "forgetTree"
    BY <1>11, <1>a DEF ForgetTree, MasterAt
  <2>2. /\ tempdir' = None /\ UNCHANGED <<proc, alive, dirs>> /\ UNCHANGED outcome
        /\ pc' = [pc EXCEPT ![t] = frame[t].after]
    BY <1>11 DEF ForgetTree, Goto
  <2>3. Rest'
    BY <2>1, <2>2 DEF Rest
  <2>4. PICK label \in {"again", "timedOut", "retry", "closing"} : label = frame[t].after
    BY <1>9, <2>1
  <2>5. MasterAt(label)'
    BY <2>1, <2>2, <2>3, <2>4 DEF MasterAt
  <2>6. \A u \in Threads \ {t} : pc[u] \notin Cleaning \cup Using
    BY <1>a, <2>1, Alone DEF Cleaning
  <2>7. Known'
    BY <1>a, <2>2, <2>3, <2>4, <2>5, <2>6, KnownChanges
  <2> QED
    BY <1>a, <2>2, <2>7 DEF NoFaults
<1>12. CASE ReadMaster(t)
  <2> DEFINE job == IF pc[t] = "read" THEN "job" ELSE "startTunnel"
             label == IF proc # None THEN "path" ELSE job
  <2>0. /\ pc' = [pc EXCEPT ![t] = label] /\ UNCHANGED <<master, outcome>>
        /\ pc[t] \in {"read", "readForTunnel"}
    BY <1>12 DEF ReadMaster
  <2>1. pc[t] \notin Between
    BY <2>0 DEF Between
  <2>2. CASE proc = None
    BY <1>c, <1>d, <1>e, <2>0, <2>1, <2>2
  <2>3. CASE proc # None
    <3>1. \A u \in Threads \ {t} : pc[u] \notin Cleaning
      BY <1>g, <2>0, <2>3 DEF Using
    <3>2. \A u \in Threads : pc[u] \notin Between
      BY <1>a, <2>1, <2>3, <3>1 DEF Between, Cleaning, Known, MasterAt
    <3>3. MasterAt("path")
      BY <1>a, <2>3, <3>2 DEF MasterAt, Known
    <3> QED
      BY <1>e, <2>0, <2>1, <2>3, <3>3
  <2> QED
    BY <2>2, <2>3
<1>13. CASE ReadPath(t)
  <2>1. /\ pc[t] = "path" /\ pc[t] \notin Between /\ UNCHANGED master
        /\ frame[t].after \in {"job", "startTunnel"}
    BY <1>13, <1>a DEF ReadPath, Between, Sound
  <2>2. tempdir # None
    BY <1>a, <2>1 DEF MasterAt, Rest
  <2> QED
    BY <1>13, <1>c, <1>d, <1>e, <2>1, <2>2 DEF ReadPath, Goto
<1>14. CASE LockSetup(t) \/ SetupFails(t) \/ Retry(t)
  <2>1. pc[t] \notin Between
    BY <1>14 DEF LockSetup, SetupFails, Retry, Between
  <2> QED
    BY <1>14, <1>c, <1>d, <1>e, <2>1 DEF LockSetup, SetupFails, Retry, Unlock
<1>15. CASE JobAnswers(t) \/ JobTimesOut(t) \/ JobRefused(t)
  <2>1. pc[t] \notin Between /\ UNCHANGED master
    BY <1>15 DEF JobAnswers, JobTimesOut, JobRefused, Between
  <2>2. PICK how \in {"Error", "answered", "JobError", "TimeoutError"} : End(t, how)
    BY <1>15 DEF JobAnswers, JobTimesOut, JobRefused
  <2> QED
    BY <1>f, <2>1, <2>2 DEF Faults
<1>16. CASE DnsFails(t) \/ JobLost(t)
  <2>1. pc[t] \notin Between /\ UNCHANGED master /\ pc[t] = "job"
    BY <1>16 DEF DnsFails, JobLost, Between
  <2>2. CASE End(t, "Error")
    BY <1>f, <2>1, <2>2 DEF Faults
  <2>3. CASE UNCHANGED <<pc, outcome>>
    <3>1. pc' = [pc EXCEPT ![t] = "job"]
      BY <1>a, <2>1, <2>3
    <3> QED
      BY <1>c, <1>d, <1>e, <2>1, <2>3, <3>1
  <2>4. CASE CleanUp(t, "retry")
    BY <1>c, <1>d, <1>e, <2>1, <2>4 DEF CleanUp
  <2> QED
    BY <1>16, <2>2, <2>3, <2>4 DEF DnsFails, JobLost
<1>17. CASE \/ StartTunnel(t) \/ ListTunnel(t) \/ CloseTunnels(t) \/ FirstTunnel(t)
            \/ Find(t) \/ Pop(t) \/ KillTunnel(t)
  <2>1. pc[t] \in {"startTunnel", "list", "closing", "first", "find", "pop", "killTunnel"}
        /\ UNCHANGED master
    BY <1>17 DEF StartTunnel, ListTunnel, CloseTunnels, FirstTunnel, Find, Pop, KillTunnel
  <2>2. pc[t] \notin Between
    BY <2>1 DEF Between
  <2>3. CASE \E how \in {"returned", "IndexError"} : End(t, how)
    BY <1>f, <2>1, <2>2, <2>3 DEF Faults
  <2>4. CASE /\ UNCHANGED outcome
             /\ \E label \in {"list", "closing", "first", "find", "pop", "killTunnel"} :
                  pc' = [pc EXCEPT ![t] = label]
    BY <1>c, <1>d, <1>e, <2>1, <2>2, <2>4
  <2>5. UNCHANGED pc => pc' = [pc EXCEPT ![t] = pc[t]]
    BY <1>a
  <2> QED
    BY <1>17, <2>1, <2>3, <2>4, <2>5
       DEF StartTunnel, ListTunnel, CloseTunnels, FirstTunnel, Find, Pop, KillTunnel, Closed,
           Search, Goto
<1> QED
  BY <1>1, <1>1a, <1>1b, <1>2, <1>3, <1>4, <1>5, <1>6, <1>7, <1>8, <1>10, <1>11, <1>12, <1>13,
     <1>14, <1>15, <1>16, <1>17 DEF Step

LEMMA UnmetCalls ==
    ASSUME Unmet, AllSound, NEW t \in Threads, Call(t)
    PROVE  Known' /\ NoFaults'
<1>1. /\ UNCHANGED master /\ outcome' = [outcome EXCEPT ![t] = "none"] /\ pc[t] = "idle"
  BY DEF Call, CallRun, CallTunnel, CallTunnelAt, CallCloseTunnel, CallClose, Begin
<1>2. PICK label \in {"idle", "setup", "readForTunnel", "find", "clean"} :
        pc' = [pc EXCEPT ![t] = label]
  <2>1. CASE UNCHANGED pc
    BY <1>1, <2>1 DEF AllSound
  <2> QED
    BY <2>1 DEF Call, CallRun, CallTunnel, CallTunnelAt, CallCloseTunnel, CallClose, Search
<1>3. MasterAt(label) /\ pc[t] \notin Between /\ "none" \notin Faults
  BY <1>1 DEF MasterAt, Between, Faults
<1> QED
  BY <1>1, <1>2, <1>3, KnownMoves, NoFaultsMove DEF Unmet

\* A master that connects or dies.
LEMMA UnmetMasters ==
    ASSUME Unmet, NEW p, SocketAppears(p) \/ MasterDies(p)
    PROVE  Known' /\ NoFaults'
<1>1. /\ UNCHANGED <<proc, tempdir, dirs, pc, outcome>> /\ alive' \subseteq alive
  BY DEF SocketAppears, MasterDies, thread
<1>2. Rest => Rest'
  BY <1>1 DEF Rest
<1>3. \A t \in Threads : MasterAt(pc[t]) => MasterAt(pc[t])'
  BY <1>1, <1>2 DEF MasterAt
<1> QED
  BY <1>1, <1>2, <1>3 DEF Unmet, Known, NoFaults

------------------------------------------------------------------------------
(* The list of tunnels *)

LEMMA Removed ==
    ASSUME NEW S, NEW s \in Seq(S), NEW i \in 1..Len(s)
    PROVE  /\ RemoveAt(s, i) \in Seq(S) /\ Len(RemoveAt(s, i)) = Len(s) - 1
           /\ \A j \in 1..(Len(s) - 1) :
                RemoveAt(s, i)[j] = IF j < i THEN s[j] ELSE s[j + 1]
<1> DEFINE a == SubSeq(s, 1, i - 1)
           b == SubSeq(s, i + 1, Len(s))
<1>0. Len(s) \in Nat
  OBVIOUS
<1>1. a \in Seq(S) /\ Len(a) = i - 1 /\ \A j \in 1..(i - 1) : a[j] = s[j]
  OBVIOUS
<1>2. b \in Seq(S) /\ Len(b) = Len(s) - i /\ \A j \in 1..(Len(s) - i) : b[j] = s[i + j]
  BY <1>0
<1> HIDE DEF a, b
<1>3. /\ a \o b \in Seq(S) /\ Len(a \o b) = Len(a) + Len(b)
      /\ \A j \in 1..(Len(a) + Len(b)) :
           (a \o b)[j] = IF j <= Len(a) THEN a[j] ELSE b[j - Len(a)]
  BY <1>1, <1>2, ConcatProperties
<1>4. RemoveAt(s, i) = a \o b
  BY DEF RemoveAt, a, b
<1>5. ASSUME NEW j \in 1..(Len(s) - 1)
      PROVE  RemoveAt(s, i)[j] = IF j < i THEN s[j] ELSE s[j + 1]
  <2>1. CASE j < i
    BY <1>0, <1>1, <1>2, <1>3, <1>4, <2>1
  <2>2. CASE j >= i
    <3>1. j - (i - 1) \in 1..(Len(s) - i) /\ ~(j <= i - 1) /\ i + (j - (i - 1)) = j + 1
      BY <1>0, <2>2
    <3>2. j \in 1..(Len(a) + Len(b)) /\ Len(a) = i - 1
      BY <1>0, <1>1, <1>2
    <3>3. RemoveAt(s, i)[j] = b[j - (i - 1)]
      BY <1>3, <1>4, <3>1, <3>2
    <3> QED
      BY <1>2, <2>2, <3>1, <3>3
  <2> QED
    BY <1>0, <2>1, <2>2
<1> QED
  <2>1. Len(a) + Len(b) = Len(s) - 1
    BY <1>0, <1>1, <1>2
  <2> QED
    BY <1>3, <1>4, <1>5, <2>1

\* A thread has a tunnel process in its hands.
Hands == {"list", "killTunnel"}

TunnelInv ==
    /\ TunnelTypeOK
    /\ \A p \in tunnelProcs : Listed(p) \/ \E t \in Threads : Keeps(t, p)
    /\ \A i, j \in DOMAIN tunnels : tunnels[i].proc = tunnels[j].proc => i = j
    /\ \A t \in Threads : \A p :
         Keeps(t, p) => /\ p \in 1..started /\ ~Listed(p)
                        /\ \A u \in Threads : Keeps(u, p) => u = t

\* A step is one thread's own.
LEMMA OthersStay ==
    ASSUME AllSound, NEW t \in Threads, Call(t) \/ Step(t)
    PROVE  \A u \in Threads \ {t} : pc'[u] = pc[u] /\ frame'[u] = frame[u]
<1> DEFINE Stay == \A u \in Threads \ {t} : pc'[u] = pc[u] /\ frame'[u] = frame[u]
<1> SUFFICES Stay
  OBVIOUS
<1>1. CASE Call(t)
  BY <1>1 DEF AllSound, Call, CallRun, CallTunnel, CallTunnelAt, CallCloseTunnel, CallClose, Search
<1>2. ASSUME Unlock(t) PROVE Stay
  BY <1>2 DEF Unlock, AllSound
<1>2a. ASSUME NEW label, Goto(t, label) \/ CleanUp(t, label) PROVE Stay
  BY <1>2a DEF Goto, CleanUp, AllSound
<1>2b. ASSUME NEW how, End(t, how) PROVE Stay
  BY <1>2b DEF End, AllSound
<1> HIDE DEF Stay
<1>3. CASE \/ Check(t) \/ CheckAgain(t) \/ MakeDir(t) \/ SetupFails(t) \/ Clean(t) \/ Reap(t)
           \/ Forget(t) \/ ForgetTree(t) \/ JobTimesOut(t) \/ JobRefused(t) \/ ListTunnel(t)
  BY <1>2, <1>2a, <1>2b, <1>3
     DEF Check, CheckAgain, MakeDir, SetupFails, Clean, Reap, Forget, ForgetTree, JobTimesOut,
         JobRefused, ListTunnel
<1>3a. CASE \/ FindSocket(t) \/ Poll(t) \/ Spawn(t) \/ WaitForSocket(t) \/ Kill(t)
            \/ RemoveTree(t) \/ ReadPath(t) \/ JobAnswers(t) \/ JobLost(t)
            \/ CloseTunnels(t) \/ KillTunnel(t)
  BY <1>2, <1>2a, <1>2b, <1>3a
     DEF FindSocket, Poll, Spawn, WaitForSocket, Kill, RemoveTree, ReadPath, JobAnswers,
         JobLost, CloseTunnels, KillTunnel, Closed
\* The others change the locals too, or only them.
<1>4. ASSUME NEW label, NEW f, pc' = [pc EXCEPT ![t] = label] \/ UNCHANGED pc,
             frame' = [frame EXCEPT ![t] = f] \/ UNCHANGED frame
      PROVE  Stay
  <2>1. ASSUME NEW u \in Threads \ {t} PROVE pc'[u] = pc[u] /\ frame'[u] = frame[u]
    BY <1>4 DEF AllSound
  <2> QED
    BY <2>1 DEF Stay
<1>5. CASE LockSetup(t) \/ GetSocket(t) \/ ReadMaster(t) \/ DnsFails(t) \/ Retry(t)
  BY <1>2b, <1>4, <1>5 DEF LockSetup, GetSocket, ReadMaster, DnsFails, Retry
<1>6. CASE StartTunnel(t) \/ FirstTunnel(t) \/ Find(t) \/ Pop(t)
  BY <1>2a, <1>2b, <1>4, <1>6 DEF StartTunnel, FirstTunnel, Find, Pop, Search, Closed
<1> QED
  BY <1>1, <1>3, <1>3a, <1>5, <1>6 DEF Step

\* Only four steps take a process in hand, or put it out of it.
LEMMA EmptyHands ==
    ASSUME AllSound, NEW t \in Threads, Call(t) \/ Step(t),
           ~(StartTunnel(t) \/ ListTunnel(t) \/ Pop(t) \/ KillTunnel(t))
    PROVE  pc[t] \notin Hands /\ pc'[t] \notin Hands /\ UNCHANGED tunnel
<1> USE DEF AllSound, Hands
<1>1. CASE Call(t)
  BY <1>1 DEF Call, CallRun, CallTunnel, CallTunnelAt, CallCloseTunnel, CallClose, Search, Begin
<1>2. CASE \/ LockSetup(t) \/ Check(t) \/ GetSocket(t) \/ FindSocket(t) \/ Poll(t)
           \/ CheckAgain(t) \/ MakeDir(t) \/ Spawn(t) \/ WaitForSocket(t) \/ SetupFails(t)
  BY <1>2 DEF LockSetup, Check, GetSocket, FindSocket, Poll, CheckAgain, MakeDir, Spawn,
              WaitForSocket, SetupFails, Goto, CleanUp, End, Unlock
<1>3. CASE Clean(t) \/ Kill(t) \/ Reap(t) \/ Forget(t)
  BY <1>3 DEF Clean, Kill, Reap, Forget, Goto, End
<1>4. CASE RemoveTree(t) \/ ForgetTree(t) \/ ReadPath(t)
  <2>1. frame[t].after \in {"again", "timedOut", "retry", "closing", "job", "startTunnel"}
    BY <1>4 DEF RemoveTree, ForgetTree, ReadPath, Sound, Cleanup, Cleaning
  <2> QED
    BY <1>4, <2>1 DEF RemoveTree, ForgetTree, ReadPath, Goto, End
<1>5. CASE \/ ReadMaster(t) \/ JobAnswers(t) \/ JobTimesOut(t) \/ DnsFails(t) \/ JobRefused(t)
           \/ JobLost(t) \/ Retry(t)
  BY <1>5 DEF ReadMaster, JobAnswers, JobTimesOut, DnsFails, JobRefused, JobLost, Retry,
              CleanUp, End
<1>6. CASE CloseTunnels(t) \/ FirstTunnel(t) \/ Find(t)
  BY <1>6 DEF CloseTunnels, FirstTunnel, Find, Search, Closed, Goto, End
<1> QED
  BY <1>1, <1>2, <1>3, <1>4, <1>5, <1>6 DEF Step

LEMMA HandsOfOthers ==
    ASSUME AllSound, NEW t \in Threads, Call(t) \/ Step(t)
    PROVE  \A u \in Threads \ {t} : \A p : Keeps(u, p)' <=> Keeps(u, p)
BY OthersStay DEF Keeps

\* A process is started ...
LEMMA TunnelStarted ==
    ASSUME TunnelInv, AllSound, NEW t \in Threads, StartTunnel(t)
    PROVE  TunnelInv'
<1>1. /\ started' = started + 1 /\ started' \in 0..MaxTunnels /\ started \in Nat
      /\ tunnelProcs' = tunnelProcs \cup {started'} /\ UNCHANGED tunnels
  BY SshAssumption DEF StartTunnel, TunnelInv, TunnelTypeOK
<1>2. \A u \in Threads \ {t} : \A p : Keeps(u, p)' <=> Keeps(u, p)
  BY HandsOfOthers DEF Step
<1>3. \A p : ~Keeps(t, p) /\ (Keeps(t, p)' <=> p = started')
  <2>1. /\ pc[t] = "startTunnel" /\ pc'[t] = "list"
        /\ frame'[t] = [frame[t] EXCEPT !.got = started']
    BY DEF StartTunnel, AllSound
  <2>2. frame'[t].got = started'
    BY <1>1, <2>1, FrameEdits DEF AllSound
  <2> QED
    BY <2>1, <2>2 DEF Keeps
<1>4. \A p : Listed(p)' <=> Listed(p)
  BY <1>1 DEF Listed
<1>5. TunnelTypeOK'
  <2> DEFINE T  == [local : Ports, remote : Remotes, proc : 1..started]
             T1 == [local : Ports, remote : Remotes, proc : 1..started']
  <2>1. tunnels \in Seq(T) /\ T \subseteq T1
    BY <1>1 DEF TunnelInv, TunnelTypeOK
  <2> HIDE DEF T, T1
  <2>2. tunnels \in Seq(T1)
    BY <2>1, SeqMonotonic
  <2> QED
    BY <1>1, <2>2 DEF T1, TunnelInv, TunnelTypeOK
<1>6. ~Listed(started')
  <2> SUFFICES ASSUME NEW i \in DOMAIN tunnels PROVE tunnels[i].proc # started'
    BY DEF Listed
  <2>1. tunnels[i].proc \in 1..started
    BY ListedTunnels DEF TunnelInv
  <2> QED
    BY <1>1, <2>1
<1>7. ASSUME NEW u \in Threads, NEW p, Keeps(u, p)'
      PROVE  /\ p \in 1..started' /\ ~Listed(p)'
             /\ \A v \in Threads : Keeps(v, p)' => v = u
  <2>1. CASE u = t
    BY <1>1, <1>2, <1>3, <1>4, <1>6, <1>7, <2>1 DEF TunnelInv
  <2>2. CASE u # t
    BY <1>1, <1>2, <1>3, <1>4, <1>7, <2>2 DEF TunnelInv
  <2> QED
    BY <2>1, <2>2
<1>8. \A p \in tunnelProcs' : Listed(p)' \/ \E u \in Threads : Keeps(u, p)'
  <2> SUFFICES ASSUME NEW p \in tunnelProcs', p # started'
               PROVE  Listed(p)' \/ \E u \in Threads : Keeps(u, p)'
    BY <1>3
  <2> QED
    BY <1>1, <1>2, <1>3, <1>4 DEF TunnelInv
<1> QED
  BY <1>1, <1>5, <1>7, <1>8 DEF TunnelInv

\* ... and listed.
LEMMA TunnelListed ==
    ASSUME TunnelInv, AllSound, NEW t \in Threads, ListTunnel(t)
    PROVE  TunnelInv'
<1> DEFINE T   == [local : Ports, remote : Remotes, proc : 1..started]
           q   == frame[t].got
           new == [local |-> frame[t].local, remote |-> frame[t].remote, proc |-> q]
<1>1. tunnels' = Append(tunnels, new) /\ UNCHANGED <<started, tunnelProcs>>
  BY DEF ListTunnel
<1>2. \A u \in Threads \ {t} : \A p : Keeps(u, p)' <=> Keeps(u, p)
  BY HandsOfOthers DEF Step
<1>3. \A p : ~Keeps(t, p)' /\ (Keeps(t, p) <=> p = q)
  BY DEF ListTunnel, End, AllSound, Keeps
<1>4. q \in 1..started /\ ~Listed(q)
  BY <1>3 DEF TunnelInv
<1>5. new \in T /\ new.proc = q
  <2>1. frame[t].local \in Ports /\ frame[t].remote \in Remotes
    BY DEF ListTunnel, AllSound, Sound, TunnelAt
  <2> QED
    BY <1>4, <2>1
<1>6. tunnels \in Seq(T)
  BY DEF TunnelInv, TunnelTypeOK
<1> HIDE DEF T, new, q
<1>7. /\ tunnels' \in Seq(T) /\ Len(tunnels) \in Nat
      /\ \A i \in 1..Len(tunnels) : tunnels'[i] = tunnels[i]
      /\ tunnels'[Len(tunnels) + 1] = new
      /\ DOMAIN tunnels = 1..Len(tunnels) /\ DOMAIN tunnels' = 1..(Len(tunnels) + 1)
  BY <1>1, <1>5, <1>6
<1>8. TunnelTypeOK'
  BY <1>1, <1>7 DEF T, TunnelInv, TunnelTypeOK
<1>9. \A p : Listed(p)' <=> Listed(p) \/ p = q
  BY <1>5, <1>7 DEF Listed
<1>10. \A i, j \in DOMAIN tunnels' : tunnels'[i].proc = tunnels'[j].proc => i = j
  <2>1. \A i, j \in 1..Len(tunnels) : tunnels[i].proc = tunnels[j].proc => i = j
    BY <1>7 DEF TunnelInv
  <2>2. \A i \in 1..Len(tunnels) : tunnels[i].proc # q
    BY <1>4, <1>7 DEF Listed
  <2> QED
    BY <1>5, <1>7, <2>1, <2>2
<1>11. \A p \in tunnelProcs' : Listed(p)' \/ \E u \in Threads : Keeps(u, p)'
  BY <1>1, <1>2, <1>3, <1>9 DEF TunnelInv
<1>12. ASSUME NEW u \in Threads, NEW p, Keeps(u, p)'
       PROVE  /\ p \in 1..started' /\ ~Listed(p)'
              /\ \A v \in Threads : Keeps(v, p)' => v = u
  <2>1. u # t /\ Keeps(u, p)
    BY <1>2, <1>3, <1>12
  <2>2. p # q
    BY <1>3, <2>1 DEF TunnelInv
  <2> QED
    BY <1>1, <1>2, <1>3, <1>9, <2>1, <2>2 DEF TunnelInv
<1> QED
  BY <1>8, <1>10, <1>11, <1>12 DEF TunnelInv

\* It is taken off the list ...
LEMMA TunnelPopped ==
    ASSUME TunnelInv, AllSound, NEW t \in Threads, NEW i \in DOMAIN tunnels,
           Pop(t), i = frame[t].index
    PROVE  TunnelInv'
<1> DEFINE T == [local : Ports, remote : Remotes, proc : 1..started]
           q == tunnels[i].proc
<1>1. tunnels \in Seq(T) /\ i \in 1..Len(tunnels) /\ Len(tunnels) \in Nat
  BY DEF TunnelInv, TunnelTypeOK
<1>2. q \in 1..started /\ q \in Nat
  BY ListedTunnels DEF TunnelInv
<1>3. /\ tunnels' = RemoveAt(tunnels, i) /\ UNCHANGED <<started, tunnelProcs>>
      /\ pc[t] = "pop" /\ pc'[t] = "killTunnel"
      /\ frame'[t] = [frame[t] EXCEPT !.got = q]
  BY DEF Pop, AllSound
<1>4. \A u \in Threads \ {t} : \A p : Keeps(u, p)' <=> Keeps(u, p)
  BY HandsOfOthers DEF Step
<1> HIDE DEF T, q
<1>5. \A p : ~Keeps(t, p) /\ (Keeps(t, p)' <=> p = q)
  <2>1. frame'[t].got = q
    BY <1>2, <1>3, FrameEdits DEF AllSound
  <2> QED
    BY <1>3, <2>1 DEF Keeps
<1>6. /\ tunnels' \in Seq(T) /\ Len(tunnels') = Len(tunnels) - 1
      /\ \A j \in 1..(Len(tunnels) - 1) :
           tunnels'[j] = IF j < i THEN tunnels[j] ELSE tunnels[j + 1]
  BY <1>1, <1>3, Removed
<1>7. TunnelTypeOK'
  BY <1>3, <1>6 DEF TunnelInv, TunnelTypeOK, T
<1>8. DOMAIN tunnels = 1..Len(tunnels) /\ DOMAIN tunnels' = 1..(Len(tunnels) - 1)
  BY <1>1, <1>6
<1>9. \A j, k \in 1..Len(tunnels) : tunnels[j].proc = tunnels[k].proc => j = k
  BY <1>8 DEF TunnelInv
<1>10. \A j, k \in DOMAIN tunnels' : tunnels'[j].proc = tunnels'[k].proc => j = k
  <2> SUFFICES ASSUME NEW j \in 1..(Len(tunnels) - 1), NEW k \in 1..(Len(tunnels) - 1),
                      tunnels'[j].proc = tunnels'[k].proc
               PROVE  j = k
    BY <1>8
  <2> DEFINE old(n) == IF n < i THEN n ELSE n + 1
  <2>1. tunnels'[j] = tunnels[old(j)] /\ tunnels'[k] = tunnels[old(k)]
    BY <1>6
  <2>2. old(j) \in 1..Len(tunnels) /\ old(k) \in 1..Len(tunnels)
    BY <1>1
  <2>3. old(j) = old(k)
    BY <1>9, <2>1, <2>2
  <2> QED
    BY <1>1, <2>3
\* What the list still has, it had, and it is not q; and all else stays.
<1>11. ASSUME NEW p PROVE Listed(p)' <=> Listed(p) /\ p # q
  <2>1. ASSUME Listed(p)' PROVE Listed(p) /\ p # q
    <3>1. PICK j \in DOMAIN tunnels' : tunnels'[j].proc = p
      BY <2>1 DEF Listed
    <3> DEFINE k == IF j < i THEN j ELSE j + 1
    <3>2. k \in 1..Len(tunnels) /\ k # i /\ tunnels'[j] = tunnels[k]
      BY <1>1, <1>6, <1>8, <3>1
    <3>3. tunnels[k].proc # q
      BY <1>1, <1>9, <3>2 DEF q
    <3> QED
      BY <1>8, <3>1, <3>2, <3>3 DEF Listed
  <2>2. ASSUME Listed(p), p # q PROVE Listed(p)'
    <3>1. PICK k \in 1..Len(tunnels) : p = tunnels[k].proc
      BY <1>8, <2>2 DEF Listed
    <3>2. k # i
      BY <2>2, <3>1 DEF q
    <3> DEFINE j == IF k < i THEN k ELSE k - 1
    <3>3. j \in 1..(Len(tunnels) - 1) /\ tunnels'[j] = tunnels[k]
      <4>1. CASE k < i
        BY <1>1, <1>6, <3>1, <4>1
      <4>2. CASE k > i
        <5>1. j = k - 1 /\ k - 1 \in 1..(Len(tunnels) - 1) /\ ~(k - 1 < i) /\ k - 1 + 1 = k
          BY <1>1, <4>2
        <5> QED
          BY <1>6, <5>1
      <4> QED
        BY <1>1, <3>2, <4>1, <4>2
    <3>4. j \in DOMAIN tunnels' /\ tunnels'[j].proc = p
      BY <1>8, <3>1, <3>3
    <3> HIDE DEF j
    <3> QED
      BY <3>4 DEF Listed
  <2> QED
    BY <2>1, <2>2
<1>12. \A p \in tunnelProcs' : Listed(p)' \/ \E u \in Threads : Keeps(u, p)'
  BY <1>3, <1>4, <1>5, <1>11 DEF TunnelInv
<1>13. ASSUME NEW u \in Threads, NEW p, Keeps(u, p)'
       PROVE  /\ p \in 1..started' /\ ~Listed(p)'
              /\ \A v \in Threads : Keeps(v, p)' => v = u
  <2>1. Listed(q)
    BY DEF Listed, q
  <2>2. CASE u = t
    BY <1>2, <1>3, <1>4, <1>5, <1>11, <1>13, <2>1, <2>2 DEF TunnelInv
  <2>3. CASE u # t
    <3>1. Keeps(u, p) /\ ~Listed(p) /\ p # q
      BY <1>4, <1>13, <2>1, <2>3 DEF TunnelInv
    <3> QED
      BY <1>3, <1>4, <1>5, <1>11, <2>3, <3>1 DEF TunnelInv
  <2> QED
    BY <2>2, <2>3
<1> QED
  BY <1>7, <1>10, <1>12, <1>13 DEF TunnelInv

\* ... and killed.
LEMMA TunnelKilled ==
    ASSUME TunnelInv, AllSound, NEW t \in Threads, KillTunnel(t)
    PROVE  TunnelInv'
<1> DEFINE q == frame[t].got
<1>1. tunnelProcs' = tunnelProcs \ {q} /\ UNCHANGED <<started, tunnels>>
  BY DEF KillTunnel
<1>2. \A u \in Threads \ {t} : \A p : Keeps(u, p)' <=> Keeps(u, p)
  BY HandsOfOthers DEF Step
<1>3. \A p : ~Keeps(t, p)' /\ (Keeps(t, p) <=> p = q)
  BY DEF KillTunnel, Closed, Goto, End, AllSound, Keeps
<1> HIDE DEF q
<1>4. \A p : Listed(p)' <=> Listed(p)
  BY <1>1 DEF Listed
<1>5. TunnelTypeOK'
  BY <1>1 DEF TunnelInv, TunnelTypeOK
<1> QED
  BY <1>1, <1>2, <1>3, <1>4, <1>5 DEF TunnelInv

LEMMA TunnelsNext ==
    ASSUME TunnelInv, AllSound, [Next]_vars
    PROVE  TunnelInv'
<1>1. ASSUME UNCHANGED tunnel, \A u \in Threads : \A p : Keeps(u, p)' <=> Keeps(u, p)
      PROVE  TunnelInv'
  <2>1. UNCHANGED <<tunnels, tunnelProcs, started>> /\ \A p : Listed(p)' <=> Listed(p)
    BY <1>1 DEF tunnel, Listed
  <2> QED
    BY <1>1, <2>1 DEF TunnelInv, TunnelTypeOK
<1>2. CASE UNCHANGED vars
  BY <1>1, <1>2 DEF vars, thread, tunnel, Keeps
<1>3. ASSUME NEW t \in Threads, Call(t) \/ Step(t),
             ~(StartTunnel(t) \/ ListTunnel(t) \/ Pop(t) \/ KillTunnel(t))
      PROVE  TunnelInv'
  <2>1. \A p : ~Keeps(t, p) /\ ~Keeps(t, p)'
    BY <1>3, EmptyHands DEF Keeps, Hands
  <2> QED
    BY <1>1, <1>3, <2>1, EmptyHands, HandsOfOthers
<1>4. ASSUME NEW t \in Threads, StartTunnel(t) \/ ListTunnel(t) \/ KillTunnel(t)
      PROVE  TunnelInv'
  BY <1>4, TunnelStarted, TunnelListed, TunnelKilled
<1>5. ASSUME NEW t \in Threads, Pop(t) PROVE TunnelInv'
  <2>1. CASE frame[t].index \in DOMAIN tunnels
    BY <1>5, <2>1, TunnelPopped
  <2>2. CASE UNCHANGED tunnels /\ End(t, "IndexError")
    <3>1. \A p : ~Keeps(t, p) /\ ~Keeps(t, p)'
      BY <1>5, <2>2 DEF Pop, End, Keeps, AllSound
    <3>2. UNCHANGED tunnel
      BY <1>5, <2>2 DEF Pop, tunnel
    <3> QED
      BY <1>1, <1>5, <3>1, <3>2, HandsOfOthers DEF Step
  <2> QED
    BY <1>5, <2>1, <2>2 DEF Pop
<1>6. ASSUME NEW p, SocketAppears(p) \/ MasterDies(p) PROVE TunnelInv'
  BY <1>1, <1>6 DEF SocketAppears, MasterDies, thread, Keeps
<1> QED
  BY <1>2, <1>3, <1>4, <1>5, <1>6 DEF Next

------------------------------------------------------------------------------
(* The theorems *)

Inv ==
    /\ AllSound /\ LockInv /\ MasterTypeOK /\ TunnelInv
    /\ calls \in 0..MaxCalls /\ overlapped \in BOOLEAN
    /\ ~overlapped => Unmet

LEMMA InvInit == Init => Inv
<1> SUFFICES ASSUME Init PROVE Inv
  OBVIOUS
<1>1. AllSound
  BY SoundInit
<1>2. \A t \in Threads : pc[t] = "idle" /\ outcome[t] = "none"
  BY DEF Init
<1>3. LockInv
  BY <1>2 DEF Init, LockInv, SettingAt, Cleanup, Cleaning
<1>4. MasterTypeOK /\ calls \in 0..MaxCalls
  BY SshAssumption DEF Init, MasterTypeOK, None
<1>5. TunnelInv
  <2>1. tunnels = <<>> /\ started = 0 /\ tunnelProcs = {}
    BY DEF Init
  <2> QED
    BY <1>2, <2>1, SshAssumption DEF TunnelInv, TunnelTypeOK, Keeps, Listed
<1>6. overlapped \in BOOLEAN
  BY DEF Init
<1>7. Unmet
  <2>1. Rest /\ NoFaults /\ ~Overlap
    BY <1>2 DEF Init, Rest, NoFaults, Faults, Overlap, Cleaning
  <2> QED
    BY <1>2, <2>1 DEF Unmet, Known, MasterAt
<1> QED
  BY <1>1, <1>3, <1>4, <1>5, <1>6, <1>7 DEF Inv

LEMMA InvNext == Inv /\ [Next]_vars => Inv'
<1> SUFFICES ASSUME Inv, [Next]_vars PROVE Inv'
  OBVIOUS
<1>1. MasterTypeOK' /\ TunnelInv'
  BY MasterTypes, TunnelsNext DEF Inv
<1>2. CASE UNCHANGED vars
  <2>1. UNCHANGED <<lock, proc, tempdir, alive, dirs, pc, frame, outcome, executed, calls,
                    overlapped>>
    BY <1>2 DEF vars, master, thread
  <2>2. AllSound' /\ LockInv'
    BY <2>1 DEF Inv, AllSound, LockInv
  <2>3. Unmet => Unmet'
    BY <2>1 DEF Unmet, Known, MasterAt, Rest, NoFaults, Overlap
  <2> QED
    BY <1>1, <2>1, <2>2, <2>3 DEF Inv
<1>3. CASE Next
  <2>1. overlapped' \in BOOLEAN
    BY <1>3, Zenon DEF Next, Noted
  <2>2. ~overlapped' => Unmet /\ ~Overlap'
    BY <1>3, Zenon DEF Next, Noted, Inv
  <2>3. ASSUME NEW t \in Threads, Call(t) PROVE Inv'
    <3>1. AllSound' /\ LockInv'
      BY <2>3, SoundCalls, LockCalls DEF Inv, TunnelInv
    <3>2. calls' \in 0..MaxCalls
      BY <2>3, SshAssumption
         DEF Inv, Call, CallRun, CallTunnel, CallTunnelAt, CallCloseTunnel, CallClose, Begin
    <3>3. ~overlapped' => Unmet'
      BY <2>2, <2>3, UnmetCalls DEF Inv, Unmet
    <3> QED
      BY <1>1, <2>1, <3>1, <3>2, <3>3 DEF Inv
  <2>4. ASSUME NEW t \in Threads, Step(t) PROVE Inv'
    <3>1. AllSound'
      BY <2>4, SoundPlainSteps, SoundOtherSteps, SoundSearches DEF Inv, TunnelInv, Step
    <3>2. LockInv'
      BY <2>4, LockSteps DEF Inv
    <3>3. UNCHANGED calls
      BY <2>4 DEF Step, LockSetup, Check, GetSocket, FindSocket, Poll, CheckAgain, MakeDir, Spawn,
         WaitForSocket, SetupFails, Clean, Kill, Reap, Forget, RemoveTree, ForgetTree, ReadMaster,
         ReadPath, JobAnswers, JobTimesOut, DnsFails, JobRefused, JobLost, Retry, StartTunnel,
         ListTunnel, CloseTunnels, FirstTunnel, Find, Pop, KillTunnel
    <3>4. ~overlapped' => Unmet'
      BY <2>2, <2>4, UnmetSteps DEF Inv, Unmet
    <3> QED
      BY <1>1, <2>1, <3>1, <3>2, <3>3, <3>4 DEF Inv
  <2>5. ASSUME NEW p, SocketAppears(p) \/ MasterDies(p) PROVE Inv'
    <3>1. UNCHANGED <<lock, pc, frame, outcome, executed, calls>>
      BY <2>5 DEF SocketAppears, MasterDies, thread
    <3>2. AllSound' /\ LockInv'
      BY <3>1 DEF Inv, AllSound, LockInv
    <3>3. ~overlapped' => Unmet'
      BY <2>2, <2>5, UnmetMasters DEF Unmet
    <3> QED
      BY <1>1, <2>1, <3>1, <3>2, <3>3 DEF Inv
  <2> QED
    BY <1>3, <2>3, <2>4, <2>5 DEF Next
<1> QED
  BY <1>2, <1>3

THEOREM InvHolds == Spec => []Inv
BY InvInit, InvNext, PTL DEF Spec

\* Every variable keeps its type, and whoever sets the master up (line 119)
\* holds the lock, also while it cleans up a master that is down.
THEOREM TypesHold == Spec => []TypeOK
<1>1. Inv => TypeOK
  BY DEF Inv, TypeOK, ThreadTypeOK, TunnelInv, AllSound, LockInv, SettingUp, SettingAt, Cleanup
<1> QED
  BY <1>1, InvHolds, PTL

\* However often a call of run() loses its connection, is not told the name of the
\* host and sets the master up again, the host runs its command at most `attempts`
\* times (lines 174-177, 271-276).
THEOREM RunsAtMostAttemptsHolds == Spec => []RunsAtMostAttempts
<1>1. Inv => RunsAtMostAttempts
  BY DEF Inv, AllSound, Sound, RunsAtMostAttempts
<1> QED
  BY <1>1, InvHolds, PTL

\* A tunnel process that exists is on the list, once, or in the hands of one thread
\* that has just started it (lines 366-369) or taken it off (389-391), whichever
\* threads make and close tunnels, and whichever tunnel each of them closes.
THEOREM TunnelsAreKeptHolds == Spec => []TunnelsAreKept
<1>1. Inv => TunnelsAreKept
  BY DEF Inv, TunnelInv, TunnelsAreKept
<1> QED
  BY <1>1, InvHolds, PTL

\* A close() that comes back leaves no tunnel process but those which other threads
\* have in their hands (lines 306-310).
THEOREM CloseClosesTunnelsHolds == Spec => CloseClosesTunnels
<1> DEFINE Closes(t) == pc[t] = "closing" /\ pc'[t] = "idle" =>
                          \A p \in tunnelProcs : \E u \in Threads \ {t} : Keeps(u, p)
<1>1. ASSUME Inv, [Next]_vars, NEW t \in Threads, pc[t] = "closing", pc'[t] = "idle",
             NEW p \in tunnelProcs
      PROVE  \E u \in Threads \ {t} : Keeps(u, p)
  <2>1. Call(t) \/ Step(t)
    <3>1. ASSUME NEW u \in Threads \ {t} PROVE ~(Call(u) \/ Step(u))
      BY <1>1, OthersStay DEF Inv
    <3>2. ASSUME NEW q, SocketAppears(q) \/ MasterDies(q) PROVE FALSE
      BY <1>1, <3>2 DEF SocketAppears, MasterDies, thread
    <3>3. ~UNCHANGED vars
      BY <1>1 DEF vars, thread
    <3> QED
      BY <1>1, <3>1, <3>2, <3>3 DEF Next
  <2>2. CloseTunnels(t)
    BY <1>1, <2>1
       DEF Call, CallRun, CallTunnel, CallTunnelAt, CallCloseTunnel, CallClose, Begin, Step,
           LockSetup, Check, GetSocket, FindSocket, Poll, CheckAgain, MakeDir, Spawn,
           WaitForSocket, SetupFails, Clean, Kill, Reap, Forget, RemoveTree, ForgetTree,
           ReadMaster, ReadPath, JobAnswers, JobTimesOut, DnsFails, JobRefused, JobLost, Retry,
           StartTunnel, ListTunnel, FirstTunnel, Find, Pop, KillTunnel
  <2>3. tunnels = <<>>
    BY <1>1, <2>2 DEF CloseTunnels, Goto, Inv, AllSound
  <2>4. ~Listed(p) /\ ~Keeps(t, p)
    BY <1>1, <2>3 DEF Listed, Keeps
  <2> QED
    BY <1>1, <2>4 DEF Inv, TunnelInv
<1>2. Inv /\ [Next]_vars => [\A t \in Threads : Closes(t)]_vars
  BY <1>1
<1> QED
  BY <1>2, InvHolds, PTL DEF Spec, CloseClosesTunnels

\* As long as no cleanup meets another thread, the connection knows the one master
\* and the one directory there are, and no call fails because one of them is gone.
THEOREM OnlyKnownMasterHolds == Spec => []OnlyKnownMaster
<1>1. ASSUME Inv, \A t \in Threads : pc[t] \notin Cleaning \cup Using, ~overlapped
      PROVE  Rest
  BY <1>1 DEF Inv, Unmet, Known, Between, Cleaning, Using
<1>2. ASSUME Inv, ~overlapped
      PROVE  \A t \in Threads : outcome[t] \notin {"NoneError", "NotFound"}
  BY <1>2 DEF Inv, Unmet, NoFaults, Faults
<1>3. Inv => OnlyKnownMaster
  BY <1>1, <1>2 DEF OnlyKnownMaster, Rest
<1> QED
  BY <1>3, InvHolds, PTL
==============================================================================
