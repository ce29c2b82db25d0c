------------------------------ MODULE RpcClient ------------------------------
(***************************************************************************)
(* The connection pool of acts/controllers/sl4a_lib/rpc_client.py, with    *)
(* the connections of rpc_connection.py: any number of threads call        *)
(* RpcClient.rpc, one more thread calls RpcClient.terminate.               *)
(*                                                                         *)
(* One action is one stretch of code during which no other thread can      *)
(* observe or change the pool: a list operation, a read of the lists, the  *)
(* exchange of one request or one reply.  The lock is held from the action *)
(* that acquires it to the one that leaves the `with` block, so a step of  *)
(* a thread that ignores the lock (terminate, a timed-out call) may fall   *)
(* in between.                                                             *)
(*                                                                         *)
(* The two lists are sets here: they never hold a connection twice, and    *)
(* any element stands for the last one that pop() would take.  A           *)
(* connection nobody refers to any more may be met again as a new one.     *)
(* The device at the other end answers the requests of a connection in     *)
(* order, stops answering, or closes the connection.                       *)
(***************************************************************************)
EXTENDS Naturals, Sequences, FiniteSets

CONSTANTS
    Callers,         \* threads that call rpc()
    Conns,           \* RpcConnection objects
    None,            \* no connection, no thread
    MaxConnections,  \* RpcClient.max_connections
    Retries,         \* rpc()'s retries: the number of tries
    MaxCalls,        \* bound: calls one thread makes
    AdbMayFail,      \* environment: adb commands may fail
    ArgsMayBeBad     \* environment: callers pass values json.dumps rejects

ASSUME ConnsAssumption == None \notin Conns /\ None \notin Callers
ASSUME LimitAssumption == MaxConnections \in Nat \ {0}
ASSUME RetriesAssumption == Retries \in Nat \ {0}
ASSUME CallsAssumption == MaxCalls \in Nat
ASSUME FlagsAssumption == AdbMayFail \in BOOLEAN /\ ArgsMayBeBad \in BOOLEAN

VARIABLES
    free, working, lock, isAlive,               \* the RpcClient object
    pc, conn, myTicket, tries, result, calls,   \* the locals of each caller
    ticket, owed, peerUp, forwarded,            \* the connections, and adb
    tpc, toClose                                \* the terminating thread

clientVars == <<free, working, lock, isAlive>>
callerVars == <<pc, conn, myTicket, tries, result, calls>>
connVars   == <<ticket, owed, peerUp, forwarded>>
termVars   == <<tpc, toClose>>
vars       == <<clientVars, callerVars, connVars, termVars>>

\* Where a caller holds the lock, and where it holds a connection.
Locked  == {"pop", "append", "create", "adopt", "giveBack"}
Using   == {"ticket", "send", "recv", "closing", "discard", "release"}
Holding == Using \cup {"append", "adopt", "giveBack"}
Seeking == {"look", "lockPop", "count", "lockNew"}
PCs     == {"idle", "pop", "create"} \cup Seeking \cup Holding

\* "failed" is every exception but the two that have a name of their own.
Results == {"none", "answered", "mismatch", "timeout", "failed"}
TermPCs == {"idle", "closing", "resetWorking", "markDead", "done", "aborted"}

\* Nobody refers to c: creating an RpcConnection may yield it.
Held     == { conn[t] : t \in Callers } \ {None}
Fresh(c) == c \notin free \cup working \cup Held \cup forwarded \cup toClose

\* len(_free_connections) + len(_working_connections)
ClientCount == Cardinality(free) + Cardinality(working)

------------------------------------------------------------------------------
\* __init__: the first connection, created before any caller has the client.
Init ==
    /\ \E c \in Conns : free = {c} /\ forwarded = {c}
    /\ working = {}
    /\ lock = None
    /\ isAlive = TRUE
    /\ pc = [t \in Callers |-> "idle"]
    /\ conn = [t \in Callers |-> None]
    /\ myTicket = [t \in Callers |-> 0]
    /\ tries = [t \in Callers |-> 1]
    /\ result = [t \in Callers |-> "none"]
    /\ calls = [t \in Callers |-> 0]
    /\ ticket = [c \in Conns |-> 0]
    /\ owed = [c \in Conns |-> <<>>]
    /\ peerUp = [c \in Conns |-> TRUE]
    /\ tpc = "idle"
    /\ toClose = {}

Goto(t, label) == pc' = [pc EXCEPT ![t] = label]

\* rpc() returns or raises: r is what the caller sees of it.
Leave(t, r) ==
    /\ Goto(t, "idle")
    /\ conn' = [conn EXCEPT ![t] = None]
    /\ result' = [result EXCEPT ![t] = r]
    /\ UNCHANGED <<myTicket, tries, calls>>

------------------------------------------------------------------------------
(* Getting hold of the method: the only place that looks at is_alive. *)

Call(t) ==
    /\ pc[t] = "idle"
    /\ calls[t] < MaxCalls
    /\ calls' = [calls EXCEPT ![t] = @ + 1]
    /\ tries' = [tries EXCEPT ![t] = 1]
    /\ myTicket' = [myTicket EXCEPT ![t] = 0]
    /\ IF isAlive
         THEN Goto(t, "look") /\ result' = [result EXCEPT ![t] = "none"]
         ELSE pc' = pc /\ result' = [result EXCEPT ![t] = "failed"]
    /\ UNCHANGED <<conn, clientVars, connVars, termVars>>

------------------------------------------------------------------------------
(* _get_free_connection *)

\* The unlocked test of the free list.
Look(t) ==
    /\ pc[t] = "look"
    /\ Goto(t, IF free # {} THEN "lockPop" ELSE "count")
    /\ UNCHANGED <<conn, myTicket, tries, result, calls,
                   clientVars, connVars, termVars>>

\* The lock is acquired; `continue` leaves it at once if the list is empty.
LockPop(t) ==
    /\ pc[t] = "lockPop"
    /\ lock = None
    /\ IF free = {}
         THEN Goto(t, "look") /\ lock' = lock
         ELSE Goto(t, "pop") /\ lock' = t
    /\ UNCHANGED <<free, working, isAlive, conn, myTicket, tries, result,
                   calls, connVars, termVars>>

\* Mutant: the connection stays on the free list.
PopKeeps(t) ==
    /\ pc[t] = "pop"
    /\ \E c \in free :
         /\ conn' = [conn EXCEPT ![t] = c]
         /\ Goto(t, "append")
    /\ UNCHANGED <<clientVars, myTicket, tries, result, calls, connVars, termVars>>

\* terminate() may have emptied the list since: pop() raises IndexError.
Pop(t) ==
    /\ pc[t] = "pop"
    /\ \/ /\ free = {}
          /\ lock' = None
          /\ Leave(t, "failed")
          /\ UNCHANGED free
       \/ \E c \in free :
            /\ free' = free \ {c}
            /\ conn' = [conn EXCEPT ![t] = c]
            /\ Goto(t, "append")
            /\ UNCHANGED <<lock, myTicket, tries, result, calls>>
    /\ UNCHANGED <<working, isAlive, connVars, termVars>>

\* The end of both `with` blocks: the connection joins the working list.
Adopt(t) ==
    /\ pc[t] \in {"append", "adopt"}
    /\ working' = working \cup {conn[t]}
    /\ lock' = None
    /\ Goto(t, "ticket")
    /\ UNCHANGED <<free, isAlive, conn, myTicket, tries, result, calls,
                   connVars, termVars>>

\* The unlocked count; sleep(.01) and another round when the pool is full.
Count(t) ==
    /\ pc[t] = "count"
    /\ Goto(t, IF ClientCount < MaxConnections THEN "lockNew" ELSE "look")
    /\ UNCHANGED <<conn, myTicket, tries, result, calls,
                   clientVars, connVars, termVars>>

\* Mutant: the count is not compared again under the lock.
LockNewUnchecked(t) ==
    /\ pc[t] = "lockNew"
    /\ lock = None
    /\ lock' = t
    /\ Goto(t, "create")
    /\ UNCHANGED <<free, working, isAlive, conn, myTicket, tries, result,
                   calls, connVars, termVars>>

LockNew(t) ==
    /\ pc[t] = "lockNew"
    /\ lock = None
    /\ IF ClientCount < MaxConnections
         THEN Goto(t, "create") /\ lock' = t
         ELSE Goto(t, "look") /\ lock' = lock
    /\ UNCHANGED <<free, working, isAlive, conn, myTicket, tries, result,
                   calls, connVars, termVars>>

\* _create_connection_func: the port is forwarded, then the socket opened.
Create(t) ==
    /\ pc[t] = "create"
    /\ \E c \in Conns :
         /\ Fresh(c)
         /\ forwarded' = forwarded \cup {c}
         /\ conn' = [conn EXCEPT ![t] = c]
         /\ ticket' = [ticket EXCEPT ![c] = 0]
         /\ owed' = [owed EXCEPT ![c] = <<>>]
         /\ peerUp' = [peerUp EXCEPT ![c] = TRUE]
    /\ Goto(t, "adopt")
    /\ UNCHANGED <<clientVars, myTicket, tries, result, calls, termVars>>

\* It raises; if only the socket failed, the forwarded port stays behind.
CreateFails(t) ==
    /\ pc[t] = "create"
    /\ AdbMayFail
    /\ \/ forwarded' = forwarded
       \/ \E c \in Conns : Fresh(c) /\ forwarded' = forwarded \cup {c}
    /\ lock' = None
    /\ Leave(t, "failed")
    /\ UNCHANGED <<free, working, isAlive, ticket, owed, peerUp, termVars>>

------------------------------------------------------------------------------
(* rpc, from the ticket to the reply *)

NewTicket(t) ==
    /\ pc[t] = "ticket"
    /\ ticket' = [ticket EXCEPT ![conn[t]] = @ + 1]
    /\ \/ /\ Goto(t, "send")
          /\ myTicket' = [myTicket EXCEPT ![t] = ticket'[conn[t]]]
          /\ UNCHANGED <<conn, tries, result, calls>>
       \/ /\ ArgsMayBeBad        \* json.dumps raises, before the try
          /\ Leave(t, "failed")
    /\ UNCHANGED <<clientVars, owed, peerUp, forwarded, termVars>>

\* A write to a connection the device has closed may still be accepted.
Send(t) ==
    /\ pc[t] = "send"
    /\ owed' = [owed EXCEPT ![conn[t]] =
                  IF peerUp[conn[t]] THEN Append(@, myTicket[t]) ELSE @]
    /\ Goto(t, "recv")
    /\ UNCHANGED <<conn, myTicket, tries, result, calls, clientVars,
                   ticket, peerUp, forwarded, termVars>>

\* The response is read; its id is compared after the connection is released.
Reply(t) ==
    /\ pc[t] = "recv"
    /\ peerUp[conn[t]]
    /\ owed[conn[t]] # <<>>
    /\ owed' = [owed EXCEPT ![conn[t]] = Tail(@)]
    /\ result' = [result EXCEPT ![t] =
         IF Head(owed[conn[t]]) = myTicket[t] THEN "answered" ELSE "mismatch"]
    /\ Goto(t, "release")
    /\ UNCHANGED <<conn, myTicket, tries, calls, clientVars,
                   ticket, peerUp, forwarded, termVars>>

\* readline() returns nothing: try again, or report and give up.
NoReply(t) ==
    /\ pc[t] = "recv"
    /\ ~peerUp[conn[t]]
    /\ IF tries[t] < Retries
         THEN /\ Goto(t, "send")
              /\ tries' = [tries EXCEPT ![t] = @ + 1]
              /\ UNCHANGED result
         ELSE /\ Goto(t, "release")
              /\ result' = [result EXCEPT ![t] = "failed"]
              /\ UNCHANGED tries
    /\ UNCHANGED <<conn, myTicket, calls, clientVars, connVars, termVars>>

\* BrokenPipeError, or a reset that no except clause names.
SocketError(t) ==
    /\ pc[t] \in {"send", "recv"}
    /\ ~peerUp[conn[t]]
    /\ Goto(t, "release")
    /\ result' = [result EXCEPT ![t] = "failed"]
    /\ UNCHANGED <<conn, myTicket, tries, calls, clientVars, connVars, termVars>>

\* Mutant: a connection that timed out goes back to the free list.
SocketTimeoutReleases(t) ==
    /\ pc[t] \in {"send", "recv"}
    /\ Goto(t, "release")
    /\ result' = [result EXCEPT ![t] = "timeout"]
    /\ UNCHANGED <<conn, myTicket, tries, calls, clientVars, connVars, termVars>>

SocketTimeout(t) ==
    /\ pc[t] \in {"send", "recv"}
    /\ Goto(t, "closing")
    /\ UNCHANGED <<conn, myTicket, tries, result, calls,
                   clientVars, connVars, termVars>>

------------------------------------------------------------------------------
(* rpc, getting rid of the connection *)

\* RpcConnection.close: adb refuses to remove a forward that is not there.
Close(c) == c \in forwarded /\ forwarded' = forwarded \ {c}
CloseRaises(c) == (AdbMayFail \/ c \notin forwarded) /\ UNCHANGED forwarded

CloseTimedOut(t) ==
    /\ pc[t] = "closing"
    /\ \/ /\ Close(conn[t])
          /\ Goto(t, "discard")
          /\ UNCHANGED <<conn, myTicket, tries, result, calls>>
       \/ CloseRaises(conn[t]) /\ Leave(t, "failed")
    /\ UNCHANGED <<clientVars, ticket, owed, peerUp, termVars>>

\* _working_connections.remove without the lock; ValueError if it is not there.
Discard(t) ==
    /\ pc[t] = "discard"
    /\ working' = working \ {conn[t]}
    /\ Leave(t, IF conn[t] \in working THEN "timeout" ELSE "failed")
    /\ UNCHANGED <<free, lock, isAlive, connVars, termVars>>

\* Mutant: the connection is on offer before its caller is through with it.
ReleaseAppendsFirst(t) ==
    /\ pc[t] = "release"
    /\ lock = None
    /\ lock' = t
    /\ free' = free \cup {conn[t]}
    /\ Goto(t, "giveBack")
    /\ UNCHANGED <<working, isAlive, conn, myTicket, tries, result, calls,
                   connVars, termVars>>

\* _release_working_connection: remove, under the lock.
Release(t) ==
    /\ pc[t] = "release"
    /\ lock = None
    /\ IF conn[t] \in working
         THEN /\ working' = working \ {conn[t]}
              /\ lock' = t
              /\ Goto(t, "giveBack")
              /\ UNCHANGED <<conn, myTicket, tries, result, calls>>
         ELSE Leave(t, "failed") /\ UNCHANGED <<working, lock>>
    /\ UNCHANGED <<free, isAlive, connVars, termVars>>

\* Mutant: the lock is not given back.
GiveBackKeepsLock(t) ==
    /\ pc[t] = "giveBack"
    /\ free' = free \cup {conn[t]}
    /\ Leave(t, result[t])
    /\ UNCHANGED <<working, lock, isAlive, connVars, termVars>>

\* The rest of _release_working_connection: append, and leave the lock.
GiveBack(t) ==
    /\ pc[t] = "giveBack"
    /\ free' = free \cup {conn[t]}
    /\ lock' = None
    /\ Leave(t, result[t])
    /\ UNCHANGED <<working, isAlive, connVars, termVars>>

------------------------------------------------------------------------------
(* terminate, which never takes the lock *)

TermStart ==
    /\ tpc = "idle"
    /\ toClose' = free \cup working
    /\ tpc' = "closing"
    /\ UNCHANGED <<clientVars, callerVars, connVars>>

TermClose ==
    /\ tpc = "closing"
    /\ \E c \in toClose :
         \/ Close(c) /\ toClose' = toClose \ {c} /\ tpc' = tpc
         \/ CloseRaises(c) /\ toClose' = {} /\ tpc' = "aborted"
    /\ UNCHANGED <<clientVars, callerVars, ticket, owed, peerUp>>

TermResetFree ==
    /\ tpc = "closing"
    /\ toClose = {}
    /\ free' = {}
    /\ tpc' = "resetWorking"
    /\ UNCHANGED <<working, lock, isAlive, callerVars, connVars, toClose>>

TermResetWorking ==
    /\ tpc = "resetWorking"
    /\ working' = {}
    /\ tpc' = "markDead"
    /\ UNCHANGED <<free, lock, isAlive, callerVars, connVars, toClose>>

TermMarkDead ==
    /\ tpc = "markDead"
    /\ isAlive' = FALSE
    /\ tpc' = "done"
    /\ UNCHANGED <<free, working, lock, callerVars, connVars, toClose>>

------------------------------------------------------------------------------
\* The device closes a connection: the app crashes or the cable is pulled.
PeerCloses(c) ==
    /\ c \in free \cup Held
    /\ peerUp[c]
    /\ peerUp' = [peerUp EXCEPT ![c] = FALSE]
    /\ UNCHANGED <<clientVars, callerVars, ticket, owed, forwarded, termVars>>

Acquire(t) ==
    \/ Look(t) \/ LockPop(t) \/ Pop(t) \/ Adopt(t)
    \/ Count(t) \/ LockNew(t) \/ Create(t) \/ CreateFails(t)

Exchange(t) ==
    \/ NewTicket(t) \/ Send(t) \/ Reply(t) \/ NoReply(t)
    \/ SocketError(t) \/ SocketTimeout(t)

Dispose(t) == CloseTimedOut(t) \/ Discard(t) \/ Release(t) \/ GiveBack(t)

Step(t) == Acquire(t) \/ Exchange(t) \/ Dispose(t)

Terminate ==
    \/ TermStart \/ TermClose \/ TermResetFree
    \/ TermResetWorking \/ TermMarkDead

Next ==
    \/ \E t \in Callers : Call(t) \/ Step(t)
    \/ Terminate
    \/ \E c \in Conns : PeerCloses(c)

Spec == Init /\ [][Next]_vars

(* The client in use, before anybody terminates it.  A thread that is      *)
(* inside rpc() keeps running: every wait for a reply has a socket         *)
(* timeout, and the lock is only ever held for a few statements.  Nobody   *)
(* has to call rpc(), and the device never has to answer.                  *)
RunningNext ==
    \/ \E t \in Callers : Call(t) \/ Step(t)
    \/ \E c \in Conns : PeerCloses(c)

RunningSpec ==
    /\ Init /\ [][RunningNext]_vars
    /\ \A t \in Callers : WF_vars(Step(t))

------------------------------------------------------------------------------
(* Properties *)

TypeOK ==
    /\ free \subseteq Conns /\ working \subseteq Conns
    /\ lock \in Callers \cup {None}
    /\ isAlive \in BOOLEAN
    /\ pc \in [Callers -> PCs]
    /\ conn \in [Callers -> Conns \cup {None}]
    /\ myTicket \in [Callers -> Nat]
    /\ tries \in [Callers -> 1..Retries]
    /\ result \in [Callers -> Results]
    /\ calls \in [Callers -> 0..MaxCalls]
    /\ ticket \in [Conns -> Nat]
    /\ owed \in [Conns -> Seq(Nat)]
    /\ peerUp \in [Conns -> BOOLEAN]
    /\ forwarded \subseteq Conns
    /\ tpc \in TermPCs
    /\ toClose \subseteq Conns

\* Two callers never talk over one connection, and a connection a caller
\* talks over is not on offer to another (_get_free_connection's docstring:
\* "to prevent multiple users from obtaining the same client").
ExclusiveUse ==
    /\ \A t, u \in Callers : t # u /\ conn[t] # None => conn[t] # conn[u]
    /\ Held \cap free = {}

\* Until terminate() drops the lists, no more than max_connections exist,
\* those in the middle of changing lists included: the count the creating
\* thread compares is taken while lists it does not control change.
BeforeReset == tpc \in {"idle", "closing", "aborted"}
CapacityRespected ==
    BeforeReset => Cardinality(free \cup working \cup Held) <= MaxConnections

\* A caller never reads the answer to somebody else's request, nor a late
\* answer to a request that timed out: the id check of rpc() never fails.
OwnAnswer ==
    \A t \in Callers :
      pc[t] = "recv" /\ peerUp[conn[t]] => owed[conn[t]] = <<myTicket[t]>>

\* A call that began ends, by an answer or an exception: no caller polls for
\* ever in _get_free_connection for a slot that nobody will give back.
EveryCallEnds == \A t \in Callers : pc[t] # "idle" ~> pc[t] = "idle"

\* The pool implements the abstract one: a caller uses a connection from the
\* moment it took it off the free list until it is back there or given up.
Pool == INSTANCE ExclusivePool WITH
    Users <- Callers, Items <- Conns, Nothing <- None, Limit <- MaxConnections,
    idle <- free, uses <- conn, shut <- ~BeforeReset
PoolSpec == Pool!Spec
==============================================================================
