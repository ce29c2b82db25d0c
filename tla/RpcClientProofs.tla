--------------------------- MODULE RpcClientProofs ---------------------------
(***************************************************************************)
(* What RpcClient promises for every number of callers, connections and    *)
(* calls, whatever fails.  The invariants build on one another: types and  *)
(* who holds the lock and a connection, which lists a connection is on,    *)
(* how many there are, and what is left to read on them.                   *)
(***************************************************************************)
EXTENDS RpcClient, FiniteSetTheorems, TLAPS

\* The lock belongs to the caller that is between `with` and the end of its
\* block, and to nobody else.
LockInv == \A t \in Callers : lock = t <=> pc[t] \in Locked

\* A caller has a connection exactly where the code has one in a local.
ConnInv == \A t \in Callers : conn[t] # None <=> pc[t] \in Holding

Owners == TypeOK /\ LockInv /\ ConnInv

LEMMA OwnersInit == Init => Owners
<1> SUFFICES ASSUME Init PROVE Owners
  OBVIOUS
<1>1. None \notin Conns /\ Retries \in Nat \ {0} /\ MaxCalls \in Nat
  BY ConnsAssumption, RetriesAssumption, CallsAssumption
<1>2. TypeOK
  BY <1>1 DEF Init, TypeOK, PCs, Results, TermPCs
<1>3. LockInv /\ ConnInv
  BY ConnsAssumption DEF Init, LockInv, ConnInv, Locked, Holding, Using
<1> QED
  BY <1>2, <1>3 DEF Owners

LEMMA OwnersCall == ASSUME Owners, NEW t \in Callers, Call(t) PROVE Owners'
<1> USE DEF Owners, Call, Goto, clientVars, connVars, termVars
<1>1. calls'[t] \in 0..MaxCalls /\ 1 \in 1..Retries
  BY CallsAssumption, RetriesAssumption DEF TypeOK
<1>2. "look" \in PCs /\ "none" \in Results /\ "failed" \in Results
  BY DEF PCs, Seeking, Results
<1>3. TypeOK'
  <2>1. pc' \in [Callers -> PCs] /\ result' \in [Callers -> Results]
    BY <1>2 DEF TypeOK
  <2>2. calls' \in [Callers -> 0..MaxCalls]
    BY <1>1 DEF TypeOK
  <2> QED
    BY <2>1, <2>2, <1>1 DEF TypeOK
<1>4. LockInv' /\ ConnInv'
  BY DEF TypeOK, LockInv, ConnInv, Locked, Holding, Using
<1> QED
  BY <1>3, <1>4

LEMMA OwnersAcquire == ASSUME Owners, NEW t \in Callers, Acquire(t) PROVE Owners'
<1> USE ConnsAssumption
     DEF Owners, Goto, Leave, clientVars, connVars, termVars
<1>1. CASE Look(t) \/ Count(t)
  <2>1. TypeOK'
    BY <1>1 DEF TypeOK, Look, Count, PCs, Seeking
  <2>2. LockInv' /\ ConnInv'
    BY ZenonT(60), <1>1 DEF TypeOK, LockInv, ConnInv, Look, Count, Locked, Holding, Using
  <2> QED
    BY <2>1, <2>2
<1>2. CASE LockPop(t) \/ LockNew(t)
  <2>1. TypeOK'
    BY <1>2 DEF TypeOK, LockPop, LockNew, PCs, Seeking
  <2>2. LockInv' /\ ConnInv'
    <3>1. ASSUME NEW u \in Callers, u # t
          PROVE  pc'[u] = pc[u] /\ conn'[u] = conn[u] /\ (lock' = u <=> lock = u)
      BY <1>2, <3>1 DEF TypeOK, LockInv, LockPop, LockNew
    <3>2. conn'[t] = conn[t] /\ pc[t] \in {"lockPop", "lockNew"} /\ lock # t
      BY <1>2 DEF TypeOK, LockPop, LockNew
    <3>3. \/ pc'[t] \in {"pop", "create"} /\ lock' = t
          \/ pc'[t] = "look" /\ lock' # t
      BY <1>2 DEF TypeOK, LockPop, LockNew
    <3> QED
      BY <3>1, <3>2, <3>3 DEF LockInv, ConnInv, Locked, Holding, Using
  <2> QED
    BY <2>1, <2>2
<1>3. CASE Pop(t)
  <2>1. TypeOK'
    BY ZenonT(60), <1>3 DEF TypeOK, Pop, PCs, Holding, Results
  <2>2. LockInv' /\ ConnInv'
    <3>1. ASSUME NEW u \in Callers, u # t
          PROVE  pc'[u] = pc[u] /\ conn'[u] = conn[u] /\ (lock' = u <=> lock = u)
      BY <1>3, <3>1 DEF TypeOK, LockInv, Pop, Locked
    <3>2. \/ pc'[t] = "append" /\ conn'[t] # None /\ lock' = t
          \/ pc'[t] = "idle" /\ conn'[t] = None /\ lock' # t
      BY <1>3 DEF TypeOK, LockInv, Pop, Locked
    <3> QED
      BY <3>1, <3>2 DEF LockInv, ConnInv, Locked, Holding, Using
  <2> QED
    BY <2>1, <2>2
<1>4. CASE Adopt(t)
  <2>1. TypeOK'
    BY <1>4 DEF TypeOK, Adopt, PCs, Holding, Using, ConnInv
  <2>2. LockInv' /\ ConnInv'
    BY <1>4 DEF TypeOK, LockInv, ConnInv, Adopt, Locked, Holding, Using
  <2> QED
    BY <2>1, <2>2
<1>5. CASE Create(t)
  <2>1. TypeOK'
    BY <1>5 DEF TypeOK, Create, PCs, Holding
  <2>2. LockInv' /\ ConnInv'
    BY <1>5 DEF TypeOK, LockInv, ConnInv, Create, Locked, Holding, Using
  <2> QED
    BY <2>1, <2>2
<1>6. CASE CreateFails(t)
  <2>1. TypeOK'
    BY <1>6 DEF TypeOK, CreateFails, PCs, Results
  <2>2. LockInv' /\ ConnInv'
    BY <1>6 DEF TypeOK, LockInv, ConnInv, CreateFails, Locked, Holding, Using
  <2> QED
    BY <2>1, <2>2
<1> QED
  BY <1>1, <1>2, <1>3, <1>4, <1>5, <1>6, Acquire(t) DEF Acquire

LEMMA OwnersExchange == ASSUME Owners, NEW t \in Callers, Exchange(t) PROVE Owners'
<1> USE ConnsAssumption
     DEF Owners, Goto, Leave, clientVars, connVars, termVars
<1>0. conn[t] \in Conns
  BY Exchange(t) DEF TypeOK, ConnInv, Exchange, NewTicket, Send, Reply, NoReply,
                     SocketError, SocketTimeout, Holding, Using
<1>1. CASE NewTicket(t)
  <2>1. TypeOK'
    <3>1. ticket' \in [Conns -> Nat] /\ ticket'[conn[t]] \in Nat
      BY <1>0, <1>1 DEF TypeOK, NewTicket
    <3>2. myTicket' \in [Callers -> Nat]
      BY <1>1, <3>1 DEF TypeOK, NewTicket
    <3>3. pc' \in [Callers -> PCs] /\ result' \in [Callers -> Results]
      BY <1>1 DEF TypeOK, NewTicket, PCs, Holding, Using, Results
    <3>4. conn' \in [Callers -> Conns \cup {None}]
      BY <1>1 DEF TypeOK, NewTicket
    <3> QED
      BY <1>1, <3>1, <3>2, <3>3, <3>4 DEF TypeOK, NewTicket
  <2>2. LockInv' /\ ConnInv'
    BY ZenonT(60), <1>1 DEF TypeOK, LockInv, ConnInv, NewTicket, Locked, Holding, Using
  <2> QED
    BY <2>1, <2>2
<1>2. CASE Send(t)
  <2>1. TypeOK'
    <3>1. owed' \in [Conns -> Seq(Nat)]
      <4>1. Append(owed[conn[t]], myTicket[t]) \in Seq(Nat)
        BY <1>0 DEF TypeOK
      <4> QED
        BY <1>0, <1>2, <4>1 DEF TypeOK, Send
    <3>2. pc' \in [Callers -> PCs]
      BY <1>2 DEF TypeOK, Send, PCs, Holding, Using
    <3> QED
      BY <1>2, <3>1, <3>2 DEF TypeOK, Send
  <2>2. LockInv' /\ ConnInv'
    BY <1>2 DEF TypeOK, LockInv, ConnInv, Send, Locked, Holding, Using
  <2> QED
    BY <2>1, <2>2
<1>3. CASE Reply(t)
  <2>1. TypeOK'
    <3>1. owed' \in [Conns -> Seq(Nat)]
      <4>1. Tail(owed[conn[t]]) \in Seq(Nat)
        BY <1>0, <1>3 DEF TypeOK, Reply
      <4> QED
        BY <1>0, <1>3, <4>1 DEF TypeOK, Reply
    <3>2. pc' \in [Callers -> PCs] /\ result' \in [Callers -> Results]
      BY <1>3 DEF TypeOK, Reply, PCs, Holding, Using, Results
    <3> QED
      BY <1>3, <3>1, <3>2 DEF TypeOK, Reply
  <2>2. LockInv' /\ ConnInv'
    BY <1>3 DEF TypeOK, LockInv, ConnInv, Reply, Locked, Holding, Using
  <2> QED
    BY <2>1, <2>2
<1>4. CASE NoReply(t)
  <2>1. TypeOK'
    <3>1. tries' \in [Callers -> 1..Retries]
      <4>1. tries[t] < Retries => tries[t] + 1 \in 1..Retries
        BY RetriesAssumption DEF TypeOK
      <4> QED
        BY ZenonT(60), <1>4, <4>1 DEF TypeOK, NoReply
    <3>2. pc' \in [Callers -> PCs] /\ result' \in [Callers -> Results]
      BY <1>4 DEF TypeOK, NoReply, PCs, Holding, Using, Results
    <3> QED
      BY <1>4, <3>1, <3>2 DEF TypeOK, NoReply
  <2>2. LockInv' /\ ConnInv'
    BY ZenonT(60), <1>4 DEF TypeOK, LockInv, ConnInv, NoReply, Locked, Holding, Using
  <2> QED
    BY <2>1, <2>2
<1>5. CASE SocketError(t) \/ SocketTimeout(t)
  <2>1. TypeOK'
    BY <1>5 DEF TypeOK, SocketError, SocketTimeout, PCs, Holding, Using, Results
  <2>2. LockInv' /\ ConnInv'
    BY ZenonT(60), <1>5 DEF TypeOK, LockInv, ConnInv, SocketError, SocketTimeout, Locked, Holding, Using
  <2> QED
    BY <2>1, <2>2
<1> QED
  BY <1>1, <1>2, <1>3, <1>4, <1>5, Exchange(t) DEF Exchange

LEMMA OwnersDispose == ASSUME Owners, NEW t \in Callers, Dispose(t) PROVE Owners'
<1> USE ConnsAssumption
     DEF Owners, Goto, Leave, clientVars, connVars, termVars
<1>1. CASE CloseTimedOut(t)
  <2>1. TypeOK'
    BY <1>1 DEF TypeOK, CloseTimedOut, Close, CloseRaises, PCs, Holding, Using, Results
  <2>2. LockInv' /\ ConnInv'
    BY ZenonT(60), <1>1 DEF TypeOK, LockInv, ConnInv, CloseTimedOut, Locked, Holding, Using
  <2> QED
    BY <2>1, <2>2
<1>2. CASE Discard(t)
  <2>1. TypeOK'
    BY <1>2 DEF TypeOK, Discard, PCs, Results
  <2>2. LockInv' /\ ConnInv'
    BY <1>2 DEF TypeOK, LockInv, ConnInv, Discard, Locked, Holding, Using
  <2> QED
    BY <2>1, <2>2
<1>3. CASE Release(t)
  <2>1. TypeOK'
    BY <1>3 DEF TypeOK, Release, PCs, Holding, Results
  <2>2. LockInv' /\ ConnInv'
    <3>1. ASSUME NEW u \in Callers, u # t
          PROVE  pc'[u] = pc[u] /\ conn'[u] = conn[u] /\ (lock' = u <=> lock = u)
      BY <1>3, <3>1 DEF TypeOK, LockInv, Release
    <3>2. \/ pc'[t] = "giveBack" /\ conn'[t] # None /\ lock' = t
          \/ pc'[t] = "idle" /\ conn'[t] = None /\ lock' # t
      BY <1>3 DEF TypeOK, ConnInv, Release, Holding, Using
    <3> QED
      BY <3>1, <3>2 DEF LockInv, ConnInv, Locked, Holding, Using
  <2> QED
    BY <2>1, <2>2
<1>4. CASE GiveBack(t)
  <2>1. TypeOK'
    BY <1>4 DEF TypeOK, GiveBack, PCs, Holding, Using, ConnInv
  <2>2. LockInv' /\ ConnInv'
    BY <1>4 DEF TypeOK, LockInv, ConnInv, GiveBack, Locked, Holding, Using
  <2> QED
    BY <2>1, <2>2
<1> QED
  BY <1>1, <1>2, <1>3, <1>4, Dispose(t) DEF Dispose

LEMMA OwnersOther ==
  ASSUME Owners, Terminate \/ (\E c \in Conns : PeerCloses(c)) \/ UNCHANGED vars
  PROVE  Owners'
<1> USE DEF Owners, LockInv, ConnInv, TypeOK, vars, clientVars, callerVars,
        connVars, termVars, TermPCs
<1>1. CASE Terminate
  BY <1>1 DEF Terminate, TermStart, TermClose, TermResetFree,
              TermResetWorking, TermMarkDead, Close, CloseRaises
<1>2. CASE \E c \in Conns : PeerCloses(c)
  BY <1>2 DEF PeerCloses
<1>3. CASE UNCHANGED vars
  BY <1>3
<1> QED
  BY <1>1, <1>2, <1>3

LEMMA OwnersNext == Owners /\ [Next]_vars => Owners'
BY OwnersCall, OwnersAcquire, OwnersExchange, OwnersDispose, OwnersOther
   DEF Next, Step

\* Types, and the owners of the lock and of the connections, in every
\* reachable state.
THEOREM OwnersInvariant == Spec => []Owners
BY OwnersInit, OwnersNext, PTL DEF Spec

\* Every variable of the client, its callers and its connections keeps to
\* its type, however many callers there are.
THEOREM TypeCorrect == Spec => []TypeOK
<1>1. Owners => TypeOK
  BY DEF Owners
<1> QED
  BY <1>1, OwnersInvariant, PTL
------------------------------------------------------------------------------
(* Which lists a connection is on *)

\* A connection has one place: free, or working, or the hands of the one
\* caller that is moving it from list to list; and until terminate() drops
\* the lists, a connection that carries a call is on the working list.
OnePlace ==
    /\ \A t, u \in Callers : t # u /\ conn[t] # None => conn[t] # conn[u]
    /\ \A t \in Callers : conn[t] \notin free
    /\ free \cap working = {}
    /\ \A t \in Callers :
         pc[t] \in {"append", "adopt", "giveBack"} => conn[t] \notin working
CarriedIsWorking ==
    tpc \notin {"markDead", "done"} =>
      \A t \in Callers : pc[t] \in Using => conn[t] \in working

Places == OnePlace /\ CarriedIsWorking

LEMMA PlacesInit == Init => Places
BY ConnsAssumption DEF Init, Places, OnePlace, CarriedIsWorking, Using

LEMMA PlacesNext == Owners /\ Places /\ [Next]_vars => Places'
<1> SUFFICES ASSUME Owners, Places, [Next]_vars PROVE Places'
  OBVIOUS
<1> USE ConnsAssumption
     DEF Owners, TypeOK, Places, OnePlace, CarriedIsWorking, Goto, Leave, Using
<1>1. ASSUME NEW t \in Callers,
             Call(t) \/ Look(t) \/ Count(t) \/ LockPop(t) \/ LockNew(t)
      PROVE  Places'
  BY <1>1 DEF Call, Look, Count, LockPop, LockNew, clientVars, connVars, termVars
<1>2. ASSUME NEW t \in Callers, Pop(t) PROVE Places'
  <2>1. CASE free = {}
    BY ZenonT(60), <1>2, <2>1 DEF Pop, connVars, termVars
  <2>2. CASE free # {}
    <3>1. PICK c \in free : /\ free' = free \ {c}
                           /\ conn' = [conn EXCEPT ![t] = c]
                           /\ pc' = [pc EXCEPT ![t] = "append"]
                           /\ UNCHANGED <<working, tpc>>
      BY <1>2, <2>2 DEF Pop, termVars
    <3>2. OnePlace'
      BY <3>1
    <3>3. CarriedIsWorking'
      BY <3>1
    <3> QED
      BY <3>2, <3>3
  <2> QED
    BY <2>1, <2>2
<1>3. ASSUME NEW t \in Callers, Adopt(t) PROVE Places'
  BY <1>3 DEF Adopt, connVars, termVars, ConnInv, Holding
<1>4. ASSUME NEW t \in Callers, Create(t) PROVE Places'
  BY <1>4 DEF Create, Fresh, Held, clientVars, termVars
<1>5. ASSUME NEW t \in Callers, CreateFails(t) PROVE Places'
  BY <1>5 DEF CreateFails, termVars
<1>6. ASSUME NEW t \in Callers, Exchange(t) PROVE Places'
  <2> USE DEF Exchange, NewTicket, Send, Reply, NoReply, SocketError,
              SocketTimeout, clientVars, connVars, termVars
  <2>1. UNCHANGED <<free, working, tpc>>
    BY <1>6
  <2>2. \A u \in Callers : conn'[u] = conn[u] \/ conn'[u] = None
    BY <1>6
  <2>3. \A u \in Callers :
          /\ pc'[u] \in Using => pc[u] \in Using /\ conn'[u] = conn[u]
          /\ pc'[u] \in {"append", "adopt", "giveBack"} =>
               pc[u] = pc'[u] /\ conn'[u] = conn[u]
    BY <1>6
  <2> HIDE DEF Exchange, NewTicket, Send, Reply, NoReply, SocketError,
               SocketTimeout
  <2> QED
    BY ZenonT(60), <2>1, <2>2, <2>3
<1>7. ASSUME NEW t \in Callers, CloseTimedOut(t) PROVE Places'
  BY ZenonT(60), <1>7 DEF CloseTimedOut, clientVars, termVars
<1>8. ASSUME NEW t \in Callers, Discard(t) PROVE Places'
  BY <1>8 DEF Discard, connVars, termVars, ConnInv, Holding
<1>9. ASSUME NEW t \in Callers, Release(t) PROVE Places'
  <2>1. CASE conn[t] \in working
    <3>1. /\ working' = working \ {conn[t]}
          /\ pc[t] = "release" /\ pc' = [pc EXCEPT ![t] = "giveBack"]
          /\ UNCHANGED <<free, conn, tpc>>
      BY <1>9, <2>1 DEF Release, termVars
    <3>2. conn[t] # None
      BY <1>9 DEF Release, ConnInv, Holding
    <3>3. OnePlace'
      BY <3>1, <3>2
    <3>4. CarriedIsWorking'
      BY <3>1, <3>2
    <3> QED
      BY <3>3, <3>4
  <2>2. CASE conn[t] \notin working
    BY ZenonT(60), <1>9, <2>2 DEF Release, connVars, termVars, ConnInv, Holding
  <2> QED
    BY <2>1, <2>2
<1>10. ASSUME NEW t \in Callers, GiveBack(t) PROVE Places'
  BY <1>10 DEF GiveBack, connVars, termVars, ConnInv, Holding
<1>11. CASE Terminate
  BY <1>11 DEF Terminate, TermStart, TermClose, TermResetFree, TermResetWorking,
               TermMarkDead, clientVars, callerVars
<1>12. CASE \E c \in Conns : PeerCloses(c)
  BY <1>12 DEF PeerCloses, clientVars, callerVars, termVars
<1>13. CASE UNCHANGED vars
  BY <1>13 DEF vars, clientVars, callerVars, connVars, termVars
<1> QED
  BY <1>1, <1>2, <1>3, <1>4, <1>5, <1>6, <1>7, <1>8, <1>9, <1>10, <1>11, <1>12,
     <1>13 DEF Next, Step, Acquire, Dispose

LEMMA PlacesInvariant == Spec => [](Owners /\ Places)
BY OwnersInit, OwnersNext, PlacesInit, PlacesNext, PTL DEF Spec

\* No two callers ever talk over the same connection, and no connection that
\* a caller talks over is on offer, even while terminate() runs.
THEOREM ExclusiveUseHolds == Spec => []ExclusiveUse
<1>1. Owners /\ Places => ExclusiveUse
  BY ConnsAssumption DEF Places, OnePlace, ExclusiveUse, Held
<1> QED
  BY <1>1, PlacesInvariant, PTL

------------------------------------------------------------------------------
(* How many connections there are *)

Slots == free \cup working \cup Held

\* The limit, and the room the creating caller has found under the lock.
Room ==
    BeforeReset =>
      /\ IsFiniteSet(Slots)
      /\ Cardinality(Slots) <= MaxConnections
      /\ \A t \in Callers : pc[t] = "create" => Cardinality(Slots) < MaxConnections

LEMMA RoomInit == Init => Room
<1> SUFFICES ASSUME Init PROVE Room
  OBVIOUS
<1>1. PICK c \in Conns : Slots = {c}
  BY DEF Init, Slots, Held
<1>2. IsFiniteSet(Slots) /\ Cardinality(Slots) = 1
  BY <1>1, FS_Singleton
<1> QED
  BY <1>2, LimitAssumption DEF Init, Room

\* A step that adds no connection keeps the room there was.
LEMMA RoomShrinks ==
  ASSUME Room, Slots' \subseteq Slots, BeforeReset' => BeforeReset,
         \A t \in Callers : pc'[t] = "create" => pc[t] = "create"
  PROVE  Room'
<1> SUFFICES ASSUME BeforeReset'
    PROVE /\ IsFiniteSet(Slots')
          /\ Cardinality(Slots') <= MaxConnections
          /\ \A t \in Callers :
               pc'[t] = "create" => Cardinality(Slots') < MaxConnections
  BY DEF Room
<1>1. IsFiniteSet(Slots) /\ Cardinality(Slots) <= MaxConnections
  BY DEF Room
<1>2. IsFiniteSet(Slots') /\ Cardinality(Slots') <= Cardinality(Slots)
  BY <1>1, FS_Subset
<1>3. Cardinality(Slots) \in Nat /\ Cardinality(Slots') \in Nat
  BY <1>1, <1>2, FS_CardinalityType
<1> QED
  BY <1>1, <1>2, <1>3, LimitAssumption DEF Room

\* The count compared under the lock is the number of all connections: with
\* the lock free, no connection is between two lists.
LEMMA CountIsExact ==
  ASSUME Owners, Places, Room, BeforeReset, lock = None
  PROVE  ClientCount = Cardinality(Slots)
<1>1. \A t \in Callers : pc[t] \notin Locked
  BY ConnsAssumption DEF Owners, LockInv
<1>2. Held \subseteq working
  BY <1>1 DEF Owners, ConnInv, Places, CarriedIsWorking, Held, Holding, Locked,
              BeforeReset
<1>3. Slots = free \cup working
  BY <1>2 DEF Slots
<1>4. IsFiniteSet(free) /\ IsFiniteSet(working)
  BY FS_Subset DEF Room, Slots
<1>5. Cardinality(free \cup working)
        = Cardinality(free) + Cardinality(working) - Cardinality(free \cap working)
  BY <1>4, FS_Union
<1>6. Cardinality(free \cap working) = 0
  BY FS_EmptySet DEF Places, OnePlace
<1>7. Cardinality(free) \in Nat /\ Cardinality(working) \in Nat
  BY <1>4, FS_CardinalityType
<1> QED
  BY <1>3, <1>5, <1>6, <1>7 DEF ClientCount

LEMMA RoomCreate ==
  ASSUME Owners, Room, NEW t \in Callers, Create(t)
  PROVE  Room'
<1> SUFFICES ASSUME BeforeReset PROVE Room'
  BY DEF Create, Room, BeforeReset, termVars
<1>1. PICK c \in Conns : Fresh(c) /\ conn' = [conn EXCEPT ![t] = c]
  BY DEF Create
<1>2. Slots' \subseteq Slots \cup {c}
  BY <1>1 DEF Owners, TypeOK, Create, clientVars, Slots, Held
<1>3. /\ IsFiniteSet(Slots) /\ Cardinality(Slots) < MaxConnections
      /\ Cardinality(Slots) \in Nat
  BY FS_CardinalityType DEF Create, Room
<1>4. /\ IsFiniteSet(Slots \cup {c})
      /\ Cardinality(Slots \cup {c}) = Cardinality(Slots) + 1
  BY <1>1, <1>3, FS_AddElement DEF Fresh, Slots
<1>5. /\ IsFiniteSet(Slots')
      /\ Cardinality(Slots') <= Cardinality(Slots \cup {c})
      /\ Cardinality(Slots') \in Nat
  BY <1>2, <1>4, FS_Subset, FS_CardinalityType
<1>6. \A u \in Callers : pc'[u] # "create"
  BY DEF Owners, TypeOK, LockInv, Locked, Create, Goto
<1> QED
  BY <1>3, <1>4, <1>5, <1>6, LimitAssumption DEF Room

LEMMA RoomNext == Owners /\ Places /\ Room /\ [Next]_vars => Room'
<1> SUFFICES ASSUME Owners, Places, Room, [Next]_vars PROVE Room'
  OBVIOUS
<1> USE DEF Owners, TypeOK, Goto, Leave, BeforeReset
<1>1. ASSUME NEW t \in Callers, LockNew(t) PROVE Room'
  <2>1. Slots' = Slots /\ BeforeReset' = BeforeReset
    BY <1>1 DEF LockNew, Slots, Held, connVars, termVars
  <2>2. CASE BeforeReset /\ ClientCount < MaxConnections
    <3>1. Cardinality(Slots) < MaxConnections
      BY <1>1, <2>2, CountIsExact DEF LockNew
    <3> QED
      BY <2>1, <3>1 DEF Room
  <2>3. CASE ~BeforeReset
    BY <2>1, <2>3 DEF Room
  <2>4. CASE ~(ClientCount < MaxConnections)
    <3>1. \A u \in Callers : pc'[u] = "create" => pc[u] = "create"
      BY <1>1, <2>4 DEF LockNew
    <3> QED
      BY <2>1, <3>1, RoomShrinks
  <2> QED
    BY <2>2, <2>3, <2>4
<1>2. ASSUME NEW t \in Callers, Create(t) PROVE Room'
  BY <1>2, RoomCreate
<1>3. ASSUME NEW t \in Callers,
             Call(t) \/ Look(t) \/ LockPop(t) \/ Pop(t) \/ Adopt(t) \/ Count(t)
      PROVE  Room'
  <2>1. Slots' \subseteq Slots
    BY <1>3 DEF Call, Look, LockPop, Pop, Adopt, Count, Slots, Held, ConnInv,
                Holding, clientVars, connVars, termVars
  <2>2. /\ BeforeReset' => BeforeReset
        /\ \A u \in Callers : pc'[u] = "create" => pc[u] = "create"
    BY <1>3 DEF Call, Look, LockPop, Pop, Adopt, Count, clientVars, connVars,
                termVars
  <2> QED
    BY <2>1, <2>2, RoomShrinks
<1>4. ASSUME NEW t \in Callers, CreateFails(t) \/ Exchange(t) PROVE Room'
  <2>1. Slots' \subseteq Slots
    BY <1>4 DEF CreateFails, Exchange, NewTicket, Send, Reply, NoReply,
                SocketError, SocketTimeout, Slots, Held, clientVars, connVars,
                termVars
  <2>2. /\ BeforeReset' => BeforeReset
        /\ \A u \in Callers : pc'[u] = "create" => pc[u] = "create"
    BY <1>4 DEF CreateFails, Exchange, NewTicket, Send, Reply, NoReply,
                SocketError, SocketTimeout, clientVars, connVars, termVars
  <2> QED
    BY <2>1, <2>2, RoomShrinks
<1>5. ASSUME NEW t \in Callers, Dispose(t) PROVE Room'
  <2>1. Slots' \subseteq Slots
    BY <1>5 DEF Dispose, CloseTimedOut, Discard, Release, GiveBack, Slots, Held,
                ConnInv, Holding, clientVars, connVars, termVars
  <2>2. /\ BeforeReset' => BeforeReset
        /\ \A u \in Callers : pc'[u] = "create" => pc[u] = "create"
    BY <1>5 DEF Dispose, CloseTimedOut, Discard, Release, GiveBack, clientVars,
                connVars, termVars
  <2> QED
    BY <2>1, <2>2, RoomShrinks
<1>6. CASE Terminate \/ (\E c \in Conns : PeerCloses(c)) \/ UNCHANGED vars
  <2>1. Slots' \subseteq Slots
    BY <1>6 DEF Terminate, TermStart, TermClose, TermResetFree, TermResetWorking,
                TermMarkDead, PeerCloses, Slots, Held, vars, clientVars,
                callerVars, connVars, termVars
  <2>2. /\ BeforeReset' => BeforeReset
        /\ \A u \in Callers : pc'[u] = "create" => pc[u] = "create"
    BY <1>6 DEF Terminate, TermStart, TermClose, TermResetFree, TermResetWorking,
                TermMarkDead, PeerCloses, vars, clientVars, callerVars, connVars,
                termVars
  <2> QED
    BY <2>1, <2>2, RoomShrinks
<1> QED
  BY <1>1, <1>2, <1>3, <1>4, <1>5, <1>6 DEF Next, Step, Acquire

LEMMA RoomInvariant == Spec => [](Owners /\ Places /\ Room)
BY OwnersInit, OwnersNext, PlacesInit, PlacesNext, RoomInit, RoomNext, PTL DEF Spec

\* max_connections is a limit, for any number of callers and whatever fails,
\* until terminate() forgets the connections that are still in use.
THEOREM CapacityHolds == Spec => []CapacityRespected
<1>1. Owners /\ Places /\ Room => CapacityRespected
  BY DEF Room, Slots, CapacityRespected
<1> QED
  BY <1>1, RoomInvariant, PTL
------------------------------------------------------------------------------
(* What is left to read on a connection *)

\* Nothing is owed on a connection whose device is still there, ...
Quiet(c) == peerUp[c] => owed[c] = <<>>

\* ... unless a caller waits for the answer to its own request on it.
Answers ==
    /\ \A c \in free : Quiet(c)
    /\ \A t \in Callers :
         pc[t] \in {"append", "adopt", "ticket", "send", "release", "giveBack"} =>
           Quiet(conn[t])
    /\ OwnAnswer

LEMMA AnswersInit == Init => Answers
BY DEF Init, Answers, Quiet, OwnAnswer

LEMMA AnswersNext == Owners /\ Places /\ Answers /\ [Next]_vars => Answers'
<1> SUFFICES ASSUME Owners, Places, Answers, [Next]_vars PROVE Answers'
  OBVIOUS
<1> USE ConnsAssumption
     DEF Owners, TypeOK, Answers, Quiet, OwnAnswer, Goto, Leave
<1>1. ASSUME NEW t \in Callers,
             Call(t) \/ Look(t) \/ Count(t) \/ LockPop(t) \/ LockNew(t)
      PROVE  Answers'
  <2>1. /\ \A u \in Callers : u # t => pc'[u] = pc[u]
        /\ pc'[t] \in Seeking \cup {"idle", "pop", "create"}
    <3>1. CASE Call(t)
      BY <3>1 DEF Call, Seeking
    <3>2. CASE Look(t)
      BY <3>2 DEF Look, Seeking
    <3>3. CASE Count(t)
      BY <3>3 DEF Count, Seeking
    <3>4. CASE LockPop(t)
      BY <3>4 DEF LockPop, Seeking
    <3>5. CASE LockNew(t)
      BY <3>5 DEF LockNew, Seeking
    <3> QED
      BY <1>1, <3>1, <3>2, <3>3, <3>4, <3>5
  <2>2. UNCHANGED <<free, conn, owed, peerUp>>
    BY <1>1 DEF Call, Look, Count, LockPop, LockNew, clientVars, connVars
  <2>3. \A u \in Callers : u # t => myTicket'[u] = myTicket[u]
    BY <1>1 DEF Call, Look, Count, LockPop, LockNew
  <2> QED
    BY <2>1, <2>2, <2>3 DEF Seeking
<1>2. ASSUME NEW t \in Callers, Pop(t) PROVE Answers'
  BY ZenonT(60), <1>2 DEF Pop, connVars
<1>3. ASSUME NEW t \in Callers, Adopt(t) \/ CreateFails(t) PROVE Answers'
  <2>1. CASE Adopt(t)
    BY <2>1 DEF Adopt, connVars
  <2>2. CASE CreateFails(t)
    BY <2>2 DEF CreateFails
  <2> QED
    BY <1>3, <2>1, <2>2
<1>4. ASSUME NEW t \in Callers, Create(t) PROVE Answers'
  <2>1. PICK c \in Conns :
          /\ Fresh(c)
          /\ conn' = [conn EXCEPT ![t] = c]
          /\ owed' = [owed EXCEPT ![c] = <<>>]
          /\ peerUp' = [peerUp EXCEPT ![c] = TRUE]
    BY <1>4 DEF Create
  <2>2. pc' = [pc EXCEPT ![t] = "adopt"] /\ UNCHANGED <<free, myTicket>>
    BY <1>4 DEF Create, clientVars
  <2>3. c \notin free /\ \A u \in Callers : conn[u] # c
    BY <2>1 DEF Fresh, Held
  <2>4. owed'[c] = <<>>
    BY <2>1
  <2> QED
    BY <2>1, <2>2, <2>3, <2>4 DEF ConnInv, Holding, Using
<1>5. ASSUME NEW t \in Callers, NewTicket(t) PROVE Answers'
  BY <1>5 DEF NewTicket, clientVars
<1>6. ASSUME NEW t \in Callers, Send(t) PROVE Answers'
  <2>1. conn[t] \in Conns /\ conn[t] \notin free
    BY <1>6 DEF Send, ConnInv, Holding, Using, Places, OnePlace
  <2>2. \A u \in Callers : u # t => conn[u] # conn[t]
    BY <1>6 DEF Send, ConnInv, Holding, Using, Places, OnePlace
  <2>3. peerUp[conn[t]] => owed'[conn[t]] = <<myTicket[t]>>
    <3>1. peerUp[conn[t]] => owed[conn[t]] = <<>>
      BY <1>6 DEF Send
    <3>2. Append(<<>>, myTicket[t]) = <<myTicket[t]>>
      OBVIOUS
    <3> QED
      BY <1>6, <2>1, <3>1, <3>2 DEF Send
  <2> QED
    BY <1>6, <2>1, <2>2, <2>3 DEF Send, clientVars, ConnInv, Holding, Using
<1>7. ASSUME NEW t \in Callers, Reply(t) PROVE Answers'
  <2>1. conn[t] \in Conns /\ conn[t] \notin free
    BY <1>7 DEF Reply, ConnInv, Holding, Using, Places, OnePlace
  <2>2. \A u \in Callers : u # t => conn[u] # conn[t]
    BY <1>7 DEF Reply, ConnInv, Holding, Using, Places, OnePlace
  <2>3. owed'[conn[t]] = <<>>
    BY <1>7, <2>1 DEF Reply
  <2> QED
    BY <1>7, <2>1, <2>2, <2>3 DEF Reply, clientVars, ConnInv, Holding, Using
<1>8. ASSUME NEW t \in Callers, NoReply(t) \/ SocketError(t) \/ SocketTimeout(t)
      PROVE  Answers'
  BY ZenonT(60), <1>8 DEF NoReply, SocketError, SocketTimeout, clientVars, connVars
<1>9. ASSUME NEW t \in Callers, Dispose(t) PROVE Answers'
  <2>1. CASE CloseTimedOut(t)
    BY ZenonT(60), <2>1 DEF CloseTimedOut, clientVars
  <2>2. CASE Discard(t)
    BY <2>2 DEF Discard, connVars
  <2>3. CASE Release(t)
    BY ZenonT(60), <2>3 DEF Release, connVars
  <2>4. CASE GiveBack(t)
    BY <2>4 DEF GiveBack, connVars, ConnInv, Holding
  <2> QED
    BY <1>9, <2>1, <2>2, <2>3, <2>4 DEF Dispose
<1>10. CASE Terminate
  BY <1>10 DEF Terminate, TermStart, TermClose, TermResetFree, TermResetWorking,
               TermMarkDead, clientVars, callerVars, connVars
<1>11. CASE \E c \in Conns : PeerCloses(c)
  BY <1>11 DEF PeerCloses, clientVars, callerVars
<1>12. CASE UNCHANGED vars
  BY <1>12 DEF vars, clientVars, callerVars, connVars
<1> QED
  BY <1>1, <1>2, <1>3, <1>4, <1>5, <1>6, <1>7, <1>8, <1>9, <1>10, <1>11, <1>12
     DEF Next, Step, Acquire, Exchange

\* No caller ever reads an answer that was meant for another request, late
\* answers to requests that timed out included.
THEOREM OwnAnswerHolds == Spec => []OwnAnswer
<1>1. Answers => OwnAnswer
  BY DEF Answers
<1> QED
  BY <1>1, OwnersInit, OwnersNext, PlacesInit, PlacesNext, AnswersInit,
     AnswersNext, PTL DEF Spec

------------------------------------------------------------------------------
(* The pool implements the abstract one *)

\* The instance's Cardinality is Cardinality.
LEMMA PoolCardinality == \A S : Pool!Cardinality(S) = Cardinality(S)
BY DEF Pool!Cardinality, Cardinality

LEMMA PoolInit == Init => Pool!Init
BY DEF Init, Pool!Init, BeforeReset

LEMMA PoolNext ==
  Owners /\ Places /\ Room /\ [Next]_vars => [Pool!Next]_(Pool!poolVars)
<1> SUFFICES ASSUME Owners, Places, Room, [Next]_vars
             PROVE  [Pool!Next]_(Pool!poolVars)
  OBVIOUS
<1> USE ConnsAssumption DEF Owners, TypeOK, Goto, Leave, BeforeReset, Pool!poolVars
<1>1. ASSUME NEW t \in Callers, Call(t) \/ Look(t) \/ Count(t) \/ LockPop(t)
               \/ LockNew(t) \/ Adopt(t)
      PROVE  UNCHANGED Pool!poolVars
  BY <1>1 DEF Call, Look, Count, LockPop, LockNew, Adopt, clientVars, termVars
<1>2. ASSUME NEW t \in Callers, Pop(t)
      PROVE  Pool!Next \/ UNCHANGED Pool!poolVars
  <2>1. conn[t] = None
    BY <1>2 DEF Pop, ConnInv, Holding, Using
  <2>2. CASE \E c \in free : /\ free' = free \ {c}
                             /\ conn' = [conn EXCEPT ![t] = c]
    BY <1>2, <2>1, <2>2 DEF Pop, termVars, Pool!Next, Pool!TakeIdle
  <2>3. CASE UNCHANGED free /\ conn' = [conn EXCEPT ![t] = None]
    BY <1>2, <2>1, <2>3 DEF Pop, termVars
  <2> QED
    BY <1>2, <2>2, <2>3 DEF Pop
<1>3. ASSUME NEW t \in Callers, Create(t) PROVE Pool!Next
  <2>1. PICK c \in Conns : Fresh(c) /\ conn' = [conn EXCEPT ![t] = c]
    BY <1>3 DEF Create
  <2>2. BeforeReset => Cardinality(free \cup Pool!InUse) < MaxConnections
    <3>1. Pool!InUse = Held
      BY DEF Pool!InUse, Held
    <3>2. SUFFICES ASSUME BeforeReset
                   PROVE  Cardinality(free \cup Held) < MaxConnections
      BY <3>1
    <3>3. IsFiniteSet(Slots) /\ Cardinality(Slots) < MaxConnections
      BY <1>3, <3>2 DEF Room, Create
    <3>4. /\ Cardinality(free \cup Held) <= Cardinality(Slots)
          /\ Cardinality(free \cup Held) \in Nat /\ Cardinality(Slots) \in Nat
      BY <3>3, FS_Subset, FS_CardinalityType DEF Slots
    <3> QED
      BY <3>3, <3>4, LimitAssumption
  <2>3. conn[t] = None /\ c \in Conns \ (free \cup Pool!InUse)
    BY <1>3, <2>1 DEF Create, ConnInv, Holding, Using, Fresh, Held, Pool!InUse
  <2> QED
    <3>1. UNCHANGED <<free, tpc>>
      BY <1>3 DEF Create, clientVars, termVars
    <3>2. ~BeforeReset \/ Cardinality(free \cup Pool!InUse) < MaxConnections
      BY <2>2
    <3>3. (~BeforeReset)' = ~BeforeReset
      BY <3>1
    <3>4. Pool!TakeNew(t, c)
      BY <2>1, <2>3, <3>1, <3>2, <3>3, PoolCardinality DEF Pool!TakeNew
    <3> QED
      BY <3>4 DEF Pool!Next
<1>4. ASSUME NEW t \in Callers, CreateFails(t) PROVE UNCHANGED Pool!poolVars
  BY <1>4 DEF CreateFails, ConnInv, Holding, Using, termVars
<1>5. ASSUME NEW t \in Callers, Exchange(t) \/ CloseTimedOut(t) \/ Discard(t)
               \/ Release(t)
      PROVE  Pool!Next \/ UNCHANGED Pool!poolVars
  <2>1. conn[t] # None /\ UNCHANGED <<free, tpc>>
    BY <1>5 DEF Exchange, NewTicket, Send, Reply, NoReply, SocketError,
                SocketTimeout, CloseTimedOut, Discard, Release, ConnInv,
                Holding, Using, clientVars, termVars
  <2>2. conn' = conn \/ conn' = [conn EXCEPT ![t] = None]
    BY <1>5 DEF Exchange, NewTicket, Send, Reply, NoReply, SocketError,
                SocketTimeout, CloseTimedOut, Discard, Release, clientVars
  <2> QED
    BY <2>1, <2>2 DEF Pool!Next, Pool!Discard
<1>6. ASSUME NEW t \in Callers, GiveBack(t) PROVE Pool!Next
  BY <1>6 DEF GiveBack, ConnInv, Holding, termVars, Pool!Next, Pool!GiveBack
<1>7. CASE TermResetFree
  BY <1>7 DEF TermResetFree, callerVars, Pool!Next, Pool!Shut
<1>8. CASE TermStart \/ TermClose \/ TermResetWorking \/ TermMarkDead
  BY <1>8 DEF TermStart, TermClose, TermResetWorking, TermMarkDead, clientVars,
              callerVars
<1>9. CASE (\E c \in Conns : PeerCloses(c)) \/ UNCHANGED vars
  BY <1>9 DEF PeerCloses, vars, clientVars, callerVars, termVars
<1> QED
  BY <1>1, <1>2, <1>3, <1>4, <1>5, <1>6, <1>7, <1>8, <1>9
     DEF Next, Step, Acquire, Dispose, Terminate

\* Every behaviour of the client, with its lock, lists, failures and
\* terminate(), is a behaviour of the abstract pool.
THEOREM ImplementsPool == Spec => PoolSpec
BY RoomInvariant, PoolInit, PoolNext, PTL DEF Spec, PoolSpec, Pool!Spec
==============================================================================
