---------------------------- MODULE ProcessProofs ----------------------------
(***************************************************************************)
(* A Process with any clients, starts, restarts and stops: as long as no   *)
(* two clients are past the tests of start() and wait() together, there is *)
(* one listening thread and one run of the command at a time, the callback *)
(* is asked after all output, and stop() leaves nothing behind.            *)
(***************************************************************************)
EXTENDS Process, FiniteSetTheorems, TLAPS

------------------------------------------------------------------------------
(* The inductive invariant *)

Alive(l) == lpc[l] \notin {"unborn", "ended"}
Quiet == \A l \in Loops : ~Alive(l)
AllDelivered == \A r \in Runs : Born(r) => Delivered(r)

\* Only the latest listening thread is alive, it is the one that stop() will
\* join, and it starts another run only when there is nothing left of the last.
LoopInv ==
    \A l \in Loops :
      /\ lpc[l] = "unborn" <=> l > starts
      /\ Alive(l) => started /\ l = starts /\ l = listening
      /\ lpc[l] \in {"spawn", "callback"} => AllDelivered
      /\ lpc[l] = "redirect" => process # 0
      /\ lpc[l] \in {"wait", "check", "drain"} => process # 0 /\ redirection = process

\* What a client has found out about the threads it joins is still so.
ClientInv ==
    \A c \in Clients :
      /\ cpc[c] = "begin" => ~started
      /\ cpc[c] = "joinLoop" => target[c] = listening
      /\ cpc[c] \in {"findReader", "joinReader", "finish"} => Quiet
      /\ cpc[c] = "joinReader" => target[c] = redirection
      /\ cpc[c] = "finish" => redirection = 0

\* An object that is not started is at rest.
RestInv == ~started => Quiet /\ redirection = 0 /\ AllDelivered

\* Only the latest run has anything left to do, and whoever joins the object's
\* redirection thread waits for it, or its listening thread has yet to make one.
RunInv ==
    \A r \in Runs :
      /\ ~Born(r) => reader[r] = "unborn" /\ ~unread[r]
      /\ Born(r) =>
           \/ Delivered(r)
           \/ r = process /\ (redirection = r \/ \E l \in Loops : lpc[l] = "redirect")
      /\ r = process => Born(r)
      /\ reader[r] = "reading" => r = process
      /\ reader[r] = "ended" => Delivered(r)

Orderly == LoopInv /\ ClientInv /\ RestInv /\ RunInv

\* Whoever is past a test is there alone.
Alone == \A c, d \in Clients : Inside(c) /\ Inside(d) => c = d

AtBegin == {c \in Clients : cpc[c] = "begin"}
BoundInv == starts + Cardinality(AtBegin) <= MaxStarts

Inv == TypeOK /\ BoundInv /\ (~crossed => Alone /\ Orderly)

------------------------------------------------------------------------------
(* Types and bounds *)

\* The threads and the runs are numbered from 1, so that 0 is none of them.
LEMMA Numbers ==
    /\ MaxStarts \in Nat /\ MaxRestarts \in Nat
    /\ \A l \in Loops : l \in Nat /\ l # 0 /\ l <= MaxStarts
    /\ \A r \in Runs : r \in Nat /\ r # 0
    /\ \A n \in Nat : n # 0 /\ n <= MaxStarts => n \in Loops
BY StartsAssumption, RestartsAssumption DEF Loops, Runs

LEMMA BeginIsFinite == IsFiniteSet(AtBegin) /\ Cardinality(AtBegin) \in Nat
<1>1. AtBegin \subseteq Clients
  BY DEF AtBegin
<1> QED
  BY <1>1, StartersAssumption, FS_Subset, FS_CardinalityType

LEMMA BeginGrows ==
    ASSUME NEW c \in Clients, cpc \in [Clients -> ClientPCs], cpc[c] = "idle", CGoto(c, "begin")
    PROVE  Cardinality(AtBegin') = Cardinality(AtBegin) + 1
<1>1. AtBegin' = AtBegin \cup {c} /\ c \notin AtBegin
  BY DEF AtBegin, CGoto
<1> QED
  BY <1>1, BeginIsFinite, FS_AddElement

LEMMA BeginShrinks ==
    ASSUME NEW c \in Clients, cpc \in [Clients -> ClientPCs], cpc[c] = "begin", CGoto(c, "spin")
    PROVE  Cardinality(AtBegin') = Cardinality(AtBegin) - 1
<1>1. AtBegin' = AtBegin \ {c} /\ c \in AtBegin
  BY DEF AtBegin, CGoto
<1> QED
  BY <1>1, BeginIsFinite, FS_RemoveElement

LEMMA BoundNext ==
    ASSUME TypeOK, BoundInv, [Next]_vars
    PROVE  BoundInv'
<1> USE BeginIsFinite DEF TypeOK
<1>1. ASSUME NEW c \in Clients, StartCheck(c) PROVE BoundInv'
  BY <1>1, BeginGrows, Numbers DEF StartCheck, AtBegin, BoundInv, loopVars
<1>2. ASSUME NEW c \in Clients, StartThread(c) PROVE BoundInv'
  BY <1>2, BeginShrinks, Numbers DEF StartThread, BoundInv
<1>3. ASSUME NEW c \in Clients, StartSeesProcess(c) PROVE AtBegin' = AtBegin /\ starts' = starts
  BY <1>3 DEF StartSeesProcess, AtBegin, CGoto, loopVars
<1>4. ASSUME NEW c \in Clients, StartGivesUp(c) PROVE AtBegin' = AtBegin /\ starts' = starts
  BY <1>4 DEF StartGivesUp, AtBegin, CGoto, loopVars
<1>5. ASSUME NEW c \in Clients, StartClears(c) PROVE AtBegin' = AtBegin /\ starts' = starts
  BY <1>5 DEF StartClears, AtBegin, CGoto, loopVars
<1>6. ASSUME NEW c \in Clients, StopCheck(c) PROVE AtBegin' = AtBegin /\ starts' = starts
  BY <1>6 DEF StopCheck, AtBegin, CGoto, loopVars
<1>7. ASSUME NEW c \in Clients, StopMarks(c) PROVE AtBegin' = AtBegin /\ starts' = starts
  BY <1>7 DEF StopMarks, AtBegin, CGoto, loopVars
<1>8. ASSUME NEW c \in Clients, StopLoads(c) PROVE AtBegin' = AtBegin /\ starts' = starts
  BY <1>8 DEF StopLoads, AtBegin, CGoto, loopVars
<1>9. ASSUME NEW c \in Clients, StopSeesExit(c) PROVE AtBegin' = AtBegin /\ starts' = starts
  BY <1>9 DEF StopSeesExit, AtBegin, CGoto, loopVars
<1>10. ASSUME NEW c \in Clients, StopTimesOut(c) PROVE AtBegin' = AtBegin /\ starts' = starts
  BY <1>10 DEF StopTimesOut, AtBegin, CGoto, loopVars
<1>11. ASSUME NEW c \in Clients, StopKills(c) PROVE AtBegin' = AtBegin /\ starts' = starts
  BY <1>11 DEF StopKills, AtBegin, CGoto, loopVars
<1>12. ASSUME NEW c \in Clients, StopFindsLoop(c) PROVE AtBegin' = AtBegin /\ starts' = starts
  BY <1>12 DEF StopFindsLoop, AtBegin, CGoto, loopVars
<1>13. ASSUME NEW c \in Clients, StopJoinsLoop(c) PROVE AtBegin' = AtBegin /\ starts' = starts
  BY <1>13 DEF StopJoinsLoop, AtBegin, CGoto, loopVars
<1>14. ASSUME NEW c \in Clients, StopFindsReader(c) PROVE AtBegin' = AtBegin /\ starts' = starts
  BY <1>14 DEF StopFindsReader, AtBegin, CGoto, loopVars
<1>15. ASSUME NEW c \in Clients, StopJoinsReader(c) PROVE AtBegin' = AtBegin /\ starts' = starts
  BY <1>15 DEF StopJoinsReader, AtBegin, CGoto, loopVars
<1>16. ASSUME NEW c \in Clients, StopFinishes(c) PROVE AtBegin' = AtBegin /\ starts' = starts
  BY <1>16 DEF StopFinishes, AtBegin, CGoto, loopVars
<1>17. ASSUME NEW l \in Loops, LoopStep(l) PROVE AtBegin' = AtBegin /\ starts' = starts
  BY <1>17
  DEF LoopStep, LoopSpawns, LoopCannotSpawn, LoopRedirects, LoopFindsNone,
      LoopSeesExit, LoopChecks, LoopDrains, LoopRestarts, LoopGivesUp, AtBegin, clientVars
<1>18. ASSUME NEW r \in Runs, ReaderStep(r) \/ Writes(r) \/ Exits(r)
      PROVE  AtBegin' = AtBegin /\ starts' = starts
  BY <1>18
  DEF ReaderStep, ReadLine, ReadEnds, Writes, Exits, AtBegin, clientVars,
      loopVars
<1>19. CASE UNCHANGED vars
  BY <1>19 DEF vars, clientVars, loopVars, AtBegin, BoundInv
<1>20. BoundInv /\ AtBegin' = AtBegin /\ starts' = starts => BoundInv'
  BY DEF BoundInv
<1>21. QED
  BY <1>1, <1>2, <1>3, <1>4, <1>5, <1>6, <1>7, <1>8, <1>9, <1>10, <1>11,
     <1>12, <1>13, <1>14, <1>15, <1>16, <1>17, <1>18, <1>19, <1>20
  DEF Next, Starting, StopStep

LEMMA TypesNext ==
    ASSUME TypeOK, BoundInv, [Next]_vars
    PROVE  TypeOK'
<1>0. crossed' \in BOOLEAN
  BY Zenon DEF TypeOK, Next, Noted, vars
<1> USE <1>0, Numbers DEF TypeOK, ClientPCs, LoopPCs, RunStates, Readers, Stopping,
                    CGoto, LGoto, objVars, clientVars, loopVars, runVars
<1>1. ASSUME NEW c \in Clients, StartCheck(c) PROVE TypeOK'
  BY <1>1 DEF StartCheck
<1>2. ASSUME NEW c \in Clients, StartThread(c) PROVE TypeOK'
  <2>1. Cardinality(AtBegin) > 0
    <3>1. AtBegin # {}
      BY <1>2 DEF StartThread, AtBegin
    <3> QED
      BY <3>1, BeginIsFinite, FS_EmptySet
  <2>2. starts + 1 \in Loops /\ starts + 1 \in 0..MaxStarts
    BY <2>1, BeginIsFinite DEF TypeOK, BoundInv
  <2> QED
    BY <1>2, <2>2 DEF StartThread
<1>3. ASSUME NEW c \in Clients, StartSeesProcess(c) PROVE TypeOK'
  BY <1>3 DEF StartSeesProcess
<1>4. ASSUME NEW c \in Clients, StartGivesUp(c) PROVE TypeOK'
  BY <1>4 DEF StartGivesUp
<1>5. ASSUME NEW c \in Clients, StartClears(c) PROVE TypeOK'
  BY <1>5 DEF StartClears
<1>6. ASSUME NEW c \in Clients, StopCheck(c) PROVE TypeOK'
  <2>1. stops[c] + 1 \in 0..MaxStops
    BY <1>6, StopsAssumption DEF StopCheck
  <2> QED
    BY <1>6, <2>1 DEF StopCheck
<1>7. ASSUME NEW c \in Clients, StopMarks(c) PROVE TypeOK'
  BY <1>7 DEF StopMarks
<1>8. ASSUME NEW c \in Clients, StopLoads(c) PROVE TypeOK'
  BY <1>8 DEF StopLoads
<1>9. ASSUME NEW c \in Clients, StopSeesExit(c) PROVE TypeOK'
  BY <1>9 DEF StopSeesExit
<1>10. ASSUME NEW c \in Clients, StopTimesOut(c) PROVE TypeOK'
  BY <1>10 DEF StopTimesOut
<1>11. ASSUME NEW c \in Clients, StopKills(c) PROVE TypeOK'
  BY <1>11 DEF StopKills
<1>12. ASSUME NEW c \in Clients, StopFindsLoop(c) PROVE TypeOK'
  BY <1>12 DEF StopFindsLoop
<1>13. ASSUME NEW c \in Clients, StopJoinsLoop(c) PROVE TypeOK'
  BY <1>13 DEF StopJoinsLoop
<1>14. ASSUME NEW c \in Clients, StopFindsReader(c) PROVE TypeOK'
  BY <1>14 DEF StopFindsReader
<1>15. ASSUME NEW c \in Clients, StopJoinsReader(c) PROVE TypeOK'
  BY <1>15 DEF StopJoinsReader
<1>16. ASSUME NEW c \in Clients, StopFinishes(c) PROVE TypeOK'
  BY <1>16 DEF StopFinishes
<1>17. ASSUME NEW l \in Loops, LoopSpawns(l) PROVE TypeOK'
  BY <1>17 DEF LoopSpawns
<1>18. ASSUME NEW l \in Loops, LoopCannotSpawn(l) PROVE TypeOK'
  BY <1>18 DEF LoopCannotSpawn
<1>19. ASSUME NEW l \in Loops, LoopRedirects(l) PROVE TypeOK'
  BY <1>19 DEF LoopRedirects
<1>19a. ASSUME NEW l \in Loops, LoopFindsNone(l) PROVE TypeOK'
  BY <1>19a DEF LoopFindsNone
<1>20. ASSUME NEW l \in Loops, LoopSeesExit(l) PROVE TypeOK'
  BY <1>20 DEF LoopSeesExit
<1>21. ASSUME NEW l \in Loops, LoopChecks(l) PROVE TypeOK'
  BY <1>21 DEF LoopChecks
<1>22. ASSUME NEW l \in Loops, LoopDrains(l) PROVE TypeOK'
  BY <1>22 DEF LoopDrains
<1>23. ASSUME NEW l \in Loops, LoopRestarts(l) PROVE TypeOK'
  BY <1>23 DEF LoopRestarts
<1>24. ASSUME NEW l \in Loops, LoopGivesUp(l) PROVE TypeOK'
  BY <1>24 DEF LoopGivesUp
<1>25. ASSUME NEW r \in Runs, ReadLine(r) PROVE TypeOK'
  BY <1>25 DEF ReadLine
<1>26. ASSUME NEW r \in Runs, ReadEnds(r) PROVE TypeOK'
  BY <1>26 DEF ReadEnds
<1>27. ASSUME NEW r \in Runs, Writes(r) PROVE TypeOK'
  BY <1>27 DEF Writes
<1>28. ASSUME NEW r \in Runs, Exits(r) PROVE TypeOK'
  BY <1>28 DEF Exits
<1>29. CASE UNCHANGED vars
  BY <1>29 DEF vars
<1>30. QED
  BY <1>1, <1>2, <1>3, <1>4, <1>5, <1>6, <1>7, <1>8, <1>9, <1>10, <1>11,
     <1>12, <1>13, <1>14, <1>15, <1>16, <1>17, <1>18, <1>19, <1>19a, <1>20, <1>21,
     <1>22, <1>23, <1>24, <1>25, <1>26, <1>27, <1>28, <1>29
  DEF Next, Starting, StopStep, LoopStep, ReaderStep

------------------------------------------------------------------------------
(* The steps keep the invariant *)

LEMMA LoopInvNext ==
    ASSUME TypeOK, Alone, Orderly, [Next]_vars, Alone', TypeOK'
    PROVE  LoopInv'
<1> USE Numbers
    DEF Orderly, LoopInv, ClientInv, RestInv, RunInv, Alone, Inside, Stopping, Alive,
        Quiet, AllDelivered, Born, Delivered, Exited, TypeOK, CGoto, LGoto, objVars,
        clientVars, loopVars, runVars
<1>1. ASSUME NEW c \in Clients, StartCheck(c) PROVE LoopInv'
  BY <1>1 DEF StartCheck
<1>2. ASSUME NEW c \in Clients, StartThread(c) PROVE LoopInv'
  BY <1>2 DEF StartThread
<1>3. ASSUME NEW c \in Clients, StartSeesProcess(c) PROVE LoopInv'
  BY <1>3 DEF StartSeesProcess
<1>4. ASSUME NEW c \in Clients, StartGivesUp(c) PROVE LoopInv'
  BY <1>4 DEF StartGivesUp
<1>5. ASSUME NEW c \in Clients, StartClears(c) PROVE LoopInv'
  BY <1>5 DEF StartClears
<1>6. ASSUME NEW c \in Clients, StopCheck(c) PROVE LoopInv'
  BY <1>6 DEF StopCheck
<1>7. ASSUME NEW c \in Clients, StopMarks(c) PROVE LoopInv'
  BY <1>7 DEF StopMarks
<1>8. ASSUME NEW c \in Clients, StopLoads(c) PROVE LoopInv'
  BY <1>8 DEF StopLoads
<1>9. ASSUME NEW c \in Clients, StopSeesExit(c) PROVE LoopInv'
  BY <1>9 DEF StopSeesExit
<1>10. ASSUME NEW c \in Clients, StopTimesOut(c) PROVE LoopInv'
  BY <1>10 DEF StopTimesOut
<1>11. ASSUME NEW c \in Clients, StopKills(c) PROVE LoopInv'
  BY <1>11 DEF StopKills
<1>12. ASSUME NEW c \in Clients, StopFindsLoop(c) PROVE LoopInv'
  BY <1>12 DEF StopFindsLoop
<1>13. ASSUME NEW c \in Clients, StopJoinsLoop(c) PROVE LoopInv'
  BY <1>13 DEF StopJoinsLoop
<1>14. ASSUME NEW c \in Clients, StopFindsReader(c) PROVE LoopInv'
  BY <1>14 DEF StopFindsReader
<1>15. ASSUME NEW c \in Clients, StopJoinsReader(c) PROVE LoopInv'
  BY <1>15 DEF StopJoinsReader
<1>16. ASSUME NEW c \in Clients, StopFinishes(c) PROVE LoopInv'
  BY <1>16 DEF StopFinishes
<1>17. ASSUME NEW l \in Loops, LoopSpawns(l) PROVE LoopInv'
  BY <1>17 DEF LoopSpawns
<1>18. ASSUME NEW l \in Loops, LoopCannotSpawn(l) PROVE LoopInv'
  BY <1>18 DEF LoopCannotSpawn
<1>19. ASSUME NEW l \in Loops, LoopRedirects(l) PROVE LoopInv'
  BY <1>19 DEF LoopRedirects
<1>19a. ASSUME NEW l \in Loops, LoopFindsNone(l) PROVE LoopInv'
  BY <1>19a DEF LoopFindsNone
<1>20. ASSUME NEW l \in Loops, LoopSeesExit(l) PROVE LoopInv'
  BY <1>20 DEF LoopSeesExit
<1>21. ASSUME NEW l \in Loops, LoopChecks(l) PROVE LoopInv'
  BY <1>21 DEF LoopChecks
<1>22. ASSUME NEW l \in Loops, LoopDrains(l) PROVE LoopInv'
  BY <1>22 DEF LoopDrains
<1>23. ASSUME NEW l \in Loops, LoopRestarts(l) PROVE LoopInv'
  BY <1>23 DEF LoopRestarts
<1>24. ASSUME NEW l \in Loops, LoopGivesUp(l) PROVE LoopInv'
  BY <1>24 DEF LoopGivesUp
<1>25. ASSUME NEW r \in Runs, ReadLine(r) PROVE LoopInv'
  BY <1>25 DEF ReadLine
<1>26. ASSUME NEW r \in Runs, ReadEnds(r) PROVE LoopInv'
  BY <1>26 DEF ReadEnds
<1>27. ASSUME NEW r \in Runs, Writes(r) PROVE LoopInv'
  BY <1>27 DEF Writes
<1>28. ASSUME NEW r \in Runs, Exits(r) PROVE LoopInv'
  BY <1>28 DEF Exits
<1>29. CASE UNCHANGED vars
  BY <1>29 DEF vars
<1>30. QED
  BY <1>1, <1>2, <1>3, <1>4, <1>5, <1>6, <1>7, <1>8, <1>9, <1>10, <1>11,
     <1>12, <1>13, <1>14, <1>15, <1>16, <1>17, <1>18, <1>19, <1>19a, <1>20, <1>21,
     <1>22, <1>23, <1>24, <1>25, <1>26, <1>27, <1>28, <1>29
  DEF Next, Starting, StopStep, LoopStep, ReaderStep

LEMMA ClientInvNext ==
    ASSUME TypeOK, Alone, Orderly, [Next]_vars, Alone', TypeOK'
    PROVE  ClientInv'
<1> USE Numbers
    DEF Orderly, LoopInv, ClientInv, RestInv, RunInv, Alone, Inside, Stopping, Alive,
        Quiet, AllDelivered, Born, Delivered, Exited, TypeOK, CGoto, LGoto, objVars,
        clientVars, loopVars, runVars
<1>1. ASSUME NEW c \in Clients, StartCheck(c) PROVE ClientInv'
  BY <1>1 DEF StartCheck
<1>2. ASSUME NEW c \in Clients, StartThread(c) PROVE ClientInv'
  BY <1>2 DEF StartThread
<1>3. ASSUME NEW c \in Clients, StartSeesProcess(c) PROVE ClientInv'
  BY <1>3 DEF StartSeesProcess
<1>4. ASSUME NEW c \in Clients, StartGivesUp(c) PROVE ClientInv'
  BY <1>4 DEF StartGivesUp
<1>5. ASSUME NEW c \in Clients, StartClears(c) PROVE ClientInv'
  BY <1>5 DEF StartClears
<1>6. ASSUME NEW c \in Clients, StopCheck(c) PROVE ClientInv'
  BY <1>6 DEF StopCheck
<1>7. ASSUME NEW c \in Clients, StopMarks(c) PROVE ClientInv'
  BY <1>7 DEF StopMarks
<1>8. ASSUME NEW c \in Clients, StopLoads(c) PROVE ClientInv'
  BY <1>8 DEF StopLoads
<1>9. ASSUME NEW c \in Clients, StopSeesExit(c) PROVE ClientInv'
  BY <1>9 DEF StopSeesExit
<1>10. ASSUME NEW c \in Clients, StopTimesOut(c) PROVE ClientInv'
  BY <1>10 DEF StopTimesOut
<1>11. ASSUME NEW c \in Clients, StopKills(c) PROVE ClientInv'
  BY <1>11 DEF StopKills
<1>12. ASSUME NEW c \in Clients, StopFindsLoop(c) PROVE ClientInv'
  BY <1>12 DEF StopFindsLoop
<1>13. ASSUME NEW c \in Clients, StopJoinsLoop(c) PROVE ClientInv'
  BY <1>13 DEF StopJoinsLoop
<1>14. ASSUME NEW c \in Clients, StopFindsReader(c) PROVE ClientInv'
  BY <1>14 DEF StopFindsReader
<1>15. ASSUME NEW c \in Clients, StopJoinsReader(c) PROVE ClientInv'
  BY <1>15 DEF StopJoinsReader
<1>16. ASSUME NEW c \in Clients, StopFinishes(c) PROVE ClientInv'
  BY <1>16 DEF StopFinishes
<1>17. ASSUME NEW l \in Loops, LoopSpawns(l) PROVE ClientInv'
  BY <1>17 DEF LoopSpawns
<1>18. ASSUME NEW l \in Loops, LoopCannotSpawn(l) PROVE ClientInv'
  BY <1>18 DEF LoopCannotSpawn
<1>19. ASSUME NEW l \in Loops, LoopRedirects(l) PROVE ClientInv'
  BY <1>19 DEF LoopRedirects
<1>19a. ASSUME NEW l \in Loops, LoopFindsNone(l) PROVE ClientInv'
  BY <1>19a DEF LoopFindsNone
<1>20. ASSUME NEW l \in Loops, LoopSeesExit(l) PROVE ClientInv'
  BY <1>20 DEF LoopSeesExit
<1>21. ASSUME NEW l \in Loops, LoopChecks(l) PROVE ClientInv'
  BY <1>21 DEF LoopChecks
<1>22. ASSUME NEW l \in Loops, LoopDrains(l) PROVE ClientInv'
  BY <1>22 DEF LoopDrains
<1>23. ASSUME NEW l \in Loops, LoopRestarts(l) PROVE ClientInv'
  BY <1>23 DEF LoopRestarts
<1>24. ASSUME NEW l \in Loops, LoopGivesUp(l) PROVE ClientInv'
  BY <1>24 DEF LoopGivesUp
<1>25. ASSUME NEW r \in Runs, ReadLine(r) PROVE ClientInv'
  BY <1>25 DEF ReadLine
<1>26. ASSUME NEW r \in Runs, ReadEnds(r) PROVE ClientInv'
  BY <1>26 DEF ReadEnds
<1>27. ASSUME NEW r \in Runs, Writes(r) PROVE ClientInv'
  BY <1>27 DEF Writes
<1>28. ASSUME NEW r \in Runs, Exits(r) PROVE ClientInv'
  BY <1>28 DEF Exits
<1>29. CASE UNCHANGED vars
  BY <1>29 DEF vars
<1>30. QED
  BY <1>1, <1>2, <1>3, <1>4, <1>5, <1>6, <1>7, <1>8, <1>9, <1>10, <1>11,
     <1>12, <1>13, <1>14, <1>15, <1>16, <1>17, <1>18, <1>19, <1>19a, <1>20, <1>21,
     <1>22, <1>23, <1>24, <1>25, <1>26, <1>27, <1>28, <1>29
  DEF Next, Starting, StopStep, LoopStep, ReaderStep

LEMMA RestInvNext ==
    ASSUME TypeOK, Alone, Orderly, [Next]_vars, Alone', TypeOK'
    PROVE  RestInv'
<1> USE Numbers
    DEF Orderly, LoopInv, ClientInv, RestInv, RunInv, Alone, Inside, Stopping, Alive,
        Quiet, AllDelivered, Born, Delivered, Exited, TypeOK, CGoto, LGoto, objVars,
        clientVars, loopVars, runVars
<1>1. ASSUME NEW c \in Clients, StartCheck(c) PROVE RestInv'
  BY <1>1 DEF StartCheck
<1>2. ASSUME NEW c \in Clients, StartThread(c) PROVE RestInv'
  BY <1>2 DEF StartThread
<1>3. ASSUME NEW c \in Clients, StartSeesProcess(c) PROVE RestInv'
  BY <1>3 DEF StartSeesProcess
<1>4. ASSUME NEW c \in Clients, StartGivesUp(c) PROVE RestInv'
  BY <1>4 DEF StartGivesUp
<1>5. ASSUME NEW c \in Clients, StartClears(c) PROVE RestInv'
  BY <1>5 DEF StartClears
<1>6. ASSUME NEW c \in Clients, StopCheck(c) PROVE RestInv'
  BY <1>6 DEF StopCheck
<1>7. ASSUME NEW c \in Clients, StopMarks(c) PROVE RestInv'
  BY <1>7 DEF StopMarks
<1>8. ASSUME NEW c \in Clients, StopLoads(c) PROVE RestInv'
  BY <1>8 DEF StopLoads
<1>9. ASSUME NEW c \in Clients, StopSeesExit(c) PROVE RestInv'
  BY <1>9 DEF StopSeesExit
<1>10. ASSUME NEW c \in Clients, StopTimesOut(c) PROVE RestInv'
  BY <1>10 DEF StopTimesOut
<1>11. ASSUME NEW c \in Clients, StopKills(c) PROVE RestInv'
  BY <1>11 DEF StopKills
<1>12. ASSUME NEW c \in Clients, StopFindsLoop(c) PROVE RestInv'
  BY <1>12 DEF StopFindsLoop
<1>13. ASSUME NEW c \in Clients, StopJoinsLoop(c) PROVE RestInv'
  BY <1>13 DEF StopJoinsLoop
<1>14. ASSUME NEW c \in Clients, StopFindsReader(c) PROVE RestInv'
  BY <1>14 DEF StopFindsReader
<1>15. ASSUME NEW c \in Clients, StopJoinsReader(c) PROVE RestInv'
  BY <1>15 DEF StopJoinsReader
<1>16. ASSUME NEW c \in Clients, StopFinishes(c) PROVE RestInv'
  BY <1>16 DEF StopFinishes
<1>17. ASSUME NEW l \in Loops, LoopSpawns(l) PROVE RestInv'
  BY <1>17 DEF LoopSpawns
<1>18. ASSUME NEW l \in Loops, LoopCannotSpawn(l) PROVE RestInv'
  BY <1>18 DEF LoopCannotSpawn
<1>19. ASSUME NEW l \in Loops, LoopRedirects(l) PROVE RestInv'
  BY <1>19 DEF LoopRedirects
<1>19a. ASSUME NEW l \in Loops, LoopFindsNone(l) PROVE RestInv'
  BY <1>19a DEF LoopFindsNone
<1>20. ASSUME NEW l \in Loops, LoopSeesExit(l) PROVE RestInv'
  BY <1>20 DEF LoopSeesExit
<1>21. ASSUME NEW l \in Loops, LoopChecks(l) PROVE RestInv'
  BY <1>21 DEF LoopChecks
<1>22. ASSUME NEW l \in Loops, LoopDrains(l) PROVE RestInv'
  BY <1>22 DEF LoopDrains
<1>23. ASSUME NEW l \in Loops, LoopRestarts(l) PROVE RestInv'
  BY <1>23 DEF LoopRestarts
<1>24. ASSUME NEW l \in Loops, LoopGivesUp(l) PROVE RestInv'
  BY <1>24 DEF LoopGivesUp
<1>25. ASSUME NEW r \in Runs, ReadLine(r) PROVE RestInv'
  BY <1>25 DEF ReadLine
<1>26. ASSUME NEW r \in Runs, ReadEnds(r) PROVE RestInv'
  BY <1>26 DEF ReadEnds
<1>27. ASSUME NEW r \in Runs, Writes(r) PROVE RestInv'
  BY <1>27 DEF Writes
<1>28. ASSUME NEW r \in Runs, Exits(r) PROVE RestInv'
  BY <1>28 DEF Exits
<1>29. CASE UNCHANGED vars
  BY <1>29 DEF vars
<1>30. QED
  BY <1>1, <1>2, <1>3, <1>4, <1>5, <1>6, <1>7, <1>8, <1>9, <1>10, <1>11,
     <1>12, <1>13, <1>14, <1>15, <1>16, <1>17, <1>18, <1>19, <1>19a, <1>20, <1>21,
     <1>22, <1>23, <1>24, <1>25, <1>26, <1>27, <1>28, <1>29
  DEF Next, Starting, StopStep, LoopStep, ReaderStep

LEMMA RunInvNext ==
    ASSUME TypeOK, Alone, Orderly, [Next]_vars, Alone', TypeOK'
    PROVE  RunInv'
<1> USE Numbers
    DEF Orderly, LoopInv, ClientInv, RestInv, RunInv, Alone, Inside, Stopping, Alive,
        Quiet, AllDelivered, Born, Delivered, Exited, TypeOK, CGoto, LGoto, objVars,
        clientVars, loopVars, runVars
<1>1. ASSUME NEW c \in Clients, StartCheck(c) PROVE RunInv'
  BY <1>1 DEF StartCheck
<1>2. ASSUME NEW c \in Clients, StartThread(c) PROVE RunInv'
  BY <1>2 DEF StartThread
<1>3. ASSUME NEW c \in Clients, StartSeesProcess(c) PROVE RunInv'
  BY <1>3 DEF StartSeesProcess
<1>4. ASSUME NEW c \in Clients, StartGivesUp(c) PROVE RunInv'
  BY <1>4 DEF StartGivesUp
<1>5. ASSUME NEW c \in Clients, StartClears(c) PROVE RunInv'
  BY <1>5 DEF StartClears
<1>6. ASSUME NEW c \in Clients, StopCheck(c) PROVE RunInv'
  BY <1>6 DEF StopCheck
<1>7. ASSUME NEW c \in Clients, StopMarks(c) PROVE RunInv'
  BY <1>7 DEF StopMarks
<1>8. ASSUME NEW c \in Clients, StopLoads(c) PROVE RunInv'
  BY <1>8 DEF StopLoads
<1>9. ASSUME NEW c \in Clients, StopSeesExit(c) PROVE RunInv'
  BY <1>9 DEF StopSeesExit
<1>10. ASSUME NEW c \in Clients, StopTimesOut(c) PROVE RunInv'
  BY <1>10 DEF StopTimesOut
<1>11. ASSUME NEW c \in Clients, StopKills(c) PROVE RunInv'
  BY <1>11 DEF StopKills
<1>12. ASSUME NEW c \in Clients, StopFindsLoop(c) PROVE RunInv'
  BY <1>12 DEF StopFindsLoop
<1>13. ASSUME NEW c \in Clients, StopJoinsLoop(c) PROVE RunInv'
  BY <1>13 DEF StopJoinsLoop
<1>14. ASSUME NEW c \in Clients, StopFindsReader(c) PROVE RunInv'
  BY <1>14 DEF StopFindsReader
<1>15. ASSUME NEW c \in Clients, StopJoinsReader(c) PROVE RunInv'
  BY <1>15 DEF StopJoinsReader
<1>16. ASSUME NEW c \in Clients, StopFinishes(c) PROVE RunInv'
  BY <1>16 DEF StopFinishes
<1>17. ASSUME NEW l \in Loops, LoopSpawns(l) PROVE RunInv'
  <2>1. PICK q \in Runs : FreshRun(q) /\ run' = [run EXCEPT ![q] = "running"] /\ process' = q
    BY <1>17 DEF LoopSpawns
  <2>2. /\ lpc' = [lpc EXCEPT ![l] = "redirect"]
        /\ redirection' = redirection /\ unread' = unread /\ reader' = reader
    BY <1>17 DEF LoopSpawns
  <2>3. AllDelivered
    BY <1>17 DEF LoopSpawns
  <2>4. \A r \in Runs : r # q => run'[r] = run[r]
    BY <2>1
  <2>5. run[q] = "unborn" /\ run'[q] = "running" /\ lpc'[l] = "redirect"
    BY <2>1, <2>2 DEF FreshRun
  <2> QED
    BY <2>1, <2>2, <2>3, <2>4, <2>5
<1>18. ASSUME NEW l \in Loops, LoopCannotSpawn(l) PROVE RunInv'
  BY <1>18 DEF LoopCannotSpawn
<1>19. ASSUME NEW l \in Loops, LoopRedirects(l) PROVE RunInv'
  BY <1>19 DEF LoopRedirects
<1>19a. ASSUME NEW l \in Loops, LoopFindsNone(l) PROVE RunInv'
  BY <1>19a DEF LoopFindsNone
<1>20. ASSUME NEW l \in Loops, LoopSeesExit(l) PROVE RunInv'
  BY <1>20 DEF LoopSeesExit
<1>21. ASSUME NEW l \in Loops, LoopChecks(l) PROVE RunInv'
  BY <1>21 DEF LoopChecks
<1>22. ASSUME NEW l \in Loops, LoopDrains(l) PROVE RunInv'
  BY <1>22 DEF LoopDrains
<1>23. ASSUME NEW l \in Loops, LoopRestarts(l) PROVE RunInv'
  BY <1>23 DEF LoopRestarts
<1>24. ASSUME NEW l \in Loops, LoopGivesUp(l) PROVE RunInv'
  BY <1>24 DEF LoopGivesUp
<1>25. ASSUME NEW r \in Runs, ReadLine(r) PROVE RunInv'
  BY <1>25 DEF ReadLine
<1>26. ASSUME NEW r \in Runs, ReadEnds(r) PROVE RunInv'
  BY <1>26 DEF ReadEnds
<1>27. ASSUME NEW r \in Runs, Writes(r) PROVE RunInv'
  BY <1>27 DEF Writes
<1>28. ASSUME NEW r \in Runs, Exits(r) PROVE RunInv'
  BY <1>28 DEF Exits
<1>29. CASE UNCHANGED vars
  BY <1>29 DEF vars
<1>30. QED
  BY <1>1, <1>2, <1>3, <1>4, <1>5, <1>6, <1>7, <1>8, <1>9, <1>10, <1>11,
     <1>12, <1>13, <1>14, <1>15, <1>16, <1>17, <1>18, <1>19, <1>19a, <1>20, <1>21,
     <1>22, <1>23, <1>24, <1>25, <1>26, <1>27, <1>28, <1>29
  DEF Next, Starting, StopStep, LoopStep, ReaderStep

------------------------------------------------------------------------------
(* The theorems *)

LEMMA InvInit == Init => Inv
<1> SUFFICES ASSUME Init PROVE Inv
  OBVIOUS
<1> USE Numbers, StopsAssumption DEF Init, Inv
<1>1. TypeOK
  <2>1. /\ started \in BOOLEAN /\ stopped \in BOOLEAN /\ crossed \in BOOLEAN
        /\ unread \in [Runs -> BOOLEAN]
    BY Zenon
  <2> QED
    BY <2>1 DEF TypeOK, ClientPCs, LoopPCs, RunStates, Readers
<1>2. AtBegin = {}
  BY DEF AtBegin
<1>3. BoundInv
  BY <1>2, FS_EmptySet DEF BoundInv
<1>4. Alone
  BY DEF Alone, Inside, Stopping
<1>5. Orderly
  BY
  DEF Orderly, LoopInv, ClientInv, RestInv, RunInv, Alive, Quiet,
      AllDelivered, Born
<1> QED
  BY <1>1, <1>3, <1>4, <1>5

LEMMA InvNext == Inv /\ [Next]_vars => Inv'
<1> SUFFICES ASSUME Inv, [Next]_vars PROVE Inv'
  OBVIOUS
<1>1. TypeOK' /\ BoundInv'
  BY TypesNext, BoundNext DEF Inv
<1>2. ASSUME ~crossed' PROVE Alone' /\ Orderly'
  <2>1. ~crossed /\ Alone /\ Orderly
    BY <1>2 DEF Next, Noted, vars, Inv, TypeOK
  <2>2. CASE Next
    BY <1>1, <1>2, <2>1, <2>2, LoopInvNext, ClientInvNext, RestInvNext,
       RunInvNext
    DEF Inv, Noted, Next, Crossing, Alone, Orderly
  <2>3. CASE UNCHANGED vars
    <3>1. Alone'
      BY <2>1, <2>3 DEF vars, clientVars, Alone, Inside
    <3> QED
      BY <1>1, <2>1, <3>1, <2>3, LoopInvNext, ClientInvNext,
         RestInvNext, RunInvNext DEF Inv, Orderly
  <2> QED
    BY <2>2, <2>3
<1> QED
  BY <1>1, <1>2 DEF Inv

\* The inductive invariant holds.
THEOREM InvHolds == Spec => []Inv
BY InvInit, InvNext, PTL DEF Spec

\* Type correctness, whatever the clients do: listening threads and runs are
\* numbered within the bounds, and nobody waits for a run that is None.
THEOREM TypesHold == Spec => []TypeOK
<1>1. Inv => TypeOK
  BY DEF Inv
<1> QED
  BY <1>1, InvHolds, PTL

\* There is one run of the command at a time, for any number of clients,
\* starts, stops and restarts by the callback.
THEOREM OneRunHolds == Spec => []OneRun
<1>1. Inv => OneRun
  BY DEF Inv, Orderly, RunInv, Born, Delivered, Exited, OneRun
<1> QED
  BY <1>1, InvHolds, PTL

\* The callback is asked for another command after all output of every run.
THEOREM OutputBeforeCallbackHolds == Spec => []OutputBeforeCallback
<1>1. Inv => OutputBeforeCallback
  BY DEF Inv, Orderly, LoopInv, AllDelivered, OutputBeforeCallback
<1> QED
  BY <1>1, InvHolds, PTL

\* A stop() or wait() that returns leaves no thread, run or output behind.
THEOREM StopEndsTheRunHolds == Spec => StopEndsTheRun
<1> DEFINE Ends(c) ==
      ~crossed /\ cpc[c] = "finish" /\ cpc'[c] = "idle" =>
         /\ \A l \in Loops : lpc[l] \in {"unborn", "ended"}
         /\ \A r \in Runs : Born(r) => Delivered(r)
<1>1. ASSUME Inv, NEW c \in Clients PROVE Ends(c)
  <2> SUFFICES ASSUME ~crossed, cpc[c] = "finish" PROVE Quiet /\ AllDelivered
    BY DEF Quiet, Alive, AllDelivered
  <2>1. Quiet /\ redirection = 0
    BY <1>1 DEF Inv, Orderly, ClientInv
  <2>2. ASSUME NEW r \in Runs, Born(r) PROVE Delivered(r)
    BY <1>1, <2>1, <2>2, Numbers DEF Inv, Orderly, RunInv, Quiet, Alive
  <2> QED
    BY <2>1, <2>2 DEF AllDelivered
<1>2. Inv => [\A c \in Clients : Ends(c)]_vars
  BY <1>1
<1> QED
  BY <1>2, InvHolds, PTL DEF StopEndsTheRun
==============================================================================
