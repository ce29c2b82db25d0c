---------------------------- MODULE TestRunProofs ----------------------------
(***************************************************************************)
(* What a test run promises for any number of beds, classes and tests, any *)
(* failure limit, and whatever the user-written functions do.  Typed says  *)
(* how far the counters can be in each phase; the other invariants follow  *)
(* a class from its set-up to its teardown on top of it.                   *)
(*                                                                         *)
(* The second half is about the same run with its stack of contexts and    *)
(* the log files that follow it, with any streams: a step is first reduced *)
(* to what it does to the place in the run and to the stack (Moves); the   *)
(* invariants about handlers build on that.                                *)
(***************************************************************************)
EXTENDS LogStream, FiniteSetTheorems, SequenceTheorems, TLAPS

Inside  == {"setup", "body", "teardown", "post", "onFail", "record"}
InsideClass == Inside \cup {"setupClass", "block", "pick", "teardownClass", "classEnd"}

\* A test counts as a failure at most once, and before its record is added;
\* those that are blocked do not count.
Counters ==
    /\ phase \in {"setupClass", "block"} => consecutive = 0
    /\ consecutive <= (IF phase = "record" THEN test ELSE test - 1)
    /\ phase \in Inside => test <= Tests
    /\ phase \in InsideClass => cls <= Classes

Typed == TypeOK /\ Counters

LEMMA TypedInit == Init => Typed
<1> SUFFICES ASSUME Init PROVE Typed
  OBVIOUS
<1>1. <<>> \in Seq(Record) /\ <<>> \in Seq(BedEnds)
  OBVIOUS
<1>2. bed \in 1..Beds /\ cls \in 1..(Classes + 1) /\ test \in 1..(Tests + 1)
      /\ attempt \in 1..Attempts /\ consecutive \in 0..Tests
  BY SizeAssumption, AttemptsAssumption DEF Init
<1>3. phase \in Phases /\ exc \in InFlight /\ result \in Results /\ ok \in Verdicts
  BY DEF Init, Phases, InFlight, Results, Verdicts
<1>4. Counters
  BY SizeAssumption DEF Init, Counters, Inside, InsideClass
<1>5. TypeOK
  BY <1>1, <1>2, <1>3 DEF Init, TypeOK
<1> QED
  BY <1>4, <1>5 DEF Typed

\* A record of the current test has the type of a record.
LEMMA Recorded ==
    ASSUME Typed, test <= Tests, NEW r \in Results, NEW b \in BOOLEAN
    PROVE  Append(classRecs, [test |-> test, result |-> r, ran |-> b]) \in Seq(Record)
<1>1. test \in 1..Tests
  BY SizeAssumption DEF Typed, TypeOK
<1>2. [test |-> test, result |-> r, ran |-> b] \in Record
  BY <1>1 DEF Record
<1> QED
  BY <1>2 DEF Typed, TypeOK

\* The class: its set-up, the tests it blocks, its teardown.
LEMMA TypedClass ==
    ASSUME Typed, NEW o \in Outcomes, NEW hook \in HookOutcomes,
           StartClass \/ SetupClass(o) \/ Block(hook) \/ Pick \/ TeardownClass(o)
    PROVE  Typed'
<1> USE SizeAssumption, AttemptsAssumption
     DEF Typed, Counters, Inside, InsideClass, bedVars, classVars, testVars
<1> <<>> \in Seq(Record)
  OBVIOUS
<1>1. CASE StartClass
  <2>1. attempt' \in 1..Attempts /\ test' \in 1..(Tests + 1) /\ consecutive' \in 0..Tests
    BY <1>1 DEF StartClass
  <2>2. phase' \in Phases /\ exc' \in InFlight /\ result' \in Results
    BY <1>1 DEF StartClass, Phases, InFlight, Results
  <2>3. /\ tornDown' \in BOOLEAN /\ hooked' \in BOOLEAN /\ classError' \in BOOLEAN
        /\ skipRaised' \in {"no", "blockedAgain", "leftRun"}
        /\ ran' \in BOOLEAN /\ extra' \in BOOLEAN
    BY <1>1 DEF StartClass
  <2>4. Counters'
    BY <1>1 DEF StartClass, TypeOK
  <2> QED
    BY <1>1, <2>1, <2>2, <2>3, <2>4 DEF StartClass, TypeOK
<1>2. CASE SetupClass(o)
  BY <1>2 DEF SetupClass, TypeOK, Phases, InFlight, Raised
<1>3. CASE Block(hook)
  <2>1. CASE test > Tests
    BY <1>3, <2>1 DEF Block, TypeOK, Phases, InFlight
  <2>2. CASE ~(test > Tests)
    <3>1. test <= Tests /\ "ERROR" \in Results /\ FALSE \in BOOLEAN
      BY <2>2 DEF TypeOK, Results
    <3>2. classRecs' \in Seq(Record)
      BY <1>3, <2>2, <3>1, Recorded DEF Block
    <3>3. exc' \in InFlight /\ blockedFrom' \in {"none", "false", "error"}
      BY <1>3, <2>2 DEF Block, TypeOK, InFlight, Raised
    <3>4. /\ phase' \in {"block", "teardownClass", "classEnd"} /\ phase = "block"
          /\ test' \in 1..(Tests + 1) /\ consecutive' <= test' - 1
      BY <1>3, <2>2, <3>1 DEF Block, TypeOK
    <3>5. /\ aborted' \in BOOLEAN /\ hooked' \in BOOLEAN
          /\ skipRaised' \in {"no", "blockedAgain", "leftRun"}
      BY <1>3, <2>2 DEF Block, TypeOK
    <3> QED
      BY <1>3, <3>2, <3>3, <3>4, <3>5 DEF Block, TypeOK, Phases
  <2> QED
    BY <2>1, <2>2
<1>4. CASE Pick
  <2>1. CASE test <= Tests
    <3>1. attempt' \in 1..Attempts
      BY <1>4, <2>1 DEF Pick
    <3>2. phase' \in Phases /\ exc' \in InFlight /\ result' \in Results
      BY <1>4, <2>1 DEF Pick, Phases, InFlight, Results
    <3>3. ran' \in BOOLEAN /\ extra' \in BOOLEAN
      BY <1>4, <2>1 DEF Pick
    <3>4. Counters'
      BY <1>4, <2>1 DEF Pick, TypeOK
    <3> QED
      BY <1>4, <2>1, <3>1, <3>2, <3>3, <3>4 DEF Pick, TypeOK
  <2>2. CASE ~(test <= Tests)
    BY <1>4, <2>2 DEF Pick, TypeOK, Phases
  <2> QED
    BY <2>1, <2>2
<1>5. CASE TeardownClass(o)
  <2>1. exc' \in InFlight
    BY <1>5 DEF TeardownClass, TypeOK, InFlight, Raised
  <2> QED
    BY <1>5, <2>1 DEF TeardownClass, TypeOK, Phases
<1> QED
  BY <1>1, <1>2, <1>3, <1>4, <1>5

\* One test, from its set-up to its record.
LEMMA TypedTest ==
    ASSUME Typed, NEW o \in Outcomes, NEW hook \in HookOutcomes,
           \/ SetupTest(o) \/ TestBody(o) \/ TeardownTest(o)
           \/ OnPass(hook) \/ OnSkip(hook) \/ OnException(hook) \/ OnFail(hook)
           \/ AddRecord
    PROVE  Typed'
<1> USE SizeAssumption, AttemptsAssumption
     DEF Typed, Counters, Inside, InsideClass, bedVars, classVars, testVars
<1>1. CASE SetupTest(o)
  BY <1>1 DEF SetupTest, TypeOK, Phases, InFlight, Outcomes, Raised
<1>2. CASE TestBody(o)
  BY <1>2 DEF TestBody, TypeOK, Phases, InFlight, Outcomes
<1>3. CASE TeardownTest(o)
  <2>1. result' \in Results /\ exc' \in InFlight /\ extra' \in BOOLEAN
    BY <1>3 DEF TeardownTest, TypeOK, ResultOf, Spoilt, Results, InFlight, Outcomes
  <2> QED
    BY <1>3, <2>1 DEF TeardownTest, TypeOK, Phases
<1>4. CASE OnPass(hook) \/ OnSkip(hook) \/ OnException(hook) \/ OnFail(hook)
  <2>1. \E label \in {"record", "onFail"} : AfterHook(hook, label)
    BY <1>4 DEF OnPass, OnSkip, OnException, OnFail
  <2>2. /\ result' \in Results /\ exc' \in InFlight
        /\ phase' \in {"record", "onFail"}
        /\ aborted' \in BOOLEAN /\ hooked' \in BOOLEAN
    BY <2>1 DEF AfterHook, TypeOK, Spoilt, Results, InFlight, Raised
  <2>3. /\ phase \in {"post", "onFail"}
        /\ consecutive' \in 0..(IF phase' = "record" THEN test ELSE test - 1)
    BY <1>4, <2>2 DEF OnPass, OnSkip, OnException, OnFail, AfterHook, TypeOK
  <2> QED
    BY <2>1, <2>2, <2>3 DEF AfterHook, TypeOK, Phases
<1>5. CASE AddRecord
  <2>1. test <= Tests /\ result \in Results /\ ran \in BOOLEAN
    BY <1>5 DEF AddRecord, TypeOK
  <2>2. classRecs' \in Seq(Record)
    BY <1>5, <2>1, Recorded DEF AddRecord
  <2> QED
    BY <1>5, <2>1, <2>2 DEF AddRecord, TypeOK, Phases
<1> QED
  BY <1>1, <1>2, <1>3, <1>4, <1>5

\* The end of a class, of a run and of a bed.
LEMMA TypedRun == ASSUME Typed, ClassEnd \/ RunEnd \/ NextBed PROVE Typed'
<1> USE SizeAssumption, AttemptsAssumption
     DEF Typed, Counters, Inside, InsideClass, bedVars, classVars, testVars
<1>1. ASSUME NEW v \in Verdicts, Return(v) PROVE ok' \in Verdicts
  BY <1>1 DEF Return, PyAnd, TypeOK
<1>2. CASE ClassEnd
  <2>1. Tallied(classRecs) \subseteq Results
    <3>1. \A i \in DOMAIN classRecs : classRecs[i] \in Record
      BY DEF TypeOK
    <3>2. \A r \in Record : r.result \in Results
      BY DEF Record
    <3> QED
      BY <3>1, <3>2 DEF Tallied, Results
  <2>2. ok' \in Verdicts
    BY <1>1, <1>2 DEF ClassEnd, Verdicts, TypeOK
  <2>3. phase' \in {"bedEnd", "nextClass"} /\ cls' \in 1..(Classes + 1)
    BY <1>2 DEF ClassEnd, Return, TypeOK
  <2>4. runRecs' \subseteq Results
    BY <1>2, <2>1 DEF ClassEnd, TypeOK
  <2>5. ends' \in Seq(BedEnds)
    <3>1. ends' = ends \/ Ends("aborted") \/ Ends("crashed")
      BY <1>2 DEF ClassEnd
    <3>2. "aborted" \in BedEnds /\ "crashed" \in BedEnds
      BY DEF BedEnds
    <3> QED
      BY <3>1, <3>2 DEF Ends, TypeOK
  <2> QED
    BY <1>2, <2>2, <2>3, <2>4, <2>5 DEF ClassEnd, TypeOK, Phases
<1>3. CASE RunEnd
  <2>1. ok' \in Verdicts
    BY <1>1, <1>3 DEF RunEnd, Verdicts
  <2>2. ends' \in Seq(BedEnds)
    BY <1>3 DEF RunEnd, Ends, BedEnds, TypeOK
  <2> QED
    BY <1>3, <2>1, <2>2 DEF RunEnd, Return, TypeOK, Phases
<1>4. CASE NextBed
  <2>1. <<>> \in Seq(Record)
    OBVIOUS
  <2>2. CASE bed < Beds
    <3>1. bed' \in 1..Beds /\ cls' \in 1..(Classes + 1)
      BY <1>4, <2>2 DEF NextBed, TypeOK
    <3>2. phase' \in Phases /\ exc' \in InFlight
      BY <1>4, <2>2 DEF NextBed, Phases, InFlight
    <3>3. aborted' \in BOOLEAN /\ runError' \in BOOLEAN
      BY <1>4, <2>2 DEF NextBed
    <3>4. Counters'
      BY <1>4, <2>2 DEF NextBed, TypeOK
    <3> QED
      BY <1>4, <2>1, <2>2, <3>1, <3>2, <3>3, <3>4 DEF NextBed, TypeOK
  <2>3. CASE ~(bed < Beds)
    BY <1>4, <2>3 DEF NextBed, TypeOK, Phases
  <2> QED
    BY <2>2, <2>3
<1> QED
  BY <1>2, <1>3, <1>4

LEMMA TypedNext == Typed /\ [Next]_vars => Typed'
<1> SUFFICES ASSUME Typed, [Next]_vars PROVE Typed'
  OBVIOUS
<1>1. "none" \in Outcomes /\ "none" \in HookOutcomes
  BY DEF Outcomes, HookOutcomes
<1>2. CASE UserCode
  BY <1>1, <1>2, TypedClass, TypedTest DEF UserCode
<1>3. CASE StartClass \/ Pick \/ AddRecord
  BY <1>1, <1>3, TypedClass, TypedTest
<1>4. CASE ClassEnd \/ RunEnd \/ NextBed
  BY <1>4, TypedRun
<1>5. CASE UNCHANGED vars
  BY <1>5 DEF vars, bedVars, classVars, testVars, Typed, TypeOK, Counters
<1> QED
  BY <1>2, <1>3, <1>4, <1>5 DEF Next

LEMMA TypedInvariant == Spec => []Typed
BY TypedInit, TypedNext, PTL DEF Spec

\* Every variable of a test run keeps to its type, whatever is raised.
THEOREM RunTypeCorrect == Spec => []TypeOK
<1>1. Typed => TypeOK
  BY DEF Typed
<1> QED
  BY <1>1, TypedInvariant, PTL

------------------------------------------------------------------------------
(* abort_all *)

\* Once a user-written function has raised abort_all outside of setup_class, the
\* exception is on its way through the test, the class and the runner, and none of
\* them starts anything.
Leaving ==
    /\ aborted =>
         \/ phase \in {"teardown", "post", "onFail", "record", "teardownClass"}
            /\ exc = "abortAll"
         \/ phase = "classEnd" /\ exc \in {"abortAll", "bareAbort"}
         \/ phase \in {"bedEnd", "done"}
    /\ exc = "bareAbort" => phase \in {"classEnd", "bedEnd", "done"}

LEMMA LeavingNext == Typed /\ Leaving /\ [Next]_vars => Leaving'
<1> SUFFICES ASSUME Typed, Leaving, [Next]_vars PROVE Leaving'
  OBVIOUS
<1> USE DEF Leaving
<1>1. ASSUME NEW o \in Outcomes, SetupClass(o) \/ TeardownClass(o) PROVE Leaving'
  <2>1. CASE SetupClass(o)
    <3>1. phase = "setupClass" /\ aborted' = aborted /\ exc' \in {"abortClass", "none"}
      BY <2>1 DEF SetupClass
    <3> QED
      BY <3>1
  <2>2. CASE TeardownClass(o)
    BY <2>2 DEF TeardownClass
  <2> QED
    BY <1>1, <2>1, <2>2
<1>2. ASSUME NEW o \in Outcomes, SetupTest(o) \/ TestBody(o) \/ TeardownTest(o)
      PROVE  Leaving'
  BY <1>2 DEF SetupTest, TestBody, TeardownTest, Outcomes, Raised
<1>3. ASSUME NEW hook \in HookOutcomes, Block(hook) PROVE Leaving'
  BY <1>3 DEF Block
<1>4. ASSUME NEW hook \in HookOutcomes,
             OnPass(hook) \/ OnSkip(hook) \/ OnException(hook) \/ OnFail(hook)
      PROVE  Leaving'
  <2>1. /\ phase \in {"post", "onFail"}
        /\ \E label \in {"record", "onFail"} : AfterHook(hook, label)
    BY <1>4 DEF OnPass, OnSkip, OnException, OnFail
  <2> QED
    BY <2>1 DEF AfterHook
<1>5. CASE StartClass \/ Pick \/ AddRecord
  BY <1>5 DEF StartClass, Pick, AddRecord
<1>6. CASE ClassEnd \/ RunEnd \/ NextBed
  BY <1>6 DEF ClassEnd, RunEnd, NextBed, Return
<1>7. CASE UNCHANGED vars
  BY <1>7 DEF vars
<1> QED
  BY <1>1, <1>2, <1>3, <1>4, <1>5, <1>6, <1>7 DEF Next, UserCode

\* An abort_all that left its class is final: in that test bed, no test function is
\* called after it.
THEOREM AbortIsFinalHolds == Spec => []AbortIsFinal
<1>1. Init => Leaving
  BY DEF Init, Leaving
<1>2. Leaving => AbortIsFinal
  BY DEF Leaving, AbortIsFinal
<1> QED
  BY <1>1, <1>2, LeavingNext, TypedInvariant, PTL DEF Spec

------------------------------------------------------------------------------
(* teardown_class *)

\* A class that has not been torn down is still before its end, except for the one
\* way out of run() around the finally.
Covered ==
    ~tornDown /\ skipRaised # "leftRun" => phase \in InsideClass \ {"classEnd"}

LEMMA CoveredNext == Covered /\ [Next]_vars => Covered'
<1> SUFFICES ASSUME Covered, [Next]_vars PROVE Covered'
  OBVIOUS
<1> USE DEF Covered, InsideClass, Inside
<1>1. ASSUME NEW o \in Outcomes, SetupClass(o) \/ TeardownClass(o) PROVE Covered'
  BY <1>1 DEF SetupClass, TeardownClass, classVars
<1>2. ASSUME NEW o \in Outcomes, SetupTest(o) \/ TestBody(o) \/ TeardownTest(o)
      PROVE  Covered'
  BY <1>2 DEF SetupTest, TestBody, TeardownTest, classVars
<1>3. ASSUME NEW hook \in HookOutcomes, Block(hook) PROVE Covered'
  BY <1>3 DEF Block, classVars
<1>4. ASSUME NEW hook \in HookOutcomes,
             OnPass(hook) \/ OnSkip(hook) \/ OnException(hook) \/ OnFail(hook)
      PROVE  Covered'
  <2>1. \E label \in {"record", "onFail"} : AfterHook(hook, label)
    BY <1>4 DEF OnPass, OnSkip, OnException, OnFail
  <2> QED
    BY <2>1 DEF AfterHook, classVars
<1>5. CASE StartClass \/ Pick \/ AddRecord
  BY <1>5 DEF StartClass, Pick, AddRecord, classVars
<1>6. CASE ClassEnd \/ RunEnd \/ NextBed
  BY <1>6 DEF ClassEnd, RunEnd, NextBed, Return, classVars
<1>7. CASE UNCHANGED vars
  BY <1>7 DEF vars, classVars
<1> QED
  BY <1>1, <1>2, <1>3, <1>4, <1>5, <1>6, <1>7 DEF Next, UserCode

\* Whatever setup_class, the tests and their procedures raise, the class is torn
\* down before the next one starts or the bed ends.
THEOREM ClassesAreTornDownHolds == Spec => []ClassesAreTornDown
<1>1. Init => Covered
  BY DEF Init, Covered
<1>2. Covered => ClassesAreTornDown
  BY DEF Covered, ClassesAreTornDown, InsideClass, Inside
<1> QED
  BY <1>1, <1>2, CoveredNext, PTL DEF Spec

------------------------------------------------------------------------------
(* Records *)

\* The record of a test whose body has run is the last one of its class once the
\* test is over; before its set-up is done, the body has not run.
Seen ==
    /\ phase \in {"setupClass", "block", "setup"} => ~ran
    /\ RanIsRecorded

LEMMA SeenNext == Typed /\ Seen /\ [Next]_vars => Seen'
<1> SUFFICES ASSUME Typed, Seen, [Next]_vars PROVE Seen'
  OBVIOUS
<1> USE DEF Seen, RanIsRecorded, classVars, testVars
<1>1. ASSUME NEW o \in Outcomes, SetupClass(o) \/ TeardownClass(o) PROVE Seen'
  <2>1. CASE SetupClass(o)
    <3>1. ~ran' /\ phase' \in {"block", "pick", "teardownClass"}
      BY <2>1 DEF SetupClass
    <3> QED
      BY <3>1
  <2>2. CASE TeardownClass(o)
    BY <2>2 DEF TeardownClass
  <2> QED
    BY <1>1, <2>1, <2>2
<1>2. ASSUME NEW o \in Outcomes, SetupTest(o) \/ TestBody(o) \/ TeardownTest(o)
      PROVE  Seen'
  <2>1. phase' \in {"body", "teardown", "post"}
    BY <1>2 DEF SetupTest, TestBody, TeardownTest
  <2> QED
    BY <2>1
<1>3. ASSUME NEW hook \in HookOutcomes, Block(hook) PROVE Seen'
  <2>1. ~ran' /\ phase' \in {"block", "teardownClass", "classEnd"}
    BY <1>3 DEF Block
  <2> QED
    BY <2>1
<1>4. ASSUME NEW hook \in HookOutcomes,
             OnPass(hook) \/ OnSkip(hook) \/ OnException(hook) \/ OnFail(hook)
      PROVE  Seen'
  <2>1. \E label \in {"record", "onFail"} : AfterHook(hook, label)
    BY <1>4 DEF OnPass, OnSkip, OnException, OnFail
  <2>2. phase' \in {"record", "onFail"}
    BY <2>1 DEF AfterHook
  <2> QED
    BY <2>2
<1>5. CASE StartClass
  BY <1>5 DEF StartClass
<1>6. CASE Pick
  BY <1>6 DEF Pick
<1>7. CASE AddRecord
  <2> DEFINE r == [test |-> test, result |-> result, ran |-> ran]
  <2>1. classRecs' # <<>> /\ classRecs'[Len(classRecs')] = r
    BY <1>7 DEF AddRecord, Typed, TypeOK
  <2>2. test' - 1 = test /\ ran' = ran /\ phase' \in {"pick", "teardownClass"}
    BY <1>7 DEF AddRecord, Typed, TypeOK
  <2>3. r.ran = ran /\ r.test = test
    OBVIOUS
  <2> HIDE DEF r
  <2> QED
    BY <2>1, <2>2, <2>3
<1>8. CASE ClassEnd \/ RunEnd \/ NextBed
  <2>1. phase' \in {"nextClass", "bedEnd", "done"}
    BY <1>8 DEF ClassEnd, RunEnd, NextBed, Return
  <2> QED
    BY <2>1
<1>9. CASE UNCHANGED vars
  BY <1>9 DEF vars
<1> QED
  BY <1>1, <1>2, <1>3, <1>4, <1>5, <1>6, <1>7, <1>8, <1>9 DEF Next, UserCode

\* No test runs unseen: its record is there when the test is over, whatever the
\* procedures in between have raised.
THEOREM RanIsRecordedHolds == Spec => []RanIsRecorded
<1>1. Init => Seen
  BY DEF Init, Seen, RanIsRecorded
<1>2. Seen => RanIsRecorded
  BY DEF Seen
<1> QED
  BY <1>1, <1>2, SeenNext, TypedInvariant, PTL DEF Spec

\* As long as on_skip has not raised while tests were blocked, the tests so far have
\* one record each, in their order, and a class whose tests are not all recorded was
\* aborted.
InOrder ==
    phase \in InsideClass /\ skipRaised = "no" =>
        /\ Len(classRecs) = test - 1
        /\ \A i \in DOMAIN classRecs : classRecs[i].test = i
Accounted ==
    phase \in {"teardownClass", "classEnd"} /\ skipRaised = "no" =>
        test = Tests + 1 \/ exc \in {"abortClass", "abortAll", "bareAbort"}

\* The record added is the next one.
LEMMA AppendInOrder ==
    ASSUME Typed, NEW r, r.test = test, Len(classRecs) = test - 1,
           \A i \in DOMAIN classRecs : classRecs[i].test = i,
           classRecs' = Append(classRecs, r)
    PROVE  Len(classRecs') = test /\ \A i \in DOMAIN classRecs' : classRecs'[i].test = i
BY DEF Typed, TypeOK

LEMMA InOrderNext == Typed /\ InOrder /\ Accounted /\ [Next]_vars => InOrder' /\ Accounted'
<1> SUFFICES ASSUME Typed, InOrder, Accounted, [Next]_vars PROVE InOrder' /\ Accounted'
  OBVIOUS
<1> DEFINE Goal == InOrder' /\ Accounted'
<1> USE SizeAssumption DEF InOrder, Accounted, InsideClass, Inside
<1>1. ASSUME NEW o \in Outcomes, SetupClass(o) \/ TeardownClass(o) PROVE Goal
  <2>1. CASE SetupClass(o)
    <3>1. /\ skipRaised' = skipRaised
          /\ phase' = "teardownClass" => exc' = "abortClass"
          /\ phase' \in {"block", "pick", "teardownClass"}
      BY <2>1 DEF SetupClass, classVars
    <3> QED
      BY <2>1, <3>1 DEF SetupClass
  <2>2. CASE TeardownClass(o)
    BY <2>2 DEF TeardownClass
  <2> QED
    BY <1>1, <2>1, <2>2
<1>2. ASSUME NEW o \in Outcomes, SetupTest(o) \/ TestBody(o) \/ TeardownTest(o)
      PROVE  Goal
  <2>1. /\ phase \in Inside /\ phase' \in {"body", "teardown", "post"}
        /\ UNCHANGED <<test, classRecs, skipRaised>>
    BY <1>2 DEF SetupTest, TestBody, TeardownTest, classVars
  <2> QED
    BY <2>1
<1>3. ASSUME NEW hook \in HookOutcomes, Block(hook) PROVE Goal
  <2>1. CASE test > Tests
    BY <1>3, <2>1 DEF Block, Typed, TypeOK
  <2>2. CASE ~(test > Tests)
    <3> DEFINE r == [test |-> test, result |-> "ERROR", ran |-> FALSE]
    <3>1. /\ classRecs' = Append(classRecs, r) /\ phase = "block"
          /\ skipRaised' = "no" =>
               /\ skipRaised = "no" /\ test' = test + 1
               /\ \/ phase' = "block"
                  \/ phase' = "teardownClass" /\ exc' = "abortClass"
      BY <1>3, <2>2 DEF Block, Typed, TypeOK
    <3>2. r.test = test
      OBVIOUS
    <3> HIDE DEF r
    <3>3. CASE skipRaised' = "no"
      <4>1. Len(classRecs') = test /\ \A i \in DOMAIN classRecs' : classRecs'[i].test = i
        BY <3>1, <3>2, <3>3, AppendInOrder
      <4> QED
        BY <3>1, <3>3, <4>1 DEF Typed, TypeOK
    <3>4. CASE skipRaised' # "no"
      BY <3>4
    <3> QED
      BY <3>3, <3>4
  <2> QED
    BY <2>1, <2>2
<1>4. ASSUME NEW hook \in HookOutcomes,
             OnPass(hook) \/ OnSkip(hook) \/ OnException(hook) \/ OnFail(hook)
      PROVE  Goal
  <2>1. \E label \in {"record", "onFail"} : AfterHook(hook, label)
    BY <1>4 DEF OnPass, OnSkip, OnException, OnFail
  <2>2. /\ phase \in Inside /\ phase' \in {"record", "onFail"}
        /\ UNCHANGED <<test, classRecs, skipRaised>>
    BY <1>4, <2>1 DEF AfterHook, classVars, OnPass, OnSkip, OnException, OnFail
  <2> QED
    BY <2>2
<1>5. CASE StartClass
  BY <1>5 DEF StartClass
<1>6. CASE Pick
  BY <1>6 DEF Pick, Typed, TypeOK, classVars
<1>7. CASE AddRecord
  <2> DEFINE r == [test |-> test, result |-> result, ran |-> ran]
  <2>1. /\ classRecs' = Append(classRecs, r) /\ test' = test + 1
        /\ phase = "record" /\ skipRaised' = skipRaised
        /\ phase' = "teardownClass" => exc' \in {"abortClass", "abortAll"}
        /\ phase' \in {"pick", "teardownClass"}
    BY <1>7 DEF AddRecord, classVars
  <2>2. r.test = test
    OBVIOUS
  <2> HIDE DEF r
  <2>3. CASE skipRaised = "no"
    <3>1. Len(classRecs') = test /\ \A i \in DOMAIN classRecs' : classRecs'[i].test = i
      BY <2>1, <2>2, <2>3, AppendInOrder
    <3> QED
      BY <2>1, <3>1 DEF Typed, TypeOK
  <2>4. CASE skipRaised # "no"
    BY <2>1, <2>4
  <2> QED
    BY <2>3, <2>4
<1>8. CASE ClassEnd \/ RunEnd \/ NextBed
  <2>1. phase' \in {"nextClass", "bedEnd", "done"}
    BY <1>8 DEF ClassEnd, RunEnd, NextBed, Return
  <2> QED
    BY <2>1
<1>9. CASE UNCHANGED vars
  BY <1>9 DEF vars, classVars, testVars, bedVars
<1> QED
  BY <1>1, <1>2, <1>3, <1>4, <1>5, <1>6, <1>7, <1>8, <1>9 DEF Next, UserCode

\* Whatever the tests, the set-ups, the teardowns and the on_* procedures raise, each
\* test of a class gets one record, in order; only an abort_class or abort_all cuts
\* the list short, and only on_skip while tests are blocked can repeat them.
THEOREM OneRecordPerTestHolds == Spec => []OneRecordPerTest
<1>1. Init => InOrder /\ Accounted
  BY DEF Init, InOrder, Accounted, InsideClass, Inside
<1>2. Typed /\ InOrder /\ Accounted => OneRecordPerTest
  BY SizeAssumption DEF InOrder, Accounted, InsideClass, OneRecordPerTest, Typed, TypeOK
<1> QED
  BY <1>1, <1>2, InOrderNext, TypedInvariant, PTL DEF Spec

------------------------------------------------------------------------------
(* Consecutive failures *)

LEMMA StreakIsFinite ==
    ASSUME NEW recs \in Seq(Record)
    PROVE  IsFiniteSet(Streak(recs)) /\ Cardinality(Streak(recs)) \in Nat
<1>1. Streak(recs) \subseteq 1..Len(recs) /\ Len(recs) \in Nat
  BY DEF Streak
<1>2. IsFiniteSet(1..Len(recs))
  BY <1>1, FS_Interval
<1> QED
  BY <1>1, <1>2, FS_Subset, FS_CardinalityType

\* What one more record does to the streak.
LEMMA StreakAppend ==
    ASSUME NEW recs \in Seq(Record), NEW r
    PROVE  /\ r.result = "PASS" => Cardinality(Streak(Append(recs, r))) = 0
           /\ r.result = "SKIP" => Streak(Append(recs, r)) = Streak(recs)
           /\ r.result \in {"FAIL", "ERROR"} =>
                Cardinality(Streak(Append(recs, r))) = Cardinality(Streak(recs)) + 1
<1> DEFINE more == Append(recs, r)
           n == Len(recs) + 1
<1>1. /\ DOMAIN recs = 1..Len(recs) /\ Len(recs) \in Nat /\ DOMAIN more = 1..n
      /\ Len(more) = n /\ more[n] = r
      /\ \A i \in 1..Len(recs) : more[i] = recs[i]
  OBVIOUS
<1> HIDE DEF more
<1>2. \A i \in 1..Len(recs) :
        i \in Streak(more) <=> i \in Streak(recs) /\ r.result # "PASS"
  BY <1>1 DEF Streak, Bad
<1>3. /\ n \in Streak(more) <=> r.result \in {"FAIL", "ERROR"}
      /\ n \notin Streak(recs)
      /\ Streak(more) \subseteq 1..n /\ Streak(recs) \subseteq 1..Len(recs)
  BY <1>1 DEF Streak, Bad
<1>4. 1..n = 1..Len(recs) \cup {n}
  BY <1>1
<1>5. CASE r.result = "PASS"
  <2>1. Streak(more) = {}
    BY <1>2, <1>3, <1>4, <1>5
  <2> QED
    BY <1>5, <2>1, FS_EmptySet DEF more
<1>6. CASE r.result = "SKIP"
  <2>1. Streak(more) = Streak(recs)
    BY <1>2, <1>3, <1>4, <1>6
  <2> QED
    BY <1>6, <2>1 DEF more
<1>7. CASE r.result \in {"FAIL", "ERROR"}
  <2>1. Streak(more) = Streak(recs) \cup {n}
    BY <1>2, <1>3, <1>4, <1>7
  <2>2. Cardinality(Streak(more)) = Cardinality(Streak(recs)) + 1
    BY <1>3, <2>1, StreakIsFinite, FS_AddElement
  <2> QED
    BY <1>7, <2>2 DEF more
<1> QED
  BY <1>5, <1>6, <1>7

\* Before the procedures of a test, the counter is the streak of the records; after
\* them, what the streak will be with the record that is about to be added.
Awaiting == {"pick", "setup", "body", "teardown", "post", "onFail"}
Counted ==
    ~hooked =>
      /\ phase = "setupClass" => classRecs = <<>>
      /\ phase \in Awaiting => consecutive = Cardinality(Streak(classRecs))
      /\ phase = "onFail" => result \in {"FAIL", "ERROR"}
      /\ phase = "record" =>
           consecutive = CASE result = "PASS" -> 0
                           [] result = "SKIP" -> Cardinality(Streak(classRecs))
                           [] OTHER           -> Cardinality(Streak(classRecs)) + 1

LEMMA CountedNext == Typed /\ Counted /\ [Next]_vars => Counted'
<1> SUFFICES ASSUME Typed, Counted, [Next]_vars PROVE Counted'
  OBVIOUS
<1> USE DEF Counted, Awaiting
<1>1. ASSUME NEW o \in Outcomes, SetupClass(o) \/ TeardownClass(o) PROVE Counted'
  <2>1. CASE SetupClass(o)
    <3>1. /\ phase' \in {"block", "pick", "teardownClass"}
          /\ UNCHANGED <<classRecs, consecutive, hooked>>
      BY <2>1 DEF SetupClass
    <3>2. ASSUME ~hooked PROVE consecutive = Cardinality(Streak(classRecs))
      <4>1. Streak(<<>>) = {}
        BY DEF Streak
      <4> QED
        BY <2>1, <3>2, <4>1, FS_EmptySet DEF SetupClass, Typed, Counters
    <3> QED
      BY <3>1, <3>2
  <2>2. CASE TeardownClass(o)
    BY <2>2 DEF TeardownClass
  <2> QED
    BY <1>1, <2>1, <2>2
<1>2. ASSUME NEW o \in Outcomes, SetupTest(o) \/ TestBody(o) \/ TeardownTest(o)
      PROVE  Counted'
  <2>1. /\ phase \in Awaiting /\ phase' \in {"body", "teardown", "post"}
        /\ UNCHANGED <<classRecs, consecutive, hooked>>
    BY <1>2 DEF SetupTest, TestBody, TeardownTest
  <2> QED
    BY <2>1
<1>3. ASSUME NEW hook \in HookOutcomes, Block(hook) PROVE Counted'
  <2>1. phase' \in {"block", "teardownClass", "classEnd"}
    BY <1>3 DEF Block
  <2> QED
    BY <2>1
<1>4. ASSUME NEW hook \in HookOutcomes,
             OnPass(hook) \/ OnSkip(hook) \/ OnException(hook) \/ OnFail(hook)
      PROVE  Counted'
  <2>1. CASE hook # "none"
    <3>1. hooked'
      BY <1>4, <2>1 DEF OnPass, OnSkip, OnException, OnFail, AfterHook
    <3> QED
      BY <3>1
  <2>2. CASE hook = "none"
    <3>1. ASSUME NEW label, AfterHook(hook, label)
          PROVE  phase' = label /\ UNCHANGED <<result, classRecs, hooked>>
      <4>1. hooked \in BOOLEAN
        BY DEF Typed, TypeOK
      <4> QED
        BY <2>2, <3>1, <4>1 DEF AfterHook
    <3>2. CASE OnPass(hook)
      <4>1. /\ result = "PASS" /\ consecutive' = 0 /\ phase' = "record"
            /\ UNCHANGED <<result, classRecs, hooked>>
        BY <3>1, <3>2 DEF OnPass
      <4> QED
        BY <4>1
    <3>3. CASE OnSkip(hook)
      <4>1. /\ result = "SKIP" /\ phase = "post" /\ phase' = "record"
            /\ UNCHANGED <<result, classRecs, hooked, consecutive>>
        BY <3>1, <3>3 DEF OnSkip
      <4> QED
        BY <4>1
    <3>4. CASE OnException(hook)
      <4>1. /\ result = "ERROR" /\ phase = "post" /\ phase' = "onFail"
            /\ UNCHANGED <<result, classRecs, hooked, consecutive>>
        BY <3>1, <3>4 DEF OnException
      <4> QED
        BY <4>1
    <3>5. CASE OnFail(hook)
      <4>1. /\ phase = "onFail" \/ (phase = "post" /\ result = "FAIL")
            /\ phase' = "record" /\ consecutive' = consecutive + 1
            /\ UNCHANGED <<result, classRecs, hooked>>
        BY <3>1, <3>5 DEF OnFail
      <4> QED
        BY <4>1
    <3> QED
      BY <1>4, <3>2, <3>3, <3>4, <3>5
  <2> QED
    BY <2>1, <2>2
<1>5. CASE StartClass
  BY <1>5 DEF StartClass
<1>6. CASE Pick
  BY <1>6 DEF Pick
<1>7. CASE AddRecord
  <2> DEFINE r == [test |-> test, result |-> result, ran |-> ran]
  <2>1. /\ classRecs' = Append(classRecs, r) /\ classRecs \in Seq(Record)
        /\ phase = "record" /\ phase' \in {"pick", "teardownClass"}
        /\ UNCHANGED <<hooked, consecutive>>
        /\ result \in {"PASS", "FAIL", "SKIP", "ERROR"}
    BY <1>7 DEF AddRecord, Typed, TypeOK, Results
  <2>2. r.result = result
    OBVIOUS
  <2> HIDE DEF r
  <2>3. ASSUME ~hooked PROVE consecutive = Cardinality(Streak(Append(classRecs, r)))
    BY <2>1, <2>2, <2>3, StreakAppend
  <2> QED
    BY <2>1, <2>3
<1>8. CASE ClassEnd \/ RunEnd \/ NextBed
  <2>1. phase' \in {"nextClass", "bedEnd", "done"}
    BY <1>8 DEF ClassEnd, RunEnd, NextBed, Return
  <2> QED
    BY <2>1
<1>9. CASE UNCHANGED vars
  BY <1>9 DEF vars, classVars, testVars, bedVars
<1> QED
  BY <1>1, <1>2, <1>3, <1>4, <1>5, <1>6, <1>7, <1>8, <1>9 DEF Next, UserCode

\* Between two tests the counter of consecutive failures is what the records say,
\* for any number of tests and any limit, unless an on_* procedure raised.
THEOREM CounterTracksRecordsHolds == Spec => []CounterTracksRecords
<1>1. Init => Counted
  BY DEF Init, Counted, Awaiting
<1>2. Counted => CounterTracksRecords
  BY DEF Counted, Awaiting, CounterTracksRecords
<1> QED
  BY <1>1, <1>2, CountedNext, TypedInvariant, PTL DEF Spec

------------------------------------------------------------------------------
(* The exit status *)

\* The verdict of act.py so far is the one that the ends of the beds call for.
Verdict ==
    /\ ends \in Seq(BedEnds) /\ ok \in Verdicts
    /\ ok = "True"  <=> \A b \in DOMAIN ends : ends[b] \in {"passed", "aborted"}
    /\ ok = "False" <=> \E b \in DOMAIN ends : Fails(b)

\* The value a bed returns for each way it may end.
VerdictOf(how) ==
    CASE how = "failed" -> "False" [] how = "crashed" -> "None" [] OTHER -> "True"

\* One more bed ends, and its value is and-ed to the verdict.
LEMMA OneMoreBed ==
    ASSUME Verdict, NEW how \in BedEnds, Ends(how), ok' = PyAnd(ok, VerdictOf(how))
    PROVE  Verdict'
<1> DEFINE n == Len(ends) + 1
           clean == \A b \in DOMAIN ends : ends[b] \in {"passed", "aborted"}
           lost  == \E b \in DOMAIN ends : Fails(b)
           fails(b) == ends'[b] = "failed" /\ \A a \in 1..(b - 1) : ends'[a] # "crashed"
<1>1. /\ DOMAIN ends = 1..Len(ends) /\ Len(ends) \in Nat
      /\ ends' \in Seq(BedEnds) /\ DOMAIN ends' = 1..n
      /\ ends'[n] = how /\ \A b \in 1..Len(ends) : ends'[b] = ends[b]
      /\ \A b \in 1..Len(ends) : ends[b] \in BedEnds
  BY DEF Verdict, Ends
<1>2. /\ ok \in {"True", "False", "None"}
      /\ ok = "True" <=> clean
      /\ ok = "False" <=> lost
  BY DEF Verdict, Verdicts
<1>3. how \in {"passed", "failed", "aborted", "crashed"}
  BY DEF BedEnds
<1>4. 1..n = 1..Len(ends) \cup {n}
  BY <1>1
<1>5. (\A b \in DOMAIN ends' : ends'[b] \in {"passed", "aborted"})
        <=> clean /\ how \in {"passed", "aborted"}
  BY <1>1, <1>4
<1>6. \A b \in 1..Len(ends) : fails(b) <=> Fails(b)
  <2>1. ASSUME NEW b \in 1..Len(ends) PROVE fails(b) <=> Fails(b)
    <3>1. 1..(b - 1) \subseteq 1..Len(ends)
      BY <1>1
    <3> QED
      BY <1>1, <3>1 DEF Fails
  <2> QED
    BY <2>1
<1>7. fails(n) <=> how = "failed" /\ \A a \in 1..Len(ends) : ends[a] # "crashed"
  <2>1. 1..(n - 1) = 1..Len(ends)
    BY <1>1
  <2> QED
    BY <1>1, <2>1
<1>8. (\E b \in DOMAIN ends' : Fails(b)') <=> lost \/ fails(n)
  <2>1. (\E b \in DOMAIN ends' : fails(b)) <=> lost \/ fails(n)
    BY <1>1, <1>4, <1>6
  <2> QED
    BY <2>1 DEF Fails
<1>9. ok' \in Verdicts /\ ok' = (IF ok = "True" THEN VerdictOf(how) ELSE ok)
  BY <1>2, <1>3 DEF PyAnd, VerdictOf, Verdicts
\* The first bed of all that did not pass decides.
<1>10. ~clean /\ ~lost => ~fails(n)
  <2>1. SUFFICES ASSUME ~clean, \A a \in 1..Len(ends) : ends[a] # "crashed" PROVE lost
    BY <1>7
  <2>2. PICK b \in 1..Len(ends) : ends[b] \notin {"passed", "aborted"}
    BY <1>1, <2>1
  <2>3. ends[b] = "failed"
    BY <1>1, <2>1, <2>2 DEF BedEnds
  <2>4. 1..(b - 1) \subseteq 1..Len(ends)
    BY <1>1
  <2> QED
    BY <1>1, <2>1, <2>3, <2>4 DEF Fails
<1>11. clean /\ how = "failed" => fails(n)
  BY <1>1, <1>7
<1>12. how # "failed" => ~fails(n)
  BY <1>7
<1> HIDE DEF clean, lost, n, fails
<1>13. ok' = "True" <=> clean /\ how \in {"passed", "aborted"}
  BY <1>2, <1>3, <1>9 DEF VerdictOf
<1>14. ok' = "False" <=> lost \/ fails(n)
  BY <1>2, <1>3, <1>9, <1>10, <1>11, <1>12 DEF VerdictOf
<1> QED
  BY <1>1, <1>5, <1>8, <1>9, <1>13, <1>14 DEF Verdict

LEMMA VerdictNext == Verdict /\ [Next]_vars => Verdict'
<1> SUFFICES ASSUME Verdict, [Next]_vars PROVE Verdict'
  OBVIOUS
<1>1. ASSUME UNCHANGED <<ok, ends>> PROVE Verdict'
  BY <1>1 DEF Verdict, Fails
<1>2. CASE UserCode \/ StartClass \/ Pick \/ AddRecord
  <2>1. UNCHANGED <<ok, ends>>
    BY <1>2 DEF UserCode, SetupClass, SetupTest, TestBody, TeardownTest, TeardownClass,
                Block, OnPass, OnSkip, OnException, OnFail, AfterHook,
                StartClass, Pick, AddRecord, bedVars
  <2> QED
    BY <1>1, <2>1
<1>3. CASE ClassEnd
  <2>1. CASE exc = "abortAll"
    <3>1. Ends("aborted") /\ ok' = PyAnd(ok, VerdictOf("aborted"))
      BY <1>3, <2>1 DEF ClassEnd, Return, VerdictOf
    <3> QED
      BY <3>1, OneMoreBed DEF BedEnds
  <2>2. CASE exc \in {"bareAbort", "crash"}
    <3>1. Ends("crashed") /\ ok' = PyAnd(ok, VerdictOf("crashed"))
      BY <1>3, <2>2 DEF ClassEnd, Return, VerdictOf
    <3> QED
      BY <3>1, OneMoreBed DEF BedEnds
  <2>3. CASE exc \notin {"abortAll", "bareAbort", "crash"}
    BY <1>1, <1>3, <2>3 DEF ClassEnd
  <2> QED
    BY <2>1, <2>2, <2>3
<1>4. CASE RunEnd
  <2>1. CASE AllPass(runRecs) /\ ~runError
    <3>1. Ends("passed") /\ ok' = PyAnd(ok, VerdictOf("passed"))
      BY <1>4, <2>1 DEF RunEnd, Return, VerdictOf, AllPass
    <3> QED
      BY <3>1, OneMoreBed DEF BedEnds
  <2>2. CASE ~(AllPass(runRecs) /\ ~runError)
    <3>1. Ends("failed") /\ ok' = PyAnd(ok, VerdictOf("failed"))
      BY <1>4, <2>2 DEF RunEnd, Return, VerdictOf, AllPass
    <3> QED
      BY <3>1, OneMoreBed DEF BedEnds
  <2> QED
    BY <2>1, <2>2
<1>5. CASE NextBed
  BY <1>1, <1>5 DEF NextBed
<1>6. CASE UNCHANGED vars
  BY <1>1, <1>6 DEF vars, bedVars
<1> QED
  BY <1>2, <1>3, <1>4, <1>5, <1>6 DEF Next

\* For any number of beds, act.py exits with 1 exactly when a bed got to its end
\* with a failure and no bed before it crashed; aborted beds count as passed.
THEOREM FailedBedFailsRunHolds == Spec => []FailedBedFailsRun
<1>1. Init => Verdict
  BY DEF Init, Verdict, Verdicts
<1>2. Verdict => FailedBedFailsRun
  BY DEF Verdict, FailedBedFailsRun, ExitStatus
<1> QED
  BY <1>1, <1>2, VerdictNext, PTL DEF Spec

------------------------------------------------------------------------------
(* The stack of contexts and the log files *)

\* Every variable of the run, the stack and the streams.
allVars == <<vars, contextVars, logVars>>

Paths   == Seq(Nat)
Levels  == {ROOT, TESTCLASS, TESTCASE}
Handler == [level : Levels, moved : BOOLEAN, dir : Paths]

Types ==
    /\ bed \in Nat /\ cls \in Nat /\ test \in Nat
    /\ begun \in BOOLEAN /\ missed \in Nat /\ left \in Nat
    /\ contexts \in Seq(Paths)
    /\ handlers \in [Streams -> Seq(Handler)]

\* Every context was pushed and popped.
Intact == missed = 0 /\ left = 0

------------------------------------------------------------------------------
(* What a step does to the place in the run and to the stack *)

Place == <<bed, cls, test>>
Around == {"block", "pick", "teardownClass"}
Popped(s) == IF s = <<>> THEN <<>> ELSE SubSeq(s, 1, Len(s) - 1)

\* Within a test, within a class, or outside of both.
Stays ==
    /\ UNCHANGED contextVars
    /\ \/ UNCHANGED <<Place, phase>>
       \/ phase \in Inside /\ phase' \in Inside /\ UNCHANGED Place
       \/ /\ phase \in Around \/ (phase = "setupClass" /\ begun)
          /\ phase' \in Around /\ UNCHANGED <<bed, cls>>
       \/ /\ phase \in {"classEnd", "nextClass", "bedEnd"}
          /\ phase' \in {"nextClass", "bedEnd", "done"}
NewClassBegins ==
    /\ phase = "nextClass" /\ phase' = "setupClass" /\ ~begun'
    /\ UNCHANGED <<bed, cls, contexts, missed, left>>
EntersClass ==
    /\ phase = "setupClass" /\ ~begun /\ phase' = "setupClass" /\ begun'
    /\ Push(ThisClass) /\ UNCHANGED Place
LeavesClass ==
    /\ phase = "teardownClass" /\ phase' = "classEnd"
    /\ Pop
EntersTest ==
    /\ phase = "pick" /\ phase' = "setup"
    /\ Push(ThisTest) /\ UNCHANGED Place
LeavesTest ==
    /\ phase = "record" /\ phase' \in {"pick", "teardownClass"}
    /\ Pop /\ UNCHANGED <<bed, cls>>
\* A context was not pushed or not popped, and no test is running.
Loses ==
    /\ phase' \in Around \cup {"classEnd"}
    /\ \/ missed' = missed + 1 /\ left' = left
       \/ missed' = missed /\ left' = left + 1
    /\ contexts' = contexts \/ contexts' = Append(contexts, ThisTest)

Moves == Stays \/ NewClassBegins \/ EntersClass \/ LeavesClass \/ EntersTest
         \/ LeavesTest \/ Loses

Counts == bed' \in Nat /\ cls' \in Nat /\ test' \in Nat /\ begun' \in BOOLEAN

LEMMA HooksMove ==
    ASSUME NEW hook \in HookOutcomes,
           OnPass(hook) \/ OnSkip(hook) \/ OnException(hook) \/ OnFail(hook)
    PROVE  phase \in Inside /\ phase' \in Inside /\ UNCHANGED Place
<1>1. phase \in Inside /\ \E label \in {"record", "onFail"} : AfterHook(hook, label)
  BY DEF OnPass, OnSkip, OnException, OnFail, Inside
<1>2. phase' \in {"record", "onFail"} /\ UNCHANGED Place
  BY <1>1 DEF AfterHook, bedVars, classVars, Place
<1> QED
  BY <1>1, <1>2 DEF Inside

LEMMA OthersMove ==
    ASSUME Types, OtherStep, UNCHANGED contextVars
    PROVE  Stays /\ Counts
<1> USE DEF Types, contextVars, Place, Counts
<1>1. ASSUME NEW o \in Outcomes, SetupTest(o) \/ TestBody(o) \/ TeardownTest(o)
      PROVE  Stays /\ Counts
  <2>1. phase \in Inside /\ phase' \in Inside /\ UNCHANGED Place
    BY <1>1 DEF SetupTest, TestBody, TeardownTest, bedVars, classVars, Inside
  <2> QED
    BY <2>1 DEF Stays
<1>2. ASSUME NEW hook \in HookOutcomes,
             OnPass(hook) \/ OnSkip(hook) \/ OnException(hook) \/ OnFail(hook)
      PROVE  Stays /\ Counts
  BY <1>2, HooksMove DEF Stays
<1>3. CASE ClassEnd
  <2>1. phase = "classEnd" /\ phase' \in {"nextClass", "bedEnd"}
        /\ bed' = bed /\ test' = test /\ cls' \in {cls, cls + 1}
    BY <1>3 DEF ClassEnd, Return
  <2> QED
    BY <2>1 DEF Stays
<1>4. CASE RunEnd
  <2>1. phase = "nextClass" /\ phase' = "bedEnd" /\ UNCHANGED Place
    BY <1>4 DEF RunEnd, Return, classVars
  <2> QED
    BY <2>1 DEF Stays
<1> QED
  BY <1>1, <1>2, <1>3, <1>4 DEF OtherStep

LEMMA ClassesMove ==
    ASSUME Types, NEW o \in Outcomes, NEW hook \in HookOutcomes,
           \/ NewClass \/ BeginClass \/ BeginClassRaises \/ SetupClassC(o)
           \/ TeardownClassC(o) \/ BlockC(hook)
    PROVE  Moves /\ Counts
<1> USE DEF Types, Place, Counts, bedVars, classVars, Leaks
<1>1. CASE NewClass
  BY <1>1 DEF NewClass, StartClass, Moves, NewClassBegins
<1>2. CASE BeginClass
  BY <1>2 DEF BeginClass, Moves, EntersClass, vars, Push
<1>3. CASE BeginClassRaises
  <2>1. phase' = "block" /\ UNCHANGED <<Place, contexts, left>> /\ missed' = missed + 1
        /\ begun'
    BY <1>3 DEF BeginClassRaises, SetupClass
  <2> QED
    BY <2>1 DEF Moves, Loses, Around
<1>4. CASE SetupClassC(o)
  <2>1. /\ phase = "setupClass" /\ begun /\ phase' \in {"block", "pick", "teardownClass"}
        /\ UNCHANGED Place /\ UNCHANGED contextVars
    BY <1>4 DEF SetupClassC, SetupClass
  <2> QED
    BY <2>1 DEF Moves, Stays, Around, contextVars
<1>5. CASE TeardownClassC(o)
  <2>1. /\ phase = "teardownClass" /\ phase' = "classEnd" /\ UNCHANGED Place
        /\ begun' = begun /\ (Pop \/ Leaks)
    BY <1>5 DEF TeardownClassC, TeardownClass
  <2>2. CASE Pop
    BY <2>1, <2>2 DEF Moves, LeavesClass
  <2>3. CASE Leaks
    BY <2>1, <2>3 DEF Moves, Loses
  <2> QED
    BY <2>1, <2>2, <2>3
<1>6. CASE BlockC(hook)
  <2>1. /\ phase = "block" /\ phase' \in {"block", "teardownClass", "classEnd"}
        /\ UNCHANGED <<bed, cls>> /\ test' \in {1, test, test + 1} /\ begun' = begun
        /\ phase' = "classEnd" => Leaks
        /\ phase' # "classEnd" => UNCHANGED <<contexts, missed, left>>
    BY <1>6 DEF BlockC, Block
  <2> QED
    BY <2>1 DEF Moves, Stays, Loses, Around, contextVars
<1> QED
  BY <1>1, <1>2, <1>3, <1>4, <1>5, <1>6

LEMMA TestsMove ==
    ASSUME Types, PickC \/ BeginTestRaises \/ EndTest \/ EndTestRaises
    PROVE  Moves /\ Counts
<1> USE DEF Types, Place, Counts, bedVars, classVars
<1>1. CASE PickC
  <2>1. /\ phase = "pick" /\ phase' \in {"setup", "teardownClass"} /\ UNCHANGED Place
        /\ begun' = begun
        /\ phase' = "setup" => Push(ThisTest)
        /\ phase' # "setup" => UNCHANGED <<contexts, missed, left>>
    BY <1>1 DEF PickC, Pick
  <2> QED
    BY <2>1 DEF Moves, EntersTest, Stays, Around, contextVars
<1>2. CASE BeginTestRaises
  BY <1>2 DEF BeginTestRaises, Escapes, Moves, Loses, Around
<1>3. CASE EndTest
  <2>1. /\ phase = "record" /\ phase' \in {"pick", "teardownClass"}
        /\ UNCHANGED <<bed, cls, begun>> /\ test' = test + 1 /\ Pop
    BY <1>3 DEF EndTest, AddRecord
  <2> QED
    BY <2>1 DEF Moves, LeavesTest
<1>4. CASE EndTestRaises
  BY <1>4 DEF EndTestRaises, Escapes, Leaks, Moves, Loses, Around
<1> QED
  BY <1>1, <1>2, <1>3, <1>4

LEMMA BedsMove ==
    ASSUME Types, NextBedC \/ NoNextBed
    PROVE  Stays /\ Counts /\ phase = "bedEnd"
<1> USE DEF Types, Place, Counts, contextVars
<1>1. CASE NextBedC
  <2>1. /\ phase = "bedEnd" /\ phase' \in {"nextClass", "done"}
        /\ bed' \in {bed, bed + 1} /\ cls' \in {1, cls} /\ test' = test
    BY <1>1 DEF NextBedC, NextBed
  <2> QED
    BY <1>1, <2>1 DEF NextBedC, Stays
<1>2. CASE NoNextBed
  BY <1>2 DEF NoNextBed, Stays, classVars
<1> QED
  BY <1>1, <1>2

\* Every step of the run is one of the moves.
LEMMA EveryStepMoves == Types /\ [LNext]_allVars => Moves /\ Counts
<1> SUFFICES ASSUME Types, [LNext]_allVars PROVE Moves /\ Counts
  OBVIOUS
<1>0. "none" \in Outcomes /\ "none" \in HookOutcomes
  BY DEF Outcomes, HookOutcomes
<1>1. CASE ClassContextStep
  BY <1>0, <1>1, ClassesMove DEF ClassContextStep
<1>2. CASE TestContextStep
  BY <1>2, TestsMove DEF TestContextStep
<1>3. CASE RunnerStep
  BY <1>0, <1>3, ClassesMove, BedsMove, OthersMove DEF RunnerStep, Moves
<1>4. CASE UNCHANGED <<vars, contextVars>>
  BY <1>4 DEF vars, contextVars, bedVars, classVars, Moves, Stays, Place, Types, Counts
<1> QED
  BY <1>1, <1>2, <1>3, <1>4 DEF LNext, CreateLogger, allVars

------------------------------------------------------------------------------
(* The stack *)

\* Where the run is, as a stack.
Where == IF InTest THEN <<Root, ThisClass, ThisTest>>
         ELSE IF InClass THEN <<Root, ThisClass>> ELSE <<Root>>
StackInv ==
    /\ InTest => contexts # <<>> /\ contexts[Len(contexts)] = ThisTest
    /\ Intact => contexts = Where

LEMMA Pushed ==
    ASSUME NEW S, NEW s \in Seq(S), NEW e \in S
    PROVE  /\ Append(s, e) \in Seq(S) /\ Append(s, e) # <<>>
           /\ Len(Append(s, e)) = Len(s) + 1
           /\ Append(s, e)[Len(s) + 1] = e
           /\ \A i \in 1..Len(s) : Append(s, e)[i] = s[i]
OBVIOUS

LEMMA PoppedType == ASSUME NEW S, NEW s \in Seq(S) PROVE Popped(s) \in Seq(S)
<1>1. CASE s = <<>>
  BY <1>1 DEF Popped
<1>2. CASE s # <<>>
  <2>1. Len(s) \in Nat /\ Len(s) # 0
    BY <1>2, EmptySeq
  <2> QED
    BY <1>2, <2>1, SubSeqProperties DEF Popped
<1> QED
  BY <1>1, <1>2

\* Short sequences are tuples.
LEMMA Tuples ==
    ASSUME NEW S, NEW s \in Seq(S)
    PROVE  /\ Len(s) = 1 => s = <<s[1]>>
           /\ Len(s) = 2 => s = <<s[1], s[2]>>
           /\ Len(s) = 3 => s = <<s[1], s[2], s[3]>>
OBVIOUS

LEMMA PoppedTuples ==
    ASSUME NEW a, NEW b, NEW c
    PROVE  Popped(<<a, b>>) = <<a>> /\ Popped(<<a, b, c>>) = <<a, b>>
<1> DEFINE S == {a, b, c}
           two == <<a, b>>
           three == <<a, b, c>>
<1>1. /\ two \in Seq(S) /\ Len(two) = 2 /\ two[1] = a /\ two[2] = b /\ two # <<>>
      /\ three \in Seq(S) /\ Len(three) = 3 /\ three[1] = a /\ three[2] = b
      /\ three # <<>>
  OBVIOUS
<1> HIDE DEF S, two, three
<1>2. Popped(two) = <<a>>
  <2>1. Popped(two) \in Seq(S) /\ Len(Popped(two)) = 1 /\ Popped(two)[1] = a
    BY <1>1, SubSeqProperties DEF Popped
  <2> QED
    BY <2>1, Tuples
<1>3. Popped(three) = <<a, b>>
  <2>1. /\ Popped(three) \in Seq(S) /\ Len(Popped(three)) = 2
        /\ Popped(three)[1] = a /\ Popped(three)[2] = b
    BY <1>1, SubSeqProperties DEF Popped
  <2> QED
    BY <2>1, Tuples
<1> QED
  BY <1>2, <1>3 DEF two, three

LEMMA PushedTuples ==
    ASSUME NEW S, NEW s \in Seq(S), NEW e \in S
    PROVE  /\ Len(s) = 1 => Append(s, e) = <<s[1], e>>
           /\ Len(s) = 2 => Append(s, e) = <<s[1], s[2], e>>
<1> DEFINE more == Append(s, e)
<1>1. /\ more \in Seq(S) /\ Len(more) = Len(s) + 1 /\ more[Len(s) + 1] = e
      /\ \A i \in 1..Len(s) : more[i] = s[i]
  BY Pushed
<1> HIDE DEF more
<1>2. ASSUME Len(s) = 1 PROVE more = <<s[1], e>>
  <2>1. Len(more) = 2 /\ more[1] = s[1] /\ more[2] = e
    BY <1>1, <1>2
  <2> QED
    BY <1>1, <2>1, Tuples
<1>3. ASSUME Len(s) = 2 PROVE more = <<s[1], s[2], e>>
  <2>1. Len(more) = 3 /\ more[1] = s[1] /\ more[2] = s[2] /\ more[3] = e
    BY <1>1, <1>3
  <2> QED
    BY <1>1, <2>1, Tuples
<1> QED
  BY <1>2, <1>3 DEF more

LEMMA PathTypes ==
    ASSUME Types
    PROVE  Root \in Paths /\ ThisClass \in Paths /\ ThisTest \in Paths
BY DEF Types, Root, ThisClass, ThisTest, Paths

\* What is lost is not found again.
LEMMA IntactBefore == ASSUME Types, Moves, Intact' PROVE Intact /\ ~Loses
BY DEF Types, Moves, Intact, Stays, NewClassBegins, EntersClass, LeavesClass,
       EntersTest, LeavesTest, Loses, Push, Pop, contextVars

LEMMA StackKept == ASSUME Types, StackInv, Moves PROVE StackInv'
<1> USE DEF StackInv, Intact
<1> DEFINE Outside == phase \notin Inside \cup Around
                      /\ ~(phase = "setupClass" /\ begun)
<1>0. /\ InTest <=> phase \in Inside
      /\ (InTest <=> phase \in Inside)'
      /\ InClass <=> ~Outside
      /\ (InClass <=> ~Outside)'
  BY DEF InTest, InClass, Inside, Around
<1>1. CASE Stays
  <2>1. InTest' => InTest /\ UNCHANGED <<ThisTest, contexts>>
    BY <1>0, <1>1 DEF Stays, ThisTest, Place, contextVars, Inside, Around
  <2>2. UNCHANGED Where
    <3>1. CASE UNCHANGED <<Place, phase>>
      BY <1>1, <3>1 DEF Stays, Where, InTest, InClass, ThisTest, ThisClass, Place,
                        contextVars
    <3>2. CASE phase \in Inside /\ phase' \in Inside /\ UNCHANGED Place
      BY <1>0, <3>2 DEF Where, ThisTest, ThisClass, Place
    <3>3. CASE /\ phase \in Around \/ (phase = "setupClass" /\ begun)
               /\ phase' \in Around /\ UNCHANGED <<bed, cls>>
      <4>1. ~InTest /\ ~InTest' /\ InClass /\ InClass'
        BY <1>0, <3>3 DEF Inside, Around
      <4> QED
        BY <3>3, <4>1 DEF Where, ThisClass
    <3>4. CASE /\ phase \in {"classEnd", "nextClass", "bedEnd"}
               /\ phase' \in {"nextClass", "bedEnd", "done"}
      <4>1. ~InTest /\ ~InTest' /\ ~InClass /\ ~InClass'
        BY <1>0, <3>4 DEF Inside, Around
      <4> QED
        BY <4>1 DEF Where
    <3> QED
      BY <1>1, <3>1, <3>2, <3>3, <3>4 DEF Stays
  <2> QED
    BY <1>1, <2>1, <2>2 DEF Stays, contextVars
<1>2. CASE NewClassBegins
  <2>1. ~InTest /\ ~InTest' /\ ~InClass /\ ~InClass'
    BY <1>0, <1>2 DEF NewClassBegins, Inside, Around
  <2> QED
    BY <1>2, <2>1 DEF NewClassBegins, Where
<1>3. CASE EntersClass
  <2>1. ~InTest /\ ~InTest' /\ ~InClass /\ InClass' /\ UNCHANGED ThisClass
    BY <1>0, <1>3 DEF EntersClass, Inside, Around, ThisClass, Place
  <2>2. contexts' = Append(contexts, ThisClass) /\ UNCHANGED <<missed, left>>
    BY <1>3 DEF EntersClass, Push
  <2>3. ASSUME Intact' PROVE contexts' = <<Root, ThisClass>>
    <3>1. contexts = <<Root>>
      BY <2>1, <2>2, <2>3 DEF Where
    <3>2. Len(contexts) = 1 /\ contexts[1] = Root
      BY <3>1
    <3> QED
      BY <2>2, <3>2, PathTypes, PushedTuples DEF Types
  <2> QED
    BY <2>1, <2>3 DEF Where
<1>4. CASE LeavesClass
  <2>1. ~InTest /\ ~InTest' /\ InClass /\ ~InClass'
    BY <1>0, <1>4 DEF LeavesClass, Inside, Around
  <2>2. contexts' = Popped(contexts) /\ UNCHANGED <<missed, left>>
    BY <1>4 DEF LeavesClass, Pop, Popped
  <2> QED
    BY <2>1, <2>2, PoppedTuples DEF Where
<1>5. CASE EntersTest
  <2>1. ~InTest /\ InTest' /\ InClass /\ UNCHANGED <<ThisClass, ThisTest>>
    BY <1>0, <1>5 DEF EntersTest, Inside, Around, ThisClass, ThisTest, Place
  <2>2. contexts' = Append(contexts, ThisTest) /\ UNCHANGED <<missed, left>>
    BY <1>5 DEF EntersTest, Push
  <2>3. contexts' # <<>> /\ contexts'[Len(contexts')] = ThisTest
    BY <2>2, PathTypes, Pushed DEF Types
  <2>4. ASSUME Intact' PROVE contexts' = <<Root, ThisClass, ThisTest>>
    <3>1. contexts = <<Root, ThisClass>>
      BY <2>1, <2>2, <2>4 DEF Where
    <3>2. Len(contexts) = 2 /\ contexts[1] = Root /\ contexts[2] = ThisClass
      BY <3>1
    <3> QED
      BY <2>2, <3>2, PathTypes, PushedTuples DEF Types
  <2> QED
    BY <2>1, <2>3, <2>4 DEF Where
<1>6. CASE LeavesTest
  <2>1. InTest /\ ~InTest' /\ InClass' /\ UNCHANGED ThisClass
    BY <1>0, <1>6 DEF LeavesTest, Inside, Around, ThisClass
  <2>2. contexts' = Popped(contexts) /\ UNCHANGED <<missed, left>>
    BY <1>6 DEF LeavesTest, Pop, Popped
  <2> QED
    BY <2>1, <2>2, PoppedTuples DEF Where
<1>7. CASE Loses
  <2>1. ~InTest'
    BY <1>0, <1>7 DEF Loses, Inside, Around
  <2>2. ~Intact'
    BY <1>7, IntactBefore
  <2> QED
    BY <2>1, <2>2
<1> QED
  BY <1>1, <1>2, <1>3, <1>4, <1>5, <1>6, <1>7 DEF Moves

------------------------------------------------------------------------------
(* What a step does to the handlers *)

Untouched ==
    /\ UNCHANGED <<handlers, contexts>>
    /\ phase' = "bedEnd" => phase = "bedEnd"
\* A NewContextEvent of the class or of the test is posted.
Follows(levels) ==
    /\ Update(levels)
    /\ phase' # "bedEnd"
    /\ \/ levels = {TESTCLASS, TESTCASE} /\ (EntersClass \/ LeavesClass)
       \/ levels = {TESTCASE} /\ (EntersTest \/ LeavesTest \/ Loses)
TestLogCloses ==
    /\ handlers' = [handlers EXCEPT ![TestLog] = <<>>]
    /\ UNCHANGED contexts
IsMade(s) ==
    /\ contexts # <<>> /\ UNCHANGED contexts
    /\ handlers' = [handlers EXCEPT ![s] = CleanedUp(s) \o NewHandlers(s, contexts)]
    /\ phase' # "bedEnd"
    /\ s = TestLog => phase = "bedEnd"

Effect ==
    \/ Untouched
    \/ \E levels \in SUBSET Levels : Follows(levels)
    \/ TestLogCloses
    \/ \E s \in Streams : IsMade(s)

LEMMA ClassEffect == ASSUME Types, ClassContextStep PROVE Effect
<1>1. CASE BeginClass
  <2>1. EntersClass /\ left' = left
    BY <1>1 DEF BeginClass, EntersClass, vars, bedVars, classVars, Place, Types, Push
  <2>2. Update({TESTCLASS, TESTCASE})
    BY <2>1, ClassContextStep DEF ClassContextStep
  <2> QED
    BY <2>1, <2>2 DEF Effect, Follows, EntersClass, Levels
<1>2. ASSUME NEW o \in Outcomes, TeardownClassC(o) PROVE Effect
  <2>1. /\ phase = "teardownClass" /\ phase' = "classEnd"
        /\ Pop \/ (left' = left + 1 /\ contexts' = contexts)
    BY <1>2 DEF TeardownClassC, TeardownClass, Leaks
  <2>2. CASE left' = left
    <3>1. Pop
      BY <2>1, <2>2 DEF Types
    <3>2. Update({TESTCLASS, TESTCASE})
      BY <2>2, ClassContextStep DEF ClassContextStep
    <3> QED
      BY <2>1, <3>1, <3>2 DEF Effect, Follows, LeavesClass, Levels
  <2>3. CASE left' # left
    <3>1. UNCHANGED <<handlers, contexts>>
      BY <2>1, <2>3, ClassContextStep DEF ClassContextStep, Pop
    <3> QED
      BY <2>1, <3>1 DEF Effect, Untouched
  <2> QED
    BY <2>2, <2>3
<1> QED
  BY <1>1, <1>2 DEF ClassContextStep

LEMMA TestEffect == ASSUME Types, TestContextStep PROVE Effect
<1>1. \/ /\ phase' # "bedEnd"
         /\ EntersTest \/ LeavesTest \/ Loses
      \/ contexts' = contexts /\ phase' # "bedEnd"
  <2>1. CASE PickC
    <3>1. /\ phase = "pick" /\ phase' \in {"setup", "teardownClass"}
          /\ UNCHANGED Place
          /\ IF phase' = "setup" THEN Push(ThisTest) ELSE contexts' = contexts
      BY <2>1 DEF PickC, Pick, bedVars, classVars, Place
    <3> QED
      BY <3>1 DEF EntersTest
  <2>2. CASE BeginTestRaises
    BY <2>2 DEF BeginTestRaises, Escapes, Loses, Around, Types
  <2>3. CASE EndTest
    <3>1. /\ phase = "record" /\ phase' \in {"pick", "teardownClass"}
          /\ UNCHANGED <<bed, cls>> /\ Pop
      BY <2>3 DEF EndTest, AddRecord, bedVars, classVars
    <3> QED
      BY <3>1 DEF LeavesTest
  <2>4. CASE EndTestRaises
    BY <2>4 DEF EndTestRaises, Escapes, Leaks
  <2> QED
    BY <2>1, <2>2, <2>3, <2>4, TestContextStep DEF TestContextStep
<1>2. CASE contexts' = contexts
  BY <1>1, <1>2, TestContextStep
     DEF TestContextStep, Effect, Untouched, EntersTest, LeavesTest, Loses, Around
<1>3. CASE contexts' # contexts
  <2>1. Update({TESTCASE})
    BY <1>3, TestContextStep DEF TestContextStep
  <2> QED
    BY <1>1, <1>3, <2>1 DEF Effect, Follows, Levels
<1> QED
  BY <1>2, <1>3

LEMMA RunnerEffect == ASSUME Types, RunnerStep PROVE Effect
<1>1. CASE OtherStep /\ UNCHANGED contextVars /\ Stop
  BY <1>1 DEF Stop, Effect, TestLogCloses, Untouched, contextVars
<1>2. CASE NewClass /\ UNCHANGED handlers
  BY <1>2 DEF NewClass, StartClass, Effect, Untouched
<1>3. CASE BeginClassRaises /\ UNCHANGED handlers
  <2>1. phase' = "block" /\ UNCHANGED contexts
    BY <1>3 DEF BeginClassRaises, SetupClass
  <2> QED
    BY <1>3, <2>1 DEF Effect, Untouched
<1>4. ASSUME NEW o \in Outcomes, SetupClassC(o), UNCHANGED handlers PROVE Effect
  <2>1. phase' \in {"block", "pick", "teardownClass"}
    BY <1>4 DEF SetupClassC, SetupClass
  <2> QED
    BY <1>4, <2>1 DEF SetupClassC, contextVars, Effect, Untouched
<1>5. ASSUME NEW hook \in HookOutcomes, BlockC(hook), UNCHANGED handlers PROVE Effect
  <2>1. phase' \in {"block", "teardownClass", "classEnd"} /\ UNCHANGED contexts
    BY <1>5 DEF BlockC, Block, Leaks
  <2> QED
    BY <1>5, <2>1 DEF Effect, Untouched
<1>6. CASE NoNextBed /\ UNCHANGED handlers
  BY <1>6 DEF NoNextBed, contextVars, Effect, Untouched
<1>7. CASE /\ NextBedC
           /\ handlers' = IF phase' = "done" THEN handlers ELSE
                [handlers EXCEPT ![TestLog] = CleanedUp(TestLog)
                                                \o NewHandlers(TestLog, contexts)]
  <2>1. /\ contexts # <<>> /\ UNCHANGED contexts
        /\ phase = "bedEnd" /\ phase' \in {"nextClass", "done"}
    BY <1>7 DEF NextBedC, NextBed, contextVars
  <2>2. CASE phase' = "done"
    BY <1>7, <2>1, <2>2 DEF Effect, Untouched
  <2>3. CASE phase' # "done"
    BY <1>7, <2>1, <2>3, StreamsAssumption DEF Effect, IsMade
  <2> QED
    BY <2>2, <2>3
<1> QED
  BY <1>1, <1>2, <1>3, <1>4, <1>5, <1>6, <1>7, RunnerStep DEF RunnerStep

LEMMA StepsHaveEffects == Types /\ [LNext]_allVars => Effect
<1> SUFFICES ASSUME Types, [LNext]_allVars PROVE Effect
  OBVIOUS
<1>1. ASSUME NEW s \in Streams, CreateLogger(s) PROVE Effect
  BY <1>1 DEF CreateLogger, contextVars, vars, Effect, IsMade
<1>2. CASE UNCHANGED allVars
  BY <1>2 DEF allVars, vars, contextVars, logVars, Effect, Untouched
<1> QED
  BY <1>1, <1>2, ClassEffect, TestEffect, RunnerEffect DEF LNext

------------------------------------------------------------------------------
(* Types *)

LEMMA ContextType ==
    ASSUME NEW stack \in Seq(Paths), stack # <<>>, NEW depth \in Levels
    PROVE  CurrentContext(stack, depth) \in Paths
<1>1. Len(stack) \in Nat /\ Len(stack) # 0
  BY EmptySeq
<1>2. depth \in {0, 1, 2}
  BY DEF Levels, ROOT, TESTCLASS, TESTCASE
<1>3. (IF depth < Len(stack) THEN depth + 1 ELSE Len(stack)) \in 1..Len(stack)
  BY <1>1, <1>2
<1> QED
  BY <1>3, ElementOfSeq DEF CurrentContext

LEMMA NewHandlersAre ==
    ASSUME NEW s \in Streams, NEW stack \in Seq(Paths), stack # <<>>
    PROVE  /\ NewHandlers(s, stack) \in Seq(Handler)
           /\ Len(NewHandlers(s, stack)) = Len(Style[s]) /\ Len(Style[s]) \in Nat
           /\ \A k \in 1..Len(Style[s]) :
                /\ NewHandlers(s, stack)[k].moved
                /\ NewHandlers(s, stack)[k].dir
                     = CurrentContext(stack, NewHandlers(s, stack)[k].level)
<1>1. Style[s] \in Seq(Levels)
  BY StreamsAssumption DEF Levels
<1>2. /\ DOMAIN Style[s] = 1..Len(Style[s]) /\ Len(Style[s]) \in Nat
      /\ \A k \in DOMAIN Style[s] : Style[s][k] \in Levels
  BY <1>1
<1>3. \A k \in DOMAIN Style[s] :
        [level |-> Style[s][k], moved |-> TRUE,
         dir |-> CurrentContext(stack, Style[s][k])] \in Handler
  BY <1>2, ContextType DEF Handler
<1> QED
  BY <1>2, <1>3 DEF NewHandlers

LEMMA CleanedUpAre ==
    ASSUME Types, NEW s \in Streams
    PROVE  /\ CleanedUp(s) \in Seq(Handler)
           /\ Len(handlers[s]) <= 1 => CleanedUp(s) = <<>>
           /\ \A k \in DOMAIN CleanedUp(s) : ~CleanedUp(s)[k].moved
<1> DEFINE old == handlers[s]
           n == Len(old) \div 2
<1>1. /\ old \in Seq(Handler) /\ Len(old) \in Nat /\ n \in Nat
      /\ \A k \in 1..Len(old) : old[k] \in Handler
      /\ Len(old) <= 1 => n = 0
      /\ \A k \in 1..n : 2 * k \in 1..Len(old)
  BY DEF Types
<1>2. CleanedUp(s) = [k \in 1..n |-> [old[2 * k] EXCEPT !.moved = FALSE]]
  BY DEF CleanedUp
<1> HIDE DEF old, n
<1>3. \A h \in Handler : [h EXCEPT !.moved = FALSE] \in Handler
                         /\ ~[h EXCEPT !.moved = FALSE].moved
  BY DEF Handler
<1> DEFINE Cut(k) == [old[2 * k] EXCEPT !.moved = FALSE]
<1>4. \A k \in 1..n : CleanedUp(s)[k] \in Handler /\ ~CleanedUp(s)[k].moved
  <2>1. \A k \in 1..n : Cut(k) \in Handler /\ ~Cut(k).moved
    <3> TAKE k \in 1..n
    <3>1. old[2 * k] \in Handler
      BY <1>1
    <3> QED
      BY <1>3, <3>1
  <2>2. \A k \in 1..n : CleanedUp(s)[k] = Cut(k)
    BY <1>2
  <2> HIDE DEF Cut
  <2> QED
    BY <2>1, <2>2
<1>5. CleanedUp(s) \in Seq(Handler) /\ Len(CleanedUp(s)) = n /\ DOMAIN CleanedUp(s) = 1..n
  BY <1>1, <1>2, <1>4
<1> QED
  BY <1>1, <1>4, <1>5, EmptySeq DEF old

LEMMA MovedIs ==
    ASSUME NEW h \in Handler, NEW stack \in Seq(Paths), stack # <<>>, NEW levels
    PROVE  /\ Moved(h, stack, levels) \in Handler
           /\ Moved(h, stack, levels).moved = h.moved
           /\ Moved(h, stack, levels).level = h.level
           /\ Moved(h, stack, levels).dir
                = IF h.moved /\ h.level \in levels
                    THEN CurrentContext(stack, TESTCASE) ELSE h.dir
<1>1. CurrentContext(stack, TESTCASE) \in Paths
  BY ContextType DEF Levels
<1> QED
  BY <1>1 DEF Moved, Handler

\* A stream's handlers after the files of some levels have moved.
LEMMA Updated ==
    ASSUME Types, contexts' \in Seq(Paths), contexts' # <<>>, NEW levels, Update(levels)
    PROVE  /\ handlers' \in [Streams -> Seq(Handler)]
           /\ \A s \in Streams :
                /\ Len(handlers'[s]) = Len(handlers[s])
                /\ \A k \in DOMAIN handlers[s] :
                     handlers'[s][k] = Moved(handlers[s][k], contexts', levels)
<1>1. \A s \in Streams : handlers'[s] = [k \in DOMAIN handlers[s] |->
                                           Moved(handlers[s][k], contexts', levels)]
  BY DEF Update
<1>2. ASSUME NEW s \in Streams
      PROVE  handlers'[s] \in Seq(Handler) /\ Len(handlers'[s]) = Len(handlers[s])
  <2>1. /\ DOMAIN handlers[s] = 1..Len(handlers[s]) /\ Len(handlers[s]) \in Nat
        /\ \A k \in DOMAIN handlers[s] : handlers[s][k] \in Handler
    BY DEF Types
  <2>2. \A k \in DOMAIN handlers[s] : Moved(handlers[s][k], contexts', levels) \in Handler
    BY <2>1, MovedIs
  <2> DEFINE n == Len(handlers[s])
             F(k) == Moved(handlers[s][k], contexts', levels)
  <2>3. n \in Nat /\ handlers'[s] = [k \in 1..n |-> F(k)] /\ \A k \in 1..n : F(k) \in Handler
    BY <1>1, <2>1, <2>2
  <2> HIDE DEF n, F
  <2>4. handlers'[s] \in Seq(Handler) /\ Len(handlers'[s]) = n
    BY <2>3
  <2> QED
    BY <2>4 DEF n
<1>3. handlers' \in [Streams -> Seq(Handler)]
  <2>1. DOMAIN handlers' = Streams
    BY DEF Update
  <2> QED
    BY <1>2, <2>1 DEF Update
<1> QED
  BY <1>1, <1>2, <1>3

LEMMA MovesType ==
    ASSUME Types, Moves
    PROVE  contexts' \in Seq(Paths) /\ missed' \in Nat /\ left' \in Nat
<1>0. contexts \in Seq(Paths) /\ missed \in Nat /\ left \in Nat
  BY DEF Types
<1>1. /\ Append(contexts, ThisClass) \in Seq(Paths)
      /\ Append(contexts, ThisTest) \in Seq(Paths)
  BY <1>0, PathTypes, AppendProperties
<1>2. Popped(contexts) \in Seq(Paths)
  BY <1>0, PoppedType
<1>3. CASE Stays \/ NewClassBegins
  BY <1>0, <1>3 DEF Stays, NewClassBegins, contextVars
<1>4. CASE EntersClass \/ EntersTest
  BY <1>0, <1>1, <1>4 DEF EntersClass, EntersTest, Push
<1>5. CASE LeavesClass \/ LeavesTest
  BY <1>0, <1>2, <1>5 DEF LeavesClass, LeavesTest, Pop, Popped
<1>6. CASE Loses
  BY <1>0, <1>1, <1>6 DEF Loses
<1> QED
  BY <1>3, <1>4, <1>5, <1>6 DEF Moves

LEMMA IsMadeType ==
    ASSUME Types, NEW s \in Streams, IsMade(s)
    PROVE  handlers' \in [Streams -> Seq(Handler)]
<1>1. CleanedUp(s) \o NewHandlers(s, contexts) \in Seq(Handler)
  BY CleanedUpAre, NewHandlersAre, ConcatProperties DEF IsMade, Types
<1> QED
  BY <1>1 DEF IsMade, Types

LEMMA HandlersType ==
    ASSUME Types, contexts' \in Seq(Paths), Effect
    PROVE  handlers' \in [Streams -> Seq(Handler)]
<1>0. <<>> \in Seq(Handler)
  OBVIOUS
<1>1. CASE Untouched \/ TestLogCloses
  BY <1>0, <1>1 DEF Untouched, TestLogCloses, Types
<1>2. ASSUME NEW levels \in SUBSET Levels, Follows(levels)
      PROVE  handlers' \in [Streams -> Seq(Handler)]
  BY <1>2, Updated DEF Follows, Update, Types
<1> QED
  BY <1>1, <1>2, IsMadeType DEF Effect

LEMMA TypesKept == Types /\ [LNext]_allVars => Types'
<1> SUFFICES ASSUME Types, [LNext]_allVars PROVE Types'
  OBVIOUS
<1>1. Moves /\ Counts /\ Effect
  BY EveryStepMoves, StepsHaveEffects
<1>2. contexts' \in Seq(Paths) /\ missed' \in Nat /\ left' \in Nat
  BY <1>1, MovesType
<1> QED
  BY <1>1, <1>2, HandlersType DEF Types, Counts

LEMMA TypesInit == LInit => Types /\ StackInv
<1> SUFFICES ASSUME LInit PROVE Types /\ StackInv
  OBVIOUS
<1>1. /\ bed = 1 /\ cls = 1 /\ test = 1 /\ phase = "nextClass"
      /\ contexts = <<Root>> /\ begun = FALSE /\ missed = 0 /\ left = 0
  BY DEF LInit, CInit, Init
<1>2. Root \in Paths /\ <<Root>> \in Seq(Paths) /\ <<Root>> # <<>> /\ <<>> \in Seq(Handler)
  BY DEF Root, Paths
<1>3. handlers \in [Streams -> Seq(Handler)]
  BY <1>2, NewHandlersAre DEF LInit
<1> QED
  BY <1>1, <1>2, <1>3 DEF Types, StackInv, Where, InTest, InClass

\* While a test runs the framework knows that it is that test, whatever was raised
\* before, by tests, procedures or subscribers; and where every context was pushed
\* and popped the stack is exactly where the run is.
THEOREM StackIsWhereWeAreHolds == LSpec => []StackIsWhereWeAre
<1>1. Types /\ StackInv /\ [LNext]_allVars => StackInv'
  BY EveryStepMoves, StackKept
<1>2. Types /\ StackInv => StackIsWhereWeAre
  <2> SUFFICES ASSUME Types, StackInv
               PROVE  Where = <<Root>> \o (IF InClass THEN <<ThisClass>> ELSE <<>>)
                                       \o (IF InTest THEN <<ThisTest>> ELSE <<>>)
    BY DEF StackInv, StackIsWhereWeAre, Intact
  <2>1. InTest => InClass
    BY DEF InClass
  <2>2. /\ Root \in Paths /\ ThisClass \in Paths /\ ThisTest \in Paths
        /\ <<Root>> \in Seq(Paths) /\ <<Root, ThisClass>> \in Seq(Paths)
    BY PathTypes
  <2>3. /\ <<Root>> \o <<>> = <<Root>>
        /\ <<Root, ThisClass>> \o <<>> = <<Root, ThisClass>>
    BY <2>2, ConcatEmptySeq
  <2>4. /\ <<Root>> \o <<ThisClass>> = <<Root, ThisClass>>
        /\ <<Root, ThisClass>> \o <<ThisTest>> = <<Root, ThisClass, ThisTest>>
    <3>1. /\ <<Root>> \o <<ThisClass>> = Append(<<Root>>, ThisClass)
          /\ <<Root, ThisClass>> \o <<ThisTest>> = Append(<<Root, ThisClass>>, ThisTest)
      BY <2>2, AppendIsConcat
    <3>2. Len(<<Root>>) = 1 /\ Len(<<Root, ThisClass>>) = 2
      OBVIOUS
    <3> QED
      BY <2>2, <3>1, <3>2, PushedTuples
  <2> QED
    BY <2>1, <2>3, <2>4 DEF Where
<1> QED
  BY <1>1, <1>2, TypesInit, TypesKept, PTL DEF LSpec, allVars

------------------------------------------------------------------------------
(* Files follow the run *)

FollowInv ==
    Intact =>
      \A s \in Streams : \A k \in DOMAIN handlers[s] :
        handlers[s][k].moved =>
          handlers[s][k].dir = CurrentContext(contexts, handlers[s][k].level)

\* The context of each level, when every context was pushed and popped.
LEMMA WhereEachLevelIs ==
    /\ \A a : /\ CurrentContext(<<a>>, ROOT) = a
              /\ CurrentContext(<<a>>, TESTCLASS) = a
              /\ CurrentContext(<<a>>, TESTCASE) = a
    /\ \A a, b : /\ CurrentContext(<<a, b>>, ROOT) = a
                 /\ CurrentContext(<<a, b>>, TESTCLASS) = b
                 /\ CurrentContext(<<a, b>>, TESTCASE) = b
    /\ \A a, b, c : /\ CurrentContext(<<a, b, c>>, ROOT) = a
                    /\ CurrentContext(<<a, b, c>>, TESTCLASS) = b
                    /\ CurrentContext(<<a, b, c>>, TESTCASE) = c
BY DEF CurrentContext, ROOT, TESTCLASS, TESTCASE

\* The levels of an event are those whose context has changed.
LEMMA UpdateIsEnough ==
    ASSUME Types, StackInv, StackInv', Intact, Intact', ~Loses,
           NEW levels \in SUBSET Levels, Follows(levels)
    PROVE  /\ contexts' # <<>>
           /\ \A l \in Levels :
                CurrentContext(contexts', l)
                  = IF l \in levels THEN CurrentContext(contexts', TESTCASE)
                                    ELSE CurrentContext(contexts, l)
<1>0. /\ ROOT # TESTCLASS /\ ROOT # TESTCASE /\ TESTCLASS # TESTCASE
      /\ Levels = {ROOT, TESTCLASS, TESTCASE}
  BY DEF Levels, ROOT, TESTCLASS, TESTCASE
<1>1. CASE levels = {TESTCLASS, TESTCASE} /\ (EntersClass \/ LeavesClass)
  <2>1. /\ contexts \in {<<Root>>, <<Root, ThisClass>>}
        /\ \E c : contexts' \in {<<Root>>, <<Root, c>>}
    BY <1>1 DEF StackInv, Where, EntersClass, LeavesClass, InTest, InClass
  <2> QED
    BY <1>0, <1>1, <2>1, WhereEachLevelIs
<1>2. CASE levels = {TESTCASE} /\ EntersTest
  <2>1. contexts = <<Root, ThisClass>> /\ contexts' = <<Root, ThisClass, ThisTest>>
    BY <1>2 DEF StackInv, Where, EntersTest, InTest, InClass, Place, ThisClass, ThisTest
  <2> QED
    BY <1>0, <1>2, <2>1, WhereEachLevelIs
<1>3. CASE levels = {TESTCASE} /\ LeavesTest
  <2>1. contexts' = <<Root, ThisClass>> /\ contexts = <<Root, ThisClass, ThisTest>>
    BY <1>3 DEF StackInv, Where, LeavesTest, InTest, InClass, ThisClass
  <2> QED
    BY <1>0, <1>3, <2>1, WhereEachLevelIs
<1> QED
  BY <1>1, <1>2, <1>3 DEF Follows

LEMMA MadeHandlers ==
    ASSUME Types, NEW s \in Streams, IsMade(s), NEW k \in DOMAIN handlers'[s],
           handlers'[s][k].moved
    PROVE  handlers'[s][k].dir = CurrentContext(contexts, handlers'[s][k].level)
<1> DEFINE old == CleanedUp(s)
           new == NewHandlers(s, contexts)
<1>1. handlers'[s] = old \o new
  BY DEF IsMade, Types
<1>2. /\ old \in Seq(Handler) /\ \A i \in DOMAIN old : ~old[i].moved
      /\ new \in Seq(Handler)
      /\ \A i \in 1..Len(new) : new[i].dir = CurrentContext(contexts, new[i].level)
  BY CleanedUpAre, NewHandlersAre DEF IsMade, Types
<1> HIDE DEF old, new
<1>3. /\ DOMAIN old = 1..Len(old) /\ Len(old) \in Nat /\ Len(new) \in Nat
      /\ DOMAIN (old \o new) = 1..(Len(old) + Len(new))
      /\ \A i \in 1..Len(old) : (old \o new)[i] = old[i]
      /\ \A i \in (Len(old) + 1)..(Len(old) + Len(new)) :
           (old \o new)[i] = new[i - Len(old)]
  BY <1>2
<1>4. k \in (Len(old) + 1)..(Len(old) + Len(new)) /\ k - Len(old) \in 1..Len(new)
  BY <1>1, <1>2, <1>3
<1> QED
  BY <1>1, <1>2, <1>3, <1>4

LEMMA FollowKept ==
    ASSUME Types, Types', StackInv, StackInv', FollowInv, Moves, Effect
    PROVE  FollowInv'
<1> SUFFICES ASSUME Intact', NEW s \in Streams, NEW k \in DOMAIN handlers'[s],
                    handlers'[s][k].moved
             PROVE  handlers'[s][k].dir
                      = CurrentContext(contexts', handlers'[s][k].level)
  BY DEF FollowInv
<1>0. Intact /\ ~Loses
  BY IntactBefore
<1>1. CASE Untouched
  BY <1>0, <1>1 DEF Untouched, FollowInv
<1>2. ASSUME NEW levels \in SUBSET Levels, Follows(levels)
      PROVE  handlers'[s][k].dir = CurrentContext(contexts', handlers'[s][k].level)
  <2>1. /\ contexts' # <<>> /\ contexts' \in Seq(Paths)
        /\ \A l \in Levels :
             CurrentContext(contexts', l)
               = IF l \in levels THEN CurrentContext(contexts', TESTCASE)
                                 ELSE CurrentContext(contexts, l)
    BY <1>0, <1>2, UpdateIsEnough DEF Types
  <2> DEFINE h == handlers[s][k]
  <2>2. Len(handlers'[s]) = Len(handlers[s]) /\ handlers[s] \in Seq(Handler)
        /\ handlers'[s] \in Seq(Handler)
    BY <1>2, <2>1, Updated DEF Follows, Types
  <2>3. k \in DOMAIN handlers[s] /\ h \in Handler
    BY <2>2
  <2>4. handlers'[s][k] = Moved(h, contexts', levels)
    BY <1>2, <2>1, <2>3, Updated DEF Follows
  <2>5. h.moved => h.dir = CurrentContext(contexts, h.level)
    BY <1>0, <2>3 DEF FollowInv
  <2>6. h.level \in Levels
    BY <2>3 DEF Handler
  <2> HIDE DEF h
  <2> QED
    BY <2>1, <2>3, <2>4, <2>5, <2>6, MovedIs
<1>3. CASE TestLogCloses
  <2>1. s # TestLog
    BY <1>3 DEF TestLogCloses, Types
  <2> QED
    BY <1>0, <1>3, <2>1 DEF TestLogCloses, FollowInv, Types
<1>4. ASSUME NEW t \in Streams, IsMade(t)
      PROVE  handlers'[s][k].dir = CurrentContext(contexts', handlers'[s][k].level)
  <2>1. CASE s = t
    BY <1>4, <2>1, MadeHandlers DEF IsMade
  <2>2. CASE s # t
    BY <1>0, <1>4, <2>2 DEF IsMade, FollowInv, Types
  <2> QED
    BY <2>1, <2>2
<1> QED
  BY <1>1, <1>2, <1>3, <1>4 DEF Effect

\* A file that a stream still moves is in the directory of the context it is meant
\* for, for any streams of any files, as long as no context was lost.
THEOREM HandlersFollowTheRunHolds == LSpec => []HandlersFollowTheRun
<1> DEFINE I == Types /\ StackInv /\ FollowInv
<1>1. LInit => I
  <2> SUFFICES ASSUME LInit, NEW s \in Streams, NEW k \in DOMAIN handlers[s]
               PROVE  handlers[s][k].dir = CurrentContext(contexts, handlers[s][k].level)
    BY TypesInit DEF FollowInv
  <2>1. contexts = <<Root>> /\ <<Root>> # <<>> /\ <<Root>> \in Seq(Paths)
    BY DEF LInit, CInit, Root, Paths
  <2>2. s = TestLog /\ handlers[s] = NewHandlers(s, contexts)
    BY <2>1 DEF LInit
  <2>3. NewHandlers(s, contexts) \in Seq(Handler)
        /\ Len(NewHandlers(s, contexts)) = Len(Style[s])
    BY <2>1, NewHandlersAre
  <2>4. k \in 1..Len(Style[s])
    BY <2>2, <2>3
  <2> QED
    BY <2>1, <2>2, <2>4, NewHandlersAre
<1>2. I /\ [LNext]_allVars => I'
  BY EveryStepMoves, StepsHaveEffects, TypesKept, StackKept, FollowKept
<1>3. I => HandlersFollowTheRun
  BY DEF FollowInv, Intact, HandlersFollowTheRun
<1> QED
  BY <1>1, <1>2, <1>3, PTL DEF LSpec, allVars

------------------------------------------------------------------------------
(* No handler of an earlier stream is left *)

\* The log of a test bed is closed when the bed ends, before the next one makes it.
TidyInv ==
    /\ NoStaleFiles
    /\ phase = "bedEnd" => handlers[TestLog] = <<>>

LEMMA TidyKept == ASSUME Types, Types', TidyInv, Effect PROVE TidyInv'
<1>0. TestLog \in Streams /\ \A s \in Streams : handlers[s] \in Seq(Handler)
  BY StreamsAssumption DEF Types
<1>1. CASE Untouched
  BY <1>1 DEF Untouched, TidyInv, NoStaleFiles
<1>2. ASSUME NEW levels \in SUBSET Levels, Follows(levels) PROVE TidyInv'
  <2>1. CASE contexts' = <<>>
    BY <1>2, <2>1 DEF Follows, Update, TidyInv, NoStaleFiles
  <2>2. CASE contexts' # <<>>
    <3>1. ASSUME NEW s \in Streams, s = TestLog \/ Len(Style[s]) = 1
          PROVE  /\ Len(handlers'[s]) <= Len(Style[s])
                 /\ \A k \in DOMAIN handlers'[s] : handlers'[s][k].moved
      <4>1. /\ Len(handlers'[s]) = Len(handlers[s]) /\ handlers'[s] \in Seq(Handler)
            /\ \A k \in DOMAIN handlers[s] :
                 handlers'[s][k] = Moved(handlers[s][k], contexts', levels)
        BY <1>2, <2>2, Updated DEF Follows, Types
      <4>2. Len(handlers[s]) <= Len(Style[s])
            /\ \A k \in DOMAIN handlers[s] : handlers[s][k].moved
        BY <3>1 DEF TidyInv, NoStaleFiles
      <4>3. DOMAIN handlers'[s] = DOMAIN handlers[s]
            /\ \A k \in DOMAIN handlers[s] : handlers[s][k] \in Handler
        BY <1>0, <4>1
      <4>4. \A k \in DOMAIN handlers[s] : Moved(handlers[s][k], contexts', levels).moved
        BY <2>2, <4>2, <4>3, MovedIs DEF Types
      <4> QED
        BY <4>1, <4>2, <4>3, <4>4
    <3> QED
      BY <1>2, <3>1 DEF Follows, TidyInv, NoStaleFiles
  <2> QED
    BY <2>1, <2>2
<1>3. CASE TestLogCloses
  <2>1. handlers'[TestLog] = <<>>
        /\ \A s \in Streams \ {TestLog} : handlers'[s] = handlers[s]
    BY <1>0, <1>3 DEF TestLogCloses, Types
  <2>2. Len(<<>>) = 0 /\ DOMAIN <<>> = {} /\ Len(Style[TestLog]) \in Nat
    BY StreamsAssumption
  <2> QED
    BY <2>1, <2>2 DEF TidyInv, NoStaleFiles
<1>4. ASSUME NEW t \in Streams, IsMade(t) PROVE TidyInv'
  <2>1. ASSUME t = TestLog \/ Len(Style[t]) = 1
        PROVE  handlers'[t] = NewHandlers(t, contexts)
    <3>1. handlers[t] = <<>> \/ Len(handlers[t]) <= 1
      BY <1>4, <2>1 DEF IsMade, TidyInv, NoStaleFiles
    <3>2. CleanedUp(t) = <<>>
      BY <3>1, CleanedUpAre
    <3>3. NewHandlers(t, contexts) \in Seq(Handler)
      BY <1>4, NewHandlersAre DEF IsMade, Types
    <3> QED
      BY <1>4, <3>2, <3>3 DEF IsMade, Types
  <2>2. /\ NewHandlers(t, contexts) \in Seq(Handler)
        /\ Len(NewHandlers(t, contexts)) = Len(Style[t]) /\ Len(Style[t]) \in Nat
        /\ \A k \in 1..Len(Style[t]) : NewHandlers(t, contexts)[k].moved
    BY <1>4, NewHandlersAre DEF IsMade, Types
  <2>3. \A s \in Streams \ {t} : handlers'[s] = handlers[s]
    BY <1>4 DEF IsMade, Types
  <2>4. ASSUME t = TestLog \/ Len(Style[t]) = 1
        PROVE  /\ Len(handlers'[t]) <= Len(Style[t])
               /\ \A k \in DOMAIN handlers'[t] : handlers'[t][k].moved
    BY <2>1, <2>2, <2>4
  <2> QED
    BY <1>4, <2>3, <2>4 DEF IsMade, TidyInv, NoStaleFiles
<1> QED
  BY <1>1, <1>2, <1>3, <1>4 DEF Effect

\* However often they are made, and however the run went: the log of a test bed has
\* each of its files once, and so has a stream of one file.
THEOREM NoStaleFilesHolds == LSpec => []NoStaleFiles
<1> DEFINE I == Types /\ TidyInv
<1>1. LInit => I
  <2> SUFFICES ASSUME LInit PROVE TidyInv
    BY TypesInit
  <2>1. <<Root>> # <<>> /\ <<Root>> \in Seq(Paths) /\ TestLog \in Streams
    BY StreamsAssumption DEF Root, Paths
  <2>2. ASSUME NEW s \in Streams
        PROVE  /\ Len(handlers[s]) <= Len(Style[s])
               /\ \A k \in DOMAIN handlers[s] : handlers[s][k].moved
    <3>1. CASE s = TestLog
      <4>1. handlers[s] = NewHandlers(s, <<Root>>)
        BY <3>1 DEF LInit
      <4>2. /\ NewHandlers(s, <<Root>>) \in Seq(Handler) /\ Len(Style[s]) \in Nat
            /\ Len(NewHandlers(s, <<Root>>)) = Len(Style[s])
            /\ \A k \in 1..Len(Style[s]) : NewHandlers(s, <<Root>>)[k].moved
        BY <2>1, NewHandlersAre
      <4> QED
        BY <4>1, <4>2
    <3>2. CASE s # TestLog
      <4>1. handlers[s] = <<>> /\ Len(Style[s]) \in Nat
        BY <3>2, StreamsAssumption DEF LInit
      <4>2. Len(<<>>) = 0 /\ DOMAIN <<>> = {}
        OBVIOUS
      <4> QED
        BY <4>1, <4>2
    <3> QED
      BY <3>1, <3>2
  <2>3. phase # "bedEnd"
    BY DEF LInit, CInit, Init
  <2> QED
    BY <2>2, <2>3 DEF TidyInv, NoStaleFiles
<1>2. I /\ [LNext]_allVars => I'
  BY StepsHaveEffects, TypesKept, TidyKept
<1>3. I => NoStaleFiles
  BY DEF TidyInv
<1> QED
  BY <1>1, <1>2, <1>3, PTL DEF LSpec, allVars
==============================================================================
