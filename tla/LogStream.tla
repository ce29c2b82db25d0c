------------------------------ MODULE LogStream ------------------------------
(***************************************************************************)
(* The log streams of acts/libs/logging/log_stream.py during a test run:   *)
(* named loggers whose files move with the test context.  `TestLog` is the *)
(* one that logger.py makes for each test bed and removes after it, others *)
(* are made by test code and controllers whenever they like, under a name  *)
(* that may have been used before (the logcat of a device is).             *)
(*                                                                         *)
(* Of a handler the model keeps the location it is meant for, the context  *)
(* in whose directory its file is, and whether a log stream of the         *)
(* dictionary _log_streams still moves it.  The handlers that write no     *)
(* file (the null handler, standard output) are left out, but cleanup()    *)
(* counts the null handler, which is the first of the list.                *)
(***************************************************************************)
EXTENDS TestContext, SequencesExt

CONSTANTS
    Streams,     \* names of log streams
    TestLog,     \* 'test_run', one of them
    Style,       \* their file handlers, in order: TESTCLASS, TESTCASE or ROOT
    MaxCreates   \* bound: calls of create_logger by test code

ASSUME StreamsAssumption ==
    /\ TestLog \in Streams
    /\ Style \in [Streams -> Seq({ROOT, TESTCLASS, TESTCASE})]
    /\ MaxCreates \in Nat

VARIABLES
    handlers,    \* the file handlers of each stream's logger
    created      \* counter for the bound

logVars == <<handlers, created>>

\* _LogStream.__init__: each file in the directory of its level's context.
NewHandlers(s, stack) ==
    [i \in DOMAIN Style[s] |-> [level |-> Style[s][i], moved |-> TRUE,
                                dir |-> CurrentContext(stack, Style[s][i])]]

\* Mutant: the first file handler is the one that is skipped.
CleanedUpLess(s) ==
    LET old == handlers[s]
    IN  [i \in 1..((Len(old) + 1) \div 2) |-> [old[2 * i - 1] EXCEPT !.moved = FALSE]]

\* cleanup removes a handler from the list it is iterating over, and so skips
\* the one after it: with the null handler first, every other one stays.  The
\* stream they belonged to leaves the dictionary.
CleanedUp(s) ==
    LET old == handlers[s]
    IN  [i \in 1..(Len(old) \div 2) |-> [old[2 * i] EXCEPT !.moved = FALSE]]

\* Mutant: the handlers of a class do not move when the class begins.
MovedTestsOnly(h, stack, levels) ==
    IF h.moved /\ h.level = TESTCASE
      THEN [h EXCEPT !.dir = CurrentContext(stack, TESTCASE)] ELSE h

\* update_handlers
Moved(h, stack, levels) ==
    IF h.moved /\ h.level \in levels
      THEN [h EXCEPT !.dir = CurrentContext(stack, TESTCASE)] ELSE h

\* _update_handlers, for a NewContextEvent of the levels; it raises, to no
\* effect, when there is no context at all.
Update(levels) ==
    handlers' = IF contexts' = <<>> THEN handlers
                ELSE [s \in Streams |->
                        [i \in DOMAIN handlers[s] |->
                           Moved(handlers[s][i], contexts', levels)]]

LInit ==
    /\ CInit
    /\ handlers = [s \in Streams |-> IF s = TestLog
                     THEN NewHandlers(s, <<Root>>) ELSE <<>>]
    /\ created = 0

\* Test code runs, in a class or in a test.
CreateLogger(s) ==
    /\ s # TestLog
    /\ created < MaxCreates
    /\ phase \in {"setup", "body", "teardown", "teardownClass"}
         \/ (phase = "setupClass" /\ begun)
    /\ contexts # <<>>
    /\ created' = created + 1
    /\ handlers' = [handlers EXCEPT ![s] = CleanedUp(s) \o NewHandlers(s, contexts)]
    /\ UNCHANGED <<vars, contextVars>>

\* Steps of the run that post a NewContextEvent, and those that do not.
ClassContextStep ==
    /\ BeginClass \/ \E o \in Outcomes : TeardownClassC(o)
    /\ IF left' = left THEN Update({TESTCLASS, TESTCASE}) ELSE UNCHANGED handlers

TestContextStep ==
    /\ PickC \/ BeginTestRaises \/ EndTest \/ EndTestRaises
    /\ IF contexts' # contexts THEN Update({TESTCASE}) ELSE UNCHANGED handlers

\* runner.stop() calls kill_test_logger: the test bed's log is closed.
Stop == handlers' = IF phase' = "bedEnd" THEN [handlers EXCEPT ![TestLog] = <<>>]
                                         ELSE handlers

RunnerStep ==
    \/ OtherStep /\ UNCHANGED contextVars /\ Stop
    \/ /\ NewClass \/ BeginClassRaises \/ NoNextBed
          \/ (\E o \in Outcomes : SetupClassC(o))
          \/ (\E hook \in HookOutcomes : BlockC(hook))
       /\ UNCHANGED handlers
    \/ /\ NextBedC
       /\ handlers' = IF phase' = "done" THEN handlers ELSE
            [handlers EXCEPT ![TestLog] = CleanedUp(TestLog) \o NewHandlers(TestLog, contexts)]

LNext ==
    \/ (ClassContextStep \/ TestContextStep \/ RunnerStep) /\ UNCHANGED created
    \/ \E s \in Streams : CreateLogger(s)

LSpec == LInit /\ [][LNext]_<<vars, contextVars, logVars>>

------------------------------------------------------------------------------
(* Properties *)

\* A file handler that its stream still moves writes to the directory of the
\* context it is meant for: the root, the class, the test while one is running.
\* Lost contexts break this, and nothing else does.
HandlersFollowTheRun ==
    missed = 0 /\ left = 0 =>
      \A s \in Streams : \A i \in DOMAIN handlers[s] :
        LET h == handlers[s][i]
        IN  h.moved => h.dir = CurrentContext(contexts, h.level)

\* Between the beginning and the end of a test bed its log has each file once,
\* whatever the run raised, and so has a stream of one file (a logcat), however
\* often it is made: no handler of an earlier one is left to write, too.
NoStaleFiles ==
    \A s \in Streams :
      s = TestLog \/ Len(Style[s]) = 1 =>
        /\ Len(handlers[s]) <= Len(Style[s])
        /\ \A i \in DOMAIN handlers[s] : handlers[s][i].moved
==============================================================================
