----------------------------- MODULE TestContext -----------------------------
(***************************************************************************)
(* The stack of test contexts of acts/context.py, during a run of          *)
(* TestRun.tla: which test class and test the framework thinks it is in.   *)
(* Log files, output directories and metrics are placed by it.             *)
(*                                                                         *)
(* The stack is kept by subscribers of the events that base_test.py posts  *)
(* around a class and around a test.  An event bus delivers to other       *)
(* subscribers too, in the order of their `order`, the more specific event *)
(* type first: those of TestClassBeginEvent and TestClassEndEvent come     *)
(* before the context's (which subscribes to TestClassEvent), the context  *)
(* is pushed first for a test (order -100) and popped last (order 100).    *)
(* The first subscriber that raises ends the delivery.                     *)
(*                                                                         *)
(* A context is the path to it: <<>> the root, <<bed, class>> a class,     *)
(* <<bed, class, test>> a test.                                            *)
(***************************************************************************)
EXTENDS TestRun

CONSTANT MaxLost  \* bound: no other subscriber raises when as many contexts
                  \* were lost, so that with 0 none ever does

ASSUME LostAssumption == MaxLost \in Nat

VARIABLES
    contexts,    \* _contexts
    begun,       \* TestClassBeginEvent of this class was posted
    missed, left \* history: contexts never pushed, and never popped

contextVars == <<contexts, begun, missed, left>>

Root      == <<>>
ThisClass == <<bed, cls>>
ThisTest  == <<bed, cls, test>>

ROOT == 0    TESTCLASS == 1    TESTCASE == 2

\* get_current_context(depth); IndexError when the stack is empty.
CurrentContext(stack, depth) ==
    stack[IF depth < Len(stack) THEN depth + 1 ELSE Len(stack)]

SubscriberRaises == missed + left < MaxLost

Push(c) == contexts' = Append(contexts, c) /\ UNCHANGED <<missed, left>>
Pop ==
    /\ contexts' = IF contexts = <<>> THEN <<>>
                   ELSE SubSeq(contexts, 1, Len(contexts) - 1)
    /\ UNCHANGED <<missed, left>>
Leaks == left' = left + 1 /\ UNCHANGED <<contexts, missed>>

CInit ==
    /\ Init
    /\ contexts = <<Root>>
    /\ begun = FALSE /\ missed = 0 /\ left = 0

------------------------------------------------------------------------------
(* The class: _setup_class and _teardown_class *)

NewClass == StartClass /\ begun' = FALSE /\ UNCHANGED <<contexts, missed, left>>

\* The event is posted; run() has not called setup_class yet.
BeginClass ==
    /\ phase = "setupClass" /\ ~begun
    /\ begun' = TRUE
    /\ Push(ThisClass)
    /\ UNCHANGED vars

\* A subscriber raises: as if setup_class had, and no context is pushed.
BeginClassRaises ==
    /\ SubscriberRaises
    /\ ~begun
    /\ SetupClass("error")
    /\ begun' = TRUE
    /\ missed' = missed + 1
    /\ UNCHANGED <<contexts, left>>

SetupClassC(o) == begun /\ SetupClass(o) /\ UNCHANGED contextVars

\* TestClassEndEvent is posted after super()._teardown_class(), which only an
\* abort_all leaves by an exception.  What a subscriber raises is swallowed by
\* _exec_func, the context stays.
TeardownClassC(o) ==
    /\ TeardownClass(o)
    /\ begun' = begun
    /\ IF o = "abortAll" THEN Leaks
                         ELSE Pop \/ (SubscriberRaises /\ Leaks)

\* Nobody tears the class down when on_skip raises in the except clause.
BlockC(hook) ==
    /\ Block(hook)
    /\ begun' = begun
    /\ IF phase' = "classEnd" THEN Leaks ELSE UNCHANGED <<contexts, missed, left>>

------------------------------------------------------------------------------
(* The test: exec_one_testcase *)

PickC ==
    /\ Pick
    /\ begun' = begun
    /\ IF phase' = "setup" THEN Push(ThisTest)
                           ELSE UNCHANGED <<contexts, missed, left>>

\* What is raised outside the try of exec_one_testcase leaves the class by way
\* of teardown_class, and ends the test bed.
Escapes ==
    /\ exc' = "crash" /\ hooked' = TRUE
    /\ phase' = "teardownClass"
    /\ begun' = begun
    /\ UNCHANGED <<bedVars, classVars, testVars, consecutive, blockedFrom, aborted>>

\* A subscriber raises after the context was pushed; there is no record.
BeginTestRaises ==
    /\ SubscriberRaises
    /\ phase = "pick" /\ test <= Tests
    /\ Escapes
    /\ contexts' = Append(contexts, ThisTest)
    /\ left' = left + 1
    /\ UNCHANGED <<test, classRecs, missed>>

\* Mutant: the end of a test that aborts the run is not announced.
EndTestUnlessAborted ==
    /\ AddRecord
    /\ begun' = begun
    /\ IF exc = "abortAll" THEN UNCHANGED <<contexts, missed, left>> ELSE Pop

EndTest == AddRecord /\ begun' = begun /\ Pop

\* A subscriber raises after the record was added, before the context is popped.
EndTestRaises ==
    /\ SubscriberRaises
    /\ phase = "record"
    /\ classRecs' = Append(classRecs, [test |-> test,
                                       result |-> result, ran |-> ran])
    /\ test' = test + 1
    /\ Escapes
    /\ Leaks

------------------------------------------------------------------------------
(* The test beds: contexts is a variable of the process that runs them all *)

NextBedC == contexts # <<>> /\ NextBed /\ UNCHANGED contextVars

\* Without any context the log files of the next test bed cannot be placed:
\* "Failed to instantiate test runner", and sys.exit(1).
NoNextBed ==
    /\ contexts = <<>>
    /\ phase = "bedEnd"
    /\ phase' = "done"
    /\ ok' = IF bed < Beds THEN "False" ELSE ok
    /\ UNCHANGED <<bed, runError, ends, classVars, testVars, test, classRecs,
                   consecutive, exc, blockedFrom, aborted, hooked, contextVars>>

OtherStep ==
    \/ \E o \in Outcomes : SetupTest(o) \/ TestBody(o) \/ TeardownTest(o)
    \/ \E hook \in HookOutcomes :
         OnPass(hook) \/ OnSkip(hook) \/ OnException(hook) \/ OnFail(hook)
    \/ ClassEnd \/ RunEnd

CNext ==
    \/ OtherStep /\ UNCHANGED contextVars
    \/ NewClass \/ BeginClass \/ BeginClassRaises
    \/ \E o \in Outcomes : SetupClassC(o) \/ TeardownClassC(o)
    \/ \E hook \in HookOutcomes : BlockC(hook)
    \/ PickC \/ BeginTestRaises \/ EndTest \/ EndTestRaises
    \/ NextBedC \/ NoNextBed

------------------------------------------------------------------------------
(* Properties *)

InTest  == phase \in {"setup", "body", "teardown", "post", "onFail", "record"}
InClass == InTest \/ (phase = "setupClass" /\ begun)
                  \/ phase \in {"block", "pick", "teardownClass"}

\* While the functions of a test run, the context the framework reports is that
\* test, whatever was raised earlier in the run; and as long as every context
\* was pushed and popped, the stack is exactly where the run is, so that each
\* depth yields the context it stands for.
StackIsWhereWeAre ==
    /\ InTest => contexts # <<>> /\ contexts[Len(contexts)] = ThisTest
    /\ missed = 0 /\ left = 0 =>
         contexts = <<Root>> \o (IF InClass THEN <<ThisClass>> ELSE <<>>)
                             \o (IF InTest THEN <<ThisTest>> ELSE <<>>)
==============================================================================
