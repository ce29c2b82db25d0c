------------------------------- MODULE TestRun -------------------------------
(***************************************************************************)
(* A test run of act.py: its test beds one after another, the test classes *)
(* of a bed (acts/test_runner.py), the tests of a class with their setup,  *)
(* teardown and on_* procedures (acts/base_test.py), and what becomes of   *)
(* the exceptions that any of these user-written functions may raise.      *)
(*                                                                         *)
(* One action runs one user-written function and the framework code from   *)
(* there to the next one.  Records are mobly's; of a record the model      *)
(* keeps the test, the result, and whether the body of the test has run,   *)
(* and of those of a whole run only which results occur.                   *)
(***************************************************************************)
EXTENDS Integers, Sequences, FiniteSets

CONSTANTS
    Beds,             \* number of test beds in the configuration
    Classes,          \* number of test classes in the run list
    Tests,            \* number of test executions of a class (iterations counted)
    Limit,            \* consecutive_failure_limit; the default, -1, is never reached
    Attempts,         \* 2 if the tests are in retry_tests, else 1
    HooksMayRaise     \* environment: on_pass, on_fail, ... may raise

ASSUME SizeAssumption ==
    /\ Beds \in Nat \ {0} /\ Classes \in Nat \ {0} /\ Tests \in Nat \ {0}
ASSUME LimitAssumption == Limit \in Int
ASSUME AttemptsAssumption == Attempts \in {1, 2}
ASSUME HooksAssumption == HooksMayRaise \in BOOLEAN

VARIABLES
    bed, ok,                    \* act._run_tests
    cls, runRecs,               \* TestRunner.run: class, self.results
    phase,                      \* the function that runs next
    test, classRecs,            \* BaseTestClass.run: test, self.results
    consecutive,                \* consecutive_failures
    exc,                        \* the exception in flight
    attempt, ran,               \* get_func_with_retry; whether the body ran
    result, extra,              \* tr_record.result; extra_errors is not empty
    blockedFrom,                \* why the tests of the class are blocked
    runError,                   \* an ActsError reached TestRunner.run
    classError,                 \* self.results.error: teardown_class raised
    tornDown,                   \* history: teardown_class was called
    aborted,                    \* history: an abort_all left the class
    hooked,                     \* history: in this class, an on_* procedure raised
    skipRaised,                 \* history: what became of what on_skip raised
                                \* while the tests of this class were blocked
    ends                        \* history: how the test beds ended

bedVars   == <<bed, ok, runError, ends>>
classVars == <<cls, runRecs, classError, tornDown, skipRaised>>
testVars  == <<attempt, ran, result, extra>>
vars == <<bedVars, classVars, testVars, phase, test, classRecs, consecutive,
          exc, blockedFrom, aborted, hooked>>

Phases == {"nextClass", "setupClass", "block", "pick", "setup", "body",
           "teardown", "post", "onFail", "record", "teardownClass", "classEnd",
           "bedEnd", "done"}

\* What a test function may do: return, return False, or raise.
\* "error" is any exception that the framework has no name for.
Raised   == {"fail", "error", "skip", "pass", "abortClass", "abortAll"}
Outcomes == {"none", "false"} \cup Raised

\* In flight after the class: abortAll carries the results, bareAbort does not.
InFlight == {"none", "false"} \cup Raised \cup {"bareAbort", "crash", "actsError"}
Results  == {"PASS", "FAIL", "SKIP", "ERROR"}
Verdicts == {"True", "False", "None"}
BedEnds  == {"passed", "failed", "aborted", "crashed"}
Bad(r)   == r.result \in {"FAIL", "ERROR"}
Record   == [test : 1..Tests, result : Results, ran : BOOLEAN]

Init ==
    /\ bed = 1 /\ ok = "True" /\ runError = FALSE /\ ends = <<>>
    /\ cls = 1 /\ runRecs = {} /\ classError = FALSE
    /\ tornDown = TRUE /\ skipRaised = "no"
    /\ phase = "nextClass"
    /\ test = 1 /\ classRecs = <<>> /\ consecutive = 0
    /\ exc = "none" /\ blockedFrom = "none" /\ aborted = FALSE /\ hooked = FALSE
    /\ attempt = 1 /\ ran = FALSE /\ result = "PASS" /\ extra = FALSE

------------------------------------------------------------------------------
(* BaseTestClass.run: the class *)

\* A new instance of the class is made and run.
StartClass ==
    /\ phase = "nextClass"
    /\ cls <= Classes
    /\ phase' = "setupClass"
    /\ test' = 1 /\ classRecs' = <<>> /\ consecutive' = 0
    /\ exc' = "none" /\ blockedFrom' = "none"
    /\ attempt' = 1 /\ ran' = FALSE /\ result' = "PASS" /\ extra' = FALSE
    /\ classError' = FALSE
    /\ tornDown' = FALSE /\ hooked' = FALSE /\ skipRaised' = "no"
    /\ UNCHANGED <<bedVars, cls, runRecs, aborted>>

\* abort_class skips the tests without a record; anything else that is raised,
\* abort_all included, blocks them, and so does a False.  (So `aborted` is not
\* set: the abort_all ends here.)
SetupClass(o) ==
    /\ phase = "setupClass"
    /\ phase' = CASE o = "false"      -> "block"
                  [] o = "none"       -> "pick"
                  [] o = "abortClass" -> "teardownClass"
                  [] OTHER            -> "block"
    /\ blockedFrom' = CASE o = "false"                -> "false"
                        [] o \in {"none", "abortClass"} -> "none"
                        [] OTHER                        -> "error"
    /\ exc' = IF o = "abortClass" THEN o ELSE "none"
    /\ UNCHANGED <<bedVars, classVars, testVars, test, classRecs, consecutive,
                   aborted, hooked>>

\* _block_all_test_cases: an ERROR record each, then on_skip.  Inside the try
\* (setup_class returned False) an abort_class of on_skip ends the class, and
\* anything else blocks all tests once more; in the except clause nothing is
\* left to catch what it raises.
Block(hook) ==
    /\ phase = "block"
    /\ IF test > Tests
         THEN /\ hook = "none"
              /\ phase' = "teardownClass"
              /\ UNCHANGED <<test, classRecs, exc, blockedFrom, skipRaised>>
         ELSE /\ classRecs' = Append(classRecs, [test |-> test,
                                       result |-> "ERROR", ran |-> FALSE])
              /\ \/ /\ hook = "none"
                    /\ test' = test + 1
                    /\ UNCHANGED <<phase, exc, blockedFrom, skipRaised>>
                 \/ /\ hook = "abortClass" /\ blockedFrom = "false"
                    /\ test' = test + 1
                    /\ phase' = "teardownClass" /\ exc' = "abortClass"
                    /\ UNCHANGED <<blockedFrom, skipRaised>>
                 \/ /\ hook \in {"raise", "abortAll"} /\ blockedFrom = "false"
                    /\ test' = 1 /\ blockedFrom' = "error"
                    /\ skipRaised' = "blockedAgain"
                    /\ UNCHANGED <<phase, exc>>
                 \/ /\ hook # "none" /\ blockedFrom = "error"
                    /\ phase' = "classEnd"
                    /\ exc' \in CASE hook = "raise"    -> {"crash", "actsError"}
                                 [] hook = "abortAll" -> {"bareAbort"}
                                 [] OTHER             -> {"crash"}
                    /\ skipRaised' = "leftRun"
                    /\ UNCHANGED <<test, blockedFrom>>
    /\ aborted' = (aborted \/ exc' = "bareAbort")
    /\ hooked' = (hooked \/ hook # "none")
    /\ UNCHANGED <<bedVars, cls, runRecs, classError, tornDown, testVars, consecutive>>

\* The loop over the tests, up to the call of _setup_test.
Pick ==
    /\ phase = "pick"
    /\ IF test <= Tests
         THEN /\ phase' = "setup"
              /\ attempt' = 1 /\ ran' = FALSE /\ result' = "PASS" /\ extra' = FALSE
              /\ exc' = "none"
         ELSE phase' = "teardownClass" /\ UNCHANGED <<testVars, exc>>
    /\ UNCHANGED <<bedVars, classVars, test, classRecs, consecutive,
                   blockedFrom, aborted, hooked>>

\* The finally of run().  TestAbortAll gets the results before it, in the
\* except clause: one that teardown_class raises has those that mobly's own
\* _teardown_class gave it, or none.  Of anything else that it raises, mobly
\* makes an error of the class in self.results.
TeardownClass(o) ==
    /\ phase = "teardownClass"
    /\ tornDown' = TRUE
    /\ phase' = "classEnd"
    /\ exc' \in IF o = "abortAll" THEN {"abortAll", "bareAbort"} ELSE {exc}
    /\ classError' = (o \in Raised \ {"abortAll"})
    /\ aborted' = (aborted \/ o = "abortAll")
    /\ UNCHANGED <<bedVars, cls, runRecs, skipRaised, testVars, test, classRecs,
                   consecutive, blockedFrom, hooked>>

------------------------------------------------------------------------------
(* exec_one_testcase *)

\* _setup_test and the assertion on what it returns.
SetupTest(o) ==
    /\ phase = "setup"
    /\ exc' = CASE consecutive = Limit -> "error"
                [] o = "false"         -> "fail"
                [] OTHER               -> o
    /\ phase' = IF exc' = "none" THEN "body" ELSE "teardown"
    /\ aborted' = (aborted \/ exc' = "abortAll")
    /\ UNCHANGED <<bedVars, classVars, testVars, test, classRecs, consecutive,
                   blockedFrom, hooked>>

\* The test function.  get_func_with_retry calls it again on a TestFailure
\* ("fail" is also an AssertionError), with teardown_test, setup_test and
\* on_retry before it: then o is what the first of the four to raise raises.
TestBody(o) ==
    /\ phase = "body"
    /\ ran' = TRUE
    /\ \/ /\ o = "fail" /\ attempt < Attempts
          /\ attempt' = attempt + 1
          /\ UNCHANGED <<phase, exc>>
       \/ /\ phase' = "teardown" /\ exc' = o
          /\ UNCHANGED attempt
    /\ aborted' = (aborted \/ o = "abortAll")
    /\ UNCHANGED <<bedVars, classVars, result, extra, test, classRecs,
                   consecutive, blockedFrom, hooked>>

\* tr_record.test_pass / test_fail / ... for what was raised or returned.
ResultOf(e) ==
    CASE e \in {"none", "pass"} -> "PASS"
      [] e = "skip"             -> "SKIP"
      [] e = "error"            -> "ERROR"
      [] OTHER                  -> "FAIL"

\* tr_record.add_error and update_record: an extra error spoils the result.
Spoilt(r) == IF r = "FAIL" THEN "FAIL" ELSE "ERROR"

\* teardown_test: only abort_all goes on, anything else is an extra error.
TeardownTest(o) ==
    /\ phase = "teardown"
    /\ exc' = IF o = "abortAll" THEN o ELSE exc
    /\ extra' = (o \in Raised \ {"abortAll"})
    /\ result' = IF extra' THEN Spoilt(ResultOf(exc')) ELSE ResultOf(exc')
    /\ phase' = "post"
    /\ aborted' = (aborted \/ o = "abortAll")
    /\ UNCHANGED <<bedVars, classVars, attempt, ran, test, classRecs,
                   consecutive, blockedFrom, hooked>>

\* Mutant: an abort_all in a procedure leaves before the record is added.
AfterHookEscapes(hook, label) ==
    /\ result' = IF hook \in {"raise", "abortClass"} THEN Spoilt(result) ELSE result
    /\ exc' = IF hook = "abortAll" THEN hook ELSE exc
    /\ phase' = IF hook = "abortAll" THEN "teardownClass" ELSE label
    /\ aborted' = (aborted \/ hook = "abortAll")
    /\ hooked' = (hooked \/ hook # "none")
    /\ UNCHANGED <<bedVars, classVars, attempt, ran, extra, test, classRecs,
                   blockedFrom>>

\* _exec_procedure_func: what a procedure raises becomes an extra error of
\* the record, abort_all replaces the exception in flight.
AfterHook(hook, label) ==
    /\ result' = IF hook \in {"raise", "abortClass"} THEN Spoilt(result) ELSE result
    /\ exc' = IF hook = "abortAll" THEN hook ELSE exc
    /\ phase' = IF hook = "abortAll" THEN "record" ELSE label
    /\ aborted' = (aborted \/ hook = "abortAll")
    /\ hooked' = (hooked \/ hook # "none")
    /\ UNCHANGED <<bedVars, classVars, attempt, ran, extra, test, classRecs,
                   blockedFrom>>

OnPass(hook) ==
    /\ phase = "post" /\ result = "PASS"
    /\ consecutive' = 0
    /\ AfterHook(hook, "record")

\* Mutant: a skipped test ends the streak.
OnSkipResets(hook) ==
    /\ phase = "post" /\ result = "SKIP"
    /\ consecutive' = 0
    /\ AfterHook(hook, "record")

OnSkip(hook) ==
    /\ phase = "post" /\ result = "SKIP"
    /\ AfterHook(hook, "record")
    /\ UNCHANGED consecutive

\* An ERROR goes through _on_exception and then _on_fail.
OnException(hook) ==
    /\ phase = "post" /\ result = "ERROR"
    /\ AfterHook(hook, "onFail")
    /\ UNCHANGED consecutive

OnFail(hook) ==
    /\ phase = "onFail" \/ (phase = "post" /\ result = "FAIL")
    /\ consecutive' = consecutive + 1
    /\ AfterHook(hook, "record")

\* Mutant: the record of a test that raised is not added.
AddRecordUnlessError ==
    /\ phase = "record"
    /\ classRecs' = IF exc = "error" THEN classRecs
                    ELSE Append(classRecs, [test |-> test,
                                            result |-> result, ran |-> ran])
    /\ test' = test + 1
    /\ phase' = IF exc \in {"abortClass", "abortAll"} THEN "teardownClass" ELSE "pick"
    /\ UNCHANGED <<bedVars, classVars, testVars, consecutive, exc, blockedFrom,
                   aborted, hooked>>

\* Mutant: an abort_all leaves the class without its teardown.
AddRecordSkipsTeardown ==
    /\ phase = "record"
    /\ classRecs' = Append(classRecs, [test |-> test,
                                       result |-> result, ran |-> ran])
    /\ test' = test + 1
    /\ phase' = CASE exc = "abortClass" -> "teardownClass"
                  [] exc = "abortAll"   -> "classEnd"
                  [] OTHER              -> "pick"
    /\ UNCHANGED <<bedVars, classVars, testVars, consecutive, exc, blockedFrom,
                   aborted, hooked>>

\* The innermost finally, then whatever is in flight.
AddRecord ==
    /\ phase = "record"
    /\ classRecs' = Append(classRecs, [test |-> test,
                                       result |-> result, ran |-> ran])
    /\ test' = test + 1
    /\ phase' = IF exc \in {"abortClass", "abortAll"} THEN "teardownClass" ELSE "pick"
    /\ UNCHANGED <<bedVars, classVars, testVars, consecutive, exc, blockedFrom,
                   aborted, hooked>>

------------------------------------------------------------------------------
(* TestRunner.run_test_class and run, act._run_test and _run_tests *)

\* Mutant: one bed that passes is enough.
PyOr(a, b) == IF a = "True" THEN a ELSE b

PyAnd(a, b) == IF a = "True" THEN b ELSE a

\* What TestRunner keeps of the results of a class: which ones occur, an error
\* of the class itself included.
Tallied(recs) ==
    {recs[i].result : i \in DOMAIN recs} \cup (IF classError THEN {"ERROR"} ELSE {})

\* is_all_pass
AllPass(results) == results \cap {"FAIL", "ERROR"} = {}

\* _run_test's return value goes into ok.
Return(v) == ok' = PyAnd(ok, v) /\ phase' = "bedEnd"

Ends(how) == ends' = Append(ends, how)

\* Mutant: the next class runs after an abort_all.
ClassEndGoesOn ==
    /\ phase = "classEnd"
    /\ runRecs' = runRecs \cup Tallied(classRecs)
    /\ cls' = cls + 1
    /\ phase' = "nextClass"
    /\ UNCHANGED <<bedVars, classError, tornDown, skipRaised, testVars, test,
                   classRecs, consecutive, exc, blockedFrom, aborted, hooked>>

ClassEnd ==
    /\ phase = "classEnd"
    /\ CASE exc = "abortAll" ->
              /\ Return("True") /\ Ends("aborted")
              /\ runRecs' = runRecs \cup Tallied(classRecs) /\ cls' = cls
         [] exc \in {"bareAbort", "crash"} ->     \* no e.results; or a crash
              Return("None") /\ Ends("crashed") /\ UNCHANGED <<runRecs, cls>>
         [] OTHER ->                   \* with an ActsError, no results either
              /\ runRecs' = IF exc = "actsError" THEN runRecs
                                                 ELSE runRecs \cup Tallied(classRecs)
              /\ cls' = cls + 1
              /\ phase' = "nextClass" /\ UNCHANGED <<ok, ends>>
    /\ runError' = (runError \/ exc = "actsError")
    /\ UNCHANGED <<bed, classError, tornDown, skipRaised, testVars, test, classRecs,
                   consecutive, exc, blockedFrom, aborted, hooked>>

RunEnd ==
    /\ phase = "nextClass"
    /\ cls > Classes
    /\ Return(IF AllPass(runRecs) /\ ~runError THEN "True" ELSE "False")
    /\ Ends(IF {"FAIL", "ERROR"} \cap runRecs # {} \/ runError THEN "failed" ELSE "passed")
    /\ UNCHANGED <<bed, runError, classVars, testVars, test, classRecs, consecutive,
                   exc, blockedFrom, aborted, hooked>>

\* The next bed gets a runner of its own; after the last one, main() exits.
NextBed ==
    /\ phase = "bedEnd"
    /\ IF bed < Beds
         THEN /\ bed' = bed + 1 /\ cls' = 1 /\ runRecs' = {}
              /\ classRecs' = <<>> /\ exc' = "none"
              /\ aborted' = FALSE /\ runError' = FALSE /\ phase' = "nextClass"
         ELSE /\ phase' = "done"
              /\ UNCHANGED <<bed, cls, runRecs, classRecs, exc, aborted, runError>>
    /\ UNCHANGED <<ok, ends, classError, tornDown, skipRaised, testVars, test,
                   consecutive, blockedFrom, hooked>>

ExitStatus == IF ok = "False" THEN 1 ELSE 0

------------------------------------------------------------------------------
HookOutcomes ==
    {"none"} \cup IF HooksMayRaise THEN {"raise", "abortClass", "abortAll"} ELSE {}

UserCode ==
    \/ \E o \in Outcomes :
         SetupClass(o) \/ SetupTest(o) \/ TestBody(o) \/ TeardownTest(o)
           \/ TeardownClass(o)
    \/ \E hook \in HookOutcomes :
         Block(hook) \/ OnPass(hook) \/ OnSkip(hook) \/ OnException(hook)
           \/ OnFail(hook)

Next ==
    \/ UserCode
    \/ StartClass \/ Pick \/ AddRecord \/ ClassEnd \/ RunEnd \/ NextBed

Spec == Init /\ [][Next]_vars

------------------------------------------------------------------------------
(* Properties *)

TypeOK ==
    /\ bed \in 1..Beds /\ ok \in Verdicts /\ runError \in BOOLEAN /\ ends \in Seq(BedEnds)
    /\ cls \in 1..(Classes + 1) /\ test \in 1..(Tests + 1)
    /\ runRecs \subseteq Results /\ classRecs \in Seq(Record) /\ classError \in BOOLEAN
    /\ phase \in Phases /\ consecutive \in 0..Tests
    /\ exc \in InFlight /\ blockedFrom \in {"none", "false", "error"}
    /\ attempt \in 1..Attempts /\ result \in Results
    /\ tornDown \in BOOLEAN /\ aborted \in BOOLEAN /\ hooked \in BOOLEAN
    /\ skipRaised \in {"no", "blockedAgain", "leftRun"}
    /\ ran \in BOOLEAN /\ extra \in BOOLEAN

\* The tests of a class that a record can stand for, in execution order, get one
\* record each: a class ends with a record for every test, or, if abort_class or
\* abort_all cut it short, for every test up to that one.  (run,
\* exec_one_testcase and _block_all_test_cases, whatever is raised and where,
\* also by an on_* procedure; only what on_skip raises while tests are blocked
\* is excepted: _block_all_test_cases then starts anew, or is left.)
OneRecordPerTest ==
    phase = "classEnd" /\ skipRaised = "no" =>
        /\ \A i \in DOMAIN classRecs : classRecs[i].test = i
        /\ Len(classRecs) = Tests \/ exc \in {"abortClass", "abortAll", "bareAbort"}

\* No test of a class runs unseen: once exec_one_testcase is over, the record
\* of the test that ran is there, also when an on_* procedure raised.
RanIsRecorded ==
    phase \in {"pick", "teardownClass", "classEnd"} /\ ran =>
        /\ classRecs # <<>>
        /\ classRecs[Len(classRecs)].ran /\ classRecs[Len(classRecs)].test = test - 1

\* consecutive_failures is the number of failed or broken tests since the last
\* one that passed; a skipped one neither counts nor ends the streak.  (What
\* on_pass raises spoils the result of a test that has reset the counter.)
Streak(recs) ==
    {i \in DOMAIN recs : Bad(recs[i])
                         /\ \A j \in i..Len(recs) : recs[j].result # "PASS"}
CounterTracksRecords ==
    phase = "pick" /\ ~hooked => consecutive = Cardinality(Streak(classRecs))

\* A class that was set up is torn down before anything else happens in the run,
\* whatever its functions and its on_* procedures raise.  There is one way round
\* the teardown of run(): on_skip raises while tests are blocked in the except
\* clause that a raising setup_class, or on_skip itself, has led to.
ClassesAreTornDown ==
    phase \in {"nextClass", "bedEnd"} /\ skipRaised # "leftRun" => tornDown

\* After an abort_all that a test, its procedures or a teardown raised, no test
\* function is called in this test bed any more, in this class or a later one.
AbortIsFinal == phase = "body" => ~aborted

\* act.py exits with 1 if and only if a test bed got to the end of its run list
\* with a failed or broken test, a class error or an ActsError, and no bed before
\* it crashed: beds that pass, before or after it, do not make up for it, and a
\* crashed one hides the verdict of those after it, as `None and ...` is None.  A
\* bed that is aborted counts as one that passed, whatever its records say.
Fails(b) == ends[b] = "failed" /\ \A a \in 1..(b - 1) : ends[a] # "crashed"
FailedBedFailsRun == ExitStatus = 1 <=> \E b \in DOMAIN ends : Fails(b)
==============================================================================
