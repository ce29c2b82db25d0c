---------------------------- MODULE MCLogStream ----------------------------
(* Instances of LogStream for TLC.                                          *)
EXTENDS LogStream

\* test_run and a logcat as the framework makes them, and a stream of a test.
MCStreams == {"test_run", "adblog", "class"}
MCStyle   == [test_run |-> <<TESTCASE, TESTCASE, TESTCASE>>,
              adblog   |-> <<TESTCASE>>,
              class    |-> <<TESTCLASS, TESTCLASS, ROOT>>]
============================================================================
