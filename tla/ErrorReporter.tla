---------------------------- MODULE ErrorReporter ----------------------------
(***************************************************************************)
(* controllers/sl4a_lib/error_reporter.py: threads whose call failed write *)
(* a report, up to a number of reports, until the reporter is told to      *)
(* accept no more.  Whoever tells it then waits until the counter of the   *)
(* reports in progress is zero.  The counter is changed by += and -= and   *)
(* no lock, that is by a read and a write.                                 *)
(***************************************************************************)
EXTENDS Integers, FiniteSets

CONSTANTS
    Threads,
    MaxReports,   \* max_reports
    MaxRequests   \* bound: calls of create_error_report

ASSUME ReporterAssumption ==
    /\ IsFiniteSet(Threads)
    /\ MaxReports \in Nat /\ MaxRequests \in Nat

VARIABLES
    accepting,      \* _accept_requests
    requestCount,   \* _current_request_count
    ticketNumber,   \* _ticket_number
    epc, read,      \* threads: where in the reporter, and the counter as read
    reports,        \* history: reports written
    torn,           \* history: the counter was written over a newer value
    requests        \* counter for the bound

reporterVars == <<accepting, requestCount, ticketNumber, epc, read, reports, torn,
                  requests>>

ReporterInit ==
    /\ accepting = TRUE /\ requestCount = 0 /\ ticketNumber = 0
    /\ epc = [t \in Threads |-> "idle"] /\ read = [t \in Threads |-> 0]
    /\ reports = 0 /\ torn = FALSE /\ requests = 0

Report(t, from, to) == epc[t] = from /\ epc' = [epc EXCEPT ![t] = to]

\* A request that is not accepted returns at once, and is left out.
CreateErrorReport(t) ==
    /\ Report(t, "idle", "accepted")
    /\ accepting
    /\ requests < MaxRequests /\ requests' = requests + 1
    /\ UNCHANGED <<accepting, requestCount, ticketNumber, read, reports, torn>>

ReadCount(t) ==
    /\ Report(t, "accepted", "adding") \/ Report(t, "written", "subtracting")
    /\ read' = [read EXCEPT ![t] = requestCount]
    /\ UNCHANGED <<accepting, requestCount, ticketNumber, reports, torn, requests>>

WriteCount(t) ==
    /\ \/ Report(t, "adding", "counted") /\ requestCount' = read[t] + 1
       \/ Report(t, "subtracting", "idle") /\ requestCount' = read[t] - 1
    /\ torn' = (torn \/ read[t] # requestCount)
    /\ read' = [read EXCEPT ![t] = 0]
    /\ UNCHANGED <<accepting, ticketNumber, reports, requests>>

\* Mutant: a request that gets no ticket stays counted.
TakeTicketOrLeave(t) ==
    /\ ticketNumber' = ticketNumber + 1
    /\ Report(t, "counted", IF ticketNumber' <= MaxReports THEN "report" ELSE "idle")
    /\ UNCHANGED <<accepting, requestCount, read, reports, torn, requests>>

\* Under the lock of the tickets.
TakeTicket(t) ==
    /\ ticketNumber' = ticketNumber + 1
    /\ Report(t, "counted", IF ticketNumber' <= MaxReports THEN "report" ELSE "written")
    /\ UNCHANGED <<accepting, requestCount, read, reports, torn, requests>>

\* The four parts of the report, which end early or raise, all the same.
WriteReport(t) ==
    /\ Report(t, "report", "written")
    /\ reports' = reports + 1
    /\ UNCHANGED <<accepting, requestCount, ticketNumber, read, torn, requests>>

ReporterStep(t) ==
    ReadCount(t) \/ WriteCount(t) \/ TakeTicket(t) \/ WriteReport(t)

\* finalize_reports: no more requests, and then the end of its loop.
Refuse ==
    /\ accepting' = FALSE
    /\ UNCHANGED <<requestCount, ticketNumber, epc, read, reports, torn, requests>>
NoneInProgress == requestCount <= 0

ReporterTypeOK ==
    /\ accepting \in BOOLEAN /\ torn \in BOOLEAN
    /\ requestCount \in Int /\ ticketNumber \in Nat /\ reports \in Nat
    /\ epc \in [Threads -> {"idle", "accepted", "adding", "counted", "report", "written",
                            "subtracting"}]
    /\ read \in [Threads -> Int] /\ requests \in 0..MaxRequests

\* Those whose request the counter should count.
Counted == {t \in Threads : epc[t] \in {"counted", "report", "written", "subtracting"}}
==============================================================================
