---------------------------- MODULE EventDispatcher ----------------------------
(***************************************************************************)
(* acts/controllers/sl4a_lib/event_dispatcher.py: a thread polls the       *)
(* device for events and sorts them into one queue per name; other threads *)
(* take them from there; the thread that owns the session starts and       *)
(* closes the dispatcher.                                                  *)
(*                                                                         *)
(* _lock guards the dictionary of queues, but get_event_q reads it once    *)
(* more after the lock is released, and taking from a queue needs no lock. *)
(* An action is one critical section, one turn of a loop that keeps the    *)
(* lock, or one step outside of it.                                        *)
(*                                                                         *)
(* An event is a number, given in the order in which the device posts it.  *)
(* A Queue object is a number, too; 0 is a name that is not in the         *)
(* dictionary.                                                             *)
(***************************************************************************)
EXTENDS Naturals, Sequences, FiniteSets

CONSTANTS
    Names,        \* names of events
    Handled,      \* those with a registered handler
    Consumers,    \* threads that take events
    Workers,      \* those that handle_event started, which close() waits for
    Ops,          \* what consumers call, of the six operations below
    NoName,       \* no event name
    MaxEvents,    \* bound: events the device posts
    MaxCalls,     \* bound: calls one consumer makes
    MaxStarts,    \* bound: calls of start()
    PollMayFail   \* environment: eventWait may raise

\* pop_event; wait_for_event, consuming or not what it ignores; pop_all;
\* pop_events; clear_events
AllOps == {"pop", "wait", "peek", "popAll", "popEvents", "clear"}

ASSUME HandledAssumption == Handled \subseteq Names
ASSUME WorkersAssumption == Workers \subseteq Consumers
ASSUME OpsAssumption == Ops \subseteq AllOps
ASSUME NoNameAssumption == NoName \notin Names
ASSUME BoundsAssumption == MaxEvents \in Nat /\ MaxCalls \in Nat /\ MaxStarts \in Nat
ASSUME FailAssumption == PollMayFail \in BOOLEAN

VARIABLES
    started, dict, queues, lock,           \* the dispatcher
    poller, polled, nameOf,                \* the polling thread, the events
    cpc, op, about, queue, hand, ignored,  \* locals of the consumers
    todo, calls,
    owner, starts,                         \* the thread that starts and closes
    strays,                                \* workers of an earlier executor
    taken, gone, putBack                   \* history: events taken from the
                                           \* queues, in that order; dropped;
                                           \* looked at and put back

dispVars  == <<started, dict, queues, lock>>
pollVars  == <<poller, polled, nameOf>>
consVars  == <<cpc, op, about, queue, hand, ignored, todo, calls>>
ownerVars == <<owner, starts, strays>>
histVars  == <<taken, gone, putBack>>
vars == <<dispVars, pollVars, consVars, ownerVars, histVars>>

Events   == 1..MaxEvents
Received == {e \in Events : nameOf[e] # NoName}
Queues   == DOMAIN queues

\* "orphaned": the thread is gone, but _started does not say so; "selfClosed":
\* it called close() and, before the queues were cleared, died of joining itself
\* (or hangs in the join of a worker that comes first, which nobody else notices).
PollerPCs == {"off", "loop", "wait", "dispatch", "ended", "orphaned", "selfClosed"}
Gone == {"off", "ended", "orphaned", "selfClosed"}
ConsPCs == {"idle", "begin", "make", "read", "get", "judge", "back", "makeBack",
            "readBack", "rematch", "popAll", "popEvents", "keyError"}
\* Where a consumer is inside the lock.
Locking == {"popAll", "popEvents"}

Init ==
    /\ started = FALSE
    /\ dict = [n \in Names |-> 0]
    /\ queues = <<>>
    /\ lock = FALSE
    /\ poller = "off" /\ polled = 0
    /\ nameOf = [e \in Events |-> NoName]
    /\ cpc = [c \in Consumers |-> "idle"]
    /\ op = [c \in Consumers |-> "none"]
    /\ about = [c \in Consumers |-> NoName]
    /\ queue = [c \in Consumers |-> 0]
    /\ hand = [c \in Consumers |-> 0]
    /\ ignored = [c \in Consumers |-> <<>>]
    /\ todo = [c \in Consumers |-> {}]
    /\ calls = [c \in Consumers |-> 0]
    /\ owner = "idle" /\ starts = 0 /\ strays = {}
    /\ taken = [n \in Names |-> <<>>]
    /\ gone = {} /\ putBack = {}

Goto(c, label) == cpc' = [cpc EXCEPT ![c] = label]

\* The queue of n, made if the name is not in the dictionary.
EnsureQueue(n) ==
    IF dict[n] # 0 THEN UNCHANGED <<dict, queues>>
    ELSE /\ queues' = Append(queues, <<>>)
         /\ dict' = [dict EXCEPT ![n] = Len(queues')]

------------------------------------------------------------------------------
(* poll_events *)

\* Mutant: while True.
PollLoopBlind ==
    /\ poller = "loop"
    /\ poller' = "wait"
    /\ UNCHANGED <<dispVars, polled, nameOf, consVars, ownerVars, histVars>>

PollLoop ==
    /\ poller = "loop"
    /\ poller' = IF started THEN "wait" ELSE "ended"
    /\ UNCHANGED <<dispVars, polled, nameOf, consVars, ownerVars, histVars>>

PollReceives ==
    /\ poller = "wait"
    /\ \E e \in Events, n \in Names :
         /\ e = Cardinality(Received) + 1
         /\ polled' = e
         /\ nameOf' = [nameOf EXCEPT ![e] = n]
    /\ poller' = "dispatch"
    /\ UNCHANGED <<dispVars, consVars, ownerVars, histVars>>

\* A minute without an event, or an event without a name.
PollReceivesNothing ==
    /\ poller = "wait"
    /\ poller' = "loop"
    /\ UNCHANGED <<dispVars, polled, nameOf, consVars, ownerVars, histVars>>

\* closeSl4aSession has been called: the owner is about to close().
PollSeesShutdown ==
    /\ poller = "wait"
    /\ poller' = "ended"
    /\ UNCHANGED <<dispVars, polled, nameOf, consVars, ownerVars, histVars>>

\* Sl4aConnectionError breaks the loop of a client that is alive; for one that
\* is not, close() returns at once or clears _started and fails to join its own
\* thread.  Any other error ends the thread.
PollFails ==
    /\ poller = "wait"
    /\ PollMayFail
    /\ \/ poller' = "orphaned" /\ UNCHANGED started
       \/ poller' = (IF started THEN "selfClosed" ELSE "ended") /\ started' = FALSE
    /\ UNCHANGED <<dict, queues, lock, polled, nameOf, consVars, ownerVars,
                   histVars>>

\* The log message asks a tuple for its __name__: AttributeError.
DispatchHandled ==
    /\ poller = "dispatch"
    /\ nameOf[polled] \in Handled
    /\ poller' = "orphaned"
    /\ polled' = 0
    /\ gone' = gone \cup {polled}
    /\ UNCHANGED <<dispVars, nameOf, consVars, ownerVars, taken, putBack>>

\* Mutant: every event gets a new queue.
StoreAfresh ==
    /\ poller = "dispatch"
    /\ nameOf[polled] \notin Handled
    /\ ~lock
    /\ queues' = Append(queues, <<polled>>)
    /\ dict' = [dict EXCEPT ![nameOf[polled]] = Len(queues')]
    /\ polled' = 0
    /\ poller' = "loop"
    /\ UNCHANGED <<started, lock, nameOf, consVars, ownerVars, histVars>>

Store ==
    /\ poller = "dispatch"
    /\ nameOf[polled] \notin Handled
    /\ ~lock
    /\ LET n == nameOf[polled] IN
         IF dict[n] # 0
           THEN /\ queues' = [queues EXCEPT ![dict[n]] = Append(@, polled)]
                /\ UNCHANGED dict
           ELSE /\ queues' = Append(queues, <<polled>>)
                /\ dict' = [dict EXCEPT ![n] = Len(queues')]
    /\ polled' = 0
    /\ poller' = "loop"
    /\ UNCHANGED <<started, lock, nameOf, consVars, ownerVars, histVars>>

------------------------------------------------------------------------------
(* The consumers *)

Finish(c) ==
    /\ Goto(c, "idle")
    /\ op' = [op EXCEPT ![c] = "none"]
    /\ about' = [about EXCEPT ![c] = NoName]
    /\ queue' = [queue EXCEPT ![c] = 0]
    /\ hand' = [hand EXCEPT ![c] = 0]
    /\ ignored' = [ignored EXCEPT ![c] = <<>>]
    /\ todo' = [todo EXCEPT ![c] = {}]
    /\ UNCHANGED calls

\* The event e of name n leaves its queue for good.
Take(n, e) == taken' = [taken EXCEPT ![n] = Append(@, e)]

Call(c) ==
    /\ cpc[c] = "idle"
    /\ calls[c] < MaxCalls
    /\ calls' = [calls EXCEPT ![c] = @ + 1]
    /\ \E o \in Ops, n \in Names :
         /\ c \in Workers => o = "pop" /\ started
         /\ op' = [op EXCEPT ![c] = o]
         /\ about' = [about EXCEPT ![c] = n]
    /\ strays' = strays \ {c}
    /\ Goto(c, "begin")
    /\ UNCHANGED <<dispVars, pollVars, queue, hand, ignored, todo, owner, starts,
                   histVars>>

\* IllegalStateError; clear_events alone does not ask.
Refuse(c) ==
    /\ cpc[c] = "begin"
    /\ ~started /\ op[c] # "clear"
    /\ Finish(c)
    /\ gone' = gone \cup {ignored[c][i] : i \in DOMAIN ignored[c]}
    /\ UNCHANGED <<dispVars, pollVars, ownerVars, taken, putBack>>

BeginPop(c) ==
    /\ cpc[c] = "begin"
    /\ op[c] \in {"pop", "wait", "peek"}
    /\ started
    /\ Goto(c, "make")
    /\ UNCHANGED <<dispVars, pollVars, op, about, queue, hand, ignored, todo,
                   calls, ownerVars, histVars>>

\* get_event_q, inside the lock ...
MakeQueue(c) ==
    /\ cpc[c] = "make" \/ (cpc[c] = "makeBack" /\ ignored[c] # <<>>)
    /\ ~lock
    /\ EnsureQueue(about[c])
    /\ Goto(c, IF cpc[c] = "make" THEN "read" ELSE "readBack")
    /\ UNCHANGED <<started, lock, pollVars, op, about, queue, hand, ignored,
                   todo, calls, ownerVars, histVars>>

\* ... and after it: KeyError if the dictionary has been cleared meanwhile.
ReadQueue(c) ==
    /\ cpc[c] \in {"read", "readBack"}
    /\ IF dict[about[c]] = 0 THEN Goto(c, "keyError") /\ UNCHANGED queue
       ELSE /\ Goto(c, IF cpc[c] = "read" THEN "get" ELSE "back")
            /\ queue' = [queue EXCEPT ![c] = dict[about[c]]]
    /\ UNCHANGED <<dispVars, pollVars, op, about, hand, ignored, todo, calls,
                   ownerVars, histVars>>

\* An exception leaves the call, that KeyError or one of predicate(event): what
\* was peeked at is lost, the event in hand included.
Raises(c) ==
    /\ cpc[c] \in {"keyError", "judge"}
    /\ Finish(c)
    /\ gone' = gone \cup {ignored[c][i] : i \in DOMAIN ignored[c]}
    /\ UNCHANGED <<dispVars, pollVars, ownerVars, taken, putBack>>

\* Mutant: the queue is a stack.
GetLatest(c) ==
    /\ cpc[c] = "get"
    /\ LET q == queues[queue[c]] IN
         /\ q # <<>>
         /\ queues' = [queues EXCEPT ![queue[c]] = SubSeq(q, 1, Len(q) - 1)]
         /\ Take(about[c], q[Len(q)])
         /\ Finish(c)
    /\ UNCHANGED <<started, dict, lock, pollVars, ownerVars, gone, putBack>>

Get(c) ==
    /\ cpc[c] = "get"
    /\ queues[queue[c]] # <<>>
    /\ LET e == Head(queues[queue[c]]) IN
         /\ queues' = [queues EXCEPT ![queue[c]] = Tail(@)]
         /\ IF op[c] = "peek"
              THEN ignored' = [ignored EXCEPT ![c] = Append(@, e)] /\ UNCHANGED taken
              ELSE Take(about[c], e) /\ (op[c] = "wait" => UNCHANGED ignored)
         /\ IF op[c] = "pop" THEN Finish(c)
            ELSE /\ hand' = [hand EXCEPT ![c] = e]
                 /\ Goto(c, "judge")
                 /\ UNCHANGED <<op, about, queue, todo, calls>>
    /\ UNCHANGED <<started, dict, lock, pollVars, ownerVars, gone, putBack>>

\* pop_event raises queue.Empty; wait_for_event tries again, or its time is up.
\* The threads of handle_event, called without a timeout, wait on.
GetTimesOut(c) ==
    /\ cpc[c] = "get"
    /\ queues[queue[c]] = <<>>
    /\ c \notin Workers
    /\ \/ op[c] = "pop" /\ Finish(c)
       \/ /\ op[c] # "pop"
          /\ Goto(c, "begin") \/ Goto(c, "makeBack")
          /\ UNCHANGED <<op, about, queue, hand, ignored, todo, calls>>
    /\ UNCHANGED <<dispVars, pollVars, ownerVars, histVars>>

\* predicate(event) holds.  A match that was peeked at is on the list of
\* ignored events like the others.
Match(c) ==
    /\ cpc[c] = "judge"
    /\ hand' = [hand EXCEPT ![c] = 0]
    /\ Goto(c, "makeBack")
    /\ UNCHANGED <<dispVars, pollVars, op, about, queue, ignored, todo, calls,
                   ownerVars, histVars>>

\* It does not: the next try, or the deadline.
Mismatch(c) ==
    /\ cpc[c] = "judge"
    /\ hand' = [hand EXCEPT ![c] = 0]
    /\ Goto(c, "begin") \/ Goto(c, "makeBack")
    /\ UNCHANGED <<dispVars, pollVars, op, about, queue, ignored, todo, calls,
                   ownerVars, histVars>>

\* The put of an ignored event, or the end of the call when none is left.
PutBack(c) ==
    /\ \/ /\ cpc[c] = "makeBack" /\ ignored[c] = <<>>
          /\ Finish(c)
          /\ UNCHANGED <<queues, putBack>>
       \/ /\ cpc[c] = "back"
          /\ queues' = [queues EXCEPT ![queue[c]] = Append(@, Head(ignored[c]))]
          /\ putBack' = putBack \cup {Head(ignored[c])}
          /\ ignored' = [ignored EXCEPT ![c] = Tail(@)]
          /\ Goto(c, "makeBack")
          /\ UNCHANGED <<op, about, queue, hand, todo, calls>>
    /\ UNCHANGED <<started, dict, lock, pollVars, ownerVars, taken, gone>>

BeginPopAll(c) ==
    /\ cpc[c] = "begin" /\ op[c] = "popAll"
    /\ started
    /\ ~lock
    /\ lock' = TRUE
    /\ Goto(c, "popAll")
    /\ UNCHANGED <<started, dict, queues, pollVars, op, about, queue, hand,
                   ignored, todo, calls, ownerVars, histVars>>

\* One get, until queue.Empty or KeyError.
PopAll(c) ==
    /\ cpc[c] = "popAll"
    /\ LET q == IF dict[about[c]] = 0 THEN <<>> ELSE queues[dict[about[c]]] IN
         \/ /\ q = <<>>
            /\ lock' = FALSE
            /\ Finish(c)
            /\ UNCHANGED <<queues, taken>>
         \/ /\ q # <<>>
            /\ queues' = [queues EXCEPT ![dict[about[c]]] = Tail(@)]
            /\ Take(about[c], Head(q))
            /\ UNCHANGED <<lock, consVars>>
    /\ UNCHANGED <<started, dict, pollVars, ownerVars, gone, putBack>>

\* pop_events asks whether the dispatcher runs once, then _match_and_pop takes
\* the lock each time.  The pattern matches every name.
BeginPopEvents(c) ==
    /\ op[c] = "popEvents"
    /\ cpc[c] = "rematch" \/ (cpc[c] = "begin" /\ started)
    /\ ~lock
    /\ lock' = TRUE
    /\ todo' = [todo EXCEPT ![c] = {n \in Names : dict[n] # 0}]
    /\ Goto(c, "popEvents")
    /\ UNCHANGED <<started, dict, queues, pollVars, op, about, queue, hand,
                   ignored, calls, ownerVars, histVars>>

\* An event of one more name, if there is one; hand tells that results is not
\* empty.
PopEvents(c) ==
    /\ cpc[c] = "popEvents"
    /\ \E n \in todo[c] :
         /\ todo' = [todo EXCEPT ![c] = @ \ {n}]
         /\ IF queues[dict[n]] = <<>> THEN UNCHANGED <<queues, hand, taken>>
            ELSE /\ queues' = [queues EXCEPT ![dict[n]] = Tail(@)]
                 /\ Take(n, Head(queues[dict[n]]))
                 /\ hand' = [hand EXCEPT ![c] = Head(queues[dict[n]])]
    /\ UNCHANGED <<started, dict, lock, pollVars, cpc, op, about, queue, ignored,
                   calls, ownerVars, gone, putBack>>

\* The lock is left; with no results, another round or queue.Empty.
PopEventsEnds(c) ==
    /\ cpc[c] = "popEvents"
    /\ todo[c] = {}
    /\ lock' = FALSE
    /\ \/ Finish(c)
       \/ /\ hand[c] = 0
          /\ Goto(c, "rematch")
          /\ UNCHANGED <<op, about, queue, hand, ignored, todo, calls>>
    /\ UNCHANGED <<started, dict, queues, pollVars, ownerVars, histVars>>

ClearEvents(c) ==
    /\ cpc[c] = "begin" /\ op[c] = "clear"
    /\ ~lock
    /\ IF dict[about[c]] = 0
         THEN EnsureQueue(about[c]) /\ UNCHANGED gone
         ELSE LET q == queues[dict[about[c]]] IN
              /\ queues' = [queues EXCEPT ![dict[about[c]]] = <<>>]
              /\ gone' = gone \cup {q[i] : i \in DOMAIN q}
              /\ UNCHANGED dict
    /\ Finish(c)
    /\ UNCHANGED <<started, lock, pollVars, ownerVars, taken, putBack>>

------------------------------------------------------------------------------
(* The owner: start and close *)

\* One polling thread at a time: close() has joined the one before.
Start ==
    /\ owner = "idle"
    /\ ~started
    /\ starts < MaxStarts
    /\ poller \in Gone
    /\ started' = TRUE
    /\ starts' = starts + 1
    /\ poller' = "loop"
    /\ strays' = {c \in Workers : cpc[c] # "idle"}
    /\ UNCHANGED <<dict, queues, lock, polled, nameOf, consVars, owner, histVars>>

CloseBegin ==
    /\ owner = "idle"
    /\ started
    /\ started' = FALSE
    /\ owner' = "joining"
    /\ UNCHANGED <<dict, queues, lock, pollVars, consVars, starts, strays, histVars>>

\* Mutant: the executor is shut down without waiting.
CloseJoinsNot ==
    /\ owner = "joining"
    /\ owner' = "clearing"
    /\ UNCHANGED <<dispVars, pollVars, consVars, starts, strays, histVars>>

\* _executor.shutdown(wait=True), of the executor that the last start() made.
CloseJoins ==
    /\ owner = "joining"
    /\ poller \in Gone
    /\ \A c \in Workers \ strays : cpc[c] = "idle"
    /\ owner' = "clearing"
    /\ UNCHANGED <<dispVars, pollVars, consVars, starts, strays, histVars>>

CloseClears ==
    /\ owner = "clearing"
    /\ ~lock
    /\ dict' = [n \in Names |-> 0]
    /\ owner' = "idle"
    /\ UNCHANGED <<started, queues, lock, pollVars, consVars, starts, strays,
                   histVars>>

------------------------------------------------------------------------------
PollStep ==
    \/ PollLoop \/ PollReceives \/ PollReceivesNothing \/ PollSeesShutdown
    \/ PollFails \/ DispatchHandled \/ Store

ConsStep(c) ==
    \/ Refuse(c) \/ BeginPop(c) \/ MakeQueue(c) \/ ReadQueue(c)
    \/ Raises(c) \/ Get(c) \/ GetTimesOut(c) \/ Match(c)
    \/ Mismatch(c) \/ PutBack(c) \/ BeginPopAll(c) \/ PopAll(c)
    \/ BeginPopEvents(c) \/ PopEvents(c) \/ PopEventsEnds(c) \/ ClearEvents(c)

CloseStep == CloseJoins \/ CloseClears

Next ==
    \/ PollStep \/ Start \/ CloseBegin \/ CloseStep
    \/ \E c \in Consumers : Call(c) \/ ConsStep(c)

Spec == Init /\ [][Next]_vars

(* eventWait answers within its timeout; who has the lock goes on, and so  *)
(* do the threads of the executor; in the second that pop_events sleeps    *)
(* between two rounds, who waits for the lock gets it: strong fairness.    *)
(* Nothing is assumed of other consumers that do not hold the lock.        *)
LockedStep == \E c \in Consumers : PopAll(c) \/ PopEvents(c) \/ PopEventsEnds(c)

FairSpec ==
    /\ Spec
    /\ WF_vars(PollStep) /\ SF_vars(Store) /\ SF_vars(CloseStep)
    /\ WF_vars(LockedStep)
    /\ \A c \in Workers : WF_vars(ConsStep(c)) /\ SF_vars(MakeQueue(c))

------------------------------------------------------------------------------
(* Properties *)

TypeOK ==
    /\ started \in BOOLEAN /\ lock \in BOOLEAN
    /\ queues \in Seq(Seq(Events)) /\ dict \in [Names -> {0} \cup Queues]
    /\ poller \in PollerPCs /\ polled \in {0} \cup Events
    /\ nameOf \in [Events -> Names \cup {NoName}]
    /\ cpc \in [Consumers -> ConsPCs]
    /\ op \in [Consumers -> AllOps \cup {"none"}]
    /\ about \in [Consumers -> Names \cup {NoName}]
    /\ queue \in [Consumers -> {0} \cup Queues]
    /\ hand \in [Consumers -> {0} \cup Events]
    /\ ignored \in [Consumers -> Seq(Events)]
    /\ todo \in [Consumers -> SUBSET Names]
    /\ calls \in [Consumers -> 0..MaxCalls]
    /\ owner \in {"idle", "joining", "clearing"} /\ starts \in 0..MaxStarts
    /\ strays \subseteq Workers
    /\ taken \in [Names -> Seq(Events)]
    /\ gone \subseteq Events /\ putBack \subseteq Events
    /\ lock <=> \E c \in Consumers : cpc[c] \in Locking

Elements(s) == {s[i] : i \in DOMAIN s}

\* Until the dispatcher is closed, an event that was received is to be found:
\* by its name in the dictionary, with a thread that looks at it, or with the
\* caller that took it, unless clear_events dropped it or an exception did that
\* ended the polling thread or a wait_for_event.
Stored(e) == LET q == dict[nameOf[e]] IN q # 0 /\ e \in Elements(queues[q])
NothingLost ==
    started /\ starts = 1 =>
      \A e \in Received :
        \/ e = polled \/ Stored(e) \/ e \in gone
        \/ e \in Elements(taken[nameOf[e]])
        \/ \E c \in Consumers : e \in Elements(ignored[c])

\* pop_event takes "the oldest entry of an event": whatever the operations of
\* several threads, events of one name are taken once each and in the order in
\* which the device posted them.  Not so those that wait_for_event looked at and
\* put back behind the others, and those on a queue that close() took out of the
\* dictionary while a thread waits on it.
OldestFirst ==
    starts = 1 => \A n \in Names : \A i, j \in DOMAIN taken[n] : i < j =>
      \/ taken[n][i] < taken[n][j]
      \/ taken[n][i] # taken[n][j] /\ putBack \cap {taken[n][i], taken[n][j]} # {}

\* A dispatcher that was closed by its owner and is started again knows nothing
\* of what it received before.
FreshStart ==
    [][starts' # starts /\ poller # "selfClosed" =>
         \A n \in Names : dict[n] # 0 => queues[dict[n]] = <<>>]_vars

\* The thread waits on an empty queue, and without a time limit.
Hangs(c) == cpc[c] = "get" /\ queues[queue[c]] = <<>>

\* The owner's close() returns, whatever the consumers and the polling thread
\* are doing and however that thread ended, except where one of the threads it
\* joins never ends, because handle_event made it pop without a timeout an event
\* that does not come.
CloseReturns ==
    <>[](owner # "idle") =>
      \E c \in Workers : <>[](owner = "joining" /\ Hangs(c) /\ c \notin strays)
==============================================================================
