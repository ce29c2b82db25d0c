------------------------ MODULE EventDispatcherProofs ------------------------
(***************************************************************************)
(* The event dispatcher with any names, consumers, calls and events: until *)
(* the first close(), no event is lost, and those of one name are given    *)
(* out in the order in which the device posted them.                       *)
(*                                                                         *)
(* A step is first reduced to its effect on the queues (StepsHaveEffects)  *)
(* and on the dictionary (DictSteps); the invariants about events are then *)
(* shown to be kept by each effect.                                        *)
(***************************************************************************)
EXTENDS EventDispatcher, FiniteSetTheorems, SequenceTheorems, TLAPS

------------------------------------------------------------------------------
(* Sequences of events *)

\* Of two events of one name, e may be given out before f: it was posted before, or
\* one of them is in P, the events that were put back.
Before(P, e, f) == e < f \/ (e # f /\ P \cap {e, f} # {})
Ordered(P, s) == \A i, j \in DOMAIN s : i < j => Before(P, s[i], s[j])
Distinct(s) == \A i, j \in DOMAIN s : i < j => s[i] # s[j]

LEMMA AppendAdds ==
    ASSUME NEW S, NEW s \in Seq(S), NEW e \in S
    PROVE  /\ Append(s, e) \in Seq(S)
           /\ Elements(Append(s, e)) = Elements(s) \cup {e}
<1>1. /\ Append(s, e) \in Seq(S) /\ DOMAIN Append(s, e) = 1..(Len(s) + 1)
      /\ DOMAIN s = 1..Len(s) /\ Len(s) \in Nat
      /\ Append(s, e)[Len(s) + 1] = e
      /\ \A i \in DOMAIN s : Append(s, e)[i] = s[i]
  OBVIOUS
<1>2. ASSUME NEW x PROVE x \in Elements(Append(s, e)) <=> x \in Elements(s) \cup {e}
  BY <1>1 DEF Elements
<1> QED
  BY <1>1, <1>2

LEMMA TailDrops ==
    ASSUME NEW S, NEW s \in Seq(S), s # <<>>
    PROVE  /\ Head(s) \in S /\ Tail(s) \in Seq(S)
           /\ Head(s) = s[1] /\ 1 \in DOMAIN s
           /\ \A i \in DOMAIN Tail(s) : i + 1 \in DOMAIN s /\ Tail(s)[i] = s[i + 1]
           /\ Elements(s) = Elements(Tail(s)) \cup {Head(s)}
<1>1. /\ Head(s) \in S /\ Tail(s) \in Seq(S) /\ Head(s) = s[1]
      /\ Len(s) \in Nat \ {0} /\ DOMAIN s = 1..Len(s)
      /\ DOMAIN Tail(s) = 1..(Len(s) - 1)
      /\ \A i \in DOMAIN Tail(s) : Tail(s)[i] = s[i + 1]
  OBVIOUS
<1>2. ASSUME NEW x \in Elements(s) PROVE x \in Elements(Tail(s)) \cup {Head(s)}
  <2>1. PICK i \in DOMAIN s : x = s[i]
    BY DEF Elements
  <2>2. CASE i = 1
    BY <2>1, <2>2, <1>1
  <2>3. CASE i # 1
    <3>1. i - 1 \in DOMAIN Tail(s) /\ Tail(s)[i - 1] = s[i]
      BY <1>1, <2>3
    <3> QED
      BY <3>1, <2>1 DEF Elements
  <2> QED
    BY <2>2, <2>3
<1>3. ASSUME NEW x \in Elements(Tail(s)) \cup {Head(s)} PROVE x \in Elements(s)
  BY <1>1 DEF Elements
<1> QED
  BY <1>1, <1>2, <1>3

LEMMA OneReplaced ==
    ASSUME NEW S, NEW s \in Seq(S), NEW i \in DOMAIN s, NEW x \in S
    PROVE  /\ [s EXCEPT ![i] = x] \in Seq(S)
           /\ DOMAIN [s EXCEPT ![i] = x] = DOMAIN s
OBVIOUS

LEMMA OrderOfTail ==
    ASSUME NEW P, NEW s \in Seq(Nat), s # <<>>, Ordered(P, s)
    PROVE  /\ Ordered(P, Tail(s))
           /\ \A f \in Elements(Tail(s)) : Before(P, Head(s), f)
           /\ Head(s) \notin Elements(Tail(s))
<1>1. /\ DOMAIN s = 1..Len(s) /\ Len(s) \in Nat /\ DOMAIN Tail(s) = 1..(Len(s) - 1)
      /\ Head(s) = s[1] /\ 1 \in DOMAIN s
      /\ \A i \in DOMAIN Tail(s) : i + 1 \in DOMAIN s /\ Tail(s)[i] = s[i + 1]
  OBVIOUS
<1>2. ASSUME NEW i \in DOMAIN Tail(s), NEW j \in DOMAIN Tail(s), i < j
      PROVE  Before(P, Tail(s)[i], Tail(s)[j])
  <2>1. i + 1 < j + 1
    BY <1>1, <1>2
  <2> QED
    BY <1>1, <2>1 DEF Ordered
<1>3. ASSUME NEW f \in Elements(Tail(s)) PROVE Before(P, Head(s), f)
  <2>1. PICK i \in DOMAIN Tail(s) : f = Tail(s)[i]
    BY DEF Elements
  <2>2. 1 < i + 1
    BY <1>1
  <2> QED
    BY <1>1, <2>1, <2>2 DEF Ordered
<1>4. Head(s) \in Nat /\ ~Before(P, Head(s), Head(s))
  BY DEF Before
<1> QED
  BY <1>2, <1>3, <1>4 DEF Ordered

LEMMA OrderGrows ==
    ASSUME NEW P, NEW R, P \subseteq R
    PROVE  /\ \A e, f : Before(P, e, f) => Before(R, e, f)
           /\ \A s : Ordered(P, s) => Ordered(R, s)
<1>1. \A e, f : Before(P, e, f) => Before(R, e, f)
  BY DEF Before
<1> QED
  BY <1>1 DEF Ordered

LEMMA OrderOfAppend ==
    ASSUME NEW P, NEW s \in Seq(Nat), NEW e \in Nat, Ordered(P, s),
           \A f \in Elements(s) : Before(P, f, e)
    PROVE  Ordered(P, Append(s, e))
<1>1. /\ DOMAIN s = 1..Len(s) /\ Len(s) \in Nat
      /\ DOMAIN Append(s, e) = 1..(Len(s) + 1)
      /\ Append(s, e)[Len(s) + 1] = e
      /\ \A i \in DOMAIN s : Append(s, e)[i] = s[i]
  OBVIOUS
<1>2. ASSUME NEW i \in DOMAIN Append(s, e), NEW j \in DOMAIN Append(s, e), i < j
      PROVE  Before(P, Append(s, e)[i], Append(s, e)[j])
  <2>1. i \in DOMAIN s /\ (j \in DOMAIN s \/ j = Len(s) + 1)
    BY <1>1, <1>2
  <2>2. CASE j \in DOMAIN s
    BY <1>1, <1>2, <2>1, <2>2 DEF Ordered
  <2>3. CASE j = Len(s) + 1
    BY <1>1, <2>1, <2>3 DEF Elements
  <2> QED
    BY <2>1, <2>2, <2>3
<1> QED
  BY <1>2 DEF Ordered

LEMMA DistinctParts ==
    ASSUME NEW s \in Seq(Nat), Distinct(s)
    PROVE  /\ s # <<>> => Distinct(Tail(s)) /\ Head(s) \notin Elements(Tail(s))
           /\ \A e \in Nat : e \notin Elements(s) => Distinct(Append(s, e))
<1>1. /\ DOMAIN s = 1..Len(s) /\ Len(s) \in Nat
      /\ s # <<>> => /\ DOMAIN Tail(s) = 1..(Len(s) - 1)
                     /\ Head(s) = s[1] /\ 1 \in DOMAIN s
                     /\ \A i \in DOMAIN Tail(s) : i + 1 \in DOMAIN s /\ Tail(s)[i] = s[i + 1]
  OBVIOUS
<1>2. ASSUME s # <<>>, NEW i \in DOMAIN Tail(s)
      PROVE  Head(s) # Tail(s)[i] /\ \A j \in DOMAIN Tail(s) : i < j => Tail(s)[i] # Tail(s)[j]
  <2>1. 1 < i + 1 /\ \A j \in DOMAIN Tail(s) : i < j => i + 1 < j + 1
    BY <1>1, <1>2
  <2> QED
    BY <1>1, <1>2, <2>1 DEF Distinct
<1>3. ASSUME NEW e \in Nat, e \notin Elements(s) PROVE Distinct(Append(s, e))
  <2>1. /\ DOMAIN Append(s, e) = 1..(Len(s) + 1)
        /\ Append(s, e)[Len(s) + 1] = e
        /\ \A i \in DOMAIN s : Append(s, e)[i] = s[i]
    OBVIOUS
  <2>2. ASSUME NEW i \in DOMAIN Append(s, e), NEW j \in DOMAIN Append(s, e), i < j
        PROVE  Append(s, e)[i] # Append(s, e)[j]
    <3>1. i \in DOMAIN s /\ (j \in DOMAIN s \/ j = Len(s) + 1)
      BY <1>1, <2>1, <2>2
    <3> QED
      BY <1>1, <1>3, <2>1, <2>2, <3>1 DEF Distinct, Elements
  <2> QED
    BY <2>2 DEF Distinct
<1> QED
  BY <1>2, <1>3 DEF Distinct, Elements

------------------------------------------------------------------------------
(* Types and control *)

ContentTypes ==
    /\ queues \in Seq(Seq(Events))
    /\ ignored \in [Consumers -> Seq(Events)]
    /\ taken \in [Names -> Seq(Events)]
    /\ gone \subseteq Events /\ putBack \subseteq Events
    /\ polled \in {0} \cup Events
    /\ nameOf \in [Events -> Names \cup {NoName}]
DictTypes ==
    /\ dict \in [Names -> {0} \cup Queues]
    /\ queue \in [Consumers -> {0} \cup Queues]
    /\ hand \in [Consumers -> {0} \cup Events]
ThreadTypes ==
    /\ started \in BOOLEAN /\ poller \in PollerPCs
    /\ owner \in {"idle", "joining", "clearing"} /\ starts \in 0..MaxStarts
    /\ strays \subseteq Workers
CallTypes ==
    /\ lock \in BOOLEAN
    /\ cpc \in [Consumers -> ConsPCs]
    /\ op \in [Consumers -> AllOps \cup {"none"}]
    /\ about \in [Consumers -> Names \cup {NoName}]
    /\ todo \in [Consumers -> SUBSET Names]
    /\ calls \in [Consumers -> 0..MaxCalls]
PlainTypes == ThreadTypes /\ CallTypes

\* One consumer is inside the lock, if any.
LockInv ==
    /\ lock <=> \E c \in Consumers : cpc[c] \in Locking
    /\ \A c, d \in Consumers : cpc[c] \in Locking /\ cpc[d] \in Locking => c = d

\* What a consumer knows of its call at each place.
CallInv ==
    \A c \in Consumers :
      /\ cpc[c] = "idle" => op[c] = "none" /\ queue[c] = 0
      /\ cpc[c] # "idle" => about[c] \in Names
      /\ cpc[c] \in {"make", "read", "get"} => op[c] \in {"pop", "wait", "peek"}
      /\ cpc[c] \in {"judge", "makeBack", "readBack", "back"} => op[c] \in {"wait", "peek"}
      /\ cpc[c] \in {"get", "back"} => queue[c] # 0
      /\ cpc[c] \in {"readBack", "back"} => ignored[c] # <<>>
      /\ cpc[c] = "popAll" => op[c] = "popAll"
      /\ cpc[c] \in {"popEvents", "rematch"} => op[c] = "popEvents"
      /\ cpc[c] = "popEvents" => \A n \in todo[c] : dict[n] # 0
      /\ op[c] # "peek" => ignored[c] = <<>>

ThreadInv ==
    /\ poller = "dispatch" <=> polled # 0
    /\ polled # 0 => nameOf[polled] \in Names
    /\ owner # "idle" => ~started /\ starts > 0
    /\ owner = "clearing" => poller \in Gone
    /\ started \/ poller \notin Gone => starts > 0

Types == ContentTypes /\ DictTypes /\ PlainTypes
Control == Types /\ LockInv /\ CallInv /\ ThreadInv

LEMMA ControlInit == Init => Control
<1> SUFFICES ASSUME Init PROVE Control
  OBVIOUS
<1>0. <<>> \in Seq(Events) /\ <<>> \in Seq(Seq(Events))
  OBVIOUS
<1>1. ContentTypes
  BY <1>0 DEF Init, ContentTypes
<1>2. DictTypes
  BY DEF Init, DictTypes
<1>3. PlainTypes
  <2>1. 0 \in 0..MaxCalls /\ 0 \in 0..MaxStarts
    BY BoundsAssumption
  <2>2. /\ cpc \in [Consumers -> ConsPCs] /\ op \in [Consumers -> AllOps \cup {"none"}]
        /\ about \in [Consumers -> Names \cup {NoName}]
        /\ todo \in [Consumers -> SUBSET Names] /\ calls \in [Consumers -> 0..MaxCalls]
    BY <2>1 DEF Init, ConsPCs
  <2> QED
    BY <2>1, <2>2 DEF Init, PlainTypes, ThreadTypes, CallTypes, PollerPCs
<1>4. LockInv /\ CallInv /\ ThreadInv
  BY NoNameAssumption DEF Init, LockInv, CallInv, ThreadInv, Locking, Gone
<1> QED
  BY <1>1, <1>2, <1>4, <1>3 DEF Control, Types

------------------------------------------------------------------------------
(* The threads keep out of each other's variables *)

LEMMA ConsumersLeaveTheThread ==
    ASSUME NEW c \in Consumers, Call(c) \/ ConsStep(c)
    PROVE  /\ UNCHANGED <<started, poller, polled, nameOf, owner, starts>>
           /\ strays' \subseteq strays
<1> USE DEF dispVars, pollVars, ownerVars
<1>1. CASE Call(c)
  BY <1>1 DEF Call
<1>2. CASE Refuse(c) \/ BeginPop(c) \/ MakeQueue(c) \/ ReadQueue(c)
  BY <1>2 DEF Refuse, BeginPop, MakeQueue, ReadQueue
<1>3. CASE Raises(c) \/ Get(c) \/ GetTimesOut(c) \/ Match(c)
  BY <1>3 DEF Raises, Get, GetTimesOut, Match
<1>4. CASE Mismatch(c) \/ PutBack(c) \/ BeginPopAll(c) \/ PopAll(c)
  BY <1>4 DEF Mismatch, PutBack, BeginPopAll, PopAll
<1>5. CASE BeginPopEvents(c) \/ PopEvents(c) \/ PopEventsEnds(c) \/ ClearEvents(c)
  BY <1>5 DEF BeginPopEvents, PopEvents, PopEventsEnds, ClearEvents
<1> QED
  BY <1>1, <1>2, <1>3, <1>4, <1>5 DEF ConsStep

LEMMA OthersLeaveConsumers ==
    ASSUME PollStep \/ Start \/ CloseBegin \/ CloseStep
    PROVE  UNCHANGED <<consVars, lock>>
<1> USE DEF dispVars, pollVars
<1>1. CASE PollStep
  BY <1>1 DEF PollStep, PollLoop, PollReceives, PollReceivesNothing, PollSeesShutdown,
     PollFails, DispatchHandled, Store
<1>2. CASE Start \/ CloseBegin \/ CloseStep
  BY <1>2 DEF Start, CloseBegin, CloseStep, CloseJoins, CloseClears
<1> QED
  BY <1>1, <1>2

LEMMA OthersLeaveTheDictionary ==
    ASSUME PollStep \/ Start \/ CloseBegin \/ CloseStep, ~Store, ~CloseClears
    PROVE  UNCHANGED <<dict, queues>>
<1> USE DEF dispVars
<1>1. CASE PollStep
  BY <1>1 DEF PollStep, PollLoop, PollReceives, PollReceivesNothing, PollSeesShutdown,
     PollFails, DispatchHandled
<1>2. CASE Start \/ CloseBegin \/ CloseStep
  BY <1>2 DEF Start, CloseBegin, CloseStep, CloseJoins
<1> QED
  BY <1>1, <1>2

------------------------------------------------------------------------------
(* What a step does to the events *)

Calm == UNCHANGED <<queues, polled, nameOf, ignored, histVars>>
MakesQueue ==
    queues' = Append(queues, <<>>) /\ UNCHANGED <<polled, nameOf, ignored, histVars>>
Forgets(c) ==
    /\ ignored' = [ignored EXCEPT ![c] = <<>>]
    /\ gone' = gone \cup Elements(ignored[c])
    /\ UNCHANGED <<queues, polled, nameOf, taken, putBack>>
\* n names the queue q.
Named(q, n) ==
    /\ q \in Queues /\ n \in Names
    /\ dict[n] = q \/ \E c \in Consumers : queue[c] = q /\ about[c] = n
Takes(q, n) ==
    /\ Named(q, n) /\ queues[q] # <<>>
    /\ queues' = [queues EXCEPT ![q] = Tail(@)]
    /\ taken' = [taken EXCEPT ![n] = Append(@, Head(queues[q]))]
    /\ UNCHANGED <<polled, nameOf, ignored, gone, putBack>>
Peeks(c) ==
    /\ Named(queue[c], about[c]) /\ queues[queue[c]] # <<>>
    /\ queues' = [queues EXCEPT ![queue[c]] = Tail(@)]
    /\ ignored' = [ignored EXCEPT ![c] = Append(@, Head(queues[queue[c]]))]
    /\ UNCHANGED <<polled, nameOf, histVars>>
PutsBack(c) ==
    /\ Named(queue[c], about[c]) /\ ignored[c] # <<>>
    /\ queues' = [queues EXCEPT ![queue[c]] = Append(@, Head(ignored[c]))]
    /\ putBack' = putBack \cup {Head(ignored[c])}
    /\ ignored' = [ignored EXCEPT ![c] = Tail(@)]
    /\ UNCHANGED <<polled, nameOf, taken, gone>>
Clears(q) ==
    /\ q \in Queues
    /\ queues' = [queues EXCEPT ![q] = <<>>]
    /\ gone' = gone \cup Elements(queues[q])
    /\ UNCHANGED <<polled, nameOf, ignored, taken, putBack>>

Effect ==
    \/ Calm \/ MakesQueue \/ PollReceives \/ DispatchHandled \/ Store
    \/ \E q \in Queues : Clears(q) \/ \E n \in Names : Takes(q, n)
    \/ \E c \in Consumers : Forgets(c) \/ Peeks(c) \/ PutsBack(c)

LEMMA QueuesAreNumbers ==
    ASSUME Types
    PROVE  Queues = 1..Len(queues) /\ Len(queues) \in Nat
BY DEF Types, ContentTypes, Queues

LEMMA FinishForgets ==
    ASSUME Types, NEW c \in Consumers, Finish(c)
    PROVE  /\ ignored' = [ignored EXCEPT ![c] = <<>>]
           /\ ignored[c] = <<>> => ignored' = ignored
BY DEF Types, ContentTypes, Finish

LEMMA StepsHaveEffects ==
    ASSUME Control, [Next]_vars
    PROVE  Effect
<1>1. CASE PollLoop
  BY <1>1 DEF PollLoop, Effect, Calm, dispVars, pollVars, consVars, ownerVars, histVars
<1>2. CASE PollReceives
  BY <1>2 DEF Effect
<1>3. CASE PollReceivesNothing
  BY <1>3 DEF PollReceivesNothing, Effect, Calm, dispVars, pollVars, consVars, ownerVars, histVars
<1>4. CASE PollSeesShutdown
  BY <1>4 DEF PollSeesShutdown, Effect, Calm, dispVars, pollVars, consVars, ownerVars, histVars
<1>5. CASE PollFails
  BY <1>5 DEF PollFails, Effect, Calm, dispVars, pollVars, consVars, ownerVars, histVars
<1>6. CASE DispatchHandled
  BY <1>6 DEF Effect
<1>7. CASE Store
  BY <1>7 DEF Effect
<1>8. CASE Start
  BY <1>8 DEF Start, Effect, Calm, dispVars, pollVars, consVars, ownerVars, histVars
<1>9. CASE CloseBegin
  BY <1>9 DEF CloseBegin, Effect, Calm, dispVars, pollVars, consVars, ownerVars, histVars
<1>10. CASE CloseJoins
  BY <1>10 DEF CloseJoins, Effect, Calm, dispVars, pollVars, consVars, ownerVars, histVars
<1>11. CASE CloseClears
  BY <1>11 DEF CloseClears, Effect, Calm, dispVars, pollVars, consVars, ownerVars, histVars
<1>12. ASSUME NEW c \in Consumers, Call(c) PROVE Effect
  BY <1>12 DEF Call, Effect, Calm, dispVars, pollVars, consVars, ownerVars, histVars
<1>13. ASSUME NEW c \in Consumers, Refuse(c) PROVE Effect
  <2>1. Forgets(c)
    BY <1>13, FinishForgets DEF Refuse, Forgets, Elements, Control, dispVars, pollVars
  <2> QED
    BY <2>1 DEF Effect
<1>14. ASSUME NEW c \in Consumers, BeginPop(c) PROVE Effect
  BY <1>14 DEF BeginPop, Effect, Calm, dispVars, pollVars, consVars, ownerVars, histVars
<1>15. ASSUME NEW c \in Consumers, MakeQueue(c) PROVE Effect
  BY <1>15 DEF MakeQueue, EnsureQueue, Effect, Calm, MakesQueue, pollVars, histVars
<1>16. ASSUME NEW c \in Consumers, ReadQueue(c) PROVE Effect
  BY <1>16 DEF ReadQueue, Effect, Calm, dispVars, pollVars, consVars, ownerVars, histVars
<1>17. ASSUME NEW c \in Consumers, Raises(c) PROVE Effect
  <2>1. Forgets(c)
    BY <1>17, FinishForgets DEF Raises, Forgets, Elements, Control, dispVars, pollVars
  <2> QED
    BY <2>1 DEF Effect
<1>18. ASSUME NEW c \in Consumers, Get(c) PROVE Effect
  <2>1. Named(queue[c], about[c]) /\ queues[queue[c]] # <<>>
    BY <1>18 DEF Get, Named, Control, CallInv, Types, DictTypes
  <2>2. CASE op[c] = "peek"
    <3>1. Peeks(c)
      BY <1>18, <2>1, <2>2 DEF Get, Peeks, pollVars, histVars
    <3> QED
      BY <3>1 DEF Effect
  <2>3. CASE op[c] # "peek"
    <3>1. ignored' = ignored
      <4>1. ignored[c] = <<>>
        BY <2>3 DEF Control, CallInv
      <4>2. CASE op[c] = "pop"
        BY <1>18, <2>3, <4>1, <4>2, FinishForgets DEF Get, Control
      <4>3. CASE op[c] = "wait"
        BY <1>18, <2>3, <4>3 DEF Get
      <4> QED
        BY <1>18, <2>3, <4>2, <4>3 DEF Get, Control, CallInv
    <3>2. Takes(queue[c], about[c])
      BY <1>18, <2>1, <2>3, <3>1 DEF Get, Takes, Take, pollVars
    <3> QED
      BY <2>1, <3>2 DEF Effect, Named
  <2> QED
    BY <2>2, <2>3
<1>19. ASSUME NEW c \in Consumers, GetTimesOut(c) PROVE Effect
  <2>1. ignored' = ignored
    BY <1>19, FinishForgets DEF GetTimesOut, Control, CallInv
  <2> QED
    BY <1>19, <2>1 DEF GetTimesOut, Effect, Calm, dispVars, pollVars
<1>20. ASSUME NEW c \in Consumers, Match(c) PROVE Effect
  BY <1>20 DEF Match, Effect, Calm, dispVars, pollVars, consVars, ownerVars, histVars
<1>21. ASSUME NEW c \in Consumers, Mismatch(c) PROVE Effect
  BY <1>21 DEF Mismatch, Effect, Calm, dispVars, pollVars, consVars, ownerVars, histVars
<1>22. ASSUME NEW c \in Consumers, PutBack(c) PROVE Effect
  <2>1. CASE cpc[c] = "back"
    <3>1. Named(queue[c], about[c]) /\ ignored[c] # <<>>
      BY <2>1 DEF Named, Control, CallInv, Types, DictTypes
    <3>2. PutsBack(c)
      BY <1>22, <2>1, <3>1 DEF PutBack, PutsBack, pollVars
    <3> QED
      BY <3>2 DEF Effect
  <2>2. CASE cpc[c] # "back"
    <3>1. ignored' = ignored
      BY <1>22, <2>2, FinishForgets DEF PutBack, Control
    <3> QED
      BY <1>22, <2>2, <3>1 DEF PutBack, Effect, Calm, pollVars, histVars
  <2> QED
    BY <2>1, <2>2
<1>23. ASSUME NEW c \in Consumers, BeginPopAll(c) PROVE Effect
  BY <1>23 DEF BeginPopAll, Effect, Calm, dispVars, pollVars, consVars, ownerVars, histVars
<1>24. ASSUME NEW c \in Consumers, PopAll(c) PROVE Effect
  <2>1. CASE Finish(c) /\ UNCHANGED <<queues, taken>>
    BY <1>24, <2>1, FinishForgets
       DEF PopAll, Effect, Calm, Control, CallInv, pollVars, histVars
  <2>2. CASE ~(Finish(c) /\ UNCHANGED <<queues, taken>>)
    <3> DEFINE q == dict[about[c]]
    <3>1. Named(q, about[c]) /\ queues[q] # <<>>
      BY <1>24, <2>2 DEF PopAll, Named, Control, CallInv, Types, DictTypes
    <3>2. Takes(q, about[c])
      BY <1>24, <2>2, <3>1 DEF PopAll, Takes, Take, pollVars, consVars
    <3> QED
      BY <3>1, <3>2 DEF Effect, Named
  <2> QED
    BY <2>1, <2>2
<1>25. ASSUME NEW c \in Consumers, BeginPopEvents(c) PROVE Effect
  BY <1>25 DEF BeginPopEvents, Effect, Calm, dispVars, pollVars, consVars, ownerVars, histVars
<1>26. ASSUME NEW c \in Consumers, PopEvents(c) PROVE Effect
  <2>1. PICK n \in todo[c] :
          IF queues[dict[n]] = <<>> THEN UNCHANGED <<queues, hand, taken>>
          ELSE /\ queues' = [queues EXCEPT ![dict[n]] = Tail(@)]
               /\ Take(n, Head(queues[dict[n]]))
    BY <1>26 DEF PopEvents
  <2>2. Named(dict[n], n)
    BY <1>26 DEF PopEvents, Named, Control, CallInv, Types, DictTypes, PlainTypes, CallTypes
  <2>3. CASE queues[dict[n]] = <<>>
    BY <1>26, <2>1, <2>3 DEF PopEvents, Effect, Calm, pollVars, histVars
  <2>4. CASE queues[dict[n]] # <<>>
    <3>1. Takes(dict[n], n)
      BY <1>26, <2>1, <2>2, <2>4 DEF PopEvents, Takes, Take, pollVars
    <3> QED
      BY <2>2, <3>1 DEF Effect, Named
  <2> QED
    BY <2>3, <2>4
<1>27. ASSUME NEW c \in Consumers, PopEventsEnds(c) PROVE Effect
  <2>1. ignored' = ignored
    BY <1>27, FinishForgets DEF PopEventsEnds, Control, CallInv
  <2> QED
    BY <1>27, <2>1 DEF PopEventsEnds, Effect, Calm, pollVars
<1>28. ASSUME NEW c \in Consumers, ClearEvents(c) PROVE Effect
  <2>1. ignored' = ignored
    BY <1>28, FinishForgets DEF ClearEvents, Control, CallInv
  <2>2. CASE dict[about[c]] = 0
    BY <1>28, <2>1, <2>2
       DEF ClearEvents, EnsureQueue, Effect, MakesQueue, pollVars, histVars
  <2>3. CASE dict[about[c]] # 0
    <3>1. dict[about[c]] \in Queues
      BY <1>28, <2>3 DEF ClearEvents, Control, CallInv, Types, DictTypes
    <3>2. Clears(dict[about[c]])
      BY <1>28, <2>1, <2>3, <3>1 DEF ClearEvents, Clears, Elements, pollVars
    <3> QED
      BY <3>1, <3>2 DEF Effect
  <2> QED
    BY <2>2, <2>3
<1>29. CASE UNCHANGED vars
  BY <1>29 DEF vars, Effect, Calm, dispVars, pollVars, consVars, histVars
<1>30. ASSUME NEW c \in Consumers, Call(c) \/ ConsStep(c) PROVE Effect
  BY <1>30, <1>12, <1>13, <1>14, <1>15, <1>16, <1>17, <1>18, <1>19, <1>20, <1>21,
     <1>22, <1>23, <1>24, <1>25, <1>26, <1>27, <1>28 DEF ConsStep
<1>31. CASE PollStep
  BY <1>31, <1>1, <1>2, <1>3, <1>4, <1>5, <1>6, <1>7 DEF PollStep
<1> QED
  BY <1>8, <1>9, <1>10, <1>11, <1>29, <1>30, <1>31 DEF Next, CloseStep

------------------------------------------------------------------------------
(* Types and control are kept *)

LEMMA EventsAreNumbers == Events \in SUBSET (Nat \ {0})
BY BoundsAssumption DEF Events

LEMMA EffectKeepsContentTypes ==
    ASSUME Control, Effect
    PROVE  ContentTypes' /\ Queues \subseteq Queues'
<1> USE DEF ContentTypes
<1>0. /\ ContentTypes /\ Queues = 1..Len(queues) /\ Len(queues) \in Nat
      /\ \A q \in Queues : queues[q] \in Seq(Events)
  BY QueuesAreNumbers DEF Control, Types
<1>a. ASSUME NEW s \in Seq(Events) PROVE Elements(s) \subseteq Events
  BY DEF Elements
<1>b. <<>> \in Seq(Events)
  OBVIOUS
<1>c. ASSUME NEW q \in Queues, NEW s \in Seq(Events), queues' = [queues EXCEPT ![q] = s]
      PROVE  queues' \in Seq(Seq(Events)) /\ Queues' = Queues
  BY <1>0, <1>c, OneReplaced DEF Queues
<1>d. ASSUME NEW s \in Seq(Events), queues' = Append(queues, s)
      PROVE  queues' \in Seq(Seq(Events)) /\ Queues \subseteq Queues'
  BY <1>0, <1>d DEF Queues
<1>1. CASE Calm
  BY <1>0, <1>1 DEF Calm, histVars, Queues
<1>2. CASE MakesQueue
  BY <1>0, <1>2, <1>b, <1>d DEF MakesQueue, histVars
<1>3. CASE PollReceives
  BY <1>0, <1>3 DEF PollReceives, dispVars, consVars, histVars, Queues
<1>4. CASE DispatchHandled
  BY <1>0, <1>4 DEF DispatchHandled, Control, ThreadInv, dispVars, consVars, Queues
<1>5. CASE Store
  <2>1. polled \in Events /\ nameOf[polled] \in Names
    BY <1>0, <1>5 DEF Store, Control, ThreadInv
  <2>2. <<polled>> \in Seq(Events)
    BY <2>1
  <2>3. queues' \in Seq(Seq(Events)) /\ Queues \subseteq Queues'
    <3>1. CASE dict[nameOf[polled]] = 0
      BY <1>5, <2>2, <3>1, <1>d DEF Store
    <3>2. CASE dict[nameOf[polled]] # 0
      <4>1. dict[nameOf[polled]] \in Queues
        BY <2>1, <3>2 DEF Control, Types, DictTypes
      <4>2. Append(queues[dict[nameOf[polled]]], polled) \in Seq(Events)
        BY <1>0, <2>1, <4>1, AppendAdds
      <4> QED
        BY <1>5, <3>2, <4>1, <4>2, <1>c DEF Store
    <3> QED
      BY <3>1, <3>2
  <2> QED
    BY <1>0, <1>5, <2>3 DEF Store, consVars, histVars
<1>6. ASSUME NEW q \in Queues, Clears(q) PROVE ContentTypes' /\ Queues \subseteq Queues'
  <2>1. queues' \in Seq(Seq(Events)) /\ Queues \subseteq Queues'
    BY <1>6, <1>b, <1>c DEF Clears
  <2> QED
    BY <1>0, <1>6, <2>1, <1>a DEF Clears
<1>7. ASSUME NEW q \in Queues, NEW n \in Names, Takes(q, n)
      PROVE  ContentTypes' /\ Queues \subseteq Queues'
  <2>1. Head(queues[q]) \in Events /\ Tail(queues[q]) \in Seq(Events)
    BY <1>0, <1>7, TailDrops DEF Takes
  <2>2. queues' \in Seq(Seq(Events)) /\ Queues \subseteq Queues'
    BY <1>7, <2>1, <1>c DEF Takes
  <2>3. taken' \in [Names -> Seq(Events)]
    BY <1>0, <1>7, <2>1, AppendAdds DEF Takes
  <2> QED
    BY <1>0, <1>7, <2>2, <2>3 DEF Takes
<1>8. ASSUME NEW c \in Consumers, Forgets(c) PROVE ContentTypes' /\ Queues \subseteq Queues'
  BY <1>0, <1>8, <1>a, <1>b DEF Forgets, Queues
<1>9. ASSUME NEW c \in Consumers, Peeks(c) PROVE ContentTypes' /\ Queues \subseteq Queues'
  <2>1. /\ Head(queues[queue[c]]) \in Events /\ Tail(queues[queue[c]]) \in Seq(Events)
        /\ queue[c] \in Queues
    BY <1>0, <1>9, TailDrops DEF Peeks, Named
  <2>2. queues' \in Seq(Seq(Events)) /\ Queues \subseteq Queues'
    BY <1>9, <2>1, <1>c DEF Peeks
  <2>3. ignored' \in [Consumers -> Seq(Events)]
    BY <1>0, <1>9, <2>1, AppendAdds DEF Peeks
  <2> QED
    BY <1>0, <1>9, <2>2, <2>3 DEF Peeks, histVars
<1>10. ASSUME NEW c \in Consumers, PutsBack(c) PROVE ContentTypes' /\ Queues \subseteq Queues'
  <2>1. /\ Head(ignored[c]) \in Events /\ Tail(ignored[c]) \in Seq(Events)
        /\ queue[c] \in Queues
    BY <1>0, <1>10, TailDrops DEF PutsBack, Named
  <2>2. Append(queues[queue[c]], Head(ignored[c])) \in Seq(Events)
    BY <1>0, <2>1, AppendAdds
  <2>3. queues' \in Seq(Seq(Events)) /\ Queues \subseteq Queues'
    BY <1>10, <2>1, <2>2, <1>c DEF PutsBack
  <2>4. ignored' \in [Consumers -> Seq(Events)] /\ putBack' \subseteq Events
    BY <1>0, <1>10, <2>1 DEF PutsBack
  <2> QED
    BY <1>0, <1>10, <2>3, <2>4 DEF PutsBack
<1> QED
  BY <1>1, <1>2, <1>3, <1>4, <1>5, <1>6, <1>7, <1>8, <1>9, <1>10 DEF Effect

\* A get ends the call of pop_event, and leaves the others with the event.
GetResult(c) ==
    /\ Head(queues[queue[c]]) \in Events
    /\ cpc[c] = "get" /\ about[c] \in Names
    /\ UNCHANGED <<started, dict, lock, poller, ownerVars>>
    /\ \/ op[c] = "pop" /\ Finish(c)
       \/ /\ op[c] \in {"wait", "peek"} /\ Goto(c, "judge")
          /\ hand' = [hand EXCEPT ![c] = Head(queues[queue[c]])]
          /\ UNCHANGED <<op, about, queue, todo, calls>>
          /\ \/ ignored' = ignored
             \/ /\ op[c] = "peek"
                /\ ignored' = [ignored EXCEPT ![c] = Append(@, Head(queues[queue[c]]))]

LEMMA GetOutcome ==
    ASSUME Control, NEW c \in Consumers, Get(c)
    PROVE  GetResult(c)
<1>1. queue[c] \in Queues /\ queues[queue[c]] \in Seq(Events)
  BY QueuesAreNumbers DEF Get, Control, CallInv, Types, DictTypes, ContentTypes
<1>2. Head(queues[queue[c]]) \in Events
  BY <1>1, TailDrops DEF Get
<1>3. CASE op[c] = "pop"
  BY <1>2, <1>3 DEF Get, GetResult, Control, CallInv, pollVars
<1>4. CASE op[c] = "wait"
  BY <1>2, <1>4 DEF Get, GetResult, Control, CallInv, pollVars
<1>5. CASE op[c] = "peek"
  BY <1>2, <1>5 DEF Get, GetResult, Control, CallInv, pollVars
<1> QED
  BY <1>3, <1>4, <1>5 DEF Get, Control, CallInv

\* What a step does to the dictionary, and to the queue a consumer holds.
NewName(n) ==
    /\ dict[n] = 0
    /\ Len(queues') = Len(queues) + 1
    /\ dict' = [dict EXCEPT ![n] = Len(queues')]
DictStep ==
    \/ dict' = dict /\ Queues' = Queues
    \/ \E n \in Names : NewName(n)
    \/ CloseClears
QueueStep ==
    \A c \in Consumers :
      \/ queue'[c] = 0
      \/ about'[c] = about[c] /\ queue'[c] \in {queue[c], dict[about[c]]} /\ about[c] \in Names

LEMMA DictSteps ==
    ASSUME Control, [Next]_vars
    PROVE  DictStep /\ QueueStep
<1> USE QueuesAreNumbers, OneReplaced DEF Control, CallInv, Types, ContentTypes,
        DictTypes, PlainTypes, CallTypes, DictStep, QueueStep, NewName, Queues
<1>1. CASE Store
  <2> DEFINE n == nameOf[polled]
  <2>1. n \in Names
    BY <1>1 DEF Store, Control, ThreadInv
  <2>2. QueueStep
    BY <1>1 DEF Store, QueueStep, Control, CallInv, consVars
  <2>3. CASE dict[n] = 0
    <3>1. Len(queues') = Len(queues) + 1
      BY <1>1, <2>3 DEF Store, Control, Types, ContentTypes
    <3> QED
      BY <1>1, <2>1, <2>2, <2>3, <3>1 DEF Store, DictStep, NewName
  <2>4. CASE dict[n] # 0
    BY <1>1, <2>2, <2>4 DEF Store, DictStep, Queues
  <2> QED
    BY <2>3, <2>4
<1>2. CASE CloseClears
  BY <1>2 DEF CloseClears, pollVars, consVars, histVars
<1>3. CASE (PollStep \/ Start \/ CloseBegin \/ CloseStep) /\ ~Store /\ ~CloseClears
  BY <1>3, OthersLeaveConsumers, OthersLeaveTheDictionary DEF consVars
<1>4. ASSUME NEW c \in Consumers, Call(c) PROVE DictStep /\ QueueStep
  BY <1>4 DEF Call, dispVars, pollVars, ownerVars, histVars, Goto
<1>5. ASSUME NEW c \in Consumers, Refuse(c) PROVE DictStep /\ QueueStep
  BY <1>5 DEF Refuse, dispVars, pollVars, ownerVars, Finish, Goto
<1>6. ASSUME NEW c \in Consumers, BeginPop(c) PROVE DictStep /\ QueueStep
  BY <1>6 DEF BeginPop, dispVars, pollVars, ownerVars, histVars, Goto
<1>7. ASSUME NEW c \in Consumers, MakeQueue(c) PROVE DictStep /\ QueueStep
  BY <1>7 DEF MakeQueue, pollVars, ownerVars, histVars, Goto, EnsureQueue
<1>8. ASSUME NEW c \in Consumers, ReadQueue(c) PROVE DictStep /\ QueueStep
  BY <1>8 DEF ReadQueue, dispVars, pollVars, ownerVars, histVars, Goto
<1>9. ASSUME NEW c \in Consumers, Raises(c) PROVE DictStep /\ QueueStep
  BY <1>9 DEF Raises, dispVars, pollVars, ownerVars, Finish, Goto
<1>10. ASSUME NEW c \in Consumers, Get(c) PROVE DictStep /\ QueueStep
  <2>1. GetResult(c)
    BY <1>10, GetOutcome
  <2>2. Queues' = Queues
    BY <1>10 DEF Get
  <2>3. QueueStep
    BY <2>1 DEF GetResult, Finish
  <2> QED
    BY <2>1, <2>2, <2>3 DEF GetResult
<1>11. ASSUME NEW c \in Consumers, GetTimesOut(c) PROVE DictStep /\ QueueStep
  BY <1>11 DEF GetTimesOut, dispVars, pollVars, ownerVars, histVars, Finish, Goto
<1>12. ASSUME NEW c \in Consumers, Match(c) PROVE DictStep /\ QueueStep
  BY <1>12 DEF Match, dispVars, pollVars, ownerVars, histVars, Goto
<1>13. ASSUME NEW c \in Consumers, Mismatch(c) PROVE DictStep /\ QueueStep
  BY <1>13 DEF Mismatch, dispVars, pollVars, ownerVars, histVars, Goto
<1>14. ASSUME NEW c \in Consumers, PutBack(c) PROVE DictStep /\ QueueStep
  BY <1>14 DEF PutBack, pollVars, ownerVars, Finish, Goto
<1>15. ASSUME NEW c \in Consumers, BeginPopAll(c) PROVE DictStep /\ QueueStep
  BY <1>15 DEF BeginPopAll, pollVars, ownerVars, histVars, Goto
<1>16. ASSUME NEW c \in Consumers, PopAll(c) PROVE DictStep /\ QueueStep
  BY <1>16 DEF PopAll, pollVars, consVars, ownerVars, Finish, Goto
<1>17. ASSUME NEW c \in Consumers, BeginPopEvents(c) PROVE DictStep /\ QueueStep
  BY <1>17 DEF BeginPopEvents, pollVars, ownerVars, histVars, Goto
<1>18. ASSUME NEW c \in Consumers, PopEvents(c) PROVE DictStep /\ QueueStep
  BY <1>18 DEF PopEvents, pollVars, ownerVars
<1>19. ASSUME NEW c \in Consumers, PopEventsEnds(c) PROVE DictStep /\ QueueStep
  BY <1>19 DEF PopEventsEnds, pollVars, ownerVars, histVars, Finish, Goto
<1>20. ASSUME NEW c \in Consumers, ClearEvents(c) PROVE DictStep /\ QueueStep
  BY <1>20 DEF ClearEvents, pollVars, ownerVars, Finish, Goto, EnsureQueue
<1>21. CASE UNCHANGED vars
  BY <1>21 DEF vars, dispVars, pollVars, consVars, ownerVars, histVars
<1>22. ASSUME NEW c \in Consumers, Call(c) \/ ConsStep(c) PROVE DictStep /\ QueueStep
  BY <1>22, <1>4, <1>5, <1>6, <1>7, <1>8, <1>9, <1>10, <1>11, <1>12, <1>13,
     <1>14, <1>15, <1>16, <1>17, <1>18, <1>19, <1>20 DEF ConsStep
<1> QED
  BY <1>1, <1>2, <1>3, <1>21, <1>22 DEF Next, CloseStep, PollStep

Hands ==
    /\ queue \in [Consumers -> Nat]
    /\ hand \in [Consumers -> {0} \cup Events]

LEMMA FinishEmptiesHands ==
    ASSUME Hands, NEW c \in Consumers, Finish(c)
    PROVE  Hands'
BY DEF Hands, Finish


LEMMA DictTypesKept ==
    ASSUME Control, DictStep, QueueStep, ContentTypes', Queues \subseteq Queues',
           Hands'
    PROVE  DictTypes'
<1>0. Queues = 1..Len(queues) /\ Queues' = 1..Len(queues') /\ Len(queues') \in Nat
  BY QueuesAreNumbers DEF Control, Types, ContentTypes, Queues
<1>1. dict' \in [Names -> {0} \cup Queues']
  <2>1. ASSUME NEW n \in Names, NewName(n) PROVE dict' \in [Names -> {0} \cup Queues']
    BY <1>0, <2>1 DEF NewName, Control, Types, DictTypes
  <2> QED
    BY <2>1 DEF DictStep, CloseClears, Control, Types, DictTypes
<1>2. ASSUME NEW c \in Consumers PROVE queue'[c] \in {0} \cup Queues'
  BY DEF QueueStep, Control, Types, DictTypes
<1> QED
  BY <1>1, <1>2 DEF DictTypes, Hands

LEMMA ThreadTypesKept ==
    ASSUME Control, [Next]_vars
    PROVE  ThreadTypes'
<1> USE DEF ThreadTypes
<1>0. ThreadTypes /\ MaxStarts \in Nat
  BY BoundsAssumption DEF Control, Types, PlainTypes
<1>1. CASE PollStep
  BY <1>0, <1>1 DEF PollStep, PollLoop, PollReceives, PollReceivesNothing, PollSeesShutdown,
     PollFails, DispatchHandled, Store, dispVars, ownerVars, PollerPCs
<1>2. CASE Start
  BY <1>0, <1>2 DEF Start, PollerPCs
<1>3. CASE CloseBegin \/ CloseStep
  BY <1>0, <1>3 DEF CloseBegin, CloseStep, CloseJoins, CloseClears, dispVars, pollVars
<1>4. ASSUME NEW c \in Consumers, Call(c) \/ ConsStep(c) PROVE ThreadTypes'
  BY <1>0, <1>4, ConsumersLeaveTheThread DEF ownerVars
<1>5. CASE UNCHANGED vars
  BY <1>0, <1>5 DEF vars, dispVars, pollVars, ownerVars
<1> QED
  BY <1>1, <1>2, <1>3, <1>4, <1>5 DEF Next

LEMMA CallTypesKept ==
    ASSUME Control, [Next]_vars
    PROVE  CallTypes'
<1> USE DEF CallTypes, ConsPCs
<1>0. CallTypes /\ MaxCalls \in Nat /\ Ops \subseteq AllOps
  BY BoundsAssumption, OpsAssumption DEF Control, Types, PlainTypes
<1>1. CASE PollStep \/ Start \/ CloseBegin \/ CloseStep
  BY <1>0, <1>1, OthersLeaveConsumers DEF consVars
<1>2. ASSUME NEW c \in Consumers, Call(c) PROVE CallTypes'
  BY <1>0, <1>2 DEF Call, dispVars, pollVars, ownerVars, histVars, Goto
<1>3. ASSUME NEW c \in Consumers, Refuse(c) PROVE CallTypes'
  BY <1>0, <1>3 DEF Refuse, dispVars, pollVars, ownerVars, Finish, Goto
<1>4. ASSUME NEW c \in Consumers, BeginPop(c) PROVE CallTypes'
  BY <1>0, <1>4 DEF BeginPop, dispVars, pollVars, ownerVars, histVars, Goto
<1>5. ASSUME NEW c \in Consumers, MakeQueue(c) PROVE CallTypes'
  BY <1>0, <1>5 DEF MakeQueue, pollVars, ownerVars, histVars, Goto, EnsureQueue
<1>6. ASSUME NEW c \in Consumers, ReadQueue(c) PROVE CallTypes'
  BY <1>0, <1>6 DEF ReadQueue, dispVars, pollVars, ownerVars, histVars, Goto
<1>7. ASSUME NEW c \in Consumers, Raises(c) PROVE CallTypes'
  BY <1>0, <1>7 DEF Raises, dispVars, pollVars, ownerVars, Finish, Goto
<1>8. ASSUME NEW c \in Consumers, Get(c) PROVE CallTypes'
  <2>0. GetResult(c)
    BY <1>0, <1>8, GetOutcome
  <2>1. CASE op[c] = "pop" /\ Finish(c)
    BY <1>0, <1>8, <2>1, <2>0 DEF GetResult, Finish, Goto, ownerVars
  <2>2. CASE Goto(c, "judge") /\ UNCHANGED <<op, about, queue, todo, calls>>
    BY <1>0, <1>8, <2>2, <2>0 DEF GetResult, Goto, ownerVars
  <2> QED
    BY <1>0, <2>0, <2>1, <2>2 DEF GetResult
<1>9. ASSUME NEW c \in Consumers, GetTimesOut(c) PROVE CallTypes'
  BY <1>0, <1>9 DEF GetTimesOut, dispVars, pollVars, ownerVars, histVars, Finish, Goto
<1>10. ASSUME NEW c \in Consumers, Match(c) PROVE CallTypes'
  BY <1>0, <1>10 DEF Match, dispVars, pollVars, ownerVars, histVars, Goto
<1>11. ASSUME NEW c \in Consumers, Mismatch(c) PROVE CallTypes'
  BY <1>0, <1>11 DEF Mismatch, dispVars, pollVars, ownerVars, histVars, Goto
<1>12. ASSUME NEW c \in Consumers, PutBack(c) PROVE CallTypes'
  BY <1>0, <1>12 DEF PutBack, pollVars, ownerVars, Finish, Goto
<1>13. ASSUME NEW c \in Consumers, BeginPopAll(c) PROVE CallTypes'
  BY <1>0, <1>13 DEF BeginPopAll, pollVars, ownerVars, histVars, Goto
<1>14. ASSUME NEW c \in Consumers, PopAll(c) PROVE CallTypes'
  BY <1>0, <1>14 DEF PopAll, pollVars, consVars, ownerVars, Finish, Goto
<1>15. ASSUME NEW c \in Consumers, BeginPopEvents(c) PROVE CallTypes'
  BY <1>0, <1>15 DEF BeginPopEvents, pollVars, ownerVars, histVars, Goto
<1>16. ASSUME NEW c \in Consumers, PopEvents(c) PROVE CallTypes'
  BY <1>0, <1>16 DEF PopEvents, pollVars, ownerVars
<1>17. ASSUME NEW c \in Consumers, PopEventsEnds(c) PROVE CallTypes'
  BY <1>0, <1>17 DEF PopEventsEnds, pollVars, ownerVars, histVars, Finish, Goto
<1>18. ASSUME NEW c \in Consumers, ClearEvents(c) PROVE CallTypes'
  BY <1>0, <1>18 DEF ClearEvents, pollVars, ownerVars, Finish, Goto, EnsureQueue
<1>19. CASE UNCHANGED vars
  BY <1>0, <1>19 DEF vars, dispVars, pollVars, consVars, ownerVars, histVars
<1>20. ASSUME NEW c \in Consumers, Call(c) \/ ConsStep(c) PROVE CallTypes'
  BY <1>20, <1>2, <1>3, <1>4, <1>5, <1>6, <1>7, <1>8, <1>9, <1>10, <1>11, <1>12, <1>13,
     <1>14, <1>15, <1>16, <1>17, <1>18 DEF ConsStep
<1> QED
  BY <1>1, <1>19, <1>20 DEF Next

LEMMA HandsKept ==
    ASSUME Control, [Next]_vars
    PROVE  Hands'
<1> USE DEF Hands
<1>0. /\ Hands /\ \A n \in Names : dict[n] \in Nat
      /\ \A c \in Consumers : about[c] \in Names \/ cpc[c] = "idle"
  <2>1. {0} \cup Queues \subseteq Nat
    BY QueuesAreNumbers DEF Control
  <2> QED
    BY <2>1 DEF Control, Types, DictTypes, CallInv
<1>1. CASE PollStep \/ Start \/ CloseBegin \/ CloseStep
  BY <1>0, <1>1, OthersLeaveConsumers DEF consVars, Hands
<1>2. ASSUME NEW c \in Consumers, Call(c) PROVE Hands'
  BY <1>0, <1>2 DEF Call
<1>3. ASSUME NEW c \in Consumers, Refuse(c) PROVE Hands'
  BY <1>0, <1>3 DEF Refuse, Finish
<1>4. ASSUME NEW c \in Consumers, BeginPop(c) PROVE Hands'
  BY <1>0, <1>4 DEF BeginPop
<1>5. ASSUME NEW c \in Consumers, MakeQueue(c) PROVE Hands'
  BY <1>0, <1>5 DEF MakeQueue, EnsureQueue
<1>6. ASSUME NEW c \in Consumers, ReadQueue(c) PROVE Hands'
  BY <1>0, <1>6 DEF ReadQueue
<1>7. ASSUME NEW c \in Consumers, Raises(c) PROVE Hands'
  BY <1>0, <1>7 DEF Raises, Finish
<1>8. ASSUME NEW c \in Consumers, Get(c) PROVE Hands'
  <2>0. GetResult(c)
    BY <1>8, GetOutcome
  <2>1. CASE Finish(c)
    BY <1>0, <2>1, FinishEmptiesHands
  <2>2. CASE ~Finish(c)
    BY <1>0, <2>2, <2>0 DEF GetResult, Hands
  <2> QED
    BY <2>1, <2>2
<1>9. ASSUME NEW c \in Consumers, GetTimesOut(c) PROVE Hands'
  BY <1>0, <1>9 DEF GetTimesOut, Finish
<1>10. ASSUME NEW c \in Consumers, Match(c) PROVE Hands'
  BY <1>0, <1>10 DEF Match
<1>11. ASSUME NEW c \in Consumers, Mismatch(c) PROVE Hands'
  BY <1>0, <1>11 DEF Mismatch
<1>12. ASSUME NEW c \in Consumers, PutBack(c) PROVE Hands'
  <2>1. Finish(c) \/ UNCHANGED <<queue, hand>>
    BY <1>12 DEF PutBack
  <2> QED
    BY <1>0, <2>1, FinishEmptiesHands
<1>13. ASSUME NEW c \in Consumers, BeginPopAll(c) PROVE Hands'
  BY <1>0, <1>13 DEF BeginPopAll
<1>14. ASSUME NEW c \in Consumers, PopAll(c) PROVE Hands'
  <2>1. Finish(c) \/ UNCHANGED <<queue, hand>>
    BY <1>14 DEF PopAll, consVars
  <2> QED
    BY <1>0, <2>1, FinishEmptiesHands
<1>15. ASSUME NEW c \in Consumers, BeginPopEvents(c) PROVE Hands'
  BY <1>0, <1>15 DEF BeginPopEvents
<1>16. ASSUME NEW c \in Consumers, PopEvents(c) PROVE Hands'
  <2>1. /\ queue' = queue
        /\ \E n \in todo[c] :
             \/ hand' = hand
             \/ /\ queues[dict[n]] # <<>>
                /\ hand' = [hand EXCEPT ![c] = Head(queues[dict[n]])]
    BY <1>16 DEF PopEvents
  <2>4. PICK n \in todo[c] :
          \/ hand' = hand
          \/ /\ queues[dict[n]] # <<>>
             /\ hand' = [hand EXCEPT ![c] = Head(queues[dict[n]])]
    BY <2>1
  <2>2. dict[n] \in Queues /\ queues[dict[n]] \in Seq(Events)
    BY <1>16, QueuesAreNumbers
       DEF PopEvents, Control, CallInv, Types, DictTypes, PlainTypes, CallTypes, ContentTypes
  <2>3. queues[dict[n]] # <<>> => Head(queues[dict[n]]) \in Events
    BY <2>2, TailDrops
  <2> QED
    BY <1>0, <2>1, <2>3, <2>4
<1>17. ASSUME NEW c \in Consumers, PopEventsEnds(c) PROVE Hands'
  <2>1. Finish(c) \/ UNCHANGED <<queue, hand>>
    BY <1>17 DEF PopEventsEnds
  <2> QED
    BY <1>0, <2>1, FinishEmptiesHands
<1>18. ASSUME NEW c \in Consumers, ClearEvents(c) PROVE Hands'
  BY <1>0, <1>18 DEF ClearEvents, Finish, EnsureQueue
<1>19. CASE UNCHANGED vars
  BY <1>0, <1>19 DEF vars, consVars
<1>20. ASSUME NEW c \in Consumers, Call(c) \/ ConsStep(c) PROVE Hands'
  BY <1>20, <1>2, <1>3, <1>4, <1>5, <1>6, <1>7, <1>8, <1>9, <1>10, <1>11,
     <1>12, <1>13, <1>14, <1>15, <1>16, <1>17, <1>18 DEF ConsStep
<1> QED
  BY <1>1, <1>19, <1>20 DEF Next

LEMMA LockKept ==
    ASSUME Control, [Next]_vars
    PROVE  LockInv'
<1> USE DEF LockInv, Locking
<1>0. LockInv /\ cpc \in [Consumers -> ConsPCs]
  BY DEF Control, Types, PlainTypes, CallTypes
<1>1. CASE PollStep \/ Start \/ CloseBegin \/ CloseStep
  BY <1>0, <1>1, OthersLeaveConsumers DEF consVars
<1>2. ASSUME NEW c \in Consumers, Call(c) PROVE LockInv'
  BY <1>0, <1>2 DEF Call, dispVars, pollVars, ownerVars, histVars, Goto
<1>3. ASSUME NEW c \in Consumers, Refuse(c) PROVE LockInv'
  BY <1>0, <1>3 DEF Refuse, dispVars, pollVars, ownerVars, Finish, Goto
<1>4. ASSUME NEW c \in Consumers, BeginPop(c) PROVE LockInv'
  BY <1>0, <1>4 DEF BeginPop, dispVars, pollVars, ownerVars, histVars, Goto
<1>5. ASSUME NEW c \in Consumers, MakeQueue(c) PROVE LockInv'
  BY <1>0, <1>5 DEF MakeQueue, pollVars, ownerVars, histVars, Goto, EnsureQueue
<1>6. ASSUME NEW c \in Consumers, ReadQueue(c) PROVE LockInv'
  BY <1>0, <1>6 DEF ReadQueue, dispVars, pollVars, ownerVars, histVars, Goto
<1>7. ASSUME NEW c \in Consumers, Raises(c) PROVE LockInv'
  BY <1>0, <1>7 DEF Raises, dispVars, pollVars, ownerVars, Finish, Goto
<1>8. ASSUME NEW c \in Consumers, Get(c) PROVE LockInv'
  <2>0. GetResult(c)
    BY <1>0, <1>8, GetOutcome
  <2> QED
    BY <1>0, <2>0 DEF GetResult, Finish, Goto, ownerVars
<1>9. ASSUME NEW c \in Consumers, GetTimesOut(c) PROVE LockInv'
  BY <1>0, <1>9 DEF GetTimesOut, dispVars, pollVars, ownerVars, histVars, Finish, Goto
<1>10. ASSUME NEW c \in Consumers, Match(c) PROVE LockInv'
  BY <1>0, <1>10 DEF Match, dispVars, pollVars, ownerVars, histVars, Goto
<1>11. ASSUME NEW c \in Consumers, Mismatch(c) PROVE LockInv'
  BY <1>0, <1>11 DEF Mismatch, dispVars, pollVars, ownerVars, histVars, Goto
<1>12. ASSUME NEW c \in Consumers, PutBack(c) PROVE LockInv'
  BY <1>0, <1>12 DEF PutBack, pollVars, ownerVars, Finish, Goto
<1>13. ASSUME NEW c \in Consumers, BeginPopAll(c) PROVE LockInv'
  BY <1>0, <1>13 DEF BeginPopAll, pollVars, ownerVars, histVars, Goto
<1>14. ASSUME NEW c \in Consumers, PopAll(c) PROVE LockInv'
  BY <1>0, <1>14 DEF PopAll, pollVars, consVars, ownerVars, Finish, Goto
<1>15. ASSUME NEW c \in Consumers, BeginPopEvents(c) PROVE LockInv'
  BY <1>0, <1>15 DEF BeginPopEvents, pollVars, ownerVars, histVars, Goto
<1>16. ASSUME NEW c \in Consumers, PopEvents(c) PROVE LockInv'
  BY <1>0, <1>16 DEF PopEvents, pollVars, ownerVars
<1>17. ASSUME NEW c \in Consumers, PopEventsEnds(c) PROVE LockInv'
  BY <1>0, <1>17 DEF PopEventsEnds, pollVars, ownerVars, histVars, Finish, Goto
<1>18. ASSUME NEW c \in Consumers, ClearEvents(c) PROVE LockInv'
  BY <1>0, <1>18 DEF ClearEvents, pollVars, ownerVars, Finish, Goto, EnsureQueue
<1>19. CASE UNCHANGED vars
  BY <1>0, <1>19 DEF vars, dispVars, pollVars, consVars, ownerVars, histVars
<1>20. ASSUME NEW c \in Consumers, Call(c) \/ ConsStep(c) PROVE LockInv'
  BY <1>20, <1>2, <1>3, <1>4, <1>5, <1>6, <1>7, <1>8, <1>9, <1>10, <1>11,
     <1>12, <1>13, <1>14, <1>15, <1>16, <1>17, <1>18 DEF ConsStep
<1> QED
  BY <1>1, <1>19, <1>20 DEF Next

LEMMA CallsKept ==
    ASSUME Control, [Next]_vars
    PROVE  CallInv'
<1> USE DEF CallInv, LockInv, Locking
<1>0. /\ CallInv /\ LockInv
      /\ cpc \in [Consumers -> ConsPCs] /\ op \in [Consumers -> AllOps \cup {"none"}]
      /\ about \in [Consumers -> Names \cup {NoName}] /\ todo \in [Consumers -> SUBSET Names]
      /\ queue \in [Consumers -> {0} \cup Queues] /\ ignored \in [Consumers -> Seq(Events)]
      /\ dict \in [Names -> {0} \cup Queues] /\ 0 \notin Queues
  BY QueuesAreNumbers DEF Control, Types, PlainTypes, CallTypes, DictTypes, ContentTypes
<1>1. CASE Store
  BY <1>0, <1>1 DEF Store, consVars, ownerVars, histVars
<1>2. CASE CloseClears
  BY <1>0, <1>2 DEF CloseClears, pollVars, consVars, histVars
<1>3. CASE (PollStep \/ Start \/ CloseBegin \/ CloseStep) /\ ~Store /\ ~CloseClears
  BY <1>0, <1>3, OthersLeaveConsumers, OthersLeaveTheDictionary DEF consVars
<1>4. ASSUME NEW c \in Consumers, Call(c) PROVE CallInv'
  BY <1>0, <1>4 DEF Call, dispVars, pollVars, ownerVars, histVars, Goto
<1>5. ASSUME NEW c \in Consumers, Refuse(c) PROVE CallInv'
  BY <1>0, <1>5 DEF Refuse, dispVars, pollVars, ownerVars, Finish, Goto
<1>6. ASSUME NEW c \in Consumers, BeginPop(c) PROVE CallInv'
  BY <1>0, <1>6 DEF BeginPop, dispVars, pollVars, ownerVars, histVars, Goto
<1>7. ASSUME NEW c \in Consumers, MakeQueue(c) PROVE CallInv'
  BY <1>0, <1>7 DEF MakeQueue, pollVars, ownerVars, histVars, Goto, EnsureQueue
<1>8. ASSUME NEW c \in Consumers, ReadQueue(c) PROVE CallInv'
  BY <1>0, <1>8 DEF ReadQueue, dispVars, pollVars, ownerVars, histVars, Goto
<1>9. ASSUME NEW c \in Consumers, Raises(c) PROVE CallInv'
  BY <1>0, <1>9 DEF Raises, dispVars, pollVars, ownerVars, Finish, Goto
<1>10. ASSUME NEW c \in Consumers, Get(c) PROVE CallInv'
  <2>0. GetResult(c)
    BY <1>10, GetOutcome
  <2>1. CASE Finish(c)
    BY <1>0, <2>0, <2>1 DEF GetResult, Finish, Goto
  <2>2. CASE ~Finish(c)
    BY <1>0, <2>0, <2>2 DEF GetResult, Goto
  <2> QED
    BY <2>1, <2>2
<1>11. ASSUME NEW c \in Consumers, GetTimesOut(c) PROVE CallInv'
  <2>1. CASE op[c] = "pop" /\ Finish(c)
    BY <1>0, <1>11, <2>1 DEF GetTimesOut, Finish, Goto, dispVars
  <2>2. CASE op[c] # "pop" /\ UNCHANGED <<op, about, queue, ignored, todo>>
    BY <1>0, <1>11, <2>2 DEF GetTimesOut, Goto, dispVars
  <2> QED
    BY <1>0, <1>11, <2>1, <2>2 DEF GetTimesOut
<1>12. ASSUME NEW c \in Consumers, Match(c) PROVE CallInv'
  BY <1>0, <1>12 DEF Match, dispVars, pollVars, ownerVars, histVars, Goto
<1>13. ASSUME NEW c \in Consumers, Mismatch(c) PROVE CallInv'
  BY <1>0, <1>13 DEF Mismatch, dispVars, pollVars, ownerVars, histVars, Goto
<1>14. ASSUME NEW c \in Consumers, PutBack(c) PROVE CallInv'
  <2>1. CASE cpc[c] = "makeBack" /\ Finish(c)
    BY <1>0, <1>14, <2>1 DEF PutBack, Finish, Goto
  <2>2. CASE cpc[c] = "back" /\ Goto(c, "makeBack") /\ UNCHANGED <<op, about, queue, todo>>
    BY <1>0, <1>14, <2>2 DEF PutBack, Goto
  <2> QED
    BY <1>0, <1>14, <2>1, <2>2 DEF PutBack
<1>15. ASSUME NEW c \in Consumers, BeginPopAll(c) PROVE CallInv'
  BY <1>0, <1>15 DEF BeginPopAll, pollVars, ownerVars, histVars, Goto
<1>16. ASSUME NEW c \in Consumers, PopAll(c) PROVE CallInv'
  BY <1>0, <1>16 DEF PopAll, pollVars, consVars, ownerVars, Finish, Goto
<1>17. ASSUME NEW c \in Consumers, BeginPopEvents(c) PROVE CallInv'
  BY <1>0, <1>17 DEF BeginPopEvents, pollVars, ownerVars, histVars, Goto
<1>18. ASSUME NEW c \in Consumers, PopEvents(c) PROVE CallInv'
  BY <1>0, <1>18 DEF PopEvents, pollVars, ownerVars
<1>19. ASSUME NEW c \in Consumers, PopEventsEnds(c) PROVE CallInv'
  BY <1>0, <1>19 DEF PopEventsEnds, pollVars, ownerVars, histVars, Finish, Goto
<1>20. ASSUME NEW c \in Consumers, ClearEvents(c) PROVE CallInv'
  BY <1>0, <1>20 DEF ClearEvents, pollVars, ownerVars, Finish, Goto, EnsureQueue
<1>21. CASE UNCHANGED vars
  BY <1>0, <1>21 DEF vars, dispVars, pollVars, consVars, ownerVars, histVars
<1>22. ASSUME NEW c \in Consumers, Call(c) \/ ConsStep(c) PROVE CallInv'
  BY <1>22, <1>4, <1>5, <1>6, <1>7, <1>8, <1>9, <1>10, <1>11, <1>12, <1>13,
     <1>14, <1>15, <1>16, <1>17, <1>18, <1>19, <1>20 DEF ConsStep
<1> QED
  BY <1>1, <1>2, <1>3, <1>21, <1>22 DEF Next, CloseStep, PollStep

LEMMA ThreadKept ==
    ASSUME Control, [Next]_vars
    PROVE  ThreadInv'
<1> USE NoNameAssumption, EventsAreNumbers DEF Control, ThreadInv, Types,
        ContentTypes, PlainTypes, ThreadTypes, Gone, PollerPCs
<1>1. CASE PollLoop
  BY <1>1 DEF PollLoop, dispVars, consVars, ownerVars, histVars
<1>2. CASE PollReceives
  BY <1>2 DEF PollReceives, dispVars, consVars, ownerVars, histVars
<1>3. CASE PollReceivesNothing
  BY <1>3 DEF PollReceivesNothing, dispVars, consVars, ownerVars, histVars
<1>4. CASE PollSeesShutdown
  BY <1>4 DEF PollSeesShutdown, dispVars, consVars, ownerVars, histVars
<1>5. CASE PollFails
  BY <1>5 DEF PollFails, consVars, ownerVars, histVars
<1>6. CASE DispatchHandled
  BY <1>6 DEF DispatchHandled, dispVars, consVars, ownerVars
<1>7. CASE Store
  BY <1>7 DEF Store, consVars, ownerVars, histVars
<1>8. CASE Start
  BY <1>8 DEF Start, consVars, histVars
<1>9. CASE CloseBegin
  BY <1>9 DEF CloseBegin, pollVars, consVars, histVars
<1>10. CASE CloseJoins
  BY <1>10 DEF CloseJoins, dispVars, pollVars, consVars, histVars
<1>11. CASE CloseClears
  BY <1>11 DEF CloseClears, pollVars, consVars, histVars
<1>12. ASSUME NEW c \in Consumers, Call(c) \/ ConsStep(c) PROVE ThreadInv'
  BY <1>12, ConsumersLeaveTheThread DEF ownerVars
<1>13. CASE UNCHANGED vars
  BY <1>13 DEF vars, dispVars, pollVars, consVars, ownerVars, histVars
<1>14. CASE PollStep
  BY <1>14, <1>1, <1>2, <1>3, <1>4, <1>5, <1>6, <1>7 DEF PollStep
<1> QED
  BY <1>8, <1>9, <1>10, <1>11, <1>12, <1>13, <1>14 DEF Next, CloseStep

LEMMA ControlKept ==
    ASSUME Control, [Next]_vars
    PROVE  Control'
<1>1. Types'
  BY StepsHaveEffects, EffectKeepsContentTypes, DictSteps, DictTypesKept, ThreadTypesKept, CallTypesKept,
     HandsKept DEF Types, PlainTypes
<1> QED
  BY <1>1, LockKept, CallsKept, ThreadKept DEF Control

------------------------------------------------------------------------------
(* The name of each queue *)

First == starts <= 1
\* close() has not cleared the dictionary since the first start().
Uncleared == starts = 0 \/ started \/ poller \notin Gone \/ owner # "idle"

In(q) == Elements(queues[q])
Took(n) == Elements(taken[n])
Holds(c) == Elements(ignored[c])

\* A queue was made for one name, and has no event of another one.  Until the
\* first close(), it is the queue of that name in the dictionary.
Homes(home) ==
    /\ home \in [Queues -> Names]
    /\ \A n \in Names : dict[n] # 0 => home[dict[n]] = n
    /\ \A c \in Consumers : queue[c] # 0 => home[queue[c]] = about[c]
    /\ \A q \in Queues : \A e \in In(q) : nameOf[e] = home[q]
    /\ First /\ Uncleared => \A q \in Queues : dict[home[q]] = q
HomeInv == \E home \in [Queues -> Names] : Homes(home)

Known ==
    /\ Received = 1..Cardinality(Received)
    /\ \A q \in Queues : In(q) \subseteq Received
    /\ \A n \in Names : \A e \in Took(n) : nameOf[e] = n
    /\ \A c \in Consumers : \A e \in Holds(c) : nameOf[e] = about[c] /\ e \in Received
    /\ polled # 0 => \A e \in Received : e <= polled

LEMMA ClearedForGood ==
    ASSUME Control, [Next]_vars
    PROVE  /\ First' => First
           /\ First' /\ Uncleared' => Uncleared /\ ~CloseClears
<1> USE DEF First, Uncleared, Control, Types, PlainTypes, ThreadTypes, ThreadInv, Gone
<1>1. ASSUME NEW c \in Consumers, Call(c) \/ ConsStep(c)
      PROVE  /\ First' => First
             /\ First' /\ Uncleared' => Uncleared /\ ~CloseClears
  BY <1>1, ConsumersLeaveTheThread DEF ownerVars, CloseClears
<1>2. CASE PollStep
  BY <1>2 DEF PollStep, PollLoop, PollReceives, PollReceivesNothing, PollSeesShutdown,
     PollFails, DispatchHandled, Store, ownerVars, CloseClears
<1>3. CASE Start
  BY <1>3, BoundsAssumption DEF Start, CloseClears
<1>4. CASE CloseBegin \/ CloseJoins
  BY <1>4 DEF CloseBegin, CloseJoins, dispVars, pollVars, CloseClears
<1>5. CASE CloseClears
  BY <1>5 DEF CloseClears, pollVars
<1>6. CASE UNCHANGED vars
  BY <1>6 DEF vars, dispVars, pollVars, ownerVars, CloseClears
<1> QED
  BY <1>1, <1>2, <1>3, <1>4, <1>5, <1>6 DEF Next, CloseStep

LEMMA HomeOfNamed ==
    ASSUME Types, NEW home, Homes(home), NEW q, NEW n, Named(q, n)
    PROVE  home[q] = n
BY QueuesAreNumbers DEF Homes, Named

------------------------------------------------------------------------------
(* How events move *)

LEMMA ContentsAreEvents ==
    ASSUME Types
    PROVE  /\ \A q \in Queues : queues[q] \in Seq(Events) /\ In(q) \subseteq Events
           /\ \A n \in Names : Took(n) \subseteq Events
           /\ \A c \in Consumers : Holds(c) \subseteq Events
<1>1. ASSUME NEW s \in Seq(Events) PROVE Elements(s) \subseteq Events
  BY DEF Elements
<1> QED
  BY <1>1, QueuesAreNumbers DEF Types, ContentTypes, In, Took, Holds, Queues

\* The first event of the queue r leaves it.
LEMMA HeadLeaves ==
    ASSUME Types, NEW r \in Queues, queues[r] # <<>>,
           queues' = [queues EXCEPT ![r] = Tail(@)]
    PROVE  /\ Queues' = Queues /\ queues'[r] = Tail(queues[r])
           /\ \A q \in Queues : q # r => queues'[q] = queues[q]
           /\ Head(queues[r]) \in Events /\ In(r) = In(r)' \cup {Head(queues[r])}
<1>1. queues[r] \in Seq(Events) /\ queues'[r] = Tail(queues[r])
  BY QueuesAreNumbers DEF Types, ContentTypes, Queues
<1>2. In(r) = In(r)' \cup {Head(queues[r])} /\ Head(queues[r]) \in Events
  BY <1>1, TailDrops DEF In
<1> QED
  BY <1>1, <1>2, QueuesAreNumbers DEF Types, ContentTypes, Queues

\* The polled event is stored in the queue of its name, maybe a new one.
Stores(r) ==
    /\ r \in Queues' /\ dict'[nameOf[polled]] = r
    /\ \/ r \notin Queues /\ queues'[r] = <<polled>> /\ dict[nameOf[polled]] = 0
       \/ r \in Queues /\ queues'[r] = Append(queues[r], polled) /\ dict[nameOf[polled]] = r
    /\ \A q \in Queues' : q # r => q \in Queues /\ queues'[q] = queues[q]
    /\ r \in Queues => Elements(queues'[r]) = In(r) \cup {polled}
    /\ r \notin Queues => Elements(queues'[r]) = {polled}

LEMMA StoreStores ==
    ASSUME Control, Store
    PROVE  /\ Stores(dict'[nameOf[polled]])
           /\ polled \in Events /\ nameOf[polled] \in Names
           /\ polled' = 0 /\ UNCHANGED <<nameOf, ignored, about, taken, gone, putBack>>
<1> DEFINE n == nameOf[polled]  r == dict'[n]
<1>1. polled \in Events /\ n \in Names
  BY DEF Store, Control, ThreadInv, Types, ContentTypes
<1>2. polled' = 0 /\ UNCHANGED <<nameOf, ignored, about, taken, gone, putBack>>
  BY DEF Store, consVars, histVars
<1>3. CASE dict[n] = 0
  <2>1. queues' = Append(queues, <<polled>>) /\ r = Len(queues')
    BY <1>1, <1>3 DEF Store, Control, Types, DictTypes
  <2>2. /\ r = Len(queues) + 1 /\ Queues' = 1..r /\ queues'[r] = <<polled>>
        /\ \A q \in Queues : queues'[q] = queues[q]
    BY <1>1, <2>1 DEF Control, Types, ContentTypes, Queues
  <2>3. Elements(queues'[r]) = {polled}
    <3>1. DOMAIN <<polled>> = {1} /\ <<polled>>[1] = polled
      OBVIOUS
    <3> QED
      BY <2>2, <3>1 DEF Elements
  <2> QED
    BY <1>1, <1>2, <1>3, <2>2, <2>3, QueuesAreNumbers DEF Stores, Control
<1>4. CASE dict[n] # 0
  <2>1. r = dict[n] /\ r \in Queues /\ queues' = [queues EXCEPT ![r] = Append(@, polled)]
    BY <1>1, <1>4 DEF Store, Control, Types, DictTypes
  <2>2. Queues' = Queues /\ queues[r] \in Seq(Events) /\ queues'[r] = Append(queues[r], polled)
    BY <2>1, ContentsAreEvents DEF Queues, Control, Types, ContentTypes
  <2>3. \A q \in Queues : q # r => queues'[q] = queues[q]
    BY <2>1 DEF Queues
  <2>4. Elements(queues'[r]) = In(r) \cup {polled}
    <3>1. Elements(Append(queues[r], polled)) = Elements(queues[r]) \cup {polled}
      BY <1>1, <2>2, AppendAdds
    <3> QED
      BY <2>2, <3>1 DEF In
  <2> QED
    BY <1>1, <1>2, <1>4, <2>1, <2>2, <2>3, <2>4 DEF Stores
<1> QED
  BY <1>3, <1>4

\* The oldest event that c ignored goes back to the end of its queue.
LEMMA HeadGoesBack ==
    ASSUME Types, NEW c \in Consumers, PutsBack(c)
    PROVE  /\ queue[c] \in Queues /\ Queues' = Queues
           /\ Head(ignored[c]) \in Events
           /\ queues'[queue[c]] = Append(queues[queue[c]], Head(ignored[c]))
           /\ Elements(queues'[queue[c]]) = In(queue[c]) \cup {Head(ignored[c])}
           /\ \A q \in Queues : q # queue[c] => queues'[q] = queues[q]
           /\ ignored'[c] = Tail(ignored[c])
           /\ Holds(c) = Holds(c)' \cup {Head(ignored[c])}
           /\ \A d \in Consumers : d # c => ignored'[d] = ignored[d]
<1>1. queue[c] \in Queues /\ ignored[c] \in Seq(Events) /\ queues[queue[c]] \in Seq(Events)
  BY ContentsAreEvents DEF PutsBack, Named, Types, ContentTypes
<1>2. ignored'[c] = Tail(ignored[c]) /\ \A d \in Consumers : d # c => ignored'[d] = ignored[d]
  BY DEF PutsBack, Types, ContentTypes
<1>3. Head(ignored[c]) \in Events /\ Holds(c) = Holds(c)' \cup {Head(ignored[c])}
  BY <1>1, <1>2, TailDrops DEF PutsBack, Holds
<1>4. /\ Queues' = Queues
      /\ queues'[queue[c]] = Append(queues[queue[c]], Head(ignored[c]))
      /\ \A q \in Queues : q # queue[c] => queues'[q] = queues[q]
  BY <1>1 DEF PutsBack, Queues
<1>5. Elements(queues'[queue[c]]) = In(queue[c]) \cup {Head(ignored[c])}
  <2>1. Elements(Append(queues[queue[c]], Head(ignored[c])))
          = Elements(queues[queue[c]]) \cup {Head(ignored[c])}
    BY <1>1, <1>3, AppendAdds
  <2> QED
    BY <1>4, <2>1 DEF In
<1> QED
  BY <1>1, <1>2, <1>3, <1>4, <1>5

\* Whoever turns to another name has no ignored events.
AboutStep == \A c \in Consumers : about'[c] = about[c] \/ ignored'[c] = <<>>

LEMMA AboutSteps ==
    ASSUME Control, [Next]_vars
    PROVE  AboutStep
<1> USE DEF AboutStep
<1>0. /\ ignored \in [Consumers -> Seq(Events)]
      /\ about \in [Consumers -> Names \cup {NoName}]
      /\ \A c \in Consumers : cpc[c] = "idle" => ignored[c] = <<>>
  BY DEF Control, Types, ContentTypes, PlainTypes, CallTypes, CallInv
<1>1. CASE PollStep \/ Start \/ CloseBegin \/ CloseStep
  BY <1>0, <1>1, OthersLeaveConsumers DEF consVars
<1>2. ASSUME NEW c \in Consumers, Call(c) PROVE AboutStep
  BY <1>0, <1>2 DEF Call
<1>3. ASSUME NEW c \in Consumers, Refuse(c) PROVE AboutStep
  BY <1>0, <1>3 DEF Refuse, Finish
<1>4. ASSUME NEW c \in Consumers, BeginPop(c) PROVE AboutStep
  BY <1>0, <1>4 DEF BeginPop
<1>5. ASSUME NEW c \in Consumers, MakeQueue(c) PROVE AboutStep
  BY <1>0, <1>5 DEF MakeQueue
<1>6. ASSUME NEW c \in Consumers, ReadQueue(c) PROVE AboutStep
  BY <1>0, <1>6 DEF ReadQueue
<1>7. ASSUME NEW c \in Consumers, Raises(c) PROVE AboutStep
  BY <1>0, <1>7 DEF Raises, Finish
<1>8. ASSUME NEW c \in Consumers, Get(c) PROVE AboutStep
  <2>1. Finish(c) \/ about' = about
    BY <1>8, GetOutcome DEF GetResult
  <2> QED
    BY <1>0, <2>1 DEF Finish
<1>9. ASSUME NEW c \in Consumers, GetTimesOut(c) PROVE AboutStep
  BY <1>0, <1>9 DEF GetTimesOut, Finish
<1>10. ASSUME NEW c \in Consumers, Match(c) PROVE AboutStep
  BY <1>0, <1>10 DEF Match
<1>11. ASSUME NEW c \in Consumers, Mismatch(c) PROVE AboutStep
  BY <1>0, <1>11 DEF Mismatch
<1>12. ASSUME NEW c \in Consumers, PutBack(c) PROVE AboutStep
  BY <1>0, <1>12 DEF PutBack, Finish
<1>13. ASSUME NEW c \in Consumers, BeginPopAll(c) PROVE AboutStep
  BY <1>0, <1>13 DEF BeginPopAll
<1>14. ASSUME NEW c \in Consumers, PopAll(c) PROVE AboutStep
  BY <1>0, <1>14 DEF PopAll, Finish, consVars
<1>15. ASSUME NEW c \in Consumers, BeginPopEvents(c) PROVE AboutStep
  BY <1>0, <1>15 DEF BeginPopEvents
<1>16. ASSUME NEW c \in Consumers, PopEvents(c) PROVE AboutStep
  BY <1>0, <1>16 DEF PopEvents
<1>17. ASSUME NEW c \in Consumers, PopEventsEnds(c) PROVE AboutStep
  BY <1>0, <1>17 DEF PopEventsEnds, Finish
<1>18. ASSUME NEW c \in Consumers, ClearEvents(c) PROVE AboutStep
  BY <1>0, <1>18 DEF ClearEvents, Finish
<1>19. CASE UNCHANGED vars
  BY <1>19, <1>0 DEF vars, consVars
<1>20. ASSUME NEW c \in Consumers, Call(c) \/ ConsStep(c) PROVE AboutStep
  BY <1>20, <1>2, <1>3, <1>4, <1>5, <1>6, <1>7, <1>8, <1>9, <1>10, <1>11,
     <1>12, <1>13, <1>14, <1>15, <1>16, <1>17, <1>18 DEF ConsStep
<1> QED
  BY <1>1, <1>19, <1>20 DEF Next

\* The oldest event of the queue q goes to the caller.
LEMMA HeadIsTaken ==
    ASSUME Types, NEW q \in Queues, NEW n \in Names, Takes(q, n)
    PROVE  /\ Queues' = Queues /\ queues'[q] = Tail(queues[q])
           /\ \A r \in Queues : r # q => queues'[r] = queues[r]
           /\ Head(queues[q]) \in Events
           /\ In(q) = Elements(queues'[q]) \cup {Head(queues[q])}
           /\ taken'[n] = Append(taken[n], Head(queues[q]))
           /\ Elements(taken'[n]) = Took(n) \cup {Head(queues[q])}
           /\ \A m \in Names : m # n => taken'[m] = taken[m]
<1>1. /\ Queues' = Queues /\ queues'[q] = Tail(queues[q])
      /\ \A r \in Queues : r # q => queues'[r] = queues[r]
      /\ Head(queues[q]) \in Events
      /\ In(q) = Elements(queues'[q]) \cup {Head(queues[q])}
  BY HeadLeaves DEF Takes, In
<1>2. /\ taken[n] \in Seq(Events) /\ taken'[n] = Append(taken[n], Head(queues[q]))
      /\ \A m \in Names : m # n => taken'[m] = taken[m]
  BY DEF Takes, Types, ContentTypes
<1>3. Elements(Append(taken[n], Head(queues[q]))) = Elements(taken[n]) \cup {Head(queues[q])}
  BY <1>1, <1>2, AppendAdds
<1> QED
  BY <1>1, <1>2, <1>3 DEF Took

\* The oldest event of the queue of c is looked at by c.
LEMMA HeadIsPeeked ==
    ASSUME Types, NEW c \in Consumers, Peeks(c)
    PROVE  /\ queue[c] \in Queues
           /\ Queues' = Queues /\ queues'[queue[c]] = Tail(queues[queue[c]])
           /\ \A r \in Queues : r # queue[c] => queues'[r] = queues[r]
           /\ Head(queues[queue[c]]) \in Events
           /\ In(queue[c]) = Elements(queues'[queue[c]]) \cup {Head(queues[queue[c]])}
           /\ ignored'[c] = Append(ignored[c], Head(queues[queue[c]]))
           /\ Elements(ignored'[c]) = Holds(c) \cup {Head(queues[queue[c]])}
           /\ \A d \in Consumers : d # c => ignored'[d] = ignored[d]
<1>0. queue[c] \in Queues
  BY DEF Peeks, Named
<1>1. /\ Queues' = Queues /\ queues'[queue[c]] = Tail(queues[queue[c]])
      /\ \A r \in Queues : r # queue[c] => queues'[r] = queues[r]
      /\ Head(queues[queue[c]]) \in Events
      /\ In(queue[c]) = Elements(queues'[queue[c]]) \cup {Head(queues[queue[c]])}
  BY <1>0, HeadLeaves DEF Peeks, In
<1>2. /\ ignored[c] \in Seq(Events)
      /\ ignored'[c] = Append(ignored[c], Head(queues[queue[c]]))
      /\ \A d \in Consumers : d # c => ignored'[d] = ignored[d]
  BY DEF Peeks, Types, ContentTypes
<1>3. Elements(Append(ignored[c], Head(queues[queue[c]])))
        = Elements(ignored[c]) \cup {Head(queues[queue[c]])}
  BY <1>1, <1>2, AppendAdds
<1> QED
  BY <1>0, <1>1, <1>2, <1>3 DEF Holds

LEMMA NothingInNothing == Elements(<<>>) = {}
BY DEF Elements

\* Steps that add nothing to a queue, and take events only to drop them.
Drops ==
    /\ UNCHANGED <<taken, putBack>>
    /\ Queues \subseteq Queues'
    /\ \A q \in Queues' : queues'[q] = <<>> \/ (q \in Queues /\ queues'[q] = queues[q])
    /\ \A c \in Consumers : ignored'[c] = <<>> \/ ignored'[c] = ignored[c]
    /\ \A q \in Queues : \A e \in In(q) : e \in Elements(queues'[q]) \/ e \in gone'
    /\ \A c \in Consumers : \A e \in Holds(c) : e \in Elements(ignored'[c]) \/ e \in gone'
    /\ gone \subseteq gone'

LEMMA DropsOnly ==
    ASSUME Types,
           \/ Calm \/ MakesQueue \/ PollReceives \/ DispatchHandled
           \/ \E q \in Queues : Clears(q)
           \/ \E c \in Consumers : Forgets(c)
    PROVE  Drops
<1> USE DEF Drops, In, Holds
<1>1. CASE Calm
  BY <1>1 DEF Calm, histVars, Queues
<1>2. CASE MakesQueue
  BY <1>2 DEF MakesQueue, histVars, Queues, Types, ContentTypes
<1>3. CASE PollReceives \/ DispatchHandled
  BY <1>3 DEF PollReceives, DispatchHandled, dispVars, consVars, histVars, Queues
<1>4. ASSUME NEW q \in Queues, Clears(q) PROVE Drops
  BY <1>4 DEF Clears, Queues, Types, ContentTypes
<1>5. ASSUME NEW c \in Consumers, Forgets(c) PROVE Drops
  BY <1>5 DEF Forgets, Queues, Types, ContentTypes
<1> QED
  BY <1>1, <1>2, <1>3, <1>4, <1>5

------------------------------------------------------------------------------
(* Every event is known by its name *)

LEMMA ReceivedIsFinite ==
    Received \subseteq Events /\ IsFiniteSet(Received) /\ Cardinality(Received) \in Nat
<1>1. IsFiniteSet(Events)
  BY BoundsAssumption, FS_Interval DEF Events
<1>2. Received \subseteq Events
  BY DEF Received
<1> QED
  BY <1>1, <1>2, FS_Subset, FS_CardinalityType

LEMMA NamesStay ==
    ASSUME Control, Known, Effect
    PROVE  /\ ~PollReceives => nameOf' = nameOf /\ Received' = Received
           /\ \A e \in Received : nameOf'[e] = nameOf[e]
           /\ Received \subseteq Received'
<1>1. ~PollReceives => nameOf' = nameOf
  BY DEF Effect, Calm, MakesQueue, DispatchHandled, Store, Clears, Takes, Forgets, Peeks,
     PutsBack
<1>2. CASE PollReceives
  <2>1. PICK f \in Events, n \in Names :
          f = Cardinality(Received) + 1 /\ nameOf' = [nameOf EXCEPT ![f] = n]
    BY <1>2 DEF PollReceives
  <2>2. NoName \notin Names /\ nameOf \in [Events -> Names \cup {NoName}]
    BY NoNameAssumption DEF Control, Types, ContentTypes
  <2>3. f \notin Received
    BY <2>1, ReceivedIsFinite DEF Known
  <2> QED
    BY <1>2, <2>1, <2>2, <2>3 DEF Received
<1> QED
  BY <1>1, <1>2 DEF Received

\* The device numbers the events as it posts them.
LEMMA OneMoreReceived ==
    ASSUME Control, Known, PollReceives
    PROVE  /\ polled' \in Events /\ polled' \notin Received
           /\ Received' = Received \cup {polled'}
           /\ Received' = 1..Cardinality(Received') /\ \A e \in Received' : e <= polled'
           /\ polled = 0
<1> DEFINE k == Cardinality(Received)
<1>1. k \in Nat /\ Received = 1..k
  BY ReceivedIsFinite DEF Known
<1>2. PICK n \in Names : /\ polled' = k + 1 /\ polled' \in Events
                         /\ nameOf' = [nameOf EXCEPT ![k + 1] = n]
  BY DEF PollReceives
<1>3. Received' = Received \cup {k + 1}
  BY <1>1, <1>2, NoNameAssumption DEF Received, Control, Types, ContentTypes
<1>4. Received' = 1..(k + 1)
  BY <1>1, <1>3
<1>5. Cardinality(Received') = k + 1
  BY <1>1, <1>4, FS_Interval
<1>6. polled = 0
  BY DEF PollReceives, Control, ThreadInv
<1> QED
  BY <1>1, <1>2, <1>3, <1>4, <1>5, <1>6

\* Where an event in a queue, with a consumer or with a caller comes from.
LEMMA Arrivals ==
    ASSUME Control, Effect
    PROVE  /\ \A q \in Queues' : \A e \in Elements(queues'[q]) :
                \/ q \in Queues /\ e \in In(q)
                \/ Store /\ Stores(q) /\ e = polled
                \/ \E c \in Consumers : PutsBack(c) /\ q = queue[c] /\ e \in Holds(c)
           /\ \A n \in Names : \A e \in Elements(taken'[n]) :
                \/ e \in Took(n)
                \/ \E q \in Queues : Takes(q, n) /\ e \in In(q)
           /\ \A c \in Consumers : \A e \in Elements(ignored'[c]) :
                \/ e \in Holds(c)
                \/ Peeks(c) /\ e \in In(queue[c])
<1> USE DEF In, Took, Holds, Control
<1> DEFINE A == \A q \in Queues' : \A e \in Elements(queues'[q]) :
                  \/ q \in Queues /\ e \in In(q)
                  \/ Store /\ Stores(q) /\ e = polled
                  \/ \E c \in Consumers : PutsBack(c) /\ q = queue[c] /\ e \in Holds(c)
            B == \A n \in Names : \A e \in Elements(taken'[n]) :
                   \/ e \in Took(n)
                   \/ \E q \in Queues : Takes(q, n) /\ e \in In(q)
            C == \A c \in Consumers : \A e \in Elements(ignored'[c]) :
                   \/ e \in Holds(c)
                   \/ Peeks(c) /\ e \in In(queue[c])
<1>1. CASE Drops
  BY <1>1, NothingInNothing DEF Drops
<1>2. CASE Store
  <2>1. PICK r : Stores(r)
    BY <1>2, StoreStores
  <2>2. A
    BY <1>2, <2>1 DEF Stores
  <2> QED
    BY <1>2, <2>2, StoreStores
<1>3. ASSUME NEW q \in Queues, NEW n \in Names, Takes(q, n) PROVE A /\ B /\ C
  <2>1. A /\ B
    BY <1>3, HeadIsTaken
  <2> QED
    BY <1>3, <2>1 DEF Takes
<1>4. ASSUME NEW c \in Consumers, Peeks(c) PROVE A /\ B /\ C
  <2>1. A /\ C
    BY <1>4, HeadIsPeeked
  <2> QED
    BY <1>4, <2>1 DEF Peeks, histVars
<1>5. ASSUME NEW c \in Consumers, PutsBack(c) PROVE A /\ B /\ C
  <2>1. A /\ C
    BY <1>5, HeadGoesBack
  <2> QED
    BY <1>5, <2>1 DEF PutsBack
<1> QED
  BY <1>1, <1>2, <1>3, <1>4, <1>5, DropsOnly DEF Effect

LEMMA HomesKept ==
    ASSUME Control, Control', Known, NEW home, Homes(home), [Next]_vars
    PROVE  HomeInv'
<1>0. /\ Queues = 1..Len(queues) /\ Len(queues) \in Nat
      /\ Queues' = 1..Len(queues') /\ Len(queues') \in Nat
      /\ dict \in [Names -> {0} \cup Queues] /\ queue \in [Consumers -> {0} \cup Queues]
      /\ Queues \subseteq Queues'
  BY QueuesAreNumbers, StepsHaveEffects, EffectKeepsContentTypes
     DEF Control, Types, ContentTypes, DictTypes, Queues
<1>1. Effect /\ DictStep /\ QueueStep
  BY StepsHaveEffects, DictSteps
<1>2. \A q \in Queues' \ Queues : \E n \in Names : NewName(n) /\ dict'[n] = q
  <2>1. ASSUME NEW n \in Names, NewName(n), NEW q \in Queues' \ Queues
        PROVE  dict'[n] = q
    BY <1>0, <2>1 DEF NewName
  <2>2. Queues' = Queues \/ \E n \in Names : NewName(n)
    BY <1>1 DEF DictStep, CloseClears, Queues
  <2> QED
    BY <2>1, <2>2
<1> DEFINE h == [q \in Queues' |-> IF q \in Queues THEN home[q]
                                   ELSE CHOOSE n \in Names : dict'[n] = q]
<1>3. PICK g : g = h
  OBVIOUS
<1>4. /\ g \in [Queues' -> Names]
      /\ \A q \in Queues : g[q] = home[q]
      /\ \A q \in Queues' \ Queues : g[q] \in Names /\ dict'[g[q]] = q
  BY <1>0, <1>2, <1>3 DEF Homes
<1>5. ASSUME NEW n \in Names, dict'[n] # 0 PROVE g[dict'[n]] = n
  <2>1. CASE dict' = dict
    BY <1>0, <1>4, <1>5, <2>1 DEF Homes
  <2>2. ASSUME NEW m \in Names, NewName(m) PROVE g[dict'[n]] = n
    <3>1. /\ dict'[m] = Len(queues) + 1
          /\ \A k \in Names : k # m => dict'[k] = dict[k] /\ dict'[k] # Len(queues) + 1
      BY <1>0, <2>2 DEF NewName
    <3>2. CASE n = m
      BY <1>0, <1>4, <3>1, <3>2, <2>2 DEF NewName
    <3>3. CASE n # m
      BY <1>0, <1>4, <1>5, <3>1, <3>3 DEF Homes
    <3> QED
      BY <3>2, <3>3
  <2>3. CASE CloseClears
    BY <1>5, <2>3 DEF CloseClears
  <2> QED
    BY <1>1, <2>1, <2>2, <2>3 DEF DictStep
<1>6. ASSUME NEW c \in Consumers, queue'[c] # 0 PROVE g[queue'[c]] = about'[c]
  BY <1>0, <1>1, <1>4, <1>6 DEF QueueStep, Homes
<1>7. ASSUME NEW q \in Queues', NEW e \in Elements(queues'[q]) PROVE nameOf'[e] = g[q]
  <2>1. CASE q \in Queues /\ e \in In(q)
    BY <1>1, <1>4, <2>1, NamesStay DEF Known, Homes
  <2>2. CASE Store /\ Stores(q) /\ e = polled
    <3>1. nameOf[e] \in Names /\ nameOf' = nameOf /\ dict'[nameOf[e]] = q /\ q # 0
      BY <1>0, <2>2, StoreStores DEF Stores
    <3> QED
      BY <1>5, <3>1
  <2>3. ASSUME NEW c \in Consumers, PutsBack(c), q = queue[c], e \in Holds(c)
        PROVE  nameOf'[e] = g[q]
    <3>1. nameOf[e] = about[c] /\ nameOf' = nameOf /\ q \in Queues
      BY <2>3 DEF Known, PutsBack, Named
    <3>2. home[q] = about[c]
      BY <1>0, <2>3, <3>1 DEF Homes
    <3> QED
      BY <1>4, <3>1, <3>2
  <2> QED
    BY <1>1, <2>1, <2>2, <2>3, Arrivals
<1>8. ASSUME (First /\ Uncleared)', NEW q \in Queues' PROVE dict'[g[q]] = q
  <2>1. First /\ Uncleared /\ ~CloseClears
    BY <1>8, ClearedForGood
  <2>2. CASE q \notin Queues
    BY <1>4, <2>2
  <2>3. CASE q \in Queues
    <3>1. dict[home[q]] = q /\ home[q] \in Names
      BY <2>1, <2>3 DEF Homes
    <3>2. dict'[home[q]] = q
      BY <1>0, <1>1, <2>1, <2>3, <3>1 DEF DictStep, NewName
    <3> QED
      BY <1>4, <2>3, <3>2
  <2> QED
    BY <2>2, <2>3
<1>9. Homes(g)'
  BY <1>4, <1>5, <1>6, <1>7, <1>8 DEF Homes, In
<1> QED
  BY <1>4, <1>9 DEF HomeInv

LEMMA KnownKept ==
    ASSUME Control, HomeInv, Known, [Next]_vars
    PROVE  Known'
<1>0. Effect /\ AboutStep
  BY StepsHaveEffects, AboutSteps
<1>1. PICK home : Homes(home)
  BY DEF HomeInv
<1>2. Control /\ Types
  BY DEF Control
<1>3. polled # 0 => polled \in Received
  BY NoNameAssumption DEF Received, Control, ThreadInv, Types, ContentTypes
<1>4. Received' = 1..Cardinality(Received')
  BY <1>0, <1>2, NamesStay, OneMoreReceived DEF Known
<1>5. ASSUME NEW q \in Queues', NEW e \in Elements(queues'[q]) PROVE e \in Received'
  <2>1. CASE q \in Queues /\ e \in In(q)
    BY <1>0, <1>2, <2>1, NamesStay DEF Known
  <2>2. CASE Store /\ Stores(q) /\ e = polled
    BY <1>0, <1>2, <1>3, <2>2, NamesStay DEF Store, ThreadInv, Control
  <2>3. ASSUME NEW c \in Consumers, PutsBack(c), e \in Holds(c) PROVE e \in Received'
    BY <1>0, <1>2, <2>3, NamesStay DEF Known
  <2> QED
    BY <1>0, <1>2, <2>1, <2>2, <2>3, Arrivals
<1>6. ASSUME NEW n \in Names, NEW e \in Elements(taken'[n]) PROVE nameOf'[e] = n
  <2>1. CASE e \in Took(n)
    <3>1. e \in Received
      BY <1>2, <2>1, ContentsAreEvents, NoNameAssumption DEF Known, Received
    <3> QED
      BY <1>0, <1>2, <2>1, <3>1, NamesStay DEF Known
  <2>2. ASSUME NEW q \in Queues, Takes(q, n), e \in In(q) PROVE nameOf'[e] = n
    <3>1. home[q] = n
      BY <1>1, <1>2, <2>2, HomeOfNamed DEF Takes
    <3> QED
      BY <1>0, <1>1, <1>2, <2>2, <3>1, NamesStay DEF Homes, Known
  <2> QED
    BY <1>0, <1>2, <2>1, <2>2, Arrivals
<1>7. ASSUME NEW c \in Consumers, NEW e \in Elements(ignored'[c])
      PROVE  nameOf'[e] = about'[c] /\ e \in Received'
  <2>1. about'[c] = about[c]
    BY <1>0, <1>7, NothingInNothing DEF AboutStep
  <2>2. CASE e \in Holds(c)
    BY <1>0, <1>2, <2>1, <2>2, NamesStay DEF Known
  <2>3. CASE Peeks(c) /\ e \in In(queue[c])
    <3>1. queue[c] \in Queues /\ home[queue[c]] = about[c]
      BY <1>1, <1>2, <2>3, HomeOfNamed DEF Peeks, Named
    <3> QED
      BY <1>0, <1>1, <1>2, <2>1, <2>3, <3>1, NamesStay DEF Homes, Known
  <2> QED
    BY <1>0, <1>2, <2>2, <2>3, Arrivals
<1>8. polled' # 0 => \A e \in Received' : e <= polled'
  <2>1. CASE PollReceives
    BY <1>2, <2>1, OneMoreReceived
  <2>2. CASE ~PollReceives
    <3>1. polled' = polled \/ polled' = 0
      BY <1>0, <2>2 DEF Effect, Calm, MakesQueue, DispatchHandled, Store, Clears, Takes,
         Forgets, Peeks, PutsBack
    <3> QED
      BY <1>0, <1>2, <2>2, <3>1, NamesStay DEF Known
  <2> QED
    BY <2>1, <2>2
<1> QED
  BY <1>4, <1>5, <1>6, <1>7, <1>8 DEF Known, In, Took, Holds

------------------------------------------------------------------------------
(* No event is lost *)

Kept ==
    \A e \in Received :
      \/ e = polled \/ e \in gone
      \/ \E q \in Queues : e \in In(q)
      \/ e \in Took(nameOf[e])
      \/ \E c \in Consumers : e \in Holds(c)

LEMMA KeptKept ==
    ASSUME Control, HomeInv, Known, Kept, [Next]_vars
    PROVE  Kept'
<1> DEFINE Found(e) == \/ e = polled' \/ e \in gone'
                       \/ \E q \in Queues' : e \in Elements(queues'[q])
                       \/ e \in Elements(taken'[nameOf'[e]])
                       \/ \E c \in Consumers : e \in Elements(ignored'[c])
<1>0. Effect /\ Control /\ Types /\ Kept
  BY StepsHaveEffects DEF Control
<1>1. PICK home : Homes(home)
  BY DEF HomeInv
<1>2. \A e \in Received : nameOf'[e] = nameOf[e] /\ nameOf[e] \in Names
  BY <1>0, NamesStay DEF Received, Types, ContentTypes
<1>3. CASE Drops
  <2>1. ASSUME NEW e \in Received, e # polled PROVE Found(e)
    BY <1>0, <1>2, <1>3, <2>1 DEF Drops, Kept, Took
  <2>2. ASSUME NEW e \in Received, e = polled PROVE Found(e)
    <3>1. CASE PollReceives
      BY <1>0, <2>2, <3>1, ReceivedIsFinite, EventsAreNumbers, OneMoreReceived
    <3>2. CASE DispatchHandled
      BY <2>2, <3>2 DEF DispatchHandled
    <3>3. CASE Store
      <4>1. PICK r : Stores(r)
        BY <1>0, <3>3, StoreStores
      <4> QED
        BY <2>2, <4>1 DEF Stores
    <3> QED
      BY <1>0, <2>2, <3>1, <3>2, <3>3 DEF Effect, Calm, MakesQueue, Clears, Takes, Forgets,
         Peeks, PutsBack
  <2>3. ASSUME NEW e \in Received', e \notin Received PROVE Found(e)
    BY <1>0, <2>3, NamesStay, OneMoreReceived
  <2> QED
    BY <2>1, <2>2, <2>3 DEF Kept, In, Took, Holds
<1>4. CASE Store
  <2>1. PICK r : Stores(r)
    BY <1>0, <1>4, StoreStores
  <2>2. /\ Received' = Received /\ \A q \in Queues : q \in Queues'
        /\ UNCHANGED <<nameOf, ignored, taken, gone>>
    BY <1>0, <1>4, StoreStores, EffectKeepsContentTypes DEF Received
  <2>3. ASSUME NEW e \in Received PROVE Found(e)
    <3>1. CASE \E q \in Queues : e \in In(q)
      BY <2>1, <2>2, <3>1 DEF Stores, In
    <3>2. CASE e = polled
      BY <2>1, <3>2 DEF Stores
    <3> QED
      BY <1>0, <2>2, <3>1, <3>2 DEF Kept, Took, Holds
  <2> QED
    BY <2>2, <2>3 DEF Kept, In, Took, Holds
<1>5. ASSUME NEW q \in Queues, NEW n \in Names, Takes(q, n) PROVE Kept'
  <2>1. Received' = Received /\ UNCHANGED <<polled, nameOf, ignored, gone>>
    BY <1>5 DEF Takes, Received
  <2>2. nameOf[Head(queues[q])] = n
    <3>1. Head(queues[q]) \in In(q)
      BY <1>0, <1>5, HeadIsTaken
    <3>2. home[q] = n
      BY <1>0, <1>1, <1>5, HomeOfNamed DEF Takes
    <3> QED
      BY <1>1, <3>1, <3>2 DEF Homes
  <2>3. ASSUME NEW e \in Received PROVE Found(e)
    <3>1. CASE e = Head(queues[q])
      BY <1>0, <1>5, <2>1, <2>2, <3>1, HeadIsTaken
    <3>2. CASE e # Head(queues[q]) /\ \E r \in Queues : e \in In(r)
      BY <1>0, <1>5, <3>2, HeadIsTaken DEF In
    <3>3. CASE e \in Took(nameOf[e])
      BY <1>0, <1>2, <1>5, <2>1, <3>3, HeadIsTaken DEF Took
    <3> QED
      BY <1>0, <2>1, <3>1, <3>2, <3>3 DEF Kept, Holds
  <2> QED
    BY <2>1, <2>3 DEF Kept, In, Took, Holds
<1>6. ASSUME NEW c \in Consumers, Peeks(c) PROVE Kept'
  <2>1. Received' = Received /\ UNCHANGED <<polled, nameOf, taken, gone>>
    BY <1>6 DEF Peeks, Received, histVars
  <2>2. ASSUME NEW e \in Received PROVE Found(e)
    <3>1. CASE e = Head(queues[queue[c]])
      BY <1>0, <1>6, <3>1, HeadIsPeeked
    <3>2. CASE e # Head(queues[queue[c]]) /\ \E r \in Queues : e \in In(r)
      BY <1>0, <1>6, <3>2, HeadIsPeeked DEF In
    <3>3. CASE \E d \in Consumers : e \in Holds(d)
      BY <1>0, <1>6, <3>3, HeadIsPeeked DEF Holds
    <3> QED
      BY <1>0, <2>1, <3>1, <3>2, <3>3 DEF Kept, Took
  <2> QED
    BY <2>1, <2>2 DEF Kept, In, Took, Holds
<1>7. ASSUME NEW c \in Consumers, PutsBack(c) PROVE Kept'
  <2>1. Received' = Received /\ UNCHANGED <<polled, nameOf, taken, gone>>
    BY <1>7 DEF PutsBack, Received
  <2>2. ASSUME NEW e \in Received PROVE Found(e)
    <3>1. CASE e = Head(ignored[c])
      BY <1>0, <1>7, <3>1, HeadGoesBack
    <3>2. CASE e # Head(ignored[c]) /\ \E d \in Consumers : e \in Holds(d)
      BY <1>0, <1>7, <3>2, HeadGoesBack DEF Holds
    <3>3. CASE \E r \in Queues : e \in In(r)
      BY <1>0, <1>7, <3>3, HeadGoesBack DEF In
    <3> QED
      BY <1>0, <2>1, <3>1, <3>2, <3>3 DEF Kept, Took
  <2> QED
    BY <2>1, <2>2 DEF Kept, In, Took, Holds
<1> QED
  BY <1>0, <1>3, <1>4, <1>5, <1>6, <1>7, DropsOnly DEF Effect

------------------------------------------------------------------------------
(* Until the second start(), no event is in two places, and the order is kept *)

\* e is in one place at most.
Alone(e) ==
    /\ \A q, r \in Queues : e \in In(q) /\ e \in In(r) => q = r
    /\ \A c, d \in Consumers : e \in Holds(c) /\ e \in Holds(d) => c = d
    /\ \A q \in Queues, c \in Consumers : ~(e \in In(q) /\ e \in Holds(c))
    /\ \A q \in Queues, n \in Names : ~(e \in In(q) /\ e \in Took(n))
    /\ \A c \in Consumers, n \in Names : ~(e \in Holds(c) /\ e \in Took(n))
    /\ e = polled => /\ \A q \in Queues : e \notin In(q)
                     /\ \A c \in Consumers : e \notin Holds(c)
                     /\ \A n \in Names : e \notin Took(n)
Apart ==
    /\ \A e \in Events : Alone(e)
    /\ \A c \in Consumers : Distinct(ignored[c])

InOrder ==
    /\ \A q \in Queues : Ordered(putBack, queues[q])
    /\ \A n \in Names : Ordered(putBack, taken[n])
    /\ \A q \in Queues, n \in Names : \A e \in Took(n), f \in In(q) :
         nameOf[f] = n => Before(putBack, e, f)
    /\ \A q, r \in Queues : \A e \in In(q) \ putBack, f \in In(r) \ putBack :
         nameOf[e] = nameOf[f] => q = r

LEMMA AllReceived ==
    ASSUME Control, Known
    PROVE  /\ \A q \in Queues : In(q) \subseteq Received
           /\ \A c \in Consumers : Holds(c) \subseteq Received
           /\ \A n \in Names : Took(n) \subseteq Received
<1>1. ASSUME NEW n \in Names, NEW e \in Took(n) PROVE e \in Received
  BY <1>1, ContentsAreEvents, NoNameAssumption DEF Known, Received, Control
<1> QED
  BY <1>1 DEF Known

LEMMA EmptyIsFine ==
    /\ Distinct(<<>>) /\ \A P : Ordered(P, <<>>)
BY DEF Distinct, Ordered

LEMMA ApartKept ==
    ASSUME Control, Known, Apart, InOrder, [Next]_vars
    PROVE  Apart'
<1>0. Effect /\ Control /\ Types /\ Apart
  BY StepsHaveEffects DEF Control
<1>a. /\ Events \subseteq Nat \ {0}
      /\ \A q \in Queues : queues[q] \in Seq(Nat)
      /\ \A c \in Consumers : ignored[c] \in Seq(Nat)
  <2>1. Events \subseteq Nat \ {0}
    BY EventsAreNumbers
  <2>2. Seq(Events) \subseteq Seq(Nat)
    BY <2>1, SeqMonotonic
  <2> QED
    BY <1>0, <2>1, <2>2, ContentsAreEvents DEF Types, ContentTypes
<1>1. CASE Drops
  <2>1. /\ \A q \in Queues' : \A e \in Elements(queues'[q]) : q \in Queues /\ e \in In(q)
        /\ \A c \in Consumers : \A e \in Elements(ignored'[c]) : e \in Holds(c)
        /\ \A n \in Names : Elements(taken'[n]) = Took(n)
        /\ \A c \in Consumers : Distinct(ignored'[c])
    BY <1>0, <1>1, NothingInNothing, EmptyIsFine DEF Drops, Apart, In, Holds, Took
  <2>2. polled' = polled \/ polled' \notin Received
    <3>1. 0 \notin Received
      BY <1>a, ReceivedIsFinite
    <3> QED
      BY <1>0, <3>1, OneMoreReceived DEF Effect, Calm, MakesQueue, DispatchHandled, Store,
         Clears, Takes, Forgets, Peeks, PutsBack
  <2>3. ASSUME NEW e \in Events PROVE Alone(e)'
    <3>1. e = polled' => \/ e = polled
                          \/ /\ \A q \in Queues : e \notin In(q)
                             /\ \A c \in Consumers : e \notin Holds(c)
                             /\ \A n \in Names : e \notin Took(n)
      BY <1>0, <2>2, AllReceived
    <3>2. e = polled => /\ \A q \in Queues : e \notin In(q)
                        /\ \A c \in Consumers : e \notin Holds(c)
                        /\ \A n \in Names : e \notin Took(n)
      BY <1>0 DEF Apart, Alone
    <3>3. Alone(e)
      BY <1>0 DEF Apart
    <3> QED
      BY <2>1, <3>1, <3>2, <3>3 DEF Alone, In, Holds, Took
  <2> QED
    BY <2>1, <2>3 DEF Apart
<1>2. CASE Store
  <2>1. PICK r : Stores(r)
    BY <1>0, <1>2, StoreStores
  <2>2. polled' = 0 /\ UNCHANGED <<ignored, taken>>
    BY <1>0, <1>2, StoreStores
  <2>3. /\ \A e \in Elements(queues'[r]) : e = polled \/ (r \in Queues /\ e \in In(r))
        /\ \A q \in Queues' : q # r => q \in Queues /\ Elements(queues'[q]) = In(q)
    BY <2>1 DEF Stores, In
  <2>4. ASSUME NEW e \in Events PROVE Alone(e)'
    <3>1. e # polled'
      BY <1>a, <2>2
    <3>2. CASE e = polled
      BY <1>0, <2>2, <2>3, <3>1, <3>2 DEF Apart, Alone, In, Holds, Took
    <3>3. CASE e # polled
      BY <1>0, <2>2, <2>3, <3>1, <3>3 DEF Apart, Alone, In, Holds, Took
    <3> QED
      BY <3>2, <3>3
  <2> QED
    BY <1>0, <2>2, <2>4 DEF Apart
<1>3. ASSUME NEW q \in Queues, NEW n \in Names, Takes(q, n) PROVE Apart'
  <2> DEFINE h == Head(queues[q])
  <2>1. /\ Queues' = Queues /\ UNCHANGED <<ignored, polled>>
        /\ \A r \in Queues : Elements(queues'[r]) \subseteq In(r)
        /\ \A m \in Names : m # n => Elements(taken'[m]) = Took(m)
        /\ h \in In(q) /\ Elements(taken'[n]) = Took(n) \cup {h}
    BY <1>0, <1>3, HeadIsTaken DEF In, Took, Takes
  <2>2. h \notin Elements(queues'[q])
    <3>1. queues'[q] = Tail(queues[q]) /\ queues[q] # <<>> /\ Ordered(putBack, queues[q])
      BY <1>0, <1>3, HeadIsTaken DEF Takes, InOrder
    <3> QED
      BY <1>a, <3>1, OrderOfTail
  <2>3. ASSUME NEW e \in Events PROVE Alone(e)'
    <3>1. CASE e = h
      <4>1. /\ \A r \in Queues : e \notin Elements(queues'[r])
            /\ \A c \in Consumers : e \notin Holds(c)
            /\ e # polled'
        BY <1>0, <2>1, <2>2, <3>1 DEF Apart, Alone
      <4> QED
        BY <2>1, <4>1 DEF Alone, In, Holds
    <3>2. CASE e # h
      BY <1>0, <2>1, <3>2 DEF Apart, Alone, In, Holds, Took
    <3> QED
      BY <3>1, <3>2
  <2> QED
    BY <1>0, <2>1, <2>3 DEF Apart
<1>4. ASSUME NEW c \in Consumers, Peeks(c) PROVE Apart'
  <2> DEFINE q == queue[c]  h == Head(queues[q])
  <2>1. /\ Queues' = Queues /\ UNCHANGED <<taken, polled>> /\ q \in Queues /\ h \in In(q)
        /\ \A r \in Queues : Elements(queues'[r]) \subseteq In(r)
        /\ \A d \in Consumers : d # c => ignored'[d] = ignored[d]
        /\ ignored'[c] = Append(ignored[c], h) /\ Elements(ignored'[c]) = Holds(c) \cup {h}
        /\ h \in Nat
    BY <1>0, <1>a, <1>4, HeadIsPeeked DEF In, Peeks, histVars
  <2>2. h \notin Elements(queues'[q])
    <3>1. queues'[q] = Tail(queues[q]) /\ queues[q] # <<>> /\ Ordered(putBack, queues[q])
      BY <1>0, <1>4, HeadIsPeeked DEF Peeks, InOrder
    <3> QED
      BY <1>a, <2>1, <3>1, OrderOfTail
  <2>3. \A d \in Consumers : Distinct(ignored'[d])
    <3>1. h \notin Holds(c) /\ h \in Events
      BY <1>0, <2>1, ContentsAreEvents DEF Apart, Alone
    <3>2. Distinct(ignored'[c])
      BY <1>0, <1>a, <2>1, <3>1, DistinctParts DEF Apart, Holds
    <3> QED
      BY <1>0, <2>1, <3>2 DEF Apart
  <2>4. ASSUME NEW e \in Events PROVE Alone(e)'
    <3>1. CASE e = h
      <4>1. /\ \A r \in Queues : e \notin Elements(queues'[r])
            /\ \A d \in Consumers : d # c => e \notin Elements(ignored'[d])
            /\ \A n \in Names : e \notin Took(n)
            /\ e # polled'
        BY <1>0, <2>1, <2>2, <3>1 DEF Apart, Alone, Holds
      <4> QED
        BY <2>1, <4>1 DEF Alone, In, Holds, Took
    <3>2. CASE e # h
      <4>1. /\ \A d \in Consumers : e \in Elements(ignored'[d]) => e \in Holds(d)
            /\ \A r \in Queues : e \in Elements(queues'[r]) => e \in In(r)
        BY <2>1, <3>2 DEF Holds
      <4>2. Alone(e) /\ Queues' = Queues /\ taken' = taken /\ polled' = polled
        BY <1>0, <2>1 DEF Apart
      <4> QED
        BY <4>1, <4>2 DEF Alone, In, Holds, Took
    <3> QED
      BY <3>1, <3>2
  <2> QED
    BY <2>3, <2>4 DEF Apart
<1>5. ASSUME NEW c \in Consumers, PutsBack(c) PROVE Apart'
  <2> DEFINE q == queue[c]  h == Head(ignored[c])
  <2>1. /\ Queues' = Queues /\ UNCHANGED <<taken, polled>> /\ q \in Queues /\ h \in Holds(c)
        /\ \A r \in Queues : r # q => Elements(queues'[r]) = In(r)
        /\ Elements(queues'[q]) = In(q) \cup {h}
        /\ \A d \in Consumers : d # c => ignored'[d] = ignored[d]
        /\ ignored'[c] = Tail(ignored[c]) /\ Elements(ignored'[c]) \subseteq Holds(c)
    BY <1>0, <1>5, HeadGoesBack DEF Holds, PutsBack, In
  <2>2. h \notin Elements(ignored'[c]) /\ Distinct(ignored'[c])
    BY <1>0, <1>a, <1>5, <2>1, DistinctParts DEF Apart, PutsBack
  <2>3. ASSUME NEW e \in Events PROVE Alone(e)'
    <3>1. CASE e = h
      <4>1. /\ \A d \in Consumers : e \notin Elements(ignored'[d])
            /\ \A r \in Queues : r # q => e \notin Elements(queues'[r])
            /\ \A n \in Names : e \notin Took(n)
            /\ e # polled'
        BY <1>0, <2>1, <2>2, <3>1 DEF Apart, Alone, Holds
      <4> QED
        BY <2>1, <4>1 DEF Alone, In, Holds, Took
    <3>2. CASE e # h
      <4>1. /\ \A d \in Consumers : e \in Elements(ignored'[d]) => e \in Holds(d)
            /\ \A r \in Queues : e \in Elements(queues'[r]) => e \in In(r)
        BY <2>1, <3>2 DEF Holds
      <4> QED
        BY <1>0, <2>1, <4>1 DEF Apart, Alone, In, Holds, Took
    <3> QED
      BY <3>1, <3>2
  <2> QED
    BY <1>0, <2>1, <2>2, <2>3 DEF Apart
<1> QED
  BY <1>0, <1>1, <1>2, <1>3, <1>4, <1>5, DropsOnly DEF Effect

LEMMA InOrderKept ==
    ASSUME Control, HomeInv, Known, Apart, InOrder, First, [Next]_vars
    PROVE  InOrder'
<1>0. Effect /\ Control /\ Types /\ Apart
  BY StepsHaveEffects DEF Control
<1>a. /\ Events \subseteq Nat \ {0} /\ Received \subseteq Nat
      /\ \A q \in Queues : queues[q] \in Seq(Nat)
      /\ \A c \in Consumers : ignored[c] \in Seq(Nat)
      /\ \A n \in Names : taken[n] \in Seq(Nat)
  <2>1. Events \subseteq Nat \ {0} /\ Received \subseteq Nat
    BY EventsAreNumbers, ReceivedIsFinite
  <2>2. Seq(Events) \subseteq Seq(Nat)
    BY <2>1, SeqMonotonic
  <2> QED
    BY <1>0, <2>1, <2>2, ContentsAreEvents DEF Types, ContentTypes
<1>b. \A e \in Received : nameOf'[e] = nameOf[e]
  BY <1>0, NamesStay
<1>c. PICK home : Homes(home)
  BY DEF HomeInv
<1>1. CASE Drops
  <2>1. /\ \A q \in Queues' : Ordered(putBack, queues'[q])
        /\ \A q \in Queues' : \A e \in Elements(queues'[q]) : q \in Queues /\ e \in In(q)
        /\ putBack' = putBack /\ taken' = taken
    BY <1>1, NothingInNothing, EmptyIsFine DEF Drops, InOrder, In
  <2>2. ASSUME NEW q \in Queues', NEW n \in Names, NEW e \in Took(n),
               NEW f \in Elements(queues'[q]), nameOf'[f] = n
        PROVE  Before(putBack, e, f)
    BY <1>0, <1>b, <2>1, <2>2, AllReceived DEF InOrder
  <2>3. ASSUME NEW q \in Queues', NEW r \in Queues',
               NEW e \in Elements(queues'[q]) \ putBack,
               NEW f \in Elements(queues'[r]) \ putBack, nameOf'[e] = nameOf'[f]
        PROVE  q = r
    BY <1>0, <1>b, <2>1, <2>3, AllReceived DEF InOrder
  <2> QED
    BY <2>1, <2>2, <2>3 DEF InOrder, In, Took
<1>2. CASE Store
  <2>1. PICK r : Stores(r)
    BY <1>0, <1>2, StoreStores
  <2> DEFINE n == nameOf[polled]
  <2>2. /\ UNCHANGED <<nameOf, taken, putBack>> /\ polled \in Events /\ n \in Names
        /\ polled # 0
    BY <1>0, <1>2, <1>a, StoreStores
  <2>3. /\ \A e \in Elements(queues'[r]) : e = polled \/ (r \in Queues /\ e \in In(r))
        /\ \A q \in Queues' : q # r => q \in Queues /\ queues'[q] = queues[q]
    BY <2>1 DEF Stores, In
  <2>4. ASSUME NEW e \in Received, e # polled PROVE Before(putBack, e, polled)
    BY <1>a, <2>2, <2>4 DEF Known, Before
  <2>5. Ordered(putBack, queues'[r])
    <3>1. CASE r \in Queues
      <4>1. \A f \in In(r) : f \in Received /\ f # polled
        BY <1>0, <2>2, <3>1, AllReceived DEF Apart, Alone
      <4>2. \A f \in Elements(queues[r]) : Before(putBack, f, polled)
        BY <2>4, <4>1 DEF In
      <4>3. Ordered(putBack, Append(queues[r], polled))
        BY <1>a, <2>2, <3>1, <4>2, OrderOfAppend DEF InOrder
      <4> QED
        BY <2>1, <3>1, <4>3 DEF Stores
    <3>2. CASE r \notin Queues
      <4>1. queues'[r] = <<polled>> /\ DOMAIN <<polled>> = {1}
        BY <2>1, <3>2 DEF Stores
      <4> QED
        BY <4>1 DEF Ordered
    <3> QED
      BY <3>1, <3>2
  <2>6. ASSUME NEW q \in Queues', NEW m \in Names, NEW e \in Took(m),
               NEW f \in Elements(queues'[q]), nameOf[f] = m
        PROVE  Before(putBack, e, f)
    <3>1. CASE q \in Queues /\ f \in In(q)
      BY <2>6, <3>1 DEF InOrder
    <3>2. CASE f = polled
      <4>1. e \in Received /\ e # polled
        BY <1>0, <2>2, AllReceived DEF Apart, Alone
      <4> QED
        BY <2>4, <3>2, <4>1
    <3> QED
      BY <2>3, <3>1, <3>2 DEF In
  \* Another queue has no event of this name but those that were put back.
  <2>7. ASSUME NEW q \in Queues, q # r, NEW e \in In(q) PROVE nameOf[e] # n
    <3>1. Uncleared
      BY <1>2 DEF Uncleared, Store, Gone
    <3>2. home[q] = nameOf[e] /\ dict[home[q]] = q
      BY <1>c, <2>7, <3>1 DEF Homes
    <3>3. dict[n] = r \/ dict[n] = 0
      BY <2>1 DEF Stores
    <3>4. q # 0
      BY <1>0, QueuesAreNumbers
    <3> QED
      BY <2>7, <3>2, <3>3, <3>4
  <2>8. ASSUME NEW q \in Queues', NEW s \in Queues',
               NEW e \in Elements(queues'[q]) \ putBack,
               NEW f \in Elements(queues'[s]) \ putBack, nameOf[e] = nameOf[f]
        PROVE  q = s
    <3>1. CASE q = r /\ s # r
      BY <2>3, <2>7, <2>8, <3>1 DEF InOrder, In
    <3>2. CASE q # r /\ s = r
      BY <2>3, <2>7, <2>8, <3>2 DEF InOrder, In
    <3>3. CASE q # r /\ s # r
      BY <2>3, <2>8, <3>3 DEF InOrder, In
    <3> QED
      BY <3>1, <3>2, <3>3
  <2>9. \A q \in Queues' : Ordered(putBack, queues'[q])
    BY <2>3, <2>5 DEF InOrder
  <2> QED
    BY <2>2, <2>6, <2>8, <2>9 DEF InOrder, In, Took
<1>3. ASSUME NEW q \in Queues, NEW n \in Names, Takes(q, n) PROVE InOrder'
  <2> DEFINE h == Head(queues[q])
  <2>1. /\ Queues' = Queues /\ UNCHANGED <<nameOf, putBack>>
        /\ \A r \in Queues : r # q => queues'[r] = queues[r]
        /\ queues'[q] = Tail(queues[q]) /\ queues[q] # <<>>
        /\ \A r \in Queues : Elements(queues'[r]) \subseteq In(r)
        /\ \A m \in Names : m # n => taken'[m] = taken[m]
        /\ h \in In(q) /\ taken'[n] = Append(taken[n], h) /\ h \in Nat
        /\ Elements(taken'[n]) = Took(n) \cup {h}
    BY <1>0, <1>a, <1>3, HeadIsTaken DEF In, Takes
  <2>2. nameOf[h] = n
    <3>1. home[q] = n
      BY <1>0, <1>c, <1>3, HomeOfNamed DEF Takes
    <3> QED
      BY <1>c, <2>1, <3>1 DEF Homes
  <2>3. /\ Ordered(putBack, Tail(queues[q]))
        /\ \A f \in Elements(Tail(queues[q])) : Before(putBack, h, f)
    BY <1>a, <2>1, OrderOfTail DEF InOrder
  <2>4. Ordered(putBack, taken'[n])
    <3>1. \A e \in Elements(taken[n]) : Before(putBack, e, h)
      BY <2>1, <2>2 DEF InOrder, Took
    <3> QED
      BY <1>a, <2>1, <3>1, OrderOfAppend DEF InOrder
  <2>5. ASSUME NEW r \in Queues, NEW f \in Elements(queues'[r]), nameOf[f] = n
        PROVE  Before(putBack, h, f)
    <3>1. CASE r = q
      BY <2>1, <2>3, <3>1
    <3>2. CASE r # q
      <4>1. f # h /\ f \in In(r)
        BY <1>0, <2>1, <3>2, ContentsAreEvents DEF Apart, Alone
      <4>2. h \in putBack \/ f \in putBack
        BY <2>1, <2>2, <2>5, <3>2, <4>1 DEF InOrder
      <4> QED
        BY <4>1, <4>2 DEF Before
    <3> QED
      BY <3>1, <3>2
  <2>6. ASSUME NEW r \in Queues, NEW m \in Names, NEW e \in Elements(taken'[m]),
               NEW f \in Elements(queues'[r]), nameOf[f] = m
        PROVE  Before(putBack, e, f)
    <3>1. CASE e \in Took(m)
      BY <2>1, <2>6, <3>1 DEF InOrder
    <3>2. CASE e \notin Took(m)
      BY <2>1, <2>5, <2>6, <3>2 DEF Took
    <3> QED
      BY <3>1, <3>2
  <2>7. /\ \A r \in Queues : Ordered(putBack, queues'[r])
        /\ \A m \in Names : Ordered(putBack, taken'[m])
    BY <2>1, <2>3, <2>4 DEF InOrder
  <2>8. \A r, s \in Queues : \A e \in Elements(queues'[r]) \ putBack,
                                f \in Elements(queues'[s]) \ putBack :
          nameOf[e] = nameOf[f] => r = s
    BY <2>1 DEF InOrder
  <2> QED
    BY <2>1, <2>6, <2>7, <2>8 DEF InOrder, In, Took
<1>4. ASSUME NEW c \in Consumers, Peeks(c) PROVE InOrder'
  <2> DEFINE q == queue[c]
  <2>1. /\ Queues' = Queues /\ UNCHANGED <<nameOf, taken, putBack>> /\ q \in Queues
        /\ \A r \in Queues : r # q => queues'[r] = queues[r]
        /\ queues'[q] = Tail(queues[q]) /\ queues[q] # <<>>
        /\ \A r \in Queues : Elements(queues'[r]) \subseteq In(r)
    BY <1>0, <1>4, HeadIsPeeked DEF In, Peeks, histVars
  <2>2. \A r \in Queues : Ordered(putBack, queues'[r])
    BY <1>a, <2>1, OrderOfTail DEF InOrder
  <2>3. \A r \in Queues, n \in Names : \A e \in Took(n), f \in Elements(queues'[r]) :
          nameOf[f] = n => Before(putBack, e, f)
    BY <2>1 DEF InOrder
  <2>4. \A r, s \in Queues : \A e \in Elements(queues'[r]) \ putBack,
                                f \in Elements(queues'[s]) \ putBack :
          nameOf[e] = nameOf[f] => r = s
    BY <2>1 DEF InOrder
  <2> QED
    BY <2>1, <2>2, <2>3, <2>4 DEF InOrder, In, Took
<1>5. ASSUME NEW c \in Consumers, PutsBack(c) PROVE InOrder'
  <2> DEFINE q == queue[c]  h == Head(ignored[c])
  <2>1. /\ Queues' = Queues /\ UNCHANGED <<nameOf, taken>> /\ q \in Queues
        /\ \A r \in Queues : r # q => queues'[r] = queues[r]
        /\ queues'[q] = Append(queues[q], h) /\ h \in Events
        /\ Elements(queues'[q]) = In(q) \cup {h}
        /\ putBack' = putBack \cup {h} /\ h \in Holds(c)
    BY <1>0, <1>5, HeadGoesBack DEF PutsBack
  <2>2. /\ \A e, f : Before(putBack, e, f) => Before(putBack', e, f)
        /\ \A s : Ordered(putBack, s) => Ordered(putBack', s)
    BY <2>1, OrderGrows
  <2>3. Ordered(putBack', queues'[q])
    <3>1. \A f \in Elements(queues[q]) : Before(putBack', f, h)
      <4>1. h \notin Elements(queues[q])
        BY <1>0, <2>1 DEF Apart, Alone, In
      <4> QED
        BY <2>1, <4>1 DEF Before
    <3>2. Ordered(putBack', queues[q]) /\ h \in Nat
      BY <1>a, <2>1, <2>2 DEF InOrder
    <3>3. Ordered(putBack', Append(queues[q], h))
      BY <1>a, <2>1, <3>1, <3>2, OrderOfAppend
    <3> QED
      BY <2>1, <3>3
  <2>4. ASSUME NEW r \in Queues, NEW n \in Names, NEW e \in Took(n),
               NEW f \in Elements(queues'[r]), nameOf[f] = n
        PROVE  Before(putBack', e, f)
    <3>1. CASE f \in In(r)
      BY <2>2, <2>4, <3>1 DEF InOrder
    <3>2. CASE f = h
      <4>1. e # h
        BY <1>0, <2>1 DEF Apart, Alone
      <4> QED
        BY <2>1, <3>2, <4>1 DEF Before
    <3> QED
      BY <2>1, <3>1, <3>2 DEF In
  <2>5. ASSUME NEW r \in Queues, NEW s \in Queues,
               NEW e \in Elements(queues'[r]) \ putBack',
               NEW f \in Elements(queues'[s]) \ putBack', nameOf[e] = nameOf[f]
        PROVE  r = s
    <3>1. e \in In(r) \ putBack /\ f \in In(s) \ putBack
      BY <2>1 DEF In
    <3> QED
      BY <2>5, <3>1 DEF InOrder
  <2>6. /\ \A r \in Queues : Ordered(putBack', queues'[r])
        /\ \A n \in Names : Ordered(putBack', taken'[n])
    BY <2>1, <2>2, <2>3 DEF InOrder
  <2>7. \A r \in Queues, n \in Names : \A e \in Took(n), f \in Elements(queues'[r]) :
          nameOf[f] = n => Before(putBack', e, f)
    BY <2>4
  <2>8. \A r, s \in Queues : \A e \in Elements(queues'[r]) \ putBack',
                                f \in Elements(queues'[s]) \ putBack' :
          nameOf[e] = nameOf[f] => r = s
    BY <2>5
  <2>9. Queues' = Queues /\ nameOf' = nameOf /\ taken' = taken
    BY <2>1
  <2> HIDE DEF q, h
  <2> QED
    BY <2>6, <2>7, <2>8, <2>9 DEF InOrder, In, Took
<1> QED
  BY <1>0, <1>1, <1>2, <1>3, <1>4, <1>5, DropsOnly DEF Effect

------------------------------------------------------------------------------
(* The theorems *)

Inv == Control /\ HomeInv /\ Known /\ Kept /\ (First => Apart /\ InOrder)

LEMMA InvInit == Init => Inv
<1> SUFFICES ASSUME Init PROVE Inv
  OBVIOUS
<1>1. Control
  BY ControlInit
<1>2. /\ Queues = {} /\ Received = {} /\ polled = 0
      /\ \A n \in Names : dict[n] = 0 /\ Took(n) = {} /\ taken[n] = <<>>
      /\ \A c \in Consumers : queue[c] = 0 /\ Holds(c) = {} /\ ignored[c] = <<>>
  BY NothingInNothing DEF Init, Queues, Received, Took, Holds
<1>3. HomeInv
  <2>1. Homes(<<>>) /\ <<>> \in [Queues -> Names]
    BY <1>2 DEF Homes
  <2> QED
    BY <2>1 DEF HomeInv
<1>4. Known
  <2>1. Cardinality({}) = 0 /\ {} = 1..0
    BY FS_EmptySet
  <2> QED
    BY <1>2, <2>1 DEF Known
<1>5. Kept
  BY <1>2 DEF Kept
<1>6. Apart /\ InOrder
  BY <1>2, EmptyIsFine DEF Apart, Alone, InOrder
<1> QED
  BY <1>1, <1>3, <1>4, <1>5, <1>6 DEF Inv

LEMMA InvKept == Inv /\ [Next]_vars => Inv'
<1> SUFFICES ASSUME Inv, [Next]_vars PROVE Inv'
  OBVIOUS
<1> USE DEF Inv
<1>1. Control'
  BY ControlKept
<1>2. HomeInv'
  BY <1>1, HomesKept DEF HomeInv
<1>3. Known' /\ Kept'
  BY KnownKept, KeptKept
<1>4. First' => Apart' /\ InOrder'
  BY ClearedForGood, ApartKept, InOrderKept
<1> QED
  BY <1>1, <1>2, <1>3, <1>4

LEMMA InvHolds == Spec => []Inv
BY InvInit, InvKept, PTL DEF Spec

\* The types, and that the lock is taken when somebody is inside.
THEOREM TypesHold == Spec => []TypeOK
<1>1. Inv => TypeOK
  BY DEF Inv, Control, Types, ContentTypes, DictTypes, PlainTypes, ThreadTypes,
     CallTypes, LockInv, TypeOK
<1> QED
  BY <1>1, InvHolds, PTL

\* Whatever consumers do with the queues, and wherever the polling thread fails:
\* until the first close(), an event that was received is with somebody, in the
\* queue that the dictionary has for its name, or was dropped on purpose.
THEOREM NothingLostHolds == Spec => []NothingLost
<1>1. ASSUME Inv, started, starts = 1, NEW e \in Received
      PROVE  \/ e = polled \/ Stored(e) \/ e \in gone
             \/ e \in Elements(taken[nameOf[e]])
             \/ \E c \in Consumers : e \in Elements(ignored[c])
  <2>1. PICK home : Homes(home)
    BY <1>1 DEF Inv, HomeInv
  <2>2. ASSUME NEW q \in Queues, e \in In(q) PROVE Stored(e)
    <3>1. dict[nameOf[e]] = q /\ q # 0
      BY <1>1, <2>1, <2>2, QueuesAreNumbers DEF Homes, First, Uncleared, Inv, Control
    <3> QED
      BY <2>2, <3>1 DEF Stored, In
  <2> QED
    BY <1>1, <2>2 DEF Inv, Kept, Took, Holds
<1>2. Inv => NothingLost
  BY <1>1 DEF NothingLost
<1> QED
  BY <1>2, InvHolds, PTL

\* pop_event, wait_for_event, pop_all and pop_events of any threads give out the
\* events of a name in the order in which the device posted them.
THEOREM OldestFirstHolds == Spec => []OldestFirst
<1>1. ASSUME Inv, starts = 1, NEW n \in Names, NEW i \in DOMAIN taken[n],
             NEW j \in DOMAIN taken[n], i < j
      PROVE  \/ taken[n][i] < taken[n][j]
             \/ /\ taken[n][i] # taken[n][j]
                /\ putBack \cap {taken[n][i], taken[n][j]} # {}
  BY <1>1 DEF Inv, First, InOrder, Ordered, Before
<1>2. Inv => OldestFirst
  BY <1>1 DEF OldestFirst
<1> QED
  BY <1>2, InvHolds, PTL

------------------------------------------------------------------------------
(* Nothing is left of an earlier session *)

OpInv == op \in [Consumers -> Ops \cup {"none"}]

LEMMA OpsKept ==
    ASSUME Control, OpInv, [Next]_vars
    PROVE  OpInv'
<1> USE DEF OpInv
<1>1. CASE PollStep \/ Start \/ CloseBegin \/ CloseStep
  BY <1>1, OthersLeaveConsumers DEF consVars
<1>2. ASSUME NEW c \in Consumers, Call(c) PROVE OpInv'
  BY <1>2 DEF Call
<1>3. ASSUME NEW c \in Consumers, Refuse(c) PROVE OpInv'
  BY <1>3 DEF Refuse, Finish
<1>4. ASSUME NEW c \in Consumers, BeginPop(c) PROVE OpInv'
  BY <1>4 DEF BeginPop
<1>5. ASSUME NEW c \in Consumers, MakeQueue(c) PROVE OpInv'
  BY <1>5 DEF MakeQueue
<1>6. ASSUME NEW c \in Consumers, ReadQueue(c) PROVE OpInv'
  BY <1>6 DEF ReadQueue
<1>7. ASSUME NEW c \in Consumers, Raises(c) PROVE OpInv'
  BY <1>7 DEF Raises, Finish
<1>8. ASSUME NEW c \in Consumers, Get(c) PROVE OpInv'
  BY <1>8, GetOutcome DEF GetResult, Finish
<1>9. ASSUME NEW c \in Consumers, GetTimesOut(c) PROVE OpInv'
  BY <1>9 DEF GetTimesOut, Finish
<1>10. ASSUME NEW c \in Consumers, Match(c) PROVE OpInv'
  BY <1>10 DEF Match
<1>11. ASSUME NEW c \in Consumers, Mismatch(c) PROVE OpInv'
  BY <1>11 DEF Mismatch
<1>12. ASSUME NEW c \in Consumers, PutBack(c) PROVE OpInv'
  BY <1>12 DEF PutBack, Finish
<1>13. ASSUME NEW c \in Consumers, BeginPopAll(c) PROVE OpInv'
  BY <1>13 DEF BeginPopAll
<1>14. ASSUME NEW c \in Consumers, PopAll(c) PROVE OpInv'
  BY <1>14 DEF PopAll, Finish, consVars
<1>15. ASSUME NEW c \in Consumers, BeginPopEvents(c) PROVE OpInv'
  BY <1>15 DEF BeginPopEvents
<1>16. ASSUME NEW c \in Consumers, PopEvents(c) PROVE OpInv'
  BY <1>16 DEF PopEvents
<1>17. ASSUME NEW c \in Consumers, PopEventsEnds(c) PROVE OpInv'
  BY <1>17 DEF PopEventsEnds, Finish
<1>18. ASSUME NEW c \in Consumers, ClearEvents(c) PROVE OpInv'
  BY <1>18 DEF ClearEvents, Finish
<1>19. CASE UNCHANGED vars
  BY <1>19 DEF vars, consVars
<1>20. ASSUME NEW c \in Consumers, Call(c) \/ ConsStep(c) PROVE OpInv'
  BY <1>20, <1>2, <1>3, <1>4, <1>5, <1>6, <1>7, <1>8, <1>9, <1>10, <1>11, <1>12, <1>13,
     <1>14, <1>15, <1>16, <1>17, <1>18 DEF ConsStep
<1> QED
  BY <1>1, <1>19, <1>20 DEF Next

Cleared == \A n \in Names : dict[n] # 0 => queues[dict[n]] = <<>>

\* Between close() and start() the polling thread is gone and the queues are empty,
\* unless the thread tried to close the dispatcher itself.
FreshInv ==
    ~started /\ owner = "idle" => poller \in Gone /\ (poller # "selfClosed" => Cleared)

\* Without wait_for_event(consume_ignored_events=False) consumers put nothing back.
LEMMA ConsumersOnlyTake ==
    ASSUME Control, OpInv, "peek" \notin Ops, Cleared,
           NEW c \in Consumers, Call(c) \/ ConsStep(c)
    PROVE  Cleared'
<1>0. /\ Effect /\ DictStep /\ Types /\ [Next]_vars
      /\ dict \in [Names -> {0} \cup Queues]
  <2>1. [Next]_vars
    BY DEF Next
  <2> QED
    BY <2>1, StepsHaveEffects, DictSteps DEF Control, Types, DictTypes
<1>1. UNCHANGED <<poller, owner, polled>>
  BY ConsumersLeaveTheThread DEF ownerVars
<1>2. ~CloseClears /\ ~PollReceives /\ ~DispatchHandled /\ ~Store
  BY <1>1 DEF CloseClears, PollReceives, DispatchHandled, Store
<1>3. ASSUME NEW d \in Consumers PROVE ~Peeks(d) /\ ~PutsBack(d)
  <2>1. ~PutsBack(d)
    BY DEF PutsBack, Control, CallInv, OpInv
  <2>2. ignored'[d] = <<>>
    <3>1. Control' /\ OpInv'
      BY <1>0, ControlKept, OpsKept
    <3> QED
      BY <3>1 DEF Control, CallInv, OpInv
  <2>3. ~Peeks(d)
    <3>1. ASSUME Peeks(d) PROVE Elements(ignored'[d]) # {}
      BY <1>0, <3>1, HeadIsPeeked
    <3> QED
      BY <2>2, <3>1, NothingInNothing
  <2> QED
    BY <2>1, <2>3
<1>4. ASSUME NEW q \in Queues', q \in Queues => queues[q] = <<>>
      PROVE  queues'[q] = <<>>
  <2>1. CASE Drops
    BY <1>4, <2>1 DEF Drops
  <2>2. ASSUME NEW r \in Queues, NEW n \in Names, Takes(r, n) PROVE queues'[q] = <<>>
    BY <1>0, <1>4, <2>2, HeadIsTaken DEF Takes
  <2> QED
    BY <1>0, <1>2, <1>3, <2>1, <2>2, DropsOnly DEF Effect
<1>5. ASSUME NEW n \in Names, dict'[n] # 0 PROVE queues'[dict'[n]] = <<>>
  <2>1. CASE dict' = dict /\ Queues' = Queues
    BY <1>0, <1>4, <1>5, <2>1 DEF Cleared
  <2>2. ASSUME NEW m \in Names, NewName(m) PROVE queues'[dict'[n]] = <<>>
    <3>0. /\ Queues = 1..Len(queues) /\ Len(queues) \in Nat
          /\ Queues' = 1..Len(queues')
      <4>1. ContentTypes'
        BY <1>0, EffectKeepsContentTypes
      <4> QED
        BY <1>0, <4>1, QueuesAreNumbers DEF ContentTypes, Queues
    <3>1. CASE n = m
      BY <1>0, <1>4, <2>2, <3>0, <3>1 DEF NewName
    <3>2. CASE n # m
      <4>1. dict'[n] = dict[n] /\ dict[n] \in Queues /\ dict[n] \in Queues'
        BY <1>0, <1>5, <2>2, <3>0, <3>2 DEF NewName
      <4> QED
        BY <1>4, <1>5, <4>1 DEF Cleared
    <3> QED
      BY <3>1, <3>2
  <2> QED
    BY <1>0, <1>2, <2>1, <2>2 DEF DictStep
<1> QED
  BY <1>5 DEF Cleared

LEMMA FreshKept ==
    ASSUME Control, OpInv, "peek" \notin Ops, FreshInv, [Next]_vars
    PROVE  FreshInv'
<1> USE DEF FreshInv
<1>1. CASE PollStep
  <2>1. poller \notin Gone /\ owner' = owner
    BY <1>1 DEF PollStep, PollLoop, PollReceives, PollReceivesNothing, PollSeesShutdown,
       PollFails, DispatchHandled, Store, Gone, ownerVars
  <2>2. started' = started \/ poller' = "selfClosed"
    BY <1>1 DEF Control, Types, PlainTypes, ThreadTypes, PollStep, PollLoop, PollReceives, PollReceivesNothing, PollSeesShutdown,
       PollFails, DispatchHandled, Store, dispVars
  <2> QED
    BY <2>1, <2>2 DEF Gone
<1>2. CASE Start \/ CloseBegin
  BY <1>2 DEF Start, CloseBegin
<1>3. CASE CloseJoins
  BY <1>3 DEF CloseJoins
<1>4. CASE CloseClears
  BY <1>4 DEF CloseClears, pollVars, Control, ThreadInv, Cleared
<1>5. ASSUME NEW c \in Consumers, Call(c) \/ ConsStep(c) PROVE FreshInv'
  BY <1>5, ConsumersLeaveTheThread, ConsumersOnlyTake DEF ownerVars
<1>6. CASE UNCHANGED vars
  BY <1>6 DEF vars, dispVars, pollVars, ownerVars, Cleared
<1> QED
  BY <1>1, <1>2, <1>3, <1>4, <1>5, <1>6 DEF Next, CloseStep

\* A dispatcher that its owner has closed starts afresh, however many threads are
\* still inside its operations: what they had been told to look for is made anew,
\* and empty.  wait_for_event that puts back what it ignored is the exception.
THEOREM FreshStartHolds ==
    ASSUME "peek" \notin Ops
    PROVE  Spec => FreshStart
<1> DEFINE I == Control /\ OpInv /\ FreshInv
<1>1. Init => I
  BY ControlInit DEF Init, OpInv, FreshInv, Cleared, Gone
<1>2. I /\ [Next]_vars => I'
  BY ControlKept, OpsKept, FreshKept
<1>3. I /\ [Next]_vars
        => [starts' # starts /\ poller # "selfClosed" =>
              \A n \in Names : dict[n] # 0 => queues[dict[n]] = <<>>]_vars
  <2> SUFFICES ASSUME I, [Next]_vars, starts' # starts, poller # "selfClosed" PROVE Cleared
    BY DEF Cleared
  <2>1. Start
    <3>1. ~(\E c \in Consumers : Call(c) \/ ConsStep(c))
      BY ConsumersLeaveTheThread DEF ownerVars
    <3>2. ~PollStep
      BY DEF PollStep, PollLoop, PollReceives, PollReceivesNothing, PollSeesShutdown,
         PollFails, DispatchHandled, Store, ownerVars
    <3>3. ~CloseBegin /\ ~CloseStep /\ ~UNCHANGED vars
      BY DEF CloseBegin, CloseStep, CloseJoins, CloseClears, vars, ownerVars
    <3> QED
      BY <3>1, <3>2, <3>3 DEF Next
  <2> QED
    BY <2>1 DEF Start, FreshInv
<1> QED
  BY <1>1, <1>2, <1>3, PTL DEF Spec, FreshStart
==============================================================================
