-------------------------- MODULE SubscriptionBundle --------------------------
(***************************************************************************)
(* acts/event/subscription_bundle.py on top of EventBus.tla: one bundle of *)
(* subscriptions that threads add to, remove from, register and unregister *)
(* as a whole, while threads post events and other subscriptions, which do *)
(* not belong to the bundle, are removed from the bus.                     *)
(*                                                                         *)
(* A call of the bundle holds the bundle's lock across its calls of the    *)
(* bus, each of which takes the lock of the bus for itself.  The tests of  *)
(* `registered` and of the keys come before the lock.                      *)
(***************************************************************************)
EXTENDS EventBus

CONSTANTS
    Own,         \* the subscriptions that the bundle may manage
    Registrars,  \* the threads that call register()
    MaxCalls     \* bound: calls one thread makes of the bundle or of the bus

ASSUME BundleAssumption ==
    Own \subseteq Subs /\ Registrars \subseteq Threads /\ MaxCalls \in Nat

VARIABLES
    subscriptions,  \* the keys of the dictionary
    withId,         \* those of them whose value is not None
    registered,     \* _registered
    bundleLock,     \* the thread that holds the bundle's _subscription_lock
    upc, item, todo,   \* threads: where in the bundle, argument, rest of a loop
    calls              \* counter for the bound

bundleVars == <<subscriptions, withId, registered, bundleLock, upc, item, todo, calls>>
vars == <<busVars, bundleVars>>

Goto(t, label) == upc' = [upc EXCEPT ![t] = label]
Free(t)        == upc[t] = "idle" /\ bpc[t] = "idle"
Counted(t)     == calls[t] < MaxCalls /\ calls' = [calls EXCEPT ![t] = @ + 1]

\* The bus knows the subscriptions of others, the bundle is empty.
Init ==
    /\ BusInit(Subs \ Own)
    /\ subscriptions = {} /\ withId = {}
    /\ registered = FALSE /\ bundleLock = None
    /\ upc = [t \in Threads |-> "idle"]
    /\ item = [t \in Threads |-> None]
    /\ todo = [t \in Threads |-> {}]
    /\ calls = [t \in Threads |-> 0]

\* `with self._subscription_lock`, and leaving it.
Lock(t)  == bundleLock = None /\ bundleLock' = t
Leave(t) ==
    /\ bundleLock' = None
    /\ Goto(t, "idle") /\ item' = [item EXCEPT ![t] = None]

------------------------------------------------------------------------------
(* register and unregister *)

\* A call that finds nothing to do returns at once and is left out.
CallRegisterAll(t) ==
    /\ Free(t) /\ t \in Registrars
    /\ ~registered
    /\ Counted(t)
    /\ Goto(t, "registering")
    /\ UNCHANGED <<busVars, subscriptions, withId, registered, bundleLock, item, todo>>

\* Mutant: the flag is set when all subscriptions are registered.
RegisterBeginsUnmarked(t) ==
    /\ upc[t] = "registering"
    /\ Lock(t)
    /\ todo' = [todo EXCEPT ![t] = subscriptions]
    /\ Goto(t, "registerNext")
    /\ UNCHANGED <<busVars, registered, subscriptions, withId, item, calls>>

RegisterBegins(t) ==
    /\ upc[t] = "registering"
    /\ Lock(t)
    /\ registered' = TRUE
    /\ todo' = [todo EXCEPT ![t] = subscriptions]
    /\ Goto(t, "registerNext")
    /\ UNCHANGED <<busVars, subscriptions, withId, item, calls>>

RegisterNext(t) ==
    /\ upc[t] = "registerNext" /\ bpc[t] = "idle"
    /\ IF todo[t] = {}
         THEN Leave(t) /\ UNCHANGED <<busVars, todo, withId>>
         ELSE \E s \in todo[t] :
                /\ CallRegister(t, s)
                /\ todo' = [todo EXCEPT ![t] = @ \ {s}]
                /\ withId' = withId \cup {s}
                /\ UNCHANGED <<bundleLock, upc, item>>
    /\ UNCHANGED <<subscriptions, registered, calls>>

CallUnregisterAll(t) ==
    /\ Free(t)
    /\ registered
    /\ Counted(t)
    /\ Goto(t, "unregistering")
    /\ UNCHANGED <<busVars, subscriptions, withId, registered, bundleLock, item, todo>>

UnregisterBegins(t) ==
    /\ upc[t] = "unregistering"
    /\ Lock(t)
    /\ registered' = FALSE
    /\ todo' = [todo EXCEPT ![t] = subscriptions]
    /\ Goto(t, "unregisterNext")
    /\ UNCHANGED <<busVars, subscriptions, withId, item, calls>>

UnregisterNext(t) ==
    /\ upc[t] = "unregisterNext" /\ bpc[t] = "idle"
    /\ IF todo[t] = {}
         THEN Leave(t) /\ UNCHANGED <<busVars, todo, withId>>
         ELSE \E s \in todo[t] :
                /\ CallUnregister(t, s)
                /\ todo' = [todo EXCEPT ![t] = @ \ {s}]
                /\ withId' = withId \ {s}
                /\ UNCHANGED <<bundleLock, upc, item>>
    /\ UNCHANGED <<subscriptions, registered, calls>>

------------------------------------------------------------------------------
(* add_subscription and remove_subscription *)

\* Every call adds a subscription of its own.
CallAdd(t) ==
    /\ Free(t)
    /\ Counted(t)
    /\ \E s \in Own \ subscriptions :
         /\ \A u \in Threads : item[u] # s
         /\ item' = [item EXCEPT ![t] = s]
    /\ Goto(t, "adding")
    /\ UNCHANGED <<busVars, subscriptions, withId, registered, bundleLock, todo>>

Add(t) ==
    /\ upc[t] = "adding"
    /\ Lock(t)
    /\ IF registered THEN CallRegister(t, item[t]) ELSE UNCHANGED busVars
    /\ withId' = IF registered THEN withId \cup {item[t]} ELSE withId
    /\ Goto(t, "added")
    /\ UNCHANGED <<subscriptions, registered, item, todo, calls>>

Added(t) ==
    /\ upc[t] = "added" /\ bpc[t] = "idle"
    /\ subscriptions' = subscriptions \cup {item[t]}
    /\ Leave(t)
    /\ UNCHANGED <<busVars, withId, registered, todo, calls>>

CallRemove(t) ==
    /\ Free(t)
    /\ Counted(t)
    /\ \E s \in subscriptions : item' = [item EXCEPT ![t] = s]
    /\ Goto(t, "removing")
    /\ UNCHANGED <<busVars, subscriptions, withId, registered, bundleLock, todo>>

\* Mutant: the exception leaves the lock held.
RemoveFailsLocked(t) ==
    /\ upc[t] = "removing"
    /\ item[t] \notin subscriptions
    /\ Lock(t)
    /\ Goto(t, "idle") /\ item' = [item EXCEPT ![t] = None]
    /\ UNCHANGED <<busVars, subscriptions, withId, registered, todo, calls>>

\* KeyError if another thread has removed it since.
RemoveFails(t) ==
    /\ upc[t] = "removing"
    /\ bundleLock = None
    /\ item[t] \notin subscriptions
    /\ Leave(t)
    /\ UNCHANGED <<busVars, subscriptions, withId, registered, todo, calls>>

RemoveOwn(t) ==
    /\ upc[t] = "removing"
    /\ item[t] \in subscriptions
    /\ Lock(t)
    /\ IF registered THEN CallUnregisterId(t, item[t]) ELSE UNCHANGED busVars
    /\ Goto(t, "removed")
    /\ UNCHANGED <<subscriptions, withId, registered, item, todo, calls>>

Removed(t) ==
    /\ upc[t] = "removed" /\ bpc[t] = "idle"
    /\ subscriptions' = subscriptions \ {item[t]}
    /\ withId' = withId \ {item[t]}
    /\ Leave(t)
    /\ UNCHANGED <<busVars, registered, todo, calls>>

------------------------------------------------------------------------------
BundleStep(t) ==
    \/ RegisterBegins(t) \/ RegisterNext(t)
    \/ UnregisterBegins(t) \/ UnregisterNext(t)
    \/ Add(t) \/ Added(t) \/ RemoveFails(t) \/ RemoveOwn(t) \/ Removed(t)

Call(t) ==
    \/ CallRegisterAll(t) \/ CallUnregisterAll(t) \/ CallAdd(t) \/ CallRemove(t)
    \/ /\ Free(t)
       /\ UNCHANGED <<subscriptions, withId, registered, bundleLock, upc, item, todo>>
       /\ \/ CallPost(t) /\ UNCHANGED calls
          \/ Counted(t) /\ \E s \in Subs \ Own : CallUnregisterId(t, s)

Step(t) == BundleStep(t) \/ (BusStep(t) /\ UNCHANGED bundleVars)

Next == \E t \in Threads : Call(t) \/ Step(t)

Spec == Init /\ [][Next]_vars
FairSpec == Spec /\ \A t \in Threads : WF_vars(Step(t))

------------------------------------------------------------------------------
(* Properties *)

BundlePCs == {"idle", "registering", "registerNext", "unregistering",
              "unregisterNext", "adding", "added", "removing", "removed"}
BusPCs    == {"idle", "register", "appended", "sorting", "lookup",
              "unregister", "collect", "deliver"}

TypeOK ==
    /\ DOMAIN lists \subseteq Types
    /\ \A ty \in DOMAIN lists : \A s \in ToSet(lists[ty]) : TypeOf[s] = ty
    /\ ids \subseteq Subs /\ busLock \in Threads \cup {None}
    /\ sorted \in Types \cup {None}
    /\ bpc \in [Threads -> BusPCs] /\ arg \in [Threads -> Subs \cup {None}]
    /\ upc \in [Threads -> BundlePCs] /\ item \in [Threads -> Own \cup {None}]
    /\ subscriptions \subseteq Own /\ withId \subseteq Own
    /\ registered \in BOOLEAN /\ bundleLock \in Threads \cup {None}
    /\ todo \in [Threads -> SUBSET Own]
    /\ sorted # None => busLock # None

\* Whoever looks at a list while nobody holds the lock finds it in order, each
\* subscription once, and exactly those the id map knows (one thread at most
\* calls register(): two register every subscription twice).
BusIsConsistent ==
    busLock = None =>
      /\ \A ty \in DOMAIN lists :
           lists[ty] = StableSort(lists[ty]) /\ IsInjective(lists[ty])
      /\ UNION {ToSet(lists[ty]) : ty \in DOMAIN lists} = ids

\* What the bundle has registered is what its flag says: between its calls all
\* or none of its subscriptions are on the bus, as long as one thread at most
\* calls register().
BundleMatchesBus ==
    bundleLock = None =>
      /\ ids \cap Own = IF registered THEN subscriptions ELSE {}
      /\ withId = ids \cap Own

\* The subscriptions of a type are all found, once each and in their order,
\* unless its list was changed while the post was looking: then a subscriber
\* that never moved may be skipped, or called twice.
IsPartOfType(list, seq, ty) ==
    \E at \in [DOMAIN list -> DOMAIN seq] :
      /\ \A i, j \in DOMAIN list : i < j => at[i] < at[j]
      /\ \A i \in DOMAIN list : seq[at[i]] = list[i]
      /\ \A k \in DOMAIN seq : TypeOf[seq[k]] = ty => \E i \in DOMAIN list : at[i] = k
UndisturbedAreFound ==
    [][\A t \in Threads : bpc[t] = "collect" /\ bpc'[t] = "deliver" =>
         \A ty \in ToSet(Mro) \ touched[t] :
           IsPartOfType(StableSort(ListOf(ty)), found'[t], ty)]_vars

\* Every call ends, and every post: nobody waits for ever for a lock.
EveryCallEnds == \A t \in Threads : ~Free(t) ~> Free(t)
==============================================================================
