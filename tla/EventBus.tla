------------------------------- MODULE EventBus -------------------------------
(***************************************************************************)
(* acts/event/event_bus.py: subscriptions to event types, and the posting  *)
(* of an event to the subscribers of its type and of the types it derives  *)
(* from.  register_subscription and unregister exclude each other by a     *)
(* lock; post reads the lists without it, one element after another, and   *)
(* then calls the subscribers it has found.                                *)
(*                                                                         *)
(* An action is what a thread does between two accesses to a list that     *)
(* another thread could tell apart.  While Python sorts a list, the list   *)
(* is empty for everybody else.                                            *)
(***************************************************************************)
EXTENDS Naturals, FiniteSets, SequencesExt

CONSTANTS
    Threads, None,
    Subs,            \* EventSubscription objects
    Types,           \* event types
    TypeOf, OrderOf, \* of each subscription
    Mro,             \* the types of the event that is posted, its own first
    MaxPosts         \* bound: posts of one thread

ASSUME BusAssumption ==
    /\ None \notin Threads \cup Subs \cup Types /\ IsFiniteSet(Subs)
    /\ TypeOf \in [Subs -> Types] /\ OrderOf \in [Subs -> Nat]
    /\ Mro \in Seq(Types) /\ IsInjective(Mro)
    /\ MaxPosts \in Nat

VARIABLES
    lists,       \* _subscriptions: the list of each type it has as a key
    ids,         \* the subscriptions that _registration_id_map knows
    busLock,     \* the thread that holds _subscription_lock
    sorted,      \* the type whose list is being sorted, and looks empty
    bpc, arg,    \* threads: where in the bus, and the subscription passed
    level, index, found,  \* threads in post: type, next element, collection
    posts,       \* counter for the bound
    touched      \* history: types whose list changed while the thread collected

busVars == <<lists, ids, busLock, sorted, bpc, arg, level, index, found,
             posts, touched>>

Bus(t, label) == bpc' = [bpc EXCEPT ![t] = label]

ListOf(ty) == IF ty \in DOMAIN lists THEN lists[ty] ELSE <<>>

\* What a thread without the lock sees of a list.
Visible(ty) == IF sorted = ty THEN <<>> ELSE ListOf(ty)

\* list.sort(key=lambda x: x.order), which is stable: the k-th is the element that
\* k of the list, itself included, do not come after.
NotAfter(seq, j, i) ==
    \/ OrderOf[seq[j]] < OrderOf[seq[i]]
    \/ OrderOf[seq[j]] = OrderOf[seq[i]] /\ j <= i
Rank(seq, i) == Cardinality({j \in DOMAIN seq : NotAfter(seq, j, i)})
StableSort(seq) ==
    [k \in DOMAIN seq |-> seq[CHOOSE i \in DOMAIN seq : Rank(seq, i) = k]]

\* Every thread that is collecting loses track of what changes in ty.
Touch(ty) == touched' = [t \in Threads |->
                IF bpc[t] = "collect" THEN touched[t] \cup {ty} ELSE touched[t]]

BusInit(registered) ==
    /\ lists = [ty \in {TypeOf[s] : s \in registered} |->
                  StableSort(SetToSeq({s \in registered : TypeOf[s] = ty}))]
    /\ ids = registered
    /\ busLock = None /\ sorted = None
    /\ bpc = [t \in Threads |-> "idle"]
    /\ arg = [t \in Threads |-> None]
    /\ level = [t \in Threads |-> 0] /\ index = [t \in Threads |-> 0]
    /\ found = [t \in Threads |-> <<>>]
    /\ posts = [t \in Threads |-> 0]
    /\ touched = [t \in Threads |-> {}]

------------------------------------------------------------------------------
(* register_subscription *)

\* Entering the bus with s; the lock is acquired by the next step.
CallRegister(t, s) ==
    /\ bpc[t] = "idle"
    /\ Bus(t, "register")
    /\ arg' = [arg EXCEPT ![t] = s]
    /\ UNCHANGED <<lists, ids, busLock, sorted, level, index, found, posts, touched>>

\* The first of its type gets a new list, which is stored when it holds it.
FirstOfType(t) ==
    LET s == arg[t] IN
    /\ bpc[t] = "register"
    /\ busLock = None
    /\ TypeOf[s] \notin DOMAIN lists
    /\ lists' = [ty \in DOMAIN lists \cup {TypeOf[s]} |->
                    IF ty = TypeOf[s] THEN <<s>> ELSE lists[ty]]
    /\ Touch(TypeOf[s])
    /\ ids' = ids \cup {s}
    /\ Bus(t, "idle") /\ arg' = [arg EXCEPT ![t] = None]
    /\ UNCHANGED <<busLock, sorted, level, index, found, posts>>

AppendToList(t) ==
    LET s == arg[t] IN
    /\ bpc[t] = "register"
    /\ busLock = None
    /\ TypeOf[s] \in DOMAIN lists
    /\ busLock' = t
    /\ lists' = [lists EXCEPT ![TypeOf[s]] = Append(@, s)]
    /\ Touch(TypeOf[s])
    /\ Bus(t, "appended")
    /\ UNCHANGED <<ids, sorted, arg, level, index, found, posts>>

SortBegins(t) ==
    /\ bpc[t] = "appended"
    /\ sorted' = TypeOf[arg[t]]
    /\ Touch(TypeOf[arg[t]])
    /\ Bus(t, "sorting")
    /\ UNCHANGED <<lists, ids, busLock, arg, level, index, found, posts>>

\* Mutant: the list is left in the order of registration.
SortForgets(t) ==
    LET s == arg[t] IN
    /\ bpc[t] = "sorting"
    /\ sorted' = None
    /\ Touch(TypeOf[s])
    /\ ids' = ids \cup {s}
    /\ busLock' = None
    /\ Bus(t, "idle") /\ arg' = [arg EXCEPT ![t] = None]
    /\ UNCHANGED <<lists, level, index, found, posts>>

\* The sorted list is there, the id is noted, and the lock is left.
SortEnds(t) ==
    LET s == arg[t] IN
    /\ bpc[t] = "sorting"
    /\ lists' = [lists EXCEPT ![TypeOf[s]] = StableSort(@)]
    /\ sorted' = None
    /\ Touch(TypeOf[s])
    /\ ids' = ids \cup {s}
    /\ busLock' = None
    /\ Bus(t, "idle") /\ arg' = [arg EXCEPT ![t] = None]
    /\ UNCHANGED <<level, index, found, posts>>

------------------------------------------------------------------------------
(* unregister *)

\* By the subscription itself: nothing is looked up.
CallUnregister(t, s) ==
    /\ bpc[t] = "idle"
    /\ Bus(t, "unregister")
    /\ arg' = [arg EXCEPT ![t] = s]
    /\ UNCHANGED <<lists, ids, busLock, sorted, level, index, found, posts, touched>>

\* By its id: without the lock, an id that is not known is refused.
CallLookup(t, s) ==
    /\ bpc[t] = "idle"
    /\ s \in ids
    /\ Bus(t, "lookup")
    /\ arg' = [arg EXCEPT ![t] = s]
    /\ UNCHANGED <<lists, ids, busLock, sorted, level, index, found, posts, touched>>

CallUnregisterId(t, s) ==
    CallLookup(t, s) \/ (bpc[t] = "idle" /\ s \notin ids /\ UNCHANGED busVars)

\* It is then looked up, still without the lock: KeyError if another thread has
\* unregistered it since.
Lookup(t) ==
    /\ bpc[t] = "lookup"
    /\ IF arg[t] \in ids THEN Bus(t, "unregister") /\ UNCHANGED arg
                         ELSE Bus(t, "idle") /\ arg' = [arg EXCEPT ![t] = None]
    /\ UNCHANGED <<lists, ids, busLock, sorted, level, index, found, posts, touched>>

RemoveFromList(t) ==
    LET s == arg[t]  ty == TypeOf[s] IN
    /\ bpc[t] = "unregister"
    /\ busLock = None
    /\ ids' = ids \ {s}
    /\ IF s \in ToSet(ListOf(ty))
         THEN lists' = [lists EXCEPT ![ty] = RemoveFirst(@, s)] /\ Touch(ty)
         ELSE UNCHANGED <<lists, touched>>
    /\ Bus(t, "idle") /\ arg' = [arg EXCEPT ![t] = None]
    /\ UNCHANGED <<busLock, sorted, level, index, found, posts>>

------------------------------------------------------------------------------
(* post *)

CallPost(t) ==
    /\ bpc[t] = "idle"
    /\ posts[t] < MaxPosts
    /\ posts' = [posts EXCEPT ![t] = @ + 1]
    /\ Bus(t, "collect")
    /\ level' = [level EXCEPT ![t] = 1] /\ index' = [index EXCEPT ![t] = 1]
    /\ found' = [found EXCEPT ![t] = <<>>]
    /\ touched' = [touched EXCEPT ![t] = {sorted} \ {None}]
    /\ UNCHANGED <<lists, ids, busLock, sorted, arg>>

\* Mutant: the iteration stops one element early.
CollectFewer(t) ==
    /\ bpc[t] = "collect"
    /\ level[t] <= Len(Mro)
    /\ LET list == Visible(Mro[level[t]])
       IN  IF index[t] < Len(list)
             THEN /\ found' = [found EXCEPT ![t] = Append(@, list[index[t]])]
                  /\ index' = [index EXCEPT ![t] = @ + 1]
                  /\ UNCHANGED level
             ELSE /\ level' = [level EXCEPT ![t] = @ + 1]
                  /\ index' = [index EXCEPT ![t] = 1]
                  /\ UNCHANGED found
    /\ UNCHANGED <<lists, ids, busLock, sorted, bpc, arg, posts, touched>>

\* The next element of the list, of whatever length the list is by now.
Collect(t) ==
    /\ bpc[t] = "collect"
    /\ level[t] <= Len(Mro)
    /\ LET list == Visible(Mro[level[t]])
       IN  IF index[t] <= Len(list)
             THEN /\ found' = [found EXCEPT ![t] = Append(@, list[index[t]])]
                  /\ index' = [index EXCEPT ![t] = @ + 1]
                  /\ UNCHANGED level
             ELSE /\ level' = [level EXCEPT ![t] = @ + 1]
                  /\ index' = [index EXCEPT ![t] = 1]
                  /\ UNCHANGED found
    /\ UNCHANGED <<lists, ids, busLock, sorted, bpc, arg, posts, touched>>

Collected(t) ==
    /\ bpc[t] = "collect"
    /\ level[t] > Len(Mro)
    /\ found' = [found EXCEPT ![t] = StableSort(@)]
    /\ Bus(t, "deliver")
    /\ level' = [level EXCEPT ![t] = 0] /\ index' = [index EXCEPT ![t] = 0]
    /\ UNCHANGED <<lists, ids, busLock, sorted, arg, posts, touched>>

\* One subscriber after the other is called; what one raises ends the post,
\* unless errors are ignored.
Deliver(t) ==
    /\ bpc[t] = "deliver"
    /\ \/ /\ found[t] # <<>>
          /\ found' = [found EXCEPT ![t] = Tail(@)]
          /\ UNCHANGED <<bpc, touched>>
       \/ /\ found' = [found EXCEPT ![t] = <<>>]
          /\ touched' = [touched EXCEPT ![t] = {}]
          /\ Bus(t, "idle")
    /\ UNCHANGED <<lists, ids, busLock, sorted, arg, level, index, posts>>

BusStep(t) ==
    \/ FirstOfType(t) \/ AppendToList(t) \/ SortBegins(t) \/ SortEnds(t)
    \/ Lookup(t) \/ RemoveFromList(t) \/ Collect(t) \/ Collected(t) \/ Deliver(t)
==============================================================================
