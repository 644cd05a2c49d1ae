---------------------------- MODULE MethodManager ----------------------------
(***************************************************************************)
(* The table of RPC methods a server executes (src/method.cpp,             *)
(* include/anyrpc/method.h), shared by every thread that executes requests *)
(* and by the application threads that add and remove methods.             *)
(*                                                                         *)
(* Every access to the table and to a method's activeThreads_ and          *)
(* delayedRemove_ happens under mutex_, so one locked region is one        *)
(* action.  The body of a method runs with the mutex released: between     *)
(* ExecuteMethod and ExecuteMethod_FollowUpOperations any other thread may *)
(* add or remove methods, and so may the body itself.                      *)
(*                                                                         *)
(* Calls that leave the state alone are the stuttering steps: AddFunction  *)
(* and AddMethod on a name in use (they throw, AddMethod after deleting    *)
(* the object it was given), RemoveMethod and ExecuteMethod on an unknown  *)
(* name (they return false), ListMethods and FindHelpMethod (they read the *)
(* table under the mutex).                                                 *)
(***************************************************************************)
EXTENDS Naturals, FiniteSets

CONSTANTS
    Thread,      \* threads that use the manager
    Name,        \* method names
    Heap,        \* memory for Method objects created with deleteOnRemove_ set
    Static,      \* Method objects the application owns (deleteOnRemove_ unset)
    StaticName,  \* the name each object of Static was constructed with
    Builtin,     \* system.listMethods and system.methodHelp ...
    BuiltinObj,  \* ... and the objects the constructor allocates for them
    AddNames,    \* names the application adds while the server runs
    WaitNames,   \* names it removes with WaitForDelayedRemove
    Reentrant,   \* may a method's body call RemoveMethod and wait?
    None

Object == Heap \cup Static

ASSUME ConstantsAssumption ==
    /\ IsFiniteSet(Thread)
    /\ Heap \cap Static = {}
    /\ StaticName \in [Static -> Name]
    /\ Builtin \subseteq Name
    /\ BuiltinObj \in [Builtin -> Heap]
    /\ \A m, n \in Builtin : BuiltinObj[m] = BuiltinObj[n] => m = n
    /\ AddNames \subseteq Name
    /\ WaitNames \subseteq Name
    /\ Reentrant \in BOOLEAN
    /\ None \notin Object
    /\ None \notin Name

VARIABLES
    methods,        \* methods_: the object registered under a name, or None
    live,           \* objects whose memory is allocated
    nameOf,         \* name_ of each object
    activeThreads,  \* activeThreads_ of each object
    delayedRemove,  \* delayedRemove_ of each object
    cur,            \* the method a thread is executing, or None
    await,          \* the name whose removal a thread waits for, or None
    condWait,       \* threads blocked in condVarDelayedRemove_.wait
    internalError   \* "Method not found for delayed remove" was thrown

vars == <<methods, live, nameOf, activeThreads, delayedRemove,
          cur, await, condWait, internalError>>

DeleteOnRemove(m) == m \in Heap

\* delete method, when the method says so
Deleted(m) == IF DeleteOnRemove(m) THEN {m} ELSE {}
------------------------------------------------------------------------------
(* The members of Method that the manager calls, each with the faulty         *)
(* variant that the mutation tests put in its place.                          *)

AddThreadForgotten(m) == UNCHANGED activeThreads
AddThread(m) == activeThreads' = [activeThreads EXCEPT ![m] = @ + 1]

RemoveThreadForgotten(m) == UNCHANGED activeThreads
RemoveThread(m) == activeThreads' = [activeThreads EXCEPT ![m] = @ - 1]

InUseIgnored(m) == FALSE
InUse(m) == activeThreads[m] > 0

RefusedNever(m) == FALSE
Refused(m) == delayedRemove[m]

\* The thread that leaves m, as the last one, carries out its removal.
LastOutAnyThread(m) == delayedRemove[m]
LastOutBeforeRemoveThread(m) == delayedRemove[m] /\ activeThreads[m] = 0
LastOut(m) == delayedRemove[m] /\ activeThreads'[m] = 0

NotifyNobody == UNCHANGED condWait
NotifyAll == condWait' = {}
------------------------------------------------------------------------------
\* MethodManager::MethodManager
Init ==
    /\ methods = [n \in Name |-> IF n \in Builtin THEN BuiltinObj[n] ELSE None]
    /\ live = Static \cup {BuiltinObj[n] : n \in Builtin}
    /\ nameOf \in [Object -> Name]
    /\ \A n \in Builtin : nameOf[BuiltinObj[n]] = n
    /\ \A m \in Static : nameOf[m] = StaticName[m]
    /\ activeThreads = [m \in Object |-> 0]
    /\ delayedRemove = [m \in Object |-> FALSE]
    /\ cur = [t \in Thread |-> None]
    /\ await = [t \in Thread |-> None]
    /\ condWait = {}
    /\ internalError = FALSE

\* AddFunction, and AddMethod with an object from the heap: the constructor
\* gives the new object its name and clears the counter and the flag.
AddFunction(t, n) ==
    /\ await[t] = None
    /\ methods[n] = None
    /\ \E m \in Heap \ live :
          /\ live' = live \cup {m}
          /\ nameOf' = [nameOf EXCEPT ![m] = n]
          /\ activeThreads' = [activeThreads EXCEPT ![m] = 0]
          /\ delayedRemove' = [delayedRemove EXCEPT ![m] = FALSE]
          /\ methods' = [methods EXCEPT ![n] = m]
    /\ UNCHANGED <<cur, await, condWait, internalError>>

\* AddMethod with an object the application owns: it was constructed once,
\* so its counter and its flag are whatever they were.
AddMethod(t, m) ==
    /\ await[t] = None
    /\ methods[nameOf[m]] = None
    /\ methods' = [methods EXCEPT ![nameOf[m]] = m]
    /\ UNCHANGED <<live, nameOf, activeThreads, delayedRemove,
                   cur, await, condWait, internalError>>

\* RemoveMethod of a method that some thread is executing: only mark it, and
\* wait for the marked method to go if asked to.
RemoveLater(t, n, wait) ==
    /\ InUse(methods[n])
    /\ delayedRemove' = [delayedRemove EXCEPT ![methods[n]] = TRUE]
    /\ await' = IF wait THEN [await EXCEPT ![t] = n] ELSE await
    /\ condWait' = IF wait THEN condWait \cup {t} ELSE condWait
    /\ UNCHANGED <<methods, live>>

\* RemoveMethod of a method nobody is executing.
RemoveNow(n) ==
    /\ ~InUse(methods[n])
    /\ live' = live \ Deleted(methods[n])
    /\ methods' = [methods EXCEPT ![n] = None]
    /\ UNCHANGED <<delayedRemove, await, condWait>>

RemoveMethod(t, n, wait) ==
    /\ await[t] = None
    /\ methods[n] # None
    /\ wait => n \in WaitNames /\ (Reentrant \/ cur[t] = None)
    /\ RemoveLater(t, n, wait) \/ RemoveNow(n)
    /\ UNCHANGED <<nameOf, activeThreads, cur, internalError>>

\* The wait of RemoveMethod returns with the mutex held: leave the loop when
\* the name is gone, block again when it is not.
WakeUp(t) ==
    /\ await[t] # None
    /\ t \notin condWait
    /\ IF methods[await[t]] = None
       THEN /\ await' = [await EXCEPT ![t] = None]
            /\ UNCHANGED condWait
       ELSE /\ condWait' = condWait \cup {t}
            /\ UNCHANGED await
    /\ UNCHANGED <<methods, live, nameOf, activeThreads, delayedRemove,
                   cur, internalError>>

\* std::condition_variable may wake a waiter without a notification.
SpuriousWake(t) ==
    /\ t \in condWait
    /\ condWait' = condWait \ {t}
    /\ UNCHANGED <<methods, live, nameOf, activeThreads, delayedRemove,
                   cur, await, internalError>>

\* ExecuteMethod up to lock.unlock(); the body runs from here to FollowUp.
ExecuteMethod(t, n) ==
    /\ cur[t] = None
    /\ await[t] = None
    /\ methods[n] # None
    /\ ~Refused(methods[n])
    /\ AddThread(methods[n])
    /\ cur' = [cur EXCEPT ![t] = methods[n]]
    /\ UNCHANGED <<methods, live, nameOf, delayedRemove, await, condWait,
                   internalError>>

\* The removal that RemoveMethod left to the last thread.  The entry is looked
\* up again by the object's name.
DelayedRemoval(m) ==
    \/ /\ methods[nameOf[m]] = None
       /\ internalError' = TRUE
       /\ UNCHANGED <<methods, live, condWait>>
    \/ /\ methods[nameOf[m]] # None
       /\ live' = live \ Deleted(m)
       /\ methods' = [methods EXCEPT ![nameOf[m]] = None]
       /\ NotifyAll
       /\ UNCHANGED internalError

\* ExecuteMethod_FollowUpOperations, reached when the body returns and when it
\* throws.
FollowUp(t) ==
    /\ cur[t] # None
    /\ await[t] = None
    /\ cur' = [cur EXCEPT ![t] = None]
    /\ RemoveThread(cur[t])
    /\ IF LastOut(cur[t])
       THEN DelayedRemoval(cur[t])
       ELSE UNCHANGED <<methods, live, condWait, internalError>>
    /\ UNCHANGED <<nameOf, delayedRemove, await>>

Next ==
    \E t \in Thread :
        \/ \E n \in AddNames : AddFunction(t, n)
        \/ \E m \in Static : AddMethod(t, m)
        \/ \E n \in Name, wait \in BOOLEAN : RemoveMethod(t, n, wait)
        \/ \E n \in Name : ExecuteMethod(t, n)
        \/ FollowUp(t)
        \/ WakeUp(t)
        \/ SpuriousWake(t)

Spec == Init /\ [][Next]_vars

\* A method's body ends, and a woken thread gets the mutex: nothing else is
\* owed a step (the application need not call anything).
Fairness == \A t \in Thread : WF_vars(FollowUp(t)) /\ WF_vars(WakeUp(t))

FairSpec == Spec /\ Fairness
------------------------------------------------------------------------------
\* The values the manager's state ranges over.
TypeOK ==
    /\ methods \in [Name -> Object \cup {None}]
    /\ live \in SUBSET Object
    /\ nameOf \in [Object -> Name]
    /\ activeThreads \in [Object -> Nat]
    /\ delayedRemove \in [Object -> BOOLEAN]
    /\ cur \in [Thread -> Object \cup {None}]
    /\ await \in [Thread -> Name \cup {None}]
    /\ condWait \in SUBSET Thread
    /\ internalError \in BOOLEAN

Users(m) == {t \in Thread : cur[t] = m}

\* A thread runs a method's body with the mutex released, through the pointer
\* and the map iterator it found before: until it is done, no other thread's
\* RemoveMethod or FollowUp deletes the object, erases its entry or lets
\* another object take the name (method.cpp:131-150).
ExecutedMethodStays ==
    \A t \in Thread : cur[t] # None =>
        /\ cur[t] \in live
        /\ methods[nameOf[cur[t]]] = cur[t]

\* activeThreads_ is exactly the number of threads inside the method, on the
\* throwing path too: the last one out performs the delayed removal.
ActiveThreadsCounted ==
    \A m \in live : activeThreads[m] = Cardinality(Users(m))

\* "Method not found for delayed remove" (method.cpp:163) is never thrown: the
\* entry of a marked method stays until its last thread removes it.
NoInternalError == ~internalError

\* Once RemoveMethod has marked a method, no thread enters it any more, so its
\* count only falls (ExecuteMethod refuses a method with DelayedRemove).
NoEntryAfterRemove ==
    [][\A m \in live : delayedRemove[m] =>
          \/ activeThreads'[m] <= activeThreads[m]
          \/ m \notin live']_vars

\* A registered method that the manager deletes on removal is executable unless
\* its removal is still under way: if it is marked, a thread is inside it.
HeapMethodExecutable ==
    \A n \in Name :
        methods[n] \in Heap /\ delayedRemove[methods[n]]
            => activeThreads[methods[n]] > 0

\* RemoveMethod with WaitForDelayedRemove returns: method.cpp:113 waits "for
\* method "name" being actually deleted", and its executions end.
RemoveWaitReturns ==
    \A t \in Thread : await[t] # None ~> await[t] = None
==============================================================================
