------------------------- MODULE MethodManagerProofs -------------------------
(***************************************************************************)
(* Proofs about MethodManager, for any number of threads, names and        *)
(* objects.  IndInv is the inductive invariant: an object that a thread    *)
(* executes stays registered under its name because activeThreads_ counts  *)
(* its threads, so both halves have to be carried along together with the  *)
(* shape of the table (an entry's object is allocated and has that name).  *)
(***************************************************************************)
EXTENDS MethodManager, FiniteSetTheorems, TLAPS

\* An entry of methods_ points to an allocated object of that name, and the
\* objects the application owns are never deleted.
TableOK ==
    /\ Static \subseteq live
    /\ \A n \in Name : methods[n] # None =>
          /\ methods[n] \in live
          /\ nameOf[methods[n]] = n

IndInv ==
    /\ TypeOK
    /\ TableOK
    /\ ExecutedMethodStays
    /\ ActiveThreadsCounted
    /\ NoInternalError

\* The constructor establishes the invariant.
LEMMA InitInd == Init => IndInv
<1> SUFFICES ASSUME Init PROVE IndInv
  OBVIOUS
<1> USE ConstantsAssumption
<1>1. TypeOK
  <2>1. methods \in [Name -> Object \cup {None}]
    BY DEF Init, Object
  <2>2. live \in SUBSET Object
    BY DEF Init, Object
  <2> QED
    BY <2>1, <2>2 DEF Init, TypeOK
<1>2. TableOK
  BY DEF Init, TableOK, Object
<1>3. ExecutedMethodStays
  BY DEF Init, ExecutedMethodStays
<1>4. ActiveThreadsCounted
  <2> SUFFICES ASSUME NEW m \in live PROVE activeThreads[m] = Cardinality(Users(m))
    BY DEF ActiveThreadsCounted
  <2>1. m \in Object /\ m # None
    BY <1>1 DEF TypeOK, Object
  <2>2. Users(m) = {}
    BY <2>1 DEF Init, Users
  <2> QED
    BY <2>1, <2>2, FS_EmptySet DEF Init
<1>5. NoInternalError
  BY DEF Init, NoInternalError
<1> QED
  BY <1>1, <1>2, <1>3, <1>4, <1>5 DEF IndInv

\* An object with a zero activeThreads_ is executed by no thread.
LEMMA IdleHasNoUsers ==
    ASSUME IndInv, NEW m \in live, activeThreads[m] = 0
    PROVE  \A t \in Thread : cur[t] # m
<1>1. IsFiniteSet(Users(m))
  BY ConstantsAssumption, FS_Subset DEF Users
<1>2. Cardinality(Users(m)) = 0
  BY DEF IndInv, ActiveThreadsCounted
<1> QED
  BY <1>1, <1>2, FS_EmptySet DEF Users

\* A thread that starts m raises the number of its users by one.
LEMMA EnterCounts ==
    ASSUME TypeOK, NEW m \in Object, NEW t \in Thread, cur[t] # m,
           cur' = [cur EXCEPT ![t] = m]
    PROVE  Cardinality(Users(m)') = Cardinality(Users(m)) + 1
<1>1. Users(m)' = Users(m) \cup {t} /\ t \notin Users(m)
  BY DEF TypeOK, Users
<1>2. IsFiniteSet(Users(m))
  BY ConstantsAssumption, FS_Subset DEF Users
<1> QED
  BY <1>1, <1>2, FS_AddElement

\* A thread that leaves m lowers the number of its users by one.
LEMMA LeaveCounts ==
    ASSUME TypeOK, NEW m \in Object, NEW t \in Thread, cur[t] = m,
           cur' = [cur EXCEPT ![t] = None]
    PROVE  Cardinality(Users(m)') = Cardinality(Users(m)) - 1
<1>1. Users(m)' = Users(m) \ {t} /\ t \in Users(m)
  BY ConstantsAssumption DEF TypeOK, Users
<1>2. IsFiniteSet(Users(m))
  BY ConstantsAssumption, FS_Subset DEF Users
<1> QED
  BY <1>1, <1>2, FS_RemoveElement

\* AddFunction keeps the invariant.
LEMMA AddFunctionInd ==
    ASSUME IndInv, NEW t \in Thread, NEW n \in AddNames, AddFunction(t, n)
    PROVE  IndInv'
<1> USE ConstantsAssumption
<1> PICK m \in Heap \ live :
        /\ live' = live \cup {m}
        /\ nameOf' = [nameOf EXCEPT ![m] = n]
        /\ activeThreads' = [activeThreads EXCEPT ![m] = 0]
        /\ delayedRemove' = [delayedRemove EXCEPT ![m] = FALSE]
        /\ methods' = [methods EXCEPT ![n] = m]
  BY DEF AddFunction
<1>1. TypeOK /\ TableOK /\ ExecutedMethodStays /\ ActiveThreadsCounted
      /\ NoInternalError
  BY DEF IndInv
<1>2. n \in Name /\ m \in Object /\ methods[n] = None
      /\ UNCHANGED <<cur, await, condWait, internalError>>
  BY DEF AddFunction, Object
<1>3. TypeOK'
  BY <1>1, <1>2 DEF TypeOK
<1>4. TableOK'
  BY <1>1, <1>2 DEF TableOK, TypeOK
<1>5. ExecutedMethodStays'
  BY <1>1, <1>2 DEF ExecutedMethodStays, TypeOK
<1>6. ActiveThreadsCounted'
  <2>0. \A k : Users(k)' = Users(k)
    BY <1>2 DEF Users
  <2> SUFFICES ASSUME NEW k \in live'
               PROVE  activeThreads'[k] = Cardinality(Users(k))
    BY <2>0, Zenon DEF ActiveThreadsCounted
  <2>1. CASE k = m
    <3>1. Users(m) = {}
      BY <1>1, <1>2 DEF Users, ExecutedMethodStays
    <3> QED
      BY <2>1, <3>1, <1>1, <1>2, FS_EmptySet DEF TypeOK
  <2>2. CASE k # m
    BY <2>2, <1>1, <1>2 DEF ActiveThreadsCounted, TypeOK
  <2> QED
    BY <2>1, <2>2
<1>7. NoInternalError'
  BY <1>1, <1>2 DEF NoInternalError
<1> QED
  BY <1>3, <1>4, <1>5, <1>6, <1>7 DEF IndInv

\* AddMethod keeps it.
LEMMA AddMethodInd ==
    ASSUME IndInv, NEW t \in Thread, NEW m \in Static, AddMethod(t, m)
    PROVE  IndInv'
<1> USE ConstantsAssumption
<1>1. TypeOK /\ TableOK /\ ExecutedMethodStays /\ ActiveThreadsCounted
      /\ NoInternalError
  BY DEF IndInv
<1>2. /\ methods[nameOf[m]] = None
      /\ methods' = [methods EXCEPT ![nameOf[m]] = m]
      /\ UNCHANGED <<live, nameOf, activeThreads, delayedRemove,
                     cur, await, condWait, internalError>>
  BY DEF AddMethod
<1>3. m \in Object
  BY DEF Object
<1>4. TypeOK'
  BY <1>1, <1>2, <1>3 DEF TypeOK
<1>5. TableOK'
  BY <1>1, <1>2, <1>3 DEF TableOK, TypeOK
<1>6. ExecutedMethodStays'
  BY <1>1, <1>2, <1>3 DEF ExecutedMethodStays, TypeOK
<1>7. ActiveThreadsCounted'
  BY <1>1, <1>2 DEF ActiveThreadsCounted, Users
<1>8. NoInternalError'
  BY <1>1, <1>2 DEF NoInternalError
<1> QED
  BY <1>4, <1>5, <1>6, <1>7, <1>8 DEF IndInv

\* Erasing the entry of an object that no thread will be executing, and
\* deleting the object if it came from the heap, keeps the table and the
\* executing threads consistent.
LEMMA EraseKeeps ==
    ASSUME TypeOK, TableOK, ExecutedMethodStays,
           NEW n \in Name, methods[n] # None,
           \A t \in Thread : cur'[t] # methods[n],
           \A t \in Thread : cur'[t] # None => cur'[t] = cur[t],
           live' = live \ Deleted(methods[n]),
           methods' = [methods EXCEPT ![n] = None],
           nameOf' = nameOf
    PROVE  TableOK' /\ ExecutedMethodStays'
<1> USE ConstantsAssumption
<1>1. Deleted(methods[n]) \cap Static = {}
  BY DEF Deleted, DeleteOnRemove
<1>2. \A k \in Name \ {n} : methods[k] # None => methods[k] # methods[n]
  BY DEF TableOK
<1>3. TableOK'
  BY <1>1, <1>2 DEF TableOK, TypeOK, Deleted
<1>4. ExecutedMethodStays'
  <2> SUFFICES ASSUME NEW t \in Thread, cur'[t] # None
               PROVE  /\ cur'[t] \in live'
                      /\ methods'[nameOf'[cur'[t]]] = cur'[t]
    BY DEF ExecutedMethodStays
  <2>1. cur'[t] \in live /\ methods[nameOf[cur'[t]]] = cur'[t]
    BY DEF ExecutedMethodStays
  <2>2. nameOf[cur'[t]] \in Name /\ nameOf[cur'[t]] # n
    BY <2>1 DEF TypeOK
  <2> QED
    BY <2>1, <2>2 DEF Deleted, TypeOK
<1> QED
  BY <1>3, <1>4

\* RemoveMethod keeps it, at once or later.
LEMMA RemoveMethodInd ==
    ASSUME IndInv, NEW t \in Thread, NEW n \in Name, NEW wait \in BOOLEAN,
           RemoveMethod(t, n, wait)
    PROVE  IndInv'
<1> USE ConstantsAssumption
<1>1. TypeOK /\ TableOK /\ ExecutedMethodStays /\ ActiveThreadsCounted
      /\ NoInternalError
  BY DEF IndInv
<1>2. /\ methods[n] # None
      /\ UNCHANGED <<nameOf, activeThreads, cur, internalError>>
  BY DEF RemoveMethod
<1>3. NoInternalError'
  BY <1>1, <1>2 DEF NoInternalError
<1>4. CASE RemoveLater(t, n, wait)
  <2>1. UNCHANGED <<methods, live>>
    BY <1>4 DEF RemoveLater
  <2>2. TypeOK'
    BY <1>1, <1>2, <1>4 DEF RemoveLater, TypeOK
  <2>3. TableOK' /\ ExecutedMethodStays' /\ ActiveThreadsCounted'
    BY <1>1, <1>2, <2>1 DEF TableOK, ExecutedMethodStays,
                            ActiveThreadsCounted, Users
  <2> QED
    BY <1>3, <2>2, <2>3 DEF IndInv
<1>5. CASE RemoveNow(n)
  <2>1. /\ ~InUse(methods[n])
        /\ live' = live \ Deleted(methods[n])
        /\ methods' = [methods EXCEPT ![n] = None]
        /\ UNCHANGED <<delayedRemove, await, condWait>>
    BY <1>5 DEF RemoveNow
  <2>2. TypeOK'
    BY <1>1, <1>2, <2>1 DEF TypeOK
  <2>3. methods[n] \in live /\ activeThreads[methods[n]] = 0
    BY <1>1, <1>2, <2>1 DEF TableOK, TypeOK, InUse
  <2>4. \A s \in Thread : cur'[s] # methods[n]
    BY <1>2, <2>3, IdleHasNoUsers
  <2>5. TableOK' /\ ExecutedMethodStays'
    BY <1>1, <1>2, <2>1, <2>4, EraseKeeps
  <2>6. ActiveThreadsCounted'
    BY <1>1, <1>2, <2>1 DEF ActiveThreadsCounted, Users
  <2> QED
    BY <1>3, <2>2, <2>5, <2>6 DEF IndInv
<1> QED
  BY <1>4, <1>5 DEF RemoveMethod

\* ExecuteMethod keeps it.
LEMMA ExecuteMethodInd ==
    ASSUME IndInv, NEW t \in Thread, NEW n \in Name, ExecuteMethod(t, n)
    PROVE  IndInv'
<1> USE ConstantsAssumption
<1>1. TypeOK /\ TableOK /\ ExecutedMethodStays /\ ActiveThreadsCounted
      /\ NoInternalError
  BY DEF IndInv
<1>2. /\ cur[t] = None
      /\ methods[n] # None
      /\ activeThreads' = [activeThreads EXCEPT ![methods[n]] = @ + 1]
      /\ cur' = [cur EXCEPT ![t] = methods[n]]
      /\ UNCHANGED <<methods, live, nameOf, delayedRemove, await, condWait,
                     internalError>>
  BY DEF ExecuteMethod, AddThread
<1> DEFINE m == methods[n]
<1>3. m \in live /\ m \in Object /\ nameOf[m] = n
  BY <1>1, <1>2 DEF TableOK, TypeOK
<1>4. TypeOK'
  BY <1>1, <1>2, <1>3 DEF TypeOK
<1>5. TableOK' /\ NoInternalError'
  BY <1>1, <1>2 DEF TableOK, NoInternalError
<1>6. ExecutedMethodStays'
  BY <1>1, <1>2, <1>3 DEF ExecutedMethodStays, TypeOK
<1>7. ActiveThreadsCounted'
  <2> SUFFICES ASSUME NEW k \in live'
               PROVE  activeThreads'[k] = Cardinality(Users(k)')
    BY DEF ActiveThreadsCounted
  <2>0. k \in live /\ k \in Object
    BY <1>1, <1>2 DEF TypeOK
  <2>1. CASE k = m
    <3>1. Cardinality(Users(m)') = Cardinality(Users(m)) + 1
      BY <1>1, <1>2, <1>3, EnterCounts
    <3> QED
      BY <2>1, <3>1, <1>1, <1>2, <1>3 DEF ActiveThreadsCounted, TypeOK
  <2>2. CASE k # m
    <3>1. Users(k)' = Users(k)
      BY <2>0, <2>2, <1>1, <1>2 DEF Users, TypeOK
    <3> QED
      BY <2>0, <2>2, <3>1, <1>1, <1>2 DEF ActiveThreadsCounted, TypeOK
  <2> QED
    BY <2>1, <2>2
<1> QED
  BY <1>4, <1>5, <1>6, <1>7 DEF IndInv

\* So do the follow-up operations, with the delayed removal.
LEMMA FollowUpInd ==
    ASSUME IndInv, NEW t \in Thread, FollowUp(t)
    PROVE  IndInv'
<1> USE ConstantsAssumption
<1> PICK m \in Object \cup {None} : m = cur[t]
  BY DEF IndInv, TypeOK
<1>1. TypeOK /\ TableOK /\ ExecutedMethodStays /\ ActiveThreadsCounted
      /\ NoInternalError
  BY DEF IndInv
<1>2. /\ m # None
      /\ cur' = [cur EXCEPT ![t] = None]
      /\ activeThreads' = [activeThreads EXCEPT ![m] = @ - 1]
      /\ UNCHANGED <<nameOf, delayedRemove, await>>
  BY DEF FollowUp, RemoveThread
<1>3. m \in live /\ m \in Object /\ methods[nameOf[m]] = m /\ nameOf[m] \in Name
  BY <1>1, <1>2 DEF ExecutedMethodStays, TypeOK
<1>4. Cardinality(Users(m)') = Cardinality(Users(m)) - 1
  BY <1>1, <1>2, <1>3, LeaveCounts
<1>5. activeThreads'[m] = Cardinality(Users(m)')
  BY <1>1, <1>2, <1>3, <1>4 DEF ActiveThreadsCounted, TypeOK
<1>6. IsFiniteSet(Users(m)')
  <2>1. Users(m)' \subseteq Thread
    BY DEF Users
  <2> QED
    BY <2>1, FS_Subset
<1>7. activeThreads'[m] \in Nat
  BY <1>5, <1>6, FS_CardinalityType
<1>8. \A k \in live : activeThreads'[k] = Cardinality(Users(k)')
  <2> SUFFICES ASSUME NEW k \in live, k # m
               PROVE  activeThreads'[k] = Cardinality(Users(k)')
    BY <1>5
  <2>1. k \in Object
    BY <1>1 DEF TypeOK
  <2>2. Users(k)' = Users(k)
    BY <2>1, <1>1, <1>2 DEF Users, TypeOK
  <2> QED
    BY <2>1, <2>2, <1>1, <1>2 DEF ActiveThreadsCounted, TypeOK
<1>9. activeThreads' \in [Object -> Nat]
  BY <1>1, <1>2, <1>7 DEF TypeOK
<1>10. \A s \in Thread : cur'[s] # None => cur'[s] = cur[s]
  BY <1>1, <1>2 DEF TypeOK
<1>11. CASE ~LastOut(m)
  <2>1. UNCHANGED <<methods, live, condWait, internalError>>
    BY <1>11 DEF FollowUp
  <2>2. TypeOK'
    BY <1>1, <1>2, <1>9, <2>1 DEF TypeOK
  <2>3. TableOK' /\ ExecutedMethodStays' /\ NoInternalError'
    BY <1>1, <1>2, <1>10, <2>1 DEF TableOK, ExecutedMethodStays, NoInternalError
  <2>4. ActiveThreadsCounted'
    BY <1>8, <2>1 DEF ActiveThreadsCounted
  <2> QED
    BY <2>2, <2>3, <2>4 DEF IndInv
<1>12. CASE LastOut(m)
  <2>1. /\ live' = live \ Deleted(m)
        /\ methods' = [methods EXCEPT ![nameOf[m]] = None]
        /\ condWait' = {}
        /\ UNCHANGED internalError
    BY <1>2, <1>3, <1>12 DEF FollowUp, DelayedRemoval, NotifyAll
  <2>2. TypeOK'
    BY <1>1, <1>2, <1>3, <1>9, <2>1 DEF TypeOK
  <2>3. \A s \in Thread : cur'[s] # m
    <3>1. Cardinality(Users(m)') = 0
      BY <1>5, <1>12 DEF LastOut
    <3> QED
      BY <3>1, <1>6, FS_EmptySet DEF Users
  <2>4. TableOK' /\ ExecutedMethodStays'
    <3> DEFINE n == nameOf[m]
    <3>1. n \in Name /\ methods[n] = m /\ methods[n] # None
      BY <1>2, <1>3
    <3>2. /\ \A s \in Thread : cur'[s] # methods[n]
          /\ live' = live \ Deleted(methods[n])
          /\ methods' = [methods EXCEPT ![n] = None]
          /\ nameOf' = nameOf
      BY <3>1, <2>1, <2>3, <1>2
    <3> HIDE DEF n
    <3> QED
      BY <1>1, <1>10, <3>1, <3>2, EraseKeeps
  <2>5. ActiveThreadsCounted' /\ NoInternalError'
    BY <1>1, <1>8, <2>1 DEF ActiveThreadsCounted, NoInternalError
  <2> QED
    BY <2>2, <2>4, <2>5 DEF IndInv
<1> QED
  BY <1>11, <1>12

\* Waiting and waking touch only the condition variable.
LEMMA WaitInd ==
    ASSUME IndInv, NEW t \in Thread, WakeUp(t) \/ SpuriousWake(t)
    PROVE  IndInv'
<1>1. UNCHANGED <<methods, live, nameOf, activeThreads, delayedRemove, cur,
                  internalError>>
  BY DEF WakeUp, SpuriousWake
<1>2. TypeOK'
  <2>1. condWait' \in SUBSET Thread /\ await' \in [Thread -> Name \cup {None}]
    BY DEF IndInv, TypeOK, WakeUp, SpuriousWake
  <2> QED
    BY <1>1, <2>1 DEF IndInv, TypeOK
<1>3. TableOK' /\ ExecutedMethodStays' /\ ActiveThreadsCounted' /\ NoInternalError'
  BY <1>1 DEF IndInv, TableOK, ExecutedMethodStays, ActiveThreadsCounted,
              NoInternalError, Users
<1> QED
  BY <1>2, <1>3 DEF IndInv

\* Every step keeps the invariant.
LEMMA NextInd == IndInv /\ [Next]_vars => IndInv'
<1> SUFFICES ASSUME IndInv, [Next]_vars PROVE IndInv'
  OBVIOUS
<1>1. CASE UNCHANGED vars
  BY <1>1 DEF vars, IndInv, TypeOK, TableOK, ExecutedMethodStays,
              ActiveThreadsCounted, NoInternalError, Users
<1>2. ASSUME NEW t \in Thread, NEW n \in AddNames, AddFunction(t, n)
      PROVE  IndInv'
  BY <1>2, AddFunctionInd
<1>3. ASSUME NEW t \in Thread, NEW m \in Static, AddMethod(t, m)
      PROVE  IndInv'
  BY <1>3, AddMethodInd
<1>4. ASSUME NEW t \in Thread, NEW n \in Name, NEW wait \in BOOLEAN,
             RemoveMethod(t, n, wait)
      PROVE  IndInv'
  BY <1>4, RemoveMethodInd
<1>5. ASSUME NEW t \in Thread, NEW n \in Name, ExecuteMethod(t, n)
      PROVE  IndInv'
  BY <1>5, ExecuteMethodInd
<1>6. ASSUME NEW t \in Thread, FollowUp(t)
      PROVE  IndInv'
  BY <1>6, FollowUpInd
<1>7. ASSUME NEW t \in Thread, WakeUp(t) \/ SpuriousWake(t)
      PROVE  IndInv'
  BY <1>7, WaitInd
<1> QED
  BY <1>1, <1>2, <1>3, <1>4, <1>5, <1>6, <1>7 DEF Next

\* The invariant holds of every run.
LEMMA Invariance == Spec => []IndInv
<1> QED
  BY InitInd, NextInd, PTL DEF Spec

\* The type invariant holds for every instance.
THEOREM TypeCorrect == Spec => []TypeOK
<1>1. IndInv => TypeOK
  BY DEF IndInv
<1> QED
  BY <1>1, Invariance, PTL

\* However many threads add, remove and execute methods, the object a thread
\* is executing is neither deleted nor replaced in the table.
THEOREM ExecutionSafe == Spec => []ExecutedMethodStays
<1>1. IndInv => ExecutedMethodStays
  BY DEF IndInv
<1> QED
  BY <1>1, Invariance, PTL

\* activeThreads_ counts the threads inside a method.
THEOREM CountExact == Spec => []ActiveThreadsCounted
<1>1. IndInv => ActiveThreadsCounted
  BY DEF IndInv
<1> QED
  BY <1>1, Invariance, PTL

\* The internal error of the delayed removal is unreachable.
THEOREM DelayedRemoveFindsEntry == Spec => []NoInternalError
<1>1. IndInv => NoInternalError
  BY DEF IndInv
<1> QED
  BY <1>1, Invariance, PTL

\* A method marked for removal gets no new thread.
THEOREM MarkedOnlyDrains == Spec => NoEntryAfterRemove
<1> DEFINE Drains == \A m \in live : delayedRemove[m] =>
                        \/ activeThreads'[m] <= activeThreads[m]
                        \/ m \notin live'
<1>1. ASSUME TypeOK, [Next]_vars PROVE [Drains]_vars
  <2> SUFFICES ASSUME NEW m \in live, delayedRemove[m], Next
               PROVE  activeThreads'[m] <= activeThreads[m] \/ m \notin live'
    BY <1>1
  <2>0. m \in Object /\ activeThreads[m] \in Nat
    BY <1>1 DEF TypeOK
  <2>1. ASSUME NEW t \in Thread, NEW n \in AddNames, AddFunction(t, n)
        PROVE  activeThreads'[m] = activeThreads[m]
    BY <2>0, <2>1, <1>1 DEF AddFunction, TypeOK
  <2>2. ASSUME NEW t \in Thread, NEW n \in Name, ExecuteMethod(t, n)
        PROVE  activeThreads'[m] = activeThreads[m]
    BY <2>0, <2>2, <1>1 DEF ExecuteMethod, AddThread, Refused, TypeOK
  <2>3. ASSUME NEW t \in Thread, FollowUp(t)
        PROVE  activeThreads'[m] <= activeThreads[m]
    BY <2>0, <2>3, <1>1 DEF FollowUp, RemoveThread, TypeOK
  <2>4. ASSUME NEW t \in Thread,
               \/ \E k \in Static : AddMethod(t, k)
               \/ \E n \in Name, wait \in BOOLEAN : RemoveMethod(t, n, wait)
               \/ WakeUp(t)
               \/ SpuriousWake(t)
        PROVE  activeThreads' = activeThreads
    BY <2>4 DEF AddMethod, RemoveMethod, WakeUp, SpuriousWake
  <2> QED
    BY <2>0, <2>1, <2>2, <2>3, <2>4 DEF Next
<1> QED
  BY <1>1, TypeCorrect, PTL DEF Spec, NoEntryAfterRemove

\* A step keeps the entries of marked heap objects in use: the mark is set only on
\* a method in use, and the thread that leaves it last erases the entry.
LEMMA NextExecutable ==
    ASSUME IndInv, IndInv', HeapMethodExecutable, [Next]_vars
    PROVE  HeapMethodExecutable'
<1> USE ConstantsAssumption
<1>1. TypeOK /\ TableOK /\ ExecutedMethodStays /\ TypeOK'
  BY DEF IndInv
<1>2. CASE UNCHANGED <<methods, delayedRemove, activeThreads>>
  BY <1>2 DEF HeapMethodExecutable
<1>3. ASSUME NEW t \in Thread, NEW n \in AddNames, AddFunction(t, n)
      PROVE  HeapMethodExecutable'
  <2>1. PICK m \in Heap \ live :
          /\ activeThreads' = [activeThreads EXCEPT ![m] = 0]
          /\ delayedRemove' = [delayedRemove EXCEPT ![m] = FALSE]
          /\ methods' = [methods EXCEPT ![n] = m]
    BY <1>3 DEF AddFunction
  <2> SUFFICES ASSUME NEW k \in Name, methods'[k] \in Heap, delayedRemove'[methods'[k]]
               PROVE  activeThreads'[methods'[k]] > 0
    BY DEF HeapMethodExecutable
  <2>2. k # n
    BY <1>1, <2>1 DEF TypeOK, Object
  <2>3. methods'[k] = methods[k] /\ methods[k] # m /\ methods[k] \in Object
    BY <1>1, <2>1, <2>2 DEF TypeOK, TableOK, Object
  <2> QED
    BY <1>1, <2>1, <2>3 DEF TypeOK, HeapMethodExecutable
<1>4. ASSUME NEW t \in Thread, NEW m \in Static, AddMethod(t, m)
      PROVE  HeapMethodExecutable'
  BY <1>1, <1>4 DEF AddMethod, HeapMethodExecutable, TypeOK, Object
<1>5. ASSUME NEW t \in Thread, NEW n \in Name, NEW wait \in BOOLEAN,
             RemoveMethod(t, n, wait)
      PROVE  HeapMethodExecutable'
  <2>1. CASE RemoveLater(t, n, wait)
    <3>1. activeThreads[methods[n]] > 0 /\ UNCHANGED <<methods, activeThreads>>
      BY <1>5, <2>1 DEF RemoveMethod, RemoveLater, InUse
    <3> QED
      BY <1>1, <2>1, <3>1 DEF RemoveLater, HeapMethodExecutable, TypeOK, Object
  <2>2. CASE RemoveNow(n)
    BY <1>1, <1>5, <2>2 DEF RemoveMethod, RemoveNow, HeapMethodExecutable, TypeOK, Object
  <2> QED
    BY <1>5, <2>1, <2>2 DEF RemoveMethod
<1>6. ASSUME NEW t \in Thread, NEW n \in Name, ExecuteMethod(t, n)
      PROVE  HeapMethodExecutable'
  BY <1>1, <1>6 DEF ExecuteMethod, AddThread, Refused, HeapMethodExecutable, TypeOK, Object
<1>7. ASSUME NEW t \in Thread, FollowUp(t) PROVE HeapMethodExecutable'
  <2>1. PICK m \in Object : m = cur[t] /\ methods[nameOf[m]] = m /\ nameOf[m] \in Name
    BY <1>1, <1>7 DEF FollowUp, TypeOK, ExecutedMethodStays
  <2>2. /\ activeThreads' = [activeThreads EXCEPT ![m] = @ - 1]
        /\ UNCHANGED <<nameOf, delayedRemove>>
    BY <1>7, <2>1 DEF FollowUp, RemoveThread
  <2>3. \A k \in Name : methods[k] = m => k = nameOf[m]
    BY <1>1 DEF TableOK
  <2>4. CASE LastOut(m)
    <3>1. methods' = [methods EXCEPT ![nameOf[m]] = None]
      BY <1>7, <2>1, <2>4 DEF FollowUp, DelayedRemoval
    <3> QED
      BY <1>1, <2>1, <2>2, <2>3, <3>1 DEF HeapMethodExecutable, TypeOK, Object
  <2>5. CASE ~LastOut(m)
    <3>1. UNCHANGED methods
      BY <1>7, <2>1, <2>5 DEF FollowUp
    <3>2. delayedRemove[m] => activeThreads'[m] > 0
      BY <1>1, <2>5 DEF LastOut, TypeOK
    <3> QED
      BY <1>1, <2>1, <2>2, <3>1, <3>2 DEF HeapMethodExecutable, TypeOK, Object
  <2> QED
    BY <2>4, <2>5
<1> QED
  BY <1>2, <1>3, <1>4, <1>5, <1>6, <1>7 DEF Next, WakeUp, SpuriousWake, vars

\* A registered method that the manager deletes on removal is executable unless a
\* thread inside it is still to carry out its removal.
THEOREM MarkedIsInUse == Spec => []HeapMethodExecutable
<1>1. Init => HeapMethodExecutable
  BY ConstantsAssumption DEF Init, HeapMethodExecutable, Object
<1> QED
  BY <1>1, Invariance, NextExecutable, PTL DEF Spec
==============================================================================
