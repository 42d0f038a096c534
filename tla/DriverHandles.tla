---------------------------- MODULE DriverHandles ----------------------------
(***************************************************************************)
(* The CANAL API: CanalOpen makes a driver object, opens it and registers  *)
(* it in an array whose index, plus 1681, is the handle; every other call  *)
(* looks the object up by its handle; CanalClose closes, removes and       *)
(* deletes it. Linux (Ccan4vscpApp) and Windows (CDllDrvObj, with DllMain  *)
(* around it) have the same array.                                         *)
(*                                                                         *)
(* m_drvobjMutex guards the changes of the array but not the lookups. What *)
(* the code leaves to the application is its contract here: a handle is    *)
(* used until it is given to CanalClose, and given to it once, when no     *)
(* call with it is in progress. Different handles are used at will.        *)
(*                                                                         *)
(* The object itself is what Session, ReceiveQueue and TransmitPath model; *)
(* here it is its existence and whether its worker threads run.            *)
(***************************************************************************)
EXTENDS Integers

CONSTANTS
    Threads,        \* threads of the application
    Objects,        \* identities for driver objects; bounds their number
    MAX_OPEN,       \* CANAL_CAN4VSCP_DRIVER_MAX_OPEN
    FirstHandle,    \* 1681
    NULL

ASSUME DriverHandlesAssumption ==
    /\ MAX_OPEN \in Nat
    /\ FirstHandle \in Nat /\ FirstHandle > 0 /\ FirstHandle >= MAX_OPEN
    /\ NULL \notin Objects /\ NULL \notin Threads

VARIABLES
    m_socketcanArray,   \* the registered objects
    m_drvobjMutex,      \* the thread that holds it, or NULL
    object,             \* each object: not made yet, made, deleted
    working,            \* the objects whose worker threads run (m_bRun)
    pc,                 \* where each thread is in its call
    pdrvObj,            \* its local variable
    handle,             \* its argument, or the handle it has found
    held,               \* application: the objects it has each handle for
    theApp              \* TRUE: the application object exists

objectVars == <<object, working>>
callVars   == <<pc, pdrvObj, handle>>
vars == <<m_socketcanArray, m_drvobjMutex, objectVars, callVars, held, theApp>>

Slots   == 0..MAX_OPEN - 1
Handles == FirstHandle..FirstHandle + MAX_OPEN - 1
NoHandle == 0

Init ==
    /\ m_socketcanArray = [i \in Slots |-> NULL] /\ m_drvobjMutex = NULL
    /\ object = [o \in Objects |-> "unused"] /\ working = {}
    /\ pc = [t \in Threads |-> "idle"] /\ pdrvObj = [t \in Threads |-> NULL]
    /\ handle = [t \in Threads |-> NoHandle]
    /\ held = [h \in Handles |-> {}]
    /\ theApp = TRUE

-----------------------------------------------------------------------------

\* A thread goes on at a label with its local variables.
Goto(t, label, o, h) ==
    /\ pc' = [pc EXCEPT ![t] = label]
    /\ pdrvObj' = [pdrvObj EXCEPT ![t] = o]
    /\ handle' = [handle EXCEPT ![t] = h]
Returns(t) == Goto(t, "idle", NULL, NoHandle)

\* The array is read without the mutex. A handle out of range has no object.
IndexItself(h)     == h
Index(h)           == h - FirstHandle
getDriverObject(h) == IF Index(h) \in Slots THEN m_socketcanArray[Index(h)] ELSE NULL

AnyoneMay   == TRUE
MutexIsFree == m_drvobjMutex = NULL

-----------------------------------------------------------------------------
(* CanalOpen.                                                              *)

New(t, o) ==
    /\ pc[t] = "idle" /\ theApp /\ object[o] = "unused"
    /\ object' = [object EXCEPT ![o] = "made"]
    /\ Goto(t, "open", o, NoHandle)
    /\ UNCHANGED <<m_socketcanArray, m_drvobjMutex, working, held, theApp>>

OpenSucceeds(t) ==
    /\ pc[t] = "open"
    /\ working' = working \cup {pdrvObj[t]}
    /\ Goto(t, "find", pdrvObj[t], NoHandle)
    /\ UNCHANGED <<m_socketcanArray, m_drvobjMutex, object, held, theApp>>

OpenFails(t) ==
    /\ pc[t] = "open"
    /\ Goto(t, "destroy", pdrvObj[t], NoHandle)
    /\ UNCHANGED <<m_socketcanArray, m_drvobjMutex, objectVars, held, theApp>>

\* addDriverObject: the first free slot, or none.
HandleBefore(i) == i + FirstHandle - 1
HandleOf(i)     == i + FirstHandle
FreeSlots == {i \in Slots : m_socketcanArray[i] = NULL}
KeepsMutex(t)  == t
LeavesMutex(t) == NULL

FindSlot(t) ==
    /\ pc[t] = "find" /\ MutexIsFree
    /\ \/ \E i \in FreeSlots :
             /\ \A j \in FreeSlots : i <= j
             /\ m_drvobjMutex' = t
             /\ Goto(t, "store", pdrvObj[t], HandleOf(i))
       \/ /\ FreeSlots = {}
          /\ m_drvobjMutex' = LeavesMutex(t)
          /\ Goto(t, "destroy", pdrvObj[t], NoHandle)
    /\ UNCHANGED <<m_socketcanArray, objectVars, held, theApp>>

\* The object is registered, and CanalOpen returns its handle.
StoreObject(t) ==
    /\ pc[t] = "store"
    /\ m_socketcanArray' = [m_socketcanArray EXCEPT ![Index(handle[t])] = pdrvObj[t]]
    /\ m_drvobjMutex' = NULL
    /\ held' = [held EXCEPT ![handle[t]] = held[handle[t]] \cup {pdrvObj[t]}]
    /\ Returns(t)
    /\ UNCHANGED <<objectVars, theApp>>

\* ~CCan4VSCPObj: "if (m_bRun) close()", then cleanup().
NeverCloses(o) == FALSE
ClosesFirst(o) == o \in working
LeavesObject(o) == UNCHANGED objectVars
Destructor(o) ==
    /\ object' = [object EXCEPT ![o] = "deleted"]
    /\ working' = IF ClosesFirst(o) THEN working \ {o} ELSE working

\* open() has failed, or the array is full: CanalOpen returns 0.
Destroy(t) ==
    /\ pc[t] = "destroy"
    /\ Destructor(pdrvObj[t])
    /\ Returns(t)
    /\ UNCHANGED <<m_socketcanArray, m_drvobjMutex, held, theApp>>

-----------------------------------------------------------------------------
(* Calls with a handle.                                                    *)

\* Handles the application may use: its own, and the 0 of a failed CanalOpen.
Usable(h) == h \in {NoHandle} \cup {k \in Handles : held[k] # {}}
InCall(h) == {t \in Threads : pc[t] # "idle" /\ handle[t] = h}

\* CanalSend, CanalReceive, CanalDataAvailable, CanalSetFilter and so on.
Call(t, h) ==
    /\ pc[t] = "idle" /\ theApp /\ Usable(h)
    /\ IF getDriverObject(h) = NULL THEN UNCHANGED callVars
       ELSE Goto(t, "call", getDriverObject(h), h)
    /\ UNCHANGED <<m_socketcanArray, m_drvobjMutex, objectVars, held, theApp>>

CallReturns(t) ==
    /\ pc[t] = "call"
    /\ Returns(t)
    /\ UNCHANGED <<m_socketcanArray, m_drvobjMutex, objectVars, held, theApp>>

\* CanalClose. The application gives the handle away as it calls.
CloseCall(t, h) ==
    /\ pc[t] = "idle" /\ theApp /\ Usable(h) /\ (h # NoHandle => InCall(h) = {})
    /\ IF getDriverObject(h) = NULL THEN UNCHANGED callVars
       ELSE Goto(t, "close", getDriverObject(h), h)
    /\ held' = IF h = NoHandle THEN held ELSE [held EXCEPT ![h] = {}]
    /\ UNCHANGED <<m_socketcanArray, m_drvobjMutex, objectVars, theApp>>

CloseObject(t) ==
    /\ pc[t] = "close"
    /\ working' = working \ {pdrvObj[t]}
    /\ Goto(t, "remove", pdrvObj[t], handle[t])
    /\ UNCHANGED <<m_socketcanArray, m_drvobjMutex, object, held, theApp>>

\* removeDriverObject, under the mutex: delete what the slot has, then clear it.
DeleteObject(t) ==
    /\ pc[t] = "remove" /\ MutexIsFree
    /\ m_drvobjMutex' = t
    /\ Goto(t, "clear", NULL, handle[t])
    /\ IF getDriverObject(handle[t]) = NULL THEN UNCHANGED objectVars
       ELSE Destructor(getDriverObject(handle[t]))
    /\ UNCHANGED <<m_socketcanArray, held, theApp>>

SlotAsIs(h)    == m_socketcanArray[Index(h)]
SlotCleared(h) == NULL
ClearSlot(t) ==
    /\ pc[t] = "clear"
    /\ m_socketcanArray' = [m_socketcanArray EXCEPT ![Index(handle[t])] = SlotCleared(handle[t])]
    /\ m_drvobjMutex' = NULL
    /\ Returns(t)
    /\ UNCHANGED <<objectVars, held, theApp>>

-----------------------------------------------------------------------------

\* The end of the process: ~Ccan4vscpApp, or DLL_PROCESS_DETACH. It asks
\* getDriverObject for the object of an index, not of a handle, and deletes
\* the objects that it gets.
Found == {i \in Slots : m_socketcanArray[i] # NULL /\ getDriverObject(i) # NULL}
Exit ==
    /\ theApp /\ \A t \in Threads : pc[t] = "idle"
    /\ theApp' = FALSE
    /\ m_socketcanArray' = [i \in Slots |-> IF i \in Found THEN NULL ELSE m_socketcanArray[i]]
    /\ object' = [o \in Objects |-> IF \E i \in Found : m_socketcanArray[i] = o
                                    THEN "deleted" ELSE object[o]]
    /\ working' = working \ {m_socketcanArray[i] : i \in Found}
    /\ UNCHANGED <<m_drvobjMutex, callVars, held>>

-----------------------------------------------------------------------------

\* The steps that a call takes by itself.
Runs(t) ==
    \/ OpenSucceeds(t) \/ OpenFails(t) \/ StoreObject(t) \/ Destroy(t)
    \/ CallReturns(t) \/ CloseObject(t) \/ ClearSlot(t)
WaitsForMutex(t) == FindSlot(t) \/ DeleteObject(t)

Next ==
    \/ \E t \in Threads :
          \/ \E o \in Objects : New(t, o)
          \/ \E h \in Handles \cup {NoHandle} : Call(t, h) \/ CloseCall(t, h)
          \/ Runs(t) \/ WaitsForMutex(t)
    \/ Exit

Spec == Init /\ [][Next]_vars

\* Threads run, pthread_mutex_lock gets its turn, and the object's functions
\* return: readMsgBlocking and writeMsgBlocking after their timeout, close()
\* as CloseReturns of Session has it.
Fairness == \A t \in Threads : WF_vars(Runs(t)) /\ SF_vars(WaitsForMutex(t))
FairSpec == Spec /\ Fairness

-----------------------------------------------------------------------------
(* What makes the handles correct.                                         *)

TypeOK ==
    /\ m_socketcanArray \in [Slots -> Objects \cup {NULL}]
    /\ m_drvobjMutex \in Threads \cup {NULL}
    /\ object \in [Objects -> {"unused", "made", "deleted"}]
    /\ working \subseteq Objects
    /\ pc \in [Threads -> {"idle", "open", "find", "store", "destroy", "call",
                           "close", "remove", "clear"}]
    /\ pdrvObj \in [Threads -> Objects \cup {NULL}]
    /\ handle \in [Threads -> Handles \cup {NoHandle}]
    /\ held \in [Handles -> SUBSET Objects]
    /\ theApp \in BOOLEAN

\* Nobody works with a deleted object: no call that has looked one up before,
\* and none of its own worker threads.
NoUseAfterDelete ==
    /\ \A t \in Threads : pdrvObj[t] # NULL => object[pdrvObj[t]] = "made"
    /\ \A o \in working : object[o] = "made"

\* As long as the application has a handle it leads to the object that its
\* CanalOpen has made, open, and to no other, whatever is opened and closed at
\* the same time.
HandleIsOwn ==
    \A h \in Handles : \A o \in held[h] :
        getDriverObject(h) = o /\ o \in working

\* No object is lost: one that has been made can be reached by a handle, or
\* some thread is about to register or to delete it.
ObjectsAreReachable ==
    \A o \in Objects : object[o] = "made" =>
        \/ \E h \in Handles : o \in held[h]
        \/ \E t \in Threads : pdrvObj[t] = o

\* No slot is lost: what is in the array is the application's, or its removal
\* is under way.
SlotsComeBack ==
    \A h \in Handles : getDriverObject(h) # NULL =>
        held[h] # {} \/ \E t \in Threads : pc[t] # "idle" /\ handle[t] = h

\* Neither objects nor slots are lost, however often channels are opened and
\* closed, by several threads at once, with the array full and with open()
\* failing.
NothingIsLost == ObjectsAreReachable /\ SlotsComeBack

\* Every call returns, also when the array is full.
CallsReturn == \A t \in Threads : (pc[t] # "idle") ~> (pc[t] = "idle")
=============================================================================
