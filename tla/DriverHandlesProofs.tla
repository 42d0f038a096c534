------------------------- MODULE DriverHandlesProofs -------------------------
(***************************************************************************)
(* DriverHandles for every number of threads, objects and slots: who owns  *)
(* which object and which slot at every moment of a call.                  *)
(***************************************************************************)
EXTENDS DriverHandles, TLAPS

Opening == {"open", "find", "store", "destroy"}
Closing == {"close", "remove", "clear"}

Slot(h) == m_socketcanArray[Index(h)]

MutexOwner == \A t \in Threads : pc[t] \in {"store", "clear"} <=> m_drvobjMutex = t

\* A thread that opens has an object that nobody else has.
OpenerInv(t) ==
    pc[t] \in Opening =>
        /\ pdrvObj[t] \in Objects /\ object[pdrvObj[t]] = "made"
        /\ \A i \in Slots : m_socketcanArray[i] # pdrvObj[t]
        /\ \A u \in Threads : pdrvObj[u] = pdrvObj[t] => u = t
        /\ pc[t] = "store" => handle[t] \in Handles /\ Slot(handle[t]) = NULL
        /\ pc[t] # "store" => handle[t] = NoHandle
        /\ pc[t] \in {"find", "store"} => pdrvObj[t] \in working

\* A thread that uses a handle has the object of its slot.
UserInv(t) ==
    pc[t] = "call" =>
        handle[t] \in Handles /\ pdrvObj[t] \in held[handle[t]]

\* A thread that closes a handle is the only one to use its slot, until the
\* slot is empty.
CloserInv(t) ==
    pc[t] \in Closing =>
        /\ handle[t] \in Handles /\ held[handle[t]] = {}
        /\ Slot(handle[t]) \in Objects
        /\ \A u \in Threads : handle[u] = handle[t] => u = t
        /\ pc[t] # "clear" =>
              pdrvObj[t] = Slot(handle[t]) /\ object[pdrvObj[t]] = "made"
        /\ pc[t] = "clear" => pdrvObj[t] = NULL /\ object[Slot(handle[t])] = "deleted"
        /\ pc[t] # "close" => Slot(handle[t]) \notin working

IdleInv(t) == pc[t] = "idle" => pdrvObj[t] = NULL /\ handle[t] = NoHandle

HeldInv(h) ==
    \A o \in held[h] :
        held[h] = {o} /\ Slot(h) = o /\ o \in working /\ object[o] = "made"

SlotInv(h) ==
    Slot(h) # NULL => held[h] # {} \/ \E t \in Threads : pc[t] \in Closing /\ handle[t] = h

Injective ==
    \A i, j \in Slots :
        m_socketcanArray[i] = m_socketcanArray[j] /\ m_socketcanArray[i] # NULL => i = j

ObjectInv == (\A o \in working : object[o] = "made") /\ ObjectsAreReachable

IInv ==
    /\ TypeOK
    /\ MutexOwner
    /\ \A t \in Threads : OpenerInv(t) /\ UserInv(t) /\ CloserInv(t) /\ IdleInv(t)
    /\ \A h \in Handles : HeldInv(h) /\ SlotInv(h)
    /\ Injective
    /\ ObjectInv

-----------------------------------------------------------------------------

\* Handles and slots are the same thing; 0 is not a handle.
LEMMA HandleFacts ==
    /\ \A h \in Handles : Index(h) \in Slots
    /\ \A i \in Slots : i + FirstHandle \in Handles /\ Index(i + FirstHandle) = i
    /\ \A h, k \in Handles : Index(h) = Index(k) => h = k
    /\ \A h \in Handles : getDriverObject(h) = Slot(h)
    /\ NoHandle \notin Handles /\ getDriverObject(NoHandle) = NULL
    /\ \A i \in Slots : getDriverObject(i) = NULL
  BY DriverHandlesAssumption
     DEF Handles, Slots, Index, NoHandle, getDriverObject, Slot

\* The application object's end finds no object, as an index is no handle.
LEMMA NothingFound == Found = {}
  BY HandleFacts DEF Found

\* A thread's step changes nobody else's place.
LEMMA GotoFacts ==
    ASSUME TypeOK, NEW t \in Threads, NEW label, NEW o, NEW h, Goto(t, label, o, h)
    PROVE  /\ pc'[t] = label /\ pdrvObj'[t] = o /\ handle'[t] = h
           /\ \A u \in Threads \ {t} :
                 pc'[u] = pc[u] /\ pdrvObj'[u] = pdrvObj[u] /\ handle'[u] = handle[u]
  BY DEF TypeOK, Goto

LEMMA InitInv == Init => IInv
  <1>. SUFFICES ASSUME Init PROVE IInv
    OBVIOUS
  <1>. USE DriverHandlesAssumption DEF Init
  <1>1. TypeOK
    BY DEF TypeOK, NoHandle
  <1>2. MutexOwner
    BY DEF MutexOwner
  <1>3. \A t \in Threads : OpenerInv(t) /\ UserInv(t) /\ CloserInv(t) /\ IdleInv(t)
    BY DEF OpenerInv, UserInv, CloserInv, IdleInv, Opening, Closing
  <1>4. \A h \in Handles : HeldInv(h) /\ SlotInv(h)
    BY HandleFacts DEF HeldInv, SlotInv, Slot
  <1>5. Injective /\ ObjectInv
    BY DEF Injective, ObjectInv, ObjectsAreReachable
  <1>. QED
    BY <1>1, <1>2, <1>3, <1>4, <1>5 DEF IInv

\* The places that a thread can be in.
Labels == {"idle", "call"} \cup Opening \cup Closing

LEMMA GotoTypes ==
    ASSUME TypeOK, NEW t \in Threads, NEW label \in Labels,
           NEW o \in Objects \cup {NULL}, NEW h \in Handles \cup {NoHandle},
           Goto(t, label, o, h)
    PROVE  /\ pc' \in [Threads -> Labels]
           /\ pdrvObj' \in [Threads -> Objects \cup {NULL}]
           /\ handle' \in [Threads -> Handles \cup {NoHandle}]
  BY DEF TypeOK, Goto, Labels, Opening, Closing

\* A thread's object exists. It is its own, or that of the slot it uses.
LEMMA WhoHas ==
    ASSUME IInv, NEW t \in Threads, pdrvObj[t] # NULL
    PROVE  /\ pdrvObj[t] \in Objects /\ object[pdrvObj[t]] = "made"
           /\ \/ pc[t] \in Opening
              \/ /\ pc[t] \in {"call", "close", "remove"}
                 /\ handle[t] \in Handles /\ pdrvObj[t] = Slot(handle[t])
  <1>1. pc[t] \in Labels
    BY DEF IInv, TypeOK, Labels, Opening, Closing
  <1>2. CASE pc[t] \in Opening
    BY <1>2 DEF IInv, OpenerInv
  <1>3. CASE pc[t] = "call"
    <2>1. handle[t] \in Handles /\ pdrvObj[t] \in held[handle[t]]
      BY <1>3 DEF IInv, UserInv
    <2>2. HeldInv(handle[t]) /\ pdrvObj[t] \in Objects
      BY <2>1 DEF IInv, TypeOK
    <2>. QED
      BY <1>3, <2>1, <2>2 DEF HeldInv
  <1>4. CASE pc[t] \in Closing
    BY <1>4 DEF IInv, CloserInv, Closing
  <1>5. CASE pc[t] = "idle"
    BY <1>5 DEF IInv, IdleInv
  <1>. QED
    BY <1>1, <1>2, <1>3, <1>4, <1>5 DEF Labels

LEMMA NewStep ==
    ASSUME IInv, NEW t \in Threads, NEW o \in Objects, New(t, o)
    PROVE  IInv'
  <1>. USE HandleFacts, DriverHandlesAssumption DEF New
  <1>1. /\ TypeOK /\ pc[t] = "idle"
        /\ Goto(t, "open", o, NoHandle)
        /\ o \in Objects \cup {NULL} /\ NoHandle \in Handles \cup {NoHandle}
    BY DEF IInv, Returns, TypeOK
  <1>12. /\ \A u \in Threads : pdrvObj[u] # o
         /\ \A h \in Handles : \A p \in held[h] : p # o
         /\ o \notin working
    BY WhoHas DEF IInv, HeldInv, ObjectInv
  <1>13. \A i \in Slots : m_socketcanArray[i] # o
    <2>. SUFFICES ASSUME NEW i \in Slots, m_socketcanArray[i] = o PROVE FALSE
      OBVIOUS
    <2>1. Slot(i + FirstHandle) = o /\ o # NULL
      BY DEF Slot
    <2>2. CASE held[i + FirstHandle] # {}
      BY <1>12, <2>1, <2>2 DEF IInv, HeldInv
    <2>3. CASE \E u \in Threads : pc[u] \in Closing /\ handle[u] = i + FirstHandle
      BY <1>12, <2>1, <2>3 DEF IInv, CloserInv, Closing
    <2>. QED
      BY <2>1, <2>2, <2>3 DEF IInv, SlotInv
  <1>14. object'[o] = "made" /\ \A p \in Objects \ {o} : object'[p] = object[p]
    BY <1>1 DEF TypeOK
  <1>2. TypeOK'
    <2>1. /\ pc' \in [Threads -> Labels] /\ pdrvObj' \in [Threads -> Objects \cup {NULL}]
          /\ handle' \in [Threads -> Handles \cup {NoHandle}]
      BY <1>1, GotoTypes DEF Labels, Opening, Closing
    <2>. QED
      BY <1>1, <2>1 DEF TypeOK, Labels, Opening, Closing
  <1>3. MutexOwner'
    BY <1>1, GotoFacts DEF MutexOwner, IInv
  <1>4. ASSUME NEW u \in Threads PROVE OpenerInv(u)'
    <2>1. CASE u = t
      BY <1>1, <1>12, <1>13, <1>14, <2>1, GotoFacts DEF OpenerInv, Opening
    <2>2. CASE u # t
      BY <1>1, <1>12, <1>14, <2>2, GotoFacts DEF OpenerInv, IInv, Slot
    <2>. QED
      BY <2>1, <2>2
  <1>5. ASSUME NEW u \in Threads PROVE UserInv(u)'
    BY <1>1, GotoFacts DEF OpenerInv, UserInv, CloserInv, IdleInv, Opening, Closing, IInv, Slot
  <1>6. ASSUME NEW u \in Threads PROVE CloserInv(u)'
    BY <1>1, GotoFacts DEF OpenerInv, UserInv, CloserInv, IdleInv, Opening, Closing, IInv, Slot
  <1>7. ASSUME NEW u \in Threads PROVE IdleInv(u)'
    BY <1>1, GotoFacts DEF IdleInv, IInv
  <1>8. ASSUME NEW h \in Handles PROVE HeldInv(h)'
    BY <1>1, GotoFacts DEF HeldInv, IInv, Slot, OpenerInv, Opening
  <1>9. ASSUME NEW h \in Handles PROVE SlotInv(h)'
    BY <1>1, GotoFacts DEF SlotInv, IInv, Slot, Opening, Closing
  <1>10. Injective'
    BY <1>1, GotoFacts DEF Injective, IInv, OpenerInv, Opening, Slot
  <1>11. ObjectInv'
    <2>1. \A p \in working' : object'[p] = "made"
      BY <1>12, <1>14 DEF IInv, TypeOK, ObjectInv
    <2>2. ASSUME NEW p \in Objects, object'[p] = "made"
          PROVE  \/ \E h \in Handles : p \in held'[h]
                 \/ \E u \in Threads : pdrvObj'[u] = p
      <3>1. CASE p = o
        BY <1>1, <3>1, GotoFacts
      <3>2. CASE p # o
        <4>1. object[p] = "made"
          BY <1>14, <2>2, <3>2
        <4>2. CASE \E h \in Handles : p \in held[h]
          BY <4>2
        <4>3. CASE \E u \in Threads : pdrvObj[u] = p
          BY <1>1, <4>3, GotoFacts DEF IInv, IdleInv
        <4>. QED
          BY <4>1, <4>2, <4>3 DEF IInv, ObjectInv, ObjectsAreReachable
      <3>. QED
        BY <3>1, <3>2
    <2>. QED
      BY <2>1, <2>2 DEF ObjectInv, ObjectsAreReachable
  <1>. QED
    BY <1>2, <1>3, <1>4, <1>5, <1>6, <1>7, <1>8, <1>9, <1>10, <1>11 DEF IInv

LEMMA OpenSucceedsStep ==
    ASSUME IInv, NEW t \in Threads, OpenSucceeds(t)
    PROVE  IInv'
  <1>. USE HandleFacts, DriverHandlesAssumption DEF OpenSucceeds
  <1>1. /\ TypeOK /\ pc[t] = "open"
        /\ Goto(t, "find", pdrvObj[t], NoHandle)
        /\ pdrvObj[t] \in Objects \cup {NULL} /\ NoHandle \in Handles \cup {NoHandle}
    BY DEF IInv, Returns, TypeOK
  <1>2. TypeOK'
    <2>1. /\ pc' \in [Threads -> Labels] /\ pdrvObj' \in [Threads -> Objects \cup {NULL}]
          /\ handle' \in [Threads -> Handles \cup {NoHandle}]
      BY <1>1, GotoTypes DEF Labels, Opening, Closing
    <2>. QED
      BY <1>1, <2>1 DEF TypeOK, Labels, Opening, Closing, IInv, OpenerInv
  <1>3. MutexOwner'
    BY <1>1, GotoFacts DEF MutexOwner, IInv
  <1>4. ASSUME NEW u \in Threads PROVE OpenerInv(u)'
    BY <1>1, GotoFacts DEF OpenerInv, UserInv, CloserInv, IdleInv, Opening, Closing, IInv, Slot
  <1>5. ASSUME NEW u \in Threads PROVE UserInv(u)'
    BY <1>1, GotoFacts DEF OpenerInv, UserInv, CloserInv, IdleInv, Opening, Closing, IInv, Slot
  <1>6. ASSUME NEW u \in Threads PROVE CloserInv(u)'
    BY <1>1, GotoFacts DEF OpenerInv, UserInv, CloserInv, IdleInv, Opening, Closing, IInv, Slot
  <1>7. ASSUME NEW u \in Threads PROVE IdleInv(u)'
    BY <1>1, GotoFacts DEF IdleInv, IInv
  <1>8. ASSUME NEW h \in Handles PROVE HeldInv(h)'
    BY <1>1, GotoFacts DEF HeldInv, IInv, Slot, OpenerInv, Opening
  <1>9. ASSUME NEW h \in Handles PROVE SlotInv(h)'
    BY <1>1, GotoFacts DEF SlotInv, IInv, Slot, Opening, Closing
  <1>10. Injective'
    BY <1>1, GotoFacts DEF Injective, IInv, OpenerInv, Opening, Slot
  <1>11. ObjectInv'
    BY <1>1, GotoFacts DEF ObjectInv, ObjectsAreReachable, IInv, OpenerInv, CloserInv, Opening, Closing
  <1>. QED
    BY <1>2, <1>3, <1>4, <1>5, <1>6, <1>7, <1>8, <1>9, <1>10, <1>11 DEF IInv

LEMMA OpenFailsStep ==
    ASSUME IInv, NEW t \in Threads, OpenFails(t)
    PROVE  IInv'
  <1>. USE HandleFacts, DriverHandlesAssumption DEF OpenFails
  <1>1. /\ TypeOK /\ pc[t] = "open"
        /\ Goto(t, "destroy", pdrvObj[t], NoHandle)
        /\ pdrvObj[t] \in Objects \cup {NULL} /\ NoHandle \in Handles \cup {NoHandle}
    BY DEF IInv, Returns, TypeOK
  <1>12. UNCHANGED <<object, working, held, m_socketcanArray, m_drvobjMutex>>
    BY DEF objectVars
  <1>2. TypeOK'
    <2>1. /\ pc' \in [Threads -> Labels] /\ pdrvObj' \in [Threads -> Objects \cup {NULL}]
          /\ handle' \in [Threads -> Handles \cup {NoHandle}]
      BY <1>1, GotoTypes DEF Labels, Opening, Closing
    <2>. QED
      BY <1>1, <2>1 DEF TypeOK, Labels, Opening, Closing, objectVars
  <1>3. MutexOwner'
    BY <1>1, GotoFacts DEF MutexOwner, IInv
  <1>4. ASSUME NEW u \in Threads PROVE OpenerInv(u)'
    <2>1. CASE u = t
      BY <1>1, <1>12, <2>1, GotoFacts DEF OpenerInv, Opening, IInv
    <2>2. CASE u # t
      BY <1>1, <1>12, <2>2, GotoFacts DEF OpenerInv, IInv, Slot
    <2>. QED
      BY <2>1, <2>2
  <1>5. ASSUME NEW u \in Threads PROVE UserInv(u)'
    BY <1>1, GotoFacts DEF OpenerInv, UserInv, CloserInv, IdleInv, Opening, Closing, IInv, Slot
  <1>6. ASSUME NEW u \in Threads PROVE CloserInv(u)'
    BY <1>1, <1>12, GotoFacts DEF CloserInv, Closing, IInv, Slot
  <1>7. ASSUME NEW u \in Threads PROVE IdleInv(u)'
    BY <1>1, GotoFacts DEF IdleInv, IInv
  <1>8. ASSUME NEW h \in Handles PROVE HeldInv(h)'
    BY <1>12 DEF HeldInv, IInv, Slot
  <1>9. ASSUME NEW h \in Handles PROVE SlotInv(h)'
    BY <1>1, GotoFacts DEF SlotInv, IInv, Slot, Opening, Closing
  <1>10. Injective'
    BY <1>1, GotoFacts DEF Injective, IInv, OpenerInv, Opening, Slot
  <1>11. ObjectInv'
    <2>1. \A p \in working' : object'[p] = "made"
      BY <1>12 DEF IInv, TypeOK, ObjectInv
    <2>2. ASSUME NEW p \in Objects, object'[p] = "made"
          PROVE  \/ \E h \in Handles : p \in held'[h]
                 \/ \E u \in Threads : pdrvObj'[u] = p
      <3>1. object[p] = "made"
        BY <2>2, <1>12
      <3>2. CASE \E h \in Handles : p \in held[h]
        BY <3>2, <1>12
      <3>3. CASE \E u \in Threads : pdrvObj[u] = p
        <4>1. PICK u \in Threads : pdrvObj[u] = p
          BY <3>3
        <4>2. CASE u # t
          BY <1>1, <4>1, <4>2, GotoFacts
        <4>3. CASE u = t
          BY <1>1, <2>2, <4>1, <4>3, GotoFacts, <1>12
        <4>. QED
          BY <4>2, <4>3
      <3>. QED
        BY <3>1, <3>2, <3>3 DEF IInv, ObjectInv, ObjectsAreReachable
    <2>. QED
      BY <2>1, <2>2 DEF ObjectInv, ObjectsAreReachable
  <1>. QED
    BY <1>2, <1>3, <1>4, <1>5, <1>6, <1>7, <1>8, <1>9, <1>10, <1>11 DEF IInv

LEMMA StoreObjectStep ==
    ASSUME IInv, NEW t \in Threads, StoreObject(t)
    PROVE  IInv'
  <1>. USE HandleFacts, DriverHandlesAssumption DEF StoreObject
  <1>1. /\ TypeOK /\ pc[t] = "store"
        /\ Goto(t, "idle", NULL, NoHandle)
        /\ NULL \in Objects \cup {NULL} /\ NoHandle \in Handles \cup {NoHandle}
    BY DEF IInv, Returns, TypeOK
  <1>12. PICK k \in Handles, o \in Objects :
         /\ k = handle[t] /\ o = pdrvObj[t] /\ object[o] = "made" /\ o \in working
         /\ Slot(k) = NULL /\ o # NULL
         /\ \A i \in Slots : m_socketcanArray[i] # o
         /\ \A u \in Threads : pdrvObj[u] = o => u = t
    BY <1>1 DEF IInv, OpenerInv, Opening
  <1>13. held[k] = {}
    BY <1>12 DEF IInv, HeldInv, TypeOK
  <1>14. /\ Slot(k)' = o /\ held'[k] = {o}
         /\ \A h \in Handles \ {k} : Slot(h)' = Slot(h) /\ held'[h] = held[h]
         /\ m_socketcanArray'[Index(k)] = o
         /\ \A i \in Slots \ {Index(k)} : m_socketcanArray'[i] = m_socketcanArray[i]
         /\ UNCHANGED <<object, working>>
    BY <1>1, <1>12, <1>13 DEF TypeOK, Slot, objectVars
  <1>15. \A u \in Threads \ {t} : handle[u] = k => pc[u] \notin {"store", "call"} \cup Closing
    <2>1. \A u \in Threads \ {t} : pc[u] # "store"
      BY <1>1 DEF IInv, MutexOwner
    <2>. QED
      BY <1>12, <1>13, <2>1 DEF IInv, UserInv, CloserInv
  <1>2. TypeOK'
    <2>1. /\ pc' \in [Threads -> Labels] /\ pdrvObj' \in [Threads -> Objects \cup {NULL}]
          /\ handle' \in [Threads -> Handles \cup {NoHandle}]
      BY <1>1, GotoTypes DEF Labels, Opening, Closing
    <2>2. /\ m_socketcanArray' \in [Slots -> Objects \cup {NULL}]
          /\ held' \in [Handles -> SUBSET Objects]
      BY <1>1, <1>12 DEF TypeOK
    <2>. QED
      BY <1>1, <2>1, <2>2 DEF TypeOK, Labels, Opening, Closing, objectVars
  <1>3. MutexOwner'
    BY <1>1, GotoFacts DEF MutexOwner, IInv
  <1>4. ASSUME NEW u \in Threads PROVE OpenerInv(u)'
    <2>1. CASE u = t
      BY <1>1, <2>1, GotoFacts DEF OpenerInv, Opening
    <2>2. CASE u # t
      <3>1. OpenerInv(u) /\ pdrvObj[u] # o
        BY <1>12, <2>2 DEF IInv
      <3>2. /\ pc'[u] = pc[u] /\ pdrvObj'[u] = pdrvObj[u] /\ handle'[u] = handle[u]
            /\ pdrvObj'[t] = NULL
            /\ \A v \in Threads \ {t} : pdrvObj'[v] = pdrvObj[v]
        BY <1>1, <2>2, GotoFacts
      <3>3. pc[u] = "store" /\ handle[u] \in Handles => m_socketcanArray'[Index(handle[u])] = Slot(handle[u])
        BY <1>14, <1>15, <2>2 DEF Slot
      <3>4. \A i \in Slots : m_socketcanArray[i] # pdrvObj[u] => m_socketcanArray'[i] # pdrvObj[u]
        BY <1>14, <3>1
      <3>. QED
        BY <1>14, <3>1, <3>2, <3>3, <3>4 DEF OpenerInv, Opening, Slot
    <2>. QED
      BY <2>1, <2>2
  <1>5. ASSUME NEW u \in Threads PROVE UserInv(u)'
    BY <1>1, <1>14, <1>15, GotoFacts DEF UserInv, IInv
  <1>6. ASSUME NEW u \in Threads PROVE CloserInv(u)'
    <2>1. CASE u = t
      BY <1>1, <2>1, GotoFacts DEF CloserInv, Closing
    <2>2. CASE u # t /\ pc[u] \in Closing
      <3>1. CloserInv(u) /\ handle[u] \in Handles /\ handle[u] # k
        BY <1>15, <2>2 DEF IInv, CloserInv
      <3>2. /\ pc'[u] = pc[u] /\ pdrvObj'[u] = pdrvObj[u] /\ handle'[u] = handle[u]
            /\ handle'[t] = NoHandle
            /\ \A v \in Threads \ {t} : handle'[v] = handle[v]
        BY <1>1, <2>2, GotoFacts
      <3>3. m_socketcanArray'[Index(handle[u])] = Slot(handle[u])
        BY <1>14, <3>1, <3>2 DEF Slot
      <3>. QED
        BY <1>14, <2>2, <3>1, <3>2, <3>3 DEF CloserInv, Slot
    <2>3. CASE u # t /\ pc[u] \notin Closing
      BY <1>1, <2>3, GotoFacts DEF CloserInv
    <2>. QED
      BY <2>1, <2>2, <2>3
  <1>7. ASSUME NEW u \in Threads PROVE IdleInv(u)'
    BY <1>1, GotoFacts DEF IdleInv, IInv
  <1>8. ASSUME NEW h \in Handles PROVE HeldInv(h)'
    BY <1>12, <1>14 DEF HeldInv, IInv
  <1>9. ASSUME NEW h \in Handles PROVE SlotInv(h)'
    <2>1. CASE h = k
      BY <1>14, <2>1 DEF SlotInv
    <2>2. CASE h # k
      BY <1>1, <1>14, <2>2, GotoFacts DEF SlotInv, IInv, Closing
    <2>. QED
      BY <2>1, <2>2
  <1>10. Injective'
    BY <1>12, <1>14 DEF Injective, IInv
  <1>11. ObjectInv'
    <2>1. \A p \in working' : object'[p] = "made"
      BY <1>14 DEF IInv, ObjectInv
    <2>2. ASSUME NEW p \in Objects, object'[p] = "made"
          PROVE  \/ \E h \in Handles : p \in held'[h]
                 \/ \E u \in Threads : pdrvObj'[u] = p
      <3>1. object[p] = "made"
        BY <1>14, <2>2
      <3>2. CASE \E h \in Handles : p \in held[h]
        BY <1>13, <1>14, <3>2
      <3>3. CASE \E u \in Threads : pdrvObj[u] = p
        BY <1>1, <1>12, <1>14, <3>3, GotoFacts
      <3>. QED
        BY <3>1, <3>2, <3>3 DEF IInv, ObjectInv, ObjectsAreReachable
    <2>. QED
      BY <2>1, <2>2 DEF ObjectInv, ObjectsAreReachable
  <1>. QED
    BY <1>2, <1>3, <1>4, <1>5, <1>6, <1>7, <1>8, <1>9, <1>10, <1>11 DEF IInv

LEMMA DestroyStep ==
    ASSUME IInv, NEW t \in Threads, Destroy(t)
    PROVE  IInv'
  <1>. USE HandleFacts, DriverHandlesAssumption DEF Destroy, Destructor, ClosesFirst
  <1>1. /\ TypeOK /\ pc[t] = "destroy"
        /\ Goto(t, "idle", NULL, NoHandle)
        /\ NULL \in Objects \cup {NULL} /\ NoHandle \in Handles \cup {NoHandle}
    BY DEF IInv, Returns, TypeOK
  <1>12. /\ pdrvObj[t] \in Objects /\ object'[pdrvObj[t]] = "deleted"
         /\ pdrvObj[t] \notin working' /\ working' \subseteq working
         /\ \A p \in working : p # pdrvObj[t] => p \in working'
         /\ \A p \in Objects \ {pdrvObj[t]} : object'[p] = object[p]
         /\ UNCHANGED <<held, m_socketcanArray, m_drvobjMutex>>
    BY <1>1 DEF IInv, OpenerInv, Opening, TypeOK
  <1>2. TypeOK'
    <2>1. /\ pc' \in [Threads -> Labels] /\ pdrvObj' \in [Threads -> Objects \cup {NULL}]
          /\ handle' \in [Threads -> Handles \cup {NoHandle}]
      BY <1>1, GotoTypes DEF Labels, Opening, Closing
    <2>. QED
      BY <1>1, <2>1 DEF TypeOK, Labels, Opening, Closing
  <1>3. MutexOwner'
    BY <1>1, GotoFacts DEF MutexOwner, IInv
  <1>4. ASSUME NEW u \in Threads PROVE OpenerInv(u)'
    BY <1>1, GotoFacts DEF OpenerInv, UserInv, CloserInv, IdleInv, Opening, Closing, IInv, Slot
  <1>5. ASSUME NEW u \in Threads PROVE UserInv(u)'
    BY <1>1, GotoFacts DEF OpenerInv, UserInv, CloserInv, IdleInv, Opening, Closing, IInv, Slot
  <1>6. ASSUME NEW u \in Threads PROVE CloserInv(u)'
    BY <1>1, GotoFacts DEF OpenerInv, UserInv, CloserInv, IdleInv, Opening, Closing, IInv, Slot
  <1>7. ASSUME NEW u \in Threads PROVE IdleInv(u)'
    BY <1>1, GotoFacts DEF IdleInv, IInv
  <1>8. ASSUME NEW h \in Handles PROVE HeldInv(h)'
    BY <1>1, GotoFacts DEF HeldInv, IInv, Slot, OpenerInv, Opening
  <1>9. ASSUME NEW h \in Handles PROVE SlotInv(h)'
    BY <1>1, GotoFacts DEF SlotInv, IInv, Slot, Opening, Closing
  <1>10. Injective'
    BY <1>1, GotoFacts DEF Injective, IInv, OpenerInv, Opening, Slot
  <1>11. ObjectInv'
    <2>1. \A p \in working' : object'[p] = "made"
      BY <1>12 DEF IInv, TypeOK, ObjectInv
    <2>2. ASSUME NEW p \in Objects, object'[p] = "made"
          PROVE  \/ \E h \in Handles : p \in held'[h]
                 \/ \E u \in Threads : pdrvObj'[u] = p
      <3>1. object[p] = "made"
        BY <2>2, <1>12
      <3>2. CASE \E h \in Handles : p \in held[h]
        BY <3>2, <1>12
      <3>3. CASE \E u \in Threads : pdrvObj[u] = p
        <4>1. PICK u \in Threads : pdrvObj[u] = p
          BY <3>3
        <4>2. CASE u # t
          BY <1>1, <4>1, <4>2, GotoFacts
        <4>3. CASE u = t
          BY <1>1, <2>2, <4>1, <4>3, GotoFacts, <1>12
        <4>. QED
          BY <4>2, <4>3
      <3>. QED
        BY <3>1, <3>2, <3>3 DEF IInv, ObjectInv, ObjectsAreReachable
    <2>. QED
      BY <2>1, <2>2 DEF ObjectInv, ObjectsAreReachable
  <1>. QED
    BY <1>2, <1>3, <1>4, <1>5, <1>6, <1>7, <1>8, <1>9, <1>10, <1>11 DEF IInv

LEMMA CallReturnsStep ==
    ASSUME IInv, NEW t \in Threads, CallReturns(t)
    PROVE  IInv'
  <1>. USE HandleFacts, DriverHandlesAssumption DEF CallReturns
  <1>1. /\ TypeOK /\ pc[t] = "call"
        /\ Goto(t, "idle", NULL, NoHandle)
        /\ NULL \in Objects \cup {NULL} /\ NoHandle \in Handles \cup {NoHandle}
    BY DEF IInv, Returns, TypeOK
  <1>12. UNCHANGED <<object, working, held, m_socketcanArray, m_drvobjMutex>>
    BY DEF objectVars
  <1>2. TypeOK'
    <2>1. /\ pc' \in [Threads -> Labels] /\ pdrvObj' \in [Threads -> Objects \cup {NULL}]
          /\ handle' \in [Threads -> Handles \cup {NoHandle}]
      BY <1>1, GotoTypes DEF Labels, Opening, Closing
    <2>. QED
      BY <1>1, <2>1 DEF TypeOK, Labels, Opening, Closing, objectVars
  <1>3. MutexOwner'
    BY <1>1, GotoFacts DEF MutexOwner, IInv
  <1>4. ASSUME NEW u \in Threads PROVE OpenerInv(u)'
    <2>1. CASE u = t
      BY <1>1, <2>1, GotoFacts DEF OpenerInv, Opening
    <2>2. CASE u # t
      BY <1>1, <1>12, <2>2, GotoFacts DEF OpenerInv, IInv, Slot, Opening
    <2>. QED
      BY <2>1, <2>2
  <1>5. ASSUME NEW u \in Threads PROVE UserInv(u)'
    BY <1>1, GotoFacts DEF OpenerInv, UserInv, CloserInv, IdleInv, Opening, Closing, IInv, Slot
  <1>6. ASSUME NEW u \in Threads PROVE CloserInv(u)'
    BY <1>1, <1>12, GotoFacts DEF CloserInv, Closing, IInv, Slot
  <1>7. ASSUME NEW u \in Threads PROVE IdleInv(u)'
    BY <1>1, GotoFacts DEF IdleInv, IInv
  <1>8. ASSUME NEW h \in Handles PROVE HeldInv(h)'
    BY <1>12 DEF HeldInv, IInv, Slot
  <1>9. ASSUME NEW h \in Handles PROVE SlotInv(h)'
    BY <1>1, GotoFacts DEF SlotInv, IInv, Slot, Opening, Closing
  <1>10. Injective'
    BY <1>1, GotoFacts DEF Injective, IInv, OpenerInv, Opening, Slot
  <1>11. ObjectInv'
    <2>1. \A p \in working' : object'[p] = "made"
      BY <1>12 DEF IInv, TypeOK, ObjectInv
    <2>2. ASSUME NEW p \in Objects, object'[p] = "made"
          PROVE  \/ \E h \in Handles : p \in held'[h]
                 \/ \E u \in Threads : pdrvObj'[u] = p
      <3>1. object[p] = "made"
        BY <2>2, <1>12
      <3>2. CASE \E h \in Handles : p \in held[h]
        BY <3>2, <1>12
      <3>3. CASE \E u \in Threads : pdrvObj[u] = p
        <4>1. PICK u \in Threads : pdrvObj[u] = p
          BY <3>3
        <4>2. CASE u # t
          BY <1>1, <4>1, <4>2, GotoFacts
        <4>3. CASE u = t
          BY <1>1, <1>12, <4>1, <4>3 DEF UserInv, IInv
        <4>. QED
          BY <4>2, <4>3
      <3>. QED
        BY <3>1, <3>2, <3>3 DEF IInv, ObjectInv, ObjectsAreReachable
    <2>. QED
      BY <2>1, <2>2 DEF ObjectInv, ObjectsAreReachable
  <1>. QED
    BY <1>2, <1>3, <1>4, <1>5, <1>6, <1>7, <1>8, <1>9, <1>10, <1>11 DEF IInv

LEMMA CloseObjectStep ==
    ASSUME IInv, NEW t \in Threads, CloseObject(t)
    PROVE  IInv'
  <1>. USE HandleFacts, DriverHandlesAssumption DEF CloseObject
  <1>1. /\ TypeOK /\ pc[t] = "close"
        /\ Goto(t, "remove", pdrvObj[t], handle[t])
        /\ pdrvObj[t] \in Objects \cup {NULL} /\ handle[t] \in Handles \cup {NoHandle}
    BY DEF IInv, Returns, TypeOK
  <1>12. UNCHANGED <<object, held, m_socketcanArray, m_drvobjMutex>>
    OBVIOUS
  <1>13. /\ handle[t] \in Handles /\ held[handle[t]] = {}
         /\ pdrvObj[t] = Slot(handle[t]) /\ pdrvObj[t] \in Objects
    BY <1>1 DEF IInv, CloserInv, Closing
  <1>14. \A h \in Handles \ {handle[t]} : Slot(h) # pdrvObj[t]
    BY <1>13 DEF IInv, Injective, Slot
  <1>2. TypeOK'
    <2>1. /\ pc' \in [Threads -> Labels] /\ pdrvObj' \in [Threads -> Objects \cup {NULL}]
          /\ handle' \in [Threads -> Handles \cup {NoHandle}]
      BY <1>1, GotoTypes DEF Labels, Opening, Closing
    <2>. QED
      BY <1>1, <2>1 DEF TypeOK, Labels, Opening, Closing
  <1>3. MutexOwner'
    BY <1>1, GotoFacts DEF MutexOwner, IInv
  <1>4. ASSUME NEW u \in Threads PROVE OpenerInv(u)'
    BY <1>1, GotoFacts DEF OpenerInv, UserInv, CloserInv, IdleInv, Opening, Closing, IInv, Slot
  <1>5. ASSUME NEW u \in Threads PROVE UserInv(u)'
    BY <1>1, GotoFacts DEF OpenerInv, UserInv, CloserInv, IdleInv, Opening, Closing, IInv, Slot
  <1>6. ASSUME NEW u \in Threads PROVE CloserInv(u)'
    BY <1>1, GotoFacts DEF OpenerInv, UserInv, CloserInv, IdleInv, Opening, Closing, IInv, Slot
  <1>7. ASSUME NEW u \in Threads PROVE IdleInv(u)'
    BY <1>1, GotoFacts DEF IdleInv, IInv
  <1>8. ASSUME NEW h \in Handles PROVE HeldInv(h)'
    <2>1. CASE h = handle[t]
      BY <1>12, <1>13, <2>1 DEF HeldInv
    <2>2. CASE h # handle[t]
      <3>1. HeldInv(h) /\ Slot(h) # pdrvObj[t] /\ Slot(h)' = Slot(h)
        BY <1>12, <1>14, <2>2 DEF IInv, Slot
      <3>. QED
        BY <1>12, <3>1 DEF HeldInv
    <2>. QED
      BY <2>1, <2>2
  <1>9. ASSUME NEW h \in Handles PROVE SlotInv(h)'
    BY <1>1, GotoFacts DEF SlotInv, IInv, Slot, Opening, Closing
  <1>10. Injective'
    BY <1>1, GotoFacts DEF Injective, IInv, OpenerInv, Opening, Slot
  <1>11. ObjectInv'
    BY <1>1, GotoFacts DEF ObjectInv, ObjectsAreReachable, IInv, OpenerInv, CloserInv, Opening, Closing
  <1>. QED
    BY <1>2, <1>3, <1>4, <1>5, <1>6, <1>7, <1>8, <1>9, <1>10, <1>11 DEF IInv

LEMMA DeleteObjectStep ==
    ASSUME IInv, NEW t \in Threads, DeleteObject(t)
    PROVE  IInv'
  <1>. USE HandleFacts, DriverHandlesAssumption DEF DeleteObject, Destructor, ClosesFirst, MutexIsFree
  <1>1. /\ TypeOK /\ pc[t] = "remove"
        /\ Goto(t, "clear", NULL, handle[t])
        /\ NULL \in Objects \cup {NULL} /\ handle[t] \in Handles \cup {NoHandle}
    BY DEF IInv, Returns, TypeOK
  <1>. DEFINE k == handle[t]  o == Slot(k)
  <1>12. /\ k \in Handles /\ held[k] = {} /\ o \in Objects /\ o = pdrvObj[t]
         /\ o # NULL /\ o \notin working /\ \A u \in Threads : handle[u] = k => u = t
    BY <1>1 DEF IInv, CloserInv, Closing
  <1>13. /\ object'[o] = "deleted" /\ \A p \in Objects \ {o} : object'[p] = object[p]
         /\ working' = working /\ UNCHANGED <<held, m_socketcanArray>>
         /\ m_drvobjMutex' = t
    BY <1>1, <1>12 DEF TypeOK
  <1>14. \A h \in Handles \ {k} : Slot(h) # o
    BY <1>12 DEF IInv, Injective, Slot
  <1>15. \A u \in Threads \ {t} : pdrvObj[u] # o
    <2>. SUFFICES ASSUME NEW u \in Threads \ {t}, pdrvObj[u] = o PROVE FALSE
      OBVIOUS
    <2>1. pc[u] \notin Opening
      BY <1>12 DEF IInv, OpenerInv, Slot
    <2>. QED
      BY <1>12, <1>14, <2>1, WhoHas
  <1>2. TypeOK'
    <2>1. /\ pc' \in [Threads -> Labels] /\ pdrvObj' \in [Threads -> Objects \cup {NULL}]
          /\ handle' \in [Threads -> Handles \cup {NoHandle}]
      BY <1>1, GotoTypes DEF Labels, Opening, Closing
    <2>. QED
      BY <1>1, <2>1 DEF TypeOK, Labels, Opening, Closing, objectVars, Slot
  <1>3. MutexOwner'
    BY <1>1, GotoFacts DEF MutexOwner, IInv
  <1>4. ASSUME NEW u \in Threads PROVE OpenerInv(u)'
    <2>1. CASE u = t
      BY <1>1, <2>1, GotoFacts DEF OpenerInv, Opening
    <2>2. CASE u # t /\ pc[u] \in Opening
      <3>1. OpenerInv(u) /\ pdrvObj[u] # o /\ pdrvObj[u] \in Objects
        BY <1>15, <2>2 DEF IInv, OpenerInv
      <3>. QED
        BY <1>1, <1>13, <2>2, <3>1, GotoFacts DEF OpenerInv, Slot
    <2>3. CASE u # t /\ pc[u] \notin Opening
      BY <1>1, <2>3, GotoFacts DEF OpenerInv
    <2>. QED
      BY <2>1, <2>2, <2>3
  <1>5. ASSUME NEW u \in Threads PROVE UserInv(u)'
    BY <1>1, GotoFacts DEF OpenerInv, UserInv, CloserInv, IdleInv, Opening, Closing, IInv, Slot
  <1>6. ASSUME NEW u \in Threads PROVE CloserInv(u)'
    <2>1. CASE u = t
      BY <1>1, <1>12, <1>13, <2>1, GotoFacts DEF CloserInv, Closing, Slot
    <2>2. CASE u # t /\ pc[u] \in Closing
      <3>1. CloserInv(u) /\ handle[u] \in Handles /\ handle[u] # k /\ Slot(handle[u]) # o
        BY <1>12, <1>14, <2>2 DEF IInv, CloserInv
      <3>2. /\ pc'[u] = pc[u] /\ pdrvObj'[u] = pdrvObj[u]
            /\ \A v \in Threads : handle'[v] = handle[v]
        BY <1>1, <2>2, GotoFacts
      <3>3. Slot(handle[u])' = Slot(handle[u])
        BY <1>13, <3>2 DEF Slot
      <3>. QED
        BY <1>13, <1>15, <2>2, <3>1, <3>2, <3>3 DEF CloserInv
    <2>3. CASE u # t /\ pc[u] \notin Closing
      BY <1>1, <2>3, GotoFacts DEF CloserInv
    <2>. QED
      BY <2>1, <2>2, <2>3
  <1>7. ASSUME NEW u \in Threads PROVE IdleInv(u)'
    BY <1>1, GotoFacts DEF IdleInv, IInv
  <1>8. ASSUME NEW h \in Handles PROVE HeldInv(h)'
    <2>1. CASE h = k
      BY <1>12, <1>13, <2>1 DEF HeldInv
    <2>2. CASE h # k
      <3>1. HeldInv(h) /\ Slot(h) # o /\ Slot(h)' = Slot(h) /\ held[h] \subseteq Objects
        BY <1>1, <1>13, <1>14, <2>2 DEF IInv, Slot, TypeOK
      <3>. QED
        BY <1>13, <3>1 DEF HeldInv
    <2>. QED
      BY <2>1, <2>2
  <1>9. ASSUME NEW h \in Handles PROVE SlotInv(h)'
    BY <1>1, GotoFacts DEF SlotInv, IInv, Slot, Opening, Closing
  <1>10. Injective'
    BY <1>1, GotoFacts DEF Injective, IInv, OpenerInv, Opening, Slot
  <1>11. ObjectInv'
    <2>1. \A p \in working' : object'[p] = "made"
      BY <1>12, <1>13 DEF IInv, TypeOK, ObjectInv
    <2>2. ASSUME NEW p \in Objects, object'[p] = "made"
          PROVE  \/ \E h \in Handles : p \in held'[h]
                 \/ \E u \in Threads : pdrvObj'[u] = p
      <3>1. object[p] = "made"
        BY <2>2, <1>12, <1>13
      <3>2. CASE \E h \in Handles : p \in held[h]
        BY <3>2, <1>12, <1>13
      <3>3. CASE \E u \in Threads : pdrvObj[u] = p
        <4>1. PICK u \in Threads : pdrvObj[u] = p
          BY <3>3
        <4>2. CASE u # t
          BY <1>1, <4>1, <4>2, GotoFacts
        <4>3. CASE u = t
          BY <1>1, <2>2, <4>1, <4>3, GotoFacts, <1>12, <1>13
        <4>. QED
          BY <4>2, <4>3
      <3>. QED
        BY <3>1, <3>2, <3>3 DEF IInv, ObjectInv, ObjectsAreReachable
    <2>. QED
      BY <2>1, <2>2 DEF ObjectInv, ObjectsAreReachable
  <1>. QED
    BY <1>2, <1>3, <1>4, <1>5, <1>6, <1>7, <1>8, <1>9, <1>10, <1>11 DEF IInv

LEMMA ClearSlotStep ==
    ASSUME IInv, NEW t \in Threads, ClearSlot(t)
    PROVE  IInv'
  <1>. USE HandleFacts, DriverHandlesAssumption DEF ClearSlot, SlotCleared
  <1>1. /\ TypeOK /\ pc[t] = "clear"
        /\ Goto(t, "idle", NULL, NoHandle)
        /\ NULL \in Objects \cup {NULL} /\ NoHandle \in Handles \cup {NoHandle}
    BY DEF IInv, Returns, TypeOK
  <1>12. PICK k \in Handles :
         /\ k = handle[t] /\ held[k] = {} /\ Slot(k) \in Objects /\ Slot(k) # NULL
         /\ \A u \in Threads : handle[u] = k => u = t
    BY <1>1 DEF IInv, CloserInv, Closing
  <1>13. /\ Slot(k)' = NULL /\ \A h \in Handles \ {k} : Slot(h)' = Slot(h)
         /\ m_socketcanArray'[Index(k)] = NULL
         /\ \A i \in Slots \ {Index(k)} : m_socketcanArray'[i] = m_socketcanArray[i]
         /\ UNCHANGED <<object, working, held>>
    BY <1>1, <1>12 DEF TypeOK, Slot, objectVars
  <1>2. TypeOK'
    <2>1. /\ pc' \in [Threads -> Labels] /\ pdrvObj' \in [Threads -> Objects \cup {NULL}]
          /\ handle' \in [Threads -> Handles \cup {NoHandle}]
      BY <1>1, GotoTypes DEF Labels, Opening, Closing
    <2>2. m_socketcanArray' \in [Slots -> Objects \cup {NULL}]
      BY <1>1, <1>12 DEF TypeOK
    <2>. QED
      BY <1>1, <1>13, <2>1, <2>2 DEF TypeOK, Labels, Opening, Closing
  <1>3. MutexOwner'
    BY <1>1, GotoFacts DEF MutexOwner, IInv
  <1>4. ASSUME NEW u \in Threads PROVE OpenerInv(u)'
    <2>1. CASE u = t
      BY <1>1, <2>1, GotoFacts DEF OpenerInv, Opening
    <2>2. CASE u # t /\ pc[u] \in Opening
      <3>1. OpenerInv(u) /\ pdrvObj[u] # NULL /\ handle[u] # k
        BY <1>12, <2>2 DEF IInv, OpenerInv
      <3>2. /\ pc'[u] = pc[u] /\ pdrvObj'[u] = pdrvObj[u] /\ handle'[u] = handle[u]
            /\ pdrvObj'[t] = NULL
            /\ \A v \in Threads \ {t} : pdrvObj'[v] = pdrvObj[v]
        BY <1>1, <2>2, GotoFacts
      <3>3. handle[u] \in Handles => m_socketcanArray'[Index(handle[u])] = Slot(handle[u])
        BY <1>13, <3>1 DEF Slot
      <3>4. \A i \in Slots : m_socketcanArray[i] # pdrvObj[u] => m_socketcanArray'[i] # pdrvObj[u]
        BY <1>13, <3>1
      <3>. QED
        BY <1>13, <2>2, <3>1, <3>2, <3>3, <3>4 DEF OpenerInv, Slot
    <2>3. CASE u # t /\ pc[u] \notin Opening
      BY <1>1, <2>3, GotoFacts DEF OpenerInv
    <2>. QED
      BY <2>1, <2>2, <2>3
  <1>5. ASSUME NEW u \in Threads PROVE UserInv(u)'
    BY <1>1, GotoFacts DEF OpenerInv, UserInv, CloserInv, IdleInv, Opening, Closing, IInv, Slot
  <1>6. ASSUME NEW u \in Threads PROVE CloserInv(u)'
    <2>1. CASE u = t
      BY <1>1, <2>1, GotoFacts DEF CloserInv, Closing
    <2>2. CASE u # t /\ pc[u] \in Closing
      <3>1. CloserInv(u) /\ handle[u] \in Handles /\ handle[u] # k
        BY <1>12, <2>2 DEF IInv, CloserInv
      <3>2. /\ pc'[u] = pc[u] /\ pdrvObj'[u] = pdrvObj[u] /\ handle'[u] = handle[u]
            /\ handle'[t] = NoHandle
            /\ \A v \in Threads \ {t} : handle'[v] = handle[v]
        BY <1>1, <2>2, GotoFacts
      <3>3. m_socketcanArray'[Index(handle[u])] = Slot(handle[u])
        BY <1>13, <3>1, <3>2 DEF Slot
      <3>. QED
        BY <1>13, <2>2, <3>1, <3>2, <3>3 DEF CloserInv, Slot
    <2>3. CASE u # t /\ pc[u] \notin Closing
      BY <1>1, <2>3, GotoFacts DEF CloserInv
    <2>. QED
      BY <2>1, <2>2, <2>3
  <1>7. ASSUME NEW u \in Threads PROVE IdleInv(u)'
    BY <1>1, GotoFacts DEF IdleInv, IInv
  <1>8. ASSUME NEW h \in Handles PROVE HeldInv(h)'
    BY <1>12, <1>13 DEF HeldInv, IInv
  <1>9. ASSUME NEW h \in Handles PROVE SlotInv(h)'
    <2>1. CASE h = k
      BY <1>13, <2>1 DEF SlotInv
    <2>2. CASE h # k
      <3>1. SlotInv(h) /\ Slot(h)' = Slot(h) /\ held'[h] = held[h]
        BY <1>13, <2>2 DEF IInv
      <3>2. \A u \in Threads : handle[u] = h =>
                pc'[u] = pc[u] /\ handle'[u] = handle[u]
        BY <1>1, <1>12, <2>2, GotoFacts
      <3>. QED
        BY <3>1, <3>2 DEF SlotInv
    <2>. QED
      BY <2>1, <2>2
  <1>10. Injective'
    BY <1>13 DEF Injective, IInv
  <1>11. ObjectInv'
    BY <1>1, <1>13, GotoFacts DEF ObjectInv, ObjectsAreReachable, IInv, CloserInv, Closing
  <1>. QED
    BY <1>2, <1>3, <1>4, <1>5, <1>6, <1>7, <1>8, <1>9, <1>10, <1>11 DEF IInv

\* Everything that the invariant speaks of is as it was.
LEMMA SameStep ==
    ASSUME IInv, theApp' \in BOOLEAN,
           UNCHANGED <<m_socketcanArray, m_drvobjMutex, objectVars, callVars, held>>
    PROVE  IInv'
  <1>. USE DEF objectVars, callVars
  <1>1. TypeOK' /\ MutexOwner'
    BY DEF IInv, TypeOK, MutexOwner
  <1>2. ASSUME NEW t \in Threads
        PROVE  OpenerInv(t)' /\ UserInv(t)' /\ CloserInv(t)' /\ IdleInv(t)'
    BY DEF IInv, OpenerInv, UserInv, CloserInv, IdleInv, Opening, Closing, Slot
  <1>3. ASSUME NEW h \in Handles PROVE HeldInv(h)' /\ SlotInv(h)'
    BY DEF IInv, HeldInv, SlotInv, Closing, Slot
  <1>4. Injective' /\ ObjectInv'
    BY DEF IInv, Injective, ObjectInv, ObjectsAreReachable
  <1>. QED
    BY <1>1, <1>2, <1>3, <1>4 DEF IInv

\* The slot found is nobody else's: it is empty, and one in use is not.
LEMMA FindSlotStep ==
    ASSUME IInv, NEW t \in Threads, FindSlot(t)
    PROVE  IInv'
  <1>. USE HandleFacts, DriverHandlesAssumption DEF FindSlot
  <1>1. PICK label \in {"store", "destroy"}, k \in Handles \cup {NoHandle} :
            /\ Goto(t, label, pdrvObj[t], k)
            /\ label = "store" => k \in Handles /\ Slot(k) = NULL /\ m_drvobjMutex' = t
            /\ label = "destroy" => k = NoHandle /\ m_drvobjMutex' = NULL
    BY DEF FreeSlots, HandleOf, LeavesMutex, Slot
  <1>2. /\ TypeOK /\ pc[t] = "find" /\ pdrvObj[t] \in Objects \cup {NULL}
        /\ m_drvobjMutex = NULL /\ OpenerInv(t)
        /\ UNCHANGED <<m_socketcanArray, object, working, held, theApp>>
    BY DEF IInv, TypeOK, MutexIsFree, objectVars
  <1>3. /\ pc'[t] = label /\ handle'[t] = k /\ \A u \in Threads : pdrvObj'[u] = pdrvObj[u]
        /\ \A u \in Threads \ {t} : pc'[u] = pc[u] /\ handle'[u] = handle[u]
    BY <1>1, <1>2, GotoFacts
  <1>4. TypeOK'
    <2>1. /\ pc' \in [Threads -> Labels] /\ pdrvObj' \in [Threads -> Objects \cup {NULL}]
          /\ handle' \in [Threads -> Handles \cup {NoHandle}]
      BY <1>1, <1>2, GotoTypes DEF Labels, Opening, Closing
    <2>. QED
      BY <1>1, <1>2, <2>1 DEF TypeOK, Labels, Opening, Closing
  <1>5. MutexOwner'
    BY <1>1, <1>2, <1>3 DEF MutexOwner, IInv
  <1>6. ASSUME NEW u \in Threads PROVE OpenerInv(u)'
    <2>1. CASE u = t
      <3>1. pdrvObj[t] \in working /\ pc[t] \in Opening
        BY <1>2 DEF OpenerInv, Opening
      <3>. QED
        BY <1>1, <1>2, <1>3, <2>1, <3>1 DEF OpenerInv, Opening, Slot
    <2>2. CASE u # t
      BY <1>2, <1>3, <2>2 DEF IInv, OpenerInv, Slot
    <2>. QED
      BY <2>1, <2>2
  <1>7. ASSUME NEW u \in Threads PROVE UserInv(u)' /\ IdleInv(u)'
    BY <1>1, <1>2, <1>3 DEF IInv, UserInv, IdleInv
  <1>8. ASSUME NEW u \in Threads PROVE CloserInv(u)'
    <2>1. CASE u = t
      BY <1>1, <1>3, <2>1 DEF CloserInv, Closing
    <2>2. CASE u # t /\ pc[u] \in Closing
      <3>1. CloserInv(u) /\ handle[u] \in Handles /\ handle[u] # k
        BY <1>1, <2>2 DEF IInv, CloserInv
      <3>. QED
        BY <1>2, <1>3, <2>2, <3>1 DEF CloserInv, Slot
    <2>3. CASE u # t /\ pc[u] \notin Closing
      BY <1>3, <2>3 DEF CloserInv
    <2>. QED
      BY <2>1, <2>2, <2>3
  <1>9. ASSUME NEW h \in Handles PROVE HeldInv(h)'
    BY <1>2 DEF IInv, HeldInv, Slot
  <1>10. ASSUME NEW h \in Handles PROVE SlotInv(h)'
    BY <1>2, <1>3 DEF IInv, SlotInv, Slot, Closing
  <1>11. Injective' /\ ObjectInv'
    BY <1>2, <1>3 DEF IInv, Injective, ObjectInv, ObjectsAreReachable
  <1>. QED
    BY <1>4, <1>5, <1>6, <1>7, <1>8, <1>9, <1>10, <1>11 DEF IInv

\* A handle in use leads to an object that no thread is opening, and to a slot
\* that no thread is about to empty.
LEMMA UsableFacts ==
    ASSUME IInv, NEW h \in Handles, Usable(h)
    PROVE  /\ Slot(h) \in Objects /\ held[h] = {Slot(h)} /\ object[Slot(h)] = "made"
           /\ \A u \in Threads : pc[u] \in Opening => pdrvObj[u] # Slot(h)
           /\ \A u \in Threads : pc[u] \in Closing => handle[u] # h
  <1>1. PICK o \in Objects : o \in held[h]
    BY HandleFacts DEF Usable, IInv, TypeOK
  <1>2. held[h] = {o} /\ Slot(h) = o /\ object[o] = "made"
    BY <1>1 DEF IInv, HeldInv
  <1>3. \A u \in Threads : pc[u] \in Opening => pdrvObj[u] # Slot(h)
    BY HandleFacts DEF IInv, OpenerInv, Slot
  <1>4. \A u \in Threads : pc[u] \in Closing => handle[u] # h
    BY <1>1 DEF IInv, CloserInv
  <1>. QED
    BY <1>2, <1>3, <1>4

LEMMA CallStep ==
    ASSUME IInv, NEW t \in Threads, NEW h \in Handles \cup {NoHandle}, Call(t, h)
    PROVE  IInv'
  <1>. USE HandleFacts, DriverHandlesAssumption
  <1>1. CASE getDriverObject(h) = NULL
    <2>1. theApp' \in BOOLEAN
      BY DEF Call, IInv, TypeOK
    <2>. QED
      BY <1>1, <2>1, SameStep DEF Call
  <1>2. CASE getDriverObject(h) # NULL
    <2>. DEFINE o == Slot(h)
    <2>1. /\ TypeOK /\ pc[t] = "idle" /\ h \in Handles /\ Usable(h)
          /\ Goto(t, "call", o, h)
          /\ UNCHANGED <<m_socketcanArray, m_drvobjMutex, object, working, held, theApp>>
      BY <1>2 DEF Call, IInv, objectVars
    <2>2. /\ o \in Objects /\ held[h] = {o}
          /\ \A u \in Threads : pc[u] \in Opening => pdrvObj[u] # o
          /\ \A u \in Threads : pc[u] \in Closing => handle[u] # h
      BY <2>1, UsableFacts
    <2>3. /\ pc'[t] = "call" /\ pdrvObj'[t] = o /\ handle'[t] = h /\ pdrvObj[t] = NULL
          /\ \A u \in Threads \ {t} :
                pc'[u] = pc[u] /\ pdrvObj'[u] = pdrvObj[u] /\ handle'[u] = handle[u]
      BY <2>1, GotoFacts DEF IInv, IdleInv
    <2>. HIDE DEF o
    <2>4. TypeOK'
      <3>1. /\ pc' \in [Threads -> Labels] /\ pdrvObj' \in [Threads -> Objects \cup {NULL}]
            /\ handle' \in [Threads -> Handles \cup {NoHandle}]
        BY <2>1, <2>2, GotoTypes DEF Labels, Opening, Closing
      <3>. QED
        BY <2>1, <3>1 DEF TypeOK, Labels, Opening, Closing
    <2>5. MutexOwner'
      BY <2>1, <2>3 DEF MutexOwner, IInv
    <2>6. ASSUME NEW u \in Threads PROVE OpenerInv(u)'
      <3>1. CASE u = t
        BY <2>3, <3>1 DEF OpenerInv, Opening
      <3>2. CASE u # t
        BY <2>1, <2>2, <2>3, <3>2 DEF IInv, OpenerInv, Slot
      <3>. QED
        BY <3>1, <3>2
    <2>7. ASSUME NEW u \in Threads PROVE UserInv(u)' /\ IdleInv(u)'
      BY <2>1, <2>2, <2>3 DEF IInv, UserInv, IdleInv
    <2>8. ASSUME NEW u \in Threads PROVE CloserInv(u)'
      <3>1. CASE u = t
        BY <2>3, <3>1 DEF CloserInv, Closing
      <3>2. CASE u # t
        BY <2>1, <2>2, <2>3, <3>2 DEF IInv, CloserInv, Slot
      <3>. QED
        BY <3>1, <3>2
    <2>9. ASSUME NEW k \in Handles PROVE HeldInv(k)'
      BY <2>1 DEF IInv, HeldInv, Slot
    <2>10. ASSUME NEW k \in Handles PROVE SlotInv(k)'
      BY <2>1, <2>3 DEF IInv, SlotInv, Slot, Closing
    <2>11. Injective' /\ ObjectInv'
      BY <2>1, <2>2, <2>3 DEF IInv, Injective, ObjectInv, ObjectsAreReachable
    <2>. QED
      BY <2>4, <2>5, <2>6, <2>7, <2>8, <2>9, <2>10, <2>11 DEF IInv
  <1>. QED
    BY <1>1, <1>2

LEMMA CloseCallStep ==
    ASSUME IInv, NEW t \in Threads, NEW h \in Handles \cup {NoHandle}, CloseCall(t, h)
    PROVE  IInv'
  <1>. USE HandleFacts, DriverHandlesAssumption
  <1>1. CASE h = NoHandle
    <2>1. theApp' \in BOOLEAN
      BY DEF CloseCall, IInv, TypeOK
    <2>. QED
      BY <1>1, <2>1, SameStep DEF CloseCall
  <1>2. CASE h \in Handles
    <2>. DEFINE o == Slot(h)
    <2>1. /\ o \in Objects /\ held[h] = {o} /\ object[o] = "made" /\ o # NULL
          /\ \A u \in Threads : pc[u] \in Opening => pdrvObj[u] # o
          /\ \A u \in Threads : pc[u] \in Closing => handle[u] # h
      BY <1>2, UsableFacts DEF CloseCall
    <2>2. /\ TypeOK /\ pc[t] = "idle" /\ Goto(t, "close", o, h)
          /\ held' = [held EXCEPT ![h] = {}]
          /\ UNCHANGED <<m_socketcanArray, m_drvobjMutex, object, working, theApp>>
      BY <1>2, <2>1 DEF CloseCall, IInv, objectVars
    <2>3. \A u \in Threads : handle[u] # h
      BY <1>2 DEF CloseCall, InCall, IInv, IdleInv
    <2>4. /\ pc'[t] = "close" /\ pdrvObj'[t] = o /\ handle'[t] = h /\ pdrvObj[t] = NULL
          /\ \A u \in Threads \ {t} :
                pc'[u] = pc[u] /\ pdrvObj'[u] = pdrvObj[u] /\ handle'[u] = handle[u]
          /\ held'[h] = {} /\ \A k \in Handles \ {h} : held'[k] = held[k]
      BY <1>2, <2>2, GotoFacts DEF IInv, IdleInv, TypeOK
    <2>5. Slot(h) = o
      OBVIOUS
    <2>. HIDE DEF o
    <2>6. TypeOK'
      <3>1. /\ pc' \in [Threads -> Labels] /\ pdrvObj' \in [Threads -> Objects \cup {NULL}]
            /\ handle' \in [Threads -> Handles \cup {NoHandle}]
        BY <2>1, <2>2, GotoTypes DEF Labels, Opening, Closing
      <3>. QED
        BY <2>2, <3>1 DEF TypeOK, Labels, Opening, Closing
    <2>7. MutexOwner'
      BY <2>2, <2>4 DEF MutexOwner, IInv
    <2>8. ASSUME NEW u \in Threads PROVE OpenerInv(u)'
      <3>1. CASE u = t
        BY <2>4, <3>1 DEF OpenerInv, Opening
      <3>2. CASE u # t
        BY <2>1, <2>2, <2>4, <3>2 DEF IInv, OpenerInv, Slot
      <3>. QED
        BY <3>1, <3>2
    <2>9. ASSUME NEW u \in Threads PROVE UserInv(u)' /\ IdleInv(u)'
      BY <2>2, <2>3, <2>4 DEF IInv, UserInv, IdleInv
    <2>10. ASSUME NEW u \in Threads PROVE CloserInv(u)'
      <3>1. CASE u = t
        BY <1>2, <2>1, <2>2, <2>3, <2>4, <2>5, <3>1 DEF CloserInv, Closing, Slot
      <3>2. CASE u # t
        BY <2>2, <2>3, <2>4, <3>2 DEF IInv, CloserInv, Slot
      <3>. QED
        BY <3>1, <3>2
    <2>11. ASSUME NEW k \in Handles PROVE HeldInv(k)'
      BY <2>2, <2>4 DEF IInv, HeldInv, Slot
    <2>12. ASSUME NEW k \in Handles PROVE SlotInv(k)'
      <3>1. CASE k = h
        BY <2>4, <3>1 DEF SlotInv, Closing
      <3>2. CASE k # h
        BY <2>2, <2>4, <3>2 DEF IInv, SlotInv, Slot, Closing
      <3>. QED
        BY <3>1, <3>2
    <2>13. Injective'
      BY <2>2 DEF IInv, Injective
    <2>14. ObjectInv'
      <3>1. \A p \in working' : object'[p] = "made"
        BY <2>2 DEF IInv, ObjectInv
      <3>2. ASSUME NEW p \in Objects, object'[p] = "made"
            PROVE  \/ \E k \in Handles : p \in held'[k]
                   \/ \E u \in Threads : pdrvObj'[u] = p
        BY <2>1, <2>2, <2>4, <3>2 DEF IInv, ObjectInv, ObjectsAreReachable
      <3>. QED
        BY <3>1, <3>2 DEF ObjectInv, ObjectsAreReachable
    <2>. QED
      BY <2>6, <2>7, <2>8, <2>9, <2>10, <2>11, <2>12, <2>13, <2>14 DEF IInv
  <1>. QED
    BY <1>1, <1>2

LEMMA ExitStep ==
    ASSUME IInv, Exit
    PROVE  IInv'
  <1>1. m_socketcanArray' = m_socketcanArray /\ object' = object /\ working' = working
    BY NothingFound DEF Exit, IInv, TypeOK
  <1>. QED
    BY <1>1, SameStep DEF Exit, objectVars

LEMMA NextInv == IInv /\ [Next]_vars => IInv'
  <1>. SUFFICES ASSUME IInv, [Next]_vars PROVE IInv'
    OBVIOUS
  <1>1. ASSUME NEW t \in Threads, NEW o \in Objects, New(t, o) PROVE IInv'
    BY <1>1, NewStep
  <1>2. ASSUME NEW t \in Threads, NEW h \in Handles \cup {NoHandle},
               Call(t, h) \/ CloseCall(t, h)
        PROVE  IInv'
    BY <1>2, CallStep, CloseCallStep
  <1>3. ASSUME NEW t \in Threads, Runs(t) PROVE IInv'
    BY <1>3, OpenSucceedsStep, OpenFailsStep, StoreObjectStep, DestroyStep,
       CallReturnsStep, CloseObjectStep, ClearSlotStep DEF Runs
  <1>4. ASSUME NEW t \in Threads, WaitsForMutex(t) PROVE IInv'
    BY <1>4, FindSlotStep, DeleteObjectStep DEF WaitsForMutex
  <1>5. CASE Exit
    BY <1>5, ExitStep
  <1>6. CASE UNCHANGED vars
    <2>1. theApp' \in BOOLEAN
      BY <1>6 DEF vars, IInv, TypeOK
    <2>. QED
      BY <1>6, <2>1, SameStep DEF vars
  <1>. QED
    BY <1>1, <1>2, <1>3, <1>4, <1>5, <1>6 DEF Next

-----------------------------------------------------------------------------

\* The inductive invariant holds in every behaviour.
THEOREM Correctness == Spec => []IInv
  BY InitInv, NextInv, PTL DEF Spec

\* Every variable keeps its type.
THEOREM TypeCorrect == Spec => []TypeOK
  <1>1. IInv => TypeOK
    BY DEF IInv
  <1>. QED
    BY <1>1, Correctness, PTL

\* No call and no worker thread uses an object that has been deleted.
THEOREM ObjectsLiveLongEnough == Spec => []NoUseAfterDelete
  <1>1. IInv => NoUseAfterDelete
    BY WhoHas DEF IInv, ObjectInv, NoUseAfterDelete
  <1>. QED
    BY <1>1, Correctness, PTL

\* A handle leads to the object of its own CanalOpen.
THEOREM HandlesAreOwn == Spec => []HandleIsOwn
  <1>1. IInv => HandleIsOwn
    BY HandleFacts DEF IInv, HeldInv, HandleIsOwn
  <1>. QED
    BY <1>1, Correctness, PTL

\* No object and no slot is lost.
THEOREM NothingLeaks == Spec => []NothingIsLost
  <1>1. IInv => ObjectsAreReachable
    BY DEF IInv, ObjectInv
  <1>2. IInv => SlotsComeBack
    BY HandleFacts DEF IInv, SlotInv, SlotsComeBack, Closing
  <1>3. IInv => NothingIsLost
    BY <1>1, <1>2 DEF NothingIsLost
  <1>. QED
    BY <1>3, Correctness, PTL
=============================================================================
