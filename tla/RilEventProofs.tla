--------------------------- MODULE RilEventProofs ---------------------------
(***************************************************************************)
(* Proofs about RilEvent: every step keeps the turn of the sockets in one  *)
(* place.  With the steps of RilEventSteps that makes IInv inductive, and  *)
(* gives the four safety invariants, that no thread keeps listMutex, and   *)
(* that the daemon never stops listening for a client it does not have.    *)
(* Then: the event loop implements the promise of EventQueue, since every  *)
(* step of it is a step of the abstract queue or changes nothing there.    *)
(***************************************************************************)
EXTENDS RilEventSteps

-----------------------------------------------------------------------------
(* Every step keeps the turn of the sockets, and the loop where it belongs. *)

\* The control invariant holds at the start.
LEMMA ControlInit == Init => Control
<1> SUFFICES ASSUME Init PROVE Control
  OBVIOUS
<1>1. Range(pending_list) = {}
  BY DEF Init, Range
<1>2. /\ index = [e \in Event |-> 0] /\ at = "pipe" /\ running = None /\ ~listMutex
      /\ fd["wakeup"] = 1 /\ fd["listen"] = 2 /\ fd["debug"] = 3 /\ fd["commands"] = 0
      /\ task = [t \in Thread |-> IF t = Main THEN Doing("addListen", "user", None) ELSE Idle]
      /\ pending_list = <<>>
  BY Zenon DEF Init
<1>3. task[Main].pc = "addListen" /\ \A t \in Thread \ {Main} : task[t] = Idle
  BY <1>2 DEF Thread, Doing
<1>4. Main \in Thread /\ Loop \in Thread /\ Main # Loop
  BY EventAssumption DEF Thread
<1>5. Position
  BY <1>2, <1>3, <1>4 DEF Position, Event
<1>6. Tasks
  BY <1>2, <1>3, <1>4 DEF Tasks, Idle, Doing, Event
<1>7. Descriptors
  BY <1>2 DEF Descriptors, Event
<1>8. OneListener /\ ListenerKept
  BY <1>1, <1>2, <1>3 DEF OneListener, ListenerKept, Pending, Runs, Event
<1>9. StillWatched /\ CommandsCurrent /\ CommandsFdCurrent
  BY <1>1, <1>2 DEF StillWatched, CommandsCurrent, CommandsFdCurrent, Pending, Runs, Event
<1> QED
  BY <1>2, <1>5, <1>6, <1>7, <1>8, <1>9 DEF Control

\* The loop moves on and nothing else does: to the next step of a round, or past a
\* callback that is not the listen event's.
Moves ==
    /\ UNCHANGED <<index, fd, listMutex, pending_list, running, broken, s_fdCommand, task>>
    /\ \/ at' = at
       \/ at \in {"copy", "select"} /\ at' \in {"copy", "select", "collect", "dead"}
       \/ at = "fire" /\ at' = "copy" /\ pending_list = <<>>
       \/ at = "run" /\ running # "listen" /\ at' = "ran"
       \/ at = "clear" /\ at' = "free"

\* The steps of the processes and of the loop that leave the lists alone keep the control invariant.
LEMMA ControlMoves ==
    ASSUME Control, Moves
    PROVE  Control'
<1>1. Descriptors' /\ ~listMutex'
  BY DEF Control, Descriptors, Moves
<1>2. Position' /\ Tasks'
  BY DEF Control, Position, Tasks, Moves
<1>3. OneListener' /\ ListenerKept'
  BY DEF Control, OneListener, ListenerKept, Position, Moves, Pending, Runs
<1>4. StillWatched' /\ CommandsCurrent'
  BY DEF Control, StillWatched, CommandsCurrent, Moves, Pending, Runs
<1>5. CommandsFdCurrent'
  BY DEF Control, CommandsFdCurrent, Moves, Runs
<1> QED
  BY <1>1, <1>2, <1>3, <1>4, <1>5 DEF Control

\* What an event that is added changes in the indices.
LEMMA AddedIndex ==
    ASSUME NEW e \in Event, TypeOK, Added(e)
    PROVE  /\ index'[e] # 0 /\ \A x \in Event \ {e} : index'[x] = index[x]
           /\ UNCHANGED <<fd, listMutex>>
<1>1. index \in [Event -> {0} \cup Slot]
  BY DEF TypeOK
<1> QED
  BY <1>1 DEF Added

\* Where the loop is, which events are watched and which calls are under way agree, after
\* every step.
LEMMA ControlStep == IInv /\ [Next]_vars => Control'
<1> SUFFICES ASSUME IInv, [Next]_vars PROVE Control'
  OBVIOUS
<1>0. Control /\ TypeOK
  BY DEF IInv, Control
<1>1. Main \in Thread /\ Loop \in Thread /\ Main # Loop /\ None \notin Info \cup Event /\ Info \cap Event = {}
  BY EventAssumption DEF Thread
<1>2. ASSUME CreatePipe PROVE Control'
  <2>1. Added("wakeup")
    BY <1>2, Adding
  <2>2. /\ index'["wakeup"] # 0 /\ \A x \in Event \ {"wakeup"} : index'[x] = index[x]
        /\ UNCHANGED <<fd, listMutex>>
    BY <1>0, <2>1, AddedIndex DEF Event
  <2>3. UNCHANGED <<pending_list, running, broken, s_fdCommand, task>> /\ at = "pipe" /\ at' = "copy"
    BY <1>2 DEF CreatePipe, world
  <2> QED
    BY <1>0, <1>1, <2>2, <2>3, ZenonT(30) DEF Control, CommandsFdCurrent, Descriptors, Position, Tasks, OneListener, ListenerKept,
       StillWatched, CommandsCurrent, Pending, Runs, Event, OneShot
<1>3. ASSUME ListenCallbackRefuses \/ Relisten PROVE Control'
  <2>1. Added("listen")
    BY <1>3, Adding
  <2>2. /\ index'["listen"] # 0 /\ \A x \in Event \ {"listen"} : index'[x] = index[x]
        /\ UNCHANGED <<fd, listMutex>>
    BY <1>0, <2>1, AddedIndex DEF Event
  <2>3. /\ UNCHANGED <<pending_list, running, broken, s_fdCommand, task>>
        /\ Runs("listen") \/ at = "relisten"
    BY <1>3 DEF ListenCallbackRefuses, Relisten, world
  <2>4. at' = "ran"
    BY <1>3 DEF ListenCallbackRefuses, Relisten
  <2> QED
    BY <1>0, <1>1, <2>2, <2>3, <2>4, Zenon DEF Control, CommandsFdCurrent, Descriptors, Position, Tasks, OneListener, ListenerKept,
       StillWatched, CommandsCurrent, Pending, Runs, Event, OneShot
<1>5. ASSUME WatchCommands PROVE Control'
  <2>1. Added("commands")
    BY <1>5, Adding
  <2>2. /\ index'["commands"] # 0 /\ \A x \in Event \ {"commands"} : index'[x] = index[x]
        /\ UNCHANGED <<fd, listMutex>>
    BY <1>0, <2>1, AddedIndex DEF Event
  <2>3. /\ UNCHANGED <<pending_list, running, broken, s_fdCommand>> /\ at = "accepted" /\ at' = "tail"
        /\ task' = [task EXCEPT ![Loop] = Doing("grabbed", "wake", None)]
    BY <1>5 DEF WatchCommands, world
  <2>4. TaskTypeOK
    BY <1>0 DEF TypeOK
  <2>5. task'[Loop].pc = "grabbed" /\ \A t \in Thread \ {Loop} : task'[t] = task[t]
    BY <1>1, <2>3, <2>4 DEF TaskTypeOK, Doing
  <2>6. Tasks' /\ Position' /\ Descriptors' /\ ~listMutex'
    BY <1>0, <1>1, <2>2, <2>3, <2>5 DEF Control, Tasks, Position, Descriptors, Event
  <2>7. OneListener' /\ ListenerKept' /\ StillWatched' /\ CommandsCurrent' /\ CommandsFdCurrent'
    BY <1>0, <1>1, <2>2, <2>3, <2>5, Zenon DEF Control, CommandsFdCurrent, Descriptors, Position, Tasks, OneListener, ListenerKept,
       StillWatched, CommandsCurrent, Pending, Runs, Event, OneShot
  <2> QED
    BY <2>6, <2>7 DEF Control
<1>6. ASSUME CommandsClosed PROVE Control'
  <2>1. Removed({"commands"})
    BY <1>6, Removing
  <2>2. /\ index'["commands"] = 0 /\ \A e \in Event \ {"commands"} : index'[e] = index[e]
        /\ fd' = fd /\ listMutex' = listMutex
    BY <2>1 DEF Removed, Event
  <2>3. running = "commands" /\ at = "run"
    BY <1>6 DEF CommandsClosed, Runs
  <2>4. /\ UNCHANGED <<pending_list, running, task>> /\ at' = "relisten" /\ broken' = FALSE
    BY <1>6 DEF CommandsClosed
  <2>5. ~Pending("commands")
    <3>1. ListByList
      BY <1>0, ListByListIs DEF IInv
    <3> QED
      BY <1>1, <2>3, <3>1 DEF ListByList, Event
  <2>6. index["commands"] # 0
    BY <1>0, <2>3 DEF Control, StillWatched, Runs, Event, OneShot
  <2>7. Descriptors' /\ Tasks' /\ ~listMutex' /\ Position'
    BY <1>0, <2>2, <2>3, <2>4 DEF Control, Descriptors, Tasks, Position, Event
  <2>8. OneListener' /\ ListenerKept'
    BY <1>0, <2>2, <2>3, <2>4, <2>6 DEF Control, OneListener, ListenerKept, Pending, Runs, Event
  <2>9. StillWatched' /\ CommandsCurrent' /\ CommandsFdCurrent'
    BY <1>0, <2>2, <2>3, <2>4, <2>5
       DEF Control, StillWatched, CommandsCurrent, CommandsFdCurrent, Pending, Runs, Event, OneShot
  <2> QED
    BY <2>7, <2>8, <2>9 DEF Control
<1>7. ASSUME NEW f \in CommandFd, ListenCallbackAccepts(f) PROVE Control'
  <2>1. /\ UNCHANGED <<pending_list, running, task, listMutex>> /\ at' = "accepted" /\ broken' = FALSE
        /\ s_fdCommand' = f /\ Runs("listen")
    BY <1>7 DEF ListenCallbackAccepts
  <2>2. /\ index'["commands"] = 0 /\ \A e \in Event \ {"commands"} : index'[e] = index[e]
        /\ fd'["commands"] = f /\ \A e \in Event \ {"commands"} : fd'[e] = fd[e]
    BY <1>0, <1>7, Zenon DEF ListenCallbackAccepts, TypeOK, Event
  <2>3. Descriptors' /\ Tasks' /\ Position' /\ ~listMutex'
    BY <1>0, <1>1, <2>1, <2>2, ZenonT(30) DEF Control, Descriptors, Tasks, Position, Runs, Event
  <2>4. OneListener' /\ ListenerKept' /\ StillWatched' /\ CommandsCurrent' /\ CommandsFdCurrent'
    BY <1>0, <2>1, <2>2
       DEF Control, OneListener, ListenerKept, StillWatched, CommandsCurrent, CommandsFdCurrent,
           Pending, Runs, Event, OneShot
  <2> QED
    BY <2>3, <2>4 DEF Control
<1>8. ASSUME RegisterAdd("listen", "addListen", "addDebug") PROVE Control'
  <2>1. Added("listen")
    BY <1>8, Adding
  <2>2. /\ index'["listen"] # 0 /\ \A x \in Event \ {"listen"} : index'[x] = index[x]
        /\ UNCHANGED <<fd, listMutex>>
    BY <1>0, <2>1, AddedIndex DEF Event
  <2>3. /\ UNCHANGED <<pending_list, running, broken, s_fdCommand, at>> /\ task[Main].pc = "addListen"
        /\ task' = [task EXCEPT ![Main].pc = "addDebug"]
    BY <1>8 DEF RegisterAdd, world
  <2>4. task'[Main].pc = "addDebug" /\ \A t \in Thread \ {Main} : task'[t] = task[t]
    BY <1>0, <1>1, <2>3, ZenonT(30) DEF TypeOK, TaskTypeOK
  <2> QED
    BY <1>0, <1>1, <2>2, <2>3, <2>4 DEF Control, CommandsFdCurrent, Descriptors, Position, Tasks, OneListener, ListenerKept,
       StillWatched, CommandsCurrent, Pending, Runs, Event, OneShot
<1>9. ASSUME RegisterAdd("debug", "addDebug", "idle") PROVE Control'
  <2>1. Added("debug")
    BY <1>9, Adding
  <2>2. /\ index'["debug"] # 0 /\ \A x \in Event \ {"debug"} : index'[x] = index[x]
        /\ UNCHANGED <<fd, listMutex>>
    BY <1>0, <2>1, AddedIndex DEF Event
  <2>3. /\ UNCHANGED <<pending_list, running, broken, s_fdCommand, at>> /\ task[Main].pc = "addDebug"
        /\ task' = [task EXCEPT ![Main].pc = "idle"]
    BY <1>9 DEF RegisterAdd, world
  <2>4. task'[Main].pc = "idle" /\ \A t \in Thread \ {Main} : task'[t] = task[t]
    BY <1>0, <1>1, <2>3 DEF TypeOK, TaskTypeOK
  <2> QED
    BY <1>0, <1>1, <2>2, <2>3, <2>4 DEF Control, CommandsFdCurrent, Descriptors, Position, Tasks, OneListener, ListenerKept,
       StillWatched, CommandsCurrent, Pending, Runs, Event, OneShot
<1>10. ASSUME PrepareSelect \/ Select \/ SelectFails \/ SelectInterrupted \/ Tick PROVE Control'
  <2>1. Moves
    BY <1>10, Zenon DEF PrepareSelect, Select, SelectFails, SelectInterrupted, Tick, Moves, table, world
  <2> QED
    BY <1>0, <2>1, ControlMoves
<1>11. ASSUME WakeupCallback \/ CommandsCallback \/ TimerCallback \/ ClearLastWake PROVE Control'
  <2>1. Moves
    BY <1>1, <1>11, Zenon
       DEF WakeupCallback, CommandsCallback, TimerCallback, ClearLastWake, Moves, Runs, table, world, Event
  <2> QED
    BY <1>0, <2>1, ControlMoves
<1>12. ASSUME DebugCallback PROVE Control'
  <2>1. /\ UNCHANGED <<index, fd, pending_list, listMutex, running, task>>
        /\ running = "debug" /\ at = "run" /\ at' = "ran"
        /\ UNCHANGED <<broken, s_fdCommand>> \/ broken' = TRUE
    BY <1>12 DEF DebugCallback, table, Runs
  <2> QED
    BY <1>0, <1>1, <2>1, Zenon DEF Control, CommandsFdCurrent, Descriptors, Position, Tasks, OneListener, ListenerKept,
       StillWatched, CommandsCurrent, Pending, Runs, Event, OneShot
<1>13. ASSUME CallbackReturns PROVE Control'
  <2>1. /\ UNCHANGED <<index, fd, pending_list, listMutex, task, broken, s_fdCommand>>
        /\ at \in {"ran", "tail"} /\ task[Loop] = Idle
        /\ \/ running \in Info /\ at' \in {"clear", "free"} /\ running' = running
           \/ running \notin Info /\ at' = "fire" /\ running' = None
    BY <1>13 DEF CallbackReturns, table, world
  <2> QED
    BY <1>0, <1>1, <2>1, Zenon DEF Control, CommandsFdCurrent, Descriptors, Position, Tasks, OneListener, ListenerKept,
       StillWatched, CommandsCurrent, Pending, Runs, Event, OneShot
<1>14. ASSUME FreeInfo PROVE Control'
  <2>1. /\ UNCHANGED <<index, fd, pending_list, listMutex, task, broken, s_fdCommand>>
        /\ at = "free" /\ at' = "fire" /\ running' = None
    BY <1>14 DEF FreeInfo, table, world
  <2> QED
    BY <1>0, <1>1, <2>1, Zenon DEF Control, CommandsFdCurrent, Descriptors, Position, Tasks, OneListener, ListenerKept,
       StillWatched, CommandsCurrent, Pending, Runs, Event, OneShot
<1>15. ASSUME Collect PROVE Control'
  <2>1. Removed(OneShot \cap Readies) /\ Readies \subseteq Watched(watch_table) /\ Readies \subseteq Event
    BY <1>15, Removing, Collecting
  <2>2. PICK n \in 0..Len(timer_list), r \in Seq(Event) : Collected(n, r)
    BY <1>15, Collecting
  <2>3. \A e \in Event : Pending(e)' <=> e \in Readies
    <3>1. Range(pending_list') = Range(SubSeq(timer_list, 1, n)) \cup Readies
      BY <2>2, CollectedLists
    <3>2. Range(SubSeq(timer_list, 1, n)) \subseteq Info
      BY <2>2, CollectedLists, RangeOfList, Zenon
    <3> QED
      BY <1>1, <3>1, <3>2 DEF Pending
  <2>4. \A e \in Readies : index[e] # 0
    BY <2>1, WatchedIndex DEF IInv
  <2>6. /\ index'["listen"] = IF "listen" \in Readies THEN 0 ELSE index["listen"]
        /\ \A e \in Event \ {"listen"} : index'[e] = index[e]
        /\ fd' = fd /\ listMutex' = listMutex
    BY <2>1 DEF Removed, Event, OneShot
  <2>7. at = "collect" /\ at' = "fire" /\ UNCHANGED <<running, task, broken, s_fdCommand>>
    BY <1>15 DEF Collect, world
  <2>8. \A e \in Event : ~Pending(e)
    <3>1. pending_list = <<>>
      BY <1>0, <2>7, SMTT(30) DEF Control, Position
    <3> QED
      BY <3>1 DEF Pending, Range
  <2>9. Position' /\ Tasks' /\ Descriptors' /\ ~listMutex'
    <3>1. index'["wakeup"] = index["wakeup"] /\ index'["debug"] = index["debug"]
          /\ index'["commands"] = index["commands"]
      BY <2>6 DEF Event
    <3>2. Position'
      BY <1>0, <2>7, <3>1, Zenon DEF Control, Position
    <3>3. Tasks' /\ Descriptors' /\ ~listMutex'
      BY <1>0, <2>6, <2>7, <3>1, Zenon DEF Control, Tasks, Descriptors
    <3> QED
      BY <3>2, <3>3
  <2>10. OneListener' /\ ListenerKept'
    BY <1>0, <2>3, <2>4, <2>6, <2>7, <2>8 DEF Control, OneListener, ListenerKept, Runs, Event
  <2>11. StillWatched' /\ CommandsCurrent' /\ CommandsFdCurrent'
    BY <1>0, <2>3, <2>4, <2>6, <2>7
       DEF Control, StillWatched, CommandsCurrent, CommandsFdCurrent, Runs, Event, OneShot
  <2> QED
    BY <2>9, <2>10, <2>11 DEF Control
<1>16. ASSUME FirePending PROVE Control'
  <2>1. /\ UNCHANGED <<index, fd, listMutex, task, broken, s_fdCommand>> /\ at = "fire"
    BY <1>16 DEF FirePending, table, world
  <2>2. CASE pending_list = <<>>
    <3>1. Moves
      BY <1>16, <2>1, <2>2 DEF FirePending, Moves
    <3> QED
      BY <1>0, <3>1, ControlMoves
  <2>3. CASE pending_list # <<>>
    <3>1. running' = Head(pending_list) /\ pending_list' = Tail(pending_list) /\ at' = "run"
      BY <1>16, <2>3 DEF FirePending
    <3>2. pending_list \in Seq(Info \cup Event) /\ Distinct(pending_list)
      BY <1>0, ListByListIs, Zenon DEF TypeOK, IInv, ListByList
    <3>3. /\ running' \in Info \cup Event /\ running' \notin Range(pending_list')
          /\ Range(pending_list) = {running'} \cup Range(pending_list')
      BY <2>3, <3>1, <3>2, PopSeq
    <3>4. \A e \in Event : Pending(e) <=> running' = e \/ Pending(e)'
      BY <3>3 DEF Pending
    <3>5. \A e \in Event : running' = e => ~Pending(e)'
      BY <3>3, SMTT(30) DEF Pending
    <3>6. Position' /\ Tasks' /\ Descriptors' /\ ~listMutex'
      BY <1>0, <1>1, <2>1, <3>1, <3>3 DEF Control, Position, Tasks, Descriptors, Event
    <3>7. OneListener' /\ ListenerKept'
      BY <1>0, <2>1, <3>1, <3>4, <3>5, Zenon DEF Control, OneListener, ListenerKept, Runs, Event
    <3>8. StillWatched' /\ CommandsCurrent' /\ CommandsFdCurrent'
      BY <1>0, <2>1, <3>1, <3>4
         DEF Control, StillWatched, CommandsCurrent, CommandsFdCurrent, Runs, Event, OneShot
    <3> QED
      BY <3>6, <3>7, <3>8 DEF Control
  <2> QED
    BY <2>2, <2>3
<1>17. ASSUME NEW t \in Thread, RequestTimedCallback(t) \/ OnUnsolicitedResponse(t) PROVE Control'
  <2>1. PICK pc \in {"schedule", "grabbed"}, cb \in {"user", "wake"} : Start(t, Doing(pc, cb, None))
    BY <1>17 DEF RequestTimedCallback, OnUnsolicitedResponse
  <2>2. UNCHANGED <<index, fd, listMutex, pending_list, running, broken, s_fdCommand>>
    BY <1>17 DEF RequestTimedCallback, OnUnsolicitedResponse, table, world
  <2>3. /\ t # Main /\ task' = [task EXCEPT ![t] = Doing(pc, cb, None)]
        /\ at' = IF t = Loop THEN "tail" ELSE at
        /\ t = Loop => at = "ran"
    BY <2>1, SMTT(30) DEF Start, CanStart
  <2>4. task'[t].pc = pc /\ \A u \in Thread \ {t} : task'[u] = task[u]
    <3>1. TaskTypeOK
      BY <1>0, TypeParts
    <3>2. task'[t] = Doing(pc, cb, None) /\ \A u \in Thread \ {t} : task'[u] = task[u]
      BY <2>3, <3>1, Zenon DEF TaskTypeOK
    <3> QED
      BY <3>2 DEF Doing
  <2>5. Tasks' /\ Position' /\ Descriptors' /\ ~listMutex'
    BY <1>0, <1>1, <2>2, <2>3, <2>4 DEF Control, Tasks, Position, Descriptors, Event
  <2>6. OneListener' /\ ListenerKept' /\ StillWatched' /\ CommandsCurrent' /\ CommandsFdCurrent'
    BY <1>0, <1>1, <2>2, <2>3, <2>4, ZenonT(30) DEF Control, CommandsFdCurrent, Descriptors, Position, Tasks, OneListener, ListenerKept,
       StillWatched, CommandsCurrent, Pending, Runs, Event, OneShot
  <2> QED
    BY <2>5, <2>6 DEF Control
<1>18. ASSUME NEW t \in Thread,
              \/ ErrorExit(t) \/ SendAndCheck(t) \/ CancelPrevious(t) \/ StoreLastWake(t)
              \/ (ReadAgain(t) /\ s_last_wake_timeout_info # None)
              \/ \E i \in Info, d \in 0..MaxDelay : Schedule(t, i, d)
       PROVE  Control'
  <2>1. /\ task[t].pc \in {"grabbed", "reload", "cancel", "store", "schedule"}
        /\ UNCHANGED <<index, fd, listMutex, pending_list, running, s_fdCommand, at>>
        /\ broken => broken'
    <3>1. CASE ErrorExit(t) \/ CancelPrevious(t) \/ StoreLastWake(t)
      BY <3>1 DEF ErrorExit, CancelPrevious, StoreLastWake, table, world
    <3>2. CASE SendAndCheck(t)
      BY <3>2, ZenonT(30) DEF SendAndCheck, table
    <3>3. CASE \E i \in Info, d \in 0..MaxDelay : Schedule(t, i, d)
      <4>1. ASSUME NEW i \in Info, NEW d \in 0..MaxDelay, Schedule(t, i, d)
            PROVE  /\ task[t].pc = "schedule" /\ UNCHANGED <<table, pending_list, listMutex, at, running, world>>
        BY <4>1, Zenon DEF Schedule
      <4> QED
        BY <3>3, <4>1 DEF table, world
    <3>4. CASE ReadAgain(t) /\ s_last_wake_timeout_info # None
      BY <3>4, ZenonT(30) DEF ReadAgain, table, world
    <3> QED
      BY <1>18, <3>1, <3>2, <3>3, <3>4
  <2>2. PICK pc \in {"idle", "schedule", "reload", "cancel", "store"}, cb \in {"user", "wake"}, info \in Info \cup {None} :
           /\ pc \in {"cancel", "store"} => info \in Info
           /\ task' = [task EXCEPT ![t] = Doing(pc, cb, info)]
    <3>1. ErrorExit(t) \/ StoreLastWake(t) => task' = [task EXCEPT ![t] = Doing("idle", "user", None)]
      BY DEF ErrorExit, StoreLastWake, Idle, Doing
    <3>2. CancelPrevious(t) => task' = [task EXCEPT ![t] = Doing("schedule", "wake", None)]
      BY DEF CancelPrevious
    <3>3. SendAndCheck(t) =>
            \/ task' = [task EXCEPT ![t] = Doing("schedule", "wake", None)]
            \/ /\ s_last_wake_timeout_info \in Info
               /\ task' = [task EXCEPT ![t] = Doing("cancel", "wake", s_last_wake_timeout_info)]
            \/ task' = [task EXCEPT ![t] = Doing("reload", "wake", None)]
      <4>1. s_last_wake_timeout_info \in Info \cup {None}
        BY <1>0 DEF TypeOK
      <4> QED
        BY <4>1, Zenon DEF SendAndCheck
    <3>5. ReadAgain(t) /\ s_last_wake_timeout_info # None =>
            /\ s_last_wake_timeout_info \in Info
            /\ task' = [task EXCEPT ![t] = Doing("cancel", "wake", s_last_wake_timeout_info)]
      <4>1. s_last_wake_timeout_info \in Info \cup {None}
        BY <1>0 DEF TypeOK
      <4> QED
        BY <4>1, Zenon DEF ReadAgain
    <3>4. ASSUME NEW i \in Info, NEW d \in 0..MaxDelay, Schedule(t, i, d)
          PROVE  \/ task' = [task EXCEPT ![t] = Doing("store", "wake", i)]
                 \/ task' = [task EXCEPT ![t] = Doing("idle", "user", None)]
      <4>1. task' = [task EXCEPT ![t] = IF @.cb = "wake" THEN Doing("store", "wake", i) ELSE Idle]
        BY <3>4, Zenon DEF Schedule
      <4> QED
        BY <4>1, Zenon DEF Idle, Doing
    <3> QED
      BY <1>18, <3>1, <3>2, <3>3, <3>4, <3>5
  <2>3. /\ task'[t] = Doing(pc, cb, info) /\ \A u \in Thread \ {t} : task'[u] = task[u]
    BY <1>0, <2>2, Zenon DEF TypeOK, TaskTypeOK
  <2>4. task'[t].pc = pc /\ task'[t].info = info
    BY <2>3 DEF Doing
  <2>5. t # Main /\ task[t] # Idle
    <3>1. task[Main].pc \in {"addListen", "addDebug", "idle"}
      BY <1>0, Zenon DEF Control, Tasks
    <3>2. task[t].pc \in {"grabbed", "reload", "cancel", "store", "schedule"}
      BY <2>1, Zenon
    <3>3. task[t].pc # task[Main].pc /\ task[t].pc # "idle"
      BY <3>1, <3>2, Zenon
    <3>4. Idle.pc = "idle"
      BY Zenon DEF Idle
    <3> QED
      BY <3>3, <3>4, Zenon
  <2>6. Tasks' /\ Position' /\ Descriptors' /\ ~listMutex'
    <3>1. Tasks'
      <4>1. Tasks /\ index' = index /\ Main \in Thread
        BY <1>0, <2>1 DEF Control, Thread
      <4>2. task'[Main] = task[Main]
        BY <2>3, <2>5, <4>1
      <4>3. \A u \in Thread \ {Main} : task'[u].pc \notin {"addListen", "addDebug"}
        BY <2>2, <2>3, <2>4, <4>1, Zenon DEF Tasks
      <4>4. \A u \in Thread : task'[u].pc \in {"cancel", "store"} => task'[u].info \in Info
        BY <2>2, <2>3, <2>4, <4>1, Zenon DEF Tasks
      <4> QED
        BY <4>1, <4>2, <4>3, <4>4, Zenon DEF Tasks
    <3>2. Position'
      BY <1>0, <1>1, <2>1, <2>3, <2>5, ZenonT(30) DEF Control, Position
    <3>3. Descriptors' /\ ~listMutex'
      BY <1>0, <2>1, Zenon DEF Control, Descriptors
    <3> QED
      BY <3>1, <3>2, <3>3
  <2>7. OneListener' /\ ListenerKept' /\ StillWatched'
    BY <1>0, <1>1, <2>1, <2>3, <2>5, Zenon
       DEF Control, OneListener, ListenerKept, StillWatched, Pending, Runs, Event
  <2>8. CommandsCurrent' /\ CommandsFdCurrent'
    BY <1>0, <2>1, Zenon DEF Control, CommandsCurrent, CommandsFdCurrent, Runs
  <2> QED
    BY <2>6, <2>7, <2>8, SMTT(30) DEF Control
<1>19. ASSUME NEW e \in Event, BecomeReady(e) PROVE Control'
  <2>1. Moves
    BY <1>19, ZenonT(30) DEF BecomeReady, Moves, table
  <2> QED
    BY <1>0, <2>1, ControlMoves
<1>20. CASE UNCHANGED vars
  <2>1. Moves
    BY <1>20 DEF vars, Moves, table, world
  <2> QED
    BY <1>0, <2>1, ControlMoves
<1>21. ASSUME NEW t \in Thread, ReadAgain(t), s_last_wake_timeout_info = None PROVE Control'
  <2>1. /\ UNCHANGED <<index, fd, listMutex, pending_list, running, broken, s_fdCommand>>
        /\ at' = "crashed" /\ task' = [u \in Thread |-> Idle]
    BY <1>21, ZenonT(30) DEF ReadAgain, table, world
  <2>2. /\ Main \in Thread /\ Loop \in Thread /\ \A u \in Thread : task'[u] = Idle
        /\ Idle.pc = "idle"
    BY <2>1 DEF Thread, Idle
  <2>3. Tasks' /\ Position'
    BY <2>1, <2>2, Zenon DEF Tasks, Position
  <2>4. Descriptors' /\ ~listMutex' /\ CommandsCurrent' /\ CommandsFdCurrent'
    BY <1>0, <2>1, Zenon DEF Control, Descriptors, CommandsCurrent, CommandsFdCurrent, Runs
  <2>5. OneListener' /\ ListenerKept' /\ StillWatched'
    BY <1>0, <2>1, <2>2, Zenon DEF Control, OneListener, ListenerKept, StillWatched, Pending, Runs
  <2> QED
    BY <2>3, <2>4, <2>5 DEF Control
<1> QED
  BY <1>2, <1>3, <1>5, <1>6, <1>7, <1>8, <1>9, <1>10, <1>11, <1>12, <1>13, <1>14, <1>15,
     <1>16, <1>17, <1>18, <1>19, <1>20, <1>21, ZenonT(30) DEF Next, LoopStep, TaskStep, Register

-----------------------------------------------------------------------------
(* The theorems. *)

\* The inductive invariant holds at the start.
LEMMA InitInv == Init => IInv
<1> SUFFICES ASSUME Init PROVE IInv
  OBVIOUS
<1>1. TypeOK /\ Covered /\ Control
  BY TypeInit, CoveredInit, ControlInit, ZenonT(30)
<1>2. /\ pending_list = <<>> /\ timer_list = <<>> /\ running = None /\ at = "pipe"
      /\ kind = [i \in Info |-> None]
  BY DEF Init
<1>3. Range(pending_list) = {} /\ Range(timer_list) = {} /\ Len(pending_list) = 0 /\ Len(timer_list) = 0
  BY <1>2 DEF Range
<1>4. ListsIntact
  <2>1. ListByList
    <3>1. Distinct(pending_list) /\ Distinct(timer_list) /\ Apart(pending_list, timer_list)
      BY <1>3 DEF Distinct, Apart
    <3>2. \A i \in Info : ~(i = running \/ Pending(i) \/ i \in Range(timer_list))
      BY <1>2, <1>3, EventAssumption DEF Pending
    <3> QED
      BY <1>2, <3>1, <3>2, Zenon DEF ListByList
  <2> QED
    BY <1>1, <2>1, ListByListIs
<1>5. TimersOrdered
  <2>1. \E n \in 0..Len(pending_list) : TimersFirst(pending_list, n)
    BY <1>3 DEF TimersFirst
  <2> QED
    BY <1>2, <1>3, <2>1 DEF TimersOrdered, Pending
<1> QED
  BY <1>1, <1>4, <1>5 DEF IInv, Control

\* Every step keeps the inductive invariant.
LEMMA NextInv == IInv /\ [Next]_vars => IInv'
  BY TypeStep, CoveredStep, ListsStep, TimersStep, ControlStep DEF IInv, Control

\* The inductive invariant holds in every state of every behaviour.
LEMMA InductiveInv == Spec => []IInv
  BY InitInv, NextInv, PTL DEF Spec

\* Every variable keeps its type, for any number of vendor threads, timers and slots.
THEOREM TypeCorrect == Spec => []TypeOK
<1>1. IInv => TypeOK
  BY ZenonT(30) DEF IInv
<1> QED
  BY <1>1, InductiveInv, PTL

\* What select() is given always matches the table of ril_event.cpp.
THEOREM TableCovered == Spec => []Covered
<1>1. IInv => Covered
  BY DEF IInv
<1> QED
  BY <1>1, InductiveInv, PTL

\* The intrusive lists of ril_event.cpp stay intact.
THEOREM ListsStayIntact == Spec => []ListsIntact
<1>1. IInv => ListsIntact
  BY DEF IInv
<1> QED
  BY <1>1, InductiveInv, PTL

\* assert(fd == s_fdCommand) in processCommandsCallback() holds unless the command
\* socket was closed under the loop.
THEOREM CommandsFdIsCurrent == Spec => []CommandsFdCurrent
<1>1. IInv => CommandsFdCurrent
  BY DEF IInv
<1> QED
  BY <1>1, InductiveInv, PTL

\* ril_event_del() never takes its early return with listMutex held: every operation on
\* the lists finds the mutex free.
THEOREM MutexReleased == Spec => []~listMutex
<1>1. IInv => ~listMutex
  BY DEF IInv
<1> QED
  BY <1>1, InductiveInv, PTL

\* Once RIL_register() has added the listen event, the daemon is listening, is accepting,
\* or has a client whose end it will notice, unless the process has ended: the listen event
\* is never lost, although it is not persistent and three callbacks hand it on.
THEOREM NeverDeaf == Spec => []ListenerKept
<1>1. IInv => ListenerKept
  BY DEF IInv
<1> QED
  BY <1>1, InductiveInv, PTL

-----------------------------------------------------------------------------
(* The timers of a list that has them in front. *)

\* When the first n entries of the pending list are its timers, TimersOf() is those n entries.
LEMMA TimersOfIs ==
    ASSUME NEW p \in Seq(Info \cup Event), NEW n \in 0..Len(p), TimersFirst(p, n)
    PROVE  /\ TimersOf(p) = SubSeq(p, 1, n) /\ TimersOf(p) \in Seq(Info)
           /\ Len(TimersOf(p)) = n /\ \A j \in 1..n : TimersOf(p)[j] = p[j]
           /\ Range(TimersOf(p)) = Range(p) \cap Info
<1> DEFINE m == CHOOSE k \in 0..Len(p) : TimersFirst(p, k)
<1>1. m \in 0..Len(p) /\ TimersFirst(p, m)
  OBVIOUS
<1>2. TimersOf(p) = SubSeq(p, 1, m)
  BY DEF TimersOf
<1> HIDE DEF m
<1>3. m = n
  <2>1. Len(p) \in Nat /\ m \in Nat /\ n \in Nat
    BY <1>1
  <2>2. ~(m < n)
    <3>1. m < n => n \in 1..Len(p)
      BY <2>1
    <3> QED
      BY <1>1, <2>1, <3>1 DEF TimersFirst
  <2>3. ~(n < m)
    <3>1. n < m => m \in 1..Len(p)
      BY <1>1, <2>1
    <3> QED
      BY <1>1, <2>1, <3>1 DEF TimersFirst
  <2> QED
    BY <2>1, <2>2, <2>3
<1> DEFINE q == TimersOf(p)
<1>4. q = SubSeq(p, 1, n) /\ Len(q) = n /\ \A j \in 1..n : q[j] = p[j]
  BY <1>2, <1>3, CutSeq
<1>5. \A j \in 1..n : p[j] \in Info
  BY DEF TimersFirst
<1>6. q \in Seq(Info)
  BY <1>4, <1>5, PartOfList
<1> HIDE DEF q
<1>7. Range(q) = {q[j] : j \in 1..n} /\ Range(p) = {p[j] : j \in 1..Len(p)}
  <2>1. Range(q) = {q[j] : j \in 1..Len(q)}
    BY <1>6, RangeIs
  <2>2. Range(p) = {p[j] : j \in 1..Len(p)}
    BY RangeIs
  <2> QED
    BY <1>4, <2>1, <2>2
<1>8. Range(q) = Range(p) \cap Info
  <2>1. \A j \in 1..n : j \in 1..Len(p)
    OBVIOUS
  <2>2. \A j \in 1..Len(p) : p[j] \in Info => j \in 1..n
    BY DEF TimersFirst
  <2> QED
    BY <1>4, <1>5, <1>7, <2>1, <2>2, Zenon
<1> QED
  BY <1>4, <1>6, <1>8 DEF q

\* The abstract queue: what is on it, with the number n of timers that are pending.
QueueHas(n) ==
    /\ Queue \in Seq(Info) /\ Len(Queue) = n + Len(timer_list)
    /\ \A j \in 1..n : Queue[j] = pending_list[j]
    /\ \A j \in 1..Len(timer_list) : Queue[n + j] = timer_list[j]
    /\ Range(Queue) = (Range(pending_list) \cap Info) \cup Range(timer_list)

\* What the abstract variables are, once the number of timers on the pending list is known.
LEMMA QueueIs ==
    TypeOK => \A n \in 0..Len(pending_list) : TimersFirst(pending_list, n) => QueueHas(n)
<1> SUFFICES ASSUME TypeOK, NEW n \in 0..Len(pending_list), TimersFirst(pending_list, n)
             PROVE  QueueHas(n)
  OBVIOUS
<1> DEFINE q == TimersOf(pending_list)
<1>1. pending_list \in Seq(Info \cup Event) /\ timer_list \in Seq(Info) /\ Len(timer_list) \in Nat
  BY DEF TypeOK
<1>2. /\ q \in Seq(Info) /\ Len(q) = n /\ \A j \in 1..n : q[j] = pending_list[j]
      /\ Range(q) = Range(pending_list) \cap Info
  BY <1>1, TimersOfIs
<1> HIDE DEF q
<1>3. Queue = q \o timer_list
  BY DEF Queue, q
<1>4. /\ Queue \in Seq(Info) /\ Len(Queue) = Len(q) + Len(timer_list)
      /\ \A j \in 1..(Len(q) + Len(timer_list)) :
            Queue[j] = IF j <= Len(q) THEN q[j] ELSE timer_list[j - Len(q)]
  BY <1>1, <1>2, <1>3, JoinedLists, Zenon
<1>5. Range(Queue) = Range(q) \cup Range(timer_list)
  BY <1>1, <1>2, <1>3, RangeOfJoined
<1>6. \A j \in 1..n : Queue[j] = pending_list[j]
  BY <1>1, <1>2, <1>4
<1>7. ASSUME NEW j \in 1..Len(timer_list) PROVE Queue[n + j] = timer_list[j]
  <2>1. n + j \in 1..(n + Len(timer_list)) /\ ~(n + j <= n) /\ (n + j) - n = j
    BY <1>1
  <2> QED
    BY <1>2, <1>4, <2>1
<1> QED
  BY <1>2, <1>4, <1>5, <1>6, <1>7, Zenon DEF QueueHas

\* The same, of the next state.
LEMMA QueueIsPrimed ==
    (TypeOK => \A n \in 0..Len(pending_list) : TimersFirst(pending_list, n) => QueueHas(n))'
  BY QueueIs, PTL

-----------------------------------------------------------------------------
(* The state functions of the refinement mapping, under the steps. *)

\* The abstract queue and times stay while the lists and the times do.
LEMMA QueueKept ==
    UNCHANGED <<pending_list, timer_list, left>> => UNCHANGED <<Queue, QueueLeft>>
  BY DEF Queue, TimersOf, TimersFirst, QueueLeft

\* A step that adds e to the table adds it for EventQueue.
LEMMA AddRefines ==
    ASSUME NEW e \in Event, Added(e), UNCHANGED <<pending_list, timer_list, left, running>>
    PROVE  Abs!Next
<1>1. Armed' = Armed \cup {e}
  BY DEF Added, Armed
<1>2. UNCHANGED <<Queue, QueueLeft, running>>
  BY QueueKept
<1>3. Abs!Add(e)
  BY <1>1, <1>2 DEF Abs!Add
<1> QED
  BY <1>3 DEF Abs!Next

\* A step that leaves the table and the lists alone does nothing to EventQueue.
LEMMA StutterRefines ==
    ASSUME UNCHANGED <<watch_table, pending_list, timer_list, left, running>>
    PROVE  UNCHANGED Abs!absVars
<1>1. UNCHANGED <<Queue, QueueLeft>>
  BY QueueKept
<1>2. Armed' = Armed
  BY DEF Armed, Watched
<1> QED
  BY <1>1, <1>2 DEF Abs!absVars

\* An empty pending list: the abstract queue is the timer list.
LEMMA QueueNoPending ==
    ASSUME TypeOK, pending_list = <<>>
    PROVE  Queue = timer_list
<1>1. Len(pending_list) = 0 /\ TimersFirst(pending_list, 0)
  BY DEF TimersFirst
<1>2. QueueHas(0)
  BY <1>1, QueueIs
<1>3. timer_list \in Seq(Info) /\ Len(timer_list) \in Nat
  BY DEF TypeOK
<1>4. Queue \in Seq(Info) /\ Len(Queue) = Len(timer_list) /\ \A j \in 1..Len(timer_list) : Queue[j] = timer_list[j]
  <2>1. \A j \in 1..Len(timer_list) : 0 + j = j
    BY <1>3
  <2> QED
    BY <1>2, <1>3, <2>1 DEF QueueHas
<1> QED
  BY <1>3, <1>4, EqualLists

\* processTimeouts() and processReadReadies() move timers and events from one place to
\* another, which EventQueue does not tell apart.
LEMMA CollectRefines ==
    ASSUME IInv, TypeOK', Collect
    PROVE  UNCHANGED Abs!absVars
<1>1. /\ pending_list = <<>> /\ UNCHANGED <<left, running>>
  BY DEF IInv, Position, Collect
<1>2. Queue = timer_list
  BY <1>1, QueueNoPending DEF IInv
<1>3. PICK n \in 0..Len(timer_list), r \in Seq(Event) : Collected(n, r)
  BY Collecting
<1>4. /\ timer_list' \in Seq(Info) /\ pending_list' \in Seq(Info \cup Event)
      /\ Len(timer_list') = Len(timer_list) - n
      /\ \A j \in 1..Len(timer_list') : timer_list'[j] = timer_list[n + j]
      /\ Len(pending_list') = n + Len(r)
      /\ \A j \in 1..n : pending_list'[j] = timer_list[j]
      /\ \A j \in 1..Len(r) : pending_list'[n + j] = r[j]
      /\ SubSeq(timer_list, 1, n) \in Seq(Info)
      /\ Range(pending_list') = Range(SubSeq(timer_list, 1, n)) \cup Readies
  BY <1>3, CollectedLists
<1>5. timer_list \in Seq(Info) /\ Len(timer_list) \in Nat /\ Len(r) \in Nat /\ Info \cap Event = {}
  <2>1. timer_list \in Seq(Info) /\ Info \cap Event = {}
    BY EventAssumption, Zenon DEF IInv, TypeOK
  <2> QED
    BY <2>1
<1>6. n \in 0..Len(pending_list') /\ TimersFirst(pending_list', n)
  <2>1. \A k \in 1..Len(pending_list') : k <= n => pending_list'[k] \in Info
    <3> SUFFICES ASSUME NEW k \in 1..Len(pending_list'), k <= n PROVE pending_list'[k] \in Info
      OBVIOUS
    <3>1. k \in 1..n /\ k \in 1..Len(timer_list)
      BY <1>5
    <3>2. timer_list[k] \in Info
      BY <1>5, <3>1
    <3> QED
      BY <1>4, <3>1, <3>2, Zenon
  <2>2. \A k \in 1..Len(pending_list') : ~(k <= n) => pending_list'[k] \notin Info
    <3> SUFFICES ASSUME NEW k \in 1..Len(pending_list'), ~(k <= n) PROVE pending_list'[k] \notin Info
      OBVIOUS
    <3>1. k - n \in 1..Len(r) /\ n + (k - n) = k
      BY <1>4, <1>5
    <3>2. pending_list'[k] = r[k - n]
      BY <1>4, <3>1, Zenon
    <3>3. r[k - n] \in Event
      BY <3>1
    <3> QED
      BY <1>5, <3>2, <3>3, Zenon
  <2>3. n \in 0..Len(pending_list')
    BY <1>4, <1>5
  <2> QED
    BY <2>1, <2>2, <2>3 DEF TimersFirst
<1>7. QueueHas(n)'
  BY <1>6, QueueIsPrimed
<1>8. Queue' = timer_list
  <2>1. /\ Queue' \in Seq(Info) /\ Len(Queue') = n + Len(timer_list')
        /\ \A j \in 1..n : Queue'[j] = pending_list'[j]
        /\ \A j \in 1..Len(timer_list') : Queue'[n + j] = timer_list'[j]
    BY <1>7 DEF QueueHas
  <2>2. Len(Queue') = Len(timer_list)
    BY <1>4, <1>5, <2>1
  <2>3. ASSUME NEW j \in 1..Len(Queue') PROVE Queue'[j] = timer_list[j]
    <3>1. CASE j <= n
      <4>1. j \in 1..n
        BY <3>1
      <4> QED
        BY <1>4, <2>1, <4>1
    <3>2. CASE j > n
      <4>1. j - n \in 1..Len(timer_list') /\ n + (j - n) = j
        BY <1>4, <1>5, <2>2, <3>2
      <4>2. Queue'[n + (j - n)] = timer_list'[j - n] /\ timer_list'[j - n] = timer_list[n + (j - n)]
        BY <1>4, <2>1, <4>1
      <4> QED
        BY <4>1, <4>2
    <3>3. j <= n \/ j > n
      BY <2>2, <1>5
    <3> QED
      BY <3>1, <3>2, <3>3
  <2> QED
    BY <1>5, <2>1, <2>2, <2>3, EqualLists, Zenon
<1>9. Armed' = Armed
  <2>1. Removed(OneShot \cap Readies) /\ Readies \subseteq Watched(watch_table) /\ Readies \subseteq Event
    BY Removing, Collecting
  <2>2. Watched(watch_table') = Watched(watch_table) \ (OneShot \cap Readies)
    BY <2>1 DEF Removed
  <2>3. Range(pending_list') \cap Event = Readies
    <3>1. Range(SubSeq(timer_list, 1, n)) \subseteq Info
      BY <1>4, RangeOfList, Zenon
    <3> QED
      BY <1>4, <1>5, <2>1, <3>1
  <2>4. Range(pending_list) = {}
    BY <1>1 DEF Range
  <2> QED
    BY <2>1, <2>2, <2>3, <2>4 DEF Armed
<1>10. QueueLeft' = QueueLeft
  BY <1>1, <1>2, <1>8 DEF QueueLeft
<1> QED
  BY <1>1, <1>2, <1>8, <1>9, <1>10, Zenon DEF Abs!absVars

\* firePending() fires the timer at the head of the queue, or an event that is armed.
LEMMA FireRefines ==
    ASSUME IInv, TypeOK', FirePending
    PROVE  Abs!Next \/ UNCHANGED Abs!absVars
<1>0. /\ UNCHANGED <<watch_table, timer_list, left>> /\ running = None
      /\ pending_list \in Seq(Info \cup Event) /\ timer_list \in Seq(Info)
      /\ Info \cap Event = {} /\ Len(timer_list) \in Nat /\ Len(pending_list) \in Nat
      /\ left \in [Info -> -1..MaxDelay \cup {None}]
  <2>1. UNCHANGED <<watch_table, timer_list, left>> /\ at = "fire"
    BY DEF FirePending, table, timers
  <2>2. running = None
    BY <2>1, Zenon DEF IInv, Position
  <2>3. /\ pending_list \in Seq(Info \cup Event) /\ timer_list \in Seq(Info) /\ Info \cap Event = {}
        /\ left \in [Info -> -1..MaxDelay \cup {None}]
    BY EventAssumption, Zenon DEF IInv, TypeOK
  <2>4. Len(timer_list) \in Nat /\ Len(pending_list) \in Nat
    BY <2>3
  <2> QED
    BY <2>1, <2>2, <2>3, <2>4, Zenon
<1>1. CASE pending_list = <<>>
  BY <1>1, StutterRefines DEF FirePending, table, timers
<1>2. CASE pending_list # <<>>
  <2> DEFINE h == Head(pending_list)
  <2>1. running' = h /\ pending_list' = Tail(pending_list)
    BY <1>2 DEF FirePending
  <2>2. Distinct(pending_list) /\ Distinct(timer_list) /\ Apart(pending_list, timer_list)
    BY ListByListIs DEF IInv, ListByList
  <2>3. /\ h \in Info \cup Event /\ h = pending_list[1]
        /\ Len(pending_list) >= 1 /\ Len(pending_list') = Len(pending_list) - 1
        /\ pending_list' \in Seq(Info \cup Event)
        /\ \A j \in 1..(Len(pending_list) - 1) : pending_list'[j] = pending_list[j + 1]
        /\ Range(pending_list) = {h} \cup Range(pending_list') /\ h \notin Range(pending_list')
    BY <1>0, <1>2, <2>1, <2>2, PopSeq
  <2> HIDE DEF h
  <2>4. PICK n \in 0..Len(pending_list) : TimersFirst(pending_list, n)
    BY DEF IInv, TimersOrdered
  <2>5. QueueHas(n)
    BY <2>4, QueueIs DEF IInv
  <2>6. h \in Info <=> n >= 1
    <3>1. 1 \in 1..Len(pending_list)
      BY <1>0, <2>3
    <3> QED
      BY <2>3, <2>4, <3>1 DEF TimersFirst
  <2> DEFINE m == IF n = 0 THEN 0 ELSE n - 1
  <2>7. m \in 0..Len(pending_list') /\ TimersFirst(pending_list', m)
    <3>1. ASSUME NEW k \in 1..Len(pending_list') PROVE pending_list'[k] \in Info <=> k <= m
      <4>1. k + 1 \in 1..Len(pending_list) /\ pending_list'[k] = pending_list[k + 1]
        BY <1>0, <2>3
      <4>2. pending_list[k + 1] \in Info <=> k + 1 <= n
        BY <2>4, <4>1 DEF TimersFirst
      <4>3. k + 1 <= n <=> k <= m
        BY <1>0, <2>3
      <4> QED
        BY <4>1, <4>2, <4>3
    <3>2. m \in 0..Len(pending_list')
      BY <1>0, <2>3
    <3> QED
      BY <3>1, <3>2 DEF TimersFirst
  <2>8. QueueHas(m)'
    BY <2>7, QueueIsPrimed
  <2>9. CASE h \in Info
    <3>1. n >= 1 /\ m = n - 1
      BY <2>6, <2>9
    <3> HIDE DEF m
    <3>2. /\ Queue \in Seq(Info) /\ Len(Queue) = n + Len(timer_list)
          /\ \A j \in 1..n : Queue[j] = pending_list[j]
          /\ \A j \in 1..Len(timer_list) : Queue[n + j] = timer_list[j]
          /\ Range(Queue) = (Range(pending_list) \cap Info) \cup Range(timer_list)
      BY <2>5 DEF QueueHas
    <3>3. /\ Queue' \in Seq(Info) /\ Len(Queue') = m + Len(timer_list)
          /\ \A j \in 1..m : Queue'[j] = pending_list'[j]
          /\ \A j \in 1..Len(timer_list) : Queue'[m + j] = timer_list[j]
          /\ Range(Queue') = (Range(pending_list') \cap Info) \cup Range(timer_list)
      BY <1>0, <2>8 DEF QueueHas
    <3>4. Queue # <<>> /\ Head(Queue) = h
      <4>1. Len(Queue) >= 1 /\ 1 \in 1..n
        BY <1>0, <3>1, <3>2
      <4>2. Queue[1] = h
        BY <2>3, <3>2, <4>1, Zenon
      <4> QED
        BY <3>2, <4>1, <4>2
    <3>5. Queue' = Tail(Queue)
      <4>1. /\ Tail(Queue) \in Seq(Info) /\ Len(Tail(Queue)) = Len(Queue) - 1
            /\ \A j \in 1..(Len(Queue) - 1) : Tail(Queue)[j] = Queue[j + 1]
        BY <3>2, <3>4, PopSeq
      <4>2. Len(Queue') = Len(Tail(Queue)) /\ Len(Queue') = Len(Queue) - 1
        <5>1. Len(Queue) = n + Len(timer_list) /\ Len(Queue') = m + Len(timer_list) /\ Len(timer_list) \in Nat
          BY <1>0, <3>2, <3>3, Zenon
        <5> QED
          BY <3>1, <4>1, <5>1
      <4>3. ASSUME NEW j \in 1..Len(Queue') PROVE Queue'[j] = Queue[j + 1]
        <5>1. CASE j <= m
          <6>1. j \in 1..m /\ j + 1 \in 1..n /\ j \in 1..(Len(pending_list) - 1)
            BY <1>0, <3>1, <5>1
          <6> QED
            BY <2>3, <3>2, <3>3, <6>1, Zenon
        <5>2. CASE j > m
          <6>1. j - m \in 1..Len(timer_list) /\ m + (j - m) = j /\ n + (j - m) = j + 1
            BY <1>0, <3>1, <3>3, <5>2
          <6>2. Queue'[m + (j - m)] = timer_list[j - m] /\ Queue[n + (j - m)] = timer_list[j - m]
            BY <3>2, <3>3, <6>1, Zenon
          <6> QED
            BY <6>1, <6>2, Zenon
        <5>3. j <= m \/ j > m
          BY <1>0, <3>1, <3>3
        <5> QED
          BY <5>1, <5>2, <5>3, Zenon
      <4> QED
        BY <3>3, <4>1, <4>2, <4>3, EqualLists, Zenon
    <3>6. h \in Range(Queue) /\ h \notin Range(timer_list) /\ Range(Queue') = Range(Queue) \ {h}
      <4>1. Range(pending_list) \cap Range(timer_list) = {}
        <5>1. timer_list \in Seq(Info \cup Event)
          BY <1>0, WiderList, ZenonT(30)
        <5> QED
          BY <1>0, <2>2, <5>1, ApartIs, Zenon
      <4> QED
        BY <2>3, <2>9, <3>2, <3>3, <4>1
    <3>7. left[h] = -1
      BY <2>3, <2>9 DEF IInv, TimersOrdered, Pending
    <3>8. QueueLeft[Head(Queue)] = -1 /\ QueueLeft' = [QueueLeft EXCEPT ![Head(Queue)] = None]
      BY <1>0, <2>9, <3>4, <3>6, <3>7, Zenon DEF QueueLeft
    <3>9. Armed' = Armed
      <4>1. Range(pending_list') \cap Event = Range(pending_list) \cap Event
        BY <1>0, <2>3, <2>9
      <4> QED
        BY <1>0, <4>1 DEF Armed, Watched
    <3>10. Abs!FireTimer
      BY <1>0, <2>1, <3>4, <3>5, <3>8, <3>9, ZenonT(30) DEF Abs!FireTimer
    <3> QED
      BY <3>10 DEF Abs!Next
  <2>10. CASE h \in Event
    <3>1. n = 0 /\ m = 0
      BY <1>0, <2>6, <2>10
    <3> HIDE DEF m
    <3>2. /\ Queue \in Seq(Info) /\ Len(Queue) = Len(timer_list)
          /\ \A j \in 1..Len(timer_list) : Queue[0 + j] = timer_list[j]
      BY <1>0, <2>5, <3>1 DEF QueueHas
    <3>3. /\ Queue' \in Seq(Info) /\ Len(Queue') = Len(timer_list)
          /\ \A j \in 1..Len(timer_list) : Queue'[0 + j] = timer_list[j]
      BY <1>0, <2>8, <3>1 DEF QueueHas
    <3>4. Queue' = Queue
      <4>1. \A j \in 1..Len(Queue) : Queue'[j] = Queue[j]
        <5> SUFFICES ASSUME NEW j \in 1..Len(Queue) PROVE Queue'[j] = Queue[j]
          OBVIOUS
        <5>1. 0 + j = j /\ j \in 1..Len(timer_list)
          BY <1>0, <3>2
        <5> QED
          BY <3>2, <3>3, <5>1
      <4> QED
        BY <3>2, <3>3, <4>1, EqualLists, Zenon
    <3>5. QueueLeft' = QueueLeft
      BY <1>0, <3>4 DEF QueueLeft
    <3>6. h \in Armed
      BY <2>3, <2>10 DEF Armed
    <3>7. h \in Watched(watch_table) <=> h \notin OneShot
      <4>1. h \in Watched(watch_table) <=> index[h] # 0
        BY <2>10, WatchedIndex DEF IInv
      <4>2. h \notin OneShot => index[h] # 0
        BY <2>3, <2>10, Zenon DEF IInv, StillWatched, Pending
      <4>3. h \in OneShot => index[h] = 0
        BY <2>3 DEF IInv, OneListener, OneShot, Pending
      <4> QED
        BY <4>1, <4>2, <4>3
    <3>8. Armed' = IF h \in OneShot THEN Armed \ {h} ELSE Armed
      <4>1. Armed' = Watched(watch_table) \cup (Range(pending_list') \cap Event)
        BY <1>0 DEF Armed, Watched
      <4> QED
        BY <2>3, <2>10, <3>7, <4>1, Zenon DEF Armed
    <3>9. Abs!Fire(h)
      BY <1>0, <2>1, <3>4, <3>5, <3>6, <3>8, Zenon DEF Abs!Fire
    <3> QED
      BY <2>10, <3>9 DEF Abs!Next
  <2> QED
    BY <2>3, <2>9, <2>10
<1> QED
  BY <1>1, <1>2

\* ril_timer_add() puts a timer in its place in the queue: behind the timers that are
\* pending, whose time is over, and behind those of the timer list that are due earlier.
LEMMA ScheduleRefines ==
    ASSUME IInv, TypeOK', NEW t \in Thread, NEW i \in Info, NEW d \in 0..MaxDelay, Schedule(t, i, d)
    PROVE  Abs!AddTimer(i, d)
<1>0. /\ timer_list \in Seq(Info) /\ Len(timer_list) \in Nat
      /\ pending_list \in Seq(Info \cup Event) /\ Len(pending_list) \in Nat
      /\ left \in [Info -> -1..MaxDelay \cup {None}]
      /\ MaxDelay \in Nat /\ None \notin Int /\ d \in Int
  BY EventAssumption, SMTT(30) DEF IInv, TypeOK
<1>1. PICK k \in 1..(Len(timer_list) + 1) :
         Place(k, d) /\ timer_list' = Insert(timer_list, k, i)
  BY Zenon DEF Schedule, Insert
<1>2. /\ UNCHANGED <<watch_table, pending_list, running>>
      /\ left' = [left EXCEPT ![i] = d] /\ kind[i] = None
  BY DEF Schedule, table
<1>3. ListByList
  BY ListByListIs, Zenon DEF IInv
<1>4. PICK n \in 0..Len(pending_list) : TimersFirst(pending_list, n)
  BY DEF IInv, TimersOrdered
<1>5. /\ Queue \in Seq(Info) /\ Len(Queue) = n + Len(timer_list)
      /\ \A j \in 1..n : Queue[j] = pending_list[j]
      /\ \A j \in 1..Len(timer_list) : Queue[n + j] = timer_list[j]
      /\ Range(Queue) = (Range(pending_list) \cap Info) \cup Range(timer_list)
  BY <1>4, QueueIs, ZenonT(30) DEF IInv, QueueHas
<1>6. /\ Queue' \in Seq(Info) /\ Len(Queue') = n + Len(timer_list')
      /\ \A j \in 1..n : Queue'[j] = pending_list[j]
      /\ \A j \in 1..Len(timer_list') : Queue'[n + j] = timer_list'[j]
      /\ Range(Queue') = (Range(pending_list) \cap Info) \cup Range(timer_list')
  <2>1. n \in 0..Len(pending_list') /\ TimersFirst(pending_list', n)
    BY <1>2, <1>4
  <2>2. QueueHas(n)'
    BY <2>1, QueueIsPrimed
  <2> QED
    BY <1>2, <2>2 DEF QueueHas
<1>7. /\ Len(timer_list') = Len(timer_list) + 1
      /\ \A j \in 1..(Len(timer_list) + 1) :
            timer_list'[j] = IF j < k THEN timer_list[j] ELSE IF j = k THEN i ELSE timer_list[j - 1]
      /\ Range(timer_list') = Range(timer_list) \cup {i}
  <2>1. timer_list \in Seq(Info) /\ timer_list' = Insert(timer_list, k, i)
    BY <1>0, <1>1
  <2>2. Inserted(timer_list, k, i, timer_list')
    BY <2>1, InsertedSeq, Zenon
  <2> QED
    BY <2>2, Zenon DEF Inserted
<1>8. i \notin Range(Queue)
  BY <1>2, <1>3, <1>5, ZenonT(30) DEF ListByList, Pending
<1> DEFINE p == n + k
<1>9. p \in 1..(Len(Queue) + 1) /\ p \in Nat /\ n \in Nat /\ k \in Nat /\ Len(Queue) \in Nat
  BY <1>0, <1>5
<1>10. Queue' = Insert(Queue, p, i)
  <2> HIDE DEF p
  <2> DEFINE q == Insert(Queue, p, i)
  <2>1. /\ q \in Seq(Info) /\ Len(q) = Len(Queue) + 1
        /\ \A j \in 1..(Len(Queue) + 1) : q[j] = IF j < p THEN Queue[j] ELSE IF j = p THEN i ELSE Queue[j - 1]
    <3>1. Queue \in Seq(Info) /\ p \in 1..(Len(Queue) + 1)
      BY <1>5, <1>9
    <3> QED
      BY <3>1, InsertSeq
  <2> HIDE DEF q
  <2>2. Len(Queue') = Len(q)
    <3>1. /\ Len(Queue') = n + Len(timer_list') /\ Len(timer_list') = Len(timer_list) + 1
          /\ Len(Queue) = n + Len(timer_list) /\ Len(timer_list) \in Nat
      BY <1>0, <1>5, <1>6, <1>7, Zenon
    <3> QED
      BY <1>9, <2>1, <3>1
  <2>3. ASSUME NEW j \in 1..Len(q) PROVE Queue'[j] = q[j]
    <3>0. j \in 1..(Len(Queue) + 1) /\ j \in Nat
      BY <2>1, <1>9
    <3>1. CASE j <= n
      <4>1. j \in 1..n /\ j < p
        BY <1>9, <3>0, <3>1 DEF p
      <4> QED
        BY <1>5, <1>6, <2>1, <3>0, <4>1, Zenon
    <3>2. CASE j > n
      <4> DEFINE m == j - n
      <4>1. m \in 1..(Len(timer_list) + 1) /\ n + m = j
        BY <1>0, <1>5, <1>9, <3>0, <3>2
      <4>2. (j < p <=> m < k) /\ (j = p <=> m = k)
        BY <1>9, <3>0 DEF p
      <4>3. m < k => m \in 1..Len(timer_list)
        BY <1>0, <1>9, <4>1
      <4>4. m > k => m - 1 \in 1..Len(timer_list) /\ n + (m - 1) = j - 1
        BY <1>0, <1>9, <3>0, <4>1
      <4> HIDE DEF m
      <4>5. Queue'[j] = timer_list'[m]
        BY <1>6, <1>7, <4>1, Zenon
      <4>6. CASE m < k
        BY <1>5, <1>7, <2>1, <3>0, <4>1, <4>2, <4>3, <4>5, <4>6, Zenon
      <4>7. CASE m = k
        <5>1. ~(m < k)
          BY <1>9, <4>7
        <5> QED
          BY <1>7, <2>1, <3>0, <4>1, <4>2, <4>5, <4>7, <5>1, Zenon
      <4>8. CASE m > k
        <5>1. ~(m < k) /\ m # k
          BY <1>9, <4>1, <4>8
        <5>2. Queue[n + (m - 1)] = timer_list[m - 1] /\ timer_list'[m] = timer_list[m - 1]
          BY <1>5, <1>7, <4>1, <4>4, <4>8, <5>1, Zenon
        <5> QED
          BY <2>1, <3>0, <4>2, <4>4, <4>5, <4>8, <5>1, <5>2, ZenonT(30)
      <4>9. m < k \/ m = k \/ m > k
        BY <1>9, <4>1
      <4> QED
        BY <4>6, <4>7, <4>8, <4>9, Zenon
    <3>3. j <= n \/ j > n
      BY <1>9, <3>0
    <3> QED
      BY <3>1, <3>2, <3>3, Zenon
  <2>4. Queue' = q
    <3>1. Queue' \in Seq(Info) /\ q \in Seq(Info)
      BY <1>6, <2>1
    <3> QED
      BY <2>2, <2>3, <3>1, EqualLists, ZenonT(30)
  <2> QED
    BY <2>4 DEF q
<1>11. QueueLeft' = [QueueLeft EXCEPT ![i] = d]
  <2>1. Range(Queue') = Range(Queue) \cup {i}
    BY <1>5, <1>6, <1>7, Zenon
  <2> QED
    BY <1>0, <1>2, <1>8, <2>1, Zenon DEF QueueLeft
<1>12. \A j \in 1..Len(Queue) : QueueLeft[Queue[j]] = left[Queue[j]]
  <2>1. Queue \in Seq(Info)
    BY <1>5, Zenon
  <2>2. \A j \in 1..Len(Queue) : Queue[j] \in Range(Queue) /\ Queue[j] \in Info
    BY <2>1, RangeIs
  <2>3. \A x \in Info : x \in Range(Queue) => QueueLeft[x] = left[x]
    BY Zenon DEF QueueLeft
  <2> QED
    BY <2>2, <2>3, Zenon
<1>13. ASSUME NEW j \in 1..(p - 1) PROVE QueueLeft[Queue[j]] <= d
  <2>0. j \in 1..Len(Queue) /\ j \in Nat
    BY <1>9
  <2>1. CASE j <= n
    <3>1. j \in 1..n /\ j \in 1..Len(pending_list)
      BY <1>0, <2>0, <2>1
    <3>2. pending_list[j] \in Info /\ Pending(pending_list[j])
      BY <1>0, <1>4, <3>1, RangeIs DEF TimersFirst, Pending
    <3>3. left[pending_list[j]] = -1
      BY <3>2, Zenon DEF IInv, TimersOrdered
    <3> QED
      BY <1>0, <1>5, <1>12, <2>0, <3>1, <3>3, SMTT(30)
  <2>2. CASE j > n
    <3>1. j - n \in 1..(k - 1) /\ j - n \in 1..Len(timer_list) /\ n + (j - n) = j
      BY <1>0, <1>9, <2>0, <2>2
    <3>2. left[timer_list[j - n]] < d
      BY <1>1, <3>1, Zenon DEF Place
    <3>3. Queue[n + (j - n)] = timer_list[j - n]
      BY <1>5, <3>1, Zenon
    <3>4. timer_list[j - n] \in Info /\ left[timer_list[j - n]] \in Int
      <4>1. timer_list[j - n] \in Info
        BY <1>0, <3>1
      <4>2. left[timer_list[j - n]] # None
        <5>1. timer_list[j - n] \in Range(timer_list)
          BY <1>0, <3>1, RangeIs, SMTT(30)
        <5> QED
          BY <1>3, <4>1, <5>1, Zenon DEF ListByList, IInv, TimersOrdered
      <4> QED
        BY <1>0, <4>1, <4>2
    <3> QED
      BY <1>0, <1>12, <2>0, <3>1, <3>2, <3>3, <3>4, SMTT(30)
  <2>3. j <= n \/ j > n
    BY <1>9, <2>0
  <2> QED
    BY <2>1, <2>2, <2>3
<1>14. ASSUME NEW j \in p..Len(Queue) PROVE QueueLeft[Queue[j]] >= d
  <2>0. j \in 1..Len(Queue) /\ j \in Nat
    BY <1>9
  <2>1. j - n \in k..Len(timer_list) /\ j - n \in 1..Len(timer_list) /\ k \in 1..Len(timer_list) /\ n + (j - n) = j
    BY <1>0, <1>5, <1>9, <2>0
  <2>2. left[timer_list[k]] >= d
    BY <1>0, <1>9, <1>1, <2>1 DEF Place
  <2>3. \A m \in 1..Len(timer_list) : timer_list[m] \in Info /\ left[timer_list[m]] \in Int
    <3> SUFFICES ASSUME NEW m \in 1..Len(timer_list)
                 PROVE  timer_list[m] \in Info /\ left[timer_list[m]] \in Int
      OBVIOUS
    <3>1. timer_list[m] \in Info /\ timer_list[m] \in Range(timer_list)
      BY <1>0, RangeIs, SMTT(30)
    <3>2. left[timer_list[m]] # None
      BY <1>3, <3>1, Zenon DEF ListByList, IInv, TimersOrdered
    <3> QED
      BY <1>0, <3>1, <3>2
  <2>4. left[timer_list[j - n]] >= left[timer_list[k]]
    <3>1. CASE k < j - n
      <4>1. left[timer_list[k]] <= left[timer_list[j - n]]
        BY <2>1, <3>1, Zenon DEF IInv, TimersOrdered
      <4> QED
        BY <2>1, <2>3, <4>1, Zenon
    <3>2. CASE k = j - n
      <4>1. left[timer_list[k]] \in Int
        BY <2>1, <2>3, Zenon
      <4> QED
        BY <3>2, <4>1
    <3>3. k < j - n \/ k = j - n
      BY <1>9, <2>0, <2>1
    <3> QED
      BY <3>1, <3>2, <3>3, Zenon
  <2>5. Queue[n + (j - n)] = timer_list[j - n]
    BY <1>5, <2>1, Zenon
  <2>6. left[timer_list[j - n]] \in Int /\ left[timer_list[k]] \in Int
    BY <2>1, <2>3, Zenon
  <2>7. left[timer_list[j - n]] >= d
    BY <1>0, <2>2, <2>4, <2>6, SMTT(30)
  <2> QED
    BY <1>12, <2>0, <2>1, <2>5, <2>7, Zenon
<1>15. Armed' = Armed
  BY <1>2 DEF Armed, Watched
<1>16. p \in 1..(Len(Queue) + 1) /\ Queue' = SubSeq(Queue, 1, p - 1) \o <<i>> \o SubSeq(Queue, p, Len(Queue))
  BY <1>9, <1>10 DEF Insert
<1> HIDE DEF p
<1>17. \E m \in 1..(Len(Queue) + 1) :
         /\ Queue' = SubSeq(Queue, 1, m - 1) \o <<i>> \o SubSeq(Queue, m, Len(Queue))
         /\ \A j \in 1..(m - 1) : QueueLeft[Queue[j]] <= d
         /\ \A j \in m..Len(Queue) : QueueLeft[Queue[j]] >= d
  BY <1>13, <1>14, <1>16, Zenon
<1>18. i \notin Abs!Range(Queue)
  BY <1>8, Zenon DEF Range, Abs!Range
<1> QED
  BY <1>2, <1>11, <1>15, <1>17, <1>18, ZenonT(30) DEF Abs!AddTimer

\* Time passes for the timers of the queue: nothing is pending while select() waits.
LEMMA TickRefines ==
    ASSUME IInv, TypeOK', Tick
    PROVE  Abs!Tick
<1>1. /\ pending_list = <<>> /\ UNCHANGED <<watch_table, timer_list, pending_list, running>>
      /\ left' = [i \in Info |-> IF left[i] \in {None, -1} THEN left[i] ELSE left[i] - 1]
  BY DEF Tick, table, IInv, Position
<1>2. Queue = timer_list /\ Queue' = timer_list
  <2>1. Queue = timer_list
    BY <1>1, QueueNoPending DEF IInv
  <2>2. Queue' = Queue
    BY <1>1 DEF Queue, TimersOf, TimersFirst
  <2> QED
    BY <2>1, <2>2
<1>3. QueueLeft' = [i \in Info |-> IF QueueLeft[i] \in {None, -1} THEN QueueLeft[i] ELSE QueueLeft[i] - 1]
  BY <1>1, <1>2 DEF QueueLeft
<1>4. Armed' = Armed
  BY <1>1 DEF Armed, Watched
<1> QED
  BY <1>1, <1>2, <1>3, <1>4, Zenon DEF Abs!Tick

\* free() of a timer whose callback has returned: it is not on the queue.
LEMMA FreeRefines ==
    ASSUME IInv, FreeInfo
    PROVE  Abs!Return
<1>1. /\ UNCHANGED <<watch_table, timer_list, pending_list>> /\ running' = None
      /\ left' = [left EXCEPT ![running] = None] /\ running \in Info /\ running # None
      /\ left \in [Info -> -1..MaxDelay \cup {None}]
  BY EventAssumption, Zenon DEF FreeInfo, table, IInv, Position, TypeOK
<1>2. Queue' = Queue /\ Armed' = Armed
  BY <1>1, Zenon DEF Queue, TimersOf, TimersFirst, Armed, Watched
<1>3. running \notin Range(Queue)
  <2>1. PICK n \in 0..Len(pending_list) : TimersFirst(pending_list, n)
    BY DEF IInv, TimersOrdered
  <2>2. Range(Queue) = (Range(pending_list) \cap Info) \cup Range(timer_list)
    BY <2>1, QueueIs DEF IInv, QueueHas
  <2>3. ListByList
    BY ListByListIs, Zenon DEF IInv
  <2> QED
    BY <1>1, <2>2, <2>3, Zenon DEF ListByList, Pending
<1>4. QueueLeft' = QueueLeft
  <2>1. \A i \in Info : i \in Range(Queue) => left'[i] = left[i]
    BY <1>1, <1>3
  <2> QED
    BY <1>2, <2>1, Zenon DEF QueueLeft
<1> QED
  BY <1>1, <1>2, <1>4, Zenon DEF Abs!Return

\* The end of a connection takes its event out of the table and leaves none pending.
LEMMA ClosedRefines ==
    ASSUME IInv, CommandsClosed
    PROVE  Abs!Delete("commands")
<1>1. Removed({"commands"}) /\ UNCHANGED <<timer_list, left, pending_list, running>> /\ running = "commands"
  BY Removing, Zenon DEF CommandsClosed, timers, Runs
<1>2. ~Pending("commands")
  <2>1. ListByList
    BY ListByListIs DEF IInv
  <2> QED
    BY <1>1, <2>1, EventAssumption DEF ListByList, Event
<1>3. Armed' = Armed \ {"commands"}
  BY <1>1, <1>2 DEF Removed, Armed, Pending
<1>4. UNCHANGED <<Queue, QueueLeft>>
  BY <1>1, QueueKept
<1> QED
  BY <1>1, <1>3, <1>4 DEF Abs!Delete

-----------------------------------------------------------------------------
(* The refinement. *)

\* An initial state of the loop is an initial state of EventQueue.
LEMMA InitRefines == Init => Abs!Init
<1> SUFFICES ASSUME Init PROVE Abs!Init
  OBVIOUS
<1>1. /\ TypeOK /\ pending_list = <<>> /\ timer_list = <<>> /\ running = None
      /\ watch_table = [s \in Slot |-> None]
  BY TypeInit DEF Init
<1>2. Queue = <<>>
  BY <1>1, QueueNoPending
<1>3. Range(Queue) = {} /\ Range(pending_list) = {}
  BY <1>1, <1>2 DEF Range
<1>4. Armed = {}
  BY <1>1, <1>3 DEF Armed, Watched
<1>5. QueueLeft = [i \in Info |-> None]
  BY <1>3 DEF QueueLeft
<1> QED
  BY <1>1, <1>2, <1>4, <1>5, Zenon DEF Abs!Init

\* What the loop does between two callbacks, and what a callback does, is a step of
\* EventQueue or none.
LEMMA LoopRefines ==
    ASSUME IInv, TypeOK', LoopStep
    PROVE  Abs!Next \/ UNCHANGED Abs!absVars
<1>1. CASE CreatePipe
  <2>1. Added("wakeup")
    BY <1>1, Adding, Zenon
  <2> QED
    BY <1>1, <2>1, AddRefines, Zenon DEF CreatePipe, timers, Event
<1>2. CASE ListenCallbackRefuses \/ Relisten
  <2>1. Added("listen")
    BY <1>2, Adding
  <2> QED
    BY <1>2, <2>1, AddRefines, ZenonT(30) DEF ListenCallbackRefuses, Relisten, timers, Event
<1>3. CASE WatchCommands
  <2>1. Added("commands")
    BY <1>3, Adding, SMTT(30)
  <2> QED
    BY <1>3, <2>1, AddRefines DEF WatchCommands, timers, Event
<1>4. CASE PrepareSelect \/ Select \/ SelectFails
  BY <1>4, StutterRefines, Zenon DEF PrepareSelect, Select, SelectFails, table, timers
<1>5. CASE Collect
  BY <1>5, CollectRefines, Zenon
<1>6. CASE FirePending
  BY <1>6, FireRefines
<1>7. CASE WakeupCallback \/ CommandsCallback \/ DebugCallback \/ TimerCallback \/ ClearLastWake
  BY <1>7, StutterRefines, Zenon
     DEF WakeupCallback, CommandsCallback, DebugCallback, TimerCallback, ClearLastWake, table, timers
<1>8. CASE \E f \in CommandFd : ListenCallbackAccepts(f)
  BY <1>8, StutterRefines DEF ListenCallbackAccepts, timers
<1>9. CASE CommandsClosed
  BY <1>9, ClosedRefines DEF Abs!Next, Event
<1>10. CASE CallbackReturns
  <2>1. UNCHANGED <<watch_table, pending_list, timer_list, left>>
    BY <1>10 DEF CallbackReturns, table, timers
  <2>2. CASE running \in Info
    <3>1. running' = running
      BY <1>10, <2>2 DEF CallbackReturns
    <3> QED
      BY <2>1, <3>1, StutterRefines, Zenon
  <2>3. CASE running \notin Info
    <3>1. running' = None /\ running # None
      BY <1>10, <2>3 DEF CallbackReturns, IInv, Position
    <3>2. UNCHANGED <<Queue, QueueLeft>>
      BY <2>1, QueueKept, Zenon
    <3>3. Armed' = Armed
      BY <2>1 DEF Armed, Watched
    <3>4. Abs!Return
      BY <3>1, <3>2, <3>3 DEF Abs!Return
    <3> QED
      BY <3>4 DEF Abs!Next
  <2> QED
    BY <2>2, <2>3, Zenon
<1>11. CASE FreeInfo
  BY <1>11, FreeRefines DEF Abs!Next
<1> QED
  BY <1>1, <1>2, <1>3, <1>4, <1>5, <1>6, <1>7, <1>8, <1>9, <1>10, <1>11, ZenonT(30) DEF LoopStep

\* Every step of the event loop, its callers and the world is a step of EventQueue, or
\* changes nothing in it.
LEMMA NextRefines == IInv /\ IInv' /\ [Next]_vars => [Abs!Next]_(Abs!absVars)
<1> SUFFICES ASSUME IInv, IInv', [Next]_vars PROVE Abs!Next \/ UNCHANGED Abs!absVars
  BY Zenon
<1>0. TypeOK'
  BY DEF IInv
<1>1. CASE LoopStep
  BY <1>0, <1>1, LoopRefines, ZenonT(30)
<1>2. CASE SelectInterrupted
  BY <1>2, StutterRefines DEF SelectInterrupted, table, timers
<1>3. CASE RegisterAdd("listen", "addListen", "addDebug")
  <2>1. Added("listen")
    BY <1>3, Adding
  <2> QED
    BY <1>3, <2>1, AddRefines DEF RegisterAdd, timers, Event
<1>4. CASE RegisterAdd("debug", "addDebug", "idle")
  <2>1. Added("debug")
    BY <1>4, Adding
  <2> QED
    BY <1>4, <2>1, AddRefines DEF RegisterAdd, timers, Event
<1>5. CASE Tick
  BY <1>0, <1>5, TickRefines DEF Abs!Next
<1>6. ASSUME NEW t \in Thread, TaskStep(t) PROVE Abs!Next \/ UNCHANGED Abs!absVars
  <2>1. CASE ErrorExit(t) \/ SendAndCheck(t) \/ ReadAgain(t) \/ StoreLastWake(t) \/ CancelPrevious(t)
    BY <2>1, StutterRefines DEF ErrorExit, SendAndCheck, ReadAgain, StoreLastWake, CancelPrevious, table, timers
  <2>2. ASSUME NEW i \in Info, NEW d \in 0..MaxDelay, Schedule(t, i, d) PROVE Abs!Next
    <3>1. Abs!AddTimer(i, d)
      BY <1>0, <2>2, ScheduleRefines
    <3> QED
      BY <3>1 DEF Abs!Next
  <2> QED
    BY <1>6, <2>1, <2>2, ZenonT(30) DEF TaskStep
<1>7. ASSUME NEW t \in Thread, RequestTimedCallback(t) \/ OnUnsolicitedResponse(t)
      PROVE  UNCHANGED Abs!absVars
  BY <1>7, StutterRefines, SMTT(30) DEF RequestTimedCallback, OnUnsolicitedResponse, table, timers
<1>8. ASSUME NEW e \in Event, BecomeReady(e) PROVE UNCHANGED Abs!absVars
  BY <1>8, StutterRefines, Zenon DEF BecomeReady, table, timers
<1>9. CASE UNCHANGED vars
  BY <1>9, StutterRefines DEF vars, table, timers
<1> QED
  BY <1>1, <1>2, <1>3, <1>4, <1>5, <1>6, <1>7, <1>8, <1>9, ZenonT(30) DEF Next, Register

\* libril's event loop keeps the promise of EventQueue (ImplementsQueue): callbacks run
\* one at a time, timers in the order of their times, once and not early, and an event
\* that was added is neither lost nor, when it is not persistent, served twice, for any
\* number of threads, timers, connections and descriptors.
THEOREM LoopImplementsQueue == Spec => ImplementsQueue
<1>1. Init => Abs!Init
  BY InitRefines
<1>2. IInv /\ IInv' /\ [Next]_vars => [Abs!Next]_(Abs!absVars)
  BY NextRefines
<1>3. Spec => []IInv
  BY InductiveInv
<1> QED
  BY <1>1, <1>2, <1>3, PTL DEF Spec, ImplementsQueue, Abs!Spec
=============================================================================
