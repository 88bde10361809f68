------------------------------ MODULE RilEvent ------------------------------
(***************************************************************************)
(* The event loop of the RIL daemon (hardware/ril/libril/ril_event.cpp)    *)
(* and its users in ril.cpp: the four events on descriptors, the timed     *)
(* callbacks of the vendor library, and the wake lock that an unsolicited  *)
(* response holds until its timer is called back.                          *)
(*                                                                         *)
(* Time is relative: a timer has the time that is left.  An operation      *)
(* under listMutex is one step that needs the mutex free.                  *)
(***************************************************************************)
EXTENDS Integers, Sequences, FiniteSets, Functions

CONSTANTS
    Vendor,       \* threads of the vendor library
    Main,         \* the thread that calls RIL_register()
    Loop,         \* the event loop thread, s_tid_dispatch
    Info,         \* the addresses malloc() finds for a UserCallbackInfo
    CommandFd,    \* the descriptors accept() may return for the command socket
    MaxFdEvents,  \* MAX_FD_EVENTS
    MaxDelay,     \* bound on the delay of a timed callback; also the wake timeout
    MaxCalls,     \* bound on the calls made into libril
    MaxInputs,    \* bound on what arrives on the descriptors
    None

Event == {"wakeup", "listen", "debug", "commands"}
OneShot == {"listen"}   \* persist == false
Thread == Vendor \cup {Main, Loop}
Slot == 1..MaxFdEvents

ASSUME EventAssumption ==
    /\ MaxFdEvents \in Nat /\ MaxFdEvents >= Cardinality(Event)
    /\ MaxDelay \in Nat \ {0}
    /\ MaxCalls \in Nat /\ MaxInputs \in Nat
    /\ CommandFd \subseteq Nat /\ CommandFd \cap {1, 2, 3} = {} /\ CommandFd # {}
    /\ Info \cap Event = {} /\ None \notin Info \cup Event \cup Int \cup {"user", "wake"}
    /\ Main \notin Vendor /\ Loop \notin Vendor /\ Main # Loop

VARIABLES
    watch_table, index, \* the table, and ev->index (0 stands for -1)
    fd,                 \* ev->fd
    readFds, nfds,
    timer_list, left,   \* the sorted timers, and the time left of each
    pending_list,
    listMutex,          \* a thread returned with the mutex held
    pipe,               \* the wake-up pipe: "none" (not created), "empty" or "full"
    at,                 \* where the loop is
    rfds, limit,        \* the loop's copy of readFds, and select()'s timeout
    running,            \* the event whose callback runs
    ready,              \* events whose descriptor has something to read
    broken,             \* the command socket was closed while it is watched
    s_fdCommand,
    task,               \* per thread: the call into libril it is in
    kind, userParam,    \* per allocated UserCallbackInfo: its callback and parameter
    s_last_wake_timeout_info,
    wakeLock,
    calls, inputs       \* how many there were

table == <<watch_table, index, fd, readFds, nfds>>
timers == <<timer_list, left>>
wait == <<rfds, limit>>
world == <<ready, broken, s_fdCommand>>
infos == <<kind, userParam>>
wake == <<s_last_wake_timeout_info, wakeLock>>
bounds == <<calls, inputs>>
vars == <<table, timers, pending_list, listMutex, pipe, at, wait, running, world,
          task, infos, wake, bounds>>

Idle == [pc |-> "idle", cb |-> "user", info |-> None]
Doing(pc, cb, i) == [pc |-> pc, cb |-> cb, info |-> i]

\* RIL_startEventLoop() has returned: the loop is past s_started = 1 and has not
\* made its pipe yet.  RIL_register() has set s_registerCalled.
Init ==
    /\ watch_table = [s \in Slot |-> None]
    /\ index = [e \in Event |-> 0]
    /\ fd = [wakeup |-> 1, listen |-> 2, debug |-> 3, commands |-> 0]
    /\ readFds = {} /\ nfds = 0
    /\ timer_list = <<>> /\ left = [i \in Info |-> None]
    /\ pending_list = <<>>
    /\ listMutex = FALSE
    /\ pipe = "none" /\ at = "pipe"
    /\ rfds = {} /\ limit = None
    /\ running = None
    /\ ready = {} /\ broken = FALSE /\ s_fdCommand = None
    /\ task = [t \in Thread |-> IF t = Main THEN Doing("addListen", "user", None) ELSE Idle]
    /\ kind = [i \in Info |-> None]
    /\ userParam = [i \in Info |-> 0]
    /\ s_last_wake_timeout_info = None
    /\ wakeLock = FALSE
    /\ calls = 0 /\ inputs = 0

-----------------------------------------------------------------------------
(* The table of events. *)

FreeSlots == {s \in Slot : watch_table[s] = None}
FirstFree == CHOOSE s \in FreeSlots : \A r \in FreeSlots : s <= r

\* ril_event_add(): nothing is added to a full table.
RilEventAdd(e) ==
    /\ ~listMutex
    /\ IF FreeSlots = {} THEN UNCHANGED table
       ELSE /\ watch_table' = [watch_table EXCEPT ![FirstFree] = e]
            /\ index' = [index EXCEPT ![e] = FirstFree]
            /\ readFds' = readFds \cup {fd[e]}
            /\ nfds' = IF fd[e] >= nfds THEN fd[e] + 1 ELSE nfds
            /\ UNCHANGED fd
    /\ UNCHANGED listMutex

Watched(t) == {t[s] : s \in Slot} \ {None}
Highest(S) == IF S = {} THEN 0 ELSE CHOOSE n \in S : \A m \in S : m <= n

RemoveWatch_ShortNfds(removed) ==
    /\ watch_table' = [s \in Slot |-> IF watch_table[s] \in removed THEN None ELSE watch_table[s]]
    /\ index' = [e \in Event |-> IF e \in removed THEN 0 ELSE index[e]]
    /\ readFds' = readFds \ {fd[e] : e \in removed}
    /\ nfds' = IF \E e \in removed : fd[e] + 1 = nfds
                 THEN Highest({fd[e] : e \in Watched(watch_table')}) ELSE nfds
    /\ UNCHANGED fd

\* removeWatch(), for each event of the set.
RemoveWatch(removed) ==
    /\ watch_table' = [s \in Slot |-> IF watch_table[s] \in removed THEN None ELSE watch_table[s]]
    /\ index' = [e \in Event |-> IF e \in removed THEN 0 ELSE index[e]]
    /\ readFds' = readFds \ {fd[e] : e \in removed}
    /\ nfds' = IF \E e \in removed : fd[e] + 1 = nfds
                 THEN Highest({fd[e] : e \in Watched(watch_table')}) + 1 ELSE nfds
    /\ UNCHANGED fd

\* ril_event_del(): an event without an index leaves the mutex locked.
RilEventDel(e) ==
    /\ ~listMutex
    /\ IF index[e] = 0 THEN listMutex' = TRUE /\ UNCHANGED table
       ELSE RemoveWatch({e}) /\ UNCHANGED listMutex

TriggerEvLoop_Never(t) == UNCHANGED pipe

\* triggerEvLoop(): before the pipe is made the byte goes elsewhere.
TriggerEvLoop(t) ==
    pipe' = IF t # Loop /\ pipe # "none" THEN "full" ELSE pipe

-----------------------------------------------------------------------------
(* The loop. *)

CreatePipe ==
    /\ at = "pipe"
    /\ pipe' = "empty"
    /\ RilEventAdd("wakeup")
    /\ at' = "copy"
    /\ UNCHANGED <<timers, pending_list, wait, running, world, task, infos, wake, bounds>>

PrepareSelect_Negative ==
    /\ at = "copy"
    /\ rfds' = readFds
    /\ limit' = IF timer_list = <<>> THEN None
                ELSE left[Head(timer_list)]
    /\ at' = "select"
    /\ UNCHANGED <<table, timers, pending_list, listMutex, pipe, running, world, task, infos, wake, bounds>>

\* memcpy(&rfds, &readFds) and calcNextTimeout(), both without the mutex.
PrepareSelect ==
    /\ at = "copy"
    /\ rfds' = readFds
    /\ limit' = IF timer_list = <<>> THEN None
                ELSE IF left[Head(timer_list)] > 0 THEN left[Head(timer_list)] ELSE 0
    /\ at' = "select"
    /\ UNCHANGED <<table, timers, pending_list, listMutex, pipe, running, world, task, infos, wake, bounds>>

Readable(e) == IF e = "wakeup" THEN pipe = "full" ELSE e \in ready

BadFd == broken /\ fd["commands"] \in rfds

Select ==
    /\ at = "select" /\ ~BadFd
    /\ LET fired == {fd[e] : e \in {x \in Event : Readable(x) /\ fd[x] \in rfds /\ fd[x] < nfds}}
       IN /\ fired # {} \/ limit = 0
          /\ rfds' = fired
    /\ limit' = None
    /\ at' = "collect"
    /\ UNCHANGED <<table, timers, pending_list, listMutex, pipe, running, world, task, infos, wake, bounds>>

\* EINTR.
SelectInterrupted ==
    /\ at = "select" /\ ~BadFd
    /\ rfds' = {} /\ limit' = None
    /\ at' = "copy"
    /\ UNCHANGED <<table, timers, pending_list, listMutex, pipe, running, world, task, infos, wake, bounds>>

\* EBADF: ril_event_loop() returns and the thread ends.
SelectFails ==
    /\ at = "select" /\ BadFd
    /\ rfds' = {} /\ limit' = None
    /\ at' = "dead"
    /\ UNCHANGED <<table, timers, pending_list, listMutex, pipe, running, world, task, infos, wake, bounds>>

\* processTimeouts(): the loop over timer_list ends at the first timer that has time
\* left, after n timers.
Expired(n) ==
    /\ \A j \in 1..n : left[timer_list[j]] < 0
    /\ n < Len(timer_list) => left[timer_list[n + 1]] >= 0

ProcessTimeouts_Keeps(n) == UNCHANGED timer_list

ProcessTimeouts(n) == timer_list' = SubSeq(timer_list, n + 1, Len(timer_list))

\* processReadReadies() scans the table for the events of rfds.  No descriptor is
\* watched twice, so the count n never stops the scan early.
ReadySlots == {s \in Slot : watch_table[s] # None /\ fd[watch_table[s]] \in rfds}
Readies == {watch_table[s] : s \in ReadySlots}
Scans ==
    {scan \in [1..Cardinality(ReadySlots) -> ReadySlots] :
       /\ \A j, k \in DOMAIN scan : j < k => scan[j] < scan[k]
       /\ ReadySlots = {scan[k] : k \in DOMAIN scan}}

ProcessReadReadies_KeepsWatch == UNCHANGED table

ProcessReadReadies == RemoveWatch(OneShot \cap Readies)

\* What happens in other threads between the two changes neither of them.
Collect ==
    /\ at = "collect" /\ ~listMutex
    /\ \E n \in 0..Len(timer_list), scan \in Scans :
          /\ Expired(n) /\ ProcessTimeouts(n)
          /\ pending_list' = pending_list \o SubSeq(timer_list, 1, n)
                               \o [k \in 1..Cardinality(ReadySlots) |-> watch_table[scan[k]]]
    /\ ProcessReadReadies
    /\ rfds' = {}
    /\ at' = "fire"
    /\ UNCHANGED <<left, listMutex, pipe, limit, running, world, task, infos, wake, bounds>>

\* firePending(): the next callback, or back to select().
FirePending ==
    /\ at = "fire"
    /\ IF pending_list = <<>>
         THEN at' = "copy" /\ UNCHANGED <<pending_list, running>>
         ELSE /\ running' = Head(pending_list)
              /\ pending_list' = Tail(pending_list)
              /\ at' = "run"
    /\ UNCHANGED <<table, timers, listMutex, pipe, wait, world, task, infos, wake, bounds>>

-----------------------------------------------------------------------------
(* The callbacks. *)

Runs(e) == at = "run" /\ running = e

WakeupCallback ==
    /\ Runs("wakeup")
    /\ pipe' = "empty"
    /\ at' = "ran"
    /\ UNCHANGED <<table, timers, pending_list, listMutex, wait, running, world, task, infos, wake, bounds>>

\* accept() fails, or the client is not the phone process.
ListenCallbackRefuses ==
    /\ Runs("listen")
    /\ ready' \in {ready, ready \ {"listen"}}
    /\ RilEventAdd("listen")
    /\ at' = "ran"
    /\ UNCHANGED <<timers, pending_list, pipe, wait, running, broken, s_fdCommand, task, infos, wake, bounds>>

\* A bound: the calls that have begun find memory for their UserCallbackInfo.
Allocating(t) == task[t].pc \in {"grabbed", "reload", "cancel", "schedule"} \/ (t = Loop /\ at = "accepted")
Room == Cardinality({i \in Info : kind[i] = None}) > Cardinality({t \in Thread : Allocating(t)})

ListenCallbackAccepts_OldFd(f) ==
    /\ Runs("listen") /\ Room
    /\ ready' = ready \ {"listen"}
    /\ s_fdCommand' = f /\ broken' = FALSE
    /\ index' = [index EXCEPT !["commands"] = 0]
    /\ at' = "accepted"
    /\ UNCHANGED <<watch_table, fd, readFds, nfds, timers, pending_list, listMutex, pipe, wait, running,
                   task, infos, wake, bounds>>

\* accept() and ril_event_set(&s_commands_event).
ListenCallbackAccepts(f) ==
    /\ Runs("listen") /\ Room
    /\ ready' = ready \ {"listen"}
    /\ s_fdCommand' = f /\ broken' = FALSE
    /\ fd' = [fd EXCEPT !["commands"] = f]
    /\ index' = [index EXCEPT !["commands"] = 0]
    /\ at' = "accepted"
    /\ UNCHANGED <<watch_table, readFds, nfds, timers, pending_list, listMutex, pipe, wait, running,
                   task, infos, wake, bounds>>

\* rilEventAddWakeup(&s_commands_event); then onNewCommandConnect() reports the
\* radio state, an unsolicited response that holds the wake lock.
WatchCommands ==
    /\ at = "accepted"
    /\ RilEventAdd("commands")
    /\ task' = [task EXCEPT ![Loop] = Doing("grabbed", "wake", None)]
    /\ wakeLock' = TRUE
    /\ at' = "tail"
    /\ UNCHANGED <<timers, pending_list, pipe, wait, running, world, infos, s_last_wake_timeout_info, bounds>>

\* processCommandsCallback(): requests, until there is no more to read ...
CommandsCallback ==
    /\ Runs("commands") /\ ~broken
    /\ ready' = ready \ {"commands"}
    /\ at' = "ran"
    /\ UNCHANGED <<table, timers, pending_list, listMutex, pipe, wait, running, broken, s_fdCommand,
                   task, infos, wake, bounds>>

\* ... or the end of the connection, or an error.
CommandsClosed ==
    /\ Runs("commands")
    /\ ready' = ready \ {"commands"}
    /\ s_fdCommand' = None /\ broken' = FALSE
    /\ RilEventDel("commands")
    /\ at' = "relisten"
    /\ UNCHANGED <<timers, pending_list, pipe, wait, running, task, infos, wake, bounds>>

Relisten ==
    /\ at = "relisten"
    /\ RilEventAdd("listen")
    /\ at' = "ran"
    /\ UNCHANGED <<timers, pending_list, pipe, wait, running, world, task, infos, wake, bounds>>

\* debugCallback().  Radio off closes the command socket and leaves it watched.
DebugCallback ==
    /\ Runs("debug")
    /\ ready' = ready \ {"debug"}
    /\ \/ UNCHANGED <<broken, s_fdCommand>>
       \/ s_fdCommand # None /\ s_fdCommand' = None /\ broken' = TRUE
    /\ at' = "ran"
    /\ UNCHANGED <<table, timers, pending_list, listMutex, pipe, wait, running, task, infos, wake, bounds>>

\* userTimerCallback() calls p_callback: the vendor library's, or wakeTimeoutCallback(),
\* which releases the wake lock unless it was cancelled.
TimerCallback ==
    /\ at = "run" /\ running \in Info
    /\ wakeLock' = IF kind[running] = "wake" /\ userParam[running] = 0 THEN FALSE ELSE wakeLock
    /\ at' = "ran"
    /\ UNCHANGED <<table, timers, pending_list, listMutex, pipe, wait, running, world, task, infos,
                   s_last_wake_timeout_info, bounds>>

\* The callback returns; userTimerCallback() then compares s_last_wake_timeout_info ...
CallbackReturns ==
    /\ at \in {"ran", "tail"} /\ task[Loop] = Idle
    /\ IF running \in Info
         THEN /\ at' = IF s_last_wake_timeout_info = running THEN "clear" ELSE "free"
              /\ UNCHANGED running
         ELSE at' = "fire" /\ running' = None
    /\ UNCHANGED <<table, timers, pending_list, listMutex, pipe, wait, world, task, infos, wake, bounds>>

\* ... clears it ...
ClearLastWake ==
    /\ at = "clear"
    /\ s_last_wake_timeout_info' = None
    /\ at' = "free"
    /\ UNCHANGED <<table, timers, pending_list, listMutex, pipe, wait, running, world, task, infos, wakeLock, bounds>>

\* ... and frees its argument.
FreeInfo ==
    /\ at = "free"
    /\ kind' = [kind EXCEPT ![running] = None]
    /\ userParam' = [userParam EXCEPT ![running] = 0]
    /\ left' = [left EXCEPT ![running] = None]
    /\ running' = None
    /\ at' = "fire"
    /\ UNCHANGED <<table, timer_list, pending_list, listMutex, pipe, wait, world, task, wake, bounds>>

-----------------------------------------------------------------------------
(* Calls into libril, by vendor threads or from a callback on the loop's thread. *)

CanStart(t) ==
    /\ task[t] = Idle /\ t # Main /\ Room /\ at # "crashed"
    /\ t = Loop => /\ at = "ran"
                   /\ \/ running \in {"commands", "debug"}
                      \/ running \in Info /\ kind[running] = "user"

Start(t, doing) ==
    /\ CanStart(t) /\ calls < MaxCalls
    /\ calls' = calls + 1
    /\ task' = [task EXCEPT ![t] = doing]
    /\ at' = IF t = Loop THEN "tail" ELSE at

\* RIL_requestTimedCallback().
RequestTimedCallback(t) ==
    /\ Start(t, Doing("schedule", "user", None))
    /\ UNCHANGED <<table, timers, pending_list, listMutex, pipe, wait, running, world, infos, wake, inputs>>

\* RIL_onUnsolicitedResponse() of a response with WAKE_PARTIAL.
OnUnsolicitedResponse(t) ==
    /\ Start(t, Doing("grabbed", "wake", None))
    /\ wakeLock' = TRUE
    /\ UNCHANGED <<table, timers, pending_list, listMutex, pipe, wait, running, world, infos,
                   s_last_wake_timeout_info, inputs>>

ErrorExit_KeepsLock(t) ==
    /\ task[t].pc = "grabbed"
    /\ task' = [task EXCEPT ![t] = Idle]
    /\ UNCHANGED <<table, timers, pending_list, listMutex, pipe, at, wait, running, world, infos, wake, bounds>>

\* The data do not fit the response: error_exit.
ErrorExit(t) ==
    /\ task[t].pc = "grabbed"
    /\ wakeLock' = FALSE
    /\ task' = [task EXCEPT ![t] = Idle]
    /\ UNCHANGED <<table, timers, pending_list, listMutex, pipe, at, wait, running, world, infos,
                   s_last_wake_timeout_info, bounds>>

\* sendResponse(), which closes the command socket when it cannot write; then the test
\* of s_last_wake_timeout_info, without a lock.  The write that follows the test uses the
\* pointer that was tested or, if the compiler did not keep it, one that is read again.
SendAndCheck(t) ==
    /\ task[t].pc = "grabbed"
    /\ broken' \in {broken, broken \/ s_fdCommand # None}
    /\ \E tested \in {Doing("cancel", "wake", s_last_wake_timeout_info), Doing("reload", "wake", None)} :
          task' = [task EXCEPT ![t] =
                     IF s_last_wake_timeout_info = None THEN Doing("schedule", "wake", None) ELSE tested]
    /\ UNCHANGED <<table, timers, pending_list, listMutex, pipe, at, wait, running, ready, s_fdCommand,
                   infos, wake, bounds>>

\* The second read.  If the loop cleared the pointer after the test, the write is through
\* NULL: the process ends, and no thread of it takes another step.
ReadAgain(t) ==
    /\ task[t].pc = "reload"
    /\ IF s_last_wake_timeout_info = None
         THEN at' = "crashed" /\ task' = [u \in Thread |-> Idle]
         ELSE /\ task' = [task EXCEPT ![t] = Doing("cancel", "wake", s_last_wake_timeout_info)]
              /\ UNCHANGED at
    /\ UNCHANGED <<table, timers, pending_list, listMutex, pipe, wait, running, world, infos, wake, bounds>>

\* "Cancel the previous request": the write may come after the free() of what it
\* writes to, and then reaches whoever was given that memory.
CancelPrevious(t) ==
    /\ task[t].pc = "cancel"
    /\ userParam' = [userParam EXCEPT ![task[t].info] = IF kind[task[t].info] = None THEN @ ELSE 1]
    /\ task' = [task EXCEPT ![t] = Doing("schedule", "wake", None)]
    /\ UNCHANGED <<table, timers, pending_list, listMutex, pipe, at, wait, running, world, kind, wake, bounds>>

Place_Last(k, delay) == k = Len(timer_list) + 1

\* ril_timer_add() walks past the timers that are due earlier, to place k.
Place(k, delay) ==
    /\ k <= Len(timer_list) => left[timer_list[k]] >= delay
    /\ \A j \in 1..(k - 1) : left[timer_list[j]] < delay

\* internalRequestTimedCallback(): malloc(), ril_event_set(), ril_timer_add() and
\* triggerEvLoop().
Schedule(t, i, delay) ==
    /\ task[t].pc = "schedule" /\ ~listMutex
    /\ kind[i] = None
    /\ task[t].cb = "wake" => delay = MaxDelay
    /\ kind' = [kind EXCEPT ![i] = task[t].cb]
    /\ userParam' = [userParam EXCEPT ![i] = 0]
    /\ left' = [left EXCEPT ![i] = delay]
    /\ \E k \in 1..(Len(timer_list) + 1) :
          /\ Place(k, delay)
          /\ timer_list' = SubSeq(timer_list, 1, k - 1) \o <<i>> \o SubSeq(timer_list, k, Len(timer_list))
    /\ TriggerEvLoop(t)
    /\ task' = [task EXCEPT ![t] = IF @.cb = "wake" THEN Doing("store", "wake", i) ELSE Idle]
    /\ UNCHANGED <<table, pending_list, listMutex, at, wait, running, world, wake, bounds>>

\* The timer may have been called back, and freed, by now.
StoreLastWake(t) ==
    /\ task[t].pc = "store"
    /\ s_last_wake_timeout_info' = task[t].info
    /\ task' = [task EXCEPT ![t] = Idle]
    /\ UNCHANGED <<table, timers, pending_list, listMutex, pipe, at, wait, running, world, infos, wakeLock, bounds>>

\* RIL_register() adds the listen event and then the debug event.
RegisterAdd(e, from, to) ==
    /\ task[Main].pc = from
    /\ RilEventAdd(e)
    /\ TriggerEvLoop(Main)
    /\ task' = [task EXCEPT ![Main].pc = to]
    /\ UNCHANGED <<timers, pending_list, at, wait, running, world, infos, wake, bounds>>

Register ==
    \/ RegisterAdd("listen", "addListen", "addDebug")
    \/ RegisterAdd("debug", "addDebug", "idle")

-----------------------------------------------------------------------------
(* The world.  Only select() looks at the descriptors, and only at those that   *)
(* are watched; time passes while it waits.  What arrives or expires earlier is *)
(* what select() finds at once.                                                 *)

BecomeReady(e) ==
    /\ at = "select"
    /\ e \notin ready /\ inputs < MaxInputs
    /\ inputs' = inputs + 1
    /\ index[e] # 0 /\ ~(e = "commands" /\ broken)
    /\ ready' = ready \cup {e}
    /\ UNCHANGED <<table, timers, pending_list, listMutex, pipe, at, wait, running, broken, s_fdCommand,
                   task, infos, wake, calls>>

Tick ==
    /\ at = "select"
    /\ left' = [i \in Info |-> IF left[i] \in {None, -1} THEN left[i] ELSE left[i] - 1]
    /\ limit' = IF limit \in {None, 0} THEN limit ELSE limit - 1
    /\ UNCHANGED <<table, timer_list, pending_list, listMutex, pipe, at, rfds, running, world, task, infos, wake, bounds>>

LoopStep ==
    \/ CreatePipe \/ PrepareSelect \/ Select \/ SelectFails \/ Collect \/ FirePending
    \/ WakeupCallback \/ ListenCallbackRefuses \/ WatchCommands
    \/ \E f \in CommandFd : ListenCallbackAccepts(f)
    \/ CommandsCallback \/ CommandsClosed \/ Relisten \/ DebugCallback \/ TimerCallback
    \/ CallbackReturns \/ ClearLastWake \/ FreeInfo

\* What a thread does to return from its call.
TaskStep(t) ==
    \/ ErrorExit(t) \/ SendAndCheck(t) \/ ReadAgain(t) \/ CancelPrevious(t) \/ StoreLastWake(t)
    \/ \E i \in Info, d \in 0..MaxDelay : Schedule(t, i, d)

Next ==
    \/ LoopStep \/ SelectInterrupted \/ Register \/ Tick
    \/ \E t \in Thread : TaskStep(t) \/ RequestTimedCallback(t) \/ OnUnsolicitedResponse(t)
    \/ \E e \in Event \ {"wakeup"} : BecomeReady(e)

Spec == Init /\ [][Next]_vars

\* The threads run and time passes; signals do not interrupt every select().
Fairness ==
    /\ WF_vars(LoopStep) /\ SF_vars(Select) /\ SF_vars(Tick) /\ WF_vars(Register)
    /\ \A t \in Thread : WF_vars(TaskStep(t))

FairSpec == Spec /\ Fairness

-----------------------------------------------------------------------------
(* Properties. *)

TaskTypeOK ==
    task \in [Thread -> [pc : {"idle", "grabbed", "reload", "cancel", "schedule", "store",
                               "addListen", "addDebug"},
                         cb : {"user", "wake"}, info : Info \cup {None}]]

\* Every variable has its type.
TypeOK ==
    /\ watch_table \in [Slot -> Event \cup {None}]
    /\ index \in [Event -> {0} \cup Slot]
    /\ fd \in [Event -> CommandFd \cup 0..3]
    /\ readFds \subseteq CommandFd \cup 1..3 /\ rfds \subseteq CommandFd \cup 1..3
    /\ nfds \in Nat
    /\ timer_list \in Seq(Info) /\ pending_list \in Seq(Info \cup Event)
    /\ left \in [Info -> -1..MaxDelay \cup {None}]
    /\ limit \in 0..MaxDelay \cup {None}
    /\ listMutex \in BOOLEAN /\ broken \in BOOLEAN /\ wakeLock \in BOOLEAN
    /\ pipe \in {"none", "empty", "full"}
    /\ at \in {"pipe", "copy", "select", "collect", "fire", "run", "accepted",
               "relisten", "ran", "tail", "clear", "free", "dead", "crashed"}
    /\ running \in Info \cup Event \cup {None}
    /\ ready \subseteq Event
    /\ s_fdCommand \in CommandFd \cup {None}
    /\ TaskTypeOK
    /\ kind \in [Info -> {"user", "wake", None}]
    /\ userParam \in [Info -> {0, 1}]
    /\ s_last_wake_timeout_info \in Info \cup {None}
    /\ calls \in 0..MaxCalls /\ inputs \in 0..MaxInputs

\* What select() is given matches the table: readFds holds exactly the descriptors of
\* the watched events, nfds is above all of them, and ev->index is the event's slot
\* (ril_event_add(), removeWatch(), and ril_event_set() of a reused event).
Covered ==
    /\ readFds = {fd[e] : e \in Watched(watch_table)}
    /\ \A f \in readFds : f < nfds
    /\ \A e \in Event : {s \in Slot : watch_table[s] = e} = {index[e]} \ {0}

\* The intrusive lists stay intact: an event is on one list, at one place; what is on
\* a list or runs is allocated, and is not set up again by ril_event_set().
ListsIntact ==
    LET queued == pending_list \o timer_list
    IN /\ \A j, k \in 1..Len(queued) : queued[j] = queued[k] => j = k
       /\ \A i \in Info : i = running \/ i \in Range(queued) => kind[i] # None
       /\ running # None => running \notin Range(queued)
       /\ at = "accepted" => "commands" \notin Range(queued) /\ "commands" \notin Watched(watch_table)

\* The timers on the pending list are in front of its events.
TimersFirst(list, n) == \A k \in 1..Len(list) : list[k] \in Info <=> k <= n
TimersOf(list) == SubSeq(list, 1, CHOOSE n \in 0..Len(list) : TimersFirst(list, n))
Queue == TimersOf(pending_list) \o timer_list
Armed == Watched(watch_table) \cup (Range(pending_list) \cap Event)
QueueLeft == [i \in Info |-> IF i \in Range(Queue) THEN left[i] ELSE None]
Abs == INSTANCE EventQueue WITH
          Timer <- Info, armed <- Armed, queue <- Queue, left <- QueueLeft

\* The promise of EventQueue: one callback at a time, timers in order, once and not
\* early, a non-persistent event once for each time it is added, and no event is lost.
ImplementsQueue == Abs!Spec

\* select() failed and the loop's thread ended, or the process crashed.
Ended == at \in {"dead", "crashed"}

\* Every timer is called back, and every watched event that is ready is served, unless
\* the loop ended: a thread that adds to the lists while the loop is between its copy
\* and select() wakes it through the pipe.
CalledBack ==
    /\ \A i \in Info : i \in Range(timer_list) ~> running = i \/ Ended
    /\ \A e \in Event \ {"wakeup"} :
          index[e] # 0 /\ e \in ready ~> running = e \/ Ended

\* When there are no more unsolicited responses the wake lock is released for good,
\* whichever threads cancelled whichever timers: the phone can sleep.
WakeReleased == wakeLock ~> ~wakeLock \/ Ended

\* assert(fd == s_fdCommand) in processCommandsCallback() can fail only when the
\* debug port closed the command socket earlier in the same round of callbacks.
CommandsFdCurrent == Runs("commands") /\ ~broken => fd["commands"] = s_fdCommand
=============================================================================
