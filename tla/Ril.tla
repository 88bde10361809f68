-------------------------------- MODULE Ril --------------------------------
(***************************************************************************)
(* The RIL daemon's command channel: hardware/ril/libril/ril.cpp.          *)
(*                                                                         *)
(* The event loop thread accepts one client at a time, reads its requests, *)
(* hands them to the vendor library and notices when the client leaves.    *)
(* Threads of the vendor library complete requests and report unsolicited  *)
(* events; they write to whatever s_fdCommand is when they look.           *)
(***************************************************************************)
EXTENDS Integers, FiniteSets

CONSTANTS
    Client,    \* connections to the command socket, each made once
    Request,   \* requests, each made once
    Fd,        \* file descriptors accept() may return
    Vendor,    \* threads of the vendor library
    Loop,      \* the event loop thread, s_tid_dispatch
    Other,     \* any unsolicited message that is not a NITZ time
    None,      \* NULL, or descriptor -1
    MaxNitz    \* bound on the NITZ times the network reports

ASSUME RilAssumption ==
    /\ MaxNitz \in Nat
    /\ Loop \notin Vendor /\ Loop \notin Client
    /\ None \notin Client \cup Request \cup Fd \cup Vendor \cup {Loop, Other}
    /\ None \notin Nat
    /\ Other \notin Request \cup Nat
    /\ Request \cap Nat = {}
    /\ Fd # {}

Thread == Vendor \cup {Loop}
Nitz == 1..MaxNitz
Message == Request \cup Nitz \cup {Other}

VARIABLES
    socket,             \* the daemon's end of each connection
    hungup,             \* the clients that closed their end
    unread,             \* requests sent and not read
    owner,              \* who made each request: a client, or Loop (debug port)
    frame,              \* per client: the message whose header came without its body
    got,                \* per client: the answers and NITZ times received whole
    file,               \* what each descriptor is open on
    s_fdCommand,
    watch,              \* which of the two command channel events are watched
    commandsFd,         \* s_commands_event.fd
    round,              \* the events of pending_list still to be fired
    at,                 \* where the event loop thread is
    serving,            \* the connection accepted last
    s_pendingRequests,  \* the requests on the list
    cancelled,          \* the requests with cancelled = 1
    held,               \* tokens the vendor library has still to complete
    call,               \* per thread: the response it is sending
    s_writeMutex,       \* the thread that holds it
    s_lastNITZTimeData,
    nitz,               \* NITZ times reported so far
    mishap,             \* a served connection was closed behind the event loop's back
    radioOff            \* history: the debug port's "radio off" came in this round

clients == <<socket, hungup, unread, owner, frame, got>>
channel == <<file, s_fdCommand, watch, commandsFd, serving>>
requests == <<s_pendingRequests, cancelled, held>>
sending == <<call, s_writeMutex>>
time == <<s_lastNITZTimeData, nitz>>
firing == <<round, radioOff>>
vars == <<clients, channel, at, requests, sending, time, mishap, firing>>

Idle == [stage |-> "idle", msg |-> None, fd |-> None]
Sending(m) == [stage |-> "send", msg |-> m, fd |-> None]

Init ==
    /\ socket = [c \in Client |-> "away"]
    /\ hungup = {} /\ unread = {}
    /\ owner = [r \in Request |-> None]
    /\ frame = [c \in Client |-> None]
    /\ got = [c \in Client |-> {}]
    /\ file = [f \in Fd |-> None]
    /\ s_fdCommand = None /\ commandsFd = None
    /\ watch = {"listen"} /\ round = {} /\ at = "loop" /\ serving = None
    /\ s_pendingRequests = {} /\ cancelled = {} /\ held = {}
    /\ call = [t \in Thread |-> Idle]
    /\ s_writeMutex = None
    /\ s_lastNITZTimeData = None /\ nitz = 0
    /\ mishap = FALSE /\ radioOff = FALSE

LoopAt(place) == at = place /\ call[Loop] = Idle

\* What a descriptor is open on: nothing, for descriptor -1.
OpenOn(f) == IF f = None THEN None ELSE file[f]

\* close(): the descriptor is free again, the client sees end-of-file and what was
\* on its way either way is lost.  Closing a descriptor that is not open does nothing.
CloseFd(f) ==
    /\ file' = [g \in Fd |-> IF g = f THEN None ELSE file[g]]
    /\ socket' = [c \in Client |-> IF OpenOn(f) = c THEN "closed" ELSE socket[c]]
    /\ frame' = [c \in Client |-> IF OpenOn(f) = c THEN None ELSE frame[c]]
    /\ unread' = {r \in unread : owner[r] # OpenOn(f)}

-----------------------------------------------------------------------------
(* Clients. *)

Connect(c) ==
    /\ socket[c] = "away"
    /\ socket' = [socket EXCEPT ![c] = "queued"]
    /\ UNCHANGED <<hungup, unread, owner, frame, got, channel, at, requests, sending, time, mishap, firing>>

SendRequest(c, r) ==
    /\ socket[c] \in {"queued", "open"} /\ c \notin hungup
    /\ owner[r] = None
    /\ owner' = [owner EXCEPT ![r] = c]
    /\ unread' = unread \cup {r}
    /\ UNCHANGED <<socket, hungup, frame, got, channel, at, requests, sending, time, mishap, firing>>

HangUp(c) ==
    /\ socket[c] \in {"queued", "open"} /\ c \notin hungup
    /\ hungup' = hungup \cup {c}
    /\ UNCHANGED <<socket, unread, owner, frame, got, channel, at, requests, sending, time, mishap, firing>>

-----------------------------------------------------------------------------
(* The event loop: the rounds of ril_event_loop(). *)

Served == OpenOn(commandsFd)

ReadyEvents ==
    {e \in watch :
       \/ e = "listen" /\ \E c \in Client : socket[c] = "queued"
       \/ e = "commands" /\ (Served \in hungup \/ \E r \in unread : owner[r] = Served)}

\* select() returns and processReadReadies() collects all that is ready; the debug port
\* may be.  The listen event is not persistent: it leaves the watch table here.
Select ==
    /\ LoopAt("loop") /\ round = {}
    /\ "commands" \in watch => Served # None
    /\ round' \in {ReadyEvents, ReadyEvents \cup {"debug"}} \ {{}}
    /\ watch' = watch \ (round' \cap {"listen"})
    /\ radioOff' = FALSE
    /\ UNCHANGED <<clients, file, s_fdCommand, commandsFd, serving, at, requests, sending, time, mishap>>

\* select() fails with EBADF and ril_event_loop() returns, for good.
SelectFails ==
    /\ LoopAt("loop") /\ round = {}
    /\ "commands" \in watch /\ Served = None
    /\ at' = "dead"
    /\ UNCHANGED <<clients, channel, requests, sending, time, mishap, firing>>

\* firePending() calls back for every event it collected before the next select(), in the
\* order of their slots in the watch table.  The debug port's is before or after the
\* command channel's: RIL_register() may add it after a first listen event fired.
Fire(e) == LoopAt("loop") /\ e \in round /\ round' = round \ {e}

FireListen ==
    /\ Fire("listen")
    /\ at' = "listen"
    /\ UNCHANGED <<clients, channel, requests, sending, time, mishap, radioOff>>

FireCommands ==
    /\ Fire("commands")
    /\ at' = "read"
    /\ UNCHANGED <<clients, channel, requests, sending, time, mishap, radioOff>>

-----------------------------------------------------------------------------
(* The event loop: a new connection. *)

AcceptFails ==
    /\ LoopAt("listen")
    /\ watch' = watch \cup {"listen"}
    /\ at' = "loop"
    /\ UNCHANGED <<clients, file, s_fdCommand, commandsFd, serving, requests, sending, time, mishap, firing>>

\* s_fdCommand is set, for every thread to see, before the credentials are checked.
Accept(c, f) ==
    /\ LoopAt("listen")
    /\ socket[c] = "queued" /\ file[f] = None
    /\ s_fdCommand' = f
    /\ file' = [file EXCEPT ![f] = c]
    /\ socket' = [socket EXCEPT ![c] = "open"]
    /\ serving' = c
    /\ at' = "creds"
    /\ UNCHANGED <<hungup, unread, owner, frame, got, watch, commandsFd, requests, sending, time, mishap, firing>>

\* Not the phone process.
Refuse ==
    /\ LoopAt("creds")
    /\ CloseFd(s_fdCommand)
    /\ s_fdCommand' = None
    /\ watch' = watch \cup {"listen"}
    /\ at' = "closing"
    /\ UNCHANGED <<hungup, owner, got, commandsFd, serving, requests, sending, time, mishap, firing>>

\* The commands event is set up and onNewCommandConnect() reports the radio state.
Welcome ==
    /\ LoopAt("creds")
    /\ commandsFd' = s_fdCommand
    /\ watch' = watch \cup {"commands"}
    /\ call' = [call EXCEPT ![Loop] = Sending(Other)]
    /\ at' = "connect"
    /\ UNCHANGED <<clients, file, s_fdCommand, serving, requests, s_writeMutex, time, mishap, firing>>

\* "Send last NITZ time data, in case it was missed" ...
SendLastNitz ==
    /\ LoopAt("connect")
    /\ IF s_lastNITZTimeData # None
         THEN /\ call' = [call EXCEPT ![Loop] = Sending(s_lastNITZTimeData)]
              /\ at' = "nitz"
         ELSE at' = "loop" /\ UNCHANGED call
    /\ UNCHANGED <<clients, channel, requests, s_writeMutex, time, mishap, firing>>

\* ... and forget it, whatever became of it and whatever is there by now.
FreeLastNitz ==
    /\ LoopAt("nitz")
    /\ s_lastNITZTimeData' = None
    /\ at' = "loop"
    /\ UNCHANGED <<clients, channel, requests, sending, nitz, mishap, firing>>

-----------------------------------------------------------------------------
(* The event loop: requests, and the end of a connection. *)

\* processCommandBuffer(): the request is unreadable or unknown and is dropped,
\* or is put on the list; its dispatch function gives it to the vendor library
\* unless invalidCommandBlock().
ReadRequest(r) ==
    /\ LoopAt("read")
    /\ r \in unread /\ owner[r] = Served
    /\ unread' = unread \ {r}
    /\ \/ UNCHANGED <<s_pendingRequests, held>>
       \/ /\ s_pendingRequests' = s_pendingRequests \cup {r}
          /\ held' \in {held, held \cup {r}}
    /\ UNCHANGED <<socket, hungup, owner, frame, got, channel, at, cancelled, sending, time, mishap, firing>>

\* EAGAIN.
ReadNothing ==
    /\ LoopAt("read")
    /\ Served # None /\ Served \notin hungup
    /\ \A r \in unread : owner[r] # Served
    /\ at' = "loop"
    /\ UNCHANGED <<clients, channel, requests, sending, time, mishap, firing>>

CloseCommands_KeepsFd ==
    /\ CloseFd(s_fdCommand)
    /\ watch' = (watch \ {"commands"}) \cup {"listen"}
    /\ at' = "closing"
    /\ UNCHANGED <<hungup, owner, got, s_fdCommand, commandsFd, serving, requests, sending, time, mishap, firing>>

CloseCommands_Deaf ==
    /\ CloseFd(s_fdCommand)
    /\ s_fdCommand' = None
    /\ watch' = watch \ {"commands"}
    /\ at' = "closing"
    /\ UNCHANGED <<hungup, owner, got, commandsFd, serving, requests, sending, time, mishap, firing>>

CloseCommands ==
    /\ CloseFd(s_fdCommand)
    /\ s_fdCommand' = None
    /\ watch' = (watch \ {"commands"}) \cup {"listen"}
    /\ at' = "closing"
    /\ UNCHANGED <<hungup, owner, got, commandsFd, serving, requests, sending, time, mishap, firing>>

EndOfStream ==
    /\ LoopAt("read")
    /\ Served \in hungup
    /\ \A r \in unread : owner[r] # Served
    /\ CloseCommands

\* A record that is too long, or a descriptor that was closed.  (When "radio off" closed
\* it, the callback's assertion fails first; this is then a build without assertions.)
ReadError == LoopAt("read") /\ CloseCommands

OnCommandsSocketClosed_Forgets ==
    /\ LoopAt("closing")
    /\ at' = "loop"
    /\ UNCHANGED <<clients, channel, requests, sending, time, mishap, firing>>

\* "mark pending requests as "cancelled" so we dont report responses"
OnCommandsSocketClosed ==
    /\ LoopAt("closing")
    /\ cancelled' = cancelled \cup s_pendingRequests
    /\ at' = "loop"
    /\ UNCHANGED <<clients, channel, s_pendingRequests, held, sending, time, mishap, firing>>

-----------------------------------------------------------------------------
(* The event loop: the debug port. *)

\* issueLocalRequest(), for each of the requests.
Local(issued) ==
    /\ \A r \in issued : owner[r] = None
    /\ owner' = [r \in Request |-> IF r \in issued THEN Loop ELSE owner[r]]
    /\ s_pendingRequests' = s_pendingRequests \cup issued
    /\ held' = held \cup issued

\* The connection or its arguments cannot be read.
DebugIgnored ==
    /\ Fire("debug")
    /\ UNCHANGED <<clients, channel, at, requests, sending, time, mishap, radioOff>>

\* One request or, for "Radio On", two.
DebugRequest(r, q) ==
    /\ Fire("debug")
    /\ Local({r, q})
    /\ at' = "debug"
    /\ UNCHANGED <<socket, hungup, unread, frame, got, channel, cancelled, sending, time, mishap, radioOff>>

DebugReport ==
    /\ Fire("debug")
    /\ call' = [call EXCEPT ![Loop] = Sending(Other)]
    /\ at' = "debug"
    /\ UNCHANGED <<clients, channel, requests, s_writeMutex, time, mishap, radioOff>>

\* "Radio off" issues its request ...
DebugRadioOff(r) ==
    /\ Fire("debug")
    /\ Local({r})
    /\ at' = "off"
    /\ UNCHANGED <<socket, hungup, unread, frame, got, channel, cancelled, sending, time, mishap, radioOff>>

\* ... then closes the command socket and leaves its event watched.
DebugCloseSocket ==
    /\ LoopAt("off")
    /\ CloseFd(s_fdCommand)
    /\ s_fdCommand' = None
    /\ mishap' = (mishap \/ s_fdCommand # None)
    /\ radioOff' = TRUE
    /\ at' = "debug"
    /\ UNCHANGED <<hungup, owner, got, watch, commandsFd, serving, requests, sending, time, round>>

DebugDone ==
    /\ LoopAt("debug")
    /\ at' = "loop"
    /\ UNCHANGED <<clients, channel, requests, sending, time, mishap, firing>>

-----------------------------------------------------------------------------
(* Calls of the vendor library into libril, on its own threads or, from within *)
(* onRequest(), on the event loop's.                                           *)

CanCall(t) == call[t] = Idle /\ (t = Loop => at \in {"read", "off", "debug"})

CheckAndDequeueRequestInfo_Keeps(r) == UNCHANGED s_pendingRequests

CheckAndDequeueRequestInfo(r) == s_pendingRequests' = s_pendingRequests \ {r}

\* RIL_onRequestComplete().  A token may be completed again: it is then no
\* longer on the list, and is ignored.
OnRequestComplete(t, r) ==
    /\ CanCall(t) /\ r \in held
    /\ held' \in {held, held \ {r}}
    /\ IF r \in s_pendingRequests
         THEN /\ CheckAndDequeueRequestInfo(r)
              /\ call' = IF owner[r] = Loop \/ r \in cancelled THEN call
                         ELSE [call EXCEPT ![t] = Sending(r)]
         ELSE UNCHANGED <<s_pendingRequests, call>>
    /\ UNCHANGED <<clients, channel, at, cancelled, s_writeMutex, time, mishap, firing>>

\* RIL_onUnsolicitedResponse(), of anything but a NITZ time.
OnUnsolicitedResponse(t) ==
    /\ t # Loop /\ CanCall(t)
    /\ call' = [call EXCEPT ![t] = Sending(Other)]
    /\ UNCHANGED <<clients, channel, at, requests, s_writeMutex, time, mishap, firing>>

OnNitzTimeReceived(t) ==
    /\ t # Loop /\ CanCall(t)
    /\ nitz < MaxNitz
    /\ nitz' = nitz + 1
    /\ call' = [call EXCEPT ![t] = Sending(nitz + 1)]
    /\ UNCHANGED <<clients, channel, at, requests, s_writeMutex, s_lastNITZTimeData, mishap, firing>>

ReturnTo_Keeps(t, ok) ==
    call' = [call EXCEPT ![t] = IF ~ok /\ t # Loop THEN [@ EXCEPT !.stage = "drop"] ELSE Idle]

\* sendResponse() returns: a NITZ time the vendor could not send will be kept.
ReturnTo(t, ok) ==
    call' = [call EXCEPT ![t] = IF ~ok /\ t # Loop /\ @.msg \in Nitz
                                  THEN [@ EXCEPT !.stage = "drop"] ELSE Idle]

\* sendResponseRaw(), before it takes s_writeMutex: it reads s_fdCommand for the
\* descriptor ...
SendResponse(t) ==
    /\ call[t].stage = "send"
    /\ call' = [call EXCEPT ![t].stage = "check", ![t].fd = s_fdCommand]
    /\ UNCHANGED <<clients, channel, at, requests, s_writeMutex, time, mishap, firing>>

\* ... and once more to see whether there is one.  It fails without a connection, or
\* when the message is too long.
CheckConnected(t) ==
    /\ call[t].stage = "check"
    /\ \/ /\ s_fdCommand = None \/ call[t].msg \in Request
          /\ ReturnTo(t, FALSE)
       \/ /\ s_fdCommand # None
          /\ call' = [call EXCEPT ![t].stage = "lock"]
    /\ UNCHANGED <<clients, channel, at, requests, s_writeMutex, time, mishap, firing>>

LockWrite_Open(t) ==
    /\ call[t].stage = "lock"
    /\ s_writeMutex' = t
    /\ call' = [call EXCEPT ![t].stage = "head"]
    /\ UNCHANGED <<clients, channel, at, requests, time, mishap, firing>>

LockWrite(t) ==
    /\ call[t].stage = "lock" /\ s_writeMutex = None
    /\ s_writeMutex' = t
    /\ call' = [call EXCEPT ![t].stage = "head"]
    /\ UNCHANGED <<clients, channel, at, requests, time, mishap, firing>>

\* The descriptor is open on a connection whose client reads.
Reaches(t, c) == OpenOn(call[t].fd) = c /\ c \notin hungup

WriteHeader(t, c) ==
    /\ call[t].stage = "head" /\ Reaches(t, c)
    /\ frame' = [frame EXCEPT ![c] = call[t].msg]
    /\ call' = [call EXCEPT ![t].stage = "body"]
    /\ UNCHANGED <<socket, hungup, unread, owner, got, channel, at, requests, s_writeMutex, time, mishap, firing>>

\* The copy of a NITZ time the event loop sends may be replaced under its hands.
WriteBody(t, c) ==
    /\ call[t].stage = "body" /\ Reaches(t, c)
    /\ frame' = [frame EXCEPT ![c] = None]
    /\ \E m \in {call[t].msg} \cup IF t = Loop /\ call[t].msg \in Nitz
                                     THEN {s_lastNITZTimeData} \ {None} ELSE {} :
         got' = [got EXCEPT ![c] = @ \cup ({m} \ {Other})]
    /\ s_writeMutex' = None
    /\ ReturnTo(t, TRUE)
    /\ UNCHANGED <<socket, hungup, unread, owner, channel, at, requests, time, mishap, firing>>

WriteFails_Locked(t) ==
    /\ call[t].stage \in {"head", "body"}
    /\ CloseFd(call[t].fd)
    /\ mishap' = (mishap \/ OpenOn(call[t].fd) # None)
    /\ ReturnTo(t, FALSE)
    /\ UNCHANGED <<hungup, owner, got, s_fdCommand, watch, commandsFd, serving, at, requests, s_writeMutex, time, firing>>

\* blockingWrite() fails: the client is gone, its queue is full (the socket does
\* not block), or the descriptor is closed.  It closes the descriptor itself.
WriteFails(t) ==
    /\ call[t].stage \in {"head", "body"}
    /\ CloseFd(call[t].fd)
    /\ mishap' = (mishap \/ OpenOn(call[t].fd) # None)
    /\ s_writeMutex' = None
    /\ ReturnTo(t, FALSE)
    /\ UNCHANGED <<hungup, owner, got, s_fdCommand, watch, commandsFd, serving, at, requests, time, firing>>

\* The last NITZ time is freed and replaced by the one that could not be sent.
DropNitz(t) ==
    /\ call[t].stage = "drop"
    /\ s_lastNITZTimeData' = None
    /\ call' = [call EXCEPT ![t].stage = "keep"]
    /\ UNCHANGED <<clients, channel, at, requests, s_writeMutex, nitz, mishap, firing>>

KeepNitz(t) ==
    /\ call[t].stage = "keep"
    /\ s_lastNITZTimeData' = call[t].msg
    /\ call' = [call EXCEPT ![t] = Idle]
    /\ UNCHANGED <<clients, channel, at, requests, s_writeMutex, nitz, mishap, firing>>

-----------------------------------------------------------------------------
ClientStep ==
    \/ \E c \in Client : Connect(c) \/ HangUp(c)
    \/ \E c \in Client, r \in Request : SendRequest(c, r)

\* What the event loop goes on doing once a callback runs.
CallbackStep ==
    \/ FireListen \/ FireCommands \/ DebugIgnored
    \/ AcceptFails \/ Refuse \/ Welcome \/ SendLastNitz \/ FreeLastNitz
    \/ \E c \in Client, f \in Fd : Accept(c, f)
    \/ \E r \in Request : ReadRequest(r)
    \/ ReadNothing \/ EndOfStream \/ ReadError \/ OnCommandsSocketClosed
    \/ DebugCloseSocket \/ DebugDone

DebugStep ==
    \/ \E r, q \in Request : DebugRequest(r, q)
    \/ \E r \in Request : DebugRadioOff(r)
    \/ DebugReport

\* What a thread does to return from a call.
SendStep(t) ==
    \/ SendResponse(t) \/ CheckConnected(t) \/ LockWrite(t) \/ WriteFails(t) \/ DropNitz(t) \/ KeepNitz(t)
    \/ \E c \in Client : WriteHeader(t, c) \/ WriteBody(t, c)

VendorStep(t) ==
    \/ \E r \in Request : OnRequestComplete(t, r)
    \/ OnUnsolicitedResponse(t) \/ OnNitzTimeReceived(t)

Next ==
    \/ ClientStep \/ Select \/ SelectFails \/ CallbackStep \/ DebugStep
    \/ \E t \in Thread : SendStep(t) \/ VendorStep(t)

Spec == Init /\ [][Next]_vars

\* Threads run and s_writeMutex is fair; select() returns when a watched event is ready
\* and its round is served; accept() does not fail for ever.
Fairness ==
    /\ WF_vars(Select /\ ReadyEvents # {}) /\ WF_vars(CallbackStep)
    /\ SF_vars(\E c \in Client, f \in Fd : Accept(c, f))
    /\ \A t \in Thread : WF_vars(SendStep(t)) /\ SF_vars(LockWrite(t))

FairSpec == Spec /\ Fairness

-----------------------------------------------------------------------------
(* Properties. *)

SocketTypeOK ==
    /\ socket \in [Client -> {"away", "queued", "open", "closed"}]
    /\ hungup \subseteq Client
    /\ owner \in [Request -> Client \cup {Loop, None}]
    /\ unread \subseteq Request
    /\ frame \in [Client -> Message \cup {None}]
    /\ got \in [Client -> SUBSET Message]

ChannelTypeOK ==
    /\ file \in [Fd -> Client \cup {None}]
    /\ s_fdCommand \in Fd \cup {None}
    /\ commandsFd \in Fd \cup {None}
    /\ watch \subseteq {"listen", "commands"}
    /\ serving \in Client \cup {None}
    /\ round \subseteq {"listen", "commands", "debug"}
    /\ at \in {"loop", "listen", "creds", "connect", "nitz", "read", "closing", "debug", "off", "dead"}

RequestTypeOK ==
    /\ s_pendingRequests \subseteq Request
    /\ cancelled \subseteq Request
    /\ held \subseteq Request

CallTypeOK ==
    /\ call \in [Thread -> [stage : {"idle", "send", "check", "lock", "head", "body", "drop", "keep"},
                            msg : Message \cup {None}, fd : Fd \cup {None}]]
    /\ \A t \in Thread :
          /\ call[t].stage # "idle" => call[t].msg \in Message
          /\ call[t].stage \in {"drop", "keep"} => call[t].msg \in Nitz
    /\ s_writeMutex \in Thread \cup {None}

TimeTypeOK ==
    /\ s_lastNITZTimeData \in Nitz \cup {None}
    /\ nitz \in 0..MaxNitz
    /\ mishap \in BOOLEAN /\ radioOff \in BOOLEAN

\* Every variable has its type: only a NITZ time is ever kept for the next client, and
\* a thread that sends may well have descriptor -1, which sendResponseRaw() read before
\* the connection its check found.
TypeOK == SocketTypeOK /\ ChannelTypeOK /\ RequestTypeOK /\ CallTypeOK /\ TimeTypeOK

\* The assertions of the event loop's callbacks, whatever other threads do:
\* listenCallback() finds no client (assert (s_fdCommand < 0)), and
\* processCommandsCallback() is called for the client's descriptor
\* (assert(fd == s_fdCommand)) unless the debug port's "radio off" was fired before it
\* in the same round of firePending(): there, and only there, the assertion fails.
AssertionsHold ==
    /\ at = "listen" => s_fdCommand = None
    /\ at = "read" /\ ~radioOff => commandsFd # None /\ commandsFd = s_fdCommand

\* A request on the list that is not cancelled was made by the debug port or by the
\* client accepted last: no connection inherits the requests of an earlier one
\* (onCommandsSocketClosed() before the next accept()).
NoneInherited ==
    \A r \in s_pendingRequests \ cancelled : owner[r] \in {Loop, serving}

\* No request is answered twice, even when the vendor library completes it twice:
\* it is on the list, or one thread answers it, or one client has the answer, and
\* never two of these (checkAndDequeueRequestInfo()).
Unanswered(r) == (\A t \in Thread : call[t].msg # r) /\ (\A c \in Client : r \notin got[c])

AnsweredOnce ==
    \A r \in Request :
       /\ r \in s_pendingRequests => Unanswered(r)
       /\ \A t, u \in Thread : call[t].msg = r /\ call[u].msg = r => t = u
       /\ \A t \in Thread, c \in Client : ~(call[t].msg = r /\ r \in got[c])
       /\ \A c, d \in Client : r \in got[c] \cap got[d] => c = d

\* Once a client has the header of a message, the next it receives is that message's
\* body: s_writeMutex keeps other threads' messages out.
Whole == \A c \in Client : frame[c] # None => frame'[c] \in {frame[c], None}
FramesWhole == [][Whole]_vars

\* A client that waits is accepted, unless another one is being served or a served
\* connection was closed without the event loop's knowledge: once a client is gone
\* the loop listens again.
SomeoneServed == \E c \in Client : socket[c] = "open" /\ c \notin hungup
ListensAgain ==
    \A c \in Client : socket[c] = "queued" ~> socket[c] # "queued" \/ SomeoneServed \/ mishap

\* Every call into libril returns: s_writeMutex is released on every path, the
\* failing ones included.
CallsReturn == \A t \in Thread : call[t] # Idle ~> call[t] = Idle

\* ril.cpp says of the requests pending when a connection closes "mark pending
\* requests as "cancelled" so we dont report responses": an answer goes to the client
\* that asked.
AnswersAsker ==
    \A c \in Client : \A r \in got[c] \cap Request : owner[r] = c
=============================================================================
