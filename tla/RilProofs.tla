----------------------------- MODULE RilProofs -----------------------------
(***************************************************************************)
(* Proofs about Ril: its types, the assertions of the event loop, that no  *)
(* request is inherited by a later connection or answered twice, and that  *)
(* messages are not mixed.                                                 *)
(***************************************************************************)
EXTENDS Ril, TLAPS

-----------------------------------------------------------------------------
(* Type correctness. *)

\* Every step keeps the types of what belongs to the clients.
LEMMA SocketTypeStep == TypeOK /\ [Next]_vars => SocketTypeOK'
<1> SUFFICES ASSUME TypeOK, [Next]_vars PROVE SocketTypeOK'
  OBVIOUS
<1>1. ASSUME NEW c \in Client, Connect(c) PROVE SocketTypeOK'
  BY <1>1, RilAssumption
     DEF Connect, clients, TypeOK, SocketTypeOK, CallTypeOK, TimeTypeOK, Thread,
         Message, Nitz
<1>2. ASSUME NEW c \in Client, HangUp(c) PROVE SocketTypeOK'
  BY <1>2, RilAssumption
     DEF HangUp, clients, TypeOK, SocketTypeOK, CallTypeOK, TimeTypeOK, Thread,
         Message, Nitz
<1>3. ASSUME NEW c \in Client, NEW r \in Request, SendRequest(c, r) PROVE SocketTypeOK'
  BY <1>3, RilAssumption
     DEF SendRequest, clients, TypeOK, SocketTypeOK, CallTypeOK, TimeTypeOK, Thread,
         Message, Nitz
<1>4. ASSUME NEW c \in Client, NEW f \in Fd, Accept(c, f) PROVE SocketTypeOK'
  BY <1>4, RilAssumption
     DEF Accept, LoopAt, clients, TypeOK, SocketTypeOK, CallTypeOK, TimeTypeOK,
         Thread, Message, Nitz
<1>5. ASSUME Refuse PROVE SocketTypeOK'
  BY <1>5, RilAssumption
     DEF Refuse, CloseFd, OpenOn, LoopAt, clients, TypeOK, SocketTypeOK, CallTypeOK,
         TimeTypeOK, Thread, Message, Nitz
<1>6. ASSUME NEW r \in Request, ReadRequest(r) PROVE SocketTypeOK'
  BY <1>6, RilAssumption
     DEF ReadRequest, Served, OpenOn, LoopAt, clients, TypeOK, SocketTypeOK, CallTypeOK,
         TimeTypeOK, Thread, Message, Nitz
<1>7. ASSUME EndOfStream PROVE SocketTypeOK'
  BY <1>7, RilAssumption
     DEF EndOfStream, CloseCommands, CloseFd, OpenOn, Served, LoopAt, clients, TypeOK,
         SocketTypeOK, CallTypeOK, TimeTypeOK, Thread, Message, Nitz
<1>8. ASSUME ReadError PROVE SocketTypeOK'
  BY <1>8, RilAssumption
     DEF ReadError, CloseCommands, CloseFd, OpenOn, LoopAt, clients, TypeOK, SocketTypeOK,
         CallTypeOK, TimeTypeOK, Thread, Message, Nitz
<1>9. ASSUME NEW r \in Request, NEW q \in Request, DebugRequest(r, q) PROVE SocketTypeOK'
  BY <1>9, RilAssumption
     DEF DebugRequest, Fire, Local, LoopAt, clients, TypeOK, SocketTypeOK, CallTypeOK,
         TimeTypeOK, Thread, Message, Nitz
<1>10. ASSUME NEW r \in Request, DebugRadioOff(r) PROVE SocketTypeOK'
  BY <1>10, RilAssumption
     DEF DebugRadioOff, Fire, Local, CloseFd, OpenOn, LoopAt, clients, TypeOK,
         SocketTypeOK, CallTypeOK, TimeTypeOK, Thread, Message, Nitz
<1>11. ASSUME DebugCloseSocket PROVE SocketTypeOK'
  BY <1>11, RilAssumption
     DEF DebugCloseSocket, CloseFd, OpenOn, LoopAt, clients, TypeOK, SocketTypeOK,
         CallTypeOK, TimeTypeOK, Thread, Message, Nitz
<1>12. ASSUME NEW t \in Thread, NEW c \in Client, WriteHeader(t, c) PROVE SocketTypeOK'
  BY <1>12, RilAssumption
     DEF WriteHeader, Reaches, OpenOn, clients, TypeOK, SocketTypeOK, CallTypeOK,
         TimeTypeOK, Thread, Message, Nitz
<1>13. ASSUME NEW t \in Thread, NEW c \in Client, WriteBody(t, c) PROVE SocketTypeOK'
  BY <1>13, RilAssumption
     DEF WriteBody, ReturnTo, Idle, Reaches, OpenOn, clients, TypeOK, SocketTypeOK,
         CallTypeOK, TimeTypeOK, Thread, Message, Nitz
<1>14. ASSUME NEW t \in Thread, WriteFails(t) PROVE SocketTypeOK'
  BY <1>14, RilAssumption
     DEF WriteFails, ReturnTo, CloseFd, OpenOn, Idle, clients, TypeOK, SocketTypeOK,
         CallTypeOK, TimeTypeOK, Thread, Message, Nitz
<1>15. ASSUME UNCHANGED <<socket, hungup, unread, owner, frame, got>> PROVE SocketTypeOK'
  BY <1>15 DEF TypeOK, SocketTypeOK, CallTypeOK, TimeTypeOK
<1>16. ASSUME Select \/ AcceptFails \/ Welcome \/ SendLastNitz \/ FreeLastNitz
            \/ FireListen \/ FireCommands \/ DebugIgnored \/ SelectFails
            \/ ReadNothing \/ OnCommandsSocketClosed
            \/ DebugReport \/ DebugDone
    PROVE  SocketTypeOK'
  BY <1>16, <1>15
     DEF Select, AcceptFails, Welcome, SendLastNitz, FreeLastNitz, Fire, FireListen,
         FireCommands, DebugIgnored, SelectFails, ReadNothing, OnCommandsSocketClosed,
         DebugReport, DebugDone, clients
<1>17. ASSUME NEW t \in Thread, NEW r \in Request, OnRequestComplete(t, r)
    PROVE  SocketTypeOK'
  BY <1>17, <1>15 DEF OnRequestComplete, CheckAndDequeueRequestInfo, clients
<1>18. ASSUME NEW t \in Thread, OnUnsolicitedResponse(t) \/ OnNitzTimeReceived(t)
            \/ SendResponse(t) \/ CheckConnected(t) \/ LockWrite(t) \/ DropNitz(t)
            \/ KeepNitz(t)
    PROVE  SocketTypeOK'
  BY <1>18, <1>15, Zenon
     DEF OnUnsolicitedResponse, OnNitzTimeReceived, SendResponse, CheckConnected,
         LockWrite, DropNitz, KeepNitz, clients
<1>19. CASE UNCHANGED vars
  BY <1>19, <1>15 DEF vars, clients
<1>20. CASE ClientStep
  BY <1>20, <1>1, <1>2, <1>3 DEF ClientStep
<1>21. CASE CallbackStep
  BY <1>21, <1>16, <1>5, <1>4, <1>6, <1>7, <1>8, <1>11 DEF CallbackStep
<1>22. CASE DebugStep
  BY <1>22, <1>9, <1>10, <1>16 DEF DebugStep
<1>23. ASSUME NEW t \in Thread, SendStep(t) PROVE SocketTypeOK'
  BY <1>23, <1>18, <1>14, <1>12, <1>13 DEF SendStep
<1>24. ASSUME NEW t \in Thread, VendorStep(t) PROVE SocketTypeOK'
  BY <1>24, <1>17, <1>18 DEF VendorStep
<1> QED
  BY <1>19, <1>20, <1>21, <1>22, <1>23, <1>24, <1>16 DEF Next

\* Every step keeps the types of the command channel's state.
LEMMA ChannelTypeStep == TypeOK /\ [Next]_vars => ChannelTypeOK'
<1> SUFFICES ASSUME TypeOK, [Next]_vars PROVE ChannelTypeOK'
  OBVIOUS
<1>1. ASSUME Select PROVE ChannelTypeOK'
  BY <1>1, RilAssumption
     DEF Select, ReadyEvents, LoopAt, channel, firing, TypeOK, ChannelTypeOK, CallTypeOK
<1>2. ASSUME AcceptFails PROVE ChannelTypeOK'
  BY <1>2, RilAssumption
     DEF AcceptFails, LoopAt, channel, firing, TypeOK, ChannelTypeOK, CallTypeOK
<1>3. ASSUME NEW c \in Client, NEW f \in Fd, Accept(c, f) PROVE ChannelTypeOK'
  BY <1>3, RilAssumption
     DEF Accept, LoopAt, channel, firing, TypeOK, ChannelTypeOK, CallTypeOK
<1>4. ASSUME Refuse PROVE ChannelTypeOK'
  BY <1>4, RilAssumption, Zenon
     DEF Refuse, CloseFd, OpenOn, LoopAt, channel, firing, TypeOK, ChannelTypeOK,
         CallTypeOK
<1>5. ASSUME Welcome PROVE ChannelTypeOK'
  BY <1>5, RilAssumption
     DEF Welcome, Sending, LoopAt, channel, firing, TypeOK, ChannelTypeOK, CallTypeOK
<1>6. ASSUME SendLastNitz PROVE ChannelTypeOK'
  BY <1>6, RilAssumption
     DEF SendLastNitz, Sending, LoopAt, channel, firing, TypeOK, ChannelTypeOK, CallTypeOK
<1>7. ASSUME FreeLastNitz PROVE ChannelTypeOK'
  BY <1>7, RilAssumption
     DEF FreeLastNitz, LoopAt, channel, firing, TypeOK, ChannelTypeOK, CallTypeOK
<1>8. ASSUME FireListen \/ FireCommands \/ DebugIgnored PROVE ChannelTypeOK'
  BY <1>8, RilAssumption, Zenon
     DEF FireListen, FireCommands, DebugIgnored, Fire, LoopAt, channel, firing, TypeOK,
         ChannelTypeOK, CallTypeOK
<1>9. ASSUME SelectFails PROVE ChannelTypeOK'
  BY <1>9, RilAssumption
     DEF SelectFails, Served, LoopAt, channel, firing, TypeOK, ChannelTypeOK, CallTypeOK
<1>10. ASSUME ReadNothing PROVE ChannelTypeOK'
  BY <1>10, RilAssumption
     DEF ReadNothing, LoopAt, channel, firing, TypeOK, ChannelTypeOK, CallTypeOK
<1>11. ASSUME EndOfStream PROVE ChannelTypeOK'
  BY <1>11, RilAssumption, Zenon
     DEF EndOfStream, CloseCommands, CloseFd, OpenOn, Served, LoopAt, channel, firing,
         TypeOK, ChannelTypeOK, CallTypeOK
<1>12. ASSUME ReadError PROVE ChannelTypeOK'
  BY <1>12, RilAssumption, Zenon
     DEF ReadError, CloseCommands, CloseFd, OpenOn, LoopAt, channel, firing, TypeOK,
         ChannelTypeOK, CallTypeOK
<1>13. ASSUME OnCommandsSocketClosed PROVE ChannelTypeOK'
  BY <1>13, RilAssumption
     DEF OnCommandsSocketClosed, LoopAt, channel, firing, TypeOK, ChannelTypeOK,
         CallTypeOK
<1>14. ASSUME NEW r \in Request, NEW q \in Request, DebugRequest(r, q) PROVE ChannelTypeOK'
  BY <1>14, RilAssumption
     DEF DebugRequest, Fire, Local, LoopAt, channel, firing, TypeOK, ChannelTypeOK,
         CallTypeOK
<1>15. ASSUME NEW r \in Request, DebugRadioOff(r) PROVE ChannelTypeOK'
  BY <1>15, RilAssumption
     DEF DebugRadioOff, Fire, Local, CloseFd, OpenOn, LoopAt, channel, firing, TypeOK,
         ChannelTypeOK, CallTypeOK
<1>16. ASSUME DebugCloseSocket PROVE ChannelTypeOK'
  BY <1>16, RilAssumption
     DEF DebugCloseSocket, CloseFd, LoopAt, channel, firing, TypeOK, ChannelTypeOK,
         CallTypeOK
<1>17. ASSUME DebugReport PROVE ChannelTypeOK'
  BY <1>17, RilAssumption
     DEF DebugReport, Fire, Sending, LoopAt, channel, firing, TypeOK, ChannelTypeOK,
         CallTypeOK
<1>18. ASSUME DebugDone PROVE ChannelTypeOK'
  BY <1>18, RilAssumption
     DEF DebugDone, LoopAt, channel, firing, TypeOK, ChannelTypeOK, CallTypeOK
<1>19. ASSUME NEW t \in Thread, WriteFails(t) PROVE ChannelTypeOK'
  BY <1>19, RilAssumption
     DEF WriteFails, ReturnTo, CloseFd, OpenOn, Idle, channel, firing, TypeOK,
         ChannelTypeOK, CallTypeOK
<1>20. ASSUME UNCHANGED <<file, s_fdCommand, watch, commandsFd, serving, round, at>> PROVE ChannelTypeOK'
  BY <1>20 DEF TypeOK, ChannelTypeOK, CallTypeOK
<1>21. ASSUME NEW c \in Client, Connect(c) \/ HangUp(c)
    PROVE  ChannelTypeOK'
  BY <1>21, <1>20 DEF Connect, HangUp, channel, firing
<1>22. ASSUME NEW c \in Client, NEW r \in Request, SendRequest(c, r)
    PROVE  ChannelTypeOK'
  BY <1>22, <1>20 DEF SendRequest, channel, firing
<1>23. ASSUME NEW r \in Request, ReadRequest(r)
    PROVE  ChannelTypeOK'
  BY <1>23, <1>20 DEF ReadRequest, channel, firing
<1>24. ASSUME NEW t \in Thread, NEW r \in Request, OnRequestComplete(t, r)
    PROVE  ChannelTypeOK'
  BY <1>24, <1>20 DEF OnRequestComplete, CheckAndDequeueRequestInfo, channel, firing
<1>25. ASSUME NEW t \in Thread, OnUnsolicitedResponse(t) \/ OnNitzTimeReceived(t)
            \/ SendResponse(t) \/ CheckConnected(t) \/ LockWrite(t) \/ DropNitz(t)
            \/ KeepNitz(t)
    PROVE  ChannelTypeOK'
  BY <1>25, <1>20, Zenon
     DEF OnUnsolicitedResponse, OnNitzTimeReceived, SendResponse, CheckConnected,
         LockWrite, DropNitz, KeepNitz, channel, firing
<1>26. ASSUME NEW t \in Thread, NEW c \in Client, WriteHeader(t, c) \/ WriteBody(t, c)
    PROVE  ChannelTypeOK'
  BY <1>26, <1>20, Zenon DEF WriteHeader, WriteBody, channel, firing
<1>27. CASE UNCHANGED vars
  BY <1>27, <1>20 DEF vars, channel, firing
<1>28. CASE ClientStep
  BY <1>28, <1>21, <1>22 DEF ClientStep
<1>29. CASE CallbackStep
  BY <1>29, <1>2, <1>4, <1>5, <1>6, <1>7, <1>3, <1>23, <1>10, <1>11, <1>12, <1>13,
        <1>18, <1>8, <1>16 DEF CallbackStep
<1>30. CASE DebugStep
  BY <1>30, <1>14, <1>15, <1>17 DEF DebugStep
<1>31. ASSUME NEW t \in Thread, SendStep(t) PROVE ChannelTypeOK'
  BY <1>31, <1>25, <1>19, <1>26 DEF SendStep
<1>32. ASSUME NEW t \in Thread, VendorStep(t) PROVE ChannelTypeOK'
  BY <1>32, <1>24, <1>25 DEF VendorStep
<1> QED
  BY <1>27, <1>28, <1>29, <1>30, <1>31, <1>32, <1>1, <1>8, <1>9 DEF Next

\* Every step keeps the types of the request list.
LEMMA RequestTypeStep == TypeOK /\ [Next]_vars => RequestTypeOK'
<1> SUFFICES ASSUME TypeOK, [Next]_vars PROVE RequestTypeOK'
  OBVIOUS
<1>1. ASSUME NEW r \in Request, ReadRequest(r) PROVE RequestTypeOK'
  BY <1>1, RilAssumption
     DEF ReadRequest, Served, OpenOn, LoopAt, requests, TypeOK, RequestTypeOK
<1>2. ASSUME OnCommandsSocketClosed PROVE RequestTypeOK'
  BY <1>2, RilAssumption
     DEF OnCommandsSocketClosed, LoopAt, requests, TypeOK, RequestTypeOK
<1>3. ASSUME NEW r \in Request, NEW q \in Request, DebugRequest(r, q) PROVE RequestTypeOK'
  BY <1>3, RilAssumption
     DEF DebugRequest, Fire, Local, LoopAt, requests, TypeOK, RequestTypeOK
<1>4. ASSUME NEW r \in Request, DebugRadioOff(r) PROVE RequestTypeOK'
  BY <1>4, RilAssumption
     DEF DebugRadioOff, Fire, Local, CloseFd, OpenOn, LoopAt, requests, TypeOK,
         RequestTypeOK
<1>5. ASSUME NEW t \in Thread, NEW r \in Request, OnRequestComplete(t, r) PROVE RequestTypeOK'
  BY <1>5, RilAssumption
     DEF OnRequestComplete, CheckAndDequeueRequestInfo, Sending, requests, TypeOK,
         RequestTypeOK
<1>6. ASSUME UNCHANGED <<s_pendingRequests, cancelled, held>> PROVE RequestTypeOK'
  BY <1>6 DEF TypeOK, RequestTypeOK
<1>7. ASSUME NEW c \in Client, Connect(c) \/ HangUp(c)
    PROVE  RequestTypeOK'
  BY <1>7, <1>6 DEF Connect, HangUp, requests
<1>8. ASSUME NEW c \in Client, NEW r \in Request, SendRequest(c, r)
    PROVE  RequestTypeOK'
  BY <1>8, <1>6 DEF SendRequest, requests
<1>9. ASSUME Select \/ AcceptFails \/ Refuse \/ Welcome \/ SendLastNitz
            \/ FreeLastNitz \/ FireListen \/ FireCommands \/ DebugIgnored
            \/ SelectFails \/ ReadNothing
            \/ EndOfStream \/ ReadError \/ DebugReport \/ DebugCloseSocket \/ DebugDone
    PROVE  RequestTypeOK'
  BY <1>9, <1>6
     DEF Select, AcceptFails, Refuse, Welcome, SendLastNitz, FreeLastNitz, Fire,
         FireListen, FireCommands, DebugIgnored, SelectFails, ReadNothing, EndOfStream,
         ReadError, DebugReport, DebugCloseSocket, DebugDone, CloseFd, OpenOn,
         CloseCommands, requests
<1>10. ASSUME NEW c \in Client, NEW f \in Fd, Accept(c, f)
    PROVE  RequestTypeOK'
  BY <1>10, <1>6 DEF Accept, requests
<1>11. ASSUME NEW t \in Thread, OnUnsolicitedResponse(t) \/ OnNitzTimeReceived(t)
            \/ SendResponse(t) \/ CheckConnected(t) \/ LockWrite(t)
            \/ WriteFails(t) \/ DropNitz(t)
            \/ KeepNitz(t)
    PROVE  RequestTypeOK'
  BY <1>11, <1>6, Zenon
     DEF OnUnsolicitedResponse, OnNitzTimeReceived, SendResponse, CheckConnected,
         LockWrite, WriteFails, DropNitz, KeepNitz, CloseFd, OpenOn, requests
<1>12. ASSUME NEW t \in Thread, NEW c \in Client, WriteHeader(t, c) \/ WriteBody(t, c)
    PROVE  RequestTypeOK'
  BY <1>12, <1>6, Zenon DEF WriteHeader, WriteBody, requests
<1>13. CASE UNCHANGED vars
  BY <1>13, <1>6 DEF vars, requests
<1>14. CASE ClientStep
  BY <1>14, <1>7, <1>8 DEF ClientStep
<1>15. CASE CallbackStep
  BY <1>15, <1>9, <1>10, <1>1, <1>2 DEF CallbackStep
<1>16. CASE DebugStep
  BY <1>16, <1>3, <1>4, <1>9 DEF DebugStep
<1>17. ASSUME NEW t \in Thread, SendStep(t) PROVE RequestTypeOK'
  BY <1>17, <1>11, <1>12 DEF SendStep
<1>18. ASSUME NEW t \in Thread, VendorStep(t) PROVE RequestTypeOK'
  BY <1>18, <1>5, <1>11 DEF VendorStep
<1> QED
  BY <1>13, <1>14, <1>15, <1>16, <1>17, <1>18, <1>9 DEF Next

\* Every step keeps the types of the calls in progress.
LEMMA CallTypeStep == TypeOK /\ [Next]_vars => CallTypeOK'
<1> SUFFICES ASSUME TypeOK, [Next]_vars PROVE CallTypeOK'
  OBVIOUS
<1>1. ASSUME Welcome PROVE CallTypeOK'
  BY <1>1, RilAssumption
     DEF Welcome, Sending, LoopAt, sending, TypeOK, CallTypeOK, ChannelTypeOK,
         TimeTypeOK, RequestTypeOK, Thread, Message, Nitz
<1>2. ASSUME SendLastNitz PROVE CallTypeOK'
  BY <1>2, RilAssumption
     DEF SendLastNitz, Sending, LoopAt, sending, TypeOK, CallTypeOK, ChannelTypeOK,
         TimeTypeOK, RequestTypeOK, Thread, Message, Nitz
<1>3. ASSUME DebugReport PROVE CallTypeOK'
  BY <1>3, RilAssumption
     DEF DebugReport, Fire, Sending, LoopAt, sending, TypeOK, CallTypeOK, ChannelTypeOK,
         TimeTypeOK, RequestTypeOK, Thread, Message, Nitz
<1>4. ASSUME NEW t \in Thread, NEW r \in Request, OnRequestComplete(t, r) PROVE CallTypeOK'
  BY <1>4, RilAssumption
     DEF OnRequestComplete, CheckAndDequeueRequestInfo, Sending, sending, TypeOK,
         CallTypeOK, ChannelTypeOK, TimeTypeOK, RequestTypeOK, Thread, Message, Nitz
<1>5. ASSUME NEW t \in Thread, OnUnsolicitedResponse(t) PROVE CallTypeOK'
  BY <1>5, RilAssumption
     DEF OnUnsolicitedResponse, Sending, sending, TypeOK, CallTypeOK, ChannelTypeOK,
         TimeTypeOK, RequestTypeOK, Thread, Message, Nitz
<1>6. ASSUME NEW t \in Thread, OnNitzTimeReceived(t) PROVE CallTypeOK'
  BY <1>6, RilAssumption
     DEF OnNitzTimeReceived, Sending, sending, TypeOK, CallTypeOK, ChannelTypeOK,
         TimeTypeOK, RequestTypeOK, Thread, Message, Nitz
<1>7. ASSUME NEW t \in Thread, SendResponse(t) PROVE CallTypeOK'
  BY <1>7, RilAssumption
     DEF SendResponse, ReturnTo, Idle, sending, TypeOK, CallTypeOK, ChannelTypeOK,
         TimeTypeOK, RequestTypeOK, Thread, Message, Nitz
<1>8. ASSUME NEW t \in Thread, CheckConnected(t) PROVE CallTypeOK'
  BY <1>8, RilAssumption
     DEF CheckConnected, ReturnTo, Idle, sending, TypeOK, CallTypeOK, ChannelTypeOK,
         TimeTypeOK, RequestTypeOK, Thread, Message, Nitz
<1>9. ASSUME NEW t \in Thread, LockWrite(t) PROVE CallTypeOK'
  BY <1>9, RilAssumption
     DEF LockWrite, sending, TypeOK, CallTypeOK, ChannelTypeOK, TimeTypeOK,
         RequestTypeOK, Thread, Message, Nitz
<1>10. ASSUME NEW t \in Thread, NEW c \in Client, WriteHeader(t, c) PROVE CallTypeOK'
  BY <1>10, RilAssumption
     DEF WriteHeader, Reaches, OpenOn, sending, TypeOK, CallTypeOK, ChannelTypeOK,
         TimeTypeOK, RequestTypeOK, Thread, Message, Nitz
<1>11. ASSUME NEW t \in Thread, NEW c \in Client, WriteBody(t, c) PROVE CallTypeOK'
  BY <1>11, RilAssumption
     DEF WriteBody, ReturnTo, Idle, Reaches, OpenOn, sending, TypeOK, CallTypeOK,
         ChannelTypeOK, TimeTypeOK, RequestTypeOK, Thread, Message, Nitz
<1>12. ASSUME NEW t \in Thread, WriteFails(t) PROVE CallTypeOK'
  BY <1>12, RilAssumption
     DEF WriteFails, ReturnTo, CloseFd, OpenOn, Idle, sending, TypeOK, CallTypeOK,
         ChannelTypeOK, TimeTypeOK, RequestTypeOK, Thread, Message, Nitz
<1>13. ASSUME NEW t \in Thread, DropNitz(t) PROVE CallTypeOK'
  BY <1>13, RilAssumption
     DEF DropNitz, sending, TypeOK, CallTypeOK, ChannelTypeOK, TimeTypeOK,
         RequestTypeOK, Thread, Message, Nitz
<1>14. ASSUME NEW t \in Thread, KeepNitz(t) PROVE CallTypeOK'
  BY <1>14, RilAssumption
     DEF KeepNitz, Idle, sending, TypeOK, CallTypeOK, ChannelTypeOK, TimeTypeOK,
         RequestTypeOK, Thread, Message, Nitz
<1>15. ASSUME UNCHANGED <<call, s_writeMutex>> PROVE CallTypeOK'
  BY <1>15 DEF TypeOK, CallTypeOK, ChannelTypeOK, TimeTypeOK, RequestTypeOK
<1>16. ASSUME NEW c \in Client, Connect(c) \/ HangUp(c)
    PROVE  CallTypeOK'
  BY <1>16, <1>15 DEF Connect, HangUp, sending
<1>17. ASSUME NEW c \in Client, NEW r \in Request, SendRequest(c, r)
    PROVE  CallTypeOK'
  BY <1>17, <1>15 DEF SendRequest, sending
<1>18. ASSUME Select \/ AcceptFails \/ Refuse \/ FreeLastNitz \/ FireListen \/ FireCommands
            \/ DebugIgnored            \/ SelectFails \/ ReadNothing \/ EndOfStream
            \/ ReadError
            \/ OnCommandsSocketClosed \/ DebugCloseSocket \/ DebugDone
    PROVE  CallTypeOK'
  BY <1>18, <1>15
     DEF Select, AcceptFails, Refuse, FreeLastNitz, Fire, FireListen, FireCommands,
         DebugIgnored, SelectFails, ReadNothing, EndOfStream, ReadError,
         OnCommandsSocketClosed, DebugCloseSocket, DebugDone, CloseFd, OpenOn,
         CloseCommands, sending
<1>19. ASSUME NEW c \in Client, NEW f \in Fd, Accept(c, f)
    PROVE  CallTypeOK'
  BY <1>19, <1>15 DEF Accept, sending
<1>20. ASSUME NEW r \in Request, ReadRequest(r) \/ DebugRadioOff(r)
    PROVE  CallTypeOK'
  BY <1>20, <1>15 DEF ReadRequest, DebugRadioOff, Local, CloseFd, OpenOn, sending
<1>21. ASSUME NEW r \in Request, NEW q \in Request, DebugRequest(r, q)
    PROVE  CallTypeOK'
  BY <1>21, <1>15 DEF DebugRequest, Fire, Local, sending
<1>22. CASE UNCHANGED vars
  BY <1>22, <1>15 DEF vars, sending
<1>23. CASE ClientStep
  BY <1>23, <1>16, <1>17 DEF ClientStep
<1>24. CASE CallbackStep
  BY <1>24, <1>18, <1>1, <1>2, <1>19, <1>20 DEF CallbackStep
<1>25. CASE DebugStep
  BY <1>25, <1>21, <1>20, <1>3 DEF DebugStep
<1>26. ASSUME NEW t \in Thread, SendStep(t) PROVE CallTypeOK'
  BY <1>26, <1>7, <1>9, <1>12, <1>13, <1>14, <1>10, <1>11, <1>8 DEF SendStep
<1>27. ASSUME NEW t \in Thread, VendorStep(t) PROVE CallTypeOK'
  BY <1>27, <1>4, <1>5, <1>6 DEF VendorStep
<1> QED
  BY <1>22, <1>23, <1>24, <1>25, <1>26, <1>27, <1>18 DEF Next

\* Every step keeps the types of the NITZ state.
LEMMA TimeTypeStep == TypeOK /\ [Next]_vars => TimeTypeOK'
<1> SUFFICES ASSUME TypeOK, [Next]_vars PROVE TimeTypeOK'
  OBVIOUS
<1>1. ASSUME FreeLastNitz PROVE TimeTypeOK'
  BY <1>1, RilAssumption
     DEF FreeLastNitz, LoopAt, time, firing, TypeOK, TimeTypeOK, CallTypeOK, Thread,
         Message, Nitz
<1>2. ASSUME DebugCloseSocket PROVE TimeTypeOK'
  BY <1>2, RilAssumption, Zenon
     DEF DebugCloseSocket, CloseFd, LoopAt, time, firing, TypeOK, TimeTypeOK, CallTypeOK,
         Thread, Message, Nitz
<1>3. ASSUME Select PROVE TimeTypeOK'
  BY <1>3, Zenon
     DEF Select, time, firing, TypeOK, TimeTypeOK
<1>4. ASSUME NEW t \in Thread, OnNitzTimeReceived(t) PROVE TimeTypeOK'
  BY <1>4, RilAssumption
     DEF OnNitzTimeReceived, Sending, time, firing, TypeOK, TimeTypeOK, CallTypeOK,
         Thread, Message, Nitz
<1>5. ASSUME NEW t \in Thread, WriteFails(t) PROVE TimeTypeOK'
  BY <1>5, RilAssumption
     DEF WriteFails, ReturnTo, CloseFd, OpenOn, Idle, time, firing, TypeOK, TimeTypeOK,
         CallTypeOK, Thread, Message, Nitz
<1>6. ASSUME NEW t \in Thread, DropNitz(t) PROVE TimeTypeOK'
  BY <1>6, RilAssumption
     DEF DropNitz, time, firing, TypeOK, TimeTypeOK, CallTypeOK, Thread, Message, Nitz
<1>7. ASSUME NEW t \in Thread, KeepNitz(t) PROVE TimeTypeOK'
  BY <1>7, RilAssumption
     DEF KeepNitz, Idle, time, firing, TypeOK, TimeTypeOK, CallTypeOK, Thread, Message,
         Nitz
<1>8. ASSUME UNCHANGED <<s_lastNITZTimeData, nitz, mishap, radioOff>> PROVE TimeTypeOK'
  BY <1>8 DEF TypeOK, TimeTypeOK, CallTypeOK
<1>9. ASSUME NEW c \in Client, Connect(c) \/ HangUp(c)
    PROVE  TimeTypeOK'
  BY <1>9, <1>8 DEF Connect, HangUp, time, firing
<1>10. ASSUME NEW c \in Client, NEW r \in Request, SendRequest(c, r)
    PROVE  TimeTypeOK'
  BY <1>10, <1>8, Zenon DEF SendRequest, time, firing
<1>11. ASSUME AcceptFails \/ Refuse \/ Welcome \/ SendLastNitz
            \/ FireListen \/ FireCommands \/ DebugIgnored \/ SelectFails
            \/ ReadNothing \/ EndOfStream
            \/ ReadError \/ OnCommandsSocketClosed \/ DebugReport \/ DebugDone
    PROVE  TimeTypeOK'
  BY <1>11, <1>8
     DEF AcceptFails, Refuse, Welcome, SendLastNitz, Fire, FireListen, FireCommands,
         DebugIgnored, SelectFails, ReadNothing, EndOfStream, ReadError,
         OnCommandsSocketClosed, DebugReport, DebugDone, CloseFd, OpenOn, CloseCommands,
         time, firing
<1>12. ASSUME NEW c \in Client, NEW f \in Fd, Accept(c, f)
    PROVE  TimeTypeOK'
  BY <1>12, <1>8 DEF Accept, time, firing
<1>13. ASSUME NEW r \in Request, ReadRequest(r)
    PROVE  TimeTypeOK'
  BY <1>13, <1>8 DEF ReadRequest, time, firing
<1>14. ASSUME NEW r \in Request, DebugRadioOff(r)
    PROVE  TimeTypeOK'
  BY <1>14, <1>8 DEF DebugRadioOff, Local, time
<1>15. ASSUME NEW r \in Request, NEW q \in Request, DebugRequest(r, q)
    PROVE  TimeTypeOK'
  BY <1>15, <1>8 DEF DebugRequest, Fire, Local, time, firing
<1>16. ASSUME NEW t \in Thread, NEW r \in Request, OnRequestComplete(t, r)
    PROVE  TimeTypeOK'
  BY <1>16, <1>8 DEF OnRequestComplete, CheckAndDequeueRequestInfo, time, firing
<1>17. ASSUME NEW t \in Thread, OnUnsolicitedResponse(t) \/ SendResponse(t)
            \/ CheckConnected(t) \/ LockWrite(t)
    PROVE  TimeTypeOK'
  BY <1>17, <1>8, Zenon
     DEF OnUnsolicitedResponse, SendResponse, CheckConnected, LockWrite, time, firing
<1>18. ASSUME NEW t \in Thread, NEW c \in Client, WriteHeader(t, c) \/ WriteBody(t, c)
    PROVE  TimeTypeOK'
  BY <1>18, <1>8, Zenon DEF WriteHeader, WriteBody, time, firing
<1>19. CASE UNCHANGED vars
  BY <1>19, <1>8 DEF vars, time, firing
<1>20. CASE ClientStep
  BY <1>20, <1>9, <1>10 DEF ClientStep
<1>21. CASE CallbackStep
  BY <1>21, <1>11, <1>1, <1>12, <1>13, <1>2 DEF CallbackStep
<1>22. CASE DebugStep
  BY <1>22, <1>15, <1>14, <1>11 DEF DebugStep
<1>23. ASSUME NEW t \in Thread, SendStep(t) PROVE TimeTypeOK'
  BY <1>23, <1>17, <1>5, <1>6, <1>7, <1>18, Zenon DEF SendStep
<1>24. ASSUME NEW t \in Thread, VendorStep(t) PROVE TimeTypeOK'
  BY <1>24, <1>16, <1>17, <1>4 DEF VendorStep
<1> QED
  BY <1>19, <1>20, <1>21, <1>22, <1>23, <1>24, <1>11, <1>3 DEF Next

\* The initial state has the right types.
LEMMA InitTypeOK == Init => TypeOK
<1> SUFFICES ASSUME Init PROVE TypeOK
  OBVIOUS
<1> USE RilAssumption DEF Init
<1>1. SocketTypeOK /\ RequestTypeOK
  BY DEF SocketTypeOK, RequestTypeOK
<1>2. ChannelTypeOK
  BY DEF ChannelTypeOK
<1>3. CallTypeOK
  BY DEF CallTypeOK, Idle, Thread
<1>4. mishap \in BOOLEAN /\ radioOff \in BOOLEAN
  BY Zenon
<1>5. TimeTypeOK
  BY <1>4 DEF TimeTypeOK
<1> QED
  BY <1>1, <1>2, <1>3, <1>5 DEF TypeOK

\* Every step preserves the types.
LEMMA TypeStep == TypeOK /\ [Next]_vars => TypeOK'
  BY SocketTypeStep, ChannelTypeStep, RequestTypeStep, CallTypeStep, TimeTypeStep
     DEF TypeOK

\* Every variable of the command channel keeps its type for any number of clients,
\* requests and vendor threads: no call leaves anything but a NITZ time for the next
\* client, whichever descriptor sendResponseRaw() read.
THEOREM TypeCorrect == Spec => []TypeOK
  BY InitTypeOK, TypeStep, PTL DEF Spec

-----------------------------------------------------------------------------
(* The event loop, its clients and the requests. *)

\* The commands event is for s_fdCommand, or for a descriptor that was closed.
Attached(closed) ==
    \/ s_fdCommand = commandsFd
    \/ s_fdCommand = None /\ file[commandsFd] = None /\ closed

\* What is watched and collected, and what s_fdCommand is, wherever the event loop is.
Linked ==
    /\ at = "listen" => s_fdCommand = None /\ watch = {}
    /\ at = "creds" => s_fdCommand \in Fd /\ watch = {}
    /\ at \in {"connect", "nitz"} =>
          s_fdCommand \in Fd /\ commandsFd = s_fdCommand /\ watch = {"commands"}
    /\ at = "read" => commandsFd \in Fd /\ watch = {"commands"} /\ Attached(radioOff)
    /\ at = "closing" => s_fdCommand = None /\ watch = {"listen"}
    /\ at \in {"loop", "debug", "off"} =>
          \/ s_fdCommand = None /\ watch = {"listen"} /\ round \subseteq {"debug"}
          \/ s_fdCommand = None /\ watch = {} /\ "listen" \in round /\ "commands" \notin round
          \/ /\ commandsFd \in Fd /\ watch = {"commands"} /\ "listen" \notin round
             /\ Attached("commands" \in round => radioOff)
    /\ at \notin {"loop", "debug", "off"} => round \subseteq {"debug"}

\* s_fdCommand is open on the connection accepted last, or was closed.
Current == s_fdCommand # None => file[s_fdCommand] \in {serving, None}

\* While the event loop listens, only the debug port's requests are not cancelled.
Quiet ==
    at = "listen" \/ (at \in {"loop", "debug", "off"} /\ "listen" \in watch \cup round) =>
       \A r \in s_pendingRequests \ cancelled : owner[r] = Loop

\* A request that was not made or not read is nowhere else.
Fresh ==
    \A r \in Request :
       /\ owner[r] = None => r \notin unread
       /\ owner[r] = None \/ r \in unread => r \notin s_pendingRequests /\ Unanswered(r)

\* Who writes holds s_writeMutex.
Locked == \A t \in Thread : call[t].stage \in {"head", "body"} => s_writeMutex = t

\* A client with a header is being sent the body, on a descriptor of its connection.
Framed ==
    \A c \in Client : frame[c] # None =>
       /\ s_writeMutex \in Thread /\ call[s_writeMutex].stage = "body"
       /\ call[s_writeMutex].fd \in Fd /\ file[call[s_writeMutex].fd] = c

IInv ==
    /\ TypeOK /\ Linked /\ Current /\ Quiet /\ NoneInherited
    /\ Fresh /\ AnsweredOnce /\ Locked /\ Framed

-----------------------------------------------------------------------------

\* Every step keeps s_fdCommand, the watched events and the event loop's place together.
LEMMA LinkedStep == TypeOK /\ Linked /\ [Next]_vars => Linked'
<1> SUFFICES ASSUME TypeOK, Linked, [Next]_vars PROVE Linked'
  OBVIOUS
<1>1. ASSUME Select PROVE Linked'
  BY <1>1, RilAssumption
     DEF Select, ReadyEvents, Served, OpenOn, LoopAt, Linked, Attached, channel, TypeOK,
         ChannelTypeOK, CallTypeOK
<1>2. ASSUME AcceptFails PROVE Linked'
  BY <1>2, RilAssumption, Zenon
     DEF AcceptFails, LoopAt, channel, firing, Linked, Attached, TypeOK, ChannelTypeOK,
         CallTypeOK
<1>3. ASSUME NEW c \in Client, NEW f \in Fd, Accept(c, f) PROVE Linked'
  BY <1>3, RilAssumption
     DEF Accept, LoopAt, channel, firing, Linked, Attached, TypeOK, ChannelTypeOK,
         CallTypeOK
<1>4. ASSUME Refuse PROVE Linked'
  BY <1>4, RilAssumption, Zenon
     DEF Refuse, CloseFd, OpenOn, LoopAt, channel, firing, Linked, Attached, TypeOK,
         ChannelTypeOK, CallTypeOK
<1>5. ASSUME Welcome PROVE Linked'
  BY <1>5, RilAssumption, Zenon
     DEF Welcome, Sending, LoopAt, channel, firing, Linked, Attached, TypeOK,
         ChannelTypeOK, CallTypeOK
<1>6. ASSUME SendLastNitz PROVE Linked'
  BY <1>6, RilAssumption
     DEF SendLastNitz, Sending, LoopAt, channel, firing, Linked, Attached, TypeOK,
         ChannelTypeOK, CallTypeOK
<1>7. ASSUME FreeLastNitz PROVE Linked'
  BY <1>7, RilAssumption
     DEF FreeLastNitz, LoopAt, channel, firing, Linked, Attached, TypeOK, ChannelTypeOK,
         CallTypeOK
<1>8. ASSUME FireListen PROVE Linked'
  BY <1>8, RilAssumption
     DEF FireListen, Fire, LoopAt, Linked, Attached, channel, TypeOK,
         ChannelTypeOK, CallTypeOK
<1>9. ASSUME FireCommands PROVE Linked'
  BY <1>9, RilAssumption
     DEF FireCommands, Fire, LoopAt, Linked, Attached, channel, TypeOK,
         ChannelTypeOK, CallTypeOK
<1>10. ASSUME DebugIgnored PROVE Linked'
  BY <1>10, RilAssumption
     DEF DebugIgnored, Fire, LoopAt, Linked, Attached, channel, TypeOK,
         ChannelTypeOK, CallTypeOK
<1>11. ASSUME SelectFails PROVE Linked'
  BY <1>11, RilAssumption
     DEF SelectFails, Served, LoopAt, channel, firing, Linked, Attached, TypeOK,
         ChannelTypeOK, CallTypeOK
<1>12. ASSUME ReadNothing PROVE Linked'
  BY <1>12, RilAssumption
     DEF ReadNothing, LoopAt, channel, firing, Linked, Attached, TypeOK, ChannelTypeOK,
         CallTypeOK
<1>13. ASSUME EndOfStream PROVE Linked'
  BY <1>13, RilAssumption
     DEF EndOfStream, CloseCommands, CloseFd, OpenOn, Served, LoopAt, channel, firing,
         Linked, Attached, TypeOK, ChannelTypeOK, CallTypeOK
<1>14. ASSUME ReadError PROVE Linked'
  BY <1>14, RilAssumption
     DEF ReadError, CloseCommands, CloseFd, OpenOn, LoopAt, channel, firing, Linked,
         Attached, TypeOK, ChannelTypeOK, CallTypeOK
<1>15. ASSUME OnCommandsSocketClosed PROVE Linked'
  BY <1>15, RilAssumption
     DEF OnCommandsSocketClosed, LoopAt, channel, firing, Linked, Attached, TypeOK,
         ChannelTypeOK, CallTypeOK
<1>16. ASSUME NEW r \in Request, NEW q \in Request, DebugRequest(r, q) PROVE Linked'
  BY <1>16, RilAssumption
     DEF DebugRequest, Fire, Local, LoopAt, channel, firing, Linked, Attached, TypeOK,
         ChannelTypeOK, CallTypeOK
<1>17. ASSUME NEW r \in Request, DebugRadioOff(r) PROVE Linked'
  BY <1>17, RilAssumption
     DEF DebugRadioOff, Fire, Local, CloseFd, OpenOn, LoopAt, channel, firing, Linked,
         Attached, TypeOK, ChannelTypeOK, CallTypeOK
<1>18. ASSUME DebugCloseSocket PROVE Linked'
  BY <1>18, RilAssumption
     DEF DebugCloseSocket, CloseFd, LoopAt, Linked, Attached, channel, TypeOK,
         ChannelTypeOK, CallTypeOK
<1>19. ASSUME DebugReport PROVE Linked'
  BY <1>19, RilAssumption
     DEF DebugReport, Fire, Sending, LoopAt, channel, firing, Linked, Attached, TypeOK,
         ChannelTypeOK, CallTypeOK
<1>20. ASSUME DebugDone PROVE Linked'
  BY <1>20, RilAssumption
     DEF DebugDone, LoopAt, channel, firing, Linked, Attached, TypeOK, ChannelTypeOK,
         CallTypeOK
<1>21. ASSUME NEW t \in Thread, WriteFails(t) PROVE Linked'
  BY <1>21, RilAssumption
     DEF WriteFails, ReturnTo, CloseFd, OpenOn, Idle, channel, firing, Linked, Attached,
         TypeOK, ChannelTypeOK, CallTypeOK
<1>22. ASSUME UNCHANGED <<file, s_fdCommand, watch, commandsFd, at, round, radioOff>> PROVE Linked'
  BY <1>22 DEF Linked, Attached, TypeOK, ChannelTypeOK, CallTypeOK
<1>23. ASSUME NEW c \in Client, Connect(c) \/ HangUp(c)
    PROVE  Linked'
  BY <1>23, <1>22 DEF Connect, HangUp, channel, firing
<1>24. ASSUME NEW c \in Client, NEW r \in Request, SendRequest(c, r)
    PROVE  Linked'
  BY <1>24, <1>22 DEF SendRequest, channel, firing
<1>25. ASSUME NEW r \in Request, ReadRequest(r)
    PROVE  Linked'
  BY <1>25, <1>22 DEF ReadRequest, channel, firing
<1>26. ASSUME NEW t \in Thread, NEW r \in Request, OnRequestComplete(t, r)
    PROVE  Linked'
  BY <1>26, <1>22 DEF OnRequestComplete, CheckAndDequeueRequestInfo, channel, firing
<1>27. ASSUME NEW t \in Thread, OnUnsolicitedResponse(t) \/ OnNitzTimeReceived(t)
            \/ SendResponse(t) \/ CheckConnected(t) \/ LockWrite(t) \/ DropNitz(t)
            \/ KeepNitz(t)
    PROVE  Linked'
  BY <1>27, <1>22, Zenon
     DEF OnUnsolicitedResponse, OnNitzTimeReceived, SendResponse, CheckConnected,
         LockWrite, DropNitz, KeepNitz, channel, firing
<1>28. ASSUME NEW t \in Thread, NEW c \in Client, WriteHeader(t, c) \/ WriteBody(t, c)
    PROVE  Linked'
  BY <1>28, <1>22, Zenon DEF WriteHeader, WriteBody, channel, firing
<1>29. CASE UNCHANGED vars
  BY <1>29, <1>22 DEF vars, channel, firing
<1>30. CASE ClientStep
  BY <1>30, <1>23, <1>24 DEF ClientStep
<1>31. CASE CallbackStep
  BY <1>31, <1>2, <1>4, <1>5, <1>6, <1>7, <1>3, <1>25, <1>12, <1>13, <1>14, <1>15,
        <1>20, <1>8, <1>9, <1>10, <1>18 DEF CallbackStep
<1>32. CASE DebugStep
  BY <1>32, <1>16, <1>17, <1>19 DEF DebugStep
<1>33. ASSUME NEW t \in Thread, SendStep(t) PROVE Linked'
  BY <1>33, <1>27, <1>21, <1>28 DEF SendStep
<1>34. ASSUME NEW t \in Thread, VendorStep(t) PROVE Linked'
  BY <1>34, <1>26, <1>27 DEF VendorStep
<1> QED
  BY <1>29, <1>30, <1>31, <1>32, <1>33, <1>34, <1>1, <1>8, <1>11 DEF Next

\* s_fdCommand stays open on the connection accepted last, or closed.
LEMMA CurrentStep == TypeOK /\ Current /\ [Next]_vars => Current'
<1> SUFFICES ASSUME TypeOK, Current, [Next]_vars PROVE Current'
  OBVIOUS
<1>1. ASSUME NEW c \in Client, NEW f \in Fd, Accept(c, f) PROVE Current'
  BY <1>1, RilAssumption
     DEF Accept, LoopAt, channel, Current, TypeOK, ChannelTypeOK, CallTypeOK
<1>2. ASSUME Refuse PROVE Current'
  BY <1>2, RilAssumption
     DEF Refuse, CloseFd, OpenOn, LoopAt, channel, Current, TypeOK, ChannelTypeOK,
         CallTypeOK
<1>3. ASSUME EndOfStream PROVE Current'
  BY <1>3, RilAssumption
     DEF EndOfStream, CloseCommands, CloseFd, OpenOn, Served, LoopAt, channel, Current,
         TypeOK, ChannelTypeOK, CallTypeOK
<1>4. ASSUME ReadError PROVE Current'
  BY <1>4, RilAssumption
     DEF ReadError, CloseCommands, CloseFd, OpenOn, LoopAt, channel, Current, TypeOK,
         ChannelTypeOK, CallTypeOK
<1>5. ASSUME DebugCloseSocket PROVE Current'
  BY <1>5, RilAssumption
     DEF DebugCloseSocket, CloseFd, LoopAt, channel, Current, TypeOK,
         ChannelTypeOK, CallTypeOK
<1>6. ASSUME NEW t \in Thread, WriteFails(t) PROVE Current'
  BY <1>6, RilAssumption
     DEF WriteFails, ReturnTo, CloseFd, OpenOn, Idle, channel, Current, TypeOK,
         ChannelTypeOK, CallTypeOK
<1>7. ASSUME UNCHANGED <<file, s_fdCommand, serving>> PROVE Current'
  BY <1>7 DEF Current, TypeOK, ChannelTypeOK, CallTypeOK
<1>8. ASSUME NEW c \in Client, Connect(c) \/ HangUp(c)
    PROVE  Current'
  BY <1>8, <1>7 DEF Connect, HangUp, channel
<1>9. ASSUME NEW c \in Client, NEW r \in Request, SendRequest(c, r)
    PROVE  Current'
  BY <1>9, <1>7 DEF SendRequest, channel
<1>10. ASSUME Select \/ AcceptFails \/ Welcome \/ SendLastNitz \/ FreeLastNitz
            \/ FireListen \/ FireCommands \/ DebugIgnored \/ SelectFails
            \/ ReadNothing \/ OnCommandsSocketClosed
            \/ DebugReport \/ DebugDone
    PROVE  Current'
  BY <1>10, <1>7
     DEF Select, AcceptFails, Welcome, SendLastNitz, FreeLastNitz, Fire, FireListen,
         FireCommands, DebugIgnored, SelectFails, ReadNothing, OnCommandsSocketClosed,
         DebugReport, DebugDone, channel
<1>11. ASSUME NEW r \in Request, ReadRequest(r) \/ DebugRadioOff(r)
    PROVE  Current'
  BY <1>11, <1>7 DEF ReadRequest, DebugRadioOff, channel
<1>12. ASSUME NEW r \in Request, NEW q \in Request, DebugRequest(r, q)
    PROVE  Current'
  BY <1>12, <1>7 DEF DebugRequest, Fire, Local, channel
<1>13. ASSUME NEW t \in Thread, NEW r \in Request, OnRequestComplete(t, r)
    PROVE  Current'
  BY <1>13, <1>7 DEF OnRequestComplete, CheckAndDequeueRequestInfo, channel
<1>14. ASSUME NEW t \in Thread, OnUnsolicitedResponse(t) \/ OnNitzTimeReceived(t)
            \/ SendResponse(t) \/ CheckConnected(t) \/ LockWrite(t) \/ DropNitz(t)
            \/ KeepNitz(t)
    PROVE  Current'
  BY <1>14, <1>7, Zenon
     DEF OnUnsolicitedResponse, OnNitzTimeReceived, SendResponse, CheckConnected,
         LockWrite, DropNitz, KeepNitz, channel
<1>15. ASSUME NEW t \in Thread, NEW c \in Client, WriteHeader(t, c) \/ WriteBody(t, c)
    PROVE  Current'
  BY <1>15, <1>7, Zenon DEF WriteHeader, WriteBody, channel
<1>16. CASE UNCHANGED vars
  BY <1>16, <1>7 DEF vars, channel
<1>17. CASE ClientStep
  BY <1>17, <1>8, <1>9 DEF ClientStep
<1>18. CASE CallbackStep
  BY <1>18, <1>10, <1>2, <1>1, <1>11, <1>3, <1>4, <1>5 DEF CallbackStep
<1>19. CASE DebugStep
  BY <1>19, <1>12, <1>11, <1>10 DEF DebugStep
<1>20. ASSUME NEW t \in Thread, SendStep(t) PROVE Current'
  BY <1>20, <1>14, <1>6, <1>15 DEF SendStep
<1>21. ASSUME NEW t \in Thread, VendorStep(t) PROVE Current'
  BY <1>21, <1>13, <1>14 DEF VendorStep
<1> QED
  BY <1>16, <1>17, <1>18, <1>19, <1>20, <1>21, <1>10 DEF Next

\* Closing a connection cancels its requests before the loop listens again.
LEMMA QuietStep == TypeOK /\ Linked /\ Fresh /\ Quiet /\ [Next]_vars => Quiet'
<1> SUFFICES ASSUME TypeOK, Linked, Fresh, Quiet, [Next]_vars PROVE Quiet'
  OBVIOUS
<1>1. ASSUME NEW c \in Client, NEW r \in Request, SendRequest(c, r) PROVE Quiet'
  BY <1>1, RilAssumption, Zenon
     DEF SendRequest, clients, channel, firing, requests, Quiet, Fresh, Linked, TypeOK,
         RequestTypeOK, SocketTypeOK, ChannelTypeOK
<1>2. ASSUME Select PROVE Quiet'
  BY <1>2, RilAssumption
     DEF Select, ReadyEvents, LoopAt, clients, channel, firing,
         requests, Quiet, Fresh, Linked, TypeOK, RequestTypeOK, SocketTypeOK,
         ChannelTypeOK
<1>3. ASSUME AcceptFails PROVE Quiet'
  BY <1>3, RilAssumption, Zenon
     DEF AcceptFails, LoopAt, clients, channel, firing, requests, Quiet, Fresh, Linked,
         TypeOK, RequestTypeOK, SocketTypeOK, ChannelTypeOK
<1>4. ASSUME NEW c \in Client, NEW f \in Fd, Accept(c, f) PROVE Quiet'
  BY <1>4, RilAssumption
     DEF Accept, LoopAt, clients, channel, firing, requests, Quiet, Fresh, Linked, TypeOK,
         RequestTypeOK, SocketTypeOK, ChannelTypeOK
<1>5. ASSUME Refuse PROVE Quiet'
  BY <1>5, RilAssumption, Zenon
     DEF Refuse, CloseFd, OpenOn, LoopAt, clients, channel, firing, requests, Quiet,
         Fresh, Linked, TypeOK, RequestTypeOK, SocketTypeOK, ChannelTypeOK
<1>6. ASSUME Welcome PROVE Quiet'
  BY <1>6, RilAssumption, Zenon
     DEF Welcome, Sending, LoopAt, clients, channel, firing, requests, Quiet, Fresh,
         Linked, TypeOK, RequestTypeOK, SocketTypeOK, ChannelTypeOK
<1>7. ASSUME SendLastNitz PROVE Quiet'
  BY <1>7, RilAssumption, Zenon
     DEF SendLastNitz, Sending, LoopAt, clients, channel, firing, requests, Quiet, Fresh,
         Linked, TypeOK, RequestTypeOK, SocketTypeOK, ChannelTypeOK
<1>8. ASSUME FreeLastNitz PROVE Quiet'
  BY <1>8, RilAssumption
     DEF FreeLastNitz, LoopAt, clients, channel, firing, requests, Quiet, Fresh, Linked,
         TypeOK, RequestTypeOK, SocketTypeOK, ChannelTypeOK
<1>9. ASSUME FireListen PROVE Quiet'
  BY <1>9, RilAssumption, Zenon
     DEF FireListen, Fire, LoopAt, clients, channel, firing,
         requests, Quiet, Fresh, Linked, TypeOK, RequestTypeOK, SocketTypeOK,
         ChannelTypeOK
<1>10. ASSUME FireCommands PROVE Quiet'
  BY <1>10, RilAssumption, Zenon
     DEF FireCommands, Fire, LoopAt, clients, channel, firing,
         requests, Quiet, Fresh, Linked, TypeOK, RequestTypeOK, SocketTypeOK,
         ChannelTypeOK
<1>11. ASSUME DebugIgnored PROVE Quiet'
  BY <1>11, RilAssumption, Zenon
     DEF DebugIgnored, Fire, LoopAt, clients, channel, firing,
         requests, Quiet, Fresh, Linked, TypeOK, RequestTypeOK, SocketTypeOK,
         ChannelTypeOK
<1>12. ASSUME SelectFails PROVE Quiet'
  BY <1>12, RilAssumption, Zenon
     DEF SelectFails, Served, LoopAt, clients, channel, firing, requests, Quiet, Fresh,
         Linked, TypeOK, RequestTypeOK, SocketTypeOK, ChannelTypeOK
<1>13. ASSUME NEW r \in Request, ReadRequest(r) PROVE Quiet'
  BY <1>13, RilAssumption, Zenon
     DEF ReadRequest, Served, OpenOn, LoopAt, clients, channel, firing, requests, Quiet,
         Fresh, Linked, TypeOK, RequestTypeOK, SocketTypeOK, ChannelTypeOK
<1>14. ASSUME ReadNothing PROVE Quiet'
  BY <1>14, RilAssumption, Zenon
     DEF ReadNothing, LoopAt, clients, channel, firing, requests, Quiet, Fresh, Linked,
         TypeOK, RequestTypeOK, SocketTypeOK, ChannelTypeOK
<1>15. ASSUME EndOfStream PROVE Quiet'
  BY <1>15, RilAssumption, Zenon
     DEF EndOfStream, CloseCommands, CloseFd, OpenOn, Served, LoopAt, clients, channel,
         firing, requests, Quiet, Fresh, Linked, TypeOK, RequestTypeOK, SocketTypeOK,
         ChannelTypeOK
<1>16. ASSUME ReadError PROVE Quiet'
  BY <1>16, RilAssumption, Zenon
     DEF ReadError, CloseCommands, CloseFd, OpenOn, LoopAt, clients, channel, firing,
         requests, Quiet, Fresh, Linked, TypeOK, RequestTypeOK, SocketTypeOK,
         ChannelTypeOK
<1>17. ASSUME OnCommandsSocketClosed PROVE Quiet'
  BY <1>17, RilAssumption, Zenon
     DEF OnCommandsSocketClosed, LoopAt, clients, channel, firing, requests, Quiet, Fresh,
         Linked, TypeOK, RequestTypeOK, SocketTypeOK, ChannelTypeOK
<1>18. ASSUME NEW r \in Request, NEW q \in Request, DebugRequest(r, q) PROVE Quiet'
  <2>1. \A x \in s_pendingRequests' \ cancelled' :
            \/ owner'[x] = Loop
            \/ x \in s_pendingRequests \ cancelled /\ owner'[x] = owner[x]
    BY <1>18 DEF DebugRequest, Fire, Local, TypeOK, RequestTypeOK
  <2>2. at = "loop" /\ at' = "debug" /\ watch' = watch /\ round' \subseteq round
    BY <1>18, Zenon DEF DebugRequest, Fire, LoopAt, channel
  <2> QED
    BY <2>1, <2>2 DEF Quiet
<1>19. ASSUME NEW r \in Request, DebugRadioOff(r) PROVE Quiet'
  <2>1. \A x \in s_pendingRequests' \ cancelled' :
            \/ owner'[x] = Loop
            \/ x \in s_pendingRequests \ cancelled /\ owner'[x] = owner[x]
    BY <1>19 DEF DebugRadioOff, Fire, Local, TypeOK, RequestTypeOK
  <2>2. at = "loop" /\ at' = "off" /\ watch' = watch /\ round' \subseteq round
    BY <1>19, Zenon DEF DebugRadioOff, Fire, LoopAt, channel
  <2> QED
    BY <2>1, <2>2 DEF Quiet
<1>20. ASSUME DebugCloseSocket PROVE Quiet'
  BY <1>20, RilAssumption, Zenon
     DEF DebugCloseSocket, LoopAt, clients, channel, firing,
         requests, Quiet, Fresh, Linked, TypeOK, RequestTypeOK, SocketTypeOK,
         ChannelTypeOK
<1>21. ASSUME DebugReport PROVE Quiet'
  BY <1>21, RilAssumption, Zenon
     DEF DebugReport, Fire, Sending, LoopAt, clients, channel, firing, requests, Quiet,
         Fresh, Linked, TypeOK, RequestTypeOK, SocketTypeOK, ChannelTypeOK
<1>22. ASSUME DebugDone PROVE Quiet'
  BY <1>22, RilAssumption, Zenon
     DEF DebugDone, LoopAt, clients, channel, firing, requests, Quiet, Fresh, Linked,
         TypeOK, RequestTypeOK, SocketTypeOK, ChannelTypeOK
<1>23. ASSUME NEW t \in Thread, NEW r \in Request, OnRequestComplete(t, r) PROVE Quiet'
  BY <1>23, RilAssumption
     DEF OnRequestComplete, CheckAndDequeueRequestInfo, Sending, clients, channel, firing,
         requests, Quiet, Fresh, Linked, TypeOK, RequestTypeOK, SocketTypeOK,
         ChannelTypeOK
<1>24. ASSUME UNCHANGED <<owner, watch, round, at, s_pendingRequests, cancelled>> PROVE Quiet'
  BY <1>24 DEF Quiet, Fresh, Linked, TypeOK, RequestTypeOK, SocketTypeOK, ChannelTypeOK
<1>25. ASSUME NEW c \in Client, Connect(c) \/ HangUp(c)
    PROVE  Quiet'
  BY <1>25, <1>24 DEF Connect, HangUp, clients, channel, firing, requests
<1>26. ASSUME NEW t \in Thread, OnUnsolicitedResponse(t) \/ OnNitzTimeReceived(t)
            \/ SendResponse(t) \/ CheckConnected(t) \/ LockWrite(t)
            \/ WriteFails(t) \/ DropNitz(t)
            \/ KeepNitz(t)
    PROVE  Quiet'
  BY <1>26, <1>24, Zenon
     DEF OnUnsolicitedResponse, OnNitzTimeReceived, SendResponse, CheckConnected,
         LockWrite, WriteFails, DropNitz, KeepNitz, CloseFd, OpenOn, clients, channel,
         firing, requests
<1>27. ASSUME NEW t \in Thread, NEW c \in Client, WriteHeader(t, c) \/ WriteBody(t, c)
    PROVE  Quiet'
  BY <1>27, <1>24, Zenon DEF WriteHeader, WriteBody, clients, channel, firing, requests
<1>28. CASE UNCHANGED vars
  BY <1>28, <1>24 DEF vars, clients, channel, firing, requests
<1>29. CASE ClientStep
  BY <1>29, <1>25, <1>1 DEF ClientStep
<1>30. CASE CallbackStep
  BY <1>30, <1>3, <1>5, <1>6, <1>7, <1>8, <1>4, <1>13, <1>14, <1>15, <1>16, <1>17,
        <1>22, <1>9, <1>10, <1>11, <1>20 DEF CallbackStep
<1>31. CASE DebugStep
  BY <1>31, <1>18, <1>19, <1>21 DEF DebugStep
<1>32. ASSUME NEW t \in Thread, SendStep(t) PROVE Quiet'
  BY <1>32, <1>26, <1>27 DEF SendStep
<1>33. ASSUME NEW t \in Thread, VendorStep(t) PROVE Quiet'
  BY <1>33, <1>23, <1>26 DEF VendorStep
<1> QED
  BY <1>28, <1>29, <1>30, <1>31, <1>32, <1>33, <1>2, <1>9, <1>12 DEF Next

\* No connection inherits a request.
LEMMA InheritStep == TypeOK /\ Linked /\ Current /\ Quiet /\ Fresh /\ NoneInherited /\ [Next]_vars => NoneInherited'
<1> SUFFICES ASSUME TypeOK, Linked, Current, Quiet, Fresh, NoneInherited, [Next]_vars PROVE NoneInherited'
  BY Zenon
<1>1. ASSUME NEW c \in Client, NEW r \in Request, SendRequest(c, r) PROVE NoneInherited'
  BY <1>1, RilAssumption, ZenonT(30)
     DEF SendRequest, clients, channel, requests, NoneInherited, Quiet, Current,
         Fresh, Linked, Attached, TypeOK, RequestTypeOK, SocketTypeOK, ChannelTypeOK
<1>2. ASSUME NEW c \in Client, NEW f \in Fd, Accept(c, f) PROVE NoneInherited'
  BY <1>2, RilAssumption, Zenon
     DEF Accept, LoopAt, clients, channel, requests, NoneInherited, Quiet, Current,
         Fresh, Linked, Attached, TypeOK, RequestTypeOK, SocketTypeOK, ChannelTypeOK
<1>3. ASSUME NEW r \in Request, ReadRequest(r) PROVE NoneInherited'
  BY <1>3, RilAssumption, ZenonT(30)
     DEF ReadRequest, Served, OpenOn, LoopAt, clients, channel, requests, NoneInherited,
         Quiet, Current, Fresh, Linked, Attached, TypeOK, RequestTypeOK, SocketTypeOK,
         ChannelTypeOK
<1>4. ASSUME OnCommandsSocketClosed PROVE NoneInherited'
  BY <1>4, RilAssumption
     DEF OnCommandsSocketClosed, LoopAt, clients, channel, requests, NoneInherited,
         Quiet, Current, Fresh, Linked, Attached, TypeOK, RequestTypeOK, SocketTypeOK,
         ChannelTypeOK
<1>5. ASSUME NEW r \in Request, NEW q \in Request, DebugRequest(r, q) PROVE NoneInherited'
  <2>1. \A x \in s_pendingRequests' \ cancelled' :
            \/ owner'[x] = Loop
            \/ x \in s_pendingRequests \ cancelled /\ owner'[x] = owner[x]
    BY <1>5 DEF DebugRequest, Fire, Local, TypeOK, RequestTypeOK
  <2>2. serving' = serving
    BY <1>5, Zenon DEF DebugRequest, Fire, channel
  <2> QED
    BY <2>1, <2>2 DEF NoneInherited
<1>6. ASSUME NEW r \in Request, DebugRadioOff(r) PROVE NoneInherited'
  <2>1. \A x \in s_pendingRequests' \ cancelled' :
            \/ owner'[x] = Loop
            \/ x \in s_pendingRequests \ cancelled /\ owner'[x] = owner[x]
    BY <1>6 DEF DebugRadioOff, Fire, Local, TypeOK, RequestTypeOK
  <2>2. serving' = serving
    BY <1>6, Zenon DEF DebugRadioOff, Fire, channel
  <2> QED
    BY <2>1, <2>2 DEF NoneInherited
<1>7. ASSUME NEW t \in Thread, NEW r \in Request, OnRequestComplete(t, r) PROVE NoneInherited'
  BY <1>7, RilAssumption, Zenon
     DEF OnRequestComplete, CheckAndDequeueRequestInfo, Sending, clients, channel,
         requests, NoneInherited, Quiet, Current, Fresh, Linked, Attached, TypeOK,
         RequestTypeOK, SocketTypeOK, ChannelTypeOK
<1>8. ASSUME UNCHANGED <<owner, serving, s_pendingRequests, cancelled>> PROVE NoneInherited'
  BY <1>8
     DEF NoneInherited, Quiet, Current, Fresh, Linked, Attached, TypeOK, RequestTypeOK,
         SocketTypeOK, ChannelTypeOK
<1>9. ASSUME NEW c \in Client, Connect(c) \/ HangUp(c)
    PROVE  NoneInherited'
  BY <1>9, <1>8 DEF Connect, HangUp, clients, channel, requests
<1>10. ASSUME Select \/ AcceptFails \/ Refuse \/ Welcome \/ SendLastNitz
            \/ FreeLastNitz \/ FireListen \/ FireCommands \/ DebugIgnored
            \/ SelectFails \/ ReadNothing
            \/ EndOfStream \/ ReadError \/ DebugReport \/ DebugCloseSocket \/ DebugDone
    PROVE  NoneInherited'
  BY <1>10, <1>8, Zenon
     DEF Select, AcceptFails, Refuse, Welcome, SendLastNitz, FreeLastNitz, Fire,
         FireListen, FireCommands, DebugIgnored, SelectFails, ReadNothing, EndOfStream,
         ReadError, DebugReport, DebugCloseSocket, DebugDone, CloseFd, OpenOn,
         CloseCommands, clients, channel, requests
<1>11. ASSUME NEW t \in Thread, OnUnsolicitedResponse(t) \/ OnNitzTimeReceived(t)
            \/ SendResponse(t) \/ CheckConnected(t) \/ LockWrite(t)
            \/ WriteFails(t) \/ DropNitz(t)
            \/ KeepNitz(t)
    PROVE  NoneInherited'
  BY <1>11, <1>8, Zenon
     DEF OnUnsolicitedResponse, OnNitzTimeReceived, SendResponse, CheckConnected,
         LockWrite, WriteFails, DropNitz, KeepNitz, CloseFd, OpenOn, clients, channel,
         requests
<1>12. ASSUME NEW t \in Thread, NEW c \in Client, WriteHeader(t, c) \/ WriteBody(t, c)
    PROVE  NoneInherited'
  BY <1>12, <1>8, Zenon DEF WriteHeader, WriteBody, clients, channel, requests
<1>13. CASE UNCHANGED vars
  BY <1>13, <1>8 DEF vars, clients, channel, requests
<1>14. CASE ClientStep
  BY <1>14, <1>9, <1>1 DEF ClientStep
<1>15. CASE CallbackStep
  BY <1>15, <1>10, <1>2, <1>3, <1>4 DEF CallbackStep
<1>16. CASE DebugStep
  BY <1>16, <1>5, <1>6, <1>10 DEF DebugStep
<1>17. ASSUME NEW t \in Thread, SendStep(t) PROVE NoneInherited'
  BY <1>17, <1>11, <1>12 DEF SendStep
<1>18. ASSUME NEW t \in Thread, VendorStep(t) PROVE NoneInherited'
  BY <1>18, <1>7, <1>11 DEF VendorStep
<1> QED
  BY <1>13, <1>14, <1>15, <1>16, <1>17, <1>18, <1>10 DEF Next

\* A step that takes no request in, and begins and delivers no answer.
NoAnswer ==
    /\ UNCHANGED <<owner, got, s_pendingRequests>> /\ unread' \subseteq unread
    /\ \A t \in Thread : call'[t].msg = call[t].msg \/ call'[t].msg \notin Request

\* Which steps those are: what the loop and the threads send in them is a NITZ time or other news.
LEMMA NoAnswerIs ==
  ASSUME TypeOK,
         \/ Select \/ AcceptFails \/ Refuse \/ Welcome \/ SendLastNitz \/ FreeLastNitz
         \/ FireListen \/ FireCommands \/ DebugIgnored \/ SelectFails
         \/ ReadNothing \/ EndOfStream \/ ReadError
         \/ OnCommandsSocketClosed \/ DebugReport \/ DebugCloseSocket \/ DebugDone
         \/ UNCHANGED vars
         \/ \E c \in Client : Connect(c) \/ HangUp(c) \/ \E f \in Fd : Accept(c, f)
         \/ \E t \in Thread :
               \/ OnUnsolicitedResponse(t) \/ OnNitzTimeReceived(t) \/ SendResponse(t)
               \/ CheckConnected(t) \/ LockWrite(t) \/ WriteFails(t) \/ DropNitz(t)
               \/ KeepNitz(t)
               \/ \E c \in Client : WriteHeader(t, c)
  PROVE  NoAnswer
<1>0. /\ DOMAIN call = Thread /\ Loop \in Thread
      /\ \A t \in Thread : DOMAIN call[t] = {"stage", "msg", "fd"}
  BY Zenon DEF TypeOK, CallTypeOK, Thread
<1>1. /\ None \notin Request /\ Other \notin Request /\ Nitz \cap Request = {}
      /\ s_lastNITZTimeData \in Nitz \cup {None}
      /\ nitz < MaxNitz => nitz + 1 \in Nitz
  BY RilAssumption DEF TypeOK, TimeTypeOK, Nitz
<1>2. ASSUME NEW t \in Thread, NEW v, call' = [call EXCEPT ![t] = v],
             v.msg = call[t].msg \/ v.msg \notin Request,
             UNCHANGED <<owner, got, s_pendingRequests>>, unread' \subseteq unread
      PROVE  NoAnswer
  <2>1. \A u \in Thread : call'[u] = IF u = t THEN v ELSE call[u]
    BY <1>0, <1>2, Zenon
  <2> QED
    BY <1>2, <2>1, Zenon DEF NoAnswer
<1>3. ASSUME UNCHANGED <<owner, got, s_pendingRequests, call>>, unread' \subseteq unread
      PROVE  NoAnswer
  BY <1>3, Zenon DEF NoAnswer
<1>4. \A m : Sending(m).msg = m
  BY DEF Sending
<1>5. Idle.msg \notin Request
  BY <1>1 DEF Idle
<1>6. \A t \in Thread : \A st, f :
          /\ [call[t] EXCEPT !.stage = st].msg = call[t].msg
          /\ [call[t] EXCEPT !.stage = st, !.fd = f].msg = call[t].msg
  BY <1>0
<1>7. CASE Select \/ AcceptFails \/ FreeLastNitz \/ FireListen \/ FireCommands
            \/ DebugIgnored \/ SelectFails
           \/ ReadNothing \/ OnCommandsSocketClosed \/ DebugDone \/ UNCHANGED vars
  BY <1>3, <1>7, Zenon
     DEF Select, AcceptFails, FreeLastNitz, Fire, FireListen, FireCommands,
         DebugIgnored, SelectFails, ReadNothing, OnCommandsSocketClosed, DebugDone,
         clients, requests, sending, vars
<1>8. CASE \E c \in Client : Connect(c) \/ HangUp(c) \/ \E f \in Fd : Accept(c, f)
  BY <1>3, <1>8, Zenon DEF Connect, HangUp, Accept, requests, sending
<1>9. CASE Refuse \/ EndOfStream \/ ReadError \/ DebugCloseSocket
  <2>1. /\ UNCHANGED <<owner, got, s_pendingRequests, call>>
        /\ \E gone : unread' = {r \in unread : owner[r] # gone}
    BY <1>9, ZenonT(30) DEF Refuse, EndOfStream, ReadError, DebugCloseSocket,
       CloseCommands, CloseFd, requests, sending
  <2> QED
    BY <1>3, <2>1
<1>10. CASE Welcome \/ DebugReport
  BY <1>0, <1>1, <1>2, <1>4, <1>10, Zenon DEF Welcome, DebugReport, clients, requests
<1>11. CASE SendLastNitz
  <2>1. /\ UNCHANGED <<owner, got, s_pendingRequests, unread>>
        /\ \/ UNCHANGED call
           \/ s_lastNITZTimeData # None /\ call' = [call EXCEPT ![Loop] = Sending(s_lastNITZTimeData)]
    BY <1>11, Zenon DEF SendLastNitz, clients, requests
  <2>2. s_lastNITZTimeData \notin Request
    BY <1>1
  <2> QED
    BY <1>0, <1>2, <1>3, <1>4, <2>1, <2>2, Zenon
<1>12. ASSUME NEW t \in Thread, OnUnsolicitedResponse(t) PROVE NoAnswer
  BY <1>1, <1>2, <1>4, <1>12, Zenon DEF OnUnsolicitedResponse, clients, requests
<1>13. ASSUME NEW t \in Thread, OnNitzTimeReceived(t) PROVE NoAnswer
  <2>1. /\ UNCHANGED <<owner, got, s_pendingRequests, unread>> /\ nitz < MaxNitz
        /\ call' = [call EXCEPT ![t] = Sending(nitz + 1)]
    BY <1>13, Zenon DEF OnNitzTimeReceived, clients, requests
  <2>2. nitz + 1 \notin Request
    BY <1>1, <2>1, Zenon
  <2> QED
    BY <1>2, <1>4, <2>1, <2>2, Zenon
<1>14. ASSUME NEW t \in Thread, NEW ok, ReturnTo(t, ok),
              UNCHANGED <<owner, got, s_pendingRequests>>, unread' \subseteq unread
       PROVE  NoAnswer
  <2>1. call' = [call EXCEPT ![t] = [call[t] EXCEPT !.stage = "drop"]]
        \/ call' = [call EXCEPT ![t] = Idle]
    BY <1>14, Zenon DEF ReturnTo
  <2> QED
    BY <1>2, <1>5, <1>6, <1>14, <2>1, Zenon
<1>15. ASSUME NEW t \in Thread, SendResponse(t) PROVE NoAnswer
  <2>1. /\ UNCHANGED <<owner, got, s_pendingRequests, unread>>
        /\ call' = [call EXCEPT ![t] = [call[t] EXCEPT !.stage = "check", !.fd = s_fdCommand]]
    BY <1>0, <1>15, Zenon DEF SendResponse, clients, requests
  <2>2. unread' \subseteq unread
    BY <2>1
  <2> QED
    BY <1>2, <1>6, <2>1, <2>2, ZenonT(30)
<1>16. ASSUME NEW t \in Thread, CheckConnected(t) PROVE NoAnswer
  <2>1. /\ UNCHANGED <<owner, got, s_pendingRequests, unread>>
        /\ \/ ReturnTo(t, FALSE)
           \/ call' = [call EXCEPT ![t] = [call[t] EXCEPT !.stage = "lock"]]
    BY <1>0, <1>16, Zenon DEF CheckConnected, clients, requests
  <2>2. unread' \subseteq unread
    BY <2>1
  <2>3. CASE ReturnTo(t, FALSE)
    BY <1>14, <2>1, <2>2, <2>3, Zenon
  <2>4. CASE call' = [call EXCEPT ![t] = [call[t] EXCEPT !.stage = "lock"]]
    BY <1>2, <1>6, <2>1, <2>2, <2>4, ZenonT(30)
  <2> QED
    BY <2>1, <2>3, <2>4, Zenon
<1>17. ASSUME NEW t \in Thread, WriteFails(t) PROVE NoAnswer
  <2>1. /\ UNCHANGED <<owner, got, s_pendingRequests>> /\ ReturnTo(t, FALSE)
        /\ \E gone : unread' = {r \in unread : owner[r] # gone}
    BY <1>17, Zenon DEF WriteFails, CloseFd, OpenOn, requests
  <2>2. unread' \subseteq unread
    BY <2>1
  <2> QED
    BY <1>14, <2>1, <2>2, Zenon
<1>18. ASSUME NEW t \in Thread, LockWrite(t) \/ DropNitz(t)
            \/ \E c \in Client : WriteHeader(t, c)
       PROVE  NoAnswer
  <2>1. /\ UNCHANGED <<owner, got, s_pendingRequests, unread>>
        /\ \E st : call' = [call EXCEPT ![t] = [call[t] EXCEPT !.stage = st]]
    BY <1>18 DEF LockWrite, DropNitz, WriteHeader, clients, requests
  <2> QED
    BY <1>2, <1>6, <2>1, Zenon
<1>19. ASSUME NEW t \in Thread, KeepNitz(t) PROVE NoAnswer
  BY <1>2, <1>5, <1>19, Zenon DEF KeepNitz, clients, requests
<1> QED
  BY <1>7, <1>8, <1>9, <1>10, <1>11, <1>12, <1>13, <1>15, <1>17, <1>18, <1>19, <1>16,
      ZenonT(30)

\* A client asks, the request is taken off its socket, the debug port issues requests, the
\* vendor completes one, and a message is delivered.
Asked(c, r) ==
    /\ owner[r] = None /\ owner' = [owner EXCEPT ![r] = c] /\ unread' = unread \cup {r}
    /\ UNCHANGED <<got, s_pendingRequests, call>>

Taken(r) ==
    /\ r \in unread /\ unread' = unread \ {r}
    /\ s_pendingRequests' \in {s_pendingRequests, s_pendingRequests \cup {r}}
    /\ UNCHANGED <<owner, got, call>>

Issued(issued) ==
    /\ \A r \in issued : owner[r] = None
    /\ owner' = [r \in Request |-> IF r \in issued THEN Loop ELSE owner[r]]
    /\ s_pendingRequests' = s_pendingRequests \cup issued /\ unread' \subseteq unread
    /\ UNCHANGED <<got, call>>

Completed(t, r) ==
    /\ r \in s_pendingRequests /\ s_pendingRequests' = s_pendingRequests \ {r}
    /\ call' \in {call, [call EXCEPT ![t] = Sending(r)]}
    /\ UNCHANGED <<owner, unread, got>>

Delivered(t, c, m) ==
    /\ m = call[t].msg \/ m \notin Request
    /\ got' = [got EXCEPT ![c] = @ \cup ({m} \ {Other})]
    /\ call' = [call EXCEPT ![t] = Idle]
    /\ UNCHANGED <<owner, unread, s_pendingRequests>>

\* A step does one of these, or NoAnswer.
LEMMA StepIs ==
  ASSUME TypeOK, [Next]_vars
  PROVE  \/ NoAnswer
         \/ \E r \in Request : Taken(r) \/ \E c \in Client : Asked(c, r)
         \/ \E r, q \in Request : Issued({r, q})
         \/ \E t \in Thread : \/ \E r \in Request : Completed(t, r)
                              \/ \E c \in Client : \E m : Delivered(t, c, m)
<1> DEFINE G ==  \/ NoAnswer
                 \/ \E r \in Request : Taken(r) \/ \E c \in Client : Asked(c, r)
                 \/ \E r, q \in Request : Issued({r, q})
                 \/ \E t \in Thread : \/ \E r \in Request : Completed(t, r)
                                      \/ \E c \in Client : \E m : Delivered(t, c, m)
<1>1. ASSUME NEW c \in Client, NEW r \in Request, SendRequest(c, r) PROVE Asked(c, r)
  BY <1>1, Zenon DEF SendRequest, Asked, requests, sending
<1>2. ASSUME NEW r \in Request, ReadRequest(r) PROVE Taken(r)
  BY <1>2, Zenon DEF ReadRequest, Taken, sending
<1>3. ASSUME NEW r \in Request, NEW q \in Request, DebugRequest(r, q) PROVE Issued({r, q})
  BY <1>3, Zenon DEF DebugRequest, Fire, Issued, Local, sending
<1>4. ASSUME NEW r \in Request, DebugRadioOff(r) PROVE Issued({r, r})
  <2>1. {r, r} = {r} /\ unread \subseteq unread
    OBVIOUS
  <2> QED
    BY <1>4, <2>1, Zenon DEF DebugRadioOff, Local, Issued, sending
<1>5. ASSUME NEW t \in Thread, NEW r \in Request, OnRequestComplete(t, r)
      PROVE  Completed(t, r) \/ NoAnswer
  <2>1. /\ UNCHANGED <<owner, unread, got>>
        /\ \/ UNCHANGED <<s_pendingRequests, call>>
           \/ /\ r \in s_pendingRequests /\ s_pendingRequests' = s_pendingRequests \ {r}
              /\ call' = call \/ call' = [call EXCEPT ![t] = Sending(r)]
    BY <1>5, Zenon DEF OnRequestComplete, CheckAndDequeueRequestInfo, clients
  <2> QED
    BY <2>1, Zenon DEF Completed, NoAnswer
<1>6. ASSUME NEW t \in Thread, NEW c \in Client, WriteBody(t, c) PROVE \E m : Delivered(t, c, m)
  <2>1. s_lastNITZTimeData # None => s_lastNITZTimeData \notin Request
    BY RilAssumption DEF TypeOK, TimeTypeOK, Nitz
  <2>2. PICK m : /\ m = call[t].msg \/ (m = s_lastNITZTimeData /\ m # None)
                 /\ got' = [got EXCEPT ![c] = @ \cup ({m} \ {Other})]
    BY <1>6, Zenon DEF WriteBody
  <2>3. call' = [call EXCEPT ![t] = Idle]
    BY <1>6, Zenon DEF WriteBody, ReturnTo
  <2>4. UNCHANGED <<owner, unread, s_pendingRequests>>
    BY <1>6, Zenon DEF WriteBody, requests
  <2> QED
    BY <2>1, <2>2, <2>3, <2>4, Zenon DEF Delivered
<1>7. ASSUME ClientStep PROVE G
  BY <1>1, <1>7, NoAnswerIs, Zenon DEF ClientStep
<1>8. ASSUME CallbackStep PROVE G
  BY <1>2, <1>8, NoAnswerIs, Zenon DEF CallbackStep
<1>9. ASSUME DebugStep PROVE G
  BY <1>3, <1>4, <1>9, NoAnswerIs, Zenon DEF DebugStep
<1>10. ASSUME NEW t \in Thread, SendStep(t) PROVE G
  BY <1>6, <1>10, NoAnswerIs, Zenon DEF SendStep
<1>11. ASSUME NEW t \in Thread, VendorStep(t) PROVE G
  BY <1>5, <1>11, NoAnswerIs, Zenon DEF VendorStep
<1> QED
  BY <1>7, <1>8, <1>9, <1>10, <1>11, NoAnswerIs, Zenon DEF Next

\* The fields that the steps update.
LEMMA CallFields ==
  ASSUME TypeOK
  PROVE  /\ DOMAIN call = Thread /\ DOMAIN got = Client /\ DOMAIN owner = Request
         /\ \A t \in Thread : DOMAIN call[t] = {"stage", "msg", "fd"}
         /\ Idle.msg \notin Request /\ Other \notin Request
         /\ None \notin Client \cup {Loop} /\ \A m : Sending(m).msg = m
  BY RilAssumption DEF TypeOK, CallTypeOK, SocketTypeOK, Idle, Sending

\* Where the messages are after a message was begun or delivered.
LEMMA MessageIs ==
  ASSUME TypeOK, NEW t \in Thread, NEW v, call' = [call EXCEPT ![t] = v]
  PROVE  \A u \in Thread : call'[u].msg = IF u = t THEN v.msg ELSE call[u].msg
<1>1. \A u \in Thread : call'[u] = IF u = t THEN v ELSE call[u]
  BY CallFields, Zenon
<1> QED
  BY <1>1

\* A request is on the list only once it is read, and answered only once it was on the list.
LEMMA FreshStep == TypeOK /\ AnsweredOnce /\ Fresh /\ [Next]_vars => Fresh'
<1> SUFFICES ASSUME TypeOK, AnsweredOnce, Fresh, [Next]_vars PROVE Fresh'
  OBVIOUS
<1>1. ASSUME NoAnswer PROVE Fresh'
  BY <1>1, Zenon DEF NoAnswer, Fresh, Unanswered
<1>2. ASSUME NEW r \in Request, Taken(r) PROVE Fresh'
  BY <1>2 DEF Taken, Fresh, Unanswered
<1>3. ASSUME NEW r \in Request, NEW c \in Client, Asked(c, r) PROVE Fresh'
  <2>1. \A q \in Request : owner'[q] = IF q = r THEN c ELSE owner[q]
    BY <1>3, CallFields, Zenon DEF Asked
  <2>2. c # None
    BY CallFields
  <2> QED
    BY <1>3, <2>1, <2>2 DEF Asked, Fresh, Unanswered
<1>4. ASSUME NEW r \in Request, NEW q \in Request, Issued({r, q}) PROVE Fresh'
  <2>1. \A p \in Request : owner'[p] = IF p \in {r, q} THEN Loop ELSE owner[p]
    BY <1>4 DEF Issued
  <2>2. Loop # None
    BY CallFields
  <2> QED
    BY <1>4, <2>1, <2>2 DEF Issued, Fresh, Unanswered
<1>5. ASSUME NEW t \in Thread, NEW r \in Request, Completed(t, r) PROVE Fresh'
  <2>1. \A u \in Thread : call'[u].msg \in {call[u].msg, r}
    BY <1>5, MessageIs, CallFields DEF Completed
  <2> QED
    BY <1>5, <2>1 DEF Completed, Fresh, Unanswered
<1>6. ASSUME NEW t \in Thread, NEW c \in Client, NEW m, Delivered(t, c, m) PROVE Fresh'
  <2>1. \A u \in Thread : call'[u].msg = call[u].msg \/ call'[u].msg \notin Request
    BY <1>6, MessageIs, CallFields, Zenon DEF Delivered
  <2>2. \A d \in Client : got'[d] \subseteq got[d] \cup {m}
    BY <1>6, CallFields DEF Delivered
  <2> QED
    BY <1>6, <2>1, <2>2 DEF Delivered, Fresh, Unanswered
<1> QED
  BY <1>1, <1>2, <1>3, <1>4, <1>5, <1>6, StepIs, Zenon

\* No step answers a request a second time.
LEMMA AnsweredStep == TypeOK /\ Fresh /\ AnsweredOnce /\ [Next]_vars => AnsweredOnce'
<1> SUFFICES ASSUME TypeOK, Fresh, AnsweredOnce, [Next]_vars PROVE AnsweredOnce'
  OBVIOUS
<1>1. ASSUME NoAnswer PROVE AnsweredOnce'
  BY <1>1 DEF NoAnswer, AnsweredOnce, Unanswered
<1>2. ASSUME NEW r \in Request, Taken(r) PROVE AnsweredOnce'
  <2>1. UNCHANGED <<call, got>> /\ r \in unread
    BY <1>2 DEF Taken
  <2>2. \A x \in Request : x \in s_pendingRequests' => x \in s_pendingRequests \/ x = r
    BY <1>2 DEF Taken
  <2>3. Unanswered(r)
    BY <2>1 DEF Fresh
  <2>4. \A x \in Request : Unanswered(x) => Unanswered(x)'
    BY <2>1, Zenon DEF Unanswered
  <2> QED
    BY <2>1, <2>2, <2>3, <2>4 DEF AnsweredOnce
<1>3. ASSUME NEW r \in Request, NEW c \in Client, Asked(c, r) PROVE AnsweredOnce'
  BY <1>3, Zenon DEF Asked, AnsweredOnce, Unanswered
<1>4. ASSUME NEW r \in Request, NEW q \in Request, Issued({r, q}) PROVE AnsweredOnce'
  BY <1>4, Zenon DEF Issued, Fresh, AnsweredOnce, Unanswered
<1>5. ASSUME NEW t \in Thread, NEW r \in Request, Completed(t, r) PROVE AnsweredOnce'
  <2>1. Unanswered(r)
    BY <1>5 DEF Completed, AnsweredOnce
  <2>2. \A u \in Thread : call'[u].msg = call[u].msg \/ (u = t /\ call'[u].msg = r)
    BY <1>5, MessageIs, CallFields DEF Completed
  <2> QED
    BY <1>5, <2>1, <2>2 DEF Completed, AnsweredOnce, Unanswered
<1>6. ASSUME NEW t \in Thread, NEW c \in Client, NEW m, Delivered(t, c, m) PROVE AnsweredOnce'
  <2>1. \A u \in Thread : /\ u = t => call'[u].msg \notin Request
                          /\ u # t => call'[u].msg = call[u].msg
    BY <1>6, MessageIs, CallFields DEF Delivered
  <2>2. \A d \in Client : got'[d] = IF d = c THEN got[d] \cup ({m} \ {Other}) ELSE got[d]
    BY <1>6, CallFields, ZenonT(30) DEF Delivered
  <2>3. s_pendingRequests' = s_pendingRequests /\ (m = call[t].msg \/ m \notin Request)
    BY <1>6 DEF Delivered
  <2>4. ASSUME NEW x \in Request, x \in s_pendingRequests' PROVE Unanswered(x)'
    <3>1. Unanswered(x)
      BY <2>3, <2>4 DEF AnsweredOnce
    <3> QED
      BY <3>1, <2>1, <2>2, <2>3, Zenon DEF Unanswered
  <2>5. ASSUME NEW x \in Request, NEW u \in Thread, call'[u].msg = x
        PROVE  u # t /\ call[u].msg = x /\ \A d \in Client : x \notin got'[d]
    <3>1. u # t /\ call[u].msg = x
      BY <2>1, <2>5, Zenon
    <3>2. m # x
      <4>1. call[t].msg = x => u = t
        BY <3>1, Zenon DEF AnsweredOnce
      <4> QED
        BY <4>1, <3>1, <2>3, Zenon
    <3>3. \A d \in Client : x \notin got[d]
      BY <3>1, Zenon DEF AnsweredOnce
    <3> QED
      BY <3>1, <3>2, <3>3, <2>2, Zenon
  <2>6. ASSUME NEW x \in Request, NEW u \in Thread, NEW w \in Thread, call'[u].msg = x, call'[w].msg = x
        PROVE  u = w
    BY <2>5, <2>6, Zenon DEF AnsweredOnce
  <2>7. ASSUME NEW x \in Request, NEW d \in Client, NEW e \in Client, x \in got'[d], x \in got'[e]
        PROVE  d = e
    <3>1. CASE m = x
      <4>1. call[t].msg = x
        BY <3>1, <2>3, Zenon
      <4>2. x \notin got[d] /\ x \notin got[e]
        BY <4>1, Zenon DEF AnsweredOnce
      <4> QED
        BY <4>2, <2>2, <2>7, Zenon
    <3>2. CASE m # x
      <4>1. x \in got[d] /\ x \in got[e]
        BY <3>2, <2>2, <2>7, ZenonT(30)
      <4> QED
        BY <4>1, Zenon DEF AnsweredOnce
    <3> QED
      BY <3>1, <3>2
  <2> QED
    BY <2>4, <2>5, <2>6, <2>7, ZenonT(30) DEF AnsweredOnce
<1> QED
  BY <1>1, <1>2, <1>3, <1>4, <1>5, <1>6, StepIs, Zenon

\* Every step leaves s_writeMutex with the thread that writes.
LEMMA LockedStep == TypeOK /\ Locked /\ [Next]_vars => Locked'
<1> SUFFICES ASSUME TypeOK, Locked, [Next]_vars PROVE Locked'
  OBVIOUS
<1>0. /\ DOMAIN call = Thread /\ \A t \in Thread : DOMAIN call[t] = {"stage", "msg", "fd"}
      /\ None \notin Thread
  BY RilAssumption DEF TypeOK, CallTypeOK, Thread
<1>1. ASSUME Welcome PROVE Locked'
  BY <1>1, <1>0, Zenon DEF Welcome, Sending, LoopAt, sending, Locked, Idle
<1>2. ASSUME SendLastNitz PROVE Locked'
  BY <1>2, <1>0 DEF SendLastNitz, Sending, LoopAt, sending, Locked, Idle
<1>3. ASSUME DebugReport PROVE Locked'
  BY <1>3, <1>0 DEF DebugReport, Fire, Sending, LoopAt, sending, Locked, Idle
<1>4. ASSUME NEW t \in Thread, NEW r \in Request, OnRequestComplete(t, r) PROVE Locked'
  <2>1. s_writeMutex' = s_writeMutex /\ call' \in {call, [call EXCEPT ![t] = Sending(r)]}
    BY <1>4 DEF OnRequestComplete
  <2>2. \A u \in Thread : call'[u] = call[u] \/ call'[u] = Sending(r)
    BY <2>1, <1>0, Zenon
  <2> QED
    BY <2>1, <2>2 DEF Locked, Sending
<1>5. ASSUME NEW t \in Thread, OnUnsolicitedResponse(t) PROVE Locked'
  BY <1>5, <1>0 DEF OnUnsolicitedResponse, Sending, sending, Locked, Idle
<1>6. ASSUME NEW t \in Thread, OnNitzTimeReceived(t) PROVE Locked'
  BY <1>6, <1>0 DEF OnNitzTimeReceived, Sending, sending, Locked, Idle
<1>7. ASSUME NEW t \in Thread, SendResponse(t) PROVE Locked'
  BY <1>7, <1>0 DEF SendResponse, ReturnTo, Idle, sending, Locked
<1>8. ASSUME NEW t \in Thread, CheckConnected(t) PROVE Locked'
  BY <1>8, <1>0 DEF CheckConnected, ReturnTo, Idle, sending, Locked
<1>9. ASSUME NEW t \in Thread, LockWrite(t) PROVE Locked'
  BY <1>9, <1>0 DEF LockWrite, sending, Locked, Idle
<1>10. ASSUME NEW t \in Thread, NEW c \in Client, WriteHeader(t, c) PROVE Locked'
  BY <1>10, <1>0 DEF WriteHeader, Reaches, OpenOn, sending, Locked, Idle
<1>11. ASSUME NEW t \in Thread, NEW c \in Client, WriteBody(t, c) PROVE Locked'
  BY <1>11, <1>0 DEF WriteBody, ReturnTo, Idle, Reaches, OpenOn, sending, Locked
<1>12. ASSUME NEW t \in Thread, WriteFails(t) PROVE Locked'
  BY <1>12, <1>0 DEF WriteFails, ReturnTo, CloseFd, OpenOn, Idle, sending, Locked
<1>13. ASSUME NEW t \in Thread, DropNitz(t) PROVE Locked'
  BY <1>13, <1>0 DEF DropNitz, sending, Locked, Idle
<1>14. ASSUME NEW t \in Thread, KeepNitz(t) PROVE Locked'
  BY <1>14, <1>0 DEF KeepNitz, Idle, sending, Locked
<1>15. ASSUME UNCHANGED <<call, s_writeMutex>> PROVE Locked'
  BY <1>15 DEF Locked
<1>16. ASSUME NEW c \in Client, Connect(c) \/ HangUp(c)
    PROVE  Locked'
  BY <1>16, <1>15 DEF Connect, HangUp, sending
<1>17. ASSUME NEW c \in Client, NEW r \in Request, SendRequest(c, r)
    PROVE  Locked'
  BY <1>17, <1>15 DEF SendRequest, sending
<1>18. ASSUME Select \/ AcceptFails \/ Refuse \/ FreeLastNitz \/ FireListen \/ FireCommands
            \/ DebugIgnored            \/ SelectFails \/ ReadNothing \/ EndOfStream
            \/ ReadError
            \/ OnCommandsSocketClosed \/ DebugCloseSocket \/ DebugDone
    PROVE  Locked'
  BY <1>18, <1>15, Zenon
     DEF Select, AcceptFails, Refuse, FreeLastNitz, Fire, FireListen, FireCommands,
         DebugIgnored, SelectFails, ReadNothing, EndOfStream, ReadError,
         OnCommandsSocketClosed, DebugCloseSocket, DebugDone, CloseFd, OpenOn,
         CloseCommands, sending
<1>19. ASSUME NEW c \in Client, NEW f \in Fd, Accept(c, f)
    PROVE  Locked'
  BY <1>19, <1>15, Zenon DEF Accept, sending
<1>20. ASSUME NEW r \in Request, ReadRequest(r) \/ DebugRadioOff(r)
    PROVE  Locked'
  BY <1>20, <1>15 DEF ReadRequest, DebugRadioOff, Local, CloseFd, OpenOn, sending
<1>21. ASSUME NEW r \in Request, NEW q \in Request, DebugRequest(r, q)
    PROVE  Locked'
  BY <1>21, <1>15 DEF DebugRequest, Fire, Local, sending
<1>22. CASE UNCHANGED vars
  BY <1>22, <1>15 DEF vars, sending
<1>23. CASE ClientStep
  BY <1>23, <1>16, <1>17 DEF ClientStep
<1>24. CASE CallbackStep
  BY <1>24, <1>18, <1>1, <1>2, <1>19, <1>20 DEF CallbackStep
<1>25. CASE DebugStep
  BY <1>25, <1>21, <1>20, <1>3 DEF DebugStep
<1>26. ASSUME NEW t \in Thread, SendStep(t) PROVE Locked'
  BY <1>26, <1>7, <1>9, <1>12, <1>13, <1>14, <1>10, <1>11, <1>8 DEF SendStep
<1>27. ASSUME NEW t \in Thread, VendorStep(t) PROVE Locked'
  BY <1>27, <1>4, <1>5, <1>6 DEF VendorStep
<1> QED
  BY <1>22, <1>23, <1>24, <1>25, <1>26, <1>27, <1>18 DEF Next

\* Every step leaves a begun message to the thread that writes it.
LEMMA FramedStep == TypeOK /\ Locked /\ Framed /\ [Next]_vars => Framed'
<1> SUFFICES ASSUME TypeOK, Locked, Framed, [Next]_vars PROVE Framed'
  OBVIOUS
<1>0. /\ DOMAIN call = Thread /\ DOMAIN frame = Client /\ DOMAIN file = Fd
      /\ \A t \in Thread : DOMAIN call[t] = {"stage", "msg", "fd"}
      /\ \A t \in Thread : call[t].fd \in Fd \cup {None}
      /\ Loop \in Thread /\ None \notin Client \cup Thread \cup Fd
  BY RilAssumption DEF TypeOK, CallTypeOK, SocketTypeOK, ChannelTypeOK, Thread
<1>1. ASSUME UNCHANGED <<frame, file, s_writeMutex>>,
           \A t \in Thread : call[t].stage = "body" => call'[t] = call[t]
    PROVE  Framed'
  BY <1>1, Zenon DEF Framed
<1>2. ASSUME NEW c \in Client, NEW f \in Fd, Accept(c, f) PROVE Framed'
  <2>1. UNCHANGED <<frame, call, s_writeMutex>>
    BY <1>2 DEF Accept, sending
  <2>2. \A g \in Fd : file[g] # None => file'[g] = file[g]
    BY <1>2, <1>0 DEF Accept
  <2> SUFFICES ASSUME NEW d \in Client, frame'[d] # None
               PROVE  /\ s_writeMutex' \in Thread /\ call'[s_writeMutex'].stage = "body"
                      /\ call'[s_writeMutex'].fd \in Fd /\ file'[call'[s_writeMutex'].fd] = d
    BY DEF Framed
  <2>3. /\ s_writeMutex \in Thread /\ call[s_writeMutex].stage = "body"
        /\ call[s_writeMutex].fd \in Fd /\ file[call[s_writeMutex].fd] = d
    BY <2>1 DEF Framed
  <2> QED
    BY <2>1, <2>2, <2>3, <1>0
<1>3. ASSUME NEW f, CloseFd(f), UNCHANGED <<call, s_writeMutex>> PROVE Framed'
  <2> SUFFICES ASSUME NEW d \in Client, frame'[d] # None
               PROVE  /\ s_writeMutex' \in Thread /\ call'[s_writeMutex'].stage = "body"
                      /\ call'[s_writeMutex'].fd \in Fd /\ file'[call'[s_writeMutex'].fd] = d
    BY DEF Framed
  <2>1. frame[d] # None /\ OpenOn(f) # d
    BY <1>3, Zenon DEF CloseFd
  <2>2. /\ s_writeMutex \in Thread /\ call[s_writeMutex].stage = "body"
        /\ call[s_writeMutex].fd \in Fd /\ file[call[s_writeMutex].fd] = d
    BY <2>1 DEF Framed
  <2>3. call[s_writeMutex].fd # f
    BY <2>1, <2>2, <1>0 DEF OpenOn
  <2>4. \A g \in Fd : g # f => file'[g] = file[g]
    BY <1>3, Zenon DEF CloseFd
  <2> QED
    BY <2>2, <2>3, <2>4, <1>3, Zenon
<1>4. ASSUME NEW u \in Thread, NEW v, call[u] = Idle, call' \in {call, [call EXCEPT ![u] = v]},
              UNCHANGED <<frame, file, s_writeMutex>>
       PROVE  Framed'
  <2>1. \A t \in Thread : call[t].stage = "body" => call'[t] = call[t]
    BY <1>4, <1>0 DEF Idle
  <2> QED
    BY <2>1, <1>1, <1>4
<1>5. ASSUME Refuse PROVE Framed'
  <2>1. CloseFd(s_fdCommand) /\ UNCHANGED <<call, s_writeMutex>>
    BY <1>5 DEF Refuse, sending
  <2> QED
    BY <2>1, <1>3
<1>6. ASSUME Welcome PROVE Framed'
  <2>1. /\ call[Loop] = Idle /\ call' = [call EXCEPT ![Loop] = Sending(Other)]
        /\ UNCHANGED <<frame, file, s_writeMutex>>
    BY <1>6, Zenon DEF Welcome, LoopAt, clients
  <2> QED
    BY <2>1, <1>4, <1>0, Zenon
<1>7. ASSUME SendLastNitz PROVE Framed'
  BY <1>7, <1>1, <1>0
     DEF SendLastNitz, Sending, LoopAt, Idle, CanCall, clients, channel, sending
<1>8. ASSUME EndOfStream PROVE Framed'
  <2>1. CloseFd(s_fdCommand) /\ UNCHANGED <<call, s_writeMutex>>
    BY <1>8 DEF EndOfStream, CloseCommands, sending
  <2> QED
    BY <2>1, <1>3
<1>9. ASSUME ReadError PROVE Framed'
  <2>1. CloseFd(s_fdCommand) /\ UNCHANGED <<call, s_writeMutex>>
    BY <1>9 DEF ReadError, CloseCommands, sending
  <2> QED
    BY <2>1, <1>3
<1>10. ASSUME DebugCloseSocket PROVE Framed'
  <2>1. CloseFd(s_fdCommand) /\ UNCHANGED <<call, s_writeMutex>>
    BY <1>10 DEF DebugCloseSocket, sending
  <2> QED
    BY <2>1, <1>3
<1>11. ASSUME DebugReport PROVE Framed'
  <2>1. /\ call[Loop] = Idle /\ call' = [call EXCEPT ![Loop] = Sending(Other)]
        /\ UNCHANGED <<frame, file, s_writeMutex>>
    BY <1>11 DEF DebugReport, Fire, LoopAt, clients, channel
  <2> QED
    BY <2>1, <1>4, <1>0, Zenon
<1>12. ASSUME NEW t \in Thread, NEW r \in Request, OnRequestComplete(t, r) PROVE Framed'
  <2>1. /\ call[t] = Idle /\ call' \in {call, [call EXCEPT ![t] = Sending(r)]}
        /\ UNCHANGED <<frame, file, s_writeMutex>>
    BY <1>12 DEF OnRequestComplete, CanCall, clients, channel
  <2> QED
    BY <2>1, <1>4, Zenon
<1>13. ASSUME NEW t \in Thread, OnUnsolicitedResponse(t) PROVE Framed'
  <2>1. /\ call[t] = Idle /\ call' = [call EXCEPT ![t] = Sending(Other)]
        /\ UNCHANGED <<frame, file, s_writeMutex>>
    BY <1>13 DEF OnUnsolicitedResponse, CanCall, clients, channel
  <2> QED
    BY <2>1, <1>4, Zenon
<1>14. ASSUME NEW t \in Thread, OnNitzTimeReceived(t) PROVE Framed'
  <2>1. /\ call[t] = Idle /\ call' = [call EXCEPT ![t] = Sending(nitz + 1)]
        /\ UNCHANGED <<frame, file, s_writeMutex>>
    BY <1>14 DEF OnNitzTimeReceived, CanCall, clients, channel
  <2> QED
    BY <2>1, <1>4, Zenon
<1>15. ASSUME NEW t \in Thread, SendResponse(t) PROVE Framed'
  BY <1>15, <1>1, <1>0
     DEF SendResponse, ReturnTo, Idle, CanCall, clients, channel, sending
<1>16. ASSUME NEW t \in Thread, CheckConnected(t) PROVE Framed'
  BY <1>16, <1>1, <1>0
     DEF CheckConnected, ReturnTo, Idle, CanCall, clients, channel, sending
<1>17. ASSUME NEW t \in Thread, LockWrite(t) PROVE Framed'
  BY <1>17, <1>0, SMTT(30)
     DEF LockWrite, clients, channel, sending, Framed, Idle, CanCall, Locked
<1>18. ASSUME NEW t \in Thread, NEW c \in Client, WriteHeader(t, c) PROVE Framed'
  <2>1. call[t].fd \in Fd /\ file[call[t].fd] = c
    BY <1>18, <1>0 DEF WriteHeader, Reaches, OpenOn
  <2>2. \A d \in Client : frame[d] = None
    BY <1>18 DEF WriteHeader, Framed, Locked
  <2>3. /\ \A d \in Client : d # c => frame'[d] = frame[d]
        /\ s_writeMutex' = t /\ file' = file
        /\ call'[t].stage = "body" /\ call'[t].fd = call[t].fd
    BY <1>18, <1>0 DEF WriteHeader, Locked, channel
  <2> QED
    BY <2>1, <2>2, <2>3 DEF Framed
<1>19. ASSUME NEW t \in Thread, NEW c \in Client, WriteBody(t, c) PROVE Framed'
  BY <1>19, <1>0, SMTT(30)
     DEF WriteBody, ReturnTo, Idle, Reaches, OpenOn, clients, channel, sending, Framed,
         CanCall, Locked
<1>20. ASSUME NEW t \in Thread, WriteFails(t) PROVE Framed'
  <2>1. CloseFd(call[t].fd) /\ s_writeMutex = t
    BY <1>20 DEF WriteFails, Locked
  <2>2. \A d \in Client : frame[d] # None => OpenOn(call[t].fd) = d
    BY <2>1, <1>0 DEF Framed, OpenOn
  <2>3. \A d \in Client : frame'[d] = None
    BY <2>1, <2>2, Zenon DEF CloseFd
  <2> QED
    BY <2>3 DEF Framed
<1>21. ASSUME NEW t \in Thread, DropNitz(t) PROVE Framed'
  BY <1>21, <1>1, <1>0, Zenon DEF DropNitz, Idle, CanCall, clients, channel, sending
<1>22. ASSUME NEW t \in Thread, KeepNitz(t) PROVE Framed'
  BY <1>22, <1>1, <1>0 DEF KeepNitz, Idle, CanCall, clients, channel, sending
<1>23. ASSUME UNCHANGED <<frame, file, call, s_writeMutex>> PROVE Framed'
  BY <1>23 DEF Framed
<1>24. ASSUME NEW c \in Client, Connect(c) \/ HangUp(c)
    PROVE  Framed'
  BY <1>24, <1>23 DEF Connect, HangUp, clients, channel, sending
<1>25. ASSUME NEW c \in Client, NEW r \in Request, SendRequest(c, r)
    PROVE  Framed'
  BY <1>25, <1>23, Zenon DEF SendRequest, clients, channel, sending
<1>26. ASSUME Select \/ AcceptFails \/ FreeLastNitz \/ FireListen \/ FireCommands
            \/ DebugIgnored            \/ SelectFails \/ ReadNothing
            \/ OnCommandsSocketClosed \/ DebugDone
    PROVE  Framed'
  BY <1>26, <1>23, Zenon
     DEF Select, AcceptFails, FreeLastNitz, Fire, FireListen, FireCommands,
         DebugIgnored, SelectFails, ReadNothing, OnCommandsSocketClosed, DebugDone,
         clients, channel, sending
<1>27. ASSUME NEW r \in Request, ReadRequest(r) \/ DebugRadioOff(r)
    PROVE  Framed'
  BY <1>27, <1>23, Zenon DEF ReadRequest, DebugRadioOff, Local, clients, channel, sending
<1>28. ASSUME NEW r \in Request, NEW q \in Request, DebugRequest(r, q)
    PROVE  Framed'
  BY <1>28, <1>23 DEF DebugRequest, Fire, Local, clients, channel, sending
<1>29. CASE UNCHANGED vars
  BY <1>29, <1>23 DEF vars, clients, channel, sending
<1>30. CASE ClientStep
  BY <1>30, <1>24, <1>25 DEF ClientStep
<1>31. CASE CallbackStep
  BY <1>31, <1>26, <1>5, <1>6, <1>7, <1>2, <1>27, <1>8, <1>9, <1>10 DEF CallbackStep
<1>32. CASE DebugStep
  BY <1>32, <1>28, <1>27, <1>11 DEF DebugStep
<1>33. ASSUME NEW t \in Thread, SendStep(t) PROVE Framed'
  BY <1>33, <1>15, <1>17, <1>20, <1>21, <1>22, <1>18, <1>19, <1>16 DEF SendStep
<1>34. ASSUME NEW t \in Thread, VendorStep(t) PROVE Framed'
  BY <1>34, <1>12, <1>13, <1>14 DEF VendorStep
<1> QED
  BY <1>29, <1>30, <1>31, <1>32, <1>33, <1>34, <1>26, Zenon DEF Next

-----------------------------------------------------------------------------
\* The inductive invariant holds initially.
LEMMA InitIInv == Init => IInv
<1> SUFFICES ASSUME Init PROVE IInv
  OBVIOUS
<1> USE RilAssumption DEF Init
<1>1. TypeOK
  BY InitTypeOK, Zenon
<1>2. Linked /\ Current /\ Quiet /\ NoneInherited
  BY Zenon DEF Linked, Attached, Current, Quiet, NoneInherited
<1>3. Fresh /\ AnsweredOnce
  BY Zenon DEF Fresh, AnsweredOnce, Unanswered, Idle, Thread
<1>4. Locked /\ Framed
  BY DEF Locked, Framed, Idle, Thread
<1> QED
  BY <1>1, <1>2, <1>3, <1>4, Zenon DEF IInv

\* Every step preserves it.
LEMMA NextIInv == IInv /\ [Next]_vars => IInv'
<1> SUFFICES ASSUME IInv, [Next]_vars PROVE IInv'
  OBVIOUS
<1>1. TypeOK'
  BY TypeStep DEF IInv
<1>2. Linked' /\ Current'
  BY LinkedStep, CurrentStep DEF IInv
<1>3. Quiet' /\ NoneInherited'
  BY QuietStep, InheritStep DEF IInv
<1>4. Fresh' /\ AnsweredOnce'
  BY FreshStep, AnsweredStep DEF IInv
<1>5. Locked' /\ Framed'
  BY LockedStep, FramedStep DEF IInv
<1> QED
  BY <1>1, <1>2, <1>3, <1>4, <1>5 DEF IInv

\* The inductive invariant holds in every reachable state.
LEMMA Invariance == Spec => []IInv
  BY InitIInv, NextIInv, PTL DEF Spec

\* listenCallback()'s assertion never fails, whatever the debug port and the threads that
\* write do, and processCommandsCallback()'s fails only in a round of firePending() in
\* which the debug port's "radio off" was fired before.
THEOREM Assertions == Spec => []AssertionsHold
<1>1. IInv => AssertionsHold
  BY RilAssumption DEF IInv, Linked, Attached, AssertionsHold
<1> QED
  BY <1>1, Invariance, PTL

\* No connection inherits the requests of an earlier one: onCommandsSocketClosed()
\* has cancelled them before the next accept().
THEOREM Inheritance == Spec => []NoneInherited
<1>1. IInv => NoneInherited
  BY DEF IInv
<1> QED
  BY <1>1, Invariance, PTL

\* No request is answered twice, however often and from whichever threads the vendor
\* library completes it.
THEOREM OneAnswer == Spec => []AnsweredOnce
<1>1. IInv => AnsweredOnce
  BY DEF IInv
<1> QED
  BY <1>1, Invariance, PTL

\* No step puts anything between the header of a message and its body.
LEMMA WholeStep == IInv /\ [Next]_vars => [Whole]_vars
<1> SUFFICES ASSUME IInv, Next PROVE Whole
  OBVIOUS
<1>1. ASSUME UNCHANGED frame PROVE Whole
  BY <1>1 DEF Whole
<1>2. ASSUME NEW f, CloseFd(f) PROVE Whole
  BY <1>2 DEF CloseFd, OpenOn, Whole
<1>3. ASSUME NEW t \in Thread, NEW c \in Client, WriteHeader(t, c) PROVE Whole
  <2>1. \A d \in Client : frame[d] = None
    BY <1>3 DEF IInv, Framed, Locked, WriteHeader
  <2> QED
    BY <2>1 DEF Whole
<1>4. ASSUME NEW t \in Thread, NEW c \in Client, WriteBody(t, c) PROVE Whole
  BY <1>4, Zenon DEF IInv, TypeOK, SocketTypeOK, WriteBody, Whole
<1>5. CASE ClientStep
  BY <1>1, <1>5 DEF ClientStep, Connect, HangUp, SendRequest
<1>6. CASE CallbackStep
  <2>1. CASE Refuse \/ EndOfStream \/ ReadError \/ DebugCloseSocket
    BY <2>1, <1>2, Zenon
       DEF Refuse, EndOfStream, ReadError, DebugCloseSocket, CloseCommands
  <2>2. CASE \/ FireListen \/ FireCommands \/ DebugIgnored
             \/ AcceptFails \/ Welcome \/ SendLastNitz \/ FreeLastNitz \/ ReadNothing
             \/ OnCommandsSocketClosed \/ DebugDone
    BY <2>2, <1>1
       DEF FireListen, FireCommands, DebugIgnored, AcceptFails, Welcome, SendLastNitz,
           FreeLastNitz, ReadNothing, OnCommandsSocketClosed, DebugDone, clients
  <2>3. CASE \E c \in Client, f \in Fd : Accept(c, f)
    BY <2>3, <1>1 DEF Accept
  <2>4. CASE \E r \in Request : ReadRequest(r)
    BY <2>4, <1>1 DEF ReadRequest
  <2> QED
    BY <1>6, <2>1, <2>2, <2>3, <2>4 DEF CallbackStep
<1>7. CASE DebugStep
  <2>1. ASSUME NEW r \in Request, NEW q \in Request, DebugRequest(r, q) PROVE Whole
    BY <2>1, <1>1 DEF DebugRequest
  <2>2. ASSUME NEW r \in Request, DebugRadioOff(r) PROVE Whole
    BY <2>2, <1>1 DEF DebugRadioOff
  <2>3. CASE DebugReport
    BY <2>3, <1>1 DEF DebugReport, clients
  <2> QED
    BY <1>7, <2>1, <2>2, <2>3 DEF DebugStep
<1>8. ASSUME NEW t \in Thread, SendStep(t) PROVE Whole
  <2>1. CASE SendResponse(t) \/ CheckConnected(t) \/ LockWrite(t) \/ DropNitz(t)
  \/ KeepNitz(t)
    BY <2>1, <1>1, Zenon
       DEF SendResponse, CheckConnected, LockWrite, DropNitz, KeepNitz, clients
  <2>2. CASE WriteFails(t)
    BY <2>2, <1>2 DEF WriteFails
  <2> QED
    BY <1>8, <2>1, <2>2, <1>3, <1>4 DEF SendStep
<1>9. ASSUME NEW t \in Thread, VendorStep(t) PROVE Whole
  BY <1>9, <1>1, Zenon DEF VendorStep, OnRequestComplete, OnUnsolicitedResponse,
     OnNitzTimeReceived, clients
<1>10. CASE Select \/ SelectFails
  BY <1>10, <1>1 DEF Select, SelectFails, clients
<1> QED
  BY <1>5, <1>6, <1>7, <1>8, <1>9, <1>10 DEF Next

\* No message is interrupted by another: s_writeMutex keeps other threads out between
\* the header and the body, for any number of threads that write.
THEOREM WholeFrames == Spec => FramesWhole
  BY Invariance, WholeStep, PTL DEF Spec, FramesWhole
=============================================================================
