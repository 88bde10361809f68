---------------------------- MODULE ReferenceRil ----------------------------
(***************************************************************************)
(* The vendor library reference-ril.c on top of AtChannel, as libril drives  *)
(* it: onRequest() and the timed callbacks run one at a time on libril's     *)
(* event loop and wait there for the modem; the main thread opens the        *)
(* channel, waits for it to close and opens it again; the reader thread of a *)
(* channel reports lines and, at its end, the close.  They share sState,     *)
(* s_closed and the variables of AtChannel.                                   *)
(*                                                                           *)
(* loop is what the event loop is doing: the command it is about to send or   *)
(* waits for, or a step of setRadioState(); req is the request being served.  *)
(* out is what the step just taken handed to libril.                          *)
(*                                                                           *)
(* initializeCallback() and RIL_register() are commented out in mainLoop()    *)
(* and main(); with wired the callback is scheduled and requests arrive.      *)
(***************************************************************************)
EXTENDS AtChannel, RilMarshal, Functions

CONSTANTS
    HANDSHAKE_RETRY_COUNT,  \* 8 in the code
    SETUP_COMMANDS,         \* commands in a row whose results initializeCallback() ignores
    PDP_COMMANDS            \* the same in requestSetupDataCall(): 5 in the code

VARIABLES
    sState, s_closed,
    main,                   \* the main thread
    seen,                   \* oldState of a reader thread in setRadioState()
    loop, timers, out,
    fault                   \* "none", or where the model stops: a crash of the process, or
                            \* commands sent by a reader thread

vars == <<chanVars, sState, s_closed, main, seen, loop, timers, out, fault>>

\* The fields of Limit: wired, lines, unanswered and readers for AtChannel, the requests and
\* network events that occur, whether a channel may end, and how many timed callbacks of a kind may be pending.
MaxTimers == Limit.timers

Callbacks == {"initializeCallback", "pollSIMState", "onDataCallListChanged", "sendCallStateChanged"}

\* The counts of the code are counts, and an instance leaves room for a line where lines are
\* read, for the callback of the channel that mainLoop() opens, and for requests of ril.h only.
ASSUME ReferenceRilAssumption ==
    /\ HANDSHAKE_RETRY_COUNT \in Nat /\ SETUP_COMMANDS \in Nat /\ PDP_COMMANDS \in Nat
    /\ \A b \in DOMAIN Bounds :
          /\ Bounds[b].wired \in BOOLEAN /\ Bounds[b].lines \in Nat /\ Bounds[b].unanswered \in Nat
          /\ Bounds[b].wired => Bounds[b].lines > 0
          /\ Bounds[b].requests \subseteq DOMAIN Requests
          /\ Bounds[b].timers \in [Callbacks -> Nat]
          /\ Bounds[b].timers["initializeCallback"] > 0

-----------------------------------------------------------------------------
(* The requests that send one command, and what they make of its result.     *)

\* Requests that ignore the result: "success or failure is ignored by the upper layer here".
CallControl ==
    {"DIAL", "HANGUP", "HANGUP_WAITING_OR_BACKGROUND", "HANGUP_FOREGROUND_RESUME_BACKGROUND",
     "SWITCH_WAITING_OR_HOLDING_AND_ACTIVE", "ANSWER", "CONFERENCE", "UDUB",
     "SEPARATE_CONNECTION", "DTMF"}

PinRequests ==
    {"ENTER_SIM_PIN", "ENTER_SIM_PUK", "ENTER_SIM_PIN2", "ENTER_SIM_PUK2", "CHANGE_SIM_PIN",
     "CHANGE_SIM_PIN2"}

NumericRequests == {"GET_IMSI", "GET_IMEI", "CANCEL_USSD"}

OneCommand ==
    CallControl \cup PinRequests \cup NumericRequests \cup
    {"GET_CURRENT_CALLS", "SIGNAL_STRENGTH", "REGISTRATION_STATE", "GPRS_REGISTRATION_STATE",
     "OPERATOR", "SEND_SMS", "SMS_ACKNOWLEDGE", "SIM_IO", "SET_NETWORK_SELECTION_AUTOMATIC",
     "QUERY_NETWORK_SELECTION_MODE", "WRITE_SMS_TO_SIM", "DELETE_SMS_ON_SIM"}

Complete(e, payload) == [error |-> e, payload |-> payload]
Success(payload) == <<Complete("SUCCESS", payload)>>
Failure == <<Complete("GENERIC_FAILURE", Null)>>
SuccessIf(ok, payload) == IF ok THEN Success(payload) ELSE Failure

\* err < 0 || p_response->success == 0.
Ok(x) == ~x.err /\ x.success
Parsed(x) == x.lines["odd"] = 0

\* The error path of requestSignalStrength() completes a second time.
requestSignalStrength(x) ==
    IF ~Ok(x) THEN Failure \o Failure ELSE SuccessIf(Parsed(x), Payload("ints", 2))

\* 3 strings, or 4 with the network type; "alt" is the line without <n>.
requestRegistrationState(x) ==
    SuccessIf(~x.err /\ Parsed(x), Payload("strings", IF x.lines["alt"] > 0 THEN 3 ELSE 4))

\* p_response->p_intermediates->line without a look at success.
NoLineToRead(r, x) ==
    r \in {"REGISTRATION_STATE", "GPRS_REGISTRATION_STATE"} /\ ~x.err /\ Count(x.lines) = 0

\* "expect 3 lines exactly"; success is not looked at.
requestOperator(x) == SuccessIf(~x.err /\ Parsed(x) /\ Count(x.lines) = 3, Payload("strings", 3))

\* Lines that callFromCLCCLine() cannot parse are skipped.
requestGetCurrentCalls(x) ==
    SuccessIf(Ok(x), Payload("calls", Count(x.lines) - x.lines["odd"]))

\* Mutant: the response goes up with length 0.
requestSendSMS_empty(x) == SuccessIf(Ok(x), Payload("sms", 0))

requestSendSMS(x) == SuccessIf(Ok(x), Payload("sms", 1))
requestWriteSmsToSim(x) == SuccessIf(Ok(x), Null)
requestSIM_IO(x) == SuccessIf(Ok(x) /\ Parsed(x), Payload("sim_io", 1))

\* Mutant: no return before the error label.
requestQueryNetworkSelectionMode_falls(x) ==
    SuccessIf(Ok(x) /\ Parsed(x), Payload("ints", 1)) \o Failure

requestQueryNetworkSelectionMode(x) == SuccessIf(Ok(x) /\ Parsed(x), Payload("ints", 1))

requestEnterSimPin(x) ==
    IF Ok(x) THEN Success(Null) ELSE <<Complete("PASSWORD_INCORRECT", Null)>>

\* RIL_onRequestComplete(t, RIL_E_SUCCESS...) runs into the error label.
requestSMSAcknowledge(x) == Success(Null) \o Failure

\* The completions of request r once its command returned x.
Completions(r, x) ==
    CASE r \in CallControl -> Success(Null)
      [] r \in PinRequests -> requestEnterSimPin(x)
      [] r \in NumericRequests -> SuccessIf(Ok(x), Payload("string", 4))
      [] r = "GET_CURRENT_CALLS" -> requestGetCurrentCalls(x)
      [] r = "SIGNAL_STRENGTH" -> requestSignalStrength(x)
      [] r \in {"REGISTRATION_STATE", "GPRS_REGISTRATION_STATE"} -> requestRegistrationState(x)
      [] r = "OPERATOR" -> requestOperator(x)
      [] r = "SEND_SMS" -> requestSendSMS(x)
      [] r = "WRITE_SMS_TO_SIM" -> requestWriteSmsToSim(x)
      [] r = "DELETE_SMS_ON_SIM" -> SuccessIf(Ok(x), Null)
      [] r = "SMS_ACKNOWLEDGE" -> requestSMSAcknowledge(x)
      [] r = "SIM_IO" -> requestSIM_IO(x)
      [] r = "QUERY_NETWORK_SELECTION_MODE" -> requestQueryNetworkSelectionMode(x)
      [] r = "SET_NETWORK_SELECTION_AUTOMATIC" -> <<>>

\* The command a place of the loop sends: its type, prefix, and whether it carries a PDU.
Single == {"SIGNAL_STRENGTH", "SIM_IO", "QUERY_NETWORK_SELECTION_MODE", "REGISTRATION_STATE",
           "GPRS_REGISTRATION_STATE", "SEND_SMS", "WRITE_SMS_TO_SIM", "CPIN?", "CFUN?", "CSMS"}
          \cup PinRequests
Multi == {"GET_CURRENT_CALLS", "OPERATOR", "CGACT?", "CGDCONT?"}

CommandAt(at) ==
    [type |-> IF at \in Single THEN "SINGLELINE"
              ELSE IF at \in Multi THEN "MULTILINE"
              ELSE IF at \in NumericRequests THEN "NUMERIC" ELSE "NO_RESULT",
     prefix |-> IF at \in {"REGISTRATION_STATE", "GPRS_REGISTRATION_STATE"}
                THEN "+CREG:" ELSE "own",
     sms |-> at \in {"SEND_SMS", "WRITE_SMS_TO_SIM"}]

-----------------------------------------------------------------------------
(* The event loop: steps of the handlers.                                    *)

Idle == [st |-> "idle", at |-> "none", req |-> "none", k |-> 0, old |-> "none"]

LoopTypeOK ==
    /\ loop.st \in {"idle", "send", "wait", "sleep", "set", "reread"}
    /\ loop.req \in DOMAIN Requests \cup {"none"}
    /\ loop.old \in RIL_RadioState \cup {"none"}

\* Go on with command at, or with setRadioState(at); k counts what is left to do.
Goto(st, at, k) == loop' = [loop EXCEPT !.st = st, !.at = at, !.k = k]
Send(at) == Goto("send", at, 0)
SetRadioState(new) == Goto("set", new, 0)

\* Messages to libril.
Returned(r, completions) == [what |-> "returned", name |-> r, completions |-> completions]
Unsol(u, payload) == [what |-> "unsol", name |-> u, payload |-> payload]

\* The handler of a request, or a callback, ends.
Return(completions) ==
    /\ loop' = Idle
    /\ out' = IF loop.req = "none" THEN <<>> ELSE <<Returned(loop.req, completions)>>
Finish == Return(Success(Null))

\* Mutant: the callback is requested twice.
After_twice(cb) == [timers EXCEPT ![cb] = @ + 2]

After(cb) == [timers EXCEPT ![cb] = @ + 1]

\* getSIMStatus(): "alt" is a PIN, PUK or lock.
getSIMStatus(x) ==
    IF x.noSim THEN "ABSENT"
    ELSE IF ~Ok(x) \/ ~Parsed(x) THEN "NOT_READY"
    ELSE IF x.lines["good"] > 0 THEN "READY" ELSE "LOCKED"

\* isRadioOn() > 0: "alt" is "+CFUN: 0".
isRadioOn(x) == Ok(x) /\ x.lines["good"] > 0

Silent == out' = <<>>
Quiet == Silent /\ UNCHANGED <<timers, fault>>

\* A request of one command.
OneCommandReturns(x) ==
    /\ loop.at \in OneCommand
    /\ IF NoLineToRead(loop.at, x)
       THEN fault' = "no line" /\ Silent /\ UNCHANGED <<loop, timers>>
       ELSE /\ Return(Completions(loop.at, x))
            /\ timers' = IF loop.at = "GET_CURRENT_CALLS" /\ Ok(x) /\ x.lines["alt"] > 0
                         THEN After("sendCallStateChanged") ELSE timers
            /\ UNCHANGED fault

\* requestRadioPower(): after an error of AT+CFUN=1 the radio may be on nevertheless.
requestRadioPowerReturns(x) ==
    /\ loop.req = "RADIO_POWER" /\ UNCHANGED <<timers, fault>>
    /\ \/ /\ loop.at = "CFUN=0" /\ Ok(x) /\ SetRadioState("OFF") /\ Silent
       \/ /\ loop.at = "CFUN=0" /\ ~Ok(x) /\ Return(Failure)
       \/ /\ loop.at = "CFUN=1" /\ Ok(x) /\ SetRadioState("SIM_NOT_READY") /\ Silent
       \/ /\ loop.at = "CFUN=1" /\ ~Ok(x) /\ Send("CFUN?") /\ Silent
       \/ /\ loop.at = "CFUN?" /\ isRadioOn(x) /\ SetRadioState("SIM_NOT_READY")
          /\ Silent
       \/ /\ loop.at = "CFUN?" /\ ~isRadioOn(x) /\ Return(Failure)

\* requestOrSendDataCallList(): as the answer to a request or as an indication.
DataCallListIs(error, payload) ==
    /\ loop' = Idle
    /\ out' = <<IF loop.req = "none" THEN Unsol("DATA_CALL_LIST_CHANGED", payload)
                ELSE Returned(loop.req, <<Complete(error, payload)>>)>>

requestOrSendDataCallListReturns(x) ==
    /\ loop.at \in {"CGACT?", "CGDCONT?"} /\ UNCHANGED <<timers, fault>>
    /\ IF ~Ok(x) \/ ~Parsed(x) THEN DataCallListIs("GENERIC_FAILURE", Null)
       ELSE IF loop.at = "CGACT?" THEN Goto("send", "CGDCONT?", Count(x.lines)) /\ Silent
       ELSE DataCallListIs("SUCCESS", Payload("data_calls", loop.k))

\* requestSetupDataCall() without /dev/qmi: only the last command's result counts.
requestSetupDataCallReturns(x) ==
    /\ loop.at \in {"CGDCONT=1", "ATD*99***1#"} /\ UNCHANGED <<timers, fault>>
    /\ IF loop.at = "ATD*99***1#" THEN Return(SuccessIf(Ok(x), Payload("strings", 2)))
       ELSE /\ IF loop.k > 1 THEN Goto("send", "CGDCONT=1", loop.k - 1) ELSE Send("ATD*99***1#")
            /\ Silent

\* getCardStatus() for RIL_REQUEST_GET_SIM_STATUS: it never fails.
getCardStatusReturns(x) ==
    /\ loop.at = "CPIN?" /\ loop.req = "GET_SIM_STATUS"
    /\ Return(Success(Payload("card", 1))) /\ UNCHANGED <<timers, fault>>

\* Mutant: a SIM that is not ready is not asked again.
pollSIMStateReturns_once(x) ==
    /\ loop.at = "CPIN?" /\ loop.req # "GET_SIM_STATUS" /\ UNCHANGED <<timers, fault>>
    /\ CASE getSIMStatus(x) = "NOT_READY" -> Finish
         [] getSIMStatus(x) = "READY" -> SetRadioState("SIM_READY") /\ Silent
         [] OTHER -> SetRadioState("SIM_LOCKED_OR_ABSENT") /\ Silent

\* pollSIMState(), from a timer or from onRadioPowerOn().
pollSIMStateReturns(x) ==
    /\ loop.at = "CPIN?" /\ loop.req # "GET_SIM_STATUS" /\ UNCHANGED fault
    /\ CASE getSIMStatus(x) = "NOT_READY" -> Finish /\ timers' = After("pollSIMState")
         [] getSIMStatus(x) = "READY" -> SetRadioState("SIM_READY") /\ Silent /\ UNCHANGED timers
         [] OTHER -> SetRadioState("SIM_LOCKED_OR_ABSENT") /\ Silent /\ UNCHANGED timers

\* onSIMReady(): two commands whose results are ignored.
onSIMReadyReturns(x) ==
    /\ loop.at \in {"CSMS", "CNMI"} /\ UNCHANGED <<timers, fault>>
    /\ IF loop.at = "CSMS" THEN Send("CNMI") /\ Silent ELSE Finish

\* Mutant: the attempts are not counted.
at_handshakeReturns_forever(x) ==
    /\ loop.at = "ATE0Q0V1" /\ Quiet
    /\ IF ~x.err THEN Goto("sleep", "ATE0Q0V1", 0) ELSE Goto("send", "ATE0Q0V1", loop.k)

\* at_handshake(): any final response ends it; then it sleeps, s_commandmutex in hand.
at_handshakeReturns(x) ==
    /\ loop.at = "ATE0Q0V1" /\ Quiet
    /\ IF ~x.err THEN Goto("sleep", "ATE0Q0V1", 0)
       ELSE IF loop.k > 1 THEN Goto("send", "ATE0Q0V1", loop.k - 1)
       ELSE Goto("send", "ATS0=0", SETUP_COMMANDS)

\* s_commandmutex after a command: at_handshake() keeps it between attempts and asleep.
MutexAfter(x) ==
    s_commandmutex' = IF loop.at = "ATE0Q0V1" /\ (~x.err \/ loop.k > 1) THEN "handshake" ELSE "free"

\* initializeCallback() after the handshake: AT+CREG=1 if AT+CREG=2 fails, the rest ignored.
initializeCallbackReturns(x) ==
    /\ loop.req = "none" /\ Quiet
    /\ \/ /\ loop.at = "ATS0=0"
          /\ IF loop.k > 1 THEN Goto("send", "ATS0=0", loop.k - 1) ELSE Send("CREG=2")
       \/ /\ loop.at = "CREG=2"
          /\ IF Ok(x) THEN Goto("send", "CGREG=1", SETUP_COMMANDS) ELSE Send("CREG=1")
       \/ /\ loop.at = "CREG=1" /\ Goto("send", "CGREG=1", SETUP_COMMANDS)
       \/ /\ loop.at = "CGREG=1"
          /\ IF loop.k > 1 THEN Goto("send", "CGREG=1", loop.k - 1) ELSE Send("CFUN?")
       \/ /\ loop.at = "CFUN?"
          /\ IF isRadioOn(x) THEN SetRadioState("SIM_NOT_READY") ELSE loop' = Idle

\* What the handler does when its command returned x.
Continue(x) ==
    \/ OneCommandReturns(x) \/ requestRadioPowerReturns(x)
    \/ requestOrSendDataCallListReturns(x) \/ requestSetupDataCallReturns(x)
    \/ getCardStatusReturns(x) \/ pollSIMStateReturns(x) \/ onSIMReadyReturns(x)
    \/ at_handshakeReturns(x) \/ initializeCallbackReturns(x)

-----------------------------------------------------------------------------
(* The event loop: what it starts, and how it waits.                         *)

\* The process is up and as it should be.
Up == fault = "none"

\* The client sends what ril.h asks for; odd: an argument the handler does not support.
ClientParcel(r) == [n |-> Requests[r].n, values |-> "all"]

\* Arguments that make a difference to onRequest().
Args(r) ==
    CASE r = "RADIO_POWER" -> {"on", "off"}
      [] r \in {"SMS_ACKNOWLEDGE", "SEPARATE_CONNECTION"} \cup PinRequests -> {"plain", "odd"}
      [] OTHER -> {"plain"}

Serve(r) == [Idle EXCEPT !.req = r]

\* A request that is completed without a command.
AnswerAt(r, completions) ==
    /\ out' = <<Returned(r, completions)>>
    /\ UNCHANGED <<loop, timers, fault>>

\* onRequest() for the radio states in which most requests are refused.
NotAvailable(r) ==
    \/ sState = "UNAVAILABLE" /\ r # "GET_SIM_STATUS"
    \/ sState = "OFF" /\ r \notin {"RADIO_POWER", "GET_SIM_STATUS"}

\* The answer to an argument the handler refuses.
OddArgument(r) ==
    IF r \in PinRequests THEN <<Complete("PASSWORD_INCORRECT", Null)>> ELSE Failure

\* onRequest(): the first command of a handler, or the answer that needs none.
onRequest(r, arg) ==
    /\ Up /\ wired /\ loop = Idle
    /\ UNCHANGED <<chanVars, sState, s_closed, main, seen>>
    /\ LET first(at, k) == /\ loop' = [Serve(r) EXCEPT !.st = "send", !.at = at, !.k = k]
                           /\ Quiet
           data == Dispatch(r, ClientParcel(r))
       IN CASE NotAvailable(r) -> AnswerAt(r, <<Complete("RADIO_NOT_AVAILABLE", Null)>>)
            [] ~NotAvailable(r) /\ arg = "odd" -> AnswerAt(r, OddArgument(r))
            [] ~NotAvailable(r) /\ arg # "odd" ->
               CASE r = "GET_SIM_STATUS" -> first("CPIN?", 0)
                 [] r = "RADIO_POWER" ->
                    IF arg = "off" /\ sState # "OFF" THEN first("CFUN=0", 0)
                    ELSE IF arg = "on" /\ sState = "OFF"
                    THEN timers["pollSIMState"] < MaxTimers["pollSIMState"] /\ first("CFUN=1", 0)
                    ELSE AnswerAt(r, Success(Null))
                 [] r = "DATA_CALL_LIST" -> first("CGACT?", 0)
                 [] r = "SETUP_DATA_CALL" -> first("CGDCONT=1", PDP_COMMANDS)
                 [] r \in OneCommand ->
                    /\ r = "GET_CURRENT_CALLS" =>
                           timers["sendCallStateChanged"] < MaxTimers["sendCallStateChanged"]
                    /\ first(r, 0)
                 [] r \in {"OEM_HOOK_RAW", "OEM_HOOK_STRINGS"} -> AnswerAt(r, Success(data))
                 [] OTHER -> AnswerAt(r, <<Complete("REQUEST_NOT_SUPPORTED", Null)>>)

\* requestSetupDataCall() where /dev/qmi exists: no AT command, and any outcome.
SetupOverQmi ==
    /\ Up /\ wired /\ loop = Idle
    /\ "SETUP_DATA_CALL" \in Limit.requests /\ ~NotAvailable("SETUP_DATA_CALL")
    /\ \E ok \in BOOLEAN : AnswerAt("SETUP_DATA_CALL", SuccessIf(ok, Payload("strings", 2)))
    /\ UNCHANGED <<chanVars, sState, s_closed, main, seen>>

\* A timed callback fires.
TimerFires(cb) ==
    /\ Up /\ loop = Idle /\ timers[cb] > 0
    /\ timers' = [timers EXCEPT ![cb] = @ - 1]
    /\ UNCHANGED <<chanVars, sState, s_closed, main, seen, fault>>
    /\ CASE cb = "initializeCallback" ->
            /\ timers["pollSIMState"] < MaxTimers["pollSIMState"]
            /\ loop' = [Idle EXCEPT !.st = "set", !.at = "OFF"] /\ Silent
         [] cb = "pollSIMState" ->
            /\ loop' = IF sState # "SIM_NOT_READY" THEN Idle
                       ELSE [Idle EXCEPT !.st = "send", !.at = "CPIN?"]
            /\ Silent
         [] cb = "onDataCallListChanged" ->
            /\ loop' = [Idle EXCEPT !.st = "send", !.at = "CGACT?"] /\ Silent
         [] cb = "sendCallStateChanged" ->
            /\ out' = <<Unsol("RESPONSE_CALL_STATE_CHANGED", Null)>> /\ UNCHANGED loop

\* getSIMStatus() sends nothing when the radio is off or gone.
NothingToAsk == loop.at = "CPIN?" /\ sState \in {"OFF", "UNAVAILABLE"}

CommandSent ==
    /\ Up /\ loop.st = "send" /\ ~NothingToAsk
    /\ at_send_command(CommandAt(loop.at))
    /\ loop' = [loop EXCEPT !.st = "wait"]
    /\ Silent /\ UNCHANGED <<sState, s_closed, main, seen, timers, fault>>

\* The channel is closed, or write() fails.
CommandNotSent ==
    /\ Up /\ loop.st = "send"
    /\ MutexAfter(Failed) /\ Continue(Failed)
    /\ UNCHANGED <<bound, s_fd, s_readerClosed, sp_response, reader, modem, slipped>>
    /\ UNCHANGED <<sState, s_closed, main, seen>>

CommandDone ==
    /\ Up /\ loop.st = "wait"
    /\ CommandReturns
    /\ MutexAfter(ResultNow) /\ Continue(ResultNow)
    /\ UNCHANGED <<sState, s_closed, main, seen>>

HandshakeTimesOut ==
    /\ Up /\ loop.st = "wait" /\ loop.at = "ATE0Q0V1"
    /\ CommandTimesOut
    /\ MutexAfter(Failed) /\ Continue(Failed)
    /\ UNCHANGED <<sState, s_closed, main, seen>>

\* sleepMsec() returns and at_handshake() releases s_commandmutex.
HandshakeEnds ==
    /\ Up /\ loop.st = "sleep"
    /\ Goto("send", "ATS0=0", SETUP_COMMANDS)
    /\ s_commandmutex' = "free"
    /\ UNCHANGED <<bound, s_fd, s_readerClosed, sp_response, reader, modem, slipped>>
    /\ Silent /\ UNCHANGED <<sState, s_closed, main, seen, timers, fault>>

\* Mutant: s_closed is not looked at.
setRadioState_unaware(new) ==
    /\ sState' = new
    /\ main' = IF main = "asleep" /\ (sState # new \/ s_closed) THEN "checking" ELSE main
    /\ UNCHANGED s_closed

\* Mutant: the condition is signalled only when sState changes.
setRadioState_silent(new) ==
    LET to == IF s_closed THEN "UNAVAILABLE" ELSE new IN
    /\ sState' = to
    /\ main' = IF main = "asleep" /\ sState # to THEN "checking" ELSE main
    /\ UNCHANGED s_closed

\* setRadioState() under s_state_mutex: "If we're closed, the only reasonable state is
\* RADIO_STATE_UNAVAILABLE"; the broadcast wakes waitForClose().
setRadioState(new) ==
    LET to == IF s_closed THEN "UNAVAILABLE" ELSE new IN
    /\ sState' = to
    /\ main' = IF main = "asleep" /\ (sState # to \/ s_closed) THEN "checking" ELSE main
    /\ UNCHANGED s_closed

LoopSetsState ==
    /\ Up /\ loop.st = "set"
    /\ setRadioState(loop.at)
    /\ loop' = [loop EXCEPT !.st = "reread", !.old = sState]
    /\ Silent /\ UNCHANGED <<chanVars, seen, timers, fault>>

\* setRadioState() "outside of the mutex": it looks at sState again.
LoopRereadsState ==
    LET changed == sState # loop.old
        on(at) == loop' = [loop EXCEPT !.st = "send", !.at = at, !.old = "none"]
    IN
    /\ Up /\ loop.st = "reread"
    /\ LET news == IF changed THEN <<Unsol("RESPONSE_RADIO_STATE_CHANGED", Null)>> ELSE <<>> IN
       CASE changed /\ sState = "SIM_READY" -> on("CSMS") /\ out' = news
         [] changed /\ sState = "SIM_NOT_READY" -> on("CPIN?") /\ out' = news
         [] OTHER ->
            IF loop.req = "none" /\ loop.at = "OFF"
            THEN /\ loop' = [Idle EXCEPT !.st = "send", !.at = "ATE0Q0V1",
                                         !.k = HANDSHAKE_RETRY_COUNT]
                 /\ out' = news
            ELSE /\ loop' = Idle
                 /\ out' = IF loop.req = "none" THEN news
                           ELSE Append(news, Returned(loop.req, Success(Null)))
    /\ UNCHANGED <<chanVars, sState, s_closed, main, seen, timers, fault>>

-----------------------------------------------------------------------------
(* The reader thread: lines, and the end of the channel.                     *)

Rest == UNCHANGED <<sState, s_closed, main, seen, loop, fault>>

\* onUnsolicited(): what a line of the network makes the library do.  "Ignore unsolicited
\* responses until we're initialized."
onUnsolicited(e) ==
    IF sState = "UNAVAILABLE" THEN Silent /\ UNCHANGED timers
    ELSE CASE e \in {"RING", "NO CARRIER"} ->
              out' = <<Unsol("RESPONSE_CALL_STATE_CHANGED", Null)>> /\ UNCHANGED timers
           [] e = "+CREG:" ->
              out' = <<Unsol("RESPONSE_NETWORK_STATE_CHANGED", Null)>> /\ UNCHANGED timers
           [] e = "%CTZV:" ->
              out' = <<Unsol("NITZ_TIME_RECEIVED", Payload("string", 1))>> /\ UNCHANGED timers
           [] e = "+CMT:" ->
              out' = <<Unsol("RESPONSE_NEW_SMS", Payload("string", 1))>> /\ UNCHANGED timers
           [] e = "+CDS:" ->
              /\ out' = <<Unsol("RESPONSE_NEW_SMS_STATUS_REPORT", Payload("string", 1))>>
              /\ UNCHANGED timers
           [] e = "+CGEV:" ->
              /\ timers["onDataCallListChanged"] < MaxTimers["onDataCallListChanged"]
              /\ timers' = After("onDataCallListChanged") /\ Silent

FinalLine(r, f) ==
    /\ Up /\ handleFinalResponse(r, f)
    /\ Rest /\ Silent /\ UNCHANGED timers

AnswerLine(r) ==
    /\ Up /\ Rest /\ Silent /\ UNCHANGED timers
    /\ writeCtrlZ(r) \/ \E kind \in Kinds : addIntermediate(r, kind)

EventLine(r, e) ==
    /\ Up /\ Rest /\ processEvent(r, e)
    /\ IF Unsolicited(e) THEN onUnsolicited(e) ELSE Silent /\ UNCHANGED timers

NewSms(r) ==
    /\ Up /\ Rest /\ "+CMT:" \in Limit.events
    /\ FirstSmsLine(r) /\ Silent /\ UNCHANGED timers

SmsPdu(r) ==
    /\ Up /\ Rest /\ SecondSmsLine(r)
    /\ IF wired THEN \E e \in {"+CMT:", "+CDS:"} : onUnsolicited(e) ELSE Silent /\ UNCHANGED timers

\* The bound on pending initializeCallback()s is kept here: each end of a channel schedules one.
ChannelEnds(r) ==
    /\ Up /\ Rest /\ onReaderClosed(r) /\ Silent /\ UNCHANGED timers
    /\ Limit.ends /\ timers["initializeCallback"] < MaxTimers["initializeCallback"]

Others == UNCHANGED <<bound, s_fd, s_readerClosed, s_commandmutex, sp_response, modem, slipped,
                      loop, timers>>

\* onATReaderClosed() after at_close(): s_closed = 1.
ReaderMarksClosed(r) ==
    /\ Up /\ reader[r] = "closed"
    /\ s_closed' = TRUE
    /\ reader' = [reader EXCEPT ![r] = "setting"]
    /\ Others /\ Silent /\ UNCHANGED <<sState, main, seen, fault>>

ReaderSetsState(r) ==
    /\ Up /\ reader[r] = "setting"
    /\ setRadioState("UNAVAILABLE")
    /\ seen' = [seen EXCEPT ![r] = sState]
    /\ reader' = [reader EXCEPT ![r] = "rereading"]
    /\ Others /\ Silent /\ UNCHANGED fault

\* The rest of setRadioState() on the reader thread.  "FIXME onSimReady() and
\* onRadioPowerOn() cannot be called from the AT reader thread".
ReaderRereadsState(r) ==
    /\ Up /\ reader[r] = "rereading"
    /\ out' = IF sState = seen[r] THEN <<>> ELSE <<Unsol("RESPONSE_RADIO_STATE_CHANGED", Null)>>
    /\ fault' = IF sState # seen[r] /\ sState \in {"SIM_READY", "SIM_NOT_READY"}
                THEN "reader sends" ELSE "none"
    /\ reader' = [reader EXCEPT ![r] = "none"]
    /\ seen' = [seen EXCEPT ![r] = "none"]
    /\ Others /\ UNCHANGED <<sState, s_closed, main>>

-----------------------------------------------------------------------------
(* The main thread: mainLoop(). *)

MainRest == Silent /\ UNCHANGED <<sState, seen, loop>>

\* The device is open (the loop around open() is outside the model): s_closed = 0.
MainOpens ==
    /\ Up /\ main = "opening"
    /\ s_closed' = FALSE /\ main' = "fd"
    /\ MainRest /\ UNCHANGED <<chanVars, timers, fault>>

MainSetsFd ==
    /\ Up /\ main = "fd"
    /\ OpenFd /\ main' = "reset"
    /\ MainRest /\ UNCHANGED <<s_closed, timers, fault>>

\* The rest of at_open(), and initializeCallback() is scheduled.  A command that still
\* waits loses the response it waits for.
MainResets(r) ==
    /\ Up /\ main = "reset"
    /\ OpenReset(r)
    /\ main' = "checking"
    /\ timers' = IF wired THEN After("initializeCallback") ELSE timers
    /\ fault' = IF loop.st = "wait" THEN "response dropped" ELSE fault
    /\ MainRest /\ UNCHANGED s_closed

\* waitForClose(): while (s_closed == 0) pthread_cond_wait(...).
MainWaits ==
    /\ Up /\ main = "checking"
    /\ main' = IF s_closed THEN "opening" ELSE "asleep"
    /\ MainRest /\ UNCHANGED <<chanVars, s_closed, timers, fault>>

\* The behaviour is not followed any further.
Dead == fault # "none" /\ UNCHANGED vars

-----------------------------------------------------------------------------
TypeOK ==
    /\ ChanTypeOK /\ LoopTypeOK
    /\ sState \in RIL_RadioState /\ s_closed \in BOOLEAN
    /\ main \in {"opening", "fd", "reset", "checking", "asleep"}
    /\ seen \in [Reader -> RIL_RadioState \cup {"none"}]
    /\ \A cb \in Callbacks : timers[cb] \in 0..MaxTimers[cb]
    /\ Len(out) <= 2
    /\ fault \in {"none", "no line", "response dropped", "reader sends"}

\* sState is RADIO_STATE_UNAVAILABLE and s_closed is 0 when the library is loaded.
Init ==
    /\ ChanInit
    /\ sState = "UNAVAILABLE" /\ s_closed = FALSE /\ main = "opening"
    /\ seen = [r \in Reader |-> "none"]
    /\ loop = Idle /\ timers = [cb \in Callbacks |-> 0]
    /\ out = <<>> /\ fault = "none"

\* What the event loop does by itself once it was given something to do.
LoopStep ==
    \/ CommandSent \/ CommandNotSent \/ CommandDone \/ HandshakeTimesOut
    \/ HandshakeEnds \/ LoopSetsState \/ LoopRereadsState

ReaderCloses(r) == ReaderMarksClosed(r) \/ ReaderSetsState(r) \/ ReaderRereadsState(r)

MainStep == MainOpens \/ MainSetsFd \/ MainWaits \/ \E r \in Reader : MainResets(r)

Next ==
    \/ \E r \in Limit.requests : \E arg \in Args(r) : onRequest(r, arg)
    \/ SetupOverQmi
    \/ \E cb \in Callbacks : TimerFires(cb)
    \/ LoopStep
    \/ \E r \in Reader :
           \/ \E f \in Finals : FinalLine(r, f)
           \/ AnswerLine(r) \/ NewSms(r) \/ SmsPdu(r) \/ ChannelEnds(r) \/ ReaderCloses(r)
           \/ \E e \in Limit.events \cap Events : EventLine(r, e)
    \/ MainStep
    \/ Dead

\* The threads run, and the modem answers or hangs up and sends the second line of an SMS
\* it began.
Fairness ==
    /\ WF_vars(MainStep) /\ WF_vars(LoopStep)
    /\ WF_vars(\E r \in Reader : ReaderCloses(r) \/ SmsPdu(r))
    /\ SF_vars(\E r \in Reader : ChannelEnds(r) \/ \E f \in Finals : FinalLine(r, f))

Spec == Init /\ [][Next]_vars /\ Fairness

-----------------------------------------------------------------------------
(* Properties. *)

\* Data whose last value is a string or bytes.
EndInText == {"string", "strings", "raw", "sms_write", "dial", "sim_io"}

\* The rows of s_commands and s_unsolResponses that read or write what ril.h does not declare.
MisreadRequests ==
    LET read(f, shape) == Response(f, IF shape = "void" THEN Null ELSE Payload(shape, 1))
        given(r) == Dispatch(r, ClientParcel(r))
        empty(r) == Dispatch(r, [n |-> 0, values |-> "none"])
        short(r) == Dispatch(r, [n |-> Requests[r].n + 1, values |-> "most"])
        fits(r, shape) ==
            /\ IF shape = "void" THEN {given(r), empty(r), short(r)} = {Null}
               ELSE /\ given(r).is = shape /\ given(r).n >= Requests[r].n
                    /\ empty(r) = IF shape = "string" THEN Holed(shape, 1) ELSE Invalid
                    /\ IF shape \in EndInText THEN short(r).is = "holed" /\ short(r).of = shape
                       ELSE short(r) = Invalid
            /\ read(s_commands[r].response, Requests[r].response) = Requests[r].response
    IN {r \in DOMAIN Requests : r \notin DOMAIN s_commands \/ ~fits(r, Requests[r].data)}

MisreadIndications ==
    LET sent(u) == IF Indications[u] = "void" THEN Null ELSE Payload(Indications[u], 1) IN
    {u \in DOMAIN Indications :
        \/ u \notin DOMAIN s_unsolResponses
        \/ Response(s_unsolResponses[u], sent(u)) # Indications[u]}

\* The tables of libril are written against ril.h.  For every request a client may send the
\* dispatch function hands over the declared kind of data with at least the declared number
\* of elements.  An integer that is not in the parcel never reaches the vendor library: a
\* parcel that ends before it is rejected.  A parcel that ends before its last string or
\* bytes is not: the library gets NULL in their place.  The response function reads the
\* declared kind of response; and so for every indication, except that responseString()
\* reads the raw bytes of a broadcast SMS.
TablesFit ==
    /\ Limit.requests \cap MisreadRequests = {}
    /\ MisreadIndications = {"RESPONSE_NEW_BROADCAST_SMS"}

\* The requests that onRequest() has a case for.
Handled ==
    OneCommand \cup {"GET_SIM_STATUS", "RADIO_POWER", "DATA_CALL_LIST", "SETUP_DATA_CALL",
                    "OEM_HOOK_RAW", "OEM_HOOK_STRINGS"}

\* The library answers with errors that ril.h does not list for the request: any request but
\* GET_SIM_STATUS while the radio is not available, also the four whose row in ril.h leaves
\* RADIO_NOT_AVAILABLE out; requestSignalStrength(); and the requests that have no handler.
Unlisted(r) ==
    (IF r \in {"SCREEN_STATE", "WRITE_SMS_TO_SIM", "DELETE_SMS_ON_SIM", "CDMA_SUBSCRIPTION"}
     THEN {"RADIO_NOT_AVAILABLE"} ELSE {}) \cup
    (IF r = "SIGNAL_STRENGTH" THEN {"GENERIC_FAILURE"} ELSE {}) \cup
    (IF r \in Handled THEN {} ELSE {"REQUEST_NOT_SUPPORTED"})

\* It answers with NULL where ril.h wants an integer, and with fewer strings.
NullForInts == PinRequests \cup {"WRITE_SMS_TO_SIM"}
FewerStrings == {"REGISTRATION_STATE", "GPRS_REGISTRATION_STATE", "SETUP_DATA_CALL"}

\* Completion c of request r is what ril.h declares, but for the departures above.
Declared(r, c) ==
    /\ c.error \in Requests[r].errors \cup Unlisted(r)
    /\ c.error # "SUCCESS" => c.payload = Null
    /\ c.error = "SUCCESS" /\ c.payload = Null =>
           Requests[r].response = "void" \/ r \in NullForInts
    /\ c.payload # Null =>
           /\ Response(s_commands[r].response, c.payload) = Requests[r].response
           /\ r \in DOMAIN ResponseStrings \ FewerStrings => c.payload.n >= ResponseStrings[r]

\* Whatever the modem answered, what reaches the client is what ril.h declares for the
\* request: one of its errors without a response, or success with a response that libril
\* marshals as the declared kind, NULL only where ril.h has none, and with as many strings
\* as ril.h describes.  The departures are named: Unlisted, NullForInts, FewerStrings.  An
\* indication carries what ril.h declares.
Conforms ==
    \A m \in Range(out) :
        IF m.what = "unsol"
        THEN Response(s_unsolResponses[m.name], m.payload) \in {Indications[m.name], "void"}
        ELSE \A c \in Range(m.completions) : Declared(m.name, c)

\* onRequest() "must be completed with a call to RIL_onRequestComplete()": a handler
\* that returns has completed its request exactly once.  Three handlers do otherwise:
\* requestSMSAcknowledge() and the error path of requestSignalStrength() complete twice, and
\* RIL_REQUEST_SET_NETWORK_SELECTION_AUTOMATIC is never completed.
OneCompletion ==
    \A m \in Range(out) :
        m.what = "returned" =>
            \/ Len(m.completions) = 1
            \/ Len(m.completions) = 2 /\ m.name \in {"SMS_ACKNOWLEDGE", "SIGNAL_STRENGTH"}
            \/ m.completions = <<>> /\ m.name = "SET_NETWORK_SELECTION_AUTOMATIC"

\* While the radio is on and the SIM not ready, the SIM keeps being polled: a poll is
\* pending on the timer or under way, however power requests, callbacks and closing
\* channels interleave.
SimPolled ==
    sState = "SIM_NOT_READY" =>
        \/ timers["pollSIMState"] > 0
        \/ loop.at = "CPIN?" /\ loop.req # "GET_SIM_STATUS"
        \/ loop.st \in {"set", "reread"}

\* setRadioState(): "If we're closed, the only reasonable state is RADIO_STATE_UNAVAILABLE".
\* From the reader's setRadioState() to the reopening nothing that the event loop was still
\* doing brings the radio back.
ClosedIsUnavailable ==
    s_closed /\ (\A r \in Reader : reader[r] # "setting") => sState = "UNAVAILABLE"

\* A pending command takes the modem's answer to an earlier one for its own only on a channel
\* on which the handshake timed out or NO CARRIER passed for a final response.
OwnAnswers == sp_response # NoResponse /\ sp_response.stale => slipped

\* A handler or callback on the event loop returns, provided the modem answers or hangs up;
\* or the process is gone.
HandlersReturn == loop.st # "idle" ~> loop.st = "idle" \/ fault # "none"

\* mainLoop() notices every close, however early it comes, and opens the channel again.
Reopens == s_closed ~> s_fd \/ fault # "none"
=============================================================================
