----------------------------- MODULE AtChannel -----------------------------
(***************************************************************************)
(* The AT command channel of reference-ril (atchannel.c): one command       *)
(* thread sends a command and waits, a reader thread per opened channel     *)
(* reads lines and credits them to the pending command or passes them on as  *)
(* unsolicited, and at_open() resets the shared variables without the lock.  *)
(*                                                                           *)
(* The operators describe what a call does to the channel; ReferenceRil      *)
(* joins them with what the callers do.  Everything under s_commandmutex is  *)
(* one step.  A line is what processLine() tells apart: a final response, an *)
(* intermediate line that fits ("good"), fits in its other form ("alt") or   *)
(* cannot be parsed ("odd"), the "> " prompt, or an event of the network.    *)
(*                                                                           *)
(* bound names the instance explored, an entry of Bounds chosen at the start   *)
(* and never changed.  Its field wired is FALSE for the tree as it stands, where   *)
(* readerLoop() has the calls of processLine() and s_unsolHandler() commented  *)
(* out, and TRUE for the library as it is written.                             *)
(***************************************************************************)
EXTENDS Naturals

CONSTANTS
    Reader,                 \* reader threads: more than one may be alive after a reopen
    Bounds                  \* the instances: names to records of the bounds that ReferenceRil lists

VARIABLES
    bound,
    s_fd,                   \* TRUE: open
    s_readerClosed,
    s_commandmutex,         \* "free" | "handshake": held by at_handshake() between its steps
    sp_response,            \* the pending command and its response, or NoResponse
    reader,                 \* [Reader -> where the thread is]
    modem,                  \* commands on the wire that the modem has not answered (external)
    slipped                 \* history: a command was given up before its answer

chanVars == <<bound, s_fd, s_readerClosed, s_commandmutex, sp_response, reader, modem, slipped>>

Limit == Bounds[bound]
wired == Limit.wired
MaxLines == Limit.lines                 \* intermediate lines of a response
MaxUnanswered == Limit.unanswered       \* commands the modem has yet to answer

NoResponse == [type |-> "none"]

\* The intermediate lines of a response: how many of each kind.
Kinds == {"good", "alt", "odd"}
NoLines == [k \in Kinds |-> 0]
Count(lines) == lines["good"] + lines["alt"] + lines["odd"]

\* at_response_new(), with s_type, s_responsePrefix and s_smsPDU.
\* stale (history): the final response was not the modem's answer to this command.
at_response_new(c) ==
    [type |-> c.type, prefix |-> c.prefix, s_smsPDU |-> c.sms, lines |-> NoLines,
     final |-> "none", stale |-> FALSE]

Finals == {"OK", "ERROR", "NO SIM"}         \* NO SIM: "+CME ERROR: 10"
Types == {"NO_RESULT", "NUMERIC", "SINGLELINE", "MULTILINE"}

ATResponse ==
    [type : Types, prefix : {"own", "+CREG:"}, s_smsPDU : BOOLEAN,
     lines : [Kinds -> 0..MaxLines], final : Finals \cup {"none"}, stale : BOOLEAN]

ReaderAt == {"none", "reading", "pdu", "closed", "setting", "rereading"}

ChanTypeOK ==
    /\ bound \in DOMAIN Bounds /\ s_fd \in BOOLEAN /\ s_readerClosed \in BOOLEAN
    /\ s_commandmutex \in {"free", "handshake"}
    /\ sp_response \in ATResponse \cup {NoResponse}
    /\ reader \in [Reader -> ReaderAt]
    /\ modem \in 0..MaxUnanswered /\ slipped \in BOOLEAN

ChanInit ==
    /\ bound \in DOMAIN Bounds
    /\ s_fd = FALSE /\ s_readerClosed = FALSE /\ s_commandmutex = "free"
    /\ sp_response = NoResponse
    /\ reader = [r \in Reader |-> "none"]
    /\ modem = 0 /\ slipped = FALSE

-----------------------------------------------------------------------------
(* The command thread. *)

\* The result of a command: err < 0, success > 0, "+CME ERROR: 10", and the lines.
Result(err, resp) ==
    IF err THEN [err |-> TRUE, success |-> FALSE, noSim |-> FALSE, lines |-> NoLines]
    ELSE [err |-> FALSE, success |-> resp.final = "OK", noSim |-> resp.final = "NO SIM",
          lines |-> resp.lines]

Failed == Result(TRUE, NoResponse)

\* The test of writeline() before anything is written.
ChannelClosed == ~s_fd \/ s_readerClosed

\* at_send_command_full_nolock() up to the wait.
at_send_command(c) ==
    /\ ~ChannelClosed /\ sp_response = NoResponse
    /\ modem < MaxUnanswered
    /\ sp_response' = at_response_new(c)
    /\ modem' = modem + 1
    /\ s_commandmutex' = "free"
    /\ UNCHANGED <<bound, s_fd, s_readerClosed, reader, slipped>>

\* Mutant: if instead of while, so that a spurious wake-up ends the wait.
Answered_woken == TRUE

\* while (sp_response->finalResponse == NULL && s_readerClosed == 0).
Answered == sp_response.final # "none" \/ s_readerClosed

\* at_send_command_full_nolock() from the wait on, and the callers in atchannel.c: a
\* closed channel is an error whatever has arrived, and so is a success without its line.
ResultNow ==
    LET bare == /\ sp_response.type \in {"NUMERIC", "SINGLELINE"}
                /\ sp_response.final = "OK" /\ Count(sp_response.lines) = 0
    IN Result(s_readerClosed \/ bare, sp_response)

CommandReturns ==
    /\ s_commandmutex = "free" /\ sp_response # NoResponse /\ Answered
    /\ sp_response' = NoResponse
    /\ UNCHANGED <<bound, s_fd, s_readerClosed, reader, modem, slipped>>

\* pthread_cond_timedwait() gave up, which only at_handshake() asks for: clearPendingCommand().
CommandTimesOut ==
    /\ s_commandmutex = "free" /\ sp_response # NoResponse /\ modem < MaxUnanswered
    /\ sp_response' = NoResponse
    /\ slipped' = TRUE
    /\ UNCHANGED <<bound, s_fd, s_readerClosed, reader, modem>>

-----------------------------------------------------------------------------
(* The reader thread.  processLine() needs s_commandmutex. *)

Reads(r) == reader[r] = "reading" /\ s_fd /\ s_commandmutex = "free"

\* A final response of the modem to the oldest command it has not answered.  With no
\* command pending it is unsolicited, and the handler has no use for it.
handleFinalResponse(r, f) ==
    /\ Reads(r) /\ modem > 0
    /\ modem' = modem - 1
    /\ sp_response' =
           IF ~wired \/ sp_response = NoResponse THEN sp_response
           ELSE [sp_response EXCEPT !.final = f, !.stale = modem > 1]
    /\ UNCHANGED <<bound, s_fd, s_readerClosed, s_commandmutex, reader, slipped>>

\* The types for which a line with the prefix is kept.
Keeps(resp) ==
    \/ resp.type \in {"NUMERIC", "SINGLELINE"} /\ Count(resp.lines) = 0
    \/ resp.type = "MULTILINE" /\ Count(resp.lines) < MaxLines

\* A line of the answer to the pending command.
addIntermediate(r, kind) ==
    /\ Reads(r) /\ wired /\ modem = 1
    /\ sp_response # NoResponse /\ sp_response.final = "none" /\ Keeps(sp_response)
    /\ ~sp_response.s_smsPDU
    /\ sp_response' = [sp_response EXCEPT !.lines[kind] = @ + 1]
    /\ UNCHANGED <<bound, s_fd, s_readerClosed, s_commandmutex, reader, modem, slipped>>

\* The "> " prompt of AT+CMGS and AT+CMGW.
writeCtrlZ(r) ==
    /\ Reads(r) /\ wired /\ modem = 1
    /\ sp_response # NoResponse /\ sp_response.final = "none" /\ sp_response.s_smsPDU
    /\ sp_response' = [sp_response EXCEPT !.s_smsPDU = FALSE]
    /\ UNCHANGED <<bound, s_fd, s_readerClosed, s_commandmutex, reader, modem, slipped>>

\* +CREG: stands for +CGREG: too, RING for +CRING: and +CCWA.
Events == {"RING", "NO CARRIER", "+CREG:", "+CGEV:", "%CTZV:"}

\* NO CARRIER is a final response whenever a command is pending ("sometimes!").
TakenAsFinal(e) == e = "NO CARRIER" /\ sp_response # NoResponse

\* An unsolicited registration line may pass for the answer to AT+CREG?.
TakenAsLine(e) ==
    /\ e = "+CREG:" /\ sp_response # NoResponse /\ sp_response.final = "none"
    /\ sp_response.prefix = e /\ Keeps(sp_response)

\* The event reaches s_unsolHandler.
Unsolicited(e) == wired /\ ~TakenAsFinal(e) /\ ~TakenAsLine(e)

\* processLine() of a line that the network sent on its own.
processEvent(r, e) ==
    /\ Reads(r)
    /\ (wired /\ TakenAsFinal(e)) => modem < MaxUnanswered
    /\ sp_response' =
           IF wired /\ TakenAsFinal(e)
           THEN [sp_response EXCEPT !.final = "ERROR", !.stale = TRUE]
           ELSE IF wired /\ TakenAsLine(e)
           THEN [sp_response EXCEPT !.lines["alt"] = @ + 1]
           ELSE sp_response
    /\ slipped' = (slipped \/ (wired /\ TakenAsFinal(e)))
    /\ UNCHANGED <<bound, s_fd, s_readerClosed, s_commandmutex, reader, modem>>

\* isSMSUnsolicited(): the second line of +CMT: is read without looking at the command.
FirstSmsLine(r) ==
    /\ reader[r] = "reading" /\ s_fd
    /\ reader' = [reader EXCEPT ![r] = "pdu"]
    /\ UNCHANGED <<bound, s_fd, s_readerClosed, s_commandmutex, sp_response, modem, slipped>>

SecondSmsLine(r) ==
    /\ reader[r] = "pdu" /\ s_fd
    /\ reader' = [reader EXCEPT ![r] = "reading"]
    /\ UNCHANGED <<bound, s_fd, s_readerClosed, s_commandmutex, sp_response, modem, slipped>>

\* readline() failed: onReaderClosed(), whose callback begins with at_close().
onReaderClosed(r) ==
    /\ reader[r] \in {"reading", "pdu"} /\ s_commandmutex = "free"
    /\ ~s_readerClosed
    /\ s_readerClosed' = TRUE
    /\ s_fd' = FALSE
    /\ reader' = [reader EXCEPT ![r] = "closed"]
    /\ UNCHANGED <<bound, s_commandmutex, sp_response, modem, slipped>>

-----------------------------------------------------------------------------
(* at_open(), on the main thread and without s_commandmutex. *)

\* s_fd = fd; s_readerClosed = 0.
OpenFd ==
    /\ s_fd' = TRUE /\ s_readerClosed' = FALSE
    /\ modem' = 0 /\ slipped' = (slipped /\ sp_response # NoResponse)
    /\ UNCHANGED <<bound, s_commandmutex, sp_response, reader>>

\* s_smsPDU = NULL; sp_response = NULL; pthread_create(..., readerLoop, ...).
OpenReset(r) ==
    /\ reader[r] = "none" /\ r \in Limit.readers
    /\ sp_response' = NoResponse
    /\ reader' = [reader EXCEPT ![r] = "reading"]
    /\ UNCHANGED <<bound, s_fd, s_readerClosed, s_commandmutex, modem, slipped>>
=============================================================================
